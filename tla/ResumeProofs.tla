---------------------------- MODULE ResumeProofs ----------------------------
(***************************************************************************)
(* What Resume promises about the attempts of a task, for any number of    *)
(* clients and jobs: the links between the attempts, and that at most one  *)
(* of them works.  It holds when jobs are only resumed, since no other     *)
(* handler takes the lock (a Wait that saves an old descriptor breaks it), *)
(* and when no client dies between Spawn and the saved link.               *)
(***************************************************************************)
EXTENDS JobsProofs

Exclusive == Op \subseteq {"resume"} /\ MaxCrashes = 0

\* Nobody continues j; k and only k does.
Unresumed(j) == \A k \in Job : parent[k] # j
ResumedBy(j, k) == k \in Job /\ \A i \in Job : parent[i] = j <=> i = k

\* The links of a job nobody is about to change.
Linked(j) ==
    \/ Unresumed(j) /\ (descr[j] # NoFile => descr[j].by = NoJob)
    \/ \E k \in Job : /\ ResumedBy(j, k)
                      /\ descr[j] # NoFile /\ descr[j].by = k
                      /\ descr[j].finished /\ ~descr[j].resumable
                      /\ output[j].by = k /\ ~output[j].resumable

\* A client past the lock of its job is the one the kernel gave it to.
LockInv(c) ==
    /\ pc[c] \notin {"poll", "match", "stopping", "mark"}
    /\ pc[c] # "idle" => op[c] = "resume"
    /\ pc[c] \notin {"idle", "lock"} => guard[target[c]] = c
    /\ \A j \in Job : guard[j] = c => target[c] = j /\ pc[c] \notin {"idle", "lock"}

\* How far the holder has come with the links of its job.
HeldInv(c) ==
    LET j == target[c] IN
    /\ pc[c] \in {"open", "unlock", "alive", "finish", "finished", "check", "spawn"} => Linked(j)
    /\ pc[c] \in {"alive", "finish"} => mem[c] = descr[j]
    /\ pc[c] \in {"write", "save", "remove", "spawn"} => Unresumed(j) /\ mem[c].by = NoJob
    /\ pc[c] = "remove" => ~mem[c].resumable
    /\ pc[c] \in {"finished", "check"} => mem[c] = descr[j] \/ (Unresumed(j) /\ ~mem[c].resumable)
    /\ pc[c] \in {"write", "save", "remove", "finished", "check", "spawn", "link", "relabel"} =>
         mem[c].finished
    /\ pc[c] \in {"link", "relabel"} => ResumedBy(j, mem[c].by) /\ ~mem[c].resumable
    /\ pc[c] = "relabel" => descr[j] = mem[c]

\* An attempt that was continued ended at a timeout.
ParentInv(k) == /\ parent[k] \in Job => Resumable(output[parent[k]].status)
                /\ worker[k] = "none" => parent[k] = NoJob

LinksInv == /\ \A j \in Job : ParentInv(j) /\ (guard[j] = NoClient => Linked(j))
            /\ \A c \in Client : LockInv(c) /\ HeldInv(c)

RInv == IInv /\ LinksInv

-----------------------------------------------------------------------------
(* The steps that are left.                                                *)

Act(c) == \/ FinishAgain(c) \/ FinishRead(c) \/ FinishWrite(c) \/ FinishSave(c)
          \/ FinishRemove(c) \/ Finished(c)
          \/ LockJob(c) \/ OpenLocked(c) \/ CheckStopped(c) \/ CheckResumable(c)
          \/ SpawnAttempt(c) \/ SpawnRefused(c) \/ SaveLink(c) \/ Relabel(c) \/ UnlockJob(c)

\* Neither Wait nor Interrupt nor a crash.
LEMMA OnlyResume ==
    ASSUME Exclusive, RInv, Next
    PROVE  \/ \E i \in Job : Spawn(i) \/ WorkerReports(i) \/ WorkerEnds(i)
           \/ \E c \in Client : Act(c) \/ \E i \in Job : AskResume(c, i)
<1>1. ASSUME NEW c \in Client PROVE ~Crash(c)
    BY DEF Exclusive, RInv, IInv, TypeOK, Crash
<1>2. ASSUME NEW c \in Client, NEW i \in Job, NEW o \in Op PROVE ~Open(c, o, i)
    BY DEF Exclusive, Open
<1>3. ASSUME NEW c \in Client
      PROVE  ~(PollEnds(c) \/ PollExpires(c) \/ Signal(c) \/ Stopped(c) \/ Kill(c) \/ Mark(c))
    BY DEF RInv, LinksInv, LockInv, PollEnds, PollExpires, Signal, Stopped, Kill, Mark
<1> QED
    BY <1>1, <1>2, <1>3 DEF Next, Step, Act

\* A step that leaves the links of j alone.
Frame(j) == /\ descr'[j] = descr[j] /\ output'[j].by = output[j].by
            /\ output'[j].resumable = output[j].resumable
            /\ \A k \in Job : parent'[k] = j <=> parent[k] = j

\* Either that, or j is a new job.
Left(j) == Frame(j) \/ (worker[j] = "none" /\ Linked(j)')

\* Links that are left alone stay what they are.
LEMMA FrameKeeps ==
    ASSUME NEW j \in Job, Frame(j)
    PROVE  /\ Unresumed(j)' = Unresumed(j) /\ \A k \in Job : ResumedBy(j, k)' = ResumedBy(j, k)
           /\ Linked(j) => Linked(j)'
BY DEF Frame, Unresumed, ResumedBy, Linked

\* A job without a worker has no continuation.
LEMMA NewUnresumed ==
    ASSUME RInv, NEW j \in Job, worker[j] = "none"
    PROVE  Unresumed(j) /\ parent[j] = NoJob
BY DEF RInv, IInv, JobInv, LinksInv, ParentInv, Unresumed, Resumable

\* Admission makes links for the new job, and for the one it continues, only.
LEMMA AdmitLeaves ==
    ASSUME RInv, NEW k \in Job, NEW p \in Job \cup {NoJob}, Admit(k, p), UNCHANGED output,
           p \in Job => worker[p] # "none", NEW j \in Job, j # p
    PROVE  Left(j)
<1>1. worker[k] = "none" /\ parent[k] = NoJob /\ Unresumed(k)
    BY NewUnresumed DEF Admit
<1>2. CASE j # k
    BY <1>1, <1>2, JobsAssumption DEF Admit, Left, Frame, RInv, IInv, TypeOK
<1>3. CASE j = k
    <2>1. Unresumed(k)'
        BY <1>1, <1>3 DEF Admit, Unresumed, RInv, IInv, TypeOK
    <2>2. descr'[k].by = NoJob
        BY DEF Admit, Fresh, RInv, IInv, TypeOK
    <2> QED
        BY <1>1, <1>3, <2>1, <2>2 DEF Left, Linked
<1> QED
    BY <1>2, <1>3

\* Spawn and the workers leave every job's links alone.
LEMMA JobsLeave ==
    ASSUME RInv, NEW i \in Job, Spawn(i) \/ WorkerReports(i) \/ WorkerEnds(i), NEW j \in Job
    PROVE  Left(j)
<1>1. CASE Spawn(i)
    BY <1>1, AdmitLeaves, JobsAssumption DEF Spawn
<1>2. CASE WorkerReports(i)
    <2>1. PICK s \in Outcome : output' = [output EXCEPT ![i].status = s]
        BY <1>2 DEF WorkerReports
    <2>2. output'[j].by = output[j].by /\ output'[j].resumable = output[j].resumable
        BY <2>1 DEF RInv, IInv, TypeOK, Report
    <2> QED
        BY <1>2, <2>2 DEF WorkerReports, Left, Frame
<1>3. CASE WorkerEnds(i)
    BY <1>3 DEF WorkerEnds, files, Left, Frame
<1> QED
    BY <1>1, <1>2, <1>3

\* The holder of a lock leaves the links of other jobs alone.
LEMMA ActLeaves ==
    ASSUME RInv, NEW c \in Client, Act(c), NEW j \in Job, j # target[c]
    PROVE  Left(j)
<1> USE DEF RInv, IInv, TypeOK, files, Left, Frame
<1>1. CASE FinishAgain(c)
    BY <1>1 DEF FinishAgain
<1>2. CASE FinishRead(c)
    BY <1>2 DEF FinishRead
<1>3. CASE FinishWrite(c)
    BY <1>3 DEF FinishWrite
<1>4. CASE FinishSave(c)
    BY <1>4 DEF FinishSave
<1>5. CASE FinishRemove(c)
    BY <1>5 DEF FinishRemove
<1>6. CASE Finished(c)
    BY <1>6 DEF Finished
<1>7. CASE LockJob(c)
    BY <1>7 DEF LockJob
<1>8. CASE OpenLocked(c)
    BY <1>8 DEF OpenLocked
<1>9. CASE CheckStopped(c)
    BY <1>9 DEF CheckStopped
<1>10. CASE CheckResumable(c)
    BY <1>10 DEF CheckResumable
<1>11. CASE SpawnAttempt(c)
    <2>1. PICK k \in Job : Admit(k, target[c])
        BY <1>11 DEF SpawnAttempt
    <2>2. UNCHANGED output /\ target[c] \in Job /\ worker[target[c]] # "none"
        BY <1>11 DEF SpawnAttempt, ClientInv, PlaceInv
    <2> QED
        BY <2>1, <2>2, AdmitLeaves
<1>12. CASE SpawnRefused(c)
    BY <1>12 DEF SpawnRefused
<1>13. CASE SaveLink(c)
    BY <1>13 DEF SaveLink
<1>14. CASE Relabel(c)
    BY <1>14 DEF Relabel
<1>15. CASE UnlockJob(c)
    BY <1>15 DEF UnlockJob
<1> QED
    BY <1>1, <1>2, <1>3, <1>4, <1>5, <1>6, <1>7, <1>8, <1>9, <1>10, <1>11, <1>12, <1>13, <1>14, <1>15 DEF Act

-----------------------------------------------------------------------------
(* The invariant.                                                          *)

\* A client that does not move keeps what it knows of the links.
LEMMA HeldKept ==
    ASSUME RInv, NEW d \in Client, HeldInv(d), pc[d] # "idle" => Left(target[d]),
           pc'[d] = pc[d], target'[d] = target[d], mem'[d] = mem[d]
    PROVE  HeldInv(d)'
<1>1. CASE pc[d] \in {"idle", "lock"}
    BY <1>1 DEF HeldInv
<1>2. CASE pc[d] \notin {"idle", "lock"}
    <2>1. target[d] \in Job /\ Frame(target[d])
        BY <1>2 DEF RInv, IInv, ClientInv, PlaceInv, Left
    <2>2. /\ Linked(target[d]) => Linked(target[d])'
          /\ Unresumed(target[d])' = Unresumed(target[d])
          /\ \A k \in Job : ResumedBy(target[d], k)' = ResumedBy(target[d], k)
        BY <2>1, FrameKeeps
    <2>3. ResumedBy(target[d], mem[d].by)' = ResumedBy(target[d], mem[d].by)
        BY <2>2 DEF ResumedBy
    <2> QED
        BY <2>1, <2>2, <2>3 DEF HeldInv, Frame
<1> QED
    BY <1>1, <1>2

\* The client that moves knows what it has to.
LEMMA HeldStep ==
    ASSUME RInv, NEW c \in Client, Act(c)
    PROVE  HeldInv(c)'
<1> DEFINE j == target[c]
<1>j. j \in Job /\ HeldInv(c) /\ mem[c] \in Descriptor /\ pc[c] # "idle"
    BY DEF RInv, IInv, TypeOK, LinksInv, ClientInv, PlaceInv, Act, FinishAgain, FinishRead, FinishWrite, FinishSave, FinishRemove, Finished, LockJob, OpenLocked, CheckStopped, CheckResumable, SpawnAttempt, SpawnRefused, SaveLink, Relabel, UnlockJob
<1> USE <1>j DEF RInv, IInv, TypeOK, files, local, Goto
<1>1. CASE FinishAgain(c)
    BY <1>1, JobsAssumption DEF FinishAgain, HeldInv, Linked, Unresumed, ResumedBy, Descriptor, LinksInv, Leave
<1>2. CASE FinishRead(c)
    BY <1>2, JobsAssumption DEF FinishRead, HeldInv, Linked, Unresumed, ResumedBy, Descriptor, LinksInv, Leave
<1>3. CASE FinishWrite(c)
    BY <1>3, JobsAssumption DEF FinishWrite, HeldInv, Linked, Unresumed, ResumedBy, Descriptor, LinksInv, Leave
<1>4. CASE FinishSave(c)
    BY <1>4, JobsAssumption DEF FinishSave, HeldInv, Linked, Unresumed, ResumedBy, Descriptor, LinksInv, Leave
<1>5. CASE FinishRemove(c)
    BY <1>5, JobsAssumption DEF FinishRemove, HeldInv, Linked, Unresumed, ResumedBy, Descriptor, LinksInv, Leave
<1>6. CASE Finished(c)
    <2>1. pc[c] = "finished" /\ pc'[c] = "check" /\ UNCHANGED <<target, mem, descr, output, parent>>
        BY <1>6 DEF Finished, LinksInv, LockInv
    <2> QED
        BY <2>1 DEF HeldInv, Linked, Unresumed, ResumedBy
<1>7. CASE LockJob(c)
    BY <1>7, JobsAssumption DEF LockJob, HeldInv, Linked, Unresumed, ResumedBy, Descriptor, LinksInv, Leave
<1>8. CASE OpenLocked(c)
    BY <1>8, JobsAssumption DEF OpenLocked, HeldInv, Linked, Unresumed, ResumedBy, Descriptor, LinksInv, Leave
<1>9. CASE CheckStopped(c)
    BY <1>9, JobsAssumption DEF CheckStopped, HeldInv, Linked, Unresumed, ResumedBy, Descriptor, LinksInv, Leave
<1>10. CASE CheckResumable(c)
    BY <1>10, JobsAssumption DEF CheckResumable, HeldInv, Linked, Unresumed, ResumedBy, Descriptor, LinksInv, Leave
<1>11. CASE SpawnAttempt(c)
    <2>1. PICK k \in Job : Admit(k, j) /\ mem' = [mem EXCEPT ![c].by = k, ![c].resumable = FALSE]
        BY <1>11 DEF SpawnAttempt
    <2>2. mem'[c].by = k /\ mem'[c].finished = mem[c].finished /\ mem'[c].resumable = FALSE
        BY <2>1 DEF Descriptor
    <2>3. parent' = [parent EXCEPT ![k] = j] /\ Unresumed(j)
        BY <1>11, <2>1 DEF SpawnAttempt, HeldInv, Admit
    <2>4. ResumedBy(j, k)'
        BY <1>11, <2>3 DEF SpawnAttempt, ResumedBy, Unresumed
    <2>5. pc[c] = "spawn" /\ pc'[c] = "link" /\ target'[c] = j /\ mem[c].finished
        BY <1>11 DEF SpawnAttempt, HeldInv
    <2>6. ResumedBy(target[c], mem[c].by)'
        BY <2>2, <2>4, <2>5 DEF ResumedBy
    <2> QED
        BY <2>2, <2>5, <2>6 DEF HeldInv
<1>12. CASE SpawnRefused(c)
    BY <1>12, JobsAssumption DEF SpawnRefused, HeldInv, Linked, Unresumed, ResumedBy, Descriptor, LinksInv, Leave
<1>13. CASE SaveLink(c)
    BY <1>13, JobsAssumption DEF SaveLink, HeldInv, Linked, Unresumed, ResumedBy, Descriptor, LinksInv, Leave
<1>14. CASE Relabel(c)
    BY <1>14, JobsAssumption DEF Relabel, HeldInv, Linked, Unresumed, ResumedBy, Descriptor, LinksInv, Leave
<1>15. CASE UnlockJob(c)
    BY <1>15, JobsAssumption DEF UnlockJob, HeldInv, Linked, Unresumed, ResumedBy, Descriptor, LinksInv, Leave
<1> QED
    BY <1>1, <1>2, <1>3, <1>4, <1>5, <1>6, <1>7, <1>8, <1>9, <1>10, <1>11, <1>12, <1>13, <1>14, <1>15 DEF Act

\* The locks are what the clients' places say.
LEMMA LockStep ==
    ASSUME RInv, Exclusive, [Next]_vars, NEW d \in Client
    PROVE  LockInv(d)'
<1> USE JobsAssumption DEF RInv, IInv, TypeOK, LinksInv, LockInv, files, local, Goto
<1>1. ASSUME NEW i \in Job, Spawn(i) \/ WorkerReports(i) \/ WorkerEnds(i) PROVE LockInv(d)'
    BY <1>1 DEF Spawn, WorkerReports, WorkerEnds
<1>2. ASSUME NEW c \in Client, NEW i \in Job, AskResume(c, i) PROVE LockInv(d)'
    BY <1>2 DEF AskResume
<1>3. ASSUME NEW c \in Client, LockJob(c) PROVE LockInv(d)'
    BY <1>3 DEF LockJob, ClientInv, PlaceInv
<1>4. ASSUME NEW c \in Client, UnlockJob(c) PROVE LockInv(d)'
    BY <1>4 DEF UnlockJob, Leave, ClientInv, PlaceInv
<1>5. ASSUME NEW c \in Client, Act(c), ~LockJob(c), ~UnlockJob(c) PROVE LockInv(d)'
    <2>1. UNCHANGED <<guard, target, op>> /\ pc[c] \notin {"idle", "lock"}
        BY <1>5 DEF Act, FinishAgain, FinishRead, FinishWrite, FinishSave, FinishRemove, Finished,
                    OpenLocked, CheckStopped, CheckResumable, SpawnAttempt, SpawnRefused, SaveLink, Relabel
    <2>2. pc'[c] \notin {"idle", "lock", "poll", "match", "stopping", "mark"} /\ (d # c => pc'[d] = pc[d])
        BY <1>5 DEF Act, FinishAgain, FinishRead, FinishWrite, FinishSave, FinishRemove, Finished,
                    OpenLocked, CheckStopped, CheckResumable, SpawnAttempt, SpawnRefused, SaveLink, Relabel
    <2> QED
        BY <2>1, <2>2
<1>6. CASE UNCHANGED vars
    BY <1>6 DEF vars
<1> QED
    BY <1>1, <1>2, <1>3, <1>4, <1>5, <1>6, OnlyResume

\* Only a timed-out attempt is continued.
LEMMA ParentStep ==
    ASSUME RInv, Exclusive, [Next]_vars, NEW k \in Job
    PROVE  ParentInv(k)'
<1>k. \A j \in Job : Keeps(j)
    BY KeepsStep DEF RInv
<1>1. CASE parent'[k] = parent[k]
    BY <1>1, <1>k, JobsAssumption DEF RInv, LinksInv, ParentInv, Keeps, Resumable
<1>2. ASSUME NEW c \in Client, SpawnAttempt(c), parent'[k] # parent[k] PROVE ParentInv(k)'
    <2>1. PICK n \in Job : Admit(n, target[c])
        BY <1>2 DEF SpawnAttempt
    <2>2. n = k /\ parent'[k] = target[c] /\ worker'[k] = "running" /\ UNCHANGED output
        BY <1>2, <2>1 DEF SpawnAttempt, Admit, RInv, IInv, TypeOK
    <2>3. Resumable(output[target[c]].status)
        BY <1>2 DEF SpawnAttempt, RInv, IInv, ClientInv, MemoryInv
    <2> QED
        BY <2>2, <2>3 DEF ParentInv
<1>3. ASSUME NEW c \in Client, Act(c) \/ (\E i \in Job : AskResume(c, i)), ~SpawnAttempt(c) PROVE UNCHANGED parent
    BY <1>3 DEF Act, FinishAgain, FinishRead, FinishWrite, FinishSave, FinishRemove, Finished, LockJob,
                OpenLocked, CheckStopped, CheckResumable, SpawnRefused, SaveLink, Relabel, UnlockJob, AskResume
<1>4. ASSUME NEW i \in Job, Spawn(i) \/ WorkerReports(i) \/ WorkerEnds(i) PROVE parent'[k] = parent[k]
    BY <1>4, NewUnresumed DEF Spawn, Admit, WorkerReports, WorkerEnds, RInv, IInv, TypeOK
<1>5. CASE UNCHANGED vars
    BY <1>1, <1>5 DEF vars
<1> QED
    BY <1>1, <1>2, <1>3, <1>4, <1>5, OnlyResume

\* The links of a job whose lock is free, and the knowledge of the holders.
LEMMA LinksStep == RInv /\ Exclusive /\ [Next]_vars => LinksInv'
<1> SUFFICES ASSUME RInv, Exclusive, [Next]_vars PROVE LinksInv'
    OBVIOUS
<1> DEFINE Free == \A j \in Job : guard'[j] = NoClient => Linked(j)'
           Held == \A d \in Client : HeldInv(d)'
<1>1. ASSUME NEW j \in Job, guard[j] = NoClient, Left(j) PROVE Linked(j)'
    BY <1>1, FrameKeeps DEF Left, RInv, LinksInv
<1>2. ASSUME NEW i \in Job, Spawn(i) \/ WorkerReports(i) \/ WorkerEnds(i) PROVE Free /\ Held
    <2>1. UNCHANGED <<guard, pc, target, mem>>
        BY <1>2 DEF Spawn, WorkerReports, WorkerEnds, files, local
    <2>2. \A j \in Job : Left(j)
        BY <1>2, JobsLeave
    <2>3. Free
        BY <1>1, <2>1, <2>2
    <2>4. Held
        BY <2>1, <2>2, HeldKept DEF RInv, LinksInv, IInv, ClientInv, PlaceInv
    <2> QED
        BY <2>3, <2>4
<1>3. ASSUME NEW c \in Client, NEW i \in Job, AskResume(c, i) PROVE Free /\ Held
    <2>1. UNCHANGED <<guard, mem>> /\ pc'[c] = "lock" /\ pc[c] = "idle"
        BY <1>3 DEF AskResume, files, local, Goto, RInv, IInv, TypeOK
    <2>2. \A j \in Job : Left(j)
        BY <1>3 DEF AskResume, files, Left, Frame
    <2>3. Free
        BY <1>1, <2>1, <2>2
    <2>4. ASSUME NEW d \in Client PROVE HeldInv(d)'
        <3>1. CASE d = c
            BY <2>1, <3>1 DEF HeldInv
        <3>2. CASE d # c
            <4>1. pc'[d] = pc[d] /\ target'[d] = target[d] /\ mem'[d] = mem[d]
                BY <1>3, <3>2 DEF AskResume, Goto, RInv, IInv, TypeOK
            <4> QED
                BY <2>2, <4>1, HeldKept DEF RInv, LinksInv, IInv, ClientInv, PlaceInv
        <3> QED
            BY <3>1, <3>2
    <2> QED
        BY <2>3, <2>4
<1>4. ASSUME NEW c \in Client, Act(c) PROVE Free /\ Held
    <2>1. target[c] \in Job /\ pc[c] # "idle"
        BY <1>4 DEF RInv, IInv, TypeOK, ClientInv, PlaceInv, Act, FinishAgain, FinishRead, FinishWrite,
           FinishSave, FinishRemove, Finished, LockJob, OpenLocked, CheckStopped, CheckResumable,
           SpawnAttempt, SpawnRefused, SaveLink, Relabel, UnlockJob
    <2>2. HeldInv(c)'
        BY <1>4, HeldStep
    <2>3. ASSUME NEW j \in Job, guard'[j] = NoClient PROVE Linked(j)'
        <3>1. CASE j # target[c]
            <4>1. guard[j] = NoClient
                BY <1>4, <2>3, <3>1 DEF RInv, IInv, TypeOK, files, Act, FinishAgain, FinishRead, FinishWrite,
                   FinishSave, FinishRemove, Finished, LockJob, OpenLocked, CheckStopped, CheckResumable,
                   SpawnAttempt, SpawnRefused, SaveLink, Relabel, UnlockJob
            <4> QED
                BY <1>1, <1>4, <3>1, <4>1, ActLeaves
        <3>2. CASE j = target[c]
            <4>1. UnlockJob(c)
                BY <1>4, <2>3, <3>2, JobsAssumption
                   DEF RInv, IInv, TypeOK, LinksInv, LockInv, files, Act, FinishAgain, FinishRead, FinishWrite,
                       FinishSave, FinishRemove, Finished, LockJob, OpenLocked, CheckStopped, CheckResumable,
                       SpawnAttempt, SpawnRefused, SaveLink, Relabel
            <4>2. Linked(j)
                BY <3>2, <4>1 DEF UnlockJob, RInv, LinksInv, HeldInv
            <4>3. Frame(j)
                BY <4>1 DEF UnlockJob, Frame
            <4> QED
                BY <4>2, <4>3, FrameKeeps
        <3> QED
            BY <3>1, <3>2
    <2>4. ASSUME NEW d \in Client, d # c PROVE HeldInv(d)'
        <3>1. pc'[d] = pc[d] /\ target'[d] = target[d] /\ mem'[d] = mem[d]
            BY <1>4, <2>4, Private DEF RInv, IInv, Act, Step
        <3>2. CASE target[d] = target[c] /\ pc[c] # "lock"
            <4>1. pc[d] \in {"idle", "lock"}
                BY <2>1, <2>4, <3>2 DEF RInv, LinksInv, LockInv
            <4> QED
                BY <3>1, <4>1 DEF HeldInv
        <3>3. CASE target[d] # target[c]
            BY <1>4, <3>1, <3>3, ActLeaves, HeldKept DEF RInv, LinksInv, IInv, ClientInv, PlaceInv
        <3>4. CASE target[d] = target[c] /\ pc[c] = "lock"
            <4>1. LockJob(c)
                BY <1>4, <3>4 DEF Act, FinishAgain, FinishRead, FinishWrite, FinishSave, FinishRemove,
                   Finished, OpenLocked, CheckStopped, CheckResumable, SpawnAttempt, SpawnRefused,
                   SaveLink, Relabel, UnlockJob
            <4>2. Left(target[d])
                BY <4>1 DEF LockJob, Left, Frame
            <4> QED
                BY <3>1, <4>2, HeldKept DEF RInv, LinksInv
        <3> QED
            BY <3>2, <3>3, <3>4
    <2> QED
        BY <2>2, <2>3, <2>4
<1>5. ASSUME UNCHANGED vars PROVE Free /\ Held
    <2>1. \A j \in Job : Left(j)
        BY <1>5 DEF vars, files, Left, Frame
    <2>2. UNCHANGED <<guard, pc, target, mem>>
        BY <1>5 DEF vars, files, local
    <2>3. Free
        BY <1>1, <2>1, <2>2
    <2>4. Held
        BY <2>1, <2>2, HeldKept DEF RInv, LinksInv, IInv, ClientInv, PlaceInv
    <2> QED
        BY <2>3, <2>4
<1>6. Free /\ Held
    BY <1>2, <1>3, <1>4, <1>5, OnlyResume
<1>7. (\A j \in Job : ParentInv(j)') /\ (\A d \in Client : LockInv(d)')
    BY LockStep, ParentStep
<1> QED
    BY <1>6, <1>7 DEF LinksInv

-----------------------------------------------------------------------------
(* The theorems.                                                           *)

\* The links are what they must be in every reachable state.
LEMMA ResumeInvariance ==
    ASSUME Exclusive
    PROVE  Spec => []RInv
<1>1. Init => RInv
    <2>1. Init => IInv
        BY InitInv
    <2>2. Init => LinksInv
        <3> SUFFICES ASSUME Init PROVE LinksInv
            OBVIOUS
        <3>1. \A j \in Job : ParentInv(j) /\ Linked(j)
            BY JobsAssumption DEF Init, ParentInv, Linked, Unresumed
        <3>2. \A c \in Client : LockInv(c) /\ HeldInv(c)
            BY JobsAssumption DEF Init, LockInv, HeldInv
        <3> QED
            BY <3>1, <3>2 DEF LinksInv
    <2> QED
        BY <2>1, <2>2 DEF RInv
<1>2. RInv /\ [Next]_vars => RInv'
    BY TypeStep, JobStep, ClientStep, LinksStep DEF RInv, IInv, ClientInv
<1> QED
    BY <1>1, <1>2, PTL DEF Spec

\* At any time a job is continued by nobody or by one job.
LEMMA AtMostOnce ==
    ASSUME RInv, NEW j \in Job
    PROVE  Unresumed(j) \/ \E k \in Job : ResumedBy(j, k)
<1>1. CASE guard[j] = NoClient
    BY <1>1 DEF RInv, LinksInv, Linked
<1>2. CASE guard[j] # NoClient
    <2>1. PICK c \in Client : guard[j] = c
        BY <1>2 DEF RInv, IInv, TypeOK
    <2>2. target[c] = j /\ pc[c] \notin {"idle", "lock", "poll", "match", "stopping", "mark"} /\ HeldInv(c)
        BY <2>1 DEF RInv, LinksInv, LockInv
    <2>3. pc[c] \in {"open", "unlock", "alive", "finish", "finished", "check", "spawn", "write",
                     "save", "remove", "link", "relabel"}
        BY <2>2 DEF RInv, IInv, TypeOK
    <2> QED
        BY <2>2, <2>3 DEF HeldInv, Linked, ResumedBy
<1> QED
    BY <1>1, <1>2

\* However many clients ask, an attempt is continued at most once.
THEOREM ResumedAtMostOnce ==
    ASSUME Exclusive
    PROVE  Spec => []ResumedOnce
<1>1. RInv => ResumedOnce
    <2> SUFFICES ASSUME RInv, NEW j \in Job PROVE Cardinality(Resumes(j)) <= 1
        BY DEF ResumedOnce
    <2>1. CASE Unresumed(j)
        <3>1. Resumes(j) = {}
            BY <2>1 DEF Unresumed, Resumes
        <3> QED
            BY <3>1, FS_EmptySet
    <2>2. ASSUME NEW k \in Job, ResumedBy(j, k) PROVE Cardinality(Resumes(j)) <= 1
        <3>1. Resumes(j) = {k}
            BY <2>2 DEF ResumedBy, Resumes
        <3> QED
            BY <3>1, FS_Singleton
    <2> QED
        BY <2>1, <2>2, AtMostOnce
<1> QED
    BY ResumeInvariance, <1>1, PTL

\* Once Resume has returned, the descriptor and the report of the previous attempt
\* name the attempt that names it as its parent, and can be used for no other.
THEOREM LinksAreMutual ==
    ASSUME Exclusive
    PROVE  Spec => []LinksAgree
<1>1. RInv => LinksAgree
    <2> SUFFICES ASSUME RInv, NEW j \in Job, Resumes(j) # {}, guard[j] = NoClient
                 PROVE  /\ descr[j] # NoFile
                        /\ descr[j].by \in Resumes(j)
                        /\ ~descr[j].resumable /\ ~output[j].resumable
                        /\ output[j].by = descr[j].by
        BY DEF LinksAgree
    <2>1. Linked(j) /\ ~Unresumed(j)
        BY DEF RInv, LinksInv, Resumes, Unresumed
    <2> QED
        BY <2>1 DEF Linked, ResumedBy, Resumes
<1> QED
    BY ResumeInvariance, <1>1, PTL

-----------------------------------------------------------------------------
(* The tree of attempts.  Original is a recursive definition, about which  *)
(* nothing can be proved by induction; instead a function that satisfies   *)
(* its equation is carried along the steps, and so are the properties of   *)
(* all such functions.                                                     *)

\* The equation of Original.
Roots(f) == f = [j \in Job |-> IF parent[j] = NoJob THEN j ELSE f[parent[j]]]

\* The last attempt of a task.
Tip(j) == worker[j] # "none" /\ Unresumed(j)

TreeInv ==
    /\ \E f : Roots(f)
    /\ \A f : Roots(f) =>
         /\ \A j \in Job : f[j] \in Job /\ (worker[j] # "none" => worker[f[j]] # "none")
         /\ \A j, k \in Job : Tip(j) /\ Tip(k) /\ f[j] = f[k] => j = k

\* The equation, job by job.
LEMMA RootsOf ==
    ASSUME NEW f
    PROVE  Roots(f) <=> /\ f \in [Job -> {f[j] : j \in Job}]
                        /\ \A j \in Job : f[j] = IF parent[j] = NoJob THEN j ELSE f[parent[j]]
BY DEF Roots

\* A job that is not spawned is its own first attempt, and nobody's.
LEMMA NewRoot ==
    ASSUME RInv, TreeInv, NEW f, Roots(f), NEW k \in Job, worker[k] = "none"
    PROVE  f[k] = k /\ \A j \in Job : worker[j] # "none" => f[j] # k
<1>1. f[k] = k
    BY NewUnresumed, RootsOf
<1>2. ASSUME NEW j \in Job, worker[j] # "none" PROVE f[j] # k
    BY <1>2 DEF TreeInv
<1> QED
    BY <1>1, <1>2

\* The new attempt k of a task continues the tip p, or starts a task (NoJob).
LEMMA TreeAdmit ==
    ASSUME RInv, TreeInv, NEW k \in Job, NEW p \in Job \cup {NoJob}, Admit(k, p),
           p \in Job => Tip(p)
    PROVE  TreeInv'
<1> USE DEF RInv, IInv, TypeOK
<1>1. /\ worker[k] = "none" /\ parent[k] = NoJob /\ \A j \in Job : parent[j] # k
      /\ worker' = [worker EXCEPT ![k] = "running"] /\ parent' = [parent EXCEPT ![k] = p]
    BY NewUnresumed DEF Admit, Unresumed
<1>2. p # k
    BY <1>1, JobsAssumption DEF Tip
<1> DEFINE Old(g) == [g EXCEPT ![k] = k]
           New(f) == [f EXCEPT ![k] = IF p = NoJob THEN k ELSE f[p]]
<1>3. ASSUME NEW f, Roots(f) PROVE Roots(New(f))'
    <2> DEFINE h == New(f)
    <2>1. DOMAIN f = Job /\ \A j \in Job : f[j] = IF parent[j] = NoJob THEN j ELSE f[parent[j]]
        BY <1>3 DEF Roots
    <2>2. h = [j \in Job |-> IF j = k THEN IF p = NoJob THEN k ELSE f[p] ELSE f[j]]
        BY <1>3 DEF Roots
    <2>3. ASSUME NEW j \in Job PROVE h[j] = IF parent'[j] = NoJob THEN j ELSE h[parent'[j]]
        <3>1. CASE j = k
            BY <1>1, <1>2, <2>2, <3>1, JobsAssumption
        <3>2. CASE j # k
            <4>1. parent'[j] = parent[j] /\ parent[j] # k /\ parent[j] \in Job \cup {NoJob}
                BY <1>1, <3>2
            <4> QED
                BY <2>1, <2>2, <3>2, <4>1
        <3> QED
            BY <3>1, <3>2
    <2> HIDE DEF h
    <2>4. h = [j \in Job |-> h[j]]
        BY <2>2
    <2>5. h = [j \in Job |-> IF parent'[j] = NoJob THEN j ELSE h[parent'[j]]]
        BY <2>3, <2>4
    <2> QED
        BY <2>5 DEF h, Roots
<1>4. ASSUME NEW g, Roots(g)' PROVE Roots(Old(g)) /\ g[k] = (IF p = NoJob THEN k ELSE g[p])
    <2> DEFINE h == Old(g)
    <2>1. DOMAIN g = Job /\ \A j \in Job : g[j] = IF parent'[j] = NoJob THEN j ELSE g[parent'[j]]
        BY <1>4 DEF Roots
    <2>2. h = [j \in Job |-> IF j = k THEN k ELSE g[j]]
        BY <1>4 DEF Roots
    <2>3. ASSUME NEW j \in Job PROVE h[j] = IF parent[j] = NoJob THEN j ELSE h[parent[j]]
        <3>1. CASE j = k
            BY <1>1, <2>2, <3>1
        <3>2. CASE j # k
            <4>1. parent'[j] = parent[j] /\ parent[j] # k /\ parent[j] \in Job \cup {NoJob}
                BY <1>1, <3>2
            <4> QED
                BY <2>1, <2>2, <3>2, <4>1
        <3> QED
            BY <3>1, <3>2
    <2> HIDE DEF h
    <2>4. h = [j \in Job |-> h[j]]
        BY <2>2
    <2>5. h = [j \in Job |-> IF parent[j] = NoJob THEN j ELSE h[parent[j]]]
        BY <2>3, <2>4
    <2>6. g[k] = IF p = NoJob THEN k ELSE g[p]
        BY <1>1, <2>1
    <2> QED
        BY <2>5, <2>6 DEF h, Roots
<1>5. (\E f : Roots(f))'
    BY <1>3 DEF TreeInv
<1>6. ASSUME NEW g, Roots(g)'
      PROVE  /\ \A j \in Job : g[j] \in Job /\ (worker'[j] # "none" => worker'[g[j]] # "none")
             /\ \A i, j \in Job : Tip(i)' /\ Tip(j)' /\ g[i] = g[j] => i = j
    <2> DEFINE f == Old(g)
    <2>1. Roots(f) /\ g[k] = (IF p = NoJob THEN k ELSE g[p])
        BY <1>4, <1>6
    <2>2. \A j \in Job : j # k => f[j] = g[j]
        BY <1>6 DEF Roots
    <2>3. f[k] = k /\ \A j \in Job : worker[j] # "none" => f[j] # k
        BY <1>1, <2>1, NewRoot
    <2> HIDE DEF f
    <2>4. /\ \A j \in Job : f[j] \in Job /\ (worker[j] # "none" => worker[f[j]] # "none")
          /\ \A i, j \in Job : Tip(i) /\ Tip(j) /\ f[i] = f[j] => i = j
        BY <2>1 DEF TreeInv
    <2>5. p \in Job => g[k] = f[p] /\ worker[p] # "none"
        BY <1>2, <2>1, <2>2, JobsAssumption DEF Tip
    <2>6. g[k] \in Job /\ worker'[g[k]] # "none"
        BY <1>1, <2>1, <2>4, <2>5
    <2>7. \A j \in Job : g[j] \in Job /\ (worker'[j] # "none" => worker'[g[j]] # "none")
        BY <1>1, <2>2, <2>4, <2>6
    <2>8. \A j \in Job : j # k /\ Tip(j)' => Tip(j) /\ j # p
        BY <1>1, JobsAssumption DEF Tip, Unresumed
    <2>9. \A j \in Job : j # k /\ Tip(j)' => g[j] # g[k]
        <3>1. CASE p = NoJob
            BY <2>1, <2>2, <2>3, <2>8, <3>1 DEF Tip
        <3>2. CASE p \in Job
            BY <2>2, <2>4, <2>5, <2>8, <3>2
        <3> QED
            BY <3>1, <3>2
    <2>10. ASSUME NEW i \in Job, NEW j \in Job, Tip(i)', Tip(j)', g[i] = g[j] PROVE i = j
        <3>1. CASE i = k \/ j = k
            BY <2>9, <2>10, <3>1
        <3>2. CASE i # k /\ j # k
            BY <2>2, <2>4, <2>8, <2>10, <3>2
        <3> QED
            BY <3>1, <3>2
    <2> QED
        BY <2>7, <2>10
<1> QED
    BY <1>5, <1>6 DEF TreeInv

\* The other steps leave the tree as it is.
LEMMA TreeStays ==
    ASSUME RInv, TreeInv, parent' = parent,
           \A j \in Job : worker'[j] = "none" <=> worker[j] = "none"
    PROVE  TreeInv'
<1>1. \A f : Roots(f)' <=> Roots(f)
    BY DEF Roots
<1>2. \A j \in Job : Tip(j)' <=> Tip(j)
    BY DEF Tip, Unresumed
<1> QED
    BY <1>1, <1>2 DEF TreeInv

LEMMA TreeStep == RInv /\ Exclusive /\ TreeInv /\ [Next]_vars => TreeInv'
<1> SUFFICES ASSUME RInv, Exclusive, TreeInv, [Next]_vars PROVE TreeInv'
    OBVIOUS
<1> USE DEF RInv, IInv, TypeOK
<1>1. ASSUME NEW i \in Job, Spawn(i) PROVE TreeInv'
    BY <1>1, TreeAdmit, JobsAssumption DEF Spawn
<1>2. ASSUME NEW i \in Job, WorkerReports(i) \/ WorkerEnds(i) PROVE TreeInv'
    BY <1>2, TreeStays DEF WorkerReports, WorkerEnds, WorkerMatches
<1>3. ASSUME NEW c \in Client, SpawnAttempt(c) PROVE TreeInv'
    <2>1. PICK k \in Job : Admit(k, target[c])
        BY <1>3 DEF SpawnAttempt
    <2>2. target[c] \in Job /\ Tip(target[c])
        BY <1>3 DEF SpawnAttempt, ClientInv, PlaceInv, LinksInv, HeldInv, Tip
    <2> QED
        BY <2>1, <2>2, TreeAdmit
<1>4. ASSUME NEW c \in Client, Act(c) \/ (\E i \in Job : AskResume(c, i)), ~SpawnAttempt(c) PROVE TreeInv'
    <2>1. UNCHANGED <<worker, parent>>
        BY <1>4 DEF Act, FinishAgain, FinishRead, FinishWrite, FinishSave, FinishRemove, Finished, LockJob,
           OpenLocked, CheckStopped, CheckResumable, SpawnRefused, SaveLink, Relabel, UnlockJob, AskResume
    <2> QED
        BY <2>1, TreeStays
<1>5. CASE UNCHANGED vars
    BY <1>5, TreeStays DEF vars
<1> QED
    BY <1>1, <1>2, <1>3, <1>4, <1>5, OnlyResume

\* Two workers never work on the same task at the same time, however many resumes
\* there have been and whoever asked for them.
THEOREM AttemptsDoNotOverlap ==
    ASSUME Exclusive
    PROVE  Spec => []NoOverlap
<1>1. Init => TreeInv
    <2> SUFFICES ASSUME Init PROVE TreeInv
        OBVIOUS
    <2>1. Roots([j \in Job |-> j])
        BY DEF Roots, Init
    <2>2. ASSUME NEW f, Roots(f) PROVE f = [j \in Job |-> j]
        BY <2>2 DEF Roots, Init
    <2>3. \A j \in Job : ~Tip(j)
        BY DEF Tip, Init
    <2> QED
        BY <2>1, <2>2, <2>3 DEF TreeInv, Init
<1>2. RInv /\ TreeInv => NoOverlap
    <2> SUFFICES ASSUME RInv, TreeInv, NEW j \in Job, NEW k \in Job,
                        worker[j] = "running", worker[k] = "running", Original[j] = Original[k]
                 PROVE  j = k
        BY DEF NoOverlap
    <2>1. Roots(Original)
        BY DEF TreeInv, Roots, Original
    <2>2. ASSUME NEW i \in Job, worker[i] = "running" PROVE Tip(i)
        BY <2>2 DEF RInv, IInv, JobInv, LinksInv, ParentInv, Resumable, Tip, Unresumed
    <2> QED
        BY <2>1, <2>2 DEF TreeInv
<1>3. RInv /\ TreeInv /\ RInv' /\ [Next]_vars => TreeInv'
    BY TreeStep
<1> QED
    BY ResumeInvariance, <1>1, <1>2, <1>3, PTL DEF Spec

-----------------------------------------------------------------------------
\* Resume implements the promise of Lineage: every step of the handlers is the
\* start, the end or the continuation of an attempt as stated there, or shows
\* nothing of itself.
THEOREM ResumeImplementsLineage ==
    ASSUME Exclusive
    PROVE  Spec => ImplementsLineage
<1>1. Init => Attempts!LInit
    BY DEF Init, Attempts!LInit, Phase
<1>2. RInv /\ [Next]_vars => [Attempts!LNext]_(Attempts!lvars)
    <2> SUFFICES ASSUME RInv, [Next]_vars
                 PROVE  Attempts!LNext \/ UNCHANGED <<[j \in Job |-> Phase(j)], parent>>
        BY DEF Attempts!lvars
    <2> USE DEF RInv, IInv, TypeOK
    <2>k. \A j \in Job : Keeps(j)
        BY KeepsStep
    <2>p. ASSUME UNCHANGED worker, NEW j \in Job PROVE Phase(j)' = Phase(j)
        BY <2>k, <2>p DEF Phase, Keeps, Resumable, Over, JobInv
    <2>1. ASSUME NEW k \in Job, NEW p \in Job \cup {NoJob}, Admit(k, p), UNCHANGED output
          PROVE  Attempts!Start(k) /\ parent' = [parent EXCEPT ![k] = p]
        <3>1. worker[k] = "none" /\ worker' = [worker EXCEPT ![k] = "running"]
            BY <2>1 DEF Admit
        <3>2. Phase(k) = "unused" /\ Phase(k)' = "working"
            BY <3>1 DEF Phase
        <3>3. \A j \in Job : j # k => Phase(j)' = Phase(j)
            BY <2>1, <3>1 DEF Phase
        <3> QED
            BY <2>1, <3>2, <3>3 DEF Attempts!Start, Admit
    <2>2. ASSUME NEW i \in Job, Spawn(i) PROVE Attempts!LNext
        <3>1. Attempts!Start(i) /\ parent' = [parent EXCEPT ![i] = NoJob]
            BY <2>1, <2>2 DEF Spawn
        <3>2. parent' = parent
            BY <2>2, <3>1, NewUnresumed DEF Spawn, Admit
        <3> QED
            BY <3>1, <3>2 DEF Attempts!LNext, Attempts!Begin
    <2>3. ASSUME NEW i \in Job, NEW w \in {"exiting", "gone"}, worker[i] = "running",
                 worker' = [worker EXCEPT ![i] = w], UNCHANGED parent,
                 \A j \in Job : j # i => output'[j] = output[j]
          PROVE  Attempts!LNext
        <3>1. Phase(i) = "working" /\ Phase(i)' \in {"ended", "checkpoint"}
            BY <2>3 DEF Phase
        <3>2. \A j \in Job : j # i => Phase(j)' = Phase(j)
            BY <2>3 DEF Phase
        <3>3. Attempts!Stop(i)
            BY <2>3, <3>1, <3>2 DEF Attempts!Stop
        <3> QED
            BY <3>3 DEF Attempts!LNext
    <2>4. ASSUME NEW i \in Job, WorkerReports(i) PROVE Attempts!LNext
        BY <2>3, <2>4 DEF WorkerReports
    <2>5. ASSUME NEW i \in Job, WorkerEnds(i)
          PROVE  Attempts!LNext \/ UNCHANGED <<[j \in Job |-> Phase(j)], parent>>
        <3>1. CASE worker[i] = "running"
            BY <2>3, <2>5, <3>1 DEF WorkerEnds, files
        <3>2. CASE worker[i] = "exiting"
            BY <2>5, <3>2 DEF WorkerEnds, files, Phase
        <3> QED
            BY <2>5, <3>1, <3>2 DEF WorkerEnds, WorkerMatches
    <2>6. ASSUME NEW c \in Client, SpawnAttempt(c) PROVE Attempts!LNext
        <3>1. PICK k \in Job : Admit(k, target[c])
            BY <2>6 DEF SpawnAttempt
        <3>2. /\ target[c] \in Job /\ Unresumed(target[c])
              /\ Resumable(output[target[c]].status) /\ UNCHANGED output
            BY <2>6 DEF SpawnAttempt, ClientInv, PlaceInv, MemoryInv, LinksInv, HeldInv
        <3>3. Phase(target[c]) = "checkpoint"
            BY <3>2 DEF Phase, JobInv, Resumable
        <3>4. Attempts!Start(k) /\ parent' = [parent EXCEPT ![k] = target[c]]
            BY <2>1, <3>1, <3>2
        <3>5. Attempts!Continue(target[c], k)
            BY <3>2, <3>3, <3>4 DEF Attempts!Continue, Unresumed
        <3> QED
            BY <3>2, <3>5 DEF Attempts!LNext
    <2>7. ASSUME NEW c \in Client, Act(c) \/ (\E i \in Job : AskResume(c, i)), ~SpawnAttempt(c)
          PROVE  UNCHANGED <<[j \in Job |-> Phase(j)], parent>>
        <3>1. UNCHANGED <<worker, parent>>
            BY <2>7 DEF Act, FinishAgain, FinishRead, FinishWrite, FinishSave, FinishRemove, Finished,
               LockJob, OpenLocked, CheckStopped, CheckResumable, SpawnRefused, SaveLink, Relabel,
               UnlockJob, AskResume
        <3> QED
            BY <2>p, <3>1
    <2>8. CASE UNCHANGED vars
        BY <2>p, <2>8 DEF vars
    <2> QED
        BY <2>2, <2>4, <2>5, <2>6, <2>7, <2>8, OnlyResume
<1> QED
    BY ResumeInvariance, <1>1, <1>2, PTL DEF Spec, ImplementsLineage, Attempts!LSpec
=============================================================================
