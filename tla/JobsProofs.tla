----------------------------- MODULE JobsProofs -----------------------------
(***************************************************************************)
(* What becomes of a job, for any number of clients, jobs and outcomes and *)
(* any number of crashes; and what Resume promises about the attempts of a *)
(* task, as long as every client takes its lock and none dies holding it.  *)
(***************************************************************************)
EXTENDS Jobs, FiniteSetTheorems, TLAPS

\* A worker that is gone, or that has reported: nothing of its status changes
\* any more but the "interrupted" it may be given when it has none.
Over(j) == output[j].status # "none" \/ worker[j] = "gone"

\* What a caller may be told of a job that is over.
Agrees(s, j) == \/ s = output[j].status
                \/ s = "failed" /\ output[j].status \in {"none", "interrupted"}

\* Jobs: the report is the worker's, or written for it when it was gone; a
\* finished descriptor is one of a timeout; a running job is listed.
JobInv(j) ==
    /\ worker[j] = "none" => descr[j] = NoFile
    /\ worker[j] \in {"none", "running"} => output[j].status = "none"
    /\ worker[j] = "exiting" => output[j].status # "none"
    /\ worker[j] = "running" => descr[j] # NoFile /\ descr[j].finished = FALSE
    /\ output[j].status # "failed"
    /\ Resumable(output[j].status) => descr[j] # NoFile
    /\ descr[j] # NoFile /\ descr[j].finished => Resumable(output[j].status)
    /\ told[j] # {} => Over(j)
    /\ \A s \in told[j] : s # "none" /\ Agrees(s, j)

\* Clients: what a handler has found out about its job stays true of it, even
\* if other clients have been at the job since.
PlaceInv(c) ==
    /\ pc[c] # "idle" => target[c] \in Job /\ worker[target[c]] # "none"
    /\ pc[c] = "mark" => worker[target[c]] = "gone"
    /\ pc[c] \in {"finish", "write", "save", "remove", "finished", "check", "spawn",
                  "link", "relabel"} => Over(target[c])

MemoryInv(c) ==
    /\ pc[c] \in {"poll", "match", "stopping", "mark", "finish", "alive"} /\ mem[c].finished
         => Resumable(output[target[c]].status)
    /\ pc[c] \in {"finished", "check"} /\ mem[c].resumable => Resumable(output[target[c]].status)
    /\ pc[c] \in {"write", "save", "spawn", "link", "relabel"} => Resumable(output[target[c]].status)
    /\ pc[c] = "remove" => ~Resumable(output[target[c]].status) /\ ~mem[c].resumable

ReportInv(c) ==
    /\ pc[c] \in {"write", "save", "remove", "finished"} =>
         report[c].status # "none" /\ Agrees(report[c].status, target[c])
    /\ pc[c] = "write" => report[c].status = output[target[c]].status

ClientInv(c) == PlaceInv(c) /\ MemoryInv(c) /\ ReportInv(c)

IInv == TypeOK /\ (\A j \in Job : JobInv(j)) /\ (\A c \in Client : ClientInv(c))

\* What no step undoes.
Keeps(j) ==
    /\ worker[j] # "none" => worker'[j] # "none"
    /\ worker[j] = "gone" => worker'[j] = "gone"
    /\ output[j].status # "none" => output'[j].status = output[j].status
    /\ Over(j) => output'[j].status \in {output[j].status, "interrupted"}

-----------------------------------------------------------------------------
\* The record updates of the handlers keep descriptors and reports what they are.
LEMMA DescriptorUpdate ==
    ASSUME NEW m \in [Client -> Descriptor], NEW c \in Client,
           NEW k \in Job \cup {NoJob}, NEW b \in BOOLEAN
    PROVE  /\ [m EXCEPT ![c].by = k, ![c].resumable = FALSE] \in [Client -> Descriptor]
           /\ [m EXCEPT ![c].finished = TRUE, ![c].resumable = b] \in [Client -> Descriptor]
BY DEF Descriptor

LEMMA ReportUpdate ==
    ASSUME NEW m \in [Job -> Report], NEW j \in Job, NEW k \in Job \cup {NoJob},
           NEW s \in Outcome \cup {"none", "failed", "interrupted"}
    PROVE  /\ [m EXCEPT ![j].status = s] \in [Job -> Report]
           /\ [m EXCEPT ![j].resumable = FALSE, ![j].by = k] \in [Job -> Report]
BY DEF Report

LEMMA ResumableUpdate ==
    ASSUME NEW r \in Report, NEW b \in BOOLEAN
    PROVE  [r EXCEPT !.resumable = b] \in Report
BY DEF Report

\* The local variables of a handler that returns.
LEMMA LeaveType ==
    ASSUME TypeOK, NEW c \in Client, Leave(c)
    PROVE  /\ pc' \in [Client -> {"idle", "poll", "match", "stopping", "mark", "finish", "write",
                               "save", "remove", "finished", "lock", "open", "alive", "check",
                               "spawn", "link", "relabel", "unlock"}]
           /\ op' \in [Client -> Op \cup {"none"}] /\ target' \in [Client -> Job \cup {NoJob}]
           /\ mem' \in [Client -> Descriptor] /\ report' \in [Client -> Report]
<1>1. Fresh \in Descriptor /\ Empty \in Report
    BY DEF Fresh, Empty, Descriptor, Report
<1> QED
    BY <1>1 DEF TypeOK, Leave, Goto

\* Types are kept.
LEMMA TypeStep == TypeOK /\ (\A c \in Client : PlaceInv(c) /\ ReportInv(c)) /\ [Next]_vars => TypeOK'
<1> SUFFICES ASSUME TypeOK, \A c \in Client : PlaceInv(c) /\ ReportInv(c), [Next]_vars PROVE TypeOK'
    OBVIOUS
<1> USE JobsAssumption DEF TypeOK, PlaceInv, ReportInv, Report, Descriptor, files, local, Goto, Leave, Empty, Fresh, Resumable
<1>1. ASSUME NEW i \in Job, Spawn(i) PROVE TypeOK'
    BY <1>1 DEF Admit, Spawn
<1>2. ASSUME NEW i \in Job, WorkerReports(i) PROVE TypeOK'
    <2>1. PICK s \in Outcome : output' = [output EXCEPT ![i].status = s]
        BY <1>2 DEF WorkerReports
    <2>2. output' \in [Job -> Report]
        <3> HIDE DEF Report
        <3>1. output \in [Job -> Report] /\ s \in Outcome \cup {"none", "failed", "interrupted"}
            BY DEF TypeOK
        <3> QED
            BY <2>1, <3>1, ReportUpdate
    <2> QED
        BY <1>2, <2>2 DEF WorkerReports
<1>3. ASSUME NEW i \in Job, WorkerEnds(i) PROVE TypeOK'
    BY <1>3 DEF WorkerMatches, WorkerEnds
<1>4. ASSUME NEW c \in Client, NEW i \in Job, NEW o \in Op, Open(c, o, i) PROVE TypeOK'
    BY <1>4 DEF Open
<1>5. ASSUME NEW c \in Client, NEW i \in Job, AskResume(c, i) PROVE TypeOK'
    BY <1>5 DEF AskResume
<1>6. ASSUME NEW c \in Client, PollEnds(c) PROVE TypeOK'
    BY <1>6 DEF PollEnds
<1>7. ASSUME NEW c \in Client, PollExpires(c) PROVE TypeOK'
    BY <1>7 DEF Leave, PollExpires
<1>8. ASSUME NEW c \in Client, Signal(c) PROVE TypeOK'
    <2>1. CASE Goto(c, "stopping") /\ UNCHANGED local
        BY <1>8, <2>1 DEF Signal
    <2>2. CASE Leave(c)
        BY <1>8, <2>2, LeaveType DEF Signal
    <2> QED
        BY <1>8, <2>1, <2>2 DEF Signal
<1>9. ASSUME NEW c \in Client, Stopped(c) PROVE TypeOK'
    BY <1>9 DEF WorkerMatches, Stopped
<1>10. ASSUME NEW c \in Client, Kill(c) PROVE TypeOK'
    <2>1. CASE Leave(c) /\ UNCHANGED worker
        BY <1>10, <2>1, LeaveType DEF Kill
    <2>2. CASE worker' = [worker EXCEPT ![target[c]] = "gone"] /\ Goto(c, "mark") /\ UNCHANGED local
        BY <1>10, <2>2 DEF Kill
    <2> QED
        BY <1>10, <2>1, <2>2 DEF Kill
<1>11. ASSUME NEW c \in Client, Mark(c) PROVE TypeOK'
    <2>1. [Empty EXCEPT !.status = "interrupted"] \in Report
        OBVIOUS
    <2>2. CASE output' = [output EXCEPT ![target[c]] = [Empty EXCEPT !.status = "interrupted"]]
        <3>1. output' \in [Job -> Report]
            BY <2>1, <2>2
        <3> QED
            BY <1>11, <3>1 DEF Mark
    <2>3. CASE UNCHANGED output
        BY <1>11, <2>3 DEF Mark
    <2> QED
        BY <1>11, <2>2, <2>3 DEF Mark
<1>12. ASSUME NEW c \in Client, FinishAgain(c) PROVE TypeOK'
    BY <1>12 DEF FinishAgain
<1>13. ASSUME NEW c \in Client, FinishRead(c) PROVE TypeOK'
    <2>1. output[target[c]] \in Report /\ mem[c] \in Descriptor
        BY <1>13 DEF FinishRead
    <2>2. Read(target[c]) \in Report
        BY <2>1 DEF Read
    <2>3. [Read(target[c]) EXCEPT !.resumable = Resumable(Read(target[c]).status)] \in Report
        <3> DEFINE value == Read(target[c])
        <3>1. value \in Report /\ Resumable(value.status) \in BOOLEAN
            BY <2>2
        <3> HIDE DEF value
        <3> HIDE DEF Report, Resumable
        <3>2. [value EXCEPT !.resumable = Resumable(value.status)] \in Report
            BY <3>1, ResumableUpdate
        <3> QED
            BY <3>2 DEF value
    <2>4. report' \in [Client -> Report]
        BY <1>13, <2>3 DEF FinishRead
    <2>5. mem' \in [Client -> Descriptor]
        <3> DEFINE again == Resumable(Read(target[c]).status)
        <3>1. again \in BOOLEAN
            OBVIOUS
        <3>2. mem' = [mem EXCEPT ![c].finished = TRUE, ![c].resumable = again]
            BY <1>13 DEF FinishRead
        <3> HIDE DEF again
        <3> QED
            BY <3>1, <3>2, DescriptorUpdate
    <2> QED
        BY <1>13, <2>4, <2>5 DEF FinishRead
<1>14. ASSUME NEW c \in Client, FinishWrite(c) PROVE TypeOK'
    BY <1>14 DEF FinishWrite
<1>15. ASSUME NEW c \in Client, FinishSave(c) PROVE TypeOK'
    BY <1>15 DEF FinishSave
<1>16. ASSUME NEW c \in Client, FinishRemove(c) PROVE TypeOK'
    BY <1>16 DEF FinishRemove
<1>17. ASSUME NEW c \in Client, Finished(c) PROVE TypeOK'
    <2>1. told' \in [Job -> SUBSET (Outcome \cup {"failed", "interrupted"})]
        BY <1>17 DEF Finished
    <2>2. CASE Goto(c, "check") /\ UNCHANGED local
        BY <1>17, <2>1, <2>2 DEF Finished
    <2>3. CASE Leave(c)
        BY <1>17, <2>1, <2>3, LeaveType DEF Finished
    <2> QED
        BY <1>17, <2>2, <2>3 DEF Finished
<1>18. ASSUME NEW c \in Client, LockJob(c) PROVE TypeOK'
    BY <1>18 DEF LockJob
<1>19. ASSUME NEW c \in Client, OpenLocked(c) PROVE TypeOK'
    <2>1. target[c] \in Job
        BY <1>19 DEF OpenLocked
    <2>2. CASE descr[target[c]] = NoFile
        BY <1>19, <2>2 DEF OpenLocked
    <2>3. CASE descr[target[c]] # NoFile
        <3>1. descr[target[c]] \in Descriptor
            BY <2>1, <2>3
        <3>2. mem' \in [Client -> Descriptor]
            BY <1>19, <2>3, <3>1 DEF OpenLocked
        <3> QED
            BY <1>19, <2>3, <3>2 DEF OpenLocked
    <2> QED
        BY <2>2, <2>3
<1>20. ASSUME NEW c \in Client, CheckStopped(c) PROVE TypeOK'
    BY <1>20 DEF Alive, WorkerMatches, CheckStopped
<1>21. ASSUME NEW c \in Client, CheckResumable(c) PROVE TypeOK'
    BY <1>21 DEF CheckResumable
<1>22. ASSUME NEW c \in Client, SpawnAttempt(c) PROVE TypeOK'
    <2>1. PICK k \in Job : /\ Admit(k, target[c])
                           /\ mem' = [mem EXCEPT ![c].by = k, ![c].resumable = FALSE]
        BY <1>22 DEF SpawnAttempt
    <2>2. target[c] \in Job /\ mem[c] \in Descriptor
        BY <1>22 DEF SpawnAttempt
    <2>6. mem' \in [Client -> Descriptor]
        BY <2>1, DescriptorUpdate
    <2>4. worker' \in [Job -> {"none", "running", "exiting", "gone"}]
        BY <2>1 DEF Admit
    <2>5. descr' \in [Job -> Descriptor \cup {NoFile}] /\ parent' \in [Job -> Job \cup {NoJob}]
        BY <2>1, <2>2 DEF Admit
    <2> QED
        BY <1>22, <2>4, <2>5, <2>6 DEF SpawnAttempt
<1>23. ASSUME NEW c \in Client, SpawnRefused(c) PROVE TypeOK'
    BY <1>23 DEF SpawnRefused
<1>24. ASSUME NEW c \in Client, SaveLink(c) PROVE TypeOK'
    BY <1>24 DEF SaveLink
<1>25. ASSUME NEW c \in Client, Relabel(c) PROVE TypeOK'
    <2>1. output[target[c]] \in Report /\ mem[c].by \in Job \cup {NoJob}
        BY <1>25 DEF Relabel
    <2>2. output' \in [Job -> Report]
        BY <1>25, <2>1 DEF Relabel
    <2> QED
        BY <1>25, <2>2 DEF Relabel
<1>26. ASSUME NEW c \in Client, UnlockJob(c) PROVE TypeOK'
    BY <1>26 DEF Leave, UnlockJob
<1>27. ASSUME NEW c \in Client, Crash(c) PROVE TypeOK'
    BY <1>27 DEF Leave, Crash
<1>28. CASE UNCHANGED vars
    BY <1>28 DEF vars
<1> QED
    BY <1>1, <1>2, <1>3, <1>4, <1>5, <1>6, <1>7, <1>8, <1>9, <1>10, <1>11, <1>12, <1>13, <1>14, <1>15, <1>16, <1>17, <1>18, <1>19, <1>20, <1>21, <1>22, <1>23, <1>24, <1>25, <1>26, <1>27, <1>28 DEF Next, Step

\* No step undoes what it must keep.
LEMMA KeepsStep == IInv /\ [Next]_vars => \A j \in Job : Keeps(j)
<1> SUFFICES ASSUME IInv, [Next]_vars, NEW j \in Job PROVE Keeps(j)
    OBVIOUS
<1> USE JobsAssumption DEF IInv, TypeOK, JobInv, ClientInv, PlaceInv, ReportInv, Keeps, Over, files, local, Goto
<1>1. ASSUME NEW i \in Job, Spawn(i) PROVE Keeps(j)
    BY <1>1 DEF Admit, Spawn
<1>2. ASSUME NEW i \in Job, WorkerReports(i) PROVE Keeps(j)
    BY <1>2 DEF WorkerReports
<1>3. ASSUME NEW i \in Job, WorkerEnds(i) PROVE Keeps(j)
    BY <1>3 DEF WorkerMatches, WorkerEnds
<1>4. ASSUME NEW c \in Client, NEW i \in Job, NEW o \in Op, Open(c, o, i) PROVE Keeps(j)
    BY <1>4 DEF Open
<1>5. ASSUME NEW c \in Client, NEW i \in Job, AskResume(c, i) PROVE Keeps(j)
    BY <1>5 DEF AskResume
<1>6. ASSUME NEW c \in Client, PollEnds(c) PROVE Keeps(j)
    BY <1>6 DEF PollEnds
<1>7. ASSUME NEW c \in Client, PollExpires(c) PROVE Keeps(j)
    BY <1>7 DEF Leave, PollExpires
<1>8. ASSUME NEW c \in Client, Signal(c) PROVE Keeps(j)
    BY <1>8 DEF Leave, WorkerMatches, Signal
<1>9. ASSUME NEW c \in Client, Stopped(c) PROVE Keeps(j)
    BY <1>9 DEF WorkerMatches, Stopped
<1>10. ASSUME NEW c \in Client, Kill(c) PROVE Keeps(j)
    BY <1>10 DEF Leave, WorkerMatches, Kill
<1>11. ASSUME NEW c \in Client, Mark(c) PROVE Keeps(j)
    <2>1. Resumable("none") = FALSE /\ target[c] \in Job /\ worker[target[c]] = "gone"
        BY <1>11 DEF Mark, Resumable
    <2>2. CASE output[target[c]].status = "none"
        <3>1. output' = [output EXCEPT ![target[c]] = [Empty EXCEPT !.status = "interrupted"]]
            BY <1>11, <2>2 DEF Mark
        <3>2. [Empty EXCEPT !.status = "interrupted"].status = "interrupted"
            BY DEF Empty
        <3> QED
            BY <1>11, <2>1, <2>2, <3>1, <3>2 DEF Mark
    <2>3. CASE output[target[c]].status # "none"
        BY <1>11, <2>3 DEF Mark
    <2> QED
        BY <2>2, <2>3
<1>12. ASSUME NEW c \in Client, FinishAgain(c) PROVE Keeps(j)
    BY <1>12 DEF FinishAgain
<1>13. ASSUME NEW c \in Client, FinishRead(c) PROVE Keeps(j)
    BY <1>13 DEF Read, Resumable, FinishRead
<1>14. ASSUME NEW c \in Client, FinishWrite(c) PROVE Keeps(j)
    BY <1>14 DEF FinishWrite
<1>15. ASSUME NEW c \in Client, FinishSave(c) PROVE Keeps(j)
    BY <1>15 DEF FinishSave
<1>16. ASSUME NEW c \in Client, FinishRemove(c) PROVE Keeps(j)
    BY <1>16 DEF FinishRemove
<1>17. ASSUME NEW c \in Client, Finished(c) PROVE Keeps(j)
    BY <1>17 DEF Leave, Finished
<1>18. ASSUME NEW c \in Client, LockJob(c) PROVE Keeps(j)
    BY <1>18 DEF LockJob
<1>19. ASSUME NEW c \in Client, OpenLocked(c) PROVE Keeps(j)
    BY <1>19 DEF OpenLocked
<1>20. ASSUME NEW c \in Client, CheckStopped(c) PROVE Keeps(j)
    BY <1>20 DEF Alive, WorkerMatches, CheckStopped
<1>21. ASSUME NEW c \in Client, CheckResumable(c) PROVE Keeps(j)
    BY <1>21 DEF CheckResumable
<1>22. ASSUME NEW c \in Client, SpawnAttempt(c) PROVE Keeps(j)
    BY <1>22 DEF Admit, SpawnAttempt
<1>23. ASSUME NEW c \in Client, SpawnRefused(c) PROVE Keeps(j)
    BY <1>23 DEF SpawnRefused
<1>24. ASSUME NEW c \in Client, SaveLink(c) PROVE Keeps(j)
    BY <1>24 DEF SaveLink
<1>25. ASSUME NEW c \in Client, Relabel(c) PROVE Keeps(j)
    BY <1>25 DEF Relabel
<1>26. ASSUME NEW c \in Client, UnlockJob(c) PROVE Keeps(j)
    BY <1>26 DEF Leave, UnlockJob
<1>27. ASSUME NEW c \in Client, Crash(c) PROVE Keeps(j)
    BY <1>27 DEF Leave, Crash
<1>28. CASE UNCHANGED vars
    BY <1>28 DEF vars
<1> QED
    BY <1>1, <1>2, <1>3, <1>4, <1>5, <1>6, <1>7, <1>8, <1>9, <1>10, <1>11, <1>12, <1>13, <1>14, <1>15, <1>16, <1>17, <1>18, <1>19, <1>20, <1>21, <1>22, <1>23, <1>24, <1>25, <1>26, <1>27, <1>28 DEF Next, Step

\* What one client does leaves the others' findings true.
LEMMA OtherClient ==
    ASSUME IInv, \A j \in Job : Keeps(j), NEW d \in Client,
           pc'[d] = pc[d], target'[d] = target[d], mem'[d] = mem[d], report'[d] = report[d]
    PROVE  ClientInv(d)'
<1> USE DEF Agrees, Resumable, Over
<1>1. CASE pc[d] = "idle"
    BY <1>1 DEF ClientInv, PlaceInv, MemoryInv, ReportInv
<1>2. CASE pc[d] # "idle"
    <2>1. target[d] \in Job /\ worker[target[d]] # "none" /\ ClientInv(d) /\ Keeps(target[d])
        BY <1>2 DEF IInv, ClientInv, PlaceInv
    <2>2. PlaceInv(d)'
        BY <2>1 DEF ClientInv, PlaceInv, Keeps
    <2>3. MemoryInv(d)'
        BY <2>1 DEF ClientInv, PlaceInv, MemoryInv, Keeps
    <2>4. ReportInv(d)'
        BY <2>1 DEF ClientInv, PlaceInv, ReportInv, Keeps
    <2> QED
        BY <2>2, <2>3, <2>4 DEF ClientInv
<1> QED
    BY <1>1, <1>2

\* A new descriptor is a file, and is not marked finished.
LEMMA FreshIsNew == Fresh # NoFile /\ Fresh.finished = FALSE
<1>1. Fresh \in [finished : BOOLEAN, resumable : BOOLEAN, by : Job \cup {NoJob}] /\ Fresh.finished = FALSE
    BY DEF Fresh
<1> QED
    BY <1>1, JobsAssumption

\* The jobs keep their part of the invariant.
LEMMA JobStep == IInv /\ [Next]_vars => \A j \in Job : JobInv(j)'
<1> SUFFICES ASSUME IInv, [Next]_vars, NEW j \in Job PROVE JobInv(j)'
    OBVIOUS
<1> USE JobsAssumption DEF IInv, TypeOK, JobInv, ClientInv, PlaceInv, MemoryInv, ReportInv, Over, Agrees, Resumable, files, local, Goto
<1>1. ASSUME NEW i \in Job, Spawn(i) PROVE JobInv(j)'
    BY <1>1, FreshIsNew DEF Admit, Spawn
<1>2. ASSUME NEW i \in Job, WorkerReports(i) PROVE JobInv(j)'
    BY <1>2 DEF WorkerReports
<1>3. ASSUME NEW i \in Job, WorkerEnds(i) PROVE JobInv(j)'
    BY <1>3 DEF WorkerMatches, WorkerEnds
<1>4. ASSUME NEW c \in Client, NEW i \in Job, NEW o \in Op, Open(c, o, i) PROVE JobInv(j)'
    BY <1>4 DEF Open
<1>5. ASSUME NEW c \in Client, NEW i \in Job, AskResume(c, i) PROVE JobInv(j)'
    BY <1>5 DEF AskResume
<1>6. ASSUME NEW c \in Client, PollEnds(c) PROVE JobInv(j)'
    BY <1>6 DEF PollEnds
<1>7. ASSUME NEW c \in Client, PollExpires(c) PROVE JobInv(j)'
    BY <1>7 DEF Leave, PollExpires
<1>8. ASSUME NEW c \in Client, Signal(c) PROVE JobInv(j)'
    BY <1>8 DEF Leave, WorkerMatches, Signal
<1>9. ASSUME NEW c \in Client, Stopped(c) PROVE JobInv(j)'
    BY <1>9 DEF WorkerMatches, Stopped
<1>10. ASSUME NEW c \in Client, Kill(c) PROVE JobInv(j)'
    BY <1>10 DEF Leave, WorkerMatches, Kill
<1>11. ASSUME NEW c \in Client, Mark(c) PROVE JobInv(j)'
    <2>1. target[c] \in Job /\ worker[target[c]] = "gone" /\ UNCHANGED <<worker, descr, told>>
        BY <1>11 DEF Mark
    <2>2. CASE j = target[c] /\ output[j].status = "none"
        <3>1. output'[j].status = "interrupted"
            BY <1>11, <2>1, <2>2 DEF Mark, Empty
        <3> QED
            BY <2>1, <2>2, <3>1
    <2>3. CASE j # target[c] \/ output[j].status # "none"
        <3>1. output'[j] = output[j]
            BY <1>11, <2>1, <2>3 DEF Mark
        <3> QED
            BY <2>1, <2>3, <3>1
    <2> QED
        BY <2>2, <2>3
<1>12. ASSUME NEW c \in Client, FinishAgain(c) PROVE JobInv(j)'
    BY <1>12 DEF FinishAgain
<1>13. ASSUME NEW c \in Client, FinishRead(c) PROVE JobInv(j)'
    BY <1>13 DEF Read, Resumable, FinishRead
<1>14. ASSUME NEW c \in Client, FinishWrite(c) PROVE JobInv(j)'
    BY <1>14 DEF FinishWrite
<1>15. ASSUME NEW c \in Client, FinishSave(c) PROVE JobInv(j)'
    BY <1>15 DEF FinishSave, Descriptor
<1>16. ASSUME NEW c \in Client, FinishRemove(c) PROVE JobInv(j)'
    BY <1>16 DEF FinishRemove
<1>17. ASSUME NEW c \in Client, Finished(c) PROVE JobInv(j)'
    BY <1>17 DEF Leave, Finished
<1>18. ASSUME NEW c \in Client, LockJob(c) PROVE JobInv(j)'
    BY <1>18 DEF LockJob
<1>19. ASSUME NEW c \in Client, OpenLocked(c) PROVE JobInv(j)'
    BY <1>19 DEF OpenLocked
<1>20. ASSUME NEW c \in Client, CheckStopped(c) PROVE JobInv(j)'
    BY <1>20 DEF Alive, WorkerMatches, CheckStopped
<1>21. ASSUME NEW c \in Client, CheckResumable(c) PROVE JobInv(j)'
    BY <1>21 DEF CheckResumable
<1>22. ASSUME NEW c \in Client, SpawnAttempt(c) PROVE JobInv(j)'
    <2>1. PICK k \in Job : Admit(k, target[c])
        BY <1>22 DEF SpawnAttempt
    <2> QED
        BY <1>22, <2>1, FreshIsNew DEF Admit, SpawnAttempt
<1>23. ASSUME NEW c \in Client, SpawnRefused(c) PROVE JobInv(j)'
    BY <1>23 DEF SpawnRefused
<1>24. ASSUME NEW c \in Client, SaveLink(c) PROVE JobInv(j)'
    BY <1>24 DEF SaveLink, Descriptor
<1>25. ASSUME NEW c \in Client, Relabel(c) PROVE JobInv(j)'
    BY <1>25 DEF Relabel
<1>26. ASSUME NEW c \in Client, UnlockJob(c) PROVE JobInv(j)'
    BY <1>26 DEF Leave, UnlockJob
<1>27. ASSUME NEW c \in Client, Crash(c) PROVE JobInv(j)'
    BY <1>27 DEF Leave, Crash
<1>28. CASE UNCHANGED vars
    BY <1>28 DEF vars
<1> QED
    BY <1>1, <1>2, <1>3, <1>4, <1>5, <1>6, <1>7, <1>8, <1>9, <1>10, <1>11, <1>12, <1>13, <1>14, <1>15, <1>16, <1>17, <1>18, <1>19, <1>20, <1>21, <1>22, <1>23, <1>24, <1>25, <1>26, <1>27, <1>28 DEF Next, Step

\* A step of one client touches the local variables of no other.
LEMMA Private ==
    ASSUME TypeOK, NEW c \in Client, NEW d \in Client, d # c,
           Step(c) \/ Crash(c) \/ \E i \in Job : AskResume(c, i) \/ \E o \in Op : Open(c, o, i)
    PROVE  pc'[d] = pc[d] /\ target'[d] = target[d] /\ mem'[d] = mem[d] /\ report'[d] = report[d]
<1> DEFINE Same == pc'[d] = pc[d] /\ target'[d] = target[d] /\ mem'[d] = mem[d] /\ report'[d] = report[d]
<1> USE DEF TypeOK, local, Goto
<1>l. Leave(c) => Same
    BY DEF Leave
<1>1. (PollExpires(c) \/ UnlockJob(c) \/ Crash(c)) => Same
    BY <1>l DEF PollExpires, UnlockJob, Crash
<1>2. (Signal(c) \/ Kill(c) \/ Finished(c)) => Same
    BY <1>l DEF Signal, Kill, Finished
<1>3. (PollEnds(c) \/ Stopped(c) \/ Mark(c) \/ FinishWrite(c) \/ FinishSave(c) \/ FinishRemove(c)) => Same
    BY DEF PollEnds, Stopped, Mark, FinishWrite, FinishSave, FinishRemove
<1>4. (FinishAgain(c) \/ FinishRead(c)) => Same
    BY DEF FinishAgain, FinishRead
<1>5. (LockJob(c) \/ OpenLocked(c) \/ CheckStopped(c) \/ CheckResumable(c)) => Same
    BY DEF LockJob, OpenLocked, CheckStopped, CheckResumable
<1>6. (SpawnAttempt(c) \/ SpawnRefused(c) \/ SaveLink(c) \/ Relabel(c)) => Same
    BY DEF SpawnAttempt, SpawnRefused, SaveLink, Relabel
<1>7. \A i \in Job : AskResume(c, i) => Same
    BY DEF AskResume
<1>8. \A i \in Job, o \in Op : Open(c, o, i) => Same
    BY DEF Open
<1> QED
    BY <1>1, <1>2, <1>3, <1>4, <1>5, <1>6, <1>7, <1>8 DEF Step

\* The client that takes a step finds what the invariant says of its new place.
LEMMA ActorStep ==
    ASSUME IInv, NEW c \in Client,
           Step(c) \/ Crash(c) \/ \E i \in Job : AskResume(c, i) \/ \E o \in Op : Open(c, o, i)
    PROVE  ClientInv(c)'
<1> USE JobsAssumption DEF IInv, TypeOK, JobInv, ClientInv, PlaceInv, MemoryInv, ReportInv, Over, Agrees, Resumable, files, local, Goto, Leave
<1>1. ASSUME NEW i \in Job, NEW o \in Op, Open(c, o, i) PROVE ClientInv(c)'
    BY <1>1 DEF Open
<1>2. ASSUME NEW i \in Job, AskResume(c, i) PROVE ClientInv(c)'
    BY <1>2 DEF AskResume
<1>3. CASE PollEnds(c)
    BY <1>3 DEF PollEnds, Alive, WorkerMatches
<1>4. CASE PollExpires(c)
    BY <1>4 DEF PollExpires
<1>5. CASE Signal(c)
    BY <1>5 DEF WorkerMatches, Signal
<1>6. CASE Stopped(c)
    BY <1>6 DEF WorkerMatches, Stopped
<1>7. CASE Kill(c)
    BY <1>7 DEF WorkerMatches, Kill
<1>8. CASE Mark(c)
    BY <1>8 DEF Empty, Mark
<1>9. CASE FinishAgain(c)
    BY <1>9 DEF FinishAgain
<1>10. CASE FinishRead(c)
    <2> DEFINE value == Read(target[c])
               again == Resumable(value.status)
    <2>1. /\ target[c] \in Job /\ worker[target[c]] # "none" /\ Over(target[c])
          /\ UNCHANGED <<worker, output, target>> /\ pc'[c] \in {"write", "remove"}
          /\ pc'[c] = "write" <=> again
          /\ report'[c].status = value.status /\ mem'[c].resumable = again
        BY <1>10 DEF FinishRead
    <2>2. /\ value.status # "none" /\ Agrees(value.status, target[c])
          /\ again <=> Resumable(output[target[c]].status)
          /\ again => value.status = output[target[c]].status
        <3>1. CASE output[target[c]].status = "none"
            BY <2>1, <3>1 DEF Read
        <3>2. CASE output[target[c]].status # "none"
            BY <2>1, <3>2 DEF Read
        <3> QED
            BY <3>1, <3>2
    <2> HIDE DEF value, again
    <2> QED
        BY <2>1, <2>2
<1>11. CASE FinishWrite(c)
    BY <1>11 DEF FinishWrite
<1>12. CASE FinishSave(c)
    BY <1>12 DEF FinishSave
<1>13. CASE FinishRemove(c)
    BY <1>13 DEF FinishRemove
<1>14. CASE Finished(c)
    BY <1>14 DEF Finished
<1>15. CASE LockJob(c)
    BY <1>15 DEF LockJob
<1>16. CASE OpenLocked(c)
    BY <1>16 DEF OpenLocked
<1>17. CASE CheckStopped(c)
    BY <1>17 DEF Alive, WorkerMatches, CheckStopped
<1>18. CASE CheckResumable(c)
    BY <1>18 DEF CheckResumable
<1>19. CASE SpawnAttempt(c)
    BY <1>19 DEF Admit, SpawnAttempt
<1>20. CASE SpawnRefused(c)
    BY <1>20 DEF SpawnRefused
<1>21. CASE SaveLink(c)
    BY <1>21 DEF SaveLink
<1>22. CASE Relabel(c)
    BY <1>22 DEF Relabel
<1>23. CASE UnlockJob(c)
    BY <1>23 DEF UnlockJob
<1>24. CASE Crash(c)
    BY <1>24 DEF Crash
<1> QED
    BY <1>1, <1>2, <1>3, <1>4, <1>5, <1>6, <1>7, <1>8, <1>9, <1>10, <1>11, <1>12, <1>13, <1>14, <1>15, <1>16, <1>17, <1>18, <1>19, <1>20, <1>21, <1>22, <1>23, <1>24 DEF Step

\* The clients keep theirs.
LEMMA ClientStep == IInv /\ [Next]_vars => \A d \in Client : ClientInv(d)'
<1> SUFFICES ASSUME IInv, [Next]_vars, NEW d \in Client PROVE ClientInv(d)'
    OBVIOUS
<1>k. \A j \in Job : Keeps(j)
    BY KeepsStep
<1>1. ASSUME NEW c \in Client,
             Step(c) \/ Crash(c) \/ \E i \in Job : AskResume(c, i) \/ \E o \in Op : Open(c, o, i)
      PROVE  ClientInv(d)'
    <2>1. CASE d = c
        BY <1>1, <2>1, ActorStep
    <2>2. CASE d # c
        BY <1>1, <1>k, <2>2, Private, OtherClient DEF IInv
    <2> QED
        BY <2>1, <2>2
<1>2. ASSUME NEW i \in Job, Spawn(i) \/ WorkerReports(i) \/ WorkerEnds(i) PROVE ClientInv(d)'
    <2>1. UNCHANGED <<pc, target, mem, report>>
        BY <1>2 DEF Spawn, WorkerReports, WorkerEnds, local
    <2> QED
        BY <1>k, <2>1, OtherClient
<1>3. CASE UNCHANGED vars
    <2>1. UNCHANGED <<pc, target, mem, report>>
        BY <1>3 DEF vars, local
    <2> QED
        BY <1>k, <2>1, OtherClient
<1> QED
    BY <1>1, <1>2, <1>3 DEF Next

-----------------------------------------------------------------------------
\* The invariant holds when no job has been spawned ...
LEMMA InitInv == Init => IInv
<1> SUFFICES ASSUME Init PROVE IInv
    OBVIOUS
<1>1. Empty \in Report /\ Fresh \in Descriptor
    BY DEF Empty, Report, Fresh, Descriptor
<1>2. TypeOK
    BY <1>1, JobsAssumption DEF Init, TypeOK
<1>3. \A j \in Job : JobInv(j)
    BY DEF Init, JobInv, Empty, Resumable
<1>4. \A c \in Client : ClientInv(c)
    BY DEF Init, ClientInv, PlaceInv, MemoryInv, ReportInv
<1> QED
    BY <1>2, <1>3, <1>4 DEF IInv

\* ... and of every state reached from there.
LEMMA Invariance == Spec => []IInv
<1>1. IInv /\ [Next]_vars => IInv'
    BY TypeStep, JobStep, ClientStep DEF IInv, ClientInv
<1> QED
    BY InitInv, <1>1, PTL DEF Spec

\* Every file and every handler's variables keep their types.
THEOREM TypeCorrect == Spec => []TypeOK
<1>1. IInv => TypeOK
    BY DEF IInv
<1> QED
    BY Invariance, <1>1, PTL

\* A running job can always be found, counted and interrupted: no Wait, List,
\* Interrupt or Resume, however late it acts on what it read, removes its
\* descriptor or marks it finished.
THEOREM RunningJobsListed == Spec => []RunningIsListed
<1>1. IInv => RunningIsListed
    BY DEF IInv, JobInv, RunningIsListed
<1> QED
    BY Invariance, <1>1, PTL

\* The descriptor of a timed-out attempt is never lost, so it can be resumed.
THEOREM CheckpointsKept == Spec => []CheckpointKept
<1>1. IInv => CheckpointKept
    BY DEF IInv, JobInv, CheckpointKept
<1> QED
    BY Invariance, <1>1, PTL

\* Nobody overrules a status that is in output.json.
THEOREM ReportsKept == Spec => ReportKept
<1> DEFINE Kept == \A j \in Job : output[j].status # "none" => output'[j].status = output[j].status
<1>1. IInv /\ [Next]_vars => [Kept]_vars
    BY KeepsStep DEF Keeps
<1> QED
    BY Invariance, <1>1, PTL DEF Spec, ReportKept

\* No two callers are told different outcomes of a worker that reported one.
THEOREM OutcomesAgree == Spec => []AgreedOutcome
<1>1. IInv => AgreedOutcome
    <2> SUFFICES ASSUME IInv, NEW j \in Job, NEW s \in told[j] \ {"failed", "interrupted"}
                 PROVE  Cardinality(told[j]) = 1
        BY DEF AgreedOutcome
    <2>1. told[j] = {s}
        BY DEF IInv, JobInv, Agrees
    <2> QED
        BY <2>1, FS_Singleton
<1> QED
    BY Invariance, <1>1, PTL
=============================================================================
