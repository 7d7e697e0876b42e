-------------------------------- MODULE Jobs --------------------------------
(***************************************************************************)
(* The life of a job after admission: internal/jobs Wait, List, Interrupt, *)
(* Resume and the finish they share.  Clients (MCP servers, CLI commands)  *)
(* run them against the same files; none of them but Resume takes a lock,  *)
(* and each works on the copy of the descriptor it read when it opened the *)
(* job.  The worker is a process of its own that writes output.json once.  *)
(*                                                                         *)
(* Abstracted: report.json, which every handler writes right after         *)
(* output.json with the same contents, the supervisor observation and the  *)
(* descriptive fields merged into reports, feedback events, and the        *)
(* admission of a job (module Scheduler), which is one step here.          *)
(***************************************************************************)
EXTENDS Integers, FiniteSets

CONSTANTS
    Client,      \* processes running the handlers
    Job,         \* agent ids
    Op,          \* handlers in use: a subset of {"wait", "interrupt", "resume"}
    Outcome,     \* statuses a worker may report
    MaxCrashes,  \* bound: crashes of a client in the middle of a handler
    NoClient, NoJob, NoFile

ASSUME JobsAssumption ==
    /\ IsFiniteSet(Job) /\ NoJob \notin Job
    /\ NoClient \notin Client
    /\ Op \subseteq {"wait", "interrupt", "resume"}
    /\ Outcome \subseteq {"completed", "provider_error", "timeout",
                          "idle_timeout", "interrupted"}
    /\ NoFile \notin [finished : BOOLEAN, resumable : BOOLEAN, by : Job \cup {NoJob}]
    /\ MaxCrashes \in Nat

VARIABLES
    worker,   \* [Job -> none | running | exiting | gone]
    output,   \* [Job -> output.json: status, resumable mark, resumed_by link]
    descr,    \* [Job -> jobs/<id>.json, or NoFile]
    parent,   \* [Job -> ParentAgentID, "resumed_from"]
    guard,    \* [Job -> holder of the flock on resume-locks/<id>.lock]
    pc,       \* [Client -> where its handler is]
    op,       \* [Client -> the handler it runs]
    target,   \* [Client -> the job it runs it on]
    mem,      \* [Client -> the descriptor it opened, as it has changed it]
    report,   \* [Client -> the report finish has put together]
    told,     \* history: [Job -> terminal statuses callers were given]
    crashes

files == <<output, descr, guard>>
local == <<op, target, mem, report>>
vars == <<worker, files, parent, pc, local, told, crashes>>

-----------------------------------------------------------------------------
Report == [status : Outcome \cup {"none", "failed", "interrupted"},
           resumable : BOOLEAN, by : Job \cup {NoJob}]
Descriptor == [finished : BOOLEAN, resumable : BOOLEAN, by : Job \cup {NoJob}]

Empty == [status |-> "none", resumable |-> FALSE, by |-> NoJob]
Fresh == [finished |-> FALSE, resumable |-> FALSE, by |-> NoJob]

\* The two outcomes after which finish keeps the descriptor.
Resumable(status) == status \in {"timeout", "idle_timeout"}

\* Job.workerMatches: the process group is there and is this job's worker.
WorkerMatches(j) == worker[j] \in {"running", "exiting"}

\* Job.alive: no status in output.json, and the worker matches.
Alive(j) == output[j].status = "none" /\ WorkerMatches(j)

Init == /\ worker = [j \in Job |-> "none"]
        /\ output = [j \in Job |-> Empty]
        /\ descr = [j \in Job |-> NoFile]
        /\ parent = [j \in Job |-> NoJob]
        /\ guard = [j \in Job |-> NoClient]
        /\ pc = [c \in Client |-> "idle"]
        /\ op = [c \in Client |-> "none"]
        /\ target = [c \in Client |-> NoJob]
        /\ mem = [c \in Client |-> Fresh]
        /\ report = [c \in Client |-> Empty]
        /\ told = [j \in Job |-> {}]
        /\ crashes = 0

Goto(c, l) == pc' = [pc EXCEPT ![c] = l]

\* The handler returns and its local state is gone.
Leave(c) == /\ Goto(c, "idle")
            /\ op' = [op EXCEPT ![c] = "none"]
            /\ target' = [target EXCEPT ![c] = NoJob]
            /\ mem' = [mem EXCEPT ![c] = Fresh]
            /\ report' = [report EXCEPT ![c] = Empty]

-----------------------------------------------------------------------------
(* Spawn and the worker.                                                   *)

Admit(j, p) == /\ worker[j] = "none"
               /\ worker' = [worker EXCEPT ![j] = "running"]
               /\ descr' = [descr EXCEPT ![j] = Fresh]
               /\ parent' = [parent EXCEPT ![j] = p]

\* A first attempt.
Spawn(j) == /\ Admit(j, NoJob)
            /\ UNCHANGED <<output, guard, pc, local, told, crashes>>

\* The worker writes its only report.
WorkerReports(j) ==
    /\ worker[j] = "running"
    /\ \E s \in Outcome : output' = [output EXCEPT ![j].status = s]
    /\ worker' = [worker EXCEPT ![j] = "exiting"]
    /\ UNCHANGED <<descr, guard, parent, pc, local, told, crashes>>

\* The worker's process group is gone; it may never have reported.
WorkerEnds(j) ==
    /\ WorkerMatches(j)
    /\ worker' = [worker EXCEPT ![j] = "gone"]
    /\ UNCHANGED <<files, parent, pc, local, told, crashes>>

-----------------------------------------------------------------------------
(* Wait (List runs the same steps on every job) and Interrupt.             *)

\* Open: the descriptor is read once, here.
Open(c, o, j) ==
    /\ pc[c] = "idle"
    /\ o \in Op \ {"resume"}
    /\ descr[j] # NoFile
    /\ op' = [op EXCEPT ![c] = o]
    /\ target' = [target EXCEPT ![c] = j]
    /\ mem' = [mem EXCEPT ![c] = descr[j]]
    /\ Goto(c, IF o = "wait" THEN "poll" ELSE "match")
    /\ UNCHANGED <<worker, files, parent, report, told, crashes>>

\* Mutant: the end of the wait is taken for the end of the worker.
PollEndsBlind(c) ==
    /\ pc[c] = "poll"
    /\ Goto(c, "finish")
    /\ UNCHANGED <<worker, files, parent, local, told, crashes>>

\* Wait's loop sees the end of the worker.
PollEnds(c) ==
    /\ pc[c] = "poll" /\ ~Alive(target[c])
    /\ Goto(c, "finish")
    /\ UNCHANGED <<worker, files, parent, local, told, crashes>>

\* Wait's deadline passes: the caller gets the live view.
PollExpires(c) ==
    /\ pc[c] = "poll" /\ Alive(target[c])
    /\ Leave(c)
    /\ UNCHANGED <<worker, files, parent, told, crashes>>

\* Interrupt refuses a worker it cannot identify, else sends SIGINT.
Signal(c) ==
    /\ pc[c] = "match"
    /\ IF WorkerMatches(target[c])
       THEN Goto(c, "stopping") /\ UNCHANGED local
       ELSE Leave(c)
    /\ UNCHANGED <<worker, files, parent, told, crashes>>

\* The worker stops within the grace period.
Stopped(c) ==
    /\ pc[c] = "stopping" /\ ~WorkerMatches(target[c])
    /\ Goto(c, "mark")
    /\ UNCHANGED <<worker, files, parent, local, told, crashes>>

\* The grace period is over: SIGKILL, which may still leave the worker there.
Kill(c) ==
    /\ pc[c] = "stopping" /\ WorkerMatches(target[c])
    /\ \/ /\ worker' = [worker EXCEPT ![target[c]] = "gone"]
          /\ Goto(c, "mark")
          /\ UNCHANGED local
       \/ Leave(c) /\ UNCHANGED worker
    /\ UNCHANGED <<files, parent, told, crashes>>

\* Mutant: the status in output.json is not looked at.
MarkBlind(c) ==
    /\ pc[c] = "mark"
    /\ output' = [output EXCEPT ![target[c]] = [Empty EXCEPT !.status = "interrupted"]]
    /\ Goto(c, "finish")
    /\ UNCHANGED <<worker, descr, guard, parent, local, told, crashes>>

\* A worker that left no status gets an "interrupted" report.
Mark(c) ==
    /\ pc[c] = "mark"
    /\ IF output[target[c]].status = "none"
       THEN output' = [output EXCEPT ![target[c]] = [Empty EXCEPT !.status = "interrupted"]]
       ELSE UNCHANGED output
    /\ Goto(c, "finish")
    /\ UNCHANGED <<worker, descr, guard, parent, local, told, crashes>>

-----------------------------------------------------------------------------
(* finish.                                                                 *)

\* Mutant: a missing status is passed on.
ReadAsIs(j) == output[j]

\* Mutant: a worker that is gone has failed, whatever it reported.
ReadByProcess(j) == IF worker[j] = "gone" THEN [output[j] EXCEPT !.status = "failed"]
                                          ELSE output[j]

\* The status finish gives a job: what output.json says, "failed" without it.
Read(j) == IF output[j].status = "none" THEN [output[j] EXCEPT !.status = "failed"]
                                        ELSE output[j]

\* A descriptor that was finished when it was opened: return the report.
FinishAgain(c) ==
    /\ pc[c] = "finish" /\ mem[c].finished
    /\ report' = [report EXCEPT ![c] = output[target[c]]]
    /\ Goto(c, "finished")
    /\ UNCHANGED <<worker, files, parent, op, target, mem, told, crashes>>

\* Mutant: goes by the mark the descriptor was opened with.
FinishReadStale(c) ==
    /\ pc[c] = "finish" /\ ~mem[c].finished
    /\ report' = [report EXCEPT ![c] = Read(target[c])]
    /\ mem' = [mem EXCEPT ![c].finished = TRUE]
    /\ Goto(c, IF mem[c].resumable THEN "write" ELSE "remove")
    /\ UNCHANGED <<worker, files, parent, op, target, told, crashes>>

\* Read the report and decide; mem keeps the resumed_by it was opened with.
FinishRead(c) ==
    /\ pc[c] = "finish" /\ ~mem[c].finished
    /\ LET value == Read(target[c])
           again == Resumable(value.status)
       IN  /\ report' = [report EXCEPT ![c] = [value EXCEPT !.resumable = again]]
           /\ mem' = [mem EXCEPT ![c].finished = TRUE, ![c].resumable = again]
           /\ Goto(c, IF again THEN "write" ELSE "remove")
    /\ UNCHANGED <<worker, files, parent, op, target, told, crashes>>

\* Resumable: write the report back ...
FinishWrite(c) ==
    /\ pc[c] = "write"
    /\ output' = [output EXCEPT ![target[c]] = report[c]]
    /\ Goto(c, "save")
    /\ UNCHANGED <<worker, descr, guard, parent, local, told, crashes>>

\* ... then save the descriptor as the handler knows it.
FinishSave(c) ==
    /\ pc[c] = "save"
    /\ descr' = [descr EXCEPT ![target[c]] = mem[c]]
    /\ Goto(c, "finished")
    /\ UNCHANGED <<worker, output, guard, parent, local, told, crashes>>

\* Mutant: the descriptor is left behind.
FinishRemoveSkipped(c) ==
    /\ pc[c] = "remove"
    /\ Goto(c, "finished")
    /\ UNCHANGED <<worker, files, parent, local, told, crashes>>

\* Not resumable: the descriptor is removed.
FinishRemove(c) ==
    /\ pc[c] = "remove"
    /\ descr' = [descr EXCEPT ![target[c]] = NoFile]
    /\ Goto(c, "finished")
    /\ UNCHANGED <<worker, output, guard, parent, local, told, crashes>>

\* Wait and Interrupt return the report; Resume goes on with it.
Finished(c) ==
    /\ pc[c] = "finished"
    /\ told' = [told EXCEPT ![target[c]] = @ \cup {report[c].status}]
    /\ IF op[c] = "resume" THEN Goto(c, "check") /\ UNCHANGED local ELSE Leave(c)
    /\ UNCHANGED <<worker, files, parent, crashes>>

-----------------------------------------------------------------------------
(* Resume.                                                                 *)

\* A caller names a job it knows of.
AskResume(c, j) ==
    /\ pc[c] = "idle" /\ "resume" \in Op
    /\ worker[j] # "none"
    /\ op' = [op EXCEPT ![c] = "resume"]
    /\ target' = [target EXCEPT ![c] = j]
    /\ Goto(c, "lock")
    /\ UNCHANGED <<worker, files, parent, mem, report, told, crashes>>

\* Mutant: the lock does not exclude.
LockJobShared(c) ==
    /\ pc[c] = "lock"
    /\ guard' = [guard EXCEPT ![target[c]] = c]
    /\ Goto(c, "open")
    /\ UNCHANGED <<worker, output, descr, parent, local, told, crashes>>

\* LOCK_EX on resume-locks/<id>.lock.
LockJob(c) ==
    /\ pc[c] = "lock" /\ guard[target[c]] = NoClient
    /\ guard' = [guard EXCEPT ![target[c]] = c]
    /\ Goto(c, "open")
    /\ UNCHANGED <<worker, output, descr, parent, local, told, crashes>>

\* Open under the lock; a removed descriptor is an error.
OpenLocked(c) ==
    /\ pc[c] = "open"
    /\ IF descr[target[c]] = NoFile
       THEN Goto(c, "unlock") /\ UNCHANGED mem
       ELSE Goto(c, "alive") /\ mem' = [mem EXCEPT ![c] = descr[target[c]]]
    /\ UNCHANGED <<worker, files, parent, op, target, report, told, crashes>>

\* A running job cannot be resumed.
CheckStopped(c) ==
    /\ pc[c] = "alive"
    /\ Goto(c, IF Alive(target[c]) THEN "unlock" ELSE "finish")
    /\ UNCHANGED <<worker, files, parent, local, told, crashes>>

\* Mutant: only an earlier resume is looked for.
CheckLinkOnly(c) ==
    /\ pc[c] = "check"
    /\ Goto(c, IF mem[c].by = NoJob THEN "spawn" ELSE "unlock")
    /\ UNCHANGED <<worker, files, parent, local, told, crashes>>

\* Neither can one that is not resumable, or was already resumed.
CheckResumable(c) ==
    /\ pc[c] = "check"
    /\ Goto(c, IF mem[c].resumable /\ mem[c].by = NoJob THEN "spawn" ELSE "unlock")
    /\ UNCHANGED <<worker, files, parent, local, told, crashes>>

\* Spawn of the new attempt.
SpawnAttempt(c) ==
    /\ pc[c] = "spawn"
    /\ \E k \in Job :
         /\ Admit(k, target[c])
         /\ mem' = [mem EXCEPT ![c].by = k, ![c].resumable = FALSE]
    /\ Goto(c, "link")
    /\ UNCHANGED <<output, guard, op, target, report, told, crashes>>

\* Spawn may be refused: capacity, authentication, review, timeout bounds.
SpawnRefused(c) ==
    /\ pc[c] = "spawn"
    /\ Goto(c, "unlock")
    /\ UNCHANGED <<worker, files, parent, local, told, crashes>>

\* Mutant: the link is not saved.
SaveLinkSkipped(c) ==
    /\ pc[c] = "link"
    /\ Goto(c, "relabel")
    /\ UNCHANGED <<worker, files, parent, local, told, crashes>>

\* The previous attempt is saved with its link ...
SaveLink(c) ==
    /\ pc[c] = "link"
    /\ descr' = [descr EXCEPT ![target[c]] = mem[c]]
    /\ Goto(c, "relabel")
    /\ UNCHANGED <<worker, output, guard, parent, local, told, crashes>>

\* Mutant: the report stays resumable.
RelabelSkipped(c) ==
    /\ pc[c] = "relabel"
    /\ Goto(c, "unlock")
    /\ UNCHANGED <<worker, output, descr, guard, parent, local, told, crashes>>

\* ... and its report relabelled (updateResumeLink).
Relabel(c) ==
    /\ pc[c] = "relabel"
    /\ output' = [output EXCEPT ![target[c]].resumable = FALSE, ![target[c]].by = mem[c].by]
    /\ Goto(c, "unlock")
    /\ UNCHANGED <<worker, descr, guard, parent, local, told, crashes>>

UnlockJob(c) ==
    /\ pc[c] = "unlock"
    /\ guard' = [guard EXCEPT ![target[c]] = NoClient]
    /\ Leave(c)
    /\ UNCHANGED <<worker, output, descr, parent, told, crashes>>

-----------------------------------------------------------------------------
\* The client dies inside a handler; the kernel drops its locks.
Crash(c) ==
    /\ pc[c] # "idle" /\ crashes < MaxCrashes
    /\ crashes' = crashes + 1
    /\ guard' = [j \in Job |-> IF guard[j] = c THEN NoClient ELSE guard[j]]
    /\ Leave(c)
    /\ UNCHANGED <<worker, output, descr, parent, told>>

Step(c) == \/ PollEnds(c) \/ PollExpires(c)
           \/ Signal(c) \/ Stopped(c) \/ Kill(c) \/ Mark(c)
           \/ FinishAgain(c) \/ FinishRead(c) \/ FinishWrite(c) \/ FinishSave(c)
           \/ FinishRemove(c) \/ Finished(c)
           \/ LockJob(c) \/ OpenLocked(c) \/ CheckStopped(c) \/ CheckResumable(c)
           \/ SpawnAttempt(c) \/ SpawnRefused(c) \/ SaveLink(c) \/ Relabel(c)
           \/ UnlockJob(c)

Next == \/ \E j \in Job : Spawn(j) \/ WorkerReports(j) \/ WorkerEnds(j)
        \/ \E c \in Client, j \in Job : AskResume(c, j) \/ \E o \in Op : Open(c, o, j)
        \/ \E c \in Client : Step(c) \/ Crash(c)

Spec == Init /\ [][Next]_vars

\* A worker ends (hard timeout), a handler that can run does, and supervisors
\* keep asking for every job that is listed.
Fairness == /\ \A j \in Job : WF_vars(WorkerEnds(j))
            /\ \A c \in Client : WF_vars(Step(c))
            /\ \A j \in Job : SF_vars(\E c \in Client : Open(c, "wait", j))

FairSpec == Spec /\ Fairness

-----------------------------------------------------------------------------
TypeOK ==
    /\ worker \in [Job -> {"none", "running", "exiting", "gone"}]
    /\ output \in [Job -> Report]
    /\ descr \in [Job -> Descriptor \cup {NoFile}]
    /\ parent \in [Job -> Job \cup {NoJob}]
    /\ guard \in [Job -> Client \cup {NoClient}]
    /\ pc \in [Client -> {"idle", "poll", "match", "stopping", "mark", "finish", "write",
                          "save", "remove", "finished", "lock", "open", "alive", "check",
                          "spawn", "link", "relabel", "unlock"}]
    /\ op \in [Client -> Op \cup {"none"}]
    /\ target \in [Client -> Job \cup {NoJob}]
    /\ mem \in [Client -> Descriptor]
    /\ report \in [Client -> Report]
    /\ told \in [Job -> SUBSET (Outcome \cup {"failed", "interrupted"})]
    /\ crashes \in Nat

Resumes(j) == {k \in Job : parent[k] = j}

\* Resume: "job was already resumed as ...".  An attempt is continued at most
\* once, so no two workers pick up the same unfinished work.
ResumedOnce == \A j \in Job : Cardinality(Resumes(j)) <= 1

\* The first attempt of the task that j is an attempt of.
Original[j \in Job] == IF parent[j] = NoJob THEN j ELSE Original[parent[j]]

\* Two attempts of one task never work in the workspace at the same time,
\* however many resumes there are and whoever asks for them.
NoOverlap ==
    \A j, k \in Job :
        worker[j] = "running" /\ worker[k] = "running" /\ Original[j] = Original[k] => j = k

\* No client retires a job whose worker is still at work: the descriptor by
\* which it is found, counted and interrupted stays, and is not marked finished.
RunningIsListed ==
    \A j \in Job : worker[j] = "running" =>
        descr[j] # NoFile /\ descr[j].finished = FALSE

\* README: on a timeout "list_agents keeps the job visible".  A timed-out
\* attempt keeps its descriptor, through concurrent waits, interrupts, resumes
\* and crashes of any of them.
CheckpointKept ==
    \A j \in Job : Resumable(output[j].status) => descr[j] # NoFile

\* A status once in output.json is never replaced by another one: Interrupt
\* and finish, which write the file too, never overrule the worker.
ReportKept ==
    [][\A j \in Job : output[j].status # "none" => output'[j].status = output[j].status]_vars

\* Callers may disagree about a worker that died without a report (one was
\* told "failed", another "interrupted"), but never about one that reported an
\* outcome of its own; a worker that itself reported "interrupted" is not told
\* apart here from one whose report Interrupt wrote, and is left out.
AgreedOutcome ==
    \A j \in Job : LET real == told[j] \ {"failed", "interrupted"}
                   IN  real # {} => Cardinality(told[j]) = 1

\* The links of Resume are consistent once it has returned: the descriptor of
\* the previous attempt names the job that names it as parent, and is spent.
LinksAgree ==
    \A j \in Job :
        Resumes(j) # {} /\ guard[j] = NoClient =>
            /\ descr[j] # NoFile
            /\ descr[j].by \in Resumes(j)
            /\ ~descr[j].resumable /\ ~output[j].resumable
            /\ output[j].by = descr[j].by

\* How far the attempts are, as a caller of Resume is meant to see them.
Phase(j) == IF worker[j] = "none" THEN "unused"
            ELSE IF worker[j] = "running" THEN "working"
            ELSE IF Resumable(output[j].status) THEN "checkpoint" ELSE "ended"

Attempts == INSTANCE Lineage WITH phase <- [j \in Job |-> Phase(j)], after <- parent

\* Concurrent calls of Resume implement the promise of Lineage: only an attempt
\* that ended at a timeout is continued, and by a single new one.
ImplementsLineage == Attempts!LSpec

\* Every job is settled: however clients interleave and crash, once its worker
\* has ended its descriptor is removed or marked finished.
EveryJobSettles ==
    \A j \in Job : (descr[j] # NoFile) ~> (descr[j] = NoFile \/ descr[j].finished)
=============================================================================
