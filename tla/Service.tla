------------------------------ MODULE Service ------------------------------
(***************************************************************************)
(* Violin as its callers meet it: MCP servers (internal/mcp) and command   *)
(* line clients (cmd/violin) that start, resume, wait for and interrupt    *)
(* jobs on the same files, under a configuration that the user may change, *)
(* and a server's orderly end.  A server is one process; a restart is      *)
(* another server.  It takes one request at a time, and so does a client.  *)
(*                                                                         *)
(* The admission of a job (module Scheduler) and the writes of finish and  *)
(* Resume (module Jobs) are one step each here; the policy of Spawn, who   *)
(* owns a job, status.json and the feedback log are spelt out.             *)
(***************************************************************************)
EXTENDS Policy, Supervisor, FiniteSets

CONSTANTS
    Client,      \* processes that run handlers, of which some are servers
    Server,
    Job,         \* jobs, numbered in the order they are started
    Scene,       \* what users and engines do in one behaviour, see below
    NoJob, NoFile, NoClient

Request == [task : [latin : BOOLEAN, mutates : BOOLEAN, dangerous : BOOLEAN], source : {""},
            mode : {"auto", "inspect", "implement"}, timeout : Nat, reviewed : BOOLEAN]

\* Outcomes after which a reader, or the heartbeat, may still write status.json:
\* runCLI does not wait for its readers when it stops the CLI, and a model that
\* has no place in the command is a provider_error with the heartbeat on.
Unawaited == {"timeout", "idle_timeout", "interrupted", "provider_error"}

\* loadFiles does not refuse a maximum of 0, under which no time is within bounds.
ASSUME ServiceAssumption ==
    /\ Server \subseteq Client /\ NoClient \notin Client
    /\ Job \subseteq Nat /\ NoJob \notin Job
    /\ NoFile \notin [done : BOOLEAN, by : Job \cup {NoJob}]
    /\ \A x \in Scene :
          /\ \A j \in Job : x.ask[j] \subseteq Request
          /\ x.limit \subseteq Nat /\ x.edits \in Nat /\ x.faults \in Nat
          /\ x.outcome \subseteq {"completed"} \cup Unawaited
          /\ \A c \in x.configs : c.max \in Nat \ {0}

\* A scene has: may[c], what c is asked for ("end" is the end of its input);
\* ask[j], the requests that j may be started for; limit, the timeouts given to
\* resume (0 for none); upstream, the answers of the upstream engine; model,
\* those of the active classifier (NoDecision without one); configs, the
\* configurations the user writes; outcome, what workers report; late, whether
\* readers of theirs are; and bounds on edits of the configuration and faults.
VARIABLES
    scene,    \* the scene, the same throughout
    config,   \* the configuration
    job,      \* [Job -> how it was started, or NoJob]
    descr,    \* [Job -> jobs/<id>.json, or NoFile]
    work,     \* [Job -> none | running | ending | exiting | killed | gone]
    status,   \* [Job -> status.json]
    output,   \* [Job -> the status in output.json, or none]
    log,      \* [Job -> its kinds of event in laya-feedback.jsonl; two clients
              \* that finish a job at once append two outcomes, which is one here]
    pc, op, target,
    mem,      \* [Client -> the descriptor it opened]
    report,   \* [Client -> the status and the observation finish goes by]
    queue,    \* [Server -> the jobs InterruptOwned has still to look at]
    edits,
    faults    \* clients killed, and appends to the log that fail

jobFiles == <<descr, output, log>>
world == <<scene, config, edits, job, work, status, jobFiles>>
local == <<op, target, mem, report>>
vars == <<world, pc, local, queue, faults>>

Fresh == [done |-> FALSE, by |-> NoJob]
NoReport == [status |-> "none", state |-> "none"]
Resumable(s) == s \in {"timeout", "idle_timeout"}

Started == {j \in Job : work[j] # "none"}
WorkerMatches(j) == work[j] \in {"running", "ending", "exiting", "killed"}
Alive(j) == output[j] = "none" /\ WorkerMatches(j)

At(c, l) == pc[c] = l
Goto(c, l) == pc' = [pc EXCEPT ![c] = l]

\* A handler is over; a server that is shutting down goes on with its queue.
Idle(c) == IF op[c] = "shutdown" THEN "sweep" ELSE "idle"
Over(c, l) == /\ Goto(c, l)
              /\ op' = [op EXCEPT ![c] = IF l = "sweep" THEN @ ELSE "none"]
              /\ target' = [target EXCEPT ![c] = NoJob]
              /\ mem' = [mem EXCEPT ![c] = Fresh]
              /\ report' = [report EXCEPT ![c] = NoReport]
Leave(c) == Over(c, Idle(c))

Init == /\ scene \in Scene
        /\ config \in {x \in scene.configs : Loads(x)}
        /\ job = [j \in Job |-> NoJob]
        /\ descr = [j \in Job |-> NoFile]
        /\ work = [j \in Job |-> "none"]
        /\ status = [j \in Job |-> NoStatus]
        /\ output = [j \in Job |-> "none"]
        /\ log = [j \in Job |-> {}]
        /\ pc = [c \in Client |-> IF c \in Server THEN "off" ELSE "idle"]
        /\ op = [c \in Client |-> "none"]
        /\ target = [c \in Client |-> NoJob]
        /\ mem = [c \in Client |-> Fresh]
        /\ report = [c \in Client |-> NoReport]
        /\ queue = [s \in Server |-> {}]
        /\ edits = 0 /\ faults = 0

-----------------------------------------------------------------------------
(* Starting a job.                                                         *)

\* The upstream engine's part in EvaluateLaya: only a server has one
\* (mcp.Run), and it may fail to load, to run, or to answer in order.
Engine(c) == {{}} \cup (IF c \in Server THEN {DecisionFromAnswers(a) : a \in scene.upstream} ELSE {})

\* Spawn, for a request q that the policy lets through: what was asked, the
\* plan and what it rests on go into the descriptor.
Admit(c, k, q, given, parent) ==
    /\ k \notin Started /\ \A i \in Job : i < k => i \in Started
    /\ Loads(config)
    /\ \E known \in Engine(c), m \in scene.model :
         LET r == EvaluateLaya(q.mode, known, m)
         IN  \E plan \in Plans(q, config, r) :
               job' = [job EXCEPT ![k] =
                          [asked |-> [q EXCEPT !.timeout = given], plan |-> plan, result |-> r,
                           laya |-> config.laya, max |-> config.max, parent |-> parent,
                           owner |-> IF parent = NoJob /\ c \in Server THEN c ELSE NoClient]]
    /\ work' = [work EXCEPT ![k] = "running"]

\* spawn_agent and "violin run".  Only a server says where a timeout is from
\* (intArg), and only it can pass a review on.
Spawn(c, j) ==
    /\ At(c, "idle") /\ "spawn" \in scene.may[c]
    /\ \E q \in scene.ask[j] :
         /\ c \in Server \/ ~q.reviewed
         /\ Admit(c, j, [q EXCEPT !.source = IF c \in Server /\ q.timeout > 0 THEN "request" ELSE ""],
                  q.timeout, NoJob)
    /\ descr' = [descr EXCEPT ![j] = Fresh]
    /\ UNCHANGED <<scene, config, edits, status, output, log, pc, local, queue, faults>>

-----------------------------------------------------------------------------
(* The worker, whose last status comes before its report.                  *)

Conclude(j) == /\ work[j] = "running"
               /\ \E o \in scene.outcome : status' = [status EXCEPT ![j] = WorkerStatus(o)]
               /\ work' = [work EXCEPT ![j] = "ending"]
               /\ UNCHANGED <<scene, config, edits, job, jobFiles, pc, local, queue, faults>>

\* Mutant: the report is there before the status.
ReportsFirst(j) == /\ work[j] \in {"running", "ending"}
                   /\ \E o \in scene.outcome : output' = [output EXCEPT ![j] = o]
                   /\ work' = [work EXCEPT ![j] = "exiting"]
                   /\ UNCHANGED <<scene, config, edits, job, status, descr, log, pc, local, queue, faults>>

Reports(j) == /\ work[j] = "ending"
              /\ output' = [output EXCEPT ![j] = status[j].phase]
              /\ work' = [work EXCEPT ![j] = "exiting"]
              /\ UNCHANGED <<scene, config, edits, job, status, descr, log, pc, local, queue, faults>>

\* A goroutine of the worker notes something after its last status.  One that
\* does so before the report is as good as one that does so just after it: the
\* status of a worker without a report is read once the worker is over, and
\* "running" is then taken for a failure, as the outcome would be.
NoteLate(j) == /\ scene.late /\ work[j] = "exiting" /\ output[j] \in Unawaited
               /\ status' = [status EXCEPT ![j] = WorkerStatus("running")]
               /\ UNCHANGED <<scene, config, edits, job, work, jobFiles, pc, local, queue, faults>>

Ends(j) == /\ WorkerMatches(j)
           /\ work' = [work EXCEPT ![j] = "gone"]
           /\ UNCHANGED <<scene, config, edits, job, status, jobFiles, pc, local, queue, faults>>

-----------------------------------------------------------------------------
(* Waiting, interrupting and resuming.                                     *)

\* Mutant: a missing report is passed on.
ReadAsIs(j) == output[j]

\* What finish reads of a job whose worker is over.
Read(j) == IF output[j] = "none" THEN "failed" ELSE output[j]

Take(c, o, j) == /\ op' = [op EXCEPT ![c] = o]
                 /\ target' = [target EXCEPT ![c] = j]
                 /\ mem' = [mem EXCEPT ![c] = descr[j]]

\* Open, and the check that the worker has ended: Wait goes on until then, or
\* answers that the job is running, and Resume refuses it.  A job that was
\* finished before is not finished again.
Open(c, o, j) ==
    /\ At(c, "idle") /\ o \in scene.may[c] \cap {"wait", "resume"}
    /\ descr[j] # NoFile /\ ~Alive(j)
    /\ o = "resume" => \A d \in Client : op[d] = "resume" => target[d] # j
    /\ descr[j].done => o = "resume"
    /\ Take(c, o, j)
    /\ report' = [report EXCEPT ![c].status = Read(j)]
    /\ Goto(c, IF descr[j].done THEN "answer" ELSE "observe")
    /\ UNCHANGED <<world, queue, faults>>

\* Interrupt signals a worker it can identify, and waits.
Signal(c, o, j) == /\ WorkerMatches(j)
                   /\ Take(c, o, j)
                   /\ Goto(c, "grace")

Interrupt(c, j) == /\ At(c, "idle") /\ "interrupt" \in scene.may[c]
                   /\ descr[j] # NoFile
                   /\ Signal(c, "interrupt", j)
                   /\ UNCHANGED <<world, report, queue, faults>>

\* The worker ends within the grace period, or is killed; one that cannot be
\* killed at once will not do any more either, but Interrupt gives it up.
Grace(c) == /\ At(c, "grace")
            /\ LET j == target[c] IN
               \/ ~WorkerMatches(j) /\ Goto(c, "mark") /\ UNCHANGED <<work, local>>
               \/ WorkerMatches(j) /\ work' = [work EXCEPT ![j] = "gone"]
                     /\ Goto(c, "mark") /\ UNCHANGED local
               \/ WorkerMatches(j) /\ work' = [work EXCEPT ![j] = "killed"] /\ Leave(c)
            /\ UNCHANGED <<scene, config, edits, job, status, jobFiles, queue, faults>>

\* A worker that left no report gets one, and a status that has no state; a
\* job that was finished when Interrupt opened it is not finished again.
Mark(c) == /\ At(c, "mark")
           /\ LET j == target[c] IN
              /\ IF output[j] = "none"
                 THEN /\ output' = [output EXCEPT ![j] = "interrupted"]
                      /\ status' = [status EXCEPT ![j] = BareStatus("interrupted")]
                 ELSE UNCHANGED <<output, status>>
              /\ IF mem[c].done THEN Leave(c)
                 ELSE /\ Goto(c, "observe")
                      /\ report' = [report EXCEPT ![c].status = output'[j]]
                      /\ UNCHANGED <<op, target, mem>>
           /\ UNCHANGED <<scene, config, edits, job, work, descr, log, queue, faults>>

\* finish, after the report: the supervisor's observation.  A job that can be
\* resumed is kept, as the handler knows it, and any other one is removed.
Finish(c) == /\ At(c, "observe")
             /\ LET j == target[c] IN
                /\ report' = [report EXCEPT ![c].state = Observe(status[j])]
                /\ IF Resumable(report[c].status)
                   THEN /\ descr' = [descr EXCEPT ![j] = [mem[c] EXCEPT !.done = TRUE]]
                        /\ output' = [output EXCEPT ![j] = report[c].status]
                   ELSE descr' = [descr EXCEPT ![j] = NoFile] /\ UNCHANGED output
             /\ Goto(c, "record")
             /\ UNCHANGED <<scene, config, edits, job, work, status, log, op, target, mem, queue, faults>>

Answer(c) == IF op[c] = "resume" THEN Goto(c, "answer") /\ UNCHANGED local ELSE Leave(c)

\* Mutant: a job that can be resumed is not over.
RecordFinal(c) == /\ At(c, "record")
                  /\ log' = [log EXCEPT ![target[c]] =
                               IF Resumable(report[c].status) THEN @ ELSE @ \cup {"outcome"}]
                  /\ Answer(c)
                  /\ UNCHANGED <<scene, config, edits, job, work, status, descr, output, queue, faults>>

\* AppendFeedback, whose error is ignored; then the report is returned, or
\* Resume goes on with it.
Record(c) == /\ At(c, "record")
             /\ \/ log' = [log EXCEPT ![target[c]] = @ \cup {"outcome"}] /\ UNCHANGED faults
                \/ faults < scene.faults /\ faults' = faults + 1 /\ UNCHANGED log
             /\ Answer(c)
             /\ UNCHANGED <<scene, config, edits, job, work, status, descr, output, queue>>

\* The text of a new attempt has the old one's, a verb of change, and the
\* worker's summary, in whatever letters and words.
Continued(task) == [latin : {FALSE, task.latin}, mutates : {TRUE}, dangerous : {TRUE, task.dangerous}]

\* Resume: what the new attempt is asked for.  A timeout that is the one the
\* previous attempt had keeps its source.
Resumption(j, task, t) ==
    [task |-> task, mode |-> job[j].plan.mode, reviewed |-> job[j].asked.reviewed,
     timeout |-> IF t = 0 THEN job[j].plan.timeout ELSE t,
     source |-> IF t \in {0, job[j].plan.timeout} THEN job[j].plan.source ELSE "resume"]

\* Resume of a job that is not spent, which it links to the new attempt.
Resume(c) ==
    LET j == target[c] IN
    /\ At(c, "answer") /\ op[c] = "resume"
    /\ \/ /\ Resumable(report[c].status) /\ mem[c].by = NoJob
          /\ \E k \in Job, task \in Continued(job[j].asked.task), t \in scene.limit :
               /\ Admit(c, k, Resumption(j, task, t), t, j)
               /\ descr' = [descr EXCEPT ![k] = Fresh, ![j] = [done |-> TRUE, by |-> k]]
       \/ UNCHANGED <<job, descr, work>>
    /\ Leave(c)
    /\ UNCHANGED <<scene, config, edits, status, output, log, queue, faults>>

\* laya_feedback: labels for a job that is known from an event.
Feedback(c, j) ==
    /\ At(c, "idle") /\ "feedback" \in scene.may[c]
    /\ log[j] # {}
    /\ log' = [log EXCEPT ![j] = @ \cup {"corrected"}]
    /\ UNCHANGED <<scene, config, edits, job, work, status, descr, output, pc, local, queue, faults>>

-----------------------------------------------------------------------------
(* A server's life.                                                        *)

Start(s) == /\ At(s, "off") /\ scene.may[s] # {}
            /\ Goto(s, "idle")
            /\ UNCHANGED <<world, local, queue, faults>>

\* The input ends or an answer cannot be written: InterruptOwned lists the
\* jobs ...
Shutdown(s) == /\ At(s, "idle") /\ "end" \in scene.may[s]
               /\ Goto(s, "sweep")
               /\ op' = [op EXCEPT ![s] = "shutdown"]
               /\ queue' = [queue EXCEPT ![s] = {j \in Job : descr[j] # NoFile}]
               /\ UNCHANGED <<world, target, mem, report, faults>>

Own(s, j) == descr[j] # NoFile /\ job[j].owner = s /\ Alive(j)

\* Mutant: the first job of its own is the last one it looks at.
SweepFirst(s) ==
    /\ At(s, "sweep") /\ queue[s] # {}
    /\ \E j \in queue[s] :
         \/ Own(s, j) /\ Signal(s, "shutdown", j) /\ queue' = [queue EXCEPT ![s] = {}]
         \/ ~Own(s, j) /\ UNCHANGED <<pc, op, target, mem>> /\ queue' = [queue EXCEPT ![s] = @ \ {j}]
    /\ UNCHANGED <<world, report, faults>>

\* ... and interrupts, one after the other, those it has started itself.
Sweep(s) ==
    /\ At(s, "sweep") /\ queue[s] # {}
    /\ \E j \in queue[s] :
         /\ queue' = [queue EXCEPT ![s] = @ \ {j}]
         /\ \/ Own(s, j) /\ Signal(s, "shutdown", j)
            \/ ~Own(s, j) /\ UNCHANGED <<pc, op, target, mem>>
    /\ UNCHANGED <<world, report, faults>>

Exit(s) == /\ At(s, "sweep") /\ queue[s] = {}
           /\ Over(s, "gone")
           /\ UNCHANGED <<world, queue, faults>>

\* A server that is killed stops nothing; the next command is a new process.
Crash(c) == /\ pc[c] \notin {"off", "gone", "dead"} /\ faults < scene.faults
            /\ faults' = faults + 1
            /\ Over(c, IF c \in Server THEN "dead" ELSE "idle")
            /\ queue' = [s \in Server |-> IF s = c THEN {} ELSE queue[s]]
            /\ UNCHANGED world

Configure == /\ edits < scene.edits
             /\ config' \in scene.configs
             /\ edits' = edits + 1
             /\ UNCHANGED <<scene, job, work, status, jobFiles, pc, local, queue, faults>>

Handle(c) == Grace(c) \/ Mark(c) \/ Finish(c) \/ Record(c) \/ Resume(c)

Asked(c) == \E j \in Job : \/ Spawn(c, j) \/ Interrupt(c, j) \/ Feedback(c, j)
                             \/ \E o \in {"wait", "resume"} : Open(c, o, j)

Next == \/ \E c \in Client : Handle(c) \/ Asked(c) \/ Crash(c)
        \/ \E s \in Server : Start(s) \/ Shutdown(s) \/ Sweep(s) \/ Exit(s)
        \/ \E j \in Job : Conclude(j) \/ Reports(j) \/ NoteLate(j) \/ Ends(j)
        \/ Configure

Spec == Init /\ [][Next]_vars

-----------------------------------------------------------------------------
Statuses == scene.outcome \cup {"failed", "interrupted"}

\* Only what was started has files; a handler that has read a report has a
\* status and, from then on, a state that is a last word (finish).
TypeOK ==
    /\ config \in scene.configs /\ edits <= scene.edits
    /\ \A j \in Job \ Started : job[j] = NoJob /\ descr[j] = NoFile /\ log[j] = {}
    /\ \A j \in Job : /\ descr[j] \in [done : BOOLEAN, by : Job \cup {NoJob}] \cup {NoFile}
                       /\ output[j] \in Statuses \cup {"none"}
                       /\ log[j] \subseteq {"outcome", "corrected"}
    /\ \A c \in Client : /\ pc[c] \in {"observe", "record", "answer"} =>
                                target[c] \in Started /\ report[c].status \in Statuses
                         /\ At(c, "record") => report[c].state \in Terminal

\* Whoever asks for the first attempt or for a later one, from a server or
\* the command line: the review is the one of the caller of the first.
FirstAttempt[j \in Started] == IF job[j].parent = NoJob THEN j ELSE FirstAttempt[job[j].parent]

ReviewKept == \A j \in Started : job[j].asked.reviewed = job[FirstAttempt[j]].asked.reviewed

UnreviewedIsSafe ==
    \A j \in Started : LET s == job[j] IN
        s.laya = "active" /\ ~s.asked.reviewed =>
          /\ s.result.decision.stats \in {Stats(a) : a \in scene.upstream}
          /\ Sure(s.result.decision, "risk") /\ s.result.decision.risk # "high"
          /\ s.asked.mode = "auto" => Sure(s.result.decision, "task_mode")
          /\ s.plan.mode = "implement" => s.asked.task.latin /\ ~(s.asked.task.mutates /\ s.asked.task.dangerous)

\* In active mode no worker runs unless the caller has reviewed the task, or
\* the upstream engine, not a fallback, was sure of a risk that is not high,
\* and of the mode it was to choose; and no unreviewed worker changes files
\* for a task in other letters or of dangerous words (src/README.md:90, 110).
ReviewedOrSafe == ReviewKept /\ UnreviewedIsSafe

\* A mode or a timeout that the caller gives is what the worker gets, through
\* every resumption and change of configuration (src/README.md:92); only a
\* timeout that repeats one of Laya's may be cut.  Without one a resumption
\* has the time of the attempt before, again cut only if it was Laya's.
CallerDecides ==
    \A j \in Started : LET s == job[j] IN
        /\ s.asked.mode # "auto" => s.plan.mode = s.asked.mode
        /\ s.plan.timeout \in 1 .. s.max
        /\ s.asked.timeout > 0 => \/ s.plan.timeout = s.asked.timeout
                                  \/ s.plan.source = "laya" /\ s.plan.timeout = s.max
        /\ s.parent # NoJob =>
             /\ s.plan.mode = job[s.parent].plan.mode
             /\ s.asked.timeout = 0 =>
                  \/ s.plan.timeout = job[s.parent].plan.timeout
                  \/ s.plan.source = "laya" /\ s.plan.timeout = s.max

\* A second try is given only to a job that inspects, in active mode, on the
\* word of the upstream engine: whatever mode the engine itself had in mind,
\* a job that changes files is tried once (src/README.md:93).
RetryOnlyInspect ==
    \A j \in Started : LET s == job[j] IN
        s.plan.attempts > 1 => s.plan.mode = "inspect" /\ s.laya = "active" /\ ~s.result.fallback

\* A server that has ended in order leaves no worker of its own at work, and
\* in ending it signals none that another client has started, whatever those
\* do meanwhile (InterruptOwned).
ShutdownStopsOwn ==
    /\ \A s \in Server, j \in Started :
         At(s, "gone") /\ job[j].owner = s => ~Alive(j) \/ work[j] = "killed"
    /\ \A s \in Server : op[s] = "shutdown" /\ target[s] # NoJob => job[target[s]].owner = s

\* A report with the worker's own outcome never comes with the observation of
\* another end, though the two files are written by two processes and read
\* one after the other (Job.finish).
ObservationAgrees ==
    \A c \in Client : At(c, "record") /\ report[c].status \notin {"failed", "interrupted"}
                       => report[c].state = StateForPhase(report[c].status)

\* Feedback is about jobs that are over, and an outcome of every job that was
\* finished is in the log or about to be, but for one of each client that was
\* killed and of each append that failed.
Lost == {j \in Started : /\ descr[j] = NoFile \/ descr[j].done
                         /\ "outcome" \notin log[j]
                         /\ \A c \in Client : At(c, "record") => target[c] # j}
OutcomeRecorded == /\ \A j \in Started : log[j] # {} => ~Alive(j)
                   /\ Cardinality(Lost) <= faults
=============================================================================
