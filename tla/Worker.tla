------------------------------- MODULE Worker -------------------------------
(***************************************************************************)
(* One worker process: internal/worker.Run and the runCLI and stopCLI it   *)
(* uses.  Besides the main goroutine there are the heartbeat, one reader   *)
(* per output stream of the CLI, and the goroutine in cmd.Wait; outside    *)
(* are the CLI, whatever its process group has forked, signals, and the    *)
(* API provider.  All the goroutines write status.json, under a mutex.     *)
(*                                                                         *)
(* Abstracted: timers may fire whenever they are armed; what a stream      *)
(* carries is a number of chunks; the workspace digest is the question     *)
(* whether the workspace differs from the baseline; report fields other    *)
(* than the status, and the placeholder substitution in the command.       *)
(***************************************************************************)
EXTENDS Integers, FiniteSets

CONSTANTS
    Option,   \* how the worker may have been started and configured
    MaxOut,   \* bound: chunks the CLI writes to a stream in one attempt
    MayKill   \* bound: whether Interrupt's SIGKILL may hit this worker

Stream == {"stdout", "stderr"}

ASSUME WorkerAssumption ==
    /\ Option \subseteq [transport : {"cli", "api"}, mode : {"inspect", "implement"},
                         max : {1, 2}, git : BOOLEAN, idle : BOOLEAN, noplace : BOOLEAN]
    /\ MaxOut \in Nat /\ MayKill \in BOOLEAN

VARIABLES
    opt,       \* transport, mode, MaxAttempts, baselineDigest # "", idle
               \* timer in use, a model without its {model} placeholder
    pc,        \* where Run is
    attempt,   \* options.Attempts
    cause,     \* kind of err
    cancelled, \* ctx is done: SIGINT or SIGTERM arrived
    beat,      \* the heartbeat goroutine: off | on | stopped
    status,    \* phase in status.json
    report,    \* status in the report, "none" before it is written
    leader,    \* the CLI of this attempt: none | running | ok | failed
    child,     \* attempts whose process group holds a surviving descendant
    wait,      \* cmd.Wait: off | waiting | ended | taken
    reader,    \* [Stream -> off | reading | noting | sent | taken]
    wrote,     \* [Stream -> chunks the CLI has written]
    pipe,      \* [Stream -> chunks in the pipe]
    got,       \* [Stream -> chunks the reader has read]
    changed,   \* the workspace differs from the baseline
    acted      \* history: attempts whose CLI changed the workspace itself

group   == <<leader, child>>
streams == <<wait, reader, wrote, pipe, got>>
space   == <<changed, acted>>
run     == <<opt, attempt, cause, cancelled, beat, status, report>>
vars == <<pc, run, group, streams, space>>

-----------------------------------------------------------------------------
Zero == [s \in Stream |-> 0]

Init == /\ opt \in Option
        /\ pc = "start"
        /\ attempt = 0
        /\ cause = "none"
        /\ cancelled = FALSE
        /\ beat = "off"
        /\ status = "none"
        /\ report = "none"
        /\ leader = "none"
        /\ child = {}
        /\ wait = "off"
        /\ reader = [s \in Stream |-> "off"]
        /\ wrote = Zero /\ pipe = Zero /\ got = Zero
        /\ changed = FALSE
        /\ acted = {}

\* Run goes on, with everything but pc and the named fields as it was.
Go(l) == pc' = l

\* Mutant: every error is its own status.
StatusRaw(err) == err

\* writeFailure: what an error is reported as.
StatusOf(err) ==
    CASE err \in {"timeout", "idle_timeout", "interrupted"} -> err
      [] OTHER -> "provider_error"

\* Nothing to run: no task file or no configuration.  There is no report.
Refuse == /\ pc = "start"
          /\ Go("exited")
          /\ UNCHANGED <<run, group, streams, space>>

\* Baseline taken, heartbeat started, status "starting" and then "running"; a
\* model that the command cannot pass on is reported with the heartbeat on.
Begin == /\ pc = "start"
         /\ beat' = "on"
         /\ status' = "running"
         /\ IF opt.noplace
            THEN Go("failing") /\ cause' = "error"
            ELSE Go("attempt") /\ UNCHANGED cause
         /\ UNCHANGED <<opt, attempt, cancelled, report, group, streams, space>>

\* The top of the attempt loop, API transport.
Request == /\ pc = "attempt" /\ opt.transport = "api"
           /\ attempt' = attempt + 1
           /\ Go("request")
           /\ UNCHANGED <<opt, cause, cancelled, beat, status, report, group, streams, space>>

\* The provider's answer: text, nothing, a retryable failure, the end of the
\* request's own deadline, or of ctx.
Answer == /\ pc = "request"
          /\ \E c \in {"none", "empty", "provider", "deadline"}
                      \cup (IF cancelled THEN {"interrupted"} ELSE {}) :
               /\ cause' = c
               /\ Go(IF c = "none" THEN "complete"
                     ELSE IF c = "empty" THEN "stop" ELSE "assess")
          /\ UNCHANGED <<opt, attempt, cancelled, beat, status, report, group, streams, space>>

\* The same for a CLI: pipes, cmd.Start in a process group of its own, readers.
StartCLI ==
    /\ pc = "attempt" /\ opt.transport = "cli"
    /\ attempt' = attempt + 1
    /\ leader' = "running"
    /\ wait' = "waiting"
    /\ reader' = [s \in Stream |-> "reading"]
    /\ wrote' = Zero /\ pipe' = Zero /\ got' = Zero
    /\ Go("select")
    /\ UNCHANGED <<opt, cause, cancelled, beat, status, report, child, space>>

\* The command cannot be started: not an executionError.
StartFails ==
    /\ pc = "attempt" /\ opt.transport = "cli"
    /\ attempt' = attempt + 1
    /\ cause' = "error"
    /\ Go("assess")
    /\ UNCHANGED <<opt, cancelled, beat, status, report, group, streams, space>>

-----------------------------------------------------------------------------
(* runCLI's select loop: each ready case may be the one taken.             *)

Collected == wait = "taken" /\ \A s \in Stream : reader[s] = "taken"

Selecting == pc = "select" /\ ~Collected

TakeStream(s) ==
    /\ Selecting /\ reader[s] = "sent"
    /\ reader' = [reader EXCEPT ![s] = "taken"]
    /\ UNCHANGED <<pc, run, group, wait, wrote, pipe, got, space>>

TakeWait ==
    /\ Selecting /\ wait = "ended"
    /\ wait' = "taken"
    /\ UNCHANGED <<pc, run, group, reader, wrote, pipe, got, space>>

\* Mutant: the CLI is not stopped.
AbandonOnly(c) == /\ Selecting
                  /\ cause' = c
                  /\ Go("assess")
                  /\ UNCHANGED <<opt, attempt, cancelled, beat, status, report,
                                 group, streams, space>>

\* One of parent.Done, the hard timer and the idle timer: SIGINT to the group.
Abandon(c) == /\ Selecting
              /\ cause' = c
              /\ Go("stopping")
              /\ UNCHANGED <<opt, attempt, cancelled, beat, status, report,
                             group, streams, space>>

Cancelled   == cancelled /\ Abandon("interrupted")
HardTimeout == Abandon("timeout")
IdleTimeout == opt.idle /\ Abandon("idle_timeout")

\* parseProviderOutput on what was read: text, or an error event; nothing read
\* is an error as well.
Parsed == {"error"} \cup (IF \E s \in Stream : got[s] > 0 THEN {"none"} ELSE {})

\* After both streams and the exit status.
Collect ==
    /\ pc = "select" /\ Collected
    /\ IF leader = "failed"
       THEN cause' = "provider" /\ Go("assess")
       ELSE \E c \in Parsed :
              /\ cause' = c
              /\ Go(IF c = "none" THEN "complete" ELSE "assess")
    /\ UNCHANGED <<opt, attempt, cancelled, beat, status, report, group, streams, space>>

\* Mutant: waits for an exit the loop has already received.
ReapedAgain == /\ pc = "stopping"
               /\ wait = "ended"
               /\ wait' = "taken"
               /\ Go("sweep")
               /\ UNCHANGED <<run, group, reader, wrote, pipe, got, space>>

\* stopCLI: wait for the exit unless the loop has seen it ...
Reaped == /\ pc = "stopping"
          /\ wait \in {"ended", "taken"}
          /\ wait' = "taken"
          /\ Go("sweep")
          /\ UNCHANGED <<run, group, reader, wrote, pipe, got, space>>

\* Mutant: SIGINT is all the CLI gets.
StopAgain == /\ pc = "stopping" /\ wait = "waiting"
             /\ UNCHANGED vars

\* ... for three seconds, then SIGKILL the group ...
StopKill == /\ pc = "stopping" /\ wait = "waiting"
            /\ leader' = IF leader = "running" THEN "failed" ELSE leader
            /\ child' = child \ {attempt}
            /\ UNCHANGED <<pc, run, streams, space>>

\* Mutant: the rest of the group is left alone.
SweepSkipped == /\ pc = "sweep"
                /\ Go("assess")
                /\ UNCHANGED <<run, group, streams, space>>

\* ... and whatever is left in the group is killed at the end.
Sweep == /\ pc = "sweep"
         /\ child' = child \ {attempt}
         /\ Go("assess")
         /\ UNCHANGED <<run, leader, streams, space>>

-----------------------------------------------------------------------------
(* After an attempt.                                                       *)

\* Mutant: the digests are computed and not compared.
DigestKnown(unknown) == opt.git /\ ~unknown

\* workspaceDigest is the baseline's; unknown says that it cannot be computed.
SameDigest(unknown) == opt.git /\ ~unknown /\ ~changed

\* A second attempt needs all of these.
MayRetry(unknown) == /\ cause = "provider"
                     /\ opt.mode = "inspect"
                     /\ attempt < opt.max
                     /\ ~cancelled
                     /\ SameDigest(unknown)

Assess == /\ pc = "assess"
          /\ \E unknown \in BOOLEAN :
               IF MayRetry(unknown)
               THEN Go("backoff") /\ UNCHANGED beat
               ELSE Go("failing") /\ beat' = "stopped"
          /\ UNCHANGED <<opt, attempt, cause, cancelled, status, report, group, streams, space>>

\* Two seconds, unless ctx is done first; when both are ready either is taken.
Backoff == /\ pc = "backoff"
           /\ \/ Go("attempt") /\ cause' = "none" /\ UNCHANGED beat
              \/ /\ cancelled
                 /\ Go("failing") /\ cause' = "interrupted" /\ beat' = "stopped"
           /\ UNCHANGED <<opt, attempt, cancelled, status, report, group, streams, space>>

\* An answer without text is an error, too.
StopEmpty == /\ pc = "stop"
             /\ beat' = "stopped"
             /\ Go("failing")
             /\ UNCHANGED <<opt, attempt, cause, cancelled, status, report,
                            group, streams, space>>

\* Mutant: the heartbeat is stopped too late.
CompleteBeating == /\ pc = "complete"
                   /\ status' = "completed"
                   /\ Go("report")
                   /\ UNCHANGED <<opt, attempt, cause, cancelled, beat, report,
                                  group, streams, space>>

\* stopHeartbeat (which waits for the goroutine), then the status.
Complete == /\ pc = "complete"
            /\ beat' = "stopped"
            /\ status' = "completed"
            /\ Go("report")
            /\ UNCHANGED <<opt, attempt, cause, cancelled, report, group, streams, space>>

\* writeFailure's status.
Fail == /\ pc = "failing"
        /\ status' = StatusOf(cause)
        /\ Go("report")
        /\ UNCHANGED <<opt, attempt, cause, cancelled, beat, report, group, streams, space>>

\* writeReport: report.json and standard output.
WriteReport == /\ pc = "report"
               /\ report' = IF cause = "none" THEN "completed" ELSE StatusOf(cause)
               /\ Go("return")
               /\ UNCHANGED <<opt, attempt, cause, cancelled, beat, status,
                              group, streams, space>>

\* Run returns, deferred stopHeartbeat included, and the process exits: its
\* goroutines end where they are and its pipes are closed.
Exit == /\ pc = "return"
        /\ beat' = "stopped"
        /\ Go("exited")
        /\ UNCHANGED <<opt, attempt, cause, cancelled, status, report, group, streams, space>>

-----------------------------------------------------------------------------
(* The other goroutines.                                                   *)

Beat == /\ beat = "on" /\ pc # "exited"
        /\ status' = "running"
        /\ UNCHANGED <<pc, opt, attempt, cause, cancelled, beat, report, group, streams, space>>

\* cmd.Wait returns once the CLI is dead, and closes the pipes it made.
WaitEnds == /\ wait = "waiting" /\ leader # "running" /\ pc # "exited"
            /\ wait' = "ended"
            /\ pipe' = Zero
            /\ UNCHANGED <<pc, run, group, reader, wrote, got, space>>

Read(s) == /\ reader[s] = "reading" /\ pc # "exited"
           /\ wait = "waiting" /\ pipe[s] > 0
           /\ got' = [got EXCEPT ![s] = @ + pipe[s]]
           /\ pipe' = [pipe EXCEPT ![s] = 0]
           /\ reader' = [reader EXCEPT ![s] = "noting"]
           /\ UNCHANGED <<pc, run, group, wait, wrote, space>>

\* What was read is noted in status.json.
Note(s) == /\ reader[s] = "noting" /\ pc # "exited"
           /\ status' = "running"
           /\ reader' = [reader EXCEPT ![s] = "reading"]
           /\ UNCHANGED <<pc, opt, attempt, cause, cancelled, beat, report, group,
                          wait, wrote, pipe, got, space>>

\* End of file, or the error of a read from a closed pipe: both end the reader.
ReadEnds(s) == /\ reader[s] = "reading" /\ pc # "exited"
               /\ \/ wait # "waiting"
                  \/ pipe[s] = 0 /\ leader # "running" /\ attempt \notin child
               /\ reader' = [reader EXCEPT ![s] = "sent"]
               /\ UNCHANGED <<pc, run, group, wait, wrote, pipe, got, space>>

-----------------------------------------------------------------------------
(* Outside the worker.                                                     *)

Emit(s) == /\ leader = "running" \/ attempt \in child
           /\ wait = "waiting" /\ wrote[s] < MaxOut
           /\ wrote' = [wrote EXCEPT ![s] = @ + 1]
           /\ pipe' = [pipe EXCEPT ![s] = @ + 1]
           /\ UNCHANGED <<pc, run, group, wait, reader, got, space>>

Fork == /\ leader = "running"
        /\ child' = child \cup {attempt}
        /\ UNCHANGED <<pc, run, leader, streams, space>>

LeaderEnds == /\ leader = "running"
              /\ leader' \in {"ok", "failed"}
              /\ UNCHANGED <<pc, run, child, streams, space>>

ChildEnds == /\ \E a \in child : child' = child \ {a}
             /\ UNCHANGED <<pc, run, leader, streams, space>>

LeaderChanges == /\ leader = "running"
                 /\ changed' = TRUE
                 /\ acted' = acted \cup {attempt}
                 /\ UNCHANGED <<pc, run, group, streams>>

ChildChanges == /\ child # {}
                /\ changed' = TRUE
                /\ UNCHANGED <<pc, run, group, streams, acted>>

\* SIGINT from Interrupt, or SIGTERM.
Signal == /\ pc # "exited"
          /\ cancelled' = TRUE
          /\ UNCHANGED <<pc, opt, attempt, cause, beat, status, report, group, streams, space>>

\* The SIGKILL Interrupt sends after its grace period reaches the worker's
\* group only, and the CLI is in another one.
Killed == /\ MayKill /\ pc # "exited" /\ cancelled
          /\ Go("exited")
          /\ beat' = "stopped"
          /\ UNCHANGED <<opt, attempt, cause, cancelled, status, report, group, streams, space>>

Main == \/ Begin \/ Request \/ Answer \/ StartCLI \/ StartFails
        \/ (\E s \in Stream : TakeStream(s)) \/ TakeWait \/ Collect
        \/ Reaped \/ StopKill \/ Sweep \/ Assess \/ Backoff \/ StopEmpty
        \/ Complete \/ Fail \/ WriteReport \/ Exit

Others == WaitEnds \/ \E s \in Stream : Read(s) \/ Note(s) \/ ReadEnds(s)

Next == \/ Refuse \/ Main \/ Cancelled \/ HardTimeout \/ IdleTimeout
        \/ Others \/ Beat
        \/ (\E s \in Stream : Emit(s)) \/ Fork \/ LeaderEnds \/ ChildEnds
        \/ LeaderChanges \/ ChildChanges \/ Signal \/ Killed

Spec == Init /\ [][Next]_vars

\* The worker's goroutines run and a signal that has arrived is noticed.  The
\* CLI owes nothing: it may hang, ignore SIGINT and keep its pipes open.
Fairness == WF_vars(Main) /\ WF_vars(Cancelled)
            /\ WF_vars(WaitEnds) /\ \A s \in Stream : WF_vars(Note(s)) /\ WF_vars(ReadEnds(s))

FairSpec == Spec /\ Fairness

-----------------------------------------------------------------------------
Terminal == {"completed", "provider_error", "timeout", "idle_timeout", "interrupted"}

TypeOK ==
    /\ opt \in Option
    /\ pc \in {"start", "attempt", "request", "select", "stopping", "sweep", "assess",
               "backoff", "stop", "complete", "failing", "report", "return", "exited"}
    /\ attempt \in 0 .. 2
    /\ cause \in {"none", "empty", "error", "provider", "deadline", "timeout",
                  "idle_timeout", "interrupted"}
    /\ cancelled \in BOOLEAN
    /\ beat \in {"off", "on", "stopped"}
    /\ status \in Terminal \cup {"none", "running"}
    /\ report \in Terminal \cup {"none"}
    /\ leader \in {"none", "running", "ok", "failed"}
    /\ child \subseteq 1 .. 2
    /\ wait \in {"off", "waiting", "ended", "taken"}
    /\ reader \in [Stream -> {"off", "reading", "noting", "sent", "taken"}]
    /\ wrote \in [Stream -> Nat] /\ pipe \in [Stream -> Nat] /\ got \in [Stream -> Nat]
    /\ changed \in BOOLEAN
    /\ acted \subseteq 1 .. 2

\* A timed-out attempt can be resumed in the same workspace at once, so by the
\* time it is reported nothing it started is left: neither the CLI nor a
\* descendant in its group, although stopCLI may find the CLI gone and only
\* the descendant there.
CheckpointIsQuiet ==
    report \in {"timeout", "idle_timeout"} => leader # "running" /\ attempt \notin child

\* No CLI outlives its worker, unless the worker was itself killed: every path
\* to a report goes through the end of the CLI.
NoOrphan == report # "none" => leader # "running"

\* Skill: "implement jobs with side effects are not retried automatically".
\* No attempt follows one whose CLI changed the workspace, in any mode, and
\* there are never two CLIs at once.
SideEffectsNotRepeated ==
    [][attempt' > attempt => acted = {} /\ leader # "running"]_vars

\* worker.go:114-116 reports a model that the command has no place for while
\* the heartbeat goes on, until Run returns and its deferred stop is reached: a
\* tick in between puts "running" over "provider_error", and it stays there.
HeartbeatLeftOn == opt.noplace /\ beat = "on"

\* Both streams were read to their end, or there was no CLI to read from.
ReadersDone == \A s \in Stream : reader[s] \in {"off", "taken"}

\* Supervisors take a terminal status.json for the end of the job.  Neither the
\* heartbeat nor a reader puts the status back to "running", on every path
\* but the two on which the code lets them: after a timeout or an interrupt
\* the readers are not awaited (worker.go:356), and a failure for want of the
\* {model} placeholder leaves the heartbeat on.
FinalStatusKept ==
    [][(status \in Terminal /\ ReadersDone /\ ~HeartbeatLeftOn) => status' = status]_vars

\* Every worker that starts ends with a report (one killed by SIGKILL excepted)
\* as long as its hard timer works: a CLI that hangs, that ignores SIGINT, or
\* whose descendants keep the pipes open, cannot hold it any longer.
WorkerReports ==
    WF_vars(HardTimeout) =>
        ((pc = "attempt") ~> (report # "none" \/ (cancelled /\ pc = "exited")))

\* An interrupt ends the worker whatever the CLI does, without the help of a
\* timeout.
InterruptEnds == cancelled /\ pc \in {"select", "backoff"} ~> pc = "exited"

\* The tests of runCLI expect its text to be what the command printed, so a
\* completed report holds all of it.  It need not: cmd.Wait closes the pipes.
OutputComplete == report = "completed" /\ opt.transport = "cli" => got = wrote
=============================================================================
