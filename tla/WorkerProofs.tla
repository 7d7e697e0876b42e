---------------------------- MODULE WorkerProofs ----------------------------
(***************************************************************************)
(* What a worker leaves behind, whatever its CLI, its provider, its timers *)
(* and its callers do: for every set of options and every amount of output.*)
(***************************************************************************)
EXTENDS Worker, TLAPS

-----------------------------------------------------------------------------
(* The inductive invariant.                                                *)

\* Where a CLI may be running: in the two loops of runCLI, or after the worker
\* was killed; an exit that was seen is an exit.
LeaderInv ==
    /\ leader = "running" => pc \in {"select", "stopping", "exited"} /\ attempt \in 1 .. 2
    /\ pc \in {"select", "stopping", "sweep"} => wait \in {"waiting", "ended", "taken"}
    /\ pc = "sweep" => leader # "running"
    /\ wait \in {"ended", "taken"} => leader # "running"

\* An attempt is begun only while there are some left, and after a first one
\* only if its CLI changed nothing; what changed is known to have changed.
RetryInv ==
    /\ pc \in {"start", "attempt", "backoff"} => attempt < opt.max /\ acted = {}
    /\ acted # {} => changed

\* An error is kept from where it is found to the report about it.
CauseInv ==
    /\ pc \in {"start", "attempt", "request", "select", "complete"} => cause = "none"
    /\ cause \in {"timeout", "idle_timeout"} =>
         pc \in {"stopping", "sweep", "assess", "failing", "report", "return", "exited"}
    /\ report # "none" =>
         /\ pc \in {"return", "exited"}
         /\ leader # "running"
         /\ report = IF cause = "none" THEN "completed" ELSE StatusOf(cause)

\* An attempt that ran out of time is over, with all of its process group,
\* once runCLI has returned.
QuietInv ==
    cause \in {"timeout", "idle_timeout"} /\ pc \in {"assess", "failing", "report", "return", "exited"} =>
        \/ leader # "running" /\ attempt \notin child
        \/ pc = "exited" /\ report = "none"

\* The last status is written when the heartbeat has been stopped, unless a
\* model had no place in the command.
StatusInv ==
    /\ pc = "start" => status = "none" /\ beat = "off" /\ \A s \in Stream : reader[s] = "off"
    /\ status \in Terminal => pc \in {"report", "return", "exited"}
    /\ pc \in {"failing", "report", "return"} /\ ~opt.noplace => beat # "on"
    /\ pc = "exited" => beat # "on"

IInv == TypeOK /\ LeaderInv /\ RetryInv /\ CauseInv /\ QuietInv /\ StatusInv

-----------------------------------------------------------------------------
\* Every option is a record with these fields.
LEMMA OptionFields ==
    ASSUME TypeOK
    PROVE  /\ opt.transport \in {"cli", "api"} /\ opt.mode \in {"inspect", "implement"}
           /\ opt.max \in {1, 2} /\ opt.git \in BOOLEAN /\ opt.idle \in BOOLEAN
           /\ opt.noplace \in BOOLEAN
BY WorkerAssumption DEF TypeOK

\* The invariant holds when the process starts.
LEMMA InitInv == Init => IInv
<1> SUFFICES ASSUME Init PROVE IInv
    OBVIOUS
<1>1. TypeOK
    <2>1. reader \in [Stream -> {"off", "reading", "noting", "sent", "taken"}]
        BY DEF Init
    <2>2. wrote \in [Stream -> Nat] /\ pipe \in [Stream -> Nat] /\ got \in [Stream -> Nat]
        BY DEF Init, Zero
    <2>3. child \subseteq 1 .. 2 /\ acted \subseteq 1 .. 2 /\ attempt \in 0 .. 2
        BY DEF Init
    <2> QED
        BY <2>1, <2>2, <2>3 DEF Init, TypeOK
<1>2. LeaderInv /\ CauseInv /\ QuietInv /\ StatusInv
    BY DEF Init, LeaderInv, CauseInv, QuietInv, StatusInv, Terminal
<1>3. RetryInv
    BY <1>1, OptionFields DEF Init, RetryInv
<1> QED
    BY <1>1, <1>2, <1>3 DEF IInv

\* Every step keeps the invariant.
LEMMA NextInv == IInv /\ [Next]_vars => IInv'
<1> SUFFICES ASSUME IInv, [Next]_vars PROVE IInv'
    OBVIOUS
<1> USE OptionFields DEF IInv, TypeOK, LeaderInv, RetryInv, CauseInv, QuietInv, StatusInv, Terminal, run, group, streams, space, Go
<1>1. CASE Refuse
    BY <1>1 DEF Refuse
<1>2. CASE Begin
    BY <1>2 DEF Begin
<1>3. CASE Request
    BY <1>3 DEF Request
<1>4. CASE Answer
    BY <1>4 DEF Answer
<1>5. CASE StartCLI
    BY <1>5 DEF StartCLI, Zero
<1>6. CASE StartFails
    BY <1>6 DEF StartFails
<1>7. CASE TakeWait
    BY <1>7 DEF Selecting, TakeWait
<1>8. CASE Collect
    BY <1>8 DEF Collected, Parsed, Collect
<1>9. CASE Reaped
    BY <1>9 DEF Reaped
<1>10. CASE StopKill
    BY <1>10 DEF StopKill
<1>11. CASE Sweep
    BY <1>11 DEF Sweep
<1>12. CASE Assess
    BY <1>12 DEF MayRetry, SameDigest, Assess
<1>13. CASE Backoff
    BY <1>13 DEF Backoff
<1>14. CASE StopEmpty
    BY <1>14 DEF StopEmpty
<1>15. CASE Complete
    BY <1>15 DEF Complete
<1>16. CASE Fail
    BY <1>16 DEF StatusOf, Fail
<1>17. CASE WriteReport
    BY <1>17 DEF StatusOf, WriteReport
<1>18. CASE Exit
    BY <1>18 DEF Exit
<1>19. CASE Cancelled
    BY <1>19 DEF Abandon, Selecting, Cancelled
<1>20. CASE HardTimeout
    BY <1>20 DEF Abandon, Selecting, HardTimeout
<1>21. CASE IdleTimeout
    BY <1>21 DEF Abandon, Selecting, IdleTimeout
<1>22. CASE WaitEnds
    BY <1>22 DEF WaitEnds, Zero
<1>23. CASE Beat
    BY <1>23 DEF Beat
<1>24. CASE Fork
    BY <1>24 DEF Fork
<1>25. CASE LeaderEnds
    BY <1>25 DEF LeaderEnds
<1>26. CASE ChildEnds
    BY <1>26 DEF ChildEnds
<1>27. CASE LeaderChanges
    BY <1>27 DEF LeaderChanges
<1>28. CASE ChildChanges
    BY <1>28 DEF ChildChanges
<1>29. CASE Signal
    BY <1>29 DEF Signal
<1>30. CASE Killed
    BY <1>30 DEF Killed
<1>31. ASSUME NEW s \in Stream, TakeStream(s) PROVE IInv'
    BY <1>31 DEF Selecting, TakeStream
<1>32. ASSUME NEW s \in Stream, Read(s) PROVE IInv'
    BY <1>32 DEF Read
<1>33. ASSUME NEW s \in Stream, Note(s) PROVE IInv'
    BY <1>33 DEF Note
<1>34. ASSUME NEW s \in Stream, ReadEnds(s) PROVE IInv'
    BY <1>34 DEF ReadEnds
<1>35. ASSUME NEW s \in Stream, Emit(s) PROVE IInv'
    BY <1>35 DEF Emit
<1>36. CASE UNCHANGED vars
    BY <1>36 DEF vars
<1> QED
    BY <1>1, <1>2, <1>3, <1>4, <1>5, <1>6, <1>7, <1>8, <1>9, <1>10, <1>11, <1>12, <1>13, <1>14, <1>15, <1>16, <1>17, <1>18, <1>19, <1>20, <1>21, <1>22, <1>23, <1>24, <1>25, <1>26, <1>27, <1>28, <1>29, <1>30, <1>31, <1>32, <1>33, <1>34, <1>35, <1>36 DEF Next, Main, Others
-----------------------------------------------------------------------------
\* The invariant holds of every reachable state.
LEMMA Invariance == Spec => []IInv
<1> QED
    BY InitInv, NextInv, PTL DEF Spec

\* Every variable of a worker keeps its type; in particular there is never a
\* third attempt, whatever the options say.
THEOREM TypeCorrect == Spec => []TypeOK
<1>1. IInv => TypeOK
    BY DEF IInv
<1> QED
    BY Invariance, <1>1, PTL

\* A worker that has reported has left no CLI behind: runCLI returns on no path
\* before the CLI is dead.
THEOREM NoCLILeftBehind == Spec => []NoOrphan
<1>1. IInv => NoOrphan
    BY DEF IInv, CauseInv, NoOrphan
<1> QED
    BY Invariance, <1>1, PTL

\* A report of a timeout, after which Resume may start a new attempt in the same
\* workspace, means that the CLI and its whole process group are gone: stopCLI
\* has swept the group, or found it empty.
THEOREM TimeoutIsQuiet == Spec => []CheckpointIsQuiet
<1>1. IInv => CheckpointIsQuiet
    BY DEF IInv, CauseInv, QuietInv, CheckpointIsQuiet, StatusOf
<1> QED
    BY Invariance, <1>1, PTL

\* The attempts are counted at the top of Run's loop and nowhere else.
LEMMA OnlyTheLoopCounts ==
    Next /\ attempt' # attempt => Request \/ StartCLI \/ StartFails
BY DEF Next, Main, Others, Refuse, Begin, Answer, TakeStream, TakeWait, Collect, Reaped, StopKill,
       Sweep, Assess, Backoff, StopEmpty, Complete, Fail, WriteReport, Exit, Cancelled, HardTimeout,
       IdleTimeout, Abandon, WaitEnds, Read, Note, ReadEnds, Beat, Emit, Fork, LeaderEnds, ChildEnds,
       LeaderChanges, ChildChanges, Signal, Killed, run

\* Who writes status.json: the steps of Run, the heartbeat and the readers.
LEMMA OnlyTheseWriteStatus ==
    Next => Begin \/ Complete \/ Fail \/ Beat \/ (\E s \in Stream : Note(s)) \/ status' = status
BY DEF Next, Main, Others, Refuse, Request, Answer, StartCLI, StartFails, TakeStream, TakeWait,
       Collect, Reaped, StopKill, Sweep, Assess, Backoff, StopEmpty, WriteReport, Exit, Cancelled,
       HardTimeout, IdleTimeout, Abandon, WaitEnds, Read, ReadEnds, Emit, Fork, LeaderEnds, ChildEnds,
       LeaderChanges, ChildChanges, Signal, Killed, run

\* Run begins no attempt after one whose CLI changed the workspace, whatever the
\* mode, the provider's error and the moment of the change, and never while a
\* CLI is running.
THEOREM NoRepeatedSideEffects == Spec => SideEffectsNotRepeated
<1> DEFINE OnceOnly == attempt' > attempt => acted = {} /\ leader # "running"
<1>1. IInv /\ [Next]_vars => [OnceOnly]_vars
    <2> SUFFICES ASSUME IInv, Next, attempt' > attempt PROVE acted = {} /\ leader # "running"
        OBVIOUS
    <2>1. Request \/ StartCLI \/ StartFails
        <3>1. attempt' # attempt
            BY DEF IInv, TypeOK
        <3> QED
            BY <3>1, OnlyTheLoopCounts
    <2>2. pc = "attempt"
        BY <2>1 DEF Request, StartCLI, StartFails
    <2> QED
        BY <2>2 DEF IInv, LeaderInv, RetryInv
<1> QED
    BY Invariance, <1>1, PTL DEF Spec, SideEffectsNotRepeated

\* Once the readers are done the last status in status.json stays: neither the
\* heartbeat nor a reader turns the job back to running.  Excepted is the one
\* failure that is reported with the heartbeat on, that of a model without a
\* {model} placeholder (worker.go:114-116), until that heartbeat has stopped.
THEOREM LastStatusStays == Spec => FinalStatusKept
<1> DEFINE Final == status \in Terminal /\ ReadersDone /\ ~HeartbeatLeftOn
           Kept == Final => status' = status
<1>1. IInv /\ [Next]_vars => [Kept]_vars
    <2> SUFFICES ASSUME IInv, Next, Final PROVE status' = status
        OBVIOUS
    <2>1. pc \in {"report", "return", "exited"} /\ beat # "on"
        BY DEF IInv, StatusInv, HeartbeatLeftOn
    <2>2. Begin \/ Complete \/ Fail \/ Beat \/ (\E s \in Stream : Note(s)) \/ status' = status
        BY OnlyTheseWriteStatus
    <2> QED
        BY <2>1, <2>2 DEF Begin, Complete, Fail, Beat, Note, ReadersDone
<1> QED
    BY Invariance, <1>1, PTL DEF Spec, FinalStatusKept
=============================================================================
