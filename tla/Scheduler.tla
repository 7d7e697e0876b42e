------------------------------ MODULE Scheduler ------------------------------
(***************************************************************************)
(* Admission of a job: internal/jobs.Spawn.  Several processes (an MCP     *)
(* server per client, CLI invocations, Resume calls) run Spawn against one *)
(* runtime root.  They share three things on disk: the flock on            *)
(* scheduler.lock, round-robin.json, and the descriptors under jobs/.      *)
(* Workers are separate process groups: they end, and leave a report,      *)
(* whatever the process that started them does.                            *)
(*                                                                         *)
(* Abstracted: configuration loading, the Laya review gate and the mode,   *)
(* timeout and attempt policy (they decide before the lock is taken, or    *)
(* only fill descriptor fields), the contents of the run directory.  Every *)
(* early return of Spawn after the lock is taken is kept.                  *)
(***************************************************************************)
EXTENDS Integers, Sequences, FiniteSets, SequencesExt, Rotation

CONSTANTS
    Proc,           \* processes that may call Spawn
    Job,            \* agent ids; an id with neither process nor file is reused
    Backend,        \* backend names
    Session,        \* session ids
    Order,          \* scheduler.order
    MaxConcurrency, \* [Backend -> Nat], backends.<name>.max_concurrency
    MachineMax,     \* scheduler.machine_max_concurrency
    SessionMax,     \* scheduler.session_max_concurrency
    Request,        \* the Options callers pass
    ReadySets,      \* bound: the sets of backends that may pass checkAuth
    QwenHealth,     \* bound: the answers the qwen health command may give
    HealthCommand,  \* whether qwen has a health command
    MayFail,        \* whether the steps that can return an error do
    MaxCrashes,     \* bound: crashes of a calling process
    NoProc, NoJob, NoBackend, NoRequest, NoFile

ASSUME JobAssumption == IsFiniteSet(Job) /\ NoJob \notin Job
ASSUME ProcAssumption == NoProc \notin Proc
ASSUME RequestAssumption ==
    /\ NoRequest \notin Request
    /\ Request \subseteq [backend : Backend \cup {"auto"},
                          requested : Backend \cup {"auto"},
                          session : Session,
                          preferred : Seq(Backend)]
ASSUME ConfigAssumption ==
    /\ NoBackend \notin Backend /\ "auto" \notin Backend
    /\ Order \in Seq(Backend) /\ Order # <<>>
    /\ MaxConcurrency \in [Backend -> Nat]
    /\ MachineMax \in Nat /\ SessionMax \in Nat
    /\ NoFile \notin Nat
    /\ ReadySets \subseteq SUBSET Backend
    /\ QwenHealth \subseteq BOOLEAN
    /\ HealthCommand \in BOOLEAN /\ MayFail \in BOOLEAN
    /\ MaxCrashes \in Nat

VARIABLES
    lock,    \* holder of the flock on scheduler.lock
    turn,    \* index in round-robin.json, or NoFile
    worker,  \* [Job -> none | running | reported]: the worker's process group
    descr,   \* [Job -> BOOLEAN]: jobs/<id>.json exists
    owner,   \* [Job -> [backend, session]]: the descriptor's fields, once decided
    pc,      \* [Proc -> where its call of Spawn is]
    req,     \* [Proc -> Options of the call]
    saved,   \* [Proc -> oldRoundRobin]
    ring,    \* [Proc -> roundRobinOrder]
    ready,   \* [Proc -> readyOrder]
    pick,    \* [Proc -> o.Backend once it is concrete]
    started, \* [Proc -> the worker this call has started]
    crashes  \* crashes so far

jobVars  == <<worker, descr, owner>>
callVars == <<req, saved, ring, ready, pick, started>>
vars == <<lock, turn, jobVars, pc, callVars, crashes>>

-----------------------------------------------------------------------------
(* What a scan of jobs/ counts.                                            *)

\* Job.alive: the worker's group exists and output.json has no status yet.
Alive(j) == worker[j] = "running"

\* Jobs the loop of selectBackend counts.
Counted == {j \in Job : descr[j] /\ Alive(j)}

CountedOn(b) == {j \in Counted : owner[j].backend = b}
CountedIn(s) == {j \in Counted : owner[j].session = s}

\* capacity: a configured limit of zero means one.
Capacity(b) == IF MaxConcurrency[b] = 0 THEN 1 ELSE MaxConcurrency[b]

Full(b) == Cardinality(CountedOn(b)) >= Capacity(b)

\* Mutant: admits one job too many on the machine.
LimitPassed(s) == \/ Cardinality(Counted) > MachineMax
                  \/ Cardinality(CountedIn(s)) >= SessionMax

\* Mutant: the session limit is not looked at.
LimitOfMachine(s) == Cardinality(Counted) >= MachineMax

\* The first error return of selectBackend.
LimitReached(s) == \/ Cardinality(Counted) >= MachineMax
                   \/ Cardinality(CountedIn(s)) >= SessionMax

\* The index selectBackend starts from, taken modulo the order it was given.
Start(order) == IF turn = NoFile THEN 0 ELSE turn % Len(order)

HasRoom == {b \in Backend : ~Full(b)}

\* selectBackend with advance = false: the first backend Laya prefers that is
\* in the order and has room, else the first with room going round the order;
\* NoBackend stands for "worker capacity is full".
SelectBackend(order, wanted, s) ==
    LET liked == FirstOf(wanted, order, HasRoom, NoBackend)
    IN  IF LimitReached(s) THEN NoBackend
        ELSE IF liked # NoBackend THEN liked
        ELSE NextOf(order, Start(order), HasRoom, NoBackend)

\* Mutant: the index stays on the backend that was chosen.
AdvancedToSelf(order, b) ==
    IF Contains(order, b) THEN (IndexAfter(order, b) + Len(order) - 1) % Len(order) ELSE turn

\* advanceRoundRobin over the whole ready order.
Advanced(order, b) == IF Contains(order, b) THEN IndexAfter(order, b) ELSE turn

\* The backends Spawn accepts.
Supported == {"agy", "qwen", "claude", "codex"}

-----------------------------------------------------------------------------
Nobody == [backend |-> NoBackend, session |-> NoBackend]

Init == /\ lock = NoProc
        /\ turn = NoFile
        /\ worker = [j \in Job |-> "none"]
        /\ descr = [j \in Job |-> FALSE]
        /\ owner = [j \in Job |-> Nobody]
        /\ pc = [p \in Proc |-> "idle"]
        /\ req = [p \in Proc |-> NoRequest]
        /\ saved = [p \in Proc |-> NoFile]
        /\ ring = [p \in Proc |-> <<>>]
        /\ ready = [p \in Proc |-> <<>>]
        /\ pick = [p \in Proc |-> NoBackend]
        /\ started = [p \in Proc |-> NoJob]
        /\ crashes = 0

Goto(p, l) == pc' = [pc EXCEPT ![p] = l]

\* A call reaches the lock: options were valid and no review was required.
Call(p) == \E r \in Request :
    /\ pc[p] = "idle"
    /\ req' = [req EXCEPT ![p] = r]
    /\ Goto(p, "waiting")
    /\ UNCHANGED <<lock, turn, jobVars, saved, ring, ready, pick, started, crashes>>

\* Mutant: "auto" is not routed.
LockUnrouted(p) ==
    /\ pc[p] = "waiting"
    /\ lock = NoProc
    /\ lock' = p
    /\ saved' = [saved EXCEPT ![p] = turn]
    /\ Goto(p, "picked") /\ pick' = [pick EXCEPT ![p] = req[p].backend]
    /\ UNCHANGED <<turn, jobVars, req, ring, ready, started, crashes>>

\* LOCK_EX granted, round-robin.json read for the rollback.
Lock(p) ==
    /\ pc[p] = "waiting"
    /\ lock = NoProc
    /\ lock' = p
    /\ saved' = [saved EXCEPT ![p] = turn]
    /\ IF req[p].backend = "auto"
       THEN Goto(p, "auto") /\ UNCHANGED pick
       ELSE Goto(p, "picked") /\ pick' = [pick EXCEPT ![p] = req[p].backend]
    /\ UNCHANGED <<turn, jobVars, req, ring, ready, started, crashes>>

\* Automatic routing keeps, in order, the backends that pass checkAuth.
FilterReady(p) ==
    /\ pc[p] = "auto"
    /\ \E able \in ReadySets :
         LET order == Keep(Order, able)
         IN  /\ ring' = [ring EXCEPT ![p] = order]
             /\ ready' = [ready EXCEPT ![p] = order]
             /\ Goto(p, IF order = <<>> THEN "failed" ELSE "select")
    /\ UNCHANGED <<lock, turn, jobVars, req, saved, pick, started, crashes>>

\* First selectBackend: only decides whether qwen has to be probed.
SelectFirst(p) ==
    /\ pc[p] = "select"
    /\ LET b == SelectBackend(ready[p], req[p].preferred, req[p].session)
       IN  Goto(p, IF b = NoBackend THEN "failed"
                   ELSE IF b = "qwen" /\ HealthCommand THEN "probe"
                   ELSE "choose")
    /\ UNCHANGED <<lock, turn, jobVars, callVars, crashes>>

\* health.Check; an unhealthy qwen leaves the ready order.
Probe(p) ==
    /\ pc[p] = "probe"
    /\ \E healthy \in QwenHealth :
         LET rest == Keep(ready[p], Backend \ {"qwen"})
         IN  IF healthy
             THEN Goto(p, "choose") /\ UNCHANGED ready
             ELSE /\ ready' = [ready EXCEPT ![p] = rest]
                  /\ Goto(p, IF rest = <<>> THEN "failed" ELSE "choose")
    /\ UNCHANGED <<lock, turn, jobVars, req, saved, ring, pick, started, crashes>>

\* Second selectBackend and advanceRoundRobin over the order before the probe.
Choose(p) ==
    /\ pc[p] = "choose"
    /\ LET b == SelectBackend(ready[p], req[p].preferred, req[p].session)
       IN  IF b = NoBackend
           THEN Goto(p, "failed") /\ UNCHANGED <<turn, pick>>
           ELSE /\ pick' = [pick EXCEPT ![p] = b]
                /\ turn' = Advanced(ring[p], b)
                /\ Goto(p, "picked")
    /\ UNCHANGED <<lock, jobVars, req, saved, ring, ready, started, crashes>>

\* Mutant: no capacity check for a pinned backend.
ValidateUnchecked(p) ==
    /\ pc[p] = "picked"
    /\ Goto(p, IF pick[p] \in Supported THEN "admitted" ELSE "failed")
    /\ UNCHANGED <<lock, turn, jobVars, callVars, crashes>>

\* Backend name, checkAuth, and for a pinned backend the capacity check.
Validate(p) ==
    /\ pc[p] = "picked"
    /\ \E l \in {"admitted", "failed"} :
         /\ l = "admitted" =>
              /\ pick[p] \in Supported
              /\ \/ req[p].requested = "auto"
                 \/ SelectBackend(<<pick[p]>>, <<>>, req[p].session) # NoBackend
         /\ l = "failed" =>
              \/ MayFail
              \/ pick[p] \notin Supported
              \/ /\ req[p].requested # "auto"
                 /\ SelectBackend(<<pick[p]>>, <<>>, req[p].session) = NoBackend
         /\ Goto(p, l)
    /\ UNCHANGED <<lock, turn, jobVars, callVars, crashes>>

\* Timeout bounds, run directory, task file and cmd.Start.
StartWorker(p) ==
    /\ pc[p] = "admitted"
    /\ \E j \in Job :
         /\ worker[j] = "none" /\ ~descr[j]
         /\ worker' = [worker EXCEPT ![j] = "running"]
         /\ owner' = [owner EXCEPT ![j] = [backend |-> pick[p],
                                           session |-> req[p].session]]
         /\ started' = [started EXCEPT ![p] = j]
    /\ Goto(p, "started")
    /\ UNCHANGED <<lock, turn, descr, req, saved, ring, ready, pick, crashes>>

\* Any error return between the capacity check and cmd.Start.
FailBeforeStart(p) ==
    /\ pc[p] = "admitted"
    /\ MayFail
    /\ Goto(p, "failed")
    /\ UNCHANGED <<lock, turn, jobVars, callVars, crashes>>

\* Job.save succeeds: spawned = true.
SaveDescriptor(p) ==
    /\ pc[p] = "started"
    /\ descr' = [descr EXCEPT ![started[p]] = TRUE]
    /\ Goto(p, "unlock")
    /\ UNCHANGED <<lock, turn, worker, owner, callVars, crashes>>

\* Mutant: the worker is left running.
SaveFailsOnly(p) ==
    /\ pc[p] = "started"
    /\ MayFail
    /\ Goto(p, "failed")
    /\ UNCHANGED <<lock, turn, jobVars, callVars, crashes>>

\* Job.save fails: SIGKILL to the group that was just started.
SaveFails(p) ==
    /\ pc[p] = "started"
    /\ MayFail
    /\ worker' = [worker EXCEPT ![started[p]] = "none"]
    /\ owner' = [owner EXCEPT ![started[p]] = Nobody]
    /\ Goto(p, "failed")
    /\ UNCHANGED <<lock, turn, descr, callVars, crashes>>

\* Mutant: the rotation is not restored.
RollbackForgotten(p) ==
    /\ pc[p] = "failed"
    /\ Goto(p, "unlock")
    /\ UNCHANGED <<lock, turn, jobVars, callVars, crashes>>

\* The deferred rollback of an unsuccessful call; it runs before the unlock.
Rollback(p) ==
    /\ pc[p] = "failed"
    /\ turn' = saved[p]
    /\ Goto(p, "unlock")
    /\ UNCHANGED <<lock, jobVars, callVars, crashes>>

Forget(p) == /\ req' = [req EXCEPT ![p] = NoRequest]
             /\ saved' = [saved EXCEPT ![p] = NoFile]
             /\ ring' = [ring EXCEPT ![p] = <<>>]
             /\ ready' = [ready EXCEPT ![p] = <<>>]
             /\ pick' = [pick EXCEPT ![p] = NoBackend]
             /\ started' = [started EXCEPT ![p] = NoJob]

\* LOCK_UN and return.
Unlock(p) ==
    /\ pc[p] = "unlock"
    /\ lock' = NoProc
    /\ Goto(p, "idle")
    /\ Forget(p)
    /\ UNCHANGED <<turn, jobVars, crashes>>

\* The calling process dies: the kernel drops its flock, deferred code is lost.
Crash(p) ==
    /\ pc[p] # "idle"
    /\ crashes < MaxCrashes
    /\ crashes' = crashes + 1
    /\ lock' = IF lock = p THEN NoProc ELSE lock
    /\ Goto(p, "idle")
    /\ Forget(p)
    /\ UNCHANGED <<turn, jobVars>>

-----------------------------------------------------------------------------
(* The rest of the system, as far as admission sees it.                    *)

\* The worker writes its report to output.json.
WorkerReports(j) ==
    /\ worker[j] = "running"
    /\ worker' = [worker EXCEPT ![j] = "reported"]
    /\ UNCHANGED <<lock, turn, descr, owner, pc, callVars, crashes>>

\* The worker's group is gone, with or without a report.
WorkerExits(j) ==
    /\ worker[j] # "none"
    /\ worker' = [worker EXCEPT ![j] = "none"]
    /\ IF descr[j] \/ \E p \in Proc : pc[p] = "started" /\ started[p] = j
       THEN UNCHANGED owner
       ELSE owner' = [owner EXCEPT ![j] = Nobody]
    /\ UNCHANGED <<lock, turn, descr, pc, callVars, crashes>>

\* Some caller's finish sees a job that is not alive and removes its file.
RemoveDescriptor(j) ==
    /\ descr[j] /\ ~Alive(j)
    /\ descr' = [descr EXCEPT ![j] = FALSE]
    /\ IF worker[j] = "none" THEN owner' = [owner EXCEPT ![j] = Nobody]
                             ELSE UNCHANGED owner
    /\ UNCHANGED <<lock, turn, worker, pc, callVars, crashes>>

Spawning(p) == \/ Lock(p) \/ FilterReady(p) \/ SelectFirst(p) \/ Probe(p)
               \/ Choose(p) \/ Validate(p) \/ StartWorker(p)
               \/ FailBeforeStart(p) \/ SaveDescriptor(p) \/ SaveFails(p)
               \/ Rollback(p) \/ Unlock(p)

Next == \/ \E p \in Proc : Call(p) \/ Spawning(p) \/ Crash(p)
        \/ \E j \in Job : WorkerReports(j) \/ WorkerExits(j) \/ RemoveDescriptor(j)

Spec == Init /\ [][Next]_vars

\* Callers keep calling, a call keeps running (nothing is assumed about which
\* waiter flock prefers), workers end (they have a hard timeout) and are reaped.
Fairness == /\ \A p \in Proc : WF_vars(Call(p)) /\ WF_vars(Spawning(p))
            /\ \A j \in Job : WF_vars(WorkerExits(j)) /\ WF_vars(RemoveDescriptor(j))

FairSpec == Spec /\ Fairness

-----------------------------------------------------------------------------
TypeOK ==
    /\ lock \in Proc \cup {NoProc}
    /\ turn \in Nat \cup {NoFile}
    /\ worker \in [Job -> {"none", "running", "reported"}]
    /\ descr \in [Job -> BOOLEAN]
    /\ owner \in [Job -> [backend : Backend \cup {NoBackend},
                          session : Session \cup {NoBackend}]]
    /\ pc \in [Proc -> {"idle", "waiting", "auto", "select", "probe", "choose",
                        "picked", "admitted", "started", "failed", "unlock"}]
    /\ req \in [Proc -> Request \cup {NoRequest}]
    /\ saved \in [Proc -> Nat \cup {NoFile}]
    /\ ring \in [Proc -> Seq(Backend)]
    /\ ready \in [Proc -> Seq(Backend)]
    /\ pick \in [Proc -> Backend \cup {NoBackend}]
    /\ started \in [Proc -> Job \cup {NoJob}]
    /\ crashes \in Nat

\* A call is between LOCK_EX and LOCK_UN.
Holding(p) == pc[p] \notin {"idle", "waiting"}

\* Workers a call of Spawn answers for: the counted ones, and the one that a
\* call in progress has started and not yet described.
Admitted == {j \in Job : /\ Alive(j)
                         /\ descr[j] \/ \E p \in Proc : pc[p] = "started"
                                                        /\ started[p] = j}

\* README: "a 13-job machine-wide limit".  However calls, worker exits,
\* rollbacks and crashes interleave, the workers that were admitted and have
\* not reported never exceed machine_max_concurrency.
MachineLimit == Cardinality(Admitted) <= MachineMax

\* README: "a 10-job per-session limit", for every session at once, although
\* each call only counts its own session.
SessionLimit ==
    \A s \in Session :
        Cardinality({j \in Admitted : owner[j].session = s}) <= SessionMax

\* Backends never run more jobs than max_concurrency, whether they were
\* chosen by rotation, by Laya's preference, by health fallback or by name.
BackendLimit ==
    \A b \in Backend :
        Cardinality({j \in Admitted : owner[j].backend = b}) <= Capacity(b)

\* Spawn kills a worker it could not describe: while nobody crashes, every
\* running worker has a descriptor, or the call that started it is about to
\* write one.
NoUntrackedWorker == crashes = 0 => \A j \in Job : Alive(j) => j \in Admitted

\* The index in round-robin.json is a place of the backends that are now
\* authenticated.  One left by a call that saw more of them may be no place of
\* theirs, and then the fallback from qwen may pass a backend over.
IndexFits(order) == turn = NoFile \/ turn < Len(order) \/ Len(order) <= 2

\* The probe found qwen not healthy, and it left the ready order.
FellBack(p) == ready[p] # ring[p]

\* A turn of the rotation is neither lost nor taken twice: while no backend is
\* full, an automatic call routes to the backend whose turn it is among those
\* that are authenticated.  Only when a probe took an unhealthy qwen out of the
\* order does it go elsewhere, never to qwen, and, when it was qwen's turn by
\* an index that fits, to the one after it, although the index is then reduced
\* modulo a shorter order.  Nothing more is promised of the fallback: with an
\* index that does not fit, or when qwen was only tried because others were
\* full, the shorter modulus may pass a backend over (jobs.go:964-986).
RotationHonoured ==
    [][\A p \in Proc :
         (/\ pc[p] = "choose" /\ pc'[p] = "picked"
          /\ req[p].preferred = <<>>
          /\ \A b \in Backend : ~Full(b))
         => LET due(k) == At(ring[p], Start(ring[p]) + k)
            IN  IF FellBack(p)
                THEN /\ pick'[p] # "qwen"
                     /\ due(0) = "qwen" /\ IndexFits(ring[p]) => pick'[p] = due(1)
                ELSE pick'[p] = due(0)]_vars

\* The atomic admission the scheduler implements: until a call has succeeded
\* or rolled back, the rotation is what it was when the lock was taken.
Atomic == INSTANCE Admission WITH
        listed <- {[id |-> j, backend |-> owner[j].backend,
                    session |-> owner[j].session, working |-> Alive(j)] :
                       j \in {k \in Job : descr[k]}},
        next <- IF \E p \in Proc : Holding(p) /\ pc[p] # "unlock"
                THEN saved[CHOOSE p \in Proc : Holding(p) /\ pc[p] # "unlock"]
                ELSE turn,
        Room <- [b \in Backend |-> Capacity(b)]

\* While nobody crashes, Spawn is atomic for everybody else: every step is one
\* admission within the limits, the end or removal of a job, or invisible.  A call that
\* fails after it moved the rotation leaves no trace of it.
ImplementsAdmission == Atomic!ASpec

\* The rotation cannot starve a backend: when authentication is good and
\* spawning continues, every backend in the order is used again and again,
\* however the limits delay the calls and however the health of qwen comes and
\* goes; only qwen itself may be left out, if probes keep failing.
Served(b) == \E p \in Proc : pc[p] = "started" /\ pick[p] = b
EveryBackendServed ==
    \A b \in {Order[k] : k \in DOMAIN Order} :
        \/ []<>Served(b)
        \/ b = "qwen" /\ []<>(\E p \in Proc : pc[p] = "choose" /\ FellBack(p))
=============================================================================
