--------------------------- MODULE AdmissionProofs ---------------------------
(***************************************************************************)
(* Spawn is one atomic admission for everybody else: while no process dies *)
(* in the middle of it, it implements the specification Admission, for any *)
(* number of processes, jobs, backends and sessions.  Jobs that are spawned *)
(* are never lost as long as that is so.                                   *)
(***************************************************************************)
EXTENDS SchedulerProofs

-----------------------------------------------------------------------------

\* Spawn never loses a worker it has started: when it cannot write the descriptor
\* it kills the worker before it returns.  Only a crash of the caller loses one.
THEOREM WorkersTracked == Spec => []NoUntrackedWorker
<1>1. Init => TypeOK /\ CallInv /\ LockInv /\ NoUntrackedWorker
  BY InitType, ProcAssumption DEF Init, CallInv, LockInv, Holding, NoUntrackedWorker, Alive
<1>2. TypeOK /\ CallInv /\ LockInv /\ NoUntrackedWorker /\ [Next]_vars => NoUntrackedWorker'
  <2> SUFFICES ASSUME TypeOK, CallInv, LockInv, NoUntrackedWorker, [Next]_vars,
                      crashes' = 0, NEW j \in Job, Alive(j)'
               PROVE  descr'[j] \/ \E p \in Proc : pc'[p] = "started" /\ started'[p] = j
    BY DEF NoUntrackedWorker, Admitted, Alive
  <2> DEFINE Described == descr'[j] \/ \E p \in Proc : pc'[p] = "started" /\ started'[p] = j
  <2> USE DEF TypeOK, Alive, jobVars, callVars, Goto
  <2>c. crashes = 0 => (worker[j] = "running" =>
          descr[j] \/ \E p \in Proc : pc[p] = "started" /\ started[p] = j)
    BY DEF NoUntrackedWorker, Admitted
  <2>1. ASSUME NEW p \in Proc,
               \/ Call(p) \/ Lock(p) \/ FilterReady(p) \/ SelectFirst(p) \/ Probe(p)
               \/ Choose(p) \/ Validate(p) \/ FailBeforeStart(p) \/ Rollback(p) \/ Unlock(p)
        PROVE  Described
    <3>1. /\ UNCHANGED <<worker, descr, crashes>> /\ pc[p] # "started"
          /\ \A q \in Proc : q # p => pc'[q] = pc[q] /\ started'[q] = started[q]
      BY <2>1 DEF Call, Lock, FilterReady, SelectFirst, Probe, Choose, Validate,
                  FailBeforeStart, Rollback, Unlock, Forget
    <3> QED  BY <2>c, <3>1
  <2>2. ASSUME NEW p \in Proc, StartWorker(p) PROVE Described
    <3>1. PICK k \in Job : /\ worker' = [worker EXCEPT ![k] = "running"]
                           /\ started' = [started EXCEPT ![p] = k]
      BY <2>2 DEF StartWorker
    <3> QED  BY <2>2, <2>c, <3>1 DEF StartWorker
  <2>3. ASSUME NEW p \in Proc, SaveDescriptor(p) PROVE Described
    <3>1. started[p] \in Job /\ \A q \in Proc : pc[q] = "started" => q = p
      BY <2>3 DEF SaveDescriptor, CallInv, LockInv, Holding
    <3> QED  BY <2>3, <2>c, <3>1 DEF SaveDescriptor
  <2>4. ASSUME NEW p \in Proc, SaveFails(p) PROVE Described
    <3>1. started[p] \in Job /\ \A q \in Proc : pc[q] = "started" => q = p
      BY <2>4 DEF SaveFails, CallInv, LockInv, Holding
    <3> QED  BY <2>4, <2>c, <3>1 DEF SaveFails
  <2>5. ASSUME NEW p \in Proc, Crash(p) PROVE Described
    BY <2>5 DEF Crash
  <2>6. ASSUME NEW k \in Job, WorkerReports(k) \/ WorkerExits(k) \/ RemoveDescriptor(k) PROVE Described
    BY <2>6, <2>c DEF WorkerReports, WorkerExits, RemoveDescriptor
  <2>7. CASE UNCHANGED vars
    BY <2>7, <2>c DEF vars
  <2> QED
    BY <2>1, <2>2, <2>3, <2>4, <2>5, <2>6, <2>7 DEF Next, Spawning
<1>3. TypeOK /\ CallInv /\ LockInv /\ [Next]_vars => (TypeOK /\ CallInv /\ LockInv)'
  BY StepType, StepCall, StepLock
<1> QED  BY <1>1, <1>2, <1>3, PTL DEF Spec

-----------------------------------------------------------------------------
(* The refinement.                                                         *)

\* A call that may fail yet: where the rotation is while it does.
TurnInv == \A p \in Proc :
    /\ pc[p] \in {"auto", "select", "probe", "choose"} => req[p].backend = "auto" /\ turn = saved[p]
    /\ pc[p] \in {"select", "probe", "choose"} =>
         /\ \E able \in ReadySets : ring[p] = Keep(Order, able)
         /\ \A b : Contains(ready[p], b) => Contains(ring[p], b)
    /\ pc[p] \in {"picked", "admitted", "started"} =>
         \/ /\ req[p].backend = "auto"
            /\ \E able \in ReadySets : /\ Contains(Keep(Order, able), pick[p])
                                       /\ turn = IndexAfter(Keep(Order, able), pick[p])
         \/ req[p].backend # "auto" /\ turn = saved[p]

\* A worker that is about to be described: it was admitted where there was room,
\* and there is still room.
StartedInv == \A p \in Proc :
    pc[p] = "started" =>
        /\ RoomFor(pick[p], req[p].session)
        /\ ~descr[started[p]]
        /\ owner[started[p]] = [backend |-> pick[p], session |-> req[p].session]

AdmissionInv == IInv /\ TurnInv /\ StartedInv /\ crashes = 0

\* Nothing is kept that was not there.
LEMMA KeepContains ==
    ASSUME NEW o \in Seq(Backend), NEW S, NEW b, Contains(Keep(o, S), b)
    PROVE  Contains(o, b)
<1> DEFINE B == {o[k] : k \in 1 .. Len(o)}
<1>1. o \in Seq(B)
  OBVIOUS
<1>2. Keep(o, S) \in Seq(B)
  BY <1>1, KeepType
<1>3. b \in B
  BY <1>2 DEF Contains
<1> QED  BY <1>3 DEF Contains

\* A call waits or is not there while another one is past the lock.
LEMMA OthersWait ==
    ASSUME TypeOK, LockInv, NEW p \in Proc, Holding(p), NEW q \in Proc, q # p
    PROVE  pc[q] \in {"idle", "waiting"}
BY DEF LockInv, Holding, TypeOK

\* What the step of a call changes of the call itself, and of the others.
LEMMA CallTurn ==
    ASSUME AdmissionInv, Checked, NEW p \in Proc, Call(p) \/ Spawning(p)
    PROVE  TurnInv'
<1> USE DEF AdmissionInv, IInv, TypeOK, Goto, callVars, jobVars
<1>o. ASSUME NEW q \in Proc, q # p, Holding(p), pc'[q] = pc[q]
      PROVE  pc'[q] \in {"idle", "waiting"}
  BY <1>o, OthersWait
<1>1. CASE Call(p)
  BY <1>1 DEF Call, TurnInv
<1>2. CASE Lock(p)
  <2>1. \A q \in Proc : pc[q] \in {"idle", "waiting"}
    BY <1>2, ProcAssumption DEF Lock, LockInv, Holding
  <2>2. req[p] \in Request
    BY <1>2 DEF Lock, CallInv
  <2> QED  BY <1>2, <2>1, <2>2 DEF Lock, TurnInv
<1>3. CASE FilterReady(p)
  <2>1. PICK able \in ReadySets :
          /\ ring' = [ring EXCEPT ![p] = Keep(Order, able)]
          /\ ready' = [ready EXCEPT ![p] = Keep(Order, able)]
          /\ Goto(p, IF Keep(Order, able) = <<>> THEN "failed" ELSE "select")
    BY <1>3 DEF FilterReady
  <2> QED  BY <1>3, <1>o, <2>1 DEF FilterReady, TurnInv, Holding
<1>4. CASE SelectFirst(p)
  <2>1. \E l \in {"failed", "probe", "choose"} : Goto(p, l)
    BY <1>4 DEF SelectFirst
  <2> QED  BY <1>4, <1>o, <2>1 DEF SelectFirst, TurnInv, Holding
<1>5. CASE Probe(p)
  <2> DEFINE rest == Keep(ready[p], Backend \ {"qwen"})
  <2>1. \A b : Contains(rest, b) => Contains(ready[p], b)
    BY KeepContains
  <2> HIDE DEF rest
  <2>2. \/ Goto(p, "choose") /\ UNCHANGED ready
        \/ /\ ready' = [ready EXCEPT ![p] = rest]
           /\ Goto(p, IF rest = <<>> THEN "failed" ELSE "choose")
    BY <1>5 DEF Probe, rest
  <2> QED  BY <1>5, <1>o, <2>1, <2>2 DEF Probe, TurnInv, Holding
<1>6. CASE Choose(p)
  <2> DEFINE b == SelectBackend(ready[p], req[p].preferred, req[p].session)
  <2>1. CASE b = NoBackend
    BY <1>6, <1>o, <2>1 DEF Choose, TurnInv, Holding
  <2>2. CASE b # NoBackend
    <3>1. req[p] \in Request /\ req[p].preferred \in Seq(Backend) /\ ready[p] # <<>>
      BY <1>6, RequestAssumption DEF Choose, CallInv
    <3>2. Contains(ready[p], b)
      BY <2>2, <3>1, SelectBackendSound
    <3> HIDE DEF b
    <3>3. PICK able \in ReadySets : ring[p] = Keep(Order, able)
      BY <1>6 DEF Choose, TurnInv
    <3>4. Contains(Keep(Order, able), b) /\ turn' = IndexAfter(Keep(Order, able), b)
      BY <1>6, <2>2, <3>2, <3>3 DEF Choose, TurnInv, Advanced, b
    <3>5. pick' = [pick EXCEPT ![p] = b] /\ pc' = [pc EXCEPT ![p] = "picked"] /\ req' = req
      BY <1>6, <2>2 DEF Choose, b
    <3>6. req[p].backend = "auto"
      BY <1>6 DEF Choose, TurnInv
    <3> QED  BY <1>6, <1>o, <3>4, <3>5, <3>6 DEF Choose, TurnInv, Holding
  <2> QED  BY <2>1, <2>2
<1>7. CASE Validate(p) \/ StartWorker(p) \/ FailBeforeStart(p) \/ SaveDescriptor(p) \/ SaveFails(p)
  <2>1. /\ UNCHANGED <<turn, req, saved, ring, ready, pick>> /\ Holding(p)
        /\ \E l \in {"admitted", "failed", "started", "unlock"} : pc' = [pc EXCEPT ![p] = l]
        /\ pc'[p] \in {"admitted", "started"} => pc[p] \in {"picked", "admitted"}
    BY <1>7 DEF Validate, StartWorker, FailBeforeStart, SaveDescriptor, SaveFails, Holding
  <2> QED  BY <1>o, <2>1 DEF TurnInv, Holding
<1>8. CASE Rollback(p)
  BY <1>8, <1>o DEF Rollback, TurnInv, Holding
<1>9. CASE Unlock(p)
  BY <1>9, <1>o DEF Unlock, TurnInv, Holding
<1> QED
  BY <1>1, <1>2, <1>3, <1>4, <1>5, <1>6, <1>7, <1>8, <1>9 DEF Spawning

\* The room a call was admitted for stays until it has used it.
LEMMA StartedStep ==
    ASSUME AdmissionInv, MaxCrashes = 0, [Next]_vars, NEW p \in Proc, pc'[p] = "started"
    PROVE  /\ RoomFor(pick[p], req[p].session)'
           /\ ~descr'[started'[p]]
           /\ owner'[started'[p]] = [backend |-> pick'[p], session |-> req'[p].session]
<1> USE DEF AdmissionInv, IInv, TypeOK, Goto, callVars, jobVars
<1>1. CASE StartWorker(p)
  <2>1. PICK j \in Job :
          /\ worker[j] = "none" /\ ~descr[j]
          /\ owner' = [owner EXCEPT ![j] = [backend |-> pick[p], session |-> req[p].session]]
          /\ started' = [started EXCEPT ![p] = j]
    BY <1>1 DEF StartWorker
  <2>2. RoomFor(pick[p], req[p].session) /\ pick[p] \in Backend
    BY <1>1 DEF StartWorker, RoomInv, Vetted, CallInv
  <2>3. Counted' \subseteq Counted /\ \A k \in Counted' : owner'[k] = owner[k]
    BY <1>1, <2>1 DEF StartWorker, Counted, Alive
  <2>4. UNCHANGED <<req, pick, descr>>
    BY <1>1 DEF StartWorker
  <2>5. PICK b, s : b = pick[p] /\ s = req[p].session
    OBVIOUS
  <2>6. RoomFor(b, s)'
    BY <2>2, <2>3, <2>5, ShrinkingKeepsRoom
  <2> QED
    BY <2>1, <2>4, <2>5, <2>6 DEF RoomFor, LimitReached, Full, CountedIn, CountedOn, Capacity
<1>2. CASE ~StartWorker(p)
  <2> DEFINE Same == /\ pc[p] = "started" /\ started'[p] = started[p]
                     /\ pick'[p] = pick[p] /\ req'[p] = req[p]
                     /\ descr'[started[p]] => descr[started[p]]
                     /\ owner'[started[p]] = owner[started[p]]
                     /\ \A q \in Proc : ~SaveDescriptor(q)
  <2>o. ASSUME pc[p] = "started"
        PROVE  started[p] \in Job /\ \A q \in Proc \ {p} : pc[q] \in {"idle", "waiting"}
    BY <2>o, OthersWait DEF CallInv, Holding
  <2>1. ASSUME NEW q \in Proc, Call(q) \/ Lock(q) PROVE Same
    <3>1. /\ q # p /\ pc[p] = "started" /\ started'[p] = started[p]
          /\ pick'[p] = pick[p] /\ req'[p] = req[p] /\ descr' = descr /\ owner' = owner
      BY <2>1 DEF Call, Lock
    <3> QED  BY <3>1, <2>1, <2>o DEF Call, Lock, SaveDescriptor
  <2>2. ASSUME NEW q \in Proc,
               \/ FilterReady(q) \/ SelectFirst(q) \/ Probe(q) \/ Choose(q) \/ Validate(q)
               \/ FailBeforeStart(q) \/ Rollback(q) \/ Unlock(q)
               \/ SaveDescriptor(q) \/ SaveFails(q)
        PROVE  FALSE
    <3>1. /\ Holding(q)
          /\ \E l : l # "started" /\ pc' = [pc EXCEPT ![q] = l]
      BY <2>2 DEF FilterReady, SelectFirst, Probe, Choose, Validate, FailBeforeStart,
                  SaveDescriptor, SaveFails, Rollback, Unlock, Holding
    <3> QED  BY <3>1, <2>o DEF Holding
  <2>3. ASSUME NEW q \in Proc, StartWorker(q) PROVE FALSE
    BY <2>3, <1>2, <2>o DEF StartWorker
  <2>4. ASSUME NEW q \in Proc, Crash(q), MaxCrashes = 0 PROVE FALSE
    BY <2>4 DEF Crash
  <2>5. ASSUME NEW k \in Job, WorkerReports(k) \/ WorkerExits(k) \/ RemoveDescriptor(k)
        PROVE  Same
    <3>1. UNCHANGED <<pc, started, pick, req>> /\ pc[p] = "started" /\ started[p] \in Job
          /\ ~descr[started[p]]
      BY <2>5, <2>o DEF WorkerReports, WorkerExits, RemoveDescriptor, StartedInv
    <3>2. (descr'[started[p]] => descr[started[p]]) /\ owner'[started[p]] = owner[started[p]]
      BY <2>5, <3>1 DEF WorkerReports, WorkerExits, RemoveDescriptor
    <3>3. \A q \in Proc : ~SaveDescriptor(q)
      BY <2>5, <3>1 DEF WorkerReports, WorkerExits, RemoveDescriptor, SaveDescriptor
    <3> QED  BY <3>1, <3>2, <3>3
  <2>6. ASSUME UNCHANGED vars PROVE Same
    <3>1. UNCHANGED <<pc, started, pick, req, descr, owner>>
      BY <2>6 DEF vars
    <3>2. \A q \in Proc : ~(pc[q] = "started" /\ pc'[q] = "unlock")
      BY <3>1
    <3>3. \A q \in Proc : ~SaveDescriptor(q)
      BY <3>2 DEF SaveDescriptor
    <3> QED  BY <3>1, <3>3
  <2>7. Same
    <3> HIDE DEF Same
    <3>1. ASSUME NEW q \in Proc, Call(q) \/ Spawning(q) \/ Crash(q) PROVE Same
      BY <3>1, <2>1, <2>2, <2>3, <2>4, Zenon DEF Spawning
    <3> QED  BY <3>1, <2>5, <2>6 DEF Next
  <2> HIDE DEF Same
  <2>8. RoomFor(pick[p], req[p].session) /\ pick[p] \in Backend
    BY <2>7 DEF Same, StartedInv, CallInv
  <2>9. Counted' \subseteq Counted /\ \A j \in Counted' : owner'[j] = owner[j]
    BY <2>7, CountedShrinks DEF Same
  <2>10. PICK b, s : b = pick[p] /\ s = req[p].session
    OBVIOUS
  <2>11. RoomFor(b, s)'
    BY <2>8, <2>9, <2>10, ShrinkingKeepsRoom
  <2>12. pick'[p] = b /\ req'[p].session = s
    BY <2>7, <2>10 DEF Same
  <2>13. RoomFor(pick[p], req[p].session)'
    BY <2>11, <2>12 DEF RoomFor, LimitReached, Full, CountedIn, CountedOn, Capacity
  <2> QED  BY <2>7, <2>13 DEF Same, StartedInv
<1> QED  BY <1>1, <1>2

\* The admission invariant is inductive.
LEMMA StepAdmission ==
    ASSUME Checked, MaxCrashes = 0, AdmissionInv, [Next]_vars
    PROVE  AdmissionInv'
<1>1. IInv'
  BY StepType, StepLock, StepCall, StepRoom, StepLimits DEF AdmissionInv, IInv
<1>2. ASSUME NEW p \in Proc, Crash(p) PROVE FALSE
  BY <1>2 DEF Crash, AdmissionInv, IInv, TypeOK
<1>3. TurnInv' /\ crashes' = 0
  <2>1. ASSUME NEW p \in Proc, Call(p) \/ Spawning(p) PROVE TurnInv' /\ crashes' = 0
    <3>1. TurnInv'
      BY <2>1, CallTurn
    <3>2. crashes' = crashes
      BY <2>1 DEF Call, Spawning, Lock, FilterReady, SelectFirst, Probe, Choose, Validate,
                  StartWorker, FailBeforeStart, SaveDescriptor, SaveFails, Rollback, Unlock
    <3> QED  BY <3>1, <3>2 DEF AdmissionInv
  <2>2. ASSUME UNCHANGED <<turn, pc, callVars, crashes>> PROVE TurnInv' /\ crashes' = 0
    BY <2>2 DEF AdmissionInv, TurnInv, callVars
  <2>3. ASSUME NEW j \in Job, WorkerReports(j) \/ WorkerExits(j) \/ RemoveDescriptor(j)
        PROVE  UNCHANGED <<turn, pc, callVars, crashes>>
    BY <2>3 DEF WorkerReports, WorkerExits, RemoveDescriptor
  <2>4. ASSUME UNCHANGED vars PROVE UNCHANGED <<turn, pc, callVars, crashes>>
    BY <2>4 DEF vars
  <2> QED  BY <1>2, <2>1, <2>2, <2>3, <2>4 DEF Next
<1>4. StartedInv'
  BY StartedStep DEF StartedInv
<1> QED  BY <1>1, <1>3, <1>4 DEF AdmissionInv

\* The descriptors, as the rows of the abstract specification.
Row(j) == [id |-> j, backend |-> owner[j].backend,
           session |-> owner[j].session, working |-> Alive(j)]
Rows == {Row(j) : j \in {k \in Job : descr[k]}}

\* The index of the rotation, as everybody else will find it if the call that
\* holds the lock fails.
Undecided(p) == Holding(p) /\ pc[p] # "unlock"
Index == IF \E p \in Proc : Undecided(p) THEN saved[CHOOSE p \in Proc : Undecided(p)] ELSE turn

LEMMA IndexOfCall ==
    ASSUME TypeOK, LockInv
    PROVE  /\ \A p \in Proc : Undecided(p) => Index = saved[p]
           /\ (\A p \in Proc : ~Undecided(p)) => Index = turn
<1>1. ASSUME NEW p \in Proc, Undecided(p) PROVE Index = saved[p]
  <2>1. \A q \in Proc : Undecided(q) => q = p
    BY <1>1 DEF LockInv, Undecided
  <2>2. (CHOOSE q \in Proc : Undecided(q)) = p
    BY <1>1, <2>1
  <2> QED  BY <1>1, <2>2 DEF Index
<1> QED  BY <1>1 DEF Index

\* There are no more rows than jobs.
LEMMA RowCount ==
    ASSUME NEW S \in SUBSET Job
    PROVE  LET T == {Row(j) : j \in S}
           IN  Cardinality(T) \in Nat /\ Cardinality(T) <= Cardinality(S)
<1> DEFINE T == {Row(j) : j \in S}
           f == [j \in S |-> Row(j)]
<1>1. f \in Surjection(S, T)
  BY DEF Surjection
<1>2. IsFiniteSet(S)
  BY JobSets
<1> HIDE DEF T, f
<1>3. IsFiniteSet(T) /\ Cardinality(T) <= Cardinality(S)
  BY <1>1, <1>2, FS_Surjection
<1>4. Cardinality(T) \in Nat
  BY <1>3, FS_CardinalityType
<1> QED  BY <1>3, <1>4 DEF T

\* The rows the abstract limits count are those of the jobs a scan counts.
LEMMA RowLimits ==
    ASSUME TypeOK, NEW b \in Backend, NEW s, RoomFor(b, s)
    PROVE  /\ Cardinality({a \in Rows : a.working}) < MachineMax
           /\ Cardinality({a \in {a \in Rows : a.working} : a.session = s}) < SessionMax
           /\ Cardinality({a \in {a \in Rows : a.working} : a.backend = b}) < Capacity(b)
<1>1. \A j : Row(j).working <=> Alive(j)
  BY DEF Row, Alive
<1>2. \A j : Row(j).session = owner[j].session /\ Row(j).backend = owner[j].backend
  BY DEF Row
<1> DEFINE W == {a \in Rows : a.working}
<1>3. W = {Row(j) : j \in Counted}
  BY <1>1 DEF Rows, Counted
<1>4. {a \in W : a.session = s} = {Row(j) : j \in CountedIn(s)}
  BY <1>2, <1>3 DEF CountedIn
<1>5. {a \in W : a.backend = b} = {Row(j) : j \in CountedOn(b)}
  BY <1>2, <1>3 DEF CountedOn
<1>6. Counted \in SUBSET Job /\ CountedIn(s) \in SUBSET Job /\ CountedOn(b) \in SUBSET Job
  BY DEF Counted, CountedIn, CountedOn
<1> HIDE DEF W
<1>7. Cardinality(W) \in Nat /\ Cardinality(W) <= Cardinality(Counted) /\ Cardinality(Counted) \in Nat
  BY <1>3, <1>6, RowCount, JobSets
<1>8. /\ Cardinality({a \in W : a.session = s}) \in Nat
      /\ Cardinality({a \in W : a.session = s}) <= Cardinality(CountedIn(s))
      /\ Cardinality(CountedIn(s)) \in Nat
  BY <1>4, <1>6, RowCount, JobSets
<1>9. /\ Cardinality({a \in W : a.backend = b}) \in Nat
      /\ Cardinality({a \in W : a.backend = b}) <= Cardinality(CountedOn(b))
      /\ Cardinality(CountedOn(b)) \in Nat
  BY <1>5, <1>6, RowCount, JobSets
<1>10. /\ Cardinality(W) < MachineMax
       /\ Cardinality({a \in W : a.session = s}) < SessionMax
       /\ Cardinality({a \in W : a.backend = b}) < Capacity(b)
  BY <1>7, <1>8, <1>9, LimitTypes DEF RoomFor, LimitReached, Full
<1> QED  BY <1>10 DEF W

\* Rows depend on what described jobs are.
LEMMA SameRows ==
    ASSUME \A j \in Job : descr'[j] <=> descr[j],
           \A j \in Job : descr[j] => owner'[j] = owner[j] /\ (Alive(j)' <=> Alive(j))
    PROVE  Rows' = Rows
<1>1. ASSUME NEW j \in Job, descr[j] PROVE Row(j)' = Row(j)
  BY <1>1 DEF Row, Alive
<1>2. {j \in Job : descr[j]}' = {j \in Job : descr[j]}
  OBVIOUS
<1> QED  BY <1>1, <1>2 DEF Rows

\* Until it has saved the descriptor, and when it fails, nobody sees a call.
LEMMA CallUnseen ==
    ASSUME AdmissionInv, NEW p \in Proc, Call(p) \/ Spawning(p), ~SaveDescriptor(p), LockInv'
    PROVE  Rows' = Rows /\ Index' = Index
<1> USE DEF AdmissionInv, IInv
<1>1. Rows' = Rows
  <2>1. CASE StartWorker(p)
    <3>1. PICK j \in Job : ~descr[j] /\ \A k \in Job : k # j => owner'[k] = owner[k] /\ worker'[k] = worker[k]
      BY <2>1 DEF StartWorker, TypeOK
    <3> QED  BY <2>1, <3>1, SameRows DEF StartWorker, Alive
  <2>2. CASE SaveFails(p)
    <3>1. ~descr[started[p]]
      BY <2>2 DEF SaveFails, StartedInv
    <3> QED  BY <2>2, <3>1, SameRows DEF SaveFails, Alive, TypeOK
  <2>3. CASE ~StartWorker(p) /\ ~SaveFails(p)
    <3>1. UNCHANGED <<worker, descr, owner>>
      BY <2>3 DEF Call, Spawning, Lock, FilterReady, SelectFirst, Probe, Choose, Validate,
                  FailBeforeStart, Rollback, Unlock, jobVars
    <3> QED  BY <3>1, SameRows DEF Alive
  <2> QED  BY <2>1, <2>2, <2>3
<1>2. Index' = Index
  <2>i. /\ \A q \in Proc : Undecided(q)' => Index' = saved'[q]
        /\ (\A q \in Proc : ~Undecided(q)') => Index' = turn'
    <3>1. ASSUME NEW r \in Proc, Undecided(r)' PROVE Index' = saved'[r]
      <4>1. \A q \in Proc : Undecided(q)' => q = r
        BY <3>1 DEF LockInv, Undecided
      <4>2. (CHOOSE q \in Proc : Undecided(q)') = r
        BY <3>1, <4>1
      <4> QED  BY <3>1, <4>2 DEF Index
    <3> QED  BY <3>1 DEF Index
  <2>1. CASE Call(p)
    <3>1. saved' = saved /\ turn' = turn /\ \A q \in Proc : Undecided(q)' <=> Undecided(q)
      BY <2>1 DEF Call, Goto, TypeOK, Undecided, Holding
    <3> QED  BY <3>1, <2>i, IndexOfCall
  <2>2. CASE Lock(p)
    <3>1. \A q \in Proc : ~Undecided(q)
      BY <2>2, ProcAssumption DEF Lock, LockInv, Undecided
    <3>2. Undecided(p)' /\ saved'[p] = turn
      BY <2>2 DEF Lock, Goto, TypeOK, Undecided, Holding
    <3> QED  BY <3>1, <3>2, <2>i, IndexOfCall
  <2>3. CASE \/ FilterReady(p) \/ SelectFirst(p) \/ Probe(p) \/ Choose(p) \/ Validate(p)
             \/ StartWorker(p) \/ FailBeforeStart(p) \/ SaveFails(p)
    <3>1. /\ Undecided(p) /\ saved' = saved
          /\ \E l \in {"select", "probe", "choose", "picked", "admitted", "started", "failed"} :
                pc' = [pc EXCEPT ![p] = l]
      BY <2>3 DEF FilterReady, SelectFirst, Probe, Choose, Validate, StartWorker,
                  FailBeforeStart, SaveFails, Undecided, Holding, Goto, callVars
    <3>2. Undecided(p)'
      BY <3>1 DEF Undecided, Holding, TypeOK
    <3> QED  BY <3>1, <3>2, <2>i, IndexOfCall
  <2>4. CASE Rollback(p)
    <3>1. Undecided(p) /\ turn' = saved[p]
      BY <2>4 DEF Rollback, Undecided, Holding
    <3>2. \A q \in Proc : ~Undecided(q)'
      BY <2>4, OthersWait DEF Rollback, Goto, TypeOK, Undecided, Holding
    <3> QED  BY <3>1, <3>2, <2>i, IndexOfCall
  <2>5. CASE Unlock(p)
    <3>1. \A q \in Proc : ~Undecided(q)
      BY <2>5, OthersWait DEF Unlock, Undecided, Holding
    <3>2. \A q \in Proc : ~Undecided(q)'
      BY <2>5, <3>1 DEF Unlock, Goto, TypeOK, Undecided, Holding
    <3>3. turn' = turn
      BY <2>5 DEF Unlock
    <3> QED  BY <3>1, <3>2, <3>3, <2>i, IndexOfCall
  <2> QED  BY <2>1, <2>2, <2>3, <2>4, <2>5 DEF Spawning
<1> QED  BY <1>1, <1>2

\* The call that saves its descriptor is admitted at that moment.
LEMMA SaveAdmits ==
    ASSUME AdmissionInv, NEW p \in Proc, SaveDescriptor(p)
    PROVE  LET b == pick[p]
               s == req[p].session
           IN  /\ b \in Backend /\ s \in Session /\ started[p] \in Job
               /\ \A a \in Rows : a.id # started[p]
               /\ RoomFor(b, s)
               /\ \E w \in BOOLEAN :
                    Rows' = Rows \cup {[id |-> started[p], backend |-> b, session |-> s, working |-> w]}
               /\ Index' = turn
               /\ \/ \E able \in ReadySets : /\ Contains(Keep(Order, able), b)
                                             /\ turn = IndexAfter(Keep(Order, able), b)
                  \/ turn = Index
<1> USE DEF AdmissionInv, IInv
<1> DEFINE j == started[p]
<1>1. pc[p] = "started" /\ j \in Job /\ pick[p] \in Backend /\ req[p].session \in Session
  BY RequestAssumption DEF SaveDescriptor, CallInv
<1>2. RoomFor(pick[p], req[p].session) /\ ~descr[j]
      /\ owner[j] = [backend |-> pick[p], session |-> req[p].session]
  BY <1>1 DEF StartedInv
<1>3. \A a \in Rows : a.id # j
  BY <1>2 DEF Rows, Row
<1>4. UNCHANGED <<worker, owner, turn, saved>> /\ descr' = [descr EXCEPT ![j] = TRUE]
  BY DEF SaveDescriptor, callVars
<1>5. Row(j) = [id |-> j, backend |-> pick[p], session |-> req[p].session, working |-> Alive(j)]
  BY <1>2 DEF Row
<1>6. Rows' = Rows \cup {Row(j)}
  <2>1. \A k : Row(k)' = Row(k)
    BY <1>4 DEF Row, Alive
  <2>2. {k \in Job : descr'[k]} = {k \in Job : descr[k]} \cup {j}
    BY <1>1, <1>4 DEF TypeOK
  <2>3. Rows' = {Row(k)' : k \in {i \in Job : descr'[i]}}
    BY DEF Rows
  <2> QED  BY <2>1, <2>2, <2>3 DEF Rows
<1>7. Alive(j) \in BOOLEAN
  BY DEF Alive
<1>8. \A q \in Proc : ~Undecided(q)'
  BY <1>1, OthersWait DEF SaveDescriptor, Goto, TypeOK, Undecided, Holding
<1>9. Index' = turn
  BY <1>4, <1>8 DEF Index
<1>10. Undecided(p) /\ Index = saved[p]
  BY <1>1, IndexOfCall DEF Undecided, Holding
<1>11. \/ \E able \in ReadySets : /\ Contains(Keep(Order, able), pick[p])
                                  /\ turn = IndexAfter(Keep(Order, able), pick[p])
       \/ turn = Index
  BY <1>1, <1>10 DEF TurnInv
<1>12. \E w \in BOOLEAN :
          Rows' = Rows \cup {[id |-> j, backend |-> pick[p], session |-> req[p].session, working |-> w]}
  BY <1>5, <1>6, <1>7
<1> QED  BY <1>1, <1>2, <1>3, <1>9, <1>11, <1>12

\* A worker that ends, or is seen to have ended, is one row that changes or goes.
LEMMA JobsEnd ==
    ASSUME TypeOK, LockInv, NEW j \in Job, WorkerReports(j) \/ WorkerExits(j) \/ RemoveDescriptor(j)
    PROVE  /\ Index' = Index
           /\ \/ Rows' = Rows
              \/ /\ \E a \in Rows : a.working /\ a.id = j
                 /\ Rows' = {[a EXCEPT !.working = a.working /\ a.id # j] : a \in Rows}
              \/ /\ \E a \in Rows : ~a.working /\ a.id = j
                 /\ Rows' = {a \in Rows : a.id # j}
<1>1. Index' = Index
  <2>1. UNCHANGED <<pc, saved, turn>>
    BY DEF WorkerReports, WorkerExits, RemoveDescriptor, callVars
  <2>2. \A q : Undecided(q)' <=> Undecided(q)
    BY <2>1 DEF Undecided, Holding
  <2>3. (CHOOSE q \in Proc : Undecided(q)') = (CHOOSE q \in Proc : Undecided(q))
    BY <2>2
  <2> QED  BY <2>1, <2>2, <2>3 DEF Index
<1>2. ASSUME WorkerReports(j) \/ WorkerExits(j), descr[j], worker[j] = "running"
      PROVE  /\ \E a \in Rows : a.working /\ a.id = j
             /\ Rows' = {[a EXCEPT !.working = a.working /\ a.id # j] : a \in Rows}
  <2>1. /\ descr' = descr /\ owner' = owner
        /\ \A k \in Job : Alive(k)' <=> (Alive(k) /\ k # j)
    BY <1>2 DEF WorkerReports, WorkerExits, TypeOK, Alive
  <2>2. Row(j) \in Rows /\ Row(j).working /\ Row(j).id = j
    BY <1>2 DEF Rows, Row, Alive
  <2>3. ASSUME NEW k \in Job
        PROVE  Row(k)' = [Row(k) EXCEPT !.working = Row(k).working /\ Row(k).id # j]
    <3>1. Row(k)' = [id |-> k, backend |-> owner[k].backend,
                     session |-> owner[k].session, working |-> Alive(k)']
      BY <2>1 DEF Row
    <3>2. Alive(k)' = (Row(k).working /\ Row(k).id # j)
      BY <2>1 DEF Row, Alive
    <3> QED  BY <3>1, <3>2 DEF Row
  <2>4. Rows' = {Row(k)' : k \in {i \in Job : descr[i]}}
    BY <2>1 DEF Rows
  <2> QED  BY <2>2, <2>3, <2>4 DEF Rows
<1>3. ASSUME WorkerReports(j) \/ WorkerExits(j), ~(descr[j] /\ worker[j] = "running")
      PROVE  Rows' = Rows
  <2>1. /\ descr' = descr
        /\ \A k \in Job : descr[k] => owner'[k] = owner[k] /\ (Alive(k)' <=> Alive(k))
    BY <1>3 DEF WorkerReports, WorkerExits, TypeOK, Alive
  <2> QED  BY <2>1, SameRows
<1>4. ASSUME RemoveDescriptor(j)
      PROVE  /\ \E a \in Rows : ~a.working /\ a.id = j
             /\ Rows' = {a \in Rows : a.id # j}
  <2>1. /\ worker' = worker /\ descr' = [descr EXCEPT ![j] = FALSE]
        /\ \A k \in Job : k # j => owner'[k] = owner[k]
        /\ descr[j] /\ ~Alive(j)
    BY <1>4 DEF RemoveDescriptor, TypeOK
  <2>2. Row(j) \in Rows /\ ~Row(j).working /\ Row(j).id = j
    BY <2>1 DEF Rows, Row, Alive
  <2>3. \A k \in Job : k # j => Row(k)' = Row(k)
    BY <2>1 DEF Row, Alive
  <2>4. \A k \in Job : descr'[k] <=> descr[k] /\ k # j
    BY <2>1 DEF TypeOK
  <2>5. \A k : Row(k).id = k
    BY DEF Row
  <2> QED  BY <2>2, <2>3, <2>4, <2>5 DEF Rows
<1> QED  BY <1>1, <1>2, <1>3, <1>4

-----------------------------------------------------------------------------
\* The abstract specification reads orders the way Spawn does.
LEMMA SameOperators ==
    /\ \A S : Atomic!Cardinality(S) = Cardinality(S)
    /\ \A o, b : Atomic!Contains(o, b) <=> Contains(o, b)
    /\ \A o, S : Atomic!Keep(o, S) = Keep(o, S)
    /\ \A o, b : Atomic!IndexAfter(o, b) = IndexAfter(o, b)
<1>1. \A S : Atomic!Cardinality(S) = Cardinality(S)
  BY DEF Cardinality, Atomic!Cardinality
<1>2. \A o, b : Atomic!Contains(o, b) <=> Contains(o, b)
  BY DEF Contains, Atomic!Contains
<1>3. \A o, S : Atomic!Keep(o, S) = Keep(o, S)
  BY Zenon DEF Keep, Atomic!Keep, Places, Place, Cardinality,
               Atomic!Places, Atomic!Place, Atomic!Cardinality
<1>4. \A o, b : Atomic!IndexAfter(o, b) = IndexAfter(o, b)
  BY Zenon DEF IndexAfter, Atomic!IndexAfter, Min, Atomic!Min, Places, Atomic!Places
<1> QED  BY <1>1, <1>2, <1>3, <1>4

\* Spawn is atomic for everybody else, whatever the interleaving of the calls and
\* of the jobs that end: every step admits one job within the three limits, ends or
\* retires one, or is invisible, and a call that fails leaves the rotation as it
\* was.  It takes that no call dies in the middle: then its rollback is lost.
THEOREM SpawnImplementsAdmission ==
    ASSUME Checked, MaxCrashes = 0
    PROVE  Spec => ImplementsAdmission
<1> USE DEF Atomic!Working, Atomic!In, Atomic!On
<1>1. Init => AdmissionInv
  <2> SUFFICES ASSUME Init PROVE AdmissionInv
    OBVIOUS
  <2>1. IInv
    BY InitInv
  <2> QED  BY <2>1 DEF Init, AdmissionInv, TurnInv, StartedInv
<1>2. AdmissionInv /\ [Next]_vars => AdmissionInv'
  BY StepAdmission
<1>3. Init => Atomic!AInit
  BY DEF Init, Atomic!AInit, Holding
<1>4. AdmissionInv /\ [Next]_vars => [Atomic!ANext]_(Atomic!avars)
  <2> SUFFICES ASSUME AdmissionInv, [Next]_vars PROVE [Atomic!ANext]_(Atomic!avars)
    OBVIOUS
  <2>t. LockInv' /\ TypeOK /\ LockInv
    BY StepAdmission DEF AdmissionInv, IInv
  <2>1. ASSUME Rows' = Rows, Index' = Index PROVE UNCHANGED Atomic!avars
    BY <2>1 DEF Atomic!avars, Rows, Row, Index, Undecided
  <2>2. ASSUME NEW p \in Proc, SaveDescriptor(p) PROVE Atomic!ANext
    <3> DEFINE j == started[p]
               b == pick[p]
               s == req[p].session
    <3>1. /\ b \in Backend /\ s \in Session /\ j \in Job
          /\ \A a \in Rows : a.id # j
          /\ RoomFor(b, s)
          /\ \E w \in BOOLEAN :
               Rows' = Rows \cup {[id |-> j, backend |-> b, session |-> s, working |-> w]}
          /\ \/ \E able \in ReadySets : /\ Contains(Keep(Order, able), b)
                                        /\ Index' = IndexAfter(Keep(Order, able), b)
             \/ Index' = Index
      BY <2>2, SaveAdmits
    <3> HIDE DEF j, b, s
    <3>2. /\ Cardinality({a \in Rows : a.working}) < MachineMax
          /\ Cardinality({a \in {a \in Rows : a.working} : a.session = s}) < SessionMax
          /\ Cardinality({a \in {a \in Rows : a.working} : a.backend = b})
               < [c \in Backend |-> Capacity(c)][b]
      BY <3>1, <2>t, RowLimits
    <3>3. ASSUME NEW auto \in BOOLEAN,
                 auto => \E able \in ReadySets : /\ Contains(Keep(Order, able), b)
                                                 /\ Index' = IndexAfter(Keep(Order, able), b),
                 ~auto => Index' = Index
          PROVE  Atomic!Admit(j, b, s, auto)
      <4>1. Atomic!Admit(j, b, s, auto) <=>
              /\ \A a \in Rows : a.id # j
              /\ Cardinality({a \in Rows : a.working}) < MachineMax
              /\ Cardinality({a \in {a \in Rows : a.working} : a.session = s}) < SessionMax
              /\ Cardinality({a \in {a \in Rows : a.working} : a.backend = b})
                   < [c \in Backend |-> Capacity(c)][b]
              /\ \E w \in BOOLEAN :
                   Rows' = Rows \cup {[id |-> j, backend |-> b, session |-> s, working |-> w]}
              /\ IF auto
                 THEN \E able \in ReadySets : /\ Contains(Keep(Order, able), b)
                                              /\ Index' = IndexAfter(Keep(Order, able), b)
                 ELSE Index' = Index
        BY SameOperators, Zenon DEF Atomic!Admit, Rows, Row, Index, Undecided
      <4> QED  BY <3>1, <3>2, <3>3, <4>1
    <3> QED  BY <3>1, <3>3 DEF Atomic!ANext
  <2>3. ASSUME NEW j \in Job, WorkerReports(j) \/ WorkerExits(j) \/ RemoveDescriptor(j)
        PROVE  Atomic!ANext \/ UNCHANGED Atomic!avars
    <3>1. CASE Rows' = Rows
      BY <2>1, <2>3, <2>t, <3>1, JobsEnd
    <3>2. CASE /\ \E a \in Rows : a.working /\ a.id = j
               /\ Rows' = {[a EXCEPT !.working = a.working /\ a.id # j] : a \in Rows}
      <4>1. Atomic!End(j)
        BY <2>3, <2>t, <3>2, JobsEnd DEF Atomic!End, Rows, Row, Index, Undecided
      <4> QED  BY <4>1 DEF Atomic!ANext
    <3>3. CASE /\ \E a \in Rows : ~a.working /\ a.id = j
               /\ Rows' = {a \in Rows : a.id # j}
      <4>1. Atomic!Retire(j)
        BY <2>3, <2>t, <3>3, JobsEnd DEF Atomic!Retire, Rows, Row, Index, Undecided
      <4> QED  BY <4>1 DEF Atomic!ANext
    <3> QED  BY <2>3, <2>t, <3>1, <3>2, <3>3, JobsEnd
  <2>4. ASSUME NEW p \in Proc, Crash(p) PROVE FALSE
    BY <2>4 DEF Crash, AdmissionInv, IInv, TypeOK
  <2>5. ASSUME NEW p \in Proc, Call(p) \/ Spawning(p), ~SaveDescriptor(p)
        PROVE  UNCHANGED Atomic!avars
    BY <2>t, <2>1, <2>5, CallUnseen
  <2>6. ASSUME UNCHANGED vars PROVE UNCHANGED Atomic!avars
    BY <2>6 DEF vars, jobVars, callVars, Atomic!avars, Alive, Holding
  <2>7. ASSUME NEW p \in Proc, Call(p) \/ Spawning(p) \/ Crash(p)
        PROVE  Atomic!ANext \/ UNCHANGED Atomic!avars
    BY <2>2, <2>4, <2>5, <2>7
  <2> QED
    BY <2>3, <2>6, <2>7 DEF Next
<1> QED
  BY <1>1, <1>2, <1>3, <1>4, PTL DEF Spec, ImplementsAdmission, Atomic!ASpec
=============================================================================
