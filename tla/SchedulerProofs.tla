--------------------------- MODULE SchedulerProofs ---------------------------
(***************************************************************************)
(* The limits of the scheduler hold for every number of processes, jobs,   *)
(* backends and sessions, every configuration and every number of crashes, *)
(* provided no caller passes a concrete backend as requested "auto".       *)
(***************************************************************************)
EXTENDS Scheduler, RotationProofs

\* No request takes the path of Spawn on which neither call of selectBackend
\* runs.  Callers other than Resume satisfy it.
Checked == \A r \in Request : r.requested = "auto" => r.backend = "auto"

-----------------------------------------------------------------------------
(* The inductive invariant.                                                *)

\* The lock is held exactly by the call that is past LOCK_EX.
LockInv == \A p \in Proc : Holding(p) <=> lock = p

\* What a call has computed by the time it uses it.
CallInv == \A p \in Proc :
    /\ pc[p] # "idle" => req[p] \in Request
    /\ pc[p] \in {"select", "probe", "choose"} => ready[p] # <<>>
    /\ pc[p] \in {"picked", "admitted", "started"} => pick[p] \in Backend
    /\ pc[p] = "started" => started[p] \in Job

\* Past its capacity check, and until it starts the worker, a call has room.
Vetted(p) == \/ pc[p] = "admitted"
             \/ pc[p] = "picked" /\ req[p].requested = "auto"

RoomFor(b, s) == ~LimitReached(s) /\ ~Full(b)

RoomInv == \A p \in Proc : Vetted(p) => RoomFor(pick[p], req[p].session)

Limits == MachineLimit /\ SessionLimit /\ BackendLimit

IInv == TypeOK /\ LockInv /\ CallInv /\ RoomInv /\ Limits

-----------------------------------------------------------------------------
(* Lemmas on counting.                                                     *)

\* Sets of jobs are finite, and a part has at most as many elements.
LEMMA JobSets ==
    ASSUME NEW S \in SUBSET Job
    PROVE  /\ IsFiniteSet(S)
           /\ Cardinality(S) \in Nat
           /\ \A T \in SUBSET S : Cardinality(T) \in Nat
                                  /\ Cardinality(T) <= Cardinality(S)
<1>1. IsFiniteSet(S) /\ \A T \in SUBSET S : IsFiniteSet(T)
  BY JobAssumption, FS_Subset
<1>2. \A T \in SUBSET S : Cardinality(T) <= Cardinality(S)
  BY <1>1, FS_Subset
<1> QED  BY <1>1, <1>2, FS_CardinalityType

\* Capacities and limits are numbers.
LEMMA LimitTypes ==
    /\ MachineMax \in Nat /\ SessionMax \in Nat
    /\ \A b \in Backend : Capacity(b) \in Nat
BY ConfigAssumption DEF Capacity

\* Jobs that end, or lose their descriptor, leave every limit respected.
LEMMA ShrinkingKeepsLimits ==
    ASSUME Limits, Admitted' \subseteq Admitted,
           \A j \in Admitted' : owner'[j] = owner[j]
    PROVE  Limits'
<1>1. Admitted \in SUBSET Job
  BY DEF Admitted
<1>2. MachineLimit'
  <2>1. Cardinality(Admitted') <= Cardinality(Admitted)
        /\ Cardinality(Admitted') \in Nat /\ Cardinality(Admitted) \in Nat
    BY <1>1, JobSets
  <2> QED  BY <2>1, LimitTypes DEF Limits, MachineLimit
<1>3. SessionLimit'
  <2> SUFFICES ASSUME NEW s \in Session
               PROVE  Cardinality({j \in Admitted' : owner'[j].session = s}) <= SessionMax
    BY DEF SessionLimit
  <2> DEFINE new == {j \in Admitted' : owner'[j].session = s}
             old == {j \in Admitted : owner[j].session = s}
  <2>1. old \in SUBSET Job /\ new \in SUBSET old
    BY <1>1
  <2>2. Cardinality(old) <= SessionMax
    BY DEF Limits, SessionLimit
  <2> HIDE DEF new, old
  <2>3. Cardinality(new) <= Cardinality(old)
        /\ Cardinality(new) \in Nat /\ Cardinality(old) \in Nat
    BY <2>1, JobSets
  <2>4. Cardinality(new) <= SessionMax
    BY <2>2, <2>3, LimitTypes
  <2> QED  BY <2>4 DEF new
<1>4. BackendLimit'
  <2> SUFFICES ASSUME NEW b \in Backend
               PROVE  Cardinality({j \in Admitted' : owner'[j].backend = b}) <= Capacity(b)
    BY DEF BackendLimit, Capacity
  <2> DEFINE new == {j \in Admitted' : owner'[j].backend = b}
             old == {j \in Admitted : owner[j].backend = b}
  <2>1. old \in SUBSET Job /\ new \in SUBSET old
    BY <1>1
  <2>2. Cardinality(old) <= Capacity(b)
    BY DEF Limits, BackendLimit
  <2> HIDE DEF new, old
  <2>3. Cardinality(new) <= Cardinality(old)
        /\ Cardinality(new) \in Nat /\ Cardinality(old) \in Nat
    BY <2>1, JobSets
  <2>4. Cardinality(new) <= Capacity(b)
    BY <2>2, <2>3, LimitTypes
  <2> QED  BY <2>4 DEF new
<1> QED  BY <1>2, <1>3, <1>4 DEF Limits

\* A call that has room keeps it while the counted jobs only become fewer.
LEMMA ShrinkingKeepsRoom ==
    ASSUME Counted' \subseteq Counted,
           \A j \in Counted' : owner'[j] = owner[j],
           NEW b \in Backend, NEW s, RoomFor(b, s)
    PROVE  RoomFor(b, s)'
<1>1. Counted \in SUBSET Job /\ Counted' \in SUBSET Counted
  BY DEF Counted
<1>2. CountedIn(s) \in SUBSET Job /\ CountedIn(s)' \in SUBSET CountedIn(s)
  BY <1>1 DEF CountedIn
<1>3. CountedOn(b) \in SUBSET Job /\ CountedOn(b)' \in SUBSET CountedOn(b)
  BY <1>1 DEF CountedOn
<1>4. /\ Cardinality(Counted') <= Cardinality(Counted)
      /\ Cardinality(Counted') \in Nat /\ Cardinality(Counted) \in Nat
  BY <1>1, JobSets
<1>5. /\ Cardinality(CountedIn(s)') <= Cardinality(CountedIn(s))
      /\ Cardinality(CountedIn(s)') \in Nat /\ Cardinality(CountedIn(s)) \in Nat
  BY <1>2, JobSets
<1>6. /\ Cardinality(CountedOn(b)') <= Cardinality(CountedOn(b))
      /\ Cardinality(CountedOn(b)') \in Nat /\ Cardinality(CountedOn(b)) \in Nat
  BY <1>3, JobSets
<1>7. ~LimitReached(s)'
  BY <1>4, <1>5, LimitTypes DEF RoomFor, LimitReached
<1>8. ~Full(b)'
  BY <1>6, LimitTypes DEF RoomFor, Full, Capacity
<1> QED  BY <1>7, <1>8 DEF RoomFor

\* A backend returned by selectBackend is in the order and has room.
LEMMA SelectBackendSound ==
    ASSUME TypeOK, NEW order \in Seq(Backend), order # <<>>,
           NEW wanted \in Seq(Backend), NEW s,
           SelectBackend(order, wanted, s) # NoBackend
    PROVE  /\ SelectBackend(order, wanted, s) \in Backend
           /\ RoomFor(SelectBackend(order, wanted, s), s)
           /\ Contains(order, SelectBackend(order, wanted, s))
<1> DEFINE liked == FirstOf(wanted, order, HasRoom, NoBackend)
           next == NextOf(order, Start(order), HasRoom, NoBackend)
<1>1. Len(order) \in Nat /\ Len(order) > 0
  OBVIOUS
<1>2. Start(order) \in Nat
  <2>1. turn \in Nat => turn % Len(order) \in Nat
    BY <1>1
  <2> QED  BY <2>1 DEF TypeOK, Start
<1>3. liked # NoBackend => liked \in HasRoom /\ liked \in Backend /\ Contains(order, liked)
  BY FirstOfSound
<1>4. next # NoBackend => next \in HasRoom /\ next \in Backend /\ Contains(order, next)
  BY <1>2, NextOfSound
<1>5. \A b \in HasRoom : ~Full(b)
  BY DEF HasRoom
<1> HIDE DEF liked, next
<1>6. ~LimitReached(s)
  BY DEF SelectBackend
<1>7. SelectBackend(order, wanted, s) = IF liked # NoBackend THEN liked ELSE next
  BY <1>6 DEF SelectBackend, liked, next
<1> QED  BY <1>3, <1>4, <1>5, <1>6, <1>7 DEF RoomFor

-----------------------------------------------------------------------------
(* Type correctness.                                                       *)

\* The order Spawn filters is made of backends, and so is what is left of it.
LEMMA FilterTypes ==
    /\ \A able : Keep(Order, able) \in Seq(Backend)
    /\ \A o \in Seq(Backend) : \A S : Keep(o, S) \in Seq(Backend)
BY ConfigAssumption, KeepType

LEMMA InitType == Init => TypeOK
<1> SUFFICES ASSUME Init PROVE TypeOK
  OBVIOUS
<1>1. <<>> \in Seq(Backend)
  OBVIOUS
<1>2. owner \in [Job -> [backend : Backend \cup {NoBackend}, session : Session \cup {NoBackend}]]
  BY DEF Init, Nobody
<1> QED  BY <1>1, <1>2 DEF Init, TypeOK

OwnerSet == [backend : Backend \cup {NoBackend}, session : Session \cup {NoBackend}]

LEMMA OwnerTypes ==
    ASSUME NEW o \in [Job -> OwnerSet], NEW j \in Job
    PROVE  /\ [o EXCEPT ![j] = Nobody] \in [Job -> OwnerSet]
           /\ \A b \in Backend, s \in Session :
                [o EXCEPT ![j] = [backend |-> b, session |-> s]] \in [Job -> OwnerSet]
BY DEF OwnerSet, Nobody

\* Every step leaves every variable in its set; the invariant on calls is what
\* tells that a chosen backend, a request and a started job exist.
LEMMA StepType == TypeOK /\ CallInv /\ [Next]_vars => TypeOK'
<1> SUFFICES ASSUME TypeOK, CallInv, [Next]_vars PROVE TypeOK'
  OBVIOUS
<1> USE DEF TypeOK, Goto, jobVars, callVars
<1>1. ASSUME NEW p \in Proc, Call(p) PROVE TypeOK'
  BY <1>1 DEF Call
<1>2. ASSUME NEW p \in Proc, Lock(p) PROVE TypeOK'
  <2>1. req[p] \in Request
    BY <1>2 DEF Lock, CallInv
  <2>2. req[p].backend # "auto" => req[p].backend \in Backend
    BY <2>1, RequestAssumption
  <2> QED  BY <1>2, <2>2 DEF Lock
<1>3. ASSUME NEW p \in Proc, FilterReady(p) PROVE TypeOK'
  <2>1. PICK able \in ReadySets :
          /\ ring' = [ring EXCEPT ![p] = Keep(Order, able)]
          /\ ready' = [ready EXCEPT ![p] = Keep(Order, able)]
          /\ Goto(p, IF Keep(Order, able) = <<>> THEN "failed" ELSE "select")
    BY <1>3 DEF FilterReady
  <2> QED  BY <1>3, <2>1, FilterTypes DEF FilterReady
<1>4. ASSUME NEW p \in Proc, SelectFirst(p) PROVE TypeOK'
  BY <1>4 DEF SelectFirst
<1>5. ASSUME NEW p \in Proc, Probe(p) PROVE TypeOK'
  <2>1. Keep(ready[p], Backend \ {"qwen"}) \in Seq(Backend)
    BY FilterTypes
  <2> QED  BY <1>5, <2>1 DEF Probe
<1>6. ASSUME NEW p \in Proc, Choose(p) PROVE TypeOK'
  <2> DEFINE b == SelectBackend(ready[p], req[p].preferred, req[p].session)
  <2>1. CASE b = NoBackend
    BY <1>6, <2>1 DEF Choose
  <2>2. CASE b # NoBackend
    <3>1. req[p] \in Request /\ req[p].preferred \in Seq(Backend) /\ ready[p] # <<>>
      BY <1>6, RequestAssumption DEF Choose, CallInv
    <3>2. b \in Backend
      BY <2>2, <3>1, SelectBackendSound
    <3> HIDE DEF b
    <3>3. Advanced(ring[p], b) \in Nat \cup {NoFile}
      BY IndexAfterType DEF Advanced
    <3> QED  BY <1>6, <2>2, <3>2, <3>3 DEF Choose, b
  <2> QED  BY <2>1, <2>2
<1>7. ASSUME NEW p \in Proc, Validate(p) PROVE TypeOK'
  BY <1>7 DEF Validate
<1>8. ASSUME NEW p \in Proc, StartWorker(p) PROVE TypeOK'
  <2>1. req[p] \in Request /\ pick[p] \in Backend /\ req[p].session \in Session
    BY <1>8, RequestAssumption DEF StartWorker, CallInv
  <2> QED  BY <1>8, <2>1 DEF StartWorker
<1>9. ASSUME NEW p \in Proc, FailBeforeStart(p) PROVE TypeOK'
  BY <1>9 DEF FailBeforeStart
<1>10. ASSUME NEW p \in Proc, SaveDescriptor(p) PROVE TypeOK'
  BY <1>10 DEF SaveDescriptor
<1>11. ASSUME NEW p \in Proc, SaveFails(p) PROVE TypeOK'
  BY <1>11 DEF SaveFails, Nobody
<1>12. ASSUME NEW p \in Proc, Rollback(p) PROVE TypeOK'
  BY <1>12 DEF Rollback
<1>13. ASSUME NEW p \in Proc, Unlock(p) PROVE TypeOK'
  BY <1>13 DEF Unlock, Forget
<1>14. ASSUME NEW p \in Proc, Crash(p) PROVE TypeOK'
  BY <1>14 DEF Crash, Forget
<1>15. ASSUME NEW j \in Job, WorkerReports(j) PROVE TypeOK'
  BY <1>15 DEF WorkerReports
<1>16. ASSUME NEW j \in Job, WorkerExits(j) PROVE TypeOK'
  <2>1. owner' \in [Job -> OwnerSet]
    <3>1. owner \in [Job -> OwnerSet]
      BY DEF OwnerSet
    <3>2. owner' = owner \/ owner' = [owner EXCEPT ![j] = Nobody]
      BY <1>16 DEF WorkerExits
    <3>3. [owner EXCEPT ![j] = Nobody] \in [Job -> OwnerSet]
      BY <3>1, OwnerTypes
    <3> QED  BY <3>1, <3>2, <3>3
  <2> QED  BY <1>16, <2>1 DEF WorkerExits, OwnerSet
<1>17. ASSUME NEW j \in Job, RemoveDescriptor(j) PROVE TypeOK'
  <2>1. owner' \in [Job -> OwnerSet]
    <3>1. owner \in [Job -> OwnerSet]
      BY DEF OwnerSet
    <3>2. owner' = owner \/ owner' = [owner EXCEPT ![j] = Nobody]
      BY <1>17 DEF RemoveDescriptor
    <3>3. [owner EXCEPT ![j] = Nobody] \in [Job -> OwnerSet]
      BY <3>1, OwnerTypes
    <3> QED  BY <3>1, <3>2, <3>3
  <2> QED  BY <1>17, <2>1 DEF RemoveDescriptor, OwnerSet
<1>18. CASE UNCHANGED vars
  BY <1>18 DEF vars
<1> QED
  BY <1>1, <1>2, <1>3, <1>4, <1>5, <1>6, <1>7, <1>8, <1>9, <1>10, <1>11, <1>12,
     <1>13, <1>14, <1>15, <1>16, <1>17, <1>18 DEF Next, Spawning

-----------------------------------------------------------------------------
(* The lock and the calls.                                                 *)

\* Only the holder of the lock is between LOCK_EX and LOCK_UN, also when the
\* holder crashes.
LEMMA StepLock == TypeOK /\ LockInv /\ [Next]_vars => LockInv'
<1> SUFFICES ASSUME TypeOK, LockInv, [Next]_vars PROVE LockInv'
  OBVIOUS
<1> USE ProcAssumption DEF TypeOK, LockInv, Holding, Goto
<1>1. ASSUME NEW p \in Proc, Call(p) PROVE LockInv'
  BY <1>1 DEF Call
<1>2. ASSUME NEW p \in Proc, Lock(p) PROVE LockInv'
  BY <1>2 DEF Lock
<1>3. ASSUME NEW p \in Proc,
             \/ FilterReady(p) \/ SelectFirst(p) \/ Probe(p) \/ Choose(p)
             \/ Validate(p) \/ StartWorker(p) \/ FailBeforeStart(p)
             \/ SaveDescriptor(p) \/ SaveFails(p) \/ Rollback(p)
      PROVE  LockInv'
  <2>1. /\ pc[p] \notin {"idle", "waiting"}
        /\ lock' = lock
        /\ \E l \in {"select", "probe", "choose", "picked", "admitted",
                     "started", "failed", "unlock"} : pc' = [pc EXCEPT ![p] = l]
    BY <1>3 DEF FilterReady, SelectFirst, Probe, Choose, Validate, StartWorker,
                FailBeforeStart, SaveDescriptor, SaveFails, Rollback
  <2> QED  BY <2>1
<1>4. ASSUME NEW p \in Proc, Unlock(p) PROVE LockInv'
  BY <1>4 DEF Unlock
<1>5. ASSUME NEW p \in Proc, Crash(p) PROVE LockInv'
  BY <1>5 DEF Crash
<1>6. ASSUME NEW j \in Job, WorkerReports(j) \/ WorkerExits(j) \/ RemoveDescriptor(j)
      PROVE  LockInv'
  BY <1>6 DEF WorkerReports, WorkerExits, RemoveDescriptor
<1>7. CASE UNCHANGED vars
  BY <1>7 DEF vars
<1> QED
  BY <1>1, <1>2, <1>3, <1>4, <1>5, <1>6, <1>7 DEF Next, Spawning

\* A call has what its next steps use: a request, a nonempty order, a backend,
\* a started worker.
LEMMA StepCall == TypeOK /\ CallInv /\ [Next]_vars => CallInv'
<1> SUFFICES ASSUME TypeOK, CallInv, [Next]_vars PROVE CallInv'
  OBVIOUS
<1> USE DEF TypeOK, CallInv, Goto, callVars
<1>1. ASSUME NEW p \in Proc, Call(p) PROVE CallInv'
  BY <1>1 DEF Call
<1>2. ASSUME NEW p \in Proc, Lock(p) PROVE CallInv'
  <2>1. req[p] \in Request /\ (req[p].backend # "auto" => req[p].backend \in Backend)
    BY <1>2, RequestAssumption DEF Lock
  <2> QED  BY <1>2, <2>1 DEF Lock
<1>3. ASSUME NEW p \in Proc, FilterReady(p) PROVE CallInv'
  <2>1. PICK able \in ReadySets :
          /\ ready' = [ready EXCEPT ![p] = Keep(Order, able)]
          /\ Goto(p, IF Keep(Order, able) = <<>> THEN "failed" ELSE "select")
    BY <1>3 DEF FilterReady
  <2> QED  BY <1>3, <2>1 DEF FilterReady
<1>4. ASSUME NEW p \in Proc, SelectFirst(p) PROVE CallInv'
  BY <1>4 DEF SelectFirst
<1>5. ASSUME NEW p \in Proc, Probe(p) PROVE CallInv'
  <2> DEFINE rest == Keep(ready[p], Backend \ {"qwen"})
  <2> HIDE DEF rest
  <2>1. \/ Goto(p, "choose") /\ UNCHANGED ready
        \/ /\ ready' = [ready EXCEPT ![p] = rest]
           /\ Goto(p, IF rest = <<>> THEN "failed" ELSE "choose")
    BY <1>5 DEF Probe, rest
  <2> QED  BY <1>5, <2>1 DEF Probe
<1>6. ASSUME NEW p \in Proc, Choose(p) PROVE CallInv'
  <2> DEFINE b == SelectBackend(ready[p], req[p].preferred, req[p].session)
  <2>1. CASE b = NoBackend
    BY <1>6, <2>1 DEF Choose
  <2>2. CASE b # NoBackend
    <3>1. req[p] \in Request /\ req[p].preferred \in Seq(Backend) /\ ready[p] # <<>>
      BY <1>6, RequestAssumption DEF Choose
    <3>2. b \in Backend
      BY <2>2, <3>1, SelectBackendSound
    <3> HIDE DEF b
    <3> QED  BY <1>6, <2>2, <3>2 DEF Choose, b
  <2> QED  BY <2>1, <2>2
<1>7. ASSUME NEW p \in Proc, Validate(p) PROVE CallInv'
  BY <1>7 DEF Validate
<1>8. ASSUME NEW p \in Proc, StartWorker(p) PROVE CallInv'
  BY <1>8 DEF StartWorker
<1>9. ASSUME NEW p \in Proc,
             FailBeforeStart(p) \/ SaveDescriptor(p) \/ SaveFails(p) \/ Rollback(p)
      PROVE  CallInv'
  BY <1>9 DEF FailBeforeStart, SaveDescriptor, SaveFails, Rollback
<1>10. ASSUME NEW p \in Proc, Unlock(p) \/ Crash(p) PROVE CallInv'
  BY <1>10 DEF Unlock, Crash, Forget
<1>11. ASSUME NEW j \in Job, WorkerReports(j) \/ WorkerExits(j) \/ RemoveDescriptor(j)
       PROVE  CallInv'
  BY <1>11 DEF WorkerReports, WorkerExits, RemoveDescriptor
<1>12. CASE UNCHANGED vars
  BY <1>12 DEF vars
<1> QED
  BY <1>1, <1>2, <1>3, <1>4, <1>5, <1>6, <1>7, <1>8, <1>9, <1>10, <1>11, <1>12
     DEF Next, Spawning

\* Every call can rely on a fixed part of the state for a while: the lock keeps
\* descriptors from appearing, so the counted jobs only become fewer except
\* when the holder of the lock saves one.
LEMMA CountedShrinks ==
    ASSUME TypeOK, CallInv, [Next]_vars, \A p \in Proc : ~SaveDescriptor(p)
    PROVE  /\ Counted' \subseteq Counted
           /\ \A j \in Counted' : owner'[j] = owner[j]
<1> USE DEF TypeOK, Counted, Alive, jobVars
<1>1. ASSUME NEW p \in Proc,
             \/ Call(p) \/ Lock(p) \/ FilterReady(p) \/ SelectFirst(p) \/ Probe(p)
             \/ Choose(p) \/ Validate(p) \/ FailBeforeStart(p) \/ Rollback(p)
             \/ Unlock(p) \/ Crash(p)
      PROVE  worker' = worker /\ descr' = descr /\ owner' = owner
  BY <1>1 DEF Call, Lock, FilterReady, SelectFirst, Probe, Choose, Validate,
              FailBeforeStart, Rollback, Unlock, Crash
<1>2. ASSUME NEW p \in Proc, StartWorker(p)
      PROVE  Counted' \subseteq Counted /\ \A j \in Counted' : owner'[j] = owner[j]
  BY <1>2 DEF StartWorker
<1>3. ASSUME NEW p \in Proc, SaveFails(p)
      PROVE  Counted' \subseteq Counted /\ \A j \in Counted' : owner'[j] = owner[j]
  <2>1. started[p] \in Job
    BY <1>3 DEF SaveFails, CallInv
  <2> QED  BY <1>3, <2>1 DEF SaveFails
<1>4. ASSUME NEW j \in Job, WorkerReports(j) \/ WorkerExits(j) \/ RemoveDescriptor(j)
      PROVE  Counted' \subseteq Counted /\ \A k \in Counted' : owner'[k] = owner[k]
  BY <1>4 DEF WorkerReports, WorkerExits, RemoveDescriptor
<1>5. CASE UNCHANGED vars
  BY <1>5 DEF vars
<1> QED
  BY <1>1, <1>2, <1>3, <1>4, <1>5 DEF Next, Spawning

\* The holder that saves a descriptor is the only call past its checks.
LEMMA SavingIsAlone ==
    ASSUME TypeOK, LockInv, NEW p \in Proc, SaveDescriptor(p)
    PROVE  \A q \in Proc : ~Vetted(q)'
<1>1. \A q \in Proc : q # p => pc[q] \in {"idle", "waiting"}
  BY DEF LockInv, Holding, SaveDescriptor, TypeOK
<1> QED  BY <1>1 DEF SaveDescriptor, Goto, Vetted, TypeOK

-----------------------------------------------------------------------------
(* Room, and the limits.                                                   *)

\* A call comes past its capacity check only by a selectBackend that found room.
LEMMA HowVetted ==
    ASSUME TypeOK, CallInv, Checked, [Next]_vars, NEW q \in Proc, Vetted(q)'
    PROVE  \/ Choose(q)
           \/ Validate(q) /\ req[q].requested # "auto"
           \/ Vetted(q) /\ pick'[q] = pick[q] /\ req'[q] = req[q]
<1> USE DEF TypeOK, Vetted, Goto, callVars
<1>1. ASSUME NEW p \in Proc, Call(p) PROVE Vetted(q) /\ pick'[q] = pick[q] /\ req'[q] = req[q]
  BY <1>1 DEF Call
<1>2. ASSUME NEW p \in Proc, Lock(p) PROVE Vetted(q) /\ pick'[q] = pick[q] /\ req'[q] = req[q]
  <2>1. req[p] \in Request
    BY <1>2 DEF Lock, CallInv
  <2>2. req[p].requested = "auto" => req[p].backend = "auto"
    BY <2>1 DEF Checked
  <2> QED  BY <1>2, <2>2 DEF Lock
<1>3. ASSUME NEW p \in Proc, Choose(p), p # q
      PROVE  Vetted(q) /\ pick'[q] = pick[q] /\ req'[q] = req[q]
  BY <1>3 DEF Choose
<1>4. ASSUME NEW p \in Proc, Validate(p), ~(p = q /\ req[q].requested # "auto")
      PROVE  Vetted(q) /\ pick'[q] = pick[q] /\ req'[q] = req[q]
  BY <1>4 DEF Validate
<1>5. ASSUME NEW p \in Proc,
             \/ FilterReady(p) \/ SelectFirst(p) \/ Probe(p) \/ StartWorker(p)
             \/ FailBeforeStart(p) \/ SaveDescriptor(p) \/ SaveFails(p) \/ Rollback(p)
      PROVE  Vetted(q) /\ pick'[q] = pick[q] /\ req'[q] = req[q]
  <2>1. /\ pick' = pick /\ req' = req
        /\ \E l \in {"select", "probe", "choose", "started", "failed", "unlock"} :
              pc' = [pc EXCEPT ![p] = l]
    BY <1>5 DEF FilterReady, SelectFirst, Probe, StartWorker, FailBeforeStart,
                SaveDescriptor, SaveFails, Rollback
  <2> QED  BY <2>1
<1>6. ASSUME NEW p \in Proc, Unlock(p) \/ Crash(p)
      PROVE  Vetted(q) /\ pick'[q] = pick[q] /\ req'[q] = req[q]
  BY <1>6 DEF Unlock, Crash, Forget
<1>7. ASSUME NEW j \in Job, WorkerReports(j) \/ WorkerExits(j) \/ RemoveDescriptor(j)
      PROVE  Vetted(q) /\ pick'[q] = pick[q] /\ req'[q] = req[q]
  BY <1>7 DEF WorkerReports, WorkerExits, RemoveDescriptor
<1>8. CASE UNCHANGED vars
  BY <1>8 DEF vars
<1> QED
  BY <1>1, <1>2, <1>3, <1>4, <1>5, <1>6, <1>7, <1>8 DEF Next, Spawning

\* Only the concrete backend itself can come out of a one-element order.
LEMMA PinnedHasRoom ==
    ASSUME TypeOK, NEW b \in Backend, NEW s, SelectBackend(<<b>>, <<>>, s) # NoBackend
    PROVE  RoomFor(b, s)
<1>1. <<b>> \in Seq(Backend) /\ <<b>> # <<>> /\ <<>> \in Seq(Backend)
  OBVIOUS
<1>2. /\ RoomFor(SelectBackend(<<b>>, <<>>, s), s)
      /\ Contains(<<b>>, SelectBackend(<<b>>, <<>>, s))
  BY <1>1, SelectBackendSound
<1>3. \A x : Contains(<<b>>, x) => x = b
  BY DEF Contains
<1> QED  BY <1>2, <1>3

LEMMA StepRoom ==
    TypeOK /\ LockInv /\ CallInv /\ RoomInv /\ Checked /\ [Next]_vars => RoomInv'
<1> SUFFICES ASSUME TypeOK, LockInv, CallInv, RoomInv, Checked, [Next]_vars,
                    NEW q \in Proc, Vetted(q)'
             PROVE  RoomFor(pick[q], req[q].session)'
  BY DEF RoomInv
<1>1. CASE \E p \in Proc : SaveDescriptor(p)
  BY <1>1, SavingIsAlone
<1>2. CASE \A p \in Proc : ~SaveDescriptor(p)
  <2>1. CallInv'
    BY StepCall
  <2>2. PICK b, s : b = pick'[q] /\ s = req'[q].session
    OBVIOUS
  <2>3. b \in Backend
    BY <2>1, <2>2 DEF CallInv, Vetted
  <2>4. RoomFor(b, s)
    <3>1. CASE Choose(q)
      <4>1. /\ ready[q] \in Seq(Backend) /\ ready[q] # <<>>
            /\ req[q].preferred \in Seq(Backend)
        BY <3>1, RequestAssumption DEF Choose, CallInv, TypeOK
      <4>2. /\ SelectBackend(ready[q], req[q].preferred, req[q].session) # NoBackend
            /\ b = SelectBackend(ready[q], req[q].preferred, req[q].session)
            /\ s = req[q].session
        BY <3>1, <2>2 DEF Choose, Goto, Vetted, TypeOK
      <4> QED  BY <4>1, <4>2, SelectBackendSound
    <3>2. CASE Validate(q) /\ req[q].requested # "auto"
      <4>1. b = pick[q] /\ s = req[q].session
        BY <3>2, <2>2 DEF Validate, callVars
      <4>2. SelectBackend(<<b>>, <<>>, s) # NoBackend
        BY <3>2, <4>1 DEF Validate, Goto, Vetted, TypeOK, callVars
      <4> QED  BY <4>2, <2>3, PinnedHasRoom
    <3>3. CASE Vetted(q) /\ pick'[q] = pick[q] /\ req'[q] = req[q]
      BY <3>3, <2>2 DEF RoomInv
    <3> QED  BY <3>1, <3>2, <3>3, HowVetted
  <2>5. RoomFor(b, s)'
    <3>1. Counted' \subseteq Counted /\ \A j \in Counted' : owner'[j] = owner[j]
      BY <1>2, CountedShrinks
    <3> QED  BY <2>3, <2>4, <3>1, ShrinkingKeepsRoom
  <2> QED  BY <2>2, <2>5 DEF RoomFor, LimitReached, Full, CountedIn, CountedOn, Capacity
<1> QED  BY <1>1, <1>2

\* Every step but the start of a worker leaves no new job to answer for.
LEMMA AdmittedShrinks ==
    ASSUME TypeOK, LockInv, CallInv, [Next]_vars, \A p \in Proc : ~StartWorker(p)
    PROVE  /\ Admitted' \subseteq Admitted
           /\ \A j \in Admitted' : owner'[j] = owner[j]
<1> DEFINE Starting(j) == \E p \in Proc : pc[p] = "started" /\ started[p] = j
<1> USE DEF TypeOK, Admitted, Alive, jobVars, callVars, Goto
<1>1. ASSUME NEW p \in Proc,
             \/ Call(p) \/ Lock(p) \/ FilterReady(p) \/ SelectFirst(p) \/ Probe(p)
             \/ Choose(p) \/ Validate(p) \/ FailBeforeStart(p) \/ Rollback(p)
             \/ Unlock(p) \/ Crash(p)
      PROVE  /\ Admitted' \subseteq Admitted
             /\ \A j \in Admitted' : owner'[j] = owner[j]
  <2>1. worker' = worker /\ descr' = descr /\ owner' = owner
    BY <1>1 DEF Call, Lock, FilterReady, SelectFirst, Probe, Choose, Validate,
                FailBeforeStart, Rollback, Unlock, Crash
  <2>2. /\ \E l : l # "started" /\ pc' = [pc EXCEPT ![p] = l]
        /\ \A q \in Proc : q # p => started'[q] = started[q]
    BY <1>1 DEF Call, Lock, FilterReady, SelectFirst, Probe, Choose, Validate,
                FailBeforeStart, Rollback, Unlock, Crash, Forget
  <2>3. \A j : Starting(j)' => Starting(j)
    BY <2>2
  <2> QED  BY <2>1, <2>3
<1>2. ASSUME NEW p \in Proc, SaveDescriptor(p)
      PROVE  /\ Admitted' \subseteq Admitted
             /\ \A j \in Admitted' : owner'[j] = owner[j]
  BY <1>2 DEF SaveDescriptor
<1>3. ASSUME NEW p \in Proc, SaveFails(p)
      PROVE  /\ Admitted' \subseteq Admitted
             /\ \A j \in Admitted' : owner'[j] = owner[j]
  <2>1. started[p] \in Job
    BY <1>3 DEF SaveFails, CallInv
  <2> QED  BY <1>3, <2>1 DEF SaveFails
<1>4. ASSUME NEW j \in Job, WorkerReports(j) \/ WorkerExits(j) \/ RemoveDescriptor(j)
      PROVE  /\ Admitted' \subseteq Admitted
             /\ \A k \in Admitted' : owner'[k] = owner[k]
  <2>1. \A k : Starting(k)' <=> Starting(k)
    BY <1>4 DEF WorkerReports, WorkerExits, RemoveDescriptor
  <2>2. \A k \in Job : /\ worker'[k] = "running" => worker[k] = "running"
                       /\ descr'[k] => descr[k]
    BY <1>4 DEF WorkerReports, WorkerExits, RemoveDescriptor
  <2>3. \A k \in Job : worker'[k] = "running" /\ (descr'[k] \/ k # j)
                        => owner'[k] = owner[k]
    BY <1>4 DEF WorkerReports, WorkerExits, RemoveDescriptor
  <2>4. worker'[j] = "running" => owner'[j] = owner[j]
    BY <1>4 DEF WorkerReports, WorkerExits, RemoveDescriptor
  <2> HIDE DEF Starting
  <2>5. \A k : k \in Admitted <=> k \in Job /\ worker[k] = "running" /\ (descr[k] \/ Starting(k))
    BY DEF Starting
  <2>6. \A k : k \in Admitted' <=> k \in Job /\ worker'[k] = "running" /\ (descr'[k] \/ Starting(k)')
    BY DEF Starting
  <2> QED  BY <2>1, <2>2, <2>3, <2>4, <2>5, <2>6
<1>5. CASE UNCHANGED vars
  BY <1>5 DEF vars
<1> QED
  BY <1>1, <1>2, <1>3, <1>4, <1>5 DEF Next, Spawning

\* Adding one job to a set below its limit respects the limit.
LEMMA OneMore ==
    ASSUME NEW S \in SUBSET Job, NEW T, NEW j, T \subseteq S \cup {j},
           NEW limit \in Nat, Cardinality(S) < limit
    PROVE  Cardinality(T) <= limit
<1>1. IsFiniteSet(S) /\ Cardinality(S) \in Nat
  BY JobSets
<1>2. /\ IsFiniteSet(S \cup {j}) /\ Cardinality(S \cup {j}) \in Nat
      /\ Cardinality(S \cup {j}) <= Cardinality(S) + 1
  BY <1>1, FS_AddElement, FS_CardinalityType
<1>3. Cardinality(T) <= Cardinality(S \cup {j}) /\ Cardinality(T) \in Nat
  BY <1>2, FS_Subset, FS_CardinalityType
<1> QED  BY <1>1, <1>2, <1>3

\* A worker starts only where its call found room, and by then that call alone
\* decides: the jobs to answer for are the counted ones and the new one.
LEMMA StartRespectsLimits ==
    ASSUME TypeOK, LockInv, CallInv, RoomInv, Limits, NEW p \in Proc, StartWorker(p)
    PROVE  Limits'
<1>1. PICK j \in Job :
        /\ worker[j] = "none" /\ ~descr[j]
        /\ worker' = [worker EXCEPT ![j] = "running"]
        /\ owner' = [owner EXCEPT ![j] = [backend |-> pick[p], session |-> req[p].session]]
        /\ started' = [started EXCEPT ![p] = j]
  BY DEF StartWorker
<1>2. RoomFor(pick[p], req[p].session) /\ pick[p] \in Backend
  BY DEF RoomInv, Vetted, StartWorker, CallInv
<1>3. \A q \in Proc : q # p => pc[q] \in {"idle", "waiting"}
  BY DEF LockInv, Holding, StartWorker, TypeOK
<1>4. Admitted' \subseteq Counted \cup {j}
  BY <1>1, <1>3 DEF StartWorker, Admitted, Counted, Alive, TypeOK, Goto
<1>5. \A k \in Counted : k # j /\ owner'[k] = owner[k]
  BY <1>1 DEF Counted, Alive, TypeOK
<1>6. Counted \in SUBSET Job /\ Counted \subseteq Admitted
  BY DEF Counted, Admitted
<1>7. owner'[j] = [backend |-> pick[p], session |-> req[p].session]
  BY <1>1 DEF TypeOK
<1>8. MachineLimit'
  <2>1. Cardinality(Counted) < MachineMax
    BY <1>2, <1>6, JobSets, LimitTypes DEF RoomFor, LimitReached
  <2>2. Cardinality(Admitted') <= MachineMax
    BY <1>4, <1>6, <2>1, OneMore, LimitTypes
  <2> QED  BY <2>2 DEF MachineLimit
<1>9. SessionLimit'
  <2> SUFFICES ASSUME NEW s \in Session
               PROVE  Cardinality({k \in Admitted' : owner'[k].session = s}) <= SessionMax
    BY DEF SessionLimit
  <2> DEFINE new == {k \in Admitted' : owner'[k].session = s}
             old == {k \in Admitted : owner[k].session = s}
  <2>1. CASE s = req[p].session
    <3>1. new \subseteq CountedIn(s) \cup {j} /\ CountedIn(s) \in SUBSET Job
      BY <1>4, <1>5, <1>6 DEF CountedIn
    <3>2. Cardinality(CountedIn(s)) < SessionMax
      BY <1>2, <2>1, <3>1, JobSets, LimitTypes DEF RoomFor, LimitReached
    <3> HIDE DEF new
    <3>3. Cardinality(new) <= SessionMax
      BY <3>1, <3>2, OneMore, LimitTypes
    <3> QED  BY <3>3 DEF new
  <2>2. CASE s # req[p].session
    <3>1. new \in SUBSET old /\ old \in SUBSET Job
      BY <1>4, <1>5, <1>6, <1>7, <2>2 DEF Admitted
    <3>2. Cardinality(old) <= SessionMax
      BY DEF Limits, SessionLimit
    <3> HIDE DEF new, old
    <3>3. Cardinality(new) <= SessionMax
      BY <3>1, <3>2, JobSets, LimitTypes
    <3> QED  BY <3>3 DEF new
  <2> QED  BY <2>1, <2>2
<1>10. BackendLimit'
  <2> SUFFICES ASSUME NEW b \in Backend
               PROVE  Cardinality({k \in Admitted' : owner'[k].backend = b}) <= Capacity(b)
    BY DEF BackendLimit, Capacity
  <2> DEFINE new == {k \in Admitted' : owner'[k].backend = b}
             old == {k \in Admitted : owner[k].backend = b}
  <2>1. CASE b = pick[p]
    <3>1. new \subseteq CountedOn(b) \cup {j} /\ CountedOn(b) \in SUBSET Job
      BY <1>4, <1>5, <1>6 DEF CountedOn
    <3>2. Cardinality(CountedOn(b)) < Capacity(b)
      BY <1>2, <2>1, <3>1, JobSets, LimitTypes DEF RoomFor, Full
    <3> HIDE DEF new
    <3>3. Cardinality(new) <= Capacity(b)
      BY <3>1, <3>2, OneMore, LimitTypes
    <3> QED  BY <3>3 DEF new
  <2>2. CASE b # pick[p]
    <3>1. new \in SUBSET old /\ old \in SUBSET Job
      BY <1>4, <1>5, <1>6, <1>7, <2>2 DEF Admitted
    <3>2. Cardinality(old) <= Capacity(b)
      BY DEF Limits, BackendLimit
    <3> HIDE DEF new, old
    <3>3. Cardinality(new) <= Capacity(b)
      BY <3>1, <3>2, JobSets, LimitTypes
    <3> QED  BY <3>3 DEF new
  <2> QED  BY <2>1, <2>2
<1> QED  BY <1>8, <1>9, <1>10 DEF Limits

LEMMA StepLimits ==
    TypeOK /\ LockInv /\ CallInv /\ RoomInv /\ Limits /\ [Next]_vars => Limits'
<1> SUFFICES ASSUME TypeOK, LockInv, CallInv, RoomInv, Limits, [Next]_vars PROVE Limits'
  OBVIOUS
<1>1. CASE \E p \in Proc : StartWorker(p)
  BY <1>1, StartRespectsLimits
<1>2. CASE \A p \in Proc : ~StartWorker(p)
  BY <1>2, AdmittedShrinks, ShrinkingKeepsLimits
<1> QED  BY <1>1, <1>2

-----------------------------------------------------------------------------
(* The theorems.                                                           *)

\* Init establishes the inductive invariant.
LEMMA InitInv == Init => IInv
<1> SUFFICES ASSUME Init PROVE IInv
  OBVIOUS
<1>1. TypeOK
  BY InitType
<1>2. LockInv /\ CallInv /\ RoomInv
  BY ProcAssumption DEF Init, LockInv, Holding, CallInv, RoomInv, Vetted
<1>3. Admitted = {}
  BY DEF Init, Admitted, Alive
<1>4. \A S : S \subseteq {} => Cardinality(S) = 0
  BY FS_EmptySet
<1>5. Limits
  <2>1. MachineLimit
    BY <1>3, <1>4, LimitTypes DEF MachineLimit
  <2>2. SessionLimit
    <3> SUFFICES ASSUME NEW s \in Session
                 PROVE  Cardinality({j \in Admitted : owner[j].session = s}) <= SessionMax
      BY DEF SessionLimit
    <3>1. {j \in Admitted : owner[j].session = s} \subseteq {}
      BY <1>3
    <3> QED  BY <3>1, <1>4, LimitTypes
  <2>3. BackendLimit
    <3> SUFFICES ASSUME NEW b \in Backend
                 PROVE  Cardinality({j \in Admitted : owner[j].backend = b}) <= Capacity(b)
      BY DEF BackendLimit
    <3>1. {j \in Admitted : owner[j].backend = b} \subseteq {}
      BY <1>3
    <3> QED  BY <3>1, <1>4, LimitTypes
  <2> QED  BY <2>1, <2>2, <2>3 DEF Limits
<1> QED  BY <1>1, <1>2, <1>5 DEF IInv

\* Types and calls are invariant whatever the requests are.
LEMMA TypeInvariant == Spec => [](TypeOK /\ CallInv)
<1>1. Init => TypeOK /\ CallInv
  BY InitType DEF Init, CallInv
<1>2. TypeOK /\ CallInv /\ [Next]_vars => (TypeOK /\ CallInv)'
  BY StepType, StepCall
<1> QED  BY <1>1, <1>2, PTL DEF Spec

\* Every reachable state of the scheduler is well typed, for every
\* configuration and every set of requests, the unchecked ones included.
THEOREM TypeCorrect == Spec => []TypeOK
BY TypeInvariant, PTL

\* IInv is inductive, which needs every request to be checked.
LEMMA Inductive == Checked => (Spec => []IInv)
<1> SUFFICES ASSUME Checked PROVE Spec => []IInv
  OBVIOUS
<1>1. IInv /\ [Next]_vars => IInv'
  BY StepType, StepLock, StepCall, StepRoom, StepLimits DEF IInv
<1> QED  BY <1>1, InitInv, PTL DEF Spec

\* The machine-wide limit of Spawn: at every moment the admitted workers that
\* have not reported number at most machine_max_concurrency.
THEOREM MachineLimitHolds == Checked => (Spec => []MachineLimit)
<1>1. IInv => MachineLimit
  BY DEF IInv, Limits
<1> QED  BY <1>1, Inductive, PTL

\* The per-session limit of Spawn, for every session.
THEOREM SessionLimitHolds == Checked => (Spec => []SessionLimit)
<1>1. IInv => SessionLimit
  BY DEF IInv, Limits
<1> QED  BY <1>1, Inductive, PTL

\* The per-backend limit of Spawn, for rotation, preference, fallback and
\* pinned requests alike.
THEOREM BackendLimitHolds == Checked => (Spec => []BackendLimit)
<1>1. IInv => BackendLimit
  BY DEF IInv, Limits
<1> QED  BY <1>1, Inductive, PTL

-----------------------------------------------------------------------------
(* The rotation.                                                           *)

\* The configuration names qwen at most once; nothing in config.go checks it,
\* and an order with qwen twice in a row falls back past both.
QwenOnce == \A i, k \in DOMAIN Order : Order[i] = "qwen" /\ Order[k] = "qwen" => i = k

HasQwenOnce(order) ==
    \A i, k \in 1 .. Len(order) : order[i] = "qwen" /\ order[k] = "qwen" => i = k

\* What an automatic call chooses from is what was authenticated, or that
\* without a qwen that was not healthy.
RingInv == \A p \in Proc :
    /\ pc[p] \in {"select", "probe", "choose"} => HasQwenOnce(ring[p])
    /\ pc[p] \in {"select", "probe"} => ready[p] = ring[p]
    /\ pc[p] = "choose" => \/ ready[p] = ring[p]
                           \/ ready[p] = Keep(ring[p], Backend \ {"qwen"})

LEMMA FilteredOnce == QwenOnce => \A able : HasQwenOnce(Keep(Order, able))
<1> SUFFICES ASSUME QwenOnce, NEW able PROVE HasQwenOnce(Keep(Order, able))
  OBVIOUS
<1>1. Order \in Seq(Backend) /\ DOMAIN Order = 1 .. Len(Order)
  BY ConfigAssumption
<1>2. \A i, k \in 1 .. Len(Order) : Order[i] = "qwen" /\ Order[k] = "qwen" => i = k
  BY <1>1 DEF QwenOnce
<1> QED  BY <1>1, <1>2, KeepOnce DEF HasQwenOnce

LEMMA StepRing == QwenOnce => (TypeOK /\ RingInv /\ [Next]_vars => RingInv')
<1> SUFFICES ASSUME QwenOnce, TypeOK, RingInv, [Next]_vars PROVE RingInv'
  OBVIOUS
<1> USE DEF TypeOK, RingInv, Goto, callVars
<1>1. ASSUME NEW p \in Proc, Call(p) PROVE RingInv'
  BY <1>1 DEF Call
<1>2. ASSUME NEW p \in Proc, Lock(p) PROVE RingInv'
  BY <1>2 DEF Lock
<1>3. ASSUME NEW p \in Proc, FilterReady(p) PROVE RingInv'
  <2>1. PICK able \in ReadySets :
          /\ ring' = [ring EXCEPT ![p] = Keep(Order, able)]
          /\ ready' = [ready EXCEPT ![p] = Keep(Order, able)]
          /\ Goto(p, IF Keep(Order, able) = <<>> THEN "failed" ELSE "select")
    BY <1>3 DEF FilterReady
  <2>2. HasQwenOnce(Keep(Order, able))
    BY FilteredOnce
  <2> QED  BY <1>3, <2>1, <2>2 DEF FilterReady
<1>4. ASSUME NEW p \in Proc, SelectFirst(p) PROVE RingInv'
  BY <1>4 DEF SelectFirst
<1>5. ASSUME NEW p \in Proc, Probe(p) PROVE RingInv'
  <2> DEFINE rest == Keep(ready[p], Backend \ {"qwen"})
  <2>1. rest = Keep(ring[p], Backend \ {"qwen"})
    BY <1>5 DEF Probe
  <2> HIDE DEF rest
  <2>2. \/ Goto(p, "choose") /\ UNCHANGED ready
        \/ /\ ready' = [ready EXCEPT ![p] = rest]
           /\ Goto(p, IF rest = <<>> THEN "failed" ELSE "choose")
    BY <1>5 DEF Probe, rest
  <2>3. ASSUME NEW q \in Proc, q # p
        PROVE  pc'[q] = pc[q] /\ ring'[q] = ring[q] /\ ready'[q] = ready[q]
    BY <1>5, <2>2, <2>3 DEF Probe
  <2>4. /\ HasQwenOnce(ring'[p]) /\ pc'[p] \in {"failed", "choose"}
        /\ ready'[p] = ring'[p] \/ ready'[p] = Keep(ring'[p], Backend \ {"qwen"})
    BY <1>5, <2>1, <2>2 DEF Probe
  <2> HIDE DEF TypeOK
  <2>5. ASSUME NEW q \in Proc
        PROVE  /\ pc'[q] \in {"select", "probe", "choose"} => HasQwenOnce(ring'[q])
               /\ pc'[q] \in {"select", "probe"} => ready'[q] = ring'[q]
               /\ pc'[q] = "choose" => \/ ready'[q] = ring'[q]
                                       \/ ready'[q] = Keep(ring'[q], Backend \ {"qwen"})
    BY <2>3, <2>4
  <2> QED  BY <2>5
<1>6. ASSUME NEW p \in Proc, Choose(p) PROVE RingInv'
  BY <1>6 DEF Choose
<1>7. ASSUME NEW p \in Proc, Validate(p) \/ StartWorker(p) PROVE RingInv'
  BY <1>7 DEF Validate, StartWorker
<1>8. ASSUME NEW p \in Proc,
             FailBeforeStart(p) \/ SaveDescriptor(p) \/ SaveFails(p) \/ Rollback(p)
      PROVE  RingInv'
  BY <1>8 DEF FailBeforeStart, SaveDescriptor, SaveFails, Rollback
<1>9. ASSUME NEW p \in Proc, Unlock(p) \/ Crash(p) PROVE RingInv'
  BY <1>9 DEF Unlock, Crash, Forget
<1>10. ASSUME NEW j \in Job, WorkerReports(j) \/ WorkerExits(j) \/ RemoveDescriptor(j)
       PROVE  RingInv'
  BY <1>10 DEF WorkerReports, WorkerExits, RemoveDescriptor
<1>11. CASE UNCHANGED vars
  BY <1>11 DEF vars
<1> QED
  BY <1>1, <1>2, <1>3, <1>4, <1>5, <1>6, <1>7, <1>8, <1>9, <1>10, <1>11
     DEF Next, Spawning

LEMMA StartIsIndex ==
    ASSUME TypeOK, NEW order \in Seq(Backend), order # <<>>
    PROVE  Start(order) \in Nat
<1>1. Len(order) \in Nat \ {0}
  OBVIOUS
<1>2. turn \in Nat => turn % Len(order) \in 0 .. Len(order) - 1
  BY <1>1, SmallMod
<1> QED  BY <1>1, <1>2 DEF TypeOK, Start

\* Only the second call of selectBackend leaves the place before it for a pick.
LEMMA MovesToPicked ==
    ASSUME TypeOK, Next, NEW p \in Proc, pc[p] = "choose", pc'[p] = "picked"
    PROVE  Choose(p)
<1> USE DEF TypeOK, Goto, callVars
<1>1. ASSUME NEW q \in Proc, Call(q) \/ Lock(q) PROVE FALSE
  BY <1>1 DEF Call, Lock
<1>2. ASSUME NEW q \in Proc, FilterReady(q) PROVE FALSE
  BY <1>2 DEF FilterReady
<1>3. ASSUME NEW q \in Proc, SelectFirst(q) PROVE FALSE
  BY <1>3 DEF SelectFirst
<1>4. ASSUME NEW q \in Proc, Probe(q) PROVE FALSE
  <2>1. pc[q] = "probe"
    BY <1>4 DEF Probe
  <2>2. pc'[p] = pc[p]
    <3>1. \E l : Goto(q, l)
      BY <1>4 DEF Probe
    <3> QED  BY <2>1, <3>1
  <2> QED  BY <2>2
<1>5. ASSUME NEW q \in Proc, Choose(q) PROVE Choose(p)
  <2>1. pc'[p] = pc[p] \/ q = p
    <3>1. \E l : Goto(q, l)
      BY <1>5 DEF Choose
    <3> QED  BY <3>1
  <2> QED  BY <1>5, <2>1
<1>6. ASSUME NEW q \in Proc, Validate(q) \/ StartWorker(q) PROVE FALSE
  BY <1>6 DEF Validate, StartWorker
<1>7. ASSUME NEW q \in Proc,
             FailBeforeStart(q) \/ SaveDescriptor(q) \/ SaveFails(q) \/ Rollback(q)
      PROVE  FALSE
  BY <1>7 DEF FailBeforeStart, SaveDescriptor, SaveFails, Rollback
<1>8. ASSUME NEW q \in Proc, Unlock(q) \/ Crash(q) PROVE FALSE
  BY <1>8 DEF Unlock, Crash
<1>9. ASSUME NEW j \in Job, WorkerReports(j) \/ WorkerExits(j) \/ RemoveDescriptor(j)
      PROVE  FALSE
  BY <1>9 DEF WorkerReports, WorkerExits, RemoveDescriptor
<1> QED
  BY <1>1, <1>2, <1>3, <1>4, <1>5, <1>6, <1>7, <1>8, <1>9 DEF Next, Spawning

\* With room everywhere and no preference, selectBackend returns the element
\* its index stands for.
LEMMA TurnIsTaken ==
    ASSUME TypeOK, NEW order \in Seq(Backend), order # <<>>, NEW s,
           \A b \in Backend : ~Full(b),
           SelectBackend(order, <<>>, s) # NoBackend
    PROVE  SelectBackend(order, <<>>, s) = At(order, Start(order))
<1>1. HasRoom = Backend
  BY DEF HasRoom
<1>2. FirstOf(<<>>, order, HasRoom, NoBackend) = NoBackend
  <2>1. DOMAIN <<>> = {}
    OBVIOUS
  <2> QED  BY <2>1 DEF FirstOf
<1>3. ~LimitReached(s)
  BY DEF SelectBackend
<1>4. SelectBackend(order, <<>>, s) = NextOf(order, Start(order), Backend, NoBackend)
  BY <1>1, <1>2, <1>3 DEF SelectBackend
<1>5. Start(order) \in Nat
  BY StartIsIndex
<1> QED  BY <1>4, <1>5, NextOfAtOnce

\* When it is the turn of a qwen that is passed over, the backend after it is
\* chosen, if the index was a place of the order.
LEMMA TurnPassesOn ==
    ASSUME TypeOK, NEW order \in Seq(Backend), HasQwenOnce(order), order # <<>>,
           Keep(order, Backend \ {"qwen"}) # <<>>,
           At(order, Start(order)) = "qwen", IndexFits(order)
    PROVE  LET rest == Keep(order, Backend \ {"qwen"})
           IN  At(rest, Start(rest)) = At(order, Start(order) + 1)
<1> DEFINE rest == Keep(order, Backend \ {"qwen"})
           t == IF turn = NoFile THEN 0 ELSE turn
<1>1. t \in Nat /\ (turn # NoFile => turn \in Nat)
  BY ConfigAssumption DEF TypeOK
<1>2. Len(order) \in Nat \ {0} /\ rest \in Seq(Backend) /\ Len(rest) \in Nat \ {0}
      /\ Len(rest) <= Len(order)
  <2>1. rest \in Seq(Backend) /\ Len(rest) <= Len(order)
    BY KeepType
  <2> HIDE DEF rest
  <2> QED  BY <2>1 DEF rest
<1>3. \A o \in Seq(Backend) : Len(o) \in Nat \ {0} => Start(o) = t % Len(o)
  <2> SUFFICES ASSUME NEW o \in Seq(Backend), Len(o) \in Nat \ {0}
               PROVE  Start(o) = t % Len(o)
    OBVIOUS
  <2>1. 0 < Len(o)
    OBVIOUS
  <2>2. 0 % Len(o) = 0
    BY <2>1, SmallMod
  <2> QED  BY <2>2 DEF Start
<1>4. At(order, t % Len(order)) = "qwen"
  BY <1>2, <1>3
<1>5. Len(order) >= 2
  <2> SUFFICES ASSUME Len(order) = 1 PROVE FALSE
    BY <1>2
  <2>1. 1 \in DOMAIN rest /\ rest[1] \in Backend \ {"qwen"}
    <3>1. rest \in Seq(Backend \ {"qwen"})
      BY KeepType
    <3> HIDE DEF rest
    <3> QED  BY <1>2, <3>1
  <2> DEFINE K == Places(order, Backend \ {"qwen"})
  <2>2. K = {}
    <3>1. order[1] = "qwen"
      <4>1. t % Len(order) \in 0 .. Len(order) - 1
        BY <1>1, <1>2, SmallMod
      <4>2. t % Len(order) = 0
        <5> HIDE DEF t
        <5> QED  BY <1>1, <4>1
      <4>3. 0 % Len(order) = 0
        BY SmallMod, 0 < Len(order), Len(order) \in Nat \ {0}
      <4>4. At(order, 0) = order[1]
        BY <4>3 DEF At
      <4> HIDE DEF t
      <4> QED  BY <1>4, <4>2, <4>4
    <3>2. DOMAIN order = 1 .. 1
      OBVIOUS
    <3> QED  BY <3>1, <3>2 DEF Places
  <2>3. Cardinality(K) = 0
    BY <2>2, FS_EmptySet
  <2> HIDE DEF K
  <2>4. DOMAIN rest = 1 .. 0
    BY <2>3 DEF Keep, K
  <2> QED  BY <2>1, <2>4
<1>6. t < Len(order) \/ Len(order) = 2
  <2>1. CASE turn = NoFile
    BY <1>2, <2>1
  <2>2. CASE turn # NoFile
    <3>1. turn < Len(order) \/ Len(order) <= 2
      BY <2>2 DEF IndexFits
    <3>2. t = turn
      BY <2>2
    <3>3. t \in Nat /\ turn \in Nat
      BY <1>1, <2>2
    <3> HIDE DEF t, rest
    <3>4. Len(order) \in Nat
      BY <1>2
    <3>5. CASE turn < Len(order)
      BY <3>2, <3>5
    <3>6. CASE Len(order) <= 2
      <4>1. \A n \in Nat : n >= 2 /\ n <= 2 => n = 2
        OBVIOUS
      <4> QED  BY <1>5, <3>4, <3>6, <4>1
    <3> QED  BY <3>1, <3>5, <3>6
  <2> QED  BY <2>1, <2>2
<1>7. \A i, k \in 1 .. Len(order) : order[i] = "qwen" /\ order[k] = "qwen" => i = k
  BY DEF HasQwenOnce
<1>8. At(rest, t % Len(rest)) = At(order, (t % Len(order)) + 1)
  <2> DEFINE due == At(order, t % Len(order))
  <2>1. due = "qwen" /\ rest = Keep(order, Backend \ {due})
    BY <1>4
  <2>2. \A i, k \in 1 .. Len(order) : order[i] = due /\ order[k] = due => i = k
    BY <1>4, <1>7
  <2>3. LET left == Keep(order, Backend \ {due})
        IN  At(left, t % Len(left)) = At(order, (t % Len(order)) + 1)
    <3> HIDE DEF t, rest
    <3> QED  BY <1>1, <1>5, <1>6, <2>2, DroppedPassesOn
  <2> HIDE DEF t, rest, due
  <2> QED  BY <2>1, <2>3
<1>9. Start(rest) = t % Len(rest) /\ Start(order) = t % Len(order)
  <2> HIDE DEF t, rest
  <2> QED  BY <1>2, <1>3
<1> HIDE DEF t, rest
<1> QED  BY <1>8, <1>9 DEF rest

\* While no backend is full, an automatic call without a preference takes the
\* backend whose turn it is among the authenticated ones.  Only when a qwen
\* that is not healthy has left the order it takes another, which is not qwen,
\* and the one after qwen when it was qwen's turn by an index that fits: for
\* every order that names qwen at most once, every history of failed and
\* crashed calls, and every change of what is authenticated (jobs.go:964-986).
THEOREM TurnsAreHonoured == QwenOnce => (Spec => RotationHonoured)
<1> SUFFICES ASSUME QwenOnce PROVE Spec => RotationHonoured
  OBVIOUS
<1> DEFINE due(p, k) == At(ring[p], Start(ring[p]) + k)
           Case(p) == /\ pc[p] = "choose" /\ pc'[p] = "picked"
                      /\ req[p].preferred = <<>>
                      /\ \A b \in Backend : ~Full(b)
           Honoured == \A p \in Proc : Case(p) =>
              IF FellBack(p)
              THEN /\ pick'[p] # "qwen"
                   /\ due(p, 0) = "qwen" /\ IndexFits(ring[p]) => pick'[p] = due(p, 1)
              ELSE pick'[p] = due(p, 0)
<1>1. Init => RingInv
  BY DEF Init, RingInv
<1>2. TypeOK /\ CallInv /\ RingInv /\ [Next]_vars => RingInv'
  BY StepRing
<1>3. TypeOK /\ CallInv /\ RingInv /\ [Next]_vars => [Honoured]_vars
  <2> SUFFICES ASSUME TypeOK, CallInv, RingInv, Next, NEW p \in Proc, Case(p)
               PROVE  IF FellBack(p)
                      THEN /\ pick'[p] # "qwen"
                           /\ due(p, 0) = "qwen" /\ IndexFits(ring[p]) => pick'[p] = due(p, 1)
                      ELSE pick'[p] = due(p, 0)
    OBVIOUS
  <2>1. Choose(p)
    BY MovesToPicked
  <2> DEFINE b == SelectBackend(ready[p], <<>>, req[p].session)
  <2>2. b # NoBackend /\ pick'[p] = b
    <3>1. req[p].preferred = <<>> /\ pc'[p] = "picked"
      OBVIOUS
    <3> HIDE DEF b, Case
    <3>2. \/ b = NoBackend /\ Goto(p, "failed")
          \/ b # NoBackend /\ pick' = [pick EXCEPT ![p] = b]
      BY <2>1, <3>1 DEF Choose, b
    <3> QED  BY <3>1, <3>2 DEF Goto, TypeOK
  <2>3. ready[p] \in Seq(Backend) /\ ready[p] # <<>> /\ ring[p] \in Seq(Backend)
    BY DEF TypeOK, CallInv
  <2>4. b = At(ready[p], Start(ready[p]))
    BY <2>2, <2>3, TurnIsTaken
  <2> HIDE DEF b
  <2>5. ring[p] # <<>> /\ Start(ring[p]) + 0 = Start(ring[p])
    <3>1. ASSUME ring[p] = <<>> PROVE FALSE
      <4>1. Len(Keep(ring[p], Backend \ {"qwen"})) <= Len(ring[p])
        BY <2>3, KeepType
      <4>2. ready[p] = ring[p] \/ ready[p] = Keep(ring[p], Backend \ {"qwen"})
        BY DEF RingInv
      <4>3. Len(ready[p]) \in Nat /\ Len(ready[p]) <= 0
        BY <2>3, <3>1, <4>1, <4>2
      <4> QED  BY <2>3, <4>3
    <3>2. Start(ring[p]) \in Nat
      BY <2>3, <3>1, StartIsIndex
    <3> QED  BY <3>1, <3>2
  <2>6. ASSUME ~FellBack(p) PROVE pick'[p] = due(p, 0)
    BY <2>2, <2>4, <2>5, <2>6 DEF FellBack
  <2>7. ASSUME FellBack(p)
        PROVE  /\ pick'[p] # "qwen"
               /\ due(p, 0) = "qwen" /\ IndexFits(ring[p]) => pick'[p] = due(p, 1)
    <3>1. HasQwenOnce(ring[p]) /\ ready[p] = Keep(ring[p], Backend \ {"qwen"})
      BY <2>7 DEF RingInv, FellBack
    <3>2. pick'[p] # "qwen"
      <4>1. ready[p] \in Seq(Backend \ {"qwen"})
        BY <2>3, <3>1, KeepType
      <4>2. Start(ready[p]) \in Nat /\ Len(ready[p]) \in Nat \ {0}
        BY <2>3, StartIsIndex
      <4>3. Start(ready[p]) % Len(ready[p]) \in 0 .. Len(ready[p]) - 1
        BY <4>2, SmallMod
      <4>4. At(ready[p], Start(ready[p])) \in Backend \ {"qwen"}
        BY <4>1, <4>2, <4>3 DEF At
      <4> QED  BY <2>2, <2>4, <4>4
    <3>3. ASSUME due(p, 0) = "qwen", IndexFits(ring[p]) PROVE pick'[p] = due(p, 1)
      <4>1. At(ring[p], Start(ring[p])) = "qwen"
        BY <2>5, <3>3
      <4>2. At(ready[p], Start(ready[p])) = At(ring[p], Start(ring[p]) + 1)
        BY <2>3, <2>5, <3>1, <3>3, <4>1, TurnPassesOn
      <4> QED  BY <2>2, <2>4, <4>2
    <3> QED  BY <3>2, <3>3
  <2> QED  BY <2>6, <2>7
<1> HIDE DEF Honoured
<1>4. Spec => [][Honoured]_vars
  BY <1>1, <1>2, <1>3, TypeInvariant, PTL DEF Spec
<1> QED  BY <1>4 DEF RotationHonoured, Honoured
=============================================================================
