------------------------------ MODULE Admission ------------------------------
(***************************************************************************)
(* What Spawn promises to all callers together: admission is one atomic    *)
(* step that respects the three limits and moves the rotation, and a call  *)
(* that fails is invisible.                                                *)
(***************************************************************************)
EXTENDS Integers, Sequences, FiniteSets, Rotation

CONSTANTS Job, Backend, Session, Order, ReadySets, Room, MachineMax, SessionMax, NoFile

VARIABLES
    listed,  \* admitted jobs: records [id, backend, session, working]
    next     \* index of the rotation, or NoFile before the first automatic job

avars == <<listed, next>>

Working == {a \in listed : a.working}
On(b) == {a \in Working : a.backend = b}
In(s) == {a \in Working : a.session = s}

AInit == listed = {} /\ next = NoFile

\* A pinned job leaves the rotation alone; an automatic one moves it to the
\* place after the chosen backend, counted among the backends that were
\* authenticated.  A short job may be over by the time it is listed.
Admit(j, b, s, auto) ==
    /\ \A a \in listed : a.id # j
    /\ Cardinality(Working) < MachineMax
    /\ Cardinality(In(s)) < SessionMax
    /\ Cardinality(On(b)) < Room[b]
    /\ \E w \in BOOLEAN :
         listed' = listed \cup {[id |-> j, backend |-> b, session |-> s, working |-> w]}
    /\ IF auto
       THEN \E able \in ReadySets :
              /\ Contains(Keep(Order, able), b)
              /\ next' = IndexAfter(Keep(Order, able), b)
       ELSE next' = next

\* The worker is done ...
End(j) == /\ \E a \in Working : a.id = j
          /\ listed' = {[a EXCEPT !.working = a.working /\ a.id # j] : a \in listed}
          /\ UNCHANGED next

\* ... and the job retired.
Retire(j) == /\ \E a \in listed \ Working : a.id = j
             /\ listed' = {a \in listed : a.id # j}
             /\ UNCHANGED next

ANext == \E j \in Job :
            \/ End(j) \/ Retire(j)
            \/ \E b \in Backend, s \in Session, auto \in BOOLEAN : Admit(j, b, s, auto)

ASpec == AInit /\ [][ANext]_avars
=============================================================================
