------------------------------ MODULE Rotation ------------------------------
(***************************************************************************)
(* Operations on scheduler.order used by internal/jobs.Spawn: dropping     *)
(* backends from it, going round it from an index, and the index after a   *)
(* backend.  Indices count from zero, as in round-robin.json.              *)
(***************************************************************************)
EXTENDS Integers, Sequences, FiniteSets, SequencesExt, FiniteSetsExt

Places(order, S) == {k \in DOMAIN order : order[k] \in S}

\* The k-th place of a set of places, in increasing order.
Place(K, i) == CHOOSE k \in K : Cardinality({m \in K : m < k}) = i - 1

\* The elements of order that are in S, in their order.
Keep(order, S) == [i \in 1 .. Cardinality(Places(order, S)) |->
                     order[Place(Places(order, S), i)]]

\* The element at an index, taken round.
At(order, index) == order[(index % Len(order)) + 1]

\* How far from the index the elements of open are.
Distances(order, index, open) ==
    {k \in 0 .. Len(order) - 1 : At(order, index + k) \in open}

\* Mutant: always from the front of the order.
NextFromFront(order, index, open, none) ==
    LET near == Distances(order, 0, open)
    IN  IF near = {} THEN none ELSE At(order, Min(near))

\* The first element of open met going round the order from the index.
NextOf(order, index, open, none) ==
    LET near == Distances(order, index, open)
    IN  IF near = {} THEN none ELSE At(order, index + Min(near))

\* The first element of wanted that is in the order and in open.
FirstOf(wanted, order, open, none) ==
    LET hits == {k \in DOMAIN wanted : Contains(order, wanted[k]) /\ wanted[k] \in open}
    IN  IF hits = {} THEN none ELSE wanted[Min(hits)]

\* The index that comes after an element of the order.
IndexAfter(order, b) == Min(Places(order, {b})) % Len(order)
=============================================================================
