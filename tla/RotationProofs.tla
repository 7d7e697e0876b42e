--------------------------- MODULE RotationProofs ---------------------------
(***************************************************************************)
(* What the operators of Rotation return, for every order.                 *)
(***************************************************************************)
EXTENDS Rotation, FiniteSetTheorems, WellFoundedInduction, TLAPS

\* A nonempty set of naturals has a least element, and Min is it.
LEMMA MinIsLeast ==
    ASSUME NEW S \in SUBSET Nat, S # {}
    PROVE  Min(S) \in S /\ \A y \in S : Min(S) <= y
<1>1. IsWellFoundedOn(OpToRel(<, Nat), Nat)
  BY NatLessThanWellFounded
<1>2. PICK x \in S : \A y \in S : ~ (<<y, x>> \in OpToRel(<, Nat))
  BY <1>1, WFMin
<1>3. \A y \in S : x <= y
  <2> SUFFICES ASSUME NEW y \in S, y < x PROVE FALSE
    OBVIOUS
  <2>1. <<y, x>> \in Nat \X Nat
    OBVIOUS
  <2>2. <<y, x>>[1] < <<y, x>>[2]
    OBVIOUS
  <2>3. <<y, x>> \in OpToRel(<, Nat)
    BY <2>1, <2>2 DEF OpToRel
  <2> QED  BY <2>3, <1>2
<1> QED  BY <1>3 DEF Min

\* The places of a subset of the backends are finitely many.
LEMMA PlacesFinite ==
    ASSUME NEW B, NEW order \in Seq(B), NEW S
    PROVE  /\ Places(order, S) \in SUBSET (1 .. Len(order))
           /\ IsFiniteSet(Places(order, S))
           /\ Cardinality(Places(order, S)) \in Nat
           /\ Cardinality(Places(order, S)) <= Len(order)
<1>1. Places(order, S) \in SUBSET (1 .. Len(order))
  BY DEF Places
<1>2. IsFiniteSet(1 .. Len(order)) /\ Cardinality(1 .. Len(order)) = Len(order)
  <2>1. Len(order) \in Nat /\ 1 \in Int /\ Len(order) \in Int
    OBVIOUS
  <2>2. Cardinality(1 .. Len(order)) = IF 1 > Len(order) THEN 0 ELSE Len(order) - 1 + 1
    BY <2>1, FS_Interval
  <2> QED  BY <2>1, <2>2, FS_Interval
<1> QED  BY <1>1, <1>2, FS_Subset, FS_CardinalityType

\* A finite set of naturals has a k-th element for every k up to its size.
LEMMA PlaceExists ==
    ASSUME NEW K \in SUBSET Nat, IsFiniteSet(K), NEW i \in 1 .. Cardinality(K)
    PROVE  /\ Place(K, i) \in K
           /\ Cardinality({m \in K : m < Place(K, i)}) = i - 1
<1> DEFINE Below(k) == {m \in K : m < k}
           Missing == {n \in Nat : /\ n \in 1 .. Cardinality(K)
                                   /\ \A k \in K : Cardinality(Below(k)) # n - 1}
<1>1. Cardinality(K) \in Nat
  BY FS_CardinalityType
<1>2. \A k \in K : IsFiniteSet(Below(k)) /\ Cardinality(Below(k)) \in Nat
  BY FS_Subset, FS_CardinalityType
<1>3. Missing = {}
  <2> SUFFICES ASSUME Missing # {} PROVE FALSE
    OBVIOUS
  <2> DEFINE n == Min(Missing)
  <2>1. n \in Missing /\ \A y \in Missing : n <= y
    BY MinIsLeast
  <2> HIDE DEF n
  <2>2. K # {}
    BY <2>1, <1>1, FS_EmptySet
  <2>3. n # 1
    <3>1. PICK least \in K : \A y \in K : least <= y
      BY <2>2, MinIsLeast
    <3>2. Below(least) = {}
      <4> SUFFICES ASSUME NEW m \in K, m < least PROVE FALSE
        OBVIOUS
      <4>1. m \in Nat /\ least \in Nat /\ least <= m
        BY <3>1
      <4> QED  BY <4>1
    <3>3. Cardinality(Below(least)) = 0
      BY <3>2, FS_EmptySet
    <3>4. \A k \in K : Cardinality(Below(k)) # n - 1
      BY <2>1
    <3>5. Cardinality(Below(least)) # n - 1
      BY <3>1, <3>4
    <3> QED  BY <3>3, <3>5
  <2>4. n - 1 \in 1 .. Cardinality(K) /\ n - 1 \notin Missing
    BY <2>1, <2>3, <1>1
  <2>5. PICK k \in K : Cardinality(Below(k)) = (n - 1) - 1
    <3>1. n - 1 \in Nat /\ n - 1 \in 1 .. Cardinality(K)
      BY <2>4, <1>1
    <3> QED  BY <3>1, <2>4
  <2> DEFINE Above == {m \in K : m > k}
  <2>6. Above # {}
    <3> SUFFICES ASSUME Above = {} PROVE FALSE
      OBVIOUS
    <3>1. K = Below(k) \cup {k}
      <4> SUFFICES ASSUME NEW m \in K PROVE m \in Below(k) \cup {k}
        OBVIOUS
      <4>1. m \in Nat /\ k \in Nat /\ ~(m > k)
        OBVIOUS
      <4> QED  BY <4>1
    <3>2. Cardinality(K) = n - 1
      BY <3>1, <2>5, <1>2, <2>4, <1>1, FS_AddElement
    <3> QED  BY <3>2, <2>1
  <2>7. PICK m \in Above : \A y \in Above : m <= y
    BY <2>6, MinIsLeast
  <2>8. Below(m) = Below(k) \cup {k}
    <3>1. m \in K /\ m \in Nat /\ k \in Nat /\ m > k
      OBVIOUS
    <3>2. \A x \in K : x \in Nat /\ (x > k => m <= x)
      BY <2>7
    <3>3. ASSUME NEW x \in K PROVE x < m <=> x < k \/ x = k
      BY <3>1, <3>2
    <3> QED  BY <3>3
  <2>9. Cardinality(Below(m)) = n - 1
    <3>1. k \notin Below(k)
      OBVIOUS
    <3>2. Cardinality(Below(k) \cup {k}) = Cardinality(Below(k)) + 1
      BY <3>1, <1>2, FS_AddElement
    <3> QED  BY <3>2, <2>5, <2>8, <2>4
  <2> QED  BY <2>9, <2>7, <2>1
<1>4. \E k \in K : Cardinality(Below(k)) = i - 1
  <2>1. i \in Nat /\ i \in 1 .. Cardinality(K)
    BY <1>1
  <2> QED  BY <2>1, <1>3
<1> QED  BY <1>4 DEF Place

\* Dropping backends from an order leaves a sequence of the ones that stay.
LEMMA KeepType ==
    ASSUME NEW B, NEW order \in Seq(B), NEW S
    PROVE  /\ Keep(order, S) \in Seq(B)
           /\ Keep(order, S) \in Seq(S)
           /\ Len(Keep(order, S)) <= Len(order)
<1> DEFINE K == Places(order, S)
           n == Cardinality(K)
<1>1. K \in SUBSET Nat /\ IsFiniteSet(K) /\ n \in Nat /\ n <= Len(order)
  BY PlacesFinite
<1>2. \A i \in 1 .. n : Place(K, i) \in K
  BY <1>1, PlaceExists
<1>3. \A k \in K : order[k] \in B /\ order[k] \in S
  BY DEF Places
<1>4. Keep(order, S) = [i \in 1 .. n |-> order[Place(K, i)]]
  BY DEF Keep
<1>5. \A i \in 1 .. n : order[Place(K, i)] \in B /\ order[Place(K, i)] \in S
  BY <1>2, <1>3
<1> HIDE DEF K, n
<1> DEFINE f == [i \in 1 .. n |-> order[Place(K, i)]]
<1>6. f \in Seq(B)
  BY <1>1, <1>5
<1>7. f \in Seq(S)
  BY <1>1, <1>5
<1>8. Len(f) = n
  BY <1>1
<1> QED  BY <1>1, <1>4, <1>6, <1>7, <1>8

\* Going round an order returns an element of it that is in the open set, and
\* gives up only when no element is.
LEMMA NextOfSound ==
    ASSUME NEW B, NEW order \in Seq(B), order # <<>>, NEW index \in Nat,
           NEW open, NEW none, NextOf(order, index, open, none) # none
    PROVE  /\ NextOf(order, index, open, none) \in open
           /\ NextOf(order, index, open, none) \in B
           /\ Contains(order, NextOf(order, index, open, none))
<1> DEFINE near == Distances(order, index, open)
<1>1. Len(order) \in Nat /\ Len(order) > 0
  OBVIOUS
<1>2. near \in SUBSET Nat
  BY <1>1 DEF Distances
<1>3. near # {} /\ NextOf(order, index, open, none) = At(order, index + Min(near))
  BY DEF NextOf
<1>4. Min(near) \in near
  BY <1>2, <1>3, MinIsLeast
<1>5. At(order, index + Min(near)) \in open
  BY <1>4 DEF Distances
<1>6. ((index + Min(near)) % Len(order)) + 1 \in 1 .. Len(order)
  <2> DEFINE t == index + Min(near)
  <2>1. t \in Nat
    BY <1>2, <1>4
  <2> HIDE DEF t
  <2>2. t % Len(order) \in 0 .. Len(order) - 1
    BY <2>1, <1>1
  <2> QED  BY <2>2, <1>1 DEF t
<1> QED  BY <1>3, <1>5, <1>6 DEF At, Contains

\* A preference is honoured only for a backend of the order in the open set.
LEMMA FirstOfSound ==
    ASSUME NEW B, NEW wanted \in Seq(B), NEW order, NEW open, NEW none,
           FirstOf(wanted, order, open, none) # none
    PROVE  /\ FirstOf(wanted, order, open, none) \in open
           /\ FirstOf(wanted, order, open, none) \in B
           /\ Contains(order, FirstOf(wanted, order, open, none))
<1> DEFINE hits == {k \in DOMAIN wanted : Contains(order, wanted[k]) /\ wanted[k] \in open}
<1>1. hits \in SUBSET Nat
  OBVIOUS
<1>2. hits # {} /\ FirstOf(wanted, order, open, none) = wanted[Min(hits)]
  BY DEF FirstOf
<1>3. Min(hits) \in hits
  BY <1>1, <1>2, MinIsLeast
<1> QED  BY <1>2, <1>3

\* The index after an element of an order is an index of that order.
LEMMA IndexAfterType ==
    ASSUME NEW B, NEW order \in Seq(B), NEW b, Contains(order, b)
    PROVE  IndexAfter(order, b) \in 0 .. Len(order) - 1
<1>1. Places(order, {b}) \in SUBSET Nat /\ Places(order, {b}) # {}
  BY DEF Places, Contains
<1>2. Min(Places(order, {b})) \in Nat
  BY <1>1, MinIsLeast
<1>3. Len(order) \in Nat /\ Len(order) > 0
  BY DEF Contains
<1> DEFINE m == Min(Places(order, {b}))
<1> HIDE DEF m
<1>4. m \in Nat => m % Len(order) \in 0 .. Len(order) - 1
  BY <1>3
<1> QED  BY <1>2, <1>4 DEF IndexAfter, m

\* What is listed once stays listed once.
LEMMA KeepOnce ==
    ASSUME NEW B, NEW order \in Seq(B), NEW S, NEW b,
           \A i, k \in 1 .. Len(order) : order[i] = b /\ order[k] = b => i = k
    PROVE  LET rest == Keep(order, S)
           IN  \A i, k \in 1 .. Len(rest) : rest[i] = b /\ rest[k] = b => i = k
<1> DEFINE K == Places(order, S)
           rest == Keep(order, S)
<1>1. K \in SUBSET (1 .. Len(order)) /\ K \in SUBSET Nat /\ IsFiniteSet(K) /\ Cardinality(K) \in Nat
  BY PlacesFinite
<1>2. Len(rest) = Cardinality(K) /\ \A i \in 1 .. Cardinality(K) : rest[i] = order[Place(K, i)]
  BY <1>1 DEF Keep
<1>3. \A i \in 1 .. Cardinality(K) : /\ Place(K, i) \in K
                                     /\ Cardinality({m \in K : m < Place(K, i)}) = i - 1
  BY <1>1, PlaceExists
<1> HIDE DEF K, rest
<1>4. ASSUME NEW i \in 1 .. Len(rest), NEW k \in 1 .. Len(rest), rest[i] = b, rest[k] = b
      PROVE  i = k
  <2>1. i \in 1 .. Cardinality(K) /\ k \in 1 .. Cardinality(K)
    BY <1>2
  <2>2. order[Place(K, i)] = b /\ order[Place(K, k)] = b
    BY <1>2, <1>4, <2>1
  <2>3. Place(K, i) = Place(K, k)
    BY <1>1, <1>3, <2>1, <2>2
  <2>4. i - 1 = k - 1
    BY <1>3, <2>1, <2>3
  <2> QED  BY <2>4
<1> QED  BY <1>4 DEF rest

\* Dropping what is listed once moves what comes after it one place down.
LEMMA KeepWithout ==
    ASSUME NEW B, NEW order \in Seq(B), NEW q \in 1 .. Len(order),
           \A k \in 1 .. Len(order) : order[k] = order[q] => k = q
    PROVE  /\ Len(Keep(order, B \ {order[q]})) = Len(order) - 1
           /\ \A i \in 1 .. Len(order) - 1 :
                 Keep(order, B \ {order[q]})[i] = order[IF i < q THEN i ELSE i + 1]
<1> DEFINE b == order[q]
           K == Places(order, B \ {b})
           L == Len(order)
<1>0. L \in Nat /\ q \in Nat /\ DOMAIN order = 1 .. L /\ q <= L /\ 1 <= q
  OBVIOUS
<1>1. K = (1 .. L) \ {q}
  BY DEF Places
<1>2. \A n \in Nat : IsFiniteSet(1 .. n) /\ Cardinality(1 .. n) = n
  <2> TAKE n \in Nat
  <2>1. 1 \in Int /\ n \in Int
    OBVIOUS
  <2>2. IsFiniteSet(1 .. n) /\ Cardinality(1 .. n) = IF 1 > n THEN 0 ELSE n - 1 + 1
    BY <2>1, FS_Interval
  <2>3. (IF 1 > n THEN 0 ELSE n - 1 + 1) = n
    BY <2>1
  <2> QED  BY <2>2, <2>3
<1>3. \A n \in Nat : q <= n => IsFiniteSet((1 .. n) \ {q}) /\ Cardinality((1 .. n) \ {q}) = n - 1
  <2> TAKE n \in Nat
  <2> HAVE q <= n
  <2>1. q \in 1 .. n
    BY <1>0
  <2> QED  BY <1>2, <2>1, FS_RemoveElement
<1>4. IsFiniteSet(K) /\ Cardinality(K) = L - 1 /\ K \in SUBSET Nat
  <2> HIDE DEF K, L
  <2>1. IsFiniteSet((1 .. L) \ {q}) /\ Cardinality((1 .. L) \ {q}) = L - 1
    BY <1>0, <1>3
  <2>2. (1 .. L) \ {q} \in SUBSET Nat
    OBVIOUS
  <2> QED  BY <1>1, <2>1, <2>2
<1> DEFINE rest == [i \in 1 .. Cardinality(K) |-> order[Place(K, i)]]
<1>5. Keep(order, B \ {b}) = rest
  BY DEF Keep
<1> HIDE DEF K, L
<1>6. ASSUME NEW i \in 1 .. L - 1 PROVE Place(K, i) = IF i < q THEN i ELSE i + 1
  <2> DEFINE k == Place(K, i)
  <2>1. k \in K /\ Cardinality({m \in K : m < k}) = i - 1
    BY <1>4, <1>6, PlaceExists
  <2> HIDE DEF k
  <2>2. k \in Nat /\ 1 <= k /\ k <= L /\ k # q
    BY <1>0, <1>1, <2>1
  <2>3. CASE k < q
    <3>1. {m \in K : m < k} = 1 .. (k - 1)
      BY <1>0, <1>1, <2>2, <2>3
    <3>2. k - 1 \in Nat
      BY <2>2
    <3>3. i - 1 = k - 1
      BY <1>2, <2>1, <3>1, <3>2
    <3> QED  BY <2>2, <2>3, <3>3 DEF k
  <2>4. CASE q < k
    <3>1. {m \in K : m < k} = (1 .. (k - 1)) \ {q}
      BY <1>0, <1>1, <2>2, <2>4
    <3>2. k - 1 \in Nat /\ q <= k - 1
      BY <1>0, <2>2, <2>4
    <3>3. i - 1 = k - 1 - 1
      BY <1>3, <2>1, <3>1, <3>2
    <3> QED  BY <1>0, <2>2, <2>4, <3>3 DEF k
  <2> QED  BY <1>0, <2>2, <2>3, <2>4
<1>7. Len(rest) = L - 1 /\ \A i \in 1 .. L - 1 : rest[i] = order[Place(K, i)]
  <2>1. L - 1 \in Nat
    BY <1>0 DEF L
  <2> QED  BY <1>4, <2>1
<1> HIDE DEF rest
<1>8. \A i \in 1 .. L - 1 : rest[i] = order[IF i < q THEN i ELSE i + 1]
  BY <1>6, <1>7
<1> QED  BY <1>5, <1>7, <1>8 DEF L

\* When everything is open the search ends where it begins.
LEMMA NextOfAtOnce ==
    ASSUME NEW B, NEW order \in Seq(B), order # <<>>, NEW index \in Nat, NEW none
    PROVE  NextOf(order, index, B, none) = At(order, index)
<1> DEFINE near == Distances(order, index, B)
<1>1. Len(order) \in Nat /\ Len(order) > 0
  OBVIOUS
<1>2. index % Len(order) \in 0 .. Len(order) - 1
  BY <1>1
<1>3. At(order, index + 0) \in B /\ index + 0 = index
  BY <1>1, <1>2 DEF At
<1>4. near \in SUBSET Nat /\ 0 \in near
  BY <1>1, <1>3 DEF Distances
<1>5. Min(near) \in near /\ Min(near) <= 0
  BY <1>4, MinIsLeast
<1>6. Min(near) = 0
  BY <1>4, <1>5
<1> QED  BY <1>3, <1>4, <1>6 DEF NextOf

\* A remainder below the divisor is its own remainder.
LEMMA SmallMod ==
    ASSUME NEW L \in Nat \ {0}
    PROVE  /\ \A n \in Nat : n < L => n % L = n
           /\ \A n \in Nat : n % L \in 0 .. L - 1
           /\ L % L = 0
<1>1. \A n \in Nat : n < L => n % L = n
  OBVIOUS
<1>2. \A n \in Nat : n % L \in 0 .. L - 1
  OBVIOUS
<1>3. L % L = 0
  OBVIOUS
<1> QED  BY <1>1, <1>2, <1>3

\* When the element an index stands for is dropped, the index stands for the
\* one after it, provided it was a place of the order it is reduced modulo.
LEMMA DroppedPassesOn ==
    ASSUME NEW B, NEW order \in Seq(B), Len(order) >= 2,
           NEW t \in Nat, t < Len(order) \/ Len(order) = 2,
           \A i, k \in 1 .. Len(order) :
              /\ order[i] = At(order, t % Len(order))
              /\ order[k] = At(order, t % Len(order))
              => i = k
    PROVE  LET rest == Keep(order, B \ {At(order, t % Len(order))})
           IN  At(rest, t % Len(rest)) = At(order, (t % Len(order)) + 1)
<1> DEFINE L == Len(order)
           b == At(order, t % L)
           rest == Keep(order, B \ {b})
           q == (t % L) + 1
<1>1. L \in Nat \ {0} /\ L - 1 \in Nat \ {0} /\ L >= 2
  OBVIOUS
<1>2. t % L \in 0 .. L - 1 /\ (t % L) % L = t % L
  <2> HIDE DEF L
  <2>1. t % L \in 0 .. L - 1
    BY <1>1, SmallMod
  <2>2. t % L \in Nat /\ t % L < L
    BY <1>1, <2>1
  <2> QED  BY <1>1, <2>1, <2>2, SmallMod
<1>3. q \in 1 .. Len(order) /\ order[q] = b
  BY <1>1, <1>2 DEF At
<1>4. Len(rest) = L - 1
      /\ \A i \in 1 .. L - 1 : rest[i] = order[IF i < q THEN i ELSE i + 1]
  <2>1. \A k \in 1 .. Len(order) : order[k] = b => k = q
    BY <1>3
  <2>2. ASSUME NEW p \in 1 .. Len(order),
               \A k \in 1 .. Len(order) : order[k] = order[p] => k = p
        PROVE  /\ Len(Keep(order, B \ {order[p]})) = Len(order) - 1
               /\ \A i \in 1 .. Len(order) - 1 :
                     Keep(order, B \ {order[p]})[i] = order[IF i < p THEN i ELSE i + 1]
    BY <2>2, KeepWithout
  <2> HIDE DEF q
  <2>3. Keep(order, B \ {order[q]}) = rest
    BY <1>3
  <2>4. /\ Len(Keep(order, B \ {order[q]})) = Len(order) - 1
        /\ \A i \in 1 .. Len(order) - 1 :
              Keep(order, B \ {order[q]})[i] = order[IF i < q THEN i ELSE i + 1]
    BY <1>3, <2>1, <2>2
  <2> HIDE DEF rest
  <2> QED  BY <2>3, <2>4
<1> DEFINE s == t % (L - 1)
<1>5. At(rest, t % Len(rest)) = rest[(s % (L - 1)) + 1]
  BY <1>4 DEF At
<1>6. s \in 0 .. (L - 1) - 1 /\ s % (L - 1) = s
  <2> DEFINE M == L - 1
  <2>1. M \in Nat \ {0}
    BY <1>1
  <2> HIDE DEF M
  <2>2. t % M \in 0 .. M - 1
    BY <2>1, SmallMod
  <2>3. t % M \in Nat /\ t % M < M
    BY <2>1, <2>2
  <2>4. (t % M) % M = t % M
    BY <2>1, <2>3, SmallMod
  <2> QED  BY <2>2, <2>4 DEF M
<1>7. At(order, (t % L) + 1) = order[(((t % L) + 1) % L) + 1]
  BY DEF At
<1>8. s + 1 \in 1 .. L - 1
  <2> HIDE DEF s, L
  <2> QED  BY <1>1, <1>6
<1>9. rest[s + 1] = order[IF s + 1 < q THEN s + 1 ELSE s + 2]
  <2> HIDE DEF s, q, L, rest
  <2>1. rest[s + 1] = order[IF s + 1 < q THEN s + 1 ELSE s + 1 + 1]
    BY <1>4, <1>8
  <2>2. s + 1 + 1 = s + 2
    BY <1>1, <1>6
  <2> QED  BY <2>1, <2>2
<1>10. (IF s + 1 < q THEN s + 1 ELSE s + 2) = (((t % L) + 1) % L) + 1
  <2> HIDE DEF L
  <2>1. CASE t < L - 1
    <3>1. t % L = t /\ s = t
      <4>1. t < L
        BY <1>1, <2>1
      <4> QED  BY <1>1, <2>1, <4>1, SmallMod
    <3>2. t + 1 \in Nat /\ t + 1 < L
      BY <1>1, <2>1
    <3>3. (t + 1) % L = t + 1
      BY <1>1, <3>2, SmallMod
    <3> HIDE DEF s
    <3> QED  BY <3>1, <3>2, <3>3
  <2>2. CASE t = L - 1
    <3>1. t % L = t
      <4>1. t < L
        BY <1>1, <2>2
      <4> QED  BY <1>1, <4>1, SmallMod
    <3>2. s = 0
      BY <1>1, <2>2, SmallMod
    <3>3. t + 1 = L /\ L % L = 0
      BY <1>1, <2>2, SmallMod
    <3> HIDE DEF s
    <3> QED  BY <1>1, <2>2, <3>1, <3>2, <3>3
  <2>3. CASE L = 2
    <3>1. s = 0
      BY <1>6, <2>3
    <3> HIDE DEF s
    <3>2. t % L = 0 \/ t % L = 1
      BY <1>2, <2>3
    <3>3. 1 % L = 1 /\ 2 % L = 0
      BY <2>3
    <3>4. CASE t % L = 0
      BY <2>3, <3>1, <3>3, <3>4
    <3>5. CASE t % L = 1
      BY <2>3, <3>1, <3>3, <3>5
    <3> QED  BY <3>2, <3>4, <3>5
  <2> QED  BY <1>1, <2>1, <2>2, <2>3 DEF L
<1> HIDE DEF s, L, rest, q
<1> QED  BY <1>5, <1>6, <1>7, <1>9, <1>10 DEF rest, L
=============================================================================
