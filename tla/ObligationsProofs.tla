------------------------- MODULE ObligationsProofs --------------------------
(***************************************************************************)
(* Lemmas about the operators of Obligations, for any ledger.              *)
(***************************************************************************)
EXTENDS Obligations, WellFoundedInduction, TLAPS

\* Every non-empty set of natural numbers has a least element.
LEMMA LeastNat ==
  ASSUME NEW S \in SUBSET Nat, S # {}
  PROVE  \E m \in S : \A k \in S : m <= k
<1>1. PICK m \in S : \A k \in S : ~ (<<k, m>> \in OpToRel(<, Nat))
  BY NatLessThanWellFounded, WFMin
<1>2. \A k \in S : ~ (k < m)
  BY <1>1 DEF OpToRel
<1> QED
  BY <1>2

\* The canonical order has a first element in every non-empty set of aliases, so
\* the duty that register_response_token settles is one of the eligible ones.
LEMMA FirstIsLeast ==
  ASSUME NEW D \in SUBSET Nat, NEW occs \in [D -> Occurrence],
         NEW S \in SUBSET D, S # {}
  PROVE  /\ First(occs, S) \in S
         /\ \A j \in S \ {First(occs, S)} : Precedes(occs, First(occs, S), j)
<1>0. \A i \in D : occs[i].deadline \in Nat /\ occs[i].trigger_tick \in Nat
  BY DEF Occurrence
<1>1. PICK d \in {occs[i].deadline : i \in S} :
        \A k \in {occs[i].deadline : i \in S} : d <= k
  <2> DEFINE V == {occs[i].deadline : i \in S}
  <2>1. V \in SUBSET Nat /\ V # {}
    BY <1>0
  <2> HIDE DEF V
  <2>2. \E d \in V : \A k \in V : d <= k
    BY <2>1, LeastNat
  <2> QED
    BY <2>2 DEF V
<1> DEFINE S1 == {i \in S : occs[i].deadline = d}
<1>2. PICK t \in {occs[i].trigger_tick : i \in S1} :
        \A k \in {occs[i].trigger_tick : i \in S1} : t <= k
  <2> DEFINE V == {occs[i].trigger_tick : i \in S1}
  <2>1. V \in SUBSET Nat /\ V # {}
    BY <1>0, <1>1
  <2> HIDE DEF V
  <2>2. \E t \in V : \A k \in V : t <= k
    BY <2>1, LeastNat
  <2> QED
    BY <2>2 DEF V
<1> DEFINE S2 == {i \in S1 : occs[i].trigger_tick = t}
<1>3. PICK m \in S2 : \A k \in S2 : m <= k
  <2>1. S2 \in SUBSET Nat
    OBVIOUS
  <2>2. S2 # {}
    BY <1>2
  <2> QED
    BY <2>1, <2>2, LeastNat
<1>4. \A j \in S \ {m} : Precedes(occs, m, j)
  <2> SUFFICES ASSUME NEW j \in S, j # m PROVE Precedes(occs, m, j)
    OBVIOUS
  <2>1. occs[m].deadline = d /\ occs[m].trigger_tick = t /\ m \in Nat /\ j \in Nat
    BY <1>3
  <2>2. d <= occs[j].deadline /\ occs[j].deadline \in Nat /\ d \in Nat
    BY <1>0, <1>1, <2>1
  <2>3. CASE d < occs[j].deadline
    BY <2>1, <2>3 DEF Precedes
  <2>4. CASE d = occs[j].deadline
    <3>1. t <= occs[j].trigger_tick /\ occs[j].trigger_tick \in Nat /\ t \in Nat
      BY <1>0, <1>2, <2>1, <2>4
    <3>2. CASE t < occs[j].trigger_tick
      BY <2>1, <2>4, <3>2 DEF Precedes
    <3>3. CASE t = occs[j].trigger_tick
      <4>1. m <= j
        BY <1>3, <2>4, <3>3
      <4>2. m < j
        BY <2>1, <4>1
      <4> QED
        BY <2>1, <2>4, <3>3, <4>2 DEF Precedes
    <3> QED
      BY <3>1, <3>2, <3>3
  <2> QED
    BY <2>2, <2>3, <2>4
<1>5. m \in S
  BY <1>3
<1> QED
  BY <1>4, <1>5 DEF First

\* Whatever precedes all others is the first.
LEMMA FirstIsUnique ==
  ASSUME NEW D \in SUBSET Nat, NEW occs \in [D -> Occurrence],
         NEW S \in SUBSET D, NEW i \in S,
         \A j \in S \ {i} : Precedes(occs, i, j)
  PROVE  First(occs, S) = i
<1> SUFFICES ASSUME First(occs, S) # i PROVE FALSE
  OBVIOUS
<1> DEFINE f == First(occs, S)
<1>1. f \in S /\ Precedes(occs, f, i) /\ Precedes(occs, i, f)
  BY FirstIsLeast
<1> HIDE DEF f
<1>2. /\ occs[i].deadline \in Nat /\ occs[i].trigger_tick \in Nat /\ i \in Nat
      /\ occs[f].deadline \in Nat /\ occs[f].trigger_tick \in Nat /\ f \in Nat
  BY <1>1 DEF Occurrence
<1> QED
  BY <1>1, <1>2 DEF Precedes

\* Two ledgers with the same triggers and deadlines.
SameDates(occs, others) ==
  /\ DOMAIN others = DOMAIN occs
  /\ \A i \in DOMAIN occs :
       /\ others[i].trigger_tick = occs[i].trigger_tick
       /\ others[i].deadline = occs[i].deadline

\* The canonical order knows only triggers and deadlines.
LEMMA SameFirst ==
  ASSUME NEW D \in SUBSET Nat, NEW occs \in [D -> Occurrence],
         NEW others \in [D -> Occurrence], SameDates(occs, others),
         NEW S \in SUBSET D, S # {}
  PROVE  First(others, S) = First(occs, S)
<1> DEFINE f == First(occs, S)
<1>1. f \in S /\ \A j \in S \ {f} : Precedes(occs, f, j)
  BY FirstIsLeast
<1> HIDE DEF f
<1>2. \A j \in S \ {f} : Precedes(others, f, j)
  BY <1>1 DEF Precedes, SameDates
<1>3. f \in S
  BY <1>1
<1>4. First(others, S) = f
  BY ONLY <1>2, <1>3, FirstIsUnique, D \in SUBSET Nat, others \in [D -> Occurrence],
          S \in SUBSET D
<1> QED
  BY <1>4 DEF f

-----------------------------------------------------------------------------
\* No two allocations are admitted: the earliest token they would give
\* differently has the same takers in both.
LEMMA OneAllocation ==
  ASSUME NEW occs, NEW active, NEW consumed,
         Recorded(occs, active, consumed) \in SUBSET Nat,
         NEW a \in Allocations(occs, active, consumed),
         NEW b \in Allocations(occs, active, consumed)
  PROVE  a = b
<1> DEFINE tokens == Recorded(occs, active, consumed)
           Given(alloc, k) == {i \in active : alloc[i] = k}
           Differ == {k \in tokens : Given(a, k) # Given(b, k)}
<1>1. /\ a \in [active -> tokens \cup {NoTick}] /\ IsAllocation(occs, active, tokens, a)
      /\ b \in [active -> tokens \cup {NoTick}] /\ IsAllocation(occs, active, tokens, b)
  BY DEF Allocations
<1>2. NoTick \notin Nat /\ tokens \in SUBSET Nat
  BY DEF NoTick
<1> HIDE DEF tokens
<1>3. Differ = {}
  <2> SUFFICES ASSUME Differ # {} PROVE FALSE
    OBVIOUS
  <2>1. Differ \in SUBSET Nat
    BY <1>2
  <2>2. PICK k \in Differ : \A j \in Differ : k <= j
    BY <2>1, LeastNat
  <2>3. k \in tokens /\ k \in Nat
    BY <1>2
  <2>4. \A j \in tokens : j < k => Given(a, j) = Given(b, j)
    BY <1>2, <2>2, <2>3
  <2>5. \A i \in active : (a[i] # NoTick /\ a[i] < k) <=> (b[i] # NoTick /\ b[i] < k)
    BY <1>1, <2>4
  <2>6. Takers(occs, active, a, k) = Takers(occs, active, b, k)
    BY <2>5 DEF Takers
  <2>7. Given(a, k) = Given(b, k)
    BY <1>1, <2>3, <2>6 DEF IsAllocation
  <2> QED
    BY <2>2, <2>7
<1>4. \A i \in active : a[i] = b[i]
  <2> SUFFICES ASSUME NEW i \in active PROVE a[i] = b[i]
    OBVIOUS
  <2>1. \A k \in tokens : a[i] = k <=> b[i] = k
    BY <1>3
  <2> QED
    BY <1>1, <2>1
<1> QED
  BY <1>1, <1>4

\* Nor do the statuses matter to what an allocation is.
LEMMA SameAllocation ==
  ASSUME NEW D \in SUBSET Nat, NEW occs \in [D -> Occurrence],
         NEW others \in [D -> Occurrence], SameDates(occs, others),
         \A i \in D : others[i].candidates = occs[i].candidates,
         NEW active \in SUBSET D, NEW tokens, NEW alloc,
         IsAllocation(occs, active, tokens, alloc)
  PROVE  IsAllocation(others, active, tokens, alloc)
<1> SUFFICES ASSUME NEW k \in tokens
             PROVE  {i \in active : alloc[i] = k} =
                      IF Takers(others, active, alloc, k) = {} THEN {}
                      ELSE {First(others, Takers(others, active, alloc, k))}
  BY DEF IsAllocation
<1> DEFINE T == Takers(occs, active, alloc, k)
<1>1. Takers(others, active, alloc, k) = T
  BY DEF Takers, SameDates
<1>2. T \in SUBSET D
  BY DEF Takers
<1>3. {i \in active : alloc[i] = k} = IF T = {} THEN {} ELSE {First(occs, T)}
  BY DEF IsAllocation
<1> HIDE DEF T
<1>4. T # {} => First(others, T) = First(occs, T)
  BY <1>2, SameFirst
<1> QED
  BY <1>1, <1>3, <1>4

=============================================================================
