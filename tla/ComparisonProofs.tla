------------------------- MODULE ComparisonProofs ---------------------------
(***************************************************************************)
(* How residuals are compared.                                             *)
(*                                                                         *)
(* What a bounded comparison's result means, for every alphabet, length,   *)
(* set of readings and budget: a witness is the first word that separates  *)
(* the residuals, what may be discharged from a result is true, and the    *)
(* counts of a receipt add up to the family, whose size the code computes  *)
(* as a sum of powers and never by counting.                               *)
(*                                                                         *)
(* A totalised system implements the promise of a residual, and what it    *)
(* reads is the run the caller declared, for every system, every pair of   *)
(* states and words of every length.                                       *)
(*                                                                         *)
(* What is read is compared by the digest of its encoding, or item by item *)
(* where it has none: either way equal is being the same tree, on every    *)
(* heap of values, shared and cyclic ones included.                        *)
(***************************************************************************)
EXTENDS TotalizedLTS, BoundedCompare, Encoding, FiniteSetTheorems, FunctionTheorems,
        WellFoundedInduction, TLAPS

-----------------------------------------------------------------------------
(* Bounded comparison.                                                      *)


\* The words of the family are compared one after the other, so a pair of them
\* never precede one another.
LEMMA BeforeIsAsymmetric ==
  ASSUME NEW u \in Words, NEW v \in Words, Before(u, v), Before(v, u)
  PROVE  FALSE
<1>1. Len(u) \in Nat /\ Len(v) \in Nat /\ u \in Seq(Int) /\ v \in Seq(Int)
  <2>1. ASSUME NEW w \in Words
        PROVE  w \in Seq(Int)
    <3>1. PICK length \in 0..MaxLength : w \in [1..length -> DOMAIN Alphabet]
      BY DEF Words
    <3>2. length \in Nat /\ w \in [1..length -> Int]
      BY <3>1, AlphabetAssumption, MaxLengthAssumption
    <3> QED BY <3>2
  <2>2. u \in Seq(Int) /\ v \in Seq(Int)
    BY <2>1
  <2> QED BY <2>2
<1>2. Len(u) = Len(v)
  BY <1>1 DEF Before
<1>3. PICK i \in DOMAIN u : u[i] < v[i] /\ \A k \in 1..(i - 1) : u[k] = v[k]
  BY <1>2, <1>1 DEF Before
<1>4. PICK j \in DOMAIN v : v[j] < u[j] /\ \A k \in 1..(j - 1) : v[k] = u[k]
  BY <1>2, <1>1 DEF Before
<1>5. /\ i \in 1..Len(u) /\ j \in 1..Len(u)
      /\ u[i] \in Int /\ v[i] \in Int /\ u[j] \in Int /\ v[j] \in Int
  BY <1>1, <1>2
<1>6. CASE i < j
  <2>1. i \in 1..(j - 1)
    BY <1>5, <1>6
  <2> QED BY <2>1, <1>3, <1>4, <1>5
<1>7. CASE j < i
  <2>1. j \in 1..(i - 1)
    BY <1>5, <1>7
  <2> QED BY <2>1, <1>3, <1>4, <1>5
<1>8. CASE i = j
  BY <1>8, <1>3, <1>4, <1>5
<1> QED BY <1>5, <1>6, <1>7, <1>8

-----------------------------------------------------------------------------
\* The induction: while the search goes on every word compared agreed; when it
\* is over, what its result says was so.
SearchInv ==
  /\ todo \subseteq Words
  /\ result.kind \in {"Searching", "Distinguished", "NoWitnessWithinBound",
                      "SearchIncomplete", "InvalidComparisonRequest"}
  /\ result.kind = "Searching" => \A tried \in Words \ todo : Agree(tried)
  /\ result.kind = "NoWitnessWithinBound" => \A tried \in Words : Agree(tried)
  /\ WitnessIsFirst

\* At first no word has been compared.
LEMMA SearchInvInit == SearchInit => SearchInv
  BY DEF SearchInit, SearchInv, WitnessIsFirst

\* One more reading disturbs none of the earlier ones.
LEMMA AgreementIsKept ==
  ASSUME NEW tried, NEW other, NEW l, NEW r, other # tried, Agree(other),
         left' = Put(left, tried, l), right' = Put(right, tried, r)
  PROVE  Agree(other)'
  BY DEF Agree, Put

\* Comparing the next word keeps the invariant.
LEMMA CompareKeeps ==
  ASSUME SearchInv, NEW tried \in todo, NEW l \in Readings, NEW r \in Readings,
         Compare(tried, l, r)
  PROVE  SearchInv'
<1>1. tried \in Words /\ result.kind = "Searching" /\ \A w \in Words \ todo : Agree(w)
  BY DEF SearchInv, Compare, Evaluate
<1>2. left' = Put(left, tried, l) /\ right' = Put(right, tried, r)
  BY DEF Compare, Evaluate
<1>3. \A w \in Words \ todo : Agree(w)'
  BY <1>1, <1>2, AgreementIsKept
<1>4. left'[tried] = l /\ right'[tried] = r /\ tried \in DOMAIN left' /\ tried \in DOMAIN right'
  BY <1>2 DEF Put
<1>5. l \notin Outside
  BY DEF Compare
<1>6. todo' \subseteq Words /\ Words \ todo' = (Words \ todo) \cup {tried}
  BY <1>1 DEF Compare, SearchInv
<1>7. CASE l = r
  <2>1. Agree(tried)'
    BY <1>4, <1>5, <1>7 DEF Agree
  <2>2. result' = result
    BY <1>7 DEF Compare
  <2> QED BY <2>1, <2>2, <1>1, <1>3, <1>6 DEF SearchInv, WitnessIsFirst
<1>8. CASE l # r
  <2>1. result' = [kind |-> "Distinguished", witness |-> tried, left |-> l, right |-> r]
    BY <1>8 DEF Compare
  <2>2. ~ Agree(tried)'
    BY <1>4, <1>8 DEF Agree
  <2>3. ASSUME NEW w \in Words, Before(w, tried)
        PROVE  Agree(w)'
    <3>1. w # tried
      BY <2>3, <1>1, BeforeIsAsymmetric
    <3>2. w \notin todo \ {tried}
      BY <2>3, <1>1, BeforeIsAsymmetric DEF Compare, Evaluate
    <3> QED BY <3>1, <3>2, <1>3
  <2>4. WitnessIsFirst'
    BY <2>1, <2>2, <2>3 DEF WitnessIsFirst
  <2> QED BY <2>1, <2>4, <1>6 DEF SearchInv
<1> QED BY <1>7, <1>8

\* So does every step.
LEMMA SearchKeeps ==
  ASSUME SearchInv, [SearchNext]_search
  PROVE  SearchInv'
<1>1. CASE Stop
  BY <1>1 DEF Stop, SearchInv, WitnessIsFirst, Agree
<1>2. CASE \E tried \in todo, l, r \in Readings : Compare(tried, l, r)
  BY <1>2, CompareKeeps
<1>3. CASE \E tried \in todo, l, r \in Readings : Refuse(tried, l, r)
  BY <1>3 DEF Refuse, Evaluate, SearchInv, WitnessIsFirst
<1>4. CASE Exhaust
  BY <1>4 DEF Exhaust, SearchInv, WitnessIsFirst, Agree
<1>5. CASE UNCHANGED search
  BY <1>5 DEF search, SearchInv, WitnessIsFirst, Agree
<1> QED BY <1>1, <1>2, <1>3, <1>4, <1>5 DEF SearchNext

\* The invariant holds throughout a search.
LEMMA SearchInvAlways == SearchSpec => []SearchInv
<1>1. SearchInit => SearchInv
  BY SearchInvInit
<1>2. SearchInv /\ [SearchNext]_search => SearchInv'
  BY SearchKeeps
<1> QED BY <1>1, <1>2, PTL DEF SearchSpec

-----------------------------------------------------------------------------
\* A witness separates the residuals and no earlier word of the family does.
THEOREM WitnessFirst == SearchSpec => []WitnessIsFirst
<1>1. SearchInv => WitnessIsFirst
  BY DEF SearchInv
<1> QED BY <1>1, SearchInvAlways, PTL

\* What the firewall lets through from a comparison is so: the residuals agree
\* on the whole family, and no proof premise is discharged.
THEOREM FirewallHonest == SearchSpec => []FirewallIsHonest
<1>1. SearchInv => FirewallIsHonest
  <2> SUFFICES ASSUME SearchInv PROVE FirewallIsHonest
    OBVIOUS
  <2>1. Typecheck(result.kind, "NoCounterexampleFoundInEnumeratedSet") =>
          \A tried \in Words : Agree(tried)
    BY DEF SearchInv, Typecheck, DischargeablePairs
  <2>2. ASSUME NEW premise \in ProofPremiseCertificates
        PROVE  ~ Typecheck(result.kind, premise)
    BY <2>2 DEF Typecheck, DischargeablePairs, ProofPremiseCertificates,
                DischargeableByNoWitness, NeverDischargeableByNoWitness
  <2>3. ASSUME NEW premise \in KnownPremiseKinds
        PROVE  Discharge(result.kind, premise) <=> Typecheck(result.kind, premise)
    BY <2>3 DEF Discharge, Typecheck, DischargeablePairs, ComparisonResultKinds,
                DischargeableByNoWitness, NeverDischargeableByNoWitness
  <2> QED BY <2>1, <2>2, <2>3 DEF FirewallIsHonest
<1> QED BY <1>1, SearchInvAlways, PTL

-----------------------------------------------------------------------------
(* The size of the family, computed by the code as a sum of powers.         *)

\* Every non-empty set of natural numbers has a least element.
LEMMA LeastNumber ==
  ASSUME NEW S \in SUBSET Nat, S # {}
  PROVE  \E m \in S : \A k \in S : m <= k
<1>1. PICK m \in S : \A k \in S : ~ (<<k, m>> \in OpToRel(<, Nat))
  BY NatLessThanWellFounded, WFMin
<1>2. \A k \in S : ~ (k < m)
  BY <1>1 DEF OpToRel
<1> QED
  BY <1>2

WordsOf(length) == [1..length -> DOMAIN Alphabet]
WordsThrough(length) == UNION {WordsOf(k) : k \in 0..length}

\* A word with one more label.
Longer(shorter, length, label) ==
  [i \in 1..(length + 1) |-> IF i = length + 1 THEN label ELSE shorter[i]]

\* The alphabet has as many labels as positions.
LEMMA AlphabetIsCounted ==
  /\ IsFiniteSet(DOMAIN Alphabet)
  /\ Cardinality(DOMAIN Alphabet) = Len(Alphabet)
  /\ Len(Alphabet) \in Nat
<1>1. Len(Alphabet) \in Nat /\ DOMAIN Alphabet = 1..Len(Alphabet)
  BY AlphabetAssumption
<1>2. ASSUME NEW k \in Nat PROVE IsFiniteSet(1..k) /\ Cardinality(1..k) = k
  <2>1. IsFiniteSet(1..k) /\ Cardinality(1..k) = IF 1 > k THEN 0 ELSE k - 1 + 1
    BY FS_Interval
  <2>2. CASE k = 0
    BY <2>1, <2>2
  <2>3. CASE k # 0
    BY <2>1, <2>3
  <2> QED
    BY <2>2, <2>3
<1> QED
  BY <1>1, <1>2

\* There are as many words of one length more as pairs of a word and a label.
LEMMA OneLabelMore ==
  ASSUME NEW length \in Nat, IsFiniteSet(WordsOf(length))
  PROVE  /\ IsFiniteSet(WordsOf(length + 1))
         /\ Cardinality(WordsOf(length + 1)) = Len(Alphabet) * Cardinality(WordsOf(length))
<1> DEFINE A == DOMAIN Alphabet
           P == WordsOf(length) \X A
           f == [p \in P |-> Longer(p[1], length, p[2])]
<1>1. IsFiniteSet(A) /\ Cardinality(A) = Len(Alphabet) /\ Len(Alphabet) \in Nat
  BY AlphabetIsCounted
<1>2. /\ IsFiniteSet(P)
      /\ Cardinality(P) = Cardinality(WordsOf(length)) * Cardinality(A)
  BY <1>1, FS_Product
<1>3. f \in [P -> WordsOf(length + 1)]
  <2> SUFFICES ASSUME NEW p \in P PROVE Longer(p[1], length, p[2]) \in WordsOf(length + 1)
    OBVIOUS
  <2>1. p[1] \in [1..length -> A] /\ p[2] \in A
    BY DEF WordsOf
  <2>2. \A i \in 1..(length + 1) : i # length + 1 => i \in 1..length
    OBVIOUS
  <2> HIDE DEF A
  <2>3. [i \in 1..(length + 1) |-> IF i = length + 1 THEN p[2] ELSE p[1][i]]
          \in [1..(length + 1) -> A]
    BY <2>1, <2>2
  <2> QED
    BY <2>3 DEF WordsOf, Longer, A
<1>4. ASSUME NEW p \in P, NEW q \in P, f[p] = f[q] PROVE p = q
  <2>1. p = <<p[1], p[2]>> /\ q = <<q[1], q[2]>>
    OBVIOUS
  <2>2. p[1] \in [1..length -> A] /\ q[1] \in [1..length -> A]
    BY DEF WordsOf
  <2>3. f[p] = Longer(p[1], length, p[2]) /\ f[q] = Longer(q[1], length, q[2])
    OBVIOUS
  <2> HIDE DEF f, A
  <2>4. \A i \in 1..(length + 1) :
          Longer(p[1], length, p[2])[i] = Longer(q[1], length, q[2])[i]
    BY <1>4, <2>3
  <2>5. p[2] = q[2]
    <3>1. length + 1 \in 1..(length + 1)
      OBVIOUS
    <3> QED
      BY <2>4, <3>1 DEF Longer
  <2>6. ASSUME NEW i \in 1..length PROVE p[1][i] = q[1][i]
    <3>1. i \in 1..(length + 1) /\ i # length + 1
      OBVIOUS
    <3> QED
      BY <2>4, <3>1 DEF Longer
  <2>7. p[1] = q[1]
    BY <2>2, <2>6
  <2> QED
    BY <2>1, <2>5, <2>7
<1>5. ASSUME NEW v \in WordsOf(length + 1) PROVE \E p \in P : f[p] = v
  <2> DEFINE u == [i \in 1..length |-> v[i]]
             l == v[length + 1]
  <2>1. v \in [1..(length + 1) -> A]
    BY DEF WordsOf
  <2>2. u \in [1..length -> A] /\ l \in A
    <3>1. length + 1 \in 1..(length + 1) /\ \A i \in 1..length : i \in 1..(length + 1)
      OBVIOUS
    <3> HIDE DEF A
    <3> QED
      BY <2>1, <3>1
  <2>3. <<u, l>> \in P
    BY <2>2 DEF WordsOf
  <2>4. Longer(u, length, l) = v
    <3>1. \A i \in 1..(length + 1) : i # length + 1 => i \in 1..length
      OBVIOUS
    <3>2. \A i \in 1..(length + 1) : Longer(u, length, l)[i] = v[i]
      BY <3>1 DEF Longer
    <3>3. Longer(u, length, l) = [i \in 1..(length + 1) |-> Longer(u, length, l)[i]]
      BY DEF Longer
    <3>4. v = [i \in 1..(length + 1) |-> v[i]]
      BY <2>1
    <3> QED
      BY <3>2, <3>3, <3>4
  <2>5. f[<<u, l>>] = Longer(u, length, l)
    BY <2>3
  <2> QED
    BY <2>3, <2>4, <2>5
<1>6. ExistsBijection(P, WordsOf(length + 1))
  <2> HIDE DEF P, f
  <2>1. f \in Bijection(P, WordsOf(length + 1))
    BY <1>3, <1>4, <1>5 DEF Bijection, Injection, Surjection, IsInjective
  <2> QED
    BY <2>1 DEF ExistsBijection
<1>7. IsFiniteSet(WordsOf(length + 1)) /\ Cardinality(WordsOf(length + 1)) = Cardinality(P)
  <2> HIDE DEF P
  <2> QED
    BY <1>2, <1>6, FS_Bijection
<1>8. Cardinality(WordsOf(length)) \in Nat
  BY FS_CardinalityType
<1>9. \A x, y \in Nat : x * y = y * x
  BY SMT
<1> QED
  BY <1>1, <1>2, <1>7, <1>8, <1>9

\* The word of no labels is one.
LEMMA NoLabel == IsFiniteSet(WordsOf(0)) /\ Cardinality(WordsOf(0)) = 1
<1>1. 1..0 = {}
  OBVIOUS
<1>2. WordsOf(0) = {[i \in {} |-> i]}
  BY <1>1 DEF WordsOf
<1> QED
  BY <1>2, FS_Singleton

\* The words of any one length are finitely many.
LEMMA FiniteLengths ==
  ASSUME NEW length \in Nat
  PROVE  IsFiniteSet(WordsOf(length)) /\ Cardinality(WordsOf(length)) \in Nat
<1> DEFINE Infinite == {k \in Nat : ~ IsFiniteSet(WordsOf(k))}
<1>1. Infinite = {}
  <2> SUFFICES ASSUME Infinite # {} PROVE FALSE
    OBVIOUS
  <2>1. PICK m \in Infinite : \A k \in Infinite : m <= k
    <3>1. Infinite \in SUBSET Nat
      OBVIOUS
    <3> HIDE DEF Infinite
    <3> QED
      BY <3>1, LeastNumber
  <2>2. m \in Nat /\ m # 0
    BY NoLabel
  <2> DEFINE p == m - 1
  <2>3. p \in Nat /\ p < m /\ p + 1 = m
    BY <2>2
  <2>4. p \notin Infinite
    <3> HIDE DEF Infinite, p
    <3> QED
      BY <2>1, <2>2, <2>3
  <2>5. IsFiniteSet(WordsOf(p))
    BY <2>3, <2>4
  <2> HIDE DEF p
  <2>6. IsFiniteSet(WordsOf(m))
    BY <2>3, <2>5, OneLabelMore
  <2> QED
    BY <2>6
<1> QED
  BY <1>1, FS_CardinalityType

Shorter(length) == IF length = 0 THEN 0 ELSE Cardinality(WordsThrough(length - 1))

\* The words up to a length are those of it and the shorter ones.
LEMMA OneLengthMore ==
  ASSUME NEW length \in Nat
  PROVE  /\ IsFiniteSet(WordsThrough(length))
         /\ Cardinality(WordsThrough(length)) = Cardinality(WordsOf(length)) + Shorter(length)
<1>1. ASSUME NEW k \in Nat PROVE IsFiniteSet(WordsThrough(k))
  <2>1. IsFiniteSet(0..k)
    BY FS_Interval
  <2> DEFINE T == {WordsOf(j) : j \in 0..k}
  <2>2. IsFiniteSet(T)
    <3> DEFINE f == [j \in 0..k |-> WordsOf(j)]
    <3>1. f \in Surjection(0..k, T)
      BY DEF Surjection
    <3> HIDE DEF f, T
    <3> QED
      BY <2>1, <3>1, FS_Surjection
  <2>3. \A X \in T : IsFiniteSet(X)
    BY FiniteLengths
  <2> HIDE DEF T
  <2>4. IsFiniteSet(UNION T)
    BY <2>2, <2>3, FS_UNION
  <2> QED
    BY <2>4 DEF T, WordsThrough
<1>2. CASE length = 0
  <2>1. 0..0 = {0}
    OBVIOUS
  <2>2. WordsThrough(0) = WordsOf(0)
    BY <2>1 DEF WordsThrough
  <2> QED
    BY <1>1, <1>2, <2>2, NoLabel DEF Shorter
<1>3. CASE length # 0
  <2> DEFINE p == length - 1
             S == WordsThrough(p)
             T == WordsOf(length)
  <2>1. p \in Nat /\ p < length /\ p + 1 = length
    BY <1>3
  <2>2. 0..length = 0..p \cup {length}
    BY <2>1
  <2>3. WordsThrough(length) = S \cup T
    BY <2>2 DEF WordsThrough
  <2>4. S \cap T = {}
    <3> SUFFICES ASSUME NEW v \in S, v \in T PROVE FALSE
      OBVIOUS
    <3>1. PICK k \in 0..p : v \in WordsOf(k)
      BY DEF WordsThrough
    <3>2. DOMAIN v = 1..k /\ DOMAIN v = 1..length
      BY <3>1 DEF WordsOf
    <3> HIDE DEF p
    <3>3. k \in Nat /\ k < length
      BY <2>1, <3>1
    <3>4. length \in 1..length /\ length \notin 1..k
      BY <1>3, <3>3
    <3> QED
      BY <3>2, <3>4
  <2>5. IsFiniteSet(S) /\ IsFiniteSet(T)
    BY <1>1, <2>1, FiniteLengths
  <2> HIDE DEF S, T
  <2>6. Cardinality(S \cup T) = Cardinality(S) + Cardinality(T) - Cardinality(S \cap T)
    BY <2>5, FS_Union
  <2>7. Cardinality(S \cap T) = 0 /\ Cardinality(S) \in Nat /\ Cardinality(T) \in Nat
    BY <2>4, <2>5, FS_EmptySet, FS_CardinalityType
  <2>8. Cardinality(S \cup T) = Cardinality(T) + Cardinality(S)
    BY <2>6, <2>7
  <2>9. Shorter(length) = Cardinality(S)
    BY <1>3 DEF Shorter, S
  <2> QED
    BY <1>1, <2>3, <2>8, <2>9 DEF T
<1> QED
  BY <1>2, <1>3

\* The powers the code computes count the words of each length.
LEMMA PowersCountWords ==
  ASSUME NEW length \in 0..MaxLength
  PROVE  Power[length] = Cardinality(WordsOf(length))
<1> DEFINE D == 0..MaxLength
           IsPower(g) ==
             g = [k \in D |-> IF k = 0 THEN 1 ELSE Len(Alphabet) * g[k - 1]]
           c == [k \in D |-> Cardinality(WordsOf(k))]
<1>1. ASSUME NEW k \in D, k # 0
      PROVE  /\ k - 1 \in D /\ k - 1 < k
             /\ Cardinality(WordsOf(k)) = Len(Alphabet) * Cardinality(WordsOf(k - 1))
  <2> DEFINE p == k - 1
  <2>1. p \in Nat /\ p + 1 = k /\ p \in D /\ p < k
    BY <1>1, MaxLengthAssumption
  <2> HIDE DEF p
  <2>2. Cardinality(WordsOf(p + 1)) = Len(Alphabet) * Cardinality(WordsOf(p))
    BY <2>1, OneLabelMore, FiniteLengths
  <2> QED
    BY <2>1, <2>2 DEF p
<1>2. IsPower(c)
  <2>1. \A k \in D : c[k] = IF k = 0 THEN 1 ELSE Len(Alphabet) * c[k - 1]
    BY <1>1, NoLabel
  <2> QED
    BY <2>1
<1>3. IsPower(Power)
  <2>1. Power = CHOOSE g : IsPower(g)
    BY DEF Power
  <2> QED
    BY <1>2, <2>1
<1>4. \A k \in D : Power[k] = IF k = 0 THEN 1 ELSE Len(Alphabet) * Power[k - 1]
  BY <1>3
<1> DEFINE Wrong == {k \in D : Power[k] # Cardinality(WordsOf(k))}
<1>5. Wrong = {}
  <2> SUFFICES ASSUME Wrong # {} PROVE FALSE
    OBVIOUS
  <2>1. PICK m \in Wrong : \A k \in Wrong : m <= k
    <3>1. Wrong \in SUBSET Nat
      BY MaxLengthAssumption
    <3> HIDE DEF Wrong
    <3> QED
      BY <3>1, LeastNumber
  <2>2. m \in D /\ m \in Nat
    BY MaxLengthAssumption
  <2>3. m # 0
    BY <1>4, <2>2, NoLabel
  <2>4. m - 1 \in D /\ m - 1 < m
    BY <1>1, <2>2, <2>3
  <2>5. m - 1 \notin Wrong
    <3>1. \A k \in Wrong : m <= k
      BY <2>1
    <3> HIDE DEF Wrong
    <3> QED
      BY <2>2, <2>4, <3>1
  <2>6. Power[m - 1] = Cardinality(WordsOf(m - 1))
    BY <2>4, <2>5
  <2>7. Power[m] = Cardinality(WordsOf(m))
    BY <1>1, <1>4, <2>2, <2>3, <2>6
  <2> QED
    BY <2>7
<1> QED
  BY <1>5

\* So the sum of them counts the family.
LEMMA FamilyIsCounted ==
  IsFiniteSet(Words) /\ FamilySize = Cardinality(Words) /\ FamilySize \in Nat
<1> DEFINE D == 0..MaxLength
           IsTotal(g) ==
             g = [k \in D |-> Power[k] + IF k = 0 THEN 0 ELSE g[k - 1]]
           c == [k \in D |-> Cardinality(WordsThrough(k))]
<1>1. ASSUME NEW k \in D
      PROVE  /\ k # 0 => k - 1 \in D /\ k - 1 < k
             /\ Cardinality(WordsThrough(k)) =
                  Power[k] + IF k = 0 THEN 0 ELSE Cardinality(WordsThrough(k - 1))
  <2>1. k \in Nat /\ (k # 0 => k - 1 \in D /\ k - 1 < k)
    BY MaxLengthAssumption
  <2>2. Cardinality(WordsThrough(k)) = Power[k] + Shorter(k)
    BY <2>1, OneLengthMore, PowersCountWords
  <2> QED
    BY <2>1, <2>2 DEF Shorter
<1>2. IsTotal(c)
  <2>1. \A k \in D : c[k] = Power[k] + IF k = 0 THEN 0 ELSE c[k - 1]
    BY <1>1
  <2> QED
    BY <2>1
<1>3. IsTotal(SumOfPowers)
  <2>1. SumOfPowers = CHOOSE g : IsTotal(g)
    BY DEF SumOfPowers
  <2> QED
    BY <1>2, <2>1
<1>4. \A k \in D : SumOfPowers[k] = Power[k] + IF k = 0 THEN 0 ELSE SumOfPowers[k - 1]
  BY <1>3
<1> DEFINE Wrong == {k \in D : SumOfPowers[k] # Cardinality(WordsThrough(k))}
<1>5. Wrong = {}
  <2> SUFFICES ASSUME Wrong # {} PROVE FALSE
    OBVIOUS
  <2>1. PICK m \in Wrong : \A k \in Wrong : m <= k
    <3>1. Wrong \in SUBSET Nat
      BY MaxLengthAssumption
    <3> HIDE DEF Wrong
    <3> QED
      BY <3>1, LeastNumber
  <2>2. m \in D /\ m \in Nat
    BY MaxLengthAssumption
  <2>3. m # 0 => m - 1 \notin Wrong
    <3>1. \A k \in Wrong : m <= k
      BY <2>1
    <3>2. m # 0 => m - 1 < m /\ m - 1 \in Int
      BY <2>2
    <3> HIDE DEF Wrong
    <3> QED
      BY <2>2, <3>1, <3>2
  <2>4. m # 0 => SumOfPowers[m - 1] = Cardinality(WordsThrough(m - 1))
    BY <1>1, <2>2, <2>3
  <2>5. SumOfPowers[m] = Cardinality(WordsThrough(m))
    BY <1>1, <1>4, <2>2, <2>4
  <2> QED
    BY <2>5
<1>6. MaxLength \in D /\ MaxLength \in Nat
  BY MaxLengthAssumption
<1>7. Words = WordsThrough(MaxLength)
  BY DEF Words, WordsThrough, WordsOf
<1>8. IsFiniteSet(Words)
  BY <1>6, <1>7, OneLengthMore
<1> QED
  BY <1>5, <1>6, <1>7, <1>8, FS_CardinalityType DEF FamilySize

-----------------------------------------------------------------------------
\* The induction: what has been compared and what is left add up to the family.
CountInv ==
  /\ words_enumerated \in Nat
  /\ CountsReconcile

\* At first all of it is left.
LEMMA CountInvInit == SearchInit => CountInv
  BY FamilyIsCounted DEF SearchInit, CountInv, CountsReconcile

\* A comparison takes one word from what is left.
LEMMA CompareCounts ==
  ASSUME SearchInv, CountInv, NEW tried \in todo, NEW l \in Readings, NEW r \in Readings,
         Compare(tried, l, r)
  PROVE  CountInv'
<1>1. todo \subseteq Words /\ IsFiniteSet(todo)
  BY FamilyIsCounted, FS_Subset DEF SearchInv
<1>2. /\ Cardinality(todo \ {tried}) = Cardinality(todo) - 1
      /\ Cardinality(todo) \in Nat
  BY <1>1, FS_RemoveElement, FS_CardinalityType
<1>3. todo' = todo \ {tried} /\ words_enumerated' = words_enumerated + 1
  BY DEF Compare
<1>4. words_enumerated \in Nat /\ words_enumerated + Cardinality(todo) = FamilySize
  BY DEF CountInv, CountsReconcile
<1>5. /\ words_enumerated' \in Nat
      /\ words_enumerated' + Cardinality(todo') = FamilySize
  BY <1>2, <1>3, <1>4
<1>6. result'.kind \notin {"NoWitnessWithinBound", "SearchIncomplete"}
  BY DEF Compare, Evaluate
<1> QED
  BY <1>5, <1>6 DEF CountInv, CountsReconcile

\* A search that stops for its budget has left a word, and every one it took
\* agreed.
LEMMA StopCounts ==
  ASSUME SearchInv, CountInv, Stop
  PROVE  CountInv'
<1>1. /\ IsFiniteSet(todo) /\ todo # {} /\ max_words = words_enumerated
      /\ result.kind = "Searching"
  BY FamilyIsCounted, FS_Subset DEF SearchInv, Stop, OutOfBudget
<1>2. Cardinality(todo) \in Nat /\ Cardinality(todo) # 0
  BY <1>1, FS_CardinalityType, FS_EmptySet
<1>3. words_enumerated \in Nat /\ words_enumerated + Cardinality(todo) = FamilySize
  BY DEF CountInv, CountsReconcile
<1>4. FamilySize - words_enumerated = Cardinality(todo) /\ Cardinality(todo) > 0
  BY <1>2, <1>3
<1>5. UNCHANGED <<left, right, todo, words_enumerated>>
      /\ result' = [kind |-> "SearchIncomplete", searched |-> max_words,
                    not_searched |-> FamilySize - max_words]
  BY DEF Stop
<1>6. \A tried \in Words \ todo : Agree(tried)'
  BY <1>1, <1>5 DEF SearchInv, Agree
<1> QED
  BY <1>1, <1>3, <1>4, <1>5, <1>6 DEF CountInv, CountsReconcile

\* An exhausted search has left none.
LEMMA ExhaustCounts ==
  ASSUME SearchInv, CountInv, Exhaust
  PROVE  CountInv'
<1>1. Cardinality(todo) = 0
  BY FS_EmptySet DEF Exhaust
<1>2. words_enumerated \in Nat /\ words_enumerated + Cardinality(todo) = FamilySize
  BY DEF CountInv, CountsReconcile
<1>3. words_enumerated = FamilySize
  BY <1>1, <1>2
<1>4. UNCHANGED <<left, right, todo, words_enumerated>>
      /\ result' = [kind |-> "NoWitnessWithinBound", words_enumerated |-> words_enumerated]
  BY DEF Exhaust
<1> QED
  BY <1>2, <1>3, <1>4 DEF CountInv, CountsReconcile

\* So every step keeps the counts.
LEMMA CountKeeps ==
  ASSUME SearchInv, CountInv, [SearchNext]_search
  PROVE  CountInv'
<1>1. CASE Stop
  BY <1>1, StopCounts
<1>2. CASE \E tried \in todo, l, r \in Readings : Compare(tried, l, r)
  BY <1>2, CompareCounts
<1>3. CASE \E tried \in todo, l, r \in Readings : Refuse(tried, l, r)
  BY <1>3 DEF Refuse, Evaluate, CountInv, CountsReconcile
<1>4. CASE Exhaust
  BY <1>4, ExhaustCounts
<1>5. CASE UNCHANGED search
  BY <1>5 DEF search, CountInv, CountsReconcile, Agree
<1> QED
  BY <1>1, <1>2, <1>3, <1>4, <1>5 DEF SearchNext

\* The counts of every receipt add up to the family: an exhaustive one has
\* enumerated all of it, an incomplete one left what it says.
THEOREM CountsReconcileAlways == SearchSpec => []CountsReconcile
<1>1. SearchInit => CountInv
  BY CountInvInit
<1>2. SearchInv /\ CountInv /\ [SearchNext]_search => CountInv'
  BY CountKeeps
<1>3. CountInv => CountsReconcile
  BY DEF CountInv
<1> QED
  BY <1>1, <1>2, <1>3, SearchInvAlways, PTL DEF SearchSpec

-----------------------------------------------------------------------------
(* Totalised systems.                                                       *)


SinkStates ==
  [kind : {"Sink"}, source : States, attempted : Labels,
   enabled_set : SUBSET Labels, reason : {"NotEnabled", "AfterTerminal"}]

TotalStates ==
  [kind : {"State", "Terminal", "Raised"}, source : States] \cup SinkStates

TotalTypeOK == adapter \in Adapters /\ current \in [Sides -> TotalStates]

\* What one label does to a totalised state is total.
LEMMA DeltaBarType ==
  ASSUME adapter \in Adapters, NEW t \in TotalStates, NEW label \in Labels
  PROVE  DeltaBar(t, label) \in TotalStates
<1>1. t.source \in States
  BY DEF TotalStates, SinkStates
<1>2. adapter.enabled[t.source] \in SUBSET Labels
      /\ adapter.transition[t.source][label] \in States
  BY <1>1, AdaptersAssumption
<1>3. Matched(t.source, label) \in TotalStates
  BY <1>2 DEF Matched, Terminal, Raw, TotalStates
<1>4. Unmatched(t.source, label) \in TotalStates
  BY <1>1, <1>2 DEF Unmatched, Sink, Raised, TotalStates, SinkStates
<1>5. Sink(t.source, label, {}, "AfterTerminal") \in TotalStates
  BY <1>1 DEF Sink, TotalStates, SinkStates
<1>6. CASE t.kind \in {"Sink", "Raised"}
  BY <1>6 DEF DeltaBar
<1>7. CASE t.kind = "Terminal"
  BY <1>5, <1>7 DEF DeltaBar
<1>8. CASE t.kind = "State"
  BY <1>3, <1>4, <1>8 DEF DeltaBar
<1> QED BY <1>6, <1>7, <1>8 DEF TotalStates, SinkStates

\* Both sides start in a state of the caller's system.
LEMMA TotalTypeInit == Init => TotalTypeOK
<1> SUFFICES ASSUME Init PROVE TotalTypeOK
  OBVIOUS
<1>1. start \in [Sides -> States]
  BY StartsAssumption DEF Init
<1>2. \A s \in Sides : Raw(start[s]) \in TotalStates
  BY <1>1 DEF Raw, TotalStates
<1> QED BY <1>2 DEF Init, TotalTypeOK

\* A label leaves both sides in a state, the sink, or an exception.
LEMMA TotalTypeNext == TotalTypeOK /\ [Next]_vars => TotalTypeOK'
<1> SUFFICES ASSUME TotalTypeOK, [Next]_vars PROVE TotalTypeOK'
  OBVIOUS
<1>1. CASE Next
  <2>1. PICK label \in Labels : Extend(label)
    BY <1>1 DEF Next
  <2>2. \A s \in Sides : DeltaBar(current[s], label) \in TotalStates
    BY DeltaBarType DEF TotalTypeOK
  <2> QED BY <2>1, <2>2 DEF Extend, TotalTypeOK
<1>2. CASE UNCHANGED vars
  BY <1>2 DEF vars, TotalTypeOK
<1> QED BY <1>1, <1>2

-----------------------------------------------------------------------------
\* One label: the residual takes it, is disabled by it, refuses it, or has
\* already been decided and stays as it is.
Stays(t, next) == next = t

Takes(t, next) ==
  /\ Status(t) = [kind |-> "NoDisabledLabel"] /\ Status(next) = Status(t)
  /\ Boundary(t) = "None" /\ Boundary(next) \in {"None", "Terminal"}

IsDisabled(t, next, label, enabled) ==
  /\ Status(t) = [kind |-> "NoDisabledLabel"]
  /\ Status(next) = [kind |-> "Disabled", attempted |-> label, enabled_set |-> enabled,
                     reason |-> IF Boundary(t) = "Terminal" THEN "AfterTerminal"
                                ELSE "NotEnabled"]
  /\ IF Boundary(t) = "None" THEN label \notin enabled ELSE enabled = {}
  /\ Boundary(t) \in {"None", "Terminal"}
  /\ Boundary(next) = Boundary(t) /\ next.source = t.source

IsRefused(t, next) ==
  /\ Status(t) = [kind |-> "NoDisabledLabel"] /\ Status(next) = [kind |-> "Refused"]
  /\ Boundary(next) = Boundary(t) /\ next.source = t.source

\* delta_bar does one of the four.
LEMMA OneLabel ==
  ASSUME adapter \in Adapters, NEW t \in TotalStates, NEW label \in Labels,
         NEW next, next = DeltaBar(t, label)
  PROVE  \/ Stays(t, next)
         \/ Takes(t, next)
         \/ \E enabled \in SUBSET Labels : IsDisabled(t, next, label, enabled)
         \/ IsRefused(t, next)
<1>1. t.source \in States
  BY DEF TotalStates, SinkStates
<1>2. adapter.enabled[t.source] \in SUBSET Labels
  BY <1>1, AdaptersAssumption
<1>3. CASE t.kind \in {"Sink", "Raised"}
  BY <1>3 DEF DeltaBar, Stays
<1>4. CASE t.kind = "Terminal"
  <2>1. next = Sink(t.source, label, {}, "AfterTerminal")
    BY <1>4 DEF DeltaBar
  <2>2. IsDisabled(t, next, label, {})
    BY <2>1, <1>4 DEF IsDisabled, Status, Boundary, Sink
  <2> QED BY <2>2
<1>5. CASE t.kind = "State" /\ label \in adapter.enabled[t.source]
  <2>1. next = Matched(t.source, label)
    BY <1>5 DEF DeltaBar
  <2>2. Takes(t, next)
    BY <2>1, <1>5 DEF Takes, Status, Boundary, Matched, Terminal, Raw
  <2> QED BY <2>2
<1>6. CASE t.kind = "State" /\ label \notin adapter.enabled[t.source]
  <2>1. next = Unmatched(t.source, label)
    BY <1>6 DEF DeltaBar
  <2>2. CASE Consistent(t.source)
    <3>1. next = Sink(t.source, label, adapter.enabled[t.source], "NotEnabled")
      BY <2>1, <2>2 DEF Unmatched
    <3>2. IsDisabled(t, next, label, adapter.enabled[t.source])
      BY <3>1, <1>6 DEF IsDisabled, Status, Boundary, Sink
    <3> QED BY <3>2, <1>2
  <2>3. CASE ~ Consistent(t.source)
    <3>1. next = Raised(t.source)
      BY <2>1, <2>3 DEF Unmatched
    <3>2. IsRefused(t, next)
      BY <3>1, <1>6 DEF IsRefused, Status, Boundary, Raised
    <3> QED BY <3>2
  <2> QED BY <2>2, <2>3
<1> QED BY <1>3, <1>4, <1>5, <1>6 DEF TotalStates, SinkStates

-----------------------------------------------------------------------------
\* The initial residual of each side is an initial residual of the promise.
LEMMA UInit == Init => U!Init
  BY DEF Init, U!Init, U!NoDisabledLabel, Boundary, Status, Raw, Sides

\* The same of the other side.
LEMMA VInit == Init => V!Init
  BY DEF Init, V!Init, V!NoDisabledLabel, Boundary, Status, Raw, Sides

UVars == <<adapter.observe[current["u"].source], Boundary(current["u"]), Status(current["u"])>>
VVars == <<adapter.observe[current["v"].source], Boundary(current["v"]), Status(current["v"])>>

\* A label of the word is a step of the promise, or none, on either side.
LEMMA UStep == TotalTypeOK /\ [Next]_vars => [U!Next]_UVars
<1> SUFFICES ASSUME TotalTypeOK, [Next]_vars PROVE [U!Next]_UVars
  OBVIOUS
<1>1. CASE UNCHANGED vars
  BY <1>1 DEF vars, UVars, Boundary, Status
<1>2. CASE Next
  <2>1. PICK label \in Labels : Extend(label)
    BY <1>2 DEF Next
  <2> DEFINE t == current["u"]
             next == current'["u"]
  <2>2. t \in TotalStates /\ adapter \in Adapters /\ next = DeltaBar(t, label)
        /\ adapter' = adapter
    BY <2>1 DEF TotalTypeOK, Extend, Sides
  <2>3. /\ Status(current["u"])' = Status(next)
        /\ Boundary(current["u"])' = Boundary(next)
    BY DEF Status, Boundary
  <2> HIDE DEF next
  <2>4. CASE Stays(t, next)
    BY <2>4, <2>2 DEF Stays, UVars, Status, Boundary, next
  <2>5. CASE Takes(t, next)
    <3>1. U!Take
      BY <2>5, <2>3 DEF Takes, U!Take, U!NoDisabledLabel
    <3> QED BY <3>1 DEF U!Next
  <2>6. ASSUME NEW enabled \in SUBSET Labels, IsDisabled(t, next, label, enabled)
        PROVE  U!Disable(label, enabled)
    <3>1. UNCHANGED <<adapter.observe[current["u"].source], Boundary(current["u"])>>
      BY <2>6, <2>2, <2>3 DEF IsDisabled, next
    <3> QED BY <3>1, <2>6, <2>3 DEF IsDisabled, U!Disable, U!Disabled, U!NoDisabledLabel
  <2>7. CASE IsRefused(t, next)
    <3>1. UNCHANGED <<adapter.observe[current["u"].source], Boundary(current["u"])>>
      BY <2>7, <2>2, <2>3 DEF IsRefused, next
    <3>2. U!Refuse
      BY <3>1, <2>7, <2>3 DEF IsRefused, U!Refuse, U!Refused, U!NoDisabledLabel
    <3> QED BY <3>2 DEF U!Next
  <2>8. \/ Stays(t, next)
        \/ Takes(t, next)
        \/ \E enabled \in SUBSET Labels : IsDisabled(t, next, label, enabled)
        \/ IsRefused(t, next)
    BY <2>2, OneLabel
  <2> QED BY <2>4, <2>5, <2>6, <2>7, <2>8 DEF U!Next
<1> QED BY <1>1, <1>2

\* The same of the other side.
LEMMA VStep == TotalTypeOK /\ [Next]_vars => [V!Next]_VVars
<1> SUFFICES ASSUME TotalTypeOK, [Next]_vars PROVE [V!Next]_VVars
  OBVIOUS
<1>1. CASE UNCHANGED vars
  BY <1>1 DEF vars, VVars, Boundary, Status
<1>2. CASE Next
  <2>1. PICK label \in Labels : Extend(label)
    BY <1>2 DEF Next
  <2> DEFINE t == current["v"]
             next == current'["v"]
  <2>2. t \in TotalStates /\ adapter \in Adapters /\ next = DeltaBar(t, label)
        /\ adapter' = adapter
    BY <2>1 DEF TotalTypeOK, Extend, Sides
  <2>3. /\ Status(current["v"])' = Status(next)
        /\ Boundary(current["v"])' = Boundary(next)
    BY DEF Status, Boundary
  <2> HIDE DEF next
  <2>4. CASE Stays(t, next)
    BY <2>4, <2>2 DEF Stays, VVars, Status, Boundary, next
  <2>5. CASE Takes(t, next)
    <3>1. V!Take
      BY <2>5, <2>3 DEF Takes, V!Take, V!NoDisabledLabel
    <3> QED BY <3>1 DEF V!Next
  <2>6. ASSUME NEW enabled \in SUBSET Labels, IsDisabled(t, next, label, enabled)
        PROVE  V!Disable(label, enabled)
    <3>1. UNCHANGED <<adapter.observe[current["v"].source], Boundary(current["v"])>>
      BY <2>6, <2>2, <2>3 DEF IsDisabled, next
    <3> QED BY <3>1, <2>6, <2>3 DEF IsDisabled, V!Disable, V!Disabled, V!NoDisabledLabel
  <2>7. CASE IsRefused(t, next)
    <3>1. UNCHANGED <<adapter.observe[current["v"].source], Boundary(current["v"])>>
      BY <2>7, <2>2, <2>3 DEF IsRefused, next
    <3>2. V!Refuse
      BY <3>1, <2>7, <2>3 DEF IsRefused, V!Refuse, V!Refused, V!NoDisabledLabel
    <3> QED BY <3>2 DEF V!Next
  <2>8. \/ Stays(t, next)
        \/ Takes(t, next)
        \/ \E enabled \in SUBSET Labels : IsDisabled(t, next, label, enabled)
        \/ IsRefused(t, next)
    BY <2>2, OneLabel
  <2> QED BY <2>4, <2>5, <2>6, <2>7, <2>8 DEF V!Next
<1> QED BY <1>1, <1>2

\* Both sides of a comparison implement the promise of a residual: labels are
\* taken until one cannot be, and what is recorded of that one is final.
THEOREM LTSImplementsResidual == Spec => ImplementsResidual
<1>1. Init => TotalTypeOK /\ U!Init /\ V!Init
  BY TotalTypeInit, UInit, VInit
<1>2. TotalTypeOK /\ [Next]_vars => TotalTypeOK'
  BY TotalTypeNext
<1>3. TotalTypeOK /\ [Next]_vars => [U!Next]_UVars /\ [V!Next]_VVars
  BY UStep, VStep
<1>4. Spec => U!Init /\ [][U!Next]_UVars /\ V!Init /\ [][V!Next]_VVars
  BY <1>1, <1>2, <1>3, PTL DEF Spec
<1> QED BY <1>4, PTL DEF ImplementsResidual, U!Spec, V!Spec, UVars, VVars

-----------------------------------------------------------------------------
(* The run of the caller's system that a residual stands for.               *)

EndedAt(w, n) == n > 0 /\ w[n] \in TerminalLabels

\* run is a run of system a from a state, on the first n labels of word w.
IsRun(a, from, w, n, run) ==
  /\ run \in [0..n -> States]
  /\ run[0] = from
  /\ \A i \in 1..n :
       /\ w[i] \in a.enabled[run[i - 1]]
       /\ run[i] = a.transition[run[i - 1]][w[i]]
       /\ w[i] \in TerminalLabels => i = n

\* What label makes of a state in which it is not enabled.
Stopped(a, s, label) ==
  IF a.observe[s].enabled_actions \in {Absent, a.enabled[s]}
  THEN Sink(s, label, a.enabled[s], "NotEnabled")
  ELSE Raised(s)

\* The run goes no further, and t is what is read of it.
StandsAt(a, w, n, run, t) ==
  /\ n = Len(w) => t = IF EndedAt(w, n) THEN Terminal(run[n]) ELSE Raw(run[n])
  /\ n < Len(w) /\ EndedAt(w, n) => t = Sink(run[n], w[n + 1], {}, "AfterTerminal")
  /\ n < Len(w) /\ ~ EndedAt(w, n) => /\ w[n + 1] \notin a.enabled[run[n]]
                                      /\ t = Stopped(a, run[n], w[n + 1])

\* t is the residual, at word w, of the state a run starts from.
IsResidual(a, from, w, t) ==
  \E n \in 0..Len(w) : \E run \in [0..n -> States] :
    IsRun(a, from, w, n, run) /\ StandsAt(a, w, n, run, t)

RunInv ==
  /\ TotalTypeOK
  /\ start \in [Sides -> States]
  /\ word \in Seq(Labels)
  /\ \A s \in Sides : IsResidual(adapter, start[s], word, current[s])

\* A run can be made longer by a label that is enabled where it is.
LEMMA LongerRun ==
  ASSUME NEW a \in Adapters, NEW from, NEW w \in Seq(Labels), NEW n \in 0..Len(w),
         NEW run, IsRun(a, from, w, n, run), ~ EndedAt(w, n),
         n < Len(w), w[n + 1] \in a.enabled[run[n]], NEW longer,
         longer = [i \in 0..(n + 1) |->
                     IF i = n + 1 THEN a.transition[run[n]][w[n + 1]] ELSE run[i]]
  PROVE  IsRun(a, from, w, n + 1, longer)
<1>1. n \in Nat /\ Len(w) \in Nat /\ run \in [0..n -> States] /\ w[n + 1] \in Labels
  BY DEF IsRun
<1>2. run[n] \in States /\ a.transition[run[n]][w[n + 1]] \in States
  BY <1>1, AdaptersAssumption
<1>3. /\ longer \in [0..(n + 1) -> States]
      /\ longer[n + 1] = a.transition[run[n]][w[n + 1]]
      /\ \A i \in 0..n : longer[i] = run[i]
  BY <1>1, <1>2
<1>4. longer[0] = from
  BY <1>1, <1>3 DEF IsRun
<1>5. ASSUME NEW i \in 1..n
      PROVE  /\ w[i] \in a.enabled[longer[i - 1]]
             /\ longer[i] = a.transition[longer[i - 1]][w[i]]
             /\ w[i] \notin TerminalLabels
  <2>1. i \in 0..n /\ i - 1 \in 0..n
    BY <1>1
  <2>2. /\ w[i] \in a.enabled[run[i - 1]]
        /\ run[i] = a.transition[run[i - 1]][w[i]]
        /\ w[i] \in TerminalLabels => i = n
    BY DEF IsRun
  <2>3. w[i] \notin TerminalLabels
    BY <1>1, <2>2 DEF EndedAt
  <2> QED
    BY <1>3, <2>1, <2>2, <2>3
<1>6. \A i \in 1..(n + 1) : i \in 1..n \/ (i = n + 1 /\ i - 1 = n)
  BY <1>1
<1>7. n \in 0..n
  BY <1>1
<1>8. /\ w[n + 1] \in a.enabled[longer[n]]
      /\ longer[n + 1] = a.transition[longer[n]][w[n + 1]]
  BY <1>3, <1>7
<1>9. ASSUME NEW i \in 1..(n + 1)
      PROVE  /\ w[i] \in a.enabled[longer[i - 1]]
             /\ longer[i] = a.transition[longer[i - 1]][w[i]]
             /\ w[i] \in TerminalLabels => i = n + 1
  <2>1. CASE i \in 1..n
    BY <1>5, <2>1
  <2>2. CASE i = n + 1 /\ i - 1 = n
    BY <1>8, <2>2
  <2> QED
    BY <1>6, <2>1, <2>2
<1> QED
  BY <1>3, <1>4, <1>9 DEF IsRun

\* What a run on a part of a word is does not depend on what follows.
LEMMA RunOfPrefix ==
  ASSUME NEW a, NEW from, NEW w \in Seq(Labels), NEW label \in Labels,
         NEW n \in 0..Len(w), NEW run
  PROVE  /\ IsRun(a, from, Append(w, label), n, run) <=> IsRun(a, from, w, n, run)
         /\ EndedAt(Append(w, label), n) <=> EndedAt(w, n)
<1>1. n \in Nat /\ Len(w) \in Nat /\ \A i \in 1..n : Append(w, label)[i] = w[i]
  OBVIOUS
<1> HIDE DEF IsRun
<1>2. IsRun(a, from, Append(w, label), n, run) <=> IsRun(a, from, w, n, run)
  BY <1>1 DEF IsRun
<1>3. EndedAt(Append(w, label), n) <=> EndedAt(w, n)
  BY <1>1 DEF EndedAt
<1> QED
  BY <1>2, <1>3

\* A label that cannot be taken leaves the run where it stands.
LEMMA StandsStill ==
  ASSUME NEW from, NEW w \in Seq(Labels), NEW label \in Labels, NEW t,
         NEW n \in 0..Len(w), NEW run \in [0..n -> States],
         IsRun(adapter, from, w, n, run), StandsAt(adapter, w, n, run, t),
         n < Len(w) \/ EndedAt(w, n) \/ label \notin adapter.enabled[run[n]]
  PROVE  /\ n \in 0..Len(Append(w, label))
         /\ IsRun(adapter, from, Append(w, label), n, run)
         /\ StandsAt(adapter, Append(w, label), n, run, DeltaBar(t, label))
<1> DEFINE longer == Append(w, label)
<1>1. /\ Len(w) \in Nat /\ Len(longer) = Len(w) + 1
      /\ n \in Nat /\ n <= Len(w) /\ n \in 0..Len(longer) /\ n < Len(longer)
      /\ longer[Len(w) + 1] = label
      /\ n < Len(w) => longer[n + 1] = w[n + 1]
  OBVIOUS
<1>2. /\ IsRun(adapter, from, longer, n, run)
      /\ EndedAt(longer, n) <=> EndedAt(w, n)
  BY RunOfPrefix
<1> HIDE DEF longer
<1>3. CASE n < Len(w)
  <2>1. t.kind \in {"Sink", "Raised"}
    BY <1>3 DEF StandsAt, Stopped, Sink, Raised
  <2>2. DeltaBar(t, label) = t
    BY <2>1 DEF DeltaBar
  <2>3. StandsAt(adapter, longer, n, run, t)
    BY <1>1, <1>2, <1>3 DEF StandsAt
  <2> QED
    BY <1>1, <1>2, <2>2, <2>3 DEF longer
<1>4. CASE n = Len(w) /\ EndedAt(w, n)
  <2>1. DeltaBar(t, label) = Sink(run[n], label, {}, "AfterTerminal")
    BY <1>4 DEF StandsAt, Terminal, DeltaBar
  <2>2. StandsAt(adapter, longer, n, run, DeltaBar(t, label))
    BY <1>1, <1>2, <1>4, <2>1 DEF StandsAt
  <2> QED
    BY <1>1, <1>2, <2>2 DEF longer
<1>5. CASE n = Len(w) /\ ~ EndedAt(w, n) /\ label \notin adapter.enabled[run[n]]
  <2>1. DeltaBar(t, label) = Stopped(adapter, run[n], label)
    BY <1>5 DEF StandsAt, Raw, DeltaBar, Unmatched, Consistent, Stopped
  <2>2. StandsAt(adapter, longer, n, run, DeltaBar(t, label))
    BY <1>1, <1>2, <1>5, <2>1 DEF StandsAt
  <2> QED
    BY <1>1, <1>2, <2>2 DEF longer
<1> QED
  BY <1>1, <1>3, <1>4, <1>5

\* A label that can be taken extends the run.
LEMMA StandsFurther ==
  ASSUME adapter \in Adapters, NEW from, NEW w \in Seq(Labels), NEW label \in Labels, NEW t,
         NEW n, n = Len(w), NEW run \in [0..n -> States],
         IsRun(adapter, from, w, n, run), StandsAt(adapter, w, n, run, t),
         ~ EndedAt(w, n), label \in adapter.enabled[run[n]]
  PROVE  /\ IsResidual(adapter, from, Append(w, label), DeltaBar(t, label))
         /\ DeltaBar(t, label).kind \in {"State", "Terminal"}
<1> DEFINE longer == Append(w, label)
           next == adapter.transition[run[n]][label]
           more == [i \in 0..(n + 1) |-> IF i = n + 1 THEN next ELSE run[i]]
<1>1. /\ longer \in Seq(Labels) /\ Len(longer) = n + 1 /\ n \in Nat
      /\ longer[n + 1] = label /\ n \in 0..Len(longer) /\ n \in 0..Len(w)
      /\ n + 1 \in 0..Len(longer)
  OBVIOUS
<1>2. /\ IsRun(adapter, from, longer, n, run)
      /\ EndedAt(longer, n) <=> EndedAt(w, n)
  BY <1>1, RunOfPrefix
<1> HIDE DEF longer
<1>3. IsRun(adapter, from, longer, n + 1, more)
  BY <1>1, <1>2, LongerRun
<1>4. more \in [0..(n + 1) -> States] /\ more[n + 1] = next
  BY <1>1, <1>3 DEF IsRun
<1>5. EndedAt(longer, n + 1) <=> label \in TerminalLabels
  BY <1>1 DEF EndedAt
<1>6. DeltaBar(t, label) = IF label \in TerminalLabels THEN Terminal(next) ELSE Raw(next)
  BY DEF StandsAt, Raw, DeltaBar, Matched
<1> HIDE DEF more, next
<1>7. StandsAt(adapter, longer, n + 1, more, DeltaBar(t, label))
  BY <1>1, <1>4, <1>5, <1>6 DEF StandsAt
<1>8. IsResidual(adapter, from, longer, DeltaBar(t, label))
  BY <1>1, <1>3, <1>4, <1>7 DEF IsResidual
<1> QED
  BY <1>6, <1>8 DEF longer, Terminal, Raw

\* delta_bar turns the residual at a word into the one at the longer word.
LEMMA ResidualExtends ==
  ASSUME adapter \in Adapters, NEW from, NEW w \in Seq(Labels), NEW label \in Labels, NEW t,
         IsResidual(adapter, from, w, t)
  PROVE  IsResidual(adapter, from, Append(w, label), DeltaBar(t, label))
<1>1. PICK n \in 0..Len(w) : \E run \in [0..n -> States] :
        IsRun(adapter, from, w, n, run) /\ StandsAt(adapter, w, n, run, t)
  BY DEF IsResidual
<1>2. PICK run \in [0..n -> States] :
        IsRun(adapter, from, w, n, run) /\ StandsAt(adapter, w, n, run, t)
  BY <1>1
<1>3. CASE n < Len(w) \/ EndedAt(w, n) \/ label \notin adapter.enabled[run[n]]
  BY <1>2, <1>3, StandsStill DEF IsResidual
<1>4. CASE n = Len(w) /\ ~ EndedAt(w, n) /\ label \in adapter.enabled[run[n]]
  BY <1>2, <1>4, StandsFurther
<1> QED
  BY <1>3, <1>4

\* The empty word has been run as far as it goes.
LEMMA RunInvInit == Init => RunInv
<1> SUFFICES ASSUME Init PROVE RunInv
  OBVIOUS
<1>1. TotalTypeOK
  BY TotalTypeInit
<1>2. start \in [Sides -> States]
  BY StartsAssumption DEF Init
<1>3. word = <<>> /\ word \in Seq(Labels) /\ Len(word) = 0
  BY DEF Init
<1>4. ASSUME NEW s \in Sides PROVE IsResidual(adapter, start[s], word, current[s])
  <2> DEFINE run == [i \in 0..0 |-> start[s]]
  <2>1. run \in [0..0 -> States] /\ run[0] = start[s]
    BY <1>2
  <2>2. current[s] = Raw(start[s])
    BY DEF Init
  <2> HIDE DEF run
  <2>3. IsRun(adapter, start[s], word, 0, run)
    BY <2>1 DEF IsRun
  <2>4. StandsAt(adapter, word, 0, run, current[s])
    BY <1>3, <2>1, <2>2 DEF StandsAt, EndedAt
  <2>5. 0 \in 0..Len(word)
    BY <1>3
  <2> QED
    BY <2>1, <2>3, <2>4, <2>5 DEF IsResidual
<1> QED
  BY <1>1, <1>2, <1>3, <1>4 DEF RunInv

\* A label that is read extends the run, or stops it for good.
LEMMA RunInvNext == RunInv /\ [Next]_vars => RunInv'
<1> SUFFICES ASSUME RunInv, [Next]_vars PROVE RunInv'
  OBVIOUS
<1>1. TotalTypeOK'
  BY TotalTypeNext DEF RunInv
<1>2. CASE UNCHANGED vars
  BY <1>1, <1>2 DEF vars, RunInv
<1>3. CASE Next
  <2>1. PICK label \in Labels : Extend(label)
    BY <1>3 DEF Next
  <2>2. /\ word' = Append(word, label)
        /\ adapter' = adapter /\ start' = start
        /\ \A s \in Sides : current'[s] = DeltaBar(current[s], label)
    BY <2>1 DEF Extend
  <2>3. word' \in Seq(Labels)
    BY <2>2 DEF RunInv
  <2>4. \A s \in Sides :
          IsResidual(adapter, start[s], Append(word, label), DeltaBar(current[s], label))
    BY ResidualExtends DEF RunInv, TotalTypeOK
  <2> QED
    BY <1>1, <2>2, <2>3, <2>4 DEF RunInv
<1> QED
  BY <1>2, <1>3

-----------------------------------------------------------------------------
(* There is one longest run, so it is the one ResidualOf speaks of.         *)

\* Two runs from one state go through the same states.
LEMMA RunsAgree ==
  ASSUME NEW a, NEW from, NEW w, NEW n \in Nat, NEW m \in Nat, n <= m,
         NEW run, NEW other, IsRun(a, from, w, n, run), IsRun(a, from, w, m, other)
  PROVE  \A i \in 0..n : run[i] = other[i]
<1> DEFINE Apart == {i \in 0..n : run[i] # other[i]}
<1> SUFFICES ASSUME Apart # {} PROVE FALSE
  OBVIOUS
<1>1. Apart \in SUBSET Nat
  OBVIOUS
<1>2. PICK i \in Apart : \A j \in Apart : ~ (<<j, i>> \in OpToRel(<, Nat))
  BY <1>1, NatLessThanWellFounded, WFMin
<1>3. \A j \in Apart : ~ (j < i)
  BY <1>1, <1>2 DEF OpToRel
<1>4. i # 0
  BY <1>2 DEF IsRun
<1>5. i \in 1..n /\ i \in 1..m /\ i - 1 \in 0..n /\ i - 1 < i
  BY <1>4
<1>6. run[i - 1] = other[i - 1]
  BY <1>3, <1>5
<1>7. /\ run[i] = a.transition[run[i - 1]][w[i]]
      /\ other[i] = a.transition[other[i - 1]][w[i]]
  BY <1>5 DEF IsRun
<1> QED
  BY <1>6, <1>7

\* A part of a run is a run.
LEMMA PartOfRun ==
  ASSUME NEW a, NEW from, NEW w, NEW n \in Nat, NEW m \in 0..n,
         NEW run, IsRun(a, from, w, n, run)
  PROVE  IsRun(a, from, w, m, [i \in 0..m |-> run[i]])
<1> DEFINE part == [i \in 0..m |-> run[i]]
<1>1. run \in [0..n -> States] /\ m \in Nat /\ m <= n
  BY DEF IsRun
<1>2. part \in [0..m -> States] /\ \A i \in 0..m : part[i] = run[i]
  BY <1>1
<1>3. part[0] = from
  BY <1>1, <1>2 DEF IsRun
<1> HIDE DEF part
<1>4. ASSUME NEW i \in 1..m
      PROVE  /\ w[i] \in a.enabled[part[i - 1]]
             /\ part[i] = a.transition[part[i - 1]][w[i]]
             /\ w[i] \in TerminalLabels => i = m
  <2>1. i \in 1..n /\ i \in 0..m /\ i - 1 \in 0..m
    BY <1>1
  <2>2. /\ w[i] \in a.enabled[run[i - 1]]
        /\ run[i] = a.transition[run[i - 1]][w[i]]
        /\ w[i] \in TerminalLabels => i = n
    BY <2>1 DEF IsRun
  <2> QED
    BY <1>1, <1>2, <2>1, <2>2
<1>5. IsRun(a, from, w, m, part)
  BY <1>2, <1>3, <1>4 DEF IsRun
<1> QED
  BY <1>5 DEF part

\* Where a residual stands, no run goes further.
LEMMA NoLongerRun ==
  ASSUME NEW a, NEW from, NEW w \in Seq(Labels), NEW n \in 0..Len(w), NEW run, NEW t,
         IsRun(a, from, w, n, run), StandsAt(a, w, n, run, t),
         NEW m \in (n + 1)..Len(w), NEW other, IsRun(a, from, w, m, other)
  PROVE  FALSE
<1>1. n \in Nat /\ m \in Nat /\ n < m /\ n < Len(w) /\ n + 1 \in 1..m /\ (n + 1) - 1 = n
  OBVIOUS
<1>2. other[n] = run[n]
  BY <1>1, RunsAgree
<1>3. CASE EndedAt(w, n)
  <2>1. n \in 1..m /\ w[n] \in TerminalLabels
    BY <1>1, <1>3 DEF EndedAt
  <2>2. n = m
    BY <2>1 DEF IsRun
  <2> QED
    BY <1>1, <2>2
<1>4. CASE ~ EndedAt(w, n)
  <2>1. w[n + 1] \notin a.enabled[run[n]]
    BY <1>1, <1>4 DEF StandsAt
  <2>2. w[n + 1] \in a.enabled[other[(n + 1) - 1]]
    BY <1>1 DEF IsRun
  <2> QED
    BY <1>1, <1>2, <2>1, <2>2
<1> QED
  BY <1>3, <1>4

\* The runs on a part of a word, as the specification has them.
LEMMA RunsArePrefixRuns ==
  ASSUME NEW s \in Sides, NEW w \in Seq(Labels), NEW n \in 0..Len(w), NEW run
  PROVE  run \in Runs(s, SubSeq(w, 1, n)) <=> IsRun(adapter, start[s], w, n, run)
<1> DEFINE part == SubSeq(w, 1, n)
<1>1. n \in Nat /\ n <= Len(w) /\ Len(w) \in Nat
  OBVIOUS
<1>2. Len(part) = n /\ DOMAIN part = 1..n /\ \A i \in 1..n : part[i] = w[i]
  BY <1>1
<1> HIDE DEF part
<1>3. run \in Runs(s, part) <=>
        /\ run \in [0..n -> States]
        /\ run[0] = start[s]
        /\ \A i \in 1..n : /\ part[i] \in adapter.enabled[run[i - 1]]
                           /\ run[i] = adapter.transition[run[i - 1]][part[i]]
                           /\ part[i] \in TerminalLabels => i = n
  BY <1>2 DEF Runs
<1>4. run \in Runs(s, part) <=> IsRun(adapter, start[s], w, n, run)
  BY <1>2, <1>3 DEF IsRun
<1> QED
  BY <1>4 DEF part

\* Where a residual stands is how much of the word can be executed, and by one
\* run only.
LEMMA ExecutedIs ==
  ASSUME NEW s \in Sides, NEW w \in Seq(Labels), NEW n \in 0..Len(w), NEW run, NEW t,
         IsRun(adapter, start[s], w, n, run), StandsAt(adapter, w, n, run, t)
  PROVE  Executed(s, w) = n /\ Runs(s, SubSeq(w, 1, n)) = {run}
<1> DEFINE Runnable(m) == Runs(s, SubSeq(w, 1, m)) # {}
<1>1. n \in Nat /\ Len(w) \in Nat /\ n <= Len(w)
  OBVIOUS
<1>2. \A m \in 0..n : Runnable(m)
  <2> SUFFICES ASSUME NEW m \in 0..n PROVE Runnable(m)
    OBVIOUS
  <2>1. IsRun(adapter, start[s], w, m, [i \in 0..m |-> run[i]])
    BY <1>1, PartOfRun
  <2>2. m \in 0..Len(w)
    BY <1>1
  <2> QED
    BY <2>1, <2>2, RunsArePrefixRuns
<1>3. \A m \in (n + 1)..Len(w) : ~ Runnable(m)
  <2> SUFFICES ASSUME NEW m \in (n + 1)..Len(w), NEW other \in Runs(s, SubSeq(w, 1, m))
               PROVE  FALSE
    OBVIOUS
  <2>1. m \in 0..Len(w)
    BY <1>1
  <2>2. IsRun(adapter, start[s], w, m, other)
    BY <2>1, RunsArePrefixRuns
  <2> QED
    BY <2>2, NoLongerRun
<1>4. Runs(s, SubSeq(w, 1, n)) = {run}
  <2>1. run \in Runs(s, SubSeq(w, 1, n))
    BY RunsArePrefixRuns
  <2>2. ASSUME NEW other \in Runs(s, SubSeq(w, 1, n)) PROVE other = run
    <3>1. IsRun(adapter, start[s], w, n, other)
      BY <2>2, RunsArePrefixRuns
    <3>2. \A i \in 0..n : run[i] = other[i]
      BY <1>1, <3>1, RunsAgree
    <3> QED
      BY <3>1, <3>2 DEF IsRun
  <2> QED
    BY <2>1, <2>2
<1> HIDE DEF Runnable
<1>5. \A m \in 0..Len(w) : Runnable(m) /\ (m < Len(w) => ~ Runnable(m + 1)) <=> m = n
  BY <1>1, <1>2, <1>3
<1>6. Executed(s, w) = CHOOSE m \in 0..Len(w) : Runnable(m) /\ (m < Len(w) => ~ Runnable(m + 1))
  BY DEF Executed, Runnable
<1>7. Executed(s, w) = n
  BY <1>5, <1>6
<1> QED
  BY <1>4, <1>7

\* The residual at a word is that of its longest executable part.
LEMMA ResidualUnique ==
  ASSUME NEW s \in Sides, NEW w \in Seq(Labels), NEW t,
         IsResidual(adapter, start[s], w, t)
  PROVE  t = ResidualOf(s, w)
<1>1. PICK n \in 0..Len(w) : \E run \in [0..n -> States] :
        IsRun(adapter, start[s], w, n, run) /\ StandsAt(adapter, w, n, run, t)
  BY DEF IsResidual
<1>2. PICK run \in [0..n -> States] :
        IsRun(adapter, start[s], w, n, run) /\ StandsAt(adapter, w, n, run, t)
  BY <1>1
<1>3. Executed(s, w) = n /\ Runs(s, SubSeq(w, 1, n)) = {run}
  BY <1>2, ExecutedIs
<1>4. (CHOOSE r \in Runs(s, SubSeq(w, 1, n)) : TRUE) = run
  BY <1>3
<1>5. n < Len(w) \/ n = Len(w)
  OBVIOUS
<1> DEFINE ended == n > 0 /\ w[n] \in TerminalLabels
<1>6. ResidualOf(s, w) =
        CASE n = Len(w) -> IF ended THEN Terminal(run[n]) ELSE Raw(run[n])
          [] n < Len(w) /\ ended -> Sink(run[n], w[n + 1], {}, "AfterTerminal")
          [] OTHER -> Stopped(adapter, run[n], w[n + 1])
  BY <1>3, <1>4 DEF ResidualOf, Stopped
<1>7. ended <=> EndedAt(w, n)
  BY DEF EndedAt
<1> HIDE DEF ended
<1> QED
  BY <1>2, <1>5, <1>6, <1>7 DEF StandsAt

\* In every run a residual is what the caller's own system makes of the word.
THEOREM ResidualIsTheRunAlways == Spec => []ResidualIsTheRun
<1>1. RunInv => ResidualIsTheRun
  BY ResidualUnique DEF RunInv, ResidualIsTheRun
<1> QED
  BY <1>1, RunInvInit, RunInvNext, PTL DEF Spec

-----------------------------------------------------------------------------
(* Agreement.                                                               *)

\* A residual is decided exactly when a part of the word could not be executed,
\* and its offset is then final.
LEMMA OffsetIsFinal ==
  ASSUME adapter \in Adapters, NEW s \in Sides, NEW w \in Seq(Labels), NEW label \in Labels,
         NEW t, IsResidual(adapter, start[s], w, t)
  PROVE  \/ /\ DeltaBar(t, label).kind \in {"State", "Terminal"}
            /\ Executed(s, Append(w, label)) = Len(w) + 1
         \/ /\ DeltaBar(t, label).kind \in {"Sink", "Raised"}
            /\ Executed(s, Append(w, label)) = Executed(s, w)
<1> DEFINE longer == Append(w, label)
           later == DeltaBar(t, label)
<1>1. longer \in Seq(Labels) /\ Len(longer) = Len(w) + 1 /\ Len(w) \in Nat
  OBVIOUS
<1>2. PICK n \in 0..Len(w) : \E run \in [0..n -> States] :
        IsRun(adapter, start[s], w, n, run) /\ StandsAt(adapter, w, n, run, t)
  BY DEF IsResidual
<1>3. PICK run \in [0..n -> States] :
        IsRun(adapter, start[s], w, n, run) /\ StandsAt(adapter, w, n, run, t)
  BY <1>2
<1>4. Executed(s, w) = n
  BY <1>3, ExecutedIs
<1>5. CASE n < Len(w) \/ EndedAt(w, n) \/ label \notin adapter.enabled[run[n]]
  <2>1. /\ n \in 0..Len(longer)
        /\ IsRun(adapter, start[s], longer, n, run)
        /\ StandsAt(adapter, longer, n, run, later)
    BY <1>3, <1>5, StandsStill
  <2> HIDE DEF longer, later
  <2>2. Executed(s, longer) = n
    BY <1>1, <2>1, ExecutedIs
  <2>3. later.kind \in {"Sink", "Raised"}
    BY <1>1, <2>1 DEF StandsAt, Stopped, Sink, Raised
  <2> QED
    BY <1>4, <2>2, <2>3 DEF longer, later
<1>6. CASE n = Len(w) /\ ~ EndedAt(w, n) /\ label \in adapter.enabled[run[n]]
  <2>1. IsResidual(adapter, start[s], longer, later) /\ later.kind \in {"State", "Terminal"}
    BY <1>3, <1>6, StandsFurther
  <2> HIDE DEF longer, later
  <2>2. PICK m \in 0..Len(longer) : \E path \in [0..m -> States] :
          /\ IsRun(adapter, start[s], longer, m, path)
          /\ StandsAt(adapter, longer, m, path, later)
    BY <2>1 DEF IsResidual
  <2>3. PICK path \in [0..m -> States] :
          /\ IsRun(adapter, start[s], longer, m, path)
          /\ StandsAt(adapter, longer, m, path, later)
    BY <2>2
  <2>4. Executed(s, longer) = m
    BY <1>1, <2>3, ExecutedIs
  <2>5. m = Len(longer)
    BY <1>1, <2>1, <2>3 DEF StandsAt, Stopped, Sink, Raised
  <2> QED
    BY <1>1, <2>1, <2>4, <2>5 DEF longer, later
<1> QED
  BY <1>5, <1>6

\* Residuals that compare equal are both decided or both undecided.
LEMMA AgreeingKinds ==
  ASSUME NEW now \in [Sides -> TotalStates], Compared(now) = "Agree"
  PROVE  \/ now["u"].kind = "Sink" /\ now["v"].kind = "Sink"
         \/ now["u"].kind \in {"State", "Terminal"} /\ now["v"].kind \in {"State", "Terminal"}
<1>1. /\ now["u"].kind # "Raised" /\ now["v"].kind # "Raised"
      /\ TotalObservation(now["u"]) = TotalObservation(now["v"])
  BY DEF Compared, Sides
<1>2. Status(now["u"]) = Status(now["v"])
  BY <1>1 DEF TotalObservation
<1>3. \A s \in Sides : now[s].kind \in {"State", "Terminal", "Raised", "Sink"}
  BY DEF TotalStates, SinkStates
<1>4. \A s \in Sides : /\ now[s].kind = "Sink" => Status(now[s]).kind = "Disabled"
                       /\ now[s].kind \in {"State", "Terminal"}
                            => Status(now[s]).kind = "NoDisabledLabel"
  BY DEF Status
<1> QED
  BY <1>1, <1>2, <1>3, <1>4 DEF Sides

\* The offset is no part of a residual, and agreement on all prefixes of a word
\* settles it all the same.
THEOREM AgreementSharesTheOffsetAlways == Spec => []AgreementSharesTheOffset
<1>1. Init => AgreementSharesTheOffset
  <2> SUFFICES ASSUME Init PROVE Executed("u", word) = Executed("v", word)
    BY DEF AgreementSharesTheOffset
  <2>1. ASSUME NEW s \in Sides PROVE Executed(s, word) = 0
    <3>1. IsResidual(adapter, start[s], word, current[s]) /\ word \in Seq(Labels)
      BY RunInvInit DEF RunInv
    <3>2. PICK n \in 0..Len(word) : \E run \in [0..n -> States] :
            /\ IsRun(adapter, start[s], word, n, run)
            /\ StandsAt(adapter, word, n, run, current[s])
      BY <3>1 DEF IsResidual
    <3>3. Executed(s, word) = n
      BY <3>1, <3>2, ExecutedIs
    <3> QED
      BY <3>3 DEF Init
  <2> QED
    BY <2>1 DEF Sides
<1>2. RunInv /\ AgreementSharesTheOffset /\ [Next]_vars => AgreementSharesTheOffset'
  <2> SUFFICES ASSUME RunInv, AgreementSharesTheOffset, [Next]_vars, outcome' = "Agree"
               PROVE  Executed("u", word)' = Executed("v", word)'
    BY DEF AgreementSharesTheOffset
  <2>1. CASE UNCHANGED vars
    <3>1. word' = word /\ adapter' = adapter /\ start' = start /\ outcome = "Agree"
      BY <2>1 DEF vars
    <3>2. \A s \in Sides : Executed(s, word)' = Executed(s, word)
      BY <3>1 DEF Executed, Runs
    <3> QED
      BY <3>1, <3>2 DEF AgreementSharesTheOffset, Sides
  <2>2. CASE Next
    <3>1. PICK label \in Labels : Extend(label)
      BY <2>2 DEF Next
    <3>2. /\ outcome = "Agree" /\ Compared(current') = "Agree"
          /\ word' = Append(word, label) /\ adapter' = adapter /\ start' = start
          /\ \A s \in Sides : current'[s] = DeltaBar(current[s], label)
      BY <3>1 DEF Extend
    <3>3. Executed("u", word) = Executed("v", word)
      BY <3>2 DEF AgreementSharesTheOffset
    <3>4. \A s \in Sides :
            \/ /\ current'[s].kind \in {"State", "Terminal"}
               /\ Executed(s, Append(word, label)) = Len(word) + 1
            \/ /\ current'[s].kind \in {"Sink", "Raised"}
               /\ Executed(s, Append(word, label)) = Executed(s, word)
      BY <3>2, OffsetIsFinal DEF RunInv, TotalTypeOK
    <3>5. current' \in [Sides -> TotalStates]
      BY TotalTypeNext DEF RunInv, TotalTypeOK
    <3>6. \/ current'["u"].kind = "Sink" /\ current'["v"].kind = "Sink"
          \/ /\ current'["u"].kind \in {"State", "Terminal"}
             /\ current'["v"].kind \in {"State", "Terminal"}
      BY <3>2, <3>5, AgreeingKinds
    <3>7. Executed("u", Append(word, label)) = Executed("v", Append(word, label))
      BY <3>3, <3>4, <3>6 DEF Sides
    <3>8. \A s \in Sides : Executed(s, word)' = Executed(s, Append(word, label))
      BY <3>2 DEF Executed, Runs
    <3> QED
      BY <3>7, <3>8 DEF Sides
  <2> QED
    BY <2>1, <2>2
<1> QED
  BY <1>1, <1>2, RunInvInit, RunInvNext, PTL DEF Spec

-----------------------------------------------------------------------------
(* Values on the heap.                                                      *)

Positions(kind) == IF kind = "dict" THEN {1, 2} ELSE {1}

Cells ==
  [kind : ScalarKinds, value : Nat] \cup [kind : Containers, items : Seq(Seq(Nat))]

\* Containers hold nodes of the heap.
HeapOK ==
  /\ heap \in Seq(Cells)
  /\ \A n \in Nodes : IsContainer(n) => heap[n].items \in Seq([Positions(heap[n].kind) -> Nodes])

\* Every item of a container is a tuple of nodes.
LEMMA ItemsAreNodes ==
  ASSUME HeapOK, NEW n \in Nodes, IsContainer(n)
  PROVE  /\ Len(heap[n].items) \in Nat
         /\ DOMAIN heap[n].items = 1..Len(heap[n].items)
         /\ \A i \in DOMAIN heap[n].items :
              /\ DOMAIN heap[n].items[i] = Positions(heap[n].kind)
              /\ \A k \in Positions(heap[n].kind) : heap[n].items[i][k] \in Nodes
<1>1. heap[n].items \in Seq([Positions(heap[n].kind) -> Nodes])
  BY DEF HeapOK
<1> QED
  BY <1>1

\* The members of a container are nodes and sit in its items.
LEMMA MembersAre ==
  ASSUME HeapOK, NEW n \in Nodes
  PROVE  /\ Members(n) \subseteq Nodes
         /\ ~ IsContainer(n) => Members(n) = {}
         /\ IsContainer(n) =>
              /\ \A i \in DOMAIN heap[n].items : \A k \in DOMAIN heap[n].items[i] :
                   heap[n].items[i][k] \in Members(n)
              /\ \A m \in Members(n) :
                   \E i \in DOMAIN heap[n].items : \E k \in DOMAIN heap[n].items[i] :
                     m = heap[n].items[i][k]
<1>1. CASE ~ IsContainer(n)
  BY <1>1 DEF Members
<1>2. CASE IsContainer(n)
  <2>1. \A m : m \in Members(n) <=> \E i \in DOMAIN heap[n].items :
                                     \E k \in DOMAIN heap[n].items[i] : m = heap[n].items[i][k]
    BY <1>2 DEF Members, Range
  <2> QED
    BY <1>2, <2>1, ItemsAreNodes
<1> QED
  BY <1>1, <1>2

\* A node reaches itself and, from what it reaches, the members.
LEMMA ReachedFrom ==
  ASSUME HeapOK, NEW n \in Nodes
  PROVE  /\ Reachable(n) \subseteq Nodes
         /\ n \in Reachable(n)
         /\ \A k \in Reachable(n) : Members(k) \subseteq Reachable(n)
<1>1. \A k \in Reachable(n) : Members(k) \subseteq Nodes
  BY MembersAre DEF Reachable
<1> QED
  BY <1>1 DEF Reachable

\* What is closed under members and holds a node holds all it reaches.
LEMMA ReachedWithin ==
  ASSUME NEW n \in Nodes, NEW S \in SUBSET Nodes, n \in S, \A k \in S : Members(k) \subseteq S
  PROVE  Reachable(n) \subseteq S
BY DEF Reachable

\* What is reached from a reached node is reached.
LEMMA ReachedOnwards ==
  ASSUME HeapOK, NEW n \in Nodes, NEW m \in Reachable(n)
  PROVE  Reachable(m) \subseteq Reachable(n)
<1>1. m \in Nodes /\ Reachable(n) \in SUBSET Nodes
  BY ReachedFrom
<1> QED
  BY <1>1, ReachedFrom, ReachedWithin

\* What a node reaches, other than itself, it reaches through a member.
LEMMA ReachedThrough ==
  ASSUME HeapOK, NEW n \in Nodes, NEW m \in Reachable(n), m # n
  PROVE  \E k \in Members(n) : m \in Reachable(k)
<1> DEFINE S == {n} \cup UNION {Reachable(k) : k \in Members(n)}
<1>1. S \in SUBSET Nodes
  BY MembersAre, ReachedFrom
<1>2. \A k \in S : Members(k) \subseteq S
  <2>1. ASSUME NEW k \in S
        PROVE  Members(k) \subseteq S
    <3>1. CASE k = n
      BY <3>1, MembersAre, ReachedFrom
    <3>2. CASE k # n
      <4>1. PICK j \in Members(n) : k \in Reachable(j)
        BY <3>2
      <4>2. j \in Nodes
        BY MembersAre
      <4> QED
        BY <4>1, <4>2, ReachedFrom
    <3> QED
      BY <3>1, <3>2
  <2> QED
    BY <2>1
<1>3. m \in S
  <2> HIDE DEF S
  <2>1. n \in S
    BY DEF S
  <2> QED
    BY <1>1, <1>2, <2>1, ReachedWithin
<1> QED
  BY <1>3

\* A value that holds a value without end has none, and the other way round.
LEMMA CyclicThroughMembers ==
  ASSUME HeapOK, NEW n \in Nodes
  PROVE  Cyclic(n) <=> \E m \in Members(n) : Cyclic(m)
<1>1. ASSUME Cyclic(n)
      PROVE  \E m \in Members(n) : Cyclic(m)
  BY <1>1 DEF Cyclic
<1>2. ASSUME NEW m \in Members(n), Cyclic(m)
      PROVE  Cyclic(n)
  <2>1. PICK C \in SUBSET Nodes : m \in C /\ \A k \in C : Members(k) \cap C # {}
    BY <1>2 DEF Cyclic
  <2>2. C \cup {n} \in SUBSET Nodes /\ \A k \in C \cup {n} : Members(k) \cap (C \cup {n}) # {}
    BY <2>1
  <2> QED
    BY <2>2 DEF Cyclic
<1> QED
  BY <1>1, <1>2

\* A node that one of its members reaches is on a cycle.
LEMMA ReachingItself ==
  ASSUME HeapOK, NEW n \in Nodes, NEW m \in Members(n), n \in Reachable(m)
  PROVE  Cyclic(n)
<1> DEFINE C == {k \in Nodes : n \in Reachable(k)}
<1>1. n \in C
  BY ReachedFrom
<1>2. ASSUME NEW k \in C
      PROVE  Members(k) \cap C # {}
  <2>1. CASE k = n
    BY <2>1, MembersAre
  <2>2. CASE k # n
    BY <2>2, MembersAre, ReachedThrough
  <2> QED
    BY <2>1, <2>2
<1>3. C \in SUBSET Nodes
  OBVIOUS
<1> HIDE DEF C
<1> QED
  BY <1>1, <1>2, <1>3 DEF Cyclic

\* What holds of a node when it holds of its members holds of every tree.
LEMMA TreeInduction ==
  ASSUME HeapOK, NEW S \in SUBSET Nodes, \A n \in Nodes : Members(n) \subseteq S => n \in S,
         NEW n \in Nodes, ~ Cyclic(n)
  PROVE  n \in S
<1>1. SUFFICES ASSUME n \notin S PROVE FALSE
  OBVIOUS
<1>2. \A m \in Nodes \ S : Members(m) \cap (Nodes \ S) # {}
  BY MembersAre
<1> QED
  BY <1>1, <1>2 DEF Cyclic

\* A heap is finite.
LEMMA NodesAreFinite ==
  ASSUME HeapOK
  PROVE  /\ IsFiniteSet(Nodes)
         /\ \A S \in SUBSET Nodes : IsFiniteSet(S) /\ Cardinality(S) \in Nat
<1>1. Len(heap) \in Nat /\ Nodes = 1..Len(heap)
  BY DEF HeapOK, Nodes
<1>2. IsFiniteSet(Nodes)
  BY <1>1, FS_Interval
<1> HIDE DEF HeapOK
<1>3. ASSUME NEW S \in SUBSET Nodes
      PROVE  IsFiniteSet(S) /\ Cardinality(S) \in Nat
  BY <1>2, FS_Subset, FS_CardinalityType
<1> QED
  BY <1>2, <1>3

\* A container that becomes active leaves fewer to become so.
LEMMA FewerLeft ==
  ASSUME HeapOK, NEW n \in Nodes, NEW active \in SUBSET Nodes, n \notin active
  PROVE  Cardinality(Nodes \ (active \cup {n})) < Cardinality(Nodes \ active)
<1>1. Nodes \ (active \cup {n}) = (Nodes \ active) \ {n}
  OBVIOUS
<1>2. IsFiniteSet(Nodes \ active) /\ Cardinality(Nodes \ active) \in Nat
  BY NodesAreFinite
<1>3. n \in Nodes \ active
  OBVIOUS
<1>4. Cardinality((Nodes \ active) \ {n}) = Cardinality(Nodes \ active) - 1
  BY <1>2, <1>3, FS_RemoveElement
<1> QED
  BY <1>1, <1>2, <1>4

ItemsEncoded(enc, n, active) ==
  [i \in DOMAIN heap[n].items |->
    [k \in DOMAIN heap[n].items[i] |-> enc[<<heap[n].items[i][k], active \cup {n}>>]]]

EncodingStep(enc, n, active) ==
  IF ~ IsContainer(n) THEN ScalarEncoding(n)
  ELSE IF heap[n].kind \notin Composite \/ n \in active THEN NotEncoded
  ELSE LET items == ItemsEncoded(enc, n, active)
       IN  IF \E i \in DOMAIN items : NotEncoded \in Range(items[i]) THEN NotEncoded
           ELSE <<heap[n].kind, Arranged(heap[n].kind, items)>>

IsEncoding(enc) == enc = [x \in Nodes \X SUBSET Nodes |-> EncodingStep(enc, x[1], x[2])]

\* The recursive definition of Encoding, with its recursion made a predicate.
LEMMA EncodingIsChosen == Encoding = CHOOSE enc : IsEncoding(enc)
  BY DEF Encoding, IsEncoding, EncodingStep, ItemsEncoded

\* What one step makes of a container depends on its items only.
LEMMA StepsAgree ==
  ASSUME HeapOK, NEW f, NEW g, NEW n \in Nodes, NEW active \in SUBSET Nodes,
         n \notin active =>
           \A m \in Members(n) : f[<<m, active \cup {n}>>] = g[<<m, active \cup {n}>>]
  PROVE  EncodingStep(f, n, active) = EncodingStep(g, n, active)
<1>1. CASE ~ IsContainer(n) \/ n \in active
  BY <1>1 DEF EncodingStep
<1>2. CASE IsContainer(n) /\ n \notin active
  <2>1. ItemsEncoded(f, n, active) = ItemsEncoded(g, n, active)
    BY <1>2, MembersAre DEF ItemsEncoded
  <2> QED
    BY <2>1 DEF EncodingStep
<1> QED
  BY <1>1, <1>2

\* f is the encoding where fewer than k nodes are left to become active.
EncodesTo(f, k) ==
  \A n \in Nodes : \A active \in SUBSET Nodes :
    Cardinality(Nodes \ active) < k => f[<<n, active>>] = EncodingStep(f, n, active)

\* One more step of the encoding is right where one more node is left.
LEMMA EncodesFurther ==
  ASSUME HeapOK, NEW k \in Nat, NEW f, EncodesTo(f, k)
  PROVE  EncodesTo([x \in Nodes \X SUBSET Nodes |-> EncodingStep(f, x[1], x[2])], k + 1)
<1> DEFINE g == [x \in Nodes \X SUBSET Nodes |-> EncodingStep(f, x[1], x[2])]
<1>1. \A n \in Nodes : \A active \in SUBSET Nodes : g[<<n, active>>] = EncodingStep(f, n, active)
  OBVIOUS
<1> HIDE DEF g
<1>2. ASSUME NEW n \in Nodes, NEW active \in SUBSET Nodes, Cardinality(Nodes \ active) < k + 1
      PROVE  g[<<n, active>>] = EncodingStep(g, n, active)
  <2>1. ASSUME n \notin active, NEW m \in Members(n)
        PROVE  f[<<m, active \cup {n}>>] = g[<<m, active \cup {n}>>]
    <3>1. m \in Nodes /\ active \cup {n} \in SUBSET Nodes
      BY MembersAre
    <3>2. Cardinality(Nodes \ (active \cup {n})) < k
      <4>1. /\ Cardinality(Nodes \ (active \cup {n})) \in Nat
            /\ Cardinality(Nodes \ active) \in Nat
        BY NodesAreFinite
      <4> QED
        BY <1>2, <2>1, <4>1, FewerLeft
    <3> QED
      BY <1>1, <3>1, <3>2 DEF EncodesTo
  <2>2. EncodingStep(f, n, active) = EncodingStep(g, n, active)
    BY <2>1, StepsAgree
  <2> QED
    BY <1>1, <2>2
<1>3. EncodesTo(g, k + 1)
  BY <1>2 DEF EncodesTo
<1> QED
  BY <1>3 DEF g

\* There is an encoding however many nodes are left.
LEMMA EncodesAny ==
  ASSUME HeapOK, NEW k \in Nat
  PROVE  \E f : EncodesTo(f, k)
<1> DEFINE Bad == {j \in Nat : ~ \E f : EncodesTo(f, j)}
<1>1. SUFFICES ASSUME Bad # {} PROVE FALSE
  OBVIOUS
<1>2. PICK j \in Bad : \A i \in Bad : j <= i
  <2>1. Bad \in SUBSET Nat
    OBVIOUS
  <2> HIDE DEF Bad
  <2> QED
    BY <1>1, <2>1, LeastNumber
<1>3. CASE j = 0
  <2>1. EncodesTo(heap, 0)
    BY NodesAreFinite DEF EncodesTo
  <2> QED
    BY <1>3, <2>1
<1>4. CASE j # 0
  <2>1. j - 1 \in Nat /\ j - 1 \notin Bad
    BY <1>2, <1>4
  <2>2. PICK f : EncodesTo(f, j - 1)
    BY <2>1
  <2>3. \E g : EncodesTo(g, (j - 1) + 1)
    BY <2>1, <2>2, EncodesFurther
  <2>4. (j - 1) + 1 = j
    BY <1>2
  <2> QED
    BY <1>2, <2>3, <2>4
<1> QED
  BY <1>3, <1>4

\* The recursion of _canonical_observation_value has an answer for every value.
LEMMA EncodingIsMade ==
  ASSUME HeapOK
  PROVE  \A n \in Nodes : \A active \in SUBSET Nodes :
           Encoding[<<n, active>>] = EncodingStep(Encoding, n, active)
<1>1. Cardinality(Nodes) + 1 \in Nat
  BY NodesAreFinite
<1>2. PICK f : EncodesTo(f, Cardinality(Nodes) + 1)
  BY <1>1, EncodesAny
<1> DEFINE g == [x \in Nodes \X SUBSET Nodes |-> EncodingStep(f, x[1], x[2])]
<1>3. \A n \in Nodes : \A active \in SUBSET Nodes : g[<<n, active>>] = EncodingStep(f, n, active)
  OBVIOUS
<1>4. ASSUME NEW n \in Nodes, NEW active \in SUBSET Nodes
      PROVE  f[<<n, active>>] = EncodingStep(f, n, active)
  <2>1. /\ Cardinality(Nodes \ active) \in Nat /\ Cardinality(Nodes) \in Nat
        /\ Cardinality(Nodes \ active) <= Cardinality(Nodes)
    BY NodesAreFinite, FS_Subset
  <2> QED
    BY <1>2, <2>1 DEF EncodesTo
<1>5. ASSUME NEW n \in Nodes, NEW active \in SUBSET Nodes
      PROVE  EncodingStep(f, n, active) = EncodingStep(g, n, active)
  <2>1. \A m \in Members(n) : m \in Nodes /\ active \cup {n} \in SUBSET Nodes
    BY MembersAre
  <2>2. \A m \in Members(n) : f[<<m, active \cup {n}>>] = g[<<m, active \cup {n}>>]
    BY <1>3, <1>4, <2>1
  <2> HIDE DEF g
  <2> QED
    BY <2>2, StepsAgree
<1>6. IsEncoding(g)
  BY <1>5 DEF IsEncoding
<1> HIDE DEF g
<1>7. IsEncoding(Encoding)
  BY <1>6, EncodingIsChosen
<1>8. ASSUME NEW enc, IsEncoding(enc), NEW n \in Nodes, NEW active \in SUBSET Nodes
      PROVE  enc[<<n, active>>] = EncodingStep(enc, n, active)
  <2> DEFINE h == [x \in Nodes \X SUBSET Nodes |-> EncodingStep(enc, x[1], x[2])]
  <2>1. h[<<n, active>>] = EncodingStep(enc, n, active)
    OBVIOUS
  <2>2. enc = h
    BY <1>8 DEF IsEncoding
  <2> HIDE DEF h
  <2> QED
    BY <2>1, <2>2
<1> QED
  BY <1>7, <1>8

Encoded(n, active) == Encoding[<<n, active>>] # NotEncoded

\* No encoding fails for a node alone: of a type that has none, or not finite.
Plain(n) ==
  /\ heap[n].kind \notin {"bytes", "set"}
  /\ ~ IsContainer(n) => heap[n].value \notin {NaN, Inf}

\* What the encoding of a scalar is.
LEMMA EncodedScalar ==
  ASSUME HeapOK, NEW n \in Nodes, NEW active \in SUBSET Nodes, ~ IsContainer(n)
  PROVE  /\ Encoding[<<n, active>>] = ScalarEncoding(n)
         /\ Encoded(n, active) <=> Plain(n)
<1>1. Encoding[<<n, active>>] = ScalarEncoding(n)
  BY EncodingIsMade DEF EncodingStep
<1>2. Plain(n) <=> ~ (heap[n].kind = "bytes" \/ heap[n].value \in {NaN, Inf})
  BY DEF Plain, IsContainer, Containers, SetLike, Sequential
<1>3. <<heap[n].kind, Normalized(n)>> # NotEncoded
  BY DEF NotEncoded
<1> QED
  BY <1>1, <1>2, <1>3 DEF ScalarEncoding, Encoded

\* When a container has an encoding, and which.
LEMMA EncodedContainer ==
  ASSUME HeapOK, NEW n \in Nodes, NEW active \in SUBSET Nodes, IsContainer(n)
  PROVE  /\ Encoded(n, active) <=> /\ Plain(n) /\ n \notin active
                                   /\ \A m \in Members(n) : Encoded(m, active \cup {n})
         /\ Encoded(n, active) =>
              Encoding[<<n, active>>]
                = <<heap[n].kind, Arranged(heap[n].kind, ItemsEncoded(Encoding, n, active))>>
<1> DEFINE items == ItemsEncoded(Encoding, n, active)
<1>1. Encoding[<<n, active>>] =
        IF heap[n].kind \notin Composite \/ n \in active THEN NotEncoded
        ELSE IF \E i \in DOMAIN items : NotEncoded \in Range(items[i]) THEN NotEncoded
        ELSE <<heap[n].kind, Arranged(heap[n].kind, items)>>
  BY EncodingIsMade DEF EncodingStep
<1>2. <<heap[n].kind, Arranged(heap[n].kind, items)>> # NotEncoded
  BY DEF NotEncoded
<1>3. (\A i \in DOMAIN items : NotEncoded \notin Range(items[i])) <=>
        \A m \in Members(n) : Encoded(m, active \cup {n})
  <2>1. /\ DOMAIN items = DOMAIN heap[n].items
        /\ \A i \in DOMAIN heap[n].items :
             /\ DOMAIN items[i] = DOMAIN heap[n].items[i]
             /\ \A k \in DOMAIN heap[n].items[i] :
                  items[i][k] = Encoding[<<heap[n].items[i][k], active \cup {n}>>]
    BY DEF ItemsEncoded
  <2> HIDE DEF items
  <2>2. ASSUME NEW i \in DOMAIN heap[n].items
        PROVE  NotEncoded \notin Range(items[i]) <=>
                 \A k \in DOMAIN heap[n].items[i] :
                   Encoded(heap[n].items[i][k], active \cup {n})
    <3>1. Range(items[i]) = {items[i][k] : k \in DOMAIN heap[n].items[i]}
      BY <2>1 DEF Range
    <3>2. \A k \in DOMAIN heap[n].items[i] :
            items[i][k] = Encoding[<<heap[n].items[i][k], active \cup {n}>>]
      BY <2>1
    <3> QED
      BY <3>1, <3>2 DEF Encoded
  <2>3. (\A i \in DOMAIN items : NotEncoded \notin Range(items[i])) <=>
          \A i \in DOMAIN heap[n].items : \A k \in DOMAIN heap[n].items[i] :
            Encoded(heap[n].items[i][k], active \cup {n})
    BY <2>1, <2>2
  <2>4. (\A i \in DOMAIN heap[n].items : \A k \in DOMAIN heap[n].items[i] :
            Encoded(heap[n].items[i][k], active \cup {n})) <=>
          \A m \in Members(n) : Encoded(m, active \cup {n})
    <3>1. /\ \A i \in DOMAIN heap[n].items : \A k \in DOMAIN heap[n].items[i] :
               heap[n].items[i][k] \in Members(n)
          /\ \A m \in Members(n) :
               \E i \in DOMAIN heap[n].items : \E k \in DOMAIN heap[n].items[i] :
                 m = heap[n].items[i][k]
      BY MembersAre
    <3> QED
      BY <3>1
  <2> QED
    BY <2>3, <2>4
<1>4. Plain(n) <=> heap[n].kind \in Composite
  BY DEF Plain, Composite, IsContainer, Containers, SetLike, Sequential
<1> HIDE DEF items
<1>5. Encoded(n, active) <=>
        ~ (\/ heap[n].kind \notin Composite \/ n \in active
           \/ \E i \in DOMAIN items : NotEncoded \in Range(items[i]))
  BY <1>1, <1>2 DEF Encoded
<1>6. Encoded(n, active) =>
        Encoding[<<n, active>>] = <<heap[n].kind, Arranged(heap[n].kind, items)>>
  BY <1>1, <1>5
<1> QED
  BY <1>3, <1>4, <1>5, <1>6 DEF items

\* What is encoded comes to an end.
LEMMA EncodedIsNotCyclic ==
  ASSUME HeapOK, NEW n \in Nodes, NEW active \in SUBSET Nodes, Encoded(n, active)
  PROVE  ~ Cyclic(n)
<1> SUFFICES ASSUME NEW C \in SUBSET Nodes, n \in C, \A m \in C : Members(m) \cap C # {}
             PROVE  FALSE
  BY DEF Cyclic
<1> DEFINE Left == {k \in Nat : \E m \in C : \E a \in SUBSET Nodes :
                                  Encoded(m, a) /\ k = Cardinality(Nodes \ a)}
<1>1. Left # {}
  BY NodesAreFinite
<1>2. PICK k \in Left : \A j \in Left : k <= j
  <2>1. Left \in SUBSET Nat
    OBVIOUS
  <2> HIDE DEF Left
  <2> QED
    BY <1>1, <2>1, LeastNumber
<1>3. PICK m \in C, a \in SUBSET Nodes : Encoded(m, a) /\ k = Cardinality(Nodes \ a)
  OBVIOUS
<1>4. PICK j \in Members(m) : j \in C
  OBVIOUS
<1>5. IsContainer(m)
  BY <1>4, MembersAre
<1>6. m \notin a /\ Encoded(j, a \cup {m})
  BY <1>3, <1>4, <1>5, EncodedContainer
<1>7. Cardinality(Nodes \ (a \cup {m})) < k
  BY <1>3, <1>6, FewerLeft
<1>8. Cardinality(Nodes \ (a \cup {m})) \in Left
  BY <1>4, <1>6, NodesAreFinite
<1>9. k \in Nat /\ Cardinality(Nodes \ (a \cup {m})) \in Nat
  BY NodesAreFinite
<1> HIDE DEF Left
<1>10. k <= Cardinality(Nodes \ (a \cup {m}))
  BY <1>2, <1>8
<1> QED
  BY <1>7, <1>9, <1>10

\* Nothing unsupported is reached from what has an encoding.
LEMMA EncodedIsPlain ==
  ASSUME HeapOK, NEW n \in Nodes, NEW active \in SUBSET Nodes, Encoded(n, active)
  PROVE  \A m \in Reachable(n) : Plain(m)
<1> DEFINE S == {m \in Nodes : \E a \in SUBSET Nodes : Encoded(m, a)}
<1>1. ASSUME NEW m \in S
      PROVE  Plain(m) /\ Members(m) \subseteq S
  <2>1. PICK a \in SUBSET Nodes : Encoded(m, a)
    OBVIOUS
  <2>2. CASE IsContainer(m)
    <3>1. a \cup {m} \in SUBSET Nodes /\ Members(m) \subseteq Nodes
      BY MembersAre
    <3> QED
      BY <2>1, <2>2, <3>1, EncodedContainer
  <2>3. CASE ~ IsContainer(m)
    BY <2>1, <2>3, EncodedScalar, MembersAre
  <2> QED
    BY <2>2, <2>3
<1>2. n \in S /\ S \in SUBSET Nodes
  OBVIOUS
<1> HIDE DEF S
<1>3. Reachable(n) \subseteq S
  BY <1>1, <1>2, ReachedWithin
<1> QED
  BY <1>1, <1>3

\* And every finite tree of admitted values is encoded.
LEMMA TreesAreEncoded ==
  ASSUME HeapOK, NEW n \in Nodes, ~ Cyclic(n), \A m \in Reachable(n) : Plain(m),
         NEW active \in SUBSET Nodes, active \cap Reachable(n) = {}
  PROVE  Encoded(n, active)
<1> DEFINE S == {m \in Nodes : ~ Cyclic(m) /\ (\A k \in Reachable(m) : Plain(k)) =>
                   \A a \in SUBSET Nodes : a \cap Reachable(m) = {} => Encoded(m, a)}
<1>1. ASSUME NEW m \in Nodes, Members(m) \subseteq S
      PROVE  m \in S
  <2> SUFFICES ASSUME ~ Cyclic(m), \A k \in Reachable(m) : Plain(k),
                      NEW a \in SUBSET Nodes, a \cap Reachable(m) = {}
               PROVE  Encoded(m, a)
    OBVIOUS
  <2>1. Plain(m) /\ m \notin a
    BY ReachedFrom
  <2>2. ASSUME NEW k \in Members(m)
        PROVE  Encoded(k, a \cup {m})
    <3>1. k \in Nodes /\ k \in Reachable(m)
      BY MembersAre, ReachedFrom
    <3>2. Reachable(k) \subseteq Reachable(m)
      BY <3>1, ReachedOnwards
    <3>3. ~ Cyclic(k)
      BY <3>1, CyclicThroughMembers
    <3>4. m \notin Reachable(k)
      BY ReachingItself
    <3>5. (a \cup {m}) \cap Reachable(k) = {} /\ a \cup {m} \in SUBSET Nodes
      BY <3>2, <3>4
    <3>6. k \in S
      BY <1>1
    <3> QED
      BY <3>2, <3>3, <3>5, <3>6
  <2> HIDE DEF S
  <2>3. CASE IsContainer(m)
    BY <2>1, <2>2, <2>3, EncodedContainer
  <2>4. CASE ~ IsContainer(m)
    BY <2>1, <2>4, EncodedScalar
  <2> QED
    BY <2>3, <2>4
<1>2. S \in SUBSET Nodes
  OBVIOUS
<1>3. n \in S
  <2> HIDE DEF S
  <2> QED
    BY <1>1, <1>2, TreeInduction
<1> QED
  BY <1>3

\* A value has a digest exactly when it is a finite tree of admitted values.
LEMMA DigestIsOfTrees ==
  ASSUME HeapOK, NEW n \in Nodes
  PROVE  Digest(n) = NotEncoded <=>
           Cyclic(n) \/ OfKind(n, {"bytes", "set"}) \/ Carries(n, {NaN, Inf})
<1>1. (\A m \in Reachable(n) : Plain(m)) <=>
        ~ OfKind(n, {"bytes", "set"}) /\ ~ Carries(n, {NaN, Inf})
  BY DEF Plain, OfKind, Carries
<1>2. {} \in SUBSET Nodes /\ {} \cap Reachable(n) = {}
  OBVIOUS
<1>3. Encoded(n, {}) <=> ~ Cyclic(n) /\ \A m \in Reachable(n) : Plain(m)
  BY <1>2, EncodedIsNotCyclic, EncodedIsPlain, TreesAreEncoded
<1> QED
  BY <1>1, <1>3 DEF Encoded, Digest

-----------------------------------------------------------------------------
(* The order of a set's or a dict's items.                                  *)

\* To leave everything in its place is to rearrange it.
LEMMA NothingMoves ==
  ASSUME NEW D
  PROVE  /\ [i \in D |-> i] \in Bijection(D, D)
         /\ \A i \in D : [j \in D |-> j][i] = i
BY DEF Bijection, Injection, Surjection, IsInjective

\* A rearrangement of a rearrangement is one of the original.
LEMMA RearrangedToo ==
  ASSUME NEW D, NEW s, NEW t, DOMAIN s = D, DOMAIN t = D,
         NEW f \in Bijection(D, D), \A i \in D : s[i] = t[f[i]]
  PROVE  Rearrangements(s) \subseteq Rearrangements(t)
<1> SUFFICES ASSUME NEW p \in Bijection(D, D)
             PROVE  [i \in D |-> s[p[i]]] \in Rearrangements(t)
  BY DEF Rearrangements
<1>1. [i \in D |-> f[p[i]]] \in Bijection(D, D)
  BY Fun_BijTransitive
<1>2. \A i \in D : p[i] \in D
  BY Fun_BijectionProperties
<1>3. [i \in D |-> s[p[i]]] = [i \in D |-> t[[j \in D |-> f[p[j]]][i]]]
  BY <1>2
<1> QED
  BY <1>1, <1>3 DEF Rearrangements

\* What is rearranged has the same rearrangements as before.
LEMMA RearrangedAlike ==
  ASSUME NEW D, NEW s, NEW t, DOMAIN s = D, DOMAIN t = D,
         NEW f \in Bijection(D, D), \A i \in D : s[i] = t[f[i]]
  PROVE  Rearrangements(s) = Rearrangements(t)
<1>1. PICK g \in Bijection(D, D) : \A i \in D : f[g[i]] = i
  <2>1. Inverse(f, D, D) \in Bijection(D, D) /\ \A i \in D : Inverse(f, D, D)[f[i]] = i
    BY Fun_BijInverse
  <2>2. \A j \in D : \E i \in D : f[i] = j
    BY Fun_BijectionProperties
  <2>3. \A i \in D : f[Inverse(f, D, D)[i]] = i
    BY <2>1, <2>2
  <2> QED
    BY <2>1, <2>3
<1>2. \A i \in D : g[i] \in D
  BY Fun_BijectionProperties
<1>3. \A i \in D : t[i] = s[g[i]]
  BY <1>1, <1>2
<1>4. Rearrangements(s) \subseteq Rearrangements(t)
  BY RearrangedToo
<1>5. Rearrangements(t) \subseteq Rearrangements(s)
  BY <1>3, RearrangedToo
<1> QED
  BY <1>4, <1>5

SetsAndDicts == {"frozenset", "dict"}

\* Whatever order the items of a set come in, they are encoded in one.
LEMMA ArrangedAlike ==
  ASSUME NEW kind \in Composite, NEW D, NEW s, NEW t,
         s = [i \in D |-> s[i]], t = [i \in D |-> t[i]],
         NEW f \in Bijection(D, D), kind \in Sequential => \A i \in D : f[i] = i,
         \A i \in D : s[i] = t[f[i]]
  PROVE  Arranged(kind, s) = Arranged(kind, t)
<1>1. DOMAIN s = D /\ DOMAIN t = D
  OBVIOUS
<1>2. CASE kind \in SetsAndDicts
  <2>1. Rearrangements(s) = Rearrangements(t)
    BY <1>1, RearrangedAlike
  <2> QED
    BY <1>2, <2>1 DEF Arranged, SetsAndDicts
<1>3. CASE kind \notin SetsAndDicts
  <2>1. kind \in Sequential
    BY <1>3 DEF SetsAndDicts, Composite, Containers, Sequential, SetLike
  <2>2. \A i \in D : s[i] = t[i]
    BY <2>1
  <2>3. s = t
    BY <2>2
  <2> QED
    BY <1>3, <2>3 DEF Arranged, SetsAndDicts
<1> QED
  BY <1>2, <1>3

\* And the order tells nothing but which items there are.
LEMMA ArrangedTells ==
  ASSUME NEW kind \in Composite, NEW s, NEW t,
         s = [i \in DOMAIN s |-> s[i]], t = [i \in DOMAIN t |-> t[i]],
         Arranged(kind, s) = Arranged(kind, t)
  PROVE  /\ DOMAIN s = DOMAIN t
         /\ \E f \in Bijection(DOMAIN s, DOMAIN t) :
              /\ kind \in Sequential => \A i \in DOMAIN s : f[i] = i
              /\ \A i \in DOMAIN s : s[i] = t[f[i]]
<1>1. CASE kind \in SetsAndDicts
  <2>1. ASSUME NEW u
        PROVE  Rearrangements(u) # {}
    <3>1. PICK p \in Bijection(DOMAIN u, DOMAIN u) : TRUE
      BY NothingMoves
    <3>2. [i \in DOMAIN u |-> u[p[i]]] \in Rearrangements(u)
      BY <3>1 DEF Rearrangements
    <3> QED
      BY <3>2
  <2>2. Arranged(kind, s) \in Rearrangements(s) /\ Arranged(kind, t) \in Rearrangements(t)
    BY <1>1, <2>1 DEF Arranged, SetsAndDicts
  <2>3. PICK p \in Bijection(DOMAIN s, DOMAIN s) :
          Arranged(kind, s) = [i \in DOMAIN s |-> s[p[i]]]
    BY <2>2 DEF Rearrangements
  <2>4. PICK q \in Bijection(DOMAIN t, DOMAIN t) :
          Arranged(kind, t) = [i \in DOMAIN t |-> t[q[i]]]
    BY <2>2 DEF Rearrangements
  <2>5. DOMAIN s = DOMAIN t
    BY <2>3, <2>4
  <2> DEFINE D == DOMAIN s
             g == Inverse(p, D, D)
             f == [i \in D |-> q[g[i]]]
  <2>6. /\ g \in Bijection(D, D)
        /\ \A i \in D : g[i] \in D /\ p[g[i]] = i
    <3>1. g \in Bijection(D, D) /\ \A i \in D : g[p[i]] = i
      BY Fun_BijInverse
    <3>2. \A j \in D : \E i \in D : p[i] = j
      BY Fun_BijectionProperties
    <3>3. \A i \in D : g[i] \in D
      BY <3>1, Fun_BijectionProperties
    <3> HIDE DEF g
    <3> QED
      BY <3>1, <3>2, <3>3
  <2>7. f \in Bijection(D, D)
    <3> HIDE DEF g
    <3> QED
      BY <2>5, <2>6, Fun_BijTransitive
  <2>8. \A i \in D : s[p[i]] = t[q[i]]
    <3>1. \A i \in D : [j \in D |-> s[p[j]]][i] = [j \in D |-> t[q[j]]][i]
      BY <2>3, <2>4, <2>5
    <3> QED
      BY <3>1
  <2>9. \A i \in D : s[i] = t[f[i]]
    <3> HIDE DEF g, D
    <3> QED
      BY <2>6, <2>8
  <2>10. kind \notin Sequential
    BY <1>1 DEF SetsAndDicts, Sequential
  <2> HIDE DEF f, g
  <2> QED
    BY <2>5, <2>7, <2>9, <2>10
<1>2. CASE kind \notin SetsAndDicts
  <2>1. s = t
    BY <1>2 DEF Arranged, SetsAndDicts
  <2> QED
    BY <2>1, NothingMoves
<1> QED
  BY <1>1, <1>2

-----------------------------------------------------------------------------
(* Trees.                                                                   *)

Same == {p \in Nodes \X Nodes : SameTree(p[1], p[2])}

\* R pairs the items of what it pairs.
Steady(R) ==
  /\ R \subseteq {p \in Nodes \X Nodes : Alike(p[1], p[2])}
  /\ \A p \in R : IsContainer(p[1]) => ItemsMatch(p[1], p[2], R)

\* Items that are pairs of a relation are pairs of a larger one.
LEMMA MatchedInMore ==
  ASSUME NEW l, NEW r, NEW R, NEW R2, R \subseteq R2, ItemsMatch(l, r, R)
  PROVE  ItemsMatch(l, r, R2)
BY DEF ItemsMatch

\* A relation that pairs the items of what it pairs holds only of the same trees.
LEMMA SteadyIsSame ==
  ASSUME NEW R, Steady(R)
  PROVE  R \subseteq Same
<1> SUFFICES ASSUME NEW p \in R
             PROVE  p \in Same
  OBVIOUS
<1>1. p \in Nodes \X Nodes /\ p = <<p[1], p[2]>>
  BY DEF Steady
<1>2. R \in SUBSET {x \in Nodes \X Nodes : Alike(x[1], x[2])}
  BY DEF Steady
<1>3. SameTree(p[1], p[2])
  BY <1>1, <1>2 DEF SameTree, Steady
<1> QED
  BY <1>1, <1>3 DEF Same

\* What is the same has the same items.
LEMMA SameIsSteady == Steady(Same)
<1>1. ASSUME NEW p \in Same
      PROVE  Alike(p[1], p[2]) /\ (IsContainer(p[1]) => ItemsMatch(p[1], p[2], Same))
  <2>1. SameTree(p[1], p[2]) /\ p \in Nodes \X Nodes
    BY DEF Same
  <2>2. PICK R \in SUBSET {x \in Nodes \X Nodes : Alike(x[1], x[2])} :
          /\ <<p[1], p[2]>> \in R
          /\ \A x \in R : IsContainer(x[1]) => ItemsMatch(x[1], x[2], R)
    BY <2>1 DEF SameTree
  <2>3. R \subseteq Same
    BY <2>2, SteadyIsSame DEF Steady
  <2>4. Alike(p[1], p[2]) /\ (IsContainer(p[1]) => ItemsMatch(p[1], p[2], R))
    BY <2>1, <2>2
  <2> QED
    BY <2>3, <2>4, MatchedInMore
<1> QED
  BY <1>1 DEF Steady, Same

\* Two values are the same exactly when they are alike and their items the same.
LEMMA SameTreeIs ==
  ASSUME NEW l \in Nodes, NEW r \in Nodes
  PROVE  SameTree(l, r) <=> Alike(l, r) /\ (IsContainer(l) => ItemsMatch(l, r, Same))
<1>1. ASSUME SameTree(l, r)
      PROVE  Alike(l, r) /\ (IsContainer(l) => ItemsMatch(l, r, Same))
  <2>1. <<l, r>> \in Same
    BY <1>1 DEF Same
  <2> QED
    BY <2>1, SameIsSteady DEF Steady
<1>2. ASSUME Alike(l, r), IsContainer(l) => ItemsMatch(l, r, Same)
      PROVE  SameTree(l, r)
  <2> DEFINE R == Same \cup {<<l, r>>}
  <2>1. \A p \in R : IsContainer(p[1]) => ItemsMatch(p[1], p[2], R)
    <3>1. ASSUME NEW p \in R, IsContainer(p[1])
          PROVE  ItemsMatch(p[1], p[2], R)
      <4>1. ItemsMatch(p[1], p[2], Same)
        BY <1>2, <3>1, SameIsSteady DEF Steady
      <4> QED
        BY <4>1, MatchedInMore
    <3> QED
      BY <3>1
  <2>2. R \subseteq {p \in Nodes \X Nodes : Alike(p[1], p[2])}
    <3>1. <<l, r>> \in {p \in Nodes \X Nodes : Alike(p[1], p[2])}
      BY <1>2
    <3>2. Same \subseteq {p \in Nodes \X Nodes : Alike(p[1], p[2])}
      BY SameIsSteady DEF Steady
    <3> QED
      BY <3>1, <3>2
  <2>3. Steady(R)
    <3> HIDE DEF R
    <3> QED
      BY <2>1, <2>2 DEF Steady
  <2>4. <<l, r>> \in Same
    BY <2>3, SteadyIsSame
  <2> QED
    BY <2>4 DEF Same
<1> QED
  BY <1>1, <1>2

\* The items of a container, encoded, are its encoding but for their order.
LEMMA ItemsOf ==
  ASSUME HeapOK, NEW n \in Nodes, IsContainer(n), NEW active \in SUBSET Nodes
  PROVE  LET items == ItemsEncoded(Encoding, n, active)
         IN  /\ DOMAIN items = DOMAIN heap[n].items
             /\ items = [i \in DOMAIN items |-> items[i]]
             /\ \A i \in DOMAIN heap[n].items :
                  /\ items[i] = [k \in Positions(heap[n].kind) |-> items[i][k]]
                  /\ \A k \in Positions(heap[n].kind) :
                       items[i][k] = Encoding[<<heap[n].items[i][k], active \cup {n}>>]
BY ItemsAreNodes DEF ItemsEncoded

\* An encoding starts with the type.
LEMMA TypeIsEncoded ==
  ASSUME HeapOK, NEW n \in Nodes, NEW active \in SUBSET Nodes, Encoded(n, active)
  PROVE  Encoding[<<n, active>>][1] = heap[n].kind
<1>1. CASE IsContainer(n)
  <2>1. Encoding[<<n, active>>]
          = <<heap[n].kind, Arranged(heap[n].kind, ItemsEncoded(Encoding, n, active))>>
    BY <1>1, EncodedContainer
  <2>2. ASSUME NEW x, NEW y
        PROVE  <<x, y>>[1] = x
    OBVIOUS
  <2> QED
    BY <2>1, <2>2
<1>2. CASE ~ IsContainer(n)
  <2>1. Encoding[<<n, active>>] = ScalarEncoding(n) /\ ScalarEncoding(n) # NotEncoded
    BY <1>2, EncodedScalar DEF Encoded
  <2>2. ScalarEncoding(n) = <<heap[n].kind, Normalized(n)>>
    BY <2>1 DEF ScalarEncoding
  <2> QED
    BY <2>1, <2>2
<1> QED
  BY <1>1, <1>2

\* The pairs that are encoded alike.
Agreeing ==
  {p \in Nodes \X Nodes : \E a, b \in SUBSET Nodes :
     Encoded(p[1], a) /\ Encoding[<<p[1], a>>] = Encoding[<<p[2], b>>]}

\* Two scalars that share an encoding are alike, and the other way round.
LEMMA ScalarsAgree ==
  ASSUME HeapOK, NEW l \in Nodes, NEW r \in Nodes, NEW a \in SUBSET Nodes, NEW b \in SUBSET Nodes,
         ~ IsContainer(l), ~ IsContainer(r), Encoded(l, a), Encoded(r, b)
  PROVE  Encoding[<<l, a>>] = Encoding[<<r, b>>] <=> Alike(l, r)
<1>1. /\ Encoding[<<l, a>>] = ScalarEncoding(l) /\ ScalarEncoding(l) # NotEncoded
      /\ Encoding[<<r, b>>] = ScalarEncoding(r) /\ ScalarEncoding(r) # NotEncoded
  BY EncodedScalar DEF Encoded
<1>2. /\ ScalarEncoding(l) = <<heap[l].kind, Normalized(l)>>
      /\ ScalarEncoding(r) = <<heap[r].kind, Normalized(r)>>
      /\ heap[l].value # NaN
  BY <1>1 DEF ScalarEncoding
<1>3. Normalized(l) # NaN
  BY <1>2 DEF Normalized, NaN
<1>4. <<heap[l].kind, Normalized(l)>> = <<heap[r].kind, Normalized(r)>> <=>
        heap[l].kind = heap[r].kind /\ Normalized(l) = Normalized(r)
  OBVIOUS
<1>5. ScalarsEqual(l, r) = "T" <=> Normalized(l) = Normalized(r)
  BY <1>3 DEF ScalarsEqual
<1> QED
  BY <1>1, <1>2, <1>4, <1>5 DEF Alike, SameType

\* Two containers that share an encoding are alike, and their items agree.
LEMMA ContainersAgree ==
  ASSUME HeapOK, NEW l \in Nodes, NEW r \in Nodes, NEW a \in SUBSET Nodes, NEW b \in SUBSET Nodes,
         IsContainer(l), IsContainer(r), Encoded(l, a), Encoded(r, b),
         Encoding[<<l, a>>] = Encoding[<<r, b>>]
  PROVE  Alike(l, r) /\ ItemsMatch(l, r, Agreeing)
<1> DEFINE s == ItemsEncoded(Encoding, l, a)
           t == ItemsEncoded(Encoding, r, b)
           kind == heap[l].kind
<1>1. heap[l].kind = heap[r].kind
  BY TypeIsEncoded
<1>2. kind \in Composite
  BY EncodedContainer DEF Plain, Composite, IsContainer, Containers, SetLike, Sequential
<1>3. Arranged(kind, s) = Arranged(kind, t)
  <2>1. /\ Encoding[<<l, a>>] = <<kind, Arranged(kind, s)>>
        /\ Encoding[<<r, b>>] = <<kind, Arranged(kind, t)>>
    BY <1>1, EncodedContainer
  <2>2. ASSUME NEW x, NEW y, NEW z, <<x, y>> = <<x, z>>
        PROVE  y = z
    BY <2>2
  <2> HIDE DEF s, t, kind
  <2> QED
    BY <2>1, <2>2
<1>4. /\ DOMAIN s = DOMAIN heap[l].items /\ DOMAIN t = DOMAIN heap[r].items
      /\ s = [i \in DOMAIN s |-> s[i]] /\ t = [i \in DOMAIN t |-> t[i]]
  BY ItemsOf
<1>5. /\ \A i \in DOMAIN heap[l].items : \A k \in Positions(kind) :
           s[i][k] = Encoding[<<heap[l].items[i][k], a \cup {l}>>]
      /\ \A i \in DOMAIN heap[r].items : \A k \in Positions(kind) :
           t[i][k] = Encoding[<<heap[r].items[i][k], b \cup {r}>>]
  <2>1. \A i \in DOMAIN heap[l].items : \A k \in Positions(kind) :
           s[i][k] = Encoding[<<heap[l].items[i][k], a \cup {l}>>]
    BY ItemsOf
  <2>2. \A i \in DOMAIN heap[r].items : \A k \in Positions(heap[r].kind) :
           t[i][k] = Encoding[<<heap[r].items[i][k], b \cup {r}>>]
    BY ItemsOf
  <2> HIDE DEF s, t
  <2> QED
    BY <1>1, <2>1, <2>2
<1> HIDE DEF s, t
<1>6. DOMAIN s = DOMAIN t
  BY <1>2, <1>3, <1>4, ArrangedTells
<1>7. PICK f \in Bijection(DOMAIN s, DOMAIN t) :
        /\ kind \in Sequential => \A i \in DOMAIN s : f[i] = i
        /\ \A i \in DOMAIN s : s[i] = t[f[i]]
  BY <1>2, <1>3, <1>4, ArrangedTells
<1>8. f \in [DOMAIN s -> DOMAIN t]
  BY Fun_BijectionProperties
<1>9. ASSUME NEW i \in DOMAIN heap[l].items, NEW k \in DOMAIN heap[l].items[i]
      PROVE  <<heap[l].items[i][k], heap[r].items[f[i]][k]>> \in Agreeing
  <2>1. k \in Positions(kind) /\ f[i] \in DOMAIN heap[r].items
    BY <1>4, <1>8, ItemsAreNodes
  <2>2. heap[l].items[i][k] \in Nodes /\ heap[r].items[f[i]][k] \in Nodes
    BY <1>1, <2>1, ItemsAreNodes
  <2>3. Encoding[<<heap[l].items[i][k], a \cup {l}>>]
          = Encoding[<<heap[r].items[f[i]][k], b \cup {r}>>]
    BY <1>4, <1>5, <1>7, <2>1
  <2>4. Encoded(heap[l].items[i][k], a \cup {l})
    <3>1. heap[l].items[i][k] \in Members(l)
      BY MembersAre
    <3> QED
      BY <3>1, EncodedContainer
  <2>5. a \cup {l} \in SUBSET Nodes /\ b \cup {r} \in SUBSET Nodes
    OBVIOUS
  <2> QED
    BY <2>2, <2>3, <2>4, <2>5 DEF Agreeing
<1>10. ItemsMatch(l, r, Agreeing)
  BY <1>4, <1>7, <1>8, <1>9 DEF ItemsMatch
<1>11. Len(heap[l].items) = Len(heap[r].items)
  <2>1. /\ Len(heap[l].items) \in Nat /\ Len(heap[r].items) \in Nat
        /\ 1..Len(heap[l].items) = 1..Len(heap[r].items)
    BY <1>4, <1>6, ItemsAreNodes
  <2> QED
    BY <2>1
<1> QED
  BY <1>1, <1>10, <1>11 DEF Alike, SameType

\* What agrees has items that agree.
LEMMA AgreeingIsSteady ==
  ASSUME HeapOK
  PROVE  Steady(Agreeing)
<1>1. ASSUME NEW p \in Agreeing
      PROVE  Alike(p[1], p[2]) /\ (IsContainer(p[1]) => ItemsMatch(p[1], p[2], Agreeing))
  <2>1. p[1] \in Nodes /\ p[2] \in Nodes
    BY DEF Agreeing
  <2>2. PICK a \in SUBSET Nodes, b \in SUBSET Nodes :
          Encoded(p[1], a) /\ Encoding[<<p[1], a>>] = Encoding[<<p[2], b>>]
    BY DEF Agreeing
  <2>3. Encoded(p[2], b)
    BY <2>2 DEF Encoded
  <2>4. heap[p[1]].kind = heap[p[2]].kind
    BY <2>1, <2>2, <2>3, TypeIsEncoded
  <2>5. IsContainer(p[1]) <=> IsContainer(p[2])
    BY <2>4 DEF IsContainer
  <2>6. CASE IsContainer(p[1])
    BY <2>1, <2>2, <2>3, <2>5, <2>6, ContainersAgree
  <2>7. CASE ~ IsContainer(p[1])
    BY <2>1, <2>2, <2>3, <2>5, <2>7, ScalarsAgree
  <2> QED
    BY <2>6, <2>7
<1> QED
  BY <1>1 DEF Steady, Agreeing

\* The same trees have one encoding.
LEMMA SameTreesAgree ==
  ASSUME HeapOK, NEW l \in Nodes, NEW r \in Nodes, ~ Cyclic(l), SameTree(l, r),
         NEW a \in SUBSET Nodes, NEW b \in SUBSET Nodes, Encoded(l, a), Encoded(r, b)
  PROVE  Encoding[<<l, a>>] = Encoding[<<r, b>>]
<1> DEFINE S == {n \in Nodes : \A m \in Nodes : SameTree(n, m) =>
                   \A c, d \in SUBSET Nodes : Encoded(n, c) /\ Encoded(m, d) =>
                     Encoding[<<n, c>>] = Encoding[<<m, d>>]}
<1>1. ASSUME NEW n \in Nodes, Members(n) \subseteq S
      PROVE  n \in S
  <2> SUFFICES ASSUME NEW m \in Nodes, SameTree(n, m),
                      NEW c \in SUBSET Nodes, NEW d \in SUBSET Nodes, Encoded(n, c), Encoded(m, d)
               PROVE  Encoding[<<n, c>>] = Encoding[<<m, d>>]
    OBVIOUS
  <2>1. Alike(n, m) /\ (IsContainer(n) => ItemsMatch(n, m, Same))
    BY SameTreeIs
  <2>2. heap[n].kind = heap[m].kind /\ (IsContainer(n) <=> IsContainer(m))
    BY <2>1 DEF Alike, SameType, IsContainer
  <2>3. CASE ~ IsContainer(n)
    BY <2>1, <2>2, <2>3, ScalarsAgree
  <2>4. CASE IsContainer(n)
    <3> DEFINE s == ItemsEncoded(Encoding, n, c)
               t == ItemsEncoded(Encoding, m, d)
               D == DOMAIN heap[n].items
               kind == heap[n].kind
    <3>1. DOMAIN heap[m].items = D
      BY <2>1, <2>2, <2>4, ItemsAreNodes DEF Alike
    <3>2. PICK f \in Bijection(D, D) :
            /\ kind \in Sequential => \A i \in DOMAIN f : f[i] = i
            /\ \A i \in DOMAIN f : \A k \in DOMAIN heap[n].items[i] :
                 <<heap[n].items[i][k], heap[m].items[f[i]][k]>> \in Same
      BY <2>1, <2>4, <3>1 DEF ItemsMatch
    <3>3. f \in [D -> D]
      BY Fun_BijectionProperties
    <3>4. kind \in Composite
      BY <2>4, EncodedContainer DEF Plain, Composite, IsContainer, Containers, SetLike, Sequential
    <3>5. /\ s = [i \in D |-> s[i]] /\ t = [i \in D |-> t[i]]
      BY <2>2, <2>4, <3>1, ItemsOf
    <3>6. \A i \in DOMAIN heap[n].items : \A k \in Positions(heap[n].kind) :
            s[i][k] = Encoding[<<heap[n].items[i][k], c \cup {n}>>]
      BY <2>4, ItemsOf
    <3>7. IsContainer(m)
      BY <2>2, <2>4
    <3>8. \A i \in DOMAIN heap[m].items : \A k \in Positions(heap[m].kind) :
             t[i][k] = Encoding[<<heap[m].items[i][k], d \cup {m}>>]
      BY <3>7, ItemsOf
    <3>9. ASSUME NEW i \in D
          PROVE  s[i] = t[f[i]]
      <4>1. f[i] \in D
        BY <3>3
      <4>2. /\ s[i] = [k \in Positions(kind) |-> s[i][k]]
            /\ t[f[i]] = [k \in Positions(kind) |-> t[f[i]][k]]
        BY <2>2, <2>4, <3>1, <4>1, ItemsOf
      <4>3. ASSUME NEW k \in Positions(kind)
            PROVE  s[i][k] = t[f[i]][k]
        <5> DEFINE x == heap[n].items[i][k]
                   y == heap[m].items[f[i]][k]
        <5>1. k \in DOMAIN heap[n].items[i] /\ k \in DOMAIN heap[m].items[f[i]]
          BY <2>2, <2>4, <3>1, <4>1, ItemsAreNodes
        <5>2. x \in Members(n) /\ y \in Members(m)
          BY <2>2, <2>4, <3>1, <4>1, <5>1, MembersAre
        <5>3. x \in S /\ y \in Nodes /\ SameTree(x, y)
          <6>1. <<x, y>> \in Same
            BY <3>2, <3>3, <5>1
          <6>2. SameTree(x, y) /\ y \in Nodes
            BY <6>1 DEF Same
          <6> QED
            BY <1>1, <5>2, <6>2
        <5>4. Encoded(x, c \cup {n}) /\ Encoded(y, d \cup {m})
          BY <2>2, <2>4, <5>2, EncodedContainer
        <5>5. c \cup {n} \in SUBSET Nodes /\ d \cup {m} \in SUBSET Nodes
          OBVIOUS
        <5>6. Encoding[<<x, c \cup {n}>>] = Encoding[<<y, d \cup {m}>>]
          BY <5>3, <5>4, <5>5
        <5>7. s[i][k] = Encoding[<<x, c \cup {n}>>]
          <6> HIDE DEF s, t
          <6> QED
            BY <3>6
        <5>8. t[f[i]][k] = Encoding[<<y, d \cup {m}>>]
          <6>1. IsContainer(m) /\ f[i] \in DOMAIN heap[m].items /\ k \in Positions(heap[m].kind)
            BY <2>2, <2>4, <3>1, <4>1
          <6> HIDE DEF s, t
          <6> QED
            BY <3>8, <6>1
        <5> QED
          BY <5>6, <5>7, <5>8
      <4> HIDE DEF s, t
      <4> QED
        BY <4>2, <4>3
    <3>10. Arranged(kind, s) = Arranged(kind, t)
      <4> HIDE DEF s, t, D, kind
      <4>1. kind \in Sequential => \A i \in D : f[i] = i
        BY <3>2, <3>3
      <4> QED
        BY <3>4, <3>5, <3>9, <4>1, ArrangedAlike
    <3>11. /\ Encoding[<<n, c>>] = <<kind, Arranged(kind, s)>>
          /\ Encoding[<<m, d>>] = <<kind, Arranged(kind, t)>>
      BY <2>2, <2>4, EncodedContainer
    <3> HIDE DEF s, t
    <3> QED
      BY <3>10, <3>11
  <2> QED
    BY <2>3, <2>4
<1>2. S \in SUBSET Nodes
  OBVIOUS
<1>3. l \in S
  <2> HIDE DEF S
  <2> QED
    BY <1>1, <1>2, TreeInduction
<1> QED
  BY <1>3

\* The digest tells trees apart, and nothing else, on every heap of nodes.
LEMMA DigestsAreStructure ==
  ASSUME HeapOK
  PROVE  DigestIsStructure
<1> SUFFICES ASSUME NEW l \in Nodes, NEW r \in Nodes,
                    Digest(l) # NotEncoded, Digest(r) # NotEncoded
             PROVE  Digest(l) = Digest(r) <=> SameTree(l, r)
  BY DigestIsOfTrees DEF DigestIsStructure
<1>1. {} \in SUBSET Nodes /\ Encoded(l, {}) /\ Encoded(r, {})
  BY DEF Encoded, Digest
<1>2. ~ Cyclic(l)
  BY <1>1, EncodedIsNotCyclic
<1>3. ASSUME Digest(l) = Digest(r)
      PROVE  SameTree(l, r)
  <2>1. <<l, r>> \in Agreeing
    BY <1>1, <1>3 DEF Agreeing, Digest
  <2>2. <<l, r>> \in Same
    BY <2>1, AgreeingIsSteady, SteadyIsSame
  <2> QED
    BY <2>2 DEF Same
<1>4. ASSUME SameTree(l, r)
      PROVE  Digest(l) = Digest(r)
  BY <1>1, <1>2, <1>4, SameTreesAgree DEF Digest
<1> QED
  BY <1>3, <1>4

-----------------------------------------------------------------------------
(* The first answer that is not True, and greedy pairing.                   *)

Outcomes == {"T", "F", "R"}

\* The first answer that is not True is one of the answers.
LEMMA FirstAnswer ==
  ASSUME NEW D \in SUBSET Nat, NEW answers \in [D -> Outcomes]
  PROVE  /\ All(answers) \in Outcomes
         /\ All(answers) = "T" => \A i \in D : answers[i] = "T"
         /\ All(answers) = "F" => \E i \in D : answers[i] = "F"
         /\ All(answers) = "R" => \E i \in D : answers[i] = "R"
<1> DEFINE bad == {i \in D : answers[i] # "T"}
<1>1. CASE bad = {}
  <2>1. All(answers) = "T"
    BY <1>1 DEF All
  <2> QED
    BY <1>1, <2>1 DEF Outcomes
<1>2. CASE bad # {}
  <2>1. \E i \in bad : \A j \in bad : i <= j
    <3>1. bad \in SUBSET Nat
      OBVIOUS
    <3> HIDE DEF bad
    <3> QED
      BY <1>2, <3>1, LeastNumber
  <2>2. PICK i \in bad : All(answers) = answers[i]
    <3>1. All(answers) = answers[CHOOSE i \in bad : \A j \in bad : i <= j]
      BY <1>2 DEF All
    <3> HIDE DEF bad
    <3> QED
      BY <2>1, <3>1
  <2>3. i \in D /\ answers[i] \in Outcomes /\ answers[i] # "T"
    OBVIOUS
  <2> QED
    BY <2>2, <2>3
<1> QED
  BY <1>1, <1>2

Answered(answer) ==
  /\ Len(answer) \in Nat
  /\ answer \in [1..Len(answer) -> [1..Len(answer) -> Outcomes]]

PairedStep(answer, from, i, unmatched) ==
  LET tried == {j \in unmatched : answer[i][j] # "F"}
  IN  IF i > Len(answer) THEN "T"
      ELSE IF tried = {} THEN "F"
      ELSE IF answer[i][Min(tried)] = "R" THEN "R"
      ELSE from[<<i + 1, unmatched \ {Min(tried)}>>]

IsPaired(answer, from) ==
  from = [x \in (1..(Len(answer) + 1)) \X SUBSET (1..Len(answer)) |->
            PairedStep(answer, from, x[1], x[2])]

\* The recursive definition of Paired, with its recursion made a predicate.
LEMMA PairedIsChosen ==
  ASSUME NEW answer
  PROVE  Paired(answer) = (CHOOSE from : IsPaired(answer, from))[<<1, 1..Len(answer)>>]
  BY DEF Paired, IsPaired, PairedStep

\* The first of the right items that may be taken is one of them.
LEMMA LeastIsTried ==
  ASSUME NEW N \in Nat, NEW S \in SUBSET (1..N), S # {}
  PROVE  Min(S) \in S
<1>1. S \in SUBSET Nat
  OBVIOUS
<1>2. \E x \in S : \A y \in S : x <= y
  BY <1>1, LeastNumber
<1> QED
  BY <1>2 DEF Min

\* One step of the pairing looks no further than the next left item.
LEMMA PairingsAgree ==
  ASSUME NEW answer, Answered(answer), NEW f, NEW g,
         NEW i \in 1..(Len(answer) + 1), NEW unmatched \in SUBSET (1..Len(answer)),
         i <= Len(answer) => \A W \in SUBSET (1..Len(answer)) : f[<<i + 1, W>>] = g[<<i + 1, W>>]
  PROVE  PairedStep(answer, f, i, unmatched) = PairedStep(answer, g, i, unmatched)
<1> DEFINE tried == {j \in unmatched : answer[i][j] # "F"}
<1>1. CASE i > Len(answer)
  BY <1>1 DEF PairedStep
<1>2. CASE ~ (i > Len(answer))
  <2>1. i <= Len(answer)
    BY <1>2 DEF Answered
  <2>2. unmatched \ {Min(tried)} \in SUBSET (1..Len(answer))
    OBVIOUS
  <2>3. f[<<i + 1, unmatched \ {Min(tried)}>>] = g[<<i + 1, unmatched \ {Min(tried)}>>]
    BY <2>1, <2>2
  <2> QED
    BY <2>3 DEF PairedStep
<1> QED
  BY <1>1, <1>2

\* from is the pairing where fewer than k left items are yet to be paired.
PairsTo(answer, from, k) ==
  \A i \in 1..(Len(answer) + 1) : \A unmatched \in SUBSET (1..Len(answer)) :
    Len(answer) + 1 - i < k => from[<<i, unmatched>>] = PairedStep(answer, from, i, unmatched)

\* One more step of the pairing is right where one more left item is left.
LEMMA PairsFurther ==
  ASSUME NEW answer, Answered(answer), NEW k \in Nat, NEW f, PairsTo(answer, f, k)
  PROVE  PairsTo(answer, [x \in (1..(Len(answer) + 1)) \X SUBSET (1..Len(answer)) |->
                            PairedStep(answer, f, x[1], x[2])], k + 1)
<1> DEFINE N == Len(answer)
           g == [x \in (1..(N + 1)) \X SUBSET (1..N) |-> PairedStep(answer, f, x[1], x[2])]
<1>1. \A i \in 1..(N + 1) : \A W \in SUBSET (1..N) : g[<<i, W>>] = PairedStep(answer, f, i, W)
  OBVIOUS
<1>2. N \in Nat
  BY DEF Answered
<1> HIDE DEF g
<1>3. ASSUME NEW i \in 1..(N + 1), NEW unmatched \in SUBSET (1..N), N + 1 - i < k + 1
      PROVE  g[<<i, unmatched>>] = PairedStep(answer, g, i, unmatched)
  <2>1. ASSUME i <= N, NEW W \in SUBSET (1..N)
        PROVE  f[<<i + 1, W>>] = g[<<i + 1, W>>]
    <3>1. i + 1 \in 1..(N + 1) /\ N + 1 - (i + 1) < k
      BY <1>2, <1>3, <2>1
    <3> HIDE DEF N
    <3> QED
      BY <1>1, <3>1 DEF PairsTo, N
  <2>2. PairedStep(answer, f, i, unmatched) = PairedStep(answer, g, i, unmatched)
    BY <2>1, PairingsAgree
  <2> QED
    BY <1>1, <2>2
<1>4. PairsTo(answer, g, k + 1)
  BY <1>3 DEF PairsTo
<1> QED
  BY <1>4 DEF g

\* There is a pairing however many left items are left.
LEMMA PairsAny ==
  ASSUME NEW answer, Answered(answer), NEW k \in Nat
  PROVE  \E f : PairsTo(answer, f, k)
<1> DEFINE Bad == {j \in Nat : ~ \E f : PairsTo(answer, f, j)}
<1>1. SUFFICES ASSUME Bad # {} PROVE FALSE
  OBVIOUS
<1>2. PICK j \in Bad : \A i \in Bad : j <= i
  <2>1. Bad \in SUBSET Nat
    OBVIOUS
  <2> HIDE DEF Bad
  <2> QED
    BY <1>1, <2>1, LeastNumber
<1>3. CASE j = 0
  <2>1. PairsTo(answer, answer, 0)
    BY DEF PairsTo, Answered
  <2> QED
    BY <1>3, <2>1
<1>4. CASE j # 0
  <2>1. j - 1 \in Nat /\ j - 1 \notin Bad
    BY <1>2, <1>4
  <2>2. PICK f : PairsTo(answer, f, j - 1)
    BY <2>1
  <2>3. \E g : PairsTo(answer, g, (j - 1) + 1)
    BY <2>1, <2>2, PairsFurther
  <2>4. (j - 1) + 1 = j
    BY <1>2
  <2> QED
    BY <1>2, <2>3, <2>4
<1> QED
  BY <1>3, <1>4

\* The loop over the left items.
LEMMA PairedIsMade ==
  ASSUME NEW answer, Answered(answer)
  PROVE  \E from :
           /\ \A i \in 1..(Len(answer) + 1) : \A unmatched \in SUBSET (1..Len(answer)) :
                from[<<i, unmatched>>] = PairedStep(answer, from, i, unmatched)
           /\ Paired(answer) = from[<<1, 1..Len(answer)>>]
<1> DEFINE N == Len(answer)
<1>1. N \in Nat
  BY DEF Answered
<1>2. PICK f : PairsTo(answer, f, N + 1)
  BY <1>1, PairsAny
<1> DEFINE g == [x \in (1..(N + 1)) \X SUBSET (1..N) |-> PairedStep(answer, f, x[1], x[2])]
<1>3. \A i \in 1..(N + 1) : \A W \in SUBSET (1..N) : g[<<i, W>>] = PairedStep(answer, f, i, W)
  OBVIOUS
<1>4. ASSUME NEW i \in 1..(N + 1), NEW W \in SUBSET (1..N)
      PROVE  f[<<i, W>>] = PairedStep(answer, f, i, W)
  <2>1. N + 1 - i < N + 1
    BY <1>1
  <2> QED
    BY <1>2, <2>1 DEF PairsTo
<1>5. ASSUME NEW i \in 1..(N + 1), NEW W \in SUBSET (1..N)
      PROVE  PairedStep(answer, f, i, W) = PairedStep(answer, g, i, W)
  <2>1. ASSUME i <= N, NEW Y \in SUBSET (1..N)
        PROVE  f[<<i + 1, Y>>] = g[<<i + 1, Y>>]
    <3>1. i + 1 \in 1..(N + 1)
      BY <1>1, <2>1
    <3> HIDE DEF g
    <3> QED
      BY <1>3, <1>4, <3>1
  <2> HIDE DEF g
  <2> QED
    BY <2>1, PairingsAgree
<1>6. IsPaired(answer, g)
  BY <1>5 DEF IsPaired
<1> HIDE DEF g
<1> DEFINE from == CHOOSE h : IsPaired(answer, h)
<1>7. IsPaired(answer, from)
  BY <1>6
<1>8. Paired(answer) = from[<<1, 1..N>>]
  BY PairedIsChosen
<1> HIDE DEF from
<1>9. ASSUME NEW i \in 1..(N + 1), NEW W \in SUBSET (1..N)
      PROVE  from[<<i, W>>] = PairedStep(answer, from, i, W)
  <2> DEFINE h == [x \in (1..(N + 1)) \X SUBSET (1..N) |-> PairedStep(answer, from, x[1], x[2])]
  <2>1. h[<<i, W>>] = PairedStep(answer, from, i, W)
    OBVIOUS
  <2>2. from = h
    BY <1>7 DEF IsPaired
  <2> HIDE DEF h
  <2> QED
    BY <2>1, <2>2
<1> QED
  BY <1>8, <1>9

\* A pairing of the left items i..N with the right items of W, and one step of
\* it: taken last, and taken first at the cost of a swap.
LEMMA PairingExtended ==
  ASSUME NEW N \in Nat, NEW i \in 1..N, NEW W \in SUBSET (1..N), NEW j \in W,
         NEW f \in Bijection((i + 1)..N, W \ {j})
  PROVE  \E g \in Bijection(i..N, W) : g[i] = j /\ \A x \in (i + 1)..N : g[x] = f[x]
<1> DEFINE g == [x \in i..N |-> IF x = i THEN j ELSE f[x]]
<1>1. /\ f \in [(i + 1)..N -> W \ {j}]
      /\ \A x, y \in (i + 1)..N : f[x] = f[y] => x = y
      /\ \A u \in W \ {j} : \E x \in (i + 1)..N : f[x] = u
  <2> DEFINE D == (i + 1)..N
             E == W \ {j}
  <2>1. f \in Bijection(D, E)
    OBVIOUS
  <2> HIDE DEF D, E
  <2>2. f \in [D -> E] /\ (\A x, y \in D : f[x] = f[y] => x = y)
        /\ \A u \in E : \E x \in D : f[x] = u
    BY <2>1, Fun_BijectionProperties
  <2> QED
    BY <2>2 DEF D, E
<1>2. \A x \in i..N : x = i \/ x \in (i + 1)..N
  OBVIOUS
<1>3. \A x \in (i + 1)..N : x \in i..N /\ x # i
  OBVIOUS
<1>4. i \in i..N
  OBVIOUS
<1>5. /\ g[i] = j
      /\ \A x \in (i + 1)..N : g[x] = f[x]
  BY <1>3, <1>4
<1>6. \A x \in i..N : g[x] \in W
  BY <1>1, <1>2, <1>5
<1>7. g \in [i..N -> W]
  <2>1. g = [x \in i..N |-> g[x]]
    OBVIOUS
  <2> HIDE DEF g
  <2> QED
    BY <1>6, <2>1
<1> HIDE DEF g
<1>8. ASSUME NEW x \in i..N, NEW y \in i..N, g[x] = g[y]
      PROVE  x = y
  <2>1. CASE x = i /\ y \in (i + 1)..N
    BY <1>1, <1>5, <1>8, <2>1
  <2>2. CASE y = i /\ x \in (i + 1)..N
    BY <1>1, <1>5, <1>8, <2>2
  <2>3. CASE x \in (i + 1)..N /\ y \in (i + 1)..N
    BY <1>1, <1>5, <1>8, <2>3
  <2> QED
    BY <1>2, <2>1, <2>2, <2>3
<1>9. ASSUME NEW u \in W
      PROVE  \E x \in i..N : g[x] = u
  <2>1. CASE u = j
    BY <1>4, <1>5, <2>1
  <2>2. CASE u # j
    <3>1. PICK x \in (i + 1)..N : f[x] = u
      BY <1>1, <2>2
    <3> QED
      BY <1>3, <1>5, <3>1
  <2> QED
    BY <2>1, <2>2
<1>10. g \in Bijection(i..N, W)
  BY <1>7, <1>8, <1>9 DEF Bijection, Injection, Surjection, IsInjective
<1> QED
  BY <1>5, <1>10

\* The left item whose partner is taken may have the partner of the one that took it.
LEMMA PairingSwapped ==
  ASSUME NEW N \in Nat, NEW i \in 1..N, NEW W \in SUBSET (1..N), NEW j \in W,
         NEW f \in Bijection(i..N, W), NEW k \in i..N, f[k] = j
  PROVE  \E g \in Bijection((i + 1)..N, W \ {j}) :
           \A x \in (i + 1)..N : g[x] = IF x = k THEN f[i] ELSE f[x]
<1> DEFINE g == [x \in (i + 1)..N |-> IF x = k THEN f[i] ELSE f[x]]
<1>1. /\ f \in [i..N -> W]
      /\ \A x, y \in i..N : f[x] = f[y] => x = y
      /\ \A u \in W : \E x \in i..N : f[x] = u
  BY Fun_BijectionProperties
<1>2. \A x \in i..N : x = i \/ x \in (i + 1)..N
  OBVIOUS
<1>3. \A x \in (i + 1)..N : x \in i..N /\ x # i
  OBVIOUS
<1>4. i \in i..N
  OBVIOUS
<1>5. \A x \in (i + 1)..N : g[x] = IF x = k THEN f[i] ELSE f[x]
  OBVIOUS
<1>6. g = [x \in (i + 1)..N |-> g[x]]
  OBVIOUS
<1> HIDE DEF g
<1>7. ASSUME NEW x \in (i + 1)..N
      PROVE  g[x] \in W \ {j}
  <2>1. CASE x = k
    BY <1>1, <1>3, <1>4, <1>5, <2>1
  <2>2. CASE x # k
    BY <1>1, <1>3, <1>5, <2>2
  <2> QED
    BY <2>1, <2>2
<1>8. g \in [(i + 1)..N -> W \ {j}]
  BY <1>6, <1>7
<1>9. ASSUME NEW x \in (i + 1)..N, NEW y \in (i + 1)..N, g[x] = g[y]
      PROVE  x = y
  BY <1>1, <1>3, <1>4, <1>5, <1>9
<1>10. ASSUME NEW u \in W \ {j}
       PROVE  \E x \in (i + 1)..N : g[x] = u
  <2>1. PICK x \in i..N : f[x] = u
    BY <1>1
  <2>2. x # k
    BY <2>1
  <2>3. CASE x = i
    <3>1. k \in (i + 1)..N
      BY <1>2, <2>2, <2>3
    <3> QED
      BY <1>5, <2>1, <2>3, <3>1
  <2>4. CASE x \in (i + 1)..N
    BY <1>5, <2>1, <2>2, <2>4
  <2> QED
    BY <1>2, <2>3, <2>4
<1>11. g \in Bijection((i + 1)..N, W \ {j})
  BY <1>8, <1>9, <1>10 DEF Bijection, Injection, Surjection, IsInjective
<1> QED
  BY <1>5, <1>11

AllPaired(answer, i, W) ==
  \E f \in Bijection(i..Len(answer), W) : \A x \in i..Len(answer) : answer[x][f[x]] = "T"

\* Two left items equal to one right item are equal to the same right items.
Difunctional(answer) ==
  \A x, y, u, v \in 1..Len(answer) :
    answer[x][u] = "T" /\ answer[x][v] = "T" /\ answer[y][u] = "T" => answer[y][v] = "T"

Settled(answer) == \A x, u \in 1..Len(answer) : answer[x][u] # "R"

PairedRightly(answer, i, W, v) ==
  /\ v \in Outcomes
  /\ v = "T" => AllPaired(answer, i, W)
  /\ v = "R" => ~ Settled(answer)
  /\ v = "F" => ~ (Settled(answer) /\ Difunctional(answer) /\ AllPaired(answer, i, W))

\* Taking the first right item that equals costs nothing: whatever pairing there
\* was can be swapped into one that takes it.
LEMMA FirstMayBeTaken ==
  ASSUME NEW answer, Answered(answer), NEW i \in 1..Len(answer),
         NEW W \in SUBSET (1..Len(answer)), NEW j \in W, answer[i][j] = "T",
         Difunctional(answer), AllPaired(answer, i, W)
  PROVE  AllPaired(answer, i + 1, W \ {j})
<1> DEFINE N == Len(answer)
<1>1. N \in Nat
  BY DEF Answered
<1>2. PICK f \in Bijection(i..N, W) : \A x \in i..N : answer[x][f[x]] = "T"
  BY DEF AllPaired
<1>3. f \in [i..N -> W] /\ \A u \in W : \E x \in i..N : f[x] = u
  BY Fun_BijectionProperties
<1>4. PICK k \in i..N : f[k] = j
  BY <1>3
<1>5. PICK g \in Bijection((i + 1)..N, W \ {j}) :
        \A x \in (i + 1)..N : g[x] = IF x = k THEN f[i] ELSE f[x]
  <2> HIDE DEF N
  <2>1. i \in 1..N /\ W \in SUBSET (1..N)
    BY DEF N
  <2> QED
    BY <1>1, <1>4, <2>1, PairingSwapped
<1>6. ASSUME NEW x \in (i + 1)..N
      PROVE  answer[x][g[x]] = "T"
  <2>1. x \in i..N /\ i \in i..N
    BY <1>1
  <2>2. CASE x = k
    <3>1. answer[i][f[i]] = "T" /\ answer[x][j] = "T" /\ answer[i][j] = "T"
      BY <1>2, <1>4, <2>1, <2>2
    <3>2. f[i] \in 1..N /\ j \in 1..N /\ i \in 1..N
      BY <1>3, <2>1
    <3>4. x \in 1..N
      BY <1>1, <2>1
    <3>3. answer[x][f[i]] = "T"
      BY <3>1, <3>2, <3>4 DEF Difunctional
    <3> QED
      BY <1>5, <2>2, <3>3
  <2>3. CASE x # k
    BY <1>2, <1>5, <2>1, <2>3
  <2> QED
    BY <2>2, <2>3
<1> QED
  BY <1>5, <1>6 DEF AllPaired

\* A pairing of the rest, and the item taken, are a pairing.
LEMMA OneMorePaired ==
  ASSUME NEW answer, Answered(answer), NEW i \in 1..Len(answer),
         NEW W \in SUBSET (1..Len(answer)), NEW j \in W, answer[i][j] = "T",
         AllPaired(answer, i + 1, W \ {j})
  PROVE  AllPaired(answer, i, W)
<1> DEFINE N == Len(answer)
<1>1. N \in Nat
  BY DEF Answered
<1>2. PICK f \in Bijection((i + 1)..N, W \ {j}) : \A x \in (i + 1)..N : answer[x][f[x]] = "T"
  BY DEF AllPaired
<1>3. PICK g \in Bijection(i..N, W) : g[i] = j /\ \A x \in (i + 1)..N : g[x] = f[x]
  <2> HIDE DEF N
  <2>1. i \in 1..N /\ W \in SUBSET (1..N)
    BY DEF N
  <2> QED
    BY <1>1, <2>1, PairingExtended
<1>4. ASSUME NEW x \in i..N
      PROVE  answer[x][g[x]] = "T"
  <2>1. x = i \/ x \in (i + 1)..N
    BY <1>1
  <2> QED
    BY <1>2, <1>3, <2>1
<1> QED
  BY <1>3, <1>4 DEF AllPaired

\* Greedy pairing finds a pairing when there is one.
GreedyTo(answer, from, m) ==
  \A i \in 1..(Len(answer) + 1) : \A W \in SUBSET (1..Len(answer)) :
    Len(answer) + 1 - i = m /\ Cardinality(W) = m => PairedRightly(answer, i, W, from[<<i, W>>])

\* With no left item to pair the pairing has succeeded.
LEMMA GreedyEnds ==
  ASSUME NEW answer, Answered(answer), NEW W \in SUBSET (1..Len(answer)), Cardinality(W) = 0
  PROVE  PairedRightly(answer, Len(answer) + 1, W, "T")
<1>1. Len(answer) \in Nat
  BY DEF Answered
<1>2. IsFiniteSet(W)
  <2>1. IsFiniteSet(1..Len(answer))
    BY <1>1, FS_Interval
  <2> QED
    BY <2>1, FS_Subset
<1>3. W = {}
  BY <1>2, FS_EmptySet
<1>4. (Len(answer) + 1)..Len(answer) = {}
  BY <1>1
<1>5. [x \in {} |-> x] \in Bijection({}, {})
  BY NothingMoves
<1>6. AllPaired(answer, Len(answer) + 1, W)
  BY <1>3, <1>4, <1>5 DEF AllPaired
<1> QED
  BY <1>6 DEF PairedRightly, Outcomes

\* A left item that equals nothing unmatched is in no pairing.
LEMMA GreedyFails ==
  ASSUME NEW answer, Answered(answer), NEW i \in 1..Len(answer),
         NEW W \in SUBSET (1..Len(answer)), \A j \in W : answer[i][j] = "F"
  PROVE  PairedRightly(answer, i, W, "F")
<1>1. ASSUME AllPaired(answer, i, W)
      PROVE  FALSE
  <2>1. PICK f \in Bijection(i..Len(answer), W) : \A x \in i..Len(answer) : answer[x][f[x]] = "T"
    BY <1>1 DEF AllPaired
  <2>2. i \in i..Len(answer)
    BY DEF Answered
  <2>3. f[i] \in W /\ answer[i][f[i]] = "T"
    BY <2>1, <2>2, Fun_BijectionProperties
  <2> QED
    BY <2>3
<1> QED
  BY <1>1 DEF PairedRightly, Outcomes

\* What is answered of the rest is answered of all.
LEMMA GreedyGoesOn ==
  ASSUME NEW answer, Answered(answer), NEW i \in 1..Len(answer),
         NEW W \in SUBSET (1..Len(answer)), NEW j \in W, answer[i][j] = "T", NEW v,
         PairedRightly(answer, i + 1, W \ {j}, v)
  PROVE  PairedRightly(answer, i, W, v)
<1>1. AllPaired(answer, i + 1, W \ {j}) => AllPaired(answer, i, W)
  BY OneMorePaired
<1>2. Difunctional(answer) /\ AllPaired(answer, i, W) => AllPaired(answer, i + 1, W \ {j})
  BY FirstMayBeTaken
<1> QED
  BY <1>1, <1>2 DEF PairedRightly

\* Greedy pairing of one more item is right when that of the rest is.
LEMMA GreedyStep ==
  ASSUME NEW answer, Answered(answer), NEW from,
         \A i \in 1..(Len(answer) + 1) : \A W \in SUBSET (1..Len(answer)) :
           from[<<i, W>>] = PairedStep(answer, from, i, W),
         NEW m \in Nat, m # 0 => GreedyTo(answer, from, m - 1)
  PROVE  GreedyTo(answer, from, m)
<1> SUFFICES ASSUME NEW i \in 1..(Len(answer) + 1), NEW W \in SUBSET (1..Len(answer)),
                    Len(answer) + 1 - i = m, Cardinality(W) = m
             PROVE  PairedRightly(answer, i, W, from[<<i, W>>])
  BY DEF GreedyTo
<1> DEFINE tried == {j \in W : answer[i][j] # "F"}
           first == Min(tried)
           rest == from[<<i + 1, W \ {first}>>]
<1>1. Len(answer) \in Nat
  BY DEF Answered
<1>2. from[<<i, W>>] = IF i > Len(answer) THEN "T" ELSE IF tried = {} THEN "F"
                       ELSE IF answer[i][first] = "R" THEN "R" ELSE rest
  BY DEF PairedStep
<1>3. CASE i > Len(answer)
  <2>1. i = Len(answer) + 1 /\ m = 0
    BY <1>1, <1>3
  <2>2. from[<<i, W>>] = "T"
    BY <1>2, <1>3
  <2> QED
    BY <2>1, <2>2, GreedyEnds
<1>4. CASE ~ (i > Len(answer))
  <2>1. i \in 1..Len(answer) /\ m # 0
    BY <1>1, <1>4
  <2>2. \A j \in W : answer[i][j] \in Outcomes
    BY <2>1 DEF Answered
  <2>3. CASE tried = {}
    <3>1. from[<<i, W>>] = "F"
      BY <1>2, <1>4, <2>3
    <3> QED
      BY <2>1, <2>3, <3>1, GreedyFails
  <2>4. CASE tried # {}
    <3>1. first \in tried
      <4>1. tried \in SUBSET (1..Len(answer))
        OBVIOUS
      <4> HIDE DEF tried
      <4> QED
        BY <1>1, <2>4, <4>1, LeastIsTried
    <3> HIDE DEF first
    <3>2. first \in W /\ answer[i][first] \in {"T", "R"}
      BY <2>2, <3>1 DEF Outcomes
    <3>3. CASE answer[i][first] = "R"
      <4>1. from[<<i, W>>] = "R"
        BY <1>2, <1>4, <2>4, <3>3
      <4>2. ~ Settled(answer)
        BY <2>1, <3>2, <3>3 DEF Settled
      <4> QED
        BY <4>1, <4>2 DEF PairedRightly, Outcomes
    <3>4. CASE answer[i][first] = "T"
      <4>1. from[<<i, W>>] = rest
        BY <1>2, <1>4, <2>4, <3>4
      <4>2. Cardinality(W \ {first}) = m - 1
        <5>1. IsFiniteSet(1..Len(answer))
          BY <1>1, FS_Interval
        <5>2. IsFiniteSet(W)
          BY <5>1, FS_Subset
        <5> QED
          BY <3>2, <5>2, FS_RemoveElement
      <4>3. i + 1 \in 1..(Len(answer) + 1) /\ Len(answer) + 1 - (i + 1) = m - 1
        BY <1>1, <2>1
      <4>4. PairedRightly(answer, i + 1, W \ {first}, rest)
        BY <2>1, <4>2, <4>3 DEF GreedyTo
      <4> HIDE DEF rest
      <4>5. PairedRightly(answer, i, W, rest)
        BY <2>1, <3>2, <3>4, <4>4, GreedyGoesOn
      <4> QED
        BY <4>1, <4>5
    <3> QED
      BY <3>2, <3>3, <3>4
  <2> QED
    BY <2>3, <2>4
<1> QED
  BY <1>3, <1>4

\* Greedy pairing is right whatever the number of items.
LEMMA GreedyIsRight ==
  ASSUME NEW answer, Answered(answer), NEW from,
         \A i \in 1..(Len(answer) + 1) : \A W \in SUBSET (1..Len(answer)) :
           from[<<i, W>>] = PairedStep(answer, from, i, W),
         NEW n \in Nat
  PROVE  GreedyTo(answer, from, n)
<1> DEFINE Bad == {m \in Nat : ~ GreedyTo(answer, from, m)}
<1>1. SUFFICES ASSUME Bad # {} PROVE FALSE
  OBVIOUS
<1>2. PICK m \in Bad : \A j \in Bad : m <= j
  <2>1. Bad \in SUBSET Nat
    OBVIOUS
  <2> HIDE DEF Bad
  <2> QED
    BY <1>1, <2>1, LeastNumber
<1>3. m \in Nat /\ ~ GreedyTo(answer, from, m)
  OBVIOUS
<1>4. ASSUME m # 0
      PROVE  GreedyTo(answer, from, m - 1)
  <2>1. m - 1 \in Nat /\ ~ (m <= m - 1)
    BY <1>3, <1>4
  <2> QED
    BY <1>2, <2>1
<1> QED
  BY <1>3, <1>4, GreedyStep

\* Greedy pairing of all the items is right.
LEMMA PairedIsRight ==
  ASSUME NEW answer, Answered(answer)
  PROVE  PairedRightly(answer, 1, 1..Len(answer), Paired(answer))
<1>1. PICK from : /\ \A i \in 1..(Len(answer) + 1) : \A W \in SUBSET (1..Len(answer)) :
                       from[<<i, W>>] = PairedStep(answer, from, i, W)
                  /\ Paired(answer) = from[<<1, 1..Len(answer)>>]
  BY PairedIsMade
<1>2. /\ Len(answer) \in Nat /\ 1 \in 1..(Len(answer) + 1)
      /\ Len(answer) + 1 - 1 = Len(answer)
      /\ 1..Len(answer) \in SUBSET (1..Len(answer))
  BY DEF Answered
<1>3. Cardinality(1..Len(answer)) = Len(answer)
  <2>1. ASSUME NEW N \in Nat
        PROVE  Cardinality(1..N) = N
    BY FS_Interval
  <2> QED
    BY <1>2, <2>1
<1> QED
  <2>1. GreedyTo(answer, from, Len(answer))
    BY <1>1, <1>2, GreedyIsRight
  <2>2. PairedRightly(answer, 1, 1..Len(answer), from[<<1, 1..Len(answer)>>])
    BY <1>2, <1>3, <2>1 DEF GreedyTo
  <2> QED
    BY <1>1, <2>2

-----------------------------------------------------------------------------
(* Structural equality.                                                     *)

Pairs == Nodes \X Nodes

ItemsCompared(eq, l, r, path) ==
  [i \in DOMAIN heap[l].items |-> [j \in DOMAIN heap[r].items |->
     All([k \in DOMAIN heap[l].items[i] |->
            eq[<<heap[l].items[i][k], heap[r].items[j][k], path \cup {<<l, r>>}>>]])]]

EqualityStep(eq, l, r, path) ==
  LET answer == ItemsCompared(eq, l, r, path)
  IN  IF Digest(l) # NotEncoded /\ Digest(r) # NotEncoded
      THEN IF Digest(l) = Digest(r) THEN "T" ELSE "F"
      ELSE IF <<l, r>> \in path THEN "R"
      ELSE IF ~ SameType(l, r) THEN "F"
      ELSE IF ~ IsContainer(l) THEN ScalarsEqual(l, r)
      ELSE IF Len(heap[l].items) # Len(heap[r].items) THEN "F"
      ELSE IF InOrder(heap[l].kind) THEN All([i \in DOMAIN heap[l].items |-> answer[i][i]])
      ELSE Paired(answer)

IsEquality(eq) ==
  eq = [x \in Nodes \X Nodes \X SUBSET (Nodes \X Nodes) |->
           EqualityStep(eq, x[1], x[2], x[3])]

\* The definition of StructurallyEqual, with its recursion made a predicate.
LEMMA EqualityIsChosen == StructurallyEqual = CHOOSE eq : IsEquality(eq)
  BY DEF StructurallyEqual, IsEquality, EqualityStep, ItemsCompared

\* A pair that is being compared leaves fewer to be compared.
LEMMA PairsAreFinite ==
  ASSUME HeapOK
  PROVE  /\ Cardinality(Pairs) \in Nat
         /\ \A path \in SUBSET Pairs :
              /\ Cardinality(Pairs \ path) \in Nat
              /\ Cardinality(Pairs \ path) <= Cardinality(Pairs)
              /\ \A p \in Pairs \ path :
                   Cardinality(Pairs \ (path \cup {p})) < Cardinality(Pairs \ path)
<1>1. IsFiniteSet(Pairs)
  BY NodesAreFinite, FS_Product DEF Pairs
<1>2. Cardinality(Pairs) \in Nat
  BY <1>1, FS_CardinalityType
<1>3. ASSUME NEW path \in SUBSET Pairs
      PROVE  /\ IsFiniteSet(Pairs \ path)
             /\ Cardinality(Pairs \ path) \in Nat
             /\ Cardinality(Pairs \ path) <= Cardinality(Pairs)
  <2>1. Pairs \ path \in SUBSET Pairs
    OBVIOUS
  <2>2. IsFiniteSet(Pairs \ path) /\ Cardinality(Pairs \ path) <= Cardinality(Pairs)
    BY <1>1, <2>1, FS_Subset
  <2> QED
    BY <2>2, FS_CardinalityType
<1>4. ASSUME NEW path \in SUBSET Pairs, NEW p \in Pairs \ path
      PROVE  Cardinality(Pairs \ (path \cup {p})) < Cardinality(Pairs \ path)
  <2>1. Pairs \ (path \cup {p}) = (Pairs \ path) \ {p}
    OBVIOUS
  <2>2. Cardinality((Pairs \ path) \ {p}) = Cardinality(Pairs \ path) - 1
    BY <1>3, FS_RemoveElement
  <2>3. Cardinality(Pairs \ path) \in Nat
    BY <1>3
  <2> QED
    BY <2>1, <2>2, <2>3
<1> QED
  BY <1>2, <1>3, <1>4

\* What is compared next: the members of both sides, unless the pair is met again.
LEMMA ComparisonsAgree ==
  ASSUME HeapOK, NEW f, NEW g, NEW l \in Nodes, NEW r \in Nodes, NEW path \in SUBSET Pairs,
         <<l, r>> \notin path =>
           \A m \in Members(l), n \in Members(r) :
             f[<<m, n, path \cup {<<l, r>>}>>] = g[<<m, n, path \cup {<<l, r>>}>>]
  PROVE  EqualityStep(f, l, r, path) = EqualityStep(g, l, r, path)
<1>1. CASE <<l, r>> \in path \/ ~ SameType(l, r) \/ ~ IsContainer(l)
  BY <1>1 DEF EqualityStep
<1>2. CASE <<l, r>> \notin path /\ SameType(l, r) /\ IsContainer(l)
  <2>1. IsContainer(r) /\ heap[l].kind = heap[r].kind
    BY <1>2 DEF SameType, IsContainer
  <2>2. ASSUME NEW i \in DOMAIN heap[l].items, NEW j \in DOMAIN heap[r].items,
               NEW k \in DOMAIN heap[l].items[i]
        PROVE  f[<<heap[l].items[i][k], heap[r].items[j][k], path \cup {<<l, r>>}>>]
                 = g[<<heap[l].items[i][k], heap[r].items[j][k], path \cup {<<l, r>>}>>]
    <3>1. k \in DOMAIN heap[r].items[j]
      BY <1>2, <2>1, ItemsAreNodes
    <3>2. heap[l].items[i][k] \in Members(l) /\ heap[r].items[j][k] \in Members(r)
      BY <1>2, <2>1, <3>1, MembersAre
    <3> QED
      BY <1>2, <3>2
  <2>3. ItemsCompared(f, l, r, path) = ItemsCompared(g, l, r, path)
    BY <2>2 DEF ItemsCompared
  <2> QED
    BY <2>3 DEF EqualityStep
<1> QED
  BY <1>1, <1>2

\* f is the comparison where fewer than k pairs are left to be compared.
ComparesTo(f, k) ==
  \A l, r \in Nodes : \A path \in SUBSET Pairs :
    Cardinality(Pairs \ path) < k => f[<<l, r, path>>] = EqualityStep(f, l, r, path)

Comparing(f) == [x \in Nodes \X Nodes \X SUBSET Pairs |-> EqualityStep(f, x[1], x[2], x[3])]

\* A step of the comparison, pair by pair.
LEMMA ComparingIs ==
  ASSUME NEW f, NEW l \in Nodes, NEW r \in Nodes, NEW path \in SUBSET Pairs
  PROVE  Comparing(f)[<<l, r, path>>] = EqualityStep(f, l, r, path)
<1>1. <<l, r, path>> \in Nodes \X Nodes \X SUBSET Pairs
  OBVIOUS
<1> QED
  BY <1>1 DEF Comparing

\* One more step of the comparison is right where one more pair is left.
LEMMA ComparesFurther ==
  ASSUME HeapOK, NEW k \in Nat, NEW f, ComparesTo(f, k)
  PROVE  ComparesTo(Comparing(f), k + 1)
<1> DEFINE g == Comparing(f)
<1>1. ASSUME NEW l \in Nodes, NEW r \in Nodes, NEW path \in SUBSET Pairs,
             Cardinality(Pairs \ path) < k + 1
      PROVE  g[<<l, r, path>>] = EqualityStep(g, l, r, path)
  <2>1. ASSUME <<l, r>> \notin path, NEW m \in Members(l), NEW n \in Members(r)
        PROVE  f[<<m, n, path \cup {<<l, r>>}>>] = g[<<m, n, path \cup {<<l, r>>}>>]
    <3>1. m \in Nodes /\ n \in Nodes /\ path \cup {<<l, r>>} \in SUBSET Pairs
      BY MembersAre DEF Pairs
    <3>2. <<l, r>> \in Pairs \ path
      BY <2>1 DEF Pairs
    <3>3. /\ Cardinality(Pairs \ (path \cup {<<l, r>>})) < Cardinality(Pairs \ path)
          /\ Cardinality(Pairs \ (path \cup {<<l, r>>})) \in Nat
          /\ Cardinality(Pairs \ path) \in Nat
      BY <3>1, <3>2, PairsAreFinite
    <3>4. Cardinality(Pairs \ (path \cup {<<l, r>>})) < k
      BY <1>1, <3>3
    <3>5. f[<<m, n, path \cup {<<l, r>>}>>] = EqualityStep(f, m, n, path \cup {<<l, r>>})
      BY <3>1, <3>4 DEF ComparesTo
    <3> QED
      BY <3>1, <3>5, ComparingIs
  <2>2. EqualityStep(f, l, r, path) = EqualityStep(g, l, r, path)
    <3> HIDE DEF g
    <3> QED
      BY <2>1, ComparisonsAgree
  <2> QED
    BY <2>2, ComparingIs
<1> QED
  BY <1>1 DEF ComparesTo

\* There is a comparison however many pairs are left.
LEMMA ComparesAny ==
  ASSUME HeapOK, NEW k \in Nat
  PROVE  \E f : ComparesTo(f, k)
<1> DEFINE Bad == {j \in Nat : ~ \E f : ComparesTo(f, j)}
<1>1. SUFFICES ASSUME Bad # {} PROVE FALSE
  OBVIOUS
<1>2. PICK j \in Bad : \A i \in Bad : j <= i
  <2>1. Bad \in SUBSET Nat
    OBVIOUS
  <2> HIDE DEF Bad
  <2> QED
    BY <1>1, <2>1, LeastNumber
<1>3. CASE j = 0
  <2>1. ASSUME NEW path \in SUBSET Pairs
        PROVE  ~ (Cardinality(Pairs \ path) < 0)
    <3>1. Cardinality(Pairs \ path) \in Nat
      BY PairsAreFinite
    <3> QED
      BY <3>1
  <2>2. ComparesTo(heap, 0)
    BY <2>1 DEF ComparesTo
  <2> QED
    BY <1>3, <2>2
<1>4. CASE j # 0
  <2>1. j - 1 \in Nat /\ j - 1 \notin Bad
    BY <1>2, <1>4
  <2>2. PICK f : ComparesTo(f, j - 1)
    BY <2>1
  <2>3. \E g : ComparesTo(g, (j - 1) + 1)
    BY <2>1, <2>2, ComparesFurther
  <2>4. (j - 1) + 1 = j
    BY <1>2
  <2> QED
    BY <1>2, <2>3, <2>4
<1> QED
  BY <1>3, <1>4

\* The recursion of _structurally_equal has an answer for every two values, "R"
\* where the program has none.
LEMMA EqualityIsMade ==
  ASSUME HeapOK, NEW l \in Nodes, NEW r \in Nodes, NEW path \in SUBSET Pairs
  PROVE  StructurallyEqual[<<l, r, path>>] = EqualityStep(StructurallyEqual, l, r, path)
<1>1. Cardinality(Pairs) + 1 \in Nat
  BY PairsAreFinite
<1>2. PICK f : ComparesTo(f, Cardinality(Pairs) + 1)
  BY <1>1, ComparesAny
<1>3. ASSUME NEW m \in Nodes, NEW n \in Nodes, NEW seen \in SUBSET Pairs
      PROVE  f[<<m, n, seen>>] = EqualityStep(f, m, n, seen)
  <2>1. /\ Cardinality(Pairs \ seen) \in Nat /\ Cardinality(Pairs) \in Nat
        /\ Cardinality(Pairs \ seen) <= Cardinality(Pairs)
    BY PairsAreFinite
  <2> QED
    BY <1>2, <2>1 DEF ComparesTo
<1> DEFINE g == Comparing(f)
<1>4. ASSUME NEW m \in Nodes, NEW n \in Nodes, NEW seen \in SUBSET Pairs
      PROVE  EqualityStep(f, m, n, seen) = EqualityStep(g, m, n, seen)
  <2>1. ASSUME NEW x \in Members(m), NEW y \in Members(n)
        PROVE  f[<<x, y, seen \cup {<<m, n>>}>>] = g[<<x, y, seen \cup {<<m, n>>}>>]
    <3>1. x \in Nodes /\ y \in Nodes /\ seen \cup {<<m, n>>} \in SUBSET Pairs
      BY MembersAre DEF Pairs
    <3> QED
      BY <1>3, <3>1, ComparingIs
  <2> HIDE DEF g
  <2>2. <<m, n>> \notin seen =>
          \A x \in Members(m), y \in Members(n) :
            f[<<x, y, seen \cup {<<m, n>>}>>] = g[<<x, y, seen \cup {<<m, n>>}>>]
    BY <2>1, Zenon
  <2> QED
    BY <2>2, ComparisonsAgree, SMTT(20)
<1>5. IsEquality(g)
  <2>1. g = [x \in Nodes \X Nodes \X SUBSET Pairs |-> EqualityStep(f, x[1], x[2], x[3])]
    BY DEF Comparing
  <2>2. ASSUME NEW x \in Nodes \X Nodes \X SUBSET Pairs
        PROVE  EqualityStep(f, x[1], x[2], x[3]) = EqualityStep(g, x[1], x[2], x[3])
    <3>1. x[1] \in Nodes /\ x[2] \in Nodes /\ x[3] \in SUBSET Pairs
      OBVIOUS
    <3> HIDE DEF g
    <3> QED
      BY <1>4, <3>1
  <2> HIDE DEF g
  <2>3. g = [x \in Nodes \X Nodes \X SUBSET Pairs |-> EqualityStep(g, x[1], x[2], x[3])]
    BY <2>1, <2>2
  <2> QED
    BY <2>3 DEF IsEquality, Pairs
<1> HIDE DEF g
<1>6. IsEquality(StructurallyEqual)
  BY <1>5, EqualityIsChosen
<1>7. StructurallyEqual = Comparing(StructurallyEqual)
  BY <1>6 DEF IsEquality, Comparing, Pairs
<1> QED
  BY <1>7, ComparingIs

-----------------------------------------------------------------------------
(* What structural equality answers.                                        *)

\* Below n: what is reached from its members.
Below(n) == UNION {Reachable(m) : m \in Members(n)}

\* The two sides are below those of every pair that is being compared.
Leads(path, l, r) == \A p \in path : l \in Below(p[1]) /\ r \in Below(p[2])

\* What is below itself is on a cycle.
LEMMA BelowItself ==
  ASSUME HeapOK, NEW n \in Nodes, n \in Below(n)
  PROVE  Cyclic(n)
<1>1. PICK m \in Members(n) : n \in Reachable(m)
  BY DEF Below
<1> QED
  BY <1>1, ReachingItself

\* Members of what is below are below.
LEMMA BelowFurther ==
  ASSUME HeapOK, NEW n \in Nodes, NEW k \in Nodes, NEW m \in Members(k), k \in Below(n) \/ k = n
  PROVE  m \in Below(n)
<1>1. CASE k = n
  BY <1>1, MembersAre, ReachedFrom DEF Below
<1>2. CASE k \in Below(n)
  <2>1. PICK j \in Members(n) : k \in Reachable(j)
    BY <1>2 DEF Below
  <2>2. j \in Nodes
    BY MembersAre
  <2>3. m \in Reachable(j)
    BY <2>1, <2>2, ReachedFrom
  <2> QED
    BY <2>3 DEF Below
<1> QED
  BY <1>1, <1>2

\* The members of a pair that is compared are below it on both sides.
LEMMA LeadsOn ==
  ASSUME HeapOK, NEW path \in SUBSET Pairs, NEW l \in Nodes, NEW r \in Nodes, Leads(path, l, r),
         NEW m \in Members(l), NEW n \in Members(r)
  PROVE  Leads(path \cup {<<l, r>>}, m, n)
<1>1. ASSUME NEW p \in path
      PROVE  m \in Below(p[1]) /\ n \in Below(p[2])
  <2>1. p[1] \in Nodes /\ p[2] \in Nodes /\ l \in Below(p[1]) /\ r \in Below(p[2])
    BY DEF Leads, Pairs
  <2> QED
    BY <2>1, BelowFurther
<1>2. m \in Below(l) /\ n \in Below(r)
  BY BelowFurther
<1> QED
  BY <1>1, <1>2 DEF Leads

\* Right(v, l, r): v may be answered of l and r.
Right(v, l, r) ==
  /\ v \in Outcomes
  /\ v = "T" => ~ Cyclic(l) /\ ~ Cyclic(r) /\ SameTree(l, r)
  /\ v = "F" => Cyclic(l) \/ Cyclic(r) \/ ~ SameTree(l, r)
  /\ v = "R" => Cyclic(l) /\ Cyclic(r)

\* The answer by digests is right.
LEMMA RightOfDigests ==
  ASSUME HeapOK, NEW l \in Nodes, NEW r \in Nodes,
         Digest(l) # NotEncoded, Digest(r) # NotEncoded
  PROVE  Right(IF Digest(l) = Digest(r) THEN "T" ELSE "F", l, r)
<1>1. ~ Cyclic(l) /\ ~ Cyclic(r)
  BY DigestIsOfTrees
<1>2. Digest(l) = Digest(r) <=> SameTree(l, r)
  BY DigestsAreStructure DEF DigestIsStructure
<1> QED
  BY <1>1, <1>2 DEF Right, Outcomes

\* False is right of values of other types, sizes or scalar values.
LEMMA RightOfUnlike ==
  ASSUME NEW l \in Nodes, NEW r \in Nodes, ~ Alike(l, r)
  PROVE  Right("F", l, r)
BY SameTreeIs DEF Right, Outcomes

\* The answer of scalars is right.
LEMMA RightOfScalars ==
  ASSUME HeapOK, NEW l \in Nodes, NEW r \in Nodes, SameType(l, r), ~ IsContainer(l)
  PROVE  Right(ScalarsEqual(l, r), l, r)
<1>1. ~ IsContainer(r)
  BY DEF SameType, IsContainer
<1>2. ~ Cyclic(l) /\ ~ Cyclic(r)
  BY <1>1, MembersAre, CyclicThroughMembers
<1>3. SameTree(l, r) <=> ScalarsEqual(l, r) = "T"
  BY SameTreeIs DEF Alike
<1>4. ScalarsEqual(l, r) \in {"T", "F"}
  BY DEF ScalarsEqual
<1> QED
  BY <1>2, <1>3, <1>4 DEF Right, Outcomes

\* Two items are the same.
SameItem(l, r, i, j) ==
  \A k \in DOMAIN heap[l].items[i] : <<heap[l].items[i][k], heap[r].items[j][k]>> \in Same

\* RightItem(v, l, r, i, j): v may be answered of item i of l and item j of r.
RightItem(v, l, r, i, j) ==
  /\ v \in Outcomes
  /\ v = "T" => /\ SameItem(l, r, i, j)
                /\ \A k \in DOMAIN heap[l].items[i] :
                     ~ Cyclic(heap[l].items[i][k]) /\ ~ Cyclic(heap[r].items[j][k])
  /\ v = "F" => Cyclic(l) \/ Cyclic(r) \/ ~ SameItem(l, r, i, j)
  /\ v = "R" => Cyclic(l) /\ Cyclic(r)

\* The answer of two items is right when those of their members are.
LEMMA RightOfItems ==
  ASSUME HeapOK, NEW l \in Nodes, NEW r \in Nodes, IsContainer(l), SameType(l, r),
         NEW i \in DOMAIN heap[l].items, NEW j \in DOMAIN heap[r].items,
         NEW answers, answers = [k \in DOMAIN heap[l].items[i] |-> answers[k]],
         \A k \in DOMAIN heap[l].items[i] :
           Right(answers[k], heap[l].items[i][k], heap[r].items[j][k])
  PROVE  RightItem(All(answers), l, r, i, j)
<1> DEFINE D == DOMAIN heap[l].items[i]
<1>1. IsContainer(r) /\ heap[l].kind = heap[r].kind
  BY DEF SameType, IsContainer
<1>2. D = Positions(heap[l].kind) /\ DOMAIN heap[r].items[j] = D
  BY <1>1, ItemsAreNodes
<1>3. D \in SUBSET Nat
  BY <1>2 DEF Positions
<1>4. answers \in [D -> Outcomes]
  BY DEF Right
<1>5. ASSUME NEW k \in D
      PROVE  /\ heap[l].items[i][k] \in Nodes /\ heap[r].items[j][k] \in Nodes
             /\ Cyclic(heap[l].items[i][k]) => Cyclic(l)
             /\ Cyclic(heap[r].items[j][k]) => Cyclic(r)
  <2>1. heap[l].items[i][k] \in Members(l) /\ heap[r].items[j][k] \in Members(r)
    BY <1>1, <1>2, MembersAre
  <2> QED
    BY <2>1, MembersAre, CyclicThroughMembers
<1>6. \A k \in D : SameTree(heap[l].items[i][k], heap[r].items[j][k]) <=>
                     <<heap[l].items[i][k], heap[r].items[j][k]>> \in Same
  BY <1>5 DEF Same
<1>7. /\ All(answers) \in Outcomes
      /\ All(answers) = "T" => \A k \in D : answers[k] = "T"
      /\ All(answers) = "F" => \E k \in D : answers[k] = "F"
      /\ All(answers) = "R" => \E k \in D : answers[k] = "R"
  <2> HIDE DEF D
  <2> QED
    BY <1>3, <1>4, FirstAnswer
<1>8. CASE All(answers) = "T"
  BY <1>6, <1>7, <1>8 DEF Right, RightItem, SameItem
<1>9. CASE All(answers) = "F"
  BY <1>5, <1>6, <1>7, <1>9 DEF Right, RightItem, SameItem
<1>10. CASE All(answers) = "R"
  BY <1>5, <1>7, <1>10 DEF Right, RightItem
<1> QED
  BY <1>7, <1>8, <1>9, <1>10 DEF Outcomes

\* Containers of one type and size, item by item.
LEMMA EndsWithItsItems ==
  ASSUME HeapOK, NEW n \in Nodes, IsContainer(n),
         \A i \in DOMAIN heap[n].items : \A k \in DOMAIN heap[n].items[i] :
           ~ Cyclic(heap[n].items[i][k])
  PROVE  ~ Cyclic(n)
<1>1. \A m \in Members(n) : ~ Cyclic(m)
  BY MembersAre
<1> QED
  BY <1>1, CyclicThroughMembers

\* Two sequences are the same when their items are, in order.
LEMMA SameInOrder ==
  ASSUME HeapOK, NEW l \in Nodes, NEW r \in Nodes, IsContainer(l), Alike(l, r),
         heap[l].kind \in Sequential
  PROVE  SameTree(l, r) <=> \A i \in DOMAIN heap[l].items : SameItem(l, r, i, i)
<1> DEFINE D == DOMAIN heap[l].items
<1>1. IsContainer(r) /\ DOMAIN heap[r].items = D
  BY ItemsAreNodes DEF Alike, SameType, IsContainer
<1>2. ASSUME SameTree(l, r), NEW i \in D
      PROVE  SameItem(l, r, i, i)
  <2>1. PICK f \in Bijection(D, D) :
          /\ \A x \in DOMAIN f : f[x] = x
          /\ \A x \in DOMAIN f : \A k \in DOMAIN heap[l].items[x] :
               <<heap[l].items[x][k], heap[r].items[f[x]][k]>> \in Same
    BY <1>1, <1>2, SameTreeIs DEF ItemsMatch
  <2>2. DOMAIN f = D
    BY Fun_BijectionProperties
  <2> QED
    BY <2>1, <2>2 DEF SameItem
<1>3. ASSUME \A i \in D : SameItem(l, r, i, i)
      PROVE  SameTree(l, r)
  <2> DEFINE f == [i \in D |-> i]
  <2>1. f \in Bijection(D, D)
    BY NothingMoves
  <2>2. DOMAIN f = D /\ \A i \in D : f[i] = i
    OBVIOUS
  <2> HIDE DEF f
  <2>3. ItemsMatch(l, r, Same)
    BY <1>1, <1>3, <2>1, <2>2 DEF ItemsMatch, SameItem
  <2> QED
    BY <2>3, SameTreeIs
<1> QED
  BY <1>2, <1>3

\* Two sets or dicts are the same when some pairing of their items is.
LEMMA SameInSomeOrder ==
  ASSUME HeapOK, NEW l \in Nodes, NEW r \in Nodes, IsContainer(l), Alike(l, r),
         heap[l].kind \notin Sequential
  PROVE  SameTree(l, r) <=>
           \E f \in Bijection(DOMAIN heap[l].items, DOMAIN heap[r].items) :
             \A i \in DOMAIN heap[l].items : SameItem(l, r, i, f[i])
<1>1. \A f \in Bijection(DOMAIN heap[l].items, DOMAIN heap[r].items) :
        DOMAIN f = DOMAIN heap[l].items
  BY Fun_BijectionProperties
<1>2. ItemsMatch(l, r, Same) <=>
        \E f \in Bijection(DOMAIN heap[l].items, DOMAIN heap[r].items) :
          \A i \in DOMAIN heap[l].items : SameItem(l, r, i, f[i])
  BY <1>1 DEF ItemsMatch, SameItem
<1> QED
  BY <1>2, SameTreeIs

\* Two pairings with one set of items compared, and a third that joins them.
LEMMA PairingThrough ==
  ASSUME NEW A, NEW B, NEW C, NEW D,
         NEW f \in Bijection(A, C), NEW g \in Bijection(A, D), NEW h \in Bijection(B, C)
  PROVE  \E e \in Bijection(B, D) : \A b \in B : \E a \in A : f[a] = h[b] /\ e[b] = g[a]
<1> DEFINE back == Inverse(f, A, C)
<1>1. back \in Bijection(C, A) /\ \A a \in A : back[f[a]] = a
  BY Fun_BijInverse
<1>2. (\A c \in C : \E a \in A : f[a] = c) /\ g \in [A -> D] /\ h \in [B -> C]
  BY Fun_BijectionProperties
<1> HIDE DEF back
<1> DEFINE e1 == [b \in B |-> back[h[b]]]
<1>3. e1 \in Bijection(B, A)
  BY <1>1, Fun_BijTransitive
<1>4. \A b \in B : e1[b] = back[h[b]]
  OBVIOUS
<1> HIDE DEF e1
<1> DEFINE e == [b \in B |-> g[e1[b]]]
<1>5. e \in Bijection(B, D)
  BY <1>3, Fun_BijTransitive
<1>6. \A b \in B : e[b] = g[e1[b]]
  OBVIOUS
<1> HIDE DEF e
<1>7. ASSUME NEW b \in B
      PROVE  \E a \in A : f[a] = h[b] /\ e[b] = g[a]
  <2>1. PICK a \in A : f[a] = h[b]
    BY <1>2
  <2>2. e1[b] = a
    BY <1>1, <1>4, <2>1
  <2> QED
    BY <1>6, <2>1, <2>2
<1> QED
  BY <1>5, <1>7

\* b and d, each the same as one of two values that are the same.
Joined(b, d) ==
  \E a, c \in Nodes : <<a, c>> \in Same /\ <<a, d>> \in Same /\ <<b, c>> \in Same

\* Two values joined by values that are the same are alike.
LEMMA JoinedAlike ==
  ASSUME NEW b \in Nodes, NEW d \in Nodes, Joined(b, d)
  PROVE  Alike(b, d)
<1>1. PICK a \in Nodes : \E c \in Nodes :
        <<a, c>> \in Same /\ <<a, d>> \in Same /\ <<b, c>> \in Same
  BY DEF Joined
<1>2. PICK c \in Nodes : <<a, c>> \in Same /\ <<a, d>> \in Same /\ <<b, c>> \in Same
  BY <1>1
<1>3. Alike(a, c) /\ Alike(a, d) /\ Alike(b, c)
  BY <1>2, SameTreeIs DEF Same
<1>4. heap[a].kind = heap[c].kind /\ heap[a].kind = heap[d].kind /\ heap[b].kind = heap[c].kind
  BY <1>3 DEF Alike, SameType
<1>5. CASE IsContainer(b)
  <2>1. IsContainer(a)
    BY <1>4, <1>5 DEF IsContainer
  <2>2. Len(heap[b].items) = Len(heap[d].items)
    BY <1>3, <1>5, <2>1 DEF Alike
  <2> QED
    BY <1>4, <1>5, <2>2 DEF Alike, SameType
<1>6. CASE ~ IsContainer(b)
  <2>1. ~ IsContainer(a)
    BY <1>4, <1>6 DEF IsContainer
  <2>2. ScalarsEqual(a, c) = "T" /\ ScalarsEqual(a, d) = "T" /\ ScalarsEqual(b, c) = "T"
    BY <1>3, <1>6, <2>1 DEF Alike
  <2>3. ScalarsEqual(b, d) = "T"
    <3>1. /\ Normalized(a) = Normalized(c) /\ Normalized(a) = Normalized(d)
          /\ Normalized(b) = Normalized(c) /\ Normalized(b) # NaN
      BY <2>2 DEF ScalarsEqual
    <3> QED
      BY <3>1 DEF ScalarsEqual
  <2> QED
    BY <1>4, <1>6, <2>3 DEF Alike, SameType
<1> QED
  BY <1>5, <1>6

\* Two containers joined by values that are the same have items that are joined.
LEMMA JoinedMatch ==
  ASSUME HeapOK, NEW b \in Nodes, NEW d \in Nodes, Joined(b, d), IsContainer(b)
  PROVE  ItemsMatch(b, d, {p \in Pairs : Joined(p[1], p[2])})
<1>1. PICK a \in Nodes : \E c \in Nodes :
        <<a, c>> \in Same /\ <<a, d>> \in Same /\ <<b, c>> \in Same
  BY DEF Joined
<1>2. PICK c \in Nodes : <<a, c>> \in Same /\ <<a, d>> \in Same /\ <<b, c>> \in Same
  BY <1>1
<1>3. Alike(a, c) /\ Alike(a, d) /\ Alike(b, c)
  BY <1>2, SameTreeIs DEF Same
<1>4. heap[a].kind = heap[b].kind /\ heap[c].kind = heap[b].kind /\ heap[d].kind = heap[b].kind
  BY <1>3 DEF Alike, SameType
<1>5. IsContainer(a) /\ IsContainer(c) /\ IsContainer(d)
  BY <1>4 DEF IsContainer
<1>6. ItemsMatch(a, c, Same) /\ ItemsMatch(a, d, Same) /\ ItemsMatch(b, c, Same)
  BY <1>2, <1>5, SameTreeIs DEF Same
<1> DEFINE A == DOMAIN heap[a].items
           B == DOMAIN heap[b].items
           C == DOMAIN heap[c].items
           D == DOMAIN heap[d].items
           K == Positions(heap[b].kind)
<1>7. PICK f \in Bijection(A, C) :
        /\ heap[b].kind \in Sequential => \A i \in DOMAIN f : f[i] = i
        /\ \A i \in DOMAIN f : \A k \in DOMAIN heap[a].items[i] :
             <<heap[a].items[i][k], heap[c].items[f[i]][k]>> \in Same
  BY <1>4, <1>6 DEF ItemsMatch
<1>8. PICK g \in Bijection(A, D) :
        /\ heap[b].kind \in Sequential => \A i \in DOMAIN g : g[i] = i
        /\ \A i \in DOMAIN g : \A k \in DOMAIN heap[a].items[i] :
             <<heap[a].items[i][k], heap[d].items[g[i]][k]>> \in Same
  BY <1>4, <1>6 DEF ItemsMatch
<1>9. PICK h \in Bijection(B, C) :
        /\ heap[b].kind \in Sequential => \A i \in DOMAIN h : h[i] = i
        /\ \A i \in DOMAIN h : \A k \in DOMAIN heap[b].items[i] :
             <<heap[b].items[i][k], heap[c].items[h[i]][k]>> \in Same
  BY <1>6 DEF ItemsMatch
<1>10. /\ \A i \in A : DOMAIN heap[a].items[i] = K /\ \A k \in K : heap[a].items[i][k] \in Nodes
       /\ \A i \in B : DOMAIN heap[b].items[i] = K /\ \A k \in K : heap[b].items[i][k] \in Nodes
       /\ \A i \in C : DOMAIN heap[c].items[i] = K /\ \A k \in K : heap[c].items[i][k] \in Nodes
       /\ \A i \in D : DOMAIN heap[d].items[i] = K /\ \A k \in K : heap[d].items[i][k] \in Nodes
  BY <1>4, <1>5, ItemsAreNodes
<1> HIDE DEF A, B, C, D, K
<1>11. f \in [A -> C] /\ g \in [A -> D] /\ h \in [B -> C]
  BY Fun_BijectionProperties
<1>12. PICK e \in Bijection(B, D) : \A i \in B : \E x \in A : f[x] = h[i] /\ e[i] = g[x]
  BY PairingThrough
<1>13. e \in [B -> D]
  BY Fun_BijectionProperties
<1>14. ASSUME heap[b].kind \in Sequential, NEW i \in B
       PROVE  e[i] = i
  <2>1. PICK x \in A : f[x] = h[i] /\ e[i] = g[x]
    BY <1>12
  <2> QED
    BY <1>7, <1>8, <1>9, <1>11, <1>14, <2>1
<1>15. ASSUME NEW i \in B, NEW k \in K
       PROVE  <<heap[b].items[i][k], heap[d].items[e[i]][k]>> \in {p \in Pairs : Joined(p[1], p[2])}
  <2>1. PICK x \in A : f[x] = h[i] /\ e[i] = g[x]
    BY <1>12
  <2> DEFINE na == heap[a].items[x][k]
             nb == heap[b].items[i][k]
             nc == heap[c].items[f[x]][k]
             nd == heap[d].items[e[i]][k]
  <2>2. na \in Nodes /\ nb \in Nodes /\ nc \in Nodes /\ nd \in Nodes
    BY <1>10, <1>11, <1>13
  <2>3. <<na, nc>> \in Same
    BY <1>7, <1>10, <1>11
  <2>4. <<na, nd>> \in Same
    BY <1>8, <1>10, <1>11, <2>1
  <2>5. <<nb, nc>> \in Same
    BY <1>9, <1>10, <1>11, <2>1
  <2> HIDE DEF na, nb, nc, nd
  <2>6. Joined(nb, nd)
    BY <2>2, <2>3, <2>4, <2>5 DEF Joined
  <2>7. <<nb, nd>> \in {p \in Pairs : Joined(p[1], p[2])}
    BY <2>2, <2>6 DEF Pairs
  <2> QED
    BY <2>7 DEF nb, nd
<1> DEFINE R == {p \in Pairs : Joined(p[1], p[2])}
<1>16. \A i \in B : \A k \in DOMAIN heap[b].items[i] :
         <<heap[b].items[i][k], heap[d].items[e[i]][k]>> \in R
  BY <1>10, <1>15
<1> HIDE DEF R
<1>17. ItemsMatch(b, d, R)
  BY <1>12, <1>13, <1>14, <1>16 DEF ItemsMatch, B, D
<1> QED
  BY <1>17 DEF R

\* What is the same as either of two values that are the same is the same.
LEMMA SameIsDifunctional ==
  ASSUME HeapOK, NEW b \in Nodes, NEW d \in Nodes, Joined(b, d)
  PROVE  <<b, d>> \in Same
<1> DEFINE R == {p \in Pairs : Joined(p[1], p[2])}
<1>1. \A p \in R : Alike(p[1], p[2])
  BY JoinedAlike DEF Pairs
<1>2. \A p \in R : IsContainer(p[1]) => ItemsMatch(p[1], p[2], R)
  BY JoinedMatch DEF Pairs
<1>3. R \subseteq Nodes \X Nodes
  BY DEF Pairs
<1>4. <<b, d>> \in R
  BY DEF Pairs
<1> HIDE DEF R
<1>5. Steady(R)
  BY <1>1, <1>2, <1>3 DEF Steady
<1> QED
  BY <1>4, <1>5, SteadyIsSame

\* All the items of l and r, where the answer of each pair of them may be given.
RightAnswers(answer, l, r) ==
  /\ answer = [i \in DOMAIN heap[l].items |-> answer[i]]
  /\ \A i \in DOMAIN heap[l].items :
       /\ answer[i] = [j \in DOMAIN heap[r].items |-> answer[i][j]]
       /\ \A j \in DOMAIN heap[r].items : RightItem(answer[i][j], l, r, i, j)

\* A container whose items are each answered to equal some item ends.
LEMMA EndsWhenAnswered ==
  ASSUME HeapOK, NEW l \in Nodes, NEW r \in Nodes, IsContainer(l), Alike(l, r),
         NEW answer, RightAnswers(answer, l, r),
         \A i \in DOMAIN heap[l].items : \E j \in DOMAIN heap[r].items : answer[i][j] = "T",
         \A j \in DOMAIN heap[r].items : \E i \in DOMAIN heap[l].items : answer[i][j] = "T"
  PROVE  ~ Cyclic(l) /\ ~ Cyclic(r)
<1>1. IsContainer(r) /\ heap[l].kind = heap[r].kind
  BY DEF Alike, SameType, IsContainer
<1>2. ASSUME NEW i \in DOMAIN heap[l].items, NEW j \in DOMAIN heap[r].items, answer[i][j] = "T"
      PROVE  /\ \A k \in DOMAIN heap[l].items[i] : ~ Cyclic(heap[l].items[i][k])
             /\ \A k \in DOMAIN heap[r].items[j] : ~ Cyclic(heap[r].items[j][k])
  <2>1. DOMAIN heap[l].items[i] = DOMAIN heap[r].items[j]
    BY <1>1, ItemsAreNodes
  <2>2. RightItem("T", l, r, i, j)
    BY <1>2 DEF RightAnswers
  <2> QED
    BY <2>1, <2>2 DEF RightItem
<1>3. ~ Cyclic(l)
  <2>1. \A i \in DOMAIN heap[l].items : \A k \in DOMAIN heap[l].items[i] :
          ~ Cyclic(heap[l].items[i][k])
    BY <1>2
  <2> QED
    BY <2>1, EndsWithItsItems
<1>4. ~ Cyclic(r)
  <2>1. \A j \in DOMAIN heap[r].items : \A k \in DOMAIN heap[r].items[j] :
          ~ Cyclic(heap[r].items[j][k])
    BY <1>2
  <2> QED
    BY <1>1, <2>1, EndsWithItsItems
<1> QED
  BY <1>3, <1>4

\* The answer of two sequences is right when those of their items are.
LEMMA RightInOrder ==
  ASSUME HeapOK, NEW l \in Nodes, NEW r \in Nodes, IsContainer(l), Alike(l, r),
         InOrder(heap[l].kind), NEW answer, RightAnswers(answer, l, r)
  PROVE  Right(All([i \in DOMAIN heap[l].items |-> answer[i][i]]), l, r)
<1> DEFINE D == DOMAIN heap[l].items
           answers == [i \in D |-> answer[i][i]]
<1>1. IsContainer(r) /\ DOMAIN heap[r].items = D /\ D \in SUBSET Nat
  <2>1. IsContainer(r) /\ Len(heap[l].items) = Len(heap[r].items)
    BY DEF Alike, SameType, IsContainer
  <2>2. /\ D = 1..Len(heap[l].items) /\ Len(heap[l].items) \in Nat
        /\ DOMAIN heap[r].items = 1..Len(heap[r].items)
    BY <2>1, ItemsAreNodes
  <2> QED
    BY <2>1, <2>2
<1>2. \A i \in D : answers[i] = answer[i][i] /\ RightItem(answer[i][i], l, r, i, i)
  BY <1>1 DEF RightAnswers
<1>3. answers \in [D -> Outcomes]
  BY <1>2 DEF RightItem
<1>4. SameTree(l, r) <=> \A i \in D : SameItem(l, r, i, i)
  BY SameInOrder DEF InOrder
<1> DEFINE v == All(answers)
<1> HIDE DEF answers, D
<1>5. /\ v \in Outcomes
      /\ v = "T" => \A i \in D : answers[i] = "T"
      /\ v = "F" => \E i \in D : answers[i] = "F"
      /\ v = "R" => \E i \in D : answers[i] = "R"
  BY <1>1, <1>3, FirstAnswer
<1> HIDE DEF v
<1>6. ASSUME v = "T"
      PROVE  ~ Cyclic(l) /\ ~ Cyclic(r) /\ SameTree(l, r)
  <2>1. \A i \in D : answer[i][i] = "T"
    BY <1>2, <1>5, <1>6
  <2>2. \A i \in D : SameItem(l, r, i, i)
    BY <1>2, <2>1 DEF RightItem
  <2>3. ~ Cyclic(l) /\ ~ Cyclic(r)
    <3>1. /\ \A i \in DOMAIN heap[l].items : \E j \in DOMAIN heap[r].items : answer[i][j] = "T"
          /\ \A j \in DOMAIN heap[r].items : \E i \in DOMAIN heap[l].items : answer[i][j] = "T"
      BY <1>1, <2>1 DEF D
    <3> QED
      BY <3>1, EndsWhenAnswered
  <2> QED
    BY <1>4, <2>2, <2>3
<1>7. ASSUME v = "F"
      PROVE  Cyclic(l) \/ Cyclic(r) \/ ~ SameTree(l, r)
  <2>1. PICK i \in D : answer[i][i] = "F"
    BY <1>2, <1>5, <1>7
  <2> QED
    BY <1>2, <1>4, <2>1 DEF RightItem
<1>8. ASSUME v = "R"
      PROVE  Cyclic(l) /\ Cyclic(r)
  <2>1. PICK i \in D : answer[i][i] = "R"
    BY <1>2, <1>5, <1>8
  <2> QED
    BY <1>2, <2>1 DEF RightItem
<1>9. Right(v, l, r)
  BY <1>5, <1>6, <1>7, <1>8 DEF Right
<1> QED
  BY <1>9 DEF v, answers, D

\* The answers of two containers that end tell which items are the same.
LEMMA AnswersTellSame ==
  ASSUME HeapOK, NEW l \in Nodes, NEW r \in Nodes, IsContainer(l), Alike(l, r),
         NEW answer, RightAnswers(answer, l, r), ~ Cyclic(l), ~ Cyclic(r)
  PROVE  \A i \in DOMAIN heap[l].items : \A j \in DOMAIN heap[r].items :
           answer[i][j] # "R" /\ (answer[i][j] = "T" <=> SameItem(l, r, i, j))
<1> SUFFICES ASSUME NEW i \in DOMAIN heap[l].items, NEW j \in DOMAIN heap[r].items
             PROVE  answer[i][j] # "R" /\ (answer[i][j] = "T" <=> SameItem(l, r, i, j))
  OBVIOUS
<1>1. RightItem(answer[i][j], l, r, i, j)
  BY DEF RightAnswers
<1> QED
  BY <1>1 DEF RightItem, Outcomes

\* Two items that are the same as one item are the same as the same items.
LEMMA SameItemsAreDifunctional ==
  ASSUME HeapOK, NEW l \in Nodes, NEW r \in Nodes, IsContainer(l), Alike(l, r),
         NEW x \in DOMAIN heap[l].items, NEW y \in DOMAIN heap[l].items,
         NEW u \in DOMAIN heap[r].items, NEW v \in DOMAIN heap[r].items,
         SameItem(l, r, x, u), SameItem(l, r, x, v), SameItem(l, r, y, u)
  PROVE  SameItem(l, r, y, v)
<1>1. IsContainer(r) /\ heap[l].kind = heap[r].kind
  BY DEF Alike, SameType, IsContainer
<1> DEFINE K == Positions(heap[l].kind)
<1>2. /\ DOMAIN heap[l].items[x] = K /\ DOMAIN heap[l].items[y] = K
      /\ \A k \in K : heap[l].items[x][k] \in Nodes /\ heap[l].items[y][k] \in Nodes
      /\ \A k \in K : heap[r].items[u][k] \in Nodes /\ heap[r].items[v][k] \in Nodes
  BY <1>1, ItemsAreNodes
<1> HIDE DEF K
<1>3. ASSUME NEW k \in K
      PROVE  <<heap[l].items[y][k], heap[r].items[v][k]>> \in Same
  <2>1. /\ <<heap[l].items[x][k], heap[r].items[u][k]>> \in Same
        /\ <<heap[l].items[x][k], heap[r].items[v][k]>> \in Same
        /\ <<heap[l].items[y][k], heap[r].items[u][k]>> \in Same
    BY <1>2 DEF SameItem
  <2>2. Joined(heap[l].items[y][k], heap[r].items[v][k])
    BY <1>2, <2>1 DEF Joined
  <2> QED
    BY <1>2, <2>2, SameIsDifunctional
<1> QED
  BY <1>2, <1>3 DEF SameItem

\* The answer of two sets or dicts is right when those of their items are.
LEMMA RightInSomeOrder ==
  ASSUME HeapOK, NEW l \in Nodes, NEW r \in Nodes, IsContainer(l), Alike(l, r),
         ~ InOrder(heap[l].kind), NEW answer, RightAnswers(answer, l, r)
  PROVE  Right(Paired(answer), l, r)
<1> DEFINE N == Len(answer)
           v == Paired(answer)
<1>1. IsContainer(r) /\ Len(heap[l].items) = Len(heap[r].items)
  BY DEF Alike, SameType, IsContainer
<1>2. /\ N \in Nat /\ DOMAIN heap[l].items = 1..N /\ DOMAIN heap[r].items = 1..N
  <2>1. /\ Len(heap[l].items) \in Nat
        /\ DOMAIN heap[l].items = 1..Len(heap[l].items)
        /\ DOMAIN heap[r].items = 1..Len(heap[l].items)
    BY <1>1, ItemsAreNodes
  <2>2. answer = [i \in 1..Len(heap[l].items) |-> answer[i]]
    BY <2>1 DEF RightAnswers
  <2>3. Len(answer) = Len(heap[l].items)
    BY <2>1, <2>2
  <2> QED
    BY <2>1, <2>3
<1>3. \A i, j \in 1..N : RightItem(answer[i][j], l, r, i, j)
  BY <1>2 DEF RightAnswers
<1>4. Answered(answer)
  <2>1. answer = [i \in 1..N |-> answer[i]]
    BY <1>2 DEF RightAnswers
  <2>2. \A i \in 1..N : answer[i] = [j \in 1..N |-> answer[i][j]]
    BY <1>2 DEF RightAnswers
  <2>3. \A i, j \in 1..N : answer[i][j] \in Outcomes
    BY <1>3 DEF RightItem
  <2> HIDE DEF N
  <2>4. \A i \in 1..N : answer[i] \in [1..N -> Outcomes]
    BY <2>2, <2>3
  <2>5. answer \in [1..N -> [1..N -> Outcomes]]
    BY <2>1, <2>4
  <2> QED
    BY <1>2, <2>5 DEF Answered, N
<1>5. PairedRightly(answer, 1, 1..N, v)
  BY <1>4, PairedIsRight
<1>6. SameTree(l, r) <=> \E f \in Bijection(1..N, 1..N) : \A i \in 1..N : SameItem(l, r, i, f[i])
  BY <1>2, SameInSomeOrder DEF InOrder
<1> HIDE DEF v
<1>7. ASSUME v = "T"
      PROVE  ~ Cyclic(l) /\ ~ Cyclic(r) /\ SameTree(l, r)
  <2>1. PICK f \in Bijection(1..N, 1..N) : \A i \in 1..N : answer[i][f[i]] = "T"
    BY <1>5, <1>7 DEF PairedRightly, AllPaired
  <2>2. f \in [1..N -> 1..N]
    BY Fun_BijectionProperties, SMTT(20)
  <2>3. \A j \in 1..N : \E i \in 1..N : f[i] = j
    <3> DEFINE S == 1..N
    <3>1. f \in Bijection(S, S)
      OBVIOUS
    <3> HIDE DEF S
    <3>2. \A j \in S : \E i \in S : f[i] = j
      BY <3>1, Fun_BijectionProperties, SMTT(20)
    <3> QED
      BY <3>2 DEF S
  <2>4. ASSUME NEW i \in 1..N
        PROVE  SameItem(l, r, i, f[i])
    <3>1. f[i] \in 1..N /\ answer[i][f[i]] = "T"
      BY <2>1, <2>2
    <3>2. RightItem("T", l, r, i, f[i])
      BY <1>3, <3>1
    <3> QED
      BY <3>2 DEF RightItem
  <2>5. /\ \A i \in DOMAIN heap[l].items : \E j \in DOMAIN heap[r].items : answer[i][j] = "T"
        /\ \A j \in DOMAIN heap[r].items : \E i \in DOMAIN heap[l].items : answer[i][j] = "T"
    BY <1>2, <2>1, <2>2, <2>3
  <2>6. ~ Cyclic(l) /\ ~ Cyclic(r)
    BY <2>5, EndsWhenAnswered
  <2> QED
    BY <1>6, <2>4, <2>6
<1>8. ASSUME v = "F", ~ Cyclic(l), ~ Cyclic(r), SameTree(l, r)
      PROVE  FALSE
  <2>1. \A i, j \in 1..N : answer[i][j] # "R" /\ (answer[i][j] = "T" <=> SameItem(l, r, i, j))
    BY <1>2, <1>8, AnswersTellSame
  <2>2. Settled(answer)
    BY <2>1 DEF Settled
  <2>3. Difunctional(answer)
    <3>1. ASSUME NEW x \in 1..N, NEW y \in 1..N, NEW p \in 1..N, NEW q \in 1..N,
                 answer[x][p] = "T", answer[x][q] = "T", answer[y][p] = "T"
          PROVE  answer[y][q] = "T"
      <4>1. SameItem(l, r, x, p) /\ SameItem(l, r, x, q) /\ SameItem(l, r, y, p)
        BY <2>1, <3>1
      <4>2. SameItem(l, r, y, q)
        BY <1>2, <4>1, SameItemsAreDifunctional
      <4> QED
        BY <2>1, <4>2
    <3> QED
      BY <3>1 DEF Difunctional
  <2>4. AllPaired(answer, 1, 1..N)
    <3>1. PICK f \in Bijection(1..N, 1..N) : \A i \in 1..N : SameItem(l, r, i, f[i])
      BY <1>6, <1>8
    <3>2. f \in [1..N -> 1..N]
      BY Fun_BijectionProperties
    <3>3. \A i \in 1..N : answer[i][f[i]] = "T"
      BY <2>1, <3>1, <3>2
    <3> QED
      BY <3>3 DEF AllPaired
  <2> QED
    BY <1>5, <1>8, <2>2, <2>3, <2>4 DEF PairedRightly
<1>9. ASSUME v = "R"
      PROVE  Cyclic(l) /\ Cyclic(r)
  <2>1. PICK x \in 1..N : \E u \in 1..N : answer[x][u] = "R"
    BY <1>5, <1>9 DEF PairedRightly, Settled
  <2>2. PICK u \in 1..N : answer[x][u] = "R"
    BY <2>1
  <2>3. RightItem("R", l, r, x, u)
    BY <1>3, <2>2
  <2> QED
    BY <2>3 DEF RightItem
<1>10. v \in Outcomes
  BY <1>5 DEF PairedRightly
<1>11. Right(v, l, r)
  BY <1>7, <1>8, <1>9, <1>10 DEF Right
<1> QED
  BY <1>11 DEF v

RightFrom(path, l, r) ==
  Leads(path, l, r) => Right(StructurallyEqual[<<l, r, path>>], l, r)

\* One comparison answers rightly when those of the members do.
LEMMA RightStep ==
  ASSUME HeapOK, NEW path \in SUBSET Pairs, NEW l \in Nodes, NEW r \in Nodes,
         Leads(path, l, r),
         <<l, r>> \notin path =>
           \A m, n \in Nodes : RightFrom(path \cup {<<l, r>>}, m, n)
  PROVE  Right(StructurallyEqual[<<l, r, path>>], l, r)
<1> DEFINE eq == StructurallyEqual
           answer == ItemsCompared(eq, l, r, path)
<1>1. eq[<<l, r, path>>] = EqualityStep(eq, l, r, path)
  BY EqualityIsMade
<1> HIDE DEF eq
<1>2. CASE Digest(l) # NotEncoded /\ Digest(r) # NotEncoded
  <2>1. eq[<<l, r, path>>] = IF Digest(l) = Digest(r) THEN "T" ELSE "F"
    BY <1>1, <1>2 DEF EqualityStep
  <2>2. Right(IF Digest(l) = Digest(r) THEN "T" ELSE "F", l, r)
    BY <1>2, RightOfDigests
  <2> QED
    BY <2>1, <2>2 DEF eq
<1> DEFINE Unencoded == ~ (Digest(l) # NotEncoded /\ Digest(r) # NotEncoded)
<1>3. CASE Unencoded /\ <<l, r>> \in path
  <2>1. eq[<<l, r, path>>] = "R"
    BY <1>1, <1>3 DEF EqualityStep
  <2>2. l \in Below(l) /\ r \in Below(r)
    BY <1>3 DEF Leads
  <2>3. Cyclic(l) /\ Cyclic(r)
    BY <2>2, BelowItself
  <2> QED
    BY <2>1, <2>3 DEF Right, Outcomes, eq
<1>4. CASE Unencoded /\ <<l, r>> \notin path /\ ~ SameType(l, r)
  <2>1. eq[<<l, r, path>>] = "F"
    BY <1>1, <1>4 DEF EqualityStep
  <2> QED
    BY <1>4, <2>1, RightOfUnlike DEF Alike, eq
<1>5. CASE Unencoded /\ <<l, r>> \notin path /\ SameType(l, r) /\ ~ IsContainer(l)
  <2>1. eq[<<l, r, path>>] = ScalarsEqual(l, r)
    BY <1>1, <1>5 DEF EqualityStep
  <2>2. Right(ScalarsEqual(l, r), l, r)
    BY <1>5, RightOfScalars
  <2> QED
    BY <2>1, <2>2 DEF eq
<1>6. CASE Unencoded /\ <<l, r>> \notin path /\ SameType(l, r) /\ IsContainer(l)
           /\ Len(heap[l].items) # Len(heap[r].items)
  <2>1. eq[<<l, r, path>>] = "F"
    BY <1>1, <1>6 DEF EqualityStep
  <2> QED
    BY <1>6, <2>1, RightOfUnlike DEF Alike, eq
<1>7. CASE Unencoded /\ <<l, r>> \notin path /\ SameType(l, r) /\ IsContainer(l)
           /\ Len(heap[l].items) = Len(heap[r].items)
  <2>1. Alike(l, r) /\ IsContainer(r) /\ heap[l].kind = heap[r].kind
    BY <1>7 DEF Alike, SameType, IsContainer
  <2>2. ASSUME NEW i \in DOMAIN heap[l].items, NEW j \in DOMAIN heap[r].items
        PROVE  RightItem(answer[i][j], l, r, i, j)
    <3> DEFINE answers == [k \in DOMAIN heap[l].items[i] |->
                 eq[<<heap[l].items[i][k], heap[r].items[j][k], path \cup {<<l, r>>}>>]]
    <3>1. answer[i][j] = All(answers)
      BY DEF ItemsCompared
    <3>2. ASSUME NEW k \in DOMAIN heap[l].items[i]
          PROVE  Right(answers[k], heap[l].items[i][k], heap[r].items[j][k])
      <4>1. k \in DOMAIN heap[r].items[j]
        BY <1>7, <2>1, ItemsAreNodes
      <4>2. heap[l].items[i][k] \in Members(l) /\ heap[r].items[j][k] \in Members(r)
        BY <1>7, <2>1, <4>1, MembersAre
      <4>3. Leads(path \cup {<<l, r>>}, heap[l].items[i][k], heap[r].items[j][k])
        BY <4>2, LeadsOn
      <4>4. heap[l].items[i][k] \in Nodes /\ heap[r].items[j][k] \in Nodes
        BY <4>2, MembersAre
      <4>5. RightFrom(path \cup {<<l, r>>}, heap[l].items[i][k], heap[r].items[j][k])
        BY <1>7, <4>4
      <4> QED
        BY <4>3, <4>5 DEF RightFrom, eq
    <3>3. answers = [k \in DOMAIN heap[l].items[i] |-> answers[k]]
      OBVIOUS
    <3> HIDE DEF answers
    <3>4. RightItem(All(answers), l, r, i, j)
      BY <1>7, <3>2, <3>3, RightOfItems
    <3> QED
      BY <3>1, <3>4
  <2>3. RightAnswers(answer, l, r)
    <3>1. /\ answer = [i \in DOMAIN heap[l].items |-> answer[i]]
          /\ \A i \in DOMAIN heap[l].items :
               answer[i] = [j \in DOMAIN heap[r].items |-> answer[i][j]]
      BY DEF ItemsCompared
    <3> HIDE DEF answer
    <3> QED
      BY <2>2, <3>1 DEF RightAnswers
  <2>4. eq[<<l, r, path>>] = IF InOrder(heap[l].kind)
                             THEN All([i \in DOMAIN heap[l].items |-> answer[i][i]])
                             ELSE Paired(answer)
    BY <1>1, <1>7 DEF EqualityStep
  <2> HIDE DEF answer
  <2>5. CASE InOrder(heap[l].kind)
    BY <1>7, <2>1, <2>3, <2>4, <2>5, RightInOrder DEF eq
  <2>6. CASE ~ InOrder(heap[l].kind)
    BY <1>7, <2>1, <2>3, <2>4, <2>6, RightInSomeOrder DEF eq
  <2> QED
    BY <2>5, <2>6
<1> QED
  BY <1>2, <1>3, <1>4, <1>5, <1>6, <1>7

\* Whatever is being compared, the answer is right.
LEMMA RightAnywhere ==
  ASSUME HeapOK
  PROVE  \A path \in SUBSET Pairs : \A l, r \in Nodes : RightFrom(path, l, r)
<1> DEFINE AllRight(path) == \A l, r \in Nodes : RightFrom(path, l, r)
           Bad == {Cardinality(Pairs \ path) : path \in {x \in SUBSET Pairs : ~ AllRight(x)}}
<1>1. SUFFICES ASSUME Bad # {} PROVE FALSE
  OBVIOUS
<1>2. PICK k \in Bad : \A j \in Bad : k <= j
  <2>1. Bad \in SUBSET Nat
    BY PairsAreFinite
  <2> HIDE DEF Bad
  <2> QED
    BY <1>1, <2>1, LeastNumber
<1>3. PICK path \in SUBSET Pairs : ~ AllRight(path) /\ Cardinality(Pairs \ path) = k
  OBVIOUS
<1>4. PICK l \in Nodes : \E r \in Nodes : ~ RightFrom(path, l, r)
  BY <1>3
<1>5. PICK r \in Nodes : ~ RightFrom(path, l, r)
  BY <1>4
<1>6. ASSUME <<l, r>> \notin path
      PROVE  AllRight(path \cup {<<l, r>>})
  <2> DEFINE longer == path \cup {<<l, r>>}
  <2>1. <<l, r>> \in Pairs \ path /\ longer \in SUBSET Pairs
    BY <1>6 DEF Pairs
  <2>2. /\ Cardinality(Pairs \ longer) < Cardinality(Pairs \ path)
        /\ Cardinality(Pairs \ longer) \in Nat /\ Cardinality(Pairs \ path) \in Nat
    BY <2>1, PairsAreFinite
  <2>3. ~ (k <= Cardinality(Pairs \ longer))
    BY <1>3, <2>2
  <2> HIDE DEF longer, AllRight
  <2>4. Cardinality(Pairs \ longer) \notin Bad
    BY <1>2, <2>3
  <2>5. AllRight(longer)
    BY <2>1, <2>4
  <2> QED
    BY <2>5 DEF longer
<1>7. RightFrom(path, l, r)
  BY <1>6, RightStep DEF RightFrom
<1> QED
  BY <1>5, <1>7

\* Structural equality tells trees apart on every heap of nodes.
LEMMA EqualitiesAreStructure ==
  ASSUME HeapOK
  PROVE  EqualityIsStructure
<1>1. ASSUME NEW l \in Nodes, NEW r \in Nodes
      PROVE  Right(Equal(l, r), l, r)
  <2>1. {} \in SUBSET Pairs /\ Leads({}, l, r)
    BY DEF Leads
  <2>2. RightFrom({}, l, r)
    BY <2>1, RightAnywhere
  <2> QED
    BY <2>1, <2>2 DEF RightFrom, Equal
<1> QED
  BY <1>1 DEF Right, Outcomes, EqualityIsStructure

-----------------------------------------------------------------------------
(* The heap stays one of nodes.                                             *)

\* No container is a scalar.
LEMMA KindsDiffer == ScalarKinds \cap Containers = {}
BY DEF ScalarKinds, Containers, Sequential, SetLike

\* A heap of scalars is one of nodes.
LEMMA HeapInit ==
  ASSUME EncodingInit
  PROVE  HeapOK
<1> DEFINE S == [kind : ScalarKinds, value : Nat]
<1>1. PICK count \in 1..MaxScalars : \E f \in [1..count -> DOMAIN Scalars] :
        heap = [i \in 1..count |-> Scalars[f[i]]]
  BY DEF EncodingInit
<1>2. PICK f \in [1..count -> DOMAIN Scalars] : heap = [i \in 1..count |-> Scalars[f[i]]]
  BY <1>1
<1>3. count \in Nat /\ Scalars \in Seq(S)
  BY ScalarsAssumption
<1>4. \A j \in DOMAIN Scalars : Scalars[j] \in S
  <2> HIDE DEF S
  <2> QED
    BY <1>3
<1>5. \A s \in S : s.kind \in ScalarKinds
  OBVIOUS
<1>6. Cells = S \cup [kind : Containers, items : Seq(Seq(Nat))]
  BY DEF Cells
<1> HIDE DEF S
<1>7. heap \in Seq(S) /\ Nodes = 1..count /\ \A n \in Nodes : heap[n] \in S
  BY <1>2, <1>3, <1>4 DEF Nodes
<1>8. heap \in Seq(Cells)
  BY <1>6, <1>7
<1>9. \A n \in Nodes : ~ IsContainer(n)
  BY <1>5, <1>7, KindsDiffer DEF IsContainer
<1> QED
  BY <1>8, <1>9 DEF HeapOK, Cells

\* Sequences of bounded length are sequences.
LEMMA BoundedIsSeq ==
  ASSUME NEW S, NEW N \in Nat, NEW s \in BoundedSeq(S, N)
  PROVE  s \in Seq(S)
<1>1. PICK m \in 0..N : s \in [1..m -> S]
  BY DEF BoundedSeq, SeqOf
<1>2. m \in Nat
  OBVIOUS
<1> QED
  BY <1>1, <1>2

\* The one element of a sequence.
LEMMA FirstOfOne ==
  ASSUME NEW S, NEW s \in Seq(S), Len(s) = 1
  PROVE  s[1] \in S
OBVIOUS

\* A sequence over a smaller set.
LEMMA SeqOverMore ==
  ASSUME NEW A, NEW B, A \subseteq B, NEW s \in Seq(A)
  PROVE  s \in Seq(B)
OBVIOUS

\* The items a caller gives a container are tuples of nodes.
LEMMA ItemsFit ==
  ASSUME HeapOK, NEW kind \in Containers, NEW items \in Items(kind)
  PROVE  items \in Seq([Positions(kind) -> Nodes]) /\ items \in Seq(Seq(Nat))
<1>1. Nodes \subseteq Nat
  BY DEF HeapOK, Nodes
<1> DEFINE S == IF kind = "dict" THEN Nodes \X Nodes ELSE {<<n>> : n \in Nodes}
<1>2. items \in Seq(S)
  <2>1. items \in BoundedSeq(S, MaxItems)
    BY DEF Items
  <2> HIDE DEF S
  <2> QED
    BY <2>1, ScalarsAssumption, BoundedIsSeq
<1>3. \A x \in S : x \in [Positions(kind) -> Nodes] /\ x \in Seq(Nat)
  <2>1. CASE kind = "dict"
    <3>1. ASSUME NEW m \in Nodes, NEW n \in Nodes
          PROVE  <<m, n>> \in [{1, 2} -> Nodes] /\ <<m, n>> \in Seq(Nat)
      <4>1. DOMAIN <<m, n>> = {1, 2} /\ <<m, n>> = [k \in {1, 2} |-> <<m, n>>[k]]
        OBVIOUS
      <4>2. \A k \in {1, 2} : <<m, n>>[k] \in Nodes
        OBVIOUS
      <4>3. <<m, n>> \in [{1, 2} -> Nodes]
        BY <4>1, <4>2
      <4> QED
        BY <1>1, <4>3
    <3>2. Positions(kind) = {1, 2} /\ S = Nodes \X Nodes
      BY <2>1 DEF Positions
    <3> HIDE DEF S
    <3>3. \A x \in Nodes \X Nodes : x = <<x[1], x[2]>> /\ x[1] \in Nodes /\ x[2] \in Nodes
      OBVIOUS
    <3>4. \A x \in Nodes \X Nodes : x \in [{1, 2} -> Nodes] /\ x \in Seq(Nat)
      <4> SUFFICES ASSUME NEW x \in Nodes \X Nodes
                   PROVE  x \in [{1, 2} -> Nodes] /\ x \in Seq(Nat)
        OBVIOUS
      <4>1. <<x[1], x[2]>> \in [{1, 2} -> Nodes] /\ <<x[1], x[2]>> \in Seq(Nat)
        BY <3>1, <3>3
      <4> QED
        BY <3>3, <4>1, Zenon
    <3> QED
      BY <3>2, <3>4
  <2>2. CASE kind # "dict"
    <3>1. ASSUME NEW n \in Nodes
          PROVE  <<n>> \in [{1} -> Nodes] /\ <<n>> \in Seq(Nat)
      BY <1>1
    <3> QED
      BY <2>2, <3>1 DEF Positions
  <2> QED
    BY <2>1, <2>2
<1> HIDE DEF S
<1> QED
  BY <1>2, <1>3

\* A heap with one cell changed or added is one of nodes when that cell fits.
LEMMA CellFits ==
  ASSUME HeapOK, NEW n \in Nat, NEW kind \in Containers, NEW items,
         items \in Seq([Positions(kind) -> Nodes]), items \in Seq(Seq(Nat)),
         heap' \in Seq(Cells), Nodes \subseteq Nodes', n \in Nodes',
         heap'[n] = [kind |-> kind, items |-> items],
         \A m \in Nodes' \ {n} : m \in Nodes /\ heap'[m] = heap[m]
  PROVE  HeapOK'
<1>1. ASSUME NEW m \in Nodes', IsContainer(m)'
      PROVE  heap'[m].items \in Seq([Positions(heap'[m].kind) -> Nodes'])
  <2>1. CASE m = n
    <3>1. heap'[m].items = items /\ heap'[m].kind = kind
      BY <2>1
    <3>2. [Positions(kind) -> Nodes] \subseteq [Positions(kind) -> Nodes']
      OBVIOUS
    <3> QED
      BY <3>1, <3>2, SeqOverMore
  <2>2. CASE m # n
    <3>1. m \in Nodes /\ heap'[m] = heap[m]
      BY <2>2
    <3>2. IsContainer(m)
      BY <1>1, <3>1 DEF IsContainer
    <3> DEFINE A == [Positions(heap[m].kind) -> Nodes]
               B == [Positions(heap[m].kind) -> Nodes']
               s == heap[m].items
    <3>3. s \in Seq(A)
      BY <3>1, <3>2 DEF HeapOK
    <3>4. A \subseteq B
      OBVIOUS
    <3>5. s \in Seq(B)
      <4> HIDE DEF A, B, s
      <4> QED
        BY <3>3, <3>4, SeqOverMore
    <3> QED
      BY <3>1, <3>5, Zenon
  <2> QED
    BY <2>1, <2>2
<1> QED
  BY <1>1 DEF HeapOK, Cells

\* A container whose items are replaced.
LEMMA ItemsReplaced ==
  ASSUME NEW S, NEW cell \in [kind : Containers, items : S], NEW items
  PROVE  [cell EXCEPT !.items = items] = [kind |-> cell.kind, items |-> items]
OBVIOUS

\* Whatever a caller does next, the heap is one of nodes.
LEMMA HeapNext ==
  ASSUME HeapOK, [EncodingNext]_heap
  PROVE  HeapOK'
<1>1. heap \in Seq(Cells) /\ Nodes = 1..Len(heap) /\ Len(heap) \in Nat
  BY DEF HeapOK, Nodes, Cells
<1>2. ASSUME NEW kind \in Containers, NEW items \in Items(kind), Allocate(kind, items)
      PROVE  HeapOK'
  <2> DEFINE cell == [kind |-> kind, items |-> items]
  <2>1. heap' = Append(heap, cell)
    BY <1>2 DEF Allocate
  <2>2. items \in Seq([Positions(kind) -> Nodes]) /\ items \in Seq(Seq(Nat))
    BY ItemsFit
  <2>3. cell \in Cells
    BY <2>2 DEF Cells
  <2> HIDE DEF cell
  <2>4. /\ heap' \in Seq(Cells) /\ Nodes' = 1..(Len(heap) + 1)
        /\ heap'[Len(heap) + 1] = cell
        /\ \A m \in 1..Len(heap) : heap'[m] = heap[m]
    <3>1. heap' \in Seq(Cells) /\ Len(heap') = Len(heap) + 1
      BY <1>1, <2>1, <2>3
    <3>2. heap'[Len(heap) + 1] = cell /\ \A m \in 1..Len(heap) : heap'[m] = heap[m]
      BY <1>1, <2>1, <2>3
    <3> QED
      BY <3>1, <3>2 DEF Nodes
  <2>5. /\ Len(heap) + 1 \in Nat /\ Nodes \subseteq Nodes' /\ Len(heap) + 1 \in Nodes'
        /\ \A m \in Nodes' \ {Len(heap) + 1} : m \in Nodes /\ heap'[m] = heap[m]
    BY <1>1, <2>4
  <2> QED
    BY <2>2, <2>4, <2>5, CellFits DEF cell
<1>3. ASSUME NEW n \in Nodes, IsContainer(n), NEW more \in Items(heap[n].kind),
             Len(more) = 1, AddItem(n, more[1])
      PROVE  HeapOK'
  <2> DEFINE kind == heap[n].kind
             items == Append(heap[n].items, more[1])
             cell == [kind |-> kind, items |-> items]
  <2>1. kind \in Containers
    BY <1>3 DEF IsContainer
  <2>2. heap[n] \in [kind : Containers, items : Seq(Seq(Nat))]
    <3>1. heap[n] \in Cells
      BY <1>1
    <3>2. heap[n].kind \notin ScalarKinds
      BY <2>1, KindsDiffer
    <3> QED
      BY <3>1, <3>2 DEF Cells
  <2>3. heap' = [heap EXCEPT ![n] = cell]
    <3>1. heap' = [heap EXCEPT ![n].items = Append(@, more[1])]
      BY <1>3 DEF AddItem
    <3>2. [heap[n] EXCEPT !.items = items] = cell
      BY <2>2, ItemsReplaced
    <3> QED
      BY <3>1, <3>2
  <2>4. items \in Seq([Positions(kind) -> Nodes]) /\ items \in Seq(Seq(Nat))
    <3>1. more \in Seq([Positions(kind) -> Nodes]) /\ more \in Seq(Seq(Nat))
      BY <2>1, ItemsFit
    <3>2. more[1] \in [Positions(kind) -> Nodes] /\ more[1] \in Seq(Nat)
      BY <1>3, <3>1, FirstOfOne
    <3>3. heap[n].items \in Seq([Positions(kind) -> Nodes]) /\ heap[n].items \in Seq(Seq(Nat))
      BY <1>3, <2>2 DEF HeapOK
    <3> HIDE DEF kind
    <3> QED
      BY <3>2, <3>3
  <2>5. cell \in Cells
    BY <2>1, <2>4 DEF Cells
  <2> HIDE DEF cell, items, kind
  <2>6. heap' \in Seq(Cells) /\ Nodes' = Nodes /\ heap'[n] = cell
    BY <1>1, <2>3, <2>5 DEF Nodes
  <2>7. \A m \in Nodes' \ {n} : m \in Nodes /\ heap'[m] = heap[m]
    BY <1>1, <2>3, <2>6
  <2>8. n \in Nat
    BY <1>1
  <2> QED
    BY <2>1, <2>4, <2>6, <2>7, <2>8, CellFits DEF cell
<1>4. ASSUME UNCHANGED heap
      PROVE  HeapOK'
  BY <1>4 DEF HeapOK, Nodes, IsContainer
<1> QED
  BY <1>2, <1>3, <1>4 DEF EncodingNext

\* The heap is one of nodes whatever a caller builds.
LEMMA HeapAlways == EncodingSpec => []HeapOK
<1>1. EncodingInit => HeapOK
  BY HeapInit
<1>2. HeapOK /\ [EncodingNext]_heap => HeapOK'
  BY HeapNext
<1> QED
  BY <1>1, <1>2, PTL DEF EncodingSpec

-----------------------------------------------------------------------------
(* The theorems.                                                            *)

\* A value has a digest exactly when it is a finite tree of admitted values, and
\* two digests are equal exactly when the trees are.
THEOREM DigestIsStructureAlways == EncodingSpec => []DigestIsStructure
<1>1. HeapOK => DigestIsStructure
  BY DigestsAreStructure
<1> QED
  BY <1>1, HeapAlways, PTL

\* Structural equality answers True of the same trees only, False of others or of
\* cycles, and never ends on two cycles only.
THEOREM EqualityIsStructureAlways == EncodingSpec => []EqualityIsStructure
<1>1. HeapOK => EqualityIsStructure
  BY EqualitiesAreStructure
<1> QED
  BY <1>1, HeapAlways, PTL

=============================================================================
