-------------------------- MODULE ViabilityProofs ---------------------------
(***************************************************************************)
(* Proofs about the viability search, for every finite abstraction and     *)
(* every call: its winning set is a strategy and the least fixpoint, and   *)
(* its default round bound is never too small.                             *)
(*                                                                         *)
(* Then about value iteration, for every table of probabilities, every     *)
(* format of floats, either way of summing and every number of updates: a  *)
(* state that cannot reach the goal has the estimate zero, exactly.        *)
(*                                                                         *)
(* The identifiability gate of the evidence calculus is about sums as      *)
(* well, so what it computes is proved here too: for every two mass        *)
(* functions, the error of the best rule there is for telling them apart.  *)
(* That a sum of the community modules is one function of its terms is     *)
(* shown first, by least counterexamples.                                  *)
(* The rest of that calculus follows, for every finite tree of             *)
(* requirements, every bundle and every list of reports: an answer is no   *)
(* guess, support is earned, and a copy of a report counts once.           *)
(***************************************************************************)
EXTENDS ValueIteration, Identifiability, Evidence, Fusion, FiniteSetTheorems, TLAPS

SafeGoal == input.goal \cap input.safe

\* Ranks are rounds, each round added a state, and none is out of bounds.
RanksBounded ==
  /\ RoundsAreCounted
  /\ IF result = "None" THEN n <= Cardinality(w) ELSE n <= Cardinality(w) + 1
  /\ result = "None" => n <= RoundBound

IInv ==
  /\ TypeOK
  /\ SafeGoal \subseteq w
  /\ RankCertificate
  /\ RanksBounded
  /\ NeverOvershoots
  /\ ConvergedIsFixpoint
  /\ DefaultBoundSuffices

\* The winning set is finite, and grows in size when it grows.
LEMMA Grows ==
  ASSUME NEW S \in SUBSET States, NEW T \in SUBSET States
  PROVE  /\ IsFiniteSet(S) /\ Cardinality(S) \in Nat
         /\ Cardinality(S) <= Cardinality(States) /\ Cardinality(States) \in Nat
         /\ T \ S # {} => Cardinality(S) + 1 <= Cardinality(S \cup T)
<1>1. \A U \in SUBSET States :
        /\ IsFiniteSet(U) /\ Cardinality(U) \in Nat
        /\ Cardinality(U) <= Cardinality(States)
  BY StatesAssumption, FS_Subset, FS_CardinalityType
<1>2. Cardinality(States) \in Nat
  BY StatesAssumption, FS_CardinalityType
<1>3. ASSUME T \ S # {}
      PROVE  Cardinality(S) + 1 <= Cardinality(S \cup T)
  <2>1. S \cup T \in SUBSET States /\ S \in SUBSET (S \cup T) /\ S # S \cup T
    BY <1>3
  <2>2. /\ IsFiniteSet(S \cup T) /\ Cardinality(S \cup T) \in Nat
        /\ Cardinality(S) \in Nat
    BY <1>1, <2>1
  <2>3. /\ Cardinality(S) <= Cardinality(S \cup T)
        /\ Cardinality(S) # Cardinality(S \cup T)
    BY <2>1, <2>2, FS_Subset
  <2> QED
    BY <2>2, <2>3
<1> QED
  BY <1>1, <1>2, <1>3

-----------------------------------------------------------------------------
\* Before the first round only the safe goals win, with rank 0.
LEMMA InitSafe == Init => IInv
<1> SUFFICES ASSUME Init PROVE IInv
  OBVIOUS
<1>1. input \in Call
  BY InputsAssumption DEF Init
<1>2. input.goal \in SUBSET States /\ input.safe \in SUBSET States
  BY <1>1 DEF Call
<1>3. w = SafeGoal /\ w \in SUBSET States /\ n = 0 /\ result = "None"
  BY <1>2 DEF Init, SafeGoal
<1>4. \A z \in w : rank[z] = 0
  BY DEF Init
<1>5. TypeOK
  BY <1>1, <1>3 DEF Init, TypeOK
<1>6. RankCertificate
  BY <1>3, <1>4 DEF RankCertificate, SafeGoal
<1>7. RanksBounded
  <2>1. RoundsAreCounted
    BY <1>3, <1>4 DEF RoundsAreCounted
  <2>2. RoundBound \in Nat
    BY <1>1, Grows DEF Call, None, RoundBound
  <2> QED
    BY <1>3, <2>1, <2>2, Grows DEF RanksBounded
<1>8. NeverOvershoots
  BY <1>3 DEF NeverOvershoots, F, SafeGoal
<1>9. ConvergedIsFixpoint /\ DefaultBoundSuffices
  BY <1>3 DEF ConvergedIsFixpoint, DefaultBoundSuffices
<1> QED
  BY <1>3, <1>5, <1>6, <1>7, <1>8, <1>9 DEF IInv

\* A round adds states that win against the set of the round before.
LEMMA RoundSafe ==
  ASSUME IInv, Round
  PROVE  IInv'
<1>1. PICK choice \in [Added -> Actions] :
        /\ \A z \in Added : choice[z] \in Winners(z, w)
        /\ witness_action' =
             [z \in DOMAIN witness_action \cup Added |->
                IF z \in Added THEN choice[z] ELSE witness_action[z]]
  BY DEF Round
<1>2. /\ TypeOK /\ input \in Call /\ input' = input /\ w \in SUBSET States
      /\ n \in Nat /\ n' = n + 1 /\ result = "None" /\ result' = "None"
      /\ w' = w \cup Added /\ Added # {}
      /\ rank' = [z \in w \cup Added |-> IF z \in Added THEN n + 1 ELSE rank[z]]
  BY DEF Round, IInv, TypeOK
<1>3. /\ Added \in SUBSET States /\ Added \subseteq input.safe
      /\ Added \cap w = {} /\ Added \cap input.goal = {}
  BY <1>2 DEF Added, Call, IInv, SafeGoal
<1>4. ASSUME NEW z \in Added
      PROVE  /\ choice[z] \in input.enabled[z] /\ choice[z] \in Actions
             /\ <<z, choice[z]>> \in input.permitted
             /\ input.post[<<z, choice[z]>>] # {}
             /\ input.post[<<z, choice[z]>>] \subseteq w
  BY <1>1 DEF Winners, Permit, MustPost
<1>5. /\ \A z \in w : z \notin Added /\ rank'[z] = rank[z] /\ rank[z] \in Nat /\ rank[z] <= n
      /\ \A z \in Added : rank'[z] = n + 1
  BY <1>2, <1>3 DEF IInv, TypeOK, RanksBounded, RoundsAreCounted
<1>6. TypeOK'
  <2>1. rank' \in [w' -> Nat]
    BY <1>2, <1>5
  <2>2. /\ DOMAIN witness_action' \subseteq w'
        /\ \A z \in DOMAIN witness_action' : witness_action'[z] \in Actions
    BY <1>1, <1>2, <1>4 DEF TypeOK
  <2> QED
    BY <1>2, <1>3, <2>1, <2>2 DEF TypeOK
<1>7. RankCertificate'
  <2> SUFFICES ASSUME NEW z \in w'
               PROVE  /\ z \in input.safe
                      /\ rank'[z] = 0 <=> z \in input.goal
                      /\ rank'[z] # 0 =>
                           /\ z \in DOMAIN witness_action'
                           /\ witness_action'[z] \in input.enabled[z]
                           /\ <<z, witness_action'[z]>> \in input.permitted
                           /\ input.post[<<z, witness_action'[z]>>] # {}
                           /\ \A y \in input.post[<<z, witness_action'[z]>>] :
                                y \in w' /\ rank'[y] < rank'[z]
    BY <1>2 DEF RankCertificate
  <2>1. CASE z \in Added
    <3>1. rank'[z] = n + 1 /\ n + 1 # 0 /\ z \notin input.goal /\ z \in input.safe
      BY <1>2, <1>3, <1>5, <2>1
    <3>2. witness_action'[z] = choice[z] /\ z \in DOMAIN witness_action'
      BY <1>1, <2>1
    <3>3. \A y \in w : y \in w' /\ rank'[y] < rank'[z]
      BY <1>2, <1>5, <3>1
    <3> QED
      BY <1>4, <2>1, <3>1, <3>2, <3>3
  <2>2. CASE z \in w
    <3>1. z \notin Added /\ rank'[z] = rank[z]
      BY <1>5, <2>2
    <3>2. \A y \in w : y \in w' /\ rank'[y] = rank[y]
      BY <1>2, <1>5
    <3>3. z \in DOMAIN witness_action =>
            z \in DOMAIN witness_action' /\ witness_action'[z] = witness_action[z]
      BY <1>1, <3>1
    <3> QED
      BY <2>2, <3>1, <3>2, <3>3 DEF IInv, RankCertificate
  <2> QED
    BY <1>2, <2>1, <2>2
<1>8. RanksBounded'
  <2>1. \A z \in w' : rank'[z] <= n'
    BY <1>2, <1>5
  <2>2. n <= Cardinality(w)
    BY <1>2 DEF IInv, RanksBounded
  <2>3. /\ Cardinality(w) \in Nat /\ Cardinality(w') \in Nat
        /\ Cardinality(w) + 1 <= Cardinality(w')
    <3>1. Added \ w # {} /\ w' \in SUBSET States
      BY <1>2, <1>3
    <3> QED
      BY <1>2, <1>3, <3>1, Grows
  <2>4. n' <= Cardinality(w')
    BY <1>2, <2>2, <2>3
  <2>5. ASSUME NEW k \in 1..n'
        PROVE  \E z \in w' : rank'[z] = k
    <3>1. CASE k = n'
      BY <1>2, <1>5, <3>1
    <3>2. CASE k # n'
      <4>1. k \in 1..n
        BY <1>2, <2>5, <3>2
      <4>2. PICK z \in w : rank[z] = k
        BY <1>2, <4>1 DEF IInv, RanksBounded, RoundsAreCounted
      <4> QED
        BY <1>2, <1>5, <4>2
    <3> QED
      BY <3>1, <3>2
  <2>6. RoundsAreCounted'
    BY <1>2, <2>1, <2>5 DEF RoundsAreCounted
  <2>7. n' <= RoundBound'
    BY <1>2 DEF Round, RoundBound
  <2> QED
    BY <1>2, <2>4, <2>6, <2>7 DEF RanksBounded
<1>9. NeverOvershoots'
  <2>1. ASSUME NEW X \in SUBSET States, F(X) \subseteq X
        PROVE  Added \subseteq X
    <3>1. w \subseteq X
      BY <2>1 DEF IInv, NeverOvershoots
    <3>2. ASSUME NEW z \in Added
          PROVE  choice[z] \in Winners(z, X)
      BY <1>1, <3>1 DEF Winners, MustPost
    <3>3. Added \subseteq F(X)
      BY <1>3, <3>2 DEF F
    <3> QED
      BY <2>1, <3>3
  <2>2. \A X \in SUBSET States : F(X)' = F(X)
    BY <1>2 DEF F, Winners, Permit, MustPost
  <2> QED
    BY <1>2, <2>1, <2>2 DEF IInv, NeverOvershoots
<1>10. ConvergedIsFixpoint' /\ DefaultBoundSuffices'
  BY <1>2 DEF ConvergedIsFixpoint, DefaultBoundSuffices
<1>11. (SafeGoal \subseteq w)'
  BY <1>2 DEF IInv, SafeGoal
<1> QED
  BY <1>6, <1>7, <1>8, <1>9, <1>10, <1>11 DEF IInv

\* A search that stops has the set it had; it stops by converging when nothing
\* is left to add, and gives up only within the caller's bound.
LEMMA StopSafe ==
  ASSUME IInv, Converge \/ GiveUp
  PROVE  IInv'
<1>1. /\ UNCHANGED <<input, w, rank, witness_action>> /\ n' = n + 1
      /\ result = "None" /\ n \in Nat /\ w \in SUBSET States /\ input \in Call
  BY DEF Converge, GiveUp, IInv, TypeOK
<1>2. TypeOK'
  BY <1>1 DEF Converge, GiveUp, IInv, TypeOK
<1>3. (SafeGoal \subseteq w)' /\ RankCertificate'
  BY <1>1 DEF IInv, SafeGoal, RankCertificate
<1>4. /\ n <= Cardinality(w) /\ Cardinality(w) \in Nat
      /\ Cardinality(w) <= Cardinality(States) /\ Cardinality(States) \in Nat
  BY <1>1, Grows DEF IInv, RanksBounded
<1>5. RanksBounded'
  <2>1. \A z \in w : rank[z] \in Nat /\ rank[z] <= n
    BY DEF IInv, TypeOK, RanksBounded, RoundsAreCounted
  <2>2. \A z \in w' : rank'[z] <= n'
    BY <1>1, <2>1
  <2>3. n' <= Cardinality(w') + 1 /\ result' # "None"
    BY <1>1, <1>4 DEF Converge, GiveUp
  <2>4. \A k \in 1..(n' - 1) : \E z \in w' : rank'[z] = k
    BY <1>1 DEF IInv, RanksBounded, RoundsAreCounted
  <2>5. result' = "Abstain" => n' = RoundBound' + 1
    <3>1. ASSUME GiveUp
          PROVE  n + 1 = RoundBound + 1
      <4>1. RoundBound \in Nat
        BY <1>1, <1>4 DEF Call, None, RoundBound
      <4>2. n <= RoundBound /\ n + 1 > RoundBound
        BY <1>1, <3>1 DEF GiveUp, IInv, RanksBounded
      <4> QED
        BY <1>1, <4>1, <4>2
    <3> QED
      BY <1>1, <3>1 DEF Converge, RoundBound
  <2>6. RoundsAreCounted'
    BY <2>2, <2>3, <2>4, <2>5 DEF RoundsAreCounted
  <2> QED
    BY <2>3, <2>6 DEF RanksBounded
<1>6. NeverOvershoots'
  <2>1. \A X \in SUBSET States : F(X)' = F(X)
    BY <1>1 DEF F, Winners, Permit, MustPost
  <2> QED
    BY <1>1, <2>1 DEF IInv, NeverOvershoots
<1>7. ConvergedIsFixpoint'
  <2>1. CASE Converge
    <3>1. Added = {}
      BY <2>1 DEF Converge
    <3>2. F(w) \subseteq w
      BY <3>1 DEF F, Added, IInv, SafeGoal
    <3>3. ASSUME NEW z \in w
          PROVE  z \in F(w)
      <4>1. z \in input.safe
        BY DEF IInv, RankCertificate
      <4>2. CASE rank[z] = 0
        BY <4>1, <4>2 DEF IInv, RankCertificate, F
      <4>3. CASE rank[z] # 0
        <5>1. witness_action[z] \in Winners(z, w)
          BY <4>3 DEF IInv, RankCertificate, Winners, Permit, MustPost
        <5> QED
          BY <4>1, <5>1 DEF F
      <4> QED
        BY <4>2, <4>3
    <3>4. F(w) = w
      BY <3>2, <3>3
    <3>5. F(w)' = F(w)
      BY <1>1 DEF F, Winners, Permit, MustPost
    <3> QED
      BY <1>1, <3>4, <3>5 DEF ConvergedIsFixpoint
  <2>2. CASE GiveUp
    BY <2>2 DEF GiveUp, ConvergedIsFixpoint
  <2> QED
    BY <2>1, <2>2
<1>8. DefaultBoundSuffices'
  <2>1. CASE Converge
    BY <2>1 DEF Converge, DefaultBoundSuffices
  <2>2. CASE GiveUp
    <3>1. input.max_rounds # None
      <4> SUFFICES ASSUME input.max_rounds = None PROVE FALSE
        OBVIOUS
      <4>1. n + 1 > Cardinality(States) + 1
        BY <2>2 DEF GiveUp, RoundBound
      <4> QED
        BY <1>1, <1>4, <4>1
    <3> QED
      BY <1>1, <3>1 DEF DefaultBoundSuffices
  <2> QED
    BY <2>1, <2>2
<1> QED
  BY <1>2, <1>3, <1>5, <1>6, <1>7, <1>8 DEF IInv

\* Every step of the search keeps the invariant.
LEMMA NextSafe == IInv /\ [Next]_vars => IInv'
<1> SUFFICES ASSUME IInv, [Next]_vars PROVE IInv'
  OBVIOUS
<1>1. CASE Round
  BY <1>1, RoundSafe
<1>2. CASE Converge \/ GiveUp
  BY <1>2, StopSafe
<1>3. CASE UNCHANGED vars
  <2>1. \A X \in SUBSET States : F(X)' = F(X)
    BY <1>3 DEF vars, F, Winners, Permit, MustPost
  <2>2. F(w)' = F(w)
    BY <1>3 DEF vars, F, Winners, Permit, MustPost
  <2> QED
    BY <1>3, <2>1, <2>2
    DEF vars, IInv, TypeOK, SafeGoal, RankCertificate, RanksBounded, RoundsAreCounted,
        RoundBound, NeverOvershoots, ConvergedIsFixpoint, DefaultBoundSuffices
<1> QED
  BY <1>1, <1>2, <1>3 DEF Next

\* All of it holds at every moment of every search.
THEOREM SearchInductive == Spec => []IInv
BY InitSafe, NextSafe, PTL DEF Spec

\* The ranks and actions the search returns, or leaves in the receipt of an
\* abstention, are a strategy that reaches the goal in rank steps, safely.
THEOREM RankCertificateAlways == Spec => []RankCertificate
<1>1. IInv => RankCertificate
  BY DEF IInv
<1> QED
  BY <1>1, SearchInductive, PTL

\* The winning set is contained in every set closed under the recurrence.
THEOREM LeastFixpoint == Spec => []NeverOvershoots
<1>1. IInv => NeverOvershoots
  BY DEF IInv
<1> QED
  BY <1>1, SearchInductive, PTL

\* A search that converges returns a fixpoint, and so the least one.
THEOREM ConvergedIsFixpointAlways == Spec => []ConvergedIsFixpoint
<1>1. IInv => ConvergedIsFixpoint
  BY DEF IInv
<1> QED
  BY <1>1, SearchInductive, PTL

\* The search's state is well typed: every winning state has a rank, and
\* witness actions are actions of winning states.
THEOREM SearchTypeCorrect == Spec => []TypeOK
<1>1. IInv => TypeOK
  BY DEF IInv
<1> QED
  BY <1>1, SearchInductive, PTL

\* An abstention completed exactly the rounds it was allowed, and every round
\* that did not converge added a state and gave it its own number.
THEOREM RoundsAreCountedAlways == Spec => []RoundsAreCounted
<1>1. IInv => RoundsAreCounted
  BY DEF IInv, RanksBounded
<1> QED
  BY <1>1, SearchInductive, PTL

\* With the default bound of |States| + 1 rounds the search never abstains.
THEOREM DefaultBoundSufficesAlways == Spec => []DefaultBoundSuffices
<1>1. IInv => DefaultBoundSuffices
  BY DEF IInv
<1> QED
  BY <1>1, SearchInductive, PTL

\* The two together: the search computes the least fixpoint.
THEOREM IsLeastFixpointAlways == Spec => []IsLeastFixpoint
<1>1. IInv => IsLeastFixpoint
  BY DEF IInv, IsLeastFixpoint
<1> QED
  BY <1>1, SearchInductive, PTL

\* The two together: the bound and the counts are right.
THEOREM RoundsReconcileAlways == Spec => []RoundsReconcile
<1>1. IInv => RoundsReconcile
  BY DEF IInv, RanksBounded, RoundsReconcile
<1> QED
  BY <1>1, SearchInductive, PTL

-----------------------------------------------------------------------------
(* Sums over a finite set.  The folds of the community modules take a set's *)
(* elements off one by one, in the order in which CHOOSE picks them.        *)

\* Every non-empty set of natural numbers has a least element.
LEMMA LeastNat ==
  ASSUME NEW S \in SUBSET Nat, S # {}
  PROVE  \E m \in S : \A k \in S : m <= k
<1>1. PICK m \in S : \A k \in S : ~ (<<k, m>> \in OpToRel(<, Nat))
  BY NatLessThanWellFounded, WFMin
<1>2. \A k \in S : ~ (k < m)
  BY <1>1 DEF OpToRel
<1> QED
  BY <1>2

Taken(s) == CHOOSE x \in s : TRUE

\* The sum over s, if g has the sums over smaller sets.
SumStep(f, g, s) == IF s = {} THEN 0 ELSE f[Taken(s)] + g[s \ {Taken(s)}]

\* g has the sum of f over every set in D.
IsSum(f, D, g) == g \in [D -> Nat] /\ \A s \in D : g[s] = SumStep(f, g, s)

\* The set that is left is smaller.
LEMMA TakenOne ==
  ASSUME NEW S, IsFiniteSet(S), NEW s \in SUBSET S
  PROVE  /\ IsFiniteSet(s) /\ Cardinality(s) \in Nat
         /\ s # {} => /\ Taken(s) \in s /\ s \ {Taken(s)} \in SUBSET S
                      /\ Cardinality(s \ {Taken(s)}) = Cardinality(s) - 1
                      /\ Cardinality(s \ {Taken(s)}) \in Nat
<1>1. IsFiniteSet(s) /\ Cardinality(s) \in Nat
  BY FS_Subset, FS_CardinalityType
<1>2. ASSUME s # {} PROVE Taken(s) \in s
  BY <1>2 DEF Taken
<1>3. ASSUME s # {}
      PROVE  /\ Cardinality(s \ {Taken(s)}) = Cardinality(s) - 1
             /\ Cardinality(s \ {Taken(s)}) \in Nat
  <2> DEFINE x == Taken(s)
  <2>1. x \in s
    BY <1>2, <1>3
  <2> HIDE DEF x
  <2>2. IsFiniteSet(s \ {x}) /\ Cardinality(s \ {x}) = Cardinality(s) - 1
    BY <1>1, <2>1, FS_RemoveElement
  <2>3. Cardinality(s \ {x}) \in Nat
    BY <2>2, FS_CardinalityType
  <2> QED
    BY <2>2, <2>3 DEF x
<1> QED
  BY <1>1, <1>2, <1>3

\* The sets of at most m elements.
Small(S, m) == {s \in SUBSET S : Cardinality(s) <= m}

\* What has the sums over the sets of at most m elements gives those over the
\* sets of one element more.
LEMMA SumGrows ==
  ASSUME NEW S, IsFiniteSet(S), NEW f \in [S -> Nat], NEW m \in Nat,
         NEW g, IsSum(f, Small(S, m), g)
  PROVE  IsSum(f, Small(S, m + 1), [s \in Small(S, m + 1) |-> SumStep(f, g, s)])
<1> DEFINE h == [s \in Small(S, m + 1) |-> SumStep(f, g, s)]
<1>1. ASSUME NEW s \in Small(S, m + 1), s # {}
      PROVE  /\ s \ {Taken(s)} \in Small(S, m) /\ Taken(s) \in S
             /\ s \ {Taken(s)} \in Small(S, m + 1)
  <2>1. s \in SUBSET S /\ Cardinality(s) <= m + 1
    BY DEF Small
  <2>2. /\ Cardinality(s) \in Nat /\ Taken(s) \in s /\ s \ {Taken(s)} \in SUBSET S
        /\ Cardinality(s \ {Taken(s)}) = Cardinality(s) - 1
    BY <1>1, <2>1, TakenOne
  <2>3. /\ Cardinality(s \ {Taken(s)}) <= m
        /\ Cardinality(s \ {Taken(s)}) <= m + 1
    BY <2>1, <2>2
  <2> QED
    BY <2>1, <2>2, <2>3 DEF Small
<1>2. ASSUME NEW s \in Small(S, m) PROVE s \in Small(S, m + 1) /\ h[s] = g[s]
  <2>1. s \in SUBSET S /\ Cardinality(s) <= m /\ Cardinality(s) \in Nat
    BY TakenOne DEF Small
  <2>2. s \in Small(S, m + 1)
    BY <2>1 DEF Small
  <2> QED
    BY <2>2 DEF IsSum
<1>3. ASSUME NEW s \in Small(S, m + 1) PROVE h[s] \in Nat
  <2>1. CASE s = {}
    BY <2>1 DEF SumStep
  <2>2. CASE s # {}
    <3>1. f[Taken(s)] \in Nat /\ g[s \ {Taken(s)}] \in Nat
      BY <1>1, <2>2 DEF IsSum
    <3>2. h[s] = f[Taken(s)] + g[s \ {Taken(s)}]
      BY <2>2 DEF SumStep
    <3> HIDE DEF h
    <3> QED
      BY <3>1, <3>2
  <2> QED
    BY <2>1, <2>2
<1>4. ASSUME NEW s \in Small(S, m + 1) PROVE h[s] = SumStep(f, h, s)
  <2>1. CASE s = {}
    BY <2>1 DEF SumStep
  <2>2. CASE s # {}
    <3>1. h[s \ {Taken(s)}] = g[s \ {Taken(s)}]
      BY <1>1, <1>2, <2>2
    <3>2. h[s] = f[Taken(s)] + g[s \ {Taken(s)}]
      BY <2>2 DEF SumStep
    <3> HIDE DEF h
    <3> QED
      BY <2>2, <3>1, <3>2 DEF SumStep
  <2> QED
    BY <2>1, <2>2
<1>5. h \in [Small(S, m + 1) -> Nat]
  BY <1>3
<1> HIDE DEF h
<1>6. IsSum(f, Small(S, m + 1), h)
  BY <1>4, <1>5 DEF IsSum
<1> QED
  BY <1>6 DEF h

\* There are sums over the subsets of a finite set.
LEMMA SumsExist ==
  ASSUME NEW S, IsFiniteSet(S), NEW f \in [S -> Nat]
  PROVE  \E g : IsSum(f, SUBSET S, g)
<1> DEFINE Missing == {m \in Nat : ~ \E g : IsSum(f, Small(S, m), g)}
<1>1. CASE Missing = {}
  <2>1. Cardinality(S) \in Nat
    BY FS_CardinalityType
  <2>2. PICK g : IsSum(f, Small(S, Cardinality(S)), g)
    BY <1>1, <2>1
  <2>3. Small(S, Cardinality(S)) = SUBSET S
    BY FS_Subset DEF Small
  <2> QED
    BY <2>2, <2>3
<1>2. CASE Missing # {}
  <2>1. PICK m \in Missing : \A k \in Missing : m <= k
    <3>1. Missing \in SUBSET Nat
      OBVIOUS
    <3> HIDE DEF Missing
    <3> QED
      BY <1>2, <3>1, LeastNat
  <2>2. m \in Nat /\ ~ \E g : IsSum(f, Small(S, m), g)
    OBVIOUS
  <2>3. CASE m = 0
    <3> DEFINE g == [s \in Small(S, 0) |-> 0]
    <3>1. \A s \in Small(S, 0) : s = {}
      <4> SUFFICES ASSUME NEW s \in Small(S, 0) PROVE s = {}
        OBVIOUS
      <4>1. s \in SUBSET S /\ Cardinality(s) <= 0
        BY DEF Small
      <4>2. IsFiniteSet(s) /\ Cardinality(s) \in Nat
        BY <4>1, TakenOne
      <4> QED
        BY <4>1, <4>2, FS_EmptySet
    <3>2. IsSum(f, Small(S, 0), g)
      BY <3>1 DEF IsSum, SumStep
    <3> QED
      BY <2>2, <2>3, <3>2
  <2>4. CASE m # 0
    <3>1. m - 1 \in Nat /\ m - 1 < m /\ (m - 1) + 1 = m
      BY <2>2, <2>4
    <3>2. m - 1 \notin Missing
      <4> HIDE DEF Missing
      <4>1. \A k \in Missing : m <= k
        BY <2>1
      <4> QED
        BY <2>2, <3>1, <4>1
    <3>3. PICK g : IsSum(f, Small(S, m - 1), g)
      BY <3>1, <3>2
    <3> DEFINE p == m - 1
    <3>4. p \in Nat /\ p + 1 = m /\ IsSum(f, Small(S, p), g)
      BY <3>1, <3>3
    <3> HIDE DEF p
    <3>5. \E h : IsSum(f, Small(S, p + 1), h)
      BY <3>4, SumGrows
    <3> QED
      BY <2>2, <3>4, <3>5
  <2> QED
    BY <2>3, <2>4
<1> QED
  BY <1>1, <1>2

\* h sums step by step.
Stepped(f, S, h) == h = [s \in SUBSET S |-> SumStep(f, h, s)]

\* There is only one way to sum.
LEMMA SumsUnique ==
  ASSUME NEW S, IsFiniteSet(S), NEW f \in [S -> Nat],
         NEW g, IsSum(f, SUBSET S, g),
         NEW h, Stepped(f, S, h)
  PROVE  h = g
<1> DEFINE Bad == {m \in Nat : \E t \in SUBSET S : Cardinality(t) = m /\ h[t] # g[t]}
<1>1. CASE Bad # {}
  <2>1. PICK m \in Bad : \A j \in Bad : m <= j
    <3>1. Bad \in SUBSET Nat
      OBVIOUS
    <3> HIDE DEF Bad
    <3> QED
      BY <1>1, <3>1, LeastNat
  <2>2. PICK t \in SUBSET S : Cardinality(t) = m /\ h[t] # g[t]
    OBVIOUS
  <2> DEFINE r == t \ {Taken(t)}
  <2>3. h[t] = SumStep(f, h, t) /\ g[t] = SumStep(f, g, t)
    BY <2>2 DEF IsSum, Stepped
  <2>4. t # {} /\ h[r] # g[r]
    BY <2>2, <2>3 DEF SumStep
  <2>5. /\ m \in Nat /\ r \in SUBSET S /\ Cardinality(r) = m - 1
        /\ Cardinality(r) \in Nat
    BY <2>2, <2>4, TakenOne
  <2> HIDE DEF r
  <2>6. Cardinality(r) \in Bad
    BY <2>4, <2>5
  <2> HIDE DEF Bad
  <2>7. m <= Cardinality(r)
    BY <2>1, <2>6
  <2> QED
    BY <2>5, <2>7
<1>2. CASE Bad = {}
  <2>1. \A t \in SUBSET S : h[t] = g[t]
    BY <1>2, TakenOne
  <2>2. h = [t \in SUBSET S |-> h[t]] /\ g = [t \in SUBSET S |-> g[t]]
    BY DEF IsSum, Stepped
  <2> QED
    BY <2>1, <2>2
<1> QED
  BY <1>1, <1>2

\* What sums step by step sums.
LEMMA SteppedIsSum ==
  ASSUME NEW S, IsFiniteSet(S), NEW f \in [S -> Nat],
         NEW h, Stepped(f, S, h)
  PROVE  IsSum(f, SUBSET S, h)
<1>1. PICK g : IsSum(f, SUBSET S, g)
  BY SumsExist
<1>2. h = g
  BY <1>1, SumsUnique
<1> QED
  BY <1>1, <1>2

\* The largest of a bounded set of natural numbers.
LEMMA LargestOf ==
  ASSUME NEW M \in Nat, NEW X \in SUBSET (0..M), X # {}
  PROVE  Max(X) \in X /\ \A x \in X : x <= Max(X)
<1> DEFINE V == {M - x : x \in X}
<1>1. V \in SUBSET Nat /\ V # {}
  <2>1. \A x \in X : M - x \in Nat
    OBVIOUS
  <2> QED
    BY <2>1
<1>2. PICK u \in V : \A v \in V : u <= v
  <2> HIDE DEF V
  <2> QED
    BY <1>1, LeastNat
<1>3. PICK m \in X : u = M - m
  OBVIOUS
<1>4. \A x \in X : m >= x
  <2> SUFFICES ASSUME NEW x \in X PROVE m >= x
    OBVIOUS
  <2>1. M - x \in V
    OBVIOUS
  <2> HIDE DEF V
  <2>2. M - m <= M - x
    BY <1>2, <1>3, <2>1
  <2> QED
    BY <2>2
<1>5. Max(X) \in X /\ \A y \in X : Max(X) >= y
  BY <1>4 DEF Max
<1> QED
  BY <1>5

-----------------------------------------------------------------------------
(* Value iteration: what cannot be reached keeps the estimate zero, because *)
(* zero is rounded to zero and a sum of zeros, corrected or not, is zero.   *)

Nothing == [total |-> 0, lost |-> 0]

LEMMA NothingAdded == Add(Nothing, 0) = Nothing
<1>1. Nearest(0) = 0 /\ 0 * One = 0
  BY FormatAssumption DEF Nearest
<1>2. Plus(0, 0) = 0
  BY <1>1 DEF Plus
<1>3. 0 + 0 - 0 = 0 /\ Nothing.total = 0 /\ Nothing.lost = 0
  BY DEF Nothing
<1> QED
  BY <1>2, <1>3 DEF Add, Nothing

\* A sum of zeros is zero, from left to right and with compensation.
LEMMA SumOfNothing ==
  ASSUME NEW m \in Nat, NEW terms \in [1..m -> {0}], NEW c
  PROVE  Sum(c, terms) = 0
<1> DEFINE D == 1..m
           Folds(g) == g = [s \in SUBSET D |->
                              IF s = {} THEN Nothing
                              ELSE LET x == Max(s) IN Add(g[s \ {x}], terms[x])]
           iter == CHOOSE g : Folds(g)
           zero == [s \in SUBSET D |-> Nothing]
           Bad == {k \in Nat : \E t \in SUBSET D : Cardinality(t) = k /\ iter[t] # Nothing}
<1>1. ASSUME NEW s \in SUBSET D, s # {}
      PROVE  /\ Max(s) \in s /\ Max(s) \in D /\ s \ {Max(s)} \in SUBSET D
             /\ terms[Max(s)] = 0
  <2>1. s \in SUBSET (0..m)
    OBVIOUS
  <2>2. Max(s) \in s
    BY <1>1, <2>1, LargestOf
  <2> QED
    BY <2>2
<1>2. Folds(zero)
  <2>1. ASSUME NEW s \in SUBSET D
        PROVE  Nothing = IF s = {} THEN Nothing
                         ELSE LET x == Max(s) IN Add(zero[s \ {x}], terms[x])
    BY <1>1, NothingAdded
  <2> QED
    BY <2>1
<1>3. Folds(iter)
  <2> HIDE DEF zero, Folds
  <2> QED
    BY <1>2
<1>4. FoldLeft(Add, Nothing, terms) = iter[D]
  <2>1. DOMAIN terms = D
    OBVIOUS
  <2> QED
    BY <2>1 DEF FoldLeft, MapThenFoldSet
<1> HIDE DEF iter
<1>5. \A s \in SUBSET D :
        iter[s] = IF s = {} THEN Nothing ELSE Add(iter[s \ {Max(s)}], terms[Max(s)])
  BY <1>3
<1>6. IsFiniteSet(D)
  BY FS_Interval
<1> HIDE DEF D, Folds, zero
<1>7. ASSUME Bad # {} PROVE FALSE
  <2>1. PICK k \in Bad : \A j \in Bad : k <= j
    <3>1. Bad \in SUBSET Nat
      OBVIOUS
    <3> HIDE DEF Bad
    <3> QED
      BY <1>7, <3>1, LeastNat
  <2>2. PICK t \in SUBSET D : Cardinality(t) = k /\ iter[t] # Nothing
    OBVIOUS
  <2> DEFINE x == Max(t)
             r == t \ {x}
  <2>3. t # {} /\ x \in t /\ terms[x] = 0 /\ r \in SUBSET D
    BY <1>1, <1>5, <2>2
  <2>4. iter[r] # Nothing
    BY <1>5, <2>2, <2>3, NothingAdded
  <2>5. /\ k \in Nat /\ Cardinality(r) = k - 1 /\ Cardinality(r) \in Nat
    <3> HIDE DEF x
    <3>1. IsFiniteSet(t)
      BY <1>6, FS_Subset
    <3>2. IsFiniteSet(r) /\ Cardinality(r) = k - 1
      BY <2>2, <2>3, <3>1, FS_RemoveElement
    <3>3. Cardinality(r) \in Nat
      BY <3>2, FS_CardinalityType
    <3> QED
      BY <2>1, <3>2, <3>3
  <2> HIDE DEF r
  <2>6. Cardinality(r) \in Bad
    BY <2>3, <2>4, <2>5
  <2> HIDE DEF Bad
  <2>7. k <= Cardinality(r)
    BY <2>1, <2>6
  <2> QED
    BY <2>5, <2>7
<1>8. iter[D] = Nothing
  <2>1. Cardinality(D) \in Nat
    BY <1>6, FS_CardinalityType
  <2> QED
    BY <1>7, <2>1
<1>9. FoldLeft(Add, Nothing, terms) = Nothing
  BY <1>4, <1>8
<1>10. Nearest(0) = 0 /\ (0 + 0) * One = 0 /\ Nothing.total = 0 /\ Nothing.lost = 0
  BY FormatAssumption DEF Nearest, Nothing
<1> QED
  BY <1>9, <1>10 DEF Sum, Plus, Nothing

\* Every row of the table leads where its offer may lead.
TableFits ==
  \A z \in States : \A a \in input.enabled[z] :
    LET row == transition_prob[<<z, a>>]
    IN  \E m \in Nat :
          /\ DOMAIN row = 1..m
          /\ \A i \in 1..m : row[i].to \in input.post[<<z, a>>] /\ row[i].p \in Int

VInv == input \in Call /\ TableFits /\ ImpossibleIsZero

LEMMA VInitSafe == VInit => VInv
<1> SUFFICES ASSUME VInit PROVE VInv
  OBVIOUS
<1>1. input \in Call
  BY InputsAssumption DEF VInit, Init
<1>2. /\ input.enabled \in [States -> SUBSET Actions]
      /\ input.post \in [States \X Actions -> SUBSET States]
  BY <1>1 DEF Call
<1>3. ASSUME NEW z \in States, NEW a \in input.enabled[z]
      PROVE  \E m \in Nat :
               /\ DOMAIN transition_prob[<<z, a>>] = 1..m
               /\ \A i \in 1..m : /\ transition_prob[<<z, a>>][i].to \in input.post[<<z, a>>]
                                 /\ transition_prob[<<z, a>>][i].p \in Int
  <2> DEFINE post == input.post[<<z, a>>]
             row == transition_prob[<<z, a>>]
  <2>1. <<z, a>> \in Offered
    BY <1>2 DEF Offered
  <2>2. row \in UNION {RowsOn(input.post[za]) : za \in Offered}
    BY <2>1 DEF VInit, ValidTables
  <2>3. {row[i].to : i \in DOMAIN row} = post
    BY <2>1 DEF VInit, ValidTables
  <2> HIDE DEF post, row
  <2>4. PICK za \in Offered : row \in RowsOn(input.post[za])
    BY <2>2
  <2> DEFINE there == input.post[za]
             m == Cardinality(there)
  <2>5. there \in SUBSET States
    BY <1>2 DEF Offered
  <2>6. m \in Nat
    BY <2>5, StatesAssumption, FS_Subset, FS_CardinalityType
  <2> HIDE DEF there
  <2>7. PICK order \in SetToSeqs(there), prob \in [there -> Probabilities] :
          row = [i \in DOMAIN order |-> [to |-> order[i], p |-> prob[order[i]]]]
    BY <2>4 DEF RowsOn, there
  <2>8. order \in [1..m -> there]
    BY <2>7 DEF SetToSeqs, m
  <2>9. Probabilities \subseteq Int
    BY ProbabilitiesAssumption
  <2> HIDE DEF m
  <2>10. DOMAIN row = 1..m /\ \A i \in 1..m : row[i].p \in Int
    BY <2>7, <2>8, <2>9
  <2>11. \A i \in 1..m : row[i].to \in post
    BY <2>3, <2>10
  <2> QED
    BY <2>6, <2>10, <2>11 DEF post, row
<1>4. TableFits
  BY <1>3 DEF TableFits
<1>5. \A X \in SUBSET States : MayReach(X) \subseteq X => \A z \in States \ X : values[z] = 0
  BY DEF VInit, MayReach, Goal
<1> QED
  BY <1>1, <1>4, <1>5 DEF VInv, ImpossibleIsZero

\* An update keeps the zero of what leads to zeros only.
LEMMA UpdatedZero ==
  ASSUME VInv, NEW X \in SUBSET States, MayReach(X) \subseteq X, NEW z \in States \ X
  PROVE  Updated(z) = 0
<1>1. z \notin MayReach(X)
  OBVIOUS
<1>2. CASE z \notin input.safe
  BY <1>2 DEF Updated, Goal
<1>3. CASE z \in input.safe
  <2>1. ~ Goal(z) /\ \A a \in input.enabled[z] : input.post[<<z, a>>] \cap X = {}
    BY <1>1, <1>3 DEF MayReach
  <2>2. ASSUME NEW a \in input.enabled[z]
        PROVE  Expected(z, a) = 0
    <3> DEFINE row == transition_prob[<<z, a>>]
               terms == [i \in DOMAIN row |-> Times(row[i].p, values[row[i].to])]
    <3>1. PICK m \in Nat :
            /\ DOMAIN row = 1..m
            /\ \A i \in 1..m : row[i].to \in input.post[<<z, a>>] /\ row[i].p \in Int
      BY DEF VInv, TableFits
    <3>2. input.post[<<z, a>>] \in SUBSET States
      BY DEF VInv, Call
    <3>3. ASSUME NEW i \in 1..m
          PROVE  Times(row[i].p, values[row[i].to]) = 0
      <4>1. row[i].to \in States \ X /\ row[i].p \in Int
        BY <2>1, <3>1, <3>2
      <4>2. values[row[i].to] = 0
        BY <4>1 DEF VInv, ImpossibleIsZero
      <4>3. \A k \in Int : k * 0 = 0
        OBVIOUS
      <4> HIDE DEF row
      <4> QED
        BY <4>1, <4>2, <4>3 DEF Times, Nearest
    <3> HIDE DEF row
    <3>4. terms \in [1..m -> {0}]
      BY <3>1, <3>3
    <3>5. Expected(z, a) = Sum(compensated, terms)
      BY DEF Expected, row
    <3> HIDE DEF terms
    <3> QED
      BY <3>4, <3>5, SumOfNothing
  <2>3. CASE input.enabled[z] = {}
    BY <2>1, <2>3 DEF Updated
  <2>4. CASE input.enabled[z] # {}
    <3>1. {Expected(z, a) : a \in input.enabled[z]} = {0}
      BY <2>2, <2>4
    <3>2. Max({0}) = 0
      <4>1. {0} \in SUBSET (0..0) /\ {0} # {} /\ 0 \in Nat
        OBVIOUS
      <4>2. Max({0}) \in {0}
        BY <4>1, LargestOf
      <4> QED
        BY <4>2
    <3> QED
      BY <1>3, <2>1, <2>4, <3>1, <3>2 DEF Updated
  <2> QED
    BY <2>3, <2>4
<1> QED
  BY <1>2, <1>3

\* The estimate of what cannot be reached is zero after every number of updates,
\* for every table, either way of summing and every format of the floats.
THEOREM ImpossibleIsZeroAlways == VSpec => []ImpossibleIsZero
<1>1. VInv /\ [VNext]_<<vars, reachability>> => VInv'
  <2> SUFFICES ASSUME VInv, [VNext]_<<vars, reachability>> PROVE VInv'
    OBVIOUS
  <2>1. input' = input /\ transition_prob' = transition_prob
    BY DEF VNext, Next, Round, Converge, GiveUp, Iterate, vars, reachability
  <2>2. input' \in Call /\ TableFits'
    BY <2>1 DEF VInv, TableFits
  <2>3. ASSUME NEW X \in SUBSET States, MayReach(X) \subseteq X, NEW z \in States \ X
        PROVE  values'[z] = 0
    <3>1. CASE Iterate
      BY <2>3, <3>1, UpdatedZero DEF Iterate
    <3>2. CASE UNCHANGED <<vars, reachability>>
      BY <2>3, <3>2 DEF reachability, VInv, ImpossibleIsZero
    <3> QED
      BY <3>1, <3>2 DEF VNext
  <2>4. \A X \in SUBSET States : MayReach(X)' = MayReach(X)
    BY <2>1 DEF MayReach, Goal
  <2> QED
    BY <2>2, <2>3, <2>4 DEF VInv, ImpossibleIsZero
<1>2. VInv => ImpossibleIsZero
  BY DEF VInv
<1> QED
  BY <1>1, <1>2, VInitSafe, PTL DEF VSpec

-----------------------------------------------------------------------------
(* The identifiability gate, whose figures are sums as well.                *)

\* Of some subsets of a finite set one is such that no smaller set is among them.
LEMMA SmallestSubset ==
  ASSUME NEW S, IsFiniteSet(S), NEW Bad \in SUBSET SUBSET S, Bad # {}
  PROVE  \E t \in Bad : \A r \in SUBSET t : r # t => r \notin Bad
<1> DEFINE Sizes == {m \in Nat : \E t \in Bad : Cardinality(t) = m}
<1>1. Sizes \in SUBSET Nat /\ Sizes # {}
  <2>1. PICK t \in Bad : t \in SUBSET S
    OBVIOUS
  <2>2. Cardinality(t) \in Nat
    BY <2>1, TakenOne
  <2> QED
    BY <2>1, <2>2
<1>2. PICK m \in Sizes : \A k \in Sizes : m <= k
  <2> HIDE DEF Sizes
  <2> QED
    BY <1>1, LeastNat
<1>3. PICK t \in Bad : Cardinality(t) = m
  OBVIOUS
<1>4. SUFFICES ASSUME NEW r \in SUBSET t, r # t, r \in Bad PROVE FALSE
  BY <1>3
<1>5. IsFiniteSet(t) /\ t \in SUBSET S
  BY TakenOne
<1>6. /\ m \in Nat /\ Cardinality(r) <= m /\ Cardinality(r) # m /\ Cardinality(r) \in Nat
  BY <1>3, <1>4, <1>5, FS_Subset, FS_CardinalityType
<1>7. Cardinality(r) \in Sizes
  BY <1>4, <1>6
<1> HIDE DEF Sizes
<1>8. m <= Cardinality(r)
  BY <1>2, <1>7
<1> QED
  BY <1>6, <1>8

\* Any element may be the one that is added last.
LEMMA SumWithout ==
  ASSUME NEW S, IsFiniteSet(S), NEW f \in [S -> Nat], NEW g, IsSum(f, SUBSET S, g),
         NEW s \in SUBSET S, NEW x \in s
  PROVE  g[s] = f[x] + g[s \ {x}]
<1> DEFINE Bad == {t \in SUBSET S : \E y \in t : g[t] # f[y] + g[t \ {y}]}
<1>1. SUFFICES ASSUME Bad # {} PROVE FALSE
  OBVIOUS
<1>2. PICK t \in Bad : \A r \in SUBSET t : r # t => r \notin Bad
  <2>1. Bad \in SUBSET SUBSET S
    OBVIOUS
  <2> HIDE DEF Bad
  <2> QED
    BY <1>1, <2>1, SmallestSubset
<1>3. PICK y \in t : g[t] # f[y] + g[t \ {y}]
  OBVIOUS
<1> DEFINE z == Taken(t)
           r == t \ {z}
           u == t \ {y}
           v == r \ {y}
<1>4. t \in SUBSET S /\ t # {} /\ r \in SUBSET S /\ z \in t /\ y \in t
  BY <1>3, TakenOne
<1>5. g[t] = f[z] + g[r]
  BY <1>4 DEF IsSum, SumStep
<1>6. y # z
  BY <1>3, <1>5
<1>7. /\ u \in SUBSET t /\ r \in SUBSET t /\ u # t /\ r # t
      /\ y \in r /\ z \in u /\ u \ {z} = v
  BY <1>4, <1>6
<1>8. r \notin Bad /\ u \notin Bad /\ u \in SUBSET S
  BY <1>2, <1>4, <1>7
<1> HIDE DEF z
<1>9. g[r] = f[y] + g[v] /\ g[u] = f[z] + g[v]
  BY <1>4, <1>7, <1>8
<1>10. f[y] \in Nat /\ f[z] \in Nat /\ g[v] \in Nat /\ g[t] # f[y] + g[u]
  <2>1. v \in SUBSET S
    BY <1>4
  <2> QED
    BY <1>3, <1>4, <2>1 DEF IsSum
<1> HIDE DEF r, u, v
<1> QED
  BY <1>5, <1>9, <1>10

\* total is the sum of f over S.
SumIs(f, S, total) == \E g : IsSum(f, SUBSET S, g) /\ total = g[S]

\* There is one sum, a natural number.
LEMMA OneSum ==
  ASSUME NEW S, IsFiniteSet(S), NEW f \in [S -> Nat]
  PROVE  \E total \in Nat : SumIs(f, S, total) /\ \A m : SumIs(f, S, m) => m = total
<1>1. PICK g : IsSum(f, SUBSET S, g)
  BY SumsExist
<1>2. ASSUME NEW h, IsSum(f, SUBSET S, h) PROVE h = g
  <2>1. Stepped(f, S, h)
    BY <1>2 DEF IsSum, Stepped
  <2> QED
    BY <1>1, <2>1, SumsUnique
<1>3. g[S] \in Nat
  BY <1>1 DEF IsSum
<1> QED
  BY <1>1, <1>2, <1>3 DEF SumIs

\* h is f plus g, term by term.
Adds(S, f, g, h) == \A x \in S : h[x] = f[x] + g[x]

\* Sums are added term by term.
LEMMA SumOfSums ==
  ASSUME NEW S, IsFiniteSet(S), NEW f \in [S -> Nat], NEW g \in [S -> Nat],
         NEW h \in [S -> Nat], Adds(S, f, g, h),
         NEW a \in Nat, SumIs(f, S, a), NEW b \in Nat, SumIs(g, S, b)
  PROVE  SumIs(h, S, a + b)
<1>1. PICK sf : IsSum(f, SUBSET S, sf) /\ a = sf[S]
  BY DEF SumIs
<1>2. PICK sg : IsSum(g, SUBSET S, sg) /\ b = sg[S]
  BY DEF SumIs
<1> DEFINE sh == [s \in SUBSET S |-> sf[s] + sg[s]]
<1>3. sh \in [SUBSET S -> Nat]
  BY <1>1, <1>2 DEF IsSum
<1>4. ASSUME NEW s \in SUBSET S PROVE sh[s] = SumStep(h, sh, s)
  <2>1. CASE s = {}
    <3>1. sf[{}] = 0 /\ sg[{}] = 0
      BY <1>1, <1>2 DEF IsSum, SumStep
    <3>2. sh[s] = sf[{}] + sg[{}]
      BY <2>1
    <3> QED
      BY <2>1, <3>1, <3>2 DEF SumStep
  <2>2. CASE s # {}
    <3> DEFINE x == Taken(s)
               r == s \ {x}
    <3>1. x \in S /\ r \in SUBSET S
      BY <2>2, TakenOne
    <3>2. sf[s] = f[x] + sf[r] /\ sg[s] = g[x] + sg[r]
      BY <1>1, <1>2, <2>2 DEF IsSum, SumStep
    <3>3. sf[r] \in Nat /\ sg[r] \in Nat /\ f[x] \in Nat /\ g[x] \in Nat
      BY <1>1, <1>2, <3>1 DEF IsSum
    <3>4. h[x] = f[x] + g[x] /\ sh[r] = sf[r] + sg[r] /\ sh[s] = sf[s] + sg[s]
      BY <3>1 DEF Adds
    <3>5. SumStep(h, sh, s) = h[x] + sh[r]
      BY <2>2 DEF SumStep
    <3> HIDE DEF x, r, sh
    <3> QED
      BY <3>2, <3>3, <3>4, <3>5
  <2> QED
    BY <2>1, <2>2
<1>5. IsSum(h, SUBSET S, sh) /\ sh[S] = a + b
  <2>1. sh[S] = a + b
    BY <1>1, <1>2
  <2> HIDE DEF sh
  <2> QED
    BY <1>3, <1>4, <2>1 DEF IsSum
<1> QED
  BY <1>5 DEF SumIs

\* h is f where f is defined, and zero elsewhere on S.
Extends(f, D, S, h) == \A x \in S : h[x] = IF x \in D THEN f[x] ELSE 0

\* Terms that are zero do not matter.
LEMMA SumExtended ==
  ASSUME NEW S, IsFiniteSet(S), NEW D \in SUBSET S, NEW f \in [D -> Nat],
         NEW h \in [S -> Nat], Extends(f, D, S, h), NEW a, SumIs(f, D, a)
  PROVE  SumIs(h, S, a)
<1>1. PICK sf : IsSum(f, SUBSET D, sf) /\ a = sf[D]
  BY DEF SumIs
<1>2. IsFiniteSet(D)
  BY FS_Subset
<1> DEFINE sh == [s \in SUBSET S |-> sf[s \cap D]]
<1>3. sh \in [SUBSET S -> Nat]
  BY <1>1 DEF IsSum
<1>4. ASSUME NEW s \in SUBSET S PROVE sh[s] = SumStep(h, sh, s)
  <2>1. CASE s = {}
    <3>1. sh[s] = sf[{}]
      BY <2>1
    <3>2. sf[{}] = 0
      BY <1>1 DEF IsSum, SumStep
    <3> QED
      BY <2>1, <3>1, <3>2 DEF SumStep
  <2>2. CASE s # {}
    <3> DEFINE x == Taken(s)
               r == s \ {x}
               d == s \cap D
    <3>1. x \in s /\ x \in S /\ r \in SUBSET S /\ d \in SUBSET D
      BY <2>2, TakenOne
    <3>2. SumStep(h, sh, s) = h[x] + sh[r] /\ sh[s] = sf[d] /\ sh[r] = sf[r \cap D]
      BY <2>2, <3>1 DEF SumStep
    <3>3. h[x] = IF x \in D THEN f[x] ELSE 0
      BY <3>1 DEF Extends
    <3>4. CASE x \in D
      <4>1. r \cap D = d \ {x} /\ x \in d
        BY <3>1, <3>4
      <4> HIDE DEF x, r, d, sh
      <4>2. sf[d] = f[x] + sf[d \ {x}]
        BY <1>1, <1>2, <3>1, <4>1, SumWithout
      <4> QED
        BY <3>2, <3>3, <3>4, <4>1, <4>2
    <3>5. CASE x \notin D
      <4>1. r \cap D = d
        BY <3>1, <3>5
      <4>2. sf[d] \in Nat
        BY <1>1, <3>1 DEF IsSum
      <4>3. h[x] = 0
        BY <3>3, <3>5
      <4>4. sh[r] = sf[d] /\ sh[s] = sf[d]
        BY <3>2, <4>1
      <4> HIDE DEF x, r, d, sh
      <4> QED
        BY <3>2, <4>2, <4>3, <4>4
    <3> QED
      BY <3>4, <3>5
  <2> QED
    BY <2>1, <2>2
<1>5. sh[S] = a
  <2>1. S \cap D = D
    OBVIOUS
  <2> QED
    BY <1>1, <2>1
<1> HIDE DEF sh
<1>6. IsSum(h, SUBSET S, sh)
  BY <1>3, <1>4 DEF IsSum
<1> QED
  BY <1>5, <1>6 DEF SumIs

-----------------------------------------------------------------------------
Folds(f, S, g) == g = [s \in SUBSET S |-> IF s = {} THEN 0
                                          ELSE f[CHOOSE x \in s : TRUE]
                                                 + g[s \ {CHOOSE x \in s : TRUE}]]

\* The folds of the community modules are such sums.
LEMMA FoldIsSum ==
  ASSUME NEW S, IsFiniteSet(S), NEW f \in [S -> Nat],
         NEW iter, iter = CHOOSE g : Folds(f, S, g)
  PROVE  SumIs(f, S, iter[S])
<1>1. PICK g : IsSum(f, SUBSET S, g)
  BY SumsExist
<1>2. Folds(f, S, g)
  BY <1>1 DEF IsSum, SumStep, Taken, Folds
<1>3. Folds(f, S, iter)
  BY <1>2
<1>4. Stepped(f, S, iter)
  BY <1>3 DEF SumStep, Taken, Stepped, Folds
<1>5. IsSum(f, SUBSET S, iter)
  BY <1>4, SteppedIsSum
<1> QED
  BY <1>5 DEF SumIs

\* What a mapping of masses adds up to,
LEMMA TotalIsSum ==
  ASSUME NEW dist \in Mappings
  PROVE  IsFiniteSet(DOMAIN dist) /\ dist \in [DOMAIN dist -> Nat]
         /\ SumIs(dist, DOMAIN dist, Total(dist))
<1> DEFINE D == DOMAIN dist
           iter == CHOOSE g : Folds(dist, D, g)
<1>1. D \in SUBSET Outcomes /\ dist \in [D -> Nat]
  BY WholeAssumption DEF Mappings
<1>2. IsFiniteSet(D)
  BY <1>1, WholeAssumption, FS_Subset
<1>3. Total(dist) = iter[D]
  BY DEF Total, FoldFunction, FoldFunctionOnSet, MapThenFoldSet, Folds
<1> HIDE DEF D
<1>4. SumIs(dist, D, iter[D])
  BY <1>1, <1>2, FoldIsSum
<1> QED
  BY <1>1, <1>2, <1>3, <1>4 DEF D

Gaps(p, q, S) == [x \in S |-> Distance(Mass(p, x), Mass(q, x))]

\* how far two are apart,
LEMMA VariationIsSum ==
  ASSUME NEW p \in Mappings, NEW q \in Mappings
  PROVE  LET D == DOMAIN p \cup DOMAIN q
         IN  /\ D \in SUBSET Outcomes
             /\ Gaps(p, q, D) \in [D -> Nat]
             /\ SumIs(Gaps(p, q, D), D, TotalVariation(p, q))
<1> DEFINE D == DOMAIN p \cup DOMAIN q
           f == Gaps(p, q, D)
           iter == CHOOSE g : Folds(f, D, g)
<1>1. D \in SUBSET Outcomes
  BY DEF Mappings
<1>2. IsFiniteSet(D)
  BY <1>1, WholeAssumption, FS_Subset
<1>3. \A x : Mass(p, x) \in Nat /\ Mass(q, x) \in Nat
  BY WholeAssumption DEF Mappings, Mass
<1>4. f \in [D -> Nat]
  <2>1. \A a, b \in Nat : Distance(a, b) \in Nat
    BY DEF Distance
  <2> QED
    BY <1>3, <2>1 DEF Gaps
<1>5. TotalVariation(p, q) = iter[D]
  <2> DEFINE Sums(g) == g = [s \in SUBSET D |->
                               IF s = {} THEN 0
                               ELSE LET x == CHOOSE x \in s : TRUE
                                    IN  Distance(Mass(p, x), Mass(q, x)) + g[s \ {x}]]
  <2>1. ASSUME NEW g PROVE Sums(g) <=> Folds(f, D, g)
    <3>1. \A s \in SUBSET D : s # {} =>
            f[CHOOSE x \in s : TRUE] = LET x == CHOOSE x \in s : TRUE
                                       IN  Distance(Mass(p, x), Mass(q, x))
      BY DEF Gaps
    <3> HIDE DEF f, D
    <3> QED
      BY <3>1 DEF Folds
  <2>2. TotalVariation(p, q) = (CHOOSE g : Sums(g))[D]
    BY DEF TotalVariation, MapThenSumSet, MapThenFoldSet
  <2> HIDE DEF Sums, f, D
  <2>3. (CHOOSE g : Sums(g)) = CHOOSE g : Folds(f, D, g)
    BY <2>1
  <2> QED
    BY <2>2, <2>3
<1> HIDE DEF f, D
<1>6. SumIs(f, D, iter[D])
  BY <1>2, <1>4, FoldIsSum
<1> QED
  BY <1>1, <1>4, <1>5, <1>6 DEF f, D

Erring(chosen) ==
  [x \in Outcomes |-> IF x \in chosen THEN Mass(dist_m, x) ELSE Mass(dist_h, x)]

\* and how often a rule errs.
LEMMA ErrorsAreSums ==
  ASSUME NEW chosen, dist_h \in Mappings, dist_m \in Mappings
  PROVE  /\ Erring(chosen) \in [Outcomes -> Nat]
         /\ SumIs(Erring(chosen), Outcomes, Errors(chosen))
<1> DEFINE f == Erring(chosen)
           iter == CHOOSE g : Folds(f, Outcomes, g)
<1>1. \A x : Mass(dist_h, x) \in Nat /\ Mass(dist_m, x) \in Nat
  BY WholeAssumption DEF Mappings, Mass
<1>2. f \in [Outcomes -> Nat]
  BY <1>1 DEF Erring
<1>3. Errors(chosen) = iter[Outcomes]
  <2> DEFINE Sums(g) == g = [s \in SUBSET Outcomes |->
                               IF s = {} THEN 0
                               ELSE LET x == CHOOSE x \in s : TRUE
                                    IN  (IF x \in chosen THEN Mass(dist_m, x)
                                         ELSE Mass(dist_h, x)) + g[s \ {x}]]
  <2>1. ASSUME NEW g PROVE Sums(g) <=> Folds(f, Outcomes, g)
    <3>1. \A s \in SUBSET Outcomes : s # {} =>
            f[CHOOSE x \in s : TRUE] = LET x == CHOOSE x \in s : TRUE
                                       IN  IF x \in chosen THEN Mass(dist_m, x)
                                           ELSE Mass(dist_h, x)
      BY DEF Erring
    <3> HIDE DEF f
    <3> QED
      BY <3>1 DEF Folds
  <2>2. Errors(chosen) = (CHOOSE g : Sums(g))[Outcomes]
    BY DEF Errors, MapThenSumSet, MapThenFoldSet
  <2> HIDE DEF Sums, f
  <2>3. (CHOOSE g : Sums(g)) = CHOOSE g : Folds(f, Outcomes, g)
    BY <2>1
  <2> QED
    BY <2>2, <2>3
<1> HIDE DEF f
<1>4. SumIs(f, Outcomes, iter[Outcomes])
  BY <1>2, WholeAssumption, FoldIsSum
<1> QED
  BY <1>2, <1>3, <1>4 DEF f

-----------------------------------------------------------------------------
MassOn(dist) == [x \in Outcomes |-> Mass(dist, x)]
Lesser == [x \in Outcomes |-> IF Mass(dist_m, x) <= Mass(dist_h, x)
                              THEN Mass(dist_m, x) ELSE Mass(dist_h, x)]

\* The masses of a distribution sum to one over all outcomes.
LEMMA MassesSum ==
  ASSUME NEW dist \in Mappings, IsMassFunction(dist)
  PROVE  MassOn(dist) \in [Outcomes -> Nat] /\ SumIs(MassOn(dist), Outcomes, Whole)
<1>1. \A x : Mass(dist, x) \in Nat
  BY WholeAssumption DEF Mappings, Mass
<1>2. MassOn(dist) \in [Outcomes -> Nat]
  BY <1>1 DEF MassOn
<1>3. Extends(dist, DOMAIN dist, Outcomes, MassOn(dist))
  BY DEF Extends, MassOn, Mass
<1>4. DOMAIN dist \in SUBSET Outcomes
  BY DEF Mappings
<1>5. SumIs(dist, DOMAIN dist, Whole) /\ dist \in [DOMAIN dist -> Nat]
  BY TotalIsSum DEF IsMassFunction
<1> QED
  BY <1>2, <1>3, <1>4, <1>5, WholeAssumption, SumExtended

\* The rule that decides for the likelier hypothesis errs by the lesser mass of
\* every outcome; no rule errs by less; and twice that and the distance of the
\* hypotheses make two.
LEMMA BestRule ==
  ASSUME dist_h \in Mappings, dist_m \in Mappings,
         IsMassFunction(dist_h), IsMassFunction(dist_m)
  PROVE  \E best \in Nat :
           /\ TotalVariation(dist_h, dist_m) \in Nat
           /\ TotalVariation(dist_h, dist_m) + 2 * best = 2 * Whole
           /\ \E chosen \in SUBSET Outcomes : Errors(chosen) = best
           /\ \A chosen \in SUBSET Outcomes : Errors(chosen) \in Nat /\ best <= Errors(chosen)
<1>1. \A x : Mass(dist_h, x) \in Nat /\ Mass(dist_m, x) \in Nat
  BY WholeAssumption DEF Mappings, Mass
<1>2. Lesser \in [Outcomes -> Nat]
  BY <1>1 DEF Lesser
<1>3. IsFiniteSet(Outcomes)
  BY WholeAssumption
<1>4. PICK best \in Nat : SumIs(Lesser, Outcomes, best)
                          /\ \A other : SumIs(Lesser, Outcomes, other) => other = best
  BY <1>2, <1>3, OneSum
<1>5. \E chosen \in SUBSET Outcomes : Errors(chosen) = best
  <2> DEFINE likelier == {x \in Outcomes : Mass(dist_m, x) <= Mass(dist_h, x)}
  <2>1. Erring(likelier) = Lesser
    BY DEF Erring, Lesser
  <2>2. likelier \in SUBSET Outcomes
    OBVIOUS
  <2> HIDE DEF likelier
  <2>3. SumIs(Lesser, Outcomes, Errors(likelier))
    BY <2>1, ErrorsAreSums
  <2> QED
    BY <1>4, <2>2, <2>3
<1>6. ASSUME NEW chosen \in SUBSET Outcomes
      PROVE  Errors(chosen) \in Nat /\ best <= Errors(chosen)
  <2> DEFINE f == Erring(chosen)
             more == [x \in Outcomes |-> f[x] - Lesser[x]]
  <2>1. f \in [Outcomes -> Nat] /\ SumIs(f, Outcomes, Errors(chosen))
    BY ErrorsAreSums
  <2>2. \A x \in Outcomes : Lesser[x] <= f[x]
    BY <1>1 DEF Erring, Lesser
  <2>3. more \in [Outcomes -> Nat] /\ \A x \in Outcomes : f[x] = Lesser[x] + more[x]
    <3> HIDE DEF f
    <3>1. ASSUME NEW x \in Outcomes
          PROVE  f[x] - Lesser[x] \in Nat /\ f[x] = Lesser[x] + (f[x] - Lesser[x])
      <4>1. f[x] \in Nat /\ Lesser[x] \in Nat /\ Lesser[x] <= f[x]
        BY <1>2, <2>1, <2>2
      <4> QED
        BY <4>1
    <3> QED
      BY <3>1
  <2> HIDE DEF f, more
  <2>4. Adds(Outcomes, Lesser, more, f)
    BY <2>3 DEF Adds
  <2>5. PICK rest \in Nat : SumIs(more, Outcomes, rest)
    BY <1>3, <2>3, OneSum
  <2>6. SumIs(f, Outcomes, best + rest)
    BY <1>2, <1>3, <1>4, <2>1, <2>3, <2>4, <2>5, SumOfSums
  <2>7. Errors(chosen) = best + rest
    BY <1>3, <2>1, <2>6, OneSum
  <2> QED
    BY <2>5, <2>7
<1>7. /\ TotalVariation(dist_h, dist_m) \in Nat
      /\ TotalVariation(dist_h, dist_m) + 2 * best = 2 * Whole
  <2> DEFINE D == DOMAIN dist_h \cup DOMAIN dist_m
             tv == TotalVariation(dist_h, dist_m)
             gaps == Gaps(dist_h, dist_m, Outcomes)
             once == [x \in Outcomes |-> gaps[x] + Lesser[x]]
             twice == [x \in Outcomes |-> once[x] + Lesser[x]]
             hs == MassOn(dist_h)
             ms == MassOn(dist_m)
  <2>1. gaps \in [Outcomes -> Nat]
    <3>1. \A a, b \in Nat : Distance(a, b) \in Nat
      BY DEF Distance
    <3> QED
      BY <1>1, <3>1 DEF Gaps
  <2>2. SumIs(gaps, Outcomes, tv)
    <3>1. /\ D \in SUBSET Outcomes /\ Gaps(dist_h, dist_m, D) \in [D -> Nat]
          /\ SumIs(Gaps(dist_h, dist_m, D), D, tv)
      BY VariationIsSum
    <3>2. Extends(Gaps(dist_h, dist_m, D), D, Outcomes, gaps)
      <4>1. \A x : x \notin D => Distance(Mass(dist_h, x), Mass(dist_m, x)) = 0
        BY DEF Mass, Distance
      <4> HIDE DEF D
      <4> QED
        BY <4>1 DEF Extends, Gaps
    <3> HIDE DEF D, gaps, tv
    <3> QED
      BY <1>3, <2>1, <3>1, <3>2, SumExtended
  <2>3. tv \in Nat
    <3> HIDE DEF gaps, tv
    <3> QED
      BY <1>3, <2>1, <2>2, OneSum
  <2>4. once \in [Outcomes -> Nat] /\ Adds(Outcomes, gaps, Lesser, once)
    <3> HIDE DEF gaps
    <3> QED
      BY <1>2, <2>1 DEF Adds
  <2>5. twice \in [Outcomes -> Nat] /\ Adds(Outcomes, once, Lesser, twice)
    <3> HIDE DEF once
    <3> QED
      BY <1>2, <2>4 DEF Adds
  <2>6. hs \in [Outcomes -> Nat] /\ ms \in [Outcomes -> Nat]
        /\ SumIs(hs, Outcomes, Whole) /\ SumIs(ms, Outcomes, Whole)
    BY MassesSum
  <2>7. \A x \in Outcomes : twice[x] = hs[x] + ms[x]
    <3> SUFFICES ASSUME NEW x \in Outcomes PROVE twice[x] = hs[x] + ms[x]
      OBVIOUS
    <3> DEFINE a == Mass(dist_h, x)
               b == Mass(dist_m, x)
    <3>1. a \in Nat /\ b \in Nat
      BY <1>1
    <3>2. gaps[x] = IF a > b THEN a - b ELSE b - a
      BY DEF Gaps, Distance
    <3>3. Lesser[x] = IF b <= a THEN b ELSE a
      BY DEF Lesser
    <3>4. hs[x] = a /\ ms[x] = b
      BY DEF MassOn
    <3>5. twice[x] = gaps[x] + Lesser[x] + Lesser[x]
      OBVIOUS
    <3> HIDE DEF a, b, gaps, twice, hs, ms
    <3> QED
      BY <3>1, <3>2, <3>3, <3>4, <3>5
  <2> HIDE DEF gaps, once, twice, hs, ms, tv
  <2>8. Adds(Outcomes, hs, ms, twice)
    BY <2>7 DEF Adds
  <2>9. Whole \in Nat
    BY WholeAssumption
  <2>10. SumIs(once, Outcomes, tv + best) /\ tv + best \in Nat
    BY <1>2, <1>3, <1>4, <2>1, <2>2, <2>3, <2>4, SumOfSums
  <2>11. SumIs(twice, Outcomes, tv + best + best)
    BY <1>2, <1>3, <1>4, <2>4, <2>5, <2>10, SumOfSums
  <2>12. SumIs(twice, Outcomes, Whole + Whole)
    BY <1>3, <2>5, <2>6, <2>8, <2>9, SumOfSums
  <2>13. tv + best + best = Whole + Whole
    BY <1>3, <2>5, <2>11, <2>12, OneSum
  <2>14. tv + 2 * best = 2 * Whole
    BY <1>4, <2>3, <2>9, <2>13
  <2> QED
    BY <2>3, <2>14 DEF tv
<1> QED
  BY <1>4, <1>5, <1>6, <1>7

-----------------------------------------------------------------------------
\* The induction: an answer of the gate is about two mass functions and gives
\* their distance, and a claim rests on an answer.
GateInv ==
  /\ gate.kind \in {"None", "ValueError", "NonIdentifiable", "BayesError"}
  /\ gate.kind \in {"NonIdentifiable", "BayesError"} =>
       /\ dist_h \in Mappings /\ dist_m \in Mappings
       /\ IsMassFunction(dist_h) /\ IsMassFunction(dist_m)
  /\ gate.kind = "NonIdentifiable" => TotalVariation(dist_h, dist_m) = 0
  /\ gate.kind = "BayesError" =>
       /\ TotalVariation(dist_h, dist_m) # 0
       /\ gate.error = 2 * Whole - TotalVariation(dist_h, dist_m)
  /\ claim \in {"None", "Detected", "Rejected"}
  /\ claim # "None" =>
       /\ gate.kind \in {"NonIdentifiable", "BayesError"}
       /\ claim = "Detected" <=>
            gate.kind = "BayesError" /\ gate.error \in 0..(2 * Whole - 1)

\* Every step keeps it.
LEMMA GateInvInductive ==
  /\ GateInit => GateInv
  /\ GateInv /\ [GateNext]_questions => GateInv'
<1>1. GateInit => GateInv
  BY DEF GateInit, GateInv
<1>2. ASSUME GateInv, NEW h \in Mappings, NEW m \in Mappings, IdentifiabilityGate(h, m)
      PROVE  GateInv'
  <2>1. /\ dist_h' = h /\ dist_m' = m /\ claim' = claim
        /\ gate.kind = "None" /\ claim = "None"
    BY <1>2 DEF IdentifiabilityGate, GateInv
  <2>2. CASE ~ (IsMassFunction(h) /\ IsMassFunction(m))
    <3>1. gate' = [kind |-> "ValueError"]
      BY <1>2, <2>2 DEF IdentifiabilityGate
    <3> QED
      BY <2>1, <3>1 DEF GateInv
  <2>3. CASE IsMassFunction(h) /\ IsMassFunction(m) /\ TotalVariation(h, m) = 0
    <3>1. gate' = [kind |-> "NonIdentifiable"]
      BY <1>2, <2>3 DEF IdentifiabilityGate
    <3>2. IsMassFunction(dist_h)' /\ IsMassFunction(dist_m)'
          /\ TotalVariation(dist_h, dist_m)' = TotalVariation(h, m)
      BY <2>1, <2>3
    <3> QED
      BY <2>1, <2>3, <3>1, <3>2 DEF GateInv
  <2>4. CASE IsMassFunction(h) /\ IsMassFunction(m) /\ TotalVariation(h, m) # 0
    <3>1. gate' = [kind |-> "BayesError", error |-> 2 * Whole - TotalVariation(h, m)]
      BY <1>2, <2>4 DEF IdentifiabilityGate
    <3>2. IsMassFunction(dist_h)' /\ IsMassFunction(dist_m)'
          /\ TotalVariation(dist_h, dist_m)' = TotalVariation(h, m)
      BY <2>1, <2>4
    <3>3. gate'.kind = "BayesError" /\ gate'.error = 2 * Whole - TotalVariation(h, m)
      BY <3>1
    <3> QED
      BY <2>1, <2>4, <3>2, <3>3 DEF GateInv
  <2> QED
    BY <2>2, <2>3, <2>4
<1>3. ASSUME GateInv, DetectedClaim PROVE GateInv'
  <2>1. UNCHANGED <<dist_h, dist_m, gate>> /\ gate.kind \in {"NonIdentifiable", "BayesError"}
    BY <1>3 DEF DetectedClaim, GateInv
  <2>2. IsMassFunction(dist_h)' = IsMassFunction(dist_h)
        /\ IsMassFunction(dist_m)' = IsMassFunction(dist_m)
        /\ TotalVariation(dist_h, dist_m)' = TotalVariation(dist_h, dist_m)
    BY <2>1
  <2>3. claim' = IF gate.kind = "BayesError" /\ gate.error \in 0..(2 * Whole - 1)
                 THEN "Detected" ELSE "Rejected"
    BY <1>3 DEF DetectedClaim
  <2> QED
    BY <1>3, <2>1, <2>2, <2>3 DEF GateInv
<1>4. ASSUME GateInv, UNCHANGED questions PROVE GateInv'
  <2>1. UNCHANGED <<dist_h, dist_m, gate, claim>>
    BY <1>4 DEF questions
  <2>2. IsMassFunction(dist_h)' = IsMassFunction(dist_h)
        /\ IsMassFunction(dist_m)' = IsMassFunction(dist_m)
        /\ TotalVariation(dist_h, dist_m)' = TotalVariation(dist_h, dist_m)
    BY <2>1
  <2> QED
    BY <1>4, <2>1, <2>2 DEF GateInv
<1> QED
  BY <1>1, <1>2, <1>3, <1>4 DEF GateNext

\* The gate's figure is twice the error of the best rule there is, and what is
\* claimed detected some rule tells apart better than chance, and nothing else.
THEOREM ErrorIsTheBestRulesAlways == GateSpec => []ErrorIsTheBestRules
<1>1. GateInv => ErrorIsTheBestRules
  <2> SUFFICES ASSUME GateInv PROVE ErrorIsTheBestRules
    OBVIOUS
  <2> DEFINE errors == {Errors(chosen) : chosen \in SUBSET Outcomes}
             tv == TotalVariation(dist_h, dist_m)
  <2>1. CASE gate.kind \in {"NonIdentifiable", "BayesError"}
    <3>1. PICK best \in Nat :
            /\ tv \in Nat /\ tv + 2 * best = 2 * Whole
            /\ best \in errors
            /\ \A e \in errors : e \in Nat /\ best <= e
      <4>1. PICK best \in Nat :
              /\ tv \in Nat /\ tv + 2 * best = 2 * Whole
              /\ \E chosen \in SUBSET Outcomes : Errors(chosen) = best
              /\ \A chosen \in SUBSET Outcomes :
                   Errors(chosen) \in Nat /\ best <= Errors(chosen)
        BY <2>1, BestRule DEF GateInv
      <4> QED
        BY <4>1
    <3>2. /\ gate.kind = "NonIdentifiable" => tv = 0
          /\ gate.kind = "BayesError" => tv # 0 /\ gate.error = 2 * Whole - tv
          /\ claim # "None" =>
               (claim = "Detected" <=>
                  gate.kind = "BayesError" /\ gate.error \in 0..(2 * Whole - 1))
      BY DEF GateInv
    <3> HIDE DEF errors, tv
    <3>3. Min(errors) = best
      <4>1. \A x \in errors : (\A y \in errors : x =< y) => x = best
        BY <3>1
      <4>2. best \in errors /\ \A y \in errors : best =< y
        BY <3>1
      <4> QED
        BY <4>1, <4>2 DEF Min
    <3>4. Whole \in Nat
      BY WholeAssumption
    <3>5. gate.kind = "BayesError" => gate.error = 2 * best
      BY <3>1, <3>2, <3>4
    <3>6. (\E e \in errors : e < Whole) <=> best < Whole
      BY <3>1, <3>4
    <3>7. gate.kind = "BayesError" =>
            (gate.error \in 0..(2 * Whole - 1) <=> best < Whole)
      BY <3>1, <3>4, <3>5
    <3>8. gate.kind = "NonIdentifiable" => ~ (best < Whole)
      BY <3>1, <3>2, <3>4
    <3>9. claim # "None" => (claim = "Detected" <=> best < Whole)
      BY <2>1, <3>2, <3>7, <3>8
    <3> QED
      BY <3>3, <3>5, <3>6, <3>9 DEF ErrorIsTheBestRules, errors
  <2>2. CASE gate.kind \notin {"NonIdentifiable", "BayesError"}
    BY <2>2 DEF GateInv, ErrorIsTheBestRules
  <2> QED
    BY <2>1, <2>2
<1> QED
  BY <1>1, GateInvInductive, PTL DEF GateSpec

-----------------------------------------------------------------------------
(* Requirements are trees, and what is computed of one part by part is      *)
(* computed of every one of them.                                           *)

\* The value at r, by tables for conjunctions and disjunctions, and one for the
\* leaves.
TreeStep(conj, disj, leaf, f, r) ==
  CASE r.op = "And" -> conj[<<f[r.left], f[r.right]>>]
    [] r.op = "Or"  -> disj[<<f[r.left], f[r.right]>>]
    [] OTHER        -> leaf[r]

IsTree(conj, disj, leaf, D, f) ==
  /\ DOMAIN f = D
  /\ f = [r \in D |-> TreeStep(conj, disj, leaf, f, r)]

Low(k) == {r \in Requirements : Height[r] < k}

\* The parts of a requirement are lower.
LEMMA PartsAreLower ==
  ASSUME NEW r \in Requirements, r.op \in {"And", "Or"}
  PROVE  /\ r.left \in Requirements /\ Height[r.left] < Height[r]
         /\ r.right \in Requirements /\ Height[r.right] < Height[r]
<1>1. r \notin Leaves
  BY DEF Leaves, Same, Identified
<1> QED
  BY <1>1, RequirementsAssumption

\* A requirement is a leaf or has parts.
LEMMA RequirementOps ==
  ASSUME NEW r \in Requirements
  PROVE  r.op \in {"And", "Or"} \/ r \in Leaves
  BY RequirementsAssumption DEF And, Or

\* Of some requirements one is no higher than any other.
LEMMA LowestRequirement ==
  ASSUME NEW Bad \in SUBSET Requirements, Bad # {}
  PROVE  \E r \in Bad : \A q \in Requirements : Height[q] < Height[r] => q \notin Bad
<1> DEFINE Heights == {m \in Nat : \E r \in Bad : Height[r] = m}
<1>1. \A r \in Requirements : Height[r] \in Nat
  BY RequirementsAssumption
<1>2. Heights \in SUBSET Nat /\ Heights # {}
  BY <1>1
<1>3. PICK m \in Heights : \A k \in Heights : m <= k
  <2> HIDE DEF Heights
  <2> QED
    BY <1>2, LeastNat
<1>4. PICK r \in Bad : Height[r] = m
  OBVIOUS
<1>5. ASSUME NEW q \in Requirements, Height[q] < Height[r], q \in Bad PROVE FALSE
  <2>1. Height[q] \in Heights /\ Height[q] \in Nat /\ m \in Nat
    BY <1>1, <1>5
  <2> HIDE DEF Heights
  <2>2. m <= Height[q]
    BY <1>3, <2>1
  <2> QED
    BY <1>4, <1>5, <2>1, <2>2
<1> QED
  BY <1>5

\* Two computations agree where both are made.
LEMMA TreesAgree ==
  ASSUME NEW conj, NEW disj, NEW leaf, NEW a \in Nat, NEW b \in Nat,
         NEW f, IsTree(conj, disj, leaf, Low(a), f),
         NEW g, IsTree(conj, disj, leaf, Low(b), g)
  PROVE  \A r \in Low(a) \cap Low(b) : f[r] = g[r]
<1> DEFINE Bad == {r \in Low(a) \cap Low(b) : f[r] # g[r]}
<1>1. SUFFICES ASSUME Bad # {} PROVE FALSE
  OBVIOUS
<1>2. PICK r \in Bad : \A q \in Requirements : Height[q] < Height[r] => q \notin Bad
  <2>1. Bad \in SUBSET Requirements
    BY DEF Low
  <2> HIDE DEF Bad
  <2> QED
    BY <1>1, <2>1, LowestRequirement
<1>3. r \in Low(a) /\ r \in Low(b) /\ r \in Requirements /\ f[r] # g[r]
  BY DEF Low
<1>4. /\ f[r] = TreeStep(conj, disj, leaf, f, r)
      /\ g[r] = TreeStep(conj, disj, leaf, g, r)
  <2>1. f = [q \in Low(a) |-> TreeStep(conj, disj, leaf, f, q)]
    BY DEF IsTree
  <2>2. g = [q \in Low(b) |-> TreeStep(conj, disj, leaf, g, q)]
    BY DEF IsTree
  <2> QED
    BY <1>3, <2>1, <2>2
<1>5. ASSUME NEW q \in Requirements, Height[q] < Height[r] PROVE f[q] = g[q]
  <2>1. Height[q] \in Nat /\ Height[r] \in Nat
    BY <1>3, RequirementsAssumption
  <2>2. q \in Low(a) /\ q \in Low(b)
    BY <1>3, <1>5, <2>1 DEF Low
  <2>3. q \notin Bad
    BY <1>2, <1>5
  <2> QED
    BY <2>2, <2>3
<1>6. CASE r.op \in {"And", "Or"}
  <2>1. f[r.left] = g[r.left] /\ f[r.right] = g[r.right]
    BY <1>3, <1>5, <1>6, PartsAreLower
  <2> QED
    BY <1>3, <1>4, <1>6, <2>1 DEF TreeStep
<1>7. CASE r.op \notin {"And", "Or"}
  BY <1>3, <1>4, <1>7 DEF TreeStep
<1> QED
  BY <1>6, <1>7

\* Up to any height the computation can be made,
LEMMA LowTreesExist ==
  ASSUME NEW conj, NEW disj, NEW leaf, NEW k \in Nat
  PROVE  \E f : IsTree(conj, disj, leaf, Low(k), f)
<1> DEFINE Missing == {m \in Nat : ~ \E f : IsTree(conj, disj, leaf, Low(m), f)}
<1>1. SUFFICES ASSUME Missing # {} PROVE FALSE
  OBVIOUS
<1>2. PICK m \in Missing : \A j \in Missing : m <= j
  <2>1. Missing \in SUBSET Nat
    OBVIOUS
  <2> HIDE DEF Missing
  <2> QED
    BY <1>1, <2>1, LeastNat
<1>3. m \in Nat /\ ~ \E f : IsTree(conj, disj, leaf, Low(m), f)
  OBVIOUS
<1>4. m # 0
  <2>1. Low(0) = {}
    BY RequirementsAssumption DEF Low
  <2>2. IsTree(conj, disj, leaf, {}, [r \in {} |-> r])
    BY DEF IsTree
  <2> QED
    BY <1>3, <2>1, <2>2
<1> DEFINE p == m - 1
<1>5. p \in Nat /\ p < m /\ p + 1 = m
  BY <1>3, <1>4
<1>6. p \notin Missing
  <2> HIDE DEF Missing, p
  <2> QED
    BY <1>2, <1>3, <1>5
<1>7. PICK f : IsTree(conj, disj, leaf, Low(p), f)
  BY <1>5, <1>6
<1> HIDE DEF p
<1> DEFINE g == [r \in Low(m) |-> TreeStep(conj, disj, leaf, f, r)]
<1>8. f = [r \in Low(p) |-> TreeStep(conj, disj, leaf, f, r)] /\ DOMAIN f = Low(p)
  BY <1>7 DEF IsTree
<1>9. ASSUME NEW r \in Low(p) PROVE r \in Low(m) /\ g[r] = f[r]
  <2>1. r \in Low(m)
    BY <1>3, <1>5, RequirementsAssumption DEF Low
  <2> QED
    BY <1>8, <2>1
<1>10. ASSUME NEW r \in Low(m)
       PROVE  TreeStep(conj, disj, leaf, f, r) = TreeStep(conj, disj, leaf, g, r)
  <2>1. r \in Requirements /\ Height[r] < m /\ Height[r] \in Nat
    BY RequirementsAssumption DEF Low
  <2> HIDE DEF g
  <2>2. CASE r.op \in {"And", "Or"}
    <3>1. /\ r.left \in Requirements /\ Height[r.left] < Height[r]
          /\ r.right \in Requirements /\ Height[r.right] < Height[r]
          /\ Height[r.left] \in Nat /\ Height[r.right] \in Nat
      BY <2>1, <2>2, PartsAreLower, RequirementsAssumption
    <3>2. Height[r.left] < p /\ Height[r.right] < p
      BY <1>3, <1>5, <2>1, <3>1
    <3>3. r.left \in Low(p) /\ r.right \in Low(p)
      BY <3>1, <3>2 DEF Low
    <3> QED
      BY <1>9, <2>2, <3>3 DEF TreeStep
  <2>3. CASE r.op \notin {"And", "Or"}
    BY <2>3 DEF TreeStep
  <2> QED
    BY <2>2, <2>3
<1>11. IsTree(conj, disj, leaf, Low(m), g)
  BY <1>10 DEF IsTree
<1> QED
  BY <1>3, <1>11

\* and so of all requirements.
LEMMA TreesExist ==
  ASSUME NEW conj, NEW disj, NEW leaf
  PROVE  \E f : IsTree(conj, disj, leaf, Requirements, f)
<1> DEFINE low(k) == CHOOSE f : IsTree(conj, disj, leaf, Low(k), f)
           all == [r \in Requirements |-> low(Height[r] + 1)[r]]
<1>1. ASSUME NEW k \in Nat PROVE IsTree(conj, disj, leaf, Low(k), low(k))
  BY LowTreesExist
<1> HIDE DEF low
<1>2. ASSUME NEW r \in Requirements, NEW k \in Nat, Height[r] < k
      PROVE  all[r] = low(k)[r]
  <2>1. Height[r] \in Nat /\ Height[r] + 1 \in Nat /\ Height[r] < Height[r] + 1
    BY RequirementsAssumption
  <2> DEFINE j == Height[r] + 1
  <2>2. r \in Low(j) \cap Low(k)
    BY <1>2, <2>1 DEF Low
  <2>3. j \in Nat /\ all[r] = low(j)[r]
    BY <2>1
  <2> HIDE DEF j, all
  <2>4. IsTree(conj, disj, leaf, Low(j), low(j)) /\ IsTree(conj, disj, leaf, Low(k), low(k))
    BY <1>1, <2>3
  <2>5. low(j)[r] = low(k)[r]
    BY <2>2, <2>3, <2>4, TreesAgree
  <2> QED
    BY <2>3, <2>5
<1>3. ASSUME NEW r \in Requirements
      PROVE  all[r] = TreeStep(conj, disj, leaf, all, r)
  <2> DEFINE k == Height[r] + 1
  <2>1. k \in Nat /\ Height[r] < k /\ Height[r] \in Nat
    BY RequirementsAssumption
  <2> HIDE DEF k
  <2>2. r \in Low(k)
    BY <2>1 DEF Low
  <2>3. low(k) = [q \in Low(k) |-> TreeStep(conj, disj, leaf, low(k), q)]
    BY <1>1, <2>1 DEF IsTree
  <2>4. low(k)[r] = TreeStep(conj, disj, leaf, low(k), r)
    BY <2>2, <2>3
  <2> HIDE DEF all
  <2>5. all[r] = low(k)[r]
    BY <1>2, <2>1
  <2>6. CASE r.op \in {"And", "Or"}
    <3>1. /\ r.left \in Requirements /\ Height[r.left] < k
          /\ r.right \in Requirements /\ Height[r.right] < k
      <4>1. /\ r.left \in Requirements /\ Height[r.left] < Height[r]
            /\ r.right \in Requirements /\ Height[r.right] < Height[r]
            /\ Height[r.left] \in Nat /\ Height[r.right] \in Nat
        BY <2>6, PartsAreLower, RequirementsAssumption
      <4> QED
        BY <2>1, <4>1
    <3>2. all[r.left] = low(k)[r.left] /\ all[r.right] = low(k)[r.right]
      BY <1>2, <2>1, <3>1
    <3> QED
      BY <2>4, <2>5, <2>6, <3>2 DEF TreeStep
  <2>7. CASE r.op \notin {"And", "Or"}
    BY <2>4, <2>5, <2>7 DEF TreeStep
  <2> QED
    BY <2>6, <2>7
<1>4. IsTree(conj, disj, leaf, Requirements, all)
  <2>1. DOMAIN all = Requirements /\ all = [r \in Requirements |-> all[r]]
    OBVIOUS
  <2> HIDE DEF all
  <2> QED
    BY <1>3, <2>1 DEF IsTree
<1> QED
  BY <1>4

-----------------------------------------------------------------------------
(* The answers of check_requirement.                                        *)

Answers == {"True", "False", "Raised"}

CheckStep(evidences, f, r) ==
  IF r.op \in {"And", "Or"} THEN Joined(r.op, f[r.left], f[r.right])
  ELSE LeafAnswer(r, evidences)

IsChecked(evidences, f) == f = [r \in Requirements |-> CheckStep(evidences, f, r)]

LEMMA LeafAnswers ==
  ASSUME NEW evidences, NEW r
  PROVE  LeafAnswer(r, evidences) \in Answers
<1>1. Answer(Matches(r, evidences)) \in Answers
  BY DEF Answer, Answers
<1>2. Answer(\A d, e \in Range(evidences), f \in r.fields : SameIn(d.index, e.index, f)) \in Answers
  BY DEF Answer, Answers
<1> QED
  BY <1>1, <1>2 DEF LeafAnswer, Answers

\* A requirement is answered as the code's recursion says.
LEMMA CheckIsMade ==
  ASSUME NEW evidences
  PROVE  IsChecked(evidences, CheckRequirement(evidences))
<1> DEFINE conj == [x \in Answers \X Answers |-> AndThen(x[1], x[2])]
           disj == [x \in Answers \X Answers |-> OrElse(x[1], x[2])]
           leaf == [r \in Requirements |-> LeafAnswer(r, evidences)]
<1>1. PICK f : IsTree(conj, disj, leaf, Requirements, f)
  <2> HIDE DEF conj, disj, leaf
  <2> QED
    BY TreesExist
<1>2. ASSUME NEW a \in Answers, NEW b \in Answers
      PROVE  conj[<<a, b>>] = AndThen(a, b) /\ disj[<<a, b>>] = OrElse(a, b)
  OBVIOUS
<1>3. \A r \in Requirements : leaf[r] = LeafAnswer(r, evidences)
  OBVIOUS
<1> HIDE DEF conj, disj, leaf
<1>4. f = [r \in Requirements |-> TreeStep(conj, disj, leaf, f, r)]
  BY <1>1 DEF IsTree
<1> DEFINE Bad == {r \in Requirements : f[r] \notin Answers}
<1>5. Bad = {}
  <2>1. SUFFICES ASSUME Bad # {} PROVE FALSE
    OBVIOUS
  <2>2. PICK r \in Bad : \A q \in Requirements : Height[q] < Height[r] => q \notin Bad
    <3>1. Bad \in SUBSET Requirements
      OBVIOUS
    <3> HIDE DEF Bad
    <3> QED
      BY <2>1, <3>1, LowestRequirement
  <2>3. r \in Requirements /\ f[r] \notin Answers
    OBVIOUS
  <2>4. f[r] = TreeStep(conj, disj, leaf, f, r)
    BY <1>4, <2>3
  <2>5. CASE r.op \in {"And", "Or"}
    <3>1. f[r.left] \in Answers /\ f[r.right] \in Answers
      BY <2>2, <2>3, <2>5, PartsAreLower
    <3>2. f[r] \in {AndThen(f[r.left], f[r.right]), OrElse(f[r.left], f[r.right])}
      BY <1>2, <2>4, <2>5, <3>1 DEF TreeStep
    <3> QED
      BY <2>3, <3>1, <3>2 DEF AndThen, OrElse, Answers
  <2>6. CASE r.op \notin {"And", "Or"}
    <3>1. f[r] = LeafAnswer(r, evidences)
      BY <1>3, <2>3, <2>4, <2>6 DEF TreeStep
    <3> QED
      BY <2>3, <3>1, LeafAnswers
  <2> QED
    BY <2>5, <2>6
<1>6. ASSUME NEW r \in Requirements
      PROVE  TreeStep(conj, disj, leaf, f, r) = CheckStep(evidences, f, r)
  <2>1. CASE r.op \in {"And", "Or"}
    <3>1. f[r.left] \in Answers /\ f[r.right] \in Answers
      BY <1>5, <2>1, PartsAreLower
    <3>2. /\ conj[<<f[r.left], f[r.right]>>] = AndThen(f[r.left], f[r.right])
          /\ disj[<<f[r.left], f[r.right]>>] = OrElse(f[r.left], f[r.right])
      BY <1>2, <3>1
    <3> QED
      BY <2>1, <3>2 DEF TreeStep, CheckStep, Joined
  <2>2. CASE r.op \notin {"And", "Or"}
    <3>1. TreeStep(conj, disj, leaf, f, r) = LeafAnswer(r, evidences)
      BY <1>3, <2>2 DEF TreeStep
    <3> QED
      BY <2>2, <3>1 DEF CheckStep
  <2> QED
    BY <2>1, <2>2
<1>7. IsChecked(evidences, f)
  BY <1>4, <1>6 DEF IsChecked
<1>8. CheckRequirement(evidences) = CHOOSE g : IsChecked(evidences, g)
  BY DEF CheckRequirement, IsChecked, CheckStep
<1> QED
  BY <1>7, <1>8

MeaningStep(answer, identified, f, r) ==
  CASE r.op = "And" -> f[r.left] /\ f[r.right]
    [] r.op = "Or"  -> f[r.left] \/ f[r.right]
    [] r.op = "Identified" -> identified
    [] OTHER -> answer[r] = "True"

IsMeaning(answer, identified, f) ==
  f = [r \in Requirements |-> MeaningStep(answer, identified, f, r)]

\* So is the meaning of one.
LEMMA MeaningIsMade ==
  ASSUME NEW answer, NEW identified \in BOOLEAN
  PROVE  IsMeaning(answer, identified, Meaning(answer, identified))
<1> DEFINE conj == [x \in BOOLEAN \X BOOLEAN |-> x[1] /\ x[2]]
           disj == [x \in BOOLEAN \X BOOLEAN |-> x[1] \/ x[2]]
           leaf == [r \in Requirements |-> IF r.op = "Identified" THEN identified
                                           ELSE answer[r] = "True"]
<1>1. PICK f : IsTree(conj, disj, leaf, Requirements, f)
  <2> HIDE DEF conj, disj, leaf
  <2> QED
    BY TreesExist
<1>2. ASSUME NEW a \in BOOLEAN, NEW b \in BOOLEAN
      PROVE  conj[<<a, b>>] = (a /\ b) /\ disj[<<a, b>>] = (a \/ b)
  OBVIOUS
<1>3. \A r \in Requirements : leaf[r] = IF r.op = "Identified" THEN identified
                                        ELSE answer[r] = "True"
  OBVIOUS
<1>4. \A r \in Requirements : leaf[r] \in BOOLEAN
  OBVIOUS
<1> HIDE DEF conj, disj, leaf
<1>5. f = [r \in Requirements |-> TreeStep(conj, disj, leaf, f, r)]
  BY <1>1 DEF IsTree
<1> DEFINE Bad == {r \in Requirements : f[r] \notin BOOLEAN}
<1>6. Bad = {}
  <2>1. SUFFICES ASSUME Bad # {} PROVE FALSE
    OBVIOUS
  <2>2. PICK r \in Bad : \A q \in Requirements : Height[q] < Height[r] => q \notin Bad
    <3>1. Bad \in SUBSET Requirements
      OBVIOUS
    <3> HIDE DEF Bad
    <3> QED
      BY <2>1, <3>1, LowestRequirement
  <2>3. r \in Requirements /\ f[r] \notin BOOLEAN
    OBVIOUS
  <2>4. f[r] = TreeStep(conj, disj, leaf, f, r)
    BY <1>5, <2>3
  <2>5. CASE r.op \in {"And", "Or"}
    <3>1. f[r.left] \in BOOLEAN /\ f[r.right] \in BOOLEAN
      BY <2>2, <2>3, <2>5, PartsAreLower
    <3>2. /\ conj[<<f[r.left], f[r.right]>>] = (f[r.left] /\ f[r.right])
          /\ disj[<<f[r.left], f[r.right]>>] = (f[r.left] \/ f[r.right])
      BY <1>2, <3>1
    <3> QED
      BY <2>3, <2>4, <2>5, <3>1, <3>2 DEF TreeStep
  <2>6. CASE r.op \notin {"And", "Or"}
    BY <1>4, <2>3, <2>4, <2>6 DEF TreeStep
  <2> QED
    BY <2>5, <2>6
<1>7. ASSUME NEW r \in Requirements
      PROVE  TreeStep(conj, disj, leaf, f, r) = MeaningStep(answer, identified, f, r)
  <2>1. CASE r.op \in {"And", "Or"}
    <3>1. f[r.left] \in BOOLEAN /\ f[r.right] \in BOOLEAN
      BY <1>6, <2>1, PartsAreLower
    <3>2. /\ conj[<<f[r.left], f[r.right]>>] = (f[r.left] /\ f[r.right])
          /\ disj[<<f[r.left], f[r.right]>>] = (f[r.left] \/ f[r.right])
      BY <1>2, <3>1
    <3> QED
      BY <2>1, <3>2 DEF TreeStep, MeaningStep
  <2>2. CASE r.op \notin {"And", "Or"}
    <3>1. TreeStep(conj, disj, leaf, f, r) = leaf[r]
      BY <2>2 DEF TreeStep
    <3> QED
      BY <1>3, <2>2, <3>1 DEF MeaningStep
  <2> QED
    BY <2>1, <2>2
<1>8. IsMeaning(answer, identified, f)
  BY <1>5, <1>7 DEF IsMeaning
<1>9. Meaning(answer, identified) = CHOOSE g : IsMeaning(answer, identified, g)
  BY DEF Meaning, IsMeaning, MeaningStep
<1> QED
  BY <1>8, <1>9

\* What is answered is right of a requirement if it is of its parts.
LEMMA NothingGuessed ==
  ASSUME NEW evidences, NEW identified \in BOOLEAN, NEW r \in Requirements
  PROVE  LET answer == CheckRequirement(evidences)
             meaning == Meaning(answer, identified)
         IN  answer[r] # "Raised" => answer[r] = Answer(meaning[r])
<1> DEFINE answer == CheckRequirement(evidences)
           meaning == Meaning(answer, identified)
           Right(q) == /\ answer[q] \in Answers
                       /\ meaning[q] \in BOOLEAN
                       /\ answer[q] # "Raised" => answer[q] = Answer(meaning[q])
           Bad == {q \in Requirements : ~ Right(q)}
<1>1. answer = [q \in Requirements |-> CheckStep(evidences, answer, q)]
  BY CheckIsMade DEF IsChecked
<1>2. meaning = [q \in Requirements |-> MeaningStep(answer, identified, meaning, q)]
  <2> HIDE DEF answer
  <2> QED
    BY MeaningIsMade DEF IsMeaning
<1> HIDE DEF answer, meaning
<1>3. Bad = {}
  <2>1. SUFFICES ASSUME Bad # {} PROVE FALSE
    OBVIOUS
  <2>2. PICK q \in Bad : \A p \in Requirements : Height[p] < Height[q] => p \notin Bad
    <3>1. Bad \in SUBSET Requirements
      OBVIOUS
    <3> HIDE DEF Bad
    <3> QED
      BY <2>1, <3>1, LowestRequirement
  <2>3. q \in Requirements /\ ~ Right(q)
    OBVIOUS
  <2>4. /\ answer[q] = CheckStep(evidences, answer, q)
        /\ meaning[q] = MeaningStep(answer, identified, meaning, q)
    BY <1>1, <1>2, <2>3
  <2>5. CASE q.op \in {"And", "Or"}
    <3>1. Right(q.left) /\ Right(q.right)
      BY <2>2, <2>3, <2>5, PartsAreLower
    <3>2. answer[q] = Joined(q.op, answer[q.left], answer[q.right])
      BY <2>4, <2>5 DEF CheckStep
    <3>3. CASE q.op = "And"
      <4>1. answer[q] = AndThen(answer[q.left], answer[q.right])
        BY <3>2, <3>3 DEF Joined
      <4>2. meaning[q] = (meaning[q.left] /\ meaning[q.right])
        BY <2>4, <3>3 DEF MeaningStep
      <4> QED
        BY <2>3, <3>1, <4>1, <4>2 DEF AndThen, Answer, Answers
    <3>4. CASE q.op = "Or"
      <4>1. answer[q] = OrElse(answer[q.left], answer[q.right])
        BY <3>2, <3>4 DEF Joined
      <4>2. meaning[q] = (meaning[q.left] \/ meaning[q.right])
        BY <2>4, <3>4 DEF MeaningStep
      <4> QED
        BY <2>3, <3>1, <4>1, <4>2 DEF OrElse, Answer, Answers
    <3> QED
      BY <2>5, <3>3, <3>4
  <2>6. CASE q.op \notin {"And", "Or"}
    <3>1. answer[q] = LeafAnswer(q, evidences) /\ answer[q] \in Answers
      BY <2>4, <2>6, LeafAnswers DEF CheckStep
    <3>2. CASE q.op = "Identified"
      <4>1. answer[q] = "Raised"
        BY <3>1, <3>2 DEF LeafAnswer
      <4>2. meaning[q] = identified
        BY <2>4, <3>2 DEF MeaningStep
      <4> QED
        BY <2>3, <3>1, <4>1, <4>2
    <3>3. CASE q.op # "Identified"
      <4>1. meaning[q] = (answer[q] = "True")
        BY <2>4, <2>6, <3>3 DEF MeaningStep
      <4> QED
        BY <2>3, <3>1, <4>1 DEF Answer, Answers
    <3> QED
      BY <3>2, <3>3
  <2> QED
    BY <2>5, <2>6
<1>4. Right(r)
  BY <1>3
<1> QED
  BY <1>4 DEF answer, meaning

\* An answer given does not depend on what could not be checked.
THEOREM AnswersDoNotGuessAlways == BundleSpec => []AnswersDoNotGuess
<1>1. AnswersDoNotGuess
  <2>1. ASSUME NEW identified \in BOOLEAN, NEW r \in Requirements
        PROVE  CheckRequirement(bundle)[r] # "Raised" =>
                 CheckRequirement(bundle)[r]
                   = Answer(Meaning(CheckRequirement(bundle), identified)[r])
    BY NothingGuessed
  <2> QED
    BY <2>1 DEF AnswersDoNotGuess
<1> QED
  BY <1>1, PTL

-----------------------------------------------------------------------------
(* Conjunction: indices unify as equals do, so that comparing with the      *)
(* first one compares all.                                                  *)

BundleInv == bundle \in Seq(Items)

LEMMA BundleInductive == BundleSpec => []BundleInv
<1>1. BundleInit => BundleInv
  BY DEF BundleInit, BundleInv
<1>2. BundleInv /\ [BundleNext]_bundle => BundleInv'
  BY DEF BundleInv, BundleNext, Gather
<1> QED
  BY <1>1, <1>2, PTL DEF BundleSpec

LEMMA UnifiesMeans ==
  ASSUME NEW i, NEW j
  PROVE  Unifies(i, j) <=>
           /\ i.scope = j.scope
           /\ \A k \in DOMAIN SubjectFields :
                i.subject[SubjectFields[k]].key = j.subject[SubjectFields[k]].key
  BY DEF Unifies, Differences, SameArtifact

\* Nothing clashes with the first piece exactly if no two pieces clash.
LEMMA FirstSpeaksForAll ==
  ASSUME NEW evidences \in Seq(Items), evidences # <<>>
  PROVE  Clashes(evidences) = {} <=>
           \A d, e \in Range(evidences) : Unifies(d.index, e.index)
<1>1. /\ DOMAIN evidences = 1..Len(evidences) /\ Len(evidences) \in Nat
      /\ Len(evidences) > 0 /\ 1 \in DOMAIN evidences
  OBVIOUS
<1>2. ASSUME Clashes(evidences) = {}, NEW m \in DOMAIN evidences, NEW k \in DOMAIN evidences
      PROVE  Unifies(evidences[m].index, evidences[k].index)
  <2>1. Unifies(evidences[1].index, evidences[m].index)
    BY <1>2 DEF Clashes
  <2>2. Unifies(evidences[1].index, evidences[k].index)
    BY <1>2 DEF Clashes
  <2> QED
    BY <2>1, <2>2, UnifiesMeans
<1>3. ASSUME \A d, e \in Range(evidences) : Unifies(d.index, e.index)
      PROVE  Clashes(evidences) = {}
  BY <1>1, <1>3 DEF Clashes, Range
<1> QED
  BY <1>2, <1>3 DEF Range

LEMMA NothingAssumed ==
  ASSUME NEW evidences
  PROVE  Assumptions(evidences) = {} <=> \A e \in Range(evidences) : e.assumptions = {}
<1>1. ASSUME Assumptions(evidences) = {}, NEW e \in Range(evidences)
      PROVE  e.assumptions = {}
  <2>1. \A x : x \in e.assumptions => x \in Assumptions(evidences)
    BY DEF Assumptions
  <2> QED
    BY <1>1, <2>1
<1>2. ASSUME \A e \in Range(evidences) : e.assumptions = {}
      PROVE  Assumptions(evidences) = {}
  BY <1>2 DEF Assumptions
<1> QED
  BY <1>1, <1>2

\* What is concluded, case by case.
Supports(evidences) ==
  /\ Len(evidences) >= 2
  /\ \A d, e \in Range(evidences) : Unifies(d.index, e.index)
  /\ \A e \in Range(evidences) : e.assumptions = {}

LEMMA ConjoinConcludes ==
  ASSUME NEW evidences \in Seq(Items)
  PROVE  /\ Supports(evidences) =>
              Conjoin(evidences) =
                [kind |-> "Support", index |-> evidences[1].index,
                 provenance |-> Provenance(evidences),
                 requirement |-> [k \in DOMAIN evidences |-> Leaf(evidences[k])]]
         /\ ~ Supports(evidences) => Conjoin(evidences).kind # "Support"
<1>0. Len(evidences) \in Nat
  OBVIOUS
<1>1. CASE Len(evidences) < 2
  <2>1. Conjoin(evidences) = [kind |-> "TooFew"]
    BY <1>0, <1>1 DEF Conjoin
  <2>2. Conjoin(evidences).kind = "TooFew" /\ ~ Supports(evidences)
    BY <1>0, <1>1, <2>1 DEF Supports
  <2> QED
    BY <2>2
<1>2. CASE Len(evidences) >= 2 /\ Clashes(evidences) # {}
  <2>1. Conjoin(evidences).kind = "EvidenceTypeError"
    BY <1>0, <1>2 DEF Conjoin
  <2>2. evidences # <<>>
    BY <1>2
  <2>3. ~ Supports(evidences)
    BY <1>2, <2>2, FirstSpeaksForAll DEF Supports
  <2> QED
    BY <2>1, <2>3
<1>3. CASE Len(evidences) >= 2 /\ Clashes(evidences) = {}
  <2>1. evidences # <<>>
    BY <1>3
  <2>2. Supports(evidences) <=> Assumptions(evidences) = {}
    BY <1>3, <2>1, FirstSpeaksForAll, NothingAssumed DEF Supports
  <2>3. Conjoin(evidences) =
          IF Assumptions(evidences) # {}
          THEN [kind |-> "AssumptionCompatibilityUnknown",
                assumptions |-> Assumptions(evidences)]
          ELSE [kind |-> "Support", index |-> evidences[1].index,
                provenance |-> Provenance(evidences),
                requirement |-> [k \in DOMAIN evidences |-> Leaf(evidences[k])]]
    BY <1>0, <1>3 DEF Conjoin
  <2>4. CASE Supports(evidences)
    BY <2>2, <2>3, <2>4
  <2>5. CASE ~ Supports(evidences)
    <3>1. Conjoin(evidences) = [kind |-> "AssumptionCompatibilityUnknown",
                                assumptions |-> Assumptions(evidences)]
      BY <2>2, <2>3, <2>5
    <3> QED
      BY <2>5, <3>1
  <2> QED
    BY <2>4, <2>5
<1> QED
  BY <1>0, <1>1, <1>2, <1>3

\* Same pieces in another order.
Reordered(evidences, p) == [k \in DOMAIN evidences |-> evidences[p[k]]]

LEMMA ReorderedPieces ==
  ASSUME NEW evidences \in Seq(Items), NEW p \in Bijection(DOMAIN evidences, DOMAIN evidences)
  PROVE  /\ Reordered(evidences, p) \in Seq(Items)
         /\ Len(Reordered(evidences, p)) = Len(evidences)
         /\ DOMAIN Reordered(evidences, p) = DOMAIN evidences
         /\ Range(Reordered(evidences, p)) = Range(evidences)
<1>1. DOMAIN evidences = 1..Len(evidences) /\ Len(evidences) \in Nat
  OBVIOUS
<1>2. /\ p \in [DOMAIN evidences -> DOMAIN evidences]
      /\ \A m \in DOMAIN evidences : \E k \in DOMAIN evidences : p[k] = m
  BY DEF Bijection, Surjection
<1>3. Reordered(evidences, p) \in [1..Len(evidences) -> Items]
  BY <1>1, <1>2 DEF Reordered
<1>4. Reordered(evidences, p) \in Seq(Items) /\ Len(Reordered(evidences, p)) = Len(evidences)
  BY <1>1, <1>3
<1>5. Range(Reordered(evidences, p)) = Range(evidences)
  BY <1>2 DEF Reordered, Range
<1> QED
  BY <1>4, <1>5 DEF Reordered

LEMMA ReorderedSupports ==
  ASSUME NEW evidences \in Seq(Items), NEW p \in Bijection(DOMAIN evidences, DOMAIN evidences)
  PROVE  Supports(Reordered(evidences, p)) <=> Supports(evidences)
  BY ReorderedPieces DEF Supports

\* A bag does not see the order.
LEMMA BagOfReordered ==
  ASSUME NEW s, NEW D, DOMAIN s = D, IsFiniteSet(D), NEW p \in Bijection(D, D)
  PROVE  ToBag([k \in D |-> s[p[k]]]) = ToBag(s)
<1> DEFINE t == [k \in D |-> s[p[k]]]
<1>1. /\ p \in [D -> D]
      /\ \A m \in D : \E k \in D : p[k] = m
      /\ \A m, k \in D : p[m] = p[k] => m = k
  BY DEF Bijection, Surjection, Injection, IsInjective
<1>2. Range(t) = Range(s)
  BY <1>1 DEF Range
<1>3. ASSUME NEW x
      PROVE  Cardinality({k \in D : t[k] = x}) = Cardinality({k \in D : s[k] = x})
  <2> DEFINE A == {k \in D : t[k] = x}
             B == {k \in D : s[k] = x}
             g == [k \in A |-> p[k]]
  <2>1. IsFiniteSet(A)
    BY FS_Subset
  <2>2. g \in [A -> B]
    BY <1>1
  <2>3. \A m, k \in A : g[m] = g[k] => m = k
    BY <1>1
  <2>4. \A m \in B : \E k \in A : g[k] = m
    BY <1>1
  <2>5. DOMAIN g = A
    OBVIOUS
  <2> HIDE DEF A, B, g
  <2>6. g \in Bijection(A, B)
    BY <2>2, <2>3, <2>4, <2>5 DEF Bijection, Surjection, Injection, IsInjective
  <2>7. ExistsBijection(A, B)
    BY <2>6 DEF ExistsBijection
  <2>8. Cardinality(B) = Cardinality(A)
    BY <2>1, <2>7, FS_Bijection
  <2> QED
    BY <2>8 DEF A, B
<1>4. DOMAIN t = D
  OBVIOUS
<1>5. ToBag(t) = [x \in Range(s) |-> Cardinality({k \in D : t[k] = x})]
  <2> HIDE DEF t
  <2> QED
    BY <1>2, <1>4 DEF ToBag
<1>6. ToBag(s) = [x \in Range(s) |-> Cardinality({k \in D : s[k] = x})]
  BY DEF ToBag
<1> HIDE DEF t
<1>7. ToBag(t) = ToBag(s)
  BY <1>3, <1>5, <1>6
<1> QED
  BY <1>7 DEF t

Unifiable(evidences) == \A d, e \in Range(evidences) : Unifies(d.index, e.index)

LEMMA GistConcludes ==
  ASSUME NEW evidences \in Seq(Items)
  PROVE  /\ Len(evidences) < 2 => Gist(evidences) = <<"TooFew">>
         /\ Len(evidences) >= 2 /\ ~ Unifiable(evidences) =>
              Gist(evidences) = <<"EvidenceTypeError">>
         /\ Len(evidences) >= 2 /\ Unifiable(evidences) /\ Assumptions(evidences) # {} =>
              Gist(evidences) = <<"AssumptionCompatibilityUnknown", Assumptions(evidences)>>
         /\ Len(evidences) >= 2 /\ Unifiable(evidences) /\ Assumptions(evidences) = {} =>
              Gist(evidences) =
                <<"Support", Provenance(evidences),
                  ToBag([k \in DOMAIN evidences |-> Leaf(evidences[k])]),
                  evidences[1].index.scope,
                  [f \in Range(SubjectFields) |-> evidences[1].index.subject[f].key]>>
<1>0. Len(evidences) \in Nat
  OBVIOUS
<1>1. ASSUME Len(evidences) < 2 PROVE Gist(evidences) = <<"TooFew">>
  <2>1. Conjoin(evidences) = [kind |-> "TooFew"]
    BY <1>0, <1>1 DEF Conjoin
  <2>2. Conjoin(evidences).kind = "TooFew"
    BY <2>1
  <2> QED
    BY <2>2 DEF Gist
<1>2. ASSUME Len(evidences) >= 2, ~ Unifiable(evidences)
      PROVE  Gist(evidences) = <<"EvidenceTypeError">>
  <2>1. evidences # <<>>
    BY <1>2
  <2>2. Clashes(evidences) # {}
    BY <1>2, <2>1, FirstSpeaksForAll DEF Unifiable
  <2>3. Conjoin(evidences).kind = "EvidenceTypeError"
    BY <1>0, <1>2, <2>2 DEF Conjoin
  <2> QED
    BY <2>3 DEF Gist
<1>3. ASSUME Len(evidences) >= 2, Unifiable(evidences)
      PROVE  Clashes(evidences) = {}
  <2>1. evidences # <<>>
    BY <1>3
  <2> QED
    BY <1>3, <2>1, FirstSpeaksForAll DEF Unifiable
<1>4. ASSUME Len(evidences) >= 2, Unifiable(evidences), Assumptions(evidences) # {}
      PROVE  Gist(evidences)
               = <<"AssumptionCompatibilityUnknown", Assumptions(evidences)>>
  <2>1. Conjoin(evidences) = [kind |-> "AssumptionCompatibilityUnknown",
                              assumptions |-> Assumptions(evidences)]
    BY <1>0, <1>3, <1>4 DEF Conjoin
  <2>2. /\ Conjoin(evidences).kind = "AssumptionCompatibilityUnknown"
        /\ Conjoin(evidences).assumptions = Assumptions(evidences)
    BY <2>1
  <2> QED
    BY <2>2 DEF Gist
<1>5. ASSUME Len(evidences) >= 2, Unifiable(evidences), Assumptions(evidences) = {}
      PROVE  Gist(evidences) =
               <<"Support", Provenance(evidences),
                 ToBag([k \in DOMAIN evidences |-> Leaf(evidences[k])]),
                 evidences[1].index.scope,
                 [f \in Range(SubjectFields) |-> evidences[1].index.subject[f].key]>>
  <2> DEFINE c == Conjoin(evidences)
             leaves == [k \in DOMAIN evidences |-> Leaf(evidences[k])]
  <2>1. c = [kind |-> "Support", index |-> evidences[1].index,
             provenance |-> Provenance(evidences), requirement |-> leaves]
    BY <1>0, <1>3, <1>5 DEF Conjoin
  <2> HIDE DEF leaves, c
  <2>2. /\ c.kind = "Support" /\ c.index = evidences[1].index
        /\ c.provenance = Provenance(evidences) /\ c.requirement = leaves
    BY <2>1
  <2>3. Gist(evidences) =
          <<c.kind, c.provenance, ToBag(c.requirement), c.index.scope,
            [f \in Range(SubjectFields) |-> c.index.subject[f].key]>>
    BY <2>2 DEF Gist, c
  <2> QED
    BY <2>2, <2>3 DEF leaves
<1> QED
  BY <1>1, <1>2, <1>4, <1>5

\* The order of the pieces does not change the gist.
LEMMA GistOfReordered ==
  ASSUME NEW evidences \in Seq(Items), NEW p \in Bijection(DOMAIN evidences, DOMAIN evidences)
  PROVE  Gist(Reordered(evidences, p)) = Gist(evidences)
<1> DEFINE other == Reordered(evidences, p)
<1>1. /\ other \in Seq(Items) /\ Len(other) = Len(evidences)
      /\ DOMAIN other = DOMAIN evidences /\ Range(other) = Range(evidences)
  BY ReorderedPieces
<1> DEFINE D == DOMAIN evidences
           leaves == [k \in D |-> Leaf(evidences[k])]
<1>2. [k \in DOMAIN other |-> Leaf(other[k])] = [k \in D |-> leaves[p[k]]]
  BY <1>1 DEF Reordered, Bijection, Injection
<1>3. IsFiniteSet(D) /\ DOMAIN leaves = D
  <2>1. D = 1..Len(evidences) /\ Len(evidences) \in Nat
    OBVIOUS
  <2> QED
    BY <2>1, FS_Interval
<1>4. ToBag([k \in D |-> leaves[p[k]]]) = ToBag(leaves)
  <2> HIDE DEF leaves
  <2> QED
    BY <1>3, BagOfReordered
<1>5. ToBag([k \in DOMAIN other |-> Leaf(other[k])]) = ToBag(leaves)
  <2> HIDE DEF leaves, other
  <2> QED
    BY <1>2, <1>4
<1> HIDE DEF other
<1>6. Provenance(other) = Provenance(evidences) /\ Assumptions(other) = Assumptions(evidences)
  BY <1>1 DEF Provenance, Assumptions
<1>7. Unifiable(other) <=> Unifiable(evidences)
  BY <1>1 DEF Unifiable
<1>8. ASSUME Len(evidences) >= 2, Unifiable(evidences)
      PROVE  /\ other[1].index.scope = evidences[1].index.scope
             /\ [f \in Range(SubjectFields) |-> other[1].index.subject[f].key]
                  = [f \in Range(SubjectFields) |-> evidences[1].index.subject[f].key]
  <2>1. 1 \in DOMAIN evidences /\ 1 \in DOMAIN other
    BY <1>1, <1>8
  <2>2. evidences[1] \in Range(evidences) /\ other[1] \in Range(evidences)
    BY <1>1, <2>1 DEF Range
  <2>3. Unifies(other[1].index, evidences[1].index)
    BY <1>8, <2>2 DEF Unifiable
  <2>4. /\ other[1].index.scope = evidences[1].index.scope
        /\ \A k \in DOMAIN SubjectFields :
             other[1].index.subject[SubjectFields[k]].key
               = evidences[1].index.subject[SubjectFields[k]].key
    BY <2>3, UnifiesMeans
  <2>5. \A f \in Range(SubjectFields) :
          other[1].index.subject[f].key = evidences[1].index.subject[f].key
    BY <2>4 DEF Range
  <2> QED
    BY <2>4, <2>5
<1>9. Len(evidences) \in Nat
  OBVIOUS
<1>10. CASE Len(evidences) < 2
  BY <1>1, <1>10, GistConcludes DEF other
<1>11. CASE Len(evidences) >= 2 /\ ~ Unifiable(evidences)
  <2>1. Gist(other) = <<"EvidenceTypeError">>
    BY <1>1, <1>7, <1>11, GistConcludes
  <2>2. Gist(evidences) = <<"EvidenceTypeError">>
    BY <1>11, GistConcludes
  <2> QED
    BY <2>1, <2>2 DEF other
<1>12. CASE Len(evidences) >= 2 /\ Unifiable(evidences) /\ Assumptions(evidences) # {}
  <2>1. Gist(other) = <<"AssumptionCompatibilityUnknown", Assumptions(evidences)>>
    BY <1>1, <1>6, <1>7, <1>12, GistConcludes
  <2>2. Gist(evidences) = <<"AssumptionCompatibilityUnknown", Assumptions(evidences)>>
    BY <1>12, GistConcludes
  <2> QED
    BY <2>1, <2>2 DEF other
<1>13. CASE Len(evidences) >= 2 /\ Unifiable(evidences) /\ Assumptions(evidences) = {}
  <2>1. Gist(other) =
          <<"Support", Provenance(other), ToBag([k \in DOMAIN other |-> Leaf(other[k])]),
            other[1].index.scope,
            [f \in Range(SubjectFields) |-> other[1].index.subject[f].key]>>
    BY <1>1, <1>6, <1>7, <1>13, GistConcludes
  <2>2. Gist(evidences) =
          <<"Support", Provenance(evidences),
            ToBag([k \in DOMAIN evidences |-> Leaf(evidences[k])]),
            evidences[1].index.scope,
            [f \in Range(SubjectFields) |-> evidences[1].index.subject[f].key]>>
    BY <1>13, GistConcludes
  <2> HIDE DEF leaves
  <2>3. ToBag([k \in DOMAIN evidences |-> Leaf(evidences[k])]) = ToBag(leaves)
    BY DEF leaves
  <2> QED
    BY <1>5, <1>6, <1>8, <1>13, <2>1, <2>2, <2>3 DEF other
<1> QED
  BY <1>9, <1>10, <1>11, <1>12, <1>13

-----------------------------------------------------------------------------
(* What a bundle is asked of itself.                                        *)

\* A leaf is answered by what it says.
LEMMA LeafIsAnswered ==
  ASSUME NEW evidences, NEW r \in Leaves
  PROVE  CheckRequirement(evidences)[r] = LeafAnswer(r, evidences)
<1>1. r \in Requirements /\ r.op \notin {"And", "Or"}
  BY RequirementsAssumption DEF Leaves, Same, Identified
<1> DEFINE f == CheckRequirement(evidences)
<1>2. f = [q \in Requirements |-> CheckStep(evidences, f, q)]
  BY CheckIsMade DEF IsChecked
<1> HIDE DEF f
<1>3. f[r] = CheckStep(evidences, f, r)
  BY <1>1, <1>2
<1> QED
  BY <1>1, <1>3 DEF CheckStep, f

\* SAME(subject, scope) says that all indices unify.
LEMMA SameIsUnifiable ==
  ASSUME NEW evidences
  PROVE  CheckRequirement(evidences)[Same({"subject", "scope"})] = "True"
           <=> Unifiable(evidences)
<1> DEFINE r == Same({"subject", "scope"})
<1>1. r \in Leaves /\ r.op = "Same" /\ r.fields = {"subject", "scope"}
  BY DEF Leaves, Same
<1> HIDE DEF r
<1>2. CheckRequirement(evidences)[r] =
        Answer(\A d, e \in Range(evidences), f \in r.fields : SameIn(d.index, e.index, f))
  BY <1>1, LeafIsAnswered DEF LeafAnswer
<1>3. (\A d, e \in Range(evidences), f \in r.fields : SameIn(d.index, e.index, f))
        <=> Unifiable(evidences)
  BY <1>1 DEF SameIn, Unifiable, Unifies
<1>4. CheckRequirement(evidences)[r] = "True" <=> Unifiable(evidences)
  BY <1>2, <1>3 DEF Answer
<1> QED
  BY <1>4 DEF r

\* A piece of the bundle supports its own leaf.
LEMMA LeafIsMet ==
  ASSUME NEW evidences \in Seq(Items), NEW k \in DOMAIN evidences
  PROVE  CheckRequirement(evidences)[Leaf(evidences[k])] = "True"
<1>1. evidences[k] \in Items /\ evidences[k] \in Range(evidences)
  BY DEF Range
<1> DEFINE r == Leaf(evidences[k])
<1>2. r \in Leaves /\ r.op = "Modality"
  BY <1>1, ItemsAssumption DEF Leaf, Leaves
<1>3. Matches(r, evidences)
  BY <1>1 DEF Matches
<1> HIDE DEF r
<1>4. CheckRequirement(evidences)[r] = Answer(Matches(r, evidences))
  BY <1>2, LeafIsAnswered DEF LeafAnswer
<1> QED
  BY <1>3, <1>4 DEF Answer, r

\* Support is concluded exactly when it is due, loses nothing and does not
\* depend on the order of the pieces.
THEOREM SupportIsEarnedAlways == BundleSpec => []SupportIsEarned
<1>1. ASSUME BundleInv PROVE SupportIsEarned
  <2> DEFINE c == Conjoin(bundle)
             answer == CheckRequirement(bundle)
             leaves == [k \in DOMAIN bundle |-> Leaf(bundle[k])]
  <2>1. bundle \in Seq(Items)
    BY <1>1 DEF BundleInv
  <2>2. /\ Supports(bundle) => c = [kind |-> "Support", index |-> bundle[1].index,
                                    provenance |-> Provenance(bundle), requirement |-> leaves]
        /\ ~ Supports(bundle) => c.kind # "Support"
    BY <2>1, ConjoinConcludes
  <2>3. answer[Same({"subject", "scope"})] = "True" <=> Unifiable(bundle)
    BY SameIsUnifiable
  <2>4. \A k \in DOMAIN bundle : answer[Leaf(bundle[k])] = "True"
    BY <2>1, LeafIsMet
  <2>5. \A p \in Bijection(DOMAIN bundle, DOMAIN bundle) :
          Gist([k \in DOMAIN bundle |-> bundle[p[k]]]) = Gist(bundle)
    BY <2>1, GistOfReordered DEF Reordered
  <2> HIDE DEF c, answer, leaves
  <2>6. c.kind = "Support" <=> Supports(bundle)
    BY <2>2
  <2>7. c.kind = "Support" <=>
          /\ Len(bundle) >= 2
          /\ answer[Same({"subject", "scope"})] = "True"
          /\ \A e \in Range(bundle) : e.assumptions = {}
    BY <2>3, <2>6 DEF Supports, Unifiable
  <2>8. ASSUME c.kind = "Support"
        PROVE  /\ \A leaf \in Range(c.requirement) : answer[leaf] = "True"
               /\ \A e \in Range(bundle) :
                    Leaf(e) \in Range(c.requirement) /\ e.provenance \subseteq c.provenance
    <3>1. c.requirement = leaves /\ c.provenance = Provenance(bundle)
      BY <2>2, <2>6, <2>8
    <3>2. \A leaf \in Range(leaves) : answer[leaf] = "True"
      BY <2>4 DEF Range, leaves
    <3>3. \A e \in Range(bundle) : Leaf(e) \in Range(leaves)
      BY DEF Range, leaves
    <3>4. \A e \in Range(bundle) : e.provenance \subseteq Provenance(bundle)
      BY DEF Provenance
    <3> QED
      BY <3>1, <3>2, <3>3, <3>4
  <2> QED
    BY <2>5, <2>7, <2>8 DEF SupportIsEarned, c, answer
<1> QED
  BY <1>1, BundleInductive, PTL

-----------------------------------------------------------------------------
(* Fusion: the roots and the intervals of the reports only grow, so two     *)
(* singletons with a report in common are one.                              *)

FusionInv == estimates \in Seq(Estimates)

LEMMA FusionInductive == FusionSpec => []FusionInv
<1>1. FusionInit => FusionInv
  BY DEF FusionInit, FusionInv
<1>2. FusionInv /\ [FusionNext]_estimates => FusionInv'
  BY DEF FusionInv, FusionNext, Report
<1> QED
  BY <1>1, <1>2, PTL DEF FusionSpec

Roots(reports) == {r.provenance_root : r \in Range(reports)}
Intervals(reports) == {r.interval : r \in Range(reports)}

LEMMA RootsFinite ==
  ASSUME NEW reports \in Seq(Estimates)
  PROVE  IsFiniteSet(Roots(reports)) /\ IsFiniteSet(Intervals(reports))
<1> DEFINE D == 1..Len(reports)
           roots == [i \in D |-> reports[i].provenance_root]
           intervals == [i \in D |-> reports[i].interval]
<1>1. DOMAIN reports = D /\ IsFiniteSet(D)
  <2>1. DOMAIN reports = D /\ Len(reports) \in Nat
    OBVIOUS
  <2> QED
    BY <2>1, FS_Interval
<1>2. roots \in Surjection(D, Roots(reports))
  BY <1>1 DEF Surjection, Roots, Range
<1>3. intervals \in Surjection(D, Intervals(reports))
  BY <1>1 DEF Surjection, Intervals, Range
<1> QED
  BY <1>1, <1>2, <1>3, FS_Surjection

\* What is fused has one root and one interval.
LEMMA FusedIsOne ==
  ASSUME NEW reports \in Seq(Estimates), reports # <<>>
  PROVE  /\ FuseDuplicates(reports).kind # "EmptyEstimateSet"
         /\ FuseDuplicates(reports).kind = "Fused" =>
              (\E x : Roots(reports) = {x}) /\ \E x : Intervals(reports) = {x}
         /\ \A x, y : Roots(reports) = {x} /\ Intervals(reports) = {y} =>
              FuseDuplicates(reports) =
                [kind |-> "Fused", effective_information_count |-> 1, fused_interval |-> y]
<1> DEFINE roots == Roots(reports)
           intervals == Intervals(reports)
<1>1. /\ IsFiniteSet(roots) /\ IsFiniteSet(intervals)
      /\ Cardinality(roots) \in Nat /\ Cardinality(intervals) \in Nat
  BY RootsFinite, FS_CardinalityType
<1>2. roots # {} /\ intervals # {}
  <2>1. 1 \in DOMAIN reports
    OBVIOUS
  <2>2. reports[1] \in Range(reports)
    BY <2>1 DEF Range
  <2> QED
    BY <2>2 DEF Roots, Intervals
<1>3. Cardinality(roots) # 0 /\ Cardinality(intervals) # 0
  BY <1>1, <1>2, FS_EmptySet
<1>4. FuseDuplicates(reports) =
        CASE reports = <<>>         -> [kind |-> "EmptyEstimateSet"]
          [] Cardinality(roots) > 1 -> [kind |-> "RootsDiffer"]
          [] Cardinality(roots) = 1 /\ Cardinality(intervals) > 1 ->
               [kind |-> "InconsistentDuplicateReports"]
          [] OTHER -> [kind |-> "Fused", effective_information_count |-> 1,
                       fused_interval |-> CHOOSE x \in intervals : TRUE]
  BY DEF FuseDuplicates, Roots, Intervals
<1> DEFINE outcome == FuseDuplicates(reports)
           fused(y) == [kind |-> "Fused", effective_information_count |-> 1,
                        fused_interval |-> y]
<1> HIDE DEF roots, intervals, outcome
<1>5. ASSUME NEW y PROVE fused(y).kind = "Fused"
  OBVIOUS
<1> HIDE DEF fused
<1>6. CASE Cardinality(roots) > 1
  <2>1. outcome = [kind |-> "RootsDiffer"]
    BY <1>1, <1>4, <1>6 DEF outcome
  <2>2. outcome.kind = "RootsDiffer"
    BY <2>1
  <2>3. ASSUME NEW x, roots = {x} PROVE FALSE
    <3>1. Cardinality(roots) = 1
      BY <2>3, FS_Singleton
    <3> QED
      BY <1>6, <3>1
  <2> QED
    BY <2>2, <2>3 DEF roots, intervals, outcome, fused
<1>7. CASE Cardinality(roots) = 1 /\ Cardinality(intervals) > 1
  <2>1. outcome = [kind |-> "InconsistentDuplicateReports"]
    BY <1>1, <1>4, <1>7 DEF outcome
  <2>2. outcome.kind = "InconsistentDuplicateReports"
    BY <2>1
  <2>3. ASSUME NEW x, intervals = {x} PROVE FALSE
    <3>1. Cardinality(intervals) = 1
      BY <2>3, FS_Singleton
    <3> QED
      BY <1>7, <3>1
  <2> QED
    BY <2>2, <2>3 DEF roots, intervals, outcome, fused
<1>8. CASE Cardinality(roots) = 1 /\ Cardinality(intervals) = 1
  <2>1. outcome = fused(CHOOSE x \in intervals : TRUE)
    BY <1>1, <1>4, <1>8 DEF outcome, fused
  <2>2. (\E x : roots = {x}) /\ \E x : intervals = {x}
    BY <1>1, <1>8, FS_Singleton
  <2>3. \A y : intervals = {y} => (CHOOSE x \in intervals : TRUE) = y
    OBVIOUS
  <2>4. outcome.kind = "Fused"
    BY <1>5, <2>1
  <2>5. \A y : intervals = {y} => outcome = fused(y)
    BY <2>1, <2>3
  <2> QED
    BY <2>2, <2>4, <2>5 DEF roots, intervals, outcome, fused
<1>9. \/ Cardinality(roots) > 1
      \/ Cardinality(roots) = 1 /\ Cardinality(intervals) > 1
      \/ Cardinality(roots) = 1 /\ Cardinality(intervals) = 1
  BY <1>1, <1>3
<1> QED
  BY <1>6, <1>7, <1>8, <1>9

\* Pairs taken once, the earlier report first, are all pairs.
OverlapOf(reports) ==
  IF \E r \in Range(reports) : r.episodes = {} THEN {}
  ELSE {x \in UNION {r.episodes : r \in Range(reports)} :
          \E i, j \in DOMAIN reports :
            i # j /\ x \in reports[i].episodes \cap reports[j].episodes}

LEMMA PairsOnce ==
  ASSUME NEW reports \in Seq(Estimates)
  PROVE  DetectOverlap(reports) = OverlapOf(reports)
<1>1. DOMAIN reports = 1..Len(reports) /\ Len(reports) \in Nat
  OBVIOUS
<1>2. (\E i \in DOMAIN reports : reports[i].episodes = {})
        <=> \E r \in Range(reports) : r.episodes = {}
  BY DEF Range
<1>3. CASE \E i \in DOMAIN reports : reports[i].episodes = {}
  BY <1>2, <1>3 DEF DetectOverlap, OverlapOf
<1>4. CASE ~ \E i \in DOMAIN reports : reports[i].episodes = {}
  <2> DEFINE shared == UNION {UNION {reports[i].episodes \cap reports[j].episodes :
                                       j \in (i + 1)..Len(reports)} : i \in DOMAIN reports}
             both == {x \in UNION {r.episodes : r \in Range(reports)} :
                        \E i, j \in DOMAIN reports :
                          i # j /\ x \in reports[i].episodes \cap reports[j].episodes}
  <2>1. ASSUME NEW x \in shared PROVE x \in both
    <3>1. PICK i \in DOMAIN reports :
            \E j \in (i + 1)..Len(reports) :
              x \in reports[i].episodes \cap reports[j].episodes
      OBVIOUS
    <3>2. PICK j \in (i + 1)..Len(reports) :
            x \in reports[i].episodes \cap reports[j].episodes
      BY <3>1
    <3>3. j \in DOMAIN reports /\ i # j
      BY <1>1
    <3>4. reports[i] \in Range(reports)
      BY DEF Range
    <3> QED
      BY <3>2, <3>3, <3>4
  <2>2. ASSUME NEW x \in both PROVE x \in shared
    <3>1. PICK i \in DOMAIN reports, j \in DOMAIN reports :
            i # j /\ x \in reports[i].episodes \cap reports[j].episodes
      OBVIOUS
    <3>2. CASE i < j
      <4>1. j \in (i + 1)..Len(reports)
        BY <1>1, <3>2
      <4>2. x \in UNION {reports[i].episodes \cap reports[k].episodes :
                           k \in (i + 1)..Len(reports)}
        BY <3>1, <4>1
      <4> QED
        BY <4>2
    <3>3. CASE j < i
      <4>1. i \in (j + 1)..Len(reports)
        BY <1>1, <3>3
      <4>2. x \in UNION {reports[j].episodes \cap reports[k].episodes :
                           k \in (j + 1)..Len(reports)}
        BY <3>1, <4>1
      <4> QED
        BY <4>2
    <3> QED
      BY <1>1, <3>1, <3>2, <3>3
  <2>3. shared = both
    BY <2>1, <2>2
  <2>4. DetectOverlap(reports) = shared
    BY <1>4 DEF DetectOverlap
  <2>5. OverlapOf(reports) = both
    BY <1>2, <1>4 DEF OverlapOf
  <2> QED
    BY <2>3, <2>4, <2>5
<1> QED
  BY <1>3, <1>4

\* Copies of a report are fused to what it says, or refused for good.
LEMMA OneMoreReport ==
  ASSUME NEW reports \in Seq(Estimates), reports # <<>>, NEW e \in Estimates,
         FuseDuplicates(Append(reports, e)).kind = "Fused"
  PROVE  FuseDuplicates(Append(reports, e)) = FuseDuplicates(reports)
<1> DEFINE more == Append(reports, e)
<1>1. more \in Seq(Estimates) /\ more # <<>>
  OBVIOUS
<1>2. /\ Roots(reports) \subseteq Roots(more)
      /\ Intervals(reports) \subseteq Intervals(more)
  <2>1. \A i \in DOMAIN reports : i \in DOMAIN more /\ more[i] = reports[i]
    OBVIOUS
  <2>2. Range(reports) \subseteq Range(more)
    BY <2>1 DEF Range
  <2> QED
    BY <2>2 DEF Roots, Intervals
<1>3. Roots(reports) # {} /\ Intervals(reports) # {}
  <2>1. 1 \in DOMAIN reports
    OBVIOUS
  <2>2. reports[1] \in Range(reports)
    BY <2>1 DEF Range
  <2> QED
    BY <2>2 DEF Roots, Intervals
<1> HIDE DEF more
<1>4. PICK x : Roots(more) = {x}
  BY <1>1, FusedIsOne DEF more
<1>5. PICK y : Intervals(more) = {y}
  BY <1>1, FusedIsOne DEF more
<1>6. Roots(reports) = {x} /\ Intervals(reports) = {y}
  BY <1>2, <1>3, <1>4, <1>5
<1>7. FuseDuplicates(more) =
        [kind |-> "Fused", effective_information_count |-> 1, fused_interval |-> y]
  BY <1>1, <1>4, <1>5, FusedIsOne
<1>8. FuseDuplicates(reports) =
        [kind |-> "Fused", effective_information_count |-> 1, fused_interval |-> y]
  BY <1>6, FusedIsOne
<1> QED
  BY <1>7, <1>8 DEF more

\* A report counts once however often it comes in, and without a declaration
\* every shared episode is named.
THEOREM ReportsAreCountedOnceAlways == FusionSpec => ReportsAreCountedOnce
<1> DEFINE CountedOnce ==
      LET before == Fuse(estimates, "Duplicate")
          after  == Fuse(estimates', "Duplicate")
      IN  /\ before.kind # "EmptyEstimateSet" => after = before \/ after.kind # "Fused"
          /\ Fuse(estimates', "Missing").detected_overlap = Overlap'
<1>1. ASSUME FusionInv, FusionNext PROVE CountedOnce
  <2>1. PICK e \in Estimates : estimates' = Append(estimates, e)
    BY <1>1 DEF FusionNext, Report
  <2>2. estimates \in Seq(Estimates) /\ estimates' \in Seq(Estimates)
    BY <1>1, <2>1 DEF FusionInv
  <2>3. /\ Fuse(estimates, "Duplicate") = FuseDuplicates(estimates)
        /\ Fuse(estimates', "Duplicate") = FuseDuplicates(estimates')
    BY DEF Fuse
  <2>4. ASSUME FuseDuplicates(estimates).kind # "EmptyEstimateSet",
               FuseDuplicates(estimates').kind = "Fused"
        PROVE  FuseDuplicates(estimates') = FuseDuplicates(estimates)
    <3>1. estimates # <<>>
      <4>1. SUFFICES ASSUME estimates = <<>>
                     PROVE  FuseDuplicates(estimates).kind = "EmptyEstimateSet"
        BY <2>4
      <4>2. Range(estimates) = {}
        BY <4>1 DEF Range
      <4>3. Cardinality(Roots(estimates)) = 0
        BY <4>2, FS_EmptySet DEF Roots
      <4>4. FuseDuplicates(estimates) = [kind |-> "EmptyEstimateSet"]
        BY <4>1, <4>3 DEF FuseDuplicates, Roots
      <4> QED
        BY <4>4
    <3> QED
      BY <2>1, <2>2, <2>4, <3>1, OneMoreReport
  <2>5. Fuse(estimates', "Missing").detected_overlap = DetectOverlap(estimates')
    BY DEF Fuse
  <2>6. DetectOverlap(estimates') = OverlapOf(estimates')
    BY <2>2, PairsOnce
  <2>7. Overlap' = OverlapOf(estimates')
    BY DEF Overlap, OverlapOf
  <2> QED
    BY <2>3, <2>4, <2>5, <2>6, <2>7
<1>2. FusionInv /\ [FusionNext]_estimates => [CountedOnce]_estimates
  BY <1>1
<1>3. FusionSpec => [][CountedOnce]_estimates
  BY <1>2, FusionInductive, PTL DEF FusionSpec
<1> QED
  BY <1>3 DEF ReportsAreCountedOnce

=============================================================================
