------------------------- MODULE ClauseChecksProofs -------------------------
(***************************************************************************)
(* Proofs about ClauseChecks, for every budget and every amount that may   *)
(* be spent.                                                               *)
(***************************************************************************)
EXTENDS ClauseChecks, TLAPS

-----------------------------------------------------------------------------
(* What is known, settled, spent and ended.                                 *)

TypeOK ==
  /\ known \in [Facts -> K3]
  /\ ledger \in {"incomplete", "definite_match", "definite_absence"}
  /\ metric \in {Unavailable} \cup 0..MaxMetric
  /\ ended \in {"No", "Actual", "Cut"}

\* Whatever is learned, settled or spent has its type.
THEOREM ClauseTypeCorrect == Spec => []TypeOK
<1>1. Init => TypeOK
  BY DEF Init, TypeOK, K3
<1>2. TypeOK /\ [Next]_vars => TypeOK'
  <2> SUFFICES ASSUME TypeOK, [Next]_vars PROVE TypeOK'
    OBVIOUS
  <2> USE DEF TypeOK
  <2>1. ASSUME NEW fact \in Facts, NEW value \in K3, Learn(fact, value) PROVE TypeOK'
    BY <2>1 DEF Learn
  <2>2. ASSUME NEW status \in {"definite_match", "definite_absence"}, SettleQuery(status)
        PROVE TypeOK'
    BY <2>2 DEF SettleQuery
  <2>3. ASSUME NEW value \in 0..MaxMetric, Spend(value) PROVE TypeOK'
    BY <2>3 DEF Spend
  <2>4. ASSUME NEW how \in {"Actual", "Cut"}, End(how) PROVE TypeOK'
    BY <2>4 DEF End
  <2>5. CASE UNCHANGED vars
    BY <2>5 DEF vars
  <2> QED
    BY <2>1, <2>2, <2>3, <2>4, <2>5 DEF Next
<1> QED
  BY <1>1, <1>2, PTL DEF Spec

-----------------------------------------------------------------------------
(* Worlds.                                                                  *)

\* The world in which what is not known comes out as f, e and s say agrees
\* with what is known.
LEMMA WorldFrom ==
  ASSUME TypeOK, NEW f \in [Facts -> {"T", "F"}], NEW e \in BOOLEAN, NEW s \in 0..MaxMetric,
         NEW v, v = [facts    |-> [x \in Facts |-> IF known[x] = "U" THEN f[x] ELSE known[x]],
                     evidence |-> IF ledger = "incomplete" THEN e ELSE ledger = "definite_match",
                     spent    |-> IF metric = Unavailable THEN s ELSE metric]
  PROVE  v \in Worlds
<1>1. v.facts \in [Facts -> {"T", "F"}]
  BY DEF TypeOK, K3
<1>2. v.evidence \in BOOLEAN
  OBVIOUS
<1>3. v.spent \in 0..MaxMetric
  BY DEF TypeOK
<1>4. v \in [facts : [Facts -> {"T", "F"}], evidence : BOOLEAN, spent : 0..MaxMetric]
  BY <1>1, <1>2, <1>3
<1>5. \A x \in Facts : Refines(known[x], v.facts[x])
  BY DEF Refines
<1> QED
  BY <1>4, <1>5 DEF Worlds

\* In every world a fact that is known is as it is known, and so are the
\* evidence and the metric.
LEMMA WorldAgrees ==
  ASSUME TypeOK, NEW v \in Worlds
  PROVE  /\ v.facts \in [Facts -> {"T", "F"}]
         /\ \A x \in Facts : known[x] # "U" => v.facts[x] = known[x]
         /\ ledger # "incomplete" => v.evidence = (ledger = "definite_match")
         /\ v.evidence \in BOOLEAN
         /\ metric # Unavailable => v.spent = metric
         /\ v.spent \in 0..MaxMetric
BY DEF Worlds, Refines

-----------------------------------------------------------------------------
(* Exactness.                                                               *)

Answers == {"Held", "Violation", "Pending"}

\* A world that, where it is free, has as few violations of the clauses that
\* name the authority as it can, and one that has as many as it can.
LEMMA ExtremeWorlds ==
  ASSUME TypeOK
  PROVE  /\ \E v \in Worlds :
              /\ \A x \in Facts : known[x] = "U" => v.facts[x] = IF x = "A" THEN "T" ELSE "F"
              /\ ledger = "incomplete" => v.evidence
              /\ metric = Unavailable => v.spent = 0
         /\ \E v \in Worlds :
              /\ \A x \in Facts : known[x] = "U" => v.facts[x] = IF x = "A" THEN "F" ELSE "T"
              /\ ledger = "incomplete" => ~ v.evidence
              /\ metric = Unavailable => v.spent = MaxMetric
<1> DEFINE World(f, e, s) ==
      [facts    |-> [x \in Facts |-> IF known[x] = "U" THEN f[x] ELSE known[x]],
       evidence |-> IF ledger = "incomplete" THEN e ELSE ledger = "definite_match",
       spent    |-> IF metric = Unavailable THEN s ELSE metric]
<1>1. \A f \in [Facts -> {"T", "F"}], e \in BOOLEAN, s \in 0..MaxMetric :
        World(f, e, s) \in Worlds
  BY WorldFrom
<1> DEFINE mild == [x \in Facts |-> IF x = "A" THEN "T" ELSE "F"]
           harsh == [x \in Facts |-> IF x = "A" THEN "F" ELSE "T"]
<1>2. mild \in [Facts -> {"T", "F"}] /\ harsh \in [Facts -> {"T", "F"}]
  OBVIOUS
<1>3. 0 \in 0..MaxMetric /\ MaxMetric \in 0..MaxMetric
  BY BudgetAssumption
<1>4. World(mild, TRUE, 0) \in Worlds /\ World(harsh, FALSE, MaxMetric) \in Worlds
  <2> HIDE DEF World, mild, harsh
  <2> QED
    BY <1>1, <1>2, <1>3
<1> QED
  BY <1>4

\* The three values a fact can have, and what the connectives make of them.
LEMMA Connectives ==
  ASSUME NEW a \in K3, NEW b \in K3
  PROVE  /\ KNot(a) \in K3 /\ KAnd(a, b) \in K3
         /\ KNot(a) = "T" <=> a = "F"
         /\ KNot(a) = "F" <=> a = "T"
         /\ KAnd(a, b) = "T" <=> a = "T" /\ b = "T"
         /\ KAnd(a, b) = "F" <=> a = "F" \/ b = "F"
BY DEF K3, KNot, KAnd, Conjoin

\* The verdict that forbid and flow share: violated exactly when the condition
\* is true, held exactly when it is false.
LEMMA VerdictValue ==
  ASSUME NEW theta \in K3
  PROVE  /\ Verdict(theta) \in Answers
         /\ Verdict(theta) = "Violation" <=> theta = "T"
         /\ Verdict(theta) = "Held" <=> theta = "F"
BY DEF Verdict, K3, Answers

\* What each check answers, read off what is known.
CheckReading ==
  /\ Check["always"] = "Violation" <=> known["P"] = "F"
  /\ Check["always"] = "Held" <=> known["P"] = "T"
  /\ Check["forbid"] = "Violation" <=> known["P"] = "T" /\ known["A"] = "F"
  /\ Check["forbid"] = "Held" <=> known["P"] = "F" \/ known["A"] = "T"
  /\ Check["flow"] = "Violation"
       <=> known["L"] = "T" /\ known["S"] = "T" /\ known["A"] = "F"
  /\ Check["flow"] = "Held"
       <=> known["L"] = "F" \/ known["S"] = "F" \/ known["A"] = "T"
  /\ Check["before"] = "Violation" <=> ledger = "definite_absence"
  /\ Check["before"] = "Held" <=> ledger = "definite_match"
  /\ Check["budget"] = "Violation" <=> metric # Unavailable /\ metric > BudgetBound
  /\ Check["budget"] = "Held" <=> metric # Unavailable /\ metric <= BudgetBound
  /\ \A clause \in Clauses : Check[clause] \in Answers

\* It is what the checks answer.
LEMMA CheckValues == TypeOK => CheckReading
<1> SUFFICES ASSUME TypeOK PROVE CheckReading
  OBVIOUS
<1>1. \A x \in Facts : known[x] \in K3
  BY DEF TypeOK
<1> DEFINE P == known["P"]  A == known["A"]  L == known["L"]  S == known["S"]
<1>2. P \in K3 /\ A \in K3 /\ L \in K3 /\ S \in K3
  BY <1>1 DEF Facts
<1>3. /\ Check["always"] = "Violation" <=> P = "F"
      /\ Check["always"] = "Held" <=> P = "T"
      /\ Check["always"] \in Answers
  BY <1>2 DEF Check, AlwaysCheck, K3, Answers
<1>4. /\ Check["forbid"] = "Violation" <=> P = "T" /\ A = "F"
      /\ Check["forbid"] = "Held" <=> P = "F" \/ A = "T"
      /\ Check["forbid"] \in Answers
  <2>1. Check["forbid"] = Verdict(KAnd(P, KNot(A)))
    BY DEF Check, ForbidCheck
  <2>2. KNot(A) \in K3 /\ (KNot(A) = "T" <=> A = "F") /\ (KNot(A) = "F" <=> A = "T")
    BY <1>2, Connectives
  <2>3. /\ KAnd(P, KNot(A)) \in K3
        /\ KAnd(P, KNot(A)) = "T" <=> P = "T" /\ KNot(A) = "T"
        /\ KAnd(P, KNot(A)) = "F" <=> P = "F" \/ KNot(A) = "F"
    BY <1>2, <2>2, Connectives
  <2> QED
    BY <2>1, <2>2, <2>3, VerdictValue
<1>5. /\ Check["flow"] = "Violation" <=> L = "T" /\ S = "T" /\ A = "F"
      /\ Check["flow"] = "Held" <=> L = "F" \/ S = "F" \/ A = "T"
      /\ Check["flow"] \in Answers
  <2>1. Check["flow"] = Verdict(KAnd(KAnd(L, S), KNot(A)))
    BY DEF Check, FlowCheck
  <2>2. KNot(A) \in K3 /\ (KNot(A) = "T" <=> A = "F") /\ (KNot(A) = "F" <=> A = "T")
    BY <1>2, Connectives
  <2>3. /\ KAnd(L, S) \in K3
        /\ KAnd(L, S) = "T" <=> L = "T" /\ S = "T"
        /\ KAnd(L, S) = "F" <=> L = "F" \/ S = "F"
    BY <1>2, Connectives
  <2> QED
    BY <2>1, <2>2, <2>3, Connectives, VerdictValue
<1>6. /\ Check["before"] = "Violation" <=> ledger = "definite_absence"
      /\ Check["before"] = "Held" <=> ledger = "definite_match"
      /\ Check["before"] \in Answers
  BY DEF TypeOK, Check, BeforeCheck, Answers
<1>7. /\ Check["budget"] = "Violation" <=> metric # Unavailable /\ metric > BudgetBound
      /\ Check["budget"] = "Held" <=> metric # Unavailable /\ metric <= BudgetBound
      /\ Check["budget"] \in Answers
  BY BudgetAssumption DEF TypeOK, Check, BudgetCheck, Answers, Unavailable
<1> QED
  BY <1>3, <1>4, <1>5, <1>6, <1>7 DEF Clauses, CheckReading

\* The same after a step.
LEMMA CheckValuesNext == TypeOK' => CheckReading'
BY CheckValues, PTL

\* A clause is known to be violated, or held, exactly when every world that
\* agrees with what is known says so.
LEMMA ExactClause ==
  ASSUME TypeOK, NEW clause \in Clauses
  PROVE  /\ Check[clause] = "Violation" <=> \A v \in Worlds : Violates(v, clause)
         /\ Check[clause] = "Held" <=> \A v \in Worlds : ~ Violates(v, clause)
<1>1. PICK mild \in Worlds :
        /\ \A x \in Facts : known[x] = "U" => mild.facts[x] = IF x = "A" THEN "T" ELSE "F"
        /\ ledger = "incomplete" => mild.evidence
        /\ metric = Unavailable => mild.spent = 0
  BY ExtremeWorlds
<1>2. PICK harsh \in Worlds :
        /\ \A x \in Facts : known[x] = "U" => harsh.facts[x] = IF x = "A" THEN "F" ELSE "T"
        /\ ledger = "incomplete" => ~ harsh.evidence
        /\ metric = Unavailable => harsh.spent = MaxMetric
  BY ExtremeWorlds
<1>3. \A v \in Worlds, x \in Facts :
        /\ v.facts[x] \in {"T", "F"}
        /\ known[x] # "U" => v.facts[x] = known[x]
  BY WorldAgrees
<1>4. /\ \A x \in Facts : known[x] \in {"T", "F", "U"}
      /\ "P" \in Facts /\ "A" \in Facts /\ "L" \in Facts /\ "S" \in Facts
  BY DEF TypeOK, K3, Facts
<1> DEFINE Exact(c) ==
      /\ Check[c] = "Violation" <=> \A v \in Worlds : Violates(v, c)
      /\ Check[c] = "Held" <=> \A v \in Worlds : ~ Violates(v, c)
<1>5. Exact("always")
  <2>1. \A v \in Worlds : Violates(v, "always") <=> v.facts["P"] # "T"
    BY DEF Violates
  <2> QED
    BY <1>1, <1>2, <1>3, <1>4, <2>1, CheckValues DEF CheckReading
<1>6. Exact("forbid")
  <2>1. \A v \in Worlds :
          Violates(v, "forbid") <=> v.facts["P"] = "T" /\ v.facts["A"] # "T"
    BY DEF Violates
  <2> QED
    BY <1>1, <1>2, <1>3, <1>4, <2>1, CheckValues DEF CheckReading
<1>7. Exact("flow")
  <2>1. \A v \in Worlds :
          Violates(v, "flow")
            <=> v.facts["L"] = "T" /\ v.facts["S"] = "T" /\ v.facts["A"] # "T"
    BY DEF Violates
  <2> QED
    BY <1>1, <1>2, <1>3, <1>4, <2>1, CheckValues DEF CheckReading
<1>8. Exact("before")
  <2>1. \A v \in Worlds : Violates(v, "before") <=> ~ v.evidence
    BY DEF Violates
  <2>2. \A v \in Worlds :
          v.evidence \in BOOLEAN
            /\ (ledger # "incomplete" => v.evidence = (ledger = "definite_match"))
    BY WorldAgrees
  <2>3. ledger \in {"incomplete", "definite_match", "definite_absence"}
    BY DEF TypeOK
  <2> QED
    BY <1>1, <1>2, <2>1, <2>2, <2>3, CheckValues DEF CheckReading
<1>9. Exact("budget")
  <2>1. \A v \in Worlds : Violates(v, "budget") <=> v.spent > BudgetBound
    BY DEF Violates
  <2>2. \A v \in Worlds :
          v.spent \in Nat /\ (metric # Unavailable => v.spent = metric)
    BY WorldAgrees, BudgetAssumption
  <2>3. metric # Unavailable => metric \in Nat
    BY BudgetAssumption DEF TypeOK
  <2>4. Check["budget"] = "Violation" <=> metric # Unavailable /\ metric > BudgetBound
    BY CheckValues DEF CheckReading
  <2>5. Check["budget"] = "Held" <=> metric # Unavailable /\ metric <= BudgetBound
    BY CheckValues DEF CheckReading
  <2> QED
    BY <1>1, <1>2, <2>1, <2>2, <2>3, <2>4, <2>5, BudgetAssumption
<1> QED
  BY <1>5, <1>6, <1>7, <1>8, <1>9 DEF Clauses

\* Each check of a single clause is exact in every run.
THEOREM ChecksExactAlways == Spec => []ChecksAreExact
<1>1. TypeOK => ChecksAreExact
  <2> SUFFICES ASSUME TypeOK, NEW clause \in Clauses
               PROVE  /\ Check[clause] = "Violation" <=> \A v \in Worlds : Violates(v, clause)
                      /\ Check[clause] = "Held" <=> \A v \in Worlds : ~ Violates(v, clause)
                      /\ LET at_end == AtEndCheck(known["P"], ended = "Actual") IN
                         clause = "always" =>
                           /\ at_end = "Satisfied" <=> ended = "Actual" /\ Check[clause] = "Held"
                           /\ at_end = "Violated"
                                <=> ended = "Actual" /\ Check[clause] = "Violation"
    BY DEF ChecksAreExact
  <2>1. /\ AtEndCheck(known["P"], ended = "Actual") = "Satisfied"
             <=> ended = "Actual" /\ known["P"] = "T"
        /\ AtEndCheck(known["P"], ended = "Actual") = "Violated"
             <=> ended = "Actual" /\ known["P"] = "F"
    <3>1. known["P"] \in {"T", "F", "U"}
      BY DEF TypeOK, K3, Facts
    <3> QED
      BY <3>1 DEF AtEndCheck
  <2> QED
    BY <2>1, ExactClause, CheckValues DEF CheckReading
<1> QED
  BY <1>1, ClauseTypeCorrect, PTL

-----------------------------------------------------------------------------
(* Conjunctions.                                                            *)

\* A conjunction of two answers is violated exactly when one of them is, and
\* held exactly when both are and the run has ended.
LEMMA ConjunctionValue ==
  ASSUME NEW l \in Answers, NEW r \in Answers, NEW end \in BOOLEAN
  PROVE  /\ ConjunctionCheck(l, r, end) \in Answers
         /\ ConjunctionCheck(l, r, end) = "Violation" <=> l = "Violation" \/ r = "Violation"
         /\ ConjunctionCheck(l, r, end) = "Held" <=> end /\ l = "Held" /\ r = "Held"
BY DEF ConjunctionCheck, Answers

\* What a contract answers, read off the answers of its clauses.
ContractReading ==
  \A c, d, e \in Clauses :
    \A verdict \in {Contract(c, d, e), ContractRight(c, d, e)} :
      /\ verdict \in Answers
      /\ verdict = "Violation" <=> \E clause \in {c, d, e} : Check[clause] = "Violation"
      /\ verdict = "Held"
           <=> ended = "Actual" /\ \A clause \in {c, d, e} : Check[clause] = "Held"

\* It is what the contracts answer.
LEMMA ContractValue == TypeOK => ContractReading
<1> SUFFICES ASSUME TypeOK, NEW c \in Clauses, NEW d \in Clauses, NEW e \in Clauses,
                    NEW verdict \in {Contract(c, d, e), ContractRight(c, d, e)}
             PROVE  /\ verdict \in Answers
                    /\ verdict = "Violation"
                         <=> \E clause \in {c, d, e} : Check[clause] = "Violation"
                    /\ verdict = "Held"
                         <=> ended = "Actual" /\ \A clause \in {c, d, e} : Check[clause] = "Held"
  BY DEF ContractReading
<1>1. Check[c] \in Answers /\ Check[d] \in Answers /\ Check[e] \in Answers
  BY CheckValues DEF CheckReading
<1> DEFINE end == ended = "Actual"
<1>2. end \in BOOLEAN
  OBVIOUS
<1>3. verdict \in {ConjunctionCheck(ConjunctionCheck(Check[c], Check[d], end), Check[e], end),
                   ConjunctionCheck(Check[c], ConjunctionCheck(Check[d], Check[e], end), end)}
  BY DEF Contract, ContractRight
<1> HIDE DEF end
<1>4. /\ verdict \in Answers
      /\ verdict = "Violation" <=> "Violation" \in {Check[c], Check[d], Check[e]}
      /\ verdict = "Held" <=> end /\ Check[c] = "Held" /\ Check[d] = "Held" /\ Check[e] = "Held"
  <2> DEFINE And(a, b) == ConjunctionCheck(a, b, end)
  <2>1. \A a, b \in Answers :
          /\ And(a, b) \in Answers
          /\ And(a, b) = "Violation" <=> a = "Violation" \/ b = "Violation"
          /\ And(a, b) = "Held" <=> end /\ a = "Held" /\ b = "Held"
    BY <1>2, ConjunctionValue
  <2>2. \/ verdict = And(And(Check[c], Check[d]), Check[e])
        \/ verdict = And(Check[c], And(Check[d], Check[e]))
    BY <1>3
  <2> HIDE DEF And
  <2>3. And(Check[c], Check[d]) \in Answers /\ And(Check[d], Check[e]) \in Answers
    BY <1>1, <2>1
  <2> QED
    BY <1>1, <2>1, <2>2, <2>3
<1> QED
  BY <1>4 DEF end

\* The same after a step.
LEMMA ContractValueNext == TypeOK' => ContractReading'
BY ContractValue, PTL

\* What a conjunction says is so in every world, in every run.
THEOREM ConjunctionSoundAlways == Spec => []ConjunctionIsSound
<1>1. TypeOK => ConjunctionIsSound
  <2> SUFFICES ASSUME TypeOK, NEW c \in Clauses, NEW d \in Clauses, NEW e \in Clauses
               PROVE  LET verdict == Contract(c, d, e) IN
                      /\ verdict = "Violation" =>
                           \A v \in Worlds : \E clause \in {c, d, e} : Violates(v, clause)
                      /\ (\E clause \in {c, d, e} : Check[clause] = "Violation")
                           => verdict = "Violation"
                      /\ verdict = "Held" <=>
                           /\ ended = "Actual"
                           /\ \A v \in Worlds, clause \in {c, d, e} : ~ Violates(v, clause)
                      /\ verdict = Contract(d, c, e) /\ verdict = Contract(c, e, d)
                      /\ verdict = ContractRight(c, d, e)
    BY DEF ConjunctionIsSound
  <2> DEFINE verdict == Contract(c, d, e)
             Parts == {c, d, e}
  <2>1. /\ verdict \in Answers
        /\ verdict = "Violation" <=> \E clause \in Parts : Check[clause] = "Violation"
        /\ verdict = "Held" <=> ended = "Actual" /\ \A clause \in Parts : Check[clause] = "Held"
    BY ContractValue DEF ContractReading
  <2>2. ASSUME NEW other \in {Contract(d, c, e), Contract(c, e, d), ContractRight(c, d, e)}
        PROVE  /\ other \in Answers
               /\ other = "Violation" <=> \E clause \in Parts : Check[clause] = "Violation"
               /\ other = "Held"
                    <=> ended = "Actual" /\ \A clause \in Parts : Check[clause] = "Held"
    <3>1. CASE other = Contract(d, c, e)
      BY <3>1, ContractValue DEF ContractReading
    <3>2. CASE other = Contract(c, e, d)
      BY <3>2, ContractValue DEF ContractReading
    <3>3. CASE other = ContractRight(c, d, e)
      BY <3>3, ContractValue DEF ContractReading
    <3> QED
      BY <3>1, <3>2, <3>3
  <2>3. \A other \in {Contract(d, c, e), Contract(c, e, d), ContractRight(c, d, e)} :
          verdict = other
    BY <2>1, <2>2 DEF Answers
  <2>4. \A clause \in Parts :
          /\ Check[clause] = "Violation" <=> \A v \in Worlds : Violates(v, clause)
          /\ Check[clause] = "Held" <=> \A v \in Worlds : ~ Violates(v, clause)
    BY ExactClause
  <2> HIDE DEF verdict, Parts
  <2>5. verdict = "Violation" =>
          \A v \in Worlds : \E clause \in Parts : Violates(v, clause)
    BY <2>1, <2>4
  <2>6. verdict = "Held" <=>
          ended = "Actual" /\ \A v \in Worlds, clause \in Parts : ~ Violates(v, clause)
    BY <2>1, <2>4
  <2> QED
    BY <2>1, <2>3, <2>5, <2>6 DEF verdict, Parts
<1> QED
  BY <1>1, ClauseTypeCorrect, PTL

-----------------------------------------------------------------------------
(* No answer is taken back.                                                 *)

\* In a step a known fact stays, a settled query stays, an exceeded budget stays
\* exceeded, and after the end nothing moves.
LEMMA OnlyMoreIsKnown ==
  ASSUME TypeOK, [Next]_vars
  PROVE  /\ \A x \in Facts : known[x] # "U" => known'[x] = known[x]
         /\ ledger # "incomplete" => ledger' = ledger
         /\ metric # Unavailable => metric' # Unavailable /\ metric' >= metric
         /\ ended # "No" => UNCHANGED vars
<1> USE DEF TypeOK
<1>1. metric # Unavailable => metric \in Nat
  BY BudgetAssumption
<1>2. ASSUME NEW fact \in Facts, NEW value \in K3, Learn(fact, value)
      PROVE  /\ \A x \in Facts : known[x] # "U" => known'[x] = known[x]
             /\ UNCHANGED <<ledger, metric>> /\ ended = "No"
  BY <1>2 DEF Learn, Refines
<1>3. ASSUME NEW status \in {"definite_match", "definite_absence"}, SettleQuery(status)
      PROVE  ledger = "incomplete" /\ UNCHANGED <<known, metric>> /\ ended = "No"
  BY <1>3 DEF SettleQuery
<1>4. ASSUME NEW value \in 0..MaxMetric, Spend(value)
      PROVE  /\ metric' > metric /\ metric' \in Nat
             /\ UNCHANGED <<known, ledger>> /\ ended = "No"
  BY <1>4, BudgetAssumption DEF Spend
<1>5. ASSUME NEW how \in {"Actual", "Cut"}, End(how)
      PROVE  UNCHANGED <<known, ledger, metric>> /\ ended = "No"
  BY <1>5 DEF End
<1>6. CASE UNCHANGED vars
  BY <1>1, <1>6 DEF vars
<1>7. CASE \E fact \in Facts, value \in K3 : Learn(fact, value)
  BY <1>1, <1>2, <1>7
<1>8. CASE \E status \in {"definite_match", "definite_absence"} : SettleQuery(status)
  BY <1>1, <1>3, <1>8
<1>9. CASE \E value \in 0..MaxMetric : Spend(value)
  BY <1>1, <1>4, <1>9 DEF Unavailable
<1>10. CASE \E how \in {"Actual", "Cut"} : End(how)
  BY <1>1, <1>5, <1>10
<1> QED
  BY <1>6, <1>7, <1>8, <1>9, <1>10 DEF Next

\* No answer but Pending, and no held budget, is ever taken back in a run.
THEOREM AnswersStandAlways == Spec => AnswersStand
<1>1. TypeOK /\ TypeOK' /\ [Next]_vars =>
        [/\ \A clause \in Clauses :
              Check[clause] \notin {"Pending"}
                                   \cup (IF clause = "budget" THEN {"Held"} ELSE {})
                => Check[clause]' = Check[clause]
         /\ \A c, d, e \in Clauses :
              Contract(c, d, e) # "Pending" => Contract(c, d, e)' = Contract(c, d, e)]_vars
  <2> SUFFICES ASSUME TypeOK, TypeOK', [Next]_vars
               PROVE  /\ \A clause \in Clauses :
                           Check[clause] \notin {"Pending"}
                                     \cup (IF clause = "budget" THEN {"Held"} ELSE {})
                             => Check[clause]' = Check[clause]
                      /\ \A c, d, e \in Clauses :
                           Contract(c, d, e) # "Pending"
                             => Contract(c, d, e)' = Contract(c, d, e)
    OBVIOUS
  <2>1. /\ \A x \in Facts : known[x] # "U" => known'[x] = known[x]
        /\ ledger # "incomplete" => ledger' = ledger
        /\ metric # Unavailable => metric' # Unavailable /\ metric' >= metric
        /\ ended # "No" => UNCHANGED vars
    BY OnlyMoreIsKnown
  <2>2. /\ metric # Unavailable => metric \in Nat
        /\ metric' # Unavailable => metric' \in Nat
    BY BudgetAssumption DEF TypeOK
  <2>3. /\ "P" \in Facts /\ "A" \in Facts /\ "L" \in Facts /\ "S" \in Facts
    BY DEF Facts
  <2>4. CheckReading /\ CheckReading'
    BY CheckValues, CheckValuesNext
  <2>5. \A clause \in Clauses :
          /\ Check[clause] = "Violation" => (Check')[clause] = "Violation"
          /\ Check[clause] = "Held" /\ clause # "budget" => (Check')[clause] = "Held"
    <3>1. /\ Check["always"] = "Violation" => (Check')["always"] = "Violation"
          /\ Check["always"] = "Held" => (Check')["always"] = "Held"
          /\ Check["forbid"] = "Violation" => (Check')["forbid"] = "Violation"
          /\ Check["forbid"] = "Held" => (Check')["forbid"] = "Held"
          /\ Check["flow"] = "Violation" => (Check')["flow"] = "Violation"
          /\ Check["flow"] = "Held" => (Check')["flow"] = "Held"
      BY <2>1, <2>3, <2>4 DEF CheckReading
    <3>2. /\ Check["before"] = "Violation" => (Check')["before"] = "Violation"
          /\ Check["before"] = "Held" => (Check')["before"] = "Held"
      BY <2>1, <2>4 DEF CheckReading
    <3>3. Check["budget"] = "Violation" => (Check')["budget"] = "Violation"
      BY <2>1, <2>2, <2>4, BudgetAssumption DEF CheckReading
    <3> QED
      BY <3>1, <3>2, <3>3 DEF Clauses
  <2>6. ContractReading /\ ContractReading'
    BY ContractValue, ContractValueNext
  <2>7. ASSUME NEW c \in Clauses, NEW d \in Clauses, NEW e \in Clauses,
               Contract(c, d, e) # "Pending"
        PROVE  Contract(c, d, e)' = Contract(c, d, e)
    <3>1. CASE ended # "No"
      BY <2>1, <3>1 DEF vars, Contract, Check
    <3>2. CASE ended = "No"
      <4>1. Contract(c, d, e) = "Violation"
        BY <2>6, <2>7, <3>2 DEF ContractReading, Answers
      <4>2. PICK clause \in {c, d, e} : Check[clause] = "Violation"
        BY <2>6, <4>1 DEF ContractReading
      <4>3. (Check')[clause] = "Violation"
        BY <2>5, <4>2
      <4>4. Contract(c, d, e)' = "Violation"
        BY <2>6, <4>2, <4>3 DEF ContractReading
      <4> QED
        BY <4>1, <4>4
    <3> QED
      BY <3>1, <3>2
  <2>8. ASSUME NEW clause \in Clauses,
               Check[clause] \notin {"Pending"}
                                    \cup (IF clause = "budget" THEN {"Held"} ELSE {})
        PROVE  Check[clause]' = Check[clause]
    <3>1. Check[clause] \in Answers
      BY <2>4 DEF CheckReading
    <3>2. Check[clause] = "Violation" \/ (Check[clause] = "Held" /\ clause # "budget")
      BY <2>8, <3>1 DEF Answers
    <3> QED
      BY <2>5, <3>2
  <2> QED
    BY <2>7, <2>8
<1> QED
  BY <1>1, ClauseTypeCorrect, PTL DEF Spec, AnswersStand

=============================================================================
