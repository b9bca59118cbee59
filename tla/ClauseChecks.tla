---------------------------- MODULE ClauseChecks ----------------------------
(***************************************************************************)
(* The checks of contracts.py for every clause but the after clause:       *)
(*                                                                         *)
(*   always P,  forbid E when P unless A,  flow L -> S only_if A,          *)
(*   before E require Evidence,  budget M <= b,  at_end P                  *)
(*                                                                         *)
(* and conjunctions of the first five, evaluated as a run goes on.  Facts  *)
(* are refined in the information order observe() enforces, the query of   *)
(* the evidence ledger is settled at most once, a metric is unavailable    *)
(* at first and then only grows, until the run ends or observation of it   *)
(* is cut.  A check is a function of the moment; what matters is how its   *)
(* answers at different moments fit together.                              *)
(***************************************************************************)
EXTENDS Integers, Kleene

CONSTANTS
  BudgetBound,   \* b of the budget clause
  MaxMetric      \* the most the metric reaches (bounds the run)

ASSUME BudgetAssumption ==
  BudgetBound \in Nat /\ MaxMetric \in Nat /\ BudgetBound < MaxMetric

Unavailable == -1      \* Python's None, for a metric

Facts == {"P", "A", "L", "S"}

VARIABLES
  known,      \* fact -> K3 value
  ledger,     \* evidence_status of the before clause's query
  metric,     \* value of the budget clause's metric, or Unavailable
  ended       \* "No", "Actual" (an end of the run) or "Cut" (ObservationCut)

vars == <<known, ledger, metric, ended>>

-----------------------------------------------------------------------------
\* Deviation: what is not known to be violated is held.
Verdict_Lenient(theta) == IF theta = "T" THEN "Violation" ELSE "Held"

\* The rule forbid and flow share, over their violation condition.
Verdict(theta) ==
  CASE theta = "T" -> "Violation"
    [] theta = "F" -> "Held"
    [] OTHER       -> "Pending"

AlwaysCheck(p) ==
  CASE p = "T" -> "Held"
    [] p = "F" -> "Violation"
    [] OTHER   -> "Pending"

ForbidCheck(p, authority) == Verdict(KAnd(p, KNot(authority)))

FlowCheck(has_label, targets_sink, authority) ==
  Verdict(KAnd(KAnd(has_label, targets_sink), KNot(authority)))

BeforeCheck(evidence_status) ==
  CASE evidence_status = "definite_match"   -> "Held"
    [] evidence_status = "definite_absence" -> "Violation"
    [] evidence_status = "incomplete"       -> "Pending"

\* Deviation: a metric that is not available counts as nothing spent.
BudgetCheck_FromZero(value, bound) == IF value <= bound THEN "Held" ELSE "Violation"

BudgetCheck(value, bound) ==
  IF value = Unavailable THEN "Pending"
  ELSE IF value <= bound THEN "Held" ELSE "Violation"

AtEndCheck(p, is_actual_end) ==
  CASE is_actual_end /\ p = "T" -> "Satisfied"
    [] is_actual_end /\ p = "F" -> "Violated"
    [] OTHER                    -> "Unknown"

\* Deviation: a pending part hides a violated one.
ConjunctionCheck_PendingFirst(left, right, at_closing_boundary) ==
  IF "Pending" \in {left, right} THEN "Pending"
  ELSE IF "Violation" \in {left, right} THEN "Violation"
  ELSE IF at_closing_boundary THEN "Held" ELSE "Pending"

ConjunctionCheck(left, right, at_closing_boundary) ==
  IF "Violation" \in {left, right} THEN "Violation"
  ELSE IF at_closing_boundary /\ {left, right} = {"Held"} THEN "Held"
  ELSE "Pending"

-----------------------------------------------------------------------------
(* A run.                                                                   *)

Init ==
  /\ known = [f \in Facts |-> "U"]
  /\ ledger = "incomplete"
  /\ metric = Unavailable
  /\ ended = "No"

Learn(fact, value) ==
  /\ ended = "No"
  /\ Refines(known[fact], value)
  /\ known' = [known EXCEPT ![fact] = value]
  /\ UNCHANGED <<ledger, metric, ended>>

SettleQuery(status) ==
  /\ ended = "No"
  /\ ledger = "incomplete"
  /\ ledger' = status
  /\ UNCHANGED <<known, metric, ended>>

Spend(value) ==
  /\ ended = "No"
  /\ value > metric
  /\ metric' = value
  /\ UNCHANGED <<known, ledger, ended>>

End(how) ==
  /\ ended = "No"
  /\ ended' = how
  /\ UNCHANGED <<known, ledger, metric>>

Next ==
  \/ \E fact \in Facts, value \in K3 : Learn(fact, value)
  \/ \E status \in {"definite_match", "definite_absence"} : SettleQuery(status)
  \/ \E value \in 0..MaxMetric : Spend(value)
  \/ \E how \in {"Actual", "Cut"} : End(how)

Spec == Init /\ [][Next]_vars

-----------------------------------------------------------------------------
Clauses == {"always", "forbid", "flow", "before", "budget"}

Check ==
  [always |-> AlwaysCheck(known["P"]),
   forbid |-> ForbidCheck(known["P"], known["A"]),
   flow   |-> FlowCheck(known["L"], known["S"], known["A"]),
   before |-> BeforeCheck(ledger),
   budget |-> BudgetCheck(metric, BudgetBound)]

\* A conjunction of three clauses, nested either way.
Contract(c, d, e) ==
  ConjunctionCheck(ConjunctionCheck(Check[c], Check[d], ended = "Actual"),
                   Check[e], ended = "Actual")
ContractRight(c, d, e) ==
  ConjunctionCheck(Check[c], ConjunctionCheck(Check[d], Check[e], ended = "Actual"),
                   ended = "Actual")

\* The worlds that agree with what is known at a moment, and the clauses one
\* violates at that moment.
Worlds ==
  {v \in [facts : [Facts -> {"T", "F"}], evidence : BOOLEAN, spent : 0..MaxMetric] :
     /\ \A f \in Facts : Refines(known[f], v.facts[f])
     /\ ledger # "incomplete" => v.evidence = (ledger = "definite_match")
     /\ metric # Unavailable => v.spent = metric}

Violates(v, clause) ==
  LET holds(f) == v.facts[f] = "T"
  IN  CASE clause = "always" -> ~ holds("P")
        [] clause = "forbid" -> holds("P") /\ ~ holds("A")
        [] clause = "flow"   -> holds("L") /\ holds("S") /\ ~ holds("A")
        [] clause = "before" -> ~ v.evidence
        [] clause = "budget" -> v.spent > BudgetBound

\* Each check says as much as can be said: violated or held exactly when every
\* world that agrees with the facts says so, and pending only when they differ;
\* the verdict of at_end is given at an end of the run, never at a cut, and is
\* the one always would give there.
ChecksAreExact ==
  \A clause \in Clauses :
    /\ Check[clause] = "Violation" <=> \A v \in Worlds : Violates(v, clause)
    /\ Check[clause] = "Held" <=> \A v \in Worlds : ~ Violates(v, clause)
    /\ LET at_end == AtEndCheck(known["P"], ended = "Actual") IN
       clause = "always" =>
         /\ at_end = "Satisfied" <=> ended = "Actual" /\ Check[clause] = "Held"
         /\ at_end = "Violated" <=> ended = "Actual" /\ Check[clause] = "Violation"

\* A conjunction is violated only if every world violates one of its clauses
\* and as soon as one is known to be; it is held only at an end of the run and
\* if no world violates any; and it does not depend on order or nesting.
ConjunctionIsSound ==
  \A c, d, e \in Clauses :
    LET verdict == Contract(c, d, e) IN
    /\ verdict = "Violation" =>
         \A v \in Worlds : \E clause \in {c, d, e} : Violates(v, clause)
    /\ (\E clause \in {c, d, e} : Check[clause] = "Violation") => verdict = "Violation"
    /\ verdict = "Held" <=>
         /\ ended = "Actual"
         /\ \A v \in Worlds, clause \in {c, d, e} : ~ Violates(v, clause)
    /\ verdict = Contract(d, c, e) /\ verdict = Contract(c, e, d)
    /\ verdict = ContractRight(c, d, e)

\* No answer other than Pending is ever taken back as facts are learned and the
\* run ends: a violation that was reported stays one, and so does a clearance,
\* but for a budget that is held so far.  A contract is cleared only when nothing
\* can be spent any more.
AnswersStand ==
  [][/\ \A clause \in Clauses :
          Check[clause] \notin {"Pending"} \cup (IF clause = "budget" THEN {"Held"} ELSE {})
            => Check[clause]' = Check[clause]
     /\ \A c, d, e \in Clauses :
          Contract(c, d, e) # "Pending" => Contract(c, d, e)' = Contract(c, d, e)]_vars

=============================================================================
