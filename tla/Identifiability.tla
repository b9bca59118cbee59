-------------------------- MODULE Identifiability ---------------------------
(***************************************************************************)
(* identifiability_gate and detected_claim of evidence.py: whether what a  *)
(* policy lets one observe tells two hypotheses apart, and what may be     *)
(* claimed of them then.  Probabilities are multiples of 1 / Whole, so the *)
(* arithmetic here is exact; that of the code is on floats.                *)
(***************************************************************************)
EXTENDS Integers, FiniteSets, FiniteSetsExt, Functions

CONSTANTS
  Outcomes,     \* what can be observed
  Whole         \* probability one, in the unit masses are counted in

ASSUME WholeAssumption == Whole \in Nat \ {0} /\ IsFiniteSet(Outcomes)

\* A mapping names some outcomes; its masses may be anything in range.
Mappings == UNION {[named -> 0..Whole] : named \in SUBSET Outcomes}

VARIABLES
  dist_h, dist_m,   \* the two distributions the caller hands over
  gate,             \* what the gate returned: "None" before
  claim             \* "None", "Detected" or "Rejected"

questions == <<dist_h, dist_m, gate, claim>>

Mass(dist, x) == IF x \in DOMAIN dist THEN dist[x] ELSE 0

Total(dist) == FoldFunction(+, 0, dist)

IsMassFunction(dist) == DOMAIN dist # {} /\ Total(dist) = Whole

Distance(a, b) == IF a > b THEN a - b ELSE b - a

\* Deviation: outcomes that only the second mapping names are left out.
TotalVariation_Left(p, q) ==
  MapThenSumSet(LAMBDA x : Distance(Mass(p, x), Mass(q, x)), DOMAIN p)

\* Twice the total variation, in units.
TotalVariation(p, q) ==
  MapThenSumSet(LAMBDA x : Distance(Mass(p, x), Mass(q, x)), DOMAIN p \cup DOMAIN q)

GateInit ==
  /\ dist_h = <<>> /\ dist_m = <<>>
  /\ gate = [kind |-> "None"] /\ claim = "None"

\* The Bayes error (1 - TV) / 2 is counted in quarter units.
IdentifiabilityGate(h, m) ==
  /\ gate.kind = "None"
  /\ dist_h' = h /\ dist_m' = m
  /\ gate' =
       IF ~ (IsMassFunction(h) /\ IsMassFunction(m)) THEN [kind |-> "ValueError"]
       ELSE IF TotalVariation(h, m) = 0 THEN [kind |-> "NonIdentifiable"]
       ELSE [kind |-> "BayesError", error |-> 2 * Whole - TotalVariation(h, m)]
  /\ UNCHANGED claim

DetectedClaim ==
  /\ gate.kind \notin {"None", "ValueError"}
  /\ claim = "None"
  /\ claim' = IF gate.kind = "BayesError" /\ gate.error \in 0..(2 * Whole - 1)
              THEN "Detected" ELSE "Rejected"
  /\ UNCHANGED <<dist_h, dist_m, gate>>

GateNext ==
  \/ \E h, m \in Mappings : IdentifiabilityGate(h, m)
  \/ DetectedClaim

GateSpec == GateInit /\ [][GateNext]_questions

-----------------------------------------------------------------------------
\* The rule that decides for the first hypothesis on the outcomes of `chosen`
\* errs, in units of two hypotheses: misses of one and false alarms of the other.
Errors(chosen) ==
  MapThenSumSet(LAMBDA x : IF x \in chosen THEN Mass(dist_m, x) ELSE Mass(dist_h, x),
                Outcomes)

\* The gate's figure is the error of the best rule there is for telling the
\* hypotheses apart from one observation, each taken to be as likely; and a
\* detection is claimed exactly when some rule does better than chance.
ErrorIsTheBestRules ==
  LET errors == {Errors(chosen) : chosen \in SUBSET Outcomes} IN
  /\ gate.kind = "BayesError" => gate.error = 2 * Min(errors)
  /\ claim # "None" => (claim = "Detected" <=> \E e \in errors : e < Whole)

=============================================================================
