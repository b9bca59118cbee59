--------------------------- MODULE ValueIteration ---------------------------
(***************************************************************************)
(* value_iteration_reachability of viability.py beside viability_fixpoint, *)
(* on one finite model: the probabilities of the first have as support the *)
(* post-sets of the second.  Both loops turn together, one update of the   *)
(* values for each round of the search, and the values go on alone when    *)
(* the search is over.                                                     *)
(*                                                                         *)
(* The values are floats and are rounded, product by product and sum by    *)
(* sum, and a row of probabilities need only sum to one within a           *)
(* tolerance.  So an estimate of one is no certainty, and one may even be  *)
(* exceeded: what the estimates still say of the search is stated below.   *)
(***************************************************************************)
EXTENDS Viability, Floats, FiniteSetsExt, Functions

CONSTANTS
  Probabilities,   \* the positive floats that rows are made of
  Tolerance,       \* _PROBABILITY_TOTAL_TOLERANCE, relative to One
  MaxIterations    \* bounds the `iterations` argument

ASSUME ProbabilitiesAssumption ==
  /\ Probabilities \subseteq {p \in 1..One : Times(p, One) = p}
  /\ Tolerance \in Nat /\ MaxIterations \in Nat

VARIABLES
  transition_prob, \* offered pair -> row
  compensated,     \* whether the interpreter's sum makes up for rounding
  values,          \* state -> estimate, a float
  iterations       \* executed_iterations

reachability == <<transition_prob, compensated, values, iterations>>

\* math.fsum and math.isclose: the exact sum, rounded once, is close to one.
IsNormalized(prob) ==
  LET mass == Nearest(SumFunction(prob) * One)
  IN  /\ (mass - One) * One <= Tolerance * Max({mass, One})
      /\ (One - mass) * One <= Tolerance * Max({mass, One})

\* A row is a dict, in the order of its insertions; what has the probability zero
\* adds nothing to any sum and is left out.
RowsOn(post) ==
  {[i \in DOMAIN order |-> [to |-> order[i], p |-> prob[order[i]]]] :
     order \in SetToSeqs(post),
     prob \in {f \in [post -> Probabilities] : IsNormalized(f)}}

Offered == {za \in States \X Actions : za[2] \in input.enabled[za[1]]}

\* Exactly the offered actions have a row, on what may come of them, and every row
\* is normalized; the code raises for any other table.
ValidTables ==
  {table \in [Offered -> UNION {RowsOn(input.post[za]) : za \in Offered}] :
     \A za \in Offered :
       {table[za][i].to : i \in DOMAIN table[za]} = input.post[za]}

-----------------------------------------------------------------------------
Goal(z) == z \in input.goal \cap input.safe

VInit ==
  /\ Init
  /\ transition_prob \in ValidTables
  /\ compensated \in BOOLEAN
  /\ iterations = 0
  /\ values = [z \in States |-> IF Goal(z) THEN One ELSE 0]

Expected(z, a) ==
  LET row == transition_prob[<<z, a>>]
  IN  Sum(compensated, [i \in DOMAIN row |-> Times(row[i].p, values[row[i].to])])

\* Deviation: unsafe states are passed through.
Updated_Unsafe(z) ==
  CASE Goal(z) -> One
    [] ~ Goal(z) /\ input.enabled[z] = {} -> 0
    [] OTHER -> Max({Expected(z, a) : a \in input.enabled[z]})

\* Deviation: some action is taken, not the best.
Updated_Any(z) ==
  CASE Goal(z) -> One
    [] ~ Goal(z) /\ (z \notin input.safe \/ input.enabled[z] = {}) -> 0
    [] OTHER -> Expected(z, CHOOSE a \in input.enabled[z] : TRUE)

Updated(z) ==
  CASE Goal(z) -> One
    [] ~ Goal(z) /\ (z \notin input.safe \/ input.enabled[z] = {}) -> 0
    [] OTHER -> Max({Expected(z, a) : a \in input.enabled[z]})

Iterate ==
  /\ iterations < MaxIterations
  /\ iterations' = iterations + 1
  /\ values' = [z \in States |-> Updated(z)]
  /\ UNCHANGED <<transition_prob, compensated>>

VNext ==
  \/ Next /\ Iterate
  \/ result # "None" /\ Iterate /\ UNCHANGED vars

VSpec == VInit /\ [][VNext]_<<vars, reachability>>

-----------------------------------------------------------------------------
(* What the estimates say in spite of rounding.                             *)

\* Where some offered action may lead into X, safely, or nothing is left to do.
MayReach(X) ==
  {z \in input.safe :
     Goal(z) \/ \E a \in input.enabled[z] : input.post[<<z, a>>] \cap X # {}}

\* Zero is exact: a state from which no choice of offered actions, and no luck,
\* leads to a safe goal through safe states keeps the estimate 0.0 in every
\* update, whichever way the sums are rounded.  (Those states are the ones
\* outside the least set that is closed under MayReach.)
ImpossibleIsZero ==
  \A X \in SUBSET States : MayReach(X) \subseteq X =>
    \A z \in States \ X : values[z] = 0

\* What one update may lose or gain: the tolerance on the mass of the row, and
\* half a unit in the last place for each product, each sum and the mass.
Slack == Tolerance + Cardinality(States) * Ulp

\* One is not exact, but errors do not pile up: a state the search has won is,
\* after as many updates as its rank and ever after, estimated at most its rank
\* times the slack below one, however often the others are updated meanwhile; and
\* no estimate, though none is clipped, is above one by more than the slack of the
\* updates done.
CertainIsNearOne ==
  /\ \A z \in w : iterations >= rank[z] => values[z] >= One - rank[z] * Slack
  /\ \A z \in States : values[z] <= One + iterations * Slack

=============================================================================
