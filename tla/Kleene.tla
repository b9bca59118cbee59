------------------------------- MODULE Kleene -------------------------------
(***************************************************************************)
(* The strong-Kleene truth domain of kleene.py: the three values, the      *)
(* connectives, the two finite quantifiers and the information order that  *)
(* decides which epistemic updates a monitor accepts.                      *)
(***************************************************************************)

K3 == {"T", "F", "U"}

KNot(a) == IF a = "T" THEN "F" ELSE IF a = "F" THEN "T" ELSE "U"

\* The folds over a finite collection: the order of the values is immaterial,
\* and the empty conjunction is T, the empty disjunction F.
Conjoin(values) ==
  IF "F" \in values THEN "F" ELSE IF "U" \in values THEN "U" ELSE "T"

Disjoin(values) ==
  IF "T" \in values THEN "T" ELSE IF "U" \in values THEN "U" ELSE "F"

KAnd(a, b) == Conjoin({a, b})
KOr(a, b) == Disjoin({a, b})
KImplies(a, b) == KOr(KNot(a), b)

\* The information order: a value may stay, or leave U; never be retracted.
Refines(prior, updated) == prior = updated \/ prior = "U"

=============================================================================
