------------------------------- MODULE Floats -------------------------------
(***************************************************************************)
(* The floats Python computes with, in a binary format of Precision        *)
(* significant digits (Python's has 53), rounded to nearest, ties to even. *)
(* A float is counted in units of the smallest positive one, of which One  *)
(* make 1.0.  Like the hardware's, the format is exact at no scale: a      *)
(* product or a sum that needs more digits is rounded, close to one as     *)
(* well, and a product below the smallest float is lost.                   *)
(***************************************************************************)
EXTENDS Integers, Sequences, SequencesExt

CONSTANTS
  Precision,       \* significant binary digits
  One              \* 1.0, a power of two

ASSUME FormatAssumption ==
  /\ Precision \in Nat \ {0}
  /\ One \in Nat \ {0} /\ \E k \in 0..One : One = 2^k

\* The distance of neighbouring floats at the magnitude x, and just below 1.0.
\* An exact result x, of one operation on floats, is in units of 1 / One^2.
Spacing(x) ==
  LET Fits(e) == x < 2^(Precision + e) * One
  IN  2^(CHOOSE e \in 0..One : Fits(e) /\ (e = 0 \/ ~ Fits(e - 1)))

Ulp == Spacing(One * One - 1)

Magnitude(x) ==
  LET step == Spacing(x) * One
      rest == x % step
      up   == 2 * rest > step \/ (2 * rest = step /\ (x \div step) % 2 = 1)
  IN  Spacing(x) * (x \div step + IF up THEN 1 ELSE 0)

\* The float nearest to an exact result.
Nearest(x) ==
  CASE x > 0 -> Magnitude(x)
    [] x < 0 -> - Magnitude(- x)
    [] x = 0 -> 0

Times(a, b) == Nearest(a * b)
Plus(a, b)  == Nearest((a + b) * One)

-----------------------------------------------------------------------------
(* The built-in sum.  Python 3.11 adds from left to right; 3.12 and 3.13    *)
(* also add up what each addition loses to rounding, which is a float, and  *)
(* correct the total by it in the end (Neumaier's algorithm).               *)

Add(acc, x) ==
  LET total == Plus(acc.total, x)
  IN  [total |-> total, lost |-> Plus(acc.lost, acc.total + x - total)]

Sum(compensated, terms) ==
  LET acc == FoldLeft(Add, [total |-> 0, lost |-> 0], terms)
  IN  IF compensated THEN Plus(acc.total, acc.lost) ELSE acc.total

=============================================================================
