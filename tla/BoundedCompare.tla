--------------------------- MODULE BoundedCompare ---------------------------
(***************************************************************************)
(* bounded_compare of residual.py: two residuals are compared on every     *)
(* word over an alphabet up to a length, shortest first and within a       *)
(* length in the alphabet's product order, until they differ, the family   *)
(* is exhausted or the caller's word budget is.  The residuals are         *)
(* callbacks, called once a word and left then right; what they return is  *)
(* chosen when they are called, so they are any two functions on words.    *)
(*                                                                         *)
(* The result may then be offered to the proof firewall of firewall.py as  *)
(* evidence for a premise.                                                 *)
(***************************************************************************)
EXTENDS Integers, Sequences, FiniteSets

CONSTANTS
  Alphabet,    \* the labels, a sequence of distinct ones
  MaxLength,   \* bound.continuation_length
  Readings,    \* projected observations a residual may return
  Outside,     \* those of them that have no canonical encoding
  Budgets      \* max_words arguments tried: positive numbers, or None

None == 0      \* max_words not given

ASSUME AlphabetAssumption ==
  /\ Len(Alphabet) \in Nat
  /\ DOMAIN Alphabet = 1..Len(Alphabet)
  /\ \A i, j \in DOMAIN Alphabet : Alphabet[i] = Alphabet[j] => i = j

ASSUME MaxLengthAssumption == MaxLength \in Nat

\* Words are sequences of positions in the alphabet.
Words == UNION {[1..length -> DOMAIN Alphabet] : length \in 0..MaxLength}

VARIABLES
  left, right,       \* what the two residuals returned, by word called on
  max_words,         \* the caller's budget
  todo,              \* words of the family not yet enumerated
  words_enumerated,  \* count of the words compared
  result             \* [kind |-> ...]: "Searching" until the search returns

search == <<left, right, max_words, todo, words_enumerated, result>>

\* Position of a word in length-then-alphabet-product order.
Before(u, v) ==
  \/ Len(u) < Len(v)
  \/ /\ Len(u) = Len(v)
     /\ \E i \in DOMAIN u : /\ u[i] < v[i]
                            /\ \A j \in 1..(i - 1) : u[j] = v[j]

\* len(family): computed from the alphabet and the bound, not by counting.
Power[length \in 0..MaxLength] ==
  IF length = 0 THEN 1 ELSE Len(Alphabet) * Power[length - 1]

SumOfPowers[length \in 0..MaxLength] ==
  Power[length] + IF length = 0 THEN 0 ELSE SumOfPowers[length - 1]

FamilySize == SumOfPowers[MaxLength]

SearchInit ==
  /\ left = << >>
  /\ right = << >>
  /\ max_words \in Budgets
  /\ todo = Words
  /\ words_enumerated = 0
  /\ result = [kind |-> "Searching"]

OutOfBudget == max_words # None /\ words_enumerated = max_words

\* Deviation: the budget is tested even when no word is left.
Stop_WhenDone ==
  /\ result.kind = "Searching"
  /\ OutOfBudget
  /\ result' = [kind |-> "SearchIncomplete", searched |-> max_words,
                not_searched |-> FamilySize - max_words]
  /\ UNCHANGED <<left, right, max_words, todo, words_enumerated>>

\* Deviation: an exhausted budget is reported as an exhausted family.
Stop_AsExhausted ==
  /\ result.kind = "Searching"
  /\ todo # {}
  /\ OutOfBudget
  /\ result' = [kind |-> "NoWitnessWithinBound",
                words_enumerated |-> words_enumerated]
  /\ UNCHANGED <<left, right, max_words, todo, words_enumerated>>

\* The generator yields the next word; with the budget spent the search stops
\* there, before evaluating it.
Stop ==
  /\ result.kind = "Searching"
  /\ todo # {}
  /\ OutOfBudget
  /\ result' = [kind |-> "SearchIncomplete", searched |-> max_words,
                not_searched |-> FamilySize - max_words]
  /\ UNCHANGED <<left, right, max_words, todo, words_enumerated>>

\* What a residual has returned, with one more reading.
Put(f, word, r) ==
  [w \in DOMAIN f \cup {word} |-> IF w = word THEN r ELSE f[w]]

\* The next word, and what the residuals return on it.
Evaluate(word, l, r) ==
  /\ result.kind = "Searching"
  /\ ~ OutOfBudget
  /\ \A other \in todo \ {word} : Before(word, other)
  /\ left' = Put(left, word, l)
  /\ right' = Put(right, word, r)

\* Deviation: words are enumerated in no particular order.
Compare_Unordered(word, l, r) ==
  /\ result.kind = "Searching"
  /\ ~ OutOfBudget
  /\ left' = Put(left, word, l)
  /\ right' = Put(right, word, r)
  /\ {l, r} \cap Outside = {}
  /\ todo' = todo \ {word}
  /\ words_enumerated' = words_enumerated + 1
  /\ result' = IF l # r
               THEN [kind |-> "Distinguished", witness |-> word, left |-> l, right |-> r]
               ELSE result
  /\ UNCHANGED max_words

Compare(word, l, r) ==
  /\ Evaluate(word, l, r)
  /\ {l, r} \cap Outside = {}
  /\ todo' = todo \ {word}
  /\ words_enumerated' = words_enumerated + 1
  /\ result' = IF l # r
               THEN [kind |-> "Distinguished", witness |-> word, left |-> l, right |-> r]
               ELSE result
  /\ UNCHANGED max_words

\* A reading without an encoding: the search is abandoned without a result,
\* the left reading being encoded first.
Refuse(word, l, r) ==
  /\ Evaluate(word, l, r)
  /\ {l, r} \cap Outside # {}
  /\ result' = [kind |-> "InvalidComparisonRequest",
                side |-> IF l \in Outside THEN "left" ELSE "right"]
  /\ UNCHANGED <<max_words, todo, words_enumerated>>

\* The generator is exhausted: a budget that was just enough still completes.
Exhaust ==
  /\ result.kind = "Searching"
  /\ todo = {}
  /\ result' = [kind |-> "NoWitnessWithinBound",
                words_enumerated |-> words_enumerated]
  /\ UNCHANGED <<left, right, max_words, todo, words_enumerated>>

SearchNext ==
  \/ Stop
  \/ \E word \in todo, l, r \in Readings : Compare(word, l, r) \/ Refuse(word, l, r)
  \/ Exhaust

SearchSpec == SearchInit /\ [][SearchNext]_search

-----------------------------------------------------------------------------
(* The firewall: what a comparison result may discharge.                    *)

ComparisonResultKinds == {"Distinguished", "ProvedEquivalent",
                          "NoWitnessWithinBound", "SearchIncomplete", "Untested"}

DischargeableByNoWitness == {"SearchExecuted",
                             "NoCounterexampleFoundInEnumeratedSet",
                             "EmpiricalSearchStatistic"}

NeverDischargeableByNoWitness ==
  {"GlobalResidualEquivalence", "ProfileRelativeOperationalAdequacy",
   "RuleLevelKernelSoundness", "ForwardSimulation", "EventLabelSoundness",
   "EffectOverapproximation", "CompleteMediation", "InvariantClosure",
   "InvariantSafety", "AbsenceOfDeploymentModelMiss", "UniversalShieldSoundness"}

ProofPremiseCertificates ==
  NeverDischargeableByNoWitness \cup {"SimulationAndLabellingCertificate"}

KnownPremiseKinds ==
  ProofPremiseCertificates \cup DischargeableByNoWitness \cup {"TestStatus"}

DischargeablePairs ==
  ({"NoWitnessWithinBound"} \X DischargeableByNoWitness)
    \cup {<<"Untested", "TestStatus">>}

Typecheck(kind, premise) ==
  /\ kind \in ComparisonResultKinds
  /\ premise \in KnownPremiseKinds
  /\ <<kind, premise>> \in DischargeablePairs

\* discharge_no_witness, discharge_untested and discharge_search_incomplete: the
\* same table once more, one function a kind, that raise what they refuse.
Discharge(kind, proposition) ==
  \/ /\ kind = "NoWitnessWithinBound"
     /\ proposition \notin NeverDischargeableByNoWitness
     /\ proposition \in DischargeableByNoWitness
  \/ kind = "Untested" /\ proposition = "TestStatus"

-----------------------------------------------------------------------------
(* Properties.                                                              *)

Agree(word) ==
  /\ word \in DOMAIN left \cap DOMAIN right
  /\ left[word] = right[word]
  /\ left[word] \notin Outside

\* A witness really separates the two residuals and no earlier word of the
\* family does, so it is among the shortest and the same on every run.
WitnessIsFirst ==
  result.kind = "Distinguished" =>
    /\ ~ Agree(result.witness)
    /\ \A word \in Words : Before(word, result.witness) => Agree(word)

\* What a result lets through the firewall is true of the two residuals: that
\* no counterexample was found in the enumerated set is claimed only when the
\* residuals agree on the whole family, nothing a search can return discharges
\* that they agree on words outside it, and the functions that discharge a
\* result of one kind let through what the table does.
FirewallIsHonest ==
  /\ Typecheck(result.kind, "NoCounterexampleFoundInEnumeratedSet") =>
       \A word \in Words : Agree(word)
  /\ \A premise \in ProofPremiseCertificates : ~ Typecheck(result.kind, premise)
  /\ \A premise \in KnownPremiseKinds :
       Discharge(result.kind, premise) <=> Typecheck(result.kind, premise)

\* The counts add up to the family: an exhaustive receipt has enumerated
\* all of it, an incomplete one what it says and left a word unsearched.
CountsReconcile ==
  /\ words_enumerated + Cardinality(todo) = FamilySize
  /\ result.kind = "NoWitnessWithinBound" =>
       result.words_enumerated = FamilySize
  /\ result.kind = "SearchIncomplete" =>
       /\ result.searched = words_enumerated
       /\ result.not_searched = Cardinality(todo)
       /\ result.not_searched > 0
       /\ \A word \in Words \ todo : Agree(word)

=============================================================================
