----------------------------- MODULE Viability ------------------------------
(***************************************************************************)
(* The viability fixpoint of viability.py: from which states of a finite   *)
(* abstraction can an agent force the goal, staying safe, with actions     *)
(* that are enabled and permitted?  viability_fixpoint grows the winning   *)
(* set round by round, ranks each state by the round that added it and     *)
(* keeps the action that added it; Round is one turn of its while loop.    *)
(***************************************************************************)
EXTENDS Integers, FiniteSets

CONSTANTS
  States,      \* the abstract states
  Actions,     \* the action names
  Inputs       \* the calls made: records of type Call

None == -1     \* max_rounds not given

Call == [safe       : SUBSET States,
         goal       : SUBSET States,
         enabled    : [States -> SUBSET Actions],
         post       : [States \X Actions -> SUBSET States],
         permitted  : SUBSET (States \X Actions),
         max_rounds : Nat \cup {None}]

ASSUME InputsAssumption == Inputs \subseteq Call
ASSUME StatesAssumption == IsFiniteSet(States)

VARIABLES
  input,           \* the arguments of the call, fixed during it
  w,               \* the winning set so far
  rank,            \* winning state -> round that added it
  witness_action,  \* winning state added by a round -> the action that won it
  n,               \* the round counter
  result           \* "None" while looping, then "Fixpoint" or "Abstain"

vars == <<input, w, rank, witness_action, n, result>>

-----------------------------------------------------------------------------
\* Deviation: an action without any result counts as winning.
MustPost_Vacuous(z, a, X) == input.post[<<z, a>>] \subseteq X

\* MustPost(z, a, X): a can be taken with a result, and only results in X.
MustPost(z, a, X) ==
  input.post[<<z, a>>] # {} /\ input.post[<<z, a>>] \subseteq X

\* Only Allow permits; DenyUnknown, like a missing entry, does not.
Permit(z, a) == <<z, a>> \in input.permitted

Winners(z, X) ==
  {a \in input.enabled[z] : Permit(z, a) /\ MustPost(z, a, X)}

\* One application of the recurrence (f_operator).
F(X) ==
  (input.goal \cap input.safe) \cup {z \in input.safe : Winners(z, X) # {}}

\* Deviation: the default bound is too tight.
RoundBound_Tight ==
  IF input.max_rounds # None THEN input.max_rounds ELSE Cardinality(States) - 1

RoundBound ==
  IF input.max_rounds # None THEN input.max_rounds ELSE Cardinality(States) + 1

Init ==
  /\ input \in Inputs
  /\ w = input.goal \cap input.safe
  /\ rank = [z \in input.goal \cap input.safe |-> 0]
  /\ witness_action = [z \in {} |-> CHOOSE a \in Actions : TRUE]
  /\ n = 0
  /\ result = "None"

\* Deviation: safety of the added state is not looked at.
Added_Unsafe == {z \in States \ w : Winners(z, w) # {}}

Added == {z \in input.safe \ w : Winners(z, w) # {}}

\* The set of enabled actions is a frozenset: which winner is met first depends
\* on the hash order, so any may be chosen.
Round ==
  /\ result = "None"
  /\ n + 1 <= RoundBound
  /\ Added # {}
  /\ n' = n + 1
  /\ \E choice \in [Added -> Actions] :
       /\ \A z \in Added : choice[z] \in Winners(z, w)
       /\ witness_action' =
            [z \in DOMAIN witness_action \cup Added |->
               IF z \in Added THEN choice[z] ELSE witness_action[z]]
  /\ rank' = [z \in w \cup Added |-> IF z \in Added THEN n' ELSE rank[z]]
  /\ w' = w \cup Added
  /\ UNCHANGED <<input, result>>

Converge ==
  /\ result = "None"
  /\ n + 1 <= RoundBound
  /\ Added = {}
  /\ n' = n + 1
  /\ result' = "Fixpoint"
  /\ UNCHANGED <<input, w, rank, witness_action>>

\* Deviation: the bound is tested one round later than it is enforced.
GiveUp_Late ==
  /\ result = "None"
  /\ n > RoundBound
  /\ n' = n + 1
  /\ result' = "Abstain"
  /\ UNCHANGED <<input, w, rank, witness_action>>

GiveUp ==
  /\ result = "None"
  /\ n + 1 > RoundBound
  /\ n' = n + 1
  /\ result' = "Abstain"
  /\ UNCHANGED <<input, w, rank, witness_action>>

Next == Round \/ Converge \/ GiveUp

\* The loop runs to its end once called.
Spec == Init /\ [][Next]_vars /\ WF_vars(Next)

-----------------------------------------------------------------------------
(* classify_result, from the caller's attestation that the model has every  *)
(* action and every post-state.                                             *)

Classify(z, complete) ==
  IF z \in w THEN "WinningSure"
  ELSE IF complete THEN "LosingExact" ELSE "NoPlanInAbstraction"

-----------------------------------------------------------------------------
TypeOK ==
  /\ input \in Call
  /\ w \in SUBSET States
  /\ rank \in [w -> Nat]
  /\ n \in Nat
  /\ result \in {"None", "Fixpoint", "Abstain"}
  /\ DOMAIN witness_action \subseteq w
  /\ \A z \in DOMAIN witness_action : witness_action[z] \in Actions

\* The rank certificate, at every moment of the search and also in the receipt
\* of an abstention: every winning state is safe; rank 0 are the safe goals;
\* every other state has an enabled and permitted action, every result of
\* which is a winning state of lower rank.  Following witness_action therefore
\* reaches the goal in at most rank steps whatever the environment does.
RankCertificate ==
  \A z \in w :
    /\ z \in input.safe
    /\ rank[z] = 0 <=> z \in input.goal
    /\ rank[z] # 0 =>
         /\ z \in DOMAIN witness_action
         /\ witness_action[z] \in input.enabled[z]
         /\ <<z, witness_action[z]>> \in input.permitted
         /\ input.post[<<z, witness_action[z]>>] # {}
         /\ \A y \in input.post[<<z, witness_action[z]>>] :
              y \in w /\ rank[y] < rank[z]

\* Nothing is in the winning set that some set closed under the recurrence
\* excludes: the set never overshoots the least fixpoint.
NeverOvershoots == \A X \in SUBSET States : F(X) \subseteq X => w \subseteq X

\* A search that converges has the least fixpoint: outside it, every enabled
\* and permitted action may lead outside again (LosingExact is exact).
ConvergedIsFixpoint == result = "Fixpoint" => F(w) = w

\* The set the search returns is the least fixpoint, and nothing it shows before
\* lies outside it.
IsLeastFixpoint == NeverOvershoots /\ ConvergedIsFixpoint

\* Without a bound of the caller's the search never abstains: |States| + 1
\* rounds are enough, one of which finds nothing to add.
DefaultBoundSuffices == input.max_rounds = None => result # "Abstain"

\* The receipt counts right: an abstention completed exactly the rounds it was
\* allowed, and every round that was completed without converging added a
\* state, which it ranked with its own number.
RoundsAreCounted ==
  /\ result = "Abstain" => n = RoundBound + 1
  /\ \A z \in w : rank[z] <= n
  /\ \A k \in 1..(IF result = "None" THEN n ELSE n - 1) : \E z \in w : rank[z] = k

\* The round counter can be trusted: it stops the search neither too early nor
\* too late, and the ranks and the receipt agree with it.
RoundsReconcile == DefaultBoundSuffices /\ RoundsAreCounted

\* The search ends.
Terminates == <>(result # "None")

=============================================================================
