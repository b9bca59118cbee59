---------------------------- MODULE MCViability -----------------------------
(***************************************************************************)
(* The search alone and the search beside value iteration in one run: a    *)
(* behaviour of the first has no table of probabilities.                   *)
(***************************************************************************)
EXTENDS ValueIteration

Choosing == {"s", "t"}

(* The search alone: two states to win from and a goal, two actions each,   *)
(* every post-set; the second may be offered in s only, and is denied in t; *)
(* t may be unsafe, or a goal with a way out.                               *)

Enabled(offered) ==
  [z \in States |-> IF z \in Choosing THEN {"a"} \cup {b \in {"b"} : z \in offered} ELSE {}]

Post(p, offered) ==
  [za \in States \X Actions |->
     IF za[2] \in Enabled(offered)[za[1]] THEN p[za] ELSE {}]

MCSearched ==
  {[safe |-> safe, goal |-> goal,
    enabled |-> Enabled(offered),
    post |-> Post(p, offered),
    permitted |-> (States \X {"a"}) \cup (allowed \X {"b"}),
    max_rounds |-> max_rounds] :
     safe \in {States, States \ {"t"}},
     goal \in {{"g"}, {"g", "t"}},
     offered \in {{"s"}, Choosing},
     allowed \in {{"s"}},
     p \in [Choosing \X Actions -> SUBSET States],
     max_rounds \in {None, 0, 1}}

(* With value iteration: two offers, both in s or one in s and one in t,    *)
(* each with any post-set; or three offers with one or two results each.    *)
(* What is offered in s may be denied; t may be unsafe.                     *)

Offers(p) ==
  [safe : {States, States \ {"t"}},
   goal : {{"g"}},
   enabled : {[z \in States |-> {a \in Actions : p[<<z, a>>] # {}}]},
   post : {p},
   permitted : {States \X Actions, States \X {"a"}},
   max_rounds : {None}]

Posts(sa, sb, ta) ==
  {[za \in States \X Actions |->
      CASE za = <<"s", "a">> -> p[1]
        [] za = <<"s", "b">> -> p[2]
        [] za = <<"t", "a">> -> p[3]
        [] OTHER -> {}] : p \in sa \X sb \X ta}

Some == SUBSET States \ {{}}
Few  == {{"g"}, {"s", "g"}, {"t"}}

MCEstimated ==
  UNION {Offers(p) : p \in Posts(Some, Few, {{}})
                       \cup Posts(Some, {{}}, Some)
                       \cup Posts(Few, {{"g"}, {"s", "t"}}, Few)}

MCInputs == MCSearched \cup MCEstimated

NoTable == <<>>

MCInit ==
  \/ /\ input \in MCEstimated
     /\ VInit
  \/ /\ input \in MCSearched
     /\ Init
     /\ transition_prob = NoTable /\ compensated = FALSE /\ iterations = 0
     /\ values = [z \in States |-> IF Goal(z) THEN One ELSE 0]

MCNext ==
  \/ DOMAIN transition_prob # {} /\ VNext
  \/ transition_prob = NoTable /\ Next /\ UNCHANGED reachability

\* The fairness is that of the search.
MCSpec == MCInit /\ [][MCNext]_<<vars, reachability>> /\ WF_vars(Next)

=============================================================================
