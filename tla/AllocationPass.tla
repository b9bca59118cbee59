--------------------------- MODULE AllocationPass ---------------------------
(***************************************************************************)
(* The loop of guards_become_true, token by token, over any set of         *)
(* conditional occurrences it may be called with.  Obligations states what *)
(* the pass returns without the loop (IsAllocation); here the loop is run  *)
(* and its outcome compared.                                               *)
(***************************************************************************)
EXTENDS Obligations

CONSTANTS
  Aliases,       \* the occurrences the pass is given
  TokenTicks,    \* ticks of the recorded tokens
  Triggers,      \* trigger ticks
  Deadlines      \* deadlines

ASSUME PassAssumption ==
  /\ Aliases \in SUBSET Nat
  /\ TokenTicks \in SUBSET Nat
  /\ Triggers \in SUBSET Nat
  /\ Deadlines \in SUBSET Nat

VARIABLES
  ledger,        \* alias -> occurrence, all conditional
  spent,         \* tokens whose consumed flag was set before the pass
  remaining,     \* recorded tokens whose turn is still to come
  allocation     \* alias -> token received in this pass, or NoTick

vars == <<ledger, spent, remaining, allocation>>

Candidate(trigger_tick, deadline, tokens) ==
  [NewOccurrence(trigger_tick, deadline, "ConditionalOpen")
     EXCEPT !.candidates = tokens]

Init ==
  /\ ledger \in [Aliases -> {Candidate(t, d, c) : t \in Triggers, d \in Deadlines,
                                                  c \in SUBSET TokenTicks}]
  /\ spent \in {{}} \cup {{k} : k \in TokenTicks}
  /\ remaining = Recorded(ledger, Aliases, spent)
  /\ allocation = [i \in Aliases |-> NoTick]

\* Deviation: the deadline is not looked at.
Holders_AnyTime(token) ==
  {i \in Aliases : allocation[i] = NoTick /\ token \in ledger[i].candidates}

\* The occurrences the token's inner loop does not skip.
Holders(token) ==
  {i \in Aliases : /\ allocation[i] = NoTick
                   /\ token <= ledger[i].deadline
                   /\ token \in ledger[i].candidates}

Offer(token) ==
  /\ token \in remaining
  /\ \A k \in remaining : token <= k
  /\ allocation' = IF Holders(token) = {}
                   THEN allocation
                   ELSE [allocation EXCEPT ![First(ledger, Holders(token))] = token]
  /\ remaining' = remaining \ {token}
  /\ UNCHANGED <<ledger, spent>>

Next == \E token \in TokenTicks : Offer(token)

Spec == Init /\ [][Next]_vars

-----------------------------------------------------------------------------
\* When the loop ends, its allocation is the one IsAllocation describes, and
\* IsAllocation admits no other: the relation the monitor's step uses is a
\* function with the loop's values.
AllocationIsThePass ==
  remaining = {} => Allocations(ledger, Aliases, spent) = {allocation}

=============================================================================
