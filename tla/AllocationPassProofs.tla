------------------------ MODULE AllocationPassProofs ------------------------
(***************************************************************************)
(* The token-by-token pass computes the one allocation that IsAllocation   *)
(* admits, for every set of duties, deadlines and recorded tokens.         *)
(***************************************************************************)
EXTENDS AllocationPass, ObligationsProofs

\* The tokens the pass has offered so far.
Tokens == Recorded(ledger, Aliases, spent)
Offered == Tokens \ remaining

\* What was offered was earlier than what is not, and is allocated already.
PassInv ==
  /\ ledger \in [Aliases -> Occurrence]
  /\ Tokens \in SUBSET Nat
  /\ remaining \in SUBSET Tokens
  /\ \A k \in Offered, later \in remaining : k < later
  /\ allocation \in [Aliases -> Offered \cup {NoTick}]
  /\ IsAllocation(ledger, Aliases, Offered, allocation)

-----------------------------------------------------------------------------
\* Before the pass nothing is offered and nothing allocated.
LEMMA PassInit == Init => PassInv
<1> SUFFICES ASSUME Init PROVE PassInv
  OBVIOUS
<1>1. ledger \in [Aliases -> Occurrence]
  <2>1. \A t \in Triggers, d \in Deadlines, c \in SUBSET TokenTicks :
          Candidate(t, d, c) \in Occurrence
    BY PassAssumption
       DEF Candidate, NewOccurrence, Occurrence, OccurrenceStatus, BreachReasons, NoTick
  <2> QED
    BY <2>1 DEF Init
<1>2. Tokens \in SUBSET Nat
  <2>1. \A i \in Aliases : ledger[i].candidates \in SUBSET Nat
    BY <1>1 DEF Occurrence
  <2> QED
    BY <2>1 DEF Tokens, Recorded
<1>3. remaining = Tokens /\ Offered = {}
  BY DEF Init, Tokens, Offered
<1> QED
  BY <1>1, <1>2, <1>3 DEF Init, PassInv, IsAllocation

\* A token that is offered goes to the first of its takers.
LEMMA PassStep == PassInv /\ [Next]_vars => PassInv'
<1> SUFFICES ASSUME PassInv, [Next]_vars PROVE PassInv'
  OBVIOUS
<1>1. CASE UNCHANGED vars
  BY <1>1 DEF vars, PassInv, Offered, Tokens
<1>2. CASE Next
  <2>1. PICK token \in TokenTicks : Offer(token)
    BY <1>2 DEF Next
  <2>2. /\ ledger' = ledger /\ Tokens' = Tokens
        /\ token \in remaining /\ remaining' = remaining \ {token}
        /\ \A k \in remaining : token <= k
    BY <2>1 DEF Offer, Tokens
  <2>3. /\ token \in Nat /\ token \in Tokens /\ NoTick \notin Nat
        /\ Offered \in SUBSET Nat /\ token \notin Offered
        /\ Offered' = Offered \cup {token}
        /\ \A k \in Offered : k < token
    BY <2>2 DEF PassInv, Offered, NoTick
  <2>4. /\ remaining' \in SUBSET Tokens
        /\ \A k \in Offered', later \in remaining' : k < later
    BY <2>2, <2>3 DEF PassInv
  <2>5. \A i \in Aliases : allocation[i] \in Offered \/ allocation[i] = NoTick
    BY DEF PassInv
  <2>6. Takers(ledger, Aliases, allocation, token) = Holders(token)
    BY <2>3, <2>5 DEF Takers, Holders
  <2>7. CASE Holders(token) = {}
    <3>1. allocation' = allocation
      BY <2>1, <2>7 DEF Offer
    <3>2. {i \in Aliases : allocation[i] = token} = {}
      BY <2>3, <2>5
    <3>3. IsAllocation(ledger, Aliases, Offered \cup {token}, allocation)
      BY <2>6, <2>7, <3>2 DEF IsAllocation, PassInv
    <3> QED
      BY <2>2, <2>3, <2>4, <3>1, <3>3 DEF PassInv
  <2>8. CASE Holders(token) # {}
    <3> DEFINE first == First(ledger, Holders(token))
               after == [allocation EXCEPT ![first] = token]
    <3>1. first \in Holders(token)
      <4>1. Holders(token) \in SUBSET Aliases
        BY DEF Holders
      <4> QED
        BY <2>8, <4>1, PassAssumption, FirstIsLeast DEF PassInv
    <3>2. first \in Aliases /\ allocation[first] = NoTick
      BY <3>1 DEF Holders
    <3>3. allocation' = after
      BY <2>1, <2>8 DEF Offer
    <3> HIDE DEF first
    <3>4. /\ after \in [Aliases -> Offered \cup {token} \cup {NoTick}]
          /\ after[first] = token
          /\ \A i \in Aliases \ {first} : after[i] = allocation[i]
      BY <3>2 DEF PassInv
    <3> HIDE DEF after
    <3>5. \A k \in Offered \cup {token} :
            Takers(ledger, Aliases, after, k) = Takers(ledger, Aliases, allocation, k)
      <4> SUFFICES ASSUME NEW k \in Offered \cup {token}
                   PROVE  Takers(ledger, Aliases, after, k)
                            = Takers(ledger, Aliases, allocation, k)
        OBVIOUS
      <4>1. k \in Nat /\ k <= token /\ ~ (token < k)
        BY <2>3
      <4>2. \A i \in Aliases : (after[i] # NoTick /\ after[i] < k)
                                 <=> (allocation[i] # NoTick /\ allocation[i] < k)
        BY <2>3, <3>2, <3>4, <4>1
      <4> QED
        BY <4>2 DEF Takers
    <3>6. {i \in Aliases : after[i] = token} = {first}
      BY <2>3, <2>5, <3>2, <3>4
    <3>7. \A k \in Offered :
            {i \in Aliases : after[i] = k} = {i \in Aliases : allocation[i] = k}
      BY <2>3, <3>2, <3>4
    <3>8. IsAllocation(ledger, Aliases, Offered \cup {token}, after)
      <4>1. ASSUME NEW k \in Offered
            PROVE  {i \in Aliases : after[i] = k} =
                     IF Takers(ledger, Aliases, after, k) = {}
                     THEN {} ELSE {First(ledger, Takers(ledger, Aliases, after, k))}
        BY <3>5, <3>7 DEF PassInv, IsAllocation
      <4>2. Takers(ledger, Aliases, after, token) = Holders(token)
        BY <2>6, <3>5
      <4>3. {i \in Aliases : after[i] = token} =
              IF Takers(ledger, Aliases, after, token) = {}
              THEN {} ELSE {First(ledger, Takers(ledger, Aliases, after, token))}
        BY <2>8, <3>6, <4>2 DEF first
      <4> QED
        BY <4>1, <4>3 DEF IsAllocation
    <3> QED
      BY <2>2, <2>3, <2>4, <3>3, <3>4, <3>8 DEF PassInv
  <2> QED
    BY <2>7, <2>8
<1> QED
  BY <1>1, <1>2

\* When the loop ends it has computed the allocation IsAllocation admits, and
\* there is no other.
THEOREM AllocationIsThePassAlways == Spec => []AllocationIsThePass
<1>1. PassInv => AllocationIsThePass
  <2> SUFFICES ASSUME PassInv, remaining = {}
               PROVE  Allocations(ledger, Aliases, spent) = {allocation}
    BY DEF AllocationIsThePass
  <2>1. Offered = Tokens
    BY DEF Offered
  <2>2. allocation \in Allocations(ledger, Aliases, spent)
    BY <2>1 DEF PassInv, Allocations, Tokens
  <2>3. \A other \in Allocations(ledger, Aliases, spent) : other = allocation
    BY <2>2, OneAllocation DEF PassInv, Tokens
  <2> QED
    BY <2>2, <2>3
<1> QED
  BY <1>1, PassInit, PassStep, PTL DEF Spec

=============================================================================
