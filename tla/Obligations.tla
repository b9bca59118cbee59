---------------------------- MODULE Obligations -----------------------------
(***************************************************************************)
(* The response-obligation lifecycle of obligations.py, as operators on    *)
(* the monitor's map of occurrences.                                       *)
(*                                                                         *)
(* An occurrence map is a function from aliases to occurrence records; the *)
(* alias "oN" is the number N.  A response token is named by its response  *)
(* tick: one event carries at most one token and accepted events have      *)
(* strictly increasing ticks, so the tick identifies the token object (and *)
(* the (tick, rid) token order is the order of ticks).  The clause         *)
(* identifier, the (always empty) substitution and the guard key are the   *)
(* same in every record of one monitor and are left out.                   *)
(***************************************************************************)
EXTENDS Integers, Kleene

NoTick == -1            \* Python's None, where a tick may be absent

OccurrenceStatus == {"ConditionalOpen", "ConditionalExpired", "Open",
                     "Discharged", "Inapplicable", "Breached", "Waived",
                     "UnknownFinal"}

Conditional == {"ConditionalOpen", "ConditionalExpired"}

BreachReasons == {"None", "UnmetAtExpiry", "RetroactiveActivationAfterDeadline",
                  "UnmetAtComplete", "AbortWithOpenObligation",
                  "ExternalInterruption", "TruncatedBeforeDeadline",
                  "ObservationTruncated", "GuardUnknownAtComplete",
                  "GuardUnknownAtAgentAbort", "GuardUnknownAtExternalCrash",
                  "GuardUnknownAtTimeout", "GuardUnknownAtObservationCut"}

Occurrence == [trigger_tick   : Nat,
               deadline       : Nat,
               status         : OccurrenceStatus,
               candidates     : SUBSET Nat,
               response       : Nat \cup {NoTick},
               breach_reason  : BreachReasons,
               effective_time : Nat \cup {NoTick},
               discovery_time : Nat \cup {NoTick}]

-----------------------------------------------------------------------------
(* The trigger-and-guard rule, and the two rules for an unresolved guard.   *)

NewOccurrence(trigger_tick, deadline, status) ==
  [trigger_tick |-> trigger_tick, deadline |-> deadline, status |-> status,
   candidates |-> {}, response |-> NoTick, breach_reason |-> "None",
   effective_time |-> NoTick, discovery_time |-> NoTick]

TriggerAndGuardRule(trigger_tick, deadline, guard) ==
  NewOccurrence(trigger_tick, deadline,
                CASE guard = "T" -> "Open"
                  [] guard = "F" -> "Inapplicable"
                  [] OTHER       -> "ConditionalOpen")

GuardBecomesFalse(o) == [o EXCEPT !.status = "Inapplicable"]

GuardRemainsUnknownAtDeadline(o) == [o EXCEPT !.status = "ConditionalExpired"]

Breach(o, reason, at) ==
  [o EXCEPT !.status = "Breached", !.breach_reason = reason,
            !.effective_time = o.deadline, !.discovery_time = at]

Discharge(o, token) == [o EXCEPT !.status = "Discharged", !.response = token]

-----------------------------------------------------------------------------
(* Canonical order: deadline, then trigger tick, then alias.                *)

\* Deviation: names alone order the duties.
Precedes_ByName(occs, i, j) == i < j

Precedes(occs, i, j) ==
  \/ occs[i].deadline < occs[j].deadline
  \/ /\ occs[i].deadline = occs[j].deadline
     /\ \/ occs[i].trigger_tick < occs[j].trigger_tick
        \/ occs[i].trigger_tick = occs[j].trigger_tick /\ i < j

\* Deviation: the latest duty is served first.
First_Latest(occs, S) == CHOOSE i \in S : \A j \in S \ {i} : Precedes(occs, j, i)

First(occs, S) == CHOOSE i \in S : \A j \in S \ {i} : Precedes(occs, i, j)

-----------------------------------------------------------------------------
(* One allocation pass over the occurrences `active`, whose guards became   *)
(* true together (guards_become_true).                                      *)

Recorded(occs, active, consumed) ==
  (UNION {occs[i].candidates : i \in active}) \ consumed

\* Deviation: a token at the deadline itself is taken to be late.
Takers_Strict(occs, active, alloc, token) ==
  {i \in active : /\ token \in occs[i].candidates
                  /\ token < occs[i].deadline
                  /\ ~ \E k \in {alloc[i]} \ {NoTick} : k < token}

\* The occurrences a token may still settle when its turn in the pass comes:
\* they hold it, it is in time for them, no earlier token was given to them.
Takers(occs, active, alloc, token) ==
  {i \in active : /\ token \in occs[i].candidates
                  /\ token <= occs[i].deadline
                  /\ ~ \E k \in {alloc[i]} \ {NoTick} : k < token}

\* alloc is the outcome of the pass: in token order, each token goes to the
\* first taker, and a token without taker to nobody.  (There is exactly one
\* such alloc: property AllocationIsThePass of module AllocationPass.)
IsAllocation(occs, active, tokens, alloc) ==
  \A k \in tokens :
    {i \in active : alloc[i] = k} =
      IF Takers(occs, active, alloc, k) = {}
      THEN {}
      ELSE {First(occs, Takers(occs, active, alloc, k))}

Allocations(occs, active, consumed) ==
  LET tokens == Recorded(occs, active, consumed)
  IN  {alloc \in [active -> tokens \cup {NoTick}] :
         IsAllocation(occs, active, tokens, alloc)}

\* Deviation: a late activation reopens the duty instead of breaching it.
Activate_Reopens(o, token, now) ==
  IF token # NoTick THEN Discharge(o, token) ELSE [o EXCEPT !.status = "Open"]

Activate(o, token, now) ==
  CASE token # NoTick    -> Discharge(o, token)
    [] token = NoTick /\ now <= o.deadline -> [o EXCEPT !.status = "Open"]
    [] OTHER -> Breach(o, "RetroactiveActivationAfterDeadline", now)

GuardsBecomeTrue(occs, alloc, now) ==
  [i \in DOMAIN occs |->
     IF i \in DOMAIN alloc THEN Activate(occs[i], alloc[i], now) ELSE occs[i]]

Used(alloc) == {alloc[i] : i \in DOMAIN alloc} \ {NoTick}

-----------------------------------------------------------------------------
(* Linear allocation of a new response token (register_response_token).     *)

\* Deviation: a response at the deadline itself is taken to be late.
Eligible_Strict(occs, token) ==
  {i \in DOMAIN occs : occs[i].status = "Open" /\ token < occs[i].deadline}

Eligible(occs, token) ==
  {i \in DOMAIN occs : occs[i].status = "Open" /\ token <= occs[i].deadline}

\* Deviation: one response settles every open duty.
RegisterResponseToken_Shared(occs, token) ==
  [i \in DOMAIN occs |->
     IF i \in Eligible(occs, token) THEN Discharge(occs[i], token) ELSE occs[i]]

RegisterResponseToken(occs, token) ==
  IF Eligible(occs, token) # {}
  THEN LET target == First(occs, Eligible(occs, token))
       IN  [occs EXCEPT ![target] = Discharge(@, token)]
  ELSE [i \in DOMAIN occs |->
          IF occs[i].status \in Conditional /\ token <= occs[i].deadline
          THEN [occs[i] EXCEPT !.candidates = @ \cup {token}]
          ELSE occs[i]]

=============================================================================
