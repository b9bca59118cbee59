-------------------------- MODULE BoundedResponse ---------------------------
(***************************************************************************)
(* What a monitor of one clause promises, without a ledger, an expiry or   *)
(* an allocation: the verdict is a function of the history.  The clause    *)
(*                                                                         *)
(*    after a trigger, when the guard holds, a response within Bound       *)
(*                                                                         *)
(* is judged by an oracle that looks at all triggers and responses at once *)
(* and may pair them in any way it likes, each response with at most one   *)
(* trigger.  A monitor that pairs them greedily, as they arrive or once    *)
(* its guard is known, and never revises a pairing, is right only if it    *)
(* never charges a breach the oracle could have avoided, and never clears  *)
(* a run the oracle could not.                                             *)
(***************************************************************************)
EXTENDS Integers, Kleene

CONSTANTS Bound, Ticks

VARIABLES
  now,        \* tick of the last event seen, -1 before the first
  triggers,   \* ticks of the trigger events
  responses,  \* ticks of the response events
  guard,      \* what is known of the guard
  ended,      \* "Running", or how the run ended
  horizon,    \* deadlines up to this tick are decided
  verdict     \* the published summary

vars == <<now, triggers, responses, guard, ended, horizon, verdict>>

Decided == {"Complete", "AgentAbort"}   \* ends that decide every open duty
Interrupted == {"ExternalCrash", "Timeout"}

Pairable(T, R) ==
  \E pair \in [T -> R] :
    /\ \A t \in T : pair[t] \in t..(t + Bound)
    /\ \A t, u \in T : pair[t] = pair[u] => t = u

Due == {t \in triggers : t + Bound <= horizon}

Verdict ==
  IF guard = "T" /\ ~ Pairable(Due, responses) THEN "Violated"
  ELSE IF /\ ended \in Decided \cup Interrupted
          /\ \/ guard = "F"
             \/ triggers = {}
             \/ guard = "T" /\ Pairable(triggers, responses)
       THEN "Satisfied"
       ELSE "Unknown"

Init ==
  /\ now = -1 /\ horizon = -1
  /\ triggers = {} /\ responses = {}
  /\ guard = "U"
  /\ ended = "Running"
  /\ verdict = "Unknown"

\* The guard becomes known before the first event.
Learn(value) ==
  /\ now = -1 /\ ended = "Running"
  /\ Refines(guard, value)
  /\ guard' = value
  /\ UNCHANGED <<now, triggers, responses, ended, horizon>>

\* An event at a later tick; it may be a trigger, a response, both or neither,
\* may settle the guard, and may end the run.
See(t, value, trigger, response, end) ==
  /\ ended = "Running"
  /\ t > now
  /\ Refines(guard, value)
  /\ end # "Running" => ~ trigger /\ ~ response
  /\ now' = t
  /\ guard' = value
  /\ triggers' = IF trigger THEN triggers \cup {t} ELSE triggers
  /\ responses' = IF response THEN responses \cup {t} ELSE responses
  /\ ended' = end
  /\ horizon' = IF end \in Decided THEN t + Bound ELSE t

\* A fault at an event that does not advance the clock, and at one whose
\* observation contradicts what is known: of that event only the passing of
\* time before it is taken into account.
LateEvent ==
  /\ ended = "Running"
  /\ ended' = "Faulted"
  /\ UNCHANGED <<now, triggers, responses, guard, horizon>>

Contradiction(t) ==
  /\ ended = "Running"
  /\ t > now
  /\ ended' = "Faulted"
  /\ now' = t
  /\ horizon' = t - 1
  /\ UNCHANGED <<triggers, responses, guard>>

Happens ==
  \/ \E value \in K3 : Learn(value)
  \/ \E t \in Ticks, value \in K3, trigger, response \in BOOLEAN,
        end \in Decided \cup Interrupted \cup {"Running", "ObservationCut"} :
       See(t, value, trigger, response, end)
  \/ LateEvent
  \/ \E t \in Ticks : Contradiction(t)

Next == Happens /\ verdict' = Verdict'

Spec == Init /\ [][Next]_vars

=============================================================================
