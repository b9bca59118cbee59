--------------------------- MODULE MonitorHistory ---------------------------
(***************************************************************************)
(* The monitor with a record of the responses it was given, which its own  *)
(* state forgets once no duty can use them, and the claim that it          *)
(* implements BoundedResponse: whatever the order of triggers, responses   *)
(* and guard observations, its summary is the oracle's.                    *)
(***************************************************************************)
EXTENDS Monitor

VARIABLE responses      \* ticks of the response events processed in full

Processed(e) ==
  /\ mode = "Running"
  /\ e.tick > tick
  /\ ~ Contradicts(e.observations)

HInit == Init /\ responses = {}

HSetInitial(key, value) == SetInitial(key, value) /\ UNCHANGED responses

HStep(e) ==
  /\ Step(e)
  /\ responses' =
       IF e.type = "Domain" /\ Processed(e) /\ e.tag = ResponseTag
       THEN responses \cup {e.tick}
       ELSE responses

HNext ==
  \/ \E key \in Keys, value \in K3 : HSetInitial(key, value)
  \/ \E e \in Event : HStep(e)

HSpec == HInit /\ [][HNext]_<<vars, responses>>

Oracle == INSTANCE BoundedResponse WITH
  now      <- tick,
  triggers <- {occurrences[i].trigger_tick : i \in Duties},
  guard    <- epistemic[GuardKey],
  ended    <- PublicMode,
  verdict  <- Summary,
  horizon  <- IF terminal_kind \in {"Complete", "AgentAbort"} THEN tick + Bound
              ELSE IF fault = "InconsistentObservation" THEN tick - 1
              ELSE tick

\* The summary the monitor publishes is, at every step, the one an oracle with
\* the whole history would give: _aggregate_summary over the ledger that the
\* greedy allocation, the expiries and the terminal conversion leave.
ImplementsOracle == Oracle!Spec

\* A breached duty was really unlucky: every response that fell in its window
\* is the response of an earlier duty.
BreachIsPaidFor ==
  \A i \in Duties :
    occurrences[i].status = "Breached" =>
      \A r \in responses \cap occurrences[i].trigger_tick..occurrences[i].deadline :
        \E j \in Duties : j < i /\ occurrences[j].response = r

=============================================================================
