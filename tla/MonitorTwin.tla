---------------------------- MODULE MonitorTwin -----------------------------
(***************************************************************************)
(* Two monitors of one clause on one stream of events.  The first learns   *)
(* the guard's value from an observation along the way, or never; the      *)
(* second knows it before the first event (set_initial).  The stream never *)
(* reports anything else of the guard, so neither monitor is contradicted. *)
(*                                                                         *)
(* Retroactive activation (the conditional statuses, the candidate tokens  *)
(* and the allocation pass) exists to make the first monitor's ledger      *)
(* equal to the second one's, but for the time of discovery.               *)
(***************************************************************************)
EXTENDS TwoMonitors

VARIABLE truth         \* the guard's value

twins == <<vars, t_vars, phase, truth>>

\* The second monitor after set_initial(GuardKey, truth).
TwinInit ==
  /\ Init
  /\ phase = "Stream"
  /\ truth \in {"T", "F"}
  /\ t_mode = mode /\ t_terminal_kind = terminal_kind /\ t_fault = fault
  /\ t_tick = tick /\ t_occurrences = occurrences
  /\ t_oid_counter = oid_counter /\ t_consumed = consumed
  /\ t_diagnostic = diagnostic
  /\ t_epistemic = [epistemic EXCEPT ![GuardKey] = truth]

TwinStep(e) ==
  /\ GuardKey \in DOMAIN e.observations => e.observations[GuardKey] = truth
  /\ Step(e)
  /\ Twin!Step(e)
  /\ UNCHANGED <<phase, truth>>

TwinNext == \E e \in Event : TwinStep(e)

TwinSpec == TwinInit /\ [][TwinNext]_twins

-----------------------------------------------------------------------------
Outcome(o) == <<o.trigger_tick, o.deadline, o.status, o.response,
                o.effective_time>>

\* Once the guard is known, however late, each duty has the outcome, the
\* response and the effective time it would have had with the guard known from
\* the start, and the same tokens are spent; only the discovery of a breach may
\* come later.
SameLedgerOnceKnown ==
  epistemic[GuardKey] # "U" =>
    /\ Duties = DOMAIN t_occurrences
    /\ consumed = t_consumed
    /\ \A i \in Duties :
         /\ Outcome(occurrences[i]) = Outcome(t_occurrences[i])
         /\ occurrences[i].status = "Breached" =>
              t_occurrences[i].discovery_time <= occurrences[i].discovery_time

\* While the guard is unknown the late monitor may be silent, never wrong: a
\* summary other than Unknown is the early monitor's, so an unknown guard is
\* neither turned into a breach nor waved through.
NeverWrong == Summary # "Unknown" => Summary = Twin!Summary

=============================================================================
