---------------------------- MODULE TwoMonitors -----------------------------
(***************************************************************************)
(* Two monitors of one clause that ought to read alike: Monitor's own      *)
(* variables are the first one's, those with the prefix t_ the second's.   *)
(***************************************************************************)
EXTENDS Monitor

VARIABLES
  phase,        \* of the comparison
  t_mode, t_terminal_kind, t_fault, t_tick, t_epistemic, t_occurrences,
  t_oid_counter, t_consumed, t_diagnostic

t_vars == <<t_mode, t_terminal_kind, t_fault, t_tick, t_epistemic,
            t_occurrences, t_oid_counter, t_consumed, t_diagnostic>>

Twin == INSTANCE Monitor WITH
  mode <- t_mode, terminal_kind <- t_terminal_kind, fault <- t_fault,
  tick <- t_tick, epistemic <- t_epistemic, occurrences <- t_occurrences,
  oid_counter <- t_oid_counter, consumed <- t_consumed,
  diagnostic <- t_diagnostic

=============================================================================
