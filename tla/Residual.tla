------------------------------ MODULE Residual ------------------------------
(***************************************************************************)
(* What a residual promises while its continuation is read label by label, *)
(* whatever machine is behind it.  A label is taken while the run is open; *)
(* the first one that cannot be taken is recorded with the labels that     *)
(* could have been and the reason, and freezes the reading for good.  A    *)
(* word may also be refused outright, which yields no reading.             *)
(***************************************************************************)
CONSTANTS
  Label,         \* what a continuation is made of, as the sink records it
  EnabledSets    \* the sets of labels a machine may enable

VARIABLES
  reading,       \* the contract observation
  boundary,      \* what the run has crossed: "None", "Terminal" or "Fault"
  status         \* NoDisabledLabel, Refused, or the record of the sink

NoDisabledLabel == [kind |-> "NoDisabledLabel"]
Refused == [kind |-> "Refused"]

Disabled(label, enabled, reason) ==
  [kind |-> "Disabled", attempted |-> label, enabled_set |-> enabled,
   reason |-> reason]

Init ==
  /\ boundary \in {"None", "Terminal", "Fault"}
  /\ status = NoDisabledLabel

Take ==
  /\ status = NoDisabledLabel
  /\ boundary = "None"
  /\ boundary' \in {"None", "Terminal", "Fault"}
  /\ UNCHANGED status

\* Nothing is enabled beyond a boundary; before one, the label is not.
Disable(label, enabled) ==
  /\ status = NoDisabledLabel
  /\ status' = Disabled(label, enabled,
                 CASE boundary = "Terminal" -> "AfterTerminal"
                   [] boundary = "Fault"    -> "AfterFault"
                   [] OTHER                 -> "NotEnabled")
  /\ IF boundary = "None" THEN label \notin enabled ELSE enabled = {}
  /\ UNCHANGED <<reading, boundary>>

Refuse ==
  /\ status = NoDisabledLabel
  /\ status' = Refused
  /\ UNCHANGED <<reading, boundary>>

Next ==
  \/ Take
  \/ \E label \in Label, enabled \in EnabledSets : Disable(label, enabled)
  \/ Refuse

Spec == Init /\ [][Next]_<<reading, boundary, status>>

=============================================================================
