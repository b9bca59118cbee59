--------------------------- MODULE MCTwoMonitors ----------------------------
(***************************************************************************)
(* Both comparisons of two monitors in one run: a behaviour is either that *)
(* of two prefixes and a continuation (word, status), or that of a card    *)
(* and two restored monitors (card).                                       *)
(***************************************************************************)
EXTENDS MonitorResidual, RestoredRun

MCTicks == 0..4

\* Rows triggered at 0, 1 or 2, due as the clause says, or a tick late.
MCEntries ==
  {[trigger_tick |-> t, deadline |-> t + Bound] : t \in 0..2}
  \cup {[trigger_tick |-> 1, deadline |-> 2 + Bound]}

NoCard == [table |-> <<>>, guard |-> "U", current_tick |-> 0, naming |-> <<>>]

MCInit ==
  \/ RInit /\ card = NoCard
  \/ /\ CardInit
     /\ word = 0 /\ status = NoDisabledLabel /\ t_status = NoDisabledLabel

MCNext ==
  \/ RNext /\ UNCHANGED card
  \/ CardNext /\ UNCHANGED <<word, status, t_status>>

MCSpec == MCInit /\ [][MCNext]_<<vars, t_vars, residual, t_status, card>>

=============================================================================
