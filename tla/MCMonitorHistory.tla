-------------------------- MODULE MCMonitorHistory --------------------------
(***************************************************************************)
(* The refinement is checked for three clauses at once, each behaviour     *)
(* being about one of them: the one of the cfg, the same with a bound of   *)
(* zero, where a duty is due at the tick that creates it, and one whose    *)
(* trigger is its response, so that an event creates a duty and answers    *)
(* one.                                                                    *)
(***************************************************************************)
EXTENDS MonitorHistory

MCTicks == 0..4

VARIABLE clause

ZeroBound == INSTANCE MonitorHistory WITH Bound <- 0
SameTag == INSTANCE MonitorHistory WITH Bound <- 1, TriggerTag <- ResponseTag

MCInit == HInit /\ clause \in {"Plain", "ZeroBound", "SameTag"}

MCNext ==
  /\ UNCHANGED clause
  /\ \/ clause = "Plain" /\ HNext
     \/ clause = "ZeroBound" /\ ZeroBound!HNext
     \/ clause = "SameTag" /\ SameTag!HNext

MCSpec == MCInit /\ [][MCNext]_<<vars, responses, clause>>

\* Every clause is monitored as its oracle would judge it: the summary
\* _aggregate_summary makes of a ledger kept greedily and never revised is at
\* every step the one a free pairing of triggers and responses gives.
ImplementsOracles ==
  /\ clause = "Plain" => Oracle!Init
  /\ clause = "ZeroBound" => ZeroBound!Oracle!Init
  /\ clause = "SameTag" => SameTag!Oracle!Init
  /\ [][/\ clause = "Plain" => [Oracle!Next]_(Oracle!vars)
        /\ clause = "ZeroBound" => [ZeroBound!Oracle!Next]_(ZeroBound!Oracle!vars)
        /\ clause = "SameTag" => [SameTag!Oracle!Next]_(SameTag!Oracle!vars)
       ]_<<vars, responses>>

=============================================================================
