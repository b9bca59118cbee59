----------------------------- MODULE MCCapsule ------------------------------
(* Prefixes of exports, approvals and ticks; a tick may carry a             *)
(* contradicting observation, and the prefix may end by completion.         *)
EXTENDS Capsule

MCTicks == 0..3

MCSourceEvents ==
  [type : {"Domain"}, tick : Ticks, tag : Tags, observations : {<<>>}]
  \cup [type : {"Tick"}, tick : Ticks, observations : {<<>>, [k \in {GuardKey} |-> "F"]}]
  \cup [type : {"Terminal"}, tick : Ticks, kind : {"Complete"}, observations : {<<>>}]

=============================================================================
