-------------------------- MODULE MonitorResidual ---------------------------
(***************************************************************************)
(* monitor_residual of residual.py: a continuation is replayed on a copy   *)
(* of the monitor its prefix left behind, each event as many ticks after   *)
(* the copy's clock as the event itself says.  The first event a monitor   *)
(* that no longer runs is given is recorded in the disabled sink.          *)
(*                                                                         *)
(* A second monitor gets the same prefix Shift ticks later and with empty  *)
(* tick events strewn in between, and then the same continuation.          *)
(***************************************************************************)
EXTENDS TwoMonitors

CONSTANTS
  Shift,        \* ticks by which the second prefix is later
  Advances,     \* relative ticks of continuation events
  MaxWord       \* events in a continuation (bounds the run)

ASSUME ShiftAssumption == Shift \in Nat
ASSUME AdvancesAssumption == Advances \subseteq Int

VARIABLES
  word,         \* number of continuation events replayed
  status,       \* continuation_status
  t_status      \* that of the second monitor

residual == <<phase, word, status>>

NoDisabledLabel == [kind |-> "NoDisabledLabel"]

RInit ==
  /\ Init /\ Twin!Init
  /\ phase = "Prefix" /\ word = 0
  /\ status = NoDisabledLabel /\ t_status = NoDisabledLabel

-----------------------------------------------------------------------------
(* The prefix.                                                              *)

RSetInitial(key, value) ==
  /\ phase = "Prefix" /\ tick = -1 /\ t_tick = -1
  /\ SetInitial(key, value) /\ Twin!SetInitial(key, value)
  /\ UNCHANGED <<residual, t_status>>

\* The second clock reads Shift ticks more once a first event was accepted.
Later(now) == IF now = -1 THEN -1 ELSE now + Shift
InSync == t_tick = Later(tick)

\* Neither monitor sees its event late, or both do.
PrefixStep(e) ==
  /\ phase = "Prefix"
  /\ mode = "Running"
  /\ e.tick <= tick \/ e.tick + Shift > t_tick
  /\ Step(e)
  /\ Twin!Step([e EXCEPT !.tick = @ + Shift])
  /\ UNCHANGED <<residual, t_status>>

\* An empty tick event reaches the second monitor only.
ExtraTick ==
  /\ phase = "Prefix"
  /\ t_mode = "Running" /\ tick # -1
  /\ \E now \in Ticks :
       /\ now > tick /\ now + Shift > t_tick
       /\ Twin!Step([type |-> "Tick", tick |-> now + Shift, observations |-> <<>>])
  /\ UNCHANGED <<vars, residual, t_status>>

-----------------------------------------------------------------------------
(* The continuation.                                                        *)

RelativeEvent ==
  {[e EXCEPT !.tick = advance] : e \in Event, advance \in Advances}

\* _attempted_label: of the event as it was given, without id and observations.
AttemptedLabel(e) ==
  [type |-> e.type,
   name |-> CASE e.type = "Domain"   -> e.tag
              [] e.type = "Terminal" -> e.kind
              [] OTHER               -> "Tick",
   tick |-> IF e.type = "Tick" THEN e.tick ELSE 0]

AttemptedLabels == {AttemptedLabel(e) : e \in RelativeEvent}

\* The sink of a monitor that has stopped.
Disabled(e, faulted) ==
  [kind |-> "Disabled", attempted |-> AttemptedLabel(e), enabled_set |-> {},
   reason |-> IF faulted THEN "AfterFault" ELSE "AfterTerminal"]

At(e, now) == [e EXCEPT !.tick = now + @]

\* The prefix is over; both monitors have lived through the same.
Cut ==
  /\ phase = "Prefix" /\ InSync
  /\ phase' = "Continuation"
  /\ UNCHANGED <<vars, t_vars, status, t_status, word>>

\* Deviation: a later event replaces the one recorded in the sink.
Replay_LastLabel(e) ==
  /\ phase = "Continuation" /\ word < MaxWord
  /\ word' = word + 1
  /\ IF mode = "Running" THEN Step(At(e, tick)) /\ UNCHANGED status
     ELSE status' = Disabled(e, mode = "Faulted") /\ UNCHANGED vars
  /\ UNCHANGED <<phase, t_vars, t_status>>

\* One event of the continuation; at the first disabled one the replay stops.
Replay(e) ==
  /\ phase = "Continuation" /\ word < MaxWord
  /\ status = NoDisabledLabel
  /\ mode = "Running" => tick + e.tick >= 0
  /\ word' = word + 1
  /\ IF mode = "Running" THEN Step(At(e, tick)) /\ UNCHANGED status
     ELSE status' = Disabled(e, mode = "Faulted") /\ UNCHANGED vars
  /\ IF t_mode = "Running" THEN Twin!Step(At(e, t_tick)) /\ UNCHANGED t_status
     ELSE t_status' = Disabled(e, t_mode = "Faulted") /\ UNCHANGED t_vars
  /\ UNCHANGED phase

\* A malformed event is no continuation event, and step refuses a tick that
\* comes out negative: the replay raises, and there is no residual.
ReplayMalformed ==
  /\ phase = "Continuation" /\ word < MaxWord
  /\ status = NoDisabledLabel
  /\ word' = word + 1
  /\ status' = [kind |-> "Refused"] /\ t_status' = status'
  /\ UNCHANGED <<vars, t_vars, phase>>

RNext ==
  \/ \E key \in Keys, value \in K3 : RSetInitial(key, value)
  \/ \E e \in Event : PrefixStep(e)
  \/ ExtraTick
  \/ Cut
  \/ \E e \in RelativeEvent : Replay(e)
  \/ ReplayMalformed

RSpec == RInit /\ [][RNext]_<<vars, t_vars, t_status, residual>>

-----------------------------------------------------------------------------
(* The verdict object a residual reads; its diagnostic is the fault, if any. *)

Verdict ==
  [summary |-> Summary, mode |-> PublicMode, diagnostic |-> fault,
   occurrences |-> [i \in Duties |-> occurrences[i].status]]

TwinVerdict ==
  [summary |-> Twin!Summary, mode |-> Twin!PublicMode, diagnostic |-> t_fault,
   occurrences |-> [i \in Twin!Duties |-> t_occurrences[i].status]]

\* A reading belongs to the monitor's state and not to its place in time nor to
\* how its time was told: one that lives Shift ticks later and hears of ticks on
\* which nothing happens reads the same after every event, so that no expiry
\* depends on which phase or event finds it, and the same continuation of
\* relative events then leaves both with the same verdict, fault, disabled event
\* and reason.
TimeIsRelative ==
  /\ phase = "Prefix" /\ InSync => Verdict = TwinVerdict
  /\ phase = "Continuation" => Verdict = TwinVerdict /\ status = t_status

Residuals == INSTANCE Residual WITH
  Label <- AttemptedLabels, EnabledSets <- {{}},
  reading <- Verdict,
  boundary <- CASE mode = "Running" -> "None"
                [] mode = "Faulted" -> "Fault"
                [] OTHER            -> "Terminal"

\* The residual keeps the promise of a residual: whatever follows the end of a
\* run or a fault, the first such event is recorded and the verdict frozen.
ImplementsResidual == Residuals!Spec

=============================================================================
