------------------------------ MODULE Capsule -------------------------------
(***************************************************************************)
(* The abstraction capsule: a source monitor runs a prefix, a card keeps a *)
(* part of it, restore_open_state_card builds a second monitor from the    *)
(* card and two environment fields, and both are driven through the same   *)
(* continuation labels.  The question the capsule asks of a card is        *)
(* whether any continuation tells the two apart.                           *)
(*                                                                         *)
(* The variables of Monitor are the source's; the restored monitor's start *)
(* with r_.  restore_open_state_card is one call; it is split here into    *)
(* Cut (validation and construction), Replay (one retained event) and      *)
(* FinishRestore (the restart clock and the occurrence table), during      *)
(* which the source does not move.                                         *)
(***************************************************************************)
EXTENDS Monitor, Sequences

CONSTANTS
  SourceEvents,  \* the events source prefixes are made of (bounds the input)
  Budgets,       \* tail-window budgets tried
  MaxTrace,      \* bounds the source trace
  MaxWord        \* bounds the continuation (the comparison bound)

ASSUME SourceEventsAssumption == SourceEvents \subseteq Event
ASSUME BudgetsAssumption == Budgets \subseteq Nat

\* The profile's tags are two, and the clause's.
ASSUME ProfileAssumption == TriggerTag # ResponseTag /\ {TriggerTag, ResponseTag} \subseteq Tags

VARIABLES
  r_mode, r_terminal_kind, r_fault, r_tick, r_epistemic, r_occurrences,
  r_oid_counter, r_consumed, r_diagnostic,
  trace,         \* the prefix: each event with the source's summary before it
  phase,         \* "source", "replay", "live" or "refused" (ValueError)
  card,          \* the card cut: its name and the events it retained
  pending,       \* retained events still to be replayed
  sound,         \* whether the card met its precondition when it was cut
  word,          \* continuation labels applied so far
  attempted      \* per side, the label that entered the disabled sink

Restored == INSTANCE Monitor WITH
  mode <- r_mode, terminal_kind <- r_terminal_kind, fault <- r_fault,
  tick <- r_tick, epistemic <- r_epistemic, occurrences <- r_occurrences,
  oid_counter <- r_oid_counter, consumed <- r_consumed,
  diagnostic <- r_diagnostic

r_vars == <<r_mode, r_terminal_kind, r_fault, r_tick, r_epistemic,
            r_occurrences, r_oid_counter, r_consumed, r_diagnostic>>
capsule == <<trace, phase, card, pending, sound, word, attempted>>

Labels == {ResponseTag, "Complete"}     \* the profile's continuation alphabet

Live == {i \in DOMAIN occurrences :
           occurrences[i].status \in {"Open", "ConditionalOpen", "ConditionalExpired"}}

\* Nothing before this point can matter later: no duty is live, none breached.
Quiet == Live = {} /\ Summary # "Violated"

-----------------------------------------------------------------------------
\* build_prefix establishes the guard as T before the first event.
CInit ==
  /\ mode = "Running" /\ terminal_kind = "None" /\ fault = "None"
  /\ tick = -1
  /\ epistemic = [k \in Keys |-> IF k = GuardKey THEN "T" ELSE "U"]
  /\ occurrences = [i \in {} |-> NewOccurrence(0, 0, "Open")]
  /\ oid_counter = 0 /\ consumed = {} /\ diagnostic = "None"
  /\ Restored!Init
  /\ trace = <<>> /\ phase = "source"
  /\ card = [name |-> "none", retained |-> <<>>]
  /\ pending = <<>> /\ sound = FALSE /\ word = <<>>
  /\ attempted = [source |-> "None", restored |-> "None"]

SourceStep(e) ==
  /\ phase = "source"
  /\ Len(trace) < MaxTrace
  /\ diagnostic # "AfterTerminalOrFault"    \* bound: one event after the end
  /\ Step(e)
  /\ trace' = Append(trace, [event |-> e, quiet |-> Quiet])
  /\ UNCHANGED <<r_vars, phase, card, pending, sound, word, attempted>>

-----------------------------------------------------------------------------
(* restore_open_state_card                                                  *)

\* Deviation: a duty due at the very next tick is left out.
OpenTable_NotDueNext ==
  {i \in DOMAIN occurrences : /\ occurrences[i].status = "Open"
                              /\ occurrences[i].deadline > tick + 1}

OpenTable == {i \in DOMAIN occurrences : occurrences[i].status = "Open"}

\* Validation of the retained events and of the table, before any of it is
\* used: running events only, ticks increasing and not beyond the clock; only
\* duties still live at the clock, and only under a true guard.
ValidRetained(events) ==
  \A n \in DOMAIN events :
    /\ events[n].type \in {"Domain", "Tick"}
    /\ events[n].tick <= tick
    /\ n > 1 => events[n].tick > events[n - 1].tick

ValidTable(table) ==
  /\ \A i \in table :
       /\ occurrences[i].trigger_tick <= tick
       /\ occurrences[i].deadline > tick
       /\ occurrences[i].deadline = occurrences[i].trigger_tick + Bound
  /\ table # {} => epistemic[GuardKey] = "T"

Cut(name, events, table, condition) ==
  /\ phase = "source"
  /\ card' = [name |-> name, retained |-> events]
  /\ sound' = condition
  /\ pending' = events
  /\ phase' = IF ValidRetained(events) /\ ValidTable(table)
              THEN "replay" ELSE "refused"
  /\ r_epistemic' = [r_epistemic EXCEPT ![GuardKey] = epistemic[GuardKey]]
  /\ UNCHANGED <<vars, r_mode, r_terminal_kind, r_fault, r_tick, r_occurrences,
                 r_oid_counter, r_consumed, r_diagnostic, trace, word, attempted>>

CutOpenCard ==
  Cut("open", <<>>, OpenTable, mode = "Running" /\ Summary # "Violated")

\* Deviation: the window is the head of the trace.
Window_Head(budget) == IF budget >= Len(trace) THEN trace ELSE SubSeq(trace, 1, budget)

\* The last `budget` events of the trace, and an empty table.  The window is
\* self-contained if the source was quiet where it begins.
Window(budget) ==
  IF budget >= Len(trace) THEN trace
  ELSE SubSeq(trace, Len(trace) - budget + 1, Len(trace))

CutTailCard(budget) ==
  LET kept == Window(budget)
  IN  Cut("tail", [n \in DOMAIN kept |-> kept[n].event], {},
          mode = "Running" /\ (IF kept = <<>> THEN Quiet ELSE kept[1].quiet))

Replay ==
  /\ phase = "replay"
  /\ pending # <<>>
  /\ Restored!Step(Head(pending))
  /\ pending' = Tail(pending)
  /\ UNCHANGED <<vars, trace, phase, card, sound, word, attempted>>

Table == IF card.name = "open" THEN OpenTable ELSE {}

\* Deviation: the restart clock is assigned without expiring what it passes.
FinishRestore_NoExpiry ==
  /\ phase = "replay"
  /\ pending = <<>>
  /\ IF r_mode # "Running" \/ (Table # {} /\ r_epistemic[GuardKey] # "T")
     THEN phase' = "refused" /\ UNCHANGED r_vars
     ELSE /\ phase' = "live"
          /\ r_tick' = tick
          /\ r_occurrences' =
               IF Table = {} THEN r_occurrences
               ELSE [i \in Table |-> NewOccurrence(occurrences[i].trigger_tick,
                                                   occurrences[i].deadline, "Open")]
          /\ UNCHANGED <<r_mode, r_terminal_kind, r_fault, r_epistemic,
                         r_oid_counter, r_consumed, r_diagnostic>>
  /\ UNCHANGED <<vars, trace, card, pending, sound, word, attempted>>

\* The clock jumps to the source's, expiring what it passes; then a table, if
\* there is one, replaces whatever duties the retained events produced.
FinishRestore ==
  /\ phase = "replay"
  /\ pending = <<>>
  /\ IF r_mode # "Running" \/ (Table # {} /\ r_epistemic[GuardKey] # "T")
     THEN phase' = "refused" /\ UNCHANGED r_vars
     ELSE /\ phase' = "live"
          /\ r_tick' = tick
          /\ IF Table = {}
             THEN /\ r_occurrences' = Restored!BoundaryExpire(
                                        Restored!PreExpire(r_occurrences, tick), tick)
                  /\ UNCHANGED <<r_oid_counter, r_consumed>>
             ELSE /\ r_occurrences' =
                       [i \in Table |-> NewOccurrence(occurrences[i].trigger_tick,
                                                      occurrences[i].deadline, "Open")]
                  /\ r_oid_counter' = CHOOSE i \in Table : \A j \in Table : j <= i
                  /\ r_consumed' = {}
          /\ UNCHANGED <<r_mode, r_terminal_kind, r_fault, r_epistemic, r_diagnostic>>
  /\ UNCHANGED <<vars, trace, card, pending, sound, word, attempted>>

-----------------------------------------------------------------------------
(* One continuation label, one relative tick ahead, on both sides.  A side  *)
(* that is no longer running enters the disabled sink at its first label    *)
(* and stays in it: monitor_residual stops there, the capsule's step keeps  *)
(* the frozen observation.                                                  *)

LabelEvent(label, at) ==
  IF label = ResponseTag
  THEN [type |-> "Domain", tick |-> at, tag |-> ResponseTag, observations |-> <<>>]
  ELSE [type |-> "Terminal", tick |-> at, kind |-> "Complete", observations |-> <<>>]

Disable(side, label, running) ==
  IF running \/ attempted[side] # "None" THEN attempted[side] ELSE label

Continue(label) ==
  /\ phase = "live"
  /\ Len(word) < MaxWord
  /\ word' = Append(word, label)
  /\ attempted' = [source   |-> Disable("source", label, mode = "Running"),
                   restored |-> Disable("restored", label, r_mode = "Running")]
  /\ IF mode = "Running" THEN Step(LabelEvent(label, tick + 1))
     ELSE UNCHANGED vars
  /\ IF r_mode = "Running" THEN Restored!Step(LabelEvent(label, r_tick + 1))
     ELSE UNCHANGED r_vars
  /\ UNCHANGED <<trace, phase, card, pending, sound>>

CNext ==
  \/ \E e \in SourceEvents : SourceStep(e)
  \/ CutOpenCard
  \/ \E budget \in Budgets : CutTailCard(budget)
  \/ Replay
  \/ FinishRestore
  \/ \E label \in Labels : Continue(label)

CSpec == CInit /\ [][CNext]_<<vars, r_vars, capsule>>

-----------------------------------------------------------------------------
Observation == <<Summary, PublicMode, attempted.source>>
RestoredObservation ==
  <<Restored!Summary, Restored!PublicMode, attempted.restored>>

\* The table of open duties is enough, and all that is needed, for a running
\* prefix with no breach: no continuation tells the restored monitor from the
\* source.  For any other prefix the empty continuation already does.
OpenCardFaithful ==
  (phase = "live" /\ card.name = "open") =>
    /\ sound => Observation = RestoredObservation
    /\ ~ sound /\ word = <<>> => Observation # RestoredObservation

\* A tail of the trace is enough when it begins where the source was quiet: a
\* window that cuts a duty from its response, or leaves a response to pay for
\* another duty, begins where it was not.
TailCardFaithful ==
  (phase = "live" /\ card.name = "tail" /\ sound) =>
    Observation = RestoredObservation

\* A card cut from a running source is never refused, and what is restored from
\* it is a state the monitor could be in: it keeps the invariants of the
\* monitor's own ledger, and so does all that follows.
RestoreIsSound ==
  /\ phase = "refused" => mode # "Running"
  /\ phase = "live" => /\ Restored!LedgerSound
                        /\ Restored!LinearTokens
                        /\ Restored!NoOvertaking

=============================================================================
