------------------------------ MODULE Monitor -------------------------------
(***************************************************************************)
(* The executable single-clause monitor of monitor.py: it runs one clause  *)
(*                                                                         *)
(*    after TriggerTag when GuardKey require ResponseTag within Bound      *)
(*                                                                         *)
(* over a stream of events and keeps the ledger of the duties the trigger  *)
(* created.  One action per branch of SingleClauseMonitor.step, in the     *)
(* order of its numbered phases, and one for set_initial.                  *)
(*                                                                         *)
(* Input that step or set_initial rejects by raising (malformed events,    *)
(* effect receipts, bundles of more than one observation, an initial value *)
(* that would retract another) leaves the monitor as it was, before any    *)
(* phase: it is a stuttering step here.                                    *)
(***************************************************************************)
EXTENDS Obligations, FiniteSets

CONSTANTS
  Bound,         \* the clause's D: ticks a duty may stay unanswered
  TriggerTag,    \* tag of the events that create a duty
  ResponseTag,   \* tag of the events that answer one
  Tags,          \* the tags domain events carry
  Keys,          \* proposition keys that are observed
  GuardKey,      \* the key the clause's guard reads
  Ticks          \* the ticks events carry (bounds the input)

ASSUME BoundAssumption == Bound \in Nat
ASSUME GuardAssumption == GuardKey \in Keys
ASSUME TicksAssumption == Ticks \subseteq Nat

VARIABLES
  mode,          \* Running, Halted or Faulted
  terminal_kind, \* kind of the terminal event that halted it, or "None"
  fault,         \* code of the semantic fault, or "None"
  tick,          \* the clock: tick of the last accepted event, -1 before it
  epistemic,     \* key -> K3 value; an absent key is U, as .get(key, U) reads
  occurrences,   \* the ledger: alias -> occurrence record
  oid_counter,   \* last number given to an alias
  consumed,      \* the tokens whose `consumed` flag is set
  diagnostic     \* diagnostic of the verdict object returned last

vars == <<mode, terminal_kind, fault, tick, epistemic, occurrences,
          oid_counter, consumed, diagnostic>>

-----------------------------------------------------------------------------
(* Events.  Each carries a mapping of at most one observation.             *)

TerminalKinds == {"Complete", "AgentAbort", "ExternalCrash", "Timeout",
                  "ObservationCut"}

Observations == {<<>>} \cup UNION {[{k} -> K3] : k \in Keys}

DomainEvent == [type : {"Domain"}, tick : Ticks, tag : Tags,
                observations : Observations]
TickEvent == [type : {"Tick"}, tick : Ticks, observations : Observations]
TerminalEvent == [type : {"Terminal"}, tick : Ticks, kind : TerminalKinds,
                  observations : Observations]

Event == DomainEvent \cup TickEvent \cup TerminalEvent

-----------------------------------------------------------------------------
Init ==
  /\ mode = "Running"
  /\ terminal_kind = "None"
  /\ fault = "None"
  /\ tick = -1
  /\ epistemic = [k \in Keys |-> "U"]
  /\ occurrences = [i \in {} |-> NewOccurrence(0, 0, "Open")]
  /\ oid_counter = 0
  /\ consumed = {}
  /\ diagnostic = "None"

SetInitial(key, value) ==
  /\ mode = "Running"
  /\ tick = -1
  /\ Refines(epistemic[key], value)
  /\ epistemic' = [epistemic EXCEPT ![key] = value]
  /\ UNCHANGED <<mode, terminal_kind, fault, tick, occurrences, oid_counter,
                 consumed, diagnostic>>

-----------------------------------------------------------------------------
(* The phases of a step, as operators on the ledger and the event's tick.   *)

\* Expiry of the duties in `late`: an unanswered duty is breached as of its
\* deadline, one whose guard is unknown waits for its guard.
Expire(occs, late, now) ==
  [i \in DOMAIN occs |->
     CASE i \in late /\ occs[i].status = "Open"
            -> Breach(occs[i], "UnmetAtExpiry", now)
       [] i \in late /\ occs[i].status = "ConditionalOpen"
            -> GuardRemainsUnknownAtDeadline(occs[i])
       [] OTHER -> occs[i]]

\* Deviation: no strict expiry; only an event at the deadline finds it missed.
PreExpire_Skipped(occs, now) == occs

\* Phase 3, strict, and phase 10: the deadline itself is still in time.
PreExpire(occs, now) ==
  Expire(occs, {i \in DOMAIN occs : occs[i].deadline < now}, now)
\* Deviation: no boundary expiry; the deadline is found missed one event later.
BoundaryExpire_Skipped(occs, now) == occs

BoundaryExpire(occs, now) ==
  Expire(occs, {i \in DOMAIN occs : occs[i].deadline = now}, now)

\* Phases 4-5: the observation refines the store, or contradicts it.
\* Deviation: a contradicting observation overwrites the store.
Contradicts_Never(obs) == FALSE

Contradicts(obs) == \E k \in DOMAIN obs : ~ Refines(epistemic[k], obs[k])

Observed(obs) ==
  [k \in Keys |-> IF k \in DOMAIN obs THEN obs[k] ELSE epistemic[k]]

\* Phase 6: once the guard is known, no duty stays conditional.
Activated(occs, guard) ==
  {i \in DOMAIN occs : occs[i].status \in Conditional /\ guard = "T"}

ResolveConditionals(occs, guard, alloc, now) ==
  LET resolved == GuardsBecomeTrue(occs, alloc, now)
  IN  [i \in DOMAIN occs |->
         IF occs[i].status \in Conditional /\ guard = "F"
         THEN GuardBecomesFalse(occs[i])
         ELSE resolved[i]]

\* Phases 7 and 8, for an event that carries the trigger or the response tag.
InstantiateTrigger(occs, oid, guard, now) ==
  [i \in DOMAIN occs \cup {oid} |->
     IF i = oid THEN TriggerAndGuardRule(now, now + Bound, guard) ELSE occs[i]]

\* Deviation: the counter is incremented twice.
FreshOids_Twice == {oid_counter + 2}

\* _fresh_oid: the next number whose alias is not in use.
FreshOids ==
  {n \in (oid_counter + 1)..(oid_counter + 1 + Cardinality(DOMAIN occurrences)) :
     /\ n \notin DOMAIN occurrences
     /\ \A m \in (oid_counter + 1)..(n - 1) : m \in DOMAIN occurrences}

\* Phase 11: the conversion tables for open and for conditional duties.
ConvertOpen(o, kind, now) ==
  CASE kind = "Complete"   -> Breach(o, "UnmetAtComplete", now)
    [] kind = "AgentAbort" -> Breach(o, "AbortWithOpenObligation", now)
    [] OTHER -> [o EXCEPT !.status = "UnknownFinal",
                          !.breach_reason =
                            CASE kind = "ExternalCrash" -> "ExternalInterruption"
                              [] kind = "Timeout" -> "TruncatedBeforeDeadline"
                              [] OTHER -> "ObservationTruncated"]

\* Deviation: completion breaches a duty whose guard is still unknown.
ConvertConditional_Breach(o, kind) ==
  IF kind = "Complete" THEN Breach(o, "UnmetAtComplete", tick)
  ELSE [o EXCEPT !.status = "UnknownFinal"]

ConvertConditional(o, kind) ==
  [o EXCEPT !.status = "UnknownFinal",
            !.breach_reason =
              CASE kind = "Complete"      -> "GuardUnknownAtComplete"
                [] kind = "AgentAbort"    -> "GuardUnknownAtAgentAbort"
                [] kind = "ExternalCrash" -> "GuardUnknownAtExternalCrash"
                [] kind = "Timeout"       -> "GuardUnknownAtTimeout"
                [] OTHER -> "GuardUnknownAtObservationCut"]

TerminalConversion(occs, kind, now) ==
  [i \in DOMAIN occs |->
     CASE occs[i].status = "Open"         -> ConvertOpen(occs[i], kind, now)
       [] occs[i].status \in Conditional  -> ConvertConditional(occs[i], kind)
       [] OTHER                           -> occs[i]]

-----------------------------------------------------------------------------
(* step(event)                                                              *)

\* Phase 1: a halted or faulted monitor answers with its verdict unchanged.
StepAfterEnd(e) ==
  /\ mode # "Running"
  /\ diagnostic' = "AfterTerminalOrFault"
  /\ UNCHANGED <<mode, terminal_kind, fault, tick, epistemic, occurrences,
                 oid_counter, consumed>>

\* Phase 2: the clock must advance; a late or repeated event faults the
\* monitor, before the clock or the ledger moves.
StepStale(e) ==
  /\ mode = "Running"
  /\ e.tick <= tick
  /\ mode' = "Faulted"
  /\ fault' = "NonMonotoneTick"
  /\ diagnostic' = "NonMonotoneTick"
  /\ UNCHANGED <<terminal_kind, tick, epistemic, occurrences, oid_counter,
                 consumed>>

\* Phases 2-5 when the observation contradicts the store: the clock and the
\* pre-expiry stay, the rest of the event is not processed.
StepContradiction(e) ==
  /\ mode = "Running"
  /\ e.tick > tick
  /\ Contradicts(e.observations)
  /\ tick' = e.tick
  /\ occurrences' = PreExpire(occurrences, e.tick)
  /\ mode' = "Faulted"
  /\ fault' = "InconsistentObservation"
  /\ diagnostic' = "InconsistentObservation"
  /\ UNCHANGED <<terminal_kind, epistemic, oid_counter, consumed>>

\* What every accepted event does first: phases 2 to 6 (`ledger` is their
\* result, `alloc` the tokens the resolution hands out).
Accept(e) ==
  /\ mode = "Running"
  /\ e.tick > tick
  /\ ~ Contradicts(e.observations)
  /\ tick' = e.tick
  /\ epistemic' = Observed(e.observations)
  /\ diagnostic' = "None"
  /\ UNCHANGED fault

Guard(e) == Observed(e.observations)[GuardKey]

Resolutions(e) ==
  LET occs == PreExpire(occurrences, e.tick)
  IN  Allocations(occs, Activated(occs, Guard(e)), consumed)

Resolved(e, alloc) ==
  ResolveConditionals(PreExpire(occurrences, e.tick), Guard(e), alloc, e.tick)

Triggered(e, alloc, oid) ==
  IF e.tag = TriggerTag
  THEN InstantiateTrigger(Resolved(e, alloc), oid, Guard(e), e.tick)
  ELSE Resolved(e, alloc)

\* Deviation: the response is registered before the event's own trigger.
Answered_BeforeTrigger(e, alloc, oid) ==
  LET answered == IF e.tag = ResponseTag
                  THEN RegisterResponseToken(Resolved(e, alloc), e.tick)
                  ELSE Resolved(e, alloc)
  IN  IF e.tag = TriggerTag
      THEN InstantiateTrigger(answered, oid, Guard(e), e.tick)
      ELSE answered

Answered(e, alloc, oid) ==
  IF e.tag = ResponseTag
  THEN RegisterResponseToken(Triggered(e, alloc, oid), e.tick)
  ELSE Triggered(e, alloc, oid)

StepDomain(e) ==
  /\ e.type = "Domain"
  /\ Accept(e)
  /\ \E alloc \in Resolutions(e), oid \in FreshOids :
       /\ occurrences' = BoundaryExpire(Answered(e, alloc, oid), e.tick)
       /\ oid_counter' = IF e.tag = TriggerTag THEN oid ELSE oid_counter
       /\ consumed' = consumed \cup Used(alloc) \cup
                        {t \in {e.tick} : /\ e.tag = ResponseTag
                                          /\ Eligible(Triggered(e, alloc, oid), t) # {}}
  /\ UNCHANGED <<mode, terminal_kind>>

StepTick(e) ==
  /\ e.type = "Tick"
  /\ Accept(e)
  /\ \E alloc \in Resolutions(e) :
       /\ occurrences' = BoundaryExpire(Resolved(e, alloc), e.tick)
       /\ consumed' = consumed \cup Used(alloc)
  /\ UNCHANGED <<mode, terminal_kind, oid_counter>>

StepTerminal(e) ==
  /\ e.type = "Terminal"
  /\ Accept(e)
  /\ mode' = "Halted"
  /\ terminal_kind' = e.kind
  /\ \E alloc \in Resolutions(e) :
       /\ occurrences' =
            TerminalConversion(BoundaryExpire(Resolved(e, alloc), e.tick),
                               e.kind, e.tick)
       /\ consumed' = consumed \cup Used(alloc)
  /\ UNCHANGED oid_counter

Step(e) ==
  \/ StepAfterEnd(e)
  \/ StepStale(e)
  \/ StepContradiction(e)
  \/ StepDomain(e)
  \/ StepTick(e)
  \/ StepTerminal(e)

Next ==
  \/ \E key \in Keys, value \in K3 : SetInitial(key, value)
  \/ \E e \in Event : Step(e)

Spec == Init /\ [][Next]_vars

-----------------------------------------------------------------------------
(* The verdict object.                                                      *)

PublicMode == IF mode = "Halted" THEN terminal_kind ELSE mode

Settled == {"Discharged", "Inapplicable", "Waived"}

Statuses == {occurrences[i].status : i \in DOMAIN occurrences}

Summary ==
  IF "Breached" \in Statuses THEN "Violated"
  ELSE IF /\ mode = "Halted"
          /\ terminal_kind # "ObservationCut"
          /\ Statuses \subseteq Settled
       THEN "Satisfied"
       ELSE "Unknown"

-----------------------------------------------------------------------------
(* The type invariant: the aliases are numbered without a gap, exactly the  *)
(* ended monitors carry a terminal kind or a fault, and there is no duty    *)
(* before the first event.                                                  *)

TypeOK ==
  /\ mode \in {"Running", "Halted", "Faulted"}
  /\ terminal_kind \in TerminalKinds \cup {"None"}
  /\ fault \in {"None", "NonMonotoneTick", "InconsistentObservation"}
  /\ tick \in Nat \cup {-1}
  /\ mode = "Halted" <=> terminal_kind # "None"
  /\ mode = "Faulted" <=> fault # "None"
  /\ epistemic \in [Keys -> K3]
  /\ oid_counter \in Nat
  /\ tick = -1 => oid_counter = 0
  /\ occurrences \in [1..oid_counter -> Occurrence]
  /\ consumed \in SUBSET Nat
  /\ diagnostic \in {"None", "NonMonotoneTick", "InconsistentObservation",
                     "AfterTerminalOrFault"}

-----------------------------------------------------------------------------
(* Safety.                                                                  *)

Duties == DOMAIN occurrences

\* A duty is never left live on the far side of its deadline: while the
\* monitor runs, a live duty's deadline is still ahead (an event at the
\* deadline itself was the last in time), a fault may leave it on the deadline
\* but not beyond, and a halted monitor has no live duty (and only a halted one
\* has given up on a duty).  The two expiry
\* phases and the terminal conversion must agree on the edge.
LiveWithinDeadline ==
  \A i \in Duties :
    LET o == occurrences[i] IN
    /\ o.status \in {"Open", "ConditionalOpen"} =>
         /\ mode # "Halted"
         /\ o.deadline >= tick
         /\ fault # "InconsistentObservation" => o.deadline > tick
    /\ o.status = "ConditionalExpired" => mode # "Halted" /\ o.deadline <= tick
    /\ o.status = "UnknownFinal" => mode = "Halted"

\* What the store knows of the guard and what the ledger says of the duties
\* agree: a duty is conditional only under an unknown guard, inapplicable only
\* under a false one, and owed, answered or breached only under a true one.
GuardCoherence ==
  \A i \in Duties :
    CASE epistemic[GuardKey] = "U" ->
           occurrences[i].status \in Conditional \cup {"UnknownFinal"}
      [] epistemic[GuardKey] = "F" -> occurrences[i].status = "Inapplicable"
      [] OTHER -> occurrences[i].status \in
                    {"Open", "Discharged", "Breached", "UnknownFinal"}

\* One response settles one duty: a duty is discharged exactly when it has a
\* response, that response came between its trigger and its deadline, no
\* two duties share one, and the consumed tokens are the ones duties hold.
LinearTokens ==
  LET answered == {i \in Duties : occurrences[i].response # NoTick} IN
  /\ answered = {i \in Duties : occurrences[i].status = "Discharged"}
  /\ consumed = {occurrences[i].response : i \in answered}
  /\ \A i \in answered :
       /\ occurrences[i].response >= occurrences[i].trigger_tick
       /\ occurrences[i].response <= occurrences[i].deadline
       /\ occurrences[i].response <= tick
       /\ \A j \in answered \ {i} :
            occurrences[i].response # occurrences[j].response

\* A response never overtakes: when it settles a duty, every duty created
\* before that one was already answered, by an earlier response, or was past
\* its deadline.  It must hold for the duties settled as responses arrive and
\* for those settled retroactively in one allocation pass.
NoOvertaking ==
  \A i, j \in Duties :
    (/\ i < j
     /\ occurrences[j].response # NoTick
     /\ occurrences[i].deadline >= occurrences[j].response) =>
       /\ occurrences[i].response # NoTick
       /\ occurrences[i].response < occurrences[j].response

\* A breach carries the time it happened and the time it was found: it happens
\* at the deadline, is found no later than the clock, at expiry on or after the
\* deadline, retroactively after it, and before the deadline only when the run
\* ended by completion or abort.
BreachTimes ==
  \A i \in Duties :
    LET o == occurrences[i] IN
    IF o.status # "Breached"
    THEN o.effective_time = NoTick /\ o.discovery_time = NoTick
    ELSE /\ o.effective_time = o.deadline
         /\ o.discovery_time \in 0..tick
         /\ CASE o.breach_reason = "UnmetAtExpiry" -> o.discovery_time >= o.deadline
              [] o.breach_reason = "RetroactiveActivationAfterDeadline" ->
                   o.discovery_time > o.deadline
              [] o.breach_reason = "UnmetAtComplete" ->
                   /\ terminal_kind = "Complete"
                   /\ o.discovery_time = tick /\ tick < o.deadline
              [] o.breach_reason = "AbortWithOpenObligation" ->
                   /\ terminal_kind = "AgentAbort"
                   /\ o.discovery_time = tick /\ tick < o.deadline
              [] OTHER -> FALSE

\* The ledger is sound: the phases that expire, resolve and convert duties agree
\* on the edge of a deadline, on the guard, and on when a breach happened and
\* was found, whatever order triggers, responses, observations and faults come in.
LedgerSound == LiveWithinDeadline /\ GuardCoherence /\ BreachTimes

\* A breach is never charged while a response the duty could have used lies
\* unconsumed among its candidates: the allocation pass hands out every token
\* it can before it breaches anything.
NoWastedCandidate ==
  \A i \in Duties :
    occurrences[i].status \in {"Breached", "Open"} =>
      \A k \in occurrences[i].candidates :
        k <= occurrences[i].deadline => k \in consumed

-----------------------------------------------------------------------------
(* What no step may do.                                                     *)

\* Nothing the monitor has decided is taken back: a fact keeps its truth value,
\* a duty keeps its trigger and deadline, and once it is discharged, breached,
\* inapplicable or final, its whole record; a violated summary stays violated;
\* and after the end or a fault the ledger is frozen.
KeepsDecisions ==
  /\ \A k \in Keys : Refines(epistemic[k], epistemic'[k])
  /\ \A i \in Duties :
       /\ i \in DOMAIN occurrences'
       /\ occurrences'[i].trigger_tick = occurrences[i].trigger_tick
       /\ occurrences'[i].deadline = occurrences[i].deadline
       /\ occurrences[i].status \in
            {"Discharged", "Breached", "Inapplicable", "UnknownFinal"} =>
              occurrences'[i] = occurrences[i]
  /\ Summary = "Violated" => Summary' = "Violated"
  /\ mode # "Running" =>
       UNCHANGED <<mode, terminal_kind, fault, tick, epistemic, occurrences>>

NoRetraction == [][KeepsDecisions]_vars

=============================================================================
