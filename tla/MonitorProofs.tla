--------------------------- MODULE MonitorProofs ----------------------------
(***************************************************************************)
(* Proofs about Monitor, for every bound, set of tags, keys and ticks:     *)
(* type correctness, the safety of the ledger, that nothing decided is     *)
(* taken back, what responses are spent on, and that the summary is the    *)
(* verdict of BoundedResponse.                                             *)
(*                                                                         *)
(* The lemmas about a step hold of events with any tick (AnyEvent), those  *)
(* of continuations included; set_initial and Next come last.              *)
(***************************************************************************)
EXTENDS MonitorHistory, ObligationsProofs, FiniteSetTheorems, TLAPS

-----------------------------------------------------------------------------
(* Type correctness.                                                        *)
-----------------------------------------------------------------------------
(* Each phase of a step maps a ledger to a ledger over the same aliases.    *)

\* Expiry keeps the ledger well typed.
LEMMA ExpireType ==
  ASSUME NEW D, NEW occs \in [D -> Occurrence], NEW late, NEW now \in Nat
  PROVE  Expire(occs, late, now) \in [D -> Occurrence]
<1> SUFFICES ASSUME NEW i \in D
             PROVE  Expire(occs, late, now)[i] \in Occurrence
  BY DEF Expire
<1>1. occs[i] \in Occurrence
  OBVIOUS
<1>2. Breach(occs[i], "UnmetAtExpiry", now) \in Occurrence
  BY <1>1 DEF Breach, Occurrence, OccurrenceStatus, BreachReasons
<1>3. GuardRemainsUnknownAtDeadline(occs[i]) \in Occurrence
  BY <1>1 DEF GuardRemainsUnknownAtDeadline, Occurrence, OccurrenceStatus
<1> QED
  BY <1>1, <1>2, <1>3 DEF Expire

\* So do the strict and the boundary expiry.
LEMMA PreExpireType ==
  ASSUME NEW D, NEW occs \in [D -> Occurrence], NEW now \in Nat
  PROVE  /\ PreExpire(occs, now) \in [D -> Occurrence]
         /\ BoundaryExpire(occs, now) \in [D -> Occurrence]
BY ExpireType DEF PreExpire, BoundaryExpire

\* The tokens an allocation hands out are recorded candidates, or none.
LEMMA AllocationType ==
  ASSUME NEW D, NEW occs \in [D -> Occurrence], NEW active \in SUBSET D,
         NEW spent, NEW alloc \in Allocations(occs, active, spent)
  PROVE  /\ alloc \in [active -> Nat \cup {NoTick}]
         /\ Used(alloc) \subseteq Nat
<1>1. Recorded(occs, active, spent) \subseteq Nat
  BY DEF Recorded, Occurrence
<1> QED
  BY <1>1 DEF Allocations, Used

\* Resolving the conditional duties keeps the ledger well typed.
LEMMA ResolveType ==
  ASSUME NEW D, NEW occs \in [D -> Occurrence], NEW active \in SUBSET D,
         NEW alloc \in [active -> Nat \cup {NoTick}], NEW guard, NEW now \in Nat
  PROVE  ResolveConditionals(occs, guard, alloc, now) \in [D -> Occurrence]
<1> SUFFICES ASSUME NEW i \in D
             PROVE  ResolveConditionals(occs, guard, alloc, now)[i] \in Occurrence
  BY DEF ResolveConditionals
<1>1. occs[i] \in Occurrence
  OBVIOUS
<1>2. GuardBecomesFalse(occs[i]) \in Occurrence
  BY <1>1 DEF GuardBecomesFalse, Occurrence, OccurrenceStatus
<1>3. ASSUME i \in active
      PROVE  Activate(occs[i], alloc[i], now) \in Occurrence
  <2>1. alloc[i] \in Nat \cup {NoTick}
    BY <1>3
  <2>2. Discharge(occs[i], alloc[i]) \in Occurrence
    BY <1>1, <2>1 DEF Discharge, Occurrence, OccurrenceStatus
  <2>3. [occs[i] EXCEPT !.status = "Open"] \in Occurrence
    BY <1>1 DEF Occurrence, OccurrenceStatus
  <2>4. Breach(occs[i], "RetroactiveActivationAfterDeadline", now) \in Occurrence
    BY <1>1 DEF Breach, Occurrence, OccurrenceStatus, BreachReasons
  <2> QED
    BY <2>2, <2>3, <2>4 DEF Activate
<1>4. GuardsBecomeTrue(occs, alloc, now)[i] \in Occurrence
  BY <1>1, <1>3 DEF GuardsBecomeTrue
<1> QED
  BY <1>2, <1>4 DEF ResolveConditionals

\* A new duty extends the ledger by one well-typed record.
LEMMA TriggerType ==
  ASSUME NEW D, NEW occs \in [D -> Occurrence], NEW oid, NEW guard,
         NEW now \in Nat
  PROVE  InstantiateTrigger(occs, oid, guard, now) \in [D \cup {oid} -> Occurrence]
<1>1. now + Bound \in Nat
  BY BoundAssumption
<1>2. TriggerAndGuardRule(now, now + Bound, guard) \in Occurrence
  BY <1>1 DEF TriggerAndGuardRule, NewOccurrence, Occurrence, OccurrenceStatus,
              BreachReasons
<1> QED
  BY <1>2 DEF InstantiateTrigger

\* Registering a response keeps the ledger well typed.
LEMMA RegisterType ==
  ASSUME NEW D, NEW occs \in [D -> Occurrence], NEW token \in Nat
  PROVE  RegisterResponseToken(occs, token) \in [D -> Occurrence]
<1>1. ASSUME NEW i \in D
      PROVE  /\ Discharge(occs[i], token) \in Occurrence
             /\ [occs[i] EXCEPT !.candidates = @ \cup {token}] \in Occurrence
  <2>1. occs[i] \in Occurrence
    OBVIOUS
  <2> QED
    BY <2>1 DEF Discharge, Occurrence, OccurrenceStatus
<1>2. CASE Eligible(occs, token) # {}
  <2> DEFINE target == First(occs, Eligible(occs, token))
  <2>1. [occs EXCEPT ![target] = Discharge(@, token)] \in [D -> Occurrence]
    BY <1>1
  <2> QED
    BY <1>2, <2>1 DEF RegisterResponseToken
<1>3. CASE Eligible(occs, token) = {}
  BY <1>1, <1>3 DEF RegisterResponseToken
<1> QED
  BY <1>2, <1>3

\* The terminal conversion keeps the ledger well typed.
LEMMA TerminalType ==
  ASSUME NEW D, NEW occs \in [D -> Occurrence], NEW kind, NEW now \in Nat
  PROVE  TerminalConversion(occs, kind, now) \in [D -> Occurrence]
<1> SUFFICES ASSUME NEW i \in D
             PROVE  TerminalConversion(occs, kind, now)[i] \in Occurrence
  BY DEF TerminalConversion
<1>1. occs[i] \in Occurrence
  OBVIOUS
<1>2. /\ Breach(occs[i], "UnmetAtComplete", now) \in Occurrence
      /\ Breach(occs[i], "AbortWithOpenObligation", now) \in Occurrence
  BY <1>1 DEF Breach, Occurrence, OccurrenceStatus, BreachReasons
<1>3. \A reason \in BreachReasons :
        [occs[i] EXCEPT !.status = "UnknownFinal", !.breach_reason = reason]
          \in Occurrence
  BY <1>1 DEF Occurrence, OccurrenceStatus
<1>4. ConvertOpen(occs[i], kind, now) \in Occurrence
  BY <1>2, <1>3 DEF ConvertOpen, BreachReasons
<1>5. ConvertConditional(occs[i], kind) \in Occurrence
  BY <1>3 DEF ConvertConditional, BreachReasons
<1> QED
  BY <1>1, <1>4, <1>5 DEF TerminalConversion

-----------------------------------------------------------------------------
\* The alias a trigger gets is always the next number: the skip loop of
\* _fresh_oid finds the first candidate free.
LEMMA FreshOidIsNext ==
  ASSUME TypeOK, NEW oid \in FreshOids
  PROVE  oid = oid_counter + 1 /\ 1..oid = (1..oid_counter) \cup {oid}
<1>1. oid_counter \in Nat /\ DOMAIN occurrences = 1..oid_counter
  BY DEF TypeOK
<1>2. /\ oid \in Int /\ oid >= oid_counter + 1
      /\ \A m \in (oid_counter + 1)..(oid - 1) : m \in 1..oid_counter
  BY <1>1 DEF FreshOids
<1>3. ~ oid > oid_counter + 1
  BY <1>1, <1>2
<1> QED
  BY <1>1, <1>2, <1>3

\* Typing but for the numbering of the aliases, which a state card may give any
\* names: this is what a step needs, and keeps, of a restored monitor as well.
ShapeOK ==
  /\ mode \in {"Running", "Halted", "Faulted"}
  /\ terminal_kind \in TerminalKinds \cup {"None"}
  /\ fault \in {"None", "NonMonotoneTick", "InconsistentObservation"}
  /\ tick \in Nat \cup {-1}
  /\ mode = "Halted" <=> terminal_kind # "None"
  /\ mode = "Faulted" <=> fault # "None"
  /\ epistemic \in [Keys -> K3]
  /\ oid_counter \in Nat
  /\ Duties \in SUBSET Nat /\ IsFiniteSet(Duties)
  /\ occurrences \in [Duties -> Occurrence]
  /\ consumed \in SUBSET Nat
  /\ diagnostic \in {"None", "NonMonotoneTick", "InconsistentObservation",
                     "AfterTerminalOrFault"}

\* A monitor that numbered its duties itself is in particular well shaped.
LEMMA TypeIsShape ==
  /\ TypeOK => ShapeOK /\ Duties = 1..oid_counter
  /\ ShapeOK /\ Duties = 1..oid_counter /\ (tick = -1 => oid_counter = 0) => TypeOK
<1>1. ASSUME TypeOK PROVE ShapeOK /\ Duties = 1..oid_counter
  <2>1. Duties = 1..oid_counter /\ oid_counter \in Nat
    BY <1>1 DEF TypeOK, Duties
  <2>2. IsFiniteSet(1..oid_counter)
    BY <2>1, FS_Interval
  <2> QED
    BY <1>1, <2>1, <2>2 DEF TypeOK, ShapeOK
<1> QED
  BY <1>1 DEF TypeOK, ShapeOK

\* A trigger gets a new alias, past the counter, whatever the names in use.
LEMMA FreshOidIsNew ==
  ASSUME ShapeOK, NEW oid \in FreshOids
  PROVE  oid \in Nat /\ oid > oid_counter /\ oid \notin Duties
<1>1. Cardinality(Duties) \in Nat
  BY FS_CardinalityType DEF ShapeOK
<1> QED
  BY <1>1 DEF FreshOids, ShapeOK, Duties

\* The events of Monitor, at any tick at all.
AnyEvent ==
  [type : {"Domain"}, tick : Int, tag : Tags, observations : Observations]
  \cup [type : {"Tick"}, tick : Int, observations : Observations]
  \cup [type : {"Terminal"}, tick : Int, kind : TerminalKinds,
        observations : Observations]

\* The events of a run are among them.
LEMMA EventsAreAny == Event \subseteq AnyEvent
<1>1. Ticks \subseteq Int
  BY TicksAssumption
<1>2. DomainEvent \subseteq AnyEvent
  BY <1>1 DEF DomainEvent, AnyEvent
<1>3. TickEvent \subseteq AnyEvent
  BY <1>1 DEF TickEvent, AnyEvent
<1>4. TerminalEvent \subseteq AnyEvent
  BY <1>1 DEF TerminalEvent, AnyEvent
<1> QED
  BY <1>2, <1>3, <1>4 DEF Event

\* What an accepted event does to everything but the ledger.
LEMMA AcceptType ==
  ASSUME ShapeOK, NEW e \in AnyEvent, Accept(e)
  PROVE  /\ e.tick \in Nat /\ tick' = e.tick
         /\ epistemic' \in [Keys -> K3]
         /\ mode = "Running" /\ terminal_kind = "None" /\ fault = "None"
         /\ fault' = "None" /\ diagnostic' = "None"
<1>1. e.tick \in Nat
  BY DEF AnyEvent, ShapeOK, Accept
<1>2. \A obs \in Observations : \A k \in DOMAIN obs : obs[k] \in K3
  <2> SUFFICES ASSUME NEW obs \in Observations, NEW k \in DOMAIN obs
               PROVE  obs[k] \in K3
    OBVIOUS
  <2>1. CASE obs = <<>>
    BY <2>1
  <2>2. CASE \E key \in Keys : obs \in [{key} -> K3]
    BY <2>2
  <2> QED
    BY <2>1, <2>2 DEF Observations
<1>3. e.observations \in Observations
  BY DEF AnyEvent
<1>4. Observed(e.observations) \in [Keys -> K3]
  BY <1>2, <1>3 DEF Observed, ShapeOK
<1>5. mode = "Running" /\ terminal_kind = "None" /\ fault = "None"
  BY DEF Accept, ShapeOK
<1> QED
  BY <1>1, <1>4, <1>5 DEF Accept

\* Phases 3 and 6 of an accepted event.
LEMMA ResolvedType ==
  ASSUME ShapeOK, NEW e, e.tick \in Nat, NEW alloc \in Resolutions(e)
  PROVE  /\ Resolved(e, alloc) \in [Duties -> Occurrence]
         /\ Used(alloc) \subseteq Nat
<1> DEFINE occs == PreExpire(occurrences, e.tick)
           active == Activated(occs, Guard(e))
<1>1. occs \in [Duties -> Occurrence]
  BY PreExpireType DEF ShapeOK
<1>2. active \in SUBSET Duties
  BY <1>1 DEF Activated
<1>3. alloc \in Allocations(occs, active, consumed)
  BY DEF Resolutions
<1>4. Resolved(e, alloc) = ResolveConditionals(occs, Guard(e), alloc, e.tick)
  BY DEF Resolved
<1> HIDE DEF occs, active
<1>5. /\ alloc \in [active -> Nat \cup {NoTick}]
      /\ Used(alloc) \subseteq Nat
  BY <1>1, <1>2, <1>3, AllocationType
<1>6. e.tick \in Nat
  OBVIOUS
<1>7. \A guard, now : now \in Nat =>
        ResolveConditionals(occs, guard, alloc, now) \in [Duties -> Occurrence]
  BY <1>1, <1>2, <1>5, ResolveType
<1> QED
  BY <1>4, <1>5, <1>6, <1>7

-----------------------------------------------------------------------------
(* Type correctness.                                                        *)

\* A new monitor is well typed.
LEMMA InitType == Init => TypeOK
<1> SUFFICES ASSUME Init PROVE TypeOK
  OBVIOUS
<1>1. occurrences \in [1..oid_counter -> Occurrence]
  <2>1. 1..0 = {}
    OBVIOUS
  <2> QED
    BY <2>1 DEF Init
<1>2. epistemic \in [Keys -> K3]
  BY DEF Init, K3
<1> QED
  BY <1>1, <1>2 DEF Init, TypeOK, TerminalKinds

\* A domain event leaves the monitor well shaped, with one duty more if it is a
\* trigger.
LEMMA DomainShape ==
  ASSUME ShapeOK, NEW e \in AnyEvent, StepDomain(e)
  PROVE  /\ ShapeOK' /\ tick' # -1
         /\ \E oid \in FreshOids :
              IF e.tag = TriggerTag
              THEN Duties' = Duties \cup {oid} /\ oid_counter' = oid
              ELSE UNCHANGED <<Duties, oid_counter>>
<1>1. /\ e.tick \in Nat /\ tick' = e.tick
      /\ epistemic' \in [Keys -> K3]
      /\ mode = "Running" /\ terminal_kind = "None" /\ fault = "None"
      /\ fault' = "None" /\ diagnostic' = "None"
  BY AcceptType DEF StepDomain
<1>2. PICK alloc \in Resolutions(e), oid \in FreshOids :
        /\ occurrences' = BoundaryExpire(Answered(e, alloc, oid), e.tick)
        /\ oid_counter' = IF e.tag = TriggerTag THEN oid ELSE oid_counter
        /\ consumed' = consumed \cup Used(alloc) \cup
                         {t \in {e.tick} : /\ e.tag = ResponseTag
                                           /\ Eligible(Triggered(e, alloc, oid), t) # {}}
  BY DEF StepDomain
<1>3. /\ Resolved(e, alloc) \in [Duties -> Occurrence]
      /\ Used(alloc) \subseteq Nat
  BY <1>1, ResolvedType
<1> DEFINE D == IF e.tag = TriggerTag THEN Duties \cup {oid} ELSE Duties
<1>4. oid \in Nat /\ oid_counter' \in Nat
  BY <1>2, FreshOidIsNew DEF ShapeOK
<1>5. D \in SUBSET Nat /\ IsFiniteSet(D)
  BY <1>4, FS_AddElement DEF ShapeOK
<1>6. Triggered(e, alloc, oid) \in [D -> Occurrence]
  <2>1. CASE e.tag = TriggerTag
    <3>1. InstantiateTrigger(Resolved(e, alloc), oid, Guard(e), e.tick)
            \in [Duties \cup {oid} -> Occurrence]
      BY <1>1, <1>3, TriggerType
    <3> QED
      BY <2>1, <3>1 DEF Triggered
  <2>2. CASE e.tag # TriggerTag
    BY <1>3, <2>2 DEF Triggered
  <2> QED
    BY <2>1, <2>2
<1> HIDE DEF D
<1>7. Answered(e, alloc, oid) \in [D -> Occurrence]
  BY <1>1, <1>6, RegisterType DEF Answered
<1>8. occurrences' \in [D -> Occurrence] /\ Duties' = D
  <2>1. occurrences' \in [D -> Occurrence]
    BY <1>1, <1>2, <1>7, PreExpireType
  <2> QED
    BY <2>1 DEF Duties
<1>9. consumed' \in SUBSET Nat
  BY <1>1, <1>2, <1>3 DEF ShapeOK
<1>10. mode' = "Running" /\ terminal_kind' = "None"
  BY <1>1 DEF StepDomain
<1>11. ShapeOK' /\ tick' # -1
  BY <1>1, <1>4, <1>5, <1>8, <1>9, <1>10 DEF ShapeOK
<1> QED
  BY <1>2, <1>8, <1>11 DEF D

\* A tick or terminal event leaves the aliases as they were.
LEMMA SilentShape ==
  ASSUME ShapeOK, NEW e \in AnyEvent, StepTick(e) \/ StepTerminal(e)
  PROVE  ShapeOK' /\ tick' # -1 /\ UNCHANGED <<Duties, oid_counter>>
<1>1. /\ e.tick \in Nat /\ tick' = e.tick
      /\ epistemic' \in [Keys -> K3]
      /\ mode = "Running" /\ terminal_kind = "None" /\ fault = "None"
      /\ fault' = "None" /\ diagnostic' = "None"
  BY AcceptType DEF StepTick, StepTerminal
<1>2. PICK alloc \in Resolutions(e) :
        /\ \/ occurrences' = BoundaryExpire(Resolved(e, alloc), e.tick)
           \/ occurrences' =
                TerminalConversion(BoundaryExpire(Resolved(e, alloc), e.tick),
                                   e.kind, e.tick)
        /\ consumed' = consumed \cup Used(alloc)
  BY DEF StepTick, StepTerminal
<1>3. /\ Resolved(e, alloc) \in [Duties -> Occurrence]
      /\ Used(alloc) \subseteq Nat
  BY <1>1, ResolvedType
<1>4. BoundaryExpire(Resolved(e, alloc), e.tick) \in [Duties -> Occurrence]
  BY <1>1, <1>3, PreExpireType
<1>5. occurrences' \in [Duties -> Occurrence] /\ Duties' = Duties
  <2>1. occurrences' \in [Duties -> Occurrence]
    BY <1>1, <1>2, <1>4, TerminalType
  <2> QED
    BY <2>1 DEF Duties
<1>6. oid_counter' = oid_counter /\ consumed' \in SUBSET Nat
  BY <1>2, <1>3 DEF StepTick, StepTerminal, ShapeOK
<1>7. \/ mode' = "Running" /\ terminal_kind' = "None"
      \/ mode' = "Halted" /\ terminal_kind' \in TerminalKinds /\ terminal_kind' # "None"
  BY <1>1 DEF StepTick, StepTerminal, AnyEvent, TerminalKinds
<1> QED
  BY <1>1, <1>5, <1>6, <1>7 DEF ShapeOK

\* Every event keeps the shape.
LEMMA StepShape ==
  ASSUME ShapeOK, NEW e \in AnyEvent, Step(e)
  PROVE  /\ ShapeOK' /\ (tick' = -1 => tick = -1 /\ oid_counter' = oid_counter)
         /\ \/ UNCHANGED <<Duties, oid_counter>>
            \/ \E oid \in FreshOids : Duties' = Duties \cup {oid} /\ oid_counter' = oid
<1>1. CASE StepAfterEnd(e)
  BY <1>1 DEF StepAfterEnd, ShapeOK, Duties
<1>2. CASE StepStale(e)
  BY <1>2 DEF StepStale, ShapeOK, Duties
<1>3. CASE StepContradiction(e)
  <2>1. e.tick \in Nat
    BY <1>3 DEF AnyEvent, StepContradiction, ShapeOK
  <2>2. occurrences' \in [Duties -> Occurrence]
    BY <1>3, <2>1, PreExpireType DEF StepContradiction, ShapeOK
  <2>3. Duties' = Duties
    BY <2>2 DEF Duties
  <2> QED
    BY <1>3, <2>1, <2>2, <2>3 DEF StepContradiction, ShapeOK
<1>4. CASE StepDomain(e)
  BY <1>4, DomainShape
<1>5. CASE StepTick(e) \/ StepTerminal(e)
  BY <1>5, SilentShape
<1> QED
  BY <1>1, <1>2, <1>3, <1>4, <1>5 DEF Step

\* Every event keeps the monitor well typed.
LEMMA StepType ==
  ASSUME TypeOK, NEW e \in AnyEvent, Step(e)
  PROVE  TypeOK'
<1>1. ShapeOK /\ Duties = 1..oid_counter /\ (tick = -1 => oid_counter = 0)
  BY TypeIsShape DEF TypeOK
<1>2. /\ ShapeOK' /\ (tick' = -1 => tick = -1 /\ oid_counter' = oid_counter)
      /\ \/ UNCHANGED <<Duties, oid_counter>>
         \/ \E oid \in FreshOids : Duties' = Duties \cup {oid} /\ oid_counter' = oid
  BY <1>1, StepShape
<1>3. Duties' = 1..oid_counter'
  BY <1>1, <1>2, FreshOidIsNext
<1> QED
  BY <1>1, <1>2, <1>3 DEF TypeOK, ShapeOK

\* So does every step.
LEMMA NextType == TypeOK /\ [Next]_vars => TypeOK'
<1> SUFFICES ASSUME TypeOK, [Next]_vars PROVE TypeOK'
  OBVIOUS
<1>1. ASSUME NEW key \in Keys, NEW value \in K3, SetInitial(key, value)
      PROVE  TypeOK'
  BY <1>1 DEF SetInitial, TypeOK
<1>2. CASE UNCHANGED vars
  BY <1>2 DEF vars, TypeOK
<1> QED
  BY <1>1, <1>2, StepType, EventsAreAny DEF Next

\* Every reachable state of the monitor is well typed: in particular the aliases
\* in the ledger are exactly 1 to the counter, so _fresh_oid never skips one
\* and no record is ever overwritten.
THEOREM TypeCorrect == Spec => []TypeOK
BY InitType, NextType, PTL DEF Spec

-----------------------------------------------------------------------------
(* Safety.                                                                  *)
(*                                                                          *)
(* The three properties LiveWithinDeadline, GuardCoherence and BreachTimes  *)
(* are inductive together with the type invariant, and not one by one: a    *)
(* duty is breached at its deadline only because it was still open, and it  *)
(* was open only because its guard was true.  Inside a step they hold of    *)
(* the ledger in a weaker form, in which a live duty may be due at this     *)
(* very tick; every phase keeps that form, and the boundary expiry or the   *)
(* terminal conversion restores the strong one.                             *)
-----------------------------------------------------------------------------
(* One record, in the middle of a step.                                     *)

InTime(o, now) ==
  /\ o.status \in {"Open", "ConditionalOpen"} => now <= o.deadline
  /\ o.status = "ConditionalExpired" => o.deadline <= now
  /\ o.status # "UnknownFinal"

Coherent(o, guard) ==
  /\ guard = "U" => o.status \in Conditional
  /\ guard = "F" => o.status = "Inapplicable"
  /\ guard = "T" => o.status \in {"Open", "Discharged", "Breached"}

Dated(o, now) ==
  /\ o.status # "Breached" =>
       o.effective_time = NoTick /\ o.discovery_time = NoTick
  /\ o.status = "Breached" =>
       /\ o.effective_time = o.deadline
       /\ o.discovery_time \in 0..now
       /\ \/ o.breach_reason = "UnmetAtExpiry" /\ o.discovery_time >= o.deadline
          \/ /\ o.breach_reason = "RetroactiveActivationAfterDeadline"
             /\ o.discovery_time > o.deadline

Sound(o, guard, now) == InTime(o, now) /\ Coherent(o, guard) /\ Dated(o, now)

SoundLedger(occs, guard, now) ==
  \A i \in DOMAIN occs : Sound(occs[i], guard, now)

\* The strong form: no duty is due at this tick.
Ahead(o, now) == o.status \in {"Open", "ConditionalOpen"} => now < o.deadline

-----------------------------------------------------------------------------
(* Each phase keeps the weak form.                                          *)

\* The strict expiry carries it to the event's tick.
LEMMA PreExpireSound ==
  ASSUME NEW D, NEW occs \in [D -> Occurrence], NEW guard \in K3,
         NEW before \in Nat \cup {-1}, NEW now \in Nat, before < now,
         SoundLedger(occs, guard, before)
  PROVE  SoundLedger(PreExpire(occs, now), guard, now)
<1> SUFFICES ASSUME NEW i \in D
             PROVE  Sound(PreExpire(occs, now)[i], guard, now)
  BY DEF SoundLedger, PreExpire, Expire
<1> DEFINE o == occs[i]
<1>1. o \in Occurrence /\ Sound(o, guard, before)
  BY DEF SoundLedger
<1>2. o.deadline \in Nat
  BY <1>1 DEF Occurrence
<1>3. CASE o.deadline < now /\ o.status = "Open"
  <2>1. PreExpire(occs, now)[i] = Breach(o, "UnmetAtExpiry", now)
    BY <1>3 DEF PreExpire, Expire
  <2>2. Sound(Breach(o, "UnmetAtExpiry", now), guard, now)
    BY <1>1, <1>2, <1>3
    DEF Sound, InTime, Coherent, Dated, Breach, Occurrence, Conditional, K3
  <2> QED
    BY <2>1, <2>2
<1>4. CASE o.deadline < now /\ o.status = "ConditionalOpen"
  <2>1. PreExpire(occs, now)[i] = GuardRemainsUnknownAtDeadline(o)
    BY <1>4 DEF PreExpire, Expire
  <2>2. Sound(GuardRemainsUnknownAtDeadline(o), guard, now)
    BY <1>1, <1>2, <1>4
    DEF Sound, InTime, Coherent, Dated, GuardRemainsUnknownAtDeadline,
        Occurrence, Conditional, K3
  <2> QED
    BY <2>1, <2>2
<1>5. CASE ~ (o.deadline < now /\ o.status \in {"Open", "ConditionalOpen"})
  <2>1. PreExpire(occs, now)[i] = o
    BY <1>5 DEF PreExpire, Expire
  <2>2. InTime(o, now)
    BY <1>1, <1>2, <1>5 DEF Sound, InTime
  <2>3. Dated(o, now)
    BY <1>1 DEF Sound, Dated, Occurrence
  <2> QED
    BY <1>1, <2>1, <2>2, <2>3 DEF Sound
<1> QED
  BY <1>3, <1>4, <1>5

\* The resolution of the conditional duties carries it to the guard's new value.
LEMMA ResolveSound ==
  ASSUME NEW D, NEW occs \in [D -> Occurrence], NEW now \in Nat,
         NEW guard \in K3, NEW value \in K3, Refines(guard, value),
         NEW alloc \in [Activated(occs, value) -> Nat \cup {NoTick}],
         SoundLedger(occs, guard, now)
  PROVE  SoundLedger(ResolveConditionals(occs, value, alloc, now), value, now)
<1> SUFFICES ASSUME NEW i \in D
             PROVE  Sound(ResolveConditionals(occs, value, alloc, now)[i], value, now)
  BY DEF SoundLedger, ResolveConditionals
<1> DEFINE o == occs[i]
           after == ResolveConditionals(occs, value, alloc, now)[i]
<1>1. o \in Occurrence /\ Sound(o, guard, now)
  BY DEF SoundLedger
<1>2. o.deadline \in Nat
  BY <1>1 DEF Occurrence
<1>3. i \in DOMAIN alloc <=> o.status \in Conditional /\ value = "T"
  BY DEF Activated
<1>4. CASE o.status \in Conditional /\ value = "T"
  <2>1. after = Activate(o, alloc[i], now)
    BY <1>3, <1>4 DEF ResolveConditionals, GuardsBecomeTrue
  <2>2. alloc[i] \in Nat \cup {NoTick}
    BY <1>3, <1>4
  <2>3. o.effective_time = NoTick /\ o.discovery_time = NoTick
    BY <1>1, <1>4 DEF Sound, Dated, Conditional
  <2>4. Sound(Discharge(o, alloc[i]), value, now)
    BY <1>1, <1>4, <2>3
    DEF Sound, InTime, Coherent, Dated, Discharge, Occurrence
  <2>5. now <= o.deadline => Sound([o EXCEPT !.status = "Open"], value, now)
    BY <1>1, <1>4, <2>3 DEF Sound, InTime, Coherent, Dated, Occurrence
  <2>6. o.deadline < now =>
          Sound(Breach(o, "RetroactiveActivationAfterDeadline", now), value, now)
    BY <1>1, <1>2, <1>4 DEF Sound, InTime, Coherent, Dated, Breach, Occurrence
  <2> QED
    BY <1>2, <2>1, <2>2, <2>4, <2>5, <2>6 DEF Activate
<1>5. CASE o.status \in Conditional /\ value = "F"
  <2>1. after = GuardBecomesFalse(o)
    BY <1>5 DEF ResolveConditionals
  <2>2. o.effective_time = NoTick /\ o.discovery_time = NoTick
    BY <1>1, <1>5 DEF Sound, Dated, Conditional
  <2>3. Sound(GuardBecomesFalse(o), value, now)
    BY <1>1, <1>5, <2>2
    DEF Sound, InTime, Coherent, Dated, GuardBecomesFalse, Occurrence
  <2> QED
    BY <2>1, <2>3
<1>6. CASE ~ (o.status \in Conditional /\ value \in {"T", "F"})
  <2>1. after = o
    BY <1>3, <1>6 DEF ResolveConditionals, GuardsBecomeTrue
  <2>2. guard = value
    BY <1>1, <1>6 DEF Sound, Coherent, Refines, K3
  <2> QED
    BY <1>1, <2>1, <2>2
<1> QED
  BY <1>4, <1>5, <1>6

\* So does a new trigger: its deadline is not before this tick.
LEMMA TriggerSound ==
  ASSUME NEW D, NEW occs \in [D -> Occurrence], NEW oid, NEW guard \in K3,
         NEW now \in Nat, SoundLedger(occs, guard, now)
  PROVE  SoundLedger(InstantiateTrigger(occs, oid, guard, now), guard, now)
<1>1. now + Bound \in Nat /\ now <= now + Bound
  BY BoundAssumption
<1>2. Sound(TriggerAndGuardRule(now, now + Bound, guard), guard, now)
  BY <1>1 DEF Sound, InTime, Coherent, Dated, TriggerAndGuardRule, NewOccurrence,
              Conditional, K3
<1>3. \A i \in D : Sound(occs[i], guard, now)
  BY DEF SoundLedger
<1> QED
  BY <1>2, <1>3 DEF SoundLedger, InstantiateTrigger

\* So does a response: it settles an open duty, or becomes a candidate.
LEMMA RegisterSound ==
  ASSUME NEW D \in SUBSET Nat, NEW occs \in [D -> Occurrence], NEW guard \in K3,
         NEW now \in Nat, NEW token \in Nat, SoundLedger(occs, guard, now)
  PROVE  SoundLedger(RegisterResponseToken(occs, token), guard, now)
<1>1. \A i \in D : occs[i] \in Occurrence /\ Sound(occs[i], guard, now)
  BY DEF SoundLedger
<1>2. CASE Eligible(occs, token) # {}
  <2> DEFINE target == First(occs, Eligible(occs, token))
  <2>1. Eligible(occs, token) \in SUBSET D
    BY DEF Eligible
  <2>2. target \in Eligible(occs, token)
    BY <1>2, <2>1, FirstIsLeast
  <2>3. target \in D /\ occs[target].status = "Open"
    BY <2>2 DEF Eligible
  <2> HIDE DEF target
  <2>4. Sound(Discharge(occs[target], token), guard, now)
    BY <1>1, <2>3
    DEF Sound, InTime, Coherent, Dated, Discharge, Occurrence, Conditional
  <2>5. RegisterResponseToken(occs, token) =
          [occs EXCEPT ![target] = Discharge(occs[target], token)]
    BY <1>2 DEF RegisterResponseToken, target
  <2> QED
    BY <1>1, <2>3, <2>4, <2>5 DEF SoundLedger
<1>3. CASE Eligible(occs, token) = {}
  <2>1. \A i \in D : Sound([occs[i] EXCEPT !.candidates = @ \cup {token}], guard, now)
    BY <1>1 DEF Sound, InTime, Coherent, Dated, Occurrence
  <2> QED
    BY <1>1, <1>3, <2>1 DEF SoundLedger, RegisterResponseToken
<1> QED
  BY <1>2, <1>3

\* The boundary expiry restores the strong form.
LEMMA BoundarySound ==
  ASSUME NEW D, NEW occs \in [D -> Occurrence], NEW guard \in K3,
         NEW now \in Nat, SoundLedger(occs, guard, now)
  PROVE  /\ SoundLedger(BoundaryExpire(occs, now), guard, now)
         /\ \A i \in D : Ahead(BoundaryExpire(occs, now)[i], now)
<1> SUFFICES ASSUME NEW i \in D
             PROVE  /\ Sound(BoundaryExpire(occs, now)[i], guard, now)
                    /\ Ahead(BoundaryExpire(occs, now)[i], now)
  BY DEF SoundLedger, BoundaryExpire, Expire
<1> DEFINE o == occs[i]
<1>1. o \in Occurrence /\ Sound(o, guard, now) /\ o.deadline \in Nat
  BY DEF SoundLedger, Occurrence
<1>2. CASE o.deadline = now /\ o.status = "Open"
  <2>1. BoundaryExpire(occs, now)[i] = Breach(o, "UnmetAtExpiry", now)
    BY <1>2 DEF BoundaryExpire, Expire
  <2>2. Sound(Breach(o, "UnmetAtExpiry", now), guard, now)
    BY <1>1, <1>2
    DEF Sound, InTime, Coherent, Dated, Breach, Occurrence, Conditional, K3
  <2>3. Ahead(Breach(o, "UnmetAtExpiry", now), now)
    BY <1>1 DEF Ahead, Breach, Occurrence
  <2> QED
    BY <2>1, <2>2, <2>3
<1>3. CASE o.deadline = now /\ o.status = "ConditionalOpen"
  <2>1. BoundaryExpire(occs, now)[i] = GuardRemainsUnknownAtDeadline(o)
    BY <1>3 DEF BoundaryExpire, Expire
  <2>2. Sound(GuardRemainsUnknownAtDeadline(o), guard, now)
    BY <1>1, <1>3
    DEF Sound, InTime, Coherent, Dated, GuardRemainsUnknownAtDeadline,
        Occurrence, Conditional, K3
  <2>3. Ahead(GuardRemainsUnknownAtDeadline(o), now)
    BY <1>1 DEF Ahead, GuardRemainsUnknownAtDeadline, Occurrence
  <2> QED
    BY <2>1, <2>2, <2>3
<1>4. CASE ~ (o.deadline = now /\ o.status \in {"Open", "ConditionalOpen"})
  <2>1. BoundaryExpire(occs, now)[i] = o
    BY <1>4 DEF BoundaryExpire, Expire
  <2>2. Ahead(o, now)
    BY <1>1, <1>4 DEF Ahead, Sound, InTime
  <2> QED
    BY <1>1, <2>1, <2>2
<1> QED
  BY <1>2, <1>3, <1>4

-----------------------------------------------------------------------------
(* The inductive invariant, and what it says while the monitor runs.        *)

IInv ==
  /\ ShapeOK
  /\ LiveWithinDeadline
  /\ GuardCoherence
  /\ BreachTimes

\* A running ledger that satisfies the invariants satisfies the weaker form.
LEMMA RunningIsSound ==
  ASSUME IInv, mode = "Running"
  PROVE  SoundLedger(occurrences, epistemic[GuardKey], tick)
<1> SUFFICES ASSUME NEW i \in Duties
             PROVE  Sound(occurrences[i], epistemic[GuardKey], tick)
  BY DEF SoundLedger, Duties
<1> DEFINE o == occurrences[i]
<1>1. o \in Occurrence /\ terminal_kind = "None" /\ fault = "None"
  BY DEF IInv, ShapeOK, Duties
<1>2. o.deadline \in Nat /\ tick \in Nat \cup {-1}
  BY <1>1 DEF Occurrence, IInv, ShapeOK
<1>3. InTime(o, tick)
  BY <1>1, <1>2 DEF IInv, LiveWithinDeadline, InTime
<1>4. Coherent(o, epistemic[GuardKey])
  BY <1>3, GuardAssumption DEF IInv, GuardCoherence, Coherent, InTime
<1>5. Dated(o, tick)
  BY <1>1 DEF IInv, BreachTimes, Dated
<1> QED
  BY <1>3, <1>4, <1>5 DEF Sound

\* A step that leaves a sound ledger in which nothing is due, and does not end
\* the run, keeps the invariant.
LEMMA SoundIsRunning ==
  ASSUME ShapeOK', mode' = "Running",
         SoundLedger(occurrences', epistemic'[GuardKey], tick'),
         \A i \in DOMAIN occurrences' : Ahead(occurrences'[i], tick')
  PROVE  IInv'
<1>1. epistemic'[GuardKey] \in K3 /\ terminal_kind' = "None" /\ fault' = "None"
  BY GuardAssumption DEF ShapeOK
<1>2. \A i \in Duties' : Sound(occurrences'[i], epistemic'[GuardKey], tick')
  BY DEF SoundLedger, Duties
<1>3. \A i \in Duties' :
        /\ occurrences'[i].deadline \in Nat
        /\ tick' \in Nat \cup {-1}
  BY DEF ShapeOK, Duties, Occurrence
<1>4. LiveWithinDeadline'
  BY <1>2, <1>3 DEF LiveWithinDeadline, Sound, InTime, Ahead, Duties
<1>5. GuardCoherence'
  BY <1>1, <1>2 DEF GuardCoherence, Sound, Coherent, K3
<1>6. BreachTimes'
  BY <1>2 DEF BreachTimes, Sound, Dated
<1> QED
  BY <1>4, <1>5, <1>6 DEF IInv

\* The phases before the instantiation, at any accepted event.
LEMMA AcceptedIsSound ==
  ASSUME IInv, NEW e \in AnyEvent, Accept(e), NEW alloc \in Resolutions(e)
  PROVE  /\ Guard(e) \in K3 /\ Guard(e) = epistemic'[GuardKey]
         /\ SoundLedger(Resolved(e, alloc), Guard(e), e.tick)
<1> DEFINE occs == PreExpire(occurrences, e.tick)
           active == Activated(occs, Guard(e))
<1>1. /\ ShapeOK
      /\ tick \in Nat \cup {-1} /\ e.tick \in Nat /\ tick < e.tick
      /\ epistemic' \in [Keys -> K3]
      /\ mode = "Running"
  BY AcceptType DEF IInv, ShapeOK, Accept
<1>2. /\ Guard(e) = epistemic'[GuardKey]
      /\ Guard(e) \in K3 /\ epistemic[GuardKey] \in K3
  BY <1>1, GuardAssumption DEF Guard, Accept, ShapeOK
<1>3. Refines(epistemic[GuardKey], Guard(e))
  BY <1>1, GuardAssumption DEF Accept, Contradicts, Guard, Observed, Refines
<1>4. occurrences \in [Duties -> Occurrence]
  BY <1>1 DEF ShapeOK
<1>5. /\ occs \in [Duties -> Occurrence]
      /\ SoundLedger(occs, epistemic[GuardKey], e.tick)
  BY <1>1, <1>2, <1>4, RunningIsSound, PreExpireSound, PreExpireType
<1>6. alloc \in Allocations(occs, active, consumed)
  BY DEF Resolutions
<1>7. active \in SUBSET Duties
  BY <1>5 DEF Activated
<1>8. Resolved(e, alloc) = ResolveConditionals(occs, Guard(e), alloc, e.tick)
  BY DEF Resolved
<1> HIDE DEF occs
<1>9. alloc \in [Activated(occs, Guard(e)) -> Nat \cup {NoTick}]
  BY <1>5, <1>6, <1>7, AllocationType
<1> DEFINE now == e.tick
           value == Guard(e)
<1>10. now \in Nat /\ value \in K3
  BY <1>1, <1>2
<1> HIDE DEF now, value
<1>11. SoundLedger(ResolveConditionals(occs, value, alloc, now), value, now)
  BY <1>2, <1>3, <1>5, <1>9, <1>10, ResolveSound DEF now, value
<1> QED
  BY <1>2, <1>8, <1>11 DEF now, value

-----------------------------------------------------------------------------
(* The invariant is preserved: one lemma for each way a step can change the *)
(* ledger.                                                                  *)

\* A domain event keeps the invariants.
LEMMA DomainSafe ==
  ASSUME IInv, NEW e \in AnyEvent, StepDomain(e)
  PROVE  IInv'
<1>1. ShapeOK' /\ ShapeOK
  BY DomainShape DEF IInv
<1>2. e.tick \in Nat /\ tick' = e.tick /\ mode' = "Running"
  BY <1>1, AcceptType DEF StepDomain
<1>3. PICK alloc \in Resolutions(e), oid \in FreshOids :
        occurrences' = BoundaryExpire(Answered(e, alloc, oid), e.tick)
  BY DEF StepDomain
<1> DEFINE guard == Guard(e)
           now == e.tick
<1>4. /\ guard \in K3 /\ guard = epistemic'[GuardKey] /\ now \in Nat
      /\ SoundLedger(Resolved(e, alloc), guard, now)
  BY <1>2, AcceptedIsSound DEF StepDomain
<1>5. Resolved(e, alloc) \in [Duties -> Occurrence]
  BY <1>1, <1>2, ResolvedType
<1>6. oid \in Nat
  BY <1>1, FreshOidIsNew
<1> DEFINE D == Duties \cup (IF e.tag = TriggerTag THEN {oid} ELSE {})
<1>7. Triggered(e, alloc, oid) \in [D -> Occurrence]
  <2>1. CASE e.tag = TriggerTag
    BY <1>2, <1>5, <2>1, TriggerType DEF Triggered
  <2>2. CASE e.tag # TriggerTag
    BY <1>5, <2>2 DEF Triggered
  <2> QED
    BY <2>1, <2>2
<1>8. D \in SUBSET Nat
  BY <1>1, <1>6 DEF ShapeOK
<1>9. Triggered(e, alloc, oid) =
        IF e.tag = TriggerTag
        THEN InstantiateTrigger(Resolved(e, alloc), oid, guard, now)
        ELSE Resolved(e, alloc)
  BY DEF Triggered
<1>10. Answered(e, alloc, oid) =
         IF e.tag = ResponseTag
         THEN RegisterResponseToken(Triggered(e, alloc, oid), now)
         ELSE Triggered(e, alloc, oid)
  BY DEF Answered
<1>11. occurrences' = BoundaryExpire(Answered(e, alloc, oid), now)
  BY <1>3
<1>12. tick' = now
  BY <1>2
<1> HIDE DEF guard, now, D
<1>13. SoundLedger(Triggered(e, alloc, oid), guard, now)
  BY <1>4, <1>5, <1>9, TriggerSound
<1>14. /\ Answered(e, alloc, oid) \in [D -> Occurrence]
       /\ SoundLedger(Answered(e, alloc, oid), guard, now)
  <2>1. CASE e.tag = ResponseTag
    <3>1. RegisterResponseToken(Triggered(e, alloc, oid), now) \in [D -> Occurrence]
      BY <1>4, <1>7, RegisterType
    <3>2. SoundLedger(RegisterResponseToken(Triggered(e, alloc, oid), now), guard, now)
      BY <1>4, <1>7, <1>8, <1>13, RegisterSound
    <3> QED
      BY <1>10, <2>1, <3>1, <3>2
  <2>2. CASE e.tag # ResponseTag
    BY <1>7, <1>10, <1>13, <2>2
  <2> QED
    BY <2>1, <2>2
<1>15. /\ SoundLedger(occurrences', guard, now)
       /\ \A i \in D : Ahead(occurrences'[i], now)
       /\ DOMAIN occurrences' = D
  BY <1>4, <1>11, <1>14, BoundarySound, PreExpireType
<1> QED
  BY <1>1, <1>2, <1>4, <1>12, <1>15, SoundIsRunning

\* So does a tick event.
LEMMA TickSafe ==
  ASSUME IInv, NEW e \in AnyEvent, StepTick(e)
  PROVE  IInv'
<1>1. ShapeOK' /\ ShapeOK
  BY SilentShape DEF IInv
<1>2. e.tick \in Nat /\ tick' = e.tick /\ mode' = "Running"
  BY <1>1, AcceptType DEF StepTick
<1>3. PICK alloc \in Resolutions(e) :
        occurrences' = BoundaryExpire(Resolved(e, alloc), e.tick)
  BY DEF StepTick
<1>4. /\ Guard(e) \in K3 /\ Guard(e) = epistemic'[GuardKey]
      /\ SoundLedger(Resolved(e, alloc), Guard(e), e.tick)
  BY AcceptedIsSound DEF StepTick
<1>5. Resolved(e, alloc) \in [Duties -> Occurrence]
  BY <1>1, <1>2, ResolvedType
<1>6. /\ SoundLedger(BoundaryExpire(Resolved(e, alloc), e.tick), Guard(e), e.tick)
      /\ \A i \in Duties :
           Ahead(BoundaryExpire(Resolved(e, alloc), e.tick)[i], e.tick)
  BY <1>2, <1>4, <1>5, BoundarySound
<1>7. DOMAIN occurrences' = Duties
  BY <1>2, <1>3, <1>5, PreExpireType
<1> QED
  BY <1>1, <1>2, <1>3, <1>4, <1>6, <1>7, SoundIsRunning

\* So does a terminal event.
LEMMA TerminalSafe ==
  ASSUME IInv, NEW e \in AnyEvent, StepTerminal(e)
  PROVE  IInv'
<1>1. ShapeOK' /\ ShapeOK
  BY SilentShape DEF IInv
<1>2. /\ e.tick \in Nat /\ tick' = e.tick /\ mode' = "Halted"
      /\ terminal_kind' = e.kind /\ e.kind \in TerminalKinds
  BY <1>1, AcceptType
  DEF StepTerminal, AnyEvent
<1>3. PICK alloc \in Resolutions(e) :
        occurrences' = TerminalConversion(BoundaryExpire(Resolved(e, alloc), e.tick),
                                          e.kind, e.tick)
  BY DEF StepTerminal
<1> DEFINE occs == BoundaryExpire(Resolved(e, alloc), e.tick)
           guard == Guard(e)
<1>4. /\ guard \in K3 /\ guard = epistemic'[GuardKey]
      /\ SoundLedger(Resolved(e, alloc), guard, e.tick)
  BY AcceptedIsSound DEF StepTerminal
<1>5. Resolved(e, alloc) \in [Duties -> Occurrence]
  BY <1>1, <1>2, ResolvedType
<1>6. /\ occs \in [Duties -> Occurrence]
      /\ SoundLedger(occs, guard, e.tick)
      /\ \A i \in Duties : Ahead(occs[i], e.tick)
  BY <1>2, <1>4, <1>5, BoundarySound, PreExpireType
<1>7. occurrences' = TerminalConversion(occs, e.kind, e.tick)
  BY <1>3
<1> HIDE DEF occs, guard
<1>8. DOMAIN occurrences' = Duties
  BY <1>6, <1>7 DEF TerminalConversion
<1>9. ASSUME NEW i \in Duties
      PROVE  /\ occurrences'[i].status \notin
                   {"Open", "ConditionalOpen", "ConditionalExpired"}
             /\ guard = "U" => occurrences'[i].status = "UnknownFinal"
             /\ guard = "F" => occurrences'[i].status = "Inapplicable"
             /\ guard = "T" => occurrences'[i].status \in
                                 {"Open", "Discharged", "Breached", "UnknownFinal"}
             /\ \/ Dated(occurrences'[i], e.tick)
                \/ /\ occurrences'[i].status = "Breached"
                   /\ occurrences'[i].effective_time = occurrences'[i].deadline
                   /\ occurrences'[i].discovery_time = e.tick
                   /\ e.tick < occurrences'[i].deadline
                   /\ \/ /\ e.kind = "Complete"
                         /\ occurrences'[i].breach_reason = "UnmetAtComplete"
                      \/ /\ e.kind = "AgentAbort"
                         /\ occurrences'[i].breach_reason = "AbortWithOpenObligation"
  <2> DEFINE o == occs[i]
  <2>1. o \in Occurrence /\ Sound(o, guard, e.tick) /\ Ahead(o, e.tick)
    BY <1>6 DEF SoundLedger
  <2>2. CASE o.status = "Open"
    <3>1. occurrences'[i] = ConvertOpen(o, e.kind, e.tick)
      BY <1>6, <1>7, <2>2 DEF TerminalConversion, Conditional
    <3>2. guard = "T"
      BY <1>4, <2>1, <2>2 DEF Sound, Coherent, K3, Conditional
    <3>3. e.tick < o.deadline
      BY <2>1, <2>2 DEF Ahead
    <3>4. o.effective_time = NoTick /\ o.discovery_time = NoTick
      BY <2>1, <2>2 DEF Sound, Dated
    <3>5. CASE e.kind = "Complete"
      BY <2>1, <3>1, <3>2, <3>3, <3>5 DEF ConvertOpen, Breach, Occurrence
    <3>6. CASE e.kind = "AgentAbort"
      BY <2>1, <3>1, <3>2, <3>3, <3>6 DEF ConvertOpen, Breach, Occurrence
    <3>7. CASE e.kind \notin {"Complete", "AgentAbort"}
      BY <2>1, <3>1, <3>2, <3>4, <3>7 DEF ConvertOpen, Occurrence, Dated
    <3> QED
      BY <3>5, <3>6, <3>7
  <2>3. CASE o.status \in Conditional
    <3>1. occurrences'[i] = ConvertConditional(o, e.kind)
      BY <1>6, <1>7, <2>3 DEF TerminalConversion, Conditional
    <3>2. guard = "U"
      BY <1>4, <2>1, <2>3 DEF Sound, Coherent, K3, Conditional
    <3>3. o.effective_time = NoTick /\ o.discovery_time = NoTick
      BY <2>1, <2>3 DEF Sound, Dated, Conditional
    <3> QED
      BY <2>1, <3>1, <3>2, <3>3 DEF ConvertConditional, Occurrence, Dated
  <2>4. CASE o.status \notin {"Open"} \cup Conditional
    <3>1. occurrences'[i] = o
      BY <1>6, <1>7, <2>4 DEF TerminalConversion
    <3> QED
      BY <1>4, <2>1, <2>4, <3>1 DEF Sound, InTime, Coherent, Conditional
  <2> QED
    BY <2>2, <2>3, <2>4
<1>10. LiveWithinDeadline'
  BY <1>2, <1>8, <1>9 DEF LiveWithinDeadline, Duties
<1>11. GuardCoherence'
  BY <1>4, <1>8, <1>9 DEF GuardCoherence, Duties, K3
<1>12. BreachTimes'
  BY <1>2, <1>8, <1>9 DEF BreachTimes, Duties, Dated
<1> QED
  BY <1>1, <1>10, <1>11, <1>12 DEF IInv

\* So does an event that contradicts the store, though it stops half way.
LEMMA ContradictionSafe ==
  ASSUME IInv, NEW e \in AnyEvent, StepContradiction(e)
  PROVE  IInv'
<1>1. ShapeOK' /\ ShapeOK
  BY StepShape DEF IInv, Step
<1>2. /\ e.tick \in Nat /\ tick' = e.tick /\ tick < e.tick
      /\ tick \in Nat \cup {-1}
      /\ mode = "Running" /\ mode' = "Faulted" /\ terminal_kind' = "None"
      /\ fault' = "InconsistentObservation"
      /\ epistemic' = epistemic
      /\ occurrences' = PreExpire(occurrences, e.tick)
  BY <1>1 DEF StepContradiction, ShapeOK, AnyEvent
<1>3. epistemic[GuardKey] \in K3 /\ occurrences \in [Duties -> Occurrence]
  BY <1>1, GuardAssumption DEF ShapeOK
<1>4. SoundLedger(occurrences', epistemic'[GuardKey], tick')
  BY <1>2, <1>3, RunningIsSound, PreExpireSound
<1>5. \A i \in Duties' : Sound(occurrences'[i], epistemic'[GuardKey], tick')
  BY <1>4 DEF SoundLedger, Duties
<1>6. LiveWithinDeadline'
  <2>1. \A i \in Duties' : occurrences'[i].deadline \in Nat
    BY <1>1 DEF ShapeOK, Duties, Occurrence
  <2> QED
    BY <1>2, <1>5, <2>1 DEF LiveWithinDeadline, Sound, InTime
<1>7. GuardCoherence'
  BY <1>2, <1>3, <1>5 DEF GuardCoherence, Sound, Coherent, K3
<1>8. BreachTimes'
  BY <1>5 DEF BreachTimes, Sound, Dated
<1> QED
  BY <1>1, <1>6, <1>7, <1>8 DEF IInv

\* A new monitor satisfies the invariants.
LEMMA InitSafe == Init => IInv
<1> SUFFICES ASSUME Init PROVE IInv
  OBVIOUS
<1>1. Duties = {}
  BY DEF Init, Duties
<1> QED
  BY <1>1, InitType, TypeIsShape DEF IInv, LiveWithinDeadline, GuardCoherence, BreachTimes

\* Every event keeps them.
LEMMA StepSafe ==
  ASSUME IInv, NEW e \in AnyEvent, Step(e)
  PROVE  IInv'
<1>0. ShapeOK' /\ ShapeOK
  BY StepShape DEF IInv
<1>1. CASE StepAfterEnd(e)
  BY <1>0, <1>1
  DEF StepAfterEnd, IInv, LiveWithinDeadline, GuardCoherence, BreachTimes, Duties
<1>2. CASE StepStale(e)
  <2>1. fault = "None" /\ terminal_kind = "None" /\ terminal_kind' = "None"
    BY <1>0, <1>2 DEF StepStale, ShapeOK
  <2>2. LiveWithinDeadline'
    BY <1>2, <2>1 DEF StepStale, IInv, LiveWithinDeadline, Duties
  <2>3. GuardCoherence' /\ BreachTimes'
    BY <1>2 DEF StepStale, IInv, GuardCoherence, BreachTimes, Duties
  <2> QED
    BY <1>0, <2>2, <2>3 DEF IInv
<1>3. CASE StepContradiction(e)
  BY <1>3, ContradictionSafe
<1>4. CASE StepDomain(e)
  BY <1>4, DomainSafe
<1>5. CASE StepTick(e)
  BY <1>5, TickSafe
<1>6. CASE StepTerminal(e)
  BY <1>6, TerminalSafe
<1> QED
  BY <1>1, <1>2, <1>3, <1>4, <1>5, <1>6 DEF Step

\* Every step keeps them.
LEMMA NextSafe == TypeOK /\ IInv /\ [Next]_vars => IInv'
<1> SUFFICES ASSUME TypeOK, IInv, [Next]_vars PROVE IInv'
  OBVIOUS
<1>1. ASSUME NEW key \in Keys, NEW value \in K3, SetInitial(key, value)
      PROVE  IInv'
  <2>1. Duties' = {}
    BY <1>1 DEF SetInitial, TypeOK, Duties
  <2>2. ShapeOK'
    BY <1>1 DEF SetInitial, IInv, ShapeOK, Duties
  <2> QED
    BY <2>1, <2>2 DEF IInv, LiveWithinDeadline, GuardCoherence, BreachTimes
<1>2. CASE UNCHANGED vars
  BY <1>2
  DEF vars, IInv, ShapeOK, LiveWithinDeadline, GuardCoherence, BreachTimes, Duties
<1> QED
  BY <1>1, <1>2, StepSafe, EventsAreAny DEF Next

\* The conjunction of the shape and the three properties, which is preserved by
\* every branch of step and by set_initial, always holds.
THEOREM SafetyInductive == Spec => []IInv
BY InitSafe, NextSafe, TypeCorrect, PTL DEF Spec

\* No duty is ever live on the far side of its deadline, whatever the order of
\* the phases and of the events: pre-expiry, boundary expiry and terminal
\* conversion together leave no gap.
THEOREM LiveWithinDeadlineAlways == Spec => []LiveWithinDeadline
<1>1. IInv => LiveWithinDeadline
  BY DEF IInv
<1> QED
  BY <1>1, SafetyInductive, PTL

\* The ledger always says of a duty what the store knows of its guard.
THEOREM GuardCoherenceAlways == Spec => []GuardCoherence
<1>1. IInv => GuardCoherence
  BY DEF IInv
<1> QED
  BY <1>1, SafetyInductive, PTL

\* A breach is always dated by its deadline and found when its reason says.
THEOREM BreachTimesAlways == Spec => []BreachTimes
<1>1. IInv => BreachTimes
  BY DEF IInv
<1> QED
  BY <1>1, SafetyInductive, PTL

\* Together: expiry, resolution and conversion leave the ledger sound.
THEOREM LedgerSoundAlways == Spec => []LedgerSound
<1>1. IInv => LedgerSound
  BY DEF IInv, LedgerSound
<1> QED
  BY <1>1, SafetyInductive, PTL

-----------------------------------------------------------------------------
(* No retraction: each phase keeps the decided records, and keeping         *)
(* composes.                                                                *)
-----------------------------------------------------------------------------
Decided == {"Discharged", "Breached", "Inapplicable", "UnknownFinal"}

Kept(o, p) ==
  /\ p.trigger_tick = o.trigger_tick
  /\ p.deadline = o.deadline
  /\ o.status \in Decided => p = o

KeptLedger(before, after) ==
  \A i \in DOMAIN before : i \in DOMAIN after /\ Kept(before[i], after[i])

\* Phase after phase, what is kept stays kept.
LEMMA KeptComposes ==
  ASSUME NEW a, NEW b, NEW c, KeptLedger(a, b), KeptLedger(b, c)
  PROVE  KeptLedger(a, c)
BY DEF KeptLedger, Kept

\* A phase that changes nothing keeps everything.
LEMMA KeptItself == ASSUME NEW a PROVE KeptLedger(a, a)
BY DEF KeptLedger, Kept

-----------------------------------------------------------------------------
\* Expiry keeps the decided records.
LEMMA ExpireKeeps ==
  ASSUME NEW D, NEW occs \in [D -> Occurrence], NEW late, NEW now \in Nat
  PROVE  KeptLedger(occs, Expire(occs, late, now))
<1> SUFFICES ASSUME NEW i \in D
             PROVE  Kept(occs[i], Expire(occs, late, now)[i])
  BY DEF KeptLedger, Expire
<1>1. occs[i] \in Occurrence
  OBVIOUS
<1>2. occs[i].status = "Open" => Kept(occs[i], Breach(occs[i], "UnmetAtExpiry", now))
  BY <1>1 DEF Kept, Decided, Breach, Occurrence
<1>3. occs[i].status = "ConditionalOpen" =>
        Kept(occs[i], GuardRemainsUnknownAtDeadline(occs[i]))
  BY <1>1 DEF Kept, Decided, GuardRemainsUnknownAtDeadline, Occurrence
<1>4. Kept(occs[i], occs[i])
  BY DEF Kept
<1> QED
  BY <1>2, <1>3, <1>4 DEF Expire

\* So does the resolution of conditional duties.
LEMMA ResolveKeeps ==
  ASSUME NEW D, NEW occs \in [D -> Occurrence], NEW value, NEW now \in Nat,
         NEW alloc, DOMAIN alloc = Activated(occs, value)
  PROVE  KeptLedger(occs, ResolveConditionals(occs, value, alloc, now))
<1> SUFFICES ASSUME NEW i \in D
             PROVE  Kept(occs[i], ResolveConditionals(occs, value, alloc, now)[i])
  BY DEF KeptLedger, ResolveConditionals
<1>1. occs[i] \in Occurrence
  OBVIOUS
<1>2. occs[i].status \in Conditional =>
        /\ Kept(occs[i], GuardBecomesFalse(occs[i]))
        /\ Kept(occs[i], Discharge(occs[i], alloc[i]))
        /\ Kept(occs[i], [occs[i] EXCEPT !.status = "Open"])
        /\ Kept(occs[i], Breach(occs[i], "RetroactiveActivationAfterDeadline", now))
  BY <1>1 DEF Kept, Decided, Conditional, GuardBecomesFalse, Discharge, Breach,
              Occurrence
<1>3. i \in DOMAIN alloc => occs[i].status \in Conditional
  BY DEF Activated
<1>4. i \in DOMAIN alloc => Kept(occs[i], Activate(occs[i], alloc[i], now))
  BY <1>2, <1>3 DEF Activate
<1>5. Kept(occs[i], occs[i])
  BY DEF Kept
<1> QED
  BY <1>2, <1>4, <1>5 DEF ResolveConditionals, GuardsBecomeTrue

\* So does the creation of a duty.
LEMMA TriggerKeeps ==
  ASSUME NEW D, NEW occs \in [D -> Occurrence], NEW oid, oid \notin D, NEW guard,
         NEW now
  PROVE  KeptLedger(occs, InstantiateTrigger(occs, oid, guard, now))
BY DEF KeptLedger, Kept, InstantiateTrigger

\* So does the registration of a response.
LEMMA RegisterKeeps ==
  ASSUME NEW D \in SUBSET Nat, NEW occs \in [D -> Occurrence], NEW token \in Nat
  PROVE  KeptLedger(occs, RegisterResponseToken(occs, token))
<1>1. CASE Eligible(occs, token) # {}
  <2> DEFINE target == First(occs, Eligible(occs, token))
  <2>1. target \in Eligible(occs, token)
    <3>1. Eligible(occs, token) \in SUBSET D
      BY DEF Eligible
    <3> QED
      BY <1>1, <3>1, FirstIsLeast
  <2>2. target \in D /\ occs[target] \in Occurrence /\ occs[target].status = "Open"
    BY <2>1 DEF Eligible
  <2>3. RegisterResponseToken(occs, token) =
          [occs EXCEPT ![target] = Discharge(occs[target], token)]
    BY <1>1 DEF RegisterResponseToken
  <2> HIDE DEF target
  <2>4. Kept(occs[target], Discharge(occs[target], token))
    BY <2>2 DEF Kept, Decided, Discharge, Occurrence
  <2> QED
    BY <2>2, <2>3, <2>4 DEF KeptLedger, Kept
<1>2. CASE Eligible(occs, token) = {}
  <2> SUFFICES ASSUME NEW i \in D
               PROVE  Kept(occs[i], RegisterResponseToken(occs, token)[i])
    BY <1>2 DEF KeptLedger, RegisterResponseToken
  <2>1. occs[i] \in Occurrence
    OBVIOUS
  <2>2. occs[i].status \in Conditional =>
          Kept(occs[i], [occs[i] EXCEPT !.candidates = @ \cup {token}])
    BY <2>1 DEF Kept, Decided, Conditional, Occurrence
  <2>3. Kept(occs[i], occs[i])
    BY DEF Kept
  <2> QED
    BY <1>2, <2>2, <2>3 DEF RegisterResponseToken
<1> QED
  BY <1>1, <1>2

\* So does the conversion at the end.
LEMMA TerminalKeeps ==
  ASSUME NEW D, NEW occs \in [D -> Occurrence], NEW kind, NEW now \in Nat
  PROVE  KeptLedger(occs, TerminalConversion(occs, kind, now))
<1> SUFFICES ASSUME NEW i \in D
             PROVE  Kept(occs[i], TerminalConversion(occs, kind, now)[i])
  BY DEF KeptLedger, TerminalConversion
<1>1. occs[i] \in Occurrence
  OBVIOUS
<1>2. occs[i].status = "Open" => Kept(occs[i], ConvertOpen(occs[i], kind, now))
  <2>1. occs[i].status = "Open" =>
          /\ \A reason : Kept(occs[i], Breach(occs[i], reason, now))
          /\ \A reason : Kept(occs[i], [occs[i] EXCEPT !.status = "UnknownFinal",
                                                       !.breach_reason = reason])
    BY <1>1 DEF Kept, Decided, Breach, Occurrence
  <2> QED
    BY <2>1 DEF ConvertOpen
<1>3. occs[i].status \in Conditional => Kept(occs[i], ConvertConditional(occs[i], kind))
  BY <1>1 DEF Kept, Decided, Conditional, ConvertConditional, Occurrence
<1>4. Kept(occs[i], occs[i])
  BY DEF Kept
<1> QED
  BY <1>2, <1>3, <1>4 DEF TerminalConversion

-----------------------------------------------------------------------------
\* The phases every accepted event goes through.
LEMMA ResolvedKeeps ==
  ASSUME ShapeOK, NEW e \in AnyEvent, e.tick \in Nat, NEW alloc \in Resolutions(e)
  PROVE  KeptLedger(occurrences, Resolved(e, alloc))
<1> DEFINE occs == PreExpire(occurrences, e.tick)
<1>1. occurrences \in [Duties -> Occurrence]
  BY DEF ShapeOK
<1>2. occs \in [Duties -> Occurrence] /\ KeptLedger(occurrences, occs)
  <2>1. occs \in [Duties -> Occurrence]
    BY <1>1, PreExpireType
  <2>2. KeptLedger(occurrences, occs)
    BY <1>1, ExpireKeeps DEF PreExpire
  <2> QED
    BY <2>1, <2>2
<1>3. DOMAIN alloc = Activated(occs, Guard(e))
  BY DEF Resolutions, Allocations
<1> HIDE DEF occs
<1>4. KeptLedger(occs, ResolveConditionals(occs, Guard(e), alloc, e.tick))
  BY <1>2, <1>3, ResolveKeeps
<1> QED
  BY <1>2, <1>4, KeptComposes DEF Resolved, occs

\* No event that moves the clock changes a decided record.
LEMMA MovingStepKeeps ==
  ASSUME ShapeOK, NEW e \in AnyEvent, e.tick > tick,
         StepContradiction(e) \/ StepDomain(e) \/ StepTick(e) \/ StepTerminal(e)
  PROVE  KeptLedger(occurrences, occurrences')
<1>0. e.tick \in Nat /\ occurrences \in [Duties -> Occurrence]
  BY DEF ShapeOK, AnyEvent
<1>2. CASE StepContradiction(e)
  BY <1>0, <1>2, ExpireKeeps DEF StepContradiction, PreExpire
<1>3. CASE StepDomain(e)
  <2>1. PICK alloc \in Resolutions(e), oid \in FreshOids :
          occurrences' = BoundaryExpire(Answered(e, alloc, oid), e.tick)
    BY <1>3 DEF StepDomain
  <2>2. /\ Resolved(e, alloc) \in [Duties -> Occurrence]
        /\ KeptLedger(occurrences, Resolved(e, alloc))
    BY <1>0, ResolvedType, ResolvedKeeps
  <2>3. oid \in Nat /\ oid \notin Duties
    BY FreshOidIsNew
  <2> DEFINE D == Duties \cup (IF e.tag = TriggerTag THEN {oid} ELSE {})
  <2>4. /\ Triggered(e, alloc, oid) \in [D -> Occurrence]
        /\ KeptLedger(Resolved(e, alloc), Triggered(e, alloc, oid))
    <3>1. CASE e.tag = TriggerTag
      <4>1. InstantiateTrigger(Resolved(e, alloc), oid, Guard(e), e.tick)
              \in [Duties \cup {oid} -> Occurrence]
        BY <1>0, <2>2, TriggerType
      <4>2. KeptLedger(Resolved(e, alloc),
                       InstantiateTrigger(Resolved(e, alloc), oid, Guard(e), e.tick))
        BY <2>2, <2>3, TriggerKeeps
      <4> QED
        BY <3>1, <4>1, <4>2 DEF Triggered
    <3>2. CASE e.tag # TriggerTag
      BY <2>2, <3>2, KeptItself DEF Triggered
    <3> QED
      BY <3>1, <3>2
  <2>5. D \in SUBSET Nat
    BY <2>3 DEF ShapeOK
  <2> HIDE DEF D
  <2>6. /\ Answered(e, alloc, oid) \in [D -> Occurrence]
        /\ KeptLedger(Triggered(e, alloc, oid), Answered(e, alloc, oid))
    <3>1. CASE e.tag = ResponseTag
      BY <1>0, <2>4, <2>5, <3>1, RegisterType, RegisterKeeps DEF Answered
    <3>2. CASE e.tag # ResponseTag
      BY <2>4, <3>2, KeptItself DEF Answered
    <3> QED
      BY <3>1, <3>2
  <2>7. KeptLedger(Answered(e, alloc, oid), occurrences')
    BY <1>0, <2>1, <2>6, ExpireKeeps DEF BoundaryExpire
  <2>8. KeptLedger(occurrences, Triggered(e, alloc, oid))
    BY <2>2, <2>4, KeptComposes
  <2>9. KeptLedger(occurrences, Answered(e, alloc, oid))
    BY <2>6, <2>8, KeptComposes
  <2> QED
    BY <2>7, <2>9, KeptComposes
<1>4. CASE StepTick(e)
  <2>1. PICK alloc \in Resolutions(e) :
          occurrences' = BoundaryExpire(Resolved(e, alloc), e.tick)
    BY <1>4 DEF StepTick
  <2>2. /\ Resolved(e, alloc) \in [Duties -> Occurrence]
        /\ KeptLedger(occurrences, Resolved(e, alloc))
    BY <1>0, ResolvedType, ResolvedKeeps
  <2>3. KeptLedger(Resolved(e, alloc), occurrences')
    BY <1>0, <2>1, <2>2, ExpireKeeps DEF BoundaryExpire
  <2> QED
    BY <2>2, <2>3, KeptComposes
<1>5. CASE StepTerminal(e)
  <2>1. PICK alloc \in Resolutions(e) :
          occurrences' = TerminalConversion(BoundaryExpire(Resolved(e, alloc), e.tick),
                                            e.kind, e.tick)
    BY <1>5 DEF StepTerminal
  <2> DEFINE occs == BoundaryExpire(Resolved(e, alloc), e.tick)
  <2>2. /\ Resolved(e, alloc) \in [Duties -> Occurrence]
        /\ KeptLedger(occurrences, Resolved(e, alloc))
    BY <1>0, ResolvedType, ResolvedKeeps
  <2>3. /\ occs \in [Duties -> Occurrence]
        /\ KeptLedger(Resolved(e, alloc), occs)
    <3>1. occs \in [Duties -> Occurrence]
      BY <1>0, <2>2, PreExpireType
    <3>2. KeptLedger(Resolved(e, alloc), occs)
      BY <1>0, <2>2, ExpireKeeps DEF BoundaryExpire
    <3> QED
      BY <3>1, <3>2
  <2>4. occurrences' = TerminalConversion(occs, e.kind, e.tick)
    BY <2>1
  <2> HIDE DEF occs
  <2>5. KeptLedger(occs, occurrences')
    BY <1>0, <2>3, <2>4, TerminalKeeps
  <2>6. KeptLedger(occurrences, occs)
    BY <2>2, <2>3, KeptComposes
  <2> QED
    BY <2>5, <2>6, KeptComposes
<1> QED
  BY <1>2, <1>3, <1>4, <1>5

\* No event does.
LEMMA StepKeeps ==
  ASSUME ShapeOK, NEW e \in AnyEvent, Step(e)
  PROVE  KeptLedger(occurrences, occurrences')
<1>1. CASE StepAfterEnd(e) \/ StepStale(e)
  BY <1>1, KeptItself DEF StepAfterEnd, StepStale
<1>2. CASE ~ (StepAfterEnd(e) \/ StepStale(e))
  BY <1>2, MovingStepKeeps
  DEF Step, StepContradiction, StepDomain, StepTick, StepTerminal, Accept
<1> QED
  BY <1>1, <1>2

-----------------------------------------------------------------------------
\* Every step keeps the decided records, the known facts and the end.
LEMMA NextKeepsDecisions == TypeOK /\ [Next]_vars => KeepsDecisions \/ UNCHANGED vars
<1> SUFFICES ASSUME TypeOK, Next PROVE KeepsDecisions
  OBVIOUS
<1>1. \A k \in Keys : Refines(epistemic[k], epistemic'[k])
  <2>1. ASSUME NEW key \in Keys, NEW value \in K3, SetInitial(key, value),
               NEW k \in Keys
        PROVE  Refines(epistemic[k], epistemic'[k])
    BY <2>1 DEF SetInitial, Refines, TypeOK
  <2>2. ASSUME NEW e \in AnyEvent, Accept(e), NEW k \in Keys
        PROVE  Refines(epistemic[k], epistemic'[k])
    BY <2>2 DEF Accept, Contradicts, Observed, Refines
  <2>3. ASSUME epistemic' = epistemic, NEW k \in Keys
        PROVE  Refines(epistemic[k], epistemic'[k])
    BY <2>3 DEF Refines
  <2> QED
    BY <2>1, <2>2, <2>3, EventsAreAny
    DEF Next, Step, StepAfterEnd, StepStale, StepContradiction, StepDomain,
        StepTick, StepTerminal
<1>2. KeptLedger(occurrences, occurrences')
  BY StepKeeps, TypeIsShape, EventsAreAny, KeptItself DEF Next, SetInitial
<1>3. Summary = "Violated" => Summary' = "Violated"
  <2> SUFFICES ASSUME Summary = "Violated" PROVE Summary' = "Violated"
    OBVIOUS
  <2>0. "Breached" \in Statuses
    BY DEF Summary
  <2>1. PICK i \in Duties : occurrences[i].status = "Breached"
    BY <2>0 DEF Statuses, Duties
  <2>2. i \in Duties' /\ occurrences'[i].status = "Breached"
    BY <1>2, <2>1 DEF KeptLedger, Kept, Decided, Duties
  <2>3. "Breached" \in Statuses'
    BY <2>2 DEF Statuses, Duties
  <2> QED
    BY <2>3 DEF Summary
<1>4. mode # "Running" =>
        UNCHANGED <<mode, terminal_kind, fault, tick, epistemic, occurrences>>
  BY DEF Next, SetInitial, Step, StepAfterEnd, StepStale, StepContradiction,
         StepDomain, StepTick, StepTerminal, Accept
<1> QED
  BY <1>1, <1>2, <1>3, <1>4 DEF KeepsDecisions, KeptLedger, Kept, Decided, Duties

\* The monitor never revises a decision: a discharge is not reallocated, a breach
\* not forgiven, a fact not retracted, an ended run not reopened.
THEOREM NeverRetracts == Spec => NoRetraction
BY TypeCorrect, NextKeepsDecisions, PTL DEF Spec, NoRetraction

-----------------------------------------------------------------------------
(***************************************************************************)
(* Proofs that responses are spent linearly and in order (LinearTokens,    *)
(* NoOvertaking, NoWastedCandidate), for every bound, set of tags, keys    *)
(* and ticks.                                                              *)
(*                                                                         *)
(* What makes them inductive is that the duties form a queue: aliases,     *)
(* triggers and deadlines are in the same order, and a candidate of a duty *)
(* is one of every older duty that it is still in time for.  A token is    *)
(* therefore never given to a duty while an older one could take it, and   *)
(* the one step that gives several (the guard becomes true) starts from a  *)
(* ledger in which no duty has any.                                        *)
(***************************************************************************)

\* Aliases, triggers and deadlines agree, and no trigger is after `seen`.
Queue(occs, seen) ==
  \A i \in DOMAIN occs :
    /\ occs[i].deadline = occs[i].trigger_tick + Bound
    /\ occs[i].trigger_tick <= seen
    /\ \A j \in DOMAIN occs : i < j => occs[i].trigger_tick < occs[j].trigger_tick

\* The candidates a duty recorded: in its window, no later than `seen`, and
\* recorded by every older duty they are in time for.
Recording(occs, seen) ==
  \A i \in DOMAIN occs : \A k \in occs[i].candidates :
    /\ occs[i].trigger_tick <= k /\ k <= occs[i].deadline /\ k <= seen
    /\ \A j \in DOMAIN occs :
         j < i /\ k <= occs[j].deadline => k \in occs[j].candidates

\* The tokens the duties hold: one each, in its window, no later than `seen`.
Holding(occs, used, seen) ==
  /\ \A i \in DOMAIN occs :
       /\ occs[i].response # NoTick <=> occs[i].status = "Discharged"
       /\ occs[i].response # NoTick =>
            /\ occs[i].trigger_tick <= occs[i].response
            /\ occs[i].response <= occs[i].deadline
            /\ occs[i].response <= seen
       /\ \A j \in DOMAIN occs :
            occs[i].response # NoTick /\ occs[i].response = occs[j].response => i = j
  /\ used = {occs[i].response : i \in {j \in DOMAIN occs : occs[j].response # NoTick}}

\* NoOvertaking and NoWastedCandidate, of a ledger.
InOrder(occs) ==
  \A i, j \in DOMAIN occs :
    i < j /\ occs[j].response # NoTick /\ occs[i].deadline >= occs[j].response =>
      occs[i].response # NoTick /\ occs[i].response < occs[j].response

NoWaste(occs, used) ==
  \A i \in DOMAIN occs :
    occs[i].status \in {"Breached", "Open"} =>
      \A k \in occs[i].candidates : k <= occs[i].deadline => k \in used

Accounts(occs, used, seen) ==
  /\ Queue(occs, seen)
  /\ Recording(occs, seen)
  /\ Holding(occs, used, seen)
  /\ InOrder(occs)
  /\ NoWaste(occs, used)

-----------------------------------------------------------------------------
(* Phases that give no token keep the accounts.                             *)

Idle(o, p) ==
  /\ p.trigger_tick = o.trigger_tick /\ p.deadline = o.deadline
  /\ p.candidates = o.candidates /\ p.response = o.response
  /\ p.status = "Discharged" <=> o.status = "Discharged"
  /\ p.status \in {"Breached", "Open"} => o.status \in {"Breached", "Open"}
  /\ p.status = "Open" => p = o

\* A map that leaves every record idle keeps the accounts.
LEMMA IdleKeeps ==
  ASSUME NEW D, NEW occs, NEW after, DOMAIN occs = D, DOMAIN after = D,
         NEW used, NEW seen, Accounts(occs, used, seen),
         \A i \in D : Idle(occs[i], after[i])
  PROVE  Accounts(after, used, seen)
<1>1. Queue(after, seen)
  BY DEF Accounts, Queue, Idle
<1>2. Recording(after, seen)
  BY DEF Accounts, Recording, Idle
<1>3. Holding(after, used, seen)
  <2>1. {occs[i].response : i \in {j \in D : occs[j].response # NoTick}}
          = {after[i].response : i \in {j \in D : after[j].response # NoTick}}
    BY DEF Idle
  <2> QED
    BY <2>1 DEF Accounts, Holding, Idle
<1>4. InOrder(after)
  BY DEF Accounts, InOrder, Idle
<1>5. NoWaste(after, used)
  BY DEF Accounts, NoWaste, Idle
<1> QED
  BY <1>1, <1>2, <1>3, <1>4, <1>5 DEF Accounts

\* Time passes.
LEMMA LaterKeeps ==
  ASSUME NEW D, NEW occs \in [D -> Occurrence], NEW used,
         NEW seen \in Nat \cup {-1}, NEW later \in Nat, seen <= later,
         Accounts(occs, used, seen)
  PROVE  Accounts(occs, used, later)
<1>1. \A i \in D :
        /\ occs[i].trigger_tick \in Nat
        /\ occs[i].response \in Nat \cup {NoTick}
        /\ occs[i].candidates \in SUBSET Nat
  BY DEF Occurrence
<1>2. Queue(occs, later)
  BY <1>1 DEF Accounts, Queue
<1>3. Recording(occs, later)
  <2> SUFFICES ASSUME NEW i \in D, NEW k \in occs[i].candidates
               PROVE  k <= later
    BY DEF Accounts, Recording
  <2>1. k \in Nat /\ k <= seen
    BY <1>1 DEF Accounts, Recording
  <2> QED
    BY <2>1
<1>4. Holding(occs, used, later)
  BY <1>1 DEF Accounts, Holding, NoTick
<1> QED
  BY <1>2, <1>3, <1>4 DEF Accounts

\* Expiry gives no token.
LEMMA ExpireIsIdle ==
  ASSUME NEW D, NEW occs \in [D -> Occurrence], NEW late, NEW now, NEW i \in D
  PROVE  Idle(occs[i], Expire(occs, late, now)[i])
<1>1. occs[i] \in Occurrence
  OBVIOUS
<1>2. occs[i].status = "Open" => Idle(occs[i], Breach(occs[i], "UnmetAtExpiry", now))
  BY <1>1 DEF Idle, Breach, Occurrence
<1>3. occs[i].status = "ConditionalOpen" =>
        Idle(occs[i], GuardRemainsUnknownAtDeadline(occs[i]))
  BY <1>1 DEF Idle, GuardRemainsUnknownAtDeadline, Occurrence
<1>4. Idle(occs[i], occs[i])
  BY DEF Idle
<1> QED
  BY <1>2, <1>3, <1>4 DEF Expire

\* So it keeps the accounts.
LEMMA ExpireIdle ==
  ASSUME NEW D, NEW occs \in [D -> Occurrence], NEW late, NEW now \in Nat,
         NEW used, NEW seen, Accounts(occs, used, seen)
  PROVE  Accounts(Expire(occs, late, now), used, seen)
<1>1. \A i \in D : Idle(occs[i], Expire(occs, late, now)[i])
  BY ExpireIsIdle
<1>2. DOMAIN Expire(occs, late, now) = D
  BY DEF Expire
<1> QED
  BY <1>1, <1>2, IdleKeeps

\* Neither does the end of the run.
LEMMA TerminalIsIdle ==
  ASSUME NEW D, NEW occs \in [D -> Occurrence], NEW kind, NEW now, NEW i \in D
  PROVE  Idle(occs[i], TerminalConversion(occs, kind, now)[i])
<1>1. occs[i] \in Occurrence
  OBVIOUS
<1>2. occs[i].status = "Open" => Idle(occs[i], ConvertOpen(occs[i], kind, now))
  <2>1. Idle(occs[i], Breach(occs[i], "UnmetAtComplete", now)) \/ occs[i].status # "Open"
    BY <1>1 DEF Idle, Breach, Occurrence
  <2>2. Idle(occs[i], Breach(occs[i], "AbortWithOpenObligation", now))
          \/ occs[i].status # "Open"
    BY <1>1 DEF Idle, Breach, Occurrence
  <2>3. \A reason : occs[i].status = "Open" =>
          Idle(occs[i], [occs[i] EXCEPT !.status = "UnknownFinal",
                                        !.breach_reason = reason])
    BY <1>1 DEF Idle, Occurrence
  <2> QED
    BY <2>1, <2>2, <2>3 DEF ConvertOpen
<1>3. occs[i].status \in Conditional => Idle(occs[i], ConvertConditional(occs[i], kind))
  <2>1. \A reason : occs[i].status \in Conditional =>
          Idle(occs[i], [occs[i] EXCEPT !.status = "UnknownFinal",
                                        !.breach_reason = reason])
    BY <1>1 DEF Idle, Occurrence, Conditional
  <2> QED
    BY <2>1 DEF ConvertConditional
<1>4. Idle(occs[i], occs[i])
  BY DEF Idle
<1> QED
  BY <1>2, <1>3, <1>4 DEF TerminalConversion

\* So it keeps the accounts too.
LEMMA TerminalIdle ==
  ASSUME NEW D, NEW occs \in [D -> Occurrence], NEW kind, NEW now \in Nat,
         NEW used, NEW seen, Accounts(occs, used, seen)
  PROVE  Accounts(TerminalConversion(occs, kind, now), used, seen)
<1>1. \A i \in D : Idle(occs[i], TerminalConversion(occs, kind, now)[i])
  BY TerminalIsIdle
<1>2. DOMAIN TerminalConversion(occs, kind, now) = D
  BY DEF TerminalConversion
<1> QED
  BY <1>1, <1>2, IdleKeeps

-----------------------------------------------------------------------------
(* The allocation pass.                                                     *)

\* What an allocation hands out was recorded and is in time, goes to one duty,
\* passes no duty that comes first and could take it, and leaves over only
\* what the duties left without could not use.
THEOREM AllocationFair ==
  ASSUME NEW D \in SUBSET Nat, NEW occs \in [D -> Occurrence],
         NEW active \in SUBSET D, NEW spent,
         NEW alloc \in Allocations(occs, active, spent)
  PROVE  /\ \A i \in active : alloc[i] # NoTick =>
              /\ alloc[i] \in occs[i].candidates /\ alloc[i] <= occs[i].deadline
              /\ \A j \in active : alloc[j] = alloc[i] => j = i
              /\ \A j \in active :
                   /\ Precedes(occs, j, i) /\ j # i
                   /\ ~ Precedes(occs, i, j)
                   /\ alloc[i] \in occs[j].candidates
                   /\ alloc[i] <= occs[j].deadline
                   => alloc[j] # NoTick /\ alloc[j] < alloc[i]
         /\ \A i \in active : alloc[i] = NoTick =>
              \A k \in occs[i].candidates \ spent :
                k <= occs[i].deadline => k \in Used(alloc)
<1> DEFINE tokens == Recorded(occs, active, spent)
<1>1. /\ alloc \in [active -> tokens \cup {NoTick}]
      /\ IsAllocation(occs, active, tokens, alloc)
  BY DEF Allocations
<1>2. tokens \subseteq Nat
  <2>1. \A i \in active : occs[i].candidates \subseteq Nat
    BY DEF Occurrence
  <2>2. \A k \in tokens : \E i \in active : k \in occs[i].candidates
    BY DEF Recorded
  <2> QED
    BY <2>1, <2>2
<1>3. \A k \in Nat : Takers(occs, active, alloc, k) \in SUBSET D
  BY DEF Takers
<1>4. ASSUME NEW i \in active, alloc[i] # NoTick
      PROVE  /\ alloc[i] \in tokens
             /\ i \in Takers(occs, active, alloc, alloc[i])
             /\ i = First(occs, Takers(occs, active, alloc, alloc[i]))
             /\ \A j \in active : alloc[j] = alloc[i] => j = i
             /\ \A j \in Takers(occs, active, alloc, alloc[i]) :
                  j # i => Precedes(occs, i, j)
  <2> DEFINE k == alloc[i]
             T == Takers(occs, active, alloc, k)
  <2>1. k \in tokens /\ k \in Nat
    BY <1>1, <1>2, <1>4
  <2> HIDE DEF tokens
  <2>2. {j \in active : alloc[j] = k} = IF T = {} THEN {} ELSE {First(occs, T)}
    BY <1>1, <2>1 DEF IsAllocation
  <2>3. i \in {j \in active : alloc[j] = k}
    OBVIOUS
  <2>4. T # {} /\ {j \in active : alloc[j] = k} = {First(occs, T)}
    BY <2>2, <2>3
  <2>5. i = First(occs, T)
    BY <2>3, <2>4
  <2>6. T \in SUBSET D
    BY <1>3, <2>1
  <2> HIDE DEF k, T
  <2>7. First(occs, T) \in T /\ \A j \in T \ {First(occs, T)} : Precedes(occs, First(occs, T), j)
    BY <2>4, <2>6, FirstIsLeast
  <2> QED
    BY <2>1, <2>4, <2>5, <2>7 DEF k, T
<1>5. ASSUME NEW i \in active, alloc[i] # NoTick, NEW j \in active,
             j # i, ~ Precedes(occs, i, j),
             alloc[i] \in occs[j].candidates, alloc[i] <= occs[j].deadline
      PROVE  alloc[j] # NoTick /\ alloc[j] < alloc[i]
  <2>1. j \notin Takers(occs, active, alloc, alloc[i])
    BY <1>4, <1>5
  <2> QED
    BY <1>5, <2>1 DEF Takers
<1>6. ASSUME NEW i \in active, alloc[i] = NoTick,
             NEW k \in occs[i].candidates \ spent, k <= occs[i].deadline
      PROVE  k \in Used(alloc)
  <2>1. k \in tokens
    BY DEF Recorded
  <2>2. i \in Takers(occs, active, alloc, k)
    BY <1>6 DEF Takers
  <2>3. {j \in active : alloc[j] = k} # {}
    BY <1>1, <2>1, <2>2 DEF IsAllocation
  <2>4. k # NoTick
    BY <1>2, <2>1 DEF NoTick
  <2> QED
    BY <1>1, <2>3, <2>4 DEF Used
<1>7. \A i \in active : alloc[i] # NoTick =>
        alloc[i] \in occs[i].candidates /\ alloc[i] <= occs[i].deadline
  BY <1>4 DEF Takers
<1> QED
  BY <1>4, <1>5, <1>6, <1>7

\* In a queue the older duty comes first.
LEMMA OlderPrecedes ==
  ASSUME NEW D, NEW occs \in [D -> Occurrence], NEW seen, Queue(occs, seen),
         NEW i \in D, NEW j \in D, i < j
  PROVE  /\ Precedes(occs, i, j) /\ ~ Precedes(occs, j, i)
         /\ occs[i].deadline < occs[j].deadline
<1>1. /\ occs[i].trigger_tick \in Nat /\ occs[j].trigger_tick \in Nat
      /\ occs[i].deadline \in Nat /\ occs[j].deadline \in Nat
  BY DEF Occurrence
<1>2. occs[i].deadline < occs[j].deadline
  BY <1>1, BoundAssumption DEF Queue
<1> QED
  BY <1>1, <1>2 DEF Precedes

\* Resolving the conditional duties keeps the accounts: either none is settled,
\* or the guard became true, and then no duty held a token before.
LEMMA ResolveAccounts ==
  ASSUME NEW D \in SUBSET Nat, NEW occs \in [D -> Occurrence], NEW now \in Nat,
         NEW guard \in K3, NEW value \in K3, Refines(guard, value),
         SoundLedger(occs, guard, now),
         NEW used, NEW seen \in Nat \cup {-1}, seen <= now,
         Accounts(occs, used, seen),
         NEW alloc \in Allocations(occs, Activated(occs, value), used)
  PROVE  Accounts(ResolveConditionals(occs, value, alloc, now),
                  used \cup Used(alloc), seen)
<1> DEFINE active == Activated(occs, value)
           after == ResolveConditionals(occs, value, alloc, now)
<1>1. /\ active \in SUBSET D
      /\ alloc \in [active -> Nat \cup {NoTick}]
      /\ DOMAIN after = D
  BY AllocationType DEF Activated, ResolveConditionals
<1>2. \A i \in D : occs[i] \in Occurrence /\ Coherent(occs[i], guard)
  BY DEF SoundLedger, Sound
<1>3. CASE active = {}
  <2>1. Used(alloc) = {}
    BY <1>1, <1>3 DEF Used
  <2>2. ASSUME NEW i \in D
        PROVE  Idle(occs[i], after[i])
    <3>1. Idle(occs[i], occs[i]) /\ after[i] \in {occs[i], GuardBecomesFalse(occs[i])}
      BY <1>1, <1>3 DEF Idle, ResolveConditionals, GuardsBecomeTrue
    <3>2. CASE occs[i].status \in Conditional
      BY <1>2, <3>1, <3>2 DEF Idle, GuardBecomesFalse, Occurrence, Conditional
    <3>3. CASE occs[i].status \notin Conditional
      BY <1>1, <1>3, <3>1, <3>3 DEF ResolveConditionals, GuardsBecomeTrue
    <3> QED
      BY <3>2, <3>3
  <2>3. used \cup Used(alloc) = used
    BY <2>1
  <2>4. DOMAIN occs = D
    OBVIOUS
  <2> HIDE DEF after
  <2>5. Accounts(after, used, seen)
    BY <1>1, <2>2, <2>4, IdleKeeps
  <2> QED
    BY <2>3, <2>5 DEF after
<1>4. CASE active # {}
  <2>1. value = "T" /\ guard = "U"
    BY <1>2, <1>4 DEF Activated, Coherent, Conditional, Refines, K3
  <2>2. active = D /\ \A i \in D : occs[i].status \in Conditional
    BY <1>2, <2>1 DEF Activated, Coherent
  <2>3. \A i \in D : occs[i].response = NoTick
    BY <2>2 DEF Accounts, Holding, Conditional
  <2>4. used = {}
    <3>1. {j \in DOMAIN occs : occs[j].response # NoTick} = {}
      BY <2>3
    <3> QED
      BY <3>1 DEF Accounts, Holding
  <2>5. ASSUME NEW i \in D
        PROVE  after[i] = Activate(occs[i], alloc[i], now)
    BY <1>1, <2>1, <2>2 DEF ResolveConditionals, GuardsBecomeTrue
  <2>6. ASSUME NEW i \in D
        PROVE  /\ after[i].trigger_tick = occs[i].trigger_tick
               /\ after[i].deadline = occs[i].deadline
               /\ after[i].candidates = occs[i].candidates
               /\ after[i].response = alloc[i]
               /\ after[i].status = "Discharged" <=> alloc[i] # NoTick
    <3>1. /\ occs[i] \in Occurrence /\ alloc[i] \in Nat \cup {NoTick}
          /\ occs[i].response = NoTick
          /\ after[i] = Activate(occs[i], alloc[i], now)
      BY <1>1, <1>2, <2>2, <2>3, <2>5
    <3>2. CASE alloc[i] # NoTick
      <4>1. after[i] = Discharge(occs[i], alloc[i])
        BY <3>1, <3>2 DEF Activate
      <4> QED
        BY <3>1, <3>2, <4>1 DEF Discharge, Occurrence
    <3>3. CASE alloc[i] = NoTick
      <4>1. after[i] \in {[occs[i] EXCEPT !.status = "Open"],
                          Breach(occs[i], "RetroactiveActivationAfterDeadline", now)}
        BY <3>1, <3>3 DEF Activate
      <4>2. CASE after[i] = [occs[i] EXCEPT !.status = "Open"]
        BY <3>1, <3>3, <4>2 DEF Occurrence
      <4>3. CASE after[i] = Breach(occs[i], "RetroactiveActivationAfterDeadline", now)
        BY <3>1, <3>3, <4>3 DEF Breach, Occurrence
      <4> QED
        BY <4>1, <4>2, <4>3
    <3> QED
      BY <3>2, <3>3
  <2>7. DOMAIN after = D /\ DOMAIN occs = D
    BY <1>1
  <2>8. used \cup Used(alloc) = Used(alloc)
    BY <2>4
  <2> HIDE DEF after, active
  <2>9. Queue(after, seen)
    BY <2>6, <2>7 DEF Accounts, Queue
  <2>10. Recording(after, seen)
    BY <2>6, <2>7 DEF Accounts, Recording
  <2>11. alloc \in Allocations(occs, D, {})
    BY <2>2, <2>4 DEF active
  <2>12. /\ \A i \in D : alloc[i] # NoTick =>
              /\ alloc[i] \in occs[i].candidates /\ alloc[i] <= occs[i].deadline
              /\ \A j \in D : alloc[j] = alloc[i] => j = i
         /\ \A i, j \in D :
              /\ alloc[j] # NoTick
              /\ Precedes(occs, i, j) /\ i # j /\ ~ Precedes(occs, j, i)
              /\ alloc[j] \in occs[i].candidates
              /\ alloc[j] <= occs[i].deadline
              => alloc[i] # NoTick /\ alloc[i] < alloc[j]
         /\ \A i \in D : alloc[i] = NoTick =>
              \A k \in occs[i].candidates : k <= occs[i].deadline => k \in Used(alloc)
    <3>1. D \in SUBSET D
      OBVIOUS
    <3> QED
      BY <2>11, <3>1, AllocationFair
  <2>13. Used(alloc) = {after[i].response : i \in {j \in D : after[j].response # NoTick}}
    BY <1>1, <2>2, <2>6 DEF Used
  <2>14. Holding(after, Used(alloc), seen)
    <3>1. ASSUME NEW i \in D, alloc[i] # NoTick
          PROVE  /\ occs[i].trigger_tick <= alloc[i]
                 /\ alloc[i] <= occs[i].deadline
                 /\ alloc[i] <= seen
      BY <2>7, <2>12, <3>1 DEF Accounts, Recording
    <3>2. ASSUME NEW i \in D
          PROVE  /\ after[i].response # NoTick <=> after[i].status = "Discharged"
                 /\ after[i].response # NoTick =>
                      /\ after[i].trigger_tick <= after[i].response
                      /\ after[i].response <= after[i].deadline
                      /\ after[i].response <= seen
                 /\ \A j \in D : after[i].response # NoTick /\ after[i].response = after[j].response
                                 => i = j
      <4>1. after[i].response = alloc[i] /\ \A j \in D : after[j].response = alloc[j]
        BY <2>6
      <4> QED
        BY <2>6, <2>12, <3>1, <4>1
    <3> QED
      BY <2>7, <2>13, <3>2 DEF Holding
  <2>15. InOrder(after)
    <3> SUFFICES ASSUME NEW i \in D, NEW j \in D, i < j, alloc[j] # NoTick,
                        occs[i].deadline >= alloc[j]
                 PROVE  alloc[i] # NoTick /\ alloc[i] < alloc[j]
      BY <2>6, <2>7, ZenonT(40) DEF InOrder
    <3>1. Precedes(occs, i, j) /\ ~ Precedes(occs, j, i) /\ i # j
      BY OlderPrecedes DEF Accounts
    <3>2. alloc[j] \in occs[j].candidates
      BY <2>12
    <3>3. alloc[j] \in Nat /\ occs[i].deadline \in Nat /\ alloc[j] <= occs[i].deadline
      BY <1>1, <1>2, <2>2 DEF Occurrence
    <3>4. alloc[j] \in occs[i].candidates
      BY <2>7, <3>2, <3>3 DEF Accounts, Recording
    <3> QED
      BY <2>12, <3>1, <3>3, <3>4
  <2>16. NoWaste(after, Used(alloc))
    BY <2>6, <2>7, <2>12 DEF NoWaste
  <2>17. Accounts(after, Used(alloc), seen)
    BY <2>9, <2>10, <2>14, <2>15, <2>16 DEF Accounts
  <2> QED
    BY <2>8, <2>17 DEF after
<1> QED
  BY <1>3, <1>4

\* A new duty is the last in the queue and holds nothing.
LEMMA TriggerAccounts ==
  ASSUME NEW D \in SUBSET Nat, NEW occs \in [D -> Occurrence], NEW oid \in Nat,
         \A i \in D : i < oid, NEW guard, NEW now \in Nat,
         NEW used, NEW seen \in Nat \cup {-1}, seen < now,
         Accounts(occs, used, seen)
  PROVE  Accounts(InstantiateTrigger(occs, oid, guard, now), used, now)
<1> DEFINE after == InstantiateTrigger(occs, oid, guard, now)
           new == TriggerAndGuardRule(now, now + Bound, guard)
<1>1. /\ new.trigger_tick = now /\ new.deadline = now + Bound
      /\ new.candidates = {} /\ new.response = NoTick
      /\ new.status \in {"Open", "Inapplicable", "ConditionalOpen"}
  BY DEF TriggerAndGuardRule, NewOccurrence
<1>2. /\ DOMAIN after = D \cup {oid} /\ oid \notin D
      /\ after[oid] = new /\ \A i \in D : after[i] = occs[i]
  BY DEF InstantiateTrigger
<1>3. \A i \in D : occs[i].trigger_tick \in Nat
  BY DEF Occurrence
<1>4. Accounts(occs, used, now)
  <2>1. seen <= now
    OBVIOUS
  <2> QED
    BY <2>1, LaterKeeps
<1>5. /\ DOMAIN occs = D /\ ~ oid < oid
      /\ \A i \in D : i < oid /\ ~ oid < i
  OBVIOUS
<1> HIDE DEF after, new
<1>6. Queue(after, now)
  <2>1. \A i \in D : occs[i].trigger_tick < now
    BY <1>3 DEF Accounts, Queue
  <2>2. ASSUME NEW i \in D
        PROVE  /\ after[i].deadline = after[i].trigger_tick + Bound
               /\ after[i].trigger_tick <= now
               /\ \A j \in D : i < j => after[i].trigger_tick < after[j].trigger_tick
               /\ i < oid => after[i].trigger_tick < after[oid].trigger_tick
    BY <1>1, <1>2, <1>4, <1>5, <2>1 DEF Accounts, Queue
  <2>3. /\ after[oid].deadline = after[oid].trigger_tick + Bound
        /\ after[oid].trigger_tick <= now
        /\ \A j \in D \cup {oid} : ~ oid < j
    BY <1>1, <1>2, <1>5
  <2>4. ASSUME NEW i \in D \cup {oid}
        PROVE  /\ after[i].deadline = after[i].trigger_tick + Bound
               /\ after[i].trigger_tick <= now
               /\ \A j \in D \cup {oid} :
                    i < j => after[i].trigger_tick < after[j].trigger_tick
    <3>1. CASE i \in D
      BY <2>2, <3>1
    <3>2. CASE i = oid
      BY <2>3, <3>2
    <3> QED
      BY <3>1, <3>2
  <2> QED
    BY <1>2, <2>4 DEF Queue
<1>7. Recording(after, now)
  BY <1>1, <1>2, <1>4, <1>5 DEF Accounts, Recording
<1>8. Holding(after, used, now)
  <2>1. {after[i].response : i \in {j \in D \cup {oid} : after[j].response # NoTick}}
          = {occs[i].response : i \in {j \in D : occs[j].response # NoTick}}
    BY <1>1, <1>2, ZenonT(40)
  <2> QED
    BY <1>1, <1>2, <1>4, <1>5, <2>1 DEF Accounts, Holding
<1>9. InOrder(after)
  BY <1>1, <1>2, <1>4, <1>5 DEF Accounts, InOrder
<1>10. NoWaste(after, used)
  BY <1>1, <1>2, <1>4 DEF Accounts, NoWaste
<1> QED
  BY <1>6, <1>7, <1>8, <1>9, <1>10 DEF Accounts, after

\* A new response keeps the accounts: it is younger than all the tokens held, and
\* is given to the first open duty, or recorded by all the conditional ones.
LEMMA RegisterAccounts ==
  ASSUME NEW D \in SUBSET Nat, NEW occs \in [D -> Occurrence], NEW now \in Nat,
         NEW guard \in K3, SoundLedger(occs, guard, now),
         \A i \in D : occs[i].status = "Breached" => occs[i].deadline < now,
         NEW used, NEW seen \in Nat \cup {-1}, seen < now,
         Queue(occs, now), Accounts(occs, used, now),
         \A i \in D : occs[i].response <= seen
  PROVE  Accounts(RegisterResponseToken(occs, now),
                  used \cup {t \in {now} : Eligible(occs, t) # {}}, now)
<1> DEFINE after == RegisterResponseToken(occs, now)
           E == Eligible(occs, now)
<1>1. \A i \in D :
        /\ occs[i] \in Occurrence
        /\ occs[i].trigger_tick \in Nat /\ occs[i].deadline \in Nat
        /\ occs[i].response \in Nat \cup {NoTick}
        /\ Coherent(occs[i], guard) /\ InTime(occs[i], now)
  BY DEF SoundLedger, Sound, Occurrence
<1>2. DOMAIN occs = D
  OBVIOUS
<1>3. CASE E # {}
  <2> DEFINE target == First(occs, E)
  <2>1. E \in SUBSET D
    BY DEF Eligible
  <2>2. target \in E /\ \A j \in E \ {target} : Precedes(occs, target, j)
    BY <1>3, <2>1, FirstIsLeast
  <2>3. target \in D /\ occs[target].status = "Open" /\ now <= occs[target].deadline
    BY <2>2 DEF Eligible
  <2>4. guard = "T" /\ occs[target].response = NoTick
    BY <1>1, <1>2, <2>3 DEF Coherent, Conditional, K3, Accounts, Holding
  <2>5. after = [occs EXCEPT ![target] = Discharge(occs[target], now)]
    BY <1>3 DEF RegisterResponseToken
  <2>6. \A i \in D : i < target => i # target /\ ~ Precedes(occs, target, i)
    BY <1>2, <2>3, OlderPrecedes, ZenonT(40)
  <2>7. ASSUME NEW i \in D, i < target, now <= occs[i].deadline
        PROVE  occs[i].response # NoTick
    <3>1. i \notin E
      BY <2>2, <2>6, <2>7
    <3>2. occs[i].status # "Open"
      BY <2>7, <3>1 DEF Eligible
    <3>3. occs[i].status \in {"Discharged", "Breached"}
      BY <1>1, <2>4, <3>2 DEF Coherent
    <3>4. ~ occs[i].deadline < now
      BY <1>1, <2>7
    <3> QED
      BY <1>2, <3>3, <3>4 DEF Accounts, Holding
  <2>8. used \cup {t \in {now} : Eligible(occs, t) # {}} = used \cup {now}
    BY <1>3
  <2> HIDE DEF target, E
  <2>9. /\ DOMAIN after = D
        /\ \A i \in D \ {target} : after[i] = occs[i]
        /\ after[target].trigger_tick = occs[target].trigger_tick
        /\ after[target].deadline = occs[target].deadline
        /\ after[target].candidates = occs[target].candidates
        /\ after[target].response = now
        /\ after[target].status = "Discharged"
    <3>1. after[target] = Discharge(occs[target], now)
      BY <2>3, <2>5
    <3>2. occs[target] \in Occurrence
      BY <2>3
    <3> QED
      BY <2>5, <3>1, <3>2 DEF Discharge, Occurrence
  <2> HIDE DEF after
  <2>10. \A i \in D :
           /\ after[i].trigger_tick = occs[i].trigger_tick
           /\ after[i].deadline = occs[i].deadline
           /\ after[i].candidates = occs[i].candidates
    BY <2>9
  <2>11. \A i \in D : occs[i].response < now
    BY <1>1 DEF NoTick
  <2>12. Queue(after, now)
    BY <1>2, <2>9, <2>10 DEF Queue
  <2>13. Recording(after, now)
    BY <1>2, <2>9, <2>10 DEF Accounts, Recording
  <2>14. Holding(after, used \cup {now}, now)
    <3>1. \A i \in D : occs[i].response # now
      BY <1>1, <2>11
    <3>2. now # NoTick
      BY DEF NoTick
    <3>3. {after[i].response : i \in {j \in D : after[j].response # NoTick}}
            = {occs[i].response : i \in {j \in D : occs[j].response # NoTick}} \cup {now}
      <4>1. {j \in D : after[j].response # NoTick}
              = {j \in D : occs[j].response # NoTick} \cup {target}
        BY <2>3, <2>9, <3>2
      <4> DEFINE A == {j \in D : occs[j].response # NoTick}
      <4>2. target \notin A /\ A \subseteq D
        BY <2>4
      <4>3. \A i \in A : after[i].response = occs[i].response
        BY <2>9, <4>2
      <4> HIDE DEF A
      <4>4. {after[i].response : i \in A \cup {target}}
              = {occs[i].response : i \in A} \cup {now}
        BY <2>9, <4>3
      <4> QED
        BY <4>1, <4>4 DEF A
    <3>4. occs[target].trigger_tick <= now
      BY <1>2, <2>3 DEF Queue
    <3>5. ASSUME NEW i \in D
          PROVE  /\ after[i].response # NoTick <=> after[i].status = "Discharged"
                 /\ after[i].response # NoTick =>
                      /\ after[i].trigger_tick <= after[i].response
                      /\ after[i].response <= after[i].deadline
                      /\ after[i].response <= now
                 /\ \A j \in D : after[i].response # NoTick /\ after[i].response = after[j].response
                                 => i = j
      <4>1. CASE i = target
        BY <2>3, <2>9, <3>1, <3>2, <3>4, <4>1
      <4>2. CASE i # target
        <5>1. after[i] = occs[i] /\ after[i].response # now
          BY <2>9, <3>1, <4>2
        <5> QED
          BY <1>2, <2>9, <5>1 DEF Accounts, Holding
      <4> QED
        BY <4>1, <4>2
    <3> QED
      BY <1>2, <2>9, <3>3, <3>5 DEF Accounts, Holding
  <2>15. InOrder(after)
    <3> SUFFICES ASSUME NEW i \in D, NEW j \in D, i < j, after[j].response # NoTick,
                        after[i].deadline >= after[j].response
                 PROVE  after[i].response # NoTick /\ after[i].response < after[j].response
      BY <2>9 DEF InOrder
    <3>1. CASE j = target
      <4>1. i # target /\ i < target /\ now <= occs[i].deadline
        BY <1>1, <2>9, <2>10, <3>1
      <4> QED
        BY <2>7, <2>9, <2>11, <3>1, <4>1
    <3>2. CASE j # target /\ i = target
      <4>1. /\ occs[j].response # NoTick /\ occs[i].deadline >= occs[j].response
            /\ occs[i].response = NoTick
        BY <2>4, <2>9, <2>10, <3>2
      <4> QED
        BY <1>2, <4>1 DEF Accounts, InOrder
    <3>3. CASE j # target /\ i # target
      BY <1>2, <2>9, <3>3 DEF Accounts, InOrder
    <3> QED
      BY <3>1, <3>2, <3>3
  <2>16. NoWaste(after, used \cup {now})
    BY <1>2, <2>9 DEF Accounts, NoWaste
  <2>17. Accounts(after, used \cup {now}, now)
    BY <2>12, <2>13, <2>14, <2>15, <2>16 DEF Accounts
  <2> QED
    BY <2>8, <2>17 DEF after
<1>4. CASE E = {}
  <2>1. used \cup {t \in {now} : Eligible(occs, t) # {}} = used
    BY <1>4
  <2>2. /\ DOMAIN after = D
        /\ \A i \in D :
             after[i] = IF occs[i].status \in Conditional /\ now <= occs[i].deadline
                        THEN [occs[i] EXCEPT !.candidates = @ \cup {now}]
                        ELSE occs[i]
    BY <1>4 DEF RegisterResponseToken
  <2> HIDE DEF after, E
  <2>3. ASSUME NEW i \in D
        PROVE  /\ after[i].trigger_tick = occs[i].trigger_tick
               /\ after[i].deadline = occs[i].deadline
               /\ after[i].response = occs[i].response
               /\ after[i].status = occs[i].status
               /\ after[i].candidates =
                    IF occs[i].status \in Conditional /\ now <= occs[i].deadline
                    THEN occs[i].candidates \cup {now}
                    ELSE occs[i].candidates
    BY <1>1, <2>2 DEF Occurrence
  <2>4. Queue(after, now)
    BY <1>2, <2>2, <2>3 DEF Queue
  <2>5. Recording(after, now)
    <3> SUFFICES ASSUME NEW i \in D, NEW k \in after[i].candidates
                 PROVE  /\ occs[i].trigger_tick <= k /\ k <= occs[i].deadline /\ k <= now
                        /\ \A j \in D : j < i /\ k <= occs[j].deadline =>
                             k \in after[j].candidates
      BY <2>2, <2>3 DEF Recording
    <3>1. CASE k \in occs[i].candidates
      <4>1. /\ occs[i].trigger_tick <= k /\ k <= occs[i].deadline /\ k <= now
            /\ \A j \in D : j < i /\ k <= occs[j].deadline => k \in occs[j].candidates
        BY <1>2, <3>1 DEF Accounts, Recording
      <4>2. \A j \in D : occs[j].candidates \subseteq after[j].candidates
        BY <2>3
      <4> QED
        BY <4>1, <4>2
    <3>2. CASE k \notin occs[i].candidates
      <4>1. k = now /\ occs[i].status \in Conditional /\ now <= occs[i].deadline
        BY <2>3, <3>2
      <4>2. \A j \in D : occs[j].status \in Conditional
        BY <1>1, <4>1 DEF Coherent, K3, Conditional
      <4>3. occs[i].trigger_tick <= now /\ now <= now
        BY <1>2 DEF Queue
      <4>4. \A j \in D : now <= occs[j].deadline => now \in after[j].candidates
        BY <2>3, <4>2
      <4> QED
        BY <4>1, <4>3, <4>4
    <3> QED
      BY <3>1, <3>2
  <2>6. Holding(after, used, now)
    <3>1. {after[i].response : i \in {j \in D : after[j].response # NoTick}}
            = {occs[i].response : i \in {j \in D : occs[j].response # NoTick}}
      BY <2>3
    <3> QED
      BY <1>2, <2>2, <2>3, <3>1 DEF Accounts, Holding
  <2>7. InOrder(after)
    BY <1>2, <2>2, <2>3 DEF Accounts, InOrder
  <2>8. NoWaste(after, used)
    BY <1>2, <2>2, <2>3 DEF Accounts, NoWaste, Conditional
  <2>9. Accounts(after, used, now)
    BY <2>4, <2>5, <2>6, <2>7, <2>8 DEF Accounts
  <2> QED
    BY <2>1, <2>9 DEF after
<1> QED
  BY <1>3, <1>4

-----------------------------------------------------------------------------
(* The inductive invariant.                                                 *)

TokenInv == TypeOK /\ IInv /\ Accounts(occurrences, consumed, tick)

\* The strict expiry keeps the accounts, and a duty breached by then is past its
\* deadline.
LEMMA ExpiredAccounts ==
  ASSUME TokenInv, mode = "Running", NEW now \in Nat, tick < now
  PROVE  /\ PreExpire(occurrences, now) \in [1..oid_counter -> Occurrence]
         /\ SoundLedger(PreExpire(occurrences, now), epistemic[GuardKey], now)
         /\ Accounts(PreExpire(occurrences, now), consumed, tick)
         /\ \A i \in 1..oid_counter :
              PreExpire(occurrences, now)[i].status = "Breached" =>
                PreExpire(occurrences, now)[i].deadline < now
<1> DEFINE occs == PreExpire(occurrences, now)
           D == 1..oid_counter
<1>1. /\ TypeOK /\ IInv /\ Accounts(occurrences, consumed, tick)
      /\ tick \in Nat \cup {-1} /\ terminal_kind = "None"
      /\ occurrences \in [D -> Occurrence] /\ epistemic[GuardKey] \in K3
  BY GuardAssumption DEF TokenInv, IInv, TypeOK
<1>2. /\ occs \in [D -> Occurrence]
      /\ SoundLedger(occs, epistemic[GuardKey], now)
      /\ Accounts(occs, consumed, tick)
  <2> HIDE DEF D
  <2>1. /\ occs \in [D -> Occurrence]
        /\ SoundLedger(occs, epistemic[GuardKey], now)
    BY <1>1, RunningIsSound, PreExpireSound, PreExpireType
  <2>2. Accounts(occs, consumed, tick)
    BY <1>1, ExpireIdle DEF PreExpire
  <2> QED
    BY <2>1, <2>2
<1>3. ASSUME NEW i \in D, occs[i].status = "Breached"
      PROVE  occs[i].deadline < now
  <2> DEFINE o == occurrences[i]
  <2>1. o \in Occurrence /\ o.deadline \in Nat
    BY <1>1 DEF Occurrence
  <2>2. CASE o.status = "Breached"
    <3>1. o.deadline <= tick
      BY <1>1, <2>1, <2>2 DEF IInv, BreachTimes, Duties
    <3>2. occs[i] = o
      BY <1>1, <2>2 DEF PreExpire, Expire
    <3> QED
      BY <1>1, <2>1, <3>1, <3>2
  <2>3. CASE o.status # "Breached" /\ o.status = "Open" /\ o.deadline < now
    <3>1. occs[i] = Breach(o, "UnmetAtExpiry", now)
      BY <1>1, <2>3 DEF PreExpire, Expire
    <3> QED
      BY <2>1, <2>3, <3>1 DEF Breach, Occurrence
  <2>4. CASE o.status # "Breached" /\ ~ (o.status = "Open" /\ o.deadline < now)
    <3>1. occs[i] \in {o, GuardRemainsUnknownAtDeadline(o)}
      BY <1>1, <2>4 DEF PreExpire, Expire
    <3>2. occs[i].status # "Breached"
      BY <2>1, <2>4, <3>1 DEF GuardRemainsUnknownAtDeadline, Occurrence
    <3> QED
      BY <1>3, <3>2
  <2> QED
    BY <2>2, <2>3, <2>4
<1> QED
  BY <1>2, <1>3

\* The phases before the instantiation keep the accounts, and a duty breached by
\* then is past its deadline.
LEMMA AcceptedAccounts ==
  ASSUME TokenInv, NEW e \in AnyEvent, Accept(e), NEW alloc \in Resolutions(e)
  PROVE  /\ Accounts(Resolved(e, alloc), consumed \cup Used(alloc), tick)
         /\ \A i \in 1..oid_counter :
              Resolved(e, alloc)[i].status = "Breached" =>
                Resolved(e, alloc)[i].deadline < e.tick
<1> DEFINE now == e.tick
           value == Guard(e)
           occs == PreExpire(occurrences, now)
           D == 1..oid_counter
           after == ResolveConditionals(occs, value, alloc, now)
<1>1. /\ TypeOK /\ IInv /\ Accounts(occurrences, consumed, tick)
      /\ tick \in Nat \cup {-1} /\ now \in Nat /\ tick < now
      /\ mode = "Running" /\ terminal_kind = "None"
      /\ occurrences \in [D -> Occurrence] /\ D \in SUBSET Nat
  BY AcceptType DEF TokenInv, IInv, TypeOK, Accept
<1>2. epistemic[GuardKey] \in K3 /\ value \in K3 /\ Refines(epistemic[GuardKey], value)
  <2>1. epistemic[GuardKey] \in K3 /\ value \in K3
    BY <1>1, AcceptedIsSound, GuardAssumption DEF TypeOK
  <2> QED
    BY <1>1, <2>1, GuardAssumption DEF Accept, Contradicts, Guard, Observed, Refines
<1>3. Resolved(e, alloc) = after /\ alloc \in Allocations(occs, Activated(occs, value), consumed)
  BY DEF Resolved, Resolutions
<1>4. /\ occs \in [D -> Occurrence]
      /\ SoundLedger(occs, epistemic[GuardKey], now)
      /\ Accounts(occs, consumed, tick)
  <2> HIDE DEF now
  <2> QED
    BY <1>1, ExpiredAccounts
<1>5. \A i \in D : occs[i].status = "Breached" => occs[i].deadline < now
  BY <1>1, ExpiredAccounts
<1> HIDE DEF occs, now, value, D
<1>6. Accounts(after, consumed \cup Used(alloc), tick)
  <2>1. tick <= now
    BY <1>1
  <2> QED
    BY <1>1, <1>2, <1>3, <1>4, <2>1, ResolveAccounts DEF after
<1>7. ASSUME NEW i \in D, after[i].status = "Breached"
      PROVE  after[i].deadline < now
  <2> DEFINE o == occs[i]
  <2>1. o \in Occurrence /\ o.deadline \in Nat /\ now \in Nat
    BY <1>1, <1>4 DEF Occurrence
  <2>2. after[i] \in {o, GuardBecomesFalse(o), Activate(o, alloc[i], now)}
    BY <1>4 DEF after, ResolveConditionals, GuardsBecomeTrue
  <2>3. CASE after[i] = o
    BY <1>5, <1>7, <2>3
  <2>4. CASE after[i] = GuardBecomesFalse(o)
    BY <1>7, <2>1, <2>4 DEF GuardBecomesFalse, Occurrence
  <2>5. CASE after[i] = Activate(o, alloc[i], now)
    <3>1. CASE alloc[i] # NoTick
      <4>1. after[i] = Discharge(o, alloc[i])
        BY <2>5, <3>1 DEF Activate
      <4> QED
        BY <1>7, <2>1, <4>1 DEF Discharge, Occurrence
    <3>2. CASE alloc[i] = NoTick /\ now <= o.deadline
      <4>1. after[i] = [o EXCEPT !.status = "Open"]
        BY <2>5, <3>2 DEF Activate
      <4> QED
        BY <1>7, <2>1, <4>1 DEF Occurrence
    <3>3. CASE alloc[i] = NoTick /\ o.deadline < now
      <4>1. after[i] = Breach(o, "RetroactiveActivationAfterDeadline", now)
        BY <2>1, <2>5, <3>3 DEF Activate
      <4>2. after[i].deadline = o.deadline
        BY <2>1, <4>1 DEF Breach, Occurrence
      <4> QED
        BY <3>3, <4>2
    <3> QED
      BY <2>1, <3>1, <3>2, <3>3
  <2> QED
    BY <2>2, <2>3, <2>4, <2>5
<1> QED
  BY <1>3, <1>6, <1>7 DEF now, D, after

\* The aliases in use when the event's response is registered.
Aliases(e, oid) ==
  IF e.tag = TriggerTag THEN (1..oid_counter) \cup {oid} ELSE 1..oid_counter

\* So does the instantiation; the event's tick is later than every token held
\* or recorded.
LEMMA TriggeredAccounts ==
  ASSUME TokenInv, NEW e \in AnyEvent, Accept(e), NEW alloc \in Resolutions(e),
         NEW oid \in FreshOids
  PROVE  /\ Aliases(e, oid) \in SUBSET Nat
         /\ Triggered(e, alloc, oid) \in [Aliases(e, oid) -> Occurrence]
         /\ SoundLedger(Triggered(e, alloc, oid), Guard(e), e.tick)
         /\ Accounts(Triggered(e, alloc, oid), consumed \cup Used(alloc), e.tick)
         /\ \A i \in Aliases(e, oid) :
              /\ Triggered(e, alloc, oid)[i].status = "Breached" =>
                   Triggered(e, alloc, oid)[i].deadline < e.tick
              /\ Triggered(e, alloc, oid)[i].response <= tick
              /\ \A k \in Triggered(e, alloc, oid)[i].candidates : k <= tick
<1> DEFINE E == Aliases(e, oid)
           now == e.tick
           guard == Guard(e)
<1>1. /\ TypeOK /\ IInv /\ Accept(e)
      /\ now \in Nat /\ tick \in Nat \cup {-1} /\ tick < now
      /\ oid_counter \in Nat
  BY AcceptType DEF TokenInv, IInv, TypeOK, Accept
<1> DEFINE occs == Resolved(e, alloc)
           triggered == Triggered(e, alloc, oid)
           used == consumed \cup Used(alloc)
           D == 1..oid_counter
<1>3. /\ occs \in [D -> Occurrence] /\ D \in SUBSET Nat
      /\ guard \in K3 /\ SoundLedger(occs, guard, now)
      /\ Accounts(occs, used, tick)
      /\ \A i \in D : occs[i].status = "Breached" => occs[i].deadline < now
  <2>1. occs \in [D -> Occurrence] /\ D \in SUBSET Nat
    BY <1>1, ResolvedType, TypeIsShape
  <2>2. guard \in K3 /\ SoundLedger(occs, guard, now)
    BY <1>1, AcceptedIsSound
  <2>3. /\ Accounts(occs, used, tick)
        /\ \A i \in D : occs[i].status = "Breached" => occs[i].deadline < now
    BY <1>1, AcceptedAccounts
  <2> QED
    BY <2>1, <2>2, <2>3
<1>4. oid \in Nat /\ \A i \in D : i < oid
  BY <1>1, FreshOidIsNext
<1>5. triggered = IF e.tag = TriggerTag THEN InstantiateTrigger(occs, oid, guard, now)
                  ELSE occs
  BY DEF Triggered
<1>6. E = IF e.tag = TriggerTag THEN D \cup {oid} ELSE D
  BY DEF Aliases
<1> HIDE DEF now, guard, occs, triggered, used, D, E
<1>7. /\ triggered \in [E -> Occurrence] /\ E \in SUBSET Nat
      /\ SoundLedger(triggered, guard, now)
      /\ Accounts(triggered, used, now)
  <2>1. CASE e.tag = TriggerTag
    BY <1>1, <1>3, <1>4, <1>5, <1>6, <2>1, TriggerType, TriggerSound, TriggerAccounts
  <2>2. CASE e.tag # TriggerTag
    <3>1. tick <= now
      BY <1>1
    <3> QED
      BY <1>1, <1>3, <1>5, <1>6, <2>2, <3>1, LaterKeeps
  <2> QED
    BY <2>1, <2>2
<1>8. ASSUME NEW i \in E
      PROVE  /\ triggered[i].status = "Breached" => triggered[i].deadline < now
             /\ triggered[i].response <= tick
             /\ \A k \in triggered[i].candidates : k <= tick
  <2>1. CASE i \in D
    <3>1. triggered[i] = occs[i] \/ i = oid
      BY <1>3, <1>5, <2>1 DEF InstantiateTrigger
    <3>2. i # oid
      BY <1>3, <1>4, <2>1
    <3>3. occs[i].response <= tick
      BY <1>1, <1>3, <2>1 DEF Accounts, Holding, NoTick
    <3>4. \A k \in occs[i].candidates : k <= tick
      BY <1>3, <2>1 DEF Accounts, Recording
    <3> QED
      BY <1>3, <2>1, <3>1, <3>2, <3>3, <3>4
  <2>2. CASE i \notin D
    <3>1. triggered[i] = TriggerAndGuardRule(now, now + Bound, guard)
      BY <1>3, <1>5, <1>6, <2>2 DEF InstantiateTrigger
    <3>2. /\ triggered[i].status # "Breached" /\ triggered[i].response = NoTick
          /\ triggered[i].candidates = {}
      BY <3>1 DEF TriggerAndGuardRule, NewOccurrence
    <3> QED
      BY <1>1, <3>2 DEF NoTick
  <2> QED
    BY <2>1, <2>2
<1> QED
  BY <1>7, <1>8 DEF now, guard, triggered, used, E

\* A domain event keeps the accounts of tokens and duties.
LEMMA DomainAccounts ==
  ASSUME TokenInv, NEW e \in AnyEvent, StepDomain(e)
  PROVE  Accounts(occurrences', consumed', tick')
<1> DEFINE now == e.tick
           guard == Guard(e)
<1>1. /\ TypeOK /\ IInv /\ Accept(e)
      /\ now \in Nat /\ tick' = now /\ tick \in Nat \cup {-1} /\ tick < now
      /\ oid_counter \in Nat
  BY AcceptType DEF TokenInv, IInv, StepDomain, TypeOK, Accept
<1>2. PICK alloc \in Resolutions(e), oid \in FreshOids :
        /\ occurrences' = BoundaryExpire(Answered(e, alloc, oid), now)
        /\ consumed' = consumed \cup Used(alloc) \cup
                         {t \in {now} : /\ e.tag = ResponseTag
                                        /\ Eligible(Triggered(e, alloc, oid), t) # {}}
  BY DEF StepDomain
<1> DEFINE triggered == Triggered(e, alloc, oid)
           answered == Answered(e, alloc, oid)
           used == consumed \cup Used(alloc)
           E == Aliases(e, oid)
<1>3. E \in SUBSET Nat /\ guard \in K3
  BY <1>1, TriggeredAccounts, AcceptedIsSound
<1>6. answered = IF e.tag = ResponseTag THEN RegisterResponseToken(triggered, now)
                 ELSE triggered
  BY DEF Answered
<1>7. /\ triggered \in [E -> Occurrence]
      /\ SoundLedger(triggered, guard, now)
      /\ Accounts(triggered, used, now)
      /\ \A i \in E : /\ triggered[i].status = "Breached" => triggered[i].deadline < now
                      /\ triggered[i].response <= tick
  BY <1>1, TriggeredAccounts
<1> HIDE DEF now, guard, triggered, answered, used, E
<1>9. answered \in [E -> Occurrence] /\ Accounts(answered, consumed', now)
  <2>1. CASE e.tag = ResponseTag
    <3>1. consumed' = used \cup {t \in {now} : Eligible(triggered, t) # {}}
      BY <1>2, <2>1 DEF used, now, triggered
    <3>2. Queue(triggered, now)
      BY <1>7 DEF Accounts
    <3>3. Accounts(RegisterResponseToken(triggered, now),
                   used \cup {t \in {now} : Eligible(triggered, t) # {}}, now)
      BY <1>1, <1>3, <1>7, <3>2, RegisterAccounts
    <3>4. RegisterResponseToken(triggered, now) \in [E -> Occurrence]
      BY <1>1, <1>7, RegisterType
    <3> QED
      BY <1>6, <2>1, <3>1, <3>3, <3>4
  <2>2. CASE e.tag # ResponseTag
    <3>1. consumed' = used
      BY <1>2, <2>2 DEF used
    <3> QED
      BY <1>6, <1>7, <2>2, <3>1
  <2> QED
    BY <2>1, <2>2
<1>10. occurrences' = BoundaryExpire(answered, now)
  BY <1>2 DEF answered, now
<1>11. Accounts(BoundaryExpire(answered, now), consumed', now)
  BY <1>1, <1>9, ExpireIdle DEF BoundaryExpire
<1> QED
  BY <1>1, <1>10, <1>11

\* The two steps that neither trigger nor answer.
LEMMA SilentAccounts ==
  ASSUME TokenInv, NEW e \in AnyEvent, StepTick(e) \/ StepTerminal(e)
  PROVE  Accounts(occurrences', consumed', tick')
<1> DEFINE now == e.tick
           D == 1..oid_counter
<1>1. /\ TypeOK /\ Accept(e)
      /\ now \in Nat /\ tick' = now /\ tick \in Nat \cup {-1} /\ tick <= now
  BY AcceptType DEF TokenInv, IInv, StepTick, StepTerminal, TypeOK, Accept
<1>2. PICK alloc \in Resolutions(e) :
        /\ \/ occurrences' = BoundaryExpire(Resolved(e, alloc), now)
           \/ occurrences' = TerminalConversion(BoundaryExpire(Resolved(e, alloc), now),
                                                e.kind, now)
        /\ consumed' = consumed \cup Used(alloc)
  BY DEF StepTick, StepTerminal
<1>3. /\ Resolved(e, alloc) \in [D -> Occurrence]
      /\ Accounts(Resolved(e, alloc), consumed', tick)
  BY <1>1, <1>2, ResolvedType, TypeIsShape, AcceptedAccounts
<1> HIDE DEF now, D
<1>4. Accounts(Resolved(e, alloc), consumed', now)
  BY <1>1, <1>3, LaterKeeps
<1>5. /\ BoundaryExpire(Resolved(e, alloc), now) \in [D -> Occurrence]
      /\ Accounts(BoundaryExpire(Resolved(e, alloc), now), consumed', now)
  BY <1>1, <1>3, <1>4, ExpireIdle, PreExpireType DEF BoundaryExpire
<1>6. Accounts(TerminalConversion(BoundaryExpire(Resolved(e, alloc), now), e.kind, now),
               consumed', now)
  BY <1>1, <1>5, TerminalIdle
<1> QED
  BY <1>1, <1>2, <1>5, <1>6

\* A monitor without duties has spent nothing, whatever it knows.
LEMMA EmptyTokens ==
  ASSUME TypeOK, DOMAIN occurrences = {}, consumed = {}
  PROVE  TokenInv
<1>1. LiveWithinDeadline /\ GuardCoherence /\ BreachTimes
  BY DEF LiveWithinDeadline, GuardCoherence, BreachTimes, Duties
<1>2. {occurrences[i].response :
         i \in {j \in DOMAIN occurrences : occurrences[j].response # NoTick}} = {}
  OBVIOUS
<1> QED
  BY <1>1, <1>2, TypeIsShape
  DEF TokenInv, IInv, Accounts, Queue, Recording, Holding, InOrder, NoWaste

\* Nor has a new one.
LEMMA InitTokens == Init => TokenInv
BY InitType, EmptyTokens DEF Init

\* Every event keeps the accounts.
LEMMA StepTokens ==
  ASSUME TokenInv, NEW e \in AnyEvent, Step(e)
  PROVE  TokenInv'
<1>1. TypeOK' /\ IInv'
  BY StepType, StepSafe DEF TokenInv
<1>2. CASE StepAfterEnd(e) \/ StepStale(e)
  BY <1>1, <1>2 DEF StepAfterEnd, StepStale, TokenInv
<1>3. CASE StepContradiction(e)
  <2>1. /\ e.tick \in Nat /\ tick' = e.tick /\ tick < e.tick
        /\ tick \in Nat \cup {-1} /\ consumed' = consumed
        /\ occurrences' = PreExpire(occurrences, e.tick)
        /\ occurrences \in [1..oid_counter -> Occurrence]
        /\ Accounts(occurrences, consumed, tick)
    BY <1>3 DEF StepContradiction, TokenInv, IInv, TypeOK, AnyEvent
  <2>2. occurrences' \in [1..oid_counter -> Occurrence] /\ tick <= e.tick
    <3>1. PreExpire(occurrences, e.tick) \in [1..oid_counter -> Occurrence]
      BY <2>1, PreExpireType
    <3> QED
      BY <2>1, <3>1
  <2>3. Accounts(occurrences', consumed, tick)
    BY <2>1, ExpireIdle DEF PreExpire
  <2>4. Accounts(occurrences', consumed', tick')
    BY <2>1, <2>2, <2>3, LaterKeeps
  <2> QED
    BY <1>1, <2>4 DEF TokenInv
<1>4. CASE StepDomain(e)
  BY <1>1, <1>4, DomainAccounts DEF TokenInv
<1>5. CASE StepTick(e) \/ StepTerminal(e)
  BY <1>1, <1>5, SilentAccounts DEF TokenInv
<1> QED
  BY <1>2, <1>3, <1>4, <1>5 DEF Step

\* Every step keeps the accounts.
LEMMA NextTokens == TokenInv /\ [Next]_vars => TokenInv'
<1> SUFFICES ASSUME TokenInv, [Next]_vars PROVE TokenInv'
  OBVIOUS
<1>1. TypeOK' /\ IInv'
  BY NextType, NextSafe DEF TokenInv
<1>2. CASE UNCHANGED <<occurrences, consumed, tick>>
  BY <1>1, <1>2 DEF TokenInv
<1> QED
  BY <1>2, StepTokens, EventsAreAny DEF Next, SetInitial, vars

\* Whatever the monitor is given, its accounts are in order.
THEOREM TokensInductive == Spec => []TokenInv
BY InitTokens, NextTokens, PTL DEF Spec

\* Tokens that are held as they should be are spent linearly.
LEMMA HeldIsLinear == Holding(occurrences, consumed, tick) => LinearTokens
<1> SUFFICES ASSUME Holding(occurrences, consumed, tick) PROVE LinearTokens
  OBVIOUS
<1> DEFINE answered == {i \in Duties : occurrences[i].response # NoTick}
<1>1. consumed = {occurrences[i].response : i \in answered}
  BY DEF Holding, Duties
<1>2. answered = {i \in Duties : occurrences[i].status = "Discharged"}
  BY DEF Holding, Duties
<1>3. ASSUME NEW i \in answered
      PROVE  /\ occurrences[i].response >= occurrences[i].trigger_tick
             /\ occurrences[i].response <= occurrences[i].deadline
             /\ occurrences[i].response <= tick
             /\ \A j \in answered \ {i} :
                  occurrences[i].response # occurrences[j].response
  BY DEF Holding, Duties
<1> QED
  BY <1>1, <1>2, <1>3 DEF LinearTokens

\* One response settles one duty, in its window, and the consumed flags are set
\* on exactly the tokens duties hold: the discharge is Linear, as the clause
\* demands, for registration and retroactive allocation together.
THEOREM LinearTokensAlways == Spec => []LinearTokens
<1>1. TokenInv => LinearTokens
  BY HeldIsLinear DEF TokenInv, Accounts
<1> QED
  BY <1>1, TokensInductive, PTL

\* A response never passes over an older duty that could still have used it.
THEOREM NoOvertakingAlways == Spec => []NoOvertaking
<1>1. TokenInv => NoOvertaking
  BY DEF TokenInv, Accounts, InOrder, NoOvertaking, Duties
<1> QED
  BY <1>1, TokensInductive, PTL

\* No duty is breached, or left open, while a recorded response that is in time
\* for it is unspent.
THEOREM NoWastedCandidateAlways == Spec => []NoWastedCandidate
<1>1. TokenInv => NoWastedCandidate
  BY DEF TokenInv, Accounts, NoWaste, NoWastedCandidate, Duties
<1> QED
  BY <1>1, TokensInductive, PTL

-----------------------------------------------------------------------------
(* A monitor whose guard is known to be true, as that of a restored card    *)
(* with duties is.  Its duties may have any names, and several may be       *)
(* triggered at one tick, so that Queue fails; but none waits for a guard,  *)
(* no recorded response is ever handed out, and an open duty is as it was   *)
(* when it was triggered.                                                   *)

Spent(occs, used, seen) ==
  /\ \A i \in DOMAIN occs : occs[i].trigger_tick <= seen
  /\ \A i \in DOMAIN occs : occs[i].status = "Open" =>
       occs[i] = NewOccurrence(occs[i].trigger_tick, occs[i].deadline, "Open")
  /\ Holding(occs, used, seen)

Known ==
  /\ IInv
  /\ epistemic[GuardKey] = "T"
  /\ Spent(occurrences, consumed, tick)

\* A phase that gives no token leaves what is spent as it was.
LEMMA IdleSpends ==
  ASSUME NEW D, NEW occs, NEW after, DOMAIN occs = D, DOMAIN after = D,
         NEW used, NEW seen, Spent(occs, used, seen),
         \A i \in D : Idle(occs[i], after[i])
  PROVE  Spent(after, used, seen)
<1>1. {occs[i].response : i \in {j \in D : occs[j].response # NoTick}}
        = {after[i].response : i \in {j \in D : after[j].response # NoTick}}
  BY DEF Idle
<1> QED
  BY <1>1 DEF Spent, Holding, Idle

\* So does the passing of time.
LEMMA LaterSpends ==
  ASSUME NEW D, NEW occs \in [D -> Occurrence], NEW used,
         NEW seen \in Nat \cup {-1}, NEW later \in Nat, seen <= later,
         Spent(occs, used, seen)
  PROVE  Spent(occs, used, later)
<1>1. \A i \in D : occs[i].trigger_tick \in Nat /\ occs[i].response \in Nat \cup {NoTick}
  BY DEF Occurrence
<1> QED
  BY <1>1 DEF Spent, Holding, NoTick

\* A new duty holds nothing.
LEMMA TriggerSpends ==
  ASSUME NEW D, NEW occs \in [D -> Occurrence], NEW oid, oid \notin D, NEW guard,
         NEW now \in Nat, NEW used, Spent(occs, used, now)
  PROVE  Spent(InstantiateTrigger(occs, oid, guard, now), used, now)
<1> DEFINE after == InstantiateTrigger(occs, oid, guard, now)
           new == TriggerAndGuardRule(now, now + Bound, guard)
<1>1. /\ new.trigger_tick = now /\ new.response = NoTick
      /\ new.status \in {"Open", "Inapplicable", "ConditionalOpen"}
  BY DEF TriggerAndGuardRule, NewOccurrence
<1>2. new.status = "Open" => new = NewOccurrence(new.trigger_tick, new.deadline, "Open")
  <2>1. \A t, d, status : /\ NewOccurrence(t, d, status).status = status
                         /\ NewOccurrence(t, d, status).trigger_tick = t
                         /\ NewOccurrence(t, d, status).deadline = d
    BY DEF NewOccurrence
  <2> QED
    BY <2>1 DEF TriggerAndGuardRule
<1>3. /\ DOMAIN after = D \cup {oid} /\ DOMAIN occs = D
      /\ after[oid] = new /\ \A i \in D : after[i] = occs[i]
  BY DEF InstantiateTrigger
<1> HIDE DEF after, new
<1>4. {after[i].response : i \in {j \in D \cup {oid} : after[j].response # NoTick}}
        = {occs[i].response : i \in {j \in D : occs[j].response # NoTick}}
  BY <1>1, <1>3
<1>5. Holding(after, used, now)
  BY <1>1, <1>3, <1>4 DEF Spent, Holding
<1>6. Spent(after, used, now)
  BY <1>1, <1>3, <1>5, <1>2 DEF Spent
<1> QED
  BY <1>6 DEF after

\* A new response, later than every token held, is held by the duty it settles,
\* and where it settles none nothing changes.
LEMMA RegisterSpends ==
  ASSUME NEW D \in SUBSET Nat, NEW occs \in [D -> Occurrence], NEW now \in Nat,
         \A i \in D : occs[i].status \notin Conditional,
         NEW used, NEW seen \in Nat \cup {-1}, seen < now,
         Spent(occs, used, now), \A i \in D : occs[i].response <= seen
  PROVE  Spent(RegisterResponseToken(occs, now),
               used \cup {t \in {now} : Eligible(occs, t) # {}}, now)
<1> DEFINE after == RegisterResponseToken(occs, now)
           E == Eligible(occs, now)
<1>1. \A i \in D :
        /\ occs[i] \in Occurrence
        /\ occs[i].trigger_tick \in Nat /\ occs[i].deadline \in Nat
        /\ occs[i].response \in Nat \cup {NoTick}
  BY DEF Occurrence
<1>2. DOMAIN occs = D
  OBVIOUS
<1>3. CASE E # {}
  <2> DEFINE target == First(occs, E)
  <2>1. E \in SUBSET D
    BY DEF Eligible
  <2>2. target \in E
    BY <1>3, <2>1, FirstIsLeast
  <2>3. target \in D /\ occs[target].status = "Open" /\ now <= occs[target].deadline
    BY <2>2 DEF Eligible
  <2>4. occs[target].response = NoTick
    BY <1>2, <2>3 DEF Spent, Holding
  <2>5. after = [occs EXCEPT ![target] = Discharge(occs[target], now)]
    BY <1>3 DEF RegisterResponseToken
  <2>6. used \cup {t \in {now} : Eligible(occs, t) # {}} = used \cup {now}
    BY <1>3
  <2> HIDE DEF target, E
  <2>7. /\ DOMAIN after = D
        /\ \A i \in D \ {target} : after[i] = occs[i]
        /\ after[target].trigger_tick = occs[target].trigger_tick
        /\ after[target].deadline = occs[target].deadline
        /\ after[target].response = now
        /\ after[target].status = "Discharged"
    <3>1. after[target] = Discharge(occs[target], now)
      BY <2>3, <2>5
    <3>2. occs[target] \in Occurrence
      BY <2>3
    <3> QED
      BY <2>5, <3>1, <3>2 DEF Discharge, Occurrence
  <2> HIDE DEF after
  <2>8. now # NoTick /\ \A i \in D : occs[i].response # now
    BY <1>1 DEF NoTick
  <2>9. {after[i].response : i \in {j \in D : after[j].response # NoTick}}
          = {occs[i].response : i \in {j \in D : occs[j].response # NoTick}} \cup {now}
    <3> DEFINE A == {j \in D : occs[j].response # NoTick}
    <3>1. {j \in D : after[j].response # NoTick} = A \cup {target} /\ target \notin A
      BY <2>3, <2>4, <2>7, <2>8
    <3>2. \A i \in A : after[i] = occs[i]
      BY <2>7, <3>1
    <3> HIDE DEF A
    <3>3. {after[i].response : i \in A \cup {target}}
            = {after[i].response : i \in A} \cup {now}
      BY <2>7
    <3>4. {after[i].response : i \in A} = {occs[i].response : i \in A}
      BY <3>2
    <3> QED
      BY <3>1, <3>3, <3>4 DEF A
  <2>10. \A i \in D : after[i].trigger_tick <= now
    BY <1>2, <2>7 DEF Spent
  <2>11. ASSUME NEW i \in D
         PROVE  /\ after[i].response # NoTick <=> after[i].status = "Discharged"
                /\ after[i].response # NoTick =>
                     /\ after[i].trigger_tick <= after[i].response
                     /\ after[i].response <= after[i].deadline
                     /\ after[i].response <= now
                /\ \A j \in D : after[i].response # NoTick /\ after[i].response = after[j].response
                                => i = j
    <3>1. CASE i = target
      <4>1. after[i].response = now /\ after[i].status = "Discharged" /\ now # NoTick
        BY <2>7, <2>8, <3>1
      <4>2. after[i].trigger_tick <= now
        BY <2>10
      <4>3. now <= after[i].deadline
        BY <2>3, <2>7, <3>1
      <4>4. \A j \in D : j # i => after[j].response # now
        BY <2>7, <2>8, <3>1
      <4>5. now <= now
        OBVIOUS
      <4> QED
        BY <4>1, <4>2, <4>3, <4>4, <4>5
    <3>2. CASE i # target
      <4>1. after[i] = occs[i] /\ after[i].response # now
        BY <2>7, <2>8, <3>2
      <4> QED
        BY <1>2, <2>7, <4>1 DEF Spent, Holding
    <3> QED
      BY <3>1, <3>2
  <2>12. Spent(after, used \cup {now}, now)
    BY <1>2, <2>7, <2>9, <2>10, <2>11 DEF Spent, Holding
  <2> QED
    BY <2>6, <2>12 DEF after
<1>4. CASE E = {}
  <2>1. used \cup {t \in {now} : Eligible(occs, t) # {}} = used
    BY <1>4
  <2>2. after = occs
    BY <1>4 DEF RegisterResponseToken
  <2> QED
    BY <2>1, <2>2
<1> QED
  BY <1>3, <1>4

\* An event that is accepted finds no duty to resolve.
LEMMA KnownResolved ==
  ASSUME Known, NEW e \in AnyEvent, Accept(e), NEW alloc \in Resolutions(e)
  PROVE  /\ Guard(e) = "T" /\ epistemic'[GuardKey] = "T"
         /\ Used(alloc) = {}
         /\ Resolved(e, alloc) = PreExpire(occurrences, e.tick)
         /\ Resolved(e, alloc) \in [Duties -> Occurrence]
         /\ \A i \in Duties : Resolved(e, alloc)[i].status \notin Conditional
         /\ Spent(Resolved(e, alloc), consumed, tick)
<1> DEFINE now == e.tick
           occs == PreExpire(occurrences, now)
<1>1. /\ IInv /\ ShapeOK /\ mode = "Running" /\ now \in Nat
      /\ occurrences \in [Duties -> Occurrence]
      /\ Spent(occurrences, consumed, tick)
      /\ tick \in Nat \cup {-1} /\ tick < now
  BY AcceptType DEF Known, IInv, ShapeOK, Accept
<1>2. /\ Guard(e) \in K3 /\ Guard(e) = epistemic'[GuardKey]
      /\ SoundLedger(Resolved(e, alloc), Guard(e), e.tick)
  BY <1>1, AcceptedIsSound
<1>3. Guard(e) = "T"
  <2>1. Refines(epistemic[GuardKey], Guard(e))
    BY GuardAssumption DEF Accept, Contradicts, Guard, Observed, Refines
  <2> QED
    BY <2>1 DEF Refines, Known
<1>4. occs \in [Duties -> Occurrence]
  BY <1>1, PreExpireType
<1>5. Spent(occs, consumed, tick)
  <2>1. \A i \in Duties : Idle(occurrences[i], occs[i])
    BY <1>1, ExpireIsIdle DEF PreExpire
  <2> QED
    BY <1>1, <1>4, <2>1, IdleSpends
<1>6. \A i \in Duties : occs[i].status \notin Conditional
  <2>1. epistemic[GuardKey] \in K3 /\ epistemic[GuardKey] = "T"
    BY GuardAssumption DEF Known, IInv, ShapeOK
  <2> HIDE DEF now
  <2>2. SoundLedger(occs, epistemic[GuardKey], now)
    BY <1>1, <2>1, RunningIsSound, PreExpireSound
  <2> QED
    BY <1>4, <2>1, <2>2 DEF SoundLedger, Sound, Coherent, Conditional
<1>7. /\ alloc \in Allocations(occs, Activated(occs, Guard(e)), consumed)
      /\ Resolved(e, alloc) = ResolveConditionals(occs, Guard(e), alloc, now)
  BY DEF Resolutions, Resolved
<1> HIDE DEF occs
<1>8. Activated(occs, Guard(e)) = {}
  BY <1>4, <1>6 DEF Activated
<1>9. DOMAIN alloc = {}
  BY <1>7, <1>8 DEF Allocations
<1>10. Used(alloc) = {}
  BY <1>9 DEF Used
<1>11. Resolved(e, alloc) = occs
  BY <1>4, <1>6, <1>7, <1>9 DEF ResolveConditionals, GuardsBecomeTrue
<1> QED
  BY <1>2, <1>3, <1>4, <1>5, <1>6, <1>10, <1>11 DEF occs

\* The names in use when the event's response is registered.
Grown(e, oid) == IF e.tag = TriggerTag THEN Duties \cup {oid} ELSE Duties

\* The instantiation finds no duty to resolve either, and what it leaves is spent
\* as before; the event's tick is later than every token held.
LEMMA KnownTriggered ==
  ASSUME Known, NEW e \in AnyEvent, Accept(e), NEW alloc \in Resolutions(e),
         NEW oid \in FreshOids
  PROVE  /\ Grown(e, oid) \in SUBSET Nat
         /\ Triggered(e, alloc, oid) \in [Grown(e, oid) -> Occurrence]
         /\ Spent(Triggered(e, alloc, oid), consumed, e.tick)
         /\ \A i \in Grown(e, oid) :
              /\ Triggered(e, alloc, oid)[i].status \notin Conditional
              /\ Triggered(e, alloc, oid)[i].response <= tick
<1> DEFINE now == e.tick
           occs == Resolved(e, alloc)
           triggered == Triggered(e, alloc, oid)
           E == Grown(e, oid)
<1>1. /\ ShapeOK /\ now \in Nat /\ tick \in Nat \cup {-1} /\ tick < now
  BY AcceptType DEF Known, IInv, ShapeOK, Accept
<1>2. /\ Guard(e) = "T"
      /\ occs \in [Duties -> Occurrence]
      /\ \A i \in Duties : occs[i].status \notin Conditional
      /\ Spent(occs, consumed, tick)
  BY KnownResolved
<1>3. oid \in Nat /\ oid \notin Duties /\ Duties \in SUBSET Nat
  BY <1>1, FreshOidIsNew DEF ShapeOK
<1>4. triggered = IF e.tag = TriggerTag THEN InstantiateTrigger(occs, oid, "T", now)
                  ELSE occs
  BY <1>2 DEF Triggered
<1>5. E = IF e.tag = TriggerTag THEN Duties \cup {oid} ELSE Duties
  BY DEF Grown
<1> HIDE DEF now, occs, triggered, E
<1>6. Spent(occs, consumed, now) /\ \A i \in Duties : occs[i].response <= tick
  <2>1. tick <= now
    BY <1>1
  <2>2. Spent(occs, consumed, now)
    BY <1>1, <1>2, <2>1, LaterSpends
  <2>3. \A i \in Duties : occs[i].response # NoTick => occs[i].response <= tick
    BY <1>2 DEF Spent, Holding
  <2>4. NoTick <= tick
    BY <1>1 DEF NoTick
  <2> QED
    BY <2>2, <2>3, <2>4
<1>7. /\ E \in SUBSET Nat
      /\ triggered \in [E -> Occurrence]
      /\ Spent(triggered, consumed, now)
      /\ \A i \in E : /\ triggered[i].status \notin Conditional
                      /\ triggered[i].response <= tick
  <2>1. CASE e.tag = TriggerTag
    <3>1. triggered = InstantiateTrigger(occs, oid, "T", now) /\ E = Duties \cup {oid}
      BY <1>4, <1>5, <2>1
    <3>2. triggered \in [E -> Occurrence]
      BY <1>1, <1>2, <3>1, TriggerType
    <3>3. Spent(triggered, consumed, now)
      BY <1>1, <1>2, <1>3, <1>6, <3>1, TriggerSpends
    <3>4. ASSUME NEW i \in E
          PROVE  /\ triggered[i].status \notin Conditional
                 /\ triggered[i].response <= tick
      <4>1. CASE i = oid
        <5>1. triggered[i] = TriggerAndGuardRule(now, now + Bound, "T")
          BY <3>1, <4>1 DEF InstantiateTrigger
        <5>2. triggered[i].status = "Open" /\ triggered[i].response = NoTick
          BY <5>1 DEF TriggerAndGuardRule, NewOccurrence
        <5> QED
          BY <1>1, <5>2 DEF NoTick, Conditional
      <4>2. CASE i # oid
        <5>1. i \in Duties /\ triggered[i] = occs[i]
          BY <1>2, <3>1, <4>2 DEF InstantiateTrigger
        <5> QED
          BY <1>2, <1>6, <5>1
      <4> QED
        BY <4>1, <4>2
    <3> QED
      BY <1>3, <3>1, <3>2, <3>3, <3>4
  <2>2. CASE e.tag # TriggerTag
    BY <1>2, <1>3, <1>4, <1>5, <1>6, <2>2
  <2> QED
    BY <2>1, <2>2
<1> QED
  BY <1>7 DEF now, triggered, E

\* A domain event leaves the accounts of such a monitor in order.
LEMMA KnownDomain ==
  ASSUME Known, NEW e \in AnyEvent, StepDomain(e)
  PROVE  Spent(occurrences', consumed', tick') /\ epistemic'[GuardKey] = "T"
<1> DEFINE now == e.tick
<1>1. /\ ShapeOK /\ Accept(e) /\ now \in Nat /\ tick' = now
      /\ tick \in Nat \cup {-1} /\ tick < now
  BY AcceptType DEF Known, IInv, StepDomain, ShapeOK, Accept
<1>2. PICK alloc \in Resolutions(e), oid \in FreshOids :
        /\ occurrences' = BoundaryExpire(Answered(e, alloc, oid), now)
        /\ consumed' = consumed \cup Used(alloc) \cup
                         {t \in {now} : /\ e.tag = ResponseTag
                                        /\ Eligible(Triggered(e, alloc, oid), t) # {}}
  BY DEF StepDomain
<1> DEFINE triggered == Triggered(e, alloc, oid)
           answered == Answered(e, alloc, oid)
           E == Grown(e, oid)
<1>3. epistemic'[GuardKey] = "T" /\ Used(alloc) = {}
  BY <1>1, KnownResolved
<1>4. /\ E \in SUBSET Nat
      /\ triggered \in [E -> Occurrence]
      /\ Spent(triggered, consumed, now)
      /\ \A i \in E : /\ triggered[i].status \notin Conditional
                      /\ triggered[i].response <= tick
  BY <1>1, KnownTriggered
<1>5. answered = IF e.tag = ResponseTag THEN RegisterResponseToken(triggered, now)
                 ELSE triggered
  BY DEF Answered
<1> HIDE DEF now, E, triggered, answered
<1>6. answered \in [E -> Occurrence] /\ Spent(answered, consumed', now)
  <2>1. CASE e.tag = ResponseTag
    <3>1. consumed' = consumed \cup {t \in {now} : Eligible(triggered, t) # {}}
      BY <1>2, <1>3, <2>1 DEF triggered, now
    <3>2. Spent(RegisterResponseToken(triggered, now),
                consumed \cup {t \in {now} : Eligible(triggered, t) # {}}, now)
      BY <1>1, <1>4, RegisterSpends
    <3>3. RegisterResponseToken(triggered, now) \in [E -> Occurrence]
      BY <1>1, <1>4, RegisterType
    <3> QED
      BY <1>5, <2>1, <3>1, <3>2, <3>3
  <2>2. CASE e.tag # ResponseTag
    BY <1>2, <1>3, <1>5, <1>4, <2>2
  <2> QED
    BY <2>1, <2>2
<1>7. occurrences' = BoundaryExpire(answered, now)
  BY <1>2 DEF answered, now
<1>8. \A i \in E : Idle(answered[i], BoundaryExpire(answered, now)[i])
  BY <1>6, ExpireIsIdle DEF BoundaryExpire
<1>9. DOMAIN BoundaryExpire(answered, now) = E /\ DOMAIN answered = E
  BY <1>6 DEF BoundaryExpire, Expire
<1>10. Spent(BoundaryExpire(answered, now), consumed', now)
  BY <1>6, <1>8, <1>9, IdleSpends
<1> QED
  BY <1>1, <1>3, <1>7, <1>10

\* So do the two steps that neither trigger nor answer.
LEMMA KnownSilent ==
  ASSUME Known, NEW e \in AnyEvent, StepTick(e) \/ StepTerminal(e)
  PROVE  Spent(occurrences', consumed', tick') /\ epistemic'[GuardKey] = "T"
<1> DEFINE now == e.tick
<1>1. /\ ShapeOK /\ Accept(e) /\ now \in Nat /\ tick' = now
      /\ tick \in Nat \cup {-1} /\ tick <= now
  BY AcceptType DEF Known, IInv, StepTick, StepTerminal, ShapeOK, Accept
<1>2. PICK alloc \in Resolutions(e) :
        /\ \/ occurrences' = BoundaryExpire(Resolved(e, alloc), now)
           \/ occurrences' = TerminalConversion(BoundaryExpire(Resolved(e, alloc), now),
                                                e.kind, now)
        /\ consumed' = consumed \cup Used(alloc)
  BY DEF StepTick, StepTerminal
<1> DEFINE occs == Resolved(e, alloc)
           expired == BoundaryExpire(occs, now)
           final == TerminalConversion(expired, e.kind, now)
<1>3. /\ epistemic'[GuardKey] = "T" /\ Used(alloc) = {}
      /\ occs \in [Duties -> Occurrence]
      /\ Spent(occs, consumed, tick)
  BY <1>1, KnownResolved
<1> HIDE DEF now, occs
<1>4. Spent(occs, consumed, now)
  BY <1>1, <1>3, LaterSpends
<1>5. /\ expired \in [Duties -> Occurrence]
      /\ \A i \in Duties : Idle(occs[i], expired[i])
  BY <1>1, <1>3, ExpireIsIdle, PreExpireType DEF BoundaryExpire
<1> HIDE DEF expired
<1>6. Spent(expired, consumed, now)
  BY <1>3, <1>4, <1>5, IdleSpends
<1>7. /\ DOMAIN final = Duties /\ DOMAIN expired = Duties
      /\ \A i \in Duties : Idle(expired[i], final[i])
  BY <1>5, TerminalIsIdle DEF TerminalConversion
<1> HIDE DEF final
<1>8. Spent(final, consumed, now)
  BY <1>6, <1>7, IdleSpends
<1>9. consumed' = consumed /\ (occurrences' = expired \/ occurrences' = final)
  BY <1>2, <1>3 DEF expired, final, occs, now
<1> QED
  BY <1>1, <1>3, <1>6, <1>8, <1>9

\* Every event keeps such a monitor as it is.
LEMMA KnownSteps ==
  ASSUME Known, NEW e \in AnyEvent, Step(e)
  PROVE  Known'
<1>1. IInv'
  BY StepSafe DEF Known
<1>2. CASE StepAfterEnd(e) \/ StepStale(e)
  BY <1>1, <1>2 DEF StepAfterEnd, StepStale, Known
<1>3. CASE StepContradiction(e)
  <2>1. /\ e.tick \in Nat /\ tick' = e.tick /\ tick <= e.tick
        /\ tick \in Nat \cup {-1} /\ UNCHANGED <<consumed, epistemic>>
        /\ occurrences' = PreExpire(occurrences, e.tick)
        /\ occurrences \in [Duties -> Occurrence]
        /\ Spent(occurrences, consumed, tick)
    BY <1>3 DEF StepContradiction, Known, IInv, ShapeOK, AnyEvent
  <2> DEFINE after == PreExpire(occurrences, e.tick)
  <2>2. after \in [Duties -> Occurrence] /\ \A i \in Duties : Idle(occurrences[i], after[i])
    BY <2>1, ExpireIsIdle, PreExpireType DEF PreExpire
  <2> HIDE DEF after
  <2>3. Spent(after, consumed, tick)
    BY <2>1, <2>2, IdleSpends
  <2>4. Spent(after, consumed, e.tick)
    BY <2>1, <2>2, <2>3, LaterSpends
  <2>5. epistemic'[GuardKey] = "T" /\ Spent(occurrences', consumed', tick')
    BY <2>1, <2>4 DEF after, Known
  <2> QED
    BY <1>1, <2>5 DEF Known
<1>4. CASE StepDomain(e)
  BY <1>1, <1>4, KnownDomain DEF Known
<1>5. CASE StepTick(e) \/ StepTerminal(e)
  BY <1>1, <1>5, KnownSilent DEF Known
<1> QED
  BY <1>2, <1>3, <1>4, <1>5 DEF Step

\* A monitor that starts with open duties and a true guard is one; one that
\* starts without duties has its accounts in order, whatever it knows.
LEMMA OpenStarts ==
  ASSUME NEW D \in SUBSET Nat, IsFiniteSet(D), occurrences' \in [D -> Occurrence],
         mode' = "Running", terminal_kind' = "None", fault' = "None",
         diagnostic' = "None", tick' \in Nat \cup {-1}, consumed' = {},
         epistemic' \in [Keys -> K3], oid_counter' \in Nat,
         \A i \in D : \E t, d \in Nat :
           t <= tick' /\ tick' < d /\ occurrences'[i] = NewOccurrence(t, d, "Open")
  PROVE  /\ epistemic'[GuardKey] = "T" => Known'
         /\ D = {} /\ oid_counter' = 0 => TokenInv'
<1>1. DOMAIN occurrences' = D /\ Duties' = D
  BY DEF Duties
<1>2. ShapeOK'
  BY <1>1 DEF ShapeOK
<1>3. ASSUME NEW i \in D
      PROVE  /\ occurrences'[i].status = "Open" /\ occurrences'[i].response = NoTick
             /\ occurrences'[i].effective_time = NoTick
             /\ occurrences'[i].discovery_time = NoTick
             /\ occurrences'[i].deadline > tick'
             /\ occurrences'[i].deadline \in Nat
             /\ occurrences'[i].trigger_tick <= tick'
             /\ occurrences'[i] = NewOccurrence(occurrences'[i].trigger_tick,
                                               occurrences'[i].deadline, "Open")
  <2>1. PICK t \in Nat, d \in Nat :
          t <= tick' /\ tick' < d /\ occurrences'[i] = NewOccurrence(t, d, "Open")
    BY <1>3
  <2>2. occurrences'[i].trigger_tick = t /\ occurrences'[i].deadline = d
    BY <2>1 DEF NewOccurrence
  <2>3. /\ occurrences'[i].status = "Open" /\ occurrences'[i].response = NoTick
        /\ occurrences'[i].effective_time = NoTick
        /\ occurrences'[i].discovery_time = NoTick
    BY <2>1 DEF NewOccurrence
  <2> QED
    BY <2>1, <2>2, <2>3
<1>4. ASSUME epistemic'[GuardKey] = "T" PROVE Known'
  <2>1. LiveWithinDeadline'
    BY <1>1, <1>3 DEF LiveWithinDeadline
  <2>2. GuardCoherence'
    BY <1>1, <1>3, <1>4 DEF GuardCoherence
  <2>3. BreachTimes'
    BY <1>1, <1>3 DEF BreachTimes
  <2>4. Spent(occurrences', consumed', tick')
    <3>1. {occurrences'[i].response : i \in {j \in D : occurrences'[j].response # NoTick}} = {}
      BY <1>3
    <3> QED
      BY <1>1, <1>3, <3>1 DEF Spent, Holding
  <2> QED
    BY <1>2, <1>4, <2>1, <2>2, <2>3, <2>4 DEF Known, IInv
<1>5. ASSUME D = {}, oid_counter' = 0 PROVE TokenInv'
  <2>1. TypeOK'
    <3>1. 1..0 = {}
      OBVIOUS
    <3> QED
      BY <1>2, <1>5, <3>1 DEF TypeOK, ShapeOK
  <2>2. LiveWithinDeadline' /\ GuardCoherence' /\ BreachTimes'
    BY <1>1, <1>5 DEF LiveWithinDeadline, GuardCoherence, BreachTimes
  <2>3. Accounts(occurrences', consumed', tick')
    <3>1. {occurrences'[i].response :
             i \in {j \in DOMAIN occurrences' : occurrences'[j].response # NoTick}} = {}
      BY <1>1, <1>5
    <3> QED
      BY <1>1, <1>5, <3>1 DEF Accounts, Queue, Recording, Holding, InOrder, NoWaste
  <2> QED
    BY <1>2, <2>1, <2>2, <2>3 DEF TokenInv, IInv
<1> QED
  BY <1>4, <1>5

\* What an accepted event makes of the ledger of such a monitor, which has no
\* duty to resolve.
Moved(occs, e, oid) ==
  LET expired   == PreExpire(occs, e.tick)
      triggered == IF e.type = "Domain" /\ e.tag = TriggerTag
                   THEN InstantiateTrigger(expired, oid, "T", e.tick) ELSE expired
      answered  == IF e.type = "Domain" /\ e.tag = ResponseTag
                   THEN RegisterResponseToken(triggered, e.tick) ELSE triggered
      due       == BoundaryExpire(answered, e.tick)
  IN  IF e.type = "Terminal" THEN TerminalConversion(due, e.kind, e.tick) ELSE due

\* It makes just that of it, and ends the run if it is terminal.
LEMMA KnownMoves ==
  ASSUME Known, NEW e \in AnyEvent, Accept(e), Step(e)
  PROVE  /\ \E oid \in Nat :
              /\ e.type = "Domain" => oid \in FreshOids
              /\ occurrences' = Moved(occurrences, e, oid)
         /\ IF e.type = "Terminal"
            THEN mode' = "Halted" /\ terminal_kind' = e.kind
            ELSE mode' = "Running" /\ terminal_kind' = "None"
         /\ (e.type = "Domain" /\ e.tag = TriggerTag) \/ oid_counter' = oid_counter
<1>1. /\ mode = "Running" /\ terminal_kind = "None" /\ ShapeOK
      /\ tick \in Nat \cup {-1} /\ e.tick \in Nat /\ e.tick > tick
      /\ ~ Contradicts(e.observations)
  BY AcceptType DEF Accept, Known, IInv, ShapeOK
<1>2. ~ StepAfterEnd(e) /\ ~ StepStale(e) /\ ~ StepContradiction(e)
  BY <1>1 DEF StepAfterEnd, StepStale, StepContradiction
<1>3. \A oid \in FreshOids : oid \in Nat
  BY <1>1, FreshOidIsNew
<1>4. ASSUME StepDomain(e)
      PROVE  /\ e.type = "Domain" /\ UNCHANGED <<mode, terminal_kind>>
             /\ e.tag = TriggerTag \/ oid_counter' = oid_counter
             /\ \E oid \in FreshOids : occurrences' = Moved(occurrences, e, oid)
  <2>1. PICK alloc \in Resolutions(e), oid \in FreshOids :
          /\ occurrences' = BoundaryExpire(Answered(e, alloc, oid), e.tick)
          /\ oid_counter' = IF e.tag = TriggerTag THEN oid ELSE oid_counter
    BY <1>4 DEF StepDomain
  <2>2. Guard(e) = "T" /\ Resolved(e, alloc) = PreExpire(occurrences, e.tick)
    BY KnownResolved
  <2>3. e.type = "Domain" /\ UNCHANGED <<mode, terminal_kind>>
    BY <1>4 DEF StepDomain
  <2>4. occurrences' = Moved(occurrences, e, oid)
    BY <2>1, <2>2, <2>3 DEF Moved, Answered, Triggered
  <2> QED
    BY <2>1, <2>3, <2>4
<1>5. ASSUME StepTick(e) \/ StepTerminal(e)
      PROVE  /\ e.type # "Domain" /\ oid_counter' = oid_counter
             /\ IF e.type = "Terminal"
                THEN mode' = "Halted" /\ terminal_kind' = e.kind
                ELSE mode' = mode /\ terminal_kind' = terminal_kind
             /\ \A oid : occurrences' = Moved(occurrences, e, oid)
  <2>1. PICK alloc \in Resolutions(e) :
          occurrences' = IF e.type = "Terminal"
                         THEN TerminalConversion(BoundaryExpire(Resolved(e, alloc), e.tick),
                                                 e.kind, e.tick)
                         ELSE BoundaryExpire(Resolved(e, alloc), e.tick)
    BY <1>5 DEF StepTick, StepTerminal
  <2>2. Resolved(e, alloc) = PreExpire(occurrences, e.tick)
    BY KnownResolved
  <2>3. e.type # "Domain"
    BY <1>5 DEF StepTick, StepTerminal
  <2>4. \A oid : occurrences' = Moved(occurrences, e, oid)
    BY <2>1, <2>2, <2>3 DEF Moved
  <2> QED
    BY <1>5, <2>3, <2>4 DEF StepTick, StepTerminal
<1> QED
  BY <1>1, <1>2, <1>3, <1>4, <1>5 DEF Step

\* A duty of such a monitor that is breached once its deadlines have expired is
\* past its own.
LEMMA KnownExpired ==
  ASSUME Known, mode = "Running", NEW now \in Nat, tick < now
  PROVE  /\ PreExpire(occurrences, now) \in [Duties -> Occurrence]
         /\ SoundLedger(PreExpire(occurrences, now), "T", now)
         /\ \A i \in Duties : PreExpire(occurrences, now)[i].status = "Breached" =>
              PreExpire(occurrences, now)[i].deadline < now
<1> DEFINE occs == PreExpire(occurrences, now)
<1>1. /\ IInv /\ ShapeOK /\ tick \in Nat \cup {-1} /\ terminal_kind = "None"
      /\ occurrences \in [Duties -> Occurrence] /\ epistemic[GuardKey] = "T" /\ "T" \in K3
  BY GuardAssumption DEF Known, IInv, ShapeOK, K3
<1>2. /\ occs \in [Duties -> Occurrence]
      /\ SoundLedger(occs, "T", now)
  <2>1. SoundLedger(occurrences, "T", tick)
    BY <1>1, RunningIsSound
  <2> QED
    BY <1>1, <2>1, PreExpireSound, PreExpireType
<1>3. ASSUME NEW i \in Duties, occs[i].status = "Breached"
      PROVE  occs[i].deadline < now
  <2> DEFINE o == occurrences[i]
  <2>1. o \in Occurrence /\ o.deadline \in Nat
    BY <1>1 DEF Occurrence
  <2>2. CASE o.status = "Breached"
    <3>1. o.deadline <= tick
      BY <1>1, <2>1, <2>2 DEF IInv, BreachTimes, Duties
    <3>2. occs[i] = o
      BY <1>1, <2>2 DEF PreExpire, Expire
    <3> QED
      BY <1>1, <2>1, <3>1, <3>2
  <2>3. CASE o.status # "Breached" /\ o.status = "Open" /\ o.deadline < now
    <3>1. occs[i] = Breach(o, "UnmetAtExpiry", now)
      BY <1>1, <2>3 DEF PreExpire, Expire
    <3> QED
      BY <2>1, <2>3, <3>1 DEF Breach, Occurrence
  <2>4. CASE o.status # "Breached" /\ ~ (o.status = "Open" /\ o.deadline < now)
    <3>1. occs[i] \in {o, GuardRemainsUnknownAtDeadline(o)}
      BY <1>1, <2>4 DEF PreExpire, Expire
    <3>2. occs[i].status # "Breached"
      BY <2>1, <2>4, <3>1 DEF GuardRemainsUnknownAtDeadline, Occurrence
    <3> QED
      BY <1>3, <3>2
  <2> QED
    BY <2>2, <2>3, <2>4
<1> QED
  BY <1>2, <1>3

\* An event that triggers nothing keeps the accounts of such a monitor in order,
\* whatever names its duties have.
LEMMA KnownAccounts ==
  ASSUME Known, Accounts(occurrences, consumed, tick), NEW e \in AnyEvent, Step(e),
         e.type # "Domain" \/ e.tag # TriggerTag
  PROVE  Accounts(occurrences', consumed', tick')
<1>1. CASE StepAfterEnd(e) \/ StepStale(e)
  BY <1>1 DEF StepAfterEnd, StepStale
<1> DEFINE now == e.tick
           expired == PreExpire(occurrences, now)
<1>2. ASSUME mode = "Running", now > tick
      PROVE  /\ now \in Nat /\ tick <= now /\ tick \in Nat \cup {-1} /\ tick < now
             /\ ShapeOK /\ Duties \in SUBSET Nat
             /\ expired \in [Duties -> Occurrence]
             /\ SoundLedger(expired, "T", now)
             /\ \A i \in Duties : expired[i].status = "Breached" => expired[i].deadline < now
             /\ Accounts(expired, consumed, now)
             /\ \A i \in Duties : expired[i].response <= tick
  <2>1. /\ now \in Nat /\ tick <= now /\ tick \in Nat \cup {-1} /\ tick < now /\ ShapeOK
        /\ occurrences \in [Duties -> Occurrence] /\ Duties \in SUBSET Nat
    BY <1>2 DEF Known, IInv, ShapeOK, AnyEvent
  <2>2. /\ expired \in [Duties -> Occurrence] /\ SoundLedger(expired, "T", now)
        /\ \A i \in Duties : expired[i].status = "Breached" => expired[i].deadline < now
    BY <1>2, <2>1, KnownExpired
  <2>3. Accounts(expired, consumed, tick)
    BY <2>1, ExpireIdle DEF PreExpire
  <2> HIDE DEF expired, now
  <2>4. Accounts(expired, consumed, now)
    BY <2>1, <2>2, <2>3, LaterKeeps
  <2>5. \A i \in Duties : expired[i].response <= tick
    <3>1. \A i \in Duties : expired[i].response # NoTick => expired[i].response <= tick
      BY <2>2, <2>3 DEF Accounts, Holding
    <3>2. NoTick <= tick
      BY <2>1 DEF NoTick
    <3> QED
      BY <3>1, <3>2
  <2> QED
    BY <2>1, <2>2, <2>4, <2>5
<1>3. CASE StepContradiction(e)
  <2>1. /\ mode = "Running" /\ now > tick /\ tick' = now /\ consumed' = consumed
        /\ occurrences' = expired
    BY <1>3 DEF StepContradiction
  <2> QED
    BY <1>2, <2>1
<1>4. ASSUME StepDomain(e)
      PROVE  Accounts(occurrences', consumed', tick')
  <2>1. /\ mode = "Running" /\ now > tick /\ tick' = now /\ Accept(e)
        /\ e.type = "Domain" /\ e.tag # TriggerTag
    BY <1>4 DEF StepDomain, Accept
  <2>2. PICK alloc \in Resolutions(e), oid \in FreshOids :
        /\ occurrences' = BoundaryExpire(Answered(e, alloc, oid), now)
        /\ consumed' = consumed \cup Used(alloc) \cup
                         {t \in {now} : /\ e.tag = ResponseTag
                                        /\ Eligible(Triggered(e, alloc, oid), t) # {}}
    BY <1>4 DEF StepDomain
  <2>3. Triggered(e, alloc, oid) = expired /\ Used(alloc) = {}
    BY <2>1, KnownResolved DEF Triggered
  <2> DEFINE answered == Answered(e, alloc, oid)
  <2>4. answered = IF e.tag = ResponseTag THEN RegisterResponseToken(expired, now) ELSE expired
    BY <2>3 DEF Answered
  <2>5. occurrences' = BoundaryExpire(answered, now)
    BY <2>2
  <2>6. consumed' = consumed \cup {t \in {now} : e.tag = ResponseTag /\ Eligible(expired, t) # {}}
    BY <2>2, <2>3
  <2>7. /\ now \in Nat /\ tick \in Nat \cup {-1} /\ tick < now
        /\ Duties \in SUBSET Nat /\ ShapeOK
        /\ expired \in [Duties -> Occurrence]
        /\ SoundLedger(expired, "T", now)
        /\ \A i \in Duties : expired[i].status = "Breached" => expired[i].deadline < now
        /\ Accounts(expired, consumed, now)
        /\ \A i \in Duties : expired[i].response <= tick
    BY <1>2, <2>1
  <2> HIDE DEF expired, answered, now
  <2>8. Queue(expired, now) /\ "T" \in K3
    BY <2>7 DEF Accounts, K3
  <2>9. answered \in [Duties -> Occurrence] /\ Accounts(answered, consumed', now)
    <3>1. CASE e.tag = ResponseTag
      <4>1. consumed' = consumed \cup {t \in {now} : Eligible(expired, t) # {}}
        BY <2>6, <3>1
      <4>2. Accounts(RegisterResponseToken(expired, now),
                     consumed \cup {t \in {now} : Eligible(expired, t) # {}}, now)
        BY <2>7, <2>8, RegisterAccounts
      <4>3. RegisterResponseToken(expired, now) \in [Duties -> Occurrence]
        BY <2>7, RegisterType
      <4> QED
        BY <2>4, <3>1, <4>1, <4>2, <4>3
    <3>2. CASE e.tag # ResponseTag
      <4>1. consumed' = consumed /\ answered = expired
        BY <2>4, <2>6, <3>2
      <4> QED
        BY <2>7, <4>1
    <3> QED
      BY <3>1, <3>2
  <2>10. Accounts(BoundaryExpire(answered, now), consumed', now)
    BY <2>7, <2>9, ExpireIdle DEF BoundaryExpire
  <2> QED
    BY <2>1, <2>5, <2>10
<1>5. ASSUME StepTick(e) \/ StepTerminal(e)
      PROVE  Accounts(occurrences', consumed', tick')
  <2>1. mode = "Running" /\ now > tick /\ tick' = now /\ Accept(e)
    BY <1>5 DEF StepTick, StepTerminal, Accept
  <2>2. PICK alloc \in Resolutions(e) :
          /\ \/ occurrences' = BoundaryExpire(Resolved(e, alloc), now)
             \/ occurrences' = TerminalConversion(BoundaryExpire(Resolved(e, alloc), now),
                                                  e.kind, now)
          /\ consumed' = consumed \cup Used(alloc)
    BY <1>5 DEF StepTick, StepTerminal
  <2>3. Resolved(e, alloc) = expired /\ consumed' = consumed
    BY <2>1, <2>2, KnownResolved
  <2>4. now \in Nat /\ expired \in [Duties -> Occurrence] /\ Accounts(expired, consumed, now)
    BY <1>2, <2>1
  <2> DEFINE due == BoundaryExpire(expired, now)
  <2>5. occurrences' = due \/ occurrences' = TerminalConversion(due, e.kind, now)
    BY <2>2, <2>3
  <2> HIDE DEF expired, now
  <2>6. due \in [Duties -> Occurrence] /\ Accounts(due, consumed, now)
    BY <2>4, ExpireIdle, PreExpireType DEF BoundaryExpire
  <2> HIDE DEF due
  <2>7. Accounts(TerminalConversion(due, e.kind, now), consumed, now)
    BY <2>4, <2>6, TerminalIdle
  <2> QED
    BY <2>1, <2>3, <2>5, <2>6, <2>7
<1> QED
  BY <1>1, <1>3, <1>4, <1>5 DEF Step

\* Its clock may be set forward, if what it passes is expired.
LEMMA KnownExpires ==
  ASSUME Known, Accounts(occurrences, consumed, tick), mode = "Running",
         NEW now \in Nat \cup {-1}, tick <= now, tick' = now,
         occurrences' = BoundaryExpire(PreExpire(occurrences, now), now),
         UNCHANGED <<mode, terminal_kind, fault, epistemic, oid_counter, consumed,
                     diagnostic>>
  PROVE  Known' /\ Accounts(occurrences', consumed', tick')
<1>1. /\ IInv /\ ShapeOK /\ tick \in Nat \cup {-1} /\ fault = "None"
      /\ occurrences \in [Duties -> Occurrence] /\ epistemic[GuardKey] = "T" /\ "T" \in K3
      /\ Spent(occurrences, consumed, tick)
  BY GuardAssumption DEF Known, IInv, ShapeOK, K3
<1>2. CASE now = tick
  <2>1. \A i \in Duties : occurrences[i].deadline \in Nat /\ occurrences[i].status # "ConditionalOpen"
    BY <1>1 DEF Occurrence, IInv, GuardCoherence
  <2>2. \A i \in Duties : occurrences[i].status = "Open" => occurrences[i].deadline > now
    BY <1>1, <1>2 DEF IInv, LiveWithinDeadline
  <2>3. PreExpire(occurrences, now) = occurrences
    BY <1>1, <1>2, <2>1, <2>2 DEF PreExpire, Expire
  <2>4. BoundaryExpire(occurrences, now) = occurrences
    BY <1>1, <1>2, <2>1, <2>2 DEF BoundaryExpire, Expire
  <2>5. UNCHANGED <<occurrences, tick>>
    BY <1>2, <2>3, <2>4
  <2> QED
    BY <2>5 DEF Known, IInv, ShapeOK, Duties, LiveWithinDeadline, GuardCoherence, BreachTimes
<1>3. CASE now # tick
  <2> DEFINE expired == PreExpire(occurrences, now)
             due == BoundaryExpire(expired, now)
  <2>1. now \in Nat /\ tick < now
    BY <1>1, <1>3
  <2>2. expired \in [Duties -> Occurrence] /\ SoundLedger(expired, "T", now)
    BY <2>1, KnownExpired
  <2>3. Accounts(expired, consumed, tick) /\ Spent(expired, consumed, tick)
    <3>1. \A i \in Duties : Idle(occurrences[i], expired[i])
      BY <1>1, ExpireIsIdle DEF PreExpire
    <3>2. DOMAIN occurrences = Duties /\ DOMAIN expired = Duties
      BY <1>1, <2>2
    <3> HIDE DEF expired
    <3> QED
      BY <1>1, <3>1, <3>2, IdleKeeps, IdleSpends
  <2> HIDE DEF expired
  <2>4. Accounts(expired, consumed, now) /\ Spent(expired, consumed, now)
    BY <1>1, <2>1, <2>2, <2>3, LaterKeeps, LaterSpends
  <2>5. due \in [Duties -> Occurrence] /\ SoundLedger(due, "T", now)
        /\ \A i \in Duties : Ahead(due[i], now)
    BY <1>1, <2>1, <2>2, BoundarySound, PreExpireType
  <2>6. Accounts(due, consumed, now) /\ Spent(due, consumed, now)
    <3>1. \A i \in Duties : Idle(expired[i], due[i])
      BY <2>2, ExpireIsIdle DEF BoundaryExpire
    <3>2. DOMAIN expired = Duties /\ DOMAIN due = Duties
      BY <2>2, <2>5
    <3> HIDE DEF due
    <3> QED
      BY <2>4, <3>1, <3>2, IdleKeeps, IdleSpends
  <2>7. occurrences' = due
    BY DEF expired
  <2> HIDE DEF due
  <2>8. ShapeOK'
    <3>1. Duties' = Duties
      BY <2>5, <2>7 DEF Duties
    <3> QED
      BY <1>1, <2>1, <2>5, <2>7, <3>1 DEF ShapeOK
  <2>9. /\ SoundLedger(occurrences', epistemic'[GuardKey], tick')
        /\ \A i \in DOMAIN occurrences' : Ahead(occurrences'[i], tick')
    BY <1>1, <2>5, <2>7
  <2>10. IInv'
    BY <2>8, <2>9, SoundIsRunning
  <2> QED
    BY <1>1, <2>6, <2>7, <2>10 DEF Known
<1> QED
  BY <1>2, <1>3

-----------------------------------------------------------------------------
(***************************************************************************)
(* Proofs that the monitor implements BoundedResponse (MonitorHistory):    *)
(* its summary is the verdict of an oracle that knows every trigger and    *)
(* response and may pair them in any way.                                  *)
(*                                                                         *)
(* The ledger forgets responses, and HInv says which: while the guard is   *)
(* unknown none that fell in a duty's window, and under a true guard none  *)
(* that a duty could have used but one spent on an older duty.  From there *)
(* it is Hall's argument: behind a duty left without response lies a       *)
(* stretch of duties, the last of them this one, whose windows hold fewer  *)
(* responses than there are duties, so no pairing answers them all.        *)
(***************************************************************************)

\* R is what the ledger was told: it holds nothing else, and a response in a
\* duty's window is among its candidates, or spent, or not needed.
Told(occs, guard, used, R) ==
  /\ used \subseteq R
  /\ \A i \in DOMAIN occs :
       /\ occs[i].candidates \subseteq R
       /\ \A r \in R :
            occs[i].trigger_tick <= r /\ r <= occs[i].deadline =>
              /\ guard = "U" => r \in occs[i].candidates
              /\ guard = "T" /\ (occs[i].response = NoTick \/ r < occs[i].response)
                   => r \in used

\* A phase that leaves every record idle forgets nothing.
LEMMA IdleTold ==
  ASSUME NEW D, NEW occs, NEW after, DOMAIN occs = D, DOMAIN after = D,
         \A i \in D : Idle(occs[i], after[i]),
         NEW guard, NEW used, NEW R, Told(occs, guard, used, R)
  PROVE  Told(after, guard, used, R)
<1>1. ASSUME NEW i \in D
      PROVE  /\ after[i].candidates \subseteq R
             /\ \A r \in R :
                  after[i].trigger_tick <= r /\ r <= after[i].deadline =>
                    /\ guard = "U" => r \in after[i].candidates
                    /\ guard = "T" /\ (after[i].response = NoTick \/ r < after[i].response)
                         => r \in used
  <2>1. Idle(occs[i], after[i])
    OBVIOUS
  <2> QED
    BY <2>1 DEF Told, Idle
<1> QED
  BY <1>1 DEF Told

\* The expiry phases and the terminal conversion are such.
LEMMA PhasesTold ==
  ASSUME NEW D, NEW occs \in [D -> Occurrence], NEW now, NEW kind,
         NEW guard, NEW used, NEW R, Told(occs, guard, used, R)
  PROVE  /\ Told(PreExpire(occs, now), guard, used, R)
         /\ Told(BoundaryExpire(occs, now), guard, used, R)
         /\ Told(TerminalConversion(occs, kind, now), guard, used, R)
<1>1. DOMAIN occs = D
  OBVIOUS
<1>2. ASSUME NEW late
      PROVE  Told(Expire(occs, late, now), guard, used, R)
  <2>1. DOMAIN Expire(occs, late, now) = D
    BY DEF Expire
  <2>2. \A i \in D : Idle(occs[i], Expire(occs, late, now)[i])
    BY ExpireIsIdle
  <2> QED
    BY <1>1, <2>1, <2>2, IdleTold
<1>3. Told(TerminalConversion(occs, kind, now), guard, used, R)
  <2>1. DOMAIN TerminalConversion(occs, kind, now) = D
    BY DEF TerminalConversion
  <2>2. \A i \in D : Idle(occs[i], TerminalConversion(occs, kind, now)[i])
    BY TerminalIsIdle
  <2> QED
    BY <1>1, <2>1, <2>2, IdleTold
<1> QED
  BY <1>2, <1>3 DEF PreExpire, BoundaryExpire

\* A candidate in time for a duty that gets no earlier token is handed out.
LEMMA AllocationSpends ==
  ASSUME NEW D, NEW occs \in [D -> Occurrence], NEW active \in SUBSET D, NEW spent,
         NEW alloc \in Allocations(occs, active, spent),
         NEW i \in active, NEW k \in occs[i].candidates \ spent,
         k <= occs[i].deadline, alloc[i] = NoTick \/ k < alloc[i]
  PROVE  k \in Used(alloc)
<1> DEFINE tokens == Recorded(occs, active, spent)
<1>1. /\ alloc \in [active -> tokens \cup {NoTick}]
      /\ IsAllocation(occs, active, tokens, alloc)
  BY DEF Allocations
<1>2. k \in Nat /\ k \in tokens /\ alloc[i] \in Nat \cup {NoTick}
  BY AllocationType DEF Recorded, Occurrence
<1>3. i \in Takers(occs, active, alloc, k)
  BY <1>2 DEF Takers, NoTick
<1>4. {j \in active : alloc[j] = k} # {}
  BY <1>1, <1>2, <1>3 DEF IsAllocation
<1>5. k # NoTick
  BY <1>2 DEF NoTick
<1> QED
  BY <1>1, <1>4, <1>5 DEF Used

\* Resolving the guard forgets nothing: when it becomes true, every duty had
\* recorded every response in its window.
LEMMA ResolveTold ==
  ASSUME NEW D \in SUBSET Nat, NEW occs \in [D -> Occurrence], NEW now \in Nat,
         NEW guard \in K3, NEW value \in K3, Refines(guard, value),
         SoundLedger(occs, guard, now),
         NEW used, NEW seen, Accounts(occs, used, seen),
         NEW alloc \in Allocations(occs, Activated(occs, value), used),
         NEW R, Told(occs, guard, used, R)
  PROVE  Told(ResolveConditionals(occs, value, alloc, now), value,
              used \cup Used(alloc), R)
<1> DEFINE active == Activated(occs, value)
           after == ResolveConditionals(occs, value, alloc, now)
<1>1. /\ active \in SUBSET D
      /\ alloc \in [active -> Nat \cup {NoTick}]
      /\ DOMAIN after = D /\ DOMAIN occs = D
  BY AllocationType DEF Activated, ResolveConditionals
<1>2. \A i \in D : /\ occs[i] \in Occurrence /\ Coherent(occs[i], guard)
                   /\ occs[i].deadline \in Nat
  BY DEF SoundLedger, Sound, Occurrence
<1>3. ASSUME NEW i \in D
      PROVE  /\ after[i].trigger_tick = occs[i].trigger_tick
             /\ after[i].deadline = occs[i].deadline
             /\ after[i].candidates = occs[i].candidates
             /\ i \notin active => after[i].response = occs[i].response
             /\ i \in active => after[i].response = NoTick \/ after[i].response = alloc[i]
             /\ i \in active /\ after[i].response = NoTick /\ occs[i].response = NoTick
                  => alloc[i] = NoTick
  <2>1. occs[i] \in Occurrence /\ occs[i].deadline \in Nat
    BY <1>2
  <2>2. CASE i \in active
    <3>1. after[i] = Activate(occs[i], alloc[i], now)
      BY <1>1, <2>2 DEF Activated, ResolveConditionals, GuardsBecomeTrue
    <3>2. occs[i].response = NoTick
      BY <1>1, <2>2 DEF Activated, Accounts, Holding, Conditional
    <3>3. CASE alloc[i] # NoTick
      <4>1. after[i] = Discharge(occs[i], alloc[i])
        BY <3>1, <3>3 DEF Activate
      <4> QED
        BY <2>1, <2>2, <3>3, <4>1 DEF Discharge, Occurrence
    <3>4. CASE alloc[i] = NoTick
      <4>1. after[i] \in {[occs[i] EXCEPT !.status = "Open"],
                          Breach(occs[i], "RetroactiveActivationAfterDeadline", now)}
        BY <3>1, <3>4 DEF Activate
      <4>2. CASE after[i] = [occs[i] EXCEPT !.status = "Open"]
        BY <2>1, <2>2, <3>2, <3>4, <4>2 DEF Occurrence
      <4>3. CASE after[i] = Breach(occs[i], "RetroactiveActivationAfterDeadline", now)
        BY <2>1, <2>2, <3>2, <3>4, <4>3 DEF Breach, Occurrence
      <4> QED
        BY <4>1, <4>2, <4>3
    <3> QED
      BY <3>3, <3>4
  <2>3. CASE i \notin active
    <3>1. after[i] \in {occs[i], GuardBecomesFalse(occs[i])}
      BY <1>1, <2>3 DEF ResolveConditionals, GuardsBecomeTrue
    <3> QED
      BY <2>1, <2>3, <3>1 DEF GuardBecomesFalse, Occurrence
  <2> QED
    BY <2>2, <2>3
<1>4. used \cup Used(alloc) \subseteq R
  <2>1. \A k \in Used(alloc) : \E i \in active : k \in occs[i].candidates
    <3>1. alloc \in [active -> Recorded(occs, active, used) \cup {NoTick}]
      BY DEF Allocations
    <3> QED
      BY <3>1 DEF Used, Recorded
  <2> QED
    BY <1>1, <2>1 DEF Told
<1> SUFFICES ASSUME NEW i \in D, NEW r \in R,
                    occs[i].trigger_tick <= r, r <= occs[i].deadline
             PROVE  /\ value = "U" => r \in occs[i].candidates
                    /\ /\ value = "T"
                       /\ after[i].response = NoTick \/ r < after[i].response
                       => r \in used \cup Used(alloc)
  <2> HIDE DEF after, active
  <2>1. \A i \in D : after[i].candidates \subseteq R
    BY <1>1, <1>3 DEF Told
  <2> QED
    BY <1>1, <1>3, <1>4, <2>1 DEF Told, after
<1>5. value = "U" => r \in occs[i].candidates
  BY <1>1 DEF Told, Refines, K3
<1>6. ASSUME value = "T", after[i].response = NoTick \/ r < after[i].response
      PROVE  r \in used \cup Used(alloc)
  <2>1. CASE guard = "T"
    <3>1. i \notin active
      BY <1>2, <2>1 DEF Activated, Coherent, Conditional
    <3> QED
      BY <1>1, <1>3, <1>6, <2>1, <3>1 DEF Told
  <2>2. CASE guard = "U"
    <3>1. r \in occs[i].candidates
      BY <1>1, <2>2 DEF Told
    <3>2. i \in active
      BY <1>2, <1>6, <2>2 DEF Activated, Coherent
    <3>3. alloc[i] = NoTick \/ r < alloc[i]
      <4>1. occs[i].response = NoTick
        BY <1>1, <3>2 DEF Activated, Accounts, Holding, Conditional
      <4> QED
        BY <1>3, <1>6, <3>2, <4>1
    <3> HIDE DEF active
    <3>4. CASE r \notin used
      <4>1. r \in occs[i].candidates \ used
        BY <3>1, <3>4
      <4>2. r \in Used(alloc)
        BY <1>1, <3>2, <3>3, <4>1, AllocationSpends DEF active
      <4> QED
        BY <4>2
    <3> QED
      BY <3>4
  <2> QED
    BY <1>6, <2>1, <2>2 DEF Refines, K3
<1> QED
  BY <1>5, <1>6

\* A new duty has missed nothing.
LEMMA TriggerTold ==
  ASSUME NEW D, NEW occs \in [D -> Occurrence], NEW oid, oid \notin D, NEW guard,
         NEW now \in Nat, NEW used, NEW R \in SUBSET Nat, \A r \in R : r < now,
         Told(occs, guard, used, R)
  PROVE  Told(InstantiateTrigger(occs, oid, guard, now), guard, used, R)
<1> DEFINE after == InstantiateTrigger(occs, oid, guard, now)
<1>1. /\ DOMAIN after = D \cup {oid} /\ DOMAIN occs = D
      /\ after[oid].trigger_tick = now /\ after[oid].candidates = {}
      /\ \A i \in D : after[i] = occs[i]
  BY DEF InstantiateTrigger, TriggerAndGuardRule, NewOccurrence
<1>2. \A r \in R : ~ now <= r
  OBVIOUS
<1> HIDE DEF after
<1> QED
  BY <1>1, <1>2 DEF Told, after

\* A response is recorded by every conditional duty it is in time for, or spent
\* if a duty is left without.
LEMMA RegisterTold ==
  ASSUME NEW D \in SUBSET Nat, NEW occs \in [D -> Occurrence], NEW now \in Nat,
         NEW guard \in K3, SoundLedger(occs, guard, now),
         \A i \in D : occs[i].status = "Breached" => occs[i].deadline < now,
         \A i \in D : occs[i].response < now,
         NEW used, NEW seen, Accounts(occs, used, seen), NEW R \in SUBSET Nat, \A r \in R : r < now,
         Told(occs, guard, used, R)
  PROVE  Told(RegisterResponseToken(occs, now), guard,
              used \cup {t \in {now} : Eligible(occs, t) # {}}, R \cup {now})
<1> DEFINE after == RegisterResponseToken(occs, now)
           E == Eligible(occs, now)
<1>1. \A i \in D :
        /\ occs[i] \in Occurrence /\ occs[i].deadline \in Nat
        /\ occs[i].response \in Nat \cup {NoTick}
        /\ Coherent(occs[i], guard)
  BY DEF SoundLedger, Sound, Occurrence
<1>2. DOMAIN occs = D
  OBVIOUS
<1>3. CASE E # {}
  <2> DEFINE target == First(occs, E)
  <2>1. E \in SUBSET D
    BY DEF Eligible
  <2>2. target \in E
    BY <1>3, <2>1, FirstIsLeast
  <2>3. target \in D /\ occs[target].status = "Open"
    BY <2>2 DEF Eligible
  <2>4. guard = "T" /\ occs[target].response = NoTick
    BY <1>1, <1>2, <2>3 DEF Coherent, Conditional, K3, Accounts, Holding
  <2>5. after = [occs EXCEPT ![target] = Discharge(occs[target], now)]
    BY <1>3 DEF RegisterResponseToken
  <2>6. used \cup {t \in {now} : Eligible(occs, t) # {}} = used \cup {now}
    BY <1>3
  <2> HIDE DEF target, E
  <2>7. /\ DOMAIN after = D
        /\ \A i \in D \ {target} : after[i] = occs[i]
        /\ after[target].trigger_tick = occs[target].trigger_tick
        /\ after[target].deadline = occs[target].deadline
        /\ after[target].candidates = occs[target].candidates
        /\ after[target].response = now
    <3>1. after[target] = Discharge(occs[target], now)
      BY <2>3, <2>5
    <3>2. occs[target] \in Occurrence
      BY <2>3
    <3> QED
      BY <2>5, <3>1, <3>2 DEF Discharge, Occurrence
  <2> HIDE DEF after
  <2>8. ASSUME NEW i \in D, NEW r \in R,
               after[i].trigger_tick <= r, r <= after[i].deadline,
               after[i].response = NoTick \/ r < after[i].response
        PROVE  r \in used
    <3>1. occs[i].trigger_tick <= r /\ r <= occs[i].deadline
      BY <2>7, <2>8
    <3>2. occs[i].response = NoTick \/ r < occs[i].response
      BY <2>4, <2>7, <2>8
    <3> QED
      BY <1>2, <2>4, <3>1, <3>2 DEF Told
  <2>9. \A i \in D : after[i].candidates = occs[i].candidates
    BY <2>7
  <2>10. Told(after, guard, used \cup {now}, R \cup {now})
    BY <1>2, <2>4, <2>7, <2>8, <2>9 DEF Told
  <2> QED
    BY <2>6, <2>10 DEF after
<1>4. CASE E = {}
  <2>1. used \cup {t \in {now} : Eligible(occs, t) # {}} = used
    BY <1>4
  <2>2. ASSUME NEW i \in D
        PROVE  /\ after[i].trigger_tick = occs[i].trigger_tick
               /\ after[i].deadline = occs[i].deadline
               /\ after[i].response = occs[i].response
               /\ after[i].candidates =
                    IF occs[i].status \in Conditional /\ now <= occs[i].deadline
                    THEN occs[i].candidates \cup {now}
                    ELSE occs[i].candidates
    BY <1>1, <1>4 DEF RegisterResponseToken, Occurrence
  <2>3. ASSUME NEW i \in D, guard = "T", now <= occs[i].deadline
        PROVE  occs[i].response # NoTick /\ ~ now < occs[i].response
    <3>1. occs[i].status # "Open"
      BY <1>4, <2>3 DEF Eligible
    <3>2. occs[i].status # "Breached"
      BY <1>1, <2>3
    <3>3. occs[i].status = "Discharged"
      BY <1>1, <2>3, <3>1, <3>2 DEF Coherent
    <3>4. occs[i].response # NoTick
      BY <1>2, <3>3 DEF Accounts, Holding
    <3>5. ~ now < occs[i].response
      BY <1>1 DEF NoTick
    <3> QED
      BY <3>4, <3>5
  <2>4. DOMAIN after = D
    BY <1>4 DEF RegisterResponseToken
  <2> HIDE DEF after, E
  <2>5. ASSUME NEW i \in D, NEW r \in R \cup {now},
               occs[i].trigger_tick <= r, r <= occs[i].deadline
        PROVE  /\ guard = "U" => r \in after[i].candidates
               /\ guard = "T" /\ (after[i].response = NoTick \/ r < after[i].response)
                    => r \in used
    <3>1. CASE r = now
      <4>1. guard = "U" => occs[i].status \in Conditional
        BY <1>1 DEF Coherent
      <4> QED
        BY <2>2, <2>3, <2>5, <3>1, <4>1
    <3>2. CASE r \in R
      <4>1. occs[i].candidates \subseteq after[i].candidates
        BY <2>2
      <4> QED
        BY <1>2, <2>2, <2>5, <3>2, <4>1 DEF Told
    <3> QED
      BY <3>1, <3>2
  <2>6. \A i \in D : after[i].candidates \subseteq R \cup {now}
    BY <1>2, <2>2 DEF Told
  <2>7. used \subseteq R \cup {now}
    BY DEF Told
  <2>8. Told(after, guard, used, R \cup {now})
    BY <2>2, <2>4, <2>5, <2>6, <2>7 DEF Told
  <2> QED
    BY <2>1, <2>8 DEF after
<1> QED
  BY <1>3, <1>4

-----------------------------------------------------------------------------
\* The ledger tells the history, and no duty is decided past the horizon: a
\* contradicted event breaches only what was due before it, and an end that
\* decides every open duty leaves none open.
HInv ==
  /\ TokenInv
  /\ responses \subseteq Nat
  /\ \A r \in responses : r <= tick
  /\ Told(occurrences, epistemic[GuardKey], consumed, responses)
  /\ \A i \in Duties :
       /\ fault = "InconsistentObservation" /\ occurrences[i].status = "Breached" =>
            occurrences[i].deadline < tick
       /\ epistemic[GuardKey] = "T" /\ occurrences[i].status = "UnknownFinal" =>
            terminal_kind \notin {"Complete", "AgentAbort"} /\ tick < occurrences[i].deadline

\* The history after an event.
HistoryAfter(e) ==
  IF e.type = "Domain" /\ Processed(e) /\ e.tag = ResponseTag
  THEN responses \cup {e.tick}
  ELSE responses

\* The phases before the instantiation leave the history as it was.
LEMMA AcceptedTold ==
  ASSUME HInv, NEW e \in AnyEvent, Accept(e), NEW alloc \in Resolutions(e)
  PROVE  Told(Resolved(e, alloc), Guard(e), consumed \cup Used(alloc), responses)
<1> DEFINE now == e.tick
           value == Guard(e)
           occs == PreExpire(occurrences, now)
           D == 1..oid_counter
<1>1. /\ TypeOK /\ IInv /\ TokenInv
      /\ tick \in Nat \cup {-1} /\ now \in Nat /\ tick < now
      /\ mode = "Running"
      /\ occurrences \in [D -> Occurrence] /\ D \in SUBSET Nat
  BY AcceptType DEF HInv, TokenInv, IInv, TypeOK, Accept
<1>2. epistemic[GuardKey] \in K3 /\ value \in K3 /\ Refines(epistemic[GuardKey], value)
  <2>1. epistemic[GuardKey] \in K3 /\ value \in K3
    BY <1>1, AcceptedIsSound, GuardAssumption DEF TypeOK
  <2> QED
    BY <1>1, <2>1, GuardAssumption DEF Accept, Contradicts, Guard, Observed, Refines
<1>3. /\ Resolved(e, alloc) = ResolveConditionals(occs, value, alloc, now)
      /\ alloc \in Allocations(occs, Activated(occs, value), consumed)
  BY DEF Resolved, Resolutions
<1>4. /\ occs \in [D -> Occurrence]
      /\ SoundLedger(occs, epistemic[GuardKey], now)
      /\ Accounts(occs, consumed, tick)
  <2> HIDE DEF now
  <2> QED
    BY <1>1, ExpiredAccounts
<1>5. Told(occs, epistemic[GuardKey], consumed, responses)
  <2> HIDE DEF D, now
  <2>1. Told(occurrences, epistemic[GuardKey], consumed, responses)
    BY DEF HInv
  <2> QED
    BY <1>1, <2>1, PhasesTold
<1> HIDE DEF now, value, occs, D
<1>6. Told(ResolveConditionals(occs, value, alloc, now), value,
           consumed \cup Used(alloc), responses)
  BY <1>1, <1>2, <1>3, <1>4, <1>5, ResolveTold
<1> QED
  BY <1>3, <1>6 DEF value

\* A domain event adds its response to the history, and to the ledger.
LEMMA DomainTold ==
  ASSUME HInv, NEW e \in AnyEvent, StepDomain(e), responses' = HistoryAfter(e)
  PROVE  /\ Told(occurrences', epistemic'[GuardKey], consumed', responses')
         /\ responses' \subseteq Nat
         /\ \A r \in responses' : r <= tick'
<1> DEFINE now == e.tick
           guard == Guard(e)
<1>1. /\ TokenInv /\ TypeOK /\ IInv /\ Accept(e)
      /\ now \in Nat /\ tick' = now /\ tick \in Nat \cup {-1} /\ tick < now
      /\ oid_counter \in Nat
      /\ responses \in SUBSET Nat /\ \A r \in responses : r <= tick
  BY AcceptType DEF HInv, TokenInv, IInv, StepDomain, TypeOK, Accept
<1>2. PICK alloc \in Resolutions(e), oid \in FreshOids :
        /\ occurrences' = BoundaryExpire(Answered(e, alloc, oid), now)
        /\ consumed' = consumed \cup Used(alloc) \cup
                         {t \in {now} : /\ e.tag = ResponseTag
                                        /\ Eligible(Triggered(e, alloc, oid), t) # {}}
  BY DEF StepDomain
<1> DEFINE resolved == Resolved(e, alloc)
           triggered == Triggered(e, alloc, oid)
           answered == Answered(e, alloc, oid)
           used == consumed \cup Used(alloc)
           D == 1..oid_counter
           E == Aliases(e, oid)
<1>3. /\ E \in SUBSET Nat /\ guard \in K3 /\ guard = epistemic'[GuardKey]
      /\ triggered \in [E -> Occurrence]
      /\ SoundLedger(triggered, guard, now)
      /\ Accounts(triggered, used, now)
      /\ \A i \in E : /\ triggered[i].status = "Breached" => triggered[i].deadline < now
                      /\ triggered[i].response <= tick
  BY <1>1, TriggeredAccounts, AcceptedIsSound
<1>4. resolved \in [D -> Occurrence] /\ Told(resolved, guard, used, responses)
  BY <1>1, AcceptedTold, ResolvedType, TypeIsShape
<1>5. oid \notin D
  BY <1>1, FreshOidIsNext
<1>6. triggered = IF e.tag = TriggerTag THEN InstantiateTrigger(resolved, oid, guard, now)
                  ELSE resolved
  BY DEF Triggered
<1>7. answered = IF e.tag = ResponseTag THEN RegisterResponseToken(triggered, now)
                 ELSE triggered
  BY DEF Answered
<1>8. responses' = IF e.tag = ResponseTag THEN responses \cup {now} ELSE responses
  BY <1>1 DEF HistoryAfter, Processed, StepDomain, Accept
<1>9. \A r \in responses : r < now
  BY <1>1
<1>10. occurrences' = BoundaryExpire(answered, now)
  BY <1>2
<1>11. consumed' = used \cup
                     {t \in {now} : e.tag = ResponseTag /\ Eligible(triggered, t) # {}}
  BY <1>2
<1> HIDE DEF now, guard, resolved, triggered, answered, used, D, E
<1>12. Told(triggered, guard, used, responses)
  <2>1. CASE e.tag = TriggerTag
    BY <1>1, <1>4, <1>5, <1>6, <1>9, <2>1, TriggerTold
  <2>2. CASE e.tag # TriggerTag
    BY <1>4, <1>6, <2>2
  <2> QED
    BY <2>1, <2>2
<1>13. answered \in [E -> Occurrence] /\ Told(answered, guard, consumed', responses')
  <2>1. CASE e.tag = ResponseTag
    <3>1. /\ consumed' = used \cup {t \in {now} : Eligible(triggered, t) # {}}
          /\ responses' = responses \cup {now}
      BY <1>8, <1>11, <2>1
    <3>2. \A i \in E : triggered[i].response \in Nat \cup {NoTick}
      BY <1>3 DEF Occurrence
    <3>3. \A i \in E : triggered[i].response < now
      BY <1>1, <1>3, <3>2 DEF NoTick
    <3>4. Told(RegisterResponseToken(triggered, now), guard,
               used \cup {t \in {now} : Eligible(triggered, t) # {}}, responses \cup {now})
      BY <1>1, <1>3, <1>9, <1>12, <3>3, RegisterTold
    <3>5. RegisterResponseToken(triggered, now) \in [E -> Occurrence]
      BY <1>1, <1>3, RegisterType
    <3> QED
      BY <1>7, <2>1, <3>1, <3>4, <3>5
  <2>2. CASE e.tag # ResponseTag
    <3>1. consumed' = used /\ responses' = responses
      BY <1>8, <1>11, <2>2
    <3> QED
      BY <1>3, <1>7, <1>12, <2>2, <3>1
  <2> QED
    BY <2>1, <2>2
<1>14. Told(BoundaryExpire(answered, now), guard, consumed', responses')
  BY <1>13, PhasesTold
<1>15. responses' \subseteq Nat /\ \A r \in responses' : r <= now
  BY <1>1, <1>8
<1> QED
  BY <1>1, <1>3, <1>10, <1>14, <1>15

\* The end of a run gives up only on duties that are still ahead, and on none
\* that is owed if the end decides them.
LEMMA TerminalGivesUp ==
  ASSUME HInv, NEW e \in AnyEvent, StepTerminal(e), NEW i \in Duties',
         epistemic'[GuardKey] = "T", occurrences'[i].status = "UnknownFinal"
  PROVE  /\ terminal_kind' \notin {"Complete", "AgentAbort"}
         /\ tick' < occurrences'[i].deadline
<1>1. /\ IInv /\ ShapeOK /\ Accept(e) /\ e.tick \in Nat /\ tick' = e.tick
      /\ terminal_kind' = e.kind
  BY AcceptType DEF HInv, TokenInv, IInv, StepTerminal
<1>2. PICK alloc \in Resolutions(e) :
        occurrences' = TerminalConversion(BoundaryExpire(Resolved(e, alloc), e.tick),
                                          e.kind, e.tick)
  BY DEF StepTerminal
<1> DEFINE occs == BoundaryExpire(Resolved(e, alloc), e.tick)
           guard == Guard(e)
<1>3. /\ guard \in K3 /\ guard = epistemic'[GuardKey]
      /\ SoundLedger(Resolved(e, alloc), guard, e.tick)
  BY <1>1, AcceptedIsSound
<1>4. Resolved(e, alloc) \in [Duties -> Occurrence]
  BY <1>1, ResolvedType
<1>5. /\ occs \in [Duties -> Occurrence]
      /\ SoundLedger(occs, guard, e.tick)
      /\ \A j \in Duties : Ahead(occs[j], e.tick)
  BY <1>1, <1>3, <1>4, BoundarySound, PreExpireType
<1>6. occurrences' = TerminalConversion(occs, e.kind, e.tick)
  BY <1>2
<1> HIDE DEF occs, guard
<1>7. i \in Duties
  BY <1>5, <1>6 DEF TerminalConversion, Duties
<1> DEFINE o == occs[i]
<1>8. o \in Occurrence /\ Sound(o, guard, e.tick) /\ Ahead(o, e.tick)
  BY <1>5, <1>7 DEF SoundLedger
<1>9. CASE o.status = "Open"
  <2>1. occurrences'[i] = ConvertOpen(o, e.kind, e.tick)
    BY <1>5, <1>6, <1>7, <1>9 DEF TerminalConversion, Conditional
  <2>2. e.tick < o.deadline
    BY <1>8, <1>9 DEF Ahead
  <2>3. e.kind \notin {"Complete", "AgentAbort"}
    BY <1>8, <2>1 DEF ConvertOpen, Breach, Occurrence
  <2>4. occurrences'[i].deadline = o.deadline
    BY <1>8, <2>1, <2>3 DEF ConvertOpen, Occurrence
  <2> QED
    BY <1>1, <2>2, <2>3, <2>4
<1>10. CASE o.status # "Open"
  <2>1. o.status \notin Conditional
    BY <1>3, <1>8 DEF Sound, Coherent, Conditional
  <2>2. occurrences'[i] = o
    BY <1>5, <1>6, <1>7, <1>10, <2>1 DEF TerminalConversion
  <2> QED
    BY <1>8, <2>2 DEF Sound, InTime
<1> QED
  BY <1>9, <1>10

\* Every event keeps the invariant.
LEMMA StepHistory ==
  ASSUME HInv, NEW e \in AnyEvent, HStep(e)
  PROVE  HInv'
<1>1. TokenInv' /\ TokenInv /\ Step(e)
  BY StepTokens DEF HInv, HStep
<1>2. /\ TypeOK /\ IInv /\ TypeOK' /\ IInv'
      /\ tick \in Nat \cup {-1} /\ responses \subseteq Nat
      /\ \A r \in responses : r <= tick
  BY <1>1 DEF HInv, TokenInv, TypeOK
<1>3. responses' = HistoryAfter(e)
  BY DEF HStep, HistoryAfter
<1>4. mode' # "Halted" => \A i \in Duties' : occurrences'[i].status # "UnknownFinal"
  BY <1>2 DEF IInv, LiveWithinDeadline
<1>5. CASE StepAfterEnd(e)
  <2>1. responses' = responses
    BY <1>3, <1>5 DEF StepAfterEnd, HistoryAfter, Processed
  <2> QED
    BY <1>1, <1>5, <2>1 DEF StepAfterEnd, HInv, Duties
<1>6. CASE StepStale(e)
  <2>1. responses' = responses
    <3>1. ~ e.tick > tick
      BY <1>2, <1>6 DEF StepStale, AnyEvent
    <3> QED
      BY <1>3, <3>1 DEF HistoryAfter, Processed
  <2> QED
    BY <1>1, <1>4, <1>6, <2>1 DEF StepStale, HInv, Duties
<1>7. CASE StepContradiction(e)
  <2>1. responses' = responses
    BY <1>3, <1>7 DEF StepContradiction, HistoryAfter, Processed
  <2>2. /\ e.tick \in Nat /\ tick' = e.tick /\ tick < e.tick /\ mode = "Running"
        /\ consumed' = consumed /\ epistemic' = epistemic /\ mode' = "Faulted"
        /\ occurrences' = PreExpire(occurrences, e.tick)
        /\ occurrences \in [1..oid_counter -> Occurrence]
    BY <1>2, <1>7 DEF StepContradiction, TypeOK, AnyEvent
  <2>3. Told(occurrences', epistemic'[GuardKey], consumed', responses')
    <3>1. Told(occurrences, epistemic[GuardKey], consumed, responses)
      BY DEF HInv
    <3>2. Told(PreExpire(occurrences, e.tick), epistemic[GuardKey], consumed, responses)
      BY <2>2, <3>1, PhasesTold
    <3> QED
      BY <2>1, <2>2, <3>2
  <2>4. \A i \in Duties' :
          occurrences'[i].status = "Breached" => occurrences'[i].deadline < tick'
    <3>1. /\ PreExpire(occurrences, e.tick) \in [1..oid_counter -> Occurrence]
          /\ \A i \in 1..oid_counter :
               PreExpire(occurrences, e.tick)[i].status = "Breached" =>
                 PreExpire(occurrences, e.tick)[i].deadline < e.tick
      BY <1>1, <2>2, ExpiredAccounts
    <3>2. Duties' = 1..oid_counter
      BY <2>2, <3>1 DEF Duties
    <3> QED
      BY <2>2, <3>1, <3>2
  <2>5. \A r \in responses' : r <= tick'
    BY <1>2, <2>1, <2>2
  <2> QED
    BY <1>1, <1>2, <1>4, <2>1, <2>2, <2>3, <2>4, <2>5 DEF HInv
<1>8. CASE StepDomain(e)
  <2>1. /\ Told(occurrences', epistemic'[GuardKey], consumed', responses')
        /\ responses' \subseteq Nat
        /\ \A r \in responses' : r <= tick'
    BY <1>3, <1>8, DomainTold
  <2>2. fault' = "None" /\ mode' = "Running"
    BY <1>2, <1>8, AcceptType DEF StepDomain, IInv
  <2> QED
    BY <1>1, <1>4, <2>1, <2>2 DEF HInv
<1>9. CASE StepTick(e) \/ StepTerminal(e)
  <2>1. responses' = responses
    BY <1>3, <1>9 DEF StepTick, StepTerminal, HistoryAfter
  <2>2. /\ Accept(e) /\ ShapeOK /\ e.tick \in Nat /\ tick' = e.tick /\ tick < e.tick
        /\ fault' = "None"
    BY <1>2, <1>9, AcceptType DEF StepTick, StepTerminal, IInv, Accept
  <2>3. PICK alloc \in Resolutions(e) :
          /\ \/ occurrences' = BoundaryExpire(Resolved(e, alloc), e.tick)
             \/ occurrences' =
                  TerminalConversion(BoundaryExpire(Resolved(e, alloc), e.tick),
                                     e.kind, e.tick)
          /\ consumed' = consumed \cup Used(alloc)
    BY <1>9 DEF StepTick, StepTerminal
  <2>4. /\ Resolved(e, alloc) \in [Duties -> Occurrence]
        /\ Guard(e) = epistemic'[GuardKey]
        /\ Told(Resolved(e, alloc), Guard(e), consumed', responses')
    BY <1>2, <2>1, <2>2, <2>3, AcceptedTold, AcceptedIsSound, ResolvedType
  <2> DEFINE occs == BoundaryExpire(Resolved(e, alloc), e.tick)
  <2>5. /\ occs \in [Duties -> Occurrence]
        /\ Told(occs, Guard(e), consumed', responses')
    BY <2>2, <2>4, PhasesTold, PreExpireType
  <2> HIDE DEF occs
  <2>6. Told(TerminalConversion(occs, e.kind, e.tick), Guard(e), consumed', responses')
    BY <2>5, PhasesTold
  <2>7. Told(occurrences', epistemic'[GuardKey], consumed', responses')
    BY <2>3, <2>4, <2>5, <2>6 DEF occs
  <2>8. \A r \in responses' : r <= tick'
    BY <1>2, <2>1, <2>2
  <2>9. StepTick(e) => mode' = "Running"
    BY <2>2 DEF StepTick, Accept
  <2>10. \A i \in Duties' :
           epistemic'[GuardKey] = "T" /\ occurrences'[i].status = "UnknownFinal" =>
             /\ terminal_kind' \notin {"Complete", "AgentAbort"}
             /\ tick' < occurrences'[i].deadline
    BY <1>4, <1>9, <2>9, TerminalGivesUp
  <2> QED
    BY <1>1, <1>2, <2>1, <2>2, <2>7, <2>8, <2>10 DEF HInv
<1> QED
  BY <1>1, <1>5, <1>6, <1>7, <1>8, <1>9 DEF Step

\* A monitor before its first event has no history.
LEMMA NoHistory ==
  ASSUME TokenInv, responses \subseteq Nat, \A r \in responses : r <= tick, tick = -1
  PROVE  HInv /\ Duties = {} /\ responses = {}
<1>1. responses = {}
  <2>1. \A r \in responses : r \in Nat /\ ~ r <= -1
    OBVIOUS
  <2> QED
    BY <2>1
<1>2. DOMAIN occurrences = {}
  BY DEF TokenInv, TypeOK
<1>3. consumed = {}
  BY <1>2 DEF TokenInv, Accounts, Holding
<1> QED
  BY <1>1, <1>2, <1>3 DEF HInv, Told, Duties

\* The invariant holds initially and is kept by every step.
LEMMA HistorySteps ==
  /\ HInit => HInv
  /\ HInv /\ [HNext]_<<vars, responses>> => HInv'
<1>1. HInit => HInv
  <2>1. HInit => tick = -1 /\ responses = {}
    BY DEF HInit, Init
  <2> QED
    BY <2>1, InitTokens, NoHistory DEF HInit
<1>2. ASSUME HInv, [HNext]_<<vars, responses>>
      PROVE  HInv'
  <2>1. ASSUME NEW key \in Keys, NEW value \in K3, HSetInitial(key, value)
        PROVE  HInv'
    <3>1. TokenInv'
      BY <1>2, <2>1, NextTokens DEF HInv, HSetInitial, Next
    <3>2. /\ tick = -1 /\ tick' = -1 /\ responses' = responses
          /\ consumed' = consumed /\ occurrences' = occurrences
      BY <2>1 DEF HSetInitial, SetInitial
    <3>3. Duties = {} /\ responses = {} /\ consumed = {}
      <4>1. responses \subseteq Nat /\ TokenInv /\ \A r \in responses : r <= tick
        BY <1>2 DEF HInv
      <4>2. Duties = {} /\ responses = {}
        BY <3>2, <4>1, NoHistory
      <4> QED
        BY <4>1, <4>2 DEF TokenInv, Accounts, Holding, Duties
    <3> QED
      BY <3>1, <3>2, <3>3 DEF HInv, Told, Duties
  <2>2. CASE UNCHANGED <<vars, responses>>
    <3>1. TokenInv'
      BY <1>2, <2>2, NextTokens DEF HInv
    <3> QED
      BY <1>2, <2>2, <3>1 DEF HInv, vars, Duties
  <2> QED
    BY <1>2, <2>1, <2>2, StepHistory, EventsAreAny DEF HNext
<1> QED
  BY <1>1, <1>2

\* At every step the ledger tells the history, and an expiry, an end or a fault
\* half way through an event has decided only what is due by then.
THEOREM HistoryInductive == HSpec => []HInv
BY HistorySteps, PTL DEF HSpec

\* Who holds what a duty without response could have used.
LEMMA MissedIsHeld ==
  ASSUME HInv, epistemic[GuardKey] = "T", NEW i \in Duties, NEW r \in responses,
         occurrences[i].trigger_tick <= r, r <= occurrences[i].deadline,
         occurrences[i].response = NoTick \/ r < occurrences[i].response
  PROVE  \E h \in Duties : h < i /\ occurrences[h].response = r
<1>1. r \in consumed
  BY DEF HInv, Told, Duties
<1>2. PICK h \in Duties : occurrences[h].response = r /\ r # NoTick
  BY <1>1 DEF HInv, TokenInv, Accounts, Holding, Duties
<1>3. /\ Duties \in SUBSET Nat /\ occurrences \in [Duties -> Occurrence]
      /\ responses \subseteq Nat
  BY DEF HInv, TokenInv, IInv, ShapeOK
<1>4. /\ h \in Nat /\ i \in Nat /\ r \in Nat
      /\ occurrences[i].deadline \in Nat
      /\ occurrences[i].response \in Nat \cup {NoTick}
  BY <1>3 DEF Occurrence
<1>5. h # i
  BY <1>2, <1>4
<1>6. ~ i < h
  <2> SUFFICES ASSUME i < h PROVE FALSE
    OBVIOUS
  <2>1. InOrder(occurrences)
    BY DEF HInv, TokenInv, Accounts
  <2>2. occurrences[i].response # NoTick /\ occurrences[i].response < r
    BY <1>2, <1>4, <2>1 DEF InOrder, Duties
  <2> QED
    BY <1>4, <2>2
<1> QED
  BY <1>2, <1>4, <1>5, <1>6

\* A duty is breached only if every response in its window went to an older
\* duty: whether responses were registered as they came or handed out
\* retroactively, no breach is charged for want of bookkeeping.
THEOREM BreachIsPaidForAlways == HSpec => []BreachIsPaidFor
<1>1. HInv => BreachIsPaidFor
  <2> SUFFICES ASSUME HInv, NEW i \in Duties, occurrences[i].status = "Breached",
                      NEW r \in responses \cap occurrences[i].trigger_tick..occurrences[i].deadline
               PROVE  \E j \in Duties : j < i /\ occurrences[j].response = r
    BY DEF BreachIsPaidFor
  <2>1. epistemic[GuardKey] = "T"
    BY GuardAssumption
    DEF HInv, TokenInv, IInv, ShapeOK, GuardCoherence, K3, Conditional
  <2>2. occurrences[i].response = NoTick
    BY DEF HInv, TokenInv, Accounts, Holding, Duties
  <2>3. occurrences[i].trigger_tick <= r /\ r <= occurrences[i].deadline
    OBVIOUS
  <2> QED
    BY <2>1, <2>2, <2>3, MissedIsHeld
<1> QED
  BY <1>1, HistoryInductive, PTL

-----------------------------------------------------------------------------
(* What a pairing can do, and what the greedy ledger does.                  *)

\* The triggers of some duties, as the oracle knows them.
TriggersOf(S) == {occurrences[i].trigger_tick : i \in S}

\* What the invariant says of the duties of one ledger.
LEMMA QueueFacts ==
  ASSUME HInv
  PROVE  /\ oid_counter \in Nat /\ Duties = 1..oid_counter
         /\ responses \in SUBSET Nat /\ tick \in Nat \cup {-1}
         /\ occurrences \in [Duties -> Occurrence]
         /\ epistemic[GuardKey] \in K3
         /\ \A i \in Duties :
              /\ occurrences[i].trigger_tick \in Nat
              /\ occurrences[i].deadline \in Nat
              /\ occurrences[i].deadline = occurrences[i].trigger_tick + Bound
              /\ occurrences[i].trigger_tick <= tick
              /\ occurrences[i].response \in Nat \cup {NoTick}
              /\ \A j \in Duties :
                   i < j => occurrences[i].trigger_tick < occurrences[j].trigger_tick
<1>1. /\ oid_counter \in Nat /\ Duties = 1..oid_counter
      /\ responses \in SUBSET Nat /\ tick \in Nat \cup {-1}
      /\ occurrences \in [Duties -> Occurrence]
      /\ epistemic[GuardKey] \in K3
  BY TypeIsShape, GuardAssumption DEF HInv, TokenInv, TypeOK, Duties
<1>2. \A i \in Duties :
        /\ occurrences[i].trigger_tick \in Nat
        /\ occurrences[i].deadline \in Nat
        /\ occurrences[i].response \in Nat \cup {NoTick}
  BY <1>1 DEF Occurrence
<1>3. Queue(occurrences, tick)
  BY DEF HInv, TokenInv, Accounts
<1> QED
  BY <1>1, <1>2, <1>3 DEF Queue, Duties

\* Two duties with the same trigger are one.
LEMMA TriggersDiffer ==
  ASSUME HInv, NEW i \in Duties, NEW j \in Duties,
         occurrences[i].trigger_tick = occurrences[j].trigger_tick
  PROVE  i = j
<1>1. /\ i \in Nat /\ j \in Nat
      /\ i < j => occurrences[i].trigger_tick < occurrences[j].trigger_tick
      /\ j < i => occurrences[j].trigger_tick < occurrences[i].trigger_tick
      /\ occurrences[i].trigger_tick \in Nat
  BY QueueFacts
<1> QED
  BY <1>1

\* The responses the duties hold are a pairing.
LEMMA AnsweredPair ==
  ASSUME HInv, NEW S \in SUBSET Duties,
         \A i \in S : occurrences[i].response # NoTick
  PROVE  Oracle!Pairable(TriggersOf(S), responses)
<1> DEFINE T == TriggersOf(S)
           duty(t) == CHOOSE i \in S : occurrences[i].trigger_tick = t
           pair == [t \in T |-> occurrences[duty(t)].response]
<1>1. ASSUME NEW t \in T
      PROVE  duty(t) \in S /\ occurrences[duty(t)].trigger_tick = t
  BY DEF TriggersOf
<1>2. \A i \in S :
        /\ occurrences[i].response \in responses
        /\ occurrences[i].response
             \in occurrences[i].trigger_tick..(occurrences[i].trigger_tick + Bound)
        /\ \A j \in S : occurrences[i].response = occurrences[j].response => i = j
  <2>1. Holding(occurrences, consumed, tick) /\ consumed \subseteq responses
    BY DEF HInv, TokenInv, Accounts, Told
  <2>2. ASSUME NEW i \in S
        PROVE  /\ occurrences[i].response \in consumed
               /\ occurrences[i].trigger_tick <= occurrences[i].response
               /\ occurrences[i].response <= occurrences[i].deadline
               /\ \A j \in S : occurrences[i].response = occurrences[j].response => i = j
    BY <2>1 DEF Holding, Duties
  <2>3. ASSUME NEW i \in S
        PROVE  /\ occurrences[i].response \in Nat /\ occurrences[i].trigger_tick \in Nat
               /\ occurrences[i].deadline = occurrences[i].trigger_tick + Bound
    BY QueueFacts
  <2>4. Bound \in Nat
    BY BoundAssumption
  <2> QED
    BY <2>1, <2>2, <2>3, <2>4
<1> HIDE DEF T, duty
<1>3. pair \in [T -> responses]
  BY <1>1, <1>2
<1>4. \A t \in T : pair[t] \in t..(t + Bound)
  BY <1>1, <1>2
<1>5. ASSUME NEW t \in T, NEW u \in T, pair[t] = pair[u]
      PROVE  t = u
  <2>1. duty(t) = duty(u)
    BY <1>1, <1>2, <1>5
  <2> QED
    BY <1>1, <2>1
<1> HIDE DEF pair
<1>6. Oracle!Pairable(T, responses)
  BY <1>3, <1>4, <1>5 DEF Oracle!Pairable
<1> QED
  BY <1>6 DEF T

\* Under a true guard a duty without response cannot be answered, even if all the
\* responses are dealt out again: some stretch of duties, up to this one, has
\* fewer responses than duties.
LEMMA MissedIsUnpairable ==
  ASSUME HInv, epistemic[GuardKey] = "T", NEW i \in Duties,
         occurrences[i].response = NoTick,
         NEW T, \A k \in Duties : k <= i => occurrences[k].trigger_tick \in T
  PROVE  ~ Oracle!Pairable(T, responses)
<1> SUFFICES ASSUME Oracle!Pairable(T, responses) PROVE FALSE
  OBVIOUS
<1>1. PICK pair \in [T -> responses] :
        /\ \A t \in T : pair[t] \in t..(t + Bound)
        /\ \A t, u \in T : pair[t] = pair[u] => t = u
  BY DEF Oracle!Pairable
<1> DEFINE trigger(k) == occurrences[k].trigger_tick
           due(k) == occurrences[k].deadline
           response(k) == occurrences[k].response
           paired(k) == pair[trigger(k)]
           held(r) == \E h \in Duties : h < i /\ response(h) = r
<1>2. /\ oid_counter \in Nat /\ Duties = 1..oid_counter /\ responses \in SUBSET Nat
      /\ i \in Nat /\ 1 <= i /\ Bound \in Nat
      /\ \A k \in 1..i : k \in Duties /\ k \in Nat
  BY QueueFacts, BoundAssumption
<1>3. \A k \in Duties :
        /\ trigger(k) \in Nat /\ due(k) \in Nat /\ due(k) = trigger(k) + Bound
        /\ response(k) \in Nat \cup {NoTick}
        /\ \A j \in Duties : k < j => trigger(k) < trigger(j)
  BY QueueFacts
<1>4. \A k \in 1..i :
        /\ paired(k) \in responses /\ paired(k) \in Nat
        /\ trigger(k) <= paired(k) /\ paired(k) <= due(k)
        /\ \A j \in 1..i : paired(k) = paired(j) => k = j
  <2>1. ASSUME NEW k \in 1..i
        PROVE  /\ paired(k) \in responses
               /\ trigger(k) <= paired(k) /\ paired(k) <= due(k)
    <3>1. k \in Duties /\ trigger(k) \in T
      BY <1>2
    <3> QED
      BY <1>1, <1>3, <3>1
  <2>2. ASSUME NEW k \in 1..i, NEW j \in 1..i, paired(k) = paired(j)
        PROVE  k = j
    <3>1. k \in Duties /\ trigger(k) \in T /\ j \in Duties /\ trigger(j) \in T
      BY <1>2
    <3>2. trigger(k) = trigger(j)
      BY <1>1, <2>2, <3>1
    <3> QED
      BY <3>1, <3>2, TriggersDiffer
  <2> QED
    BY <1>2, <2>1, <2>2
<1>5. \A k \in Duties, r \in responses :
        /\ trigger(k) <= r /\ r <= due(k)
        /\ response(k) = NoTick \/ r < response(k)
        => \E h \in Duties : h < k /\ response(h) = r
  BY MissedIsHeld
<1> DEFINE K == {k \in 1..i : \A r \in responses :
                                trigger(k) <= r /\ r <= due(i) => held(r)}
<1>6. i \in K
  BY <1>2, <1>5
<1>7. PICK k \in K : \A m \in K : k <= m
  <2>1. K \in SUBSET Nat /\ K # {}
    BY <1>2, <1>6
  <2> HIDE DEF K
  <2> QED
    BY <2>1, LeastNat
<1>8. k \in 1..i /\ k \in Duties /\ k \in Nat
  BY <1>2, <1>7
<1> HIDE DEF trigger, due, response, paired
<1>9. \A j, h \in Duties : j <= h => trigger(j) <= trigger(h) /\ due(j) <= due(h)
  <2> SUFFICES ASSUME NEW j \in Duties, NEW h \in Duties, j <= h
               PROVE  trigger(j) <= trigger(h) /\ due(j) <= due(h)
    OBVIOUS
  <2>1. j \in Nat /\ h \in Nat
    BY <1>2
  <2>2. trigger(j) <= trigger(h)
    BY <1>3, <2>1
  <2> QED
    BY <1>2, <1>3, <2>2
<1>10. ASSUME NEW j \in k..i
       PROVE  \E h \in k..(i - 1) : response(h) = paired(j)
  <2>1. j \in 1..i /\ j \in Duties /\ k <= j /\ j <= i
    BY <1>2, <1>8
  <2>2. /\ trigger(k) \in Nat /\ trigger(j) \in Nat /\ due(j) \in Nat /\ due(i) \in Nat
        /\ trigger(k) <= trigger(j) /\ due(j) <= due(i)
    BY <1>3, <1>8, <1>9, <2>1
  <2>3. /\ paired(j) \in responses /\ paired(j) \in Nat
        /\ trigger(k) <= paired(j) /\ paired(j) <= due(i)
    BY <1>4, <2>1, <2>2
  <2>4. PICK h \in Duties : h < i /\ response(h) = paired(j)
    BY <1>7, <2>3
  <2>5. h \in Nat /\ 1 <= h
    BY <1>2
  <2>6. ASSUME h < k
        PROVE  FALSE
    <3>1. h \in 1..i
      BY <1>2, <2>4, <2>5
    <3>2. /\ trigger(h) <= paired(j) /\ paired(j) <= due(h) /\ due(h) <= due(i)
          /\ trigger(h) \in Nat /\ due(h) \in Nat
      <4>1. paired(j) # NoTick
        BY <2>3 DEF NoTick
      <4>2. trigger(h) <= paired(j) /\ paired(j) <= due(h)
        BY <2>4, <4>1
        DEF HInv, TokenInv, Accounts, Holding, Duties, trigger, due, response
      <4> QED
        BY <1>3, <1>9, <2>4, <2>5, <1>2, <4>2
    <3>3. ASSUME NEW r \in responses, trigger(h) <= r, r <= due(i)
          PROVE  held(r)
      <4>1. r \in Nat
        BY <1>2
      <4>2. CASE trigger(k) <= r
        BY <1>7, <3>3, <4>2
      <4>3. CASE r < trigger(k)
        <5>1. r < response(h) /\ r <= due(h)
          BY <2>2, <2>3, <2>4, <3>2, <4>1, <4>3
        <5>2. PICK g \in Duties : g < h /\ response(g) = r
          BY <1>5, <3>3, <5>1
        <5>3. g \in Nat /\ g < i
          BY <1>2, <2>4, <2>5, <5>2
        <5> QED
          BY <5>2, <5>3
      <4> QED
        BY <2>2, <4>1, <4>2, <4>3
    <3>4. h \in K
      BY <3>1, <3>3
    <3>5. k <= h
      BY <1>7, <3>4
    <3> QED
      BY <1>8, <2>5, <2>6, <3>5
  <2>7. h \in k..(i - 1)
    BY <1>2, <1>8, <2>4, <2>5, <2>6
  <2> QED
    BY <2>4, <2>7
<1> DEFINE A == k..i
           B == k..(i - 1)
           f == [j \in A |-> CHOOSE h \in B : response(h) = paired(j)]
<1>11. /\ f \in [A -> B]
       /\ \A j \in A : response(f[j]) = paired(j)
  BY <1>10
<1>12. \A j, h \in A : f[j] = f[h] => j = h
  <2> SUFFICES ASSUME NEW j \in A, NEW h \in A, f[j] = f[h] PROVE j = h
    OBVIOUS
  <2>1. j \in 1..i /\ h \in 1..i
    BY <1>2, <1>8
  <2>2. paired(j) = paired(h)
    BY <1>11
  <2> QED
    BY <1>4, <2>1, <2>2
<1>13. /\ IsFiniteSet(A) /\ IsFiniteSet(B) /\ Cardinality(B) < Cardinality(A)
  <2>1. k \in Int /\ i \in Int /\ i - 1 \in Int /\ k <= i
    BY <1>2, <1>8
  <2>2. /\ IsFiniteSet(k..i) /\ IsFiniteSet(k..(i - 1))
        /\ Cardinality(k..i) = IF k > i THEN 0 ELSE i - k + 1
        /\ Cardinality(k..(i - 1)) = IF k > i - 1 THEN 0 ELSE (i - 1) - k + 1
    BY <2>1, FS_Interval
  <2> QED
    BY <2>1, <2>2
<1> HIDE DEF A, B, f
<1>14. \E j, h \in A : j # h /\ f[j] = f[h]
  BY <1>11, <1>13, FS_PigeonHole
<1> QED
  BY <1>12, <1>14

-----------------------------------------------------------------------------
(* The refinement.                                                          *)

\* The oracle's horizon: deadlines up to it are decided.
Horizon ==
  IF terminal_kind \in {"Complete", "AgentAbort"} THEN tick + Bound
  ELSE IF fault = "InconsistentObservation" THEN tick - 1
  ELSE tick

\* Under a true guard the horizon parts the duties that are decided from those
\* that are open or given up.
LEMMA HorizonDecides ==
  ASSUME HInv, epistemic[GuardKey] = "T", NEW i \in Duties
  PROVE  /\ occurrences[i].status \in {"Open", "Discharged", "Breached", "UnknownFinal"}
         /\ occurrences[i].response # NoTick <=> occurrences[i].status = "Discharged"
         /\ occurrences[i].status = "Breached" => occurrences[i].deadline <= Horizon
         /\ occurrences[i].status \in {"Open", "UnknownFinal"} =>
              ~ occurrences[i].deadline <= Horizon
         /\ mode = "Halted" => occurrences[i].status # "Open"
<1> DEFINE o == occurrences[i]
<1>1. /\ o.status \in {"Open", "Discharged", "Breached", "UnknownFinal"}
      /\ o.response # NoTick <=> o.status = "Discharged"
      /\ LiveWithinDeadline /\ BreachTimes
  <2>1. GuardCoherence /\ LiveWithinDeadline /\ BreachTimes
    BY DEF HInv, TokenInv, IInv
  <2>2. o.status \in {"Open", "Discharged", "Breached", "UnknownFinal"}
    BY <2>1 DEF GuardCoherence
  <2>3. o.response # NoTick <=> o.status = "Discharged"
    BY DEF HInv, TokenInv, Accounts, Holding, Duties
  <2> QED
    BY <2>1, <2>2, <2>3
<1>2. /\ tick \in Nat \cup {-1} /\ o.deadline \in Nat /\ Bound \in Nat
      /\ o.deadline = o.trigger_tick + Bound /\ o.trigger_tick <= tick
      /\ o.trigger_tick \in Nat
  BY QueueFacts, BoundAssumption
<1>3. /\ mode = "Halted" <=> terminal_kind # "None"
      /\ mode = "Faulted" <=> fault # "None"
  BY DEF HInv, TokenInv, TypeOK
<1>4. ASSUME o.status = "Breached"
      PROVE  o.deadline <= Horizon
  <2>1. CASE terminal_kind \in {"Complete", "AgentAbort"}
    BY <1>2, <2>1 DEF Horizon
  <2>2. CASE terminal_kind \notin {"Complete", "AgentAbort"}
    <3>1. o.deadline <= tick
      BY <1>1, <1>2, <1>4, <2>2 DEF BreachTimes
    <3>2. fault = "InconsistentObservation" => o.deadline < tick
      BY <1>4 DEF HInv
    <3> QED
      BY <1>2, <2>2, <3>1, <3>2 DEF Horizon
  <2> QED
    BY <2>1, <2>2
<1>5. ASSUME o.status = "Open"
      PROVE  ~ o.deadline <= Horizon /\ mode # "Halted"
  <2>1. /\ mode # "Halted" /\ o.deadline >= tick
        /\ fault # "InconsistentObservation" => o.deadline > tick
    BY <1>1, <1>5 DEF LiveWithinDeadline
  <2> QED
    BY <1>2, <1>3, <2>1 DEF Horizon
<1>6. ASSUME o.status = "UnknownFinal"
      PROVE  ~ o.deadline <= Horizon
  <2>1. terminal_kind \notin {"Complete", "AgentAbort"} /\ tick < o.deadline
    BY <1>6 DEF HInv
  <2> QED
    BY <1>2, <2>1 DEF Horizon
<1> QED
  BY <1>1, <1>4, <1>5, <1>6

\* The oracle's triggers are the duties', and its due ones those before the
\* horizon.
LEMMA DueTriggers ==
  ASSUME HInv
  PROVE  Oracle!Due = TriggersOf({i \in Duties : occurrences[i].deadline <= Horizon})
<1> DEFINE S == {i \in Duties : occurrences[i].deadline <= Horizon}
<1>1. \A i \in Duties : occurrences[i].deadline = occurrences[i].trigger_tick + Bound
  BY QueueFacts
<1>2. \A t : t \in Oracle!Due <=> t \in TriggersOf(Duties) /\ t + Bound <= Horizon
  BY DEF Oracle!Due, Horizon, TriggersOf
<1>3. \A t : t \in TriggersOf(S) <=> t \in TriggersOf(Duties) /\ t + Bound <= Horizon
  BY <1>1 DEF TriggersOf
<1> QED
  BY <1>2, <1>3

\* A charged breach is one no pairing could have avoided.
LEMMA BreachIsUnavoidable ==
  ASSUME HInv, epistemic[GuardKey] = "T"
  PROVE  "Breached" \in Statuses <=> ~ Oracle!Pairable(Oracle!Due, responses)
<1> DEFINE S == {i \in Duties : occurrences[i].deadline <= Horizon}
<1>1. Oracle!Due = TriggersOf(S)
  BY DueTriggers
<1>2. ASSUME NEW i \in Duties, occurrences[i].status = "Breached"
      PROVE  ~ Oracle!Pairable(Oracle!Due, responses)
  <2>1. occurrences[i].response = NoTick /\ occurrences[i].deadline <= Horizon
    BY <1>2, HorizonDecides
  <2>2. ASSUME NEW k \in Duties, k <= i
        PROVE  occurrences[k].trigger_tick \in TriggersOf(S)
    <3>1. /\ k \in Nat /\ i \in Nat /\ Bound \in Nat
          /\ k < i => occurrences[k].trigger_tick < occurrences[i].trigger_tick
          /\ occurrences[k].trigger_tick \in Nat /\ occurrences[i].trigger_tick \in Nat
          /\ occurrences[k].deadline = occurrences[k].trigger_tick + Bound
          /\ occurrences[i].deadline = occurrences[i].trigger_tick + Bound
          /\ tick \in Nat \cup {-1}
      BY QueueFacts, BoundAssumption
    <3>2. occurrences[k].deadline <= occurrences[i].deadline
      BY <2>2, <3>1
    <3>3. Horizon \in Int
      BY <3>1 DEF Horizon
    <3>4. k \in S
      BY <2>1, <3>1, <3>2, <3>3
    <3> QED
      BY <3>4 DEF TriggersOf
  <2> HIDE DEF S
  <2>3. ~ Oracle!Pairable(TriggersOf(S), responses)
    BY <2>1, <2>2, MissedIsUnpairable
  <2> QED
    BY <1>1, <2>3
<1>3. ASSUME \A i \in Duties : occurrences[i].status # "Breached"
      PROVE  Oracle!Pairable(Oracle!Due, responses)
  <2>1. S \in SUBSET Duties /\ \A i \in S : occurrences[i].response # NoTick
    BY <1>3, HorizonDecides
  <2> HIDE DEF S
  <2> QED
    BY <1>1, <2>1, AnsweredPair
<1> QED
  BY <1>2, <1>3 DEF Statuses, Duties

\* A halted run whose duties are all answered is one that could be paired.
LEMMA SettledIsPairable ==
  ASSUME HInv, epistemic[GuardKey] = "T", mode = "Halted"
  PROVE  /\ Statuses \subseteq Settled <=> Oracle!Pairable(TriggersOf(Duties), responses)
         /\ Duties = {} => Statuses \subseteq Settled
<1>1. ASSUME Statuses \subseteq Settled
      PROVE  Oracle!Pairable(TriggersOf(Duties), responses)
  <2>1. \A i \in Duties : occurrences[i].response # NoTick
    BY <1>1, HorizonDecides DEF Statuses, Settled, Duties
  <2> QED
    BY <2>1, AnsweredPair
<1>2. ASSUME NEW i \in Duties, occurrences[i].status \notin Settled
      PROVE  ~ Oracle!Pairable(TriggersOf(Duties), responses)
  <2>1. occurrences[i].response = NoTick
    BY <1>2, HorizonDecides DEF Settled
  <2>2. \A k \in Duties : k <= i => occurrences[k].trigger_tick \in TriggersOf(Duties)
    BY DEF TriggersOf
  <2> QED
    BY <2>1, <2>2, MissedIsUnpairable
<1> QED
  BY <1>1, <1>2 DEF Statuses, Duties

\* The summary is the oracle's verdict.
Judged == Summary = Oracle!Verdict

\* By what is known of the guard.
LEMMA HistoryJudges == HInv => Judged
<1> SUFFICES ASSUME HInv PROVE Judged
  OBVIOUS
<1> DEFINE over == PublicMode \in {"Complete", "AgentAbort", "ExternalCrash", "Timeout"}
           paired == Oracle!Pairable(TriggersOf(Duties), responses)
<1>1. over <=> mode = "Halted" /\ terminal_kind # "ObservationCut"
  BY DEF HInv, TokenInv, TypeOK, TerminalKinds, PublicMode
<1>2. Oracle!Verdict =
        IF epistemic[GuardKey] = "T" /\ ~ Oracle!Pairable(Oracle!Due, responses)
        THEN "Violated"
        ELSE IF /\ over
                /\ \/ epistemic[GuardKey] = "F"
                   \/ TriggersOf(Duties) = {}
                   \/ epistemic[GuardKey] = "T" /\ paired
             THEN "Satisfied"
             ELSE "Unknown"
  BY DEF Oracle!Verdict, Oracle!Decided, Oracle!Interrupted, TriggersOf
<1>3. TriggersOf(Duties) = {} <=> Duties = {}
  BY DEF TriggersOf
<1>4. Summary = IF "Breached" \in Statuses THEN "Violated"
                ELSE IF over /\ Statuses \subseteq Settled THEN "Satisfied"
                ELSE "Unknown"
  BY <1>1 DEF Summary
<1>5. CASE epistemic[GuardKey] = "T"
  <2>1. "Breached" \in Statuses <=> ~ Oracle!Pairable(Oracle!Due, responses)
    BY <1>5, BreachIsUnavoidable
  <2>2. over => /\ Statuses \subseteq Settled <=> paired
                /\ Duties = {} => Statuses \subseteq Settled
    BY <1>1, <1>5, SettledIsPairable
  <2> HIDE DEF over, paired
  <2> QED
    BY <1>2, <1>3, <1>4, <1>5, <2>1, <2>2 DEF Judged
<1>6. CASE epistemic[GuardKey] = "F"
  <2>1. \A i \in Duties : occurrences[i].status = "Inapplicable"
    BY <1>6 DEF HInv, TokenInv, IInv, GuardCoherence
  <2>2. "Breached" \notin Statuses /\ Statuses \subseteq Settled
    BY <2>1 DEF Statuses, Settled, Duties
  <2> HIDE DEF over, paired
  <2> QED
    BY <1>2, <1>4, <1>6, <2>2 DEF Judged
<1>7. CASE epistemic[GuardKey] = "U"
  <2>1. \A i \in Duties : occurrences[i].status \in Conditional \cup {"UnknownFinal"}
    BY <1>7 DEF HInv, TokenInv, IInv, GuardCoherence
  <2>2. /\ "Breached" \notin Statuses
        /\ Statuses \subseteq Settled <=> Duties = {}
    BY <2>1 DEF Statuses, Settled, Duties, Conditional
  <2> HIDE DEF over, paired
  <2> QED
    BY <1>2, <1>3, <1>4, <1>7, <2>2 DEF Judged
<1>8. epistemic[GuardKey] \in {"T", "F", "U"}
  BY QueueFacts DEF K3
<1> QED
  BY <1>5, <1>6, <1>7, <1>8

\* A domain event adds its tick to the triggers if it carries the trigger tag.
LEMMA DomainTriggers ==
  ASSUME ShapeOK, NEW e \in AnyEvent, StepDomain(e)
  PROVE  TriggersOf(Duties)' = IF e.tag = TriggerTag
                               THEN TriggersOf(Duties) \cup {e.tick}
                               ELSE TriggersOf(Duties)
<1>1. /\ e.tick \in Nat /\ e.tick > tick
      /\ occurrences \in [Duties -> Occurrence] /\ Duties \in SUBSET Nat
  BY AcceptType DEF StepDomain, Accept, ShapeOK
<1>2. PICK alloc \in Resolutions(e), oid \in FreshOids :
        /\ occurrences' = BoundaryExpire(Answered(e, alloc, oid), e.tick)
        /\ oid_counter' = IF e.tag = TriggerTag THEN oid ELSE oid_counter
  BY DEF StepDomain
<1>3. Resolved(e, alloc) \in [Duties -> Occurrence]
  BY <1>1, ResolvedType
<1>4. oid \in Nat /\ oid \notin Duties
  BY FreshOidIsNew
<1> DEFINE D == Duties \cup (IF e.tag = TriggerTag THEN {oid} ELSE {})
<1>5. /\ Triggered(e, alloc, oid) \in [D -> Occurrence]
      /\ e.tag = TriggerTag => Triggered(e, alloc, oid)[oid].trigger_tick = e.tick
  <2>1. CASE e.tag = TriggerTag
    <3>1. InstantiateTrigger(Resolved(e, alloc), oid, Guard(e), e.tick)
            \in [Duties \cup {oid} -> Occurrence]
      BY <1>1, <1>3, TriggerType
    <3>2. InstantiateTrigger(Resolved(e, alloc), oid, Guard(e), e.tick)[oid].trigger_tick
            = e.tick
      BY <1>3 DEF InstantiateTrigger, TriggerAndGuardRule, NewOccurrence
    <3> QED
      BY <2>1, <3>1, <3>2 DEF Triggered
  <2>2. CASE e.tag # TriggerTag
    BY <1>3, <2>2 DEF Triggered
  <2> QED
    BY <2>1, <2>2
<1>6. D \in SUBSET Nat
  BY <1>1, <1>4
<1> HIDE DEF D
<1>7. /\ Answered(e, alloc, oid) \in [D -> Occurrence]
      /\ KeptLedger(Triggered(e, alloc, oid), Answered(e, alloc, oid))
  <2>1. CASE e.tag = ResponseTag
    BY <1>1, <1>5, <1>6, <2>1, RegisterType, RegisterKeeps DEF Answered
  <2>2. CASE e.tag # ResponseTag
    BY <1>5, <2>2, KeptItself DEF Answered
  <2> QED
    BY <2>1, <2>2
<1>8. KeptLedger(Answered(e, alloc, oid), occurrences')
  BY <1>1, <1>2, <1>7, ExpireKeeps DEF BoundaryExpire
<1>9. Duties' = D
  BY <1>2, <1>7 DEF BoundaryExpire, Expire, Duties
<1>10. KeptLedger(occurrences, occurrences')
  BY <1>1, MovingStepKeeps
<1>11. \A i \in Duties : occurrences'[i].trigger_tick = occurrences[i].trigger_tick
  BY <1>10 DEF KeptLedger, Kept, Duties
<1>12. CASE e.tag = TriggerTag
  <2>1. Duties' = Duties \cup {oid}
    BY <1>9, <1>12 DEF D
  <2>2. oid \in DOMAIN Triggered(e, alloc, oid) /\ oid \in DOMAIN Answered(e, alloc, oid)
    BY <1>5, <1>7, <1>12 DEF D
  <2>3. occurrences'[oid].trigger_tick = e.tick
    BY <1>5, <1>7, <1>8, <1>12, <2>2 DEF KeptLedger, Kept
  <2> QED
    BY <1>11, <1>12, <2>1, <2>3 DEF TriggersOf
<1>13. CASE e.tag # TriggerTag
  <2>1. Duties' = Duties
    BY <1>9, <1>13 DEF D
  <2> QED
    BY <1>11, <1>13, <2>1 DEF TriggersOf
<1> QED
  BY <1>12, <1>13

\* The other steps leave the triggers as they were.
LEMMA OtherTriggers ==
  ASSUME ShapeOK, NEW e \in AnyEvent, Step(e), UNCHANGED Duties
  PROVE  TriggersOf(Duties)' = TriggersOf(Duties)
<1>1. KeptLedger(occurrences, occurrences')
  BY StepKeeps
<1>2. \A i \in Duties : occurrences'[i].trigger_tick = occurrences[i].trigger_tick
  BY <1>1 DEF KeptLedger, Kept, Duties
<1> QED
  BY <1>2 DEF TriggersOf

\* The oracle hears what the monitor hears.
LEMMA AcceptedIsSeen ==
  ASSUME HInv, NEW e \in Event, HStep(e), StepDomain(e) \/ StepTick(e) \/ StepTerminal(e)
  PROVE  Oracle!Happens
<1> DEFINE value == epistemic'[GuardKey]
           trigger == e.type = "Domain" /\ e.tag = TriggerTag
           response == e.type = "Domain" /\ e.tag = ResponseTag
           end == IF e.type = "Terminal" THEN e.kind ELSE "Running"
<1>1. /\ ShapeOK /\ e \in AnyEvent /\ Accept(e) /\ Step(e)
      /\ e.tick \in Nat /\ e.tick \in Ticks /\ e.tick > tick /\ tick' = e.tick
      /\ terminal_kind = "None" /\ fault' = "None" /\ mode = "Running"
      /\ epistemic[GuardKey] \in K3 /\ value \in K3
  <2>1. ShapeOK /\ e \in AnyEvent /\ Accept(e) /\ Step(e) /\ e.tick > tick
    BY EventsAreAny DEF HInv, TokenInv, IInv, HStep, StepDomain, StepTick, StepTerminal,
                        Accept
  <2>2. e.tick \in Ticks
    BY DEF Event, DomainEvent, TickEvent, TerminalEvent
  <2> QED
    BY <2>1, <2>2, AcceptType, GuardAssumption DEF ShapeOK
<1>2. Refines(epistemic[GuardKey], value)
  BY <1>1, GuardAssumption DEF Accept, Contradicts, Observed, Refines
<1>3. TriggersOf(Duties)' = IF trigger THEN TriggersOf(Duties) \cup {e.tick}
                            ELSE TriggersOf(Duties)
  <2>1. CASE StepDomain(e)
    <3>1. e.type = "Domain"
      BY <2>1 DEF StepDomain
    <3> QED
      BY <1>1, <2>1, <3>1, DomainTriggers
  <2>2. CASE StepTick(e) \/ StepTerminal(e)
    <3>1. UNCHANGED Duties
      BY <1>1, <2>2, SilentShape
    <3>2. ~ trigger
      BY <2>2 DEF StepTick, StepTerminal
    <3> QED
      BY <1>1, <3>1, <3>2, OtherTriggers
  <2> QED
    BY <2>1, <2>2
<1>4. responses' = IF response THEN responses \cup {e.tick} ELSE responses
  BY <1>1 DEF HStep, Processed, Accept
<1>5. /\ PublicMode = "Running" /\ PublicMode' = end
      /\ end \in {"Complete", "AgentAbort", "ExternalCrash", "Timeout", "Running",
                  "ObservationCut"}
      /\ end # "Running" => ~ trigger /\ ~ response
      /\ Horizon' = IF end \in {"Complete", "AgentAbort"} THEN e.tick + Bound ELSE e.tick
  <2>1. CASE StepDomain(e) \/ StepTick(e)
    <3>1. mode' = "Running" /\ terminal_kind' = "None" /\ e.type # "Terminal"
      BY <1>1, <2>1 DEF StepDomain, StepTick
    <3> QED
      BY <1>1, <3>1 DEF PublicMode, Horizon
  <2>2. CASE StepTerminal(e)
    <3>1. /\ mode' = "Halted" /\ terminal_kind' = e.kind /\ e.type = "Terminal"
          /\ e.kind \in TerminalKinds
      BY <2>2 DEF StepTerminal, Event, DomainEvent, TickEvent, TerminalEvent
    <3> QED
      BY <1>1, <3>1 DEF PublicMode, Horizon, TerminalKinds
  <2> QED
    BY <2>1, <2>2
<1>6. trigger \in BOOLEAN /\ response \in BOOLEAN
  OBVIOUS
<1> HIDE DEF value, trigger, response, end
<1>7. Oracle!See(e.tick, value, trigger, response, end)
  BY <1>1, <1>2, <1>3, <1>4, <1>5
  DEF Oracle!See, Oracle!Decided, Oracle!Refines, Refines, TriggersOf, Horizon, value
<1> QED
  BY <1>1, <1>5, <1>6, <1>7
  DEF Oracle!Happens, Oracle!Decided, Oracle!Interrupted, Oracle!K3, K3

\* A fault is the oracle's fault.
LEMMA FaultIsSeen ==
  ASSUME HInv, NEW e \in Event, HStep(e), StepStale(e) \/ StepContradiction(e)
  PROVE  Oracle!Happens
<1>1. /\ ShapeOK /\ e \in AnyEvent /\ Step(e) /\ e.tick \in Ticks /\ e.tick \in Nat
      /\ mode = "Running" /\ terminal_kind = "None" /\ terminal_kind' = "None"
      /\ mode' = "Faulted" /\ fault = "None" /\ tick \in Nat \cup {-1}
      /\ epistemic' = epistemic
  <2>1. ShapeOK /\ e \in AnyEvent /\ Step(e)
    BY EventsAreAny DEF HInv, TokenInv, IInv, HStep
  <2>2. e.tick \in Ticks /\ e.tick \in Nat
    BY TicksAssumption DEF Event, DomainEvent, TickEvent, TerminalEvent
  <2> QED
    BY <2>1, <2>2 DEF StepStale, StepContradiction, ShapeOK
<1>2. UNCHANGED Duties
  <2>1. occurrences \in [Duties -> Occurrence]
    BY <1>1 DEF ShapeOK
  <2> QED
    BY <1>1, <2>1, PreExpireType DEF StepStale, StepContradiction, Duties
<1>3. TriggersOf(Duties)' = TriggersOf(Duties)
  BY <1>1, <1>2, OtherTriggers
<1>4. responses' = responses
  <2>1. ~ Processed(e)
    BY <1>1 DEF StepStale, StepContradiction, Processed
  <2> QED
    BY <2>1 DEF HStep
<1>5. PublicMode = "Running" /\ PublicMode' = "Faulted"
  BY <1>1 DEF PublicMode
<1>6. CASE StepStale(e)
  <2>1. tick' = tick /\ fault' = "NonMonotoneTick"
    BY <1>6 DEF StepStale
  <2>2. Horizon' = Horizon
    BY <1>1, <2>1 DEF Horizon
  <2>3. Oracle!LateEvent
    BY <1>1, <1>3, <1>4, <1>5, <2>1, <2>2 DEF Oracle!LateEvent, TriggersOf, Horizon
  <2> QED
    BY <2>3 DEF Oracle!Happens
<1>7. CASE StepContradiction(e)
  <2>1. tick' = e.tick /\ e.tick > tick /\ fault' = "InconsistentObservation"
    BY <1>7 DEF StepContradiction
  <2>2. Horizon' = e.tick - 1
    BY <1>1, <2>1 DEF Horizon
  <2>3. Oracle!Contradiction(e.tick)
    BY <1>1, <1>3, <1>4, <1>5, <2>1, <2>2 DEF Oracle!Contradiction, TriggersOf, Horizon
  <2> QED
    BY <1>1, <2>3 DEF Oracle!Happens
<1> QED
  BY <1>6, <1>7

\* What is learnt before the first event is learnt by the oracle.
LEMMA InitialIsLearnt ==
  ASSUME HInv, NEW key \in Keys, NEW value \in K3, HSetInitial(key, value)
  PROVE  Oracle!Happens
<1>1. /\ mode = "Running" /\ tick = -1 /\ Refines(epistemic[key], value)
      /\ epistemic' = [epistemic EXCEPT ![key] = value]
      /\ UNCHANGED <<mode, terminal_kind, fault, tick, occurrences, responses>>
      /\ epistemic \in [Keys -> K3]
  BY DEF HSetInitial, SetInitial, HInv, TokenInv, TypeOK
<1>2. /\ Refines(epistemic[GuardKey], epistemic'[GuardKey])
      /\ epistemic'[GuardKey] \in K3
  BY <1>1, GuardAssumption DEF Refines
<1>3. /\ PublicMode = "Running" /\ PublicMode' = PublicMode
      /\ Horizon' = Horizon /\ TriggersOf(Duties)' = TriggersOf(Duties)
  BY <1>1 DEF PublicMode, Horizon, TriggersOf, Duties
<1>4. Oracle!Learn(epistemic'[GuardKey])
  BY <1>1, <1>2, <1>3
  DEF Oracle!Learn, Oracle!Refines, Refines, TriggersOf, Horizon
<1> QED
  BY <1>2, <1>4 DEF Oracle!Happens, Oracle!K3, K3

\* Every step is the oracle's, or a stutter.
LEMMA StepIsSeen ==
  HInv /\ Judged' /\ [HNext]_<<vars, responses>> => [Oracle!Next]_(Oracle!vars)
<1> SUFFICES ASSUME HInv, Judged', [HNext]_<<vars, responses>>
             PROVE  [Oracle!Next]_(Oracle!vars)
  OBVIOUS
<1>1. CASE Oracle!Happens
  BY <1>1 DEF Oracle!Next, Judged
<1>2. ASSUME NEW e \in Event, HStep(e), StepAfterEnd(e)
      PROVE  UNCHANGED Oracle!vars
  <2>1. responses' = responses
    BY <1>2 DEF HStep, StepAfterEnd, Processed
  <2>2. UNCHANGED <<mode, terminal_kind, fault, tick, epistemic, occurrences>>
    BY <1>2 DEF StepAfterEnd
  <2> QED
    BY <2>1, <2>2 DEF Oracle!vars, PublicMode, Summary, Statuses, Duties
<1>3. CASE UNCHANGED <<vars, responses>>
  BY <1>3 DEF vars, Oracle!vars, PublicMode, Summary, Statuses, Duties
<1>4. ASSUME NEW e \in Event, HStep(e)
      PROVE  Oracle!Happens \/ StepAfterEnd(e)
  BY <1>4, AcceptedIsSeen, FaultIsSeen DEF HStep, Step
<1> QED
  BY <1>1, <1>2, <1>3, <1>4, InitialIsLearnt DEF HNext

\* The oracle starts where the monitor does.
LEMMA InitIsSeen == HInit => Oracle!Init
<1> SUFFICES ASSUME HInit PROVE Oracle!Init
  OBVIOUS
<1>1. Duties = {} /\ Statuses = {}
  BY DEF HInit, Init, Duties, Statuses
<1>2. epistemic[GuardKey] = "U"
  BY GuardAssumption DEF HInit, Init
<1> QED
  BY <1>1, <1>2 DEF HInit, Init, Oracle!Init, PublicMode, Summary

\* The summary, computed from a ledger that is filled greedily, expired, and
\* never revised, is at every step the oracle's verdict: no breach is charged
\* that another pairing of responses and duties would have avoided, no run
\* cleared that none would, through faults and every kind of end.
THEOREM OracleImplemented == HSpec => ImplementsOracle
<1>1. HSpec => []Judged
  BY HistoryInductive, HistoryJudges, PTL
<1>2. HInv /\ Judged' /\ [HNext]_<<vars, responses>> => [Oracle!Next]_(Oracle!vars)
  BY StepIsSeen
<1> QED
  BY <1>1, <1>2, InitIsSeen, HistoryInductive, PTL DEF HSpec, ImplementsOracle, Oracle!Spec

=============================================================================
