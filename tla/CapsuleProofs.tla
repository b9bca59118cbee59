---------------------------- MODULE CapsuleProofs ----------------------------
(***************************************************************************)
(* A card and the monitor restored from it, for every clause, trace, tail  *)
(* window and continuation: what restore_open_state_card lets in is a      *)
(* state a monitor could be in, and under the card's precondition no       *)
(* continuation tells the restored monitor from the source.                *)
(*                                                                         *)
(* The two ledgers are not equal: the source also holds the duties it      *)
(* answered, and may number the rest otherwise.  Carried says what they    *)
(* have in common, and every phase of a step keeps it.  For a tail card    *)
(* the replayed ledgers are related to the source's before the source is   *)
(* cut: Traced says that the events from some point of the trace on lead   *)
(* from a ledger to one the source carries.  A point where the source was  *)
(* quiet begins with the empty ledger, each event of the source extends    *)
(* what was traced, and each event replayed uses up one.                   *)
(***************************************************************************)
EXTENDS Capsule, MonitorProofs, SequenceTheorems

\* What MonitorProofs says of a monitor, said of the restored one.
Second == INSTANCE MonitorProofs WITH
  mode <- r_mode, terminal_kind <- r_terminal_kind, fault <- r_fault,
  tick <- r_tick, epistemic <- r_epistemic, occurrences <- r_occurrences,
  oid_counter <- r_oid_counter, consumed <- r_consumed,
  diagnostic <- r_diagnostic

-----------------------------------------------------------------------------
\* The operators on a ledger read no variable: the restored monitor's copies of
\* them are the same functions.  First its expiry phases.
LEMMA SameExpiry ==
  \A occs, now :
    /\ Restored!PreExpire(occs, now) = PreExpire(occs, now)
    /\ Second!PreExpire(occs, now) = PreExpire(occs, now)
    /\ Restored!BoundaryExpire(occs, now) = BoundaryExpire(occs, now)
    /\ Second!BoundaryExpire(occs, now) = BoundaryExpire(occs, now)
BY DEF PreExpire, Restored!PreExpire, Second!PreExpire,
       BoundaryExpire, Restored!BoundaryExpire, Second!BoundaryExpire,
       Expire, Restored!Expire, Second!Expire, Breach, Restored!Breach, Second!Breach,
       GuardRemainsUnknownAtDeadline, Restored!GuardRemainsUnknownAtDeadline,
       Second!GuardRemainsUnknownAtDeadline

\* The allocation pass.
LEMMA SamePass ==
  /\ \A occs, active, used :
       /\ Restored!Allocations(occs, active, used) = Allocations(occs, active, used)
       /\ Second!Allocations(occs, active, used) = Allocations(occs, active, used)
  /\ \A occs, guard :
       /\ Restored!Activated(occs, guard) = Activated(occs, guard)
       /\ Second!Activated(occs, guard) = Activated(occs, guard)
  /\ \A alloc : Restored!Used(alloc) = Used(alloc) /\ Second!Used(alloc) = Used(alloc)
<1>1. \A occs, S : /\ Restored!First(occs, S) = First(occs, S)
                   /\ Second!First(occs, S) = First(occs, S)
  BY DEF First, Restored!First, Second!First, Precedes, Restored!Precedes, Second!Precedes
<1>2. NoTick = -1 /\ Restored!NoTick = -1 /\ Second!NoTick = -1
  BY DEF NoTick, Restored!NoTick, Second!NoTick
<1>3. \A occs, active, alloc, token :
        /\ Restored!Takers(occs, active, alloc, token) = Takers(occs, active, alloc, token)
        /\ Second!Takers(occs, active, alloc, token)
             = Takers(occs, active, alloc, token)
  BY <1>2 DEF Takers, Restored!Takers, Second!Takers
<1>4. \A occs, active, tokens, alloc :
        /\ Restored!IsAllocation(occs, active, tokens, alloc)
             <=> IsAllocation(occs, active, tokens, alloc)
        /\ Second!IsAllocation(occs, active, tokens, alloc)
             <=> IsAllocation(occs, active, tokens, alloc)
  BY <1>1, <1>3 DEF IsAllocation, Restored!IsAllocation, Second!IsAllocation
<1>5. \A occs, active, used :
       /\ Restored!Allocations(occs, active, used) = Allocations(occs, active, used)
       /\ Second!Allocations(occs, active, used) = Allocations(occs, active, used)
  BY <1>2, <1>4
  DEF Allocations, Restored!Allocations, Second!Allocations, Recorded, Restored!Recorded,
      Second!Recorded
<1> QED
  BY <1>2, <1>5
  DEF Activated, Restored!Activated, Second!Activated, Used, Restored!Used, Second!Used,
    Conditional, Restored!Conditional, Second!Conditional

\* The resolution of the conditional duties.
LEMMA SameResolution ==
  \A occs, guard, alloc, now :
    /\ Restored!ResolveConditionals(occs, guard, alloc, now)
         = ResolveConditionals(occs, guard, alloc, now)
    /\ Second!ResolveConditionals(occs, guard, alloc, now)
         = ResolveConditionals(occs, guard, alloc, now)
<1>2. NoTick = -1 /\ Restored!NoTick = -1 /\ Second!NoTick = -1
  BY DEF NoTick, Restored!NoTick, Second!NoTick
<1>1. \A o, token, now : /\ Restored!Activate(o, token, now) = Activate(o, token, now)
                         /\ Second!Activate(o, token, now) = Activate(o, token, now)
  BY <1>2
  DEF Activate, Restored!Activate, Second!Activate, Discharge, Restored!Discharge,
      Second!Discharge, Breach, Restored!Breach, Second!Breach
<1> QED
 BY <1>1
 DEF ResolveConditionals, Restored!ResolveConditionals, Second!ResolveConditionals,
     Conditional, Restored!Conditional, Second!Conditional,
   GuardsBecomeTrue, Restored!GuardsBecomeTrue, Second!GuardsBecomeTrue,
   GuardBecomesFalse, Restored!GuardBecomesFalse, Second!GuardBecomesFalse

\* The instantiation of a triggered duty.
LEMMA SameTrigger ==
  \A occs, oid, guard, now :
    /\ Restored!InstantiateTrigger(occs, oid, guard, now)
         = InstantiateTrigger(occs, oid, guard, now)
    /\ Second!InstantiateTrigger(occs, oid, guard, now)
         = InstantiateTrigger(occs, oid, guard, now)
<1>2. NoTick = -1 /\ Restored!NoTick = -1 /\ Second!NoTick = -1
  BY DEF NoTick, Restored!NoTick, Second!NoTick
<1> QED
 BY <1>2
 DEF InstantiateTrigger, Restored!InstantiateTrigger, Second!InstantiateTrigger,
     TriggerAndGuardRule, Restored!TriggerAndGuardRule,
   Second!TriggerAndGuardRule, NewOccurrence, Restored!NewOccurrence, Second!NewOccurrence

\* The registration of a response.
LEMMA SameAnswer ==
  \A occs, token :
    /\ Restored!Eligible(occs, token) = Eligible(occs, token)
    /\ Second!Eligible(occs, token) = Eligible(occs, token)
    /\ Restored!RegisterResponseToken(occs, token) = RegisterResponseToken(occs, token)
    /\ Second!RegisterResponseToken(occs, token) = RegisterResponseToken(occs, token)
<1>1. \A occs, S : /\ Restored!First(occs, S) = First(occs, S)
                   /\ Second!First(occs, S) = First(occs, S)
  BY DEF First, Restored!First, Second!First, Precedes, Restored!Precedes, Second!Precedes
<1> QED
  BY <1>1, ZenonT(40)
  DEF Eligible, Restored!Eligible, Second!Eligible, RegisterResponseToken,
      Restored!RegisterResponseToken, Second!RegisterResponseToken,
    Discharge, Restored!Discharge, Second!Discharge, Conditional, Restored!Conditional,
    Second!Conditional

\* The conversion of a terminal event.
LEMMA SameTerminal ==
  \A occs, kind, now :
    /\ Restored!TerminalConversion(occs, kind, now) = TerminalConversion(occs, kind, now)
    /\ Second!TerminalConversion(occs, kind, now) = TerminalConversion(occs, kind, now)
<1>1. \A o, kind, now : /\ Restored!ConvertOpen(o, kind, now) = ConvertOpen(o, kind, now)
                        /\ Second!ConvertOpen(o, kind, now) = ConvertOpen(o, kind, now)
  BY
  DEF ConvertOpen, Restored!ConvertOpen, Second!ConvertOpen, Breach, Restored!Breach,
      Second!Breach
<1>2. \A o, kind : /\ Restored!ConvertConditional(o, kind) = ConvertConditional(o, kind)
                   /\ Second!ConvertConditional(o, kind) = ConvertConditional(o, kind)
  BY DEF ConvertConditional, Restored!ConvertConditional, Second!ConvertConditional
<1> QED
  BY <1>1, <1>2
  DEF TerminalConversion, Restored!TerminalConversion, Second!TerminalConversion,
      Conditional, Restored!Conditional, Second!Conditional

\* What an event computes from the restored monitor's state is one thing under
\* both names.
LEMMA SameState ==
  ASSUME NEW e
  PROVE  /\ Restored!Guard(e) = Second!Guard(e)
         /\ Restored!FreshOids = Second!FreshOids
         /\ Restored!Resolutions(e) = Second!Resolutions(e)
         /\ \A alloc :
              /\ Restored!Resolved(e, alloc) = Second!Resolved(e, alloc)
              /\ \A oid :
                   /\ Restored!Triggered(e, alloc, oid) = Second!Triggered(e, alloc, oid)
                   /\ Restored!Answered(e, alloc, oid) = Second!Answered(e, alloc, oid)
<1>1. Restored!Guard(e) = Second!Guard(e)
  BY DEF Restored!Guard, Second!Guard, Restored!Observed, Second!Observed
<1>2. Restored!FreshOids = Second!FreshOids
  BY
  DEF Restored!FreshOids, Second!FreshOids, Restored!Cardinality, Second!Cardinality,
      Restored!IsFiniteSet, Second!IsFiniteSet
<1>3. Restored!Resolutions(e) = Second!Resolutions(e)
  BY <1>1, SameExpiry, SamePass DEF Restored!Resolutions, Second!Resolutions
<1>4. \A alloc : Restored!Resolved(e, alloc) = Second!Resolved(e, alloc)
  BY <1>1, SameExpiry, SameResolution DEF Restored!Resolved, Second!Resolved
<1>5. \A alloc, oid : Restored!Triggered(e, alloc, oid) = Second!Triggered(e, alloc, oid)
  BY <1>1, <1>4, SameTrigger DEF Restored!Triggered, Second!Triggered
<1>6. \A alloc, oid : Restored!Answered(e, alloc, oid) = Second!Answered(e, alloc, oid)
  BY <1>5, SameAnswer DEF Restored!Answered, Second!Answered
<1> QED
  BY <1>1, <1>2, <1>3, <1>4, <1>5, <1>6

\* So is what the epistemic validation decides.
LEMMA SameAccept ==
  ASSUME NEW e
  PROVE  /\ Restored!Contradicts(e.observations) <=> Second!Contradicts(e.observations)
         /\ Restored!Accept(e) <=> Second!Accept(e)
<1>1. Restored!Contradicts(e.observations) <=> Second!Contradicts(e.observations)
  BY DEF Restored!Contradicts, Second!Contradicts, Restored!Refines, Second!Refines
<1> QED
  BY <1>1 DEF Restored!Accept, Second!Accept, Restored!Observed, Second!Observed

\* And so is the step: what Restored takes, the lemmas of Second speak about.
LEMMA SameStep ==
  ASSUME NEW e, Restored!Step(e)
  PROVE  Second!Step(e)
<1>1. Restored!StepAfterEnd(e) => Second!StepAfterEnd(e)
  BY DEF Restored!StepAfterEnd, Second!StepAfterEnd
<1>2. Restored!StepStale(e) => Second!StepStale(e)
  BY DEF Restored!StepStale, Second!StepStale
<1>3. Restored!StepContradiction(e) => Second!StepContradiction(e)
  BY SameAccept, SameExpiry DEF Restored!StepContradiction, Second!StepContradiction
<1>4. ASSUME Restored!StepDomain(e) PROVE Second!StepDomain(e)
  <2>1. PICK alloc \in Restored!Resolutions(e), oid \in Restored!FreshOids :
          /\ r_occurrences' = Restored!BoundaryExpire(Restored!Answered(e, alloc, oid), e.tick)
          /\ r_oid_counter' = IF e.tag = TriggerTag THEN oid ELSE r_oid_counter
          /\ r_consumed' = r_consumed \cup Restored!Used(alloc) \cup
                             {t \in {e.tick} :
                                /\ e.tag = ResponseTag
                                /\ Restored!Eligible(Restored!Triggered(e, alloc, oid), t) # {}}
    BY <1>4 DEF Restored!StepDomain
  <2>2. /\ r_occurrences'
             = Second!BoundaryExpire(Second!Answered(e, alloc, oid), e.tick)
        /\ r_consumed' = r_consumed \cup Second!Used(alloc) \cup
                           {t \in {e.tick} :
                              /\ e.tag = ResponseTag
                              /\ Second!Eligible(Second!Triggered(e, alloc, oid), t) # {}}
    BY <2>1, SameState, SameExpiry, SamePass, SameAnswer
  <2>3. alloc \in Second!Resolutions(e) /\ oid \in Second!FreshOids
    BY <2>1, SameState
  <2>4. Second!Accept(e) /\ e.type = "Domain" /\ UNCHANGED <<r_mode, r_terminal_kind>>
    BY <1>4, SameAccept DEF Restored!StepDomain
  <2> QED
    BY <2>1, <2>2, <2>3, <2>4 DEF Second!StepDomain
<1>5. Restored!StepTick(e) => Second!StepTick(e)
  BY SameAccept, SameState, SameExpiry, SamePass DEF Restored!StepTick, Second!StepTick
<1>6. Restored!StepTerminal(e) => Second!StepTerminal(e)
  BY SameAccept, SameState, SameExpiry, SamePass, SameTerminal
  DEF Restored!StepTerminal, Second!StepTerminal
<1> QED
  BY <1>1, <1>2, <1>3, <1>4, <1>5, <1>6 DEF Restored!Step, Second!Step

\* The events are those of the first monitor.
LEMMA SameEvents == Second!AnyEvent = AnyEvent
BY
DEF AnyEvent, Second!AnyEvent, Observations, Second!Observations, TerminalKinds,
    Second!TerminalKinds, K3, Second!K3

\* The duties of the second monitor are records of the same kind.
LEMMA SameRecords == Second!Occurrence = Occurrence /\ Second!NoTick = NoTick
BY DEF Occurrence, Second!Occurrence, OccurrenceStatus, Second!OccurrenceStatus,
       BreachReasons, Second!BreachReasons, NoTick, Second!NoTick

\* What MonitorProofs calls sound of the second ledger is what it calls sound
\* of the first.
LEMMA SameSoundness ==
  \A occs, guard, now : Second!SoundLedger(occs, guard, now)
                          <=> SoundLedger(occs, guard, now)
<1>1. \A o, guard, now : Second!Sound(o, guard, now) <=> Sound(o, guard, now)
  BY SameRecords
  DEF Sound, Second!Sound, InTime, Second!InTime, Coherent, Second!Coherent,
      Conditional, Second!Conditional, Dated, Second!Dated
<1> QED
  BY <1>1 DEF SoundLedger, Second!SoundLedger

\* And the same of the accounts of tokens.
LEMMA SameAccounts ==
  \A occs, used, seen : Second!Accounts(occs, used, seen) <=> Accounts(occs, used, seen)
BY SameRecords
DEF Accounts, Second!Accounts, Queue, Second!Queue, Recording, Second!Recording,
    Holding, Second!Holding, InOrder, Second!InOrder, NoWaste, Second!NoWaste

\* An accepted event makes of the restored ledger what it would of the other.
LEMMA SameMoved ==
  \A occs, e, oid : Second!Moved(occs, e, oid) = Moved(occs, e, oid)
BY SameExpiry, SameTrigger, SameAnswer, SameTerminal DEF Moved, Second!Moved

-----------------------------------------------------------------------------
(* The lemmas about one monitor, for the restored one.                      *)

\* An event keeps what is known of a restored monitor, and of one that numbered
\* its duties itself its accounts; without a trigger, whatever their names.
LEMMA RestoredKeeps ==
  ASSUME Second!Known, NEW e \in AnyEvent, Restored!Step(e)
  PROVE  /\ Second!Known'
         /\ Second!TokenInv => Second!TokenInv'
         /\ (/\ Accounts(r_occurrences, r_consumed, r_tick)
             /\ e.type # "Domain" \/ e.tag # TriggerTag)
              => Accounts(r_occurrences', r_consumed', r_tick')
<1>1. e \in Second!AnyEvent /\ Second!Step(e)
  BY SameEvents, SameStep
<1>2. Second!Known'
  BY <1>1, Second!KnownSteps, BoundAssumption, GuardAssumption, TicksAssumption
  DEF Second!KnownSteps
<1>3. Second!TokenInv => Second!TokenInv'
  BY <1>1, Second!StepTokens, BoundAssumption, GuardAssumption, TicksAssumption
  DEF Second!StepTokens
<1>4. ASSUME Accounts(r_occurrences, r_consumed, r_tick),
             e.type # "Domain" \/ e.tag # TriggerTag
      PROVE  Accounts(r_occurrences', r_consumed', r_tick')
  <2>1. Second!Accounts(r_occurrences, r_consumed, r_tick)
    BY <1>4, SameAccounts
  <2>2. Second!Accounts(r_occurrences', r_consumed', r_tick')
    BY <1>1, <1>4, <2>1, Second!KnownAccounts, BoundAssumption, GuardAssumption,
       TicksAssumption
    DEF Second!KnownAccounts
  <2> QED
    BY <2>2, SameAccounts
<1> QED
  BY <1>2, <1>3, <1>4

\* What an accepted event does to it.
LEMMA RestoredMoves ==
  ASSUME Second!Known, NEW e \in AnyEvent, Second!Accept(e), Restored!Step(e)
  PROVE  /\ \E oid \in Nat :
              /\ e.type = "Domain" => oid \in Second!FreshOids
              /\ r_occurrences' = Moved(r_occurrences, e, oid)
         /\ IF e.type = "Terminal"
            THEN r_mode' = "Halted" /\ r_terminal_kind' = e.kind
            ELSE r_mode' = "Running" /\ r_terminal_kind' = "None"
         /\ (e.type = "Domain" /\ e.tag = TriggerTag) \/ r_oid_counter' = r_oid_counter
<1>1. e \in Second!AnyEvent /\ Second!Step(e)
  BY SameEvents, SameStep
<1>2. /\ \E oid \in Nat :
              /\ e.type = "Domain" => oid \in Second!FreshOids
              /\ r_occurrences' = Second!Moved(r_occurrences, e, oid)
      /\ IF e.type = "Terminal"
            THEN r_mode' = "Halted" /\ r_terminal_kind' = e.kind
            ELSE r_mode' = "Running" /\ r_terminal_kind' = "None"
      /\ (e.type = "Domain" /\ e.tag = TriggerTag) \/ r_oid_counter' = r_oid_counter
  BY <1>1, Second!KnownMoves, BoundAssumption, GuardAssumption, TicksAssumption
  DEF Second!KnownMoves
<1> QED
  BY <1>2, SameMoved

-----------------------------------------------------------------------------
(* A ledger carried by another: the other has the same duties in the same   *)
(* order, under names of its own, and besides them answered ones only.      *)

Carried(occs, others) ==
  \E f \in [DOMAIN occs -> DOMAIN others] :
    /\ \A i, j \in DOMAIN occs : i < j => f[i] < f[j]
    /\ \A i \in DOMAIN occs : others[f[i]] = occs[i]
    /\ \A k \in DOMAIN others :
         (\A i \in DOMAIN occs : f[i] # k) => others[k].status = "Discharged"

\* What is carried is a ledger of the same kind, and a queue if the other is.
LEMMA CarriedIsQueue ==
  ASSUME NEW D \in SUBSET Nat, NEW occs, occs = [i \in D |-> occs[i]],
         NEW E \in SUBSET Nat, NEW others \in [E -> Occurrence],
         NEW seen, Queue(others, seen), Carried(occs, others)
  PROVE  occs \in [D -> Occurrence] /\ Queue(occs, seen)
<1>1. DOMAIN occs = D /\ DOMAIN others = E
  OBVIOUS
<1>2. PICK f \in [D -> E] :
        /\ \A i, j \in D : i < j => f[i] < f[j]
        /\ \A i \in D : others[f[i]] = occs[i]
  BY <1>1 DEF Carried
<1>3. \A i \in D : occs[i] \in Occurrence
  BY <1>2
<1>4. occs \in [D -> Occurrence]
  BY <1>3
<1>5. Queue(occs, seen)
  <2> SUFFICES ASSUME NEW i \in D
               PROVE  /\ occs[i].deadline = occs[i].trigger_tick + Bound
                      /\ occs[i].trigger_tick <= seen
                      /\ \A j \in D : i < j => occs[i].trigger_tick < occs[j].trigger_tick
    BY <1>1 DEF Queue
  <2>1. f[i] \in E /\ others[f[i]] = occs[i]
    BY <1>2
  <2>2. ASSUME NEW j \in D, i < j
        PROVE  occs[i].trigger_tick < occs[j].trigger_tick
    <3>1. f[j] \in E /\ others[f[j]] = occs[j] /\ f[i] < f[j]
      BY <1>2, <2>2
    <3> QED
      BY <1>1, <2>1, <3>1 DEF Queue
  <2> QED
    BY <1>1, <2>1, <2>2 DEF Queue
<1> QED
  BY <1>4, <1>5

\* A map of records that leaves answered duties alone carries on.
LEMMA MapCarries ==
  ASSUME NEW occs, NEW others, NEW after, NEW afters, Carried(occs, others),
         DOMAIN after = DOMAIN occs, DOMAIN afters = DOMAIN others,
         \A i \in DOMAIN occs, k \in DOMAIN others :
           occs[i] = others[k] => after[i] = afters[k],
         \A k \in DOMAIN others : others[k].status = "Discharged" => afters[k] = others[k]
  PROVE  Carried(after, afters)
<1>1. PICK f \in [DOMAIN occs -> DOMAIN others] :
        /\ \A i, j \in DOMAIN occs : i < j => f[i] < f[j]
        /\ \A i \in DOMAIN occs : others[f[i]] = occs[i]
        /\ \A k \in DOMAIN others :
             (\A i \in DOMAIN occs : f[i] # k) => others[k].status = "Discharged"
  BY DEF Carried
<1>2. \A i \in DOMAIN occs : afters[f[i]] = after[i]
  BY <1>1
<1>3. \A k \in DOMAIN others :
        (\A i \in DOMAIN occs : f[i] # k) => afters[k].status = "Discharged"
  BY <1>1
<1> QED
  BY <1>1, <1>2, <1>3 DEF Carried

\* Expiry is one, and so is the end of the run.
LEMMA PhasesCarry ==
  ASSUME NEW occs, NEW others, Carried(occs, others), NEW now
  PROVE  /\ Carried(PreExpire(occs, now), PreExpire(others, now))
         /\ Carried(BoundaryExpire(occs, now), BoundaryExpire(others, now))
         /\ \A kind : Carried(TerminalConversion(occs, kind, now),
                              TerminalConversion(others, kind, now))
<1>1. Carried(PreExpire(occs, now), PreExpire(others, now))
  <2> DEFINE after == PreExpire(occs, now)
             afters == PreExpire(others, now)
  <2>1. DOMAIN after = DOMAIN occs /\ DOMAIN afters = DOMAIN others
    BY DEF PreExpire, Expire
  <2>2. \A i \in DOMAIN occs, k \in DOMAIN others :
          occs[i] = others[k] => after[i] = afters[k]
    BY DEF PreExpire, Expire
  <2>3. \A k \in DOMAIN others : others[k].status = "Discharged" => afters[k] = others[k]
    BY DEF PreExpire, Expire
  <2> HIDE DEF after, afters
  <2>4. Carried(after, afters)
    BY <2>1, <2>2, <2>3, MapCarries
  <2> QED
    BY <2>4 DEF after, afters
<1>2. Carried(BoundaryExpire(occs, now), BoundaryExpire(others, now))
  <2> DEFINE after == BoundaryExpire(occs, now)
             afters == BoundaryExpire(others, now)
  <2>1. DOMAIN after = DOMAIN occs /\ DOMAIN afters = DOMAIN others
    BY DEF BoundaryExpire, Expire
  <2>2. \A i \in DOMAIN occs, k \in DOMAIN others :
          occs[i] = others[k] => after[i] = afters[k]
    BY DEF BoundaryExpire, Expire
  <2>3. \A k \in DOMAIN others : others[k].status = "Discharged" => afters[k] = others[k]
    BY DEF BoundaryExpire, Expire
  <2> HIDE DEF after, afters
  <2>4. Carried(after, afters)
    BY <2>1, <2>2, <2>3, MapCarries
  <2> QED
    BY <2>4 DEF after, afters
<1>3. ASSUME NEW kind
      PROVE  Carried(TerminalConversion(occs, kind, now), TerminalConversion(others, kind, now))
  <2> DEFINE after == TerminalConversion(occs, kind, now)
             afters == TerminalConversion(others, kind, now)
  <2>1. DOMAIN after = DOMAIN occs /\ DOMAIN afters = DOMAIN others
    BY DEF TerminalConversion
  <2>2. \A i \in DOMAIN occs, k \in DOMAIN others :
          occs[i] = others[k] => after[i] = afters[k]
    BY DEF TerminalConversion
  <2>3. \A k \in DOMAIN others : others[k].status = "Discharged" => afters[k] = others[k]
    BY DEF TerminalConversion, Conditional
  <2> HIDE DEF after, afters
  <2>4. Carried(after, afters)
    BY <2>1, <2>2, <2>3, MapCarries
  <2> QED
    BY <2>4 DEF after, afters
<1> QED
  BY <1>1, <1>2, <1>3

\* A duty that is triggered is the youngest of both.
LEMMA TriggerCarries ==
  ASSUME NEW occs, NEW others, Carried(occs, others), NEW guard, NEW now,
         NEW oid \in Nat, NEW other, \A i \in DOMAIN occs : ~ oid < i /\ oid # i,
         \A k \in DOMAIN others : k < other /\ k # other
  PROVE  Carried(InstantiateTrigger(occs, oid, guard, now),
                 InstantiateTrigger(others, other, guard, now))
<1> DEFINE after == InstantiateTrigger(occs, oid, guard, now)
           afters == InstantiateTrigger(others, other, guard, now)
           D == DOMAIN occs
           E == DOMAIN others
<1>1. PICK f \in [D -> E] :
        /\ \A i, j \in D : i < j => f[i] < f[j]
        /\ \A i \in D : others[f[i]] = occs[i]
        /\ \A k \in E :
             (\A i \in D : f[i] # k) => others[k].status = "Discharged"
  BY DEF Carried
<1> DEFINE g == [i \in D \cup {oid} |-> IF i = oid THEN other ELSE f[i]]
<1>2. /\ DOMAIN after = D \cup {oid} /\ DOMAIN afters = E \cup {other}
      /\ after[oid] = afters[other]
      /\ \A i \in D : after[i] = occs[i]
      /\ \A k \in E : afters[k] = others[k]
  BY DEF InstantiateTrigger
<1> HIDE DEF after, afters
<1>3. g \in [DOMAIN after -> DOMAIN afters]
  BY <1>1, <1>2
<1>4. \A i \in D : g[i] = f[i] /\ f[i] \in E
  BY <1>1
<1>5. g[oid] = other
  OBVIOUS
<1> HIDE DEF g, D, E
<1>6. \A i, j \in DOMAIN after : i < j => g[i] < g[j]
  <2> SUFFICES ASSUME NEW i \in D \cup {oid}, NEW j \in D \cup {oid}, i < j
               PROVE  g[i] < g[j]
    BY <1>2
  <2>1. CASE j = oid
    <3>1. CASE i = oid
      <4>1. ~ oid < oid
        OBVIOUS
      <4> QED
        BY <2>1, <3>1
    <3>2. CASE i \in D
      BY <1>4, <1>5, <2>1, <3>2 DEF E
    <3> QED
      BY <3>1, <3>2
  <2>2. CASE j \in D /\ i = oid
    BY <2>2 DEF D
  <2>3. CASE j \in D /\ i \in D
    BY <1>1, <1>4, <2>3
  <2> QED
    BY <2>1, <2>2, <2>3
<1>7. \A i \in DOMAIN after : afters[g[i]] = after[i]
  BY <1>1, <1>2, <1>4, <1>5
<1>8. \A k \in DOMAIN afters :
        (\A i \in DOMAIN after : g[i] # k) => afters[k].status = "Discharged"
  BY <1>1, <1>2, <1>4, <1>5
<1>9. Carried(after, afters)
  BY <1>3, <1>6, <1>7, <1>8 DEF Carried
<1> QED
  BY <1>9 DEF after, afters

\* A response goes to the same duty in both.
LEMMA RegisterCarries ==
  ASSUME NEW D \in SUBSET Nat, NEW occs \in [D -> Occurrence],
         NEW E \in SUBSET Nat, NEW others \in [E -> Occurrence],
         NEW seen, Queue(occs, seen), Queue(others, seen),
         Carried(occs, others), NEW token,
         \A k \in E : others[k].status \notin Conditional
  PROVE  Carried(RegisterResponseToken(occs, token), RegisterResponseToken(others, token))
<1> DEFINE S == Eligible(occs, token)
           T == Eligible(others, token)
           after == RegisterResponseToken(occs, token)
           afters == RegisterResponseToken(others, token)
<1>1. DOMAIN occs = D /\ DOMAIN others = E
  OBVIOUS
<1>2. PICK f \in [D -> E] :
        /\ \A i, j \in D : i < j => f[i] < f[j]
        /\ \A i \in D : others[f[i]] = occs[i]
        /\ \A k \in E : (\A i \in D : f[i] # k) => others[k].status = "Discharged"
  BY <1>1 DEF Carried
<1>3. /\ S \in SUBSET D /\ T \in SUBSET E
      /\ \A i \in D : i \in S <=> f[i] \in T
      /\ \A k \in T : others[k].status = "Open"
  BY <1>1, <1>2 DEF Eligible
<1>4. \A k \in T : \E i \in S : f[i] = k
  BY <1>2, <1>3
<1>5. \A i \in D : occs[i].status \notin Conditional
  BY <1>2
<1>6. CASE S = {}
  <2>1. T = {}
    BY <1>4, <1>6
  <2>2. after = occs
    BY <1>1, <1>5, <1>6 DEF RegisterResponseToken
  <2>3. afters = others
    BY <1>1, <2>1 DEF RegisterResponseToken
  <2> QED
    BY <2>2, <2>3
<1>7. CASE S # {}
  <2> DEFINE a == First(occs, S)
             b == First(others, T)
  <2>1. T # {}
    BY <1>3, <1>7
  <2>2. a \in S /\ \A j \in S \ {a} : Precedes(occs, a, j)
    BY <1>3, <1>7, FirstIsLeast
  <2>3. b \in T /\ \A k \in T \ {b} : Precedes(others, b, k)
    BY <1>3, <2>1, FirstIsLeast
  <2>4. /\ after = [occs EXCEPT ![a] = Discharge(occs[a], token)]
        /\ afters = [others EXCEPT ![b] = Discharge(others[b], token)]
    BY <1>7, <2>1 DEF RegisterResponseToken
  <2> HIDE DEF a, b, S, T, after, afters
  <2>5. PICK c \in S : f[c] = b
    BY <1>4, <2>3
  <2>6. a \in D /\ c \in D /\ f[a] \in T /\ f[a] \in E /\ b \in E
    BY <1>3, <2>2, <2>3
  <2>7. a = c
    <3>1. CASE a < c
      <4>1. f[a] < b /\ f[a] # b
        BY <1>2, <2>5, <2>6, <3>1
      <4>2. ~ Precedes(others, b, f[a])
        BY <2>6, <4>1, OlderPrecedes
      <4> QED
        BY <2>3, <2>6, <4>1, <4>2
    <3>2. CASE c < a
      <4>1. ~ Precedes(occs, a, c)
        BY <2>6, <3>2, OlderPrecedes
      <4>2. c # a
        BY <2>6, <3>2
      <4> QED
        BY <2>2, <2>5, <4>1, <4>2
    <3> QED
      BY <2>6, <3>1, <3>2
  <2>8. f[a] = b
    BY <2>5, <2>7
  <2>9. DOMAIN after = D /\ DOMAIN afters = E
    BY <2>4
  <2>10. \A i \in D : i # a => f[i] # b
    <3> SUFFICES ASSUME NEW i \in D, i # a PROVE f[i] # b
      OBVIOUS
    <3>1. f[i] < b \/ b < f[i]
      BY <1>2, <2>6, <2>8
    <3> QED
      BY <2>6, <3>1
  <2>11. ASSUME NEW i \in D PROVE afters[f[i]] = after[i]
    <3>1. CASE i = a
      <4>1. afters[b] = Discharge(others[b], token) /\ after[a] = Discharge(occs[a], token)
        BY <2>4, <2>6
      <4> QED
        BY <1>2, <2>6, <2>8, <3>1, <4>1
    <3>2. CASE i # a
      <4>1. f[i] # b /\ f[i] \in E
        BY <2>10, <3>2
      <4>2. afters[f[i]] = others[f[i]] /\ after[i] = occs[i]
        BY <2>4, <3>2, <4>1
      <4> QED
        BY <1>2, <4>2
    <3> QED
      BY <3>1, <3>2
  <2>12. ASSUME NEW k \in E, \A i \in D : f[i] # k
         PROVE  afters[k].status = "Discharged"
    <3>1. k # b
      BY <2>6, <2>8, <2>12
    <3>2. afters[k] = others[k]
      BY <2>4, <3>1
    <3> QED
      BY <1>2, <2>12, <3>2
  <2>13. Carried(after, afters)
    BY <1>2, <2>9, <2>11, <2>12 DEF Carried
  <2> QED
    BY <2>13 DEF after, afters
<1> QED
  BY <1>6, <1>7

\* Whether an event creates a duty.
Triggers(e) == e.type = "Domain" /\ e.tag = TriggerTag

Younger(oid, D) == \A i \in D : i < oid

Waiting(occs) == \E i \in DOMAIN occs : occs[i].status \in Conditional

Extended(e, D, oid) == IF Triggers(e) THEN D \cup {oid} ELSE D

\* What an event makes of a ledger is a ledger.
LEMMA MovedType ==
  ASSUME NEW D \in SUBSET Nat, NEW occs \in [D -> Occurrence], NEW e \in AnyEvent,
         e.tick \in Nat, NEW oid \in Nat
  PROVE  Moved(occs, e, oid) \in [Extended(e, D, oid) -> Occurrence]
<1> DEFINE now == e.tick
           expired == PreExpire(occs, now)
           triggered == IF e.type = "Domain" /\ e.tag = TriggerTag
                        THEN InstantiateTrigger(expired, oid, "T", now) ELSE expired
           answered == IF e.type = "Domain" /\ e.tag = ResponseTag
                       THEN RegisterResponseToken(triggered, now) ELSE triggered
           due == BoundaryExpire(answered, now)
           X == Extended(e, D, oid)
<1>1. expired \in [D -> Occurrence]
  BY PreExpireType
<1>2. triggered \in [X -> Occurrence] /\ X \in SUBSET Nat
  <2>1. CASE Triggers(e)
    <3>1. InstantiateTrigger(expired, oid, "T", now) \in [D \cup {oid} -> Occurrence]
      BY <1>1, TriggerType
    <3> QED
      BY <2>1, <3>1 DEF Triggers, Extended
  <2>2. CASE ~ Triggers(e)
    BY <1>1, <2>2 DEF Triggers, Extended
  <2> QED
    BY <2>1, <2>2
<1> HIDE DEF triggered, expired, X
<1>3. answered \in [X -> Occurrence]
  <2>1. RegisterResponseToken(triggered, now) \in [X -> Occurrence]
    BY <1>2, RegisterType
  <2> QED
    BY <1>2, <2>1
<1> HIDE DEF answered
<1>4. due \in [X -> Occurrence]
  BY <1>3, PreExpireType
<1>5. Moved(occs, e, oid) = IF e.type = "Terminal"
          THEN TerminalConversion(due, e.kind, now) ELSE due
  BY DEF Moved, due, answered, triggered, expired
<1> HIDE DEF due
<1>6. e.type = "Terminal" => e.kind \in TerminalKinds
  BY DEF AnyEvent
<1>7. e.type = "Terminal" => TerminalConversion(due, e.kind, now) \in [X -> Occurrence]
  BY <1>4, <1>6, TerminalType
<1> QED
  BY <1>4, <1>5, <1>7 DEF X

\* Expiry keeps a queue, and leaves no duty waiting for a guard that none waited for.
LEMMA ExpiredQueue ==
  ASSUME NEW D \in SUBSET Nat, NEW occs \in [D -> Occurrence], NEW now \in Nat,
         NEW seen \in Nat \cup {-1}, seen < now, Queue(occs, seen)
  PROVE  /\ Queue(PreExpire(occs, now), now)
         /\ \A i \in D : PreExpire(occs, now)[i].trigger_tick < now
         /\ (\A i \in D : occs[i].status \notin Conditional)
              => \A i \in D : PreExpire(occs, now)[i].status \notin Conditional
<1> DEFINE after == PreExpire(occs, now)
<1>1. DOMAIN after = D /\ DOMAIN occs = D
  BY DEF PreExpire, Expire
<1>2. \A i \in D : Idle(occs[i], after[i])
  BY ExpireIsIdle DEF PreExpire
<1>3. ASSUME \A i \in D : occs[i].status \notin Conditional, NEW i \in D
      PROVE  after[i].status \notin Conditional
  <2>1. occs[i] \in Occurrence /\ occs[i].status \notin Conditional
    BY <1>3
  <2>2. after[i] \in {occs[i], Breach(occs[i], "UnmetAtExpiry", now)}
    BY <2>1 DEF PreExpire, Expire, Conditional
  <2>3. Breach(occs[i], "UnmetAtExpiry", now).status = "Breached"
    BY <2>1 DEF Breach, Occurrence
  <2> QED
    BY <2>1, <2>2, <2>3 DEF Conditional
<1> HIDE DEF after
<1>4. \A i \in D : /\ after[i].trigger_tick = occs[i].trigger_tick
                   /\ after[i].deadline = occs[i].deadline
                   /\ occs[i].trigger_tick \in Nat
  BY <1>2 DEF Idle, Occurrence
<1>5. \A i \in D : occs[i].trigger_tick <= seen
  BY <1>1 DEF Queue
<1>6. Queue(after, now)
  BY <1>1, <1>4, <1>5 DEF Queue
<1>7. ASSUME NEW i \in D PROVE after[i].trigger_tick < now
  <2>1. after[i].trigger_tick \in Nat /\ after[i].trigger_tick <= seen
    BY <1>4, <1>5
  <2> QED
    BY <2>1
<1> QED
  BY <1>3, <1>6, <1>7 DEF after

\* The duty an event triggers goes to the end of the queue.
LEMMA TriggeredQueue ==
  ASSUME NEW D \in SUBSET Nat, NEW occs \in [D -> Occurrence], NEW now \in Nat,
         Queue(occs, now), \A i \in D : occs[i].trigger_tick < now,
         \A i \in D : occs[i].status \notin Conditional,
         NEW oid \in Nat, \A i \in D : i < oid
  PROVE  /\ Queue(InstantiateTrigger(occs, oid, "T", now), now)
         /\ \A i \in D \cup {oid} :
              InstantiateTrigger(occs, oid, "T", now)[i].status \notin Conditional
<1> DEFINE after == InstantiateTrigger(occs, oid, "T", now)
<1>1. /\ DOMAIN after = D \cup {oid} /\ DOMAIN occs = D
      /\ \A i \in D : after[i] = occs[i] /\ i # oid
      /\ after[oid] = TriggerAndGuardRule(now, now + Bound, "T")
  BY DEF InstantiateTrigger
<1>2. /\ after[oid].trigger_tick = now /\ after[oid].deadline = now + Bound
      /\ after[oid].status = "Open"
  BY <1>1 DEF TriggerAndGuardRule, NewOccurrence
<1> HIDE DEF after
<1>3. \A i \in D : occs[i].trigger_tick \in Nat
  BY DEF Occurrence
<1>4. Queue(after, now)
  <2> SUFFICES ASSUME NEW i \in D \cup {oid}
               PROVE  /\ after[i].deadline = after[i].trigger_tick + Bound
                      /\ after[i].trigger_tick <= now
                      /\ \A j \in D \cup {oid} :
                             i < j => after[i].trigger_tick < after[j].trigger_tick
    BY <1>1 DEF Queue
  <2>1. CASE i = oid
    <3>1. \A j \in D \cup {oid} : ~ oid < j
      OBVIOUS
    <3> QED
      BY <1>2, <2>1, <3>1
  <2>2. CASE i \in D
    <3>1. ASSUME NEW j \in D, i < j
          PROVE  after[i].trigger_tick < after[j].trigger_tick
      BY <1>1, <2>2, <3>1 DEF Queue
    <3>2. after[i].trigger_tick < after[oid].trigger_tick
      BY <1>1, <1>2, <2>2
    <3>3. after[i].deadline = after[i].trigger_tick + Bound /\ after[i].trigger_tick <= now
      BY <1>1, <2>2 DEF Queue
    <3> QED
      BY <3>1, <3>2, <3>3
  <2> QED
    BY <2>1, <2>2
<1>5. \A i \in D \cup {oid} : after[i].status \notin Conditional
  BY <1>1, <1>2 DEF Conditional
<1> QED
  BY <1>4, <1>5 DEF after

\* An event that both monitors accept carries on.
LEMMA MovedCarries ==
  ASSUME NEW D \in SUBSET Nat, NEW occs \in [D -> Occurrence],
         NEW E \in SUBSET Nat, NEW others \in [E -> Occurrence],
         NEW seen \in Nat \cup {-1}, Queue(others, seen),
         ~ Waiting(others), Carried(occs, others),
         NEW e \in AnyEvent, e.tick \in Nat, seen < e.tick,
         NEW oid \in Nat, Triggers(e) => Younger(oid, D),
         NEW other \in Nat, Triggers(e) => Younger(other, E)
  PROVE  Carried(Moved(occs, e, oid), Moved(others, e, other))
<1> DEFINE now == e.tick
           A == PreExpire(occs, now)
           B == PreExpire(others, now)
           C == IF Triggers(e) THEN InstantiateTrigger(A, oid, "T", now) ELSE A
           G == IF Triggers(e) THEN InstantiateTrigger(B, other, "T", now) ELSE B
           answers == e.type = "Domain" /\ e.tag = ResponseTag
           H == IF answers THEN RegisterResponseToken(C, now) ELSE C
           I == IF answers THEN RegisterResponseToken(G, now) ELSE G
           X == Extended(e, D, oid)
           Y == Extended(e, E, other)
<1>1. /\ A \in [D -> Occurrence] /\ B \in [E -> Occurrence] /\ Carried(A, B)
      /\ Queue(B, now) /\ \A k \in E : B[k].trigger_tick < now /\ B[k].status \notin Conditional
  <2>1. A \in [D -> Occurrence] /\ B \in [E -> Occurrence]
    BY PreExpireType
  <2>2. Carried(A, B)
    BY PhasesCarry
  <2>3. /\ Queue(B, now) /\ \A k \in E : B[k].trigger_tick < now
        /\ \A k \in E : B[k].status \notin Conditional
    <3>1. \A k \in E : others[k].status \notin Conditional
      BY DEF Waiting
    <3> QED
      BY <3>1, ExpiredQueue
  <2> QED
    BY <2>1, <2>2, <2>3
<1> HIDE DEF A, B, now
<1>2. /\ X \in SUBSET Nat /\ Y \in SUBSET Nat
      /\ C \in [X -> Occurrence] /\ G \in [Y -> Occurrence] /\ Carried(C, G)
      /\ Queue(G, now) /\ \A k \in Y : G[k].status \notin Conditional
  <2>1. CASE Triggers(e)
    <3> DEFINE P == InstantiateTrigger(A, oid, "T", now)
               Q == InstantiateTrigger(B, other, "T", now)
    <3>1. now \in Nat
      BY DEF now
    <3>2. P \in [D \cup {oid} -> Occurrence] /\ Q \in [E \cup {other} -> Occurrence]
      BY <1>1, <3>1, TriggerType
    <3>3. Queue(Q, now) /\ \A k \in E \cup {other} : Q[k].status \notin Conditional
      <4>1. \A k \in E : k < other
        BY <2>1 DEF Younger
      <4> QED
        BY <1>1, <3>1, <4>1, TriggeredQueue
    <3>4. Carried(P, Q)
      <4>1. DOMAIN A = D /\ DOMAIN B = E
        BY <1>1
      <4>2. \A i \in D : i < oid /\ i \in Nat
        BY <2>1 DEF Younger
      <4>3. \A k \in E : k < other /\ k \in Nat
        BY <2>1 DEF Younger
      <4>4. ASSUME NEW i \in DOMAIN A PROVE ~ oid < i /\ oid # i
        <5>1. i < oid /\ i \in Nat
          BY <4>1, <4>2
        <5> QED
          BY <5>1
      <4>5. ASSUME NEW k \in DOMAIN B PROVE k < other /\ k # other
        <5>1. k < other /\ k \in Nat
          BY <4>1, <4>3
        <5> QED
          BY <5>1
      <4> QED
        BY <1>1, <4>4, <4>5, TriggerCarries
    <3>5. C = P /\ G = Q /\ X = D \cup {oid} /\ Y = E \cup {other}
      BY <2>1 DEF Extended
    <3> HIDE DEF P, Q, C, G, X, Y
    <3>6. X \in SUBSET Nat /\ Y \in SUBSET Nat
      BY <3>5
    <3> QED
      BY <3>2, <3>3, <3>4, <3>5, <3>6
  <2>2. CASE ~ Triggers(e)
    BY <1>1, <2>2 DEF Extended
  <2> QED
    BY <2>1, <2>2
<1> HIDE DEF C, G, X, Y, answers
<1>3. Carried(H, I)
  <2>1. DOMAIN C = X /\ C = [i \in X |-> C[i]]
    BY <1>2
  <2>2. Queue(C, now)
    BY <1>2, <2>1, CarriedIsQueue
  <2>3. Carried(RegisterResponseToken(C, now), RegisterResponseToken(G, now))
    BY <1>2, <2>2, RegisterCarries
  <2> QED
    BY <1>2, <2>3
<1> HIDE DEF H, I
<1>4. /\ Carried(BoundaryExpire(H, now), BoundaryExpire(I, now))
      /\ Carried(TerminalConversion(BoundaryExpire(H, now), e.kind, now),
                 TerminalConversion(BoundaryExpire(I, now), e.kind, now))
  BY <1>3, PhasesCarry
<1>5. /\ Moved(occs, e, oid) = IF e.type = "Terminal"
            THEN TerminalConversion(BoundaryExpire(H, now), e.kind, now)
            ELSE BoundaryExpire(H, now)
      /\ Moved(others, e, other) = IF e.type = "Terminal"
            THEN TerminalConversion(BoundaryExpire(I, now), e.kind, now)
            ELSE BoundaryExpire(I, now)
  BY DEF Moved, Triggers, A, B, C, G, H, I, answers, now
<1> QED
  BY <1>4, <1>5

\* A ledger that carries another has the same to say, but for duties answered.
LEMMA CarriedReadsAlike ==
  ASSUME NEW occs, NEW others, Carried(occs, others)
  PROVE  /\ (\E i \in DOMAIN occs : occs[i].status = "Breached")
              <=> (\E k \in DOMAIN others : others[k].status = "Breached")
         /\ (\A i \in DOMAIN occs : occs[i].status \in Settled)
              <=> (\A k \in DOMAIN others : others[k].status \in Settled)
<1> DEFINE D == DOMAIN occs
           E == DOMAIN others
<1>1. PICK f \in [D -> E] :
        /\ \A i \in D : others[f[i]] = occs[i]
        /\ \A k \in E : (\A i \in D : f[i] # k) => others[k].status = "Discharged"
  BY DEF Carried
<1>2. \A i \in D : f[i] \in E
  BY <1>1
<1>3. \A k \in E : others[k].status = "Discharged" \/ \E i \in D : others[k] = occs[i]
  BY <1>1
<1>4. "Discharged" \in Settled
  BY DEF Settled
<1> HIDE DEF D, E
<1>5. (\E i \in D : occs[i].status = "Breached")
        <=> (\E k \in E : others[k].status = "Breached")
  BY <1>1, <1>2, <1>3
<1>6. (\A i \in D : occs[i].status \in Settled)
        <=> (\A k \in E : others[k].status \in Settled)
  BY <1>1, <1>2, <1>3, <1>4
<1> QED
  BY <1>5, <1>6 DEF D, E

-----------------------------------------------------------------------------
(* The source while it runs.  What a window of its trace keeps is what made  *)
(* it what it is, if it was quiet where the window begins: the ledgers that  *)
(* the events of the window make of nothing end in one the source carries.   *)

NoDuties == [i \in {} |-> NewOccurrence(0, 0, "Open")]

Numbered(occs) == \E m \in Nat : occs \in [1..m -> Occurrence]

Follows(occs, e, after) ==
  \E m \in Nat : occs \in [1..m -> Occurrence] /\ after = Moved(occs, e, m + 1)

\* From `start` the events from the nth on lead to a ledger the source carries.
Traced(n, start) ==
  \E ledger :
    /\ ledger[n] = start
    /\ \A k \in n..(Len(trace) + 1) : Numbered(ledger[k])
    /\ \A k \in n..Len(trace) : Follows(ledger[k], trace[k].event, ledger[k + 1])
    /\ Carried(ledger[Len(trace) + 1], occurrences)

Said(events, n) == events[n].event.observations

\* The events of the trace were accepted, so they follow upon one another and
\* none contradicts another.
Consistent ==
  /\ \A n \in DOMAIN trace :
       /\ trace[n].event.type \in {"Domain", "Tick"}
       /\ trace[n].event.tick <= tick
       /\ \A k \in DOMAIN Said(trace, n) : Refines(Said(trace, n)[k], epistemic[k])
       /\ GuardKey \in DOMAIN Said(trace, n) => Said(trace, n)[GuardKey] = "T"
  /\ \A m, n \in DOMAIN trace : m < n =>
       /\ trace[m].event.tick < trace[n].event.tick
       /\ \A k \in DOMAIN Said(trace, m) \cap DOMAIN Said(trace, n) :
              Refines(Said(trace, m)[k], Said(trace, n)[k])

SourceInv ==
  /\ TokenInv /\ Known
  /\ trace \in Seq([event : Event, quiet : BOOLEAN])
  /\ mode = "Running" /\ phase \in {"source", "replay"} =>
       /\ Consistent
       /\ \A n \in DOMAIN trace : trace[n].quiet => Traced(n, NoDuties)

\* A running source with no live duty and no breach has only answered ones.
LEMMA QuietIsAnswered ==
  ASSUME Known, mode = "Running", Summary # "Violated"
  PROVE  \A i \in Duties : occurrences[i].status \in {"Open", "Discharged"}
<1> SUFFICES ASSUME NEW i \in Duties
             PROVE  occurrences[i].status \in {"Open", "Discharged"}
  OBVIOUS
<1>1. /\ epistemic[GuardKey] = "T" /\ SoundLedger(occurrences, "T", tick)
  BY RunningIsSound DEF Known
<1>2. occurrences[i].status \in {"Open", "Discharged", "Breached"}
  BY <1>1 DEF SoundLedger, Sound, Coherent, Duties
<1>3. occurrences[i].status # "Breached"
  BY DEF Summary, Statuses, Duties
<1> QED
  BY <1>2, <1>3

\* There a new trace may begin.
LEMMA QuietIsTraced ==
  ASSUME Known, mode = "Running", Quiet, Len(trace) \in Nat
  PROVE  Traced(Len(trace) + 1, NoDuties)
<1>1. \A i \in Duties : occurrences[i].status = "Discharged"
  BY QuietIsAnswered DEF Quiet, Live, Duties
<1>2. DOMAIN NoDuties = {} /\ NoDuties \in [1..0 -> Occurrence]
  BY DEF NoDuties
<1>3. Carried(NoDuties, occurrences)
  <2> DEFINE f == [i \in {} |-> 0]
  <2>1. f \in [DOMAIN NoDuties -> DOMAIN occurrences]
    BY <1>2
  <2> HIDE DEF f
  <2> QED
    BY <1>1, <1>2, <2>1 DEF Carried, Duties
<1> DEFINE n == Len(trace) + 1
           ledger == [k \in {n} |-> NoDuties]
<1>4. ledger[n] = NoDuties
  OBVIOUS
<1>5. Numbered(NoDuties)
  BY <1>2 DEF Numbered
<1>6. n..(Len(trace) + 1) = {n} /\ n..Len(trace) = {}
  OBVIOUS
<1> HIDE DEF ledger
<1>7. \A k \in n..(Len(trace) + 1) : Numbered(ledger[k])
  BY <1>4, <1>5, <1>6
<1> QED
  BY <1>3, <1>4, <1>6, <1>7 DEF Traced

\* A step that does not end the run accepts its event.
LEMMA RunsOn ==
  ASSUME mode = "Running", mode' = "Running", NEW e, Step(e)
  PROVE  Accept(e) /\ e.type \in {"Domain", "Tick"}
BY DEF Step, StepAfterEnd, StepStale, StepContradiction, StepDomain, StepTick, StepTerminal

\* It takes every trace one event further.
LEMMA StepTraced ==
  ASSUME SourceInv, mode = "Running", NEW e \in Event, Step(e), mode' = "Running",
         NEW q \in BOOLEAN, trace' = Append(trace, [event |-> e, quiet |-> q]),
         NEW n \in 1..(Len(trace) + 1), Traced(n, NoDuties)
  PROVE  Traced(n, NoDuties)'
<1> DEFINE last == Len(trace) + 1
<1>1. /\ Len(trace) \in Nat /\ Len(trace') = last /\ last \in Nat
      /\ \A k \in 1..Len(trace) : trace'[k] = trace[k]
      /\ trace'[last] = [event |-> e, quiet |-> q]
  BY DEF SourceInv
<1>2. PICK ledger :
        /\ ledger[n] = NoDuties
        /\ \A k \in n..last : Numbered(ledger[k])
        /\ \A k \in n..Len(trace) : Follows(ledger[k], trace[k].event, ledger[k + 1])
        /\ Carried(ledger[last], occurrences)
  BY DEF Traced
<1> HIDE DEF last
<1>3. PICK m \in Nat : ledger[last] \in [1..m -> Occurrence]
  <2>1. last \in n..last
    BY <1>1
  <2> QED
    BY <1>2, <2>1 DEF Numbered
<1>4. /\ e \in AnyEvent /\ Accept(e) /\ Known /\ TypeOK
      /\ e.tick \in Nat /\ tick \in Nat \cup {-1} /\ tick < e.tick
      /\ Queue(occurrences, tick) /\ occurrences \in [1..oid_counter -> Occurrence]
      /\ oid_counter \in Nat
  <2>1. e \in AnyEvent /\ Accept(e)
    BY EventsAreAny, RunsOn
  <2>2. TypeOK /\ ShapeOK /\ Known /\ Accounts(occurrences, consumed, tick)
    BY TypeIsShape DEF SourceInv, TokenInv
  <2> QED
    BY <2>1, <2>2, AcceptType DEF TypeOK, Accounts, Accept
<1>5. PICK oid \in Nat : /\ e.type = "Domain" => oid \in FreshOids
                         /\ occurrences' = Moved(occurrences, e, oid)
  BY <1>4, KnownMoves
<1>6. Triggers(e) => oid = oid_counter + 1
  BY <1>4, <1>5, FreshOidIsNext DEF Triggers
<1> DEFINE moved == Moved(ledger[last], e, m + 1)
           longer == [k \in n..(last + 1) |-> IF k = last + 1 THEN moved ELSE ledger[k]]
<1>7. ~ Waiting(occurrences)
  BY <1>4, RunningIsSound DEF Known, SoundLedger, Sound, Coherent, Conditional, Waiting
<1>8. Carried(moved, occurrences')
  <2>1. 1..m \in SUBSET Nat /\ 1..oid_counter \in SUBSET Nat /\ m + 1 \in Nat
    OBVIOUS
  <2>2. Younger(m + 1, 1..m)
    BY DEF Younger
  <2>3. Triggers(e) => Younger(oid, 1..oid_counter)
    BY <1>4, <1>6 DEF Younger
  <2>4. Carried(ledger[last], occurrences)
    BY <1>2
  <2> HIDE DEF moved
  <2> DEFINE D == 1..m
             E == 1..oid_counter
             own == m + 1
             before == ledger[last]
  <2>5. /\ before \in [D -> Occurrence] /\ occurrences \in [E -> Occurrence]
        /\ D \in SUBSET Nat /\ E \in SUBSET Nat /\ own \in Nat
        /\ Triggers(e) => Younger(own, D)
        /\ Triggers(e) => Younger(oid, E)
        /\ ~ Waiting(occurrences)
        /\ Carried(before, occurrences)
    BY <1>3, <1>4, <1>7, <2>1, <2>2, <2>3, <2>4
  <2> HIDE DEF D, E, own, before
  <2>6. Carried(Moved(before, e, own), Moved(occurrences, e, oid))
    BY <1>4, <2>5, MovedCarries
  <2> QED
    BY <1>5, <2>6 DEF moved, before, own
<1>9. Numbered(moved)
  <2> DEFINE D == 1..m
             own == m + 1
             before == ledger[last]
  <2>1. moved \in [Extended(e, 1..m, m + 1) -> Occurrence]
    <3>1. D \in SUBSET Nat /\ own \in Nat /\ before \in [D -> Occurrence]
      BY <1>3
    <3> HIDE DEF D, own, before, moved
    <3>2. Moved(before, e, own) \in [Extended(e, D, own) -> Occurrence]
      BY <1>4, <3>1, MovedType
    <3> QED
      BY <3>2 DEF D, own, before, moved
  <2>2. (1..m) \cup {m + 1} = 1..(m + 1)
    BY <1>3
  <2>3. Extended(e, 1..m, m + 1) \in {1..m, 1..(m + 1)}
    BY <2>2 DEF Extended
  <2> HIDE DEF moved
  <2> QED
    BY <1>3, <2>1, <2>3 DEF Numbered
<1>10. Follows(ledger[last], e, moved)
  BY <1>3 DEF Follows
<1> HIDE DEF moved
<1>11. /\ longer[last + 1] = moved
       /\ \A k \in n..last : longer[k] = ledger[k]
  BY <1>1
<1> HIDE DEF longer
<1>12. longer[n] = NoDuties
  <2>1. n \in n..last
    BY <1>1 DEF last
  <2> QED
    BY <1>2, <1>11, <2>1
<1>13. \A k \in n..(last + 1) : Numbered(longer[k])
  <2>1. \A k \in n..(last + 1) : k \in n..last \/ k = last + 1
    BY <1>1
  <2> QED
    BY <1>2, <1>9, <1>11, <2>1
<1>14. ASSUME NEW k \in n..last
       PROVE  Follows(longer[k], trace'[k].event, longer[k + 1])
  <2>1. CASE k = last
    <3>1. last \in n..last
      BY <2>1
    <3>2. longer[k] = ledger[last] /\ longer[k + 1] = moved /\ trace'[k].event = e
      BY <1>1, <1>11, <2>1, <3>1
    <3> QED
      BY <1>10, <3>2
  <2>2. CASE k # last
    <3>1. k \in n..Len(trace) /\ k \in n..last /\ k + 1 \in n..last /\ k \in 1..Len(trace)
      BY <1>1, <2>2 DEF last
    <3>2. longer[k] = ledger[k] /\ longer[k + 1] = ledger[k + 1] /\ trace'[k] = trace[k]
      BY <1>1, <1>11, <3>1
    <3> QED
      BY <1>2, <3>1, <3>2
  <2> QED
    BY <2>1, <2>2
<1>15. Carried(longer[last + 1], occurrences')
  BY <1>8, <1>11
<1> QED
  BY <1>1, <1>12, <1>13, <1>14, <1>15 DEF Traced

\* An observation is about keys that are observed.
LEMMA ObservesKeys ==
  ASSUME NEW e \in AnyEvent
  PROVE  DOMAIN e.observations \subseteq Keys
<1>1. e.observations \in Observations
  BY DEF AnyEvent
<1>2. CASE e.observations = <<>>
  BY <1>2
<1>3. CASE \E k \in Keys : e.observations \in [{k} -> K3]
  BY <1>3
<1> QED
  BY <1>1, <1>2, <1>3 DEF Observations

\* What is observed only refines what was known.
LEMMA KnowledgeRefines ==
  ASSUME NEW e \in AnyEvent, Accept(e)
  PROVE  /\ \A k \in Keys : Refines(epistemic[k], epistemic'[k])
         /\ \A k \in DOMAIN e.observations : epistemic'[k] = e.observations[k]
<1>1. /\ epistemic' = Observed(e.observations)
      /\ \A k \in DOMAIN e.observations : Refines(epistemic[k], e.observations[k])
  BY DEF Accept, Contradicts
<1> QED
  BY <1>1, ObservesKeys DEF Observed, Refines

\* The next event of a source that runs on is consistent with those before.
LEMMA StepConsistent ==
  ASSUME Known, trace \in Seq([event : Event, quiet : BOOLEAN]), Consistent,
         mode = "Running", NEW e \in Event, Step(e), mode' = "Running",
         NEW q \in BOOLEAN, trace' = Append(trace, [event |-> e, quiet |-> q])
  PROVE  Consistent'
<1> DEFINE last == Len(trace) + 1
<1>1. /\ Len(trace) \in Nat /\ DOMAIN trace = 1..Len(trace) /\ DOMAIN trace' = 1..last
      /\ \A n \in DOMAIN trace : trace'[n] = trace[n] /\ trace[n].event \in Event
      /\ trace'[last].event = e
  <2> DEFINE Row == [event : Event, quiet : BOOLEAN]
             row == [event |-> e, quiet |-> q]
  <2>1. row \in Row /\ row.event = e /\ \A r \in Row : r.event \in Event
    OBVIOUS
  <2>2. trace \in Seq(Row) /\ trace' = Append(trace, row)
    OBVIOUS
  <2> HIDE DEF Row, row
  <2>3. /\ Len(trace) \in Nat /\ DOMAIN trace = 1..Len(trace) /\ DOMAIN trace' = 1..last
        /\ \A n \in DOMAIN trace : trace'[n] = trace[n] /\ trace[n] \in Row
        /\ trace'[last] = row
    BY <2>1, <2>2
  <2> QED
    BY <2>1, <2>3
<1>2. /\ e \in AnyEvent /\ Accept(e) /\ e.type \in {"Domain", "Tick"}
      /\ tick' = e.tick /\ tick < e.tick /\ e.tick \in Nat /\ tick \in Nat \cup {-1}
      /\ epistemic[GuardKey] = "T"
  <2>1. e \in AnyEvent /\ Accept(e) /\ e.type \in {"Domain", "Tick"}
    BY EventsAreAny, RunsOn
  <2>2. ShapeOK
    BY DEF Known, IInv
  <2> QED
    BY <2>1, <2>2, AcceptType DEF Accept, ShapeOK, Known
<1>3. \A k \in Keys : Refines(epistemic[k], epistemic'[k])
  BY <1>2, KnowledgeRefines
<1>4. \A k \in DOMAIN e.observations : epistemic'[k] = e.observations[k] /\ k \in Keys
  BY <1>2, KnowledgeRefines, ObservesKeys
<1>5. \A n \in DOMAIN trace : \A k \in DOMAIN Said(trace, n) :
          Refines(Said(trace, n)[k], epistemic'[k]) /\ k \in Keys
  <2> SUFFICES ASSUME NEW n \in DOMAIN trace, NEW k \in DOMAIN Said(trace, n)
               PROVE  Refines(Said(trace, n)[k], epistemic'[k]) /\ k \in Keys
    OBVIOUS
  <2>1. k \in Keys
    BY <1>1, EventsAreAny, ObservesKeys DEF Said
  <2>2. Refines(Said(trace, n)[k], epistemic[k]) /\ Refines(epistemic[k], epistemic'[k])
    BY <1>3, <2>1 DEF Consistent
  <2> QED
    BY <2>1, <2>2 DEF Refines
<1>6. GuardKey \in DOMAIN e.observations => e.observations[GuardKey] = "T"
  BY <1>2, <1>3, <1>4, GuardAssumption DEF Refines
<1>7. \A n \in DOMAIN trace : trace[n].event.tick < e.tick
  <2> SUFFICES ASSUME NEW n \in DOMAIN trace PROVE trace[n].event.tick < e.tick
    OBVIOUS
  <2>1. trace[n].event.tick <= tick
    BY DEF Consistent
  <2>2. trace[n].event.tick \in Int
    BY <1>1, EventsAreAny DEF AnyEvent
  <2> QED
    BY <1>2, <2>1, <2>2
<1> HIDE DEF last
<1>8. \A n \in 1..last : n \in DOMAIN trace \/ n = last
  BY <1>1 DEF last
<1>9. \A n \in DOMAIN trace : n < last /\ last \notin DOMAIN trace /\ n # last
  BY <1>1 DEF last
<1>10. Said(trace', last) = e.observations /\ \A n \in DOMAIN trace :
           Said(trace', n) = Said(trace, n)
  BY <1>1 DEF Said
<1>11. \A n \in DOMAIN trace' :
         /\ trace'[n].event.type \in {"Domain", "Tick"}
         /\ trace'[n].event.tick <= tick'
         /\ \A k \in DOMAIN Said(trace', n) : Refines(Said(trace', n)[k], epistemic'[k])
         /\ GuardKey \in DOMAIN Said(trace', n) => Said(trace', n)[GuardKey] = "T"
  <2> SUFFICES ASSUME NEW n \in 1..last
               PROVE  /\ trace'[n].event.type \in {"Domain", "Tick"}
                      /\ trace'[n].event.tick <= tick'
                      /\ \A k \in DOMAIN Said(trace', n) :
                             Refines(Said(trace', n)[k], epistemic'[k])
                      /\ GuardKey \in DOMAIN Said(trace', n) => Said(trace', n)[GuardKey] = "T"
    BY <1>1
  <2>1. CASE n = last
    BY <1>1, <1>2, <1>4, <1>6, <1>10, <2>1 DEF Refines
  <2>2. CASE n \in DOMAIN trace
    <3>1. trace[n].event.tick <= tick'
      <4>1. trace[n].event.tick \in Int
        BY <1>1, <2>2, EventsAreAny DEF AnyEvent
      <4> QED
        BY <1>2, <1>7, <2>2, <4>1
    <3>2. /\ trace[n].event.type \in {"Domain", "Tick"}
          /\ GuardKey \in DOMAIN Said(trace, n) => Said(trace, n)[GuardKey] = "T"
      BY <2>2 DEF Consistent
    <3> QED
      BY <1>1, <1>5, <1>10, <2>2, <3>1, <3>2
  <2> QED
    BY <1>8, <2>1, <2>2
<1>12. \A m, n \in DOMAIN trace' : m < n =>
         /\ trace'[m].event.tick < trace'[n].event.tick
         /\ \A k \in DOMAIN Said(trace', m) \cap DOMAIN Said(trace', n) :
                Refines(Said(trace', m)[k], Said(trace', n)[k])
  <2> SUFFICES ASSUME NEW m \in 1..last, NEW n \in 1..last, m < n
               PROVE  /\ trace'[m].event.tick < trace'[n].event.tick
                      /\ \A k \in DOMAIN Said(trace', m) \cap DOMAIN Said(trace', n) :
                           Refines(Said(trace', m)[k], Said(trace', n)[k])
    BY <1>1
  <2>1. m \in DOMAIN trace
    <3>1. m # last
      BY DEF last
    <3> QED
      BY <1>8, <3>1
  <2>2. CASE n = last
    <3>1. trace'[m].event.tick < trace'[n].event.tick
      BY <1>1, <1>7, <2>1, <2>2
    <3>2. \A k \in DOMAIN Said(trace, m) \cap DOMAIN e.observations :
              Refines(Said(trace, m)[k], e.observations[k])
      BY <1>4, <1>5, <2>1
    <3> QED
      BY <1>10, <2>1, <2>2, <3>1, <3>2
  <2>3. CASE n \in DOMAIN trace
    <3>1. /\ trace[m].event.tick < trace[n].event.tick
          /\ \A k \in DOMAIN Said(trace, m) \cap DOMAIN Said(trace, n) :
                 Refines(Said(trace, m)[k], Said(trace, n)[k])
      BY <2>1, <2>3 DEF Consistent
    <3> QED
      BY <1>1, <1>10, <2>1, <2>3, <3>1
  <2> QED
    BY <1>8, <2>2, <2>3
<1> QED
  BY <1>11, <1>12 DEF Consistent

\* Every event keeps what is known of the source.
LEMMA SourceStepKeeps ==
  ASSUME SourceInv, NEW e \in SourceEvents, SourceStep(e)
  PROVE  SourceInv'
<1> DEFINE row == [event |-> e, quiet |-> Quiet]
<1>1. /\ e \in Event /\ e \in AnyEvent /\ Step(e) /\ phase = "source" /\ phase' = phase
      /\ trace' = Append(trace, row)
      /\ trace \in Seq([event : Event, quiet : BOOLEAN])
  BY SourceEventsAssumption, EventsAreAny DEF SourceStep, SourceInv
<1>2. TokenInv' /\ Known'
  BY <1>1, StepTokens, KnownSteps DEF SourceInv
<1>3. Quiet \in BOOLEAN
  BY DEF Quiet
<1>4. trace' \in Seq([event : Event, quiet : BOOLEAN])
  <2>1. row \in [event : Event, quiet : BOOLEAN]
    BY <1>1, <1>3
  <2> HIDE DEF row
  <2> QED
    BY <1>1, <2>1
<1>5. ASSUME mode' = "Running"
      PROVE  /\ Consistent'
             /\ \A n \in DOMAIN trace' : trace'[n].quiet => Traced(n, NoDuties)'
  <2>1. mode = "Running"
    <3>1. ~ StepAfterEnd(e)
      BY <1>5 DEF StepAfterEnd
    <3> QED
      BY <1>1, <3>1 DEF Step, StepStale, StepContradiction, StepDomain, StepTick,
                        StepTerminal, Accept
  <2>2. Consistent /\ \A n \in DOMAIN trace : trace[n].quiet => Traced(n, NoDuties)
    BY <1>1, <2>1 DEF SourceInv
  <2>3. Consistent'
    BY <1>1, <1>3, <1>5, <2>1, <2>2, StepConsistent DEF SourceInv
  <2>4. ASSUME NEW n \in DOMAIN trace', trace'[n].quiet
        PROVE  Traced(n, NoDuties)'
    <3>1. n \in 1..(Len(trace) + 1) /\ Len(trace) \in Nat
      BY <1>1
    <3>2. Traced(n, NoDuties)
      <4>1. CASE n = Len(trace) + 1
        <5>1. trace'[n] = row
          BY <1>1, <4>1
        <5>2. Quiet
          BY <2>4, <5>1
        <5> QED
          BY <2>1, <3>1, <4>1, <5>2, QuietIsTraced DEF SourceInv
      <4>2. CASE n # Len(trace) + 1
        <5>1. n \in DOMAIN trace /\ trace'[n] = trace[n]
          BY <1>1, <3>1, <4>2
        <5> QED
          BY <2>2, <2>4, <5>1
      <4> QED
        BY <4>1, <4>2
    <3> QED
      BY <1>1, <1>3, <1>5, <2>1, <3>1, <3>2, StepTraced
  <2> QED
    BY <2>3, <2>4
<1> QED
  BY <1>2, <1>4, <1>5 DEF SourceInv

\* Where the source does not move, what is known of it stays.
LEMMA SourceStays ==
  ASSUME SourceInv, UNCHANGED <<vars, trace>>, phase \in {"source", "replay"}
  PROVE  SourceInv'
<1>1. UNCHANGED <<mode, terminal_kind, fault, tick, epistemic, occurrences,
                  oid_counter, consumed, diagnostic, trace>>
  BY DEF vars
<1>2. TypeOK'
  BY <1>1 DEF SourceInv, TokenInv, TypeOK
<1>3. IInv'
  BY <1>1 DEF SourceInv, Known, IInv, ShapeOK, Duties, LiveWithinDeadline, GuardCoherence,
              BreachTimes
<1>4. TokenInv' /\ Known'
  BY <1>1, <1>2, <1>3 DEF SourceInv, Known, TokenInv
<1>5. Consistent => Consistent'
  BY <1>1 DEF Consistent
<1>6. \A n : Traced(n, NoDuties) => Traced(n, NoDuties)'
  BY <1>1 DEF Traced
<1> QED
  BY <1>1, <1>4, <1>5, <1>6 DEF SourceInv

-----------------------------------------------------------------------------
(* The restored monitor, from the card to the end of the continuation.      *)

\* Before anything has happened to it.
Fresh ==
  /\ r_mode = "Running" /\ r_terminal_kind = "None" /\ r_fault = "None"
  /\ r_tick = -1 /\ r_occurrences = NoDuties /\ r_oid_counter = 0
  /\ r_consumed = {} /\ r_diagnostic = "None"

\* The events of the trace from the pth on are still to be replayed.
Rest(p) ==
  /\ p \in 1..(Len(trace) + 1)
  /\ pending \in Seq(Event)
  /\ Len(pending) = Len(trace) + 1 - p
  /\ \A n \in 1..Len(pending) : pending[n] = trace[p + n - 1].event
  /\ \A n \in p..Len(trace) : trace[n].event.tick <= tick

\* They will be accepted.
Ready(p) ==
  /\ r_mode = "Running"
  /\ \A n \in p..Len(trace) :
       /\ r_tick < trace[n].event.tick
       /\ \A k \in DOMAIN Said(trace, n) : Refines(r_epistemic[k], Said(trace, n)[k])

\* Between the cut and the end of the restore.
Opened ==
  /\ card.name = "open" /\ pending = <<>> /\ Fresh
  /\ ValidTable(OpenTable)
  /\ sound <=> mode = "Running" /\ Summary # "Violated"

Windowed ==
  /\ card.name = "tail"
  /\ \E p \in Nat : /\ Rest(p)
                    /\ mode = "Running" => Ready(p)
                    /\ sound => mode = "Running" /\ Traced(p, r_occurrences)

Replaying ==
  /\ Second!Known /\ Second!TokenInv
  /\ r_tick <= tick
  /\ Opened \/ Windowed

\* During the continuation.
Alike ==
  /\ mode = r_mode /\ terminal_kind = r_terminal_kind /\ tick = r_tick
  /\ Carried(r_occurrences, occurrences)
  /\ attempted.source = attempted.restored

Driven ==
  /\ Second!Known /\ Accounts(r_occurrences, r_consumed, r_tick)
  /\ sound => Alike
  /\ card.name = "open" /\ ~ sound /\ word = <<>> => Observation # RestoredObservation

CapsuleInv ==
  /\ SourceInv
  /\ phase \in {"source", "replay", "live", "refused"}
  /\ phase # "live" => word = <<>> /\ attempted.source = "None" /\ attempted.restored = "None"
  /\ phase = "source" => Fresh /\ r_epistemic = [k \in Keys |-> "U"]
  /\ phase = "replay" => Replaying
  /\ phase = "refused" => mode # "Running"
  /\ phase = "live" => Driven

\* The source starts with nothing but its guard.
LEMMA SourceStarts == CInit => SourceInv
<1> SUFFICES ASSUME CInit PROVE SourceInv
  OBVIOUS
<1>1. DOMAIN occurrences = {} /\ Duties = {} /\ "T" \in K3 /\ "U" \in K3 /\ 1..0 = {}
  BY DEF CInit, Duties, K3
<1>2. TypeOK
  BY <1>1 DEF CInit, TypeOK
<1>3. TokenInv
  BY <1>1, <1>2, EmptyTokens DEF CInit
<1>4. Known
  <2>1. {occurrences[i].response : i \in {j \in Duties : occurrences[j].response # NoTick}} = {}
    BY <1>1
  <2>2. Spent(occurrences, consumed, tick)
    BY <1>1, <2>1 DEF Spent, Holding, CInit, Duties
  <2> QED
    BY <1>3, <2>2, GuardAssumption DEF TokenInv, Known, CInit
<1>5. trace = <<>> /\ DOMAIN trace = {}
  BY DEF CInit
<1> QED
  BY <1>3, <1>4, <1>5 DEF SourceInv, Consistent

\* So does the restored monitor, which knows nothing.
LEMMA CapsuleStarts == CInit => CapsuleInv
<1> SUFFICES ASSUME CInit PROVE CapsuleInv
  OBVIOUS
<1>1. Restored!Init
  BY DEF CInit
<1>2. r_occurrences = NoDuties
  BY <1>1 DEF Restored!Init, Restored!NewOccurrence, NewOccurrence, NoDuties,
              Restored!NoTick, NoTick
<1>3. Fresh /\ r_epistemic = [k \in Keys |-> "U"]
  BY <1>1, <1>2 DEF Restored!Init, Fresh
<1>4. /\ phase = "source" /\ word = <<>>
      /\ attempted.source = "None" /\ attempted.restored = "None"
  BY DEF CInit
<1> QED
  BY <1>3, <1>4, SourceStarts DEF CapsuleInv

\* What is finite is.
LEMMA SameFinite == \A S : Second!IsFiniteSet(S) <=> IsFiniteSet(S)
BY DEF IsFiniteSet, Second!IsFiniteSet

\* A monitor about to be restored from a card knows its guard and is sound.
LEMMA CutIsFresh ==
  ASSUME CapsuleInv, NEW name, NEW events, NEW table, NEW condition,
         Cut(name, events, table, condition)
  PROVE  /\ Second!Known' /\ Second!TokenInv' /\ Fresh'
         /\ r_epistemic' = [k \in Keys |-> IF k = GuardKey THEN "T" ELSE "U"]
         /\ r_tick' <= tick'
<1>1. /\ Fresh /\ r_epistemic = [k \in Keys |-> "U"] /\ epistemic[GuardKey] = "T"
      /\ tick \in Nat \cup {-1}
  BY DEF CapsuleInv, Cut, SourceInv, Known, TokenInv, TypeOK
<1>2. r_epistemic' = [k \in Keys |-> IF k = GuardKey THEN "T" ELSE "U"]
  BY <1>1, GuardAssumption DEF Cut
<1>3. Fresh' /\ UNCHANGED vars
  BY <1>1 DEF Cut, Fresh
<1>4. Second!Known' /\ Second!TokenInv'
  <2>1. r_epistemic' \in [Keys -> Second!K3] /\ r_epistemic'[GuardKey] = "T"
    BY <1>2, GuardAssumption DEF Second!K3
  <2>2. /\ {} \in SUBSET Nat /\ Second!IsFiniteSet({})
        /\ r_occurrences' \in [{} -> Second!Occurrence]
        /\ r_mode' = "Running" /\ r_terminal_kind' = "None" /\ r_fault' = "None"
        /\ r_diagnostic' = "None" /\ r_tick' \in Nat \cup {-1} /\ r_consumed' = {}
        /\ r_oid_counter' \in Nat /\ r_oid_counter' = 0
    BY <1>3, SameFinite, FS_EmptySet DEF Fresh, NoDuties
  <2>3. \A i \in {} : \E t, d \in Nat :
          t <= r_tick' /\ r_tick' < d /\ r_occurrences'[i] = Second!NewOccurrence(t, d, "Open")
    OBVIOUS
  <2> QED
    BY <2>1, <2>2, <2>3, Second!OpenStarts, BoundAssumption, GuardAssumption, TicksAssumption
    DEF Second!OpenStarts
<1>5. r_tick' <= tick'
  BY <1>1, <1>3 DEF Fresh, vars
<1> QED
  BY <1>2, <1>3, <1>4, <1>5

\* What a cut does to what is not the restored monitor's.
LEMMA CutStays ==
  ASSUME CapsuleInv, NEW name, NEW events, NEW table, NEW condition,
         Cut(name, events, table, condition)
  PROVE  /\ SourceInv' /\ UNCHANGED <<vars, trace>> /\ phase' \in {"replay", "refused"}
         /\ word' = <<>> /\ attempted'.source = "None" /\ attempted'.restored = "None"
         /\ phase' = "replay" => ValidRetained(events) /\ ValidTable(table)
         /\ phase' = "refused" => ~ (ValidRetained(events) /\ ValidTable(table))
         /\ card'.name = name /\ pending' = events /\ sound' = condition
         /\ (phase' = "replay" => Replaying') /\ (phase' = "refused" => mode' # "Running")
              => CapsuleInv'
<1>1. phase = "source" /\ SourceInv
  BY DEF Cut, CapsuleInv
<1>2. UNCHANGED <<vars, trace, word, attempted>>
  BY DEF Cut
<1>3. SourceInv'
  BY <1>1, <1>2, SourceStays
<1>4. phase' \in {"replay", "refused"}
  BY DEF Cut
<1>5. word' = <<>> /\ attempted'.source = "None" /\ attempted'.restored = "None"
  BY <1>1, <1>2 DEF CapsuleInv
<1>6. /\ phase' = "replay" => ValidRetained(events) /\ ValidTable(table)
      /\ phase' = "refused" => ~ (ValidRetained(events) /\ ValidTable(table))
      /\ card'.name = name /\ pending' = events /\ sound' = condition
  BY DEF Cut
<1>7. (phase' = "replay" => Replaying') /\ (phase' = "refused" => mode' # "Running")
        => CapsuleInv'
  BY <1>3, <1>4, <1>5 DEF CapsuleInv
<1> QED
  BY <1>2, <1>3, <1>4, <1>5, <1>6, <1>7

\* The open duties of a running source are a table that is let in.
LEMMA OpenTableIsValid ==
  ASSUME SourceInv, mode = "Running"
  PROVE  ValidTable(OpenTable)
<1>1. Queue(occurrences, tick) /\ epistemic[GuardKey] = "T" /\ IInv
  BY DEF SourceInv, TokenInv, Accounts, Known
<1>2. fault = "None"
  BY <1>1 DEF IInv, ShapeOK
<1>3. \A i \in OpenTable : occurrences[i].deadline > tick
  BY <1>1, <1>2 DEF IInv, LiveWithinDeadline, OpenTable, Duties
<1>4. \A i \in OpenTable : /\ occurrences[i].trigger_tick <= tick
                           /\ occurrences[i].deadline = occurrences[i].trigger_tick + Bound
  BY <1>1 DEF Queue, OpenTable
<1> QED
  BY <1>1, <1>3, <1>4 DEF ValidTable

\* An open-state card keeps the capsule's invariant.
LEMMA CutOpenKeeps ==
  ASSUME CapsuleInv, CutOpenCard
  PROVE  CapsuleInv'
<1> DEFINE condition == mode = "Running" /\ Summary # "Violated"
<1>1. Cut("open", <<>>, OpenTable, condition)
  BY DEF CutOpenCard
<1>2. /\ Second!Known' /\ Second!TokenInv' /\ Fresh' /\ r_tick' <= tick'
  BY <1>1, CutIsFresh
<1>3. /\ SourceInv' /\ UNCHANGED <<vars, trace>> /\ phase' \in {"replay", "refused"}
      /\ phase' = "replay" => ValidRetained(<<>>) /\ ValidTable(OpenTable)
      /\ phase' = "refused" => ~ (ValidRetained(<<>>) /\ ValidTable(OpenTable))
      /\ card'.name = "open" /\ pending' = <<>> /\ sound' = condition
      /\ (phase' = "replay" => Replaying') /\ (phase' = "refused" => mode' # "Running")
           => CapsuleInv'
  BY <1>1, CutStays
<1>4. ASSUME phase' = "replay" PROVE Replaying'
  <2>1. ValidTable(OpenTable)'
    BY <1>3, <1>4 DEF ValidTable, OpenTable, vars
  <2>2. sound' <=> mode' = "Running" /\ Summary' # "Violated"
    BY <1>3 DEF Summary, Statuses, vars
  <2> QED
    BY <1>2, <1>3, <2>1, <2>2 DEF Replaying, Opened
<1>5. ASSUME phase' = "refused" PROVE mode' # "Running"
  <2>1. ValidRetained(<<>>)
    BY DEF ValidRetained
  <2>2. ~ ValidTable(OpenTable)
    BY <1>3, <1>5, <2>1
  <2>3. SourceInv
    BY DEF CapsuleInv
  <2>4. mode # "Running"
    BY <2>2, <2>3, OpenTableIsValid
  <2> QED
    BY <1>3, <2>4 DEF vars
<1> QED
  BY <1>3, <1>4, <1>5

\* A window is the trace from some event on.
LEMMA WindowIsTail ==
  ASSUME NEW Row, trace \in Seq(Row), NEW budget \in Nat
  PROVE  \E p \in 1..(Len(trace) + 1) :
           /\ Window(budget) \in Seq(Row)
           /\ Len(Window(budget)) = Len(trace) + 1 - p
           /\ \A n \in 1..Len(Window(budget)) : Window(budget)[n] = trace[p + n - 1]
<1>1. Len(trace) \in Nat /\ DOMAIN trace = 1..Len(trace)
  OBVIOUS
<1>2. CASE budget >= Len(trace)
  <2>1. Window(budget) = trace
    BY <1>2 DEF Window
  <2>2. 1 \in 1..(Len(trace) + 1) /\ Len(trace) = Len(trace) + 1 - 1
    BY <1>1
  <2>3. \A n \in 1..Len(trace) : n = 1 + n - 1
    BY <1>1
  <2> QED
    BY <2>1, <2>2, <2>3
<1>3. CASE ~ budget >= Len(trace)
  <2> DEFINE p == Len(trace) - budget + 1
             kept == SubSeq(trace, p, Len(trace))
  <2>1. Window(budget) = kept
    BY <1>3 DEF Window
  <2>2. p \in 1..(Len(trace) + 1)
    BY <1>1, <1>3
  <2>3. /\ kept \in Seq(Row)
        /\ Len(kept) = Len(trace) + 1 - p
        /\ \A n \in 1..Len(kept) : kept[n] = trace[p + n - 1]
    <3>1. \A i \in p..Len(trace) : trace[i] \in Row
      BY <1>1, <2>2
    <3>2. p \in Int /\ Len(trace) \in Int /\ p <= Len(trace) + 1
      BY <1>1, <2>2
    <3> HIDE DEF p
    <3>3. /\ kept \in Seq(Row)
          /\ Len(kept) = IF p <= Len(trace) THEN Len(trace) - p + 1 ELSE 0
          /\ \A i \in 1..(Len(trace) - p + 1) : kept[i] = trace[p + i - 1]
      BY <1>1, <3>1, <3>2, SubSeqProperties
    <3>4. Len(kept) = Len(trace) - p + 1 /\ Len(trace) - p + 1 = Len(trace) + 1 - p
      BY <3>2, <3>3
    <3> QED
      BY <3>3, <3>4
  <2> QED
    BY <2>1, <2>2, <2>3
<1> QED
  BY <1>2, <1>3

\* A tail card keeps it too: the window of a source that is running is let in
\* and will be accepted, and one that begins where the source was quiet leads
\* to what the source has become.
LEMMA CutTailKeeps ==
  ASSUME CapsuleInv, NEW budget \in Budgets, CutTailCard(budget)
  PROVE  CapsuleInv'
<1> DEFINE Row == [event : Event, quiet : BOOLEAN]
           kept == Window(budget)
           events == [n \in DOMAIN kept |-> kept[n].event]
           condition == mode = "Running" /\ (IF kept = <<>> THEN Quiet ELSE kept[1].quiet)
<1>1. Cut("tail", events, {}, condition)
  BY DEF CutTailCard
<1>2. /\ Second!Known' /\ Second!TokenInv' /\ Fresh' /\ r_tick' <= tick'
      /\ r_epistemic' = [k \in Keys |-> IF k = GuardKey THEN "T" ELSE "U"]
  BY <1>1, CutIsFresh
<1>3. /\ SourceInv' /\ UNCHANGED <<vars, trace>> /\ phase' \in {"replay", "refused"}
      /\ phase' = "replay" => ValidRetained(events) /\ ValidTable({})
      /\ phase' = "refused" => ~ (ValidRetained(events) /\ ValidTable({}))
      /\ card'.name = "tail" /\ pending' = events /\ sound' = condition
      /\ (phase' = "replay" => Replaying') /\ (phase' = "refused" => mode' # "Running")
           => CapsuleInv'
  BY <1>1, CutStays
<1>4. /\ SourceInv /\ phase = "source" /\ trace \in Seq(Row) /\ Known
      /\ mode = "Running" =>
           Consistent /\ \A n \in DOMAIN trace : trace[n].quiet => Traced(n, NoDuties)
  BY <1>1 DEF CapsuleInv, Cut, SourceInv
<1>5. \A r \in Row : r.event \in Event
  OBVIOUS
<1> HIDE DEF Row
<1>6. Len(trace) \in Nat /\ DOMAIN trace = 1..Len(trace) /\ \A n \in DOMAIN trace : trace[n] \in Row
  BY <1>4
<1>7. PICK p \in 1..(Len(trace) + 1) :
        /\ kept \in Seq(Row)
        /\ Len(kept) = Len(trace) + 1 - p
        /\ \A n \in 1..Len(kept) : kept[n] = trace[p + n - 1]
  BY <1>4, WindowIsTail, BudgetsAssumption
<1>8. DOMAIN kept = 1..Len(kept) /\ Len(kept) \in Nat /\ \A n \in 1..Len(kept) : kept[n] \in Row
  BY <1>7
<1> HIDE DEF kept
<1>9. /\ events \in Seq(Event) /\ Len(events) = Len(kept) /\ DOMAIN events = 1..Len(kept)
      /\ \A n \in 1..Len(kept) : events[n] = trace[p + n - 1].event /\ p + n - 1 \in DOMAIN trace
  <2>1. \A n \in 1..Len(kept) : kept[n].event \in Event
    BY <1>5, <1>8
  <2>2. events = [n \in 1..Len(kept) |-> kept[n].event]
    BY <1>8
  <2>3. events \in Seq(Event) /\ Len(events) = Len(kept) /\ DOMAIN events = 1..Len(kept)
    BY <1>8, <2>1, <2>2
  <2>4. \A n \in 1..Len(kept) : p + n - 1 \in 1..Len(trace)
    BY <1>6, <1>7
  <2>5. \A n \in 1..Len(kept) : events[n] = kept[n].event
    BY <2>2
  <2> QED
    BY <1>6, <1>7, <2>3, <2>4, <2>5
<1> HIDE DEF events
<1>10. \A n \in DOMAIN trace : trace[n].event.tick \in Nat /\ trace[n].event \in AnyEvent
  <2> SUFFICES ASSUME NEW n \in DOMAIN trace
               PROVE  trace[n].event.tick \in Nat /\ trace[n].event \in AnyEvent
    OBVIOUS
  <2>1. trace[n].event \in Event
    BY <1>5, <1>6
  <2> QED
    BY <2>1, EventsAreAny, TicksAssumption DEF Event, DomainEvent, TickEvent, TerminalEvent
<1>11. ASSUME phase' = "refused" PROVE mode' # "Running"
  <2> SUFFICES ASSUME mode = "Running" PROVE FALSE
    BY <1>3 DEF vars
  <2>1. ValidTable({})
    BY DEF ValidTable
  <2>2. Consistent
    BY <1>4
  <2>3. ASSUME NEW n \in 1..Len(kept)
        PROVE  /\ events[n].type \in {"Domain", "Tick"}
               /\ events[n].tick <= tick
               /\ n > 1 => events[n].tick > events[n - 1].tick
    <3>1. events[n].type \in {"Domain", "Tick"} /\ events[n].tick <= tick
      BY <1>9, <2>2 DEF Consistent
    <3>2. ASSUME n > 1 PROVE events[n].tick > events[n - 1].tick
      <4>1. n - 1 \in 1..Len(kept) /\ p + (n - 1) - 1 < p + n - 1
        BY <1>7, <1>8, <2>3, <3>2
      <4>2. /\ events[n] = trace[p + n - 1].event /\ p + n - 1 \in DOMAIN trace
            /\ events[n - 1] = trace[p + (n - 1) - 1].event
            /\ p + (n - 1) - 1 \in DOMAIN trace
        BY <1>9, <4>1
      <4> DEFINE a == p + (n - 1) - 1
                 b == p + n - 1
      <4>3. a \in DOMAIN trace /\ b \in DOMAIN trace /\ a < b
        BY <4>1, <4>2
      <4> HIDE DEF a, b
      <4>4. trace[a].event.tick < trace[b].event.tick
        BY <2>2, <4>3 DEF Consistent
      <4>5. trace[a].event.tick \in Nat /\ trace[b].event.tick \in Nat
        BY <1>10, <4>3
      <4>6. events[n] = trace[b].event /\ events[n - 1] = trace[a].event
        BY <4>2 DEF a, b
      <4> QED
        BY <4>4, <4>5, <4>6
    <3> QED
      BY <3>1, <3>2
  <2>4. ValidRetained(events)
    BY <1>9, <2>3 DEF ValidRetained
  <2> QED
    BY <1>3, <1>11, <2>1, <2>4
<1>12. ASSUME phase' = "replay" PROVE Replaying'
  <2>1. Rest(p)'
    <3>1. ValidRetained(events)
      BY <1>3, <1>12
    <3>2. ASSUME NEW m \in p..Len(trace) PROVE trace[m].event.tick <= tick
      <4>1. m - p + 1 \in 1..Len(kept) /\ p + (m - p + 1) - 1 = m
        BY <1>6, <1>7
      <4>2. events[m - p + 1] = trace[m].event /\ m - p + 1 \in DOMAIN events
        BY <1>9, <4>1
      <4> QED
        BY <3>1, <4>2 DEF ValidRetained
    <3>3. /\ p \in 1..(Len(trace) + 1) /\ events \in Seq(Event)
          /\ Len(events) = Len(trace) + 1 - p
          /\ \A n \in 1..Len(events) : events[n] = trace[p + n - 1].event
      BY <1>7, <1>9
    <3>4. pending' = events /\ trace' = trace /\ tick' = tick
      BY <1>3 DEF vars
    <3> QED
      BY <3>2, <3>3, <3>4 DEF Rest
  <2>2. mode' = "Running" => Ready(p)'
    <3> SUFFICES ASSUME mode = "Running" PROVE Ready(p)'
      BY <1>3 DEF vars
    <3>1. Consistent
      BY <1>4
    <3>2. ASSUME NEW n \in p..Len(trace)
          PROVE  /\ r_tick' < trace[n].event.tick
                 /\ \A k \in DOMAIN Said(trace, n) : Refines(r_epistemic'[k], Said(trace, n)[k])
      <4>1. n \in DOMAIN trace
        BY <1>6, <1>7
      <4>2. r_tick' < trace[n].event.tick
        BY <1>2, <1>10, <4>1 DEF Fresh
      <4>3. DOMAIN Said(trace, n) \subseteq Keys
        BY <1>10, <4>1, ObservesKeys DEF Said
      <4>4. GuardKey \in DOMAIN Said(trace, n) => Said(trace, n)[GuardKey] = "T"
        BY <3>1, <4>1 DEF Consistent
      <4>5. \A k \in DOMAIN Said(trace, n) : Refines(r_epistemic'[k], Said(trace, n)[k])
        BY <1>2, <4>3, <4>4 DEF Refines
      <4> QED
        BY <4>2, <4>5
    <3>3. r_mode' = "Running" /\ trace' = trace
      BY <1>2, <1>3 DEF Fresh
    <3> QED
      BY <3>2, <3>3 DEF Ready
  <2>3. sound' => mode' = "Running" /\ Traced(p, r_occurrences)'
    <3> SUFFICES ASSUME condition PROVE mode' = "Running" /\ Traced(p, r_occurrences)'
      BY <1>3
    <3>1. mode = "Running" /\ mode' = mode /\ trace' = trace /\ occurrences' = occurrences
          /\ r_occurrences' = NoDuties
      BY <1>2, <1>3 DEF vars, Fresh
    <3>2. Traced(p, NoDuties)
      <4>1. CASE kept = <<>>
        <5>1. Quiet /\ p = Len(trace) + 1
          BY <1>6, <1>7, <4>1
        <5> QED
          BY <1>4, <1>6, <3>1, <5>1, QuietIsTraced
      <4>2. CASE kept # <<>>
        <5>1. kept[1].quiet
          BY <4>2
        <5>2. 1 \in 1..Len(kept)
          BY <1>7, <1>8, <4>2
        <5>3. kept[1] = trace[p] /\ p \in DOMAIN trace
          <6>1. p + 1 - 1 = p /\ p \in 1..Len(trace)
            BY <1>6, <1>7, <5>2
          <6> QED
            BY <1>6, <1>7, <5>2, <6>1
        <5> QED
          BY <1>4, <3>1, <5>1, <5>3
      <4> QED
        BY <4>1, <4>2
    <3> QED
      BY <3>1, <3>2 DEF Traced
  <2>4. p \in Nat
    BY <1>7
  <2> QED
    BY <1>2, <1>3, <2>1, <2>2, <2>3, <2>4 DEF Replaying, Windowed
<1> QED
  BY <1>3, <1>11, <1>12

-----------------------------------------------------------------------------
(* The replay, one event at a time.                                         *)

\* The restored monitor accepts the next event if it is ready for the rest, and
\* is ready for what is left.
LEMMA ReplayIsReady ==
  ASSUME SourceInv, phase = "replay", mode = "Running", Second!Known, NEW p \in Nat,
         Rest(p), Ready(p), p \in 1..Len(trace), NEW e, e = trace[p].event,
         e \in AnyEvent, Restored!Step(e), UNCHANGED <<vars, trace>>
  PROVE  Second!Accept(e) /\ e.type \in {"Domain", "Tick"} /\ Ready(p + 1)'
<1>1. /\ Consistent /\ Len(trace) \in Nat /\ DOMAIN trace = 1..Len(trace)
      /\ \A n \in DOMAIN trace : trace[n].event \in AnyEvent
  <2> DEFINE Row == [event : Event, quiet : BOOLEAN]
  <2>1. Consistent /\ trace \in Seq(Row)
    BY DEF SourceInv
  <2>2. \A r \in Row : r.event \in AnyEvent
    BY EventsAreAny
  <2> HIDE DEF Row
  <2>3. /\ Len(trace) \in Nat /\ DOMAIN trace = 1..Len(trace)
        /\ \A n \in DOMAIN trace : trace[n] \in Row
    BY <2>1
  <2> QED
    BY <2>1, <2>2, <2>3
<1>2. p \in DOMAIN trace /\ p \in p..Len(trace)
  BY <1>1
<1>3. /\ r_mode = "Running" /\ r_tick < e.tick /\ e.type \in {"Domain", "Tick"}
      /\ \A k \in DOMAIN e.observations : Refines(r_epistemic[k], e.observations[k])
  BY <1>1, <1>2 DEF Ready, Consistent, Said
<1>4. e.tick \in Int /\ r_tick \in Int /\ ~ e.tick <= r_tick
  <2>1. e.tick \in Int
    BY DEF AnyEvent
  <2>2. r_tick \in Nat \cup {-1}
    BY DEF Second!Known, Second!IInv, Second!ShapeOK
  <2> QED
    BY <1>3, <2>1, <2>2
<1>5. ~ Second!Contradicts(e.observations)
  BY <1>3 DEF Second!Contradicts, Second!Refines, Refines
<1>6. Second!Accept(e)
  <2>1. Second!Step(e)
    BY SameStep
  <2> QED
    BY <1>3, <1>4, <1>5, <2>1
    DEF Second!Step, Second!StepAfterEnd, Second!StepStale, Second!StepContradiction,
        Second!StepDomain, Second!StepTick, Second!StepTerminal
<1>7. /\ r_tick' = e.tick
      /\ r_epistemic' = [k \in Keys |-> IF k \in DOMAIN e.observations
                                        THEN e.observations[k] ELSE r_epistemic[k]]
  BY <1>6 DEF Second!Accept, Second!Observed
<1>8. r_mode' = "Running"
  BY <1>3, <1>6, RestoredMoves
<1>9. ASSUME NEW n \in (p + 1)..Len(trace)
      PROVE  /\ r_tick' < trace[n].event.tick
             /\ \A k \in DOMAIN Said(trace, n) : Refines(r_epistemic'[k], Said(trace, n)[k])
  <2>1. n \in DOMAIN trace /\ p < n /\ n \in p..Len(trace)
    BY <1>1, <1>2
  <2>2. r_tick' < trace[n].event.tick
    BY <1>1, <1>2, <1>7, <2>1 DEF Consistent
  <2>3. ASSUME NEW k \in DOMAIN Said(trace, n)
        PROVE  Refines(r_epistemic'[k], Said(trace, n)[k])
    <3>1. k \in Keys
      BY <1>1, <2>1, ObservesKeys DEF Said
    <3>2. CASE k \in DOMAIN e.observations
      <4>1. k \in DOMAIN Said(trace, p) \cap DOMAIN Said(trace, n)
        BY <2>3, <3>2 DEF Said
      <4>2. Refines(Said(trace, p)[k], Said(trace, n)[k])
        BY <1>1, <1>2, <2>1, <4>1 DEF Consistent
      <4> QED
        BY <1>7, <3>1, <3>2, <4>2 DEF Said
    <3>3. CASE k \notin DOMAIN e.observations
      <4>1. Refines(r_epistemic[k], Said(trace, n)[k])
        BY <2>1 DEF Ready
      <4> QED
        BY <1>7, <3>1, <3>3, <4>1
    <3> QED
      BY <3>2, <3>3
  <2> QED
    BY <2>2, <2>3
<1>10. Ready(p + 1)'
  <2>1. trace' = trace
    OBVIOUS
  <2> QED
    BY <1>8, <1>9, <2>1 DEF Ready
<1> QED
  BY <1>3, <1>6, <1>10

\* What led from its ledger to one the source carries leads there from the next.
LEMMA ReplayIsTraced ==
  ASSUME Second!Known, Second!TokenInv, NEW p \in Nat, p <= Len(trace),
         Len(trace) \in Nat, Traced(p, r_occurrences), NEW e, e = trace[p].event,
         e \in AnyEvent, Second!Accept(e), Restored!Step(e), UNCHANGED <<vars, trace>>
  PROVE  Traced(p + 1, r_occurrences)'
<1>1. PICK ledger :
        /\ ledger[p] = r_occurrences
        /\ \A k \in p..(Len(trace) + 1) : Numbered(ledger[k])
        /\ \A k \in p..Len(trace) : Follows(ledger[k], trace[k].event, ledger[k + 1])
        /\ Carried(ledger[Len(trace) + 1], occurrences)
  BY DEF Traced
<1>2. PICK oid \in Nat : /\ e.type = "Domain" => oid \in Second!FreshOids
                         /\ r_occurrences' = Moved(r_occurrences, e, oid)
  BY RestoredMoves
<1>3. Second!TypeOK /\ r_oid_counter \in Nat /\ r_occurrences \in [1..r_oid_counter -> Occurrence]
  BY SameRecords DEF Second!TokenInv, Second!TypeOK
<1>4. Triggers(e) => oid = r_oid_counter + 1
  BY <1>2, <1>3, Second!FreshOidIsNext, BoundAssumption, GuardAssumption, TicksAssumption
  DEF Second!FreshOidIsNext, Triggers
<1>5. PICK m \in Nat : /\ r_occurrences \in [1..m -> Occurrence]
                       /\ ledger[p + 1] = Moved(r_occurrences, e, m + 1)
  BY <1>1 DEF Follows
<1>6. m = r_oid_counter
  <2>1. 1..m = 1..r_oid_counter
    BY <1>3, <1>5
  <2> QED
    BY <1>3, <2>1
<1>7. Moved(r_occurrences, e, oid) = Moved(r_occurrences, e, m + 1)
  BY <1>4, <1>6 DEF Moved, Triggers
<1>8. r_occurrences' = ledger[p + 1]
  BY <1>2, <1>5, <1>7
<1>9. /\ \A k \in (p + 1)..(Len(trace) + 1) : k \in p..(Len(trace) + 1)
      /\ \A k \in (p + 1)..Len(trace) : k \in p..Len(trace)
  OBVIOUS
<1>10. Traced(p + 1, r_occurrences')
  BY <1>1, <1>8, <1>9 DEF Traced
<1>11. UNCHANGED <<trace, occurrences>>
  BY DEF vars
<1> QED
  BY <1>10, <1>11 DEF Traced

\* Each event replayed keeps the capsule's invariant.
LEMMA ReplayKeeps ==
  ASSUME CapsuleInv, Replay
  PROVE  CapsuleInv'
<1> DEFINE e == Head(pending)
<1>1. /\ phase = "replay" /\ pending # <<>> /\ Restored!Step(e) /\ pending' = Tail(pending)
      /\ UNCHANGED <<vars, trace, phase, card, sound, word, attempted>>
  BY DEF Replay
<1>2. SourceInv /\ Replaying /\ word = <<>> /\ attempted.source = "None"
      /\ attempted.restored = "None"
  BY <1>1 DEF CapsuleInv
<1>3. PICK p \in Nat : /\ Rest(p) /\ card.name = "tail"
                       /\ mode = "Running" => Ready(p)
                       /\ sound => mode = "Running" /\ Traced(p, r_occurrences)
  BY <1>1, <1>2 DEF Replaying, Opened, Windowed
<1>4. Len(trace) \in Nat /\ DOMAIN trace = 1..Len(trace)
  BY <1>2 DEF SourceInv
<1>5. /\ pending \in Seq(Event) /\ Len(pending) = Len(trace) + 1 - p /\ Len(pending) \in Nat
      /\ p \in 1..(Len(trace) + 1) /\ Len(pending) # 0
      /\ \A n \in 1..Len(pending) : pending[n] = trace[p + n - 1].event
      /\ \A n \in p..Len(trace) : trace[n].event.tick <= tick
  BY <1>1, <1>3 DEF Rest
<1>6. p \in 1..Len(trace) /\ 1 \in 1..Len(pending) /\ p + 1 - 1 = p
  BY <1>4, <1>5
<1>7. e = trace[p].event /\ e \in Event /\ e \in AnyEvent
  BY <1>1, <1>5, <1>6, EventsAreAny
<1> HIDE DEF e
<1>8. Second!Known' /\ Second!TokenInv'
  BY <1>1, <1>2, <1>7, RestoredKeeps DEF Replaying
<1>9. r_tick' <= tick'
  <2>1. r_tick' \in {r_tick, e.tick}
    BY <1>1 DEF Restored!Step, Restored!StepAfterEnd, Restored!StepStale,
                Restored!StepContradiction, Restored!StepDomain, Restored!StepTick,
                Restored!StepTerminal, Restored!Accept
  <2>2. e.tick <= tick /\ r_tick <= tick /\ tick' = tick
    <3>1. p \in p..Len(trace)
      BY <1>4, <1>6
    <3> QED
      BY <1>1, <1>2, <1>5, <1>7, <3>1 DEF Replaying, vars
  <2> QED
    BY <2>1, <2>2
<1>10. Rest(p + 1)'
  <2>1. /\ Tail(pending) \in Seq(Event) /\ Len(Tail(pending)) = Len(pending) - 1
        /\ \A n \in 1..Len(Tail(pending)) : Tail(pending)[n] = pending[n + 1]
    BY <1>1, <1>5, HeadTailProperties
  <2> DEFINE rest == Tail(pending)
  <2> HIDE DEF rest
  <2>2. /\ rest \in Seq(Event) /\ Len(rest) = Len(trace) + 1 - (p + 1)
        /\ \A n \in 1..Len(rest) : rest[n] = pending[n + 1]
    BY <1>4, <1>5, <2>1 DEF rest
  <2>3. ASSUME NEW n \in 1..Len(rest) PROVE rest[n] = trace[(p + 1) + n - 1].event
    <3> DEFINE length == Len(pending)
               left == Len(rest)
    <3>0. length \in Nat /\ left = length - 1 /\ n \in 1..left
      BY <1>5, <2>1, <2>3 DEF rest
    <3> HIDE DEF length, left
    <3>1. n + 1 \in 1..Len(pending) /\ p + (n + 1) - 1 = (p + 1) + n - 1
      <4>1. n + 1 \in 1..length
        BY <3>0
      <4>2. p + (n + 1) - 1 = (p + 1) + n - 1
        BY <3>0
      <4> QED
        BY <4>1, <4>2 DEF length
    <3> QED
      BY <1>5, <2>2, <2>3, <3>1
  <2>4. \A n \in (p + 1)..Len(trace) : trace[n].event.tick <= tick
    <3>1. \A n \in (p + 1)..Len(trace) : n \in p..Len(trace)
      BY <1>4
    <3> QED
      BY <1>5, <3>1
  <2>5. p + 1 \in 1..(Len(trace) + 1)
    BY <1>4, <1>6
  <2>6. pending' = rest /\ UNCHANGED <<trace, tick>>
    BY <1>1 DEF rest, vars
  <2> QED
    BY <2>2, <2>3, <2>4, <2>5, <2>6 DEF Rest
<1>11. ASSUME mode = "Running" PROVE Second!Accept(e) /\ Ready(p + 1)'
  BY <1>1, <1>2, <1>3, <1>6, <1>7, <1>11, ReplayIsReady DEF Replaying
<1>12. ASSUME sound PROVE Traced(p + 1, r_occurrences)'
  <2>1. mode = "Running" /\ Traced(p, r_occurrences)
    BY <1>3, <1>12
  <2>2. p <= Len(trace)
    BY <1>4, <1>6
  <2> QED
    BY <1>1, <1>2, <1>4, <1>7, <1>11, <2>1, <2>2, ReplayIsTraced DEF Replaying
<1>13. Windowed'
  <2>1. p + 1 \in Nat
    OBVIOUS
  <2>2. mode' = mode /\ sound' = sound /\ card'.name = "tail"
    BY <1>1, <1>3 DEF vars
  <2>3. mode' = "Running" => Ready(p + 1)'
    BY <1>11, <2>2
  <2>4. sound' => mode' = "Running" /\ Traced(p + 1, r_occurrences)'
    BY <1>3, <1>12, <2>2
  <2> QED
    BY <1>10, <2>1, <2>2, <2>3, <2>4 DEF Windowed
<1>14. Replaying'
  BY <1>8, <1>9, <1>13 DEF Replaying
<1>15. SourceInv'
  BY <1>1, <1>2, SourceStays
<1> QED
  BY <1>1, <1>2, <1>14, <1>15 DEF CapsuleInv

-----------------------------------------------------------------------------
(* The end of the restore.                                                  *)

\* A source that is running has expired all that its clock has passed.
LEMMA NothingIsDue ==
  ASSUME Known, mode = "Running"
  PROVE  BoundaryExpire(PreExpire(occurrences, tick), tick) = occurrences
<1>1. /\ IInv /\ tick \in Nat \cup {-1} /\ fault = "None"
      /\ occurrences \in [Duties -> Occurrence] /\ epistemic[GuardKey] = "T"
  BY DEF Known, IInv, ShapeOK
<1>2. \A i \in Duties : occurrences[i].deadline \in Nat /\ occurrences[i].status # "ConditionalOpen"
  BY <1>1 DEF Occurrence, IInv, GuardCoherence
<1>3. \A i \in Duties : occurrences[i].status = "Open" => occurrences[i].deadline > tick
  BY <1>1 DEF IInv, LiveWithinDeadline
<1>4. PreExpire(occurrences, tick) = occurrences
  BY <1>1, <1>2, <1>3 DEF PreExpire, Expire
<1>5. BoundaryExpire(occurrences, tick) = occurrences
  BY <1>1, <1>2, <1>3 DEF BoundaryExpire, Expire
<1> QED
  BY <1>4, <1>5

\* A source with no duty left open carries the empty ledger.
LEMMA NothingIsCarried ==
  ASSUME \A i \in Duties : occurrences[i].status = "Discharged"
  PROVE  Carried(NoDuties, occurrences)
<1> DEFINE f == [i \in {} |-> 0]
<1>1. DOMAIN NoDuties = {}
  BY DEF NoDuties
<1>2. f \in [DOMAIN NoDuties -> DOMAIN occurrences]
  BY <1>1
<1> HIDE DEF f
<1> QED
  BY <1>1, <1>2 DEF Carried, Duties

\* When all retained events have been replayed, the restored monitor is running,
\* if the source was; and if the card is sound and has no table, the source
\* carries its ledger.
LEMMA ReplayIsOver ==
  ASSUME SourceInv, Replaying, pending = <<>>
  PROVE  /\ mode = "Running" => r_mode = "Running"
         /\ card.name \in {"open", "tail"}
         /\ sound => mode = "Running"
         /\ sound /\ Table = {} => Carried(r_occurrences, occurrences)
<1>1. CASE Opened
  <2>1. r_mode = "Running" /\ card.name = "open" /\ r_occurrences = NoDuties
    BY <1>1 DEF Opened, Fresh
  <2>2. ASSUME sound, Table = {} PROVE Carried(r_occurrences, occurrences)
    <3>1. mode = "Running" /\ Summary # "Violated" /\ Known
      BY <1>1, <2>2 DEF Opened, SourceInv
    <3>2. \A i \in Duties : occurrences[i].status # "Open"
      BY <2>1, <2>2 DEF Table, OpenTable, Duties
    <3>3. \A i \in Duties : occurrences[i].status = "Discharged"
      BY <3>1, <3>2, QuietIsAnswered
    <3> QED
      BY <2>1, <3>3, NothingIsCarried
  <2> QED
    BY <1>1, <2>1, <2>2 DEF Opened
<1>2. CASE Windowed
  <2>1. PICK p \in Nat : /\ Rest(p)
                         /\ mode = "Running" => Ready(p)
                         /\ sound => mode = "Running" /\ Traced(p, r_occurrences)
    BY <1>2 DEF Windowed
  <2>2. Len(trace) \in Nat
    BY DEF SourceInv
  <2>3. p = Len(trace) + 1
    BY <2>1, <2>2 DEF Rest
  <2>4. sound => Carried(r_occurrences, occurrences)
    BY <2>1, <2>3 DEF Traced
  <2> QED
    BY <1>2, <2>1, <2>4 DEF Windowed, Ready
<1> QED
  BY <1>1, <1>2 DEF Replaying

\* Without a table the clock jumps.
LEMMA ClockJumps ==
  ASSUME CapsuleInv, FinishRestore, phase' = "live", Table = {}
  PROVE  /\ Second!Known' /\ Accounts(r_occurrences', r_consumed', r_tick')
         /\ sound => Carried(r_occurrences', occurrences)
         /\ DOMAIN r_occurrences' = DOMAIN r_occurrences
<1> DEFINE jumped == BoundaryExpire(PreExpire(r_occurrences, tick), tick)
<1>1. /\ phase = "replay" /\ pending = <<>> /\ r_mode = "Running"
      /\ r_tick' = tick
      /\ r_occurrences' = Restored!BoundaryExpire(Restored!PreExpire(r_occurrences, tick), tick)
      /\ UNCHANGED <<r_mode, r_terminal_kind, r_fault, r_epistemic, r_oid_counter,
                     r_consumed, r_diagnostic>>
  BY DEF FinishRestore
<1>2. /\ r_occurrences' = Second!BoundaryExpire(Second!PreExpire(r_occurrences, tick), tick)
      /\ r_occurrences' = jumped
  BY <1>1, SameExpiry
<1>3. /\ Replaying /\ SourceInv /\ Second!Known /\ Second!TokenInv /\ r_tick <= tick
      /\ tick \in Nat \cup {-1}
  BY <1>1 DEF CapsuleInv, Replaying, SourceInv, TokenInv, TypeOK
<1>4. Second!Accounts(r_occurrences, r_consumed, r_tick)
  BY <1>3 DEF Second!TokenInv
<1>5. Second!Known' /\ Second!Accounts(r_occurrences', r_consumed', r_tick')
  BY <1>1, <1>2, <1>3, <1>4, Second!KnownExpires, BoundAssumption, GuardAssumption,
     TicksAssumption
  DEF Second!KnownExpires
<1>6. Accounts(r_occurrences', r_consumed', r_tick')
  BY <1>5, SameAccounts
<1>7. ASSUME sound PROVE Carried(r_occurrences', occurrences)
  <2>1. mode = "Running" /\ Carried(r_occurrences, occurrences) /\ Known
    BY <1>1, <1>3, <1>7, ReplayIsOver DEF SourceInv
  <2>2. Carried(jumped, BoundaryExpire(PreExpire(occurrences, tick), tick))
    BY <2>1, PhasesCarry
  <2>3. BoundaryExpire(PreExpire(occurrences, tick), tick) = occurrences
    BY <2>1, NothingIsDue
  <2> QED
    BY <1>2, <2>2, <2>3
<1>8. DOMAIN jumped = DOMAIN r_occurrences
  BY DEF BoundaryExpire, PreExpire, Expire
<1> QED
  BY <1>2, <1>5, <1>6, <1>7, <1>8

\* A table has a last number.
LEMMA GreatestNumber ==
  ASSUME NEW n \in Nat, NEW S \in SUBSET (1..n), S # {}
  PROVE  \E i \in S : \A j \in S : j <= i
<1> DEFINE above == {u \in Nat : \A j \in S : j <= u}
<1>1. n \in above
  OBVIOUS
<1>2. PICK u \in above : \A v \in above : u <= v
  <2>1. above \in SUBSET Nat /\ above # {}
    BY <1>1
  <2> HIDE DEF above
  <2> QED
    BY <2>1, LeastNat
<1>3. u \in Nat /\ \A j \in S : j <= u
  OBVIOUS
<1>4. u \in S
  <2> SUFFICES ASSUME u \notin S PROVE FALSE
    OBVIOUS
  <2> HIDE DEF above
  <2>0. \A j \in S : j \in Nat /\ j # 0
    OBVIOUS
  <2>1. PICK j \in S : j \in Nat /\ j # 0
    BY <2>0
  <2>2. u # 0 /\ u - 1 \in Nat
    BY <1>3, <2>1
  <2>3. ASSUME NEW k \in S PROVE k <= u - 1
    <3>1. k <= u /\ k # u /\ k \in Nat
      BY <1>3, <2>3
    <3> QED
      BY <1>3, <3>1
  <2>4. u - 1 \in above
    BY <2>2, <2>3 DEF above
  <2>5. u <= u - 1
    BY <1>2, <2>4
  <2> QED
    BY <1>3, <2>5
<1> QED
  BY <1>3, <1>4

\* A table replaces the ledger: every duty in it is as it was triggered.
LEMMA TableReplaces ==
  ASSUME CapsuleInv, FinishRestore, phase' = "live", Table # {}
  PROVE  /\ Second!Known' /\ Accounts(r_occurrences', r_consumed', r_tick')
         /\ sound => Carried(r_occurrences', occurrences)
         /\ \A i \in DOMAIN r_occurrences' : r_occurrences'[i].status = "Open"
<1> DEFINE table == [i \in OpenTable |-> NewOccurrence(occurrences[i].trigger_tick,
                                                       occurrences[i].deadline, "Open")]
           number == CHOOSE i \in OpenTable : \A j \in OpenTable : j <= i
<1>1. /\ phase = "replay" /\ pending = <<>> /\ r_mode = "Running"
      /\ r_tick' = tick /\ r_epistemic[GuardKey] = "T"
      /\ card.name = "open" /\ Table = OpenTable
      /\ r_occurrences' = table /\ r_oid_counter' = number /\ r_consumed' = {}
      /\ UNCHANGED <<r_mode, r_terminal_kind, r_fault, r_epistemic, r_diagnostic>>
  BY DEF FinishRestore, Table
<1>2. SourceInv /\ Replaying /\ Opened
  BY <1>1 DEF CapsuleInv, Replaying, Windowed
<1>3. /\ ValidTable(OpenTable) /\ r_terminal_kind = "None" /\ r_fault = "None"
      /\ r_diagnostic = "None" /\ r_epistemic \in [Keys -> Second!K3]
  BY <1>2 DEF Opened, Fresh, Replaying, Second!Known, Second!IInv, Second!ShapeOK
<1>4. /\ tick \in Nat \cup {-1} /\ oid_counter \in Nat
      /\ occurrences \in [1..oid_counter -> Occurrence]
      /\ Queue(occurrences, tick)
  BY <1>2 DEF SourceInv, TokenInv, TypeOK, Accounts
<1>5. /\ OpenTable \in SUBSET (1..oid_counter) /\ IsFiniteSet(OpenTable) /\ OpenTable # {}
      /\ OpenTable \in SUBSET Nat
  <2>1. OpenTable \in SUBSET (1..oid_counter)
    BY <1>4 DEF OpenTable
  <2>2. IsFiniteSet(1..oid_counter)
    BY <1>4, FS_Interval
  <2>3. IsFiniteSet(OpenTable)
    BY <2>1, <2>2, FS_Subset
  <2>4. OpenTable # {} /\ OpenTable \in SUBSET Nat
    BY <1>1, <2>1
  <2> QED
    BY <2>1, <2>3, <2>4
<1>6. number \in Nat
  <2>1. \E i \in OpenTable : \A j \in OpenTable : j <= i
    BY <1>4, <1>5, GreatestNumber
  <2>2. number \in OpenTable
    BY <2>1
  <2> QED
    BY <1>5, <2>2
<1> HIDE DEF number
<1>7. ASSUME NEW i \in OpenTable
      PROVE  /\ occurrences[i].trigger_tick \in Nat /\ occurrences[i].deadline \in Nat
             /\ occurrences[i].trigger_tick <= tick /\ tick < occurrences[i].deadline
             /\ i \in DOMAIN occurrences /\ occurrences[i].status = "Open"
  <2>1. occurrences[i] \in Occurrence /\ i \in DOMAIN occurrences /\ i \in 1..oid_counter
    BY <1>4, <1>5
  <2>2. occurrences[i].trigger_tick \in Nat /\ occurrences[i].deadline \in Nat
    BY <2>1 DEF Occurrence
  <2>3. occurrences[i].trigger_tick <= tick /\ occurrences[i].deadline > tick
    BY <1>3 DEF ValidTable
  <2>4. occurrences[i].status = "Open"
    BY DEF OpenTable
  <2> QED
    BY <1>4, <2>1, <2>2, <2>3, <2>4
<1>8. ASSUME NEW i \in OpenTable
      PROVE  /\ table[i] = NewOccurrence(occurrences[i].trigger_tick,
                                         occurrences[i].deadline, "Open")
             /\ table[i] \in Occurrence /\ table[i].status = "Open"
             /\ table[i].response = NoTick /\ table[i].candidates = {}
             /\ table[i].trigger_tick = occurrences[i].trigger_tick
             /\ table[i].deadline = occurrences[i].deadline
  <2>1. table[i] = NewOccurrence(occurrences[i].trigger_tick, occurrences[i].deadline, "Open")
    OBVIOUS
  <2> HIDE DEF table
  <2> QED
    BY <1>7, <2>1 DEF NewOccurrence, Occurrence, OccurrenceStatus, BreachReasons
<1>9. table \in [OpenTable -> Occurrence] /\ DOMAIN table = OpenTable
  BY <1>8
<1> HIDE DEF table
<1>10. Second!Known'
  <2>1. \A i \in OpenTable : \E t, d \in Nat :
          t <= r_tick' /\ r_tick' < d /\ r_occurrences'[i] = Second!NewOccurrence(t, d, "Open")
    BY <1>1, <1>7, <1>8 DEF NewOccurrence, Second!NewOccurrence, NoTick, Second!NoTick
  <2>2. /\ OpenTable \in SUBSET Nat /\ Second!IsFiniteSet(OpenTable)
        /\ r_occurrences' \in [OpenTable -> Second!Occurrence]
    BY <1>1, <1>5, <1>9, SameFinite, SameRecords
  <2>3. /\ r_mode' = "Running" /\ r_terminal_kind' = "None" /\ r_fault' = "None"
        /\ r_diagnostic' = "None" /\ r_tick' \in Nat \cup {-1} /\ r_consumed' = {}
        /\ r_epistemic' \in [Keys -> Second!K3] /\ r_oid_counter' \in Nat
        /\ r_epistemic'[GuardKey] = "T"
    BY <1>1, <1>3, <1>4, <1>6
  <2> DEFINE D == OpenTable
  <2> HIDE DEF D
  <2>4. /\ \A i \in D : \E t, d \in Nat :
             t <= r_tick' /\ r_tick' < d /\ r_occurrences'[i] = Second!NewOccurrence(t, d, "Open")
        /\ D \in SUBSET Nat /\ Second!IsFiniteSet(D)
        /\ r_occurrences' \in [D -> Second!Occurrence]
    BY <2>1, <2>2 DEF D
  <2> QED
    BY <2>3, <2>4, Second!OpenStarts, BoundAssumption, GuardAssumption, TicksAssumption
    DEF Second!OpenStarts
<1>11. Accounts(table, {}, tick)
  <2>1. Queue(table, tick)
    BY <1>3, <1>4, <1>5, <1>7, <1>8, <1>9 DEF Queue
  <2>2. {table[i].response : i \in {j \in DOMAIN table : table[j].response # NoTick}} = {}
    BY <1>8, <1>9
  <2>3. Holding(table, {}, tick)
    BY <1>8, <1>9, <2>2 DEF Holding
  <2>4. Recording(table, tick) /\ InOrder(table) /\ NoWaste(table, {})
    BY <1>8, <1>9 DEF Recording, InOrder, NoWaste
  <2> QED
    BY <2>1, <2>3, <2>4 DEF Accounts
<1>12. ASSUME sound PROVE Carried(table, occurrences)
  <2>1. mode = "Running" /\ Summary # "Violated" /\ Known
    BY <1>2, <1>12 DEF Opened, SourceInv
  <2>2. \A i \in Duties : occurrences[i].status \in {"Open", "Discharged"}
    BY <2>1, QuietIsAnswered
  <2>3. \A i \in OpenTable : occurrences[i] = table[i]
    BY <1>7, <1>8, <2>1 DEF Known, Spent
  <2> DEFINE f == [i \in OpenTable |-> i]
  <2>4. f \in [DOMAIN table -> DOMAIN occurrences] /\ \A i \in OpenTable : f[i] = i
    BY <1>7, <1>9
  <2>5. \A k \in DOMAIN occurrences : k \in OpenTable \/ occurrences[k].status = "Discharged"
    BY <2>2 DEF OpenTable, Duties
  <2> HIDE DEF f
  <2> QED
    BY <1>9, <2>3, <2>4, <2>5 DEF Carried
<1> QED
  BY <1>1, <1>8, <1>9, <1>10, <1>11, <1>12

\* The end of the restore keeps the capsule's invariant.
LEMMA FinishKeeps ==
  ASSUME CapsuleInv, FinishRestore
  PROVE  CapsuleInv'
<1>1. /\ phase = "replay" /\ pending = <<>> /\ phase' \in {"live", "refused"}
      /\ UNCHANGED <<vars, trace, card, pending, sound, word, attempted>>
  BY DEF FinishRestore
<1>2. /\ SourceInv /\ Replaying /\ word = <<>>
      /\ attempted.source = "None" /\ attempted.restored = "None"
  BY <1>1 DEF CapsuleInv
<1>3. SourceInv'
  BY <1>1, <1>2, SourceStays
<1>4. /\ mode = "Running" => r_mode = "Running"
      /\ card.name \in {"open", "tail"}
      /\ sound => mode = "Running"
  BY <1>1, <1>2, ReplayIsOver
<1>5. ASSUME phase' = "refused" PROVE mode' # "Running"
  <2>1. r_mode # "Running" \/ (Table # {} /\ r_epistemic[GuardKey] # "T")
    BY <1>5 DEF FinishRestore
  <2>2. r_epistemic[GuardKey] = "T"
    BY <1>2 DEF Replaying, Second!Known
  <2>3. mode # "Running"
    BY <1>4, <2>1, <2>2
  <2> QED
    BY <1>1, <2>3 DEF vars
<1>6. ASSUME phase' = "live" PROVE Driven'
  <2>1. /\ r_mode' = "Running" /\ r_mode = "Running" /\ r_tick' = tick
        /\ r_terminal_kind' = r_terminal_kind
    BY <1>6 DEF FinishRestore
  <2>2. /\ Second!Known' /\ Accounts(r_occurrences', r_consumed', r_tick')
        /\ sound => Carried(r_occurrences', occurrences)
    BY <1>6, ClockJumps, TableReplaces
  <2>3. ASSUME sound PROVE Alike'
    <3>1. /\ mode = "Running" /\ mode' = mode /\ terminal_kind' = terminal_kind
          /\ tick' = tick /\ occurrences' = occurrences /\ attempted' = attempted
      BY <1>1, <1>4, <2>3 DEF vars
    <3>2. terminal_kind = "None" /\ r_terminal_kind = "None"
      BY <1>2, <2>1, <3>1 DEF Replaying, Second!Known, Second!IInv, Second!ShapeOK,
                             SourceInv, Known, IInv, ShapeOK
    <3> QED
      BY <1>2, <2>1, <2>2, <2>3, <3>1, <3>2 DEF Alike
  <2>4. ASSUME card.name = "open", ~ sound PROVE (Observation # RestoredObservation)'
    <3>1. Opened
      BY <1>2, <2>4 DEF Replaying, Windowed
    <3>2. \A i \in DOMAIN r_occurrences' : r_occurrences'[i].status = "Open"
      <4>1. CASE Table = {}
        <5>1. DOMAIN r_occurrences' = DOMAIN r_occurrences
          BY <1>6, <4>1, ClockJumps
        <5> QED
          BY <3>1, <5>1 DEF Opened, Fresh, NoDuties
      <4>2. CASE Table # {}
        BY <1>6, <4>2, TableReplaces
      <4> QED
        BY <4>1, <4>2
    <3>3. Restored!PublicMode' = "Running"
      BY <2>1 DEF Restored!PublicMode
    <3>4. Restored!Summary' = "Unknown"
      <4>1. "Breached" \notin Restored!Statuses'
        BY <3>2 DEF Restored!Statuses
      <4> QED
        BY <2>1, <4>1 DEF Restored!Summary
    <3>5. mode # "Running" \/ Summary = "Violated"
      BY <2>4, <3>1 DEF Opened
    <3>6. CASE mode # "Running"
      <4>1. PublicMode # "Running"
        <5>1. /\ mode \in {"Running", "Halted", "Faulted"}
              /\ terminal_kind \in TerminalKinds \cup {"None"}
          BY <1>2 DEF SourceInv, TokenInv, TypeOK
        <5> QED
          BY <3>6, <5>1 DEF PublicMode, TerminalKinds
      <4>2. PublicMode' = PublicMode
        BY <1>1 DEF PublicMode, vars
      <4> QED
        BY <3>3, <4>1, <4>2 DEF Observation, RestoredObservation
    <3>7. CASE Summary = "Violated"
      <4>1. Summary' = Summary
        BY <1>1 DEF Summary, Statuses, vars
      <4> QED
        BY <3>4, <3>7, <4>1 DEF Observation, RestoredObservation
    <3> QED
      BY <3>5, <3>6, <3>7
  <2>5. sound' = sound /\ card' = card
    BY <1>1
  <2> QED
    BY <2>2, <2>3, <2>4, <2>5 DEF Driven
<1> QED
  BY <1>1, <1>3, <1>5, <1>6 DEF CapsuleInv

-----------------------------------------------------------------------------
(* The continuation.                                                        *)

\* A label's event says nothing of any key, triggers nothing, and advances the
\* clock it is made for.
LEMMA LabelIsEvent ==
  ASSUME NEW label \in Labels, NEW at \in Nat
  PROVE  /\ LabelEvent(label, at) \in AnyEvent
         /\ LabelEvent(label, at).tick = at
         /\ LabelEvent(label, at).observations = <<>>
         /\ ~ Triggers(LabelEvent(label, at))
         /\ LabelEvent(label, at).type # "Domain" \/ LabelEvent(label, at).tag # TriggerTag
<1> DEFINE e == LabelEvent(label, at)
<1>1. <<>> \in Observations /\ "Complete" \in TerminalKinds /\ at \in Int
  BY DEF Observations, TerminalKinds
<1>2. CASE label = ResponseTag
  <2>1. e = [type |-> "Domain", tick |-> at, tag |-> ResponseTag, observations |-> <<>>]
    BY <1>2 DEF LabelEvent
  <2>2. ResponseTag \in Tags /\ ResponseTag # TriggerTag
    BY ProfileAssumption
  <2> HIDE DEF e
  <2>3. e \in AnyEvent
    BY <1>1, <2>1, <2>2 DEF AnyEvent
  <2>4. e.tick = at /\ e.observations = <<>> /\ e.tag # TriggerTag
    BY <2>1, <2>2
  <2> QED
    BY <2>3, <2>4 DEF Triggers, e
<1>3. CASE label # ResponseTag
  <2>1. e = [type |-> "Terminal", tick |-> at, kind |-> "Complete", observations |-> <<>>]
    BY <1>3 DEF LabelEvent
  <2> HIDE DEF e
  <2>2. e \in AnyEvent
    BY <1>1, <2>1 DEF AnyEvent
  <2>3. e.tick = at /\ e.observations = <<>> /\ e.type # "Domain"
    BY <2>1
  <2> QED
    BY <2>2, <2>3 DEF Triggers, e
<1> QED
  BY <1>2, <1>3

\* A running monitor accepts it.
LEMMA LabelIsAccepted ==
  ASSUME Known, mode = "Running", NEW label \in Labels, NEW e,
         e = LabelEvent(label, tick + 1), Step(e)
  PROVE  Accept(e) /\ e \in AnyEvent /\ e.tick \in Nat /\ tick < e.tick
<1>1. tick \in Nat \cup {-1} /\ tick + 1 \in Nat
  BY DEF Known, IInv, ShapeOK
<1>2. e \in AnyEvent /\ e.tick = tick + 1 /\ e.observations = <<>>
  BY <1>1, LabelIsEvent
<1>3. tick < e.tick /\ ~ e.tick <= tick /\ e.tick \in Nat
  BY <1>1, <1>2
<1>4. ~ Contradicts(e.observations)
  BY <1>2 DEF Contradicts
<1>5. Accept(e)
  BY <1>3, <1>4 DEF Step, StepAfterEnd, StepStale, StepContradiction, StepDomain, StepTick,
                    StepTerminal
<1> QED
  BY <1>2, <1>3, <1>5

\* So does the restored one.
LEMMA LabelIsRestored ==
  ASSUME Second!Known, r_mode = "Running", NEW label \in Labels, NEW e,
         e = LabelEvent(label, r_tick + 1), Restored!Step(e)
  PROVE  Second!Accept(e) /\ e \in AnyEvent
<1>1. r_tick \in Nat \cup {-1} /\ r_tick + 1 \in Nat
  BY DEF Second!Known, Second!IInv, Second!ShapeOK
<1>2. e \in AnyEvent /\ e.tick = r_tick + 1 /\ e.observations = <<>>
  BY <1>1, LabelIsEvent
<1>3. ~ e.tick <= r_tick
  BY <1>1, <1>2
<1>4. ~ Second!Contradicts(e.observations)
  BY <1>2 DEF Second!Contradicts
<1>5. Second!Step(e)
  BY SameStep
<1>6. Second!Accept(e)
  BY <1>3, <1>4, <1>5
  DEF Second!Step, Second!StepAfterEnd, Second!StepStale, Second!StepContradiction,
      Second!StepDomain, Second!StepTick, Second!StepTerminal
<1> QED
  BY <1>2, <1>6

\* One label keeps what is known of the source,
LEMMA ContinueSource ==
  ASSUME SourceInv, phase = "live", NEW label \in Labels, Continue(label)
  PROVE  SourceInv'
<1>1. /\ phase' = phase /\ trace' = trace
      /\ IF mode = "Running" THEN Step(LabelEvent(label, tick + 1)) ELSE UNCHANGED vars
  BY DEF Continue
<1>2. CASE mode = "Running"
  <2> DEFINE e == LabelEvent(label, tick + 1)
  <2>1. Step(e)
    BY <1>1, <1>2
  <2> HIDE DEF e
  <2>2. e \in AnyEvent
    BY <1>2, <2>1, LabelIsAccepted DEF e, SourceInv
  <2>3. TokenInv' /\ Known'
    BY <2>1, <2>2, StepTokens, KnownSteps DEF SourceInv
  <2> QED
    BY <1>1, <2>3 DEF SourceInv
<1>3. CASE mode # "Running"
  <2>1. UNCHANGED <<mode, terminal_kind, fault, tick, epistemic, occurrences,
                    oid_counter, consumed, diagnostic, trace>>
    BY <1>1, <1>3 DEF vars
  <2>2. TypeOK'
    BY <2>1 DEF SourceInv, TokenInv, TypeOK
  <2>3. IInv'
    BY <2>1 DEF SourceInv, Known, IInv, ShapeOK, Duties, LiveWithinDeadline, GuardCoherence,
                BreachTimes
  <2>4. TokenInv' /\ Known'
    BY <2>1, <2>2, <2>3 DEF SourceInv, Known, TokenInv
  <2> QED
    BY <1>1, <2>1, <2>4 DEF SourceInv
<1> QED
  BY <1>2, <1>3

\* and of the restored monitor.
LEMMA ContinueRestored ==
  ASSUME Second!Known, Accounts(r_occurrences, r_consumed, r_tick),
         NEW label \in Labels, Continue(label)
  PROVE  Second!Known' /\ Accounts(r_occurrences', r_consumed', r_tick')
<1>1. IF r_mode = "Running" THEN Restored!Step(LabelEvent(label, r_tick + 1))
      ELSE UNCHANGED r_vars
  BY DEF Continue
<1>2. CASE r_mode = "Running"
  <2> DEFINE e == LabelEvent(label, r_tick + 1)
  <2>1. Restored!Step(e)
    BY <1>1, <1>2
  <2>2. r_tick + 1 \in Nat
    BY DEF Second!Known, Second!IInv, Second!ShapeOK
  <2>3. e \in AnyEvent /\ (e.type # "Domain" \/ e.tag # TriggerTag)
    BY <2>2, LabelIsEvent
  <2> HIDE DEF e
  <2> QED
    BY <2>1, <2>3, RestoredKeeps
<1>3. CASE r_mode # "Running"
  <2>1. UNCHANGED <<r_mode, r_terminal_kind, r_fault, r_tick, r_epistemic, r_occurrences,
                    r_oid_counter, r_consumed, r_diagnostic>>
    BY <1>1, <1>3 DEF r_vars
  <2>2. Second!IInv'
    BY <2>1 DEF Second!Known, Second!IInv, Second!ShapeOK, Second!Duties,
                Second!LiveWithinDeadline, Second!GuardCoherence, Second!BreachTimes
  <2> QED
    BY <2>1, <2>2 DEF Second!Known
<1> QED
  BY <1>2, <1>3

\* If the two were alike they are alike after it.
LEMMA ContinueAlike ==
  ASSUME SourceInv, Second!Known, Alike, NEW label \in Labels, Continue(label)
  PROVE  Alike'
<1>1. /\ attempted'.source = Disable("source", label, mode = "Running")
      /\ attempted'.restored = Disable("restored", label, r_mode = "Running")
      /\ IF mode = "Running" THEN Step(LabelEvent(label, tick + 1)) ELSE UNCHANGED vars
      /\ IF r_mode = "Running" THEN Restored!Step(LabelEvent(label, r_tick + 1))
         ELSE UNCHANGED r_vars
  BY DEF Continue
<1>2. mode = r_mode /\ terminal_kind = r_terminal_kind /\ tick = r_tick /\ Known
  BY DEF Alike, SourceInv
<1>3. attempted'.source = attempted'.restored
  BY <1>1, <1>2 DEF Disable, Alike
<1>4. CASE mode = "Running"
  <2> DEFINE e == LabelEvent(label, tick + 1)
  <2>1. Step(e) /\ Restored!Step(e)
    BY <1>1, <1>2, <1>4
  <2>2. /\ Accept(e) /\ Second!Accept(e) /\ e \in AnyEvent /\ e.tick \in Nat
        /\ tick < e.tick
    BY <1>2, <1>4, <2>1, LabelIsAccepted, LabelIsRestored
  <2>3. ~ Triggers(e)
    <3>1. tick + 1 \in Nat
      BY <1>2 DEF Known, IInv, ShapeOK
    <3> QED
      BY <3>1, LabelIsEvent
  <2> HIDE DEF e
  <2>4. PICK other \in Nat : occurrences' = Moved(occurrences, e, other)
    BY <1>2, <2>1, <2>2, KnownMoves
  <2>5. PICK oid \in Nat : r_occurrences' = Moved(r_occurrences, e, oid)
    BY <2>1, <2>2, RestoredMoves
  <2>6. mode' = r_mode' /\ terminal_kind' = r_terminal_kind'
    BY <1>2, <2>1, <2>2, KnownMoves, RestoredMoves
  <2>7. tick' = r_tick'
    BY <2>2 DEF Accept, Second!Accept
  <2>8. Carried(r_occurrences', occurrences')
    <3> DEFINE D == DOMAIN r_occurrences
               E == DOMAIN occurrences
    <3>1. D \in SUBSET Nat /\ r_occurrences \in [D -> Occurrence]
      BY SameRecords DEF Second!Known, Second!IInv, Second!ShapeOK, Second!Duties
    <3>2. E \in SUBSET Nat /\ occurrences \in [E -> Occurrence]
          /\ tick \in Nat \cup {-1}
      BY <1>2 DEF Known, IInv, ShapeOK, Duties
    <3>3. ~ Waiting(occurrences)
      BY <1>2, <1>4, RunningIsSound DEF Known, SoundLedger, Sound, Coherent, Conditional,
                                        Waiting
    <3>4. Queue(occurrences, tick) /\ Carried(r_occurrences, occurrences)
      BY DEF SourceInv, TokenInv, Accounts, Alike
    <3> HIDE DEF D, E
    <3>5. Carried(Moved(r_occurrences, e, oid), Moved(occurrences, e, other))
      BY <2>2, <2>3, <3>1, <3>2, <3>3, <3>4, MovedCarries
    <3> QED
      BY <2>4, <2>5, <3>5
  <2> QED
    BY <1>3, <2>6, <2>7, <2>8 DEF Alike
<1>5. CASE mode # "Running"
  <2>1. UNCHANGED <<mode, terminal_kind, tick, occurrences, r_mode, r_terminal_kind, r_tick,
                    r_occurrences>>
    BY <1>1, <1>2, <1>5 DEF vars, r_vars
  <2> QED
    BY <1>3, <2>1 DEF Alike
<1> QED
  BY <1>4, <1>5

\* A label keeps the capsule's invariant.
LEMMA ContinueKeeps ==
  ASSUME CapsuleInv, NEW label \in Labels, Continue(label)
  PROVE  CapsuleInv'
<1>1. /\ phase = "live" /\ phase' = "live" /\ card' = card /\ sound' = sound
      /\ word' = Append(word, label)
  BY DEF Continue
<1>2. SourceInv /\ Driven
  BY <1>1 DEF CapsuleInv
<1>3. SourceInv'
  BY <1>1, <1>2, ContinueSource
<1>4. Second!Known' /\ Accounts(r_occurrences', r_consumed', r_tick')
  BY <1>2, ContinueRestored DEF Driven
<1>5. sound => Alike'
  BY <1>2, ContinueAlike DEF Driven
<1>6. word' # <<>>
  BY <1>1
<1>7. Driven'
  BY <1>1, <1>4, <1>5, <1>6 DEF Driven
<1> QED
  BY <1>1, <1>3, <1>7 DEF CapsuleInv

-----------------------------------------------------------------------------
(* The theorems.                                                            *)

\* An event of the prefix keeps the capsule's invariant.
LEMMA SourceKeeps ==
  ASSUME CapsuleInv, NEW e \in SourceEvents, SourceStep(e)
  PROVE  CapsuleInv'
<1>1. /\ phase = "source" /\ phase' = "source"
      /\ UNCHANGED <<r_mode, r_terminal_kind, r_fault, r_tick, r_epistemic, r_occurrences,
                     r_oid_counter, r_consumed, r_diagnostic, word, attempted>>
  BY DEF SourceStep, r_vars
<1>2. SourceInv'
  BY SourceStepKeeps DEF CapsuleInv
<1>3. Fresh' /\ r_epistemic' = [k \in Keys |-> "U"]
  BY <1>1 DEF CapsuleInv, Fresh
<1> QED
  BY <1>1, <1>2, <1>3 DEF CapsuleInv

\* Nothing happens to the invariant when nothing happens.
LEMMA StutterKeeps ==
  ASSUME CapsuleInv, UNCHANGED <<vars, r_vars, capsule>>
  PROVE  CapsuleInv'
<1>1. UNCHANGED <<mode, terminal_kind, fault, tick, epistemic, occurrences,
                  oid_counter, consumed, diagnostic, trace, phase, card, pending, sound,
                  word, attempted>>
  BY DEF vars, capsule
<1>2. UNCHANGED <<r_mode, r_terminal_kind, r_fault, r_tick, r_epistemic, r_occurrences,
                  r_oid_counter, r_consumed, r_diagnostic>>
  BY DEF r_vars
<1>3. SourceInv'
  <2>1. TypeOK'
    BY <1>1 DEF CapsuleInv, SourceInv, TokenInv, TypeOK
  <2>2. IInv'
    BY <1>1 DEF CapsuleInv, SourceInv, Known, IInv, ShapeOK, Duties, LiveWithinDeadline,
                GuardCoherence, BreachTimes
  <2>3. TokenInv' /\ Known'
    BY <1>1, <2>1, <2>2 DEF CapsuleInv, SourceInv, Known, TokenInv
  <2>4. Consistent => Consistent'
    BY <1>1 DEF Consistent
  <2>5. \A n : Traced(n, NoDuties) => Traced(n, NoDuties)'
    BY <1>1 DEF Traced
  <2> QED
    BY <1>1, <2>3, <2>4, <2>5 DEF CapsuleInv, SourceInv
<1>4. Second!Known => Second!Known'
  <2>1. Second!IInv => Second!IInv'
    BY <1>2 DEF Second!IInv, Second!ShapeOK, Second!Duties, Second!LiveWithinDeadline,
                Second!GuardCoherence, Second!BreachTimes
  <2> QED
    BY <1>2, <2>1 DEF Second!Known
<1>5. Second!Known /\ Second!TokenInv => Second!TokenInv'
  <2>1. Second!TypeOK => Second!TypeOK'
    BY <1>2 DEF Second!TypeOK
  <2> QED
    BY <1>2, <1>4, <2>1 DEF Second!TokenInv, Second!Known
<1>6. Fresh => Fresh'
  BY <1>2 DEF Fresh
<1>7. Replaying => Replaying'
  <2>1. Opened => Opened'
    <3>1. ValidTable(OpenTable) => ValidTable(OpenTable)'
      BY <1>1 DEF ValidTable, OpenTable
    <3>2. Summary' = Summary
      BY <1>1 DEF Summary, Statuses
    <3> QED
      BY <1>1, <1>6, <3>1, <3>2 DEF Opened
  <2>2. Windowed => Windowed'
    <3>1. \A p : Rest(p) => Rest(p)'
      BY <1>1 DEF Rest
    <3>2. \A p : Ready(p) => Ready(p)'
      BY <1>1, <1>2 DEF Ready
    <3>3. \A p : Traced(p, r_occurrences) => Traced(p, r_occurrences)'
      BY <1>1, <1>2 DEF Traced
    <3> QED
      BY <1>1, <3>1, <3>2, <3>3 DEF Windowed
  <2> QED
    BY <1>1, <1>2, <1>4, <1>5, <2>1, <2>2 DEF Replaying
<1>8. Driven => Driven'
  <2>1. Alike => Alike'
    BY <1>1, <1>2 DEF Alike
  <2>2. Observation' = Observation /\ RestoredObservation' = RestoredObservation
    BY <1>1, <1>2 DEF Observation, RestoredObservation, Summary, Statuses, PublicMode,
                      Restored!Summary, Restored!Statuses, Restored!PublicMode
  <2> QED
    BY <1>1, <1>2, <1>4, <2>1, <2>2 DEF Driven
<1> QED
  BY <1>1, <1>2, <1>3, <1>6, <1>7, <1>8 DEF CapsuleInv

\* The invariant of the capsule: what is known of the source, of the restored
\* monitor in each phase, and of what the two have in common.
THEOREM CapsuleInductive == CSpec => []CapsuleInv
<1>1. CapsuleInv /\ [CNext]_<<vars, r_vars, capsule>> => CapsuleInv'
  <2> SUFFICES ASSUME CapsuleInv, [CNext]_<<vars, r_vars, capsule>> PROVE CapsuleInv'
    OBVIOUS
  <2>1. CASE \E e \in SourceEvents : SourceStep(e)
    BY <2>1, SourceKeeps
  <2>2. CASE CutOpenCard
    BY <2>2, CutOpenKeeps
  <2>3. CASE \E budget \in Budgets : CutTailCard(budget)
    BY <2>3, CutTailKeeps
  <2>4. CASE Replay
    BY <2>4, ReplayKeeps
  <2>5. CASE FinishRestore
    BY <2>5, FinishKeeps
  <2>6. CASE \E label \in Labels : Continue(label)
    BY <2>6, ContinueKeeps
  <2>7. CASE UNCHANGED <<vars, r_vars, capsule>>
    BY <2>7, StutterKeeps
  <2> QED
    BY <2>1, <2>2, <2>3, <2>4, <2>5, <2>6, <2>7 DEF CNext
<1> QED
  BY CapsuleStarts, <1>1, PTL DEF CSpec

\* Two monitors that are alike are seen alike.
LEMMA AlikeIsSeen ==
  ASSUME Alike
  PROVE  Observation = RestoredObservation
<1>1. mode = r_mode /\ terminal_kind = r_terminal_kind
      /\ attempted.source = attempted.restored
  BY DEF Alike
<1>2. PublicMode = Restored!PublicMode
  BY <1>1 DEF PublicMode, Restored!PublicMode
<1>3. /\ (\E i \in DOMAIN r_occurrences : r_occurrences[i].status = "Breached")
           <=> (\E k \in DOMAIN occurrences : occurrences[k].status = "Breached")
      /\ (\A i \in DOMAIN r_occurrences : r_occurrences[i].status \in Settled)
           <=> (\A k \in DOMAIN occurrences : occurrences[k].status \in Settled)
  BY CarriedReadsAlike DEF Alike
<1>4. "Breached" \in Statuses <=> "Breached" \in Restored!Statuses
  BY <1>3 DEF Statuses, Restored!Statuses
<1>5. Statuses \subseteq Settled <=> Restored!Statuses \subseteq Restored!Settled
  BY <1>3 DEF Statuses, Restored!Statuses, Settled, Restored!Settled
<1>6. Summary = Restored!Summary
  BY <1>1, <1>4, <1>5 DEF Summary, Restored!Summary
<1> QED
  BY <1>1, <1>2, <1>6 DEF Observation, RestoredObservation

\* The open-state card (capsule.py): for a running prefix with no breach the
\* table of open duties, the clock and the guard decide what every continuation
\* shows; for any other prefix what is restored already shows something else.
THEOREM OpenCardFaithfulAlways == CSpec => []OpenCardFaithful
<1>1. CapsuleInv => OpenCardFaithful
  BY AlikeIsSeen DEF CapsuleInv, Driven, OpenCardFaithful
<1> QED
  BY <1>1, CapsuleInductive, PTL

\* The tail card: events from a point where the source was quiet decide what
\* every continuation shows, however long the trace before them.
THEOREM TailCardFaithfulAlways == CSpec => []TailCardFaithful
<1>1. CapsuleInv => TailCardFaithful
  BY AlikeIsSeen DEF CapsuleInv, Driven, TailCardFaithful
<1> QED
  BY <1>1, CapsuleInductive, PTL

\* restore_open_state_card refuses no card cut from a running source, and what
\* it restores keeps the ledger's invariants throughout the continuation.
THEOREM RestoreIsSoundAlways == CSpec => []RestoreIsSound
<1>1. ASSUME CapsuleInv, phase = "live"
      PROVE  Restored!LedgerSound /\ Restored!LinearTokens /\ Restored!NoOvertaking
  <2>1. Second!Known /\ Second!Accounts(r_occurrences, r_consumed, r_tick)
    BY <1>1, SameAccounts DEF CapsuleInv, Driven
  <2>2. Second!LiveWithinDeadline /\ Second!GuardCoherence /\ Second!BreachTimes
    BY <2>1 DEF Second!Known, Second!IInv
  <2>3. Restored!LedgerSound
    BY <2>2 DEF Restored!LedgerSound, Restored!LiveWithinDeadline,
                Second!LiveWithinDeadline, Restored!GuardCoherence, Second!GuardCoherence,
                Restored!BreachTimes, Second!BreachTimes, Restored!Duties, Second!Duties,
                Restored!Conditional, Second!Conditional, Restored!NoTick, Second!NoTick
  <2>4. Second!LinearTokens
    BY <2>1, Second!HeldIsLinear, BoundAssumption, GuardAssumption, TicksAssumption
    DEF Second!HeldIsLinear, Second!Accounts
  <2>5. Restored!LinearTokens
    BY <2>4 DEF Restored!LinearTokens, Second!LinearTokens, Restored!Duties,
                Second!Duties, Restored!NoTick, Second!NoTick
  <2>6. Restored!NoOvertaking
    BY <2>1 DEF Second!Accounts, Second!InOrder, Restored!NoOvertaking, Restored!Duties,
                Restored!NoTick, Second!NoTick
  <2> QED
    BY <2>3, <2>5, <2>6
<1>2. CapsuleInv => RestoreIsSound
  BY <1>1 DEF RestoreIsSound, CapsuleInv
<1> QED
  BY <1>2, CapsuleInductive, PTL

=============================================================================
