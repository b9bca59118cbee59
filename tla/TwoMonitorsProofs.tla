------------------------- MODULE TwoMonitorsProofs --------------------------
(***************************************************************************)
(* Theorems that speak of two monitors at once, or of a run and its         *)
(* continuation: MonitorTwin's comparison of a monitor that learns its      *)
(* guard late with one that knew it from the start, MonitorResidual's       *)
(* implementation of Residual and its comparison of a monitor with one that *)
(* lives later, and RestoredRun's two monitors restored from one card.      *)
(*                                                                          *)
(* MonitorProofs is instantiated a second time for the second monitor; the  *)
(* first lemmas say that what an instance computes from a ledger does not   *)
(* depend on the instance.  The twins are then related by a simulation:     *)
(* TwinInv says that they differ in the guard alone and that their ledgers  *)
(* are Paired, and every phase of Step is shown to keep them so.  Monitors  *)
(* in different places of time are related by TimeInv: their ledgers are    *)
(* Displaced, one as many ticks later as the other's deadlines and tokens   *)
(* are, but for the deadlines that one of them has heard of first.          *)
(* Restored monitors are related by RestoredInv: their ledgers are Renamed, *)
(* one but for the names of the duties, because a card with duties makes a  *)
(* Known monitor, whose open duties differ in nothing but their dates.      *)
(***************************************************************************)
EXTENDS MonitorTwin, MonitorResidual, RestoredRun, MonitorProofs, FunctionTheorems

\* What MonitorProofs says of the first monitor, said of the second.
Second == INSTANCE MonitorProofs WITH
  mode <- t_mode, terminal_kind <- t_terminal_kind, fault <- t_fault,
  tick <- t_tick, epistemic <- t_epistemic, occurrences <- t_occurrences,
  oid_counter <- t_oid_counter, consumed <- t_consumed,
  diagnostic <- t_diagnostic

-----------------------------------------------------------------------------
\* The operators on a ledger read no variable: the second monitor's copies of
\* them are the same functions.  First its expiry phases.
LEMMA SameExpiry ==
  \A occs, now :
    /\ Twin!PreExpire(occs, now) = PreExpire(occs, now)
    /\ Second!PreExpire(occs, now) = PreExpire(occs, now)
    /\ Twin!BoundaryExpire(occs, now) = BoundaryExpire(occs, now)
    /\ Second!BoundaryExpire(occs, now) = BoundaryExpire(occs, now)
BY DEF PreExpire, Twin!PreExpire, Second!PreExpire,
       BoundaryExpire, Twin!BoundaryExpire, Second!BoundaryExpire,
       Expire, Twin!Expire, Second!Expire, Breach, Twin!Breach, Second!Breach,
       GuardRemainsUnknownAtDeadline, Twin!GuardRemainsUnknownAtDeadline,
       Second!GuardRemainsUnknownAtDeadline

\* The allocation pass.
LEMMA SamePass ==
  /\ \A occs, active, used :
       /\ Twin!Allocations(occs, active, used) = Allocations(occs, active, used)
       /\ Second!Allocations(occs, active, used) = Allocations(occs, active, used)
  /\ \A occs, guard :
       /\ Twin!Activated(occs, guard) = Activated(occs, guard)
       /\ Second!Activated(occs, guard) = Activated(occs, guard)
  /\ \A alloc : Twin!Used(alloc) = Used(alloc) /\ Second!Used(alloc) = Used(alloc)
<1>1. \A occs, S : /\ Twin!First(occs, S) = First(occs, S)
                   /\ Second!First(occs, S) = First(occs, S)
  BY DEF First, Twin!First, Second!First, Precedes, Twin!Precedes, Second!Precedes
<1>2. NoTick = -1 /\ Twin!NoTick = -1 /\ Second!NoTick = -1
  BY DEF NoTick, Twin!NoTick, Second!NoTick
<1>3. \A occs, active, alloc, token :
        /\ Twin!Takers(occs, active, alloc, token) = Takers(occs, active, alloc, token)
        /\ Second!Takers(occs, active, alloc, token)
             = Takers(occs, active, alloc, token)
  BY <1>2 DEF Takers, Twin!Takers, Second!Takers
<1>4. \A occs, active, tokens, alloc :
        /\ Twin!IsAllocation(occs, active, tokens, alloc)
             <=> IsAllocation(occs, active, tokens, alloc)
        /\ Second!IsAllocation(occs, active, tokens, alloc)
             <=> IsAllocation(occs, active, tokens, alloc)
  BY <1>1, <1>3 DEF IsAllocation, Twin!IsAllocation, Second!IsAllocation
<1>5. \A occs, active, used :
       /\ Twin!Allocations(occs, active, used) = Allocations(occs, active, used)
       /\ Second!Allocations(occs, active, used) = Allocations(occs, active, used)
  BY <1>2, <1>4
  DEF Allocations, Twin!Allocations, Second!Allocations, Recorded, Twin!Recorded,
      Second!Recorded
<1> QED
  BY <1>2, <1>5
  DEF Activated, Twin!Activated, Second!Activated, Used, Twin!Used, Second!Used,
    Conditional, Twin!Conditional, Second!Conditional

\* The resolution of the conditional duties.
LEMMA SameResolution ==
  \A occs, guard, alloc, now :
    /\ Twin!ResolveConditionals(occs, guard, alloc, now)
         = ResolveConditionals(occs, guard, alloc, now)
    /\ Second!ResolveConditionals(occs, guard, alloc, now)
         = ResolveConditionals(occs, guard, alloc, now)
<1>2. NoTick = -1 /\ Twin!NoTick = -1 /\ Second!NoTick = -1
  BY DEF NoTick, Twin!NoTick, Second!NoTick
<1>1. \A o, token, now : /\ Twin!Activate(o, token, now) = Activate(o, token, now)
                         /\ Second!Activate(o, token, now) = Activate(o, token, now)
  BY <1>2
  DEF Activate, Twin!Activate, Second!Activate, Discharge, Twin!Discharge,
      Second!Discharge, Breach, Twin!Breach, Second!Breach
<1> QED
 BY <1>1
 DEF ResolveConditionals, Twin!ResolveConditionals, Second!ResolveConditionals,
     Conditional, Twin!Conditional, Second!Conditional,
   GuardsBecomeTrue, Twin!GuardsBecomeTrue, Second!GuardsBecomeTrue,
   GuardBecomesFalse, Twin!GuardBecomesFalse, Second!GuardBecomesFalse

\* The instantiation of a triggered duty.
LEMMA SameTrigger ==
  \A occs, oid, guard, now :
    /\ Twin!InstantiateTrigger(occs, oid, guard, now)
         = InstantiateTrigger(occs, oid, guard, now)
    /\ Second!InstantiateTrigger(occs, oid, guard, now)
         = InstantiateTrigger(occs, oid, guard, now)
<1>2. NoTick = -1 /\ Twin!NoTick = -1 /\ Second!NoTick = -1
  BY DEF NoTick, Twin!NoTick, Second!NoTick
<1> QED
 BY <1>2
 DEF InstantiateTrigger, Twin!InstantiateTrigger, Second!InstantiateTrigger,
     TriggerAndGuardRule, Twin!TriggerAndGuardRule,
   Second!TriggerAndGuardRule, NewOccurrence, Twin!NewOccurrence, Second!NewOccurrence

\* The registration of a response.
LEMMA SameAnswer ==
  \A occs, token :
    /\ Twin!Eligible(occs, token) = Eligible(occs, token)
    /\ Second!Eligible(occs, token) = Eligible(occs, token)
    /\ Twin!RegisterResponseToken(occs, token) = RegisterResponseToken(occs, token)
    /\ Second!RegisterResponseToken(occs, token) = RegisterResponseToken(occs, token)
<1>1. \A occs, S : /\ Twin!First(occs, S) = First(occs, S)
                   /\ Second!First(occs, S) = First(occs, S)
  BY DEF First, Twin!First, Second!First, Precedes, Twin!Precedes, Second!Precedes
<1> QED
  BY <1>1, ZenonT(40)
  DEF Eligible, Twin!Eligible, Second!Eligible, RegisterResponseToken,
      Twin!RegisterResponseToken, Second!RegisterResponseToken,
    Discharge, Twin!Discharge, Second!Discharge, Conditional, Twin!Conditional,
    Second!Conditional

\* The conversion of a terminal event.
LEMMA SameTerminal ==
  \A occs, kind, now :
    /\ Twin!TerminalConversion(occs, kind, now) = TerminalConversion(occs, kind, now)
    /\ Second!TerminalConversion(occs, kind, now) = TerminalConversion(occs, kind, now)
<1>1. \A o, kind, now : /\ Twin!ConvertOpen(o, kind, now) = ConvertOpen(o, kind, now)
                        /\ Second!ConvertOpen(o, kind, now) = ConvertOpen(o, kind, now)
  BY
  DEF ConvertOpen, Twin!ConvertOpen, Second!ConvertOpen, Breach, Twin!Breach,
      Second!Breach
<1>2. \A o, kind : /\ Twin!ConvertConditional(o, kind) = ConvertConditional(o, kind)
                   /\ Second!ConvertConditional(o, kind) = ConvertConditional(o, kind)
  BY DEF ConvertConditional, Twin!ConvertConditional, Second!ConvertConditional
<1> QED
  BY <1>1, <1>2
  DEF TerminalConversion, Twin!TerminalConversion, Second!TerminalConversion,
      Conditional, Twin!Conditional, Second!Conditional

\* What an event computes from the second monitor's state is one thing under
\* both names.
LEMMA SameState ==
  ASSUME NEW e
  PROVE  /\ Twin!Guard(e) = Second!Guard(e)
         /\ Twin!FreshOids = Second!FreshOids
         /\ Twin!Resolutions(e) = Second!Resolutions(e)
         /\ \A alloc :
              /\ Twin!Resolved(e, alloc) = Second!Resolved(e, alloc)
              /\ \A oid :
                   /\ Twin!Triggered(e, alloc, oid) = Second!Triggered(e, alloc, oid)
                   /\ Twin!Answered(e, alloc, oid) = Second!Answered(e, alloc, oid)
<1>1. Twin!Guard(e) = Second!Guard(e)
  BY DEF Twin!Guard, Second!Guard, Twin!Observed, Second!Observed
<1>2. Twin!FreshOids = Second!FreshOids
  BY
  DEF Twin!FreshOids, Second!FreshOids, Twin!Cardinality, Second!Cardinality,
      Twin!IsFiniteSet, Second!IsFiniteSet
<1>3. Twin!Resolutions(e) = Second!Resolutions(e)
  BY <1>1, SameExpiry, SamePass DEF Twin!Resolutions, Second!Resolutions
<1>4. \A alloc : Twin!Resolved(e, alloc) = Second!Resolved(e, alloc)
  BY <1>1, SameExpiry, SameResolution DEF Twin!Resolved, Second!Resolved
<1>5. \A alloc, oid : Twin!Triggered(e, alloc, oid) = Second!Triggered(e, alloc, oid)
  BY <1>1, <1>4, SameTrigger DEF Twin!Triggered, Second!Triggered
<1>6. \A alloc, oid : Twin!Answered(e, alloc, oid) = Second!Answered(e, alloc, oid)
  BY <1>5, SameAnswer DEF Twin!Answered, Second!Answered
<1> QED
  BY <1>1, <1>2, <1>3, <1>4, <1>5, <1>6

\* So is what the epistemic validation decides.
LEMMA SameAccept ==
  ASSUME NEW e
  PROVE  /\ Twin!Contradicts(e.observations) <=> Second!Contradicts(e.observations)
         /\ Twin!Accept(e) <=> Second!Accept(e)
<1>1. Twin!Contradicts(e.observations) <=> Second!Contradicts(e.observations)
  BY DEF Twin!Contradicts, Second!Contradicts, Twin!Refines, Second!Refines
<1> QED
  BY <1>1 DEF Twin!Accept, Second!Accept, Twin!Observed, Second!Observed

\* And so is the step: what Twin takes, the lemmas of Second speak about.
LEMMA SameStep ==
  ASSUME NEW e, Twin!Step(e)
  PROVE  Second!Step(e)
<1>1. Twin!StepAfterEnd(e) => Second!StepAfterEnd(e)
  BY DEF Twin!StepAfterEnd, Second!StepAfterEnd
<1>2. Twin!StepStale(e) => Second!StepStale(e)
  BY DEF Twin!StepStale, Second!StepStale
<1>3. Twin!StepContradiction(e) => Second!StepContradiction(e)
  BY SameAccept, SameExpiry DEF Twin!StepContradiction, Second!StepContradiction
<1>4. ASSUME Twin!StepDomain(e) PROVE Second!StepDomain(e)
  <2>1. PICK alloc \in Twin!Resolutions(e), oid \in Twin!FreshOids :
          /\ t_occurrences' = Twin!BoundaryExpire(Twin!Answered(e, alloc, oid), e.tick)
          /\ t_oid_counter' = IF e.tag = TriggerTag THEN oid ELSE t_oid_counter
          /\ t_consumed' = t_consumed \cup Twin!Used(alloc) \cup
                             {t \in {e.tick} :
                                /\ e.tag = ResponseTag
                                /\ Twin!Eligible(Twin!Triggered(e, alloc, oid), t) # {}}
    BY <1>4 DEF Twin!StepDomain
  <2>2. /\ t_occurrences'
             = Second!BoundaryExpire(Second!Answered(e, alloc, oid), e.tick)
        /\ t_consumed' = t_consumed \cup Second!Used(alloc) \cup
                           {t \in {e.tick} :
                              /\ e.tag = ResponseTag
                              /\ Second!Eligible(Second!Triggered(e, alloc, oid), t) # {}}
    BY <2>1, SameState, SameExpiry, SamePass, SameAnswer
  <2>3. alloc \in Second!Resolutions(e) /\ oid \in Second!FreshOids
    BY <2>1, SameState
  <2>4. Second!Accept(e) /\ e.type = "Domain" /\ UNCHANGED <<t_mode, t_terminal_kind>>
    BY <1>4, SameAccept DEF Twin!StepDomain
  <2> QED
    BY <2>1, <2>2, <2>3, <2>4 DEF Second!StepDomain
<1>5. Twin!StepTick(e) => Second!StepTick(e)
  BY SameAccept, SameState, SameExpiry, SamePass DEF Twin!StepTick, Second!StepTick
<1>6. Twin!StepTerminal(e) => Second!StepTerminal(e)
  BY SameAccept, SameState, SameExpiry, SamePass, SameTerminal
  DEF Twin!StepTerminal, Second!StepTerminal
<1> QED
  BY <1>1, <1>2, <1>3, <1>4, <1>5, <1>6 DEF Twin!Step, Second!Step

\* The events are those of the first monitor.
LEMMA SameEvents == Second!AnyEvent = AnyEvent
BY
DEF AnyEvent, Second!AnyEvent, Observations, Second!Observations, TerminalKinds,
    Second!TerminalKinds, K3, Second!K3

\* The inductive invariant of one monitor holds of the second as well.
LEMMA SecondTokens ==
  ASSUME Second!TokenInv, NEW e \in AnyEvent, Twin!Step(e)
  PROVE  Second!TokenInv'
BY SameStep, SameEvents, Second!StepTokens, BoundAssumption, GuardAssumption,
   TicksAssumption
   DEF Second!StepTokens
-----------------------------------------------------------------------------
(* The twins.                                                               *)

\* The same duty with the same outcome, found breached no later by the second.
SameOutcome(o, p) ==
  /\ p.trigger_tick = o.trigger_tick /\ p.deadline = o.deadline
  /\ p.status = o.status /\ p.response = o.response
  /\ p.effective_time = o.effective_time
  /\ o.status = "Breached" => p.discovery_time <= o.discovery_time

\* The tokens recorded in a ledger, and the responses another one holds.
Heard(occs) == UNION {occs[i].candidates : i \in DOMAIN occs}
Answers(others) == [i \in DOMAIN others |-> others[i].response]

\* The second monitor's responses are the allocation that the first one's pass
\* would make if its guard became true now.
Foretold(occs, others) ==
  /\ Answers(others) \in [DOMAIN occs -> Heard(occs) \cup {NoTick}]
  /\ IsAllocation(occs, DOMAIN occs, Heard(occs), Answers(others))

\* `guard` is what the first monitor knows, `value` what the second does.
Paired(occs, others, guard, value) ==
  /\ SameDates(occs, others)
  /\ guard = "U" /\ value = "T" => Foretold(occs, others)
  /\ guard # "U" => \A i \in DOMAIN occs : SameOutcome(occs[i], others[i])

\* Nothing but dates, candidates and responses matters to what is foretold.
LEMMA StillForetold ==
  ASSUME NEW D \in SUBSET Nat, NEW occs \in [D -> Occurrence],
         NEW others \in [D -> Occurrence],
         NEW after \in [D -> Occurrence], NEW afters \in [D -> Occurrence],
         SameDates(occs, after), Foretold(occs, others),
         \A i \in D : /\ after[i].candidates = occs[i].candidates
                      /\ afters[i].response = others[i].response
  PROVE  Foretold(after, afters)
<1>1. Heard(after) = Heard(occs)
  BY DEF Heard
<1>2. Answers(afters) = Answers(others)
  BY DEF Answers
<1> DEFINE heard == Heard(occs)
           answers == Answers(others)
<1>3. IsAllocation(occs, D, heard, answers) /\ answers \in [D -> heard \cup {NoTick}]
  BY DEF Foretold
<1> HIDE DEF heard, answers
<1>4. IsAllocation(after, D, heard, answers)
  BY <1>3, SameAllocation
<1> QED
  BY <1>1, <1>2, <1>3, <1>4 DEF Foretold, heard, answers

\* What a phase may do to one record without touching what is foretold.
Dateless(o, p) ==
  /\ p.trigger_tick = o.trigger_tick /\ p.deadline = o.deadline
  /\ p.candidates = o.candidates /\ p.response = o.response

\* An expiry phase touches neither dates nor tokens.
LEMMA ExpireDateless ==
  ASSUME NEW D, NEW occs \in [D -> Occurrence], NEW late, NEW now \in Nat, NEW i \in D
  PROVE  Dateless(occs[i], Expire(occs, late, now)[i])
<1>1. occs[i] \in Occurrence
  OBVIOUS
<1>2. Dateless(occs[i], Breach(occs[i], "UnmetAtExpiry", now))
  BY <1>1 DEF Dateless, Breach, Occurrence
<1>3. Dateless(occs[i], GuardRemainsUnknownAtDeadline(occs[i]))
  BY <1>1 DEF Dateless, GuardRemainsUnknownAtDeadline, Occurrence
<1> QED
  BY <1>2, <1>3 DEF Expire, Dateless

\* Two paired ledgers expire alike.
LEMMA ExpirePairs ==
  ASSUME NEW D \in SUBSET Nat, NEW occs \in [D -> Occurrence],
         NEW others \in [D -> Occurrence], NEW late, NEW now \in Nat,
         NEW guard, NEW value, Paired(occs, others, guard, value)
  PROVE  Paired(Expire(occs, late, now), Expire(others, late, now), guard, value)
<1> DEFINE after == Expire(occs, late, now)
           afters == Expire(others, late, now)
<1>1. after \in [D -> Occurrence] /\ afters \in [D -> Occurrence]
  BY ExpireType
<1>2. \A i \in D : Dateless(occs[i], after[i]) /\ Dateless(others[i], afters[i])
  BY ExpireDateless
<1>3. guard # "U" => \A i \in D : SameOutcome(after[i], afters[i])
  <2> SUFFICES ASSUME guard # "U", NEW i \in D PROVE SameOutcome(after[i], afters[i])
    OBVIOUS
  <2>1. /\ SameOutcome(occs[i], others[i])
        /\ occs[i] \in Occurrence
        /\ others[i] \in Occurrence
    BY DEF Paired
  <2>2. SameOutcome(Breach(occs[i], "UnmetAtExpiry", now),
                    Breach(others[i], "UnmetAtExpiry", now))
    BY <2>1 DEF SameOutcome, Breach, Occurrence
  <2>3. SameOutcome(GuardRemainsUnknownAtDeadline(occs[i]),
                    GuardRemainsUnknownAtDeadline(others[i]))
    BY <2>1 DEF SameOutcome, GuardRemainsUnknownAtDeadline, Occurrence
  <2>4. occs[i].status = others[i].status
    BY <2>1 DEF SameOutcome
  <2> QED
    BY <2>1, <2>2, <2>3, <2>4 DEF Expire
<1> HIDE DEF after, afters
<1>4. SameDates(occs, others) /\ SameDates(occs, after) /\ SameDates(after, afters)
  BY <1>1, <1>2 DEF Paired, SameDates, Dateless
<1>5. Foretold(occs, others) => Foretold(after, afters)
  BY <1>1, <1>2, <1>4, StillForetold, SMTT(20) DEF Dateless
<1>6. Paired(after, afters, guard, value)
  BY <1>1, <1>3, <1>4, <1>5 DEF Paired
<1> QED
  BY <1>6 DEF after, afters

\* Both expiry phases, before the event and at its boundary.
LEMMA ExpiriesPair ==
  ASSUME NEW D \in SUBSET Nat, NEW occs \in [D -> Occurrence],
         NEW others \in [D -> Occurrence], NEW now \in Nat,
         NEW guard, NEW value, Paired(occs, others, guard, value)
  PROVE  /\ Paired(PreExpire(occs, now), PreExpire(others, now), guard, value)
         /\ Paired(BoundaryExpire(occs, now), BoundaryExpire(others, now), guard, value)
<1>1. {i \in DOMAIN others : others[i].deadline < now}
        = {i \in DOMAIN occs : occs[i].deadline < now}
  BY DEF Paired, SameDates
<1>2. {i \in DOMAIN others : others[i].deadline = now}
        = {i \in DOMAIN occs : occs[i].deadline = now}
  BY DEF Paired, SameDates
<1> QED
  BY <1>1, <1>2, ExpirePairs DEF PreExpire, BoundaryExpire

\* Two paired ledgers are converted alike by a terminal event.
LEMMA TerminalPairs ==
  ASSUME NEW D \in SUBSET Nat, NEW occs \in [D -> Occurrence],
         NEW others \in [D -> Occurrence], NEW kind, NEW now \in Nat,
         NEW guard, NEW value, Paired(occs, others, guard, value)
  PROVE  Paired(TerminalConversion(occs, kind, now), TerminalConversion(others, kind, now),
                guard, value)
<1> DEFINE after == TerminalConversion(occs, kind, now)
           afters == TerminalConversion(others, kind, now)
<1>1. after \in [D -> Occurrence] /\ afters \in [D -> Occurrence]
  BY TerminalType
<1>2. ASSUME NEW o \in Occurrence
      PROVE  /\ Dateless(o, ConvertOpen(o, kind, now))
             /\ Dateless(o, ConvertConditional(o, kind))
  BY <1>2 DEF Dateless, ConvertOpen, ConvertConditional, Breach, Occurrence
<1>3. \A i \in D : Dateless(occs[i], after[i]) /\ Dateless(others[i], afters[i])
  <2> SUFFICES ASSUME NEW i \in D
               PROVE  Dateless(occs[i], after[i]) /\ Dateless(others[i], afters[i])
    OBVIOUS
  <2>1. /\ after[i] \in {occs[i], ConvertOpen(occs[i], kind, now),
                         ConvertConditional(occs[i], kind)}
        /\ afters[i] \in {others[i], ConvertOpen(others[i], kind, now),
                          ConvertConditional(others[i], kind)}
    BY DEF TerminalConversion
  <2> QED
    BY <1>2, <2>1 DEF Dateless
<1>4. guard # "U" => \A i \in D : SameOutcome(after[i], afters[i])
  <2> SUFFICES ASSUME guard # "U", NEW i \in D PROVE SameOutcome(after[i], afters[i])
    OBVIOUS
  <2>1. /\ SameOutcome(occs[i], others[i])
        /\ occs[i] \in Occurrence
        /\ others[i] \in Occurrence
    BY DEF Paired
  <2>2. SameOutcome(ConvertOpen(occs[i], kind, now), ConvertOpen(others[i], kind, now))
    BY <2>1 DEF SameOutcome, ConvertOpen, Breach, Occurrence
  <2>3. SameOutcome(ConvertConditional(occs[i], kind), ConvertConditional(others[i], kind))
    BY <2>1 DEF SameOutcome, ConvertConditional, Occurrence
  <2>4. occs[i].status = others[i].status
    BY <2>1 DEF SameOutcome
  <2> QED
    BY <2>1, <2>2, <2>3, <2>4 DEF TerminalConversion
<1> HIDE DEF after, afters
<1>5. SameDates(occs, others) /\ SameDates(occs, after) /\ SameDates(after, afters)
  BY <1>1, <1>3 DEF Paired, SameDates, Dateless
<1>6. Foretold(occs, others) => Foretold(after, afters)
  BY <1>1, <1>3, <1>5, StillForetold, SMTT(20) DEF Dateless
<1>7. Paired(after, afters, guard, value)
  BY <1>1, <1>4, <1>5, <1>6 DEF Paired
<1> QED
  BY <1>7 DEF after, afters

\* A duty triggered in both ledgers keeps them paired: it has no token yet.
LEMMA TriggerPairs ==
  ASSUME NEW D \in SUBSET Nat, NEW occs \in [D -> Occurrence],
         NEW others \in [D -> Occurrence], NEW oid \in Nat, oid \notin D, NEW now \in Nat,
         NEW value \in {"T", "F"}, NEW guard \in {"U", value},
         Paired(occs, others, guard, value)
  PROVE  Paired(InstantiateTrigger(occs, oid, guard, now),
                InstantiateTrigger(others, oid, value, now), guard, value)
<1> DEFINE after == InstantiateTrigger(occs, oid, guard, now)
           afters == InstantiateTrigger(others, oid, value, now)
           E == D \cup {oid}
<1>1. after \in [E -> Occurrence] /\ afters \in [E -> Occurrence] /\ E \in SUBSET Nat
  BY TriggerType
<1>2. \A i \in D : after[i] = occs[i] /\ afters[i] = others[i]
  BY DEF InstantiateTrigger
<1>3. /\ after[oid] = TriggerAndGuardRule(now, now + Bound, guard)
      /\ afters[oid] = TriggerAndGuardRule(now, now + Bound, value)
  BY DEF InstantiateTrigger
<1> HIDE DEF after, afters
<1>4. /\ after[oid].candidates = {} /\ afters[oid].response = NoTick
      /\ afters[oid].trigger_tick = after[oid].trigger_tick
      /\ afters[oid].deadline = after[oid].deadline
      /\ after[oid].status # "Breached"
      /\ afters[oid].response = after[oid].response
      /\ afters[oid].effective_time = after[oid].effective_time
      /\ guard = value => afters[oid].status = after[oid].status
  BY <1>3 DEF TriggerAndGuardRule, NewOccurrence
<1>5. SameDates(after, afters)
  <2>1. DOMAIN after = E /\ DOMAIN afters = E /\ DOMAIN occs = D /\ DOMAIN others = D
    BY <1>1
  <2> QED
    BY <1>2, <1>4, <2>1 DEF Paired, SameDates
<1>6. Foretold(occs, others) => Foretold(after, afters)
  <2> SUFFICES ASSUME Foretold(occs, others) PROVE Foretold(after, afters)
    OBVIOUS
  <2> DEFINE heard == Heard(occs)
             a == Answers(others)
             b == Answers(afters)
  <2>1. Heard(after) = heard
    <3>1. \A k : k \in Heard(after) <=> \E i \in E : k \in after[i].candidates
      BY <1>1 DEF Heard
    <3>2. \A k : k \in heard <=> \E i \in D : k \in occs[i].candidates
      BY DEF Heard
    <3>3. \A i \in D : after[i].candidates = occs[i].candidates
      BY <1>2
    <3> HIDE DEF heard
    <3>4. \A k : k \in Heard(after) <=> k \in heard
      BY <1>4, <3>1, <3>2, <3>3
    <3> QED
      BY <3>4
  <2>2. /\ a \in [D -> heard \cup {NoTick}]
        /\ IsAllocation(occs, D, heard, a)
        /\ heard \subseteq Nat
    <3>1. heard \subseteq Nat
      <4>1. \A i \in D : occs[i].candidates \in SUBSET Nat
        BY DEF Occurrence
      <4> QED
        BY <4>1 DEF Heard
    <3> QED
      BY <3>1 DEF Foretold
  <2>3. DOMAIN b = E /\ b[oid] = NoTick /\ \A i \in D : b[i] = a[i]
    BY <1>1, <1>2, <1>4 DEF Answers
  <2>4. b \in [E -> heard \cup {NoTick}]
    BY <2>2, <2>3 DEF Answers
  <2> HIDE DEF heard, a, b
  <2>5. ASSUME NEW k \in heard
        PROVE  {i \in E : b[i] = k} = IF Takers(after, E, b, k) = {} THEN {}
                                     ELSE {First(after, Takers(after, E, b, k))}
    <3>1. k # NoTick
      BY <2>2 DEF NoTick
    <3>2. {i \in E : b[i] = k} = {i \in D : a[i] = k}
      BY <2>3, <3>1
    <3> DEFINE T == Takers(occs, D, a, k)
    <3>3. Takers(after, E, b, k) = T
      BY <1>2, <1>4, <2>3 DEF Takers
    <3>4. {i \in D : a[i] = k} = IF T = {} THEN {} ELSE {First(occs, T)}
      BY <2>2 DEF IsAllocation
    <3>5. T \in SUBSET D
      BY DEF Takers
    <3> HIDE DEF T
    <3>6. ASSUME T # {} PROVE First(after, T) = First(occs, T)
      <4>1. /\ First(occs, T) \in T
            /\ \A j \in T \ {First(occs, T)} : Precedes(occs, First(occs, T), j)
        BY <3>5, <3>6, FirstIsLeast
      <4> DEFINE f == First(occs, T)
      <4>2. f \in T /\ \A j \in T \ {f} : Precedes(occs, f, j)
        BY <4>1
      <4> HIDE DEF f
      <4>3. \A j \in T \ {f} : Precedes(after, f, j)
        BY <1>2, <3>5, <4>2 DEF Precedes
      <4>4. T \in SUBSET E
        BY <3>5
      <4>5. First(after, T) = f
        BY ONLY <1>1, <4>2, <4>3, <4>4, FirstIsUnique
      <4> QED
        BY <4>5 DEF f
    <3> QED
      BY <3>2, <3>3, <3>4, <3>6
  <2>6. IsAllocation(after, E, heard, b)
    BY <2>5 DEF IsAllocation
  <2> QED
    BY <1>1, <2>1, <2>4, <2>6 DEF Foretold, b
<1>7. guard # "U" => \A i \in E : SameOutcome(after[i], afters[i])
  BY <1>2, <1>4 DEF Paired, SameOutcome
<1>8. Paired(after, afters, guard, value)
  BY <1>1, <1>5, <1>6, <1>7 DEF Paired
<1> QED
  BY <1>8 DEF after, afters

\* Once the guard is known both monitors settle the same duty.
LEMMA KnownRegisterPairs ==
  ASSUME NEW D \in SUBSET Nat, NEW occs \in [D -> Occurrence],
         NEW others \in [D -> Occurrence], NEW token \in Nat,
         NEW value \in {"T", "F"}, Paired(occs, others, value, value),
         \A i \in D : occs[i].status \notin Conditional
  PROVE  Paired(RegisterResponseToken(occs, token), RegisterResponseToken(others, token),
                value, value)
<1> DEFINE S == Eligible(occs, token)
           after == RegisterResponseToken(occs, token)
           afters == RegisterResponseToken(others, token)
<1>1. \A i \in D : SameOutcome(occs[i], others[i])
  BY DEF Paired
<1>2. SameDates(occs, others)
  BY DEF Paired
<1>3. Eligible(others, token) = S /\ S \in SUBSET D
  BY <1>1 DEF Eligible, SameOutcome
<1> HIDE DEF S
<1>4. CASE S # {}
  <2> DEFINE f == First(occs, S)
  <2>1. First(others, S) = f /\ f \in D
    <3>1. f \in S
      BY <1>3, <1>4, FirstIsLeast
    <3>2. First(others, S) = First(occs, S)
      BY <1>2, <1>3, <1>4, SameFirst
    <3> QED
      BY <1>3, <3>1, <3>2
  <2>2. /\ after = [occs EXCEPT ![f] = Discharge(occs[f], token)]
        /\ afters = [others EXCEPT ![f] = Discharge(others[f], token)]
    BY <1>3, <1>4, <2>1 DEF RegisterResponseToken, S
  <2> HIDE DEF f, after, afters
  <2>3. /\ DOMAIN after = D /\ DOMAIN afters = D
        /\ after[f] = Discharge(occs[f], token)
        /\ afters[f] = Discharge(others[f], token)
        /\ \A i \in D \ {f} : after[i] = occs[i] /\ afters[i] = others[i]
    BY <2>1, <2>2
  <2>4. /\ occs[f] \in Occurrence
        /\ others[f] \in Occurrence
        /\ SameOutcome(occs[f], others[f])
    BY <1>1, <2>1
  <2>5. SameOutcome(after[f], afters[f])
    BY <2>3, <2>4 DEF Discharge, SameOutcome, Occurrence
  <2>6. \A i \in D : SameOutcome(after[i], afters[i])
    BY <1>1, <2>3, <2>5
  <2>7. Paired(after, afters, value, value)
    BY <2>3, <2>6 DEF Paired, SameDates, SameOutcome
  <2> QED
    BY <2>7 DEF after, afters
<1>5. CASE S = {}
  <2>1. \A i \in D : others[i].status \notin Conditional
    BY <1>1 DEF SameOutcome
  <2>2. after = occs /\ afters = others
    BY <1>3, <1>5, <2>1 DEF RegisterResponseToken, S
  <2> QED
    BY <2>2
<1> QED
  BY <1>4, <1>5

\* While it is not, the first records the token with every duty in time for it,
\* and the second gives it to the one that the pass would give it to.
LEMMA UnknownRegisterPairs ==
  ASSUME NEW D \in SUBSET Nat, NEW occs \in [D -> Occurrence],
         NEW others \in [D -> Occurrence], NEW token \in Nat,
         SameDates(occs, others), Foretold(occs, others),
         \A i \in D : /\ occs[i].status \in Conditional
                      /\ others[i].status \in {"Open", "Discharged", "Breached"}
                      /\ others[i].status = "Breached" => others[i].deadline < token
                      /\ others[i].response < token
                      /\ others[i].response # NoTick <=> others[i].status = "Discharged",
         \A k \in Heard(occs) : k < token
  PROVE  /\ SameDates(RegisterResponseToken(occs, token), RegisterResponseToken(others, token))
         /\ Foretold(RegisterResponseToken(occs, token), RegisterResponseToken(others, token))
<1> DEFINE S == Eligible(others, token)
           after == RegisterResponseToken(occs, token)
           afters == RegisterResponseToken(others, token)
           InTimeFor == {i \in D : token <= occs[i].deadline}
<1>0. \A i \in D : /\ occs[i].deadline \in Nat /\ others[i].deadline = occs[i].deadline
                   /\ occs[i].candidates \in SUBSET Nat
                   /\ others[i].response \in Nat \cup {NoTick}
  BY DEF SameDates, Occurrence
<1>1. after \in [D -> Occurrence] /\ afters \in [D -> Occurrence]
  BY RegisterType
<1>2. Eligible(occs, token) = {}
  BY DEF Eligible, Conditional
<1>3. \A i \in D : after[i] = IF i \in InTimeFor
                             THEN [occs[i] EXCEPT !.candidates = occs[i].candidates \cup {token}]
                             ELSE occs[i]
  BY <1>2 DEF RegisterResponseToken
<1>4. \A i \in D : others[i].status \notin Conditional
  BY DEF Conditional
<1>5. afters = IF S = {} THEN others
               ELSE [others EXCEPT ![First(others, S)] = Discharge(others[First(others, S)], token)]
  BY <1>4 DEF RegisterResponseToken
<1>6. S = {i \in D : i \in InTimeFor /\ others[i].response = NoTick}
  <2>1. ASSUME NEW i \in D
        PROVE  (others[i].status = "Open" /\ token <= others[i].deadline)
                 <=> (i \in InTimeFor /\ others[i].response = NoTick)
    <3>1. /\ occs[i].deadline \in Nat /\ others[i].deadline = occs[i].deadline
          /\ i \in InTimeFor <=> token <= occs[i].deadline
      BY <1>0
    <3>2. /\ others[i].status \in {"Open", "Discharged", "Breached"}
          /\ others[i].status = "Breached" => others[i].deadline < token
          /\ others[i].response # NoTick <=> others[i].status = "Discharged"
      OBVIOUS
    <3> HIDE DEF InTimeFor
    <3> QED
      BY <3>1, <3>2
  <2>2. S = {i \in D : others[i].status = "Open" /\ token <= others[i].deadline}
    BY DEF Eligible
  <2> HIDE DEF S, InTimeFor
  <2> QED
    BY <2>1, <2>2
<1>7. S \in SUBSET D
  BY <1>6
<1> DEFINE f == First(others, S)
<1>8. S # {} => f \in S /\ f \in D
  BY <1>7, FirstIsLeast
<1> HIDE DEF after, afters, S
<1>9. \A i \in D : /\ after[i].trigger_tick = occs[i].trigger_tick
                   /\ after[i].deadline = occs[i].deadline
                   /\ after[i].candidates = IF i \in InTimeFor THEN occs[i].candidates \cup {token}
                                            ELSE occs[i].candidates
  <2> SUFFICES ASSUME NEW i \in D
               PROVE  /\ after[i].trigger_tick = occs[i].trigger_tick
                      /\ after[i].deadline = occs[i].deadline
                      /\ after[i].candidates = IF i \in InTimeFor
                             THEN occs[i].candidates \cup {token}
                                            ELSE occs[i].candidates
    OBVIOUS
  <2>1. occs[i] \in Occurrence
    OBVIOUS
  <2> QED
    BY <1>3, <2>1 DEF Occurrence
<1>10. \A i \in D : /\ afters[i].trigger_tick = others[i].trigger_tick
                    /\ afters[i].deadline = others[i].deadline
                    /\ afters[i].response = IF S # {} /\ i = f THEN token ELSE others[i].response
  <2> SUFFICES ASSUME NEW i \in D
               PROVE  /\ afters[i].trigger_tick = others[i].trigger_tick
                      /\ afters[i].deadline = others[i].deadline
                      /\ afters[i].response = IF S # {} /\ i = f THEN token ELSE others[i].response
    OBVIOUS
  <2>1. others[i] \in Occurrence
    OBVIOUS
  <2>2. afters[i] = IF S # {} /\ i = f THEN Discharge(others[i], token) ELSE others[i]
    BY <1>5, <1>8
  <2> QED
    BY <2>1, <2>2 DEF Discharge, Occurrence
<1>11. SameDates(after, afters) /\ SameDates(occs, after) /\ SameDates(others, after)
  BY <1>1, <1>9, <1>10 DEF SameDates
<1> DEFINE heard == Heard(occs)
           a == Answers(others)
           b == Answers(afters)
<1>12. /\ a \in [D -> heard \cup {NoTick}]
       /\ IsAllocation(occs, D, heard, a)
       /\ heard \subseteq Nat
  BY <1>0 DEF Foretold, Heard
<1>13. Heard(after) = IF InTimeFor = {} THEN heard ELSE heard \cup {token}
  <2>1. Heard(after) = UNION {after[i].candidates : i \in D}
    BY <1>1 DEF Heard
  <2>2. heard = UNION {occs[i].candidates : i \in D}
    BY DEF Heard
  <2> HIDE DEF heard, InTimeFor
  <2>3. \A k : k \in Heard(after) <=> k \in heard \/ (k = token /\ \E i \in D : i \in InTimeFor)
    <3> SUFFICES ASSUME NEW k
                 PROVE  (\E i \in D : k \in after[i].candidates)
                          <=> \/ \E i \in D : k \in occs[i].candidates
                              \/ k = token /\ \E i \in D : i \in InTimeFor
      BY <2>1, <2>2
    <3>1. \A i \in D : k \in after[i].candidates
                         <=> k \in occs[i].candidates \/ (i \in InTimeFor /\ k = token)
      <4> SUFFICES ASSUME NEW i \in D
                   PROVE  k \in after[i].candidates
                            <=> k \in occs[i].candidates \/ (i \in InTimeFor /\ k = token)
        OBVIOUS
      <4>1. after[i].candidates = IF i \in InTimeFor THEN occs[i].candidates \cup {token}
                                  ELSE occs[i].candidates
        BY <1>9
      <4> QED
        BY <4>1
    <3> QED
      BY <3>1
  <2>4. (\E i \in D : i \in InTimeFor) <=> InTimeFor # {}
    BY DEF InTimeFor
  <2> QED
    BY <2>3, <2>4
<1>14. /\ \A i \in D : a[i] = others[i].response
       /\ \A i \in D : b[i] = IF S # {} /\ i = f THEN token ELSE a[i]
       /\ DOMAIN b = D
  BY <1>1, <1>10 DEF Answers
<1>15. \A i \in D : a[i] < token /\ a[i] \in Nat \cup {NoTick}
  BY <1>0, <1>14
<1>16. token \notin heard /\ NoTick \notin Nat /\ NoTick < token
  BY <1>12 DEF NoTick
<1>17. S # {} => InTimeFor # {}
  BY <1>6, <1>8
<1>18. b \in [D -> Heard(after) \cup {NoTick}]
  <2>1. b = [i \in D |-> b[i]]
    BY <1>1 DEF Answers
  <2>2. \A i \in D : b[i] \in Heard(after) \cup {NoTick}
    BY <1>12, <1>13, <1>14, <1>17
  <2> QED
    BY <2>1, <2>2
<1> HIDE DEF heard, a, b, f, InTimeFor
<1>19. \A T \in SUBSET D :
         T # {} => First(after, T) = First(occs, T) /\ First(after, T) = First(others, T)
  BY <1>1, <1>11, SameFirst
<1>20. ASSUME NEW k \in heard
       PROVE  {i \in D : b[i] = k} = IF Takers(after, D, b, k) = {} THEN {}
                                    ELSE {First(after, Takers(after, D, b, k))}
  <2>1. k < token /\ k \in Nat /\ k # token
    BY <1>12 DEF heard
  <2>2. {i \in D : b[i] = k} = {i \in D : a[i] = k}
    BY <1>6, <1>8, <1>14, <1>16, <2>1, ZenonT(40)
  <2> DEFINE T == Takers(occs, D, a, k)
  <2>3. \A i \in D : (\E j \in {b[i]} \ {NoTick} : j < k) <=> (\E j \in {a[i]} \ {NoTick} : j < k)
    <3> SUFFICES ASSUME NEW i \in D
                 PROVE  (b[i] # NoTick /\ b[i] < k) <=> (a[i] # NoTick /\ a[i] < k)
      OBVIOUS
    <3>1. CASE S # {} /\ i = f
      BY <1>6, <1>8, <1>14, <1>16, <2>1, <3>1
    <3>2. CASE ~ (S # {} /\ i = f)
      BY <1>14, <3>2
    <3> QED
      BY <3>1, <3>2
  <2>4. Takers(after, D, b, k) = T
    <3>1. \A i \in D : k \in after[i].candidates <=> k \in occs[i].candidates
      BY <1>9, <2>1
    <3>2. \A i \in D : after[i].deadline = occs[i].deadline
      BY <1>9
    <3> QED
      BY <2>3, <3>1, <3>2 DEF Takers
  <2>5. {i \in D : a[i] = k} = IF T = {} THEN {} ELSE {First(occs, T)}
    BY <1>12 DEF IsAllocation
  <2>6. T \in SUBSET D
    BY DEF Takers
  <2> HIDE DEF T
  <2> QED
    BY <1>19, <2>2, <2>4, <2>5, <2>6
<1>21. ASSUME InTimeFor # {}
       PROVE  {i \in D : b[i] = token} = IF Takers(after, D, b, token) = {} THEN {}
                                    ELSE {First(after, Takers(after, D, b, token))}
  <2>1. {i \in D : b[i] = token} = IF S = {} THEN {} ELSE {f}
    <3>1. \A i \in D : a[i] # token
      BY <1>15
    <3>2. \A i \in D : b[i] = token <=> S # {} /\ i = f
      BY <1>14, <3>1
    <3> QED
      BY <1>8, <3>2
  <2>2. \A i \in D : token \in after[i].candidates <=> i \in InTimeFor
    <3> SUFFICES ASSUME NEW i \in D
                 PROVE  token \in after[i].candidates <=> i \in InTimeFor
      OBVIOUS
    <3>1. token \notin occs[i].candidates
      BY <1>16 DEF heard, Heard
    <3> QED
      BY <1>9, <3>1
  <2>3. \A i \in D : (\E j \in {b[i]} \ {NoTick} : j < token) <=> a[i] # NoTick
    <3> SUFFICES ASSUME NEW i \in D
                 PROVE  (b[i] # NoTick /\ b[i] < token) <=> a[i] # NoTick
      OBVIOUS
    <3>1. CASE S # {} /\ i = f
      BY <1>6, <1>8, <1>14, <3>1
    <3>2. CASE ~ (S # {} /\ i = f)
      BY <1>14, <1>15, <3>2
    <3> QED
      BY <3>1, <3>2
  <2>4. \A i \in D : token <= after[i].deadline <=> i \in InTimeFor
    BY <1>9 DEF InTimeFor
  <2>5. Takers(after, D, b, token) = S
    BY <1>6, <1>14, <2>2, <2>3, <2>4, ZenonT(40) DEF Takers
  <2>6. S # {} => First(after, S) = f
    BY <1>7, <1>19 DEF f
  <2> QED
    BY <2>1, <2>5, <2>6
<1>22. IsAllocation(after, D, Heard(after), b)
  BY <1>13, <1>20, <1>21 DEF IsAllocation
<1>23. Foretold(after, afters)
  BY <1>1, <1>18, <1>22 DEF Foretold, b
<1> QED
  BY <1>11, <1>23 DEF after, afters

\* When the guard becomes true the pass gives every duty the response, or the
\* want of one, that the second monitor recorded as events came.
LEMMA TruePairs ==
  ASSUME NEW D \in SUBSET Nat, NEW occs \in [D -> Occurrence],
         NEW others \in [D -> Occurrence], NEW now \in Nat,
         NEW used, NEW seen, NEW moreUsed, NEW moreSeen,
         SoundLedger(occs, "U", now), SoundLedger(others, "T", now),
         Accounts(occs, used, seen), Accounts(others, moreUsed, moreSeen),
         Paired(occs, others, "U", "T"),
         \A i \in D : others[i].status = "Breached" => others[i].deadline < now,
         NEW alloc \in Allocations(occs, Activated(occs, "T"), used)
  PROVE  Paired(ResolveConditionals(occs, "T", alloc, now), others, "T", "T")
<1>1. Activated(occs, "T") = D
  BY DEF SoundLedger, Sound, Coherent, Activated
<1>2. used = {}
  <2>1. \A i \in D : occs[i].response = NoTick
    BY DEF SoundLedger, Sound, Coherent, Accounts, Holding, Conditional
  <2> QED
    BY <2>1 DEF Accounts, Holding
<1>3. Recorded(occs, D, used) = Heard(occs)
  BY <1>2 DEF Recorded, Heard
<1>4. Heard(occs) \in SUBSET Nat
  <2>1. \A i \in D : occs[i].candidates \in SUBSET Nat
    BY DEF Occurrence
  <2> QED
    BY <2>1 DEF Heard
<1>5. Answers(others) \in Allocations(occs, D, used)
  BY <1>3 DEF Paired, Foretold, Allocations
<1>6. alloc \in Allocations(occs, D, used)
  BY <1>1
<1>7. alloc = Answers(others)
  BY <1>3, <1>4, <1>5, <1>6, OneAllocation
<1>8. DOMAIN alloc = D /\ \A i \in D : alloc[i] = others[i].response
  BY <1>7 DEF Answers
<1> DEFINE after == ResolveConditionals(occs, "T", alloc, now)
<1>9. \A i \in D : after[i] = Activate(occs[i], others[i].response, now)
  BY <1>8 DEF ResolveConditionals, GuardsBecomeTrue
<1>10. DOMAIN after = D
  BY DEF ResolveConditionals
<1> HIDE DEF after
<1>11. ASSUME NEW i \in D
       PROVE  SameOutcome(after[i], others[i])
  <2> DEFINE o == occs[i]
             p == others[i]
  <2>1. /\ o \in Occurrence /\ p \in Occurrence
        /\ p.trigger_tick = o.trigger_tick /\ p.deadline = o.deadline
    BY DEF Paired, SameDates
  <2>2. /\ InTime(p, now) /\ Coherent(p, "T") /\ Dated(p, now) /\ Dated(o, now)
        /\ Coherent(o, "U")
    BY DEF SoundLedger, Sound
  <2>3. p.response # NoTick <=> p.status = "Discharged"
    BY DEF Accounts, Holding
  <2>4. p.status = "Breached" => p.deadline < now
    OBVIOUS
  <2>5. after[i] = Activate(o, p.response, now)
    BY <1>9
  <2>6. o.response = NoTick /\ o.effective_time = NoTick
    <3>1. o.status \in Conditional
      BY <2>2 DEF Coherent
    <3>2. o.response # NoTick <=> o.status = "Discharged"
      BY DEF Accounts, Holding
    <3> QED
      BY <2>2, <3>1, <3>2 DEF Dated, Conditional
  <2>7. p.deadline \in Nat /\ o.deadline \in Nat
    BY <2>1 DEF Occurrence
  <2> HIDE DEF o, p
  <2>8. CASE p.response # NoTick
    <3>1. after[i] = Discharge(o, p.response)
      BY <2>5, <2>8 DEF Activate
    <3>2. p.effective_time = NoTick /\ p.status = "Discharged"
      BY <2>2, <2>3, <2>8 DEF Dated
    <3> QED
      BY <2>1, <2>6, <3>1, <3>2 DEF SameOutcome, Discharge, Occurrence, p
  <2>9. CASE p.response = NoTick /\ now <= o.deadline
    <3>1. after[i] = [o EXCEPT !.status = "Open"]
      BY <2>5, <2>9 DEF Activate
    <3>2. p.status = "Open"
      BY <2>1, <2>2, <2>3, <2>4, <2>7, <2>9 DEF Coherent, p
    <3>3. p.effective_time = NoTick
      BY <2>2, <3>2 DEF Dated
    <3> QED
      BY <2>1, <2>6, <2>9, <3>1, <3>2, <3>3 DEF SameOutcome, Occurrence, p
  <2>10. CASE p.response = NoTick /\ o.deadline < now
    <3>1. after[i] = Breach(o, "RetroactiveActivationAfterDeadline", now)
      BY <2>5, <2>7, <2>10 DEF Activate
    <3>2. p.status = "Breached"
      BY <2>1, <2>2, <2>3, <2>7, <2>10 DEF Coherent, InTime
    <3>3. p.effective_time = p.deadline /\ p.discovery_time \in 0..now
      BY <2>2, <3>2 DEF Dated
    <3> QED
      BY <2>1, <2>6, <2>10, <3>1, <3>2, <3>3 DEF SameOutcome, Breach, Occurrence, p
  <2> QED
    BY <2>7, <2>8, <2>9, <2>10
<1>12. Paired(after, others, "T", "T")
  BY <1>10, <1>11 DEF Paired, SameDates, SameOutcome
<1> QED
  BY <1>12 DEF after

\* When it becomes false neither monitor's duties apply.
LEMMA FalsePairs ==
  ASSUME NEW D \in SUBSET Nat, NEW occs \in [D -> Occurrence],
         NEW others \in [D -> Occurrence], NEW now \in Nat,
         NEW used, NEW seen, NEW moreUsed, NEW moreSeen,
         SoundLedger(occs, "U", now), SoundLedger(others, "F", now),
         Accounts(occs, used, seen), Accounts(others, moreUsed, moreSeen),
         Paired(occs, others, "U", "F"), NEW alloc
  PROVE  Paired(ResolveConditionals(occs, "F", alloc, now), others, "F", "F")
<1> DEFINE after == ResolveConditionals(occs, "F", alloc, now)
<1>1. \A i \in D : after[i] = GuardBecomesFalse(occs[i])
  BY DEF ResolveConditionals, SoundLedger, Sound, Coherent
<1>2. DOMAIN after = D
  BY DEF ResolveConditionals
<1> HIDE DEF after
<1>3. ASSUME NEW i \in D
      PROVE  SameOutcome(after[i], others[i])
  <2>1. /\ occs[i] \in Occurrence
        /\ others[i].trigger_tick = occs[i].trigger_tick
        /\ others[i].deadline = occs[i].deadline
    BY DEF Paired, SameDates
  <2>2. /\ occs[i].status \in Conditional /\ others[i].status = "Inapplicable"
        /\ Dated(occs[i], now) /\ Dated(others[i], now)
    BY DEF SoundLedger, Sound, Coherent
  <2>3. /\ occs[i].response # NoTick <=> occs[i].status = "Discharged"
        /\ others[i].response # NoTick <=> others[i].status = "Discharged"
    BY DEF Accounts, Holding
  <2>4. /\ occs[i].response = NoTick /\ others[i].response = NoTick
        /\ occs[i].effective_time = NoTick /\ others[i].effective_time = NoTick
    BY <2>2, <2>3 DEF Dated, Conditional
  <2> QED
    BY <1>1, <2>1, <2>2, <2>4 DEF SameOutcome, GuardBecomesFalse, Occurrence
<1>4. Paired(after, others, "F", "F")
  BY <1>2, <1>3 DEF Paired, SameDates, SameOutcome
<1> QED
  BY <1>4 DEF after

\* Phase 6, whatever the first monitor knows before and after it.
LEMMA ResolvePairs ==
  ASSUME NEW D \in SUBSET Nat, NEW occs \in [D -> Occurrence],
         NEW others \in [D -> Occurrence], NEW now \in Nat,
         NEW used, NEW seen, NEW moreUsed, NEW moreSeen,
         NEW value \in {"T", "F"}, NEW known \in {"U", value}, NEW guard \in {"U", known},
         SoundLedger(occs, guard, now), SoundLedger(others, value, now),
         Accounts(occs, used, seen), Accounts(others, moreUsed, moreSeen),
         Paired(occs, others, guard, value),
         \A i \in D : others[i].status = "Breached" => others[i].deadline < now,
         NEW alloc \in Allocations(occs, Activated(occs, known), used),
         NEW more \in Allocations(others, Activated(others, value), moreUsed)
  PROVE  Paired(ResolveConditionals(occs, known, alloc, now),
                ResolveConditionals(others, value, more, now), known, value)
<1>1. \A i \in D : others[i].status \notin Conditional
  BY DEF SoundLedger, Sound, Coherent, Conditional
<1>2. ResolveConditionals(others, value, more, now) = others
  <2>1. DOMAIN more = {}
    BY <1>1 DEF Allocations, Activated
  <2>2. GuardsBecomeTrue(others, more, now) = others
    BY <2>1 DEF GuardsBecomeTrue
  <2> QED
    BY <1>1, <2>2 DEF ResolveConditionals
<1>3. CASE guard = known
  <2>1. \A i \in D : occs[i].status \in Conditional => known = "U"
    BY <1>3 DEF SoundLedger, Sound, Coherent, Conditional
  <2>2. DOMAIN alloc = {}
    BY <2>1 DEF Allocations, Activated
  <2>3. GuardsBecomeTrue(occs, alloc, now) = occs
    BY <2>2 DEF GuardsBecomeTrue
  <2>4. ResolveConditionals(occs, known, alloc, now) = occs
    BY <2>1, <2>3 DEF ResolveConditionals
  <2> QED
    BY <1>2, <1>3, <2>4
<1>4. CASE guard = "U" /\ known = "T" /\ value = "T"
  <2>1. Paired(ResolveConditionals(occs, "T", alloc, now), others, "T", "T")
    BY <1>4, TruePairs
  <2> QED
    BY <1>2, <1>4, <2>1
<1>5. CASE guard = "U" /\ known = "F" /\ value = "F"
  <2>1. Paired(ResolveConditionals(occs, "F", alloc, now), others, "F", "F")
    BY <1>5, FalsePairs
  <2> QED
    BY <1>2, <1>5, <2>1
<1> QED
  BY <1>3, <1>4, <1>5

\* A response that arrives while neither can use it leaves the dates alone.
LEMMA FalseRegisterPairs ==
  ASSUME NEW D \in SUBSET Nat, NEW occs \in [D -> Occurrence],
         NEW others \in [D -> Occurrence], NEW token \in Nat,
         SameDates(occs, others),
         \A i \in D : occs[i].status \in Conditional,
         \A i \in D : others[i].status = "Inapplicable"
  PROVE  SameDates(RegisterResponseToken(occs, token), RegisterResponseToken(others, token))
<1> DEFINE after == RegisterResponseToken(occs, token)
<1>1. Eligible(occs, token) = {} /\ Eligible(others, token) = {}
  BY DEF Eligible, Conditional
<1>2. RegisterResponseToken(others, token) = others
  BY <1>1 DEF RegisterResponseToken, Conditional
<1>3. DOMAIN after = D
  BY <1>1 DEF RegisterResponseToken
<1>4. ASSUME NEW i \in D
      PROVE  /\ after[i].trigger_tick = occs[i].trigger_tick
             /\ after[i].deadline = occs[i].deadline
  <2>1. occs[i] \in Occurrence
    OBVIOUS
  <2>2. after[i] \in {occs[i], [occs[i] EXCEPT !.candidates = @ \cup {token}]}
    BY <1>1 DEF RegisterResponseToken
  <2> QED
    BY <2>1, <2>2 DEF Occurrence
<1> HIDE DEF after
<1>5. SameDates(after, others)
  BY <1>3, <1>4 DEF SameDates
<1> QED
  BY <1>2, <1>5 DEF after

\* Phase 8, whatever the first monitor knows.
LEMMA RegisterPairs ==
  ASSUME NEW D \in SUBSET Nat, NEW occs \in [D -> Occurrence],
         NEW others \in [D -> Occurrence], NEW now \in Nat,
         NEW seen \in Nat \cup {-1}, seen < now,
         NEW used, NEW moreUsed,
         NEW value \in {"T", "F"}, NEW guard \in {"U", value},
         SoundLedger(occs, guard, now), SoundLedger(others, value, now),
         Accounts(occs, used, now), Accounts(others, moreUsed, now),
         Paired(occs, others, guard, value),
         \A i \in D : /\ others[i].status = "Breached" => others[i].deadline < now
                      /\ others[i].response <= seen
                      /\ \A k \in occs[i].candidates : k <= seen
  PROVE  Paired(RegisterResponseToken(occs, now), RegisterResponseToken(others, now),
                guard, value)
<1>1. CASE guard = value
  <2>1. \A i \in D : occs[i].status \notin Conditional
    BY <1>1 DEF SoundLedger, Sound, Coherent, Conditional
  <2> QED
    BY <1>1, <2>1, KnownRegisterPairs
<1>2. CASE guard = "U" /\ value = "T"
  <2>1. \A i \in D : /\ occs[i].status \in Conditional
                     /\ others[i].status \in {"Open", "Discharged", "Breached"}
    BY <1>2 DEF SoundLedger, Sound, Coherent
  <2>2. \A i \in D : others[i].response # NoTick <=> others[i].status = "Discharged"
    BY DEF Accounts, Holding
  <2>3. \A i \in D : others[i].response < now
    <3> SUFFICES ASSUME NEW i \in D PROVE others[i].response < now
      OBVIOUS
    <3>1. others[i].response \in Nat \cup {NoTick} /\ NoTick = -1
      BY DEF Occurrence, NoTick
    <3> QED
      BY <3>1
  <2>4. \A k \in Heard(occs) : k < now
    <3> SUFFICES ASSUME NEW i \in D, NEW k \in occs[i].candidates PROVE k < now
      BY DEF Heard
    <3>1. k \in Nat /\ k <= seen
      BY DEF Occurrence
    <3> QED
      BY <3>1
  <2>5. SameDates(occs, others) /\ Foretold(occs, others)
    BY <1>2 DEF Paired
  <2>6. \A i \in D : /\ occs[i].status \in Conditional
                     /\ others[i].status \in {"Open", "Discharged", "Breached"}
                     /\ others[i].status = "Breached" => others[i].deadline < now
                     /\ others[i].response < now
                     /\ others[i].response # NoTick <=> others[i].status = "Discharged"
    BY <2>1, <2>2, <2>3
  <2>7. /\ SameDates(RegisterResponseToken(occs, now), RegisterResponseToken(others, now))
        /\ Foretold(RegisterResponseToken(occs, now), RegisterResponseToken(others, now))
    BY <2>4, <2>5, <2>6, UnknownRegisterPairs
  <2> QED
    BY <1>2, <2>7 DEF Paired
<1>3. CASE guard = "U" /\ value = "F"
  <2>1. /\ \A i \in D : occs[i].status \in Conditional
        /\ \A i \in D : others[i].status = "Inapplicable"
    BY <1>3 DEF SoundLedger, Sound, Coherent
  <2>2. SameDates(RegisterResponseToken(occs, now), RegisterResponseToken(others, now))
    BY <2>1, FalseRegisterPairs DEF Paired
  <2> QED
    BY <1>3, <2>2 DEF Paired
<1> QED
  BY <1>1, <1>2, <1>3

-----------------------------------------------------------------------------
(* What MonitorProofs says of ledgers in the middle of a step, said of the   *)
(* second monitor's with the operators of the first.                         *)

\* The duties of the second monitor are records of the same kind.
LEMMA SameRecords == Second!Occurrence = Occurrence /\ Second!NoTick = NoTick
BY DEF Occurrence, Second!Occurrence, OccurrenceStatus, Second!OccurrenceStatus,
       BreachReasons, Second!BreachReasons, NoTick, Second!NoTick

\* What MonitorProofs calls sound of the second ledger is what it calls sound
\* of the first.
LEMMA SameSoundness ==
  \A occs, guard, now : Second!SoundLedger(occs, guard, now)
                          <=> SoundLedger(occs, guard, now)
<1>1. \A o, guard, now : Second!Sound(o, guard, now) <=> Sound(o, guard, now)
  BY SameRecords
  DEF Sound, Second!Sound, InTime, Second!InTime, Coherent, Second!Coherent,
      Conditional, Second!Conditional, Dated, Second!Dated
<1> QED
  BY <1>1 DEF SoundLedger, Second!SoundLedger

\* And the same of the accounts of tokens.
LEMMA SameAccounts ==
  \A occs, used, seen : Second!Accounts(occs, used, seen) <=> Accounts(occs, used, seen)
BY SameRecords
DEF Accounts, Second!Accounts, Queue, Second!Queue, Recording, Second!Recording,
    Holding, Second!Holding, InOrder, Second!InOrder, NoWaste, Second!NoWaste

\* What the second ledger satisfies once its deadlines have expired.
LEMMA SecondExpired ==
  ASSUME Second!TokenInv, t_mode = "Running", NEW now \in Nat, t_tick < now
  PROVE  /\ PreExpire(t_occurrences, now) \in [1..t_oid_counter -> Occurrence]
         /\ SoundLedger(PreExpire(t_occurrences, now), t_epistemic[GuardKey], now)
         /\ Accounts(PreExpire(t_occurrences, now), t_consumed, t_tick)
         /\ \A i \in 1..t_oid_counter :
              PreExpire(t_occurrences, now)[i].status = "Breached" =>
                PreExpire(t_occurrences, now)[i].deadline < now
<1>1. /\ Second!PreExpire(t_occurrences, now) \in [1..t_oid_counter -> Second!Occurrence]
      /\ Second!SoundLedger(Second!PreExpire(t_occurrences, now), t_epistemic[GuardKey], now)
      /\ Second!Accounts(Second!PreExpire(t_occurrences, now), t_consumed, t_tick)
      /\ \A i \in 1..t_oid_counter :
           Second!PreExpire(t_occurrences, now)[i].status = "Breached" =>
             Second!PreExpire(t_occurrences, now)[i].deadline < now
  BY Second!ExpiredAccounts, BoundAssumption, GuardAssumption, TicksAssumption
  DEF Second!ExpiredAccounts
<1> QED
  BY <1>1, SameExpiry, SameRecords, SameSoundness, SameAccounts

\* And once the event's trigger has been instantiated in it.
LEMMA SecondTriggered ==
  ASSUME Second!TokenInv, NEW e \in AnyEvent, Second!Accept(e),
         NEW alloc \in Second!Resolutions(e), NEW oid \in Second!FreshOids
  PROVE  /\ Second!Aliases(e, oid) \in SUBSET Nat
         /\ Second!Triggered(e, alloc, oid) \in [Second!Aliases(e, oid) -> Occurrence]
         /\ SoundLedger(Second!Triggered(e, alloc, oid), Second!Guard(e), e.tick)
         /\ Accounts(Second!Triggered(e, alloc, oid), t_consumed \cup Used(alloc), e.tick)
         /\ \A i \in Second!Aliases(e, oid) :
              /\ Second!Triggered(e, alloc, oid)[i].status = "Breached" =>
                   Second!Triggered(e, alloc, oid)[i].deadline < e.tick
              /\ Second!Triggered(e, alloc, oid)[i].response <= t_tick
              /\ \A k \in Second!Triggered(e, alloc, oid)[i].candidates : k <= t_tick
<1>1. e \in Second!AnyEvent
  BY SameEvents
<1>2. /\ Second!Aliases(e, oid) \in SUBSET Nat
      /\ Second!Triggered(e, alloc, oid) \in [Second!Aliases(e, oid) -> Second!Occurrence]
      /\ Second!SoundLedger(Second!Triggered(e, alloc, oid), Second!Guard(e), e.tick)
      /\ Second!Accounts(Second!Triggered(e, alloc, oid), t_consumed \cup Second!Used(alloc), e.tick)
      /\ \A i \in Second!Aliases(e, oid) :
           /\ Second!Triggered(e, alloc, oid)[i].status = "Breached" =>
                Second!Triggered(e, alloc, oid)[i].deadline < e.tick
           /\ Second!Triggered(e, alloc, oid)[i].response <= t_tick
           /\ \A k \in Second!Triggered(e, alloc, oid)[i].candidates : k <= t_tick
  BY <1>1, Second!TriggeredAccounts, BoundAssumption, GuardAssumption, TicksAssumption
  DEF Second!TriggeredAccounts
<1> QED
  BY <1>2, SamePass, SameRecords, SameSoundness, SameAccounts

-----------------------------------------------------------------------------
(* The twins agree on everything but the guard and what follows from it.    *)

Alike ==
  /\ mode = t_mode /\ terminal_kind = t_terminal_kind /\ fault = t_fault
  /\ tick = t_tick /\ oid_counter = t_oid_counter
  /\ \A k \in Keys \ {GuardKey} : epistemic[k] = t_epistemic[k]

TwinInv ==
  /\ TokenInv /\ Second!TokenInv
  /\ Alike
  /\ truth \in {"T", "F"}
  /\ t_epistemic[GuardKey] = truth /\ epistemic[GuardKey] \in {"U", truth}
  /\ Paired(occurrences, t_occurrences, epistemic[GuardKey], truth)

\* The guard's value is the only observation of it that an event carries.
Truthful(e) == GuardKey \in DOMAIN e.observations => e.observations[GuardKey] = truth

\* The types of the two monitors, from TwinInv.
LEMMA TwinTypes ==
  ASSUME TwinInv
  PROVE  /\ oid_counter \in Nat /\ tick \in Nat \cup {-1}
         /\ occurrences \in [1..oid_counter -> Occurrence]
         /\ t_occurrences \in [1..oid_counter -> Occurrence]
         /\ epistemic \in [Keys -> K3] /\ t_epistemic \in [Keys -> K3]
         /\ 1..oid_counter \in SUBSET Nat
         /\ Second!TypeOK
<1>1. TypeOK /\ Second!TypeOK
  BY DEF TwinInv, TokenInv, IInv, Second!TokenInv, Second!IInv
<1>2. Second!K3 = K3
  BY DEF K3, Second!K3
<1>3. t_occurrences \in [1..t_oid_counter -> Occurrence] /\ t_epistemic \in [Keys -> K3]
  BY <1>1, <1>2, SameRecords DEF Second!TypeOK
<1> QED
  BY <1>1, <1>3 DEF TypeOK, TwinInv, Alike

\* An event contradicts both monitors or neither, and leaves the first one
\* knowing the guard's value or nothing.
LEMMA TwinGuards ==
  ASSUME TwinInv, NEW e \in AnyEvent, Truthful(e)
  PROVE  /\ Contradicts(e.observations) <=> Second!Contradicts(e.observations)
         /\ Guard(e) \in {"U", truth} /\ epistemic[GuardKey] \in {"U", Guard(e)}
         /\ Second!Guard(e) = truth
         /\ \A k \in Keys \ {GuardKey} :
              Observed(e.observations)[k] = Second!Observed(e.observations)[k]
<1>1. DOMAIN e.observations \subseteq Keys
  <2>1. e.observations \in Observations
    BY DEF AnyEvent
  <2>2. CASE e.observations = <<>>
    BY <2>2
  <2>3. CASE \E k \in Keys : e.observations \in [{k} -> K3]
    BY <2>3
  <2> QED
    BY <2>1, <2>2, <2>3 DEF Observations
<1>2. /\ epistemic[GuardKey] \in {"U", truth} /\ t_epistemic[GuardKey] = truth
      /\ \A k \in Keys \ {GuardKey} : epistemic[k] = t_epistemic[k]
  BY DEF TwinInv, Alike
<1>3. \A k \in DOMAIN e.observations :
        Refines(epistemic[k], e.observations[k])
          <=> Second!Refines(t_epistemic[k], e.observations[k])
  BY <1>1, <1>2 DEF Truthful, Refines, Second!Refines
<1>4. GuardKey \in Keys
  BY GuardAssumption
<1> QED
  BY <1>1, <1>2, <1>3, <1>4
  DEF Contradicts, Second!Contradicts, Guard, Second!Guard, Observed, Second!Observed,
      Truthful

\* Phases 2 to 6 of an event that neither monitor refuses.
LEMMA TwinResolved ==
  ASSUME TwinInv, NEW e \in AnyEvent, Truthful(e), Accept(e), Second!Accept(e),
         NEW alloc \in Resolutions(e), NEW more \in Second!Resolutions(e)
  PROVE  /\ e.tick \in Nat
         /\ Resolved(e, alloc) \in [1..oid_counter -> Occurrence]
         /\ Second!Resolved(e, more) \in [1..oid_counter -> Occurrence]
         /\ Paired(Resolved(e, alloc), Second!Resolved(e, more), Guard(e), truth)
<1> DEFINE now == e.tick
           occs == PreExpire(occurrences, now)
           others == PreExpire(t_occurrences, now)
           D == 1..oid_counter
           known == Guard(e)
           guard == epistemic[GuardKey]
<1>1. /\ TokenInv /\ TypeOK /\ now \in Nat /\ tick < now
      /\ mode = "Running" /\ t_mode = "Running" /\ t_tick < now
      /\ t_oid_counter = oid_counter
      /\ truth \in {"T", "F"} /\ t_epistemic[GuardKey] = truth
  BY AcceptType DEF TwinInv, TokenInv, IInv, Accept, Alike, TypeOK
<1>2. /\ occs \in [D -> Occurrence]
      /\ SoundLedger(occs, guard, now) /\ Accounts(occs, consumed, tick)
  BY <1>1, ExpiredAccounts
<1>3. /\ others \in [D -> Occurrence]
      /\ SoundLedger(others, truth, now) /\ Accounts(others, t_consumed, t_tick)
      /\ \A i \in D : others[i].status = "Breached" => others[i].deadline < now
  BY <1>1, SecondExpired DEF TwinInv
<1>4. D \in SUBSET Nat /\ Paired(occs, others, guard, truth)
  <2>1. Paired(occurrences, t_occurrences, guard, truth)
    BY DEF TwinInv
  <2> HIDE DEF D, guard, now
  <2>2. /\ D \in SUBSET Nat
        /\ occurrences \in [D -> Occurrence] /\ t_occurrences \in [D -> Occurrence]
    BY TwinTypes DEF D
  <2> QED
    BY <1>1, <2>1, <2>2, ExpiriesPair
<1>5. known \in {"U", truth} /\ guard \in {"U", known} /\ Second!Guard(e) = truth
  BY TwinGuards
<1>6. /\ alloc \in Allocations(occs, Activated(occs, known), consumed)
      /\ Resolved(e, alloc) = ResolveConditionals(occs, known, alloc, now)
  BY DEF Resolutions, Resolved
<1>7. /\ more \in Allocations(others, Activated(others, truth), t_consumed)
      /\ Second!Resolved(e, more) = ResolveConditionals(others, truth, more, now)
  BY <1>5, SameExpiry, SamePass, SameResolution
  DEF Second!Resolutions, Second!Resolved
<1> HIDE DEF now, occs, others, D, known, guard
<1>8. Paired(ResolveConditionals(occs, known, alloc, now),
             ResolveConditionals(others, truth, more, now), known, truth)
  BY <1>1, <1>2, <1>3, <1>4, <1>5, <1>6, <1>7, ResolvePairs
<1>9. Activated(occs, known) \in SUBSET D /\ Activated(others, truth) \in SUBSET D
  BY <1>2, <1>3 DEF Activated
<1>10. /\ ResolveConditionals(occs, known, alloc, now) \in [D -> Occurrence]
       /\ ResolveConditionals(others, truth, more, now) \in [D -> Occurrence]
  <2>1. alloc \in [Activated(occs, known) -> Nat \cup {NoTick}]
    BY <1>2, <1>6, <1>9, AllocationType
  <2>2. more \in [Activated(others, truth) -> Nat \cup {NoTick}]
    BY <1>3, <1>7, <1>9, AllocationType
  <2> QED
    BY <1>1, <1>2, <1>3, <1>9, <2>1, <2>2, ResolveType
<1> QED
  BY <1>1, <1>6, <1>7, <1>8, <1>10 DEF now, D, known

\* A domain event.
LEMMA TwinDomain ==
  ASSUME TwinInv, NEW e \in AnyEvent, Truthful(e), StepDomain(e), Second!StepDomain(e)
  PROVE  /\ oid_counter' = t_oid_counter'
         /\ Paired(occurrences', t_occurrences', Guard(e), truth)
<1> DEFINE now == e.tick
           guard == Guard(e)
<1>1. /\ TokenInv /\ Second!TokenInv /\ TypeOK /\ Second!TypeOK /\ Accept(e)
      /\ Second!Accept(e)
      /\ now \in Nat /\ tick \in Nat \cup {-1} /\ tick < now /\ tick = t_tick
      /\ oid_counter \in Nat /\ oid_counter = t_oid_counter
      /\ truth \in {"T", "F"} /\ guard \in {"U", truth} /\ Second!Guard(e) = truth
  BY AcceptType, TwinTypes, TwinGuards
  DEF TwinInv, TokenInv, IInv, StepDomain, Second!StepDomain, Accept, Alike
<1>2. PICK alloc \in Resolutions(e), oid \in FreshOids :
        /\ occurrences' = BoundaryExpire(Answered(e, alloc, oid), now)
        /\ oid_counter' = IF e.tag = TriggerTag THEN oid ELSE oid_counter
  BY DEF StepDomain
<1>3. PICK more \in Second!Resolutions(e), next \in Second!FreshOids :
        /\ t_occurrences' = Second!BoundaryExpire(Second!Answered(e, more, next), now)
        /\ t_oid_counter' = IF e.tag = TriggerTag THEN next ELSE t_oid_counter
  BY DEF Second!StepDomain
<1>4. oid = oid_counter + 1 /\ next = oid
  <2>1. oid = oid_counter + 1
    BY <1>1, FreshOidIsNext
  <2>2. next = t_oid_counter + 1
    BY <1>1, Second!FreshOidIsNext, BoundAssumption, GuardAssumption, TicksAssumption
    DEF Second!FreshOidIsNext
  <2> QED
    BY <1>1, <2>1, <2>2
<1> DEFINE occs == Resolved(e, alloc)
           others == Second!Resolved(e, more)
           triggered == Triggered(e, alloc, oid)
           moreTriggered == Second!Triggered(e, more, oid)
           answered == Answered(e, alloc, oid)
           moreAnswered == Second!Answered(e, more, oid)
           D == 1..oid_counter
           E == Aliases(e, oid)
           used == consumed \cup Used(alloc)
           moreUsed == t_consumed \cup Used(more)
<1>5. /\ occs \in [D -> Occurrence] /\ others \in [D -> Occurrence]
      /\ Paired(occs, others, guard, truth)
  BY <1>1, TwinResolved
<1>6. /\ triggered = IF e.tag = TriggerTag THEN InstantiateTrigger(occs, oid, guard, now)
                     ELSE occs
      /\ moreTriggered = IF e.tag = TriggerTag THEN InstantiateTrigger(others, oid, truth, now)
                         ELSE others
  BY <1>1, SameTrigger DEF Triggered, Second!Triggered
<1>7. /\ answered = IF e.tag = ResponseTag THEN RegisterResponseToken(triggered, now)
                    ELSE triggered
      /\ moreAnswered = IF e.tag = ResponseTag THEN RegisterResponseToken(moreTriggered, now)
                        ELSE moreTriggered
  BY SameAnswer DEF Answered, Second!Answered
<1>8. /\ E \in SUBSET Nat /\ triggered \in [E -> Occurrence]
      /\ SoundLedger(triggered, guard, now) /\ Accounts(triggered, used, now)
      /\ \A i \in E : \A k \in triggered[i].candidates : k <= tick
  BY <1>1, TriggeredAccounts
<1>9. /\ moreTriggered \in [E -> Occurrence]
      /\ SoundLedger(moreTriggered, truth, now)
      /\ Accounts(moreTriggered, moreUsed, now)
      /\ \A i \in E : /\ moreTriggered[i].status = "Breached" => moreTriggered[i].deadline < now
                      /\ moreTriggered[i].response <= tick
  <2>1. Second!Aliases(e, oid) = E
    BY <1>1 DEF Aliases, Second!Aliases
  <2> HIDE DEF now, E
  <2> QED
    BY <1>1, <1>4, <2>1, SecondTriggered DEF now
<1>10. /\ occurrences' = BoundaryExpire(answered, now)
       /\ t_occurrences' = BoundaryExpire(moreAnswered, now)
  BY <1>2, <1>3, <1>4, SameExpiry
<1>11. D \in SUBSET Nat /\ oid \in Nat /\ oid \notin D
  BY <1>1, <1>4
<1> HIDE DEF now, guard, occs, others, triggered, moreTriggered, answered, moreAnswered,
             D, E, used, moreUsed
<1>12. Paired(triggered, moreTriggered, guard, truth)
  <2>1. Paired(InstantiateTrigger(occs, oid, guard, now),
               InstantiateTrigger(others, oid, truth, now), guard, truth)
    BY <1>1, <1>5, <1>11, TriggerPairs
  <2> QED
    BY <1>5, <1>6, <2>1
<1>13. Paired(answered, moreAnswered, guard, truth)
  <2>1. Paired(RegisterResponseToken(triggered, now), RegisterResponseToken(moreTriggered, now),
               guard, truth)
    BY <1>1, <1>8, <1>9, <1>12, RegisterPairs
  <2> QED
    BY <1>7, <1>12, <2>1
<1>14. answered \in [E -> Occurrence] /\ moreAnswered \in [E -> Occurrence]
  BY <1>1, <1>7, <1>8, <1>9, RegisterType
<1>15. Paired(BoundaryExpire(answered, now), BoundaryExpire(moreAnswered, now), guard, truth)
  BY <1>1, <1>8, <1>13, <1>14, ExpiriesPair
<1> QED
  BY <1>1, <1>2, <1>3, <1>4, <1>10, <1>15 DEF guard

\* A tick event, or a terminal one.
LEMMA TwinSilent ==
  ASSUME TwinInv, NEW e \in AnyEvent, Truthful(e),
         \/ StepTick(e) /\ Second!StepTick(e)
         \/ StepTerminal(e) /\ Second!StepTerminal(e)
  PROVE  /\ oid_counter' = t_oid_counter'
         /\ Paired(occurrences', t_occurrences', Guard(e), truth)
<1> DEFINE now == e.tick
           guard == Guard(e)
           D == 1..oid_counter
<1>1. /\ Accept(e) /\ Second!Accept(e) /\ D \in SUBSET Nat
      /\ oid_counter' = t_oid_counter'
  BY TwinTypes
  DEF StepTick, StepTerminal, Second!StepTick, Second!StepTerminal, TwinInv, Alike
<1>2. PICK alloc \in Resolutions(e), more \in Second!Resolutions(e) :
        LET before == BoundaryExpire(Resolved(e, alloc), now)
            others == Second!BoundaryExpire(Second!Resolved(e, more), now)
        IN  \/ occurrences' = before /\ t_occurrences' = others
            \/ /\ occurrences' = TerminalConversion(before, e.kind, now)
               /\ t_occurrences' = Second!TerminalConversion(others, e.kind, now)
  BY DEF StepTick, StepTerminal, Second!StepTick, Second!StepTerminal
<1> DEFINE occs == Resolved(e, alloc)
           others == Second!Resolved(e, more)
           after == BoundaryExpire(occs, now)
           afters == BoundaryExpire(others, now)
<1>3. /\ now \in Nat /\ occs \in [D -> Occurrence] /\ others \in [D -> Occurrence]
      /\ Paired(occs, others, guard, truth)
  BY <1>1, TwinResolved
<1>4. \/ occurrences' = after /\ t_occurrences' = afters
      \/ /\ occurrences' = TerminalConversion(after, e.kind, now)
         /\ t_occurrences' = TerminalConversion(afters, e.kind, now)
  BY <1>2, SameExpiry, SameTerminal
<1> HIDE DEF now, guard, occs, others, D
<1>5. after \in [D -> Occurrence] /\ afters \in [D -> Occurrence]
  BY <1>3, PreExpireType
<1>6. Paired(after, afters, guard, truth)
  BY <1>1, <1>3, ExpiriesPair
<1> HIDE DEF after, afters
<1>7. Paired(TerminalConversion(after, e.kind, now), TerminalConversion(afters, e.kind, now),
             guard, truth)
  BY <1>1, <1>3, <1>5, <1>6, TerminalPairs
<1> QED
  BY <1>1, <1>4, <1>6, <1>7 DEF guard

\* Whatever the event, the twins stay alike.
LEMMA TwinStepKeeps ==
  ASSUME TwinInv, NEW e \in AnyEvent, TwinStep(e)
  PROVE  TwinInv'
<1>1. /\ TokenInv' /\ Second!TokenInv' /\ truth' = truth
      /\ Step(e) /\ Second!Step(e) /\ Truthful(e)
  BY StepTokens, SecondTokens, SameStep DEF TwinInv, TwinStep, Truthful
<1>2. /\ mode = t_mode /\ terminal_kind = t_terminal_kind /\ fault = t_fault
      /\ tick = t_tick
      /\ oid_counter = t_oid_counter /\ truth \in {"T", "F"}
      /\ \A k \in Keys \ {GuardKey} : epistemic[k] = t_epistemic[k]
      /\ t_epistemic[GuardKey] = truth /\ epistemic[GuardKey] \in {"U", truth}
      /\ Paired(occurrences, t_occurrences, epistemic[GuardKey], truth)
  BY DEF TwinInv, Alike
<1>3. /\ Contradicts(e.observations) <=> Second!Contradicts(e.observations)
      /\ Guard(e) \in {"U", truth} /\ Second!Guard(e) = truth
      /\ \A k \in Keys \ {GuardKey} :
           Observed(e.observations)[k] = Second!Observed(e.observations)[k]
  BY <1>1, TwinGuards
<1>4. ASSUME Accept(e), Second!Accept(e), oid_counter' = t_oid_counter', mode' = t_mode',
             terminal_kind' = t_terminal_kind',
             Paired(occurrences', t_occurrences', Guard(e), truth)
      PROVE  TwinInv'
  <2>1. /\ epistemic' = Observed(e.observations)
        /\ t_epistemic' = Second!Observed(e.observations)
        /\ epistemic'[GuardKey] = Guard(e) /\ t_epistemic'[GuardKey] = Second!Guard(e)
        /\ tick' = t_tick' /\ fault' = t_fault'
    BY <1>2, <1>4 DEF Accept, Second!Accept, Guard, Second!Guard
  <2> QED
    BY <1>1, <1>2, <1>3, <1>4, <2>1 DEF TwinInv, Alike
<1>5. CASE StepAfterEnd(e)
  <2>1. Second!StepAfterEnd(e)
    BY <1>1, <1>2, <1>5
    DEF StepAfterEnd, Second!Step, Second!StepStale, Second!StepContradiction,
        Second!StepDomain,
        Second!StepTick, Second!StepTerminal, Second!Accept
  <2> QED
    BY <1>1, <1>2, <1>5, <2>1 DEF StepAfterEnd, Second!StepAfterEnd, TwinInv, Alike
<1>6. CASE StepStale(e)
  <2>1. /\ t_mode = "Running" /\ ~ e.tick > t_tick
    <3>1. e.tick \in Int /\ tick \in Nat \cup {-1}
      BY TwinTypes DEF AnyEvent
    <3> QED
      BY <1>2, <1>6, <3>1 DEF StepStale
  <2>2. Second!StepStale(e)
    BY <1>1, <2>1
    DEF Second!Step, Second!StepAfterEnd, Second!StepContradiction, Second!StepDomain,
        Second!StepTick, Second!StepTerminal, Second!Accept
  <2> QED
    BY <1>1, <1>2, <1>6, <2>2 DEF StepStale, Second!StepStale, TwinInv, Alike
<1>7. CASE StepContradiction(e)
  <2>1. t_mode = "Running" /\ ~ e.tick <= t_tick /\ Second!Contradicts(e.observations)
    <3>1. e.tick \in Int /\ tick \in Nat \cup {-1}
      BY TwinTypes DEF AnyEvent
    <3> QED
      BY <1>2, <1>3, <1>7, <3>1 DEF StepContradiction
  <2>2. Second!StepContradiction(e)
    BY <1>1, <2>1
    DEF Second!Step, Second!StepAfterEnd, Second!StepStale, Second!StepDomain,
        Second!StepTick, Second!StepTerminal, Second!Accept
  <2> DEFINE D == 1..oid_counter
             now == e.tick
             guard == epistemic[GuardKey]
  <2>3. /\ now \in Nat /\ D \in SUBSET Nat
        /\ occurrences \in [D -> Occurrence] /\ t_occurrences \in [D -> Occurrence]
        /\ Paired(occurrences, t_occurrences, guard, truth)
    BY <1>2, <1>7, TwinTypes DEF AnyEvent, StepContradiction
  <2>4. /\ occurrences' = PreExpire(occurrences, now)
        /\ t_occurrences' = PreExpire(t_occurrences, now)
        /\ epistemic'[GuardKey] = guard
    BY <1>7, <2>2, SameExpiry DEF StepContradiction, Second!StepContradiction
  <2> HIDE DEF D, now, guard
  <2>5. Paired(PreExpire(occurrences, now), PreExpire(t_occurrences, now), guard, truth)
    BY <2>3, ExpiriesPair
  <2> QED
    BY <1>1, <1>2, <1>7, <2>2, <2>4, <2>5
    DEF StepContradiction, Second!StepContradiction, TwinInv, Alike
<1>8. ASSUME Accept(e)
      PROVE  /\ Second!StepDomain(e) \/ Second!StepTick(e) \/ Second!StepTerminal(e)
             /\ Second!Accept(e)
  <2>1. t_mode = "Running" /\ ~ e.tick <= t_tick /\ ~ Second!Contradicts(e.observations)
    <3>1. e.tick \in Int /\ tick \in Nat \cup {-1}
      BY TwinTypes DEF AnyEvent
    <3> QED
      BY <1>2, <1>3, <1>8, <3>1 DEF Accept
  <2> QED
    BY <1>1, <2>1
    DEF Second!Step, Second!StepAfterEnd, Second!StepStale, Second!StepContradiction,
        Second!StepDomain, Second!StepTick, Second!StepTerminal
<1>9. CASE StepDomain(e)
  <2>1. Accept(e) /\ Second!Accept(e) /\ Second!StepDomain(e)
    BY <1>8, <1>9 DEF StepDomain, Second!StepTick, Second!StepTerminal
  <2>2. /\ oid_counter' = t_oid_counter'
        /\ Paired(occurrences', t_occurrences', Guard(e), truth)
    BY <1>1, <1>9, <2>1, TwinDomain
  <2>3. mode' = t_mode' /\ terminal_kind' = t_terminal_kind'
    BY <1>2, <1>9, <2>1 DEF StepDomain, Second!StepDomain
  <2> QED
    BY <1>4, <2>1, <2>2, <2>3
<1>10. CASE StepTick(e) \/ StepTerminal(e)
  <2>1. /\ Accept(e) /\ Second!Accept(e)
        /\ \/ StepTick(e) /\ Second!StepTick(e)
           \/ StepTerminal(e) /\ Second!StepTerminal(e)
    BY <1>8, <1>10
    DEF StepTick, StepTerminal, Second!StepDomain, Second!StepTick,
        Second!StepTerminal
  <2>2. /\ oid_counter' = t_oid_counter'
        /\ Paired(occurrences', t_occurrences', Guard(e), truth)
    BY <1>1, <2>1, TwinSilent
  <2>3. mode' = t_mode' /\ terminal_kind' = t_terminal_kind'
    BY <1>2, <2>1 DEF StepTick, StepTerminal, Second!StepTick, Second!StepTerminal
  <2> QED
    BY <1>4, <2>1, <2>2, <2>3
<1> QED
  BY <1>1, <1>5, <1>6, <1>7, <1>9, <1>10 DEF Step

\* The twins start alike.
LEMMA TwinInitKeeps == TwinInit => TwinInv
<1> SUFFICES ASSUME TwinInit PROVE TwinInv
  OBVIOUS
<1>1. TokenInv /\ TypeOK
  BY InitTokens, InitType DEF TwinInit
<1>2. /\ DOMAIN occurrences = {}
      /\ consumed = {}
      /\ t_occurrences = occurrences
      /\ t_consumed = {}
  BY DEF TwinInit, Init
<1>3. /\ epistemic \in [Keys -> K3] /\ epistemic[GuardKey] = "U" /\ GuardKey \in Keys
      /\ t_epistemic = [epistemic EXCEPT ![GuardKey] = truth] /\ truth \in {"T", "F"}
  BY <1>1, GuardAssumption DEF TwinInit, Init, TypeOK
<1>4. Second!TypeOK
  <2>1. Second!K3 = K3 /\ Second!TerminalKinds = TerminalKinds
    BY DEF K3, Second!K3, TerminalKinds, Second!TerminalKinds
  <2>2. t_epistemic \in [Keys -> K3]
    BY <1>3 DEF K3
  <2> QED
    BY <1>1, <1>2, <2>1, <2>2, SameRecords DEF TwinInit, TypeOK, Second!TypeOK
<1>5. Second!TokenInv
  BY <1>2, <1>4, Second!EmptyTokens, BoundAssumption, GuardAssumption, TicksAssumption
  DEF Second!EmptyTokens
<1>6. Paired(occurrences, t_occurrences, "U", truth)
  <2> DEFINE a == Answers(t_occurrences)
  <2>1. /\ DOMAIN a = {}
        /\ a = [i \in DOMAIN occurrences |-> a[i]]
        /\ Heard(occurrences) = {}
    BY <1>2 DEF Answers, Heard
  <2>2. Foretold(occurrences, t_occurrences)
    BY <1>2, <2>1 DEF Foretold, IsAllocation
  <2> QED
    BY <1>2, <2>2 DEF Paired, SameDates
<1> QED
  BY <1>1, <1>3, <1>5, <1>6 DEF TwinInit, TwinInv, Alike

\* A monitor that learns its guard late keeps the ledger of one that knew it
\* from the start, or, until it learns it, what the pass needs to make that
\* ledger.
THEOREM TwinsInductive == TwinSpec => []TwinInv
<1>1. TwinInv /\ [TwinNext]_twins => TwinInv'
  <2> SUFFICES ASSUME TwinInv, [TwinNext]_twins PROVE TwinInv'
    OBVIOUS
  <2>1. CASE TwinNext
    BY <2>1, TwinStepKeeps, EventsAreAny DEF TwinNext
  <2>2. CASE UNCHANGED twins
    <3>1. UNCHANGED <<vars, t_vars, truth>>
      BY <2>2 DEF twins
    <3> QED
      BY <3>1
      DEF vars, t_vars, TwinInv, Alike, TokenInv, IInv, TypeOK, ShapeOK,
          LiveWithinDeadline, GuardCoherence, BreachTimes, Duties,
          Second!TokenInv, Second!IInv, Second!TypeOK, Second!ShapeOK,
          Second!LiveWithinDeadline, Second!GuardCoherence, Second!BreachTimes,
          Second!Duties
  <2> QED
    BY <2>1, <2>2
<1> QED
  BY <1>1, TwinInitKeeps, PTL DEF TwinSpec

\* Retroactive activation is right: once the guard is known every duty has the
\* outcome, response and effective time that it would have had with the guard
\* known from the start, and the same tokens are spent.
THEOREM SameLedgerAlways == TwinSpec => []SameLedgerOnceKnown
<1>1. TwinInv => SameLedgerOnceKnown
  <2> SUFFICES ASSUME TwinInv, epistemic[GuardKey] # "U"
               PROVE  /\ Duties = DOMAIN t_occurrences
                      /\ consumed = t_consumed
                      /\ \A i \in Duties :
                           /\ Outcome(occurrences[i]) = Outcome(t_occurrences[i])
                           /\ occurrences[i].status = "Breached" =>
                                t_occurrences[i].discovery_time <= occurrences[i].discovery_time
    BY DEF SameLedgerOnceKnown
  <2>1. /\ Duties = DOMAIN t_occurrences
        /\ \A i \in Duties : SameOutcome(occurrences[i], t_occurrences[i])
    BY DEF TwinInv, Paired, SameDates, Duties
  <2>2. /\ Holding(occurrences, consumed, tick)
        /\ Second!Accounts(t_occurrences, t_consumed, t_tick)
    BY DEF TwinInv, TokenInv, Accounts, Second!TokenInv
  <2>3. Holding(t_occurrences, t_consumed, t_tick)
    BY <2>2, SameAccounts DEF Accounts
  <2>4. \A i \in Duties : occurrences[i].response = t_occurrences[i].response
    BY <2>1 DEF SameOutcome
  <2>5. consumed = t_consumed
    <3>1. /\ consumed
               = {occurrences[i].response : i \in {j \in Duties : occurrences[j].response # NoTick}}
          /\ t_consumed = {t_occurrences[i].response :
                             i \in {j \in Duties : t_occurrences[j].response # NoTick}}
      BY <2>1, <2>2, <2>3 DEF Holding, Duties
    <3> QED
      BY <2>4, <3>1
  <2> QED
    BY <2>1, <2>5 DEF SameOutcome, Outcome
<1> QED
  BY <1>1, TwinsInductive, PTL

\* An unknown guard is never turned into a breach, and never waved through.
THEOREM NeverWrongAlways == TwinSpec => []NeverWrong
<1>1. TwinInv => NeverWrong
  <2> SUFFICES ASSUME TwinInv, Summary # "Unknown" PROVE Summary = Twin!Summary
    BY DEF NeverWrong
  <2>1. /\ mode = t_mode /\ terminal_kind = t_terminal_kind
        /\ DOMAIN occurrences = DOMAIN t_occurrences
    BY DEF TwinInv, Alike, Paired, SameDates
  <2>2. Twin!Settled = Settled
    BY DEF Settled, Twin!Settled
  <2>3. CASE epistemic[GuardKey] # "U"
    <3>1. \A i \in DOMAIN occurrences : occurrences[i].status = t_occurrences[i].status
      BY <2>3 DEF TwinInv, Paired, SameOutcome
    <3>2. Statuses = Twin!Statuses
      BY <2>1, <3>1 DEF Statuses, Twin!Statuses
    <3> QED
      BY <2>1, <2>2, <3>2 DEF Summary, Twin!Summary
  <2>4. CASE epistemic[GuardKey] = "U"
    <3>1. /\ LiveWithinDeadline
          /\ \A i \in DOMAIN occurrences : occurrences[i].status \in Conditional \cup {"UnknownFinal"}
      BY <2>4 DEF TwinInv, TokenInv, IInv, GuardCoherence, Duties
    <3>2. "Breached" \notin Statuses
      BY <3>1 DEF Statuses, Conditional
    <3>3. /\ mode = "Halted"
          /\ terminal_kind # "ObservationCut"
          /\ Statuses \subseteq Settled
      BY <3>2 DEF Summary
    <3>4. \A i \in DOMAIN occurrences : occurrences[i].status \notin Settled
      BY <3>1 DEF Settled, Conditional
    <3>5. DOMAIN occurrences = {}
      BY <3>3, <3>4 DEF Statuses
    <3>6. Twin!Statuses = {}
      BY <2>1, <3>5 DEF Twin!Statuses
    <3> QED
      BY <2>1, <3>2, <3>3, <3>6 DEF Summary, Twin!Summary
  <2> QED
    BY <2>3, <2>4
<1> QED
  BY <1>1, TwinsInductive, PTL

-----------------------------------------------------------------------------
(* Residuals: the sink.                                                     *)

Boundary ==
  CASE mode = "Running" -> "None"
    [] mode = "Faulted" -> "Fault"
    [] OTHER            -> "Terminal"

\* Nothing is disabled before the continuation begins.
SinkInv == phase = "Prefix" => status = NoDisabledLabel

\* The same Disabled record, and the reading, in the words of Residual.
LEMMA SinkWords ==
  /\ \A label, enabled, reason :
       Residuals!Disabled(label, enabled, reason) =
         [kind |-> "Disabled", attempted |-> label, enabled_set |-> enabled,
          reason |-> reason]
  /\ Residuals!NoDisabledLabel = NoDisabledLabel
  /\ Residuals!Refused = [kind |-> "Refused"]
  /\ Boundary \in {"None", "Terminal", "Fault"}
BY DEF Residuals!Disabled, Residuals!NoDisabledLabel, NoDisabledLabel,
       Residuals!Refused, Boundary

\* A residual takes labels while its run is open; past its end or its fault the
\* first label is recorded with nothing enabled and the right reason, and the
\* reading is frozen: for all clauses, all prefixes and all continuations.
THEOREM ResidualImplemented == RSpec => ImplementsResidual
<1>1. RInit => Residuals!Init /\ SinkInv
  BY SinkWords DEF RInit, Init, Residuals!Init, SinkInv, Boundary
<1>2. SinkInv /\ [RNext]_<<vars, t_vars, t_status, residual>> => SinkInv'
  <2> SUFFICES ASSUME SinkInv, [RNext]_<<vars, t_vars, t_status, residual>>
               PROVE  SinkInv'
    OBVIOUS
  <2> QED
    BY DEF SinkInv, RNext, RSetInitial, PrefixStep, ExtraTick, Cut, Replay,
           ReplayMalformed, residual
<1>3. SinkInv /\ [RNext]_<<vars, t_vars, t_status, residual>>
        => [Residuals!Next]_<<Verdict, Boundary, status>>
  <2> SUFFICES ASSUME SinkInv, RNext \/ UNCHANGED <<vars, t_vars, t_status, residual>>
               PROVE  Residuals!Next \/ UNCHANGED <<Verdict, Boundary, status>>
    OBVIOUS
  <2>1. UNCHANGED vars => UNCHANGED <<Verdict, Boundary>>
    BY DEF vars, Verdict, Boundary, Summary, Statuses, PublicMode, Duties
  <2>2. ASSUME mode = "Running", status = NoDisabledLabel, status' = status
        PROVE  Residuals!Next
    BY <2>2, SinkWords DEF Residuals!Next, Residuals!Take, Boundary
  <2>3. CASE UNCHANGED <<vars, t_vars, t_status, residual>>
    BY <2>1, <2>3 DEF residual
  <2>4. CASE \E key \in Keys, value \in K3 : RSetInitial(key, value)
    BY <2>2, <2>4 DEF RSetInitial, SetInitial, SinkInv, residual
  <2>5. CASE \E e \in Event : PrefixStep(e)
    BY <2>2, <2>5 DEF PrefixStep, SinkInv, residual
  <2>6. CASE ExtraTick \/ Cut
    BY <2>1, <2>6 DEF ExtraTick, Cut, residual
  <2>7. ASSUME NEW e \in RelativeEvent, Replay(e)
        PROVE  Residuals!Next
    <3>1. CASE mode = "Running"
      BY <2>2, <2>7, <3>1 DEF Replay
    <3>2. CASE mode # "Running"
      <4>1. /\ status = NoDisabledLabel /\ UNCHANGED vars
            /\ status' = Disabled(e, mode = "Faulted")
        BY <2>7, <3>2 DEF Replay
      <4>2. /\ Boundary = IF mode = "Faulted" THEN "Fault" ELSE "Terminal"
            /\ UNCHANGED <<Verdict, Boundary>>
        BY <2>1, <3>2, <4>1 DEF Boundary
      <4>3. AttemptedLabel(e) \in AttemptedLabels
        BY DEF AttemptedLabels
      <4>4. Residuals!Disable(AttemptedLabel(e), {})
        BY <4>1, <4>2, SinkWords DEF Residuals!Disable, Disabled, Boundary
      <4> QED
        BY <4>3, <4>4 DEF Residuals!Next
    <3> QED
      BY <3>1, <3>2
  <2>8. CASE ReplayMalformed
    BY <2>1, <2>8, SinkWords
    DEF ReplayMalformed, Residuals!Next, Residuals!Refuse, Boundary
  <2> QED
    BY <2>3, <2>4, <2>5, <2>6, <2>7, <2>8 DEF RNext
<1> QED
  BY <1>1, <1>2, <1>3, PTL DEF RSpec, ImplementsResidual, Residuals!Spec, Boundary

-----------------------------------------------------------------------------
(* Residuals: two ledgers of which one lives d ticks later.                 *)

Shifted(S, d) == {k + d : k \in S}

\* A status once the deadline has been found missed.
Overdue(s) ==
  CASE s = "Open"            -> "Breached"
    [] s = "ConditionalOpen" -> "ConditionalExpired"
    [] OTHER                 -> s

\* The second record lives d ticks later, and its monitor has heard that the
\* first one's clock could read `seen`.
Displaced(o, p, d, seen) ==
  /\ p.trigger_tick = o.trigger_tick + d
  /\ p.deadline = o.deadline + d
  /\ p.candidates = Shifted(o.candidates, d)
  /\ p.status = IF o.deadline <= seen THEN Overdue(o.status) ELSE o.status

DisplacedLedger(occs, others, d, seen) ==
  /\ DOMAIN others = DOMAIN occs
  /\ \A i \in DOMAIN occs : Displaced(occs[i], others[i], d, seen)

\* The expiry phases move statuses and nothing else that is compared.
LEMMA ExpireMarks ==
  ASSUME NEW D, NEW occs \in [D -> Occurrence], NEW late, NEW now, NEW i \in D
  PROVE  LET o == occs[i]
             p == Expire(occs, late, now)[i]
         IN  /\ p.trigger_tick = o.trigger_tick /\ p.deadline = o.deadline
             /\ p.candidates = o.candidates
             /\ p.status = IF i \in late THEN Overdue(o.status) ELSE o.status
<1> DEFINE o == occs[i]
           p == Expire(occs, late, now)[i]
<1>1. o \in Occurrence
  OBVIOUS
<1>2. CASE i \in late /\ o.status = "Open"
  <2>1. p = Breach(o, "UnmetAtExpiry", now)
    BY <1>2 DEF Expire
  <2> QED
    BY <1>1, <1>2, <2>1 DEF Breach, Occurrence, Overdue
<1>3. CASE i \in late /\ o.status = "ConditionalOpen"
  <2>1. p = GuardRemainsUnknownAtDeadline(o)
    BY <1>3 DEF Expire
  <2> QED
    BY <1>1, <1>3, <2>1 DEF GuardRemainsUnknownAtDeadline, Occurrence, Overdue
<1>4. CASE ~ (i \in late /\ o.status \in {"Open", "ConditionalOpen"})
  <2>1. p = o
    BY <1>4 DEF Expire
  <2> QED
    BY <1>4, <2>1 DEF Overdue
<1> QED
  BY <1>2, <1>3, <1>4

\* The strict expiry, in each monitor at its own time, leaves the same missed
\* deadlines in both, whatever ticks the second one had heard of before.
LEMMA PreExpireDisplaces ==
  ASSUME NEW D, NEW occs \in [D -> Occurrence], NEW others \in [D -> Occurrence],
         NEW d \in Nat, NEW now \in Nat, NEW seen \in Int, seen < now,
         DisplacedLedger(occs, others, d, seen)
  PROVE  DisplacedLedger(PreExpire(occs, now), PreExpire(others, now + d), d, -1)
<1> DEFINE after == PreExpire(occs, now)
           afters == PreExpire(others, now + d)
<1>1. DOMAIN after = D /\ DOMAIN afters = D
  BY DEF PreExpire, Expire
<1>2. ASSUME NEW i \in D PROVE Displaced(after[i], afters[i], d, -1)
  <2> DEFINE o == occs[i]
             p == others[i]
  <2>1. /\ o.deadline \in Nat /\ o.trigger_tick \in Nat /\ p.deadline = o.deadline + d
        /\ p.trigger_tick = o.trigger_tick + d /\ p.candidates = Shifted(o.candidates, d)
        /\ p.status = IF o.deadline <= seen THEN Overdue(o.status) ELSE o.status
    BY DEF DisplacedLedger, Displaced, Occurrence
  <2>2. /\ after[i].trigger_tick = o.trigger_tick /\ after[i].deadline = o.deadline
        /\ after[i].candidates = o.candidates
        /\ after[i].status = IF o.deadline < now THEN Overdue(o.status) ELSE o.status
    BY ExpireMarks DEF PreExpire
  <2>3. /\ afters[i].trigger_tick = p.trigger_tick /\ afters[i].deadline = p.deadline
        /\ afters[i].candidates = p.candidates
        /\ afters[i].status = IF p.deadline < now + d THEN Overdue(p.status) ELSE p.status
    BY ExpireMarks DEF PreExpire
  <2> HIDE DEF o, p, after, afters
  <2>4. p.deadline < now + d <=> o.deadline < now
    BY <2>1
  <2>5. \A s : Overdue(Overdue(s)) = Overdue(s)
    BY DEF Overdue
  <2>6. after[i].status = afters[i].status
    BY <2>1, <2>2, <2>3, <2>4, <2>5
  <2>7. ~ after[i].deadline <= -1
    BY <2>1, <2>2
  <2> QED
    BY <2>1, <2>2, <2>3, <2>6, <2>7 DEF Displaced
<1> QED
  BY <1>1, <1>2 DEF DisplacedLedger

\* So does the expiry at the boundary.
LEMMA BoundaryDisplaces ==
  ASSUME NEW D, NEW occs \in [D -> Occurrence], NEW others \in [D -> Occurrence],
         NEW d \in Nat, NEW now \in Nat, DisplacedLedger(occs, others, d, -1)
  PROVE  DisplacedLedger(BoundaryExpire(occs, now), BoundaryExpire(others, now + d), d, -1)
<1> DEFINE after == BoundaryExpire(occs, now)
           afters == BoundaryExpire(others, now + d)
<1>1. DOMAIN after = D /\ DOMAIN afters = D
  BY DEF BoundaryExpire, Expire
<1>2. ASSUME NEW i \in D PROVE Displaced(after[i], afters[i], d, -1)
  <2> DEFINE o == occs[i]
             p == others[i]
  <2>1. /\ o.deadline \in Nat /\ o.trigger_tick \in Nat /\ p.deadline = o.deadline + d
        /\ p.trigger_tick = o.trigger_tick + d /\ p.candidates = Shifted(o.candidates, d)
        /\ p.status = IF o.deadline <= -1 THEN Overdue(o.status) ELSE o.status
    BY DEF DisplacedLedger, Displaced, Occurrence
  <2>2. /\ after[i].trigger_tick = o.trigger_tick /\ after[i].deadline = o.deadline
        /\ after[i].candidates = o.candidates
        /\ after[i].status = IF o.deadline = now THEN Overdue(o.status) ELSE o.status
    BY ExpireMarks DEF BoundaryExpire
  <2>3. /\ afters[i].trigger_tick = p.trigger_tick /\ afters[i].deadline = p.deadline
        /\ afters[i].candidates = p.candidates
        /\ afters[i].status = IF p.deadline = now + d THEN Overdue(p.status) ELSE p.status
    BY ExpireMarks DEF BoundaryExpire
  <2> HIDE DEF o, p, after, afters
  <2>4. (p.deadline = now + d <=> o.deadline = now) /\ ~ o.deadline <= -1
    BY <2>1
  <2> QED
    BY <2>1, <2>2, <2>3, <2>4 DEF Displaced
<1> QED
  BY <1>1, <1>2 DEF DisplacedLedger

\* A tick event that only the second monitor hears of moves on what it has seen.
LEMMA ExtraDisplaces ==
  ASSUME NEW D, NEW occs \in [D -> Occurrence], NEW others \in [D -> Occurrence],
         NEW d \in Nat, NEW now \in Nat, NEW seen \in Int, seen < now,
         DisplacedLedger(occs, others, d, seen)
  PROVE  DisplacedLedger(occs, BoundaryExpire(PreExpire(others, now + d), now + d), d, now)
<1> DEFINE expired == PreExpire(others, now + d)
           afters == BoundaryExpire(expired, now + d)
<1>1. DOMAIN afters = D /\ expired \in [D -> Occurrence]
  BY PreExpireType DEF PreExpire, BoundaryExpire, Expire
<1>2. ASSUME NEW i \in D PROVE Displaced(occs[i], afters[i], d, now)
  <2> DEFINE o == occs[i]
             p == others[i]
             q == expired[i]
  <2>1. /\ o.deadline \in Nat /\ p.deadline = o.deadline + d
        /\ p.trigger_tick = o.trigger_tick + d /\ p.candidates = Shifted(o.candidates, d)
        /\ p.status = IF o.deadline <= seen THEN Overdue(o.status) ELSE o.status
    BY DEF DisplacedLedger, Displaced, Occurrence
  <2>2. /\ q.trigger_tick = p.trigger_tick /\ q.deadline = p.deadline
        /\ q.candidates = p.candidates
        /\ q.status = IF p.deadline < now + d THEN Overdue(p.status) ELSE p.status
    BY ExpireMarks DEF PreExpire
  <2>3. /\ afters[i].trigger_tick = q.trigger_tick /\ afters[i].deadline = q.deadline
        /\ afters[i].candidates = q.candidates
        /\ afters[i].status = IF q.deadline = now + d THEN Overdue(q.status) ELSE q.status
    BY <1>1, ExpireMarks DEF BoundaryExpire
  <2> HIDE DEF o, p, q, expired, afters
  <2>4. /\ p.deadline < now + d <=> o.deadline < now
        /\ p.deadline = now + d <=> o.deadline = now
        /\ o.deadline <= seen => o.deadline < now
        /\ o.deadline <= now <=> o.deadline < now \/ o.deadline = now
        /\ ~ (o.deadline < now /\ o.deadline = now)
    BY <2>1
  <2>5. \A s : Overdue(Overdue(s)) = Overdue(s)
    BY DEF Overdue
  <2>6. afters[i].status = IF o.deadline <= now THEN Overdue(o.status) ELSE o.status
    BY <2>1, <2>2, <2>3, <2>4, <2>5
  <2> QED
    BY <2>1, <2>2, <2>3, <2>6 DEF Displaced, o
<1> QED
  BY <1>1, <1>2 DEF DisplacedLedger

\* Time is no part of the canonical order.
LEMMA DisplacedFirst ==
  ASSUME NEW D \in SUBSET Nat, NEW occs \in [D -> Occurrence],
         NEW others \in [D -> Occurrence], NEW d \in Nat, NEW seen,
         DisplacedLedger(occs, others, d, seen), NEW S \in SUBSET D, S # {}
  PROVE  First(others, S) = First(occs, S)
<1> DEFINE f == First(occs, S)
<1>1. f \in S /\ \A j \in S \ {f} : Precedes(occs, f, j)
  BY FirstIsLeast
<1> HIDE DEF f
<1>2. ASSUME NEW j \in S \ {f} PROVE Precedes(others, f, j)
  <2>1. /\ others[f].deadline = occs[f].deadline + d
        /\ others[f].trigger_tick = occs[f].trigger_tick + d
        /\ others[j].deadline = occs[j].deadline + d
        /\ others[j].trigger_tick = occs[j].trigger_tick + d
    BY <1>1, <1>2 DEF DisplacedLedger, Displaced
  <2>2. /\ occs[f].deadline \in Nat /\ occs[f].trigger_tick \in Nat
        /\ occs[j].deadline \in Nat /\ occs[j].trigger_tick \in Nat
    BY <1>1, <1>2 DEF Occurrence
  <2>3. Precedes(occs, f, j)
    BY <1>1, <1>2
  <2> QED
    BY <2>1, <2>2, <2>3 DEF Precedes
<1>3. First(others, S) = f
  BY ONLY <1>1, <1>2, FirstIsUnique, D \in SUBSET Nat, others \in [D -> Occurrence],
          S \in SUBSET D
<1> QED
  BY <1>3 DEF f

-----------------------------------------------------------------------------
(* The allocation pass, the registration and the other phases.              *)

\* An allocation that gives the same tokens, each d ticks later.
Delayed(active, alloc, moved, d) ==
  \A i \in active :
    /\ alloc[i] \in Nat \cup {NoTick}
    /\ moved[i] = IF alloc[i] = NoTick THEN NoTick ELSE alloc[i] + d

\* The pass hands out the same tokens, each as much later.
LEMMA DisplacedPass ==
  ASSUME NEW D \in SUBSET Nat, NEW occs \in [D -> Occurrence],
         NEW others \in [D -> Occurrence], NEW d \in Nat, NEW seen,
         DisplacedLedger(occs, others, d, seen),
         NEW active \in SUBSET D, NEW used \in SUBSET Nat,
         NEW alloc \in Allocations(occs, active, used),
         NEW more \in Allocations(others, active, Shifted(used, d))
  PROVE  /\ Delayed(active, alloc, more, d)
         /\ Used(more) = Shifted(Used(alloc), d)
<1> DEFINE tokens == Recorded(occs, active, used)
           later == Recorded(others, active, Shifted(used, d))
           moved == [i \in active |-> IF alloc[i] = NoTick THEN NoTick ELSE alloc[i] + d]
<1>1. tokens \in SUBSET Nat /\ NoTick = -1
  <2>1. \A i \in active : occs[i].candidates \in SUBSET Nat
    BY DEF Occurrence
  <2> QED
    BY <2>1 DEF Recorded, NoTick
<1>2. later = Shifted(tokens, d)
  <2>1. \A k : k \in tokens <=> (\E i \in active : k \in occs[i].candidates) /\ k \notin used
    BY DEF Recorded
  <2>2. \A k : k \in later <=> /\ \E i \in active : k \in others[i].candidates
                               /\ k \notin Shifted(used, d)
    BY DEF Recorded
  <2>3. \A i \in active : /\ others[i].candidates = Shifted(occs[i].candidates, d)
                          /\ occs[i].candidates \in SUBSET Nat
    BY DEF DisplacedLedger, Displaced, Occurrence
  <2> HIDE DEF tokens, later
  <2>4. ASSUME NEW k \in later PROVE k \in Shifted(tokens, d)
    <3>1. PICK i \in active : k \in Shifted(occs[i].candidates, d)
      BY <2>2, <2>3
    <3>2. PICK m \in occs[i].candidates : k = m + d
      BY <3>1 DEF Shifted
    <3>3. m \notin used
      BY <2>2, <3>2 DEF Shifted
    <3> QED
      BY <2>1, <3>2, <3>3 DEF Shifted
  <2>5. ASSUME NEW m \in tokens PROVE m + d \in later
    <3>1. PICK i \in active : m \in occs[i].candidates
      BY <2>1
    <3>2. m + d \in others[i].candidates
      BY <2>3, <3>1 DEF Shifted
    <3>3. m + d \notin Shifted(used, d)
      <4> SUFFICES ASSUME NEW n \in used, m + d = n + d PROVE FALSE
        BY DEF Shifted
      <4>1. m \in Nat /\ n \in Nat
        BY <1>1
      <4>2. m = n
        BY <4>1
      <4> QED
        BY <2>1, <4>2
    <3> QED
      BY <2>2, <3>2, <3>3
  <2> QED
    BY <2>4, <2>5 DEF Shifted
<1>3. /\ alloc \in [active -> tokens \cup {NoTick}]
      /\ IsAllocation(occs, active, tokens, alloc)
  BY DEF Allocations
<1> HIDE DEF tokens, later
<1>4. /\ alloc \in [active -> Nat \cup {NoTick}]
      /\ moved \in [active -> Nat \cup {NoTick}]
      /\ moved \in [active -> later \cup {NoTick}]
      /\ Delayed(active, alloc, moved, d)
  <2>1. alloc \in [active -> Nat \cup {NoTick}]
    BY <1>1, <1>3
  <2>2. ASSUME NEW i \in active, alloc[i] # NoTick
        PROVE  alloc[i] + d \in later /\ alloc[i] + d \in Nat
    <3>1. alloc[i] \in tokens /\ alloc[i] \in Nat
      BY <1>1, <1>3, <2>2
    <3> QED
      BY <1>2, <3>1 DEF Shifted
  <2> QED
    BY <2>1, <2>2 DEF Delayed
<1> HIDE DEF moved
<1>5. ASSUME NEW j \in later
      PROVE  {i \in active : moved[i] = j} =
               IF Takers(others, active, moved, j) = {} THEN {}
               ELSE {First(others, Takers(others, active, moved, j))}
  <2>1. PICK k \in tokens : j = k + d
    BY <1>2 DEF Shifted
  <2> DEFINE T == Takers(occs, active, alloc, k)
  <2>2. k \in Nat
    BY <1>1
  <2>3. /\ Takers(others, active, moved, j) = T
        /\ {i \in active : moved[i] = j} = {i \in active : alloc[i] = k}
    <3>1. ASSUME NEW i \in active
          PROVE  /\ k + d \in others[i].candidates <=> k \in occs[i].candidates
                 /\ k + d <= others[i].deadline <=> k <= occs[i].deadline
                 /\ (\E m \in {moved[i]} \ {NoTick} : m < k + d)
                      <=> (\E m \in {alloc[i]} \ {NoTick} : m < k)
                 /\ moved[i] = k + d <=> alloc[i] = k
      <4>1. /\ others[i].deadline = occs[i].deadline + d
            /\ others[i].candidates = Shifted(occs[i].candidates, d)
            /\ occs[i].deadline \in Nat /\ occs[i].candidates \in SUBSET Nat
        BY DEF DisplacedLedger, Displaced, Occurrence
      <4>2. k + d \in others[i].candidates <=> k \in occs[i].candidates
        <5>1. ASSUME NEW m \in occs[i].candidates, k + d = m + d PROVE k = m
          <6>1. m \in Nat
            BY <4>1
          <6> QED
            BY <2>2, <5>1, <6>1
        <5> QED
          BY <4>1, <5>1 DEF Shifted
      <4>3. alloc[i] \in Nat \cup {NoTick} /\ NoTick = -1
            /\ moved[i] = IF alloc[i] = NoTick THEN NoTick ELSE alloc[i] + d
        BY <1>4 DEF NoTick, Delayed
      <4>4. /\ (\E m \in {moved[i]} \ {NoTick} : m < k + d)
                 <=> (moved[i] # NoTick /\ moved[i] < k + d)
            /\ (\E m \in {alloc[i]} \ {NoTick} : m < k)
                 <=> (alloc[i] # NoTick /\ alloc[i] < k)
        OBVIOUS
      <4>5. (moved[i] # NoTick /\ moved[i] < k + d) <=> (alloc[i] # NoTick /\ alloc[i] < k)
        BY <2>2, <4>3
      <4>6. moved[i] = k + d <=> alloc[i] = k
        BY <2>2, <4>3
      <4> QED
        BY <2>2, <4>1, <4>2, <4>4, <4>5, <4>6
    <3>2. {i \in active : moved[i] = j} = {i \in active : alloc[i] = k}
      BY <2>1, <3>1
    <3>3. Takers(others, active, moved, j) = T
      BY <2>1, <3>1 DEF Takers
    <3> QED
      BY <3>2, <3>3
  <2>4. {i \in active : alloc[i] = k} = IF T = {} THEN {} ELSE {First(occs, T)}
    BY <1>3 DEF IsAllocation
  <2>5. T \in SUBSET D
    BY DEF Takers
  <2> HIDE DEF T
  <2>6. T # {} => First(others, T) = First(occs, T)
    BY <2>5, DisplacedFirst
  <2> QED
    BY <2>1, <2>3, <2>4, <2>6
<1>6. moved \in Allocations(others, active, Shifted(used, d))
  <2>1. IsAllocation(others, active, later, moved)
    BY <1>5 DEF IsAllocation
  <2> QED
    BY <1>4, <2>1 DEF Allocations, later
<1>7. more = moved
  <2>1. later \in SUBSET Nat
    BY <1>1, <1>2 DEF Shifted
  <2> QED
    BY <1>6, <2>1, OneAllocation DEF later
<1>8. Used(moved) = Shifted(Used(alloc), d)
  <2>1. DOMAIN moved = active /\ DOMAIN alloc = active
    BY <1>4
  <2>2. \A i \in active : moved[i] # NoTick <=> alloc[i] # NoTick
    BY <1>1, <1>4 DEF Delayed
  <2>3. Used(moved) = {moved[i] : i \in {j \in active : moved[j] # NoTick}}
    BY <2>1 DEF Used
  <2>4. Used(alloc) = {alloc[i] : i \in {j \in active : alloc[j] # NoTick}}
    BY <2>1 DEF Used
  <2>5. \A i \in {j \in active : alloc[j] # NoTick} : moved[i] = alloc[i] + d
    BY <1>4 DEF Delayed
  <2>6. {j \in active : moved[j] # NoTick} = {j \in active : alloc[j] # NoTick}
    BY <2>2
  <2> DEFINE S == {j \in active : alloc[j] # NoTick}
  <2> HIDE DEF S
  <2>7. {moved[i] : i \in S} = {alloc[i] + d : i \in S}
    BY <2>5 DEF S
  <2>8. Shifted({alloc[i] : i \in S}, d) = {alloc[i] + d : i \in S}
    BY DEF Shifted
  <2> QED
    BY <2>3, <2>4, <2>6, <2>7, <2>8 DEF S
<1> QED
  BY <1>4, <1>7, <1>8

\* The resolution of the conditional duties keeps the distance.
LEMMA ResolveDisplaces ==
  ASSUME NEW D \in SUBSET Nat, NEW occs \in [D -> Occurrence],
         NEW others \in [D -> Occurrence], NEW d \in Nat, NEW now \in Nat,
         DisplacedLedger(occs, others, d, -1), NEW value,
         NEW used \in SUBSET Nat,
         NEW alloc \in Allocations(occs, Activated(occs, value), used),
         NEW more \in Allocations(others, Activated(others, value), Shifted(used, d))
  PROVE  /\ DisplacedLedger(ResolveConditionals(occs, value, alloc, now),
                            ResolveConditionals(others, value, more, now + d), d, -1)
         /\ Used(more) = Shifted(Used(alloc), d)
<1> DEFINE active == Activated(occs, value)
           after == ResolveConditionals(occs, value, alloc, now)
           afters == ResolveConditionals(others, value, more, now + d)
<1>0. \A i \in D : /\ occs[i] \in Occurrence /\ others[i] \in Occurrence
                   /\ others[i].status = occs[i].status
                   /\ others[i].deadline = occs[i].deadline + d
                   /\ others[i].trigger_tick = occs[i].trigger_tick + d
                   /\ others[i].candidates = Shifted(occs[i].candidates, d)
                   /\ occs[i].deadline \in Nat /\ ~ occs[i].deadline <= -1
  BY DEF DisplacedLedger, Displaced, Occurrence
<1>1. active \in SUBSET D /\ Activated(others, value) = active
  BY <1>0 DEF Activated
<1>6. /\ alloc \in Allocations(occs, active, used)
      /\ more \in Allocations(others, active, Shifted(used, d))
  BY <1>1
<1>2. /\ DOMAIN alloc = active /\ DOMAIN more = active
      /\ alloc \in [active -> Nat \cup {NoTick}]
  <2>1. alloc \in [active -> Nat \cup {NoTick}]
    BY <1>1, AllocationType
  <2> QED
    BY <1>1, <2>1 DEF Allocations
<1> HIDE DEF active
<1>3. /\ Delayed(active, alloc, more, d)
      /\ Used(more) = Shifted(Used(alloc), d)
  BY <1>1, <1>6, DisplacedPass
<1>4. DOMAIN after = D /\ DOMAIN afters = D
  BY DEF ResolveConditionals
<1>5. ASSUME NEW i \in D PROVE Displaced(after[i], afters[i], d, -1)
  <2> DEFINE o == occs[i]
             p == others[i]
  <2>1. /\ o \in Occurrence /\ p \in Occurrence /\ p.status = o.status
        /\ p.deadline = o.deadline + d /\ p.trigger_tick = o.trigger_tick + d
        /\ p.candidates = Shifted(o.candidates, d)
        /\ o.deadline \in Nat /\ ~ o.deadline <= -1
    BY <1>0
  <2>2. CASE o.status \in Conditional /\ value = "F"
    <3>1. after[i] = GuardBecomesFalse(o) /\ afters[i] = GuardBecomesFalse(p)
      BY <2>1, <2>2 DEF ResolveConditionals
    <3> QED
      BY <2>1, <3>1 DEF GuardBecomesFalse, Occurrence, Displaced
  <2>3. CASE ~ (o.status \in Conditional /\ value = "F") /\ i \notin active
    <3>1. after[i] = o /\ afters[i] = p
      BY <1>2, <2>1, <2>3 DEF ResolveConditionals, GuardsBecomeTrue
    <3> QED
      BY <2>1, <3>1 DEF Displaced
  <2>4. CASE ~ (o.status \in Conditional /\ value = "F") /\ i \in active
    <3>1. after[i] = Activate(o, alloc[i], now) /\ afters[i] = Activate(p, more[i], now + d)
      BY <1>2, <2>1, <2>4 DEF ResolveConditionals, GuardsBecomeTrue
    <3>2. /\ more[i] = IF alloc[i] = NoTick THEN NoTick ELSE alloc[i] + d
          /\ alloc[i] \in Nat \cup {NoTick} /\ NoTick = -1
      BY <1>2, <1>3, <2>4 DEF NoTick, Delayed
    <3> HIDE DEF o, p, after, afters
    <3>3. CASE alloc[i] # NoTick
      <4>1. more[i] # NoTick
        BY <3>2, <3>3
      <4>2. after[i] = Discharge(o, alloc[i]) /\ afters[i] = Discharge(p, more[i])
        BY <3>1, <3>3, <4>1 DEF Activate
      <4> QED
        BY <2>1, <4>2 DEF Discharge, Occurrence, Displaced
    <3>4. CASE alloc[i] = NoTick /\ now <= o.deadline
      <4>1. more[i] = NoTick /\ now + d <= p.deadline
        BY <2>1, <3>2, <3>4
      <4>2. /\ after[i] = [o EXCEPT !.status = "Open"]
            /\ afters[i] = [p EXCEPT !.status = "Open"]
        BY <3>1, <3>4, <4>1 DEF Activate
      <4> QED
        BY <2>1, <4>2 DEF Occurrence, Displaced
    <3>5. CASE alloc[i] = NoTick /\ ~ now <= o.deadline
      <4>1. more[i] = NoTick /\ ~ now + d <= p.deadline
        BY <2>1, <3>2, <3>5
      <4>2. /\ after[i] = Breach(o, "RetroactiveActivationAfterDeadline", now)
            /\ afters[i] = Breach(p, "RetroactiveActivationAfterDeadline", now + d)
        BY <3>1, <3>5, <4>1 DEF Activate
      <4> QED
        BY <2>1, <4>2 DEF Breach, Occurrence, Displaced
    <3> QED
      BY <3>3, <3>4, <3>5
  <2> QED
    BY <2>2, <2>3, <2>4
<1> QED
  BY <1>3, <1>4, <1>5 DEF DisplacedLedger

\* A duty triggered in both ledgers, in each at its own time.
LEMMA TriggerDisplaces ==
  ASSUME NEW D, NEW occs \in [D -> Occurrence], NEW others \in [D -> Occurrence],
         NEW oid, NEW guard, NEW d \in Nat, NEW now \in Nat,
         DisplacedLedger(occs, others, d, -1)
  PROVE  DisplacedLedger(InstantiateTrigger(occs, oid, guard, now),
                         InstantiateTrigger(others, oid, guard, now + d), d, -1)
<1> DEFINE after == InstantiateTrigger(occs, oid, guard, now)
           afters == InstantiateTrigger(others, oid, guard, now + d)
<1>1. DOMAIN after = D \cup {oid} /\ DOMAIN afters = D \cup {oid}
  BY DEF InstantiateTrigger
<1>2. /\ after[oid] = TriggerAndGuardRule(now, now + Bound, guard)
      /\ afters[oid] = TriggerAndGuardRule(now + d, now + d + Bound, guard)
      /\ \A i \in D : i # oid => after[i] = occs[i] /\ afters[i] = others[i]
  BY DEF InstantiateTrigger
<1> HIDE DEF after, afters
<1>3. Displaced(after[oid], afters[oid], d, -1)
  <2>1. Bound \in Nat /\ now + d + Bound = now + Bound + d /\ ~ now + Bound <= -1
    BY BoundAssumption
  <2> QED
    BY <1>2, <2>1 DEF TriggerAndGuardRule, NewOccurrence, Displaced, Shifted
<1>4. \A i \in D : i # oid => Displaced(after[i], afters[i], d, -1)
  BY <1>2 DEF DisplacedLedger
<1>5. DisplacedLedger(after, afters, d, -1)
  BY <1>1, <1>3, <1>4 DEF DisplacedLedger
<1> QED
  BY <1>5 DEF after, afters

\* A response settles, or is recorded by, the same duties in both.
LEMMA RegisterDisplaces ==
  ASSUME NEW D \in SUBSET Nat, NEW occs \in [D -> Occurrence],
         NEW others \in [D -> Occurrence], NEW d \in Nat, NEW now \in Nat,
         DisplacedLedger(occs, others, d, -1)
  PROVE  /\ DisplacedLedger(RegisterResponseToken(occs, now),
                            RegisterResponseToken(others, now + d), d, -1)
         /\ Eligible(others, now + d) = Eligible(occs, now)
<1> DEFINE S == Eligible(occs, now)
           after == RegisterResponseToken(occs, now)
           afters == RegisterResponseToken(others, now + d)
<1>0. \A i \in D : /\ occs[i] \in Occurrence /\ others[i] \in Occurrence
                   /\ others[i].status = occs[i].status
                   /\ others[i].deadline = occs[i].deadline + d
                   /\ others[i].trigger_tick = occs[i].trigger_tick + d
                   /\ others[i].candidates = Shifted(occs[i].candidates, d)
                   /\ occs[i].deadline \in Nat /\ ~ occs[i].deadline <= -1
                   /\ now + d <= others[i].deadline <=> now <= occs[i].deadline
  BY DEF DisplacedLedger, Displaced, Occurrence
<1>1. Eligible(others, now + d) = S /\ S \in SUBSET D
  BY <1>0 DEF Eligible
<1> HIDE DEF S
<1>2. CASE S # {}
  <2> DEFINE target == First(occs, S)
  <2>1. First(others, S) = target /\ target \in S
    BY <1>1, <1>2, DisplacedFirst, FirstIsLeast
  <2> HIDE DEF target
  <2>2. /\ after = [occs EXCEPT ![target] = Discharge(@, now)]
        /\ afters = [others EXCEPT ![target] = Discharge(@, now + d)]
    BY <1>1, <1>2, <2>1 DEF RegisterResponseToken, S, target
  <2>3. Displaced(Discharge(occs[target], now), Discharge(others[target], now + d), d, -1)
    BY <1>0, <1>1, <2>1 DEF Discharge, Displaced, Occurrence
  <2>4. \A i \in D : Displaced(after[i], afters[i], d, -1)
    BY <1>1, <2>1, <2>2, <2>3 DEF DisplacedLedger
  <2> QED
    BY <1>1, <2>2, <2>4 DEF DisplacedLedger, S
<1>3. CASE S = {}
  <2>1. ASSUME NEW i \in D PROVE Displaced(after[i], afters[i], d, -1)
    <3> DEFINE o == occs[i]
               p == others[i]
    <3>1. /\ o \in Occurrence /\ p \in Occurrence /\ p.status = o.status
          /\ p.deadline = o.deadline + d /\ p.trigger_tick = o.trigger_tick + d
          /\ p.candidates = Shifted(o.candidates, d)
          /\ o.deadline \in Nat /\ ~ o.deadline <= -1
          /\ now + d <= p.deadline <=> now <= o.deadline
      BY <1>0
    <3>2. CASE o.status \in Conditional /\ now <= o.deadline
      <4>1. /\ after[i] = [o EXCEPT !.candidates = @ \cup {now}]
            /\ afters[i] = [p EXCEPT !.candidates = @ \cup {now + d}]
        BY <1>1, <1>3, <3>1, <3>2 DEF RegisterResponseToken, S
      <4>2. Shifted(o.candidates \cup {now}, d) = Shifted(o.candidates, d) \cup {now + d}
        BY DEF Shifted
      <4> QED
        BY <3>1, <4>1, <4>2 DEF Displaced, Occurrence
    <3>3. CASE ~ (o.status \in Conditional /\ now <= o.deadline)
      <4>1. after[i] = o /\ afters[i] = p
        BY <1>1, <1>3, <3>1, <3>3 DEF RegisterResponseToken, S
      <4> QED
        BY <3>1, <4>1 DEF Displaced
    <3> QED
      BY <3>2, <3>3
  <2>2. DOMAIN after = D /\ DOMAIN afters = D
    BY <1>1, <1>3 DEF RegisterResponseToken, S
  <2> QED
    BY <1>1, <2>1, <2>2 DEF DisplacedLedger, S
<1> QED
  BY <1>2, <1>3

\* A terminal event converts the same duties to the same statuses.
LEMMA TerminalDisplaces ==
  ASSUME NEW D, NEW occs \in [D -> Occurrence], NEW others \in [D -> Occurrence],
         NEW d \in Nat, NEW kind, NEW now, NEW later, DisplacedLedger(occs, others, d, -1)
  PROVE  DisplacedLedger(TerminalConversion(occs, kind, now),
                         TerminalConversion(others, kind, later), d, -1)
<1> DEFINE after == TerminalConversion(occs, kind, now)
           afters == TerminalConversion(others, kind, later)
<1>1. DOMAIN after = D /\ DOMAIN afters = D
  BY DEF TerminalConversion
<1>2. ASSUME NEW i \in D PROVE Displaced(after[i], afters[i], d, -1)
  <2> DEFINE o == occs[i]
             p == others[i]
  <2>1. /\ o \in Occurrence /\ p \in Occurrence /\ p.status = o.status
        /\ p.deadline = o.deadline + d /\ p.trigger_tick = o.trigger_tick + d
        /\ p.candidates = Shifted(o.candidates, d)
        /\ o.deadline \in Nat /\ ~ o.deadline <= -1
    BY DEF DisplacedLedger, Displaced, Occurrence
  <2>2. CASE o.status = "Open"
    <3>1. after[i] = ConvertOpen(o, kind, now) /\ afters[i] = ConvertOpen(p, kind, later)
      BY <2>1, <2>2 DEF TerminalConversion, Conditional
    <3> HIDE DEF o, p, after, afters
    <3>2. CASE kind = "Complete"
      BY <2>1, <3>1, <3>2, ZenonT(40) DEF ConvertOpen, Breach, Displaced, Occurrence
    <3>3. CASE kind = "AgentAbort"
      BY <2>1, <3>1, <3>3, ZenonT(40) DEF ConvertOpen, Breach, Displaced, Occurrence
    <3>4. CASE kind \notin {"Complete", "AgentAbort"}
      BY <2>1, <3>1, <3>4 DEF ConvertOpen, Displaced, Occurrence
    <3> QED
      BY <3>2, <3>3, <3>4
  <2>3. CASE o.status \in Conditional
    <3>1. after[i] = ConvertConditional(o, kind) /\ afters[i] = ConvertConditional(p, kind)
      BY <2>1, <2>3 DEF TerminalConversion, Conditional
    <3> QED
      BY <2>1, <3>1 DEF ConvertConditional, Displaced, Occurrence
  <2>4. CASE o.status # "Open" /\ o.status \notin Conditional
    <3>1. after[i] = o /\ afters[i] = p
      BY <2>1, <2>4 DEF TerminalConversion
    <3> QED
      BY <2>1, <3>1 DEF Displaced
  <2> QED
    BY <2>2, <2>3, <2>4
<1> QED
  BY <1>1, <1>2 DEF DisplacedLedger

-----------------------------------------------------------------------------
(* Residuals: the two monitors.                                             *)

\* Two monitors that read alike, of which one lives d ticks later.
Apart(d) ==
  /\ TokenInv /\ Second!TokenInv
  /\ mode = t_mode /\ terminal_kind = t_terminal_kind /\ fault = t_fault
  /\ epistemic = t_epistemic /\ oid_counter = t_oid_counter
  /\ t_consumed = Shifted(consumed, d)
  /\ \E seen \in Int :
       /\ seen <= t_tick - d
       /\ fault = "InconsistentObservation" => seen < 0
       /\ DisplacedLedger(occurrences, t_occurrences, d, seen)

\* The same event, d ticks later.
Postponed(e, f, d) ==
  /\ f.type = e.type /\ f.observations = e.observations /\ f.tick = e.tick + d
  /\ e.type = "Domain" => f.tag = e.tag
  /\ e.type = "Terminal" => f.kind = e.kind

\* An event is an event at whatever tick.
LEMMA EventsPostpone ==
  ASSUME NEW e \in AnyEvent, NEW now \in Int
  PROVE  /\ [e EXCEPT !.tick = now] \in AnyEvent
         /\ [e EXCEPT !.tick = now].tick = now
         /\ [e EXCEPT !.tick = now].type = e.type
         /\ [e EXCEPT !.tick = now].observations = e.observations
         /\ e.type = "Domain" => [e EXCEPT !.tick = now].tag = e.tag
         /\ e.type = "Terminal" => [e EXCEPT !.tick = now].kind = e.kind
BY DEF AnyEvent

\* The types of the two monitors.
LEMMA ApartTypes ==
  ASSUME NEW d \in Nat, Apart(d)
  PROVE  /\ TypeOK /\ ShapeOK /\ oid_counter \in Nat
         /\ tick \in Nat \cup {-1} /\ t_tick \in Nat \cup {-1}
         /\ 1..oid_counter \in SUBSET Nat
         /\ occurrences \in [1..oid_counter -> Occurrence]
         /\ t_occurrences \in [1..oid_counter -> Occurrence]
         /\ consumed \in SUBSET Nat
         /\ epistemic \in [Keys -> K3]
         /\ Second!TypeOK /\ Second!ShapeOK
<1>1. TypeOK /\ Second!TypeOK /\ ShapeOK /\ Second!ShapeOK
  BY DEF Apart, TokenInv, IInv, Second!TokenInv, Second!IInv
<1>2. t_occurrences \in [1..t_oid_counter -> Occurrence] /\ t_tick \in Nat \cup {-1}
  BY <1>1, SameRecords DEF Second!TypeOK
<1> QED
  BY <1>1, <1>2 DEF TypeOK, Apart

\* What the two know of the guard, and what contradicts it, is the same.
LEMMA ApartGuards ==
  ASSUME NEW d \in Nat, Apart(d), NEW e, NEW f, f.observations = e.observations
  PROVE  /\ Contradicts(e.observations) <=> Second!Contradicts(f.observations)
         /\ Observed(e.observations) = Second!Observed(f.observations)
         /\ Guard(e) = Second!Guard(f)
<1>1. epistemic = t_epistemic
  BY DEF Apart
<1> QED
  BY <1>1
  DEF Contradicts, Second!Contradicts, Refines, Second!Refines, Observed,
      Second!Observed, Guard, Second!Guard

\* The strict expiry, after which it no longer matters what ticks were heard of.
LEMMA ApartExpired ==
  ASSUME NEW d \in Nat, Apart(d), NEW now \in Nat, tick < now, t_tick < now + d
  PROVE  /\ PreExpire(occurrences, now) \in [1..oid_counter -> Occurrence]
         /\ PreExpire(t_occurrences, now + d) \in [1..oid_counter -> Occurrence]
         /\ DisplacedLedger(PreExpire(occurrences, now),
                            PreExpire(t_occurrences, now + d), d, -1)
<1> DEFINE D == 1..oid_counter
<1>1. /\ occurrences \in [D -> Occurrence] /\ t_occurrences \in [D -> Occurrence]
      /\ t_tick \in Nat \cup {-1} /\ now + d \in Nat
  BY ApartTypes
<1>2. PICK seen \in Int : /\ seen <= t_tick - d
                          /\ DisplacedLedger(occurrences, t_occurrences, d, seen)
  BY DEF Apart
<1>3. seen < now
  BY <1>1, <1>2
<1> HIDE DEF D
<1> QED
  BY <1>1, <1>2, <1>3, PreExpireType, PreExpireDisplaces DEF D

\* The second set of tokens is the first, d ticks later.
Postdated(used, moreUsed, d) == moreUsed = Shifted(used, d)

\* Phases 2 to 6 of an event that both accept.
LEMMA ApartResolved ==
  ASSUME NEW d \in Nat, Apart(d), NEW e \in AnyEvent, NEW f \in AnyEvent,
         Postponed(e, f, d), Accept(e), Second!Accept(f),
         NEW alloc \in Resolutions(e), NEW more \in Second!Resolutions(f)
  PROVE  /\ e.tick \in Nat
         /\ Resolved(e, alloc) \in [1..oid_counter -> Occurrence]
         /\ Second!Resolved(f, more) \in [1..oid_counter -> Occurrence]
         /\ DisplacedLedger(Resolved(e, alloc), Second!Resolved(f, more), d, -1)
         /\ Postdated(consumed \cup Used(alloc), t_consumed \cup Used(more), d)
<1> DEFINE now == e.tick
           occs == PreExpire(occurrences, now)
           others == PreExpire(t_occurrences, now + d)
           D == 1..oid_counter
           value == Guard(e)
<1>1. /\ now \in Nat /\ tick < now /\ t_tick < now + d /\ f.tick = now + d
      /\ D \in SUBSET Nat /\ consumed \in SUBSET Nat /\ t_consumed = Shifted(consumed, d)
      /\ Second!Guard(f) = value
  <2>1. ShapeOK /\ D \in SUBSET Nat /\ consumed \in SUBSET Nat
        /\ tick \in Nat \cup {-1} /\ t_tick \in Nat \cup {-1}
    BY ApartTypes
  <2>2. now \in Nat /\ f.tick = now + d
    BY <2>1, AcceptType DEF Postponed
  <2>3. tick < now /\ t_tick < now + d
    BY <2>1, <2>2 DEF Accept, Second!Accept
  <2>4. Second!Guard(f) = value
    BY ApartGuards DEF Postponed
  <2> QED
    BY <2>1, <2>2, <2>3, <2>4 DEF Apart
<1>2. /\ occs \in [D -> Occurrence] /\ others \in [D -> Occurrence]
      /\ DisplacedLedger(occs, others, d, -1)
  <2> HIDE DEF now
  <2> QED
    BY <1>1, ApartExpired
<1>3. /\ alloc \in Allocations(occs, Activated(occs, value), consumed)
      /\ Resolved(e, alloc) = ResolveConditionals(occs, value, alloc, now)
  BY DEF Resolutions, Resolved
<1>4. /\ more \in Allocations(others, Activated(others, value), Shifted(consumed, d))
      /\ Second!Resolved(f, more) = ResolveConditionals(others, value, more, now + d)
  BY <1>1, SameExpiry, SamePass, SameResolution
  DEF Second!Resolutions, Second!Resolved
<1> HIDE DEF now, occs, others, D, value
<1>5. /\ DisplacedLedger(ResolveConditionals(occs, value, alloc, now),
                         ResolveConditionals(others, value, more, now + d), d, -1)
      /\ Used(more) = Shifted(Used(alloc), d)
  BY <1>1, <1>2, <1>3, <1>4, ResolveDisplaces
<1>6. /\ ResolveConditionals(occs, value, alloc, now) \in [D -> Occurrence]
      /\ ResolveConditionals(others, value, more, now + d) \in [D -> Occurrence]
  <2>1. Activated(occs, value) \in SUBSET D /\ Activated(others, value) \in SUBSET D
    BY <1>2 DEF Activated
  <2>2. alloc \in [Activated(occs, value) -> Nat \cup {NoTick}]
    BY <1>2, <1>3, <2>1, AllocationType
  <2>3. more \in [Activated(others, value) -> Nat \cup {NoTick}]
    BY <1>2, <1>4, <2>1, AllocationType
  <2>4. now + d \in Nat
    BY <1>1
  <2> QED
    BY <1>1, <1>2, <2>1, <2>2, <2>3, <2>4, ResolveType
<1>7. t_consumed \cup Used(more) = Shifted(consumed \cup Used(alloc), d)
  BY <1>1, <1>5 DEF Shifted
<1> QED
  BY <1>1, <1>3, <1>4, <1>5, <1>6, <1>7 DEF now, D, Postdated

\* A domain event keeps the distance.
LEMMA ApartDomain ==
  ASSUME NEW d \in Nat, Apart(d), NEW e \in AnyEvent, NEW f \in AnyEvent,
         Postponed(e, f, d), StepDomain(e), Second!StepDomain(f)
  PROVE  /\ oid_counter' = t_oid_counter'
         /\ t_consumed' = Shifted(consumed', d)
         /\ DisplacedLedger(occurrences', t_occurrences', d, -1)
<1> DEFINE now == e.tick
           guard == Guard(e)
<1>1. /\ Accept(e) /\ Second!Accept(f) /\ f.tick = now + d /\ f.tag = e.tag
      /\ oid_counter = t_oid_counter /\ oid_counter \in Nat
      /\ TypeOK /\ Second!TypeOK /\ Second!Guard(f) = guard
  BY ApartTypes, ApartGuards DEF StepDomain, Second!StepDomain, Postponed, Apart
<1>2. PICK alloc \in Resolutions(e), oid \in FreshOids :
        /\ occurrences' = BoundaryExpire(Answered(e, alloc, oid), now)
        /\ oid_counter' = IF e.tag = TriggerTag THEN oid ELSE oid_counter
        /\ consumed' = consumed \cup Used(alloc) \cup
                         {t \in {now} : /\ e.tag = ResponseTag
                                        /\ Eligible(Triggered(e, alloc, oid), t) # {}}
  BY DEF StepDomain
<1>3. PICK more \in Second!Resolutions(f), next \in Second!FreshOids :
        /\ t_occurrences' = Second!BoundaryExpire(Second!Answered(f, more, next), f.tick)
        /\ t_oid_counter' = IF f.tag = TriggerTag THEN next ELSE t_oid_counter
        /\ t_consumed' = t_consumed \cup Second!Used(more) \cup
             {t \in {f.tick} : /\ f.tag = ResponseTag
                               /\ Second!Eligible(Second!Triggered(f, more, next), t) # {}}
  BY DEF Second!StepDomain
<1>4. oid = oid_counter + 1 /\ next = oid
  <2>1. oid = oid_counter + 1
    BY <1>1, FreshOidIsNext
  <2>2. next = t_oid_counter + 1
    BY <1>1, Second!FreshOidIsNext, BoundAssumption, GuardAssumption, TicksAssumption
    DEF Second!FreshOidIsNext
  <2> QED
    BY <1>1, <2>1, <2>2
<1> DEFINE occs == Resolved(e, alloc)
           others == Second!Resolved(f, more)
           triggered == Triggered(e, alloc, oid)
           moreTriggered == Second!Triggered(f, more, oid)
           answered == Answered(e, alloc, oid)
           moreAnswered == Second!Answered(f, more, oid)
           D == 1..oid_counter
           E == IF e.tag = TriggerTag THEN D \cup {oid} ELSE D
           used == consumed \cup Used(alloc)
           moreUsed == t_consumed \cup Used(more)
<1>5. /\ now \in Nat /\ occs \in [D -> Occurrence] /\ others \in [D -> Occurrence]
      /\ DisplacedLedger(occs, others, d, -1)
      /\ Postdated(used, moreUsed, d)
  BY <1>1, ApartResolved
<1>6. /\ triggered = IF e.tag = TriggerTag THEN InstantiateTrigger(occs, oid, guard, now)
                     ELSE occs
      /\ moreTriggered = IF e.tag = TriggerTag
                         THEN InstantiateTrigger(others, oid, guard, now + d)
                         ELSE others
  BY <1>1, SameTrigger DEF Triggered, Second!Triggered
<1>7. /\ answered = IF e.tag = ResponseTag THEN RegisterResponseToken(triggered, now)
                    ELSE triggered
      /\ moreAnswered = IF e.tag = ResponseTag
                        THEN RegisterResponseToken(moreTriggered, now + d)
                        ELSE moreTriggered
  BY <1>1, SameAnswer DEF Answered, Second!Answered
<1>8. /\ occurrences' = BoundaryExpire(answered, now)
      /\ t_occurrences' = BoundaryExpire(moreAnswered, now + d)
      /\ consumed' = used \cup {t \in {now} : /\ e.tag = ResponseTag
                                              /\ Eligible(triggered, t) # {}}
      /\ t_consumed' = moreUsed \cup {t \in {now + d} : /\ e.tag = ResponseTag
                                                       /\ Eligible(moreTriggered, t) # {}}
  BY <1>1, <1>2, <1>3, <1>4, SameExpiry, SamePass, SameAnswer
<1>9. D \in SUBSET Nat /\ E \in SUBSET Nat
  BY <1>1, <1>4
<1>10. e.tag = TriggerTag => E = D \cup {oid}
  OBVIOUS
<1>11. e.tag # TriggerTag => E = D
  OBVIOUS
<1> HIDE DEF now, guard, occs, others, triggered, moreTriggered, answered, moreAnswered,
             D, E, used, moreUsed
<1>12. /\ triggered \in [E -> Occurrence] /\ moreTriggered \in [E -> Occurrence]
       /\ DisplacedLedger(triggered, moreTriggered, d, -1)
  <2>1. CASE e.tag = TriggerTag
    <3>1. now + d \in Nat
      BY <1>5
    <3>2. /\ InstantiateTrigger(occs, oid, guard, now) \in [D \cup {oid} -> Occurrence]
          /\ InstantiateTrigger(others, oid, guard, now + d) \in [D \cup {oid} -> Occurrence]
      BY <1>5, <3>1, TriggerType
    <3>3. DisplacedLedger(InstantiateTrigger(occs, oid, guard, now),
                          InstantiateTrigger(others, oid, guard, now + d), d, -1)
      BY <1>5, TriggerDisplaces
    <3> QED
      BY <1>6, <1>10, <2>1, <3>2, <3>3
  <2>2. CASE e.tag # TriggerTag
    BY <1>5, <1>6, <1>11, <2>2
  <2> QED
    BY <2>1, <2>2
<1>13. /\ DisplacedLedger(RegisterResponseToken(triggered, now),
                          RegisterResponseToken(moreTriggered, now + d), d, -1)
       /\ Eligible(moreTriggered, now + d) = Eligible(triggered, now)
  BY <1>5, <1>9, <1>12, RegisterDisplaces
<1>14. /\ answered \in [E -> Occurrence] /\ moreAnswered \in [E -> Occurrence]
       /\ DisplacedLedger(answered, moreAnswered, d, -1)
  <2>1. now + d \in Nat
    BY <1>5
  <2>2. /\ RegisterResponseToken(triggered, now) \in [E -> Occurrence]
        /\ RegisterResponseToken(moreTriggered, now + d) \in [E -> Occurrence]
    BY <1>5, <1>9, <1>12, <2>1, RegisterType
  <2> QED
    BY <1>7, <1>12, <1>13, <2>2
<1>15. DisplacedLedger(BoundaryExpire(answered, now), BoundaryExpire(moreAnswered, now + d),
                       d, -1)
  BY <1>5, <1>14, BoundaryDisplaces
<1>16. t_consumed' = Shifted(consumed', d)
  <2>1. {t \in {now + d} : e.tag = ResponseTag /\ Eligible(moreTriggered, t) # {}}
          = Shifted({t \in {now} : e.tag = ResponseTag /\ Eligible(triggered, t) # {}}, d)
    BY <1>13 DEF Shifted
  <2>2. \A S, T : Shifted(S \cup T, d) = Shifted(S, d) \cup Shifted(T, d)
    BY DEF Shifted
  <2>3. moreUsed = Shifted(used, d)
    BY <1>5 DEF Postdated
  <2> DEFINE a == {t \in {now} : e.tag = ResponseTag /\ Eligible(triggered, t) # {}}
             b == {t \in {now + d} : e.tag = ResponseTag /\ Eligible(moreTriggered, t) # {}}
  <2>4. consumed' = used \cup a /\ t_consumed' = moreUsed \cup b /\ b = Shifted(a, d)
    BY <1>8, <2>1
  <2> HIDE DEF a, b
  <2>5. Shifted(used \cup a, d) = Shifted(used, d) \cup Shifted(a, d)
    BY <2>2
  <2> QED
    BY <2>3, <2>4, <2>5
<1> QED
  BY <1>1, <1>2, <1>3, <1>4, <1>8, <1>15, <1>16

\* So does a tick event, or a terminal one.
LEMMA ApartSilent ==
  ASSUME NEW d \in Nat, Apart(d), NEW e \in AnyEvent, NEW f \in AnyEvent,
         Postponed(e, f, d),
         \/ StepTick(e) /\ Second!StepTick(f)
         \/ StepTerminal(e) /\ Second!StepTerminal(f)
  PROVE  /\ oid_counter' = t_oid_counter'
         /\ t_consumed' = Shifted(consumed', d)
         /\ DisplacedLedger(occurrences', t_occurrences', d, -1)
<1> DEFINE now == e.tick
           D == 1..oid_counter
<1>1. /\ Accept(e) /\ Second!Accept(f) /\ f.tick = now + d
      /\ oid_counter' = t_oid_counter'
      /\ e.type = "Terminal" => f.kind = e.kind
  BY DEF StepTick, StepTerminal, Second!StepTick, Second!StepTerminal, Apart, Postponed
<1>2. PICK alloc \in Resolutions(e), more \in Second!Resolutions(f) :
        LET before == BoundaryExpire(Resolved(e, alloc), now)
            others == Second!BoundaryExpire(Second!Resolved(f, more), f.tick)
        IN  /\ \/ occurrences' = before /\ t_occurrences' = others
               \/ /\ e.type = "Terminal"
                  /\ occurrences' = TerminalConversion(before, e.kind, now)
                  /\ t_occurrences' = Second!TerminalConversion(others, f.kind, f.tick)
            /\ consumed' = consumed \cup Used(alloc)
            /\ t_consumed' = t_consumed \cup Second!Used(more)
  BY DEF StepTick, StepTerminal, Second!StepTick, Second!StepTerminal
<1> DEFINE occs == Resolved(e, alloc)
           others == Second!Resolved(f, more)
           after == BoundaryExpire(occs, now)
           afters == BoundaryExpire(others, now + d)
<1>3. /\ now \in Nat /\ occs \in [D -> Occurrence] /\ others \in [D -> Occurrence]
      /\ DisplacedLedger(occs, others, d, -1)
      /\ Postdated(consumed \cup Used(alloc), t_consumed \cup Used(more), d)
  BY <1>1, ApartResolved
<1>4. /\ \/ occurrences' = after /\ t_occurrences' = afters
         \/ /\ occurrences' = TerminalConversion(after, e.kind, now)
            /\ t_occurrences' = TerminalConversion(afters, e.kind, now + d)
      /\ t_consumed' = Shifted(consumed', d)
  BY <1>1, <1>2, <1>3, SameExpiry, SameTerminal, SamePass DEF Postdated
<1> HIDE DEF now, occs, others, D
<1>5. now + d \in Nat
  BY <1>3
<1>6. after \in [D -> Occurrence] /\ afters \in [D -> Occurrence]
  BY <1>3, <1>5, PreExpireType
<1>7. DisplacedLedger(after, afters, d, -1)
  BY <1>3, BoundaryDisplaces
<1> HIDE DEF after, afters
<1>8. DisplacedLedger(TerminalConversion(after, e.kind, now),
                      TerminalConversion(afters, e.kind, now + d), d, -1)
  BY <1>6, <1>7, TerminalDisplaces
<1> QED
  BY <1>1, <1>4, <1>7, <1>8

\* What one event does to the two monitors: neither moves, both find their
\* deadlines missed and are contradicted, or both process it.
Moving(e, f) ==
  \/ StepDomain(e) /\ Second!StepDomain(f)
  \/ StepTick(e) /\ Second!StepTick(f)
  \/ StepTerminal(e) /\ Second!StepTerminal(f)

\* Two monitors that both find an event late, or neither, go the same way.
LEMMA ApartBranches ==
  ASSUME NEW d \in Nat, Apart(d), NEW e \in AnyEvent, NEW f \in AnyEvent,
         Postponed(e, f, d), e.tick <= tick <=> f.tick <= t_tick,
         Step(e), Second!Step(f)
  PROVE  /\ mode' = t_mode' /\ terminal_kind' = t_terminal_kind' /\ fault' = t_fault'
         /\ epistemic' = t_epistemic'
         /\ \/ /\ UNCHANGED <<occurrences, oid_counter, consumed, tick,
                              t_occurrences, t_oid_counter, t_consumed, t_tick>>
               /\ fault' = "InconsistentObservation" => fault' = fault
            \/ /\ e.tick > tick /\ f.tick > t_tick
               /\ tick' = e.tick /\ t_tick' = f.tick
               /\ \/ /\ occurrences' = PreExpire(occurrences, e.tick)
                     /\ t_occurrences' = PreExpire(t_occurrences, f.tick)
                     /\ UNCHANGED <<oid_counter, consumed, t_oid_counter, t_consumed>>
                  \/ Moving(e, f)
<1>1. /\ mode = t_mode /\ terminal_kind = t_terminal_kind /\ fault = t_fault
      /\ epistemic = t_epistemic
  BY DEF Apart
<1>2. /\ Contradicts(e.observations) <=> Second!Contradicts(f.observations)
      /\ Observed(e.observations) = Second!Observed(f.observations)
      /\ e.type = f.type
      /\ e.type = "Terminal" => f.kind = e.kind
  BY ApartGuards DEF Postponed
<1>3. (e.tick <= tick <=> ~ e.tick > tick) /\ (f.tick <= t_tick <=> ~ f.tick > t_tick)
  <2>1. e.tick \in Int /\ f.tick \in Int
    BY DEF AnyEvent
  <2>2. tick \in Nat \cup {-1} /\ t_tick \in Nat \cup {-1}
    BY ApartTypes
  <2> QED
    BY <2>1, <2>2
<1>4. CASE StepAfterEnd(e)
  <2>1. Second!StepAfterEnd(f)
    BY <1>1, <1>4
    DEF StepAfterEnd, Second!Step, Second!StepStale, Second!StepContradiction,
        Second!StepDomain, Second!StepTick, Second!StepTerminal, Second!Accept
  <2> QED
    BY <1>1, <1>4, <2>1 DEF StepAfterEnd, Second!StepAfterEnd
<1>5. CASE StepStale(e)
  <2>1. t_mode = "Running" /\ ~ f.tick > t_tick
    BY <1>1, <1>3, <1>5 DEF StepStale
  <2>2. Second!StepStale(f)
    BY <2>1
    DEF Second!Step, Second!StepAfterEnd, Second!StepContradiction, Second!StepDomain,
        Second!StepTick, Second!StepTerminal, Second!Accept
  <2> QED
    BY <1>1, <1>5, <2>2 DEF StepStale, Second!StepStale
<1>6. CASE StepContradiction(e)
  <2>1. t_mode = "Running" /\ ~ f.tick <= t_tick /\ Second!Contradicts(f.observations)
    BY <1>1, <1>2, <1>3, <1>6 DEF StepContradiction
  <2>2. Second!StepContradiction(f)
    BY <2>1
    DEF Second!Step, Second!StepAfterEnd, Second!StepStale, Second!StepDomain,
        Second!StepTick, Second!StepTerminal, Second!Accept
  <2>3. /\ occurrences' = PreExpire(occurrences, e.tick)
        /\ t_occurrences' = PreExpire(t_occurrences, f.tick)
    BY <1>6, <2>2, SameExpiry DEF StepContradiction, Second!StepContradiction
  <2> QED
    BY <1>1, <1>6, <2>2, <2>3 DEF StepContradiction, Second!StepContradiction
<1>7. ASSUME Accept(e)
      PROVE  /\ Second!StepDomain(f) \/ Second!StepTick(f) \/ Second!StepTerminal(f)
             /\ Second!Accept(f)
             /\ e.tick > tick /\ f.tick > t_tick
             /\ tick' = e.tick /\ t_tick' = f.tick
             /\ epistemic' = t_epistemic' /\ fault' = t_fault'
  <2>1. t_mode = "Running" /\ ~ f.tick <= t_tick /\ ~ Second!Contradicts(f.observations)
    BY <1>1, <1>2, <1>3, <1>7 DEF Accept
  <2>2. Second!StepDomain(f) \/ Second!StepTick(f) \/ Second!StepTerminal(f)
    BY <2>1
    DEF Second!Step, Second!StepAfterEnd, Second!StepStale, Second!StepContradiction
  <2>3. Second!Accept(f)
    BY <2>2 DEF Second!StepDomain, Second!StepTick, Second!StepTerminal
  <2> QED
    BY <1>1, <1>2, <1>7, <2>2, <2>3 DEF Accept, Second!Accept
<1>8. CASE StepDomain(e)
  <2>1. Second!StepDomain(f) /\ Accept(e)
    BY <1>2, <1>7, <1>8 DEF StepDomain, Second!StepTick, Second!StepTerminal
  <2> QED
    BY <1>1, <1>7, <1>8, <2>1 DEF StepDomain, Second!StepDomain, Moving
<1>9. CASE StepTick(e)
  <2>1. Second!StepTick(f) /\ Accept(e)
    BY <1>2, <1>7, <1>9 DEF StepTick, Second!StepDomain, Second!StepTerminal
  <2> QED
    BY <1>1, <1>7, <1>9, <2>1 DEF StepTick, Second!StepTick, Moving
<1>10. CASE StepTerminal(e)
  <2>1. Second!StepTerminal(f) /\ Accept(e)
    BY <1>2, <1>7, <1>10 DEF StepTerminal, Second!StepDomain, Second!StepTick
  <2> QED
    BY <1>1, <1>2, <1>7, <1>10, <2>1 DEF StepTerminal, Second!StepTerminal, Moving
<1> QED
  BY <1>4, <1>5, <1>6, <1>8, <1>9, <1>10 DEF Step

\* An event keeps the distance of the two monitors.
LEMMA ApartStep ==
  ASSUME NEW d \in Nat, Apart(d), NEW e \in AnyEvent, NEW f \in AnyEvent,
         Postponed(e, f, d), e.tick <= tick <=> f.tick <= t_tick,
         Step(e), Second!Step(f)
  PROVE  /\ Apart(d)'
         /\ \/ UNCHANGED <<tick, t_tick>>
            \/ tick' = e.tick /\ t_tick' = e.tick + d /\ e.tick > tick
<1>1. /\ TokenInv' /\ Second!TokenInv'
      /\ f.tick = e.tick + d
      /\ oid_counter = t_oid_counter /\ t_consumed = Shifted(consumed, d)
  <2>1. f \in Second!AnyEvent
    BY SameEvents
  <2>2. Second!TokenInv'
    BY <2>1, Second!StepTokens, BoundAssumption, GuardAssumption, TicksAssumption
    DEF Second!StepTokens, Apart
  <2> QED
    BY <2>2, StepTokens DEF Apart, Postponed
<1>2. /\ mode' = t_mode' /\ terminal_kind' = t_terminal_kind' /\ fault' = t_fault'
      /\ epistemic' = t_epistemic'
  BY ApartBranches
<1>3. CASE /\ UNCHANGED <<occurrences, oid_counter, consumed, tick,
                          t_occurrences, t_oid_counter, t_consumed, t_tick>>
           /\ fault' = "InconsistentObservation" => fault' = fault
  BY <1>1, <1>2, <1>3 DEF Apart
<1>4. ASSUME e.tick > tick, f.tick > t_tick, tick' = e.tick, t_tick' = f.tick,
             oid_counter' = t_oid_counter', t_consumed' = Shifted(consumed', d),
             DisplacedLedger(occurrences', t_occurrences', d, -1)
      PROVE  /\ Apart(d)'
             /\ tick' = e.tick /\ t_tick' = e.tick + d /\ e.tick > tick
  <2>1. -1 \in Int /\ -1 <= t_tick' - d
    <3>1. e.tick \in Int /\ tick \in Nat \cup {-1}
      BY ApartTypes DEF AnyEvent
    <3> QED
      BY <1>1, <1>4, <3>1
  <2> QED
    BY <1>1, <1>2, <1>4, <2>1 DEF Apart
<1>5. ASSUME e.tick > tick, f.tick > t_tick,
             occurrences' = PreExpire(occurrences, e.tick),
             t_occurrences' = PreExpire(t_occurrences, f.tick)
      PROVE  DisplacedLedger(occurrences', t_occurrences', d, -1)
  <2>1. e.tick \in Nat
    <3>1. e.tick \in Int /\ tick \in Nat \cup {-1}
      BY ApartTypes DEF AnyEvent
    <3> QED
      BY <1>5, <3>1
  <2>2. tick < e.tick /\ t_tick < e.tick + d
    <3>1. tick \in Nat \cup {-1} /\ t_tick \in Nat \cup {-1}
      BY ApartTypes
    <3> QED
      BY <1>1, <1>5, <2>1, <3>1
  <2> QED
    BY <1>1, <1>5, <2>1, <2>2, ApartExpired
<1>6. Moving(e, f) => /\ oid_counter' = t_oid_counter'
                      /\ t_consumed' = Shifted(consumed', d)
                      /\ DisplacedLedger(occurrences', t_occurrences', d, -1)
  BY ApartDomain, ApartSilent DEF Moving
<1>7. \/ /\ UNCHANGED <<occurrences, oid_counter, consumed, tick,
                        t_occurrences, t_oid_counter, t_consumed, t_tick>>
         /\ fault' = "InconsistentObservation" => fault' = fault
      \/ /\ e.tick > tick /\ f.tick > t_tick
         /\ tick' = e.tick /\ t_tick' = f.tick
         /\ \/ /\ occurrences' = PreExpire(occurrences, e.tick)
               /\ t_occurrences' = PreExpire(t_occurrences, f.tick)
               /\ UNCHANGED <<oid_counter, consumed, t_oid_counter, t_consumed>>
            \/ Moving(e, f)
  BY ApartBranches
<1> QED
  BY <1>1, <1>3, <1>4, <1>5, <1>6, <1>7

\* Nor does standing still.
LEMMA ApartStutters ==
  ASSUME NEW d \in Nat, Apart(d), UNCHANGED <<vars, t_vars>>
  PROVE  Apart(d)'
BY DEF vars, t_vars, Apart, TokenInv, IInv, TypeOK, ShapeOK,
       LiveWithinDeadline, GuardCoherence, BreachTimes, Duties,
       Second!TokenInv, Second!IInv, Second!TypeOK, Second!ShapeOK,
       Second!LiveWithinDeadline, Second!GuardCoherence, Second!BreachTimes,
       Second!Duties

\* A pass over a ledger whose guard was known already resolves nothing.
LEMMA NothingResolved ==
  ASSUME NEW D, NEW occs \in [D -> Occurrence], NEW guard \in K3, NEW now, NEW used,
         SoundLedger(occs, guard, now),
         NEW alloc \in Allocations(occs, Activated(occs, guard), used)
  PROVE  ResolveConditionals(occs, guard, alloc, now) = occs /\ Used(alloc) = {}
<1>1. \A i \in D : occs[i].status \in Conditional => guard = "U"
  <2>1. \A i \in D : Coherent(occs[i], guard)
    BY DEF SoundLedger, Sound
  <2> QED
    BY <2>1 DEF Coherent, Conditional, K3
<1>2. DOMAIN alloc = {}
  BY <1>1 DEF Allocations, Activated
<1>3. GuardsBecomeTrue(occs, alloc, now) = occs
  BY <1>2 DEF GuardsBecomeTrue
<1> QED
  BY <1>1, <1>2, <1>3 DEF ResolveConditionals, Used

\* A tick event that only the second monitor hears of finds deadlines missed
\* and does nothing else, and the first monitor's next event will find them too.
LEMMA ApartExtra ==
  ASSUME NEW d \in Nat, Apart(d), NEW now \in Nat, t_tick < now + d, t_mode = "Running",
         UNCHANGED vars,
         Second!Step([type |-> "Tick", tick |-> now + d, observations |-> <<>>])
  PROVE  Apart(d)' /\ t_tick' = now + d
<1> DEFINE f == [type |-> "Tick", tick |-> now + d, observations |-> <<>>]
           D == 1..oid_counter
           guard == t_epistemic[GuardKey]
           others == PreExpire(t_occurrences, now + d)
<1>1. /\ f \in AnyEvent /\ f.tick = now + d /\ f.tick \in Nat /\ f.type = "Tick"
      /\ DOMAIN f.observations = {}
  <2>1. now + d \in Int
    OBVIOUS
  <2>2. <<>> \in Observations
    BY DEF Observations
  <2> QED
    BY <2>1, <2>2 DEF AnyEvent
<1>2. /\ TokenInv /\ Second!TokenInv
      /\ mode = t_mode /\ terminal_kind = t_terminal_kind /\ fault = t_fault
      /\ epistemic = t_epistemic /\ oid_counter = t_oid_counter
      /\ t_consumed = Shifted(consumed, d)
      /\ t_fault = "None"
  <2>1. Second!TypeOK
    BY ApartTypes
  <2>2. t_fault = "None"
    BY <2>1 DEF Second!TypeOK
  <2> QED
    BY <2>2 DEF Apart
<1>3. /\ D \in SUBSET Nat /\ t_tick \in Nat \cup {-1}
      /\ occurrences \in [D -> Occurrence] /\ t_occurrences \in [D -> Occurrence]
      /\ t_epistemic \in [Keys -> K3] /\ guard \in K3
  BY <1>2, ApartTypes, GuardAssumption
<1>4. Second!StepTick(f)
  <2>1. ~ Second!Contradicts(f.observations)
    BY <1>1 DEF Second!Contradicts
  <2>2. ~ f.tick <= t_tick
    BY <1>1, <1>3
  <2> QED
    BY <1>1, <2>1, <2>2
    DEF Second!Step, Second!StepAfterEnd, Second!StepStale, Second!StepContradiction,
        Second!StepDomain, Second!StepTerminal
<1>5. /\ t_mode' = t_mode /\ t_terminal_kind' = t_terminal_kind /\ t_fault' = t_fault
      /\ t_tick' = now + d /\ t_oid_counter' = t_oid_counter
      /\ t_epistemic' = t_epistemic /\ Second!Guard(f) = guard
  <2>1. Second!Observed(f.observations) = t_epistemic
    BY <1>1, <1>3 DEF Second!Observed
  <2> QED
    BY <1>1, <1>4, <2>1 DEF Second!StepTick, Second!Accept, Second!Guard
<1>6. PICK more \in Second!Resolutions(f) :
        /\ t_occurrences' = Second!BoundaryExpire(Second!Resolved(f, more), f.tick)
        /\ t_consumed' = t_consumed \cup Second!Used(more)
  BY <1>4 DEF Second!StepTick
<1>7. /\ others \in [D -> Occurrence]
      /\ SoundLedger(others, guard, now + d)
  <2>1. now + d \in Nat
    OBVIOUS
  <2>2. /\ PreExpire(t_occurrences, now + d) \in [1..t_oid_counter -> Occurrence]
        /\ SoundLedger(PreExpire(t_occurrences, now + d), t_epistemic[GuardKey], now + d)
    BY <1>2, <2>1, SecondExpired
  <2> QED
    BY <1>2, <2>2
<1>8. /\ more \in Allocations(others, Activated(others, guard), t_consumed)
      /\ Second!Resolved(f, more) = ResolveConditionals(others, guard, more, now + d)
  BY <1>1, <1>5, SameExpiry, SamePass, SameResolution
  DEF Second!Resolutions, Second!Resolved
<1>9. t_occurrences' = BoundaryExpire(ResolveConditionals(others, guard, more, now + d), now + d)
  BY <1>1, <1>6, <1>8, SameExpiry
<1>10. t_consumed' = t_consumed \cup Used(more)
  BY <1>6, SamePass
<1> HIDE DEF D, guard, f
<1>11. /\ t_occurrences' = BoundaryExpire(PreExpire(t_occurrences, now + d), now + d)
       /\ t_consumed' = t_consumed
  <2> HIDE DEF others
  <2>1. ResolveConditionals(others, guard, more, now + d) = others /\ Used(more) = {}
    BY <1>3, <1>7, <1>8, NothingResolved
  <2> QED
    BY <1>9, <1>10, <2>1 DEF others
<1>12. PICK seen \in Int : /\ seen <= t_tick - d
                           /\ DisplacedLedger(occurrences, t_occurrences, d, seen)
  BY DEF Apart
<1>13. seen < now
  BY <1>3, <1>12
<1>14. DisplacedLedger(occurrences, t_occurrences', d, now)
  BY <1>3, <1>11, <1>12, <1>13, ExtraDisplaces
<1>15. TokenInv' /\ Second!TokenInv'
  <2>1. Second!TokenInv'
    BY <1>1, <1>2, SameEvents, Second!StepTokens, BoundAssumption, GuardAssumption,
       TicksAssumption DEF Second!StepTokens, f
  <2>2. TokenInv'
    BY <1>2 DEF vars, TokenInv, IInv, TypeOK, ShapeOK,
       LiveWithinDeadline, GuardCoherence, BreachTimes, Duties
  <2> QED
    BY <2>1, <2>2
<1>16. now \in Int /\ now <= t_tick' - d
  BY <1>5
<1> QED
  BY <1>2, <1>5, <1>11, <1>14, <1>15, <1>16 DEF Apart, vars

-----------------------------------------------------------------------------
(* Residuals: time is relative.                                             *)

\* In the prefix the second monitor lives Shift ticks later, and has heard of at
\* least as many ticks; in the continuation it lives as much later as it did when
\* the prefix was cut, and has heard of as many.
TimeInv ==
  /\ phase \in {"Prefix", "Continuation"} /\ status = t_status
  /\ phase = "Prefix" =>
       /\ Apart(Shift)
       /\ tick = -1 <=> t_tick = -1
       /\ tick # -1 => tick + Shift <= t_tick
  /\ phase = "Continuation" => \E d \in Nat : Apart(d) /\ t_tick = tick + d

\* Before the first event there is nothing to tell apart.
LEMMA FreshApart ==
  ASSUME NEW d \in Nat, TokenInv, Second!TokenInv, tick = -1, t_tick = -1,
         mode = t_mode, terminal_kind = t_terminal_kind, fault = t_fault,
         epistemic = t_epistemic
  PROVE  Apart(d)
<1>1. TypeOK /\ Second!TypeOK
  BY DEF TokenInv, Second!TokenInv
<1>2. /\ oid_counter = 0 /\ t_oid_counter = 0
      /\ DOMAIN occurrences = {} /\ DOMAIN t_occurrences = {}
  BY <1>1 DEF TypeOK, Second!TypeOK
<1>3. consumed = {} /\ t_consumed = {}
  <2>1. Holding(occurrences, consumed, tick) /\ Holding(t_occurrences, t_consumed, t_tick)
    BY SameAccounts DEF TokenInv, Second!TokenInv, Accounts
  <2> QED
    BY <1>2, <2>1 DEF Holding
<1>4. DisplacedLedger(occurrences, t_occurrences, d, -1 - d)
  BY <1>2 DEF DisplacedLedger
<1>5. -1 - d \in Int /\ -1 - d <= t_tick - d /\ -1 - d < 0
  OBVIOUS
<1> QED
  BY <1>2, <1>3, <1>4, <1>5 DEF Apart, Shifted

\* The two monitors start alike.
LEMMA TimeStarts == RInit => TimeInv
<1> SUFFICES ASSUME RInit PROVE TimeInv
  OBVIOUS
<1>1. TokenInv /\ Init /\ Twin!Init
  BY InitTokens DEF RInit
<1>2. Second!Init
  BY <1>1, SameRecords DEF Twin!Init, Second!Init, Twin!NewOccurrence,
                           Second!NewOccurrence, Twin!NoTick, Second!NoTick
<1>3. Second!TokenInv
  BY <1>2, Second!InitTokens, BoundAssumption, GuardAssumption, TicksAssumption
  DEF Second!InitTokens
<1>4. Apart(Shift)
  BY <1>1, <1>3, FreshApart, ShiftAssumption DEF Init, Twin!Init
<1> QED
  BY <1>1, <1>4 DEF RInit, TimeInv, Init, Twin!Init

\* Both are told the same before the first event.
LEMMA TimeToldInitially ==
  ASSUME TimeInv, NEW key \in Keys, NEW value \in K3, RSetInitial(key, value)
  PROVE  TimeInv'
<1>1. /\ phase = "Prefix" /\ tick = -1 /\ t_tick = -1
      /\ SetInitial(key, value) /\ Twin!SetInitial(key, value)
      /\ UNCHANGED <<phase, status, t_status>>
      /\ Apart(Shift) /\ status = t_status
  BY DEF RSetInitial, TimeInv, residual
<1>2. TokenInv'
  BY <1>1, NextTokens DEF Apart, Next
<1>3. Second!TokenInv'
  <2>1. Second!SetInitial(key, value) /\ value \in Second!K3
    BY <1>1 DEF Twin!SetInitial, Second!SetInitial, Twin!Refines, Second!Refines,
                K3, Second!K3
  <2>2. Second!Next
    BY <2>1 DEF Second!Next
  <2> QED
    BY <1>1, <2>2, Second!NextTokens, BoundAssumption, GuardAssumption, TicksAssumption
    DEF Second!NextTokens, Apart
<1>4. /\ mode' = t_mode' /\ terminal_kind' = t_terminal_kind' /\ fault' = t_fault'
      /\ epistemic' = t_epistemic' /\ tick' = -1 /\ t_tick' = -1
  BY <1>1 DEF SetInitial, Twin!SetInitial, Apart
<1>5. Apart(Shift)'
  <2>1. UNCHANGED <<occurrences, oid_counter, consumed, t_occurrences, t_oid_counter,
                    t_consumed, t_tick, fault>>
    BY <1>1 DEF SetInitial, Twin!SetInitial
  <2> QED
    BY <1>1, <1>2, <1>3, <1>4, <2>1 DEF Apart
<1>6. /\ tick' = -1 <=> t_tick' = -1
      /\ tick' # -1 => tick' + Shift <= t_tick'
      /\ phase' = "Prefix" /\ status' = t_status'
  BY <1>1, <1>4
<1> QED
  BY <1>5, <1>6 DEF TimeInv

\* An event of the prefix reaches the second monitor Shift ticks later.
LEMMA TimePrefix ==
  ASSUME TimeInv, NEW e \in Event, PrefixStep(e)
  PROVE  TimeInv'
<1> DEFINE f == [e EXCEPT !.tick = @ + Shift]
<1>1. /\ phase = "Prefix"
      /\ e.tick <= tick \/ e.tick + Shift > t_tick
      /\ Step(e) /\ Second!Step(f)
      /\ UNCHANGED <<phase, status, t_status>>
      /\ Apart(Shift) /\ status = t_status
      /\ tick = -1 <=> t_tick = -1
      /\ tick # -1 => tick + Shift <= t_tick
  BY SameStep DEF PrefixStep, TimeInv, residual
<1>2. /\ e \in AnyEvent /\ e.tick \in Nat
      /\ tick \in Nat \cup {-1} /\ t_tick \in Nat \cup {-1}
  <2>1. e.tick \in Ticks
    BY DEF Event, DomainEvent, TickEvent, TerminalEvent
  <2> QED
    BY <1>1, <2>1, EventsAreAny, ApartTypes, ShiftAssumption, TicksAssumption
<1>3. f = [e EXCEPT !.tick = e.tick + Shift] /\ e.tick + Shift \in Int
  BY <1>2, ShiftAssumption
<1>4. f \in AnyEvent /\ f.tick = e.tick + Shift /\ Postponed(e, f, Shift)
  BY <1>2, <1>3, EventsPostpone DEF Postponed
<1> HIDE DEF f
<1>5. e.tick <= tick <=> f.tick <= t_tick
  BY <1>1, <1>2, <1>4, ShiftAssumption
<1>6. /\ Apart(Shift)'
      /\ \/ UNCHANGED <<tick, t_tick>>
         \/ tick' = e.tick /\ t_tick' = e.tick + Shift /\ e.tick > tick
  BY <1>1, <1>2, <1>4, <1>5, ApartStep, ShiftAssumption
<1>7. /\ tick' = -1 <=> t_tick' = -1
      /\ tick' # -1 => tick' + Shift <= t_tick'
  BY <1>1, <1>2, <1>6, ShiftAssumption
<1>8. phase' = "Prefix" /\ status' = t_status'
  BY <1>1
<1> QED
  BY <1>6, <1>7, <1>8 DEF TimeInv

\* Of an empty tick event the second monitor hears alone.
LEMMA TimeExtra ==
  ASSUME TimeInv, ExtraTick
  PROVE  TimeInv'
<1>1. PICK now \in Ticks :
        /\ now > tick /\ now + Shift > t_tick
        /\ Twin!Step([type |-> "Tick", tick |-> now + Shift, observations |-> <<>>])
  BY DEF ExtraTick
<1>2. /\ phase = "Prefix" /\ t_mode = "Running" /\ tick # -1 /\ UNCHANGED vars
      /\ UNCHANGED <<phase, status, t_status>>
      /\ Apart(Shift) /\ status = t_status
  BY DEF ExtraTick, TimeInv, residual
<1>3. /\ now \in Nat /\ tick \in Nat \cup {-1} /\ t_tick \in Nat \cup {-1}
  BY <1>2, ApartTypes, ShiftAssumption, TicksAssumption
<1>4. Second!Step([type |-> "Tick", tick |-> now + Shift, observations |-> <<>>])
  BY <1>1, SameStep
<1>5. t_tick < now + Shift
  BY <1>1, <1>3, ShiftAssumption
<1>6. Apart(Shift)' /\ t_tick' = now + Shift
  BY <1>2, <1>3, <1>4, <1>5, ApartExtra, ShiftAssumption
<1>7. /\ tick' = -1 <=> t_tick' = -1
      /\ tick' # -1 => tick' + Shift <= t_tick'
  <2>1. tick' = tick
    BY <1>2 DEF vars
  <2> QED
    BY <1>1, <1>2, <1>3, <1>6, <2>1, ShiftAssumption
<1> QED
  BY <1>2, <1>6, <1>7 DEF TimeInv

\* The prefix is cut where both have heard of as much.
LEMMA TimeCut ==
  ASSUME TimeInv, Cut
  PROVE  TimeInv'
<1>1. /\ phase = "Prefix" /\ InSync /\ phase' = "Continuation"
      /\ UNCHANGED <<vars, t_vars, status, t_status>>
      /\ Apart(Shift) /\ status = t_status
  BY DEF Cut, TimeInv
<1>2. tick \in Nat \cup {-1} /\ tick' = tick /\ t_tick' = t_tick
  BY <1>1, ApartTypes, ShiftAssumption DEF vars, t_vars
<1>3. \E d \in Nat : Apart(d) /\ t_tick = tick + d
  <2>1. CASE tick = -1
    <3>1. t_tick = -1
      BY <1>1, <2>1 DEF InSync, Later
    <3>2. Apart(0)
      BY <1>1, <2>1, <3>1, FreshApart DEF Apart
    <3> QED
      BY <2>1, <3>1, <3>2
  <2>2. CASE tick # -1
    BY <1>1, <2>2, ShiftAssumption DEF InSync, Later
  <2> QED
    BY <2>1, <2>2
<1>4. PICK d \in Nat : Apart(d) /\ t_tick = tick + d
  BY <1>3
<1>5. Apart(d)'
  BY <1>1, <1>4, ApartStutters
<1> QED
  BY <1>1, <1>2, <1>4, <1>5 DEF TimeInv

\* An event of the continuation reaches both at its own distance from their clocks.
LEMMA TimeReplay ==
  ASSUME TimeInv, NEW e \in RelativeEvent, Replay(e)
  PROVE  TimeInv'
<1>1. /\ phase = "Continuation" /\ phase' = phase /\ status = t_status
      /\ mode = "Running" => tick + e.tick >= 0
      /\ IF mode = "Running" THEN Step(At(e, tick)) /\ UNCHANGED status
         ELSE status' = Disabled(e, mode = "Faulted") /\ UNCHANGED vars
      /\ IF t_mode = "Running" THEN Twin!Step(At(e, t_tick)) /\ UNCHANGED t_status
         ELSE t_status' = Disabled(e, t_mode = "Faulted") /\ UNCHANGED t_vars
  BY DEF Replay, TimeInv
<1>2. PICK d \in Nat : Apart(d) /\ t_tick = tick + d
  BY <1>1 DEF TimeInv
<1>3. /\ mode = t_mode /\ tick \in Nat \cup {-1} /\ t_tick \in Nat \cup {-1}
  BY <1>2, ApartTypes DEF Apart
<1>4. status' = t_status'
  BY <1>1, <1>3
<1>5. CASE mode # "Running"
  <2>1. UNCHANGED <<vars, t_vars>>
    BY <1>1, <1>3, <1>5
  <2>2. Apart(d)' /\ t_tick' = tick' + d
    BY <1>2, <2>1, ApartStutters DEF vars, t_vars
  <2> QED
    BY <1>1, <1>4, <2>2 DEF TimeInv
<1>6. CASE mode = "Running"
  <2> DEFINE now == tick + e.tick
             g == [e EXCEPT !.tick = now]
             f == [e EXCEPT !.tick = now + d]
  <2>1. e \in AnyEvent /\ e.tick \in Int
    <3>1. PICK a \in Event, advance \in Advances : e = [a EXCEPT !.tick = advance]
      BY DEF RelativeEvent
    <3>2. a \in AnyEvent /\ advance \in Int
      BY EventsAreAny, AdvancesAssumption
    <3> QED
      BY <3>1, <3>2, EventsPostpone
  <2>2. /\ now \in Nat /\ now + d \in Int /\ now \in Int
    BY <1>1, <1>3, <1>6, <2>1
  <2>3. At(e, tick) = g /\ At(e, t_tick) = f
    <3>1. t_tick + e.tick = now + d
      BY <1>2, <1>3, <2>1
    <3> HIDE DEF now
    <3>2. At(e, tick) = [e EXCEPT !.tick = tick + e.tick]
          /\ At(e, t_tick) = [e EXCEPT !.tick = t_tick + e.tick]
      BY DEF At
    <3> QED
      BY <3>1, <3>2 DEF now
  <2>4. Step(g) /\ Second!Step(f) /\ status' = t_status'
    BY <1>1, <1>3, <1>4, <1>6, <2>3, SameStep
  <2> HIDE DEF now
  <2>5. /\ g \in AnyEvent /\ f \in AnyEvent /\ g.tick = now /\ f.tick = now + d
        /\ Postponed(g, f, d)
    BY <2>1, <2>2, EventsPostpone DEF Postponed
  <2>6. now <= tick <=> now + d <= t_tick
    BY <1>2, <1>3, <2>2
  <2> HIDE DEF g, f
  <2>7. /\ Apart(d)'
        /\ \/ UNCHANGED <<tick, t_tick>>
           \/ tick' = now /\ t_tick' = now + d
    <3>1. g.tick <= tick <=> f.tick <= t_tick
      BY <2>5, <2>6
    <3>2. /\ Apart(d)'
          /\ \/ UNCHANGED <<tick, t_tick>>
             \/ tick' = g.tick /\ t_tick' = g.tick + d /\ g.tick > tick
      BY <1>2, <2>4, <2>5, <3>1, ApartStep
    <3>3. g.tick = now
      BY <2>5
    <3> QED
      BY <3>2, <3>3
  <2>8. t_tick' = tick' + d
    BY <1>2, <2>7
  <2> QED
    BY <1>1, <1>4, <2>7, <2>8 DEF TimeInv
<1> QED
  BY <1>5, <1>6

\* Monitors that are as far apart as their clocks read alike: a deadline that only
\* the second one could have found missed is none.
LEMMA ApartReadsAlike ==
  ASSUME NEW d \in Nat, Apart(d), t_tick - d <= tick
  PROVE  Verdict = TwinVerdict
<1>1. /\ occurrences \in [1..oid_counter -> Occurrence]
      /\ tick \in Nat \cup {-1} /\ t_tick \in Nat \cup {-1}
      /\ mode = t_mode /\ terminal_kind = t_terminal_kind /\ fault = t_fault
      /\ LiveWithinDeadline
  BY ApartTypes DEF Apart, TokenInv, IInv
<1>2. PICK seen \in Int :
        /\ seen <= t_tick - d
        /\ fault = "InconsistentObservation" => seen < 0
        /\ DisplacedLedger(occurrences, t_occurrences, d, seen)
  BY DEF Apart
<1>3. ASSUME NEW i \in Duties PROVE t_occurrences[i].status = occurrences[i].status
  <2> DEFINE o == occurrences[i]
  <2>1. /\ o.deadline \in Nat
        /\ t_occurrences[i].status = IF o.deadline <= seen THEN Overdue(o.status) ELSE o.status
        /\ o.status \in {"Open", "ConditionalOpen"} =>
             (fault # "InconsistentObservation" => o.deadline > tick)
    BY <1>1, <1>2, <1>3 DEF Duties, DisplacedLedger, Displaced, LiveWithinDeadline, Occurrence
  <2>2. o.deadline <= seen => o.status \notin {"Open", "ConditionalOpen"}
    <3> HIDE DEF o
    <3> QED
      BY <1>1, <1>2, <2>1
  <2>3. o.deadline <= seen => Overdue(o.status) = o.status
    BY <2>2 DEF Overdue
  <2> QED
    BY <2>1, <2>3
<1>4. DOMAIN t_occurrences = Duties /\ Twin!Duties = Duties
  BY <1>2 DEF DisplacedLedger, Duties, Twin!Duties
<1>5. Statuses = Twin!Statuses
  BY <1>3, <1>4 DEF Statuses, Twin!Statuses, Duties
<1>6. Twin!Summary = Summary /\ Twin!PublicMode = PublicMode
  BY <1>1, <1>5 DEF Summary, Twin!Summary, PublicMode, Twin!PublicMode, Settled, Twin!Settled
<1>7. [i \in Duties |-> occurrences[i].status] = [i \in Twin!Duties |-> t_occurrences[i].status]
  BY <1>3, <1>4
<1> QED
  BY <1>1, <1>6, <1>7 DEF Verdict, TwinVerdict

\* The two monitors stay as far apart as their clocks.
THEOREM TimeInductive == RSpec => []TimeInv
<1>1. TimeInv /\ [RNext]_<<vars, t_vars, t_status, residual>> => TimeInv'
  <2> SUFFICES ASSUME TimeInv, [RNext]_<<vars, t_vars, t_status, residual>>
               PROVE  TimeInv'
    OBVIOUS
  <2>1. CASE \E key \in Keys, value \in K3 : RSetInitial(key, value)
    BY <2>1, TimeToldInitially
  <2>2. CASE \E e \in Event : PrefixStep(e)
    BY <2>2, TimePrefix
  <2>3. CASE ExtraTick
    BY <2>3, TimeExtra
  <2>4. CASE Cut
    BY <2>4, TimeCut
  <2>5. CASE \E e \in RelativeEvent : Replay(e)
    BY <2>5, TimeReplay
  <2>6. ASSUME UNCHANGED <<vars, t_vars, phase>>, status' = t_status'
        PROVE  TimeInv'
    <3>1. \A d \in Nat : Apart(d) => Apart(d)'
      BY <2>6, ApartStutters
    <3>2. UNCHANGED <<tick, t_tick, phase>>
      BY <2>6 DEF vars, t_vars
    <3> QED
      BY <2>6, <3>1, <3>2, ShiftAssumption DEF TimeInv
  <2>7. CASE ReplayMalformed
    BY <2>6, <2>7 DEF ReplayMalformed
  <2>8. CASE UNCHANGED <<vars, t_vars, t_status, residual>>
    BY <2>6, <2>8 DEF TimeInv, residual
  <2> QED
    BY <2>1, <2>2, <2>3, <2>4, <2>5, <2>7, <2>8 DEF RNext
<1> QED
  BY <1>1, TimeStarts, PTL DEF RSpec

\* A reading belongs to the monitor's state: a monitor that lives Shift ticks later
\* and hears of ticks on which nothing happens reads the same after every event of
\* the prefix, and of any continuation of it, and stops it at the same event.
THEOREM TimeIsRelativeAlways == RSpec => []TimeIsRelative
<1>1. TimeInv => TimeIsRelative
  <2> SUFFICES ASSUME TimeInv PROVE TimeIsRelative
    OBVIOUS
  <2>1. ASSUME phase = "Prefix", InSync PROVE Verdict = TwinVerdict
    <3>1. Apart(Shift)
      BY <2>1 DEF TimeInv
    <3>2. tick \in Nat \cup {-1}
      BY <3>1, ApartTypes, ShiftAssumption
    <3>3. t_tick - Shift <= tick
      BY <2>1, <3>2, ShiftAssumption DEF InSync, Later
    <3> QED
      BY <3>1, <3>3, ApartReadsAlike, ShiftAssumption
  <2>2. ASSUME phase = "Continuation" PROVE Verdict = TwinVerdict
    <3>1. PICK d \in Nat : Apart(d) /\ t_tick = tick + d
      BY <2>2 DEF TimeInv
    <3>2. t_tick - d <= tick
      BY <3>1, ApartTypes
    <3> QED
      BY <3>1, <3>2, ApartReadsAlike
  <2> QED
    BY <2>1, <2>2 DEF TimeIsRelative, TimeInv
<1> QED
  BY <1>1, TimeInductive, PTL

-----------------------------------------------------------------------------
(* Two ledgers that are one but for the names of the duties.                *)

Renamed(occs, others) ==
  \E p \in Bijection(DOMAIN occs, DOMAIN others) :
    \A i \in DOMAIN occs : others[p[i]] = occs[i]

\* Expiry looks at a duty's record, not at its name.
LEMMA ExpiryRenames ==
  ASSUME NEW occs, NEW others, NEW now, Renamed(occs, others)
  PROVE  /\ Renamed(PreExpire(occs, now), PreExpire(others, now))
         /\ Renamed(BoundaryExpire(occs, now), BoundaryExpire(others, now))
<1> DEFINE D == DOMAIN occs
           E == DOMAIN others
<1>1. PICK p \in Bijection(D, E) : \A i \in D : others[p[i]] = occs[i]
  BY DEF Renamed
<1>2. \A i \in D : p[i] \in E
  BY Fun_BijectionProperties
<1>3. /\ DOMAIN PreExpire(occs, now) = D /\ DOMAIN PreExpire(others, now) = E
      /\ \A i \in D : PreExpire(others, now)[p[i]] = PreExpire(occs, now)[i]
  BY <1>1, <1>2 DEF PreExpire, Expire
<1>4. /\ DOMAIN BoundaryExpire(occs, now) = D /\ DOMAIN BoundaryExpire(others, now) = E
      /\ \A i \in D : BoundaryExpire(others, now)[p[i]] = BoundaryExpire(occs, now)[i]
  BY <1>1, <1>2 DEF BoundaryExpire, Expire
<1> QED
  BY <1>1, <1>3, <1>4 DEF Renamed

\* Neither does the end of the run.
LEMMA TerminalRenames ==
  ASSUME NEW occs, NEW others, NEW kind, NEW now, Renamed(occs, others)
  PROVE  Renamed(TerminalConversion(occs, kind, now), TerminalConversion(others, kind, now))
<1> DEFINE D == DOMAIN occs
           E == DOMAIN others
<1>1. PICK p \in Bijection(D, E) : \A i \in D : others[p[i]] = occs[i]
  BY DEF Renamed
<1>2. \A i \in D : p[i] \in E
  BY Fun_BijectionProperties
<1>3. /\ DOMAIN TerminalConversion(occs, kind, now) = D
      /\ DOMAIN TerminalConversion(others, kind, now) = E
      /\ \A i \in D : TerminalConversion(others, kind, now)[p[i]]
                        = TerminalConversion(occs, kind, now)[i]
  BY <1>1, <1>2 DEF TerminalConversion
<1> QED
  BY <1>1, <1>3 DEF Renamed

\* A new duty gets a new name in each.
LEMMA TriggerRenames ==
  ASSUME NEW occs, NEW others, NEW oid, oid \notin DOMAIN occs,
         NEW other, other \notin DOMAIN others, NEW guard, NEW now,
         Renamed(occs, others)
  PROVE  Renamed(InstantiateTrigger(occs, oid, guard, now),
                 InstantiateTrigger(others, other, guard, now))
<1> DEFINE D == DOMAIN occs
           E == DOMAIN others
           after == InstantiateTrigger(occs, oid, guard, now)
           afters == InstantiateTrigger(others, other, guard, now)
<1>1. PICK p \in Bijection(D, E) : \A i \in D : others[p[i]] = occs[i]
  BY DEF Renamed
<1>2. /\ p \in [D -> E]
      /\ \A i, j \in D : p[i] = p[j] => i = j
      /\ \A k \in E : \E i \in D : p[i] = k
  BY Fun_BijectionProperties
<1> DEFINE q == [i \in D \cup {oid} |-> IF i = oid THEN other ELSE p[i]]
<1>3. q \in Bijection(D \cup {oid}, E \cup {other})
  <2>1. q \in [D \cup {oid} -> E \cup {other}]
    BY <1>2
  <2>2. \A i, j \in D \cup {oid} : q[i] = q[j] => i = j
    BY <1>2
  <2>3. \A k \in E \cup {other} : \E i \in D \cup {oid} : q[i] = k
    BY <1>2
  <2> HIDE DEF q, D, E
  <2> QED
    BY <2>1, <2>2, <2>3, Fun_IsBij
<1>4. /\ DOMAIN after = D \cup {oid} /\ DOMAIN afters = E \cup {other}
      /\ after[oid] = TriggerAndGuardRule(now, now + Bound, guard)
      /\ afters[other] = TriggerAndGuardRule(now, now + Bound, guard)
      /\ \A i \in D : after[i] = occs[i] /\ \A k \in E : afters[k] = others[k]
  BY DEF InstantiateTrigger
<1>5. \A i \in D \cup {oid} : afters[q[i]] = after[i]
  BY <1>1, <1>2, <1>4
<1> HIDE DEF q, after, afters
<1>6. Renamed(after, afters)
  BY <1>3, <1>4, <1>5 DEF Renamed
<1> QED
  BY <1>6 DEF after, afters

\* A response may go to a duty here and to its namesake's rival there, if the two
\* were triggered at one tick; but then they have the same record, and it is as if
\* the names had been exchanged.
LEMMA RegisterRenames ==
  ASSUME NEW D \in SUBSET Nat, NEW occs \in [D -> Occurrence],
         NEW E \in SUBSET Nat, NEW others \in [E -> Occurrence], NEW token \in Nat,
         \A i \in D : /\ occs[i].status \notin Conditional
                      /\ occs[i].status = "Open" =>
                           occs[i] = NewOccurrence(occs[i].trigger_tick,
                                                   occs[i].deadline, "Open"),
         Renamed(occs, others)
  PROVE  /\ Renamed(RegisterResponseToken(occs, token), RegisterResponseToken(others, token))
         /\ Eligible(occs, token) = {} <=> Eligible(others, token) = {}
<1> DEFINE S == Eligible(occs, token)
           T == Eligible(others, token)
           after == RegisterResponseToken(occs, token)
           afters == RegisterResponseToken(others, token)
<1>1. DOMAIN occs = D /\ DOMAIN others = E
  OBVIOUS
<1>2. PICK p \in Bijection(D, E) : \A i \in D : others[p[i]] = occs[i]
  BY <1>1 DEF Renamed
<1>3. /\ p \in [D -> E]
      /\ \A i, j \in D : p[i] = p[j] => i = j
      /\ \A k \in E : \E i \in D : p[i] = k
  BY Fun_BijectionProperties, ZenonT(40)
<1>4. /\ S \in SUBSET D /\ T \in SUBSET E
      /\ \A i \in D : i \in S <=> p[i] \in T
      /\ \A i \in S : occs[i].status = "Open"
  BY <1>2, <1>3 DEF Eligible
<1>5. S = {} <=> T = {}
  <2> HIDE DEF S, T
  <2>1. ASSUME NEW k \in T PROVE S # {}
    <3>1. PICK i \in D : p[i] = k
      BY <1>3, <1>4
    <3> QED
      BY <1>4, <3>1
  <2>2. \A i \in S : p[i] \in T
    BY <1>4
  <2> QED
    BY <2>1, <2>2
<1>6. CASE S = {}
  <2>1. after = occs
    BY <1>6 DEF RegisterResponseToken
  <2>2. afters = others
    <3>1. \A k \in E : others[k].status \notin Conditional
      BY <1>2, <1>3
    <3> QED
      BY <1>5, <1>6, <3>1 DEF RegisterResponseToken
  <2> QED
    BY <1>5, <2>1, <2>2
<1>7. CASE S # {}
  <2> DEFINE a == First(occs, S)
             b == First(others, T)
  <2>1. a \in S /\ \A j \in S \ {a} : Precedes(occs, a, j)
    BY <1>4, <1>7, FirstIsLeast
  <2>2. b \in T /\ \A k \in T \ {b} : Precedes(others, b, k)
    BY <1>4, <1>5, <1>7, FirstIsLeast
  <2>3. /\ after = [occs EXCEPT ![a] = Discharge(occs[a], token)]
        /\ afters = [others EXCEPT ![b] = Discharge(others[b], token)]
    BY <1>5, <1>7 DEF RegisterResponseToken
  <2> HIDE DEF a, b, S, T, after, afters
  <2>4. PICK c \in D : p[c] = b
    BY <1>3, <1>4, <2>2
  <2>5. a \in D /\ b \in E /\ c \in S /\ p[a] \in T
    BY <1>4, <2>1, <2>2, <2>4
  <2>6. occs[a] = occs[c]
    <3>1. CASE a = c
      BY <3>1
    <3>2. CASE a # c
      <4>1. p[a] # b
        BY <1>3, <2>4, <2>5, <3>2
      <4>2. Precedes(occs, a, c) /\ Precedes(others, b, p[a])
        BY <2>1, <2>2, <2>5, <3>2, <4>1
      <4>3. others[b] = occs[c] /\ others[p[a]] = occs[a]
        BY <1>2, <2>4, <2>5
      <4>4. /\ occs[a].deadline \in Nat /\ occs[a].trigger_tick \in Nat
            /\ occs[c].deadline \in Nat /\ occs[c].trigger_tick \in Nat
        BY <2>4, <2>5 DEF Occurrence
      <4>5. occs[a].deadline = occs[c].deadline /\ occs[a].trigger_tick = occs[c].trigger_tick
        BY <4>2, <4>3, <4>4 DEF Precedes
      <4>6. /\ occs[a] = NewOccurrence(occs[a].trigger_tick, occs[a].deadline, "Open")
            /\ occs[c] = NewOccurrence(occs[c].trigger_tick, occs[c].deadline, "Open")
        BY <1>4, <2>1, <2>4, <2>5
      <4> QED
        BY <4>5, <4>6
    <3> QED
      BY <3>1, <3>2
  <2> DEFINE q == [i \in D |-> IF i = a THEN b ELSE IF i = c THEN p[a] ELSE p[i]]
  <2>7. q \in Bijection(D, E)
    <3>1. q \in [D -> E]
      BY <1>3, <2>5
    <3>2. \A i, j \in D : q[i] = q[j] => i = j
      BY <1>3, <2>4, <2>5
    <3>3. \A k \in E : \E i \in D : q[i] = k
      <4> SUFFICES ASSUME NEW k \in E PROVE \E i \in D : q[i] = k
        OBVIOUS
      <4>1. PICK j \in D : p[j] = k
        BY <1>3
      <4>2. CASE j = c
        BY <2>4, <2>5, <4>1, <4>2
      <4>3. CASE j = a /\ j # c
        BY <2>4, <4>1, <4>3
      <4>4. CASE j # a /\ j # c
        BY <4>1, <4>4
      <4> QED
        BY <4>2, <4>3, <4>4
    <3> HIDE DEF q
    <3> QED
      BY <3>1, <3>2, <3>3, Fun_IsBij
  <2>8. ASSUME NEW i \in D PROVE afters[q[i]] = after[i]
    <3>1. others[b] = occs[c] /\ others[p[a]] = occs[a] /\ others[p[i]] = occs[i]
      BY <1>2, <2>4, <2>5
    <3>2. CASE i = a
      <4>1. afters[b] = Discharge(others[b], token) /\ after[a] = Discharge(occs[a], token)
        BY <2>3, <2>5
      <4> QED
        BY <2>6, <3>1, <3>2, <4>1
    <3>3. CASE i # a /\ i = c
      <4>1. p[a] # b /\ p[a] \in E
        BY <1>3, <2>4, <2>5, <3>3
      <4>2. after[i] = occs[c] /\ afters[p[a]] = others[p[a]]
        BY <2>3, <2>5, <3>3, <4>1
      <4> QED
        BY <2>6, <3>1, <3>3, <4>2
    <3>4. CASE i # a /\ i # c
      <4>1. p[i] # b /\ p[i] \in E
        BY <1>3, <2>4, <3>4
      <4>2. after[i] = occs[i] /\ afters[p[i]] = others[p[i]]
        BY <2>3, <3>4, <4>1
      <4> QED
        BY <3>1, <3>4, <4>2
    <3> QED
      BY <3>2, <3>3, <3>4
  <2>9. DOMAIN after = D /\ DOMAIN afters = E
    BY <2>3
  <2> HIDE DEF q
  <2>10. Renamed(after, afters)
    BY <2>7, <2>8, <2>9 DEF Renamed
  <2> QED
    BY <1>5, <2>10 DEF after, afters, S, T
<1> QED
  BY <1>6, <1>7

\* The statuses in a ledger.
StatusesIn(occs) == {occs[i].status : i \in DOMAIN occs}

\* What does not look at the names does not tell the two apart.
LEMMA RenamedReadsAlike ==
  ASSUME NEW occs, NEW others, IsFiniteSet(DOMAIN occs), Renamed(occs, others)
  PROVE  Bag(occs) = Bag(others) /\ StatusesIn(occs) = StatusesIn(others)
<1> DEFINE D == DOMAIN occs
           E == DOMAIN others
           records == {occs[i] : i \in D}
<1>1. PICK p \in Bijection(D, E) : \A i \in D : others[p[i]] = occs[i]
  BY DEF Renamed
<1>2. /\ p \in [D -> E]
      /\ \A i, j \in D : p[i] = p[j] => i = j
      /\ \A k \in E : \E i \in D : p[i] = k
  BY Fun_BijectionProperties
<1>3. records = {others[k] : k \in E}
  BY <1>1, <1>2
<1>4. StatusesIn(occs) = StatusesIn(others)
  BY <1>1, <1>2 DEF StatusesIn
<1>5. ASSUME NEW o
      PROVE  Cardinality({i \in D : occs[i] = o}) = Cardinality({k \in E : others[k] = o})
  <2> DEFINE S == {i \in D : occs[i] = o}
             T == {k \in E : others[k] = o}
             q == [i \in S |-> p[i]]
  <2>1. q \in [S -> T]
    BY <1>1, <1>2
  <2>2. \A i, j \in S : q[i] = q[j] => i = j
    BY <1>2
  <2>3. \A k \in T : \E i \in S : q[i] = k
    BY <1>1, <1>2
  <2>4. IsFiniteSet(S)
    BY FS_Subset
  <2> HIDE DEF S, T, q
  <2>5. q \in Bijection(S, T)
    BY <2>1, <2>2, <2>3, Fun_IsBij
  <2>6. ExistsBijection(S, T)
    BY <2>5 DEF ExistsBijection
  <2>7. Cardinality(T) = Cardinality(S)
    BY <2>4, <2>6, FS_Bijection
  <2> QED
    BY <2>7 DEF S, T
<1>6. Bag(occs) = Bag(others)
  BY <1>3, <1>5 DEF Bag
<1> QED
  BY <1>4, <1>6

-----------------------------------------------------------------------------
(* Two restored monitors.  A card with duties makes both Known, and their   *)
(* ledgers Renamed; one without makes them equal, with their accounts in    *)
(* order.  Every event keeps this, and the bound that the counter sets to   *)
(* the numbers in use.                                                      *)

\* A card as it may be written.
CardOK ==
  /\ card.table \in Tables
  /\ card.guard \in K3
  /\ card.current_tick \in Clocks
  /\ card.naming \in Namings(card.table)

Named == \A i \in Duties \ Unnumbered : i <= oid_counter

InStep ==
  /\ mode = t_mode /\ terminal_kind = t_terminal_kind /\ fault = t_fault
  /\ tick = t_tick /\ epistemic = t_epistemic /\ consumed = t_consumed

KnownBoth == Known /\ Second!Known /\ Renamed(occurrences, t_occurrences)

EqualBoth ==
  /\ TokenInv /\ Second!TokenInv
  /\ occurrences = t_occurrences /\ oid_counter = t_oid_counter

RestoredInv ==
  /\ phase = "Card" => Init /\ Twin!Init /\ CardOK
  /\ phase = "Live" => Named /\ InStep /\ (KnownBoth \/ EqualBoth)

-----------------------------------------------------------------------------
(* The restore.                                                             *)

\* A table and its names, as sets.
LEMMA TableShape ==
  ASSUME NEW table \in Tables, NEW naming \in Namings(table)
  PROVE  /\ DOMAIN table \in {{}, {1}, {1, 2}}
         /\ naming \in [DOMAIN table -> Nat \ {0}]
         /\ \A i, j \in DOMAIN table : naming[i] = naming[j] => i = j
         /\ \A i \in DOMAIN table : table[i] \in [trigger_tick : Nat, deadline : Nat]
         /\ table = <<>> <=> DOMAIN table = {}
<1>1. DOMAIN table \in {{}, {1}, {1, 2}}
  BY DEF Tables
<1>2. \A i \in DOMAIN table : table[i] \in [trigger_tick : Nat, deadline : Nat]
  BY EntriesAssumption DEF Tables
<1>3. table = <<>> <=> DOMAIN table = {}
  BY DEF Tables
<1>4. naming \in [DOMAIN table -> Nat \ {0}]
  BY NamesAssumption DEF Namings
<1>5. \A i, j \in DOMAIN table : naming[i] = naming[j] => i = j
  BY DEF Namings
<1> QED
  BY <1>1, <1>2, <1>3, <1>4, <1>5

\* The ledger of a table: every row's duty is open under the row's name.
LEMMA PlacedLedger ==
  ASSUME NEW table \in Tables, NEW naming \in Namings(table)
  PROVE  /\ {naming[i] : i \in DOMAIN table} \in SUBSET Nat
         /\ IsFiniteSet({naming[i] : i \in DOMAIN table})
         /\ Placed(table, naming) \in [{naming[i] : i \in DOMAIN table} -> Occurrence]
         /\ \A i \in DOMAIN table :
              Placed(table, naming)[naming[i]] =
                NewOccurrence(table[i].trigger_tick, table[i].deadline, "Open")
<1> DEFINE D == {naming[i] : i \in DOMAIN table}
           placed == Placed(table, naming)
<1>1. DOMAIN placed = D
  BY DEF Placed
<1>2. D \in SUBSET Nat
  BY TableShape
<1>3. IsFiniteSet(D)
  <2>1. DOMAIN table = {} \/ DOMAIN table = {1} \/ DOMAIN table = {1, 2}
    BY TableShape
  <2>2. D = {} \/ D = {naming[1]} \/ D = {naming[1]} \cup {naming[2]}
    BY <2>1
  <2>3. /\ IsFiniteSet({}) /\ IsFiniteSet({naming[1]})
        /\ IsFiniteSet({naming[1]} \cup {naming[2]})
    BY FS_EmptySet, FS_Singleton, FS_AddElement
  <2> QED
    BY <2>2, <2>3
<1>4. ASSUME NEW i \in DOMAIN table
      PROVE  placed[naming[i]] =
               NewOccurrence(table[i].trigger_tick, table[i].deadline, "Open")
  <2>1. (CHOOSE j \in DOMAIN table : naming[j] = naming[i]) = i
    BY TableShape
  <2>2. naming[i] \in D
    OBVIOUS
  <2> QED
    BY <2>1, <2>2 DEF Placed
<1>5. \A t, d \in Nat : NewOccurrence(t, d, "Open") \in Occurrence
  BY DEF NewOccurrence, Occurrence, OccurrenceStatus, BreachReasons
<1>6. \A a \in D : placed[a] \in Occurrence
  <2> SUFFICES ASSUME NEW i \in DOMAIN table PROVE placed[naming[i]] \in Occurrence
    OBVIOUS
  <2>1. table[i] \in [trigger_tick : Nat, deadline : Nat]
    BY TableShape
  <2> QED
    BY <1>4, <1>5, <2>1
<1>7. placed \in [D -> Occurrence]
  BY <1>1, <1>6 DEF Placed
<1> QED
  BY <1>2, <1>3, <1>4, <1>7

\* Under two namings it is one ledger but for the names.
LEMMA PlacedRenames ==
  ASSUME NEW table \in Tables, NEW naming \in Namings(table), NEW other \in Namings(table)
  PROVE  Renamed(Placed(table, naming), Placed(table, other))
<1> DEFINE D == {naming[i] : i \in DOMAIN table}
           E == {other[i] : i \in DOMAIN table}
           row(a) == CHOOSE i \in DOMAIN table : naming[i] = a
           p == [a \in D |-> other[row(a)]]
           placed == Placed(table, naming)
           others == Placed(table, other)
<1>1. /\ \A i, j \in DOMAIN table : naming[i] = naming[j] => i = j
      /\ \A i, j \in DOMAIN table : other[i] = other[j] => i = j
  BY TableShape
<1>2. \A i \in DOMAIN table : row(naming[i]) = i
  BY <1>1
<1>3. \A i \in DOMAIN table : p[naming[i]] = other[i]
  BY <1>2
<1>4. DOMAIN p = D
  OBVIOUS
<1> HIDE DEF p, row
<1>5. p \in Bijection(D, E)
  <2>1. p \in [D -> E]
    <3>1. \A a \in D : p[a] \in E
      BY <1>3
    <3>2. p = [a \in D |-> p[a]]
      BY <1>4 DEF p
    <3> QED
      BY <3>1, <3>2
  <2>2. \A a, b \in D : p[a] = p[b] => a = b
    BY <1>1, <1>3
  <2>3. \A k \in E : \E a \in D : p[a] = k
    BY <1>3
  <2> HIDE DEF D, E
  <2> QED
    BY <2>1, <2>2, <2>3, Fun_IsBij
<1>6. /\ DOMAIN placed = D /\ DOMAIN others = E
      /\ \A i \in DOMAIN table : others[other[i]] = placed[naming[i]]
  BY PlacedLedger
<1>7. \A a \in D : others[p[a]] = placed[a]
  BY <1>3, <1>6
<1> HIDE DEF D, E, placed, others
<1>8. Renamed(placed, others)
  BY <1>5, <1>6, <1>7 DEF Renamed
<1> QED
  BY <1>8 DEF placed, others

\* The counter a naming gives is the largest number in it.
LEMMA NumberedBounds ==
  ASSUME NEW table \in Tables, NEW naming \in Namings(table)
  PROVE  /\ Numbered(naming) \in Nat
         /\ \A i \in {naming[j] : j \in DOMAIN table} \ Unnumbered : i <= Numbered(naming)
         /\ table = <<>> => Numbered(naming) = 0
<1> DEFINE numbers == {naming[i] : i \in DOMAIN naming} \ Unnumbered
<1>1. /\ DOMAIN naming = DOMAIN table
      /\ DOMAIN table = {} \/ DOMAIN table = {1} \/ DOMAIN table = {1, 2}
      /\ numbers \in SUBSET Nat
      /\ table = <<>> => DOMAIN table = {}
  BY TableShape
<1>2. CASE numbers = {}
  BY <1>1, <1>2 DEF Numbered
<1>3. CASE numbers # {}
  <2>1. \E m \in numbers : \A k \in numbers : k <= m
    <3>1. CASE DOMAIN table = {1}
      <4>1. numbers = {naming[1]} /\ naming[1] \in Nat
        BY <1>1, <1>3, <3>1
      <4>2. naming[1] <= naming[1]
        BY <4>1
      <4> HIDE DEF numbers
      <4> QED
        BY <4>1, <4>2
    <3>2. CASE DOMAIN table = {1, 2}
      <4>1. numbers \subseteq {naming[1], naming[2]}
        BY <1>1, <3>2
      <4>2. PICK a \in numbers : TRUE
        BY <1>3
      <4> HIDE DEF numbers
      <4>3. CASE \A k \in numbers : k <= a
        BY <4>3
      <4>4. CASE \E k \in numbers : ~ k <= a
        <5>1. PICK b \in numbers : ~ b <= a
          BY <4>4
        <5>2. \A k \in numbers : k = a \/ k = b
          BY <1>1, <4>1, <5>1
        <5>3. a <= b /\ b <= b
          BY <1>1, <5>1
        <5> QED
          BY <5>2, <5>3
      <4> QED
        BY <4>3, <4>4
    <3> QED
      BY <1>1, <1>3, <3>1, <3>2
  <2>2. Numbered(naming) = CHOOSE m \in numbers : \A k \in numbers : k <= m
    BY <1>3 DEF Numbered
  <2> HIDE DEF numbers
  <2>3. Numbered(naming) \in numbers /\ \A k \in numbers : k <= Numbered(naming)
    BY <2>1, <2>2
  <2>4. table # <<>>
    BY <1>1, <1>3 DEF numbers
  <2> QED
    BY <1>1, <2>3, <2>4 DEF numbers
<1> QED
  BY <1>2, <1>3

\* What a valid card says of each duty in the ledger it stands for.
LEMMA ValidPlaced ==
  ASSUME CardOK, ValidCard(card), NEW naming \in Namings(card.table)
  PROVE  \A a \in {naming[i] : i \in DOMAIN card.table} : \E t, d \in Nat :
           /\ t <= card.current_tick /\ card.current_tick < d
           /\ Placed(card.table, naming)[a] = NewOccurrence(t, d, "Open")
<1> SUFFICES ASSUME NEW i \in DOMAIN card.table
             PROVE  \E t, d \in Nat :
                      /\ t <= card.current_tick /\ card.current_tick < d
                      /\ Placed(card.table, naming)[naming[i]] = NewOccurrence(t, d, "Open")
  OBVIOUS
<1> DEFINE row == card.table[i]
<1>1. card.table \in Tables
  BY DEF CardOK
<1>2. row \in [trigger_tick : Nat, deadline : Nat]
  BY <1>1, TableShape
<1>3. card.current_tick \in Int
  <2>1. card.current_tick \in Nat \cup {-1}
    BY ClocksAssumption DEF CardOK
  <2> QED
    BY <2>1
<1>4. row.trigger_tick <= card.current_tick /\ card.current_tick < row.deadline
  BY <1>2, <1>3 DEF ValidCard
<1>5. Placed(card.table, naming)[naming[i]]
        = NewOccurrence(row.trigger_tick, row.deadline, "Open")
  BY <1>1, PlacedLedger
<1> QED
  BY <1>2, <1>4, <1>5

\* A card that is let in starts the two monitors as the invariant says.
LEMMA RestoreStarts ==
  ASSUME RestoredInv, NEW naming \in Namings(card.table), Restore(naming)
  PROVE  RestoredInv'
<1>1. Init /\ Twin!Init /\ CardOK /\ UNCHANGED card /\ phase = "Card"
  BY DEF Restore, RestoredInv
<1>2. CASE ~ ValidCard(card)
  BY <1>2 DEF Restore, RestoredInv
<1>3. CASE ValidCard(card)
  <2> DEFINE table == card.table
             names == card.naming
             D == {names[i] : i \in DOMAIN table}
             E == {naming[i] : i \in DOMAIN table}
  <2>1. /\ phase' = "Live"
        /\ tick' = card.current_tick /\ t_tick' = tick'
        /\ epistemic' = [epistemic EXCEPT ![GuardKey] = card.guard]
        /\ t_epistemic' = epistemic'
        /\ occurrences' = Placed(table, names) /\ t_occurrences' = Placed(table, naming)
        /\ oid_counter' = Numbered(names) /\ t_oid_counter' = Numbered(naming)
        /\ UNCHANGED <<mode, terminal_kind, fault, consumed, diagnostic, t_mode,
                       t_terminal_kind, t_fault, t_consumed, t_diagnostic>>
    BY <1>3 DEF Restore
  <2>2. /\ mode' = "Running" /\ terminal_kind' = "None" /\ fault' = "None"
        /\ tick' \in Nat \cup {-1} /\ consumed' = {} /\ diagnostic' = "None"
        /\ epistemic' \in [Keys -> K3] /\ epistemic'[GuardKey] = card.guard
    BY <1>1, <2>1, ClocksAssumption, GuardAssumption DEF Init, CardOK, K3
  <2>3. /\ t_mode' = "Running" /\ t_terminal_kind' = "None" /\ t_fault' = "None"
        /\ t_tick' \in Nat \cup {-1} /\ t_consumed' = {} /\ t_diagnostic' = "None"
        /\ t_epistemic' \in [Keys -> Second!K3] /\ t_epistemic'[GuardKey] = card.guard
    <3>1. Second!K3 = K3
      BY DEF K3, Second!K3
    <3> QED
      BY <1>1, <2>1, <2>2, <3>1 DEF Twin!Init
  <2>4. table \in Tables /\ names \in Namings(table) /\ naming \in Namings(table)
    BY <1>1 DEF CardOK
  <2>5. /\ D \in SUBSET Nat /\ IsFiniteSet(D)
        /\ occurrences' \in [D -> Occurrence] /\ Duties' = D
        /\ \A i \in D : \E t, d \in Nat :
             t <= tick' /\ tick' < d /\ occurrences'[i] = NewOccurrence(t, d, "Open")
        /\ oid_counter' \in Nat /\ \A i \in D \ Unnumbered : i <= oid_counter'
        /\ table = <<>> => oid_counter' = 0
    BY <1>1, <1>3, <2>1, <2>4, PlacedLedger, ValidPlaced, NumberedBounds DEF Duties
  <2>6. /\ E \in SUBSET Nat /\ Second!IsFiniteSet(E)
        /\ t_occurrences' \in [E -> Second!Occurrence]
        /\ \A i \in E : \E t, d \in Nat :
             /\ t <= t_tick' /\ t_tick' < d
             /\ t_occurrences'[i] = Second!NewOccurrence(t, d, "Open")
        /\ t_oid_counter' \in Nat
        /\ table = <<>> => t_oid_counter' = 0
    <3>1. \A t, d : Second!NewOccurrence(t, d, "Open") = NewOccurrence(t, d, "Open")
      BY SameRecords DEF NewOccurrence, Second!NewOccurrence
    <3>2. /\ E \in SUBSET Nat /\ IsFiniteSet(E)
          /\ t_occurrences' \in [E -> Occurrence]
          /\ \A i \in E : \E t, d \in Nat :
               t <= t_tick' /\ t_tick' < d /\ t_occurrences'[i] = NewOccurrence(t, d, "Open")
          /\ t_oid_counter' \in Nat
          /\ table = <<>> => t_oid_counter' = 0
      BY <1>1, <1>3, <2>1, <2>4, PlacedLedger, ValidPlaced, NumberedBounds
    <3>3. Second!IsFiniteSet(E)
      BY <3>2 DEF IsFiniteSet, Second!IsFiniteSet
    <3> HIDE DEF E
    <3> QED
      BY <3>1, <3>2, <3>3, SameRecords
  <2>7. Named' /\ InStep'
    BY <2>1, <2>2, <2>3, <2>5 DEF Named, InStep
  <2> HIDE DEF D, E
  <2>8. /\ epistemic'[GuardKey] = "T" => Known'
        /\ D = {} /\ oid_counter' = 0 => TokenInv'
    BY <2>2, <2>5, OpenStarts
  <2>9. /\ t_epistemic'[GuardKey] = "T" => Second!Known'
        /\ E = {} /\ t_oid_counter' = 0 => Second!TokenInv'
    BY <2>3, <2>6, Second!OpenStarts, BoundAssumption, GuardAssumption, TicksAssumption
    DEF Second!OpenStarts
  <2>10. CASE table # <<>>
    <3>1. card.guard = "T"
      BY <1>3, <2>10 DEF ValidCard
    <3>2. Renamed(occurrences', t_occurrences')
      BY <2>1, <2>4, PlacedRenames
    <3>3. KnownBoth'
      BY <2>2, <2>3, <2>8, <2>9, <3>1, <3>2 DEF KnownBoth
    <3> QED
      BY <2>1, <2>7, <3>3 DEF RestoredInv
  <2>11. CASE table = <<>>
    <3>1. D = {} /\ E = {} /\ oid_counter' = 0 /\ t_oid_counter' = 0
      BY <2>5, <2>6, <2>11 DEF D, E
    <3>2. occurrences' = t_occurrences'
      BY <2>5, <2>6, <3>1
    <3>3. EqualBoth'
      BY <2>8, <2>9, <3>1, <3>2 DEF EqualBoth
    <3> QED
      BY <2>1, <2>7, <3>3 DEF RestoredInv
  <2> QED
    BY <2>10, <2>11
<1> QED
  BY <1>2, <1>3

-----------------------------------------------------------------------------
(* The events.                                                              *)

\* Two monitors that agree on everything but their duties go the same way.
LEMMA BranchesMatch ==
  ASSUME InStep, tick \in Nat \cup {-1}, NEW e \in AnyEvent, Step(e), Second!Step(e)
  PROVE  /\ mode' = t_mode' /\ terminal_kind' = t_terminal_kind' /\ fault' = t_fault'
         /\ tick' = t_tick' /\ epistemic' = t_epistemic'
         /\ \/ UNCHANGED <<occurrences, oid_counter, consumed,
                           t_occurrences, t_oid_counter, t_consumed>>
            \/ /\ occurrences' = PreExpire(occurrences, e.tick)
               /\ t_occurrences' = PreExpire(t_occurrences, e.tick)
               /\ UNCHANGED <<oid_counter, consumed, t_oid_counter, t_consumed>>
            \/ StepDomain(e) /\ Second!StepDomain(e)
            \/ StepTick(e) /\ Second!StepTick(e)
            \/ StepTerminal(e) /\ Second!StepTerminal(e)
<1>1. /\ mode = t_mode /\ terminal_kind = t_terminal_kind /\ fault = t_fault
      /\ tick = t_tick /\ epistemic = t_epistemic /\ consumed = t_consumed
  BY DEF InStep
<1>2. /\ Contradicts(e.observations) <=> Second!Contradicts(e.observations)
      /\ Observed(e.observations) = Second!Observed(e.observations)
  BY <1>1 DEF Contradicts, Second!Contradicts, Refines, Second!Refines, Observed,
              Second!Observed
<1>3. e.tick \in Int /\ (e.tick <= tick <=> ~ e.tick > tick)
  BY DEF AnyEvent
<1>4. CASE StepAfterEnd(e)
  <2>1. Second!StepAfterEnd(e)
    BY <1>1, <1>4
    DEF StepAfterEnd, Second!Step, Second!StepStale, Second!StepContradiction,
        Second!StepDomain, Second!StepTick, Second!StepTerminal, Second!Accept
  <2> QED
    BY <1>1, <1>4, <2>1 DEF StepAfterEnd, Second!StepAfterEnd
<1>5. CASE StepStale(e)
  <2>1. t_mode = "Running" /\ ~ e.tick > t_tick
    BY <1>1, <1>3, <1>5 DEF StepStale
  <2>2. Second!StepStale(e)
    BY <2>1
    DEF Second!Step, Second!StepAfterEnd, Second!StepContradiction, Second!StepDomain,
        Second!StepTick, Second!StepTerminal, Second!Accept
  <2> QED
    BY <1>1, <1>5, <2>2 DEF StepStale, Second!StepStale
<1>6. CASE StepContradiction(e)
  <2>1. t_mode = "Running" /\ ~ e.tick <= t_tick /\ Second!Contradicts(e.observations)
    BY <1>1, <1>2, <1>3, <1>6 DEF StepContradiction
  <2>2. Second!StepContradiction(e)
    BY <2>1
    DEF Second!Step, Second!StepAfterEnd, Second!StepStale, Second!StepDomain,
        Second!StepTick, Second!StepTerminal, Second!Accept
  <2>3. /\ occurrences' = PreExpire(occurrences, e.tick)
        /\ t_occurrences' = PreExpire(t_occurrences, e.tick)
    BY <1>6, <2>2, SameExpiry DEF StepContradiction, Second!StepContradiction
  <2> QED
    BY <1>1, <1>6, <2>2, <2>3 DEF StepContradiction, Second!StepContradiction
<1>7. ASSUME Accept(e)
      PROVE  /\ Second!StepDomain(e) \/ Second!StepTick(e) \/ Second!StepTerminal(e)
             /\ Second!Accept(e)
             /\ tick' = t_tick' /\ epistemic' = t_epistemic' /\ fault' = t_fault'
  <2>1. t_mode = "Running" /\ ~ e.tick <= t_tick /\ ~ Second!Contradicts(e.observations)
    BY <1>1, <1>2, <1>3, <1>7 DEF Accept
  <2>2. Second!StepDomain(e) \/ Second!StepTick(e) \/ Second!StepTerminal(e)
    BY <2>1
    DEF Second!Step, Second!StepAfterEnd, Second!StepStale, Second!StepContradiction
  <2>3. Second!Accept(e)
    BY <2>2 DEF Second!StepDomain, Second!StepTick, Second!StepTerminal
  <2> QED
    BY <1>1, <1>2, <1>7, <2>2, <2>3 DEF Accept, Second!Accept
<1>8. CASE StepDomain(e)
  <2>1. Second!StepDomain(e) /\ Accept(e)
    BY <1>7, <1>8 DEF StepDomain, Second!StepTick, Second!StepTerminal
  <2> QED
    BY <1>1, <1>7, <1>8, <2>1 DEF StepDomain, Second!StepDomain
<1>9. CASE StepTick(e)
  <2>1. Second!StepTick(e) /\ Accept(e)
    BY <1>7, <1>9 DEF StepTick, Second!StepDomain, Second!StepTerminal
  <2> QED
    BY <1>1, <1>7, <1>9, <2>1 DEF StepTick, Second!StepTick
<1>10. CASE StepTerminal(e)
  <2>1. Second!StepTerminal(e) /\ Accept(e)
    BY <1>7, <1>10 DEF StepTerminal, Second!StepDomain, Second!StepTick
  <2> QED
    BY <1>1, <1>7, <1>10, <2>1 DEF StepTerminal, Second!StepTerminal
<1> QED
  BY <1>4, <1>5, <1>6, <1>8, <1>9, <1>10 DEF Step

\* What MonitorProofs calls spent of the second ledger is what it calls spent of
\* the first, and the second monitor's expired ledger is the expiry of its own.
LEMMA SameSpending ==
  \A occs, used, seen : Second!Spent(occs, used, seen) <=> Spent(occs, used, seen)
BY SameRecords
DEF Spent, Second!Spent, Holding, Second!Holding, NewOccurrence, Second!NewOccurrence

\* What the second ledger satisfies when its response is registered.
LEMMA SecondKnownTriggered ==
  ASSUME Second!Known, NEW e \in AnyEvent, Second!Accept(e),
         NEW more \in Second!Resolutions(e), NEW other \in Second!FreshOids
  PROVE  /\ Second!Guard(e) = "T" /\ Used(more) = {}
         /\ other \notin DOMAIN t_occurrences
         /\ Second!Resolved(e, more) = PreExpire(t_occurrences, e.tick)
         /\ DOMAIN PreExpire(t_occurrences, e.tick) = DOMAIN t_occurrences
         /\ Second!Grown(e, other) \in SUBSET Nat
         /\ Second!Triggered(e, more, other) \in [Second!Grown(e, other) -> Occurrence]
<1>1. e \in Second!AnyEvent
  BY SameEvents
<1>2. /\ Second!Guard(e) = "T" /\ Second!Used(more) = {}
      /\ Second!Resolved(e, more) = Second!PreExpire(t_occurrences, e.tick)
  BY <1>1, Second!KnownResolved, BoundAssumption, GuardAssumption, TicksAssumption
  DEF Second!KnownResolved
<1>3. other \notin Second!Duties
  BY Second!FreshOidIsNew, BoundAssumption, GuardAssumption, TicksAssumption
  DEF Second!FreshOidIsNew, Second!Known, Second!IInv
<1>4. /\ Second!Grown(e, other) \in SUBSET Nat
      /\ Second!Triggered(e, more, other) \in [Second!Grown(e, other) -> Second!Occurrence]
  BY <1>1, Second!KnownTriggered, BoundAssumption, GuardAssumption, TicksAssumption
  DEF Second!KnownTriggered
<1> QED
  BY <1>2, <1>3, <1>4, SamePass, SameExpiry, SameRecords
  DEF Second!Duties, PreExpire, Expire

\* A domain event keeps the names the only difference.
LEMMA KnownDomainRenames ==
  ASSUME InStep, KnownBoth, NEW e \in AnyEvent, StepDomain(e), Second!StepDomain(e)
  PROVE  consumed' = t_consumed' /\ Renamed(occurrences', t_occurrences')
<1> DEFINE now == e.tick
<1>1. /\ Known /\ Second!Known /\ Renamed(occurrences, t_occurrences)
      /\ Accept(e) /\ Second!Accept(e) /\ now \in Nat
      /\ ShapeOK /\ consumed = t_consumed
  BY AcceptType DEF KnownBoth, StepDomain, Second!StepDomain, Known, IInv, InStep
<1>2. PICK alloc \in Resolutions(e), oid \in FreshOids :
        /\ occurrences' = BoundaryExpire(Answered(e, alloc, oid), now)
        /\ consumed' = consumed \cup Used(alloc) \cup
                         {t \in {now} : /\ e.tag = ResponseTag
                                        /\ Eligible(Triggered(e, alloc, oid), t) # {}}
  BY DEF StepDomain
<1>3. PICK more \in Second!Resolutions(e), other \in Second!FreshOids :
        /\ t_occurrences' = BoundaryExpire(Second!Answered(e, more, other), now)
        /\ t_consumed' = t_consumed \cup Used(more) \cup
                           {t \in {now} : /\ e.tag = ResponseTag
                                          /\ Eligible(Second!Triggered(e, more, other), t) # {}}
  BY SameExpiry, SamePass, SameAnswer DEF Second!StepDomain
<1> DEFINE triggered == Triggered(e, alloc, oid)
           moreTriggered == Second!Triggered(e, more, other)
           answered == Answered(e, alloc, oid)
           moreAnswered == Second!Answered(e, more, other)
           D == Grown(e, oid)
           E == Second!Grown(e, other)
<1>4. /\ Guard(e) = "T" /\ Used(alloc) = {} /\ oid \notin DOMAIN occurrences
      /\ Resolved(e, alloc) = PreExpire(occurrences, now)
      /\ DOMAIN PreExpire(occurrences, now) = DOMAIN occurrences
  BY <1>1, KnownResolved, FreshOidIsNew DEF Duties, PreExpire, Expire
<1>5. /\ Second!Guard(e) = "T" /\ Used(more) = {} /\ other \notin DOMAIN t_occurrences
      /\ Second!Resolved(e, more) = PreExpire(t_occurrences, now)
      /\ DOMAIN PreExpire(t_occurrences, now) = DOMAIN t_occurrences
      /\ E \in SUBSET Nat /\ moreTriggered \in [E -> Occurrence]
  BY <1>1, SecondKnownTriggered
<1>6. /\ D \in SUBSET Nat /\ triggered \in [D -> Occurrence]
      /\ \A i \in D :
           /\ triggered[i].status \notin Conditional
           /\ triggered[i].status = "Open" =>
                triggered[i] = NewOccurrence(triggered[i].trigger_tick,
                                             triggered[i].deadline, "Open")
  <2>1. /\ D \in SUBSET Nat /\ triggered \in [D -> Occurrence]
        /\ Spent(triggered, consumed, now)
        /\ \A i \in D : triggered[i].status \notin Conditional
    BY <1>1, KnownTriggered
  <2> HIDE DEF triggered, D
  <2> QED
    BY <2>1 DEF Spent
<1>7. Renamed(triggered, moreTriggered)
  <2>1. Renamed(PreExpire(occurrences, now), PreExpire(t_occurrences, now))
    BY <1>1, ExpiryRenames
  <2>2. CASE e.tag = TriggerTag
    <3>1. /\ triggered = InstantiateTrigger(PreExpire(occurrences, now), oid, "T", now)
          /\ moreTriggered
               = InstantiateTrigger(PreExpire(t_occurrences, now), other, "T", now)
      BY <1>4, <1>5, <2>2, SameTrigger DEF Triggered, Second!Triggered
    <3> QED
      BY <1>4, <1>5, <2>1, <3>1, TriggerRenames
  <2>3. CASE e.tag # TriggerTag
    BY <1>4, <1>5, <2>1, <2>3 DEF Triggered, Second!Triggered
  <2> QED
    BY <2>2, <2>3
<1>8. /\ answered = IF e.tag = ResponseTag THEN RegisterResponseToken(triggered, now)
                    ELSE triggered
      /\ moreAnswered = IF e.tag = ResponseTag
                        THEN RegisterResponseToken(moreTriggered, now)
                        ELSE moreTriggered
  BY SameAnswer DEF Answered, Second!Answered
<1>9. consumed' = consumed \cup {t \in {now} : /\ e.tag = ResponseTag
                                               /\ Eligible(triggered, t) # {}}
  BY <1>2, <1>4
<1>10. t_consumed' = consumed \cup {t \in {now} : /\ e.tag = ResponseTag
                                                  /\ Eligible(moreTriggered, t) # {}}
  BY <1>1, <1>3, <1>5
<1>11. occurrences' = BoundaryExpire(answered, now)
  BY <1>2
<1>12. t_occurrences' = BoundaryExpire(moreAnswered, now)
  BY <1>3
<1> HIDE DEF now, triggered, moreTriggered, answered, moreAnswered, D, E
<1>13. /\ Renamed(RegisterResponseToken(triggered, now),
                  RegisterResponseToken(moreTriggered, now))
       /\ Eligible(triggered, now) = {} <=> Eligible(moreTriggered, now) = {}
  BY <1>1, <1>5, <1>6, <1>7, RegisterRenames
<1>14. Renamed(answered, moreAnswered)
  BY <1>7, <1>8, <1>13
<1>15. Renamed(BoundaryExpire(answered, now), BoundaryExpire(moreAnswered, now))
  BY <1>14, ExpiryRenames
<1> QED
  BY <1>9, <1>10, <1>11, <1>12, <1>13, <1>15

\* So do the two that neither trigger nor answer.
LEMMA KnownSilentRenames ==
  ASSUME InStep, KnownBoth, NEW e \in AnyEvent,
         \/ StepTick(e) /\ Second!StepTick(e)
         \/ StepTerminal(e) /\ Second!StepTerminal(e)
  PROVE  consumed' = t_consumed' /\ Renamed(occurrences', t_occurrences')
<1> DEFINE now == e.tick
           occs == PreExpire(occurrences, now)
           others == PreExpire(t_occurrences, now)
           expired == BoundaryExpire(occs, now)
           moreExpired == BoundaryExpire(others, now)
<1>1. /\ Known /\ Second!Known /\ Renamed(occurrences, t_occurrences)
      /\ Accept(e) /\ Second!Accept(e) /\ consumed = t_consumed
  BY DEF KnownBoth, StepTick, Second!StepTick, StepTerminal, Second!StepTerminal, InStep
<1>2. \A alloc \in Resolutions(e) : Resolved(e, alloc) = occs /\ Used(alloc) = {}
  BY <1>1, KnownResolved
<1>3. \A more \in Second!Resolutions(e) : Second!Resolved(e, more) = others /\ Used(more) = {}
  <2>1. e \in Second!AnyEvent
    BY SameEvents
  <2> SUFFICES ASSUME NEW more \in Second!Resolutions(e)
               PROVE  Second!Resolved(e, more) = others /\ Used(more) = {}
    OBVIOUS
  <2>2. /\ Second!Used(more) = {}
        /\ Second!Resolved(e, more) = Second!PreExpire(t_occurrences, e.tick)
    BY <1>1, <2>1, Second!KnownResolved, BoundAssumption, GuardAssumption, TicksAssumption
    DEF Second!KnownResolved
  <2> QED
    BY <2>2, SamePass, SameExpiry
<1>4. Renamed(expired, moreExpired)
  BY <1>1, ExpiryRenames
<1>5. CASE StepTick(e) /\ Second!StepTick(e)
  <2>1. occurrences' = expired /\ consumed' = consumed
    BY <1>2, <1>5 DEF StepTick
  <2>2. t_occurrences' = moreExpired /\ t_consumed' = t_consumed
    BY <1>3, <1>5, SamePass, SameExpiry DEF Second!StepTick
  <2> QED
    BY <1>1, <1>4, <2>1, <2>2
<1>6. CASE StepTerminal(e) /\ Second!StepTerminal(e)
  <2>1. occurrences' = TerminalConversion(expired, e.kind, now) /\ consumed' = consumed
    BY <1>2, <1>6 DEF StepTerminal
  <2>2. /\ t_occurrences' = TerminalConversion(moreExpired, e.kind, now)
        /\ t_consumed' = t_consumed
    BY <1>3, <1>6, SamePass, SameExpiry, SameTerminal DEF Second!StepTerminal
  <2> HIDE DEF expired, moreExpired, now
  <2>3. Renamed(TerminalConversion(expired, e.kind, now),
                TerminalConversion(moreExpired, e.kind, now))
    BY <1>4, TerminalRenames
  <2> QED
    BY <1>1, <2>1, <2>2, <2>3
<1> QED
  BY <1>5, <1>6

\* Two monitors with one ledger compute one thing from an event.
LEMMA EqualTerms ==
  ASSUME InStep, EqualBoth, NEW e \in AnyEvent, Accept(e)
  PROVE  /\ Second!Resolutions(e) = Resolutions(e)
         /\ \A a, b \in Resolutions(e) : a = b
         /\ \A oid \in FreshOids, other \in Second!FreshOids : oid = other
         /\ \A alloc : Second!Resolved(e, alloc) = Resolved(e, alloc)
         /\ \A alloc, oid :
              /\ Second!Triggered(e, alloc, oid) = Triggered(e, alloc, oid)
              /\ Second!Answered(e, alloc, oid) = Answered(e, alloc, oid)
<1>1. /\ occurrences = t_occurrences /\ oid_counter = t_oid_counter
      /\ epistemic = t_epistemic /\ consumed = t_consumed
      /\ TypeOK /\ Second!TypeOK /\ ShapeOK
  BY DEF InStep, EqualBoth, TokenInv, Second!TokenInv, IInv
<1>2. Guard(e) = Second!Guard(e)
  BY <1>1 DEF Guard, Second!Guard, Observed, Second!Observed
<1>3. Second!Resolutions(e) = Resolutions(e)
  BY <1>1, <1>2, SameExpiry, SamePass DEF Resolutions, Second!Resolutions
<1>4. ASSUME NEW a \in Resolutions(e), NEW b \in Resolutions(e)
      PROVE  a = b
  <2> DEFINE occs == PreExpire(occurrences, e.tick)
             active == Activated(occs, Guard(e))
  <2>1. e.tick \in Nat /\ occurrences \in [Duties -> Occurrence]
    BY <1>1, AcceptType DEF ShapeOK
  <2>2. occs \in [Duties -> Occurrence]
    BY <2>1, PreExpireType
  <2>3. active \in SUBSET Duties
    BY <2>2 DEF Activated
  <2>4. a \in Allocations(occs, active, consumed) /\ b \in Allocations(occs, active, consumed)
    BY DEF Resolutions
  <2> HIDE DEF occs, active
  <2>5. Recorded(occs, active, consumed) \in SUBSET Nat
    BY <2>2, <2>3 DEF Recorded, Occurrence
  <2> QED
    BY <2>4, <2>5, OneAllocation
<1>5. ASSUME NEW oid \in FreshOids, NEW other \in Second!FreshOids
      PROVE  oid = other
  <2>1. oid = oid_counter + 1
    BY <1>1, FreshOidIsNext
  <2>2. other = t_oid_counter + 1
    BY <1>1, Second!FreshOidIsNext, BoundAssumption, GuardAssumption, TicksAssumption
    DEF Second!FreshOidIsNext
  <2> QED
    BY <1>1, <2>1, <2>2
<1>6. \A alloc : Second!Resolved(e, alloc) = Resolved(e, alloc)
  BY <1>1, <1>2, SameExpiry, SameResolution DEF Resolved, Second!Resolved
<1>7. \A alloc, oid : Second!Triggered(e, alloc, oid) = Triggered(e, alloc, oid)
  BY <1>2, <1>6, SameTrigger DEF Triggered, Second!Triggered
<1>8. \A alloc, oid : Second!Answered(e, alloc, oid) = Answered(e, alloc, oid)
  BY <1>7, SameAnswer DEF Answered, Second!Answered
<1> QED
  BY <1>3, <1>4, <1>5, <1>6, <1>7, <1>8

\* So they stay one monitor.
LEMMA EqualStaysEqual ==
  ASSUME InStep, EqualBoth, NEW e \in AnyEvent,
         \/ StepDomain(e) /\ Second!StepDomain(e)
         \/ StepTick(e) /\ Second!StepTick(e)
         \/ StepTerminal(e) /\ Second!StepTerminal(e)
  PROVE  /\ occurrences' = t_occurrences' /\ oid_counter' = t_oid_counter'
         /\ consumed' = t_consumed'
<1>1. /\ Accept(e) /\ consumed = t_consumed
      /\ occurrences = t_occurrences /\ oid_counter = t_oid_counter
  BY DEF InStep, EqualBoth, StepDomain, StepTick, StepTerminal
<1>2. CASE StepDomain(e) /\ Second!StepDomain(e)
  <2>1. PICK alloc \in Resolutions(e), oid \in FreshOids :
          /\ occurrences' = BoundaryExpire(Answered(e, alloc, oid), e.tick)
          /\ oid_counter' = IF e.tag = TriggerTag THEN oid ELSE oid_counter
          /\ consumed' = consumed \cup Used(alloc) \cup
                           {t \in {e.tick} : /\ e.tag = ResponseTag
                                             /\ Eligible(Triggered(e, alloc, oid), t) # {}}
    BY <1>2 DEF StepDomain
  <2>2. PICK more \in Second!Resolutions(e), other \in Second!FreshOids :
          /\ t_occurrences' = BoundaryExpire(Second!Answered(e, more, other), e.tick)
          /\ t_oid_counter' = IF e.tag = TriggerTag THEN other ELSE t_oid_counter
          /\ t_consumed' = t_consumed \cup Used(more) \cup
               {t \in {e.tick} : /\ e.tag = ResponseTag
                                 /\ Eligible(Second!Triggered(e, more, other), t) # {}}
    BY <1>2, SameExpiry, SamePass, SameAnswer DEF Second!StepDomain
  <2>3. alloc = more /\ oid = other
    BY <1>1, <2>1, <2>2, EqualTerms
  <2>4. /\ Second!Triggered(e, alloc, oid) = Triggered(e, alloc, oid)
        /\ Second!Answered(e, alloc, oid) = Answered(e, alloc, oid)
    BY <1>1, EqualTerms
  <2> QED
    BY <1>1, <2>1, <2>2, <2>3, <2>4
<1>3. CASE ~ (StepDomain(e) /\ Second!StepDomain(e))
  <2>1. /\ oid_counter' = oid_counter /\ t_oid_counter' = t_oid_counter
        /\ \E alloc \in Resolutions(e), more \in Second!Resolutions(e) :
             /\ consumed' = consumed \cup Used(alloc)
             /\ t_consumed' = t_consumed \cup Used(more)
             /\ \/ /\ occurrences' = BoundaryExpire(Resolved(e, alloc), e.tick)
                   /\ t_occurrences' = BoundaryExpire(Second!Resolved(e, more), e.tick)
                \/ /\ occurrences' =
                        TerminalConversion(BoundaryExpire(Resolved(e, alloc), e.tick),
                                           e.kind, e.tick)
                   /\ t_occurrences' =
                        TerminalConversion(BoundaryExpire(Second!Resolved(e, more), e.tick),
                                           e.kind, e.tick)
    <3>1. CASE StepTick(e) /\ Second!StepTick(e)
      BY <3>1, SamePass, SameExpiry DEF StepTick, Second!StepTick
    <3>2. CASE StepTerminal(e) /\ Second!StepTerminal(e)
      BY <3>2, SamePass, SameExpiry, SameTerminal DEF StepTerminal, Second!StepTerminal
    <3> QED
      BY <1>3, <3>1, <3>2
  <2>2. \A alloc \in Resolutions(e), more \in Second!Resolutions(e) :
          alloc = more /\ Second!Resolved(e, more) = Resolved(e, alloc)
    BY <1>1, EqualTerms
  <2> QED
    BY <1>1, <2>1, <2>2
<1> QED
  BY <1>2, <1>3

\* What an event does to two restored monitors.
LEMMA LiveStep ==
  ASSUME RestoredInv, phase = "Live", NEW e \in Event, Live(e)
  PROVE  /\ Named' /\ InStep' /\ (KnownBoth \/ EqualBoth)'
         /\ KeptLedger(occurrences, occurrences')
         /\ \A new \in Duties' \ Duties, i \in Duties \ Unnumbered : new > i
<1>1. e \in AnyEvent /\ Step(e) /\ Twin!Step(e) /\ Second!Step(e)
  BY EventsAreAny, SameStep DEF Live
<1>2. Named /\ InStep /\ (KnownBoth \/ EqualBoth)
  BY DEF RestoredInv
<1>3. ShapeOK /\ tick \in Nat \cup {-1}
  BY <1>2 DEF KnownBoth, EqualBoth, Known, TokenInv, IInv, ShapeOK
<1>4. KeptLedger(occurrences, occurrences')
  BY <1>1, <1>3, StepKeeps
<1>5. /\ mode' = t_mode' /\ terminal_kind' = t_terminal_kind' /\ fault' = t_fault'
      /\ tick' = t_tick' /\ epistemic' = t_epistemic'
      /\ \/ UNCHANGED <<occurrences, oid_counter, consumed,
                        t_occurrences, t_oid_counter, t_consumed>>
         \/ /\ occurrences' = PreExpire(occurrences, e.tick)
            /\ t_occurrences' = PreExpire(t_occurrences, e.tick)
            /\ UNCHANGED <<oid_counter, consumed, t_oid_counter, t_consumed>>
         \/ StepDomain(e) /\ Second!StepDomain(e)
         \/ StepTick(e) /\ Second!StepTick(e)
         \/ StepTerminal(e) /\ Second!StepTerminal(e)
  BY <1>1, <1>2, <1>3, BranchesMatch
<1>6. Named' /\ \A new \in Duties' \ Duties, i \in Duties \ Unnumbered : new > i
  <2>1. CASE UNCHANGED <<Duties, oid_counter>>
    BY <1>2, <2>1 DEF Named
  <2>2. CASE \E oid \in FreshOids : Duties' = Duties \cup {oid} /\ oid_counter' = oid
    <3>1. PICK oid \in FreshOids : Duties' = Duties \cup {oid} /\ oid_counter' = oid
      BY <2>2
    <3>2. /\ oid \in Nat /\ oid > oid_counter /\ oid_counter \in Nat
          /\ Duties \in SUBSET Nat
      BY <1>3, FreshOidIsNew DEF ShapeOK
    <3>3. \A i \in Duties \ Unnumbered : i < oid
      BY <1>2, <3>2 DEF Named
    <3>4. Named'
      BY <3>1, <3>2, <3>3 DEF Named
    <3> QED
      BY <3>1, <3>2, <3>3, <3>4
  <2> QED
    BY <1>1, <1>3, <2>1, <2>2, StepShape
<1>7. CASE KnownBoth
  <2>1. Known'
    BY <1>1, <1>7, KnownSteps DEF KnownBoth
  <2>2. Second!Known'
    BY <1>1, <1>7, SameEvents, Second!KnownSteps, BoundAssumption, GuardAssumption,
       TicksAssumption
    DEF KnownBoth, Second!KnownSteps
  <2>3. consumed' = t_consumed' /\ Renamed(occurrences', t_occurrences')
    <3>1. consumed = t_consumed /\ Renamed(occurrences, t_occurrences)
      BY <1>2, <1>7 DEF InStep, KnownBoth
    <3>2. Renamed(PreExpire(occurrences, e.tick), PreExpire(t_occurrences, e.tick))
      BY <3>1, ExpiryRenames
    <3>3. CASE StepDomain(e) /\ Second!StepDomain(e)
      BY <1>1, <1>2, <1>7, <3>3, KnownDomainRenames
    <3>4. CASE \/ StepTick(e) /\ Second!StepTick(e)
               \/ StepTerminal(e) /\ Second!StepTerminal(e)
      BY <1>1, <1>2, <1>7, <3>4, KnownSilentRenames
    <3> QED
      BY <1>5, <3>1, <3>2, <3>3, <3>4
  <2>4. KnownBoth' /\ InStep'
    BY <1>5, <2>1, <2>2, <2>3 DEF KnownBoth, InStep
  <2> QED
    BY <1>4, <1>6, <2>4
<1>8. CASE EqualBoth
  <2>1. TokenInv' /\ Second!TokenInv'
    BY <1>1, <1>8, StepTokens, SecondTokens DEF EqualBoth
  <2>2. /\ occurrences' = t_occurrences' /\ oid_counter' = t_oid_counter'
        /\ consumed' = t_consumed'
    <3>1. /\ occurrences = t_occurrences /\ oid_counter = t_oid_counter
          /\ consumed = t_consumed
      BY <1>2, <1>8 DEF InStep, EqualBoth
    <3>2. CASE \/ StepDomain(e) /\ Second!StepDomain(e)
               \/ StepTick(e) /\ Second!StepTick(e)
               \/ StepTerminal(e) /\ Second!StepTerminal(e)
      BY <1>1, <1>2, <1>8, <3>2, EqualStaysEqual
    <3> QED
      BY <1>5, <3>1, <3>2
  <2>3. EqualBoth' /\ InStep'
    BY <1>5, <2>1, <2>2 DEF EqualBoth, InStep
  <2> QED
    BY <1>4, <1>6, <2>3
<1> QED
  BY <1>2, <1>7, <1>8

-----------------------------------------------------------------------------
(* Every run.                                                               *)

\* The inductive invariant of two monitors restored from one card.
THEOREM RestoredInductive == CardSpec => []RestoredInv
<1>1. CardInit => RestoredInv
  BY DEF CardInit, RestoredInv, CardOK
<1>2. RestoredInv /\ [CardNext]_<<vars, t_vars, phase, card>> => RestoredInv'
  <2> SUFFICES ASSUME RestoredInv, [CardNext]_<<vars, t_vars, phase, card>>
               PROVE  RestoredInv'
    OBVIOUS
  <2>1. ASSUME NEW naming \in Namings(card.table), Restore(naming)
        PROVE  RestoredInv'
    BY <2>1, RestoreStarts
  <2>2. ASSUME NEW e \in Event, Live(e)
        PROVE  RestoredInv'
    BY <2>2, LiveStep DEF Live, RestoredInv
  <2>3. CASE UNCHANGED <<vars, t_vars, phase, card>>
    <3>1. Init /\ Twin!Init /\ CardOK => (Init /\ Twin!Init /\ CardOK)'
      BY <2>3 DEF vars, t_vars, Init, Twin!Init, CardOK
    <3>2. Named /\ InStep => Named' /\ InStep'
      BY <2>3 DEF vars, t_vars, Named, InStep, Duties
    <3>3. IInv => IInv'
      BY <2>3 DEF vars, IInv, ShapeOK, LiveWithinDeadline, GuardCoherence, BreachTimes,
                  Duties
    <3>4. Second!IInv => Second!IInv'
      BY <2>3
      DEF t_vars, Second!IInv, Second!ShapeOK, Second!LiveWithinDeadline,
          Second!GuardCoherence, Second!BreachTimes, Second!Duties
    <3>5. KnownBoth => KnownBoth'
      BY <2>3, <3>3, <3>4 DEF vars, t_vars, KnownBoth, Known, Second!Known
    <3>6. EqualBoth => EqualBoth'
      BY <2>3, <3>3, <3>4
      DEF vars, t_vars, EqualBoth, TokenInv, Second!TokenInv, TypeOK, Second!TypeOK
    <3> QED
      BY <2>3, <3>1, <3>2, <3>5, <3>6 DEF RestoredInv
  <2> QED
    BY <2>1, <2>2, <2>3 DEF CardNext
<1> QED
  BY <1>1, <1>2, PTL DEF CardSpec

\* A card that passes validation, whatever names it gives and whatever ticks it
\* repeats, starts a monitor whose ledger stays sound and whose tokens stay
\* linear for as long as it runs.
THEOREM CardsLegalAlways == CardSpec => []CardsAreLegal
<1>1. RestoredInv => CardsAreLegal
  BY HeldIsLinear
  DEF RestoredInv, KnownBoth, EqualBoth, CardsAreLegal, Known, TokenInv, IInv,
      LedgerSound, Accounts, Spent
<1> QED
  BY <1>1, RestoredInductive, PTL

\* No event after a restore reuses a name, or a number at or below one in use,
\* or moves a duty's trigger or deadline.
THEOREM NumberingAlwaysGoesOn == CardSpec => NumberingGoesOn
<1> DEFINE Goes ==
      phase = "Live" =>
        /\ \A i \in Duties :
             /\ i \in DOMAIN occurrences'
             /\ occurrences'[i].trigger_tick = occurrences[i].trigger_tick
             /\ occurrences'[i].deadline = occurrences[i].deadline
        /\ \A new \in DOMAIN occurrences' \ Duties, i \in Duties \ Unnumbered : new > i
<1>1. RestoredInv /\ [CardNext]_<<vars, t_vars, phase, card>> => [Goes]_occurrences
  <2> SUFFICES ASSUME RestoredInv, [CardNext]_<<vars, t_vars, phase, card>>,
                      phase = "Live", occurrences' # occurrences
               PROVE  Goes
    OBVIOUS
  <2>1. PICK e \in Event : Live(e)
    BY DEF CardNext, Restore, vars
  <2>2. /\ KeptLedger(occurrences, occurrences')
        /\ \A new \in Duties' \ Duties, i \in Duties \ Unnumbered : new > i
    BY <2>1, LiveStep
  <2> QED
    BY <2>2 DEF KeptLedger, Kept, Duties
<1> QED
  BY <1>1, RestoredInductive, PTL DEF CardSpec, NumberingGoesOn

\* Names decide nothing, for as long as the two monitors run.
THEOREM NamesDecideNothingAlways == CardSpec => []NamesDecideNothing
<1>1. RestoredInv => NamesDecideNothing
  <2> SUFFICES ASSUME RestoredInv, phase = "Live" PROVE NamesDecideNothing
    BY DEF NamesDecideNothing
  <2>1. InStep /\ (KnownBoth \/ EqualBoth)
    BY DEF RestoredInv
  <2>2. IsFiniteSet(DOMAIN occurrences)
    BY <2>1 DEF KnownBoth, EqualBoth, Known, TokenInv, IInv, ShapeOK, Duties
  <2>3. /\ Bag(occurrences) = Bag(t_occurrences)
        /\ Statuses = Twin!Statuses
    <3>1. CASE KnownBoth
      <4>1. Renamed(occurrences, t_occurrences)
        BY <3>1 DEF KnownBoth
      <4>2. /\ Bag(occurrences) = Bag(t_occurrences)
            /\ StatusesIn(occurrences) = StatusesIn(t_occurrences)
        BY <2>2, <4>1, RenamedReadsAlike
      <4> QED
        BY <4>2 DEF Statuses, Twin!Statuses, StatusesIn
    <3>2. CASE EqualBoth
      BY <3>2 DEF EqualBoth, Statuses, Twin!Statuses
    <3> QED
      BY <2>1, <3>1, <3>2
  <2>4. Summary = Twin!Summary /\ PublicMode = Twin!PublicMode
    BY <2>1, <2>3
    DEF InStep, Summary, Twin!Summary, PublicMode, Twin!PublicMode, Settled, Twin!Settled
  <2> QED
    BY <2>1, <2>3, <2>4 DEF NamesDecideNothing, InStep
<1> QED
  BY <1>1, RestoredInductive, PTL

=============================================================================
