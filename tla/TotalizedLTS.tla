---------------------------- MODULE TotalizedLTS ----------------------------
(***************************************************************************)
(* TotalizedLTS of residual.py: a caller's partial transition system made  *)
(* total by a disabled sink, and agrees_on_supplied_continuations, which   *)
(* compares two of its states on a list of words.                          *)
(*                                                                         *)
(* The two states are run on one word, a label at a time, so at every      *)
(* moment `current` holds their residuals at a prefix of it; the list      *)
(* supplied to the comparison is all the prefixes, shortest first.         *)
(***************************************************************************)
EXTENDS Integers, Sequences

CONSTANTS
  States,          \* states of the caller's system
  Labels,          \* labels a continuation may use
  TerminalLabels,  \* terminal_labels: those that end a run
  Values,          \* what an observation tells apart
  Absent,          \* the observation has no enabled_actions field
  NotACollection,  \* its enabled_actions is not a collection of labels
  Adapters,        \* systems tried: enabled, transition, observe
  Starts,          \* pairs of states compared: side -> state
  MaxWord          \* labels in the word (bounds the run)

Sides == {"u", "v"}

Observations == [value : Values,
                 enabled_actions : {Absent, NotACollection} \cup SUBSET Labels]

ASSUME AdaptersAssumption ==
  \A a \in Adapters : /\ a.enabled \in [States -> SUBSET Labels]
                      /\ a.transition \in [States -> [Labels -> States]]
                      /\ a.observe \in [States -> Observations]
ASSUME StartsAssumption == Starts \subseteq [Sides -> States]
ASSUME MarkersAssumption ==
  /\ Absent # NotACollection
  /\ \A enabled \in SUBSET Labels : enabled \notin {Absent, NotACollection}

VARIABLES
  adapter,   \* the caller's system
  start,     \* side -> the state its residual is taken of
  word,      \* the labels applied so far
  current,   \* side -> totalised state after them
  outcome    \* of the comparison: "Agree" so far, "Differ" or "Raised"

vars == <<adapter, start, word, current, outcome>>

-----------------------------------------------------------------------------
(* Totalised states.                                                        *)

Raw(s) == [kind |-> "State", source |-> s]
Terminal(s) == [kind |-> "Terminal", source |-> s]
Raised(s) == [kind |-> "Raised", source |-> s]

Sink(s, label, enabled, reason) ==
  [kind |-> "Sink", source |-> s, attempted |-> label, enabled_set |-> enabled,
   reason |-> reason]

\* What the frozen observation declares enabled, if anything, is what is.
Consistent(s) ==
  adapter.observe[s].enabled_actions \in {Absent, adapter.enabled[s]}

\* An unmatched label ends in the sink, or in an exception.
Unmatched(s, label) ==
  IF Consistent(s) THEN Sink(s, label, adapter.enabled[s], "NotEnabled")
  ELSE Raised(s)

Matched(s, label) ==
  LET next == adapter.transition[s][label]
  IN  IF label \in TerminalLabels THEN Terminal(next) ELSE Raw(next)

\* Deviation: a label after a terminal one is looked up in the state it led to.
DeltaBar_NoBoundary(t, label) ==
  IF t.kind \in {"Sink", "Raised"} THEN t
  ELSE IF label \in adapter.enabled[t.source] THEN Matched(t.source, label)
  ELSE Unmatched(t.source, label)

\* Deviation: a label after the sink replaces the one that was recorded.
DeltaBar_LastLabel(t, label) ==
  IF t.kind = "Raised" THEN t
  ELSE IF t.kind = "Sink" THEN Sink(t.source, label, t.enabled_set, t.reason)
  ELSE IF t.kind = "Terminal" THEN Sink(t.source, label, {}, "AfterTerminal")
  ELSE IF label \in adapter.enabled[t.source] THEN Matched(t.source, label)
  ELSE Unmatched(t.source, label)

\* delta_bar.  An exception ends the word, so "Raised" stays.
DeltaBar(t, label) ==
  IF t.kind \in {"Sink", "Raised"} THEN t
  ELSE IF t.kind = "Terminal" THEN Sink(t.source, label, {}, "AfterTerminal")
  ELSE IF label \in adapter.enabled[t.source] THEN Matched(t.source, label)
  ELSE Unmatched(t.source, label)

-----------------------------------------------------------------------------
(* residual and agrees_on_supplied_continuations.                           *)

Status(t) ==
  CASE t.kind = "Sink"   -> [kind |-> "Disabled", attempted |-> t.attempted,
                             enabled_set |-> t.enabled_set, reason |-> t.reason]
    [] t.kind = "Raised" -> [kind |-> "Refused"]
    [] OTHER             -> [kind |-> "NoDisabledLabel"]

TotalObservation(t) ==
  [contract_observation |-> adapter.observe[t.source],
   continuation_status  |-> Status(t)]

\* One word of the list: both residuals are evaluated before they are compared.
Compared(now) ==
  IF "Raised" \in {now[s].kind : s \in Sides} THEN "Raised"
  ELSE IF TotalObservation(now["u"]) # TotalObservation(now["v"]) THEN "Differ"
  ELSE "Agree"

Init ==
  /\ adapter \in Adapters
  /\ start \in Starts
  /\ word = <<>>
  /\ current = [s \in Sides |-> Raw(start[s])]
  /\ outcome = Compared(current)

\* Deviation: only the last word of the list decides.
Extend_LastWord(label) ==
  /\ Len(word) < MaxWord
  /\ word' = Append(word, label)
  /\ current' = [s \in Sides |-> DeltaBar(current[s], label)]
  /\ outcome' = Compared(current')
  /\ UNCHANGED <<adapter, start>>

\* The word grows by a label.  The comparison stops at its first difference.
Extend(label) ==
  /\ Len(word) < MaxWord
  /\ word' = Append(word, label)
  /\ current' = [s \in Sides |-> DeltaBar(current[s], label)]
  /\ outcome' = IF outcome = "Agree" THEN Compared(current') ELSE outcome
  /\ UNCHANGED <<adapter, start>>

Next == \E label \in Labels : Extend(label)

Spec == Init /\ [][Next]_vars

-----------------------------------------------------------------------------
(* What the run on a word is, said without the sink: the longest part of    *)
(* the word the caller's system can execute.                                *)

Runs(s, w) ==
  {run \in [0..Len(w) -> States] :
     /\ run[0] = start[s]
     /\ \A i \in DOMAIN w :
          /\ w[i] \in adapter.enabled[run[i - 1]]
          /\ run[i] = adapter.transition[run[i - 1]][w[i]]
          /\ w[i] \in TerminalLabels => i = Len(w)}

Executed(s, w) ==
  CHOOSE n \in 0..Len(w) :
    /\ Runs(s, SubSeq(w, 1, n)) # {}
    /\ n < Len(w) => Runs(s, SubSeq(w, 1, n + 1)) = {}

\* The state it leads to is observed, and the first label beyond it, if any, is
\* recorded; it is refused when the observation there belies the enabled set.
ResidualOf(s, w) ==
  LET n == Executed(s, w)
      run == CHOOSE run \in Runs(s, SubSeq(w, 1, n)) : TRUE
      ended == n > 0 /\ w[n] \in TerminalLabels
  IN  CASE n = Len(w) -> IF ended THEN Terminal(run[n]) ELSE Raw(run[n])
        [] n < Len(w) /\ ended -> Sink(run[n], w[n + 1], {}, "AfterTerminal")
        [] OTHER ->
             IF adapter.observe[run[n]].enabled_actions
                  \in {Absent, adapter.enabled[run[n]]}
             THEN Sink(run[n], w[n + 1], adapter.enabled[run[n]], "NotEnabled")
             ELSE Raised(run[n])

\* Whatever is read after the first unmatched label, the residual is that of
\* the longest executable part of the word: the sink keeps the observation, the
\* label, the enabled set and the reason of that moment, and an adapter whose
\* observation belies its enabled set is refused exactly when a word finds out.
ResidualIsTheRun == \A s \in Sides : current[s] = ResidualOf(s, word)

\* The offset of the first unmatched label is no part of a residual, so words
\* may be read alike that were executed to different lengths.  Over a list
\* that holds every prefix nothing is lost by that: while the comparison agrees,
\* both sides have executed the same labels.
AgreementSharesTheOffset ==
  outcome = "Agree" => Executed("u", word) = Executed("v", word)

Boundary(t) ==
  IF \/ t.kind = "Terminal"
     \/ t.kind = "Sink" /\ t.reason = "AfterTerminal"
  THEN "Terminal" ELSE "None"

U == INSTANCE Residual WITH
  Label <- Labels, EnabledSets <- SUBSET Labels,
  reading <- adapter.observe[current["u"].source],
  boundary <- Boundary(current["u"]), status <- Status(current["u"])

V == INSTANCE Residual WITH
  Label <- Labels, EnabledSets <- SUBSET Labels,
  reading <- adapter.observe[current["v"].source],
  boundary <- Boundary(current["v"]), status <- Status(current["v"])

\* Each side implements the promise of a residual.
ImplementsResidual == U!Spec /\ V!Spec

=============================================================================
