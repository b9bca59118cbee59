# A TLA+ verification of agent-trace-contracts

The repository is a reference implementation of a small contract language for agent traces: an
*interpreter* (`src/interpreter/src/rs_metalang_ref`, called RI below) and an *abstraction capsule*
(`src/abstraction-capsule/src/rs_capsule`, called RC) that uses it. Everything is single-threaded Python
without I/O in its core. What is hard in it is order: which of several live duties a response pays for, which
side of a deadline an event falls on, what happens to a duty whose guard becomes known late, and whether
a monitor rebuilt from a summary of its past behaves like the one that lived through it.

The modules here model that core; TLC checks them on small instances and TLAPS proves part of what TLC checks
for every value of the constants.

## 1. Inventory

| Component | State it keeps | Operations | Correct when |
|---|---|---|---|
| Strong-Kleene domain, `kleene.py` | none | `~ & \|`, quantifiers, information order | connectives are monotone in the information order; a stored fact is only ever refined |
| Obligation lifecycle, `obligations.py` | occurrence records, `consumed` flags of tokens | trigger-and-guard rule, guard resolution, allocation pass, response registration, expiry, conversion at the end | one response settles one duty, the right one; each breach is at the right time and was unavoidable |
| Single-clause monitor, `monitor.py`, `events.py`, `verdict.py` | mode, fault, clock, proposition store, ledger of occurrences, alias counter | `set_initial`, `step` (11 phases), `restore_open_state_card` | its summary is the one the whole history deserves, at every step, and nothing decided is retracted |
| Abstraction capsule, RC `capsule.py`, `cards.py`, `profile.py` | two monitors and the disabled sink of each | cut a card, restore from it, drive both sides through one word | a card that satisfies its precondition yields a monitor no continuation can tell from the source |
| Residuals, `residual.py` | disabled sink, the word applied | `monitor_residual`, `TotalizedLTS` (`delta_bar`, `residual`, `agrees_on_supplied_continuations`) | a residual depends on the state at the cut only; the first label that cannot be taken is recorded and freezes the reading |
| Bounded comparison, `residual.py` | words compared, words left in the budget | `bounded_compare` | the first difference is reported, counts reconcile, a result claims only what was searched |
| Canonical encoding, `residual.py` | the ids active during a traversal | `canonical_observation_digest`, `_structurally_equal` | exactly the finite trees of admitted values are encoded, and equality of digests is equality of structure |
| Proof firewall, `firewall.py` | none | `typecheck`, `discharge_*` | a bounded search never discharges a universal premise |
| Viability, `viability.py` | winning set, ranks, witness actions, round counter; value estimates | `viability_fixpoint`, `classify_result`, `value_iteration_reachability` | the winning set is the least fixpoint, ranks are a strategy, the search ends; an estimate of zero is exact, and what is won is estimated one but for rounding |
| Contract clauses, `contracts.py` | none | clause validation, K3 checks of each clause form | a decided check stays decided as facts are learned |
| Evidence algebra, `evidence.py` | none | index unification, conjunction, duplicate fusion, requirement checking, identifiability gate | conclusions do not depend on the order of the evidence, an answer is never a guess, copies count once |
| Robust risk, `robust.py` | none | two closed formulas on floats | (arithmetic) |
| Command line, package files, tests | none | parsing, printing, re-exports | (no logic of the core) |

How they interact. The monitor calls the lifecycle functions on its own ledger inside `step`, in the order of
the numbered phases: advance the clock, strict expiry of older duties, check and store the observation,
resolve conditional duties, create a duty, register a response, boundary expiry, terminal conversion. The
capsule holds a source monitor, builds a card from its private state, has `restore_open_state_card` build a
second monitor by *stepping* it through the retained events and then placing the table, and drives both
through `monitor_residual`. `bounded_compare` takes two residual callbacks (the capsule's, for one) and its result
is what a caller may offer to the firewall as evidence for a premise. There is no concurrency, no message, no
persistence and no timer: time is the tick field of the next event, a crash is a terminal event or the loss of a
monitor that is then restored from a card, and every schedule is a caller's choice of the next event.

Hard behaviours. (a) Strict and boundary expiry around a deadline, with faults that leave an event half
processed. (b) Duties created under an unknown guard, which collect candidate responses and are settled
retroactively in one pass, perhaps past their deadlines. (c) Several live duties competing for one response.
(d) Events after the end and contradictory or late events. (e) Restoring at a later clock than the retained
events. (f) Budgets that end exactly with the family; the order of the search. (g) A fixpoint loop with a round
bound and choices taken from unordered sets. (h) Continuations that outlive a run, a fault or a caller's inconsistent
transition system. (i) Values that share parts, contain themselves or have no encoding. `PROJECT.json` lists each of these under `hazards`, at its line.

## 2. Modules

| Module | What it models |
|---|---|
| `Kleene` | the three values, connectives, quantifiers, and `Refines`, the order a stored fact may move in |
| `Obligations` | the lifecycle functions as operators on a ledger: function from aliases to records |
| `AllocationPass` | the token-by-token loop of `guards_become_true`, run as steps and compared with the declarative `IsAllocation` that `Monitor` uses |
| `Monitor` | `SingleClauseMonitor`: one action per branch of `step`, and `set_initial`; its invariants and action property |
| `BoundedResponse` | abstract specification: the verdict as a function of the whole history, with an oracle that may pair responses and triggers in any way |
| `MonitorHistory` | `Monitor` with a history variable, proved to implement `BoundedResponse` |
| `Capsule` | source monitor, card, restore, restored monitor, continuation; a second instance of `Monitor` is the restored one |
| `BoundedCompare` | the enumeration, the budget, the three results, and the firewall's table applied to them |
| `Viability` | the loop of `viability_fixpoint`, one turn a step, and the classification of a state |
| `Floats` | external: binary floats of any precision, rounded to nearest; `sum` as Python 3.11 and as 3.12 and later compute it |
| `ValueIteration` | extends `Viability`: `value_iteration_reachability` in floats on the same call, one update a round |
| `ClauseChecks` | the checks of `always`, `forbid`, `flow`, `at_end`, `before` and `budget`, and their conjunction, over facts that are refined, a query that is settled and a metric that grows until the run ends or is cut |
| `Residual` | abstract specification of a residual: labels are taken until one cannot be; that one is recorded and freezes the reading |
| `TotalizedLTS` | `delta_bar`, `residual` and `agrees_on_supplied_continuations` over any transition system a caller supplies, two sides at once; implements `Residual` |
| `TwoMonitors` | a second copy of `Monitor`'s variables; extended by the next three |
| `MonitorTwin` | two monitors on one stream, one of which knows the guard from the start |
| `MonitorResidual` | two prefixes that differ in when and how finely time was told, then one continuation replayed on both (`monitor_residual`); implements `Residual` |
| `RestoredRun` | `restore_open_state_card` on a hand-written table under two namings, and the run that follows with triggers |
| `Encoding` | a heap of scalars and containers a caller builds, the canonical encoding and digest of each node, and the structural comparison |
| `Evidence`, `Fusion`, `Identifiability` | the three parts of `evidence.py`: unification, conjunction and requirements; fusion of reports; the gate and the claim that rests on it |
| `MC*` | values for TLC, and the sums that let one run check several clauses (`MCMonitorHistory`), both comparisons of two monitors (`MCTwoMonitors`), the search with and without value iteration (`MCViability`) or the three parts of the evidence calculus (`MCEvidence`) |
| `ObligationsProofs`, `AllocationPassProofs`, `MonitorProofs`, `TwoMonitorsProofs`, `ViabilityProofs`, `CapsuleProofs`, `ComparisonProofs`, `ClauseChecksProofs` | lemmas, theorems and their proofs |

Composition: `Monitor` uses `Obligations` and `Kleene`; `MonitorHistory` maps `Monitor` to `BoundedResponse`; `Capsule` and
`TwoMonitors` each instantiate `Monitor` a second time; `MonitorResidual` and `TotalizedLTS` map to `Residual`;
`ValueIteration` runs beside `Viability` and computes with `Floats`; `BoundedCompare` feeds its result to the firewall's table.

### Correspondence with the code

* **Ledger.** `occurrences` is `monitor.occurrences`; the alias `"oN"` is the number N, and `FreshOids` is
  `_fresh_oid`'s search past the names in use. The clause identifier, the substitution (always empty in the
  fragment the code accepts) and the guard key are the same in all records of a monitor and are left out. An
  absent key of `epistemic` is `U`, as every read is `.get(key, U)`.
* **Tokens.** A response token is identified by its tick. An event carries at most one token and an accepted event
  has a larger tick than all before it, so the tick tells token objects apart, and the token order
  (tick, then rid) is the order of ticks. The mutable `consumed` flag shared by the copies of a token is
  the set `consumed`.
* **Steps.** `Step(e)` is one call of `step`. `StepAfterEnd`, `StepStale`, `StepContradiction` are the three early
  returns; `StepDomain`, `StepTick`, `StepTerminal` run every phase to the end. The phases are operators with
  their names (`PreExpire`, `ResolveConditionals`, `InstantiateTrigger`, `RegisterResponseToken`,
  `BoundaryExpire`, `TerminalConversion`) nested in the order of the code. A contradiction is found after the
  strict expiry and the clock have been applied, so they stay; everything later in that event is dropped.
* **Input that raises** (malformed events, effect receipts, more than one observation in an event, an initial
  value that retracts another) is refused before the monitor is touched: a stuttering step.
* **Canonical order.** `First` is the least duty by deadline, trigger tick, alias. The code compares aliases as
  strings, which is another order from the tenth alias on; within one monitor accepted triggers have distinct
  ticks, so the alias never decides. `FirstIsLeast` proves that the least duty exists and is unique.
* **Capsule.** `restore_open_state_card` is one Python call. It is split into `Cut`, `Replay` (one retained
  event each) and `FinishRestore` so that the replay can use `Monitor`'s own step; the source cannot move in between.
  An observation is the summary, the mode and the label recorded in the disabled sink.
* **Comparison.** A residual is any function from words to readings, so the result does not rest on what the
  capsule's residual happens to be. Words are sequences of positions in the alphabet.
* **Clause checks.** The checks are functions of facts, which are learned one by one in the order `observe` allows, of
  the status of an evidence query, which is settled at most once, and of a metric, which is unavailable (`-1` for
  `None`) and then grows; a run ends (`Actual`) or observation of it is cut (`Cut`), and only the first is the closing
  boundary of a conjunction.
* **Residuals.** `monitor_residual` replays on a deep copy, so the variables of `MonitorResidual` after `Cut` are those of
  the copy, and `Replay` is one turn of the loop: the event's tick is taken relative to the copy's clock, and the first
  event a stopped copy is given goes to the sink with its label and the reason. On a running copy an event whose tick comes out
  negative raises before anything changes, so it is no step. `TotalizedLTS` folds `delta_bar` over
  words one label at a time, on two systems and start states at once; `Raised` stands for the exceptions, after which
  there is no residual. A caller's adapter is any assignment of successors, enabled sets (or `Absent`,
  `NotACollection`) and observations.
* **Cards.** A card of `RestoredRun` is what `restore_open_state_card` is given when there are no retained events: rows,
  the guard, the clock and the names. `Unnumbered` names are those not of the form `oN`, which the counter ignores; the order of
  names in the model is a total order that does not follow the triggers, as the order of strings does not.
* **Encoding.** A value is a node of a heap, so that sharing and cycles can be told from equality. It encodes to a nested list, its
  type and the encodings of its items; JSON and SHA-256 are taken to tell nested lists apart, so the digest is that list.
  `NotEncoded` is the `ValueError` of a value that is not admitted. Sets and dicts keep the order in which they were filled, which
  is what iteration order depends on; sorting by text brings all rearrangements of their items into one order, and which
  one does not matter, so `Arranged` chooses it. The recursion of Python on a cyclic value without encoding is the
  answer `"R"`: a pair reached again from itself is compared for ever. `Encoding`, `Paired` and `StructurallyEqual` are recursive
  functions, of a node and the ids active, of the left item and the right ones unmatched, of two nodes and the pairs being compared.
* **Evidence.** An artifact identity compares by its key, its locator does not count. `"Raised"` is the
  `NotImplementedError` of `IDENTIFIED(...)`; `and`/`or` stop where Python's do.
  A requirement is a finite tree: `Height` says how deep it is, and `check_requirement` is a function over the set of requirements
  that are asked. Probabilities and interval ends are small integers.
* **Viability.** The loop body is `Round`, `Converge` or `GiveUp`; the winning action of a new state is any of the
  winners, as the code takes the first of a frozenset.
* **Value iteration.** A float is a number of smallest positive floats, of which `One` make 1.0; each product and each sum is
  rounded to `Precision` binary digits, to nearest, ties to even. A row is a dict, so it is summed in the order of its insertions, and
  every order is an initial state. The package admits Python 3.11 to 3.13: the built-in `sum` adds from left to right in the first and
  compensates for rounding in the others, so `compensated` is chosen in `VInit`. `IsNormalized` is `fsum` (one rounding of the exact
  sum) and `isclose` with its relative tolerance, so a row of a mass other than one is accepted and used as it is.

### Deviations

Each module also holds operators marked *Deviation*, with the name of the definition they deviate from and a suffix
(`Eligible_Strict`, `BoundaryExpire_Skipped`, ...). Nothing in a specification uses them: each is a plausible
mistake in the code, and putting it in the place of the original must make TLC report the property it is
listed with in `PROJECT.json` (`mutants`). They show that the property can fail.

## 3. Runs

| Run | What it checks | Bounds |
|---|---|---|
| `monitor` | `TypeOK`, `LedgerSound`, `LinearTokens`, `NoOvertaking`, `NoWastedCandidate`, `NoRetraction` | ticks 0..4, bound 2, two keys, two tags |
| `monitor_history` | `ImplementsOracles`, `BreachIsPaidFor` | ticks 0..4, the guard's key; three clauses: bound 2, bound 0, and bound 1 with one tag for trigger and response |
| `two_monitors` | `TimeIsRelative`, `ImplementsResidual`; `CardsAreLegal`, `NumberingGoesOn`, `NamesDecideNothing` | ticks 0..4, bound 2, second prefix 5 ticks later, continuations of 3 events with advances 0..2; cards of up to two rows, three names, two clocks |
| `twin` | `SameLedgerOnceKnown`, `NeverWrong` | ticks 0..4, bound 2 |
| `allocation_pass` | `AllocationIsThePass` | three duties, three tokens, every deadline and candidate set |
| `capsule` | `OpenCardFaithful`, `TailCardFaithful`, `RestoreIsSound` | traces of 4 events on ticks 0..3, windows 0..3, words of 2 labels |
| `totalized_lts` | `ResidualIsTheRun`, `AgreementSharesTheOffset`, `ImplementsResidual` | two states, two labels one of which is terminal, words of up to 4 |
| `bounded_compare` | `WitnessIsFirst`, `FirewallIsHonest`, `CountsReconcile` | words of up to 2 of 2 labels, every pair of residuals over two readings and one without encoding, six budgets |
| `clause_checks` | `ChecksAreExact`, `ConjunctionIsSound`, `AnswersStand` | the four facts the clauses read, learned in every order; a budget of 1 and a metric of up to 2; both kinds of end |
| `encoding` | `DigestIsStructure`, `EqualityIsStructure` | up to two scalars, two containers and two items in each, every way to share them or close a cycle |
| `evidence` | `AnswersDoNotGuess`, `SupportIsEarned`, `ReportsAreCountedOnce`, `ErrorIsTheBestRules` | bundles and reports of up to 3, all requirements of one part, most of two and some of three, mass functions on three outcomes in quarters |
| `viability` | `RankCertificate`, `IsLeastFixpoint`, `RoundsReconcile`, `Terminates`, `ImpossibleIsZero`, `CertainIsNearOne` | three states, two actions, every post-set of the offered actions; for value iteration two or three offers, floats of 5 digits down to 1/128, four probabilities, a tolerance of 1/16, six updates |

Why the bounds are enough for the interesting cases:

* With five ticks and a bound of two, three duties can be live at once, two responses can wait for one guard, a guard can
  become known before, at and after each deadline, and a duty can be created, missed and found missed by
  each of the five terminal kinds. Ticks may be skipped, so a deadline is also passed without an event on it.
  The second key lets an observation, and a contradiction, concern something other than the guard.
* Three duties and three tokens are the least on which a greedy pass can go wrong in more than one way (a token
  taken by a later duty, a token wasted, a duty offered a second one).
* A trace of four events contains trigger, response, a further trigger and a passing of time, which is what a
  tail window has to cut in the wrong place; two continuation labels reach a response followed by completion, and a
  label after the end followed by another, which the sink must ignore.
* Words of up to two labels of two are seven; the budgets lie below, at and above seven, and above each
  length. The order of words is decided at both positions.
* Two states that choose, with a goal, give chains of two rounds, loops, and actions without result; the bounds
  given are none, zero and one. That is the search alone; a call that is given a table of probabilities as well has two or three offers, since
  each row may be of any probabilities in any order, and no round bound.
* Floats of five digits reach in six updates what those of 53 digits reach in 54: the loop that stays with probability one half has then
  saturated at exactly one. The smallest float, 1/128, is large enough for products to fall below it. The
  probabilities (1/16, 1/2, 15/16 and 1) make rows of one, two and three results whose mass is one, and, within the tolerance, rows whose mass is
  below or above it, which estimates above one and losses by repetition need; some of these rows have other sums in
  another order or with compensation.
* A prefix of up to five ticks, told 5 ticks later with ticks strewn in, passes each deadline on it, after it, and with
  an empty tick on it. Three continuation events reach an end, the label that is recorded, and one that must be ignored.
* Two rows can tie on deadline and trigger, and the third name lets the two namings order them either way; one row of the
  entries fits no clause, so validation has something to refuse.
* Two containers suffice for a list in itself, a shared part, and a pair that contain each other; two items for an order, a
  duplicate and a greedy pairing that could go wrong.
* Three pieces of evidence are the least for which comparison with the first differs from comparison in pairs.

What the less obvious properties say:

* `LedgerSound` is three statements about expiry, the guard and the dates of a breach (`LiveWithinDeadline`, `GuardCoherence`,
  `BreachTimes`), which hold together or not at all (section 4).
* `ImplementsOracles` (refinement, for each clause): the summary published after each step is the one an oracle with the whole
  history gives, which may pair triggers and responses in any injective way. The monitor pairs greedily and irrevocably,
  so this is the statement that its allocation is optimal, and that expiry, late guards, faults and each kind
  of end decide exactly the duties they should. `horizon` says up to which deadline duties are decided:
  completion and abort decide all of them, a contradicting event only those strictly before it.
* `TimeIsRelative`: a monitor told of the same trace later in time, and of ticks on which nothing happens, reads the same, and so
  does any continuation of it. `ImplementsResidual`: whatever the machine, the first label that cannot be taken is recorded
  with the labels that could have been and the reason, and the reading is frozen from then on.
* `NamesDecideNothing`: two cards that differ only in the names of their duties give the same verdicts for ever and the
  same bag of duties, though a name may decide which of two tied duties a response settles.
* `ResidualIsTheRun`: a residual is the reading of the run the caller's declarations describe, cut at the first label that is
  not enabled; `AgreementSharesTheOffset`: two systems that agree on all supplied words were cut at the same label in each of
  them, although the offset is no part of a residual.
* `DigestIsStructure` and `EqualityIsStructure` compare with `SameTree`, the equality of trees with types (a relation that
  pairs the items of what it pairs), and say which values are no finite trees.
* `ImpossibleIsZero` and `CertainIsNearOne` say what a floating estimate tells of the qualitative answer. It is not that an estimate of 1.0
  means winning: the loop of `test_s4_viability.py:157-173` is not won and is estimated exactly 1.0, as that test asserts, and a row with
  mass to spare takes an estimate above it. But zero is exact, wherever no choice of actions and no luck leads safely to the goal; and a state the search has won is estimated one
  but for errors that its rank bounds, and not the number of updates, since the estimates
  it is computed from are bounded likewise by lower ranks. Upwards the bound grows with the updates, as nothing is clipped. With Python's floats the
  slack of one update is 1e-12 and a few units in the last place, so with few states the estimates of 200 updates are above one by little more than 2e-10 at most;
  the bound is linear and is meant for products of updates and slack that are small, and the run checks it beyond that.
* `SupportIsEarned` includes that every permutation of a bundle has the same conclusion, though all indices are
  compared with the first only.
* `SameLedgerOnceKnown`: retroactive activation gives each duty the outcome, response and effective time it would
  have had if the guard had been known from the start.
* `OpenCardFaithful` is an equivalence: the card is faithful exactly when its precondition held. `TailCardFaithful`
  is one direction with the precondition the window must meet: where it begins, nothing was live or breached.
* `FirewallIsHonest`: each premise a result discharges is true of the two residuals.
* `ChecksAreExact` compares each check with the worlds that agree with the facts: it is decided as soon as
  the worlds agree, and not before. `ConjunctionIsSound` says what this leaves of a conjunction, which depends neither
  on order nor on nesting; it is not exact, since a conjunction may be violated in every world by a different part.
* `AnswersStand`: no answer but `Pending` is taken back, whatever is learned and however the run ends.
* `NoRetraction`: no step takes back a fact, a settled duty, a violated summary or an end.

Deadlock is checked in `monitor`, `monitor_history` and `twin`, where some step is always possible. It is not checked where
the model stops: calls that return (`allocation_pass`, `viability`, `bounded_compare`), a run that ends (`clause_checks`),
continuations of bounded length and refused cards (`capsule`, `two_monitors`, `totalized_lts`), inputs of bounded size
(`encoding`, `evidence`).

### Bounds that are in the specifications

`Ticks` bounds the events a monitor is given. `SourceEvents`, `MaxTrace`, `Budgets`, `MaxWord` and the guard of
`SourceStep` that stops one event after the end bound the capsule's inputs. `MaxWord` and `Advances` bound the
continuations of `MonitorResidual`, `MaxWord`, `Adapters` and `Starts` what `TotalizedLTS` is given, `Entries`, `Names` and
`Clocks` the cards of `RestoredRun`, `MaxMetric` the metric of `ClauseChecks`, `MaxScalars`, `MaxContainers` and `MaxItems`
the heaps of `Encoding`, `MaxBundle` and `MaxReports` the evidence, `Whole` the denominator of
probabilities at the gate. `Inputs` is the set of calls of the viability search, `MaxIterations` bounds the `iterations` argument of value iteration, and
`Precision`, `One`, `Probabilities` and `Tolerance` are its floats, those rows are made of, and what their sum may be off.
`MaxLength` is the code's own bound. No counter is cut off otherwise.

### Fairness

`Viability` assumes weak fairness of its next-state relation, for `Terminates`: it is one Python call whose `while True` runs until it
returns. `MCViability` assumes the same of the search, and nothing of value iteration, which is a `for` loop with a count, as is
`BoundedCompare`'s. The monitor and the capsule are driven by their caller, who may stop at any time; nothing they promise is a liveness
property and their specifications assume no fairness.

## 4. Proofs

| Theorem | Module | States |
|---|---|---|
| `TypeCorrect` | `MonitorProofs` | `Spec => []TypeOK` |
| `LiveWithinDeadlineAlways`, `GuardCoherenceAlways`, `BreachTimesAlways`, `LedgerSoundAlways` | `MonitorProofs` | the three parts of `LedgerSound`, and all of it |
| `NeverRetracts` | `MonitorProofs` | `Spec => NoRetraction` |
| `LinearTokensAlways`, `NoOvertakingAlways`, `NoWastedCandidateAlways` | `MonitorProofs` | the other three, about what responses are spent on |
| `AllocationFair` | `MonitorProofs` | what the retroactive allocation pass guarantees, of any ledger |
| `HistoryInductive`, `BreachIsPaidForAlways` | `MonitorProofs` | every response that fell in a breached duty's window was spent on an older duty |
| `OracleImplemented` | `MonitorProofs` | `HSpec => ImplementsOracle`: the monitor implements `BoundedResponse` |
| `TwinsInductive`, `SameLedgerAlways`, `NeverWrongAlways` | `TwoMonitorsProofs` | a monitor that learns its guard late ends with the ledger of one that always knew it, and is never wrong until then |
| `ResidualImplemented` | `TwoMonitorsProofs` | the replay of any continuation implements `Residual` |
| `RestoredInductive`, `CardsLegalAlways`, `NumberingAlwaysGoesOn`, `NamesDecideNothingAlways` | `TwoMonitorsProofs` | what is restored from a valid card is sound for ever, numbers its duties without reuse, and reads the same whatever the names |
| `TimeInductive`, `TimeIsRelativeAlways` | `TwoMonitorsProofs` | neither the place in time of a prefix nor how finely it was told shows in what is read of a continuation |
| `RankCertificateAlways`, `IsLeastFixpointAlways`, `RoundsReconcileAlways` | `ViabilityProofs` | the winning set is a strategy and the least fixpoint; the round counter is right and the default bound never abstains |
| `CapsuleInductive`, `OpenCardFaithfulAlways`, `TailCardFaithfulAlways`, `RestoreIsSoundAlways` | `CapsuleProofs` | under its precondition no continuation tells the monitor restored from a card from the source; without it, what is restored is sound still |
| `ImpossibleIsZeroAlways` | `ViabilityProofs` | what cannot reach the goal safely is estimated exactly zero, whatever the format of floats and the way of summing |
| `ErrorIsTheBestRulesAlways` | `ViabilityProofs` | the error the gate claims is that of the best decision rule |
| `AnswersDoNotGuessAlways`, `SupportIsEarnedAlways`, `ReportsAreCountedOnceAlways` | `ViabilityProofs` | the three properties of requirements, conjunction and fusion |
| `WitnessFirst`, `FirewallHonest`, `CountsReconcileAlways` | `ComparisonProofs` | a witness is the first difference; what the firewall lets a result discharge is true; the counts add up to the family |
| `DigestIsStructureAlways`, `EqualityIsStructureAlways` | `ComparisonProofs` | equality of digests, and structural equality of what has none, is sameness of trees |
| `LTSImplementsResidual` | `ComparisonProofs` | both sides of a totalised system implement `Residual` |
| `ResidualIsTheRunAlways`, `AgreementSharesTheOffsetAlways` | `ComparisonProofs` | a residual is the caller's own run, cut at the first label that cannot be taken; agreement settles the offset |
| `AllocationIsThePassAlways` | `AllocationPassProofs` | the loop computes the one allocation the declarative definition admits |
| `ChecksExactAlways`, `ConjunctionSoundAlways`, `AnswersStandAlways` | `ClauseChecksProofs` | the three properties of the clause checks |

So every safety property of every run but `CertainIsNearOne` is a theorem (`ImplementsOracles` is `OracleImplemented` for three
values of its constants). Those of the monitor hold for every bound, set of tags, keys and ticks that satisfy `BoundAssumption` (the bound is a natural number,
as `AfterClauseSpec` requires), `GuardAssumption` (the guard's key is a key) and `TicksAssumption` (ticks are
natural numbers, as the event classes require).

* **Type correctness** is inductive as stated. It holds the fact that aliases are numbered `1..oid_counter`
  without a gap, from which a fresh alias is unique and new.
* **Safety.** The three invariants are not inductive one by one: a duty breached at its deadline was open, and it was
  open only because its guard was true. `IInv` is their conjunction with `ShapeOK`, which is `TypeOK` without the
  numbering of the aliases: any finite set of numbers may name the duties, so that a restored monitor is covered too. Inside a step they hold of the
  ledger only in a weaker form, `Sound`, where a live duty may be due at this very tick; one lemma per phase shows
  that the phase keeps `Sound`, and the boundary expiry or the terminal conversion restores the strong form.
  A contradiction leaves the weak form, which is why `LiveWithinDeadline` makes an exception for it.
* **No retraction.** `Kept` relates two records: same trigger and deadline, and the same record if the
  first was settled. Each phase keeps it, it composes, and so a whole step keeps it. The summary is
  monotone because a breached record stays.
* **Tokens.** What makes the three properties inductive is that the duties of one clause form a queue: aliases,
  triggers and deadlines are in one order, because every accepted event is later than the last (`Queue`). A candidate
  recorded by a duty is then recorded by every older duty it is in time for (`Recording`), so a duty breached with
  candidates unspent, or overtaken, would have to be overtaken inside the allocation pass, which `AllocationFair` excludes.
  The pass itself starts from a ledger in which no duty holds a token: duties hold tokens only once the
  guard is true (`GuardCoherence`), and the pass is the step that makes it true. `TokenInv` adds these
  facts, and `TypeOK`, to `IInv`.
* **The oracle.** `HInv` adds `Told` to `TokenInv`, which says what may be forgotten of the responses: while the guard is unknown
  none that fell in a duty's window, and under a true guard none that a duty could have used but one spent on an older one. Then it is
  Hall's argument. A duty left without response is the last of a stretch of duties such that every response in one of their
  windows is held by one of them; as the last holds none, there are fewer such responses than duties, and no pairing answers them
  all (`MissedIsUnpairable`, by the pigeonhole theorem of the library). Conversely the responses the ledger holds are a
  pairing (`AnsweredPair`). So some duty is breached exactly when the triggers due by then cannot be paired, and `horizon` says
  which are due (`HorizonDecides`). `HistoryJudges` puts this together for a state; each branch of `step` is then an `Event` of
  the oracle or a stutter (`StepIsSeen`).
* **The twins.** The two monitors are related by a simulation, `TwinInv`: their stores differ in the guard alone, each satisfies
  `TokenInv` (`MonitorProofs` is instantiated a second time, as `Second`, for the second one), and their ledgers are
  `Paired`. They have the same dates at all times. While the first does not know the guard and the guard is true, the
  second's responses are `Foretold`: they are the allocation that the first's pass would make if it learned the guard now. This
  is the heart of the matter, since the second gives out responses one at a time as they arrive and the first all at once; it is
  kept when a response arrives because the duty that takes it is the first eligible one in both ways of looking
  (`UnknownRegisterPairs`), and when the guard becomes known the pass makes that allocation, as there is only one
  (`OneAllocation`). From then on the duties have the `SameOutcome`, field by field.
* **The residual.** `SinkInv` (nothing is in the sink before the cut) is enough: a label is taken while the copy runs, and
  the first one after it stopped is a `Disable`, which leaves the verdict as it was.
* **Time.** `TimeInv` compares a ledger with one that lives `d` ticks later and was told of time more often. They are not
  one ledger displaced: the second may have found a deadline missed that the first will find missed at its next event. `Apart(d)` says
  that each record of the second is that of the first, `d` ticks later, or the breach the first is due for, and that what is due is
  over by the clock of the second. The strict expiry of the next event erases the difference (`PreExpire` is the only phase that sees it), all
  later phases commute with the displacement, and a reading cannot tell the two apart since nothing live is past its deadline
  (`ApartReadsAlike`, from `LiveWithinDeadline`). The cut fixes `d`, and the advances of the continuation are relative, so it stays what it
  was. `ShiftAssumption` (a later time is no earlier) and `AdvancesAssumption` (advances are integers) are what it rests on.
* **Restored monitors.** A restored monitor does not satisfy `TokenInv`: two rows may have been triggered at one tick, and names do
  not follow triggers, so its duties are no queue. But a card with duties is refused unless the guard is true, so no
  allocation pass is ever run on it, and `Known` is inductive in place of `TokenInv`: `IInv`, a true guard, and `Spent`, which
  keeps the linearity of tokens and says that an open duty is as its trigger made it but for its dates. For two namings the
  ledgers are `Renamed`: there is a bijection under which the records are equal. A response may go to different duties
  in the two, if they tie on deadline and trigger; they are then open with equal dates, so equal records, and
  exchanging their names repairs the bijection (`RegisterRenames`). A card without duties may have an
  unknown guard, but then both monitors are numbered from zero and are equal (`EqualBoth`), and both satisfy `TokenInv`. `Named`, the
  bound the counter sets to the numbers in use, gives `NumberingGoesOn`. `EntriesAssumption` and
  `ClocksAssumption` state the types that `restore_open_state_card` validates first: ticks are natural numbers, and the clock one of them or -1.
* **The capsule.** The ledgers of source and restored monitor are not equal: the source also holds the duties it answered, and
  numbers the rest as it met them. `Carried` says what they share: the duties of the restored ledger are, field by field and in order,
  duties of the source, which has only answered ones besides. Every phase of a step keeps it (`MovedCarries`), because an
  answered duty is out of reach of all of them; that the guard is true throughout (`build_prefix` establishes it first) excludes the
  allocation pass, so that `Known`, found for the restored monitors above, serves the source as well. For an *open* card the table holds the
  open duties exactly as they were triggered (`Spent`), and a running source without a breach has only answered others
  (`QuietIsAnswered`), so placing the table makes the ledgers `Carried` at once. For a *tail* card they become so only by the
  replay, and what must be known of it is known of the source before the cut: `Traced(n, start)` says that the events from the nth on
  lead from the ledger `start` to one the source carries. Where the source was quiet that holds of the empty ledger
  (`QuietIsTraced`); each event of the source extends it (`StepTraced`), and each replayed one uses up one of its events
  (`ReplayIsTraced`). The clock then jumps to the source's, over which nothing is due (`KnownExpires`). `CapsuleInv` puts this
  together by phase: `Fresh` before the cut, `Opened` or `Windowed` during the replay, `Driven` afterwards. `RestoreIsSound` does not use
  the precondition: what a card is refused for (a duty past its deadline, a contradiction) cannot be found on a card cut from a running
  source, as its trace is `Consistent`. `Traced` quantifies over ledgers without bound, so TLC checks the three consequences of `CapsuleInv` and not
  the invariant itself. `SourceEventsAssumption` says that the source's events are events, `BudgetsAssumption` that a tail window is a natural number
  (`cards.py` requires it not to be negative), and `ProfileAssumption` that the profile's two tags are distinct, as `export` and `approval` are.
* **Viability.** A rank is at most the number of rounds, and each round but the last added a state, so the rounds are at
  most |w| + 1, which gives the default bound and needs the states to be finite (`StatesAssumption`: the code takes a
  finite set). `InputsAssumption` says only that the arguments have their types.
* **Sums.** `ErrorIsTheBestRules` is about sums that the community modules take element by element in
  the order `CHOOSE` gives. The library's induction theorems cannot be instantiated here, so each fact of a sum is
  shown by a least counterexample, first of all that the recursion has exactly one solution on the subsets of a finite set.
* **Value iteration.** `VInv` is `ImpossibleIsZero` with the fact that every row leads where its offer may lead (`TableFits`). A set
  that is closed under `MayReach` holds, by definition, every safe state with an offer that may lead into it, so all products of a state
  outside are products with zero; these are zero after rounding, and so is their sum, from left to right and with compensation
  (`SumOfNothing`, by a least counterexample in the number of terms). Nothing of the probabilities is used but that they are numbers
  (`ProbabilitiesAssumption`), nothing of the format but that 1.0 is a positive number of units (`FormatAssumption`); the states are
  finitely many (`StatesAssumption`).
* **The gate.** Twice the lesser masses plus the distance is twice the whole (`ErrorsAreSums`), and a rule errs, at each outcome,
  by one of the two masses, so at least by the lesser (`BestRule`); the rule that decides for the larger one errs by just
  that. Sums of different functions over one set are related term by term (`SumOfSums`). `WholeAssumption` says that the outcomes are finitely many.
* **Requirements.** `Height` bounds how deep a requirement is, so a least counterexample is a lowest one (`LowestRequirement`), and a function
  that is computed part by part exists and is one (`TreesAgree`, `TreesExist`): `check_requirement` and the meaning of a requirement are
  two such functions. `NothingGuessed` compares them.
* **Support.** Unification is equality of keys and scope, so comparing every index with the first compares all (`FirstSpeaksForAll`); a
  bijection of the positions keeps how often a leaf occurs (`BagOfReordered`). `ItemsAssumption` gives the types of the pieces.
* **Fusion.** Roots and intervals of a longer list include those of a shorter one, so where the longer has one of
  each, the shorter has the same (`OneMoreReport`); pairs taken with the earlier report first are all pairs (`PairsOnce`).
* **Comparison.** The inductive invariant says that the words still to do are a final segment of the family's order and that
  all earlier ones agree, so the word at which the search stops on a difference is the first; a completed search has no word
  left. `FirewallHonest` follows by cases on the result and the table. The counts reconcile
  because there are as many words of one length as the alphabet to that power: a word one longer is a word and a letter
  (`OneLengthMore`), so the words up to a length satisfy the recursion of `FamilySize`. `AlphabetAssumption` and `MaxLengthAssumption` give
  words an order.
* **Heaps.** The invariant is `HeapOK`: containers hold tuples of nodes. The recursions are unfolded by least
  counterexamples (`EncodingIsMade`, `PairedIsMade`, `EqualityIsMade`): a container that becomes active leaves fewer that may, a left
  item that is paired leaves fewer to pair, a pair that is compared leaves fewer to compare. What holds of a node when it
  holds of its members holds of every node that is not cyclic (`TreeInduction`), as the nodes it fails for would follow their
  members for ever. `ScalarsAssumption` gives the scalars their types.
* **Digests.** What has an encoding reaches nothing unsupported and, since ids stay active below their container, no
  cycle; the rest is `TreeInduction`. Agreement of encodings pairs the items of what it pairs (`AgreeingIsSteady`), so it is sameness of trees; the
  other way round, rearranged items have the same rearrangements, of which `Arranged` takes one.
* **Structural equality.** `Right` says what may be answered of two values, and an answer is right when those of the
  members are (`RightStep`): so by least counterexample in the number of pairs left, where both sides lie below every pair being
  compared (`Leads`), so that a pair met again is on a cycle on both sides. Greedy pairing needs an exchange argument: the first
  right item that equals may be taken, because whoever had it in a pairing equals the partner this frees (`FirstMayBeTaken`). That
  in turn needs sameness to be difunctional (`SameIsDifunctional`), and fails for a comparison that is not.
* **Totalised systems.** `TotalTypeOK` (each side is in a state, the sink, or has raised) is enough: `delta_bar` maps a state
  to a `Take`, a `Disable` or a `Refuse` of `Residual` by the case it falls in, and the sink to a stutter.
* **The residual is the run.** `RunInv` says of each side that there is a run of the caller's system on a first part of
  the word which goes no further, and that the totalised state is what is read of it; a label extends that run
  (`StandsFurther`) or leaves it (`StandsStill`). That it is *the* run, so that the `CHOOSE` in `Executed` and `ResidualOf`
  means it, is shown separately: two runs from one state agree (at the least position where they would not, they were equal
  just before), and a run that stands cannot be outrun. Agreement at every prefix then makes the offsets equal, since an
  offset moves only while both sides are undecided. `MarkersAssumption` and `MaxWord` are not used.
* **Allocation.** `PassInv` says that the tokens offered so far are earlier than the others and are allocated as
  `IsAllocation` requires of them. A later token disturbs none of that, as `Takers` looks at earlier tokens only. Two
  allocations cannot differ, because the earliest token they would give differently has the same takers in both. The
  assumption is that aliases, ticks and deadlines are natural numbers; finiteness is not needed.
* **Clause checks.** `TypeOK` of `ClauseChecksProofs` is enough. A check is exact because the worlds that agree with the facts
  include a mildest and a harshest one (`ExtremeWorlds`), between which the check decides; a conjunction of three answers is
  reduced to a table (`ConjunctionValue`); answers stand because facts are only refined and nothing moves after
  the end. `BudgetAssumption` says that the metric can exceed the budget, without which no world would violate it.
* `ObligationsProofs` shows by well-foundedness of the naturals that a non-empty set of duties has exactly one first
  one, which is what makes `CHOOSE` in `First` mean something.

Only model-checked: the liveness property `Terminates`, which the provers cannot reason about, and `CertainIsNearOne`, a bound on
accumulated rounding: a proof needs an error analysis of compensated summation for every precision, and powers of two, of which the provers know nothing. That JSON and SHA-256
tell encodings apart is taken for granted, by the model already.

## 5. Not modelled

* `robust.py`: two closed formulas over floats. The probability bound of the firewall is one sum of floats, and
  `require_typecheck` only raises. Value iteration has its rounding and its tolerance (section 2); in the
  identifiability gate the tolerance and the clipping of the result are left out.
* In value iteration, entries of probability zero, which add nothing, and rows of fractions that are not floats, which Python converts as it multiplies.
* The command line, JSON output, re-exports, and the text of messages.
* The validation of arguments by type, which raises before any state exists, of the monitor, the comparison and the
  evidence records; the clause records and the certificate of caller attestations of `contracts.py`, which keep no state.
* `gate_projection` and `binary_accept`, tables of one argument.
* Objects in observations with an `__eq__` of their own.
* Records, enums and strings inside observations: they encode as tuples and integers do and are not separate kinds in
  `Encoding`.
* The seven dependence rules of `fuse` that raise `NotImplementedError`, which `Fusion` has as one answer.
* Receiving an event object again after the caller changed it: events are immutable in the code.

## 6. Plan

Done: all components with logic of their own have a module and a run, and every safety property of the runs but `CertainIsNearOne` has a proof.

What is left is what the code does not have yet: the seven dependence rules of `fuse` and `IDENTIFIED(...)`, which raise
`NotImplementedError`. Each has a place in `Fusion` and `Evidence` to be modelled in when it is written.
