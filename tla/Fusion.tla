------------------------------- MODULE Fusion -------------------------------
(***************************************************************************)
(* fuse of evidence.py: reports of one quantity come in one by one and are *)
(* fused under a declared dependence.  Only duplicates have a rule; a      *)
(* missing declaration is refused with the episodes the reports share.     *)
(***************************************************************************)
EXTENDS Integers, Sequences, SequencesExt, FiniteSets

CONSTANTS
  Estimates,      \* reports: interval, provenance_root and episodes
  MaxReports      \* reports fused at once (bounds the input)

ASSUME EstimatesAssumption ==
  \A e \in Estimates : e.interval[1] <= e.interval[2] /\ IsFiniteSet(e.episodes)

Dependence == {"Missing", "Duplicate", "Other"}

VARIABLE estimates

\* Nothing is detected unless every report names its episodes.
DetectOverlap(reports) ==
  IF \E i \in DOMAIN reports : reports[i].episodes = {} THEN {}
  ELSE UNION {UNION {reports[i].episodes \cap reports[j].episodes :
                       j \in (i + 1)..Len(reports)} : i \in DOMAIN reports}

\* Deviation: the roots are not compared and the intervals are intersected.
FuseDuplicates_Intersect(reports) ==
  IF reports = <<>> THEN [kind |-> "EmptyEstimateSet"]
  ELSE [kind |-> "Fused", effective_information_count |-> 1,
        fused_interval |-> <<Max({r.interval[1] : r \in Range(reports)}),
                             Min({r.interval[2] : r \in Range(reports)})>>]

\* One root, then one interval: a copy of a report is no second report.
FuseDuplicates(reports) ==
  LET roots == {r.provenance_root : r \in Range(reports)}
      intervals == {r.interval : r \in Range(reports)}
  IN  CASE reports = <<>>         -> [kind |-> "EmptyEstimateSet"]
        [] Cardinality(roots) > 1 -> [kind |-> "RootsDiffer"]
        [] Cardinality(roots) = 1 /\ Cardinality(intervals) > 1 ->
             [kind |-> "InconsistentDuplicateReports"]
        [] OTHER -> [kind |-> "Fused", effective_information_count |-> 1,
                     fused_interval |-> CHOOSE x \in intervals : TRUE]

Fuse(reports, dependence) ==
  CASE dependence = "Missing" -> [kind |-> "MissingDependenceDeclaration",
                                  detected_overlap |-> DetectOverlap(reports)]
    [] dependence = "Duplicate" -> FuseDuplicates(reports)
    [] OTHER -> [kind |-> "NotImplemented"]

FusionInit == estimates = <<>>

Report(e) ==
  /\ Len(estimates) < MaxReports
  /\ estimates' = Append(estimates, e)

FusionNext == \E e \in Estimates : Report(e)

FusionSpec == FusionInit /\ [][FusionNext]_estimates

-----------------------------------------------------------------------------
(* Properties.                                                              *)

\* What the reports that came in twice share, if all of them name their
\* episodes; nothing, and not a part of it, if one does not.
Overlap ==
  IF \E r \in Range(estimates) : r.episodes = {} THEN {}
  ELSE {x \in UNION {r.episodes : r \in Range(estimates)} :
          \E i, j \in DOMAIN estimates :
            i # j /\ x \in estimates[i].episodes \cap estimates[j].episodes}

\* However many copies of a report arrive, in whatever order, they are worth
\* one: what was fused once is fused to the same interval and count ever after
\* or refused, and a refusal is not lifted by one more report.  Without a
\* declaration, what any two reports share is reported, wherever they come in.
ReportsAreCountedOnce ==
  [][LET before == Fuse(estimates, "Duplicate")
         after  == Fuse(estimates', "Duplicate")
     IN  /\ before.kind # "EmptyEstimateSet" => after = before \/ after.kind # "Fused"
         /\ Fuse(estimates', "Missing").detected_overlap = Overlap'
    ]_estimates

=============================================================================
