------------------------------ MODULE Evidence ------------------------------
(***************************************************************************)
(* Indexed evidence of evidence.py: a bundle is gathered piece by piece,   *)
(* may be conjoined when all its indices unify, and is asked whether it    *)
(* meets a claim's requirement.                                            *)
(*                                                                         *)
(* An artifact identity compares by its key; its locator may change        *)
(* without it becoming another artifact.                                   *)
(***************************************************************************)
EXTENDS Integers, Sequences, SequencesExt

CONSTANTS
  SubjectFields,   \* the fields of a SubjectId, in the order compared
  Artifacts,       \* [key, locator] records that name a model's parts
  Scopes,          \* version, time, intervention and population, as one value
  Modalities,      \* grades: incomparable
  Patterns,        \* proposition patterns
  Items,           \* the pieces of evidence there are
  MaxBundle,       \* size of the bundle (bounds the input)
  Requirements,    \* the requirements that are asked
  Height           \* requirement -> how deep its parts are nested

ASSUME ItemsAssumption ==
  \A e \in Items :
    /\ e.modality \in Modalities /\ e.pattern \in Patterns
    /\ DOMAIN e.index.subject = Range(SubjectFields)
    /\ Range(e.index.subject) \subseteq Artifacts
    /\ e.index.scope \in Scopes

\* Claim requirements.  SAME is over index fields: "subject" stands for all of
\* the subject's.
And(l, r) == [op |-> "And", left |-> l, right |-> r]
Or(l, r) == [op |-> "Or", left |-> l, right |-> r]
Same(fields) == [op |-> "Same", fields |-> fields]
Identified == [op |-> "Identified"]

Leaves == [op : {"Modality"}, grade : Modalities, pattern : Patterns]
            \cup {Same({"subject"}), Same({"subject", "scope"}), Identified}

\* A requirement is a finite tree, and its parts are requirements.
ASSUME RequirementsAssumption ==
  /\ Height \in [Requirements -> Nat]
  /\ Leaves \subseteq Requirements
  /\ \A r \in Requirements \ Leaves :
       /\ r \in {And(r.left, r.right), Or(r.left, r.right)}
       /\ \A part \in {r.left, r.right} :
            part \in Requirements /\ Height[part] < Height[r]

VARIABLE bundle

-----------------------------------------------------------------------------
(* unify_index and conjoin_all.                                             *)

\* Deviation: artifacts are the same if either part of their identity is.
SameArtifact_Either(a, b) == a.key = b.key \/ a.locator = b.locator

SameArtifact(a, b) == a.key = b.key

\* The positions of the subject fields that differ.
Differences(i, j) ==
  {n \in DOMAIN SubjectFields :
     ~ SameArtifact(i.subject[SubjectFields[n]], j.subject[SubjectFields[n]])}

Unifies(i, j) == Differences(i, j) = {} /\ i.scope = j.scope

UnificationField(i, j) ==
  IF Differences(i, j) = {} THEN "index" ELSE SubjectFields[Min(Differences(i, j))]

Leaf(e) == [op |-> "Modality", grade |-> e.modality, pattern |-> e.pattern]

Provenance(evidences) == UNION {e.provenance : e \in Range(evidences)}
Assumptions(evidences) == UNION {e.assumptions : e \in Range(evidences)}

Clashes(evidences) ==
  {n \in DOMAIN evidences : ~ Unifies(evidences[1].index, evidences[n].index)}

Reported(evidences) == Min(Clashes(evidences))

\* Every index is compared with the first one's; then nothing may be assumed.
\* The requirement is the conjunction of the leaves.
Conjoin(evidences) ==
  CASE Len(evidences) < 2 -> [kind |-> "TooFew"]
    [] Len(evidences) >= 2 /\ Clashes(evidences) # {} ->
         [kind |-> "EvidenceTypeError",
          field |-> UnificationField(evidences[1].index,
                                     evidences[Reported(evidences)].index)]
    [] OTHER ->
         IF Assumptions(evidences) # {}
         THEN [kind |-> "AssumptionCompatibilityUnknown",
               assumptions |-> Assumptions(evidences)]
         ELSE [kind |-> "Support", index |-> evidences[1].index,
               provenance |-> Provenance(evidences),
               requirement |-> [n \in DOMAIN evidences |-> Leaf(evidences[n])]]

-----------------------------------------------------------------------------
(* check_requirement.                                                       *)

SameIn(i, j, field) ==
  IF field = "subject" THEN Differences(i, j) = {} ELSE i.scope = j.scope

\* Deviation: a part that cannot be checked counts as one that fails.
AndThen_Swallows(l, r) == IF l = "True" THEN r ELSE "False"

\* Python's `and` and `or`: the right part matters, and may raise, only if the
\* left one does not settle it.
AndThen(l, r) == IF l = "True" THEN r ELSE l
OrElse(l, r) == IF l = "False" THEN r ELSE l

Matches(r, evidences) == \E e \in Range(evidences) : Leaf(e) = r

Answer(b) == IF b THEN "True" ELSE "False"

\* A requirement without parts; IDENTIFIED(...) is not implemented and raises.
LeafAnswer(r, evidences) ==
  CASE r.op = "Modality" -> Answer(Matches(r, evidences))
    [] r.op = "Same" -> Answer(\A d, e \in Range(evidences), f \in r.fields :
                                 SameIn(d.index, e.index, f))
    [] OTHER -> "Raised"

Joined(op, l, r) == IF op = "And" THEN AndThen(l, r) ELSE OrElse(l, r)

\* check_requirement, as a function of the requirement.
CheckRequirement(evidences) ==
  LET check[r \in Requirements] ==
        IF r.op \in {"And", "Or"} THEN Joined(r.op, check[r.left], check[r.right])
        ELSE LeafAnswer(r, evidences)
  IN  check

-----------------------------------------------------------------------------
(* The bundle grows.                                                        *)

BundleInit == bundle = <<>>

Gather(e) ==
  /\ Len(bundle) < MaxBundle
  /\ bundle' = Append(bundle, e)

BundleNext == \E e \in Items : Gather(e)

BundleSpec == BundleInit /\ [][BundleNext]_bundle

-----------------------------------------------------------------------------
(* Requirements that are asked.                                             *)

\* What a requirement means if IDENTIFIED(...) has the truth value `identified`.
Meaning(answer, identified) ==
  LET meaning[r \in Requirements] ==
        CASE r.op = "And" -> meaning[r.left] /\ meaning[r.right]
          [] r.op = "Or"  -> meaning[r.left] \/ meaning[r.right]
          [] r.op = "Identified" -> identified
          [] OTHER -> answer[r] = "True"
  IN  meaning

\* An answer given is right whatever the part that is not implemented would have
\* said: short-circuit evaluation may refuse to answer, and which requirements
\* it refuses depends on the order of their parts, but no two orders disagree.
AnswersDoNotGuess ==
  LET answer == CheckRequirement(bundle)
  IN  \A identified \in BOOLEAN :
        LET meaning == Meaning(answer, identified)
        IN  \A r \in Requirements :
              answer[r] # "Raised" => answer[r] = Answer(meaning[r])

-----------------------------------------------------------------------------
(* Conjunction.                                                             *)

\* What a conjunction concludes, but for the order of its pieces and for the
\* locators: an error is the same error whichever field it names.
Gist(evidences) ==
  LET c == Conjoin(evidences)
  IN  CASE c.kind = "Support" ->
             <<c.kind, c.provenance, ToBag(c.requirement), c.index.scope,
               [f \in Range(SubjectFields) |-> c.index.subject[f].key]>>
        [] c.kind = "AssumptionCompatibilityUnknown" -> <<c.kind, c.assumptions>>
        [] OTHER -> <<c.kind>>

\* Support is concluded exactly from two or more pieces about one subject in
\* one scope that assume nothing, though all indices are compared with the first
\* only.  It then loses no grade, no pattern and no provenance: the bundle meets
\* the requirement it states, part by part.  And no conclusion depends on which
\* piece comes first or on the order of the others.
SupportIsEarned ==
  LET c == Conjoin(bundle)
      answer == CheckRequirement(bundle) IN
  /\ c.kind = "Support" <=>
       /\ Len(bundle) >= 2
       /\ answer[Same({"subject", "scope"})] = "True"
       /\ \A e \in Range(bundle) : e.assumptions = {}
  /\ c.kind = "Support" =>
       /\ \A leaf \in Range(c.requirement) : answer[leaf] = "True"
       /\ \A e \in Range(bundle) :
            Leaf(e) \in Range(c.requirement) /\ e.provenance \subseteq c.provenance
  /\ \A p \in Bijection(DOMAIN bundle, DOMAIN bundle) :
       Gist([n \in DOMAIN bundle |-> bundle[p[n]]]) = Gist(bundle)

=============================================================================
