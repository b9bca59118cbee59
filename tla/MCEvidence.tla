----------------------------- MODULE MCEvidence -----------------------------
(***************************************************************************)
(* The three questions of the evidence calculus in one run: a behaviour    *)
(* gathers a bundle, or collects reports of one quantity, or puts two      *)
(* distributions to the gate.                                              *)
(***************************************************************************)
EXTENDS Evidence, Fusion, Identifiability

MCSubjectFields == <<"checkpoint", "prompt">>

Artifact(key, locator) == [key |-> key, locator |-> locator]

MCArtifacts == [key : {"h1", "h2"}, locator : {"d1", "d2"}]

\* One subject, the same one moved, one whose checkpoint and one whose prompt
\* is another behind the old locator; and a second scope.
MCIndices ==
  {[subject |-> [checkpoint |-> checkpoint, prompt |-> prompt], scope |-> "v1"] :
     checkpoint \in {Artifact("h1", "d1"), Artifact("h1", "d2"), Artifact("h2", "d2")},
     prompt \in {Artifact("h1", "d1")}}
  \cup
  {[subject |-> [checkpoint |-> Artifact("h1", "d1"), prompt |-> prompt],
    scope |-> scope] :
     prompt \in {Artifact("h1", "d1"), Artifact("h2", "d1")}, scope \in {"v1", "v2"}}

MCItems ==
  {[modality |-> kind[1], pattern |-> kind[2], index |-> index,
    provenance |-> {kind[3]}, assumptions |-> kind[4]] :
     index \in MCIndices,
     kind \in {<<"P", "A", "lab", {}>>, <<"X", "B", "field", {}>>,
               <<"P", "B", "lab", {"iid"}>>}}

MCEstimates == [interval : {<<0, 2>>, <<1, 3>>}, provenance_root : {"r1", "r2"},
                episodes : SUBSET {"ep1", "ep2"}]

Over(parts) == {And(l, r) : l, r \in parts} \cup {Or(l, r) : l, r \in parts}

\* All of one part, those of two out of a grade that a piece may have and one
\* that none has, sameness and identification; some of three, nested either way.
MCModality(grade, pattern) == [op |-> "Modality", grade |-> grade, pattern |-> pattern]

MCPairs == Over(Leaves \ {MCModality("X", "B"), MCModality("P", "B")})

MCRequirements ==
  LET parts == {MCModality("P", "A"), Identified}
  IN  Leaves \cup MCPairs \cup
      UNION {{And(l, r), Or(l, r), And(r, l), Or(r, l)} : l \in Over(parts), r \in parts}

MCHeight ==
  [r \in MCRequirements |-> IF r \in Leaves THEN 0
                            ELSE IF {r.left, r.right} \subseteq Leaves THEN 1 ELSE 2]

MCInit == BundleInit /\ FusionInit /\ GateInit

MCNext ==
  \/ /\ estimates = <<>> /\ gate.kind = "None"
     /\ BundleNext /\ UNCHANGED <<estimates, questions>>
  \/ /\ bundle = <<>> /\ gate.kind = "None"
     /\ FusionNext /\ UNCHANGED <<bundle, questions>>
  \/ /\ bundle = <<>> /\ estimates = <<>>
     /\ GateNext /\ UNCHANGED <<bundle, estimates>>

MCSpec == MCInit /\ [][MCNext]_<<bundle, estimates, questions>>

=============================================================================
