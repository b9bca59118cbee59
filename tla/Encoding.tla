------------------------------ MODULE Encoding ------------------------------
(***************************************************************************)
(* The canonical observation encoding of residual.py, its digest, and      *)
(* structural equality, over a heap of Python values: containers hold      *)
(* references, so a value may be shared, and a list or a dict may be made  *)
(* to contain itself.                                                      *)
(*                                                                         *)
(* A value is encoded to a nested list: its type and, of a container, the  *)
(* encodings of its items.  JSON and SHA-256 are taken to tell nested      *)
(* lists apart, so the digest is the nested list.                          *)
(* Records (dataclasses, VerdictObject) encode and compare field by field  *)
(* in declared order, as a tuple does; enums and strings as integers do.   *)
(***************************************************************************)
EXTENDS Integers, Sequences, SequencesExt, FiniteSetsExt, Functions

CONSTANTS
  Scalars,        \* scalar cells a heap may have, [kind, value], in a sequence
  MaxScalars,     \* scalars a heap starts with
  MaxContainers,  \* containers allocated over them
  MaxItems        \* items a container may hold

ScalarKinds == {"bool", "int", "float", "bytes"}

ASSUME ScalarsAssumption ==
  /\ Scalars \in Seq([kind : ScalarKinds, value : Nat])
  /\ MaxScalars \in Nat /\ MaxContainers \in Nat /\ MaxItems \in Nat

\* int and float values; NegZero is -0.0 and equal to 0.0 in Python.
NegZero == 2
NaN     == 3
Inf     == 4

Sequential == {"tuple", "list"}
SetLike    == {"frozenset", "set"}
Containers == Sequential \cup SetLike \cup {"dict"}
Composite  == Containers \ {"set"}       \* the containers that have an encoding
Mutable    == {"list", "dict"}           \* appended to; a set holds no container that is

VARIABLE
  heap   \* scalar [kind, value]; container [kind, items], items in iteration
         \* order, an item <<member>> or, in a dict, <<key, value>>

Nodes == DOMAIN heap
IsContainer(n) == heap[n].kind \in Containers
Members(n) == IF IsContainer(n) THEN UNION {Range(item) : item \in Range(heap[n].items)} ELSE {}

-----------------------------------------------------------------------------
(* The encoding.                                                            *)

NotEncoded == <<>>   \* stands for the ValueError; no encoding is empty

Rearrangements(s) ==
  {[i \in DOMAIN s |-> s[p[i]]] : p \in Bijection(DOMAIN s, DOMAIN s)}

\* Deviation: items are encoded in iteration order.
Arranged_AsIterated(kind, items) == items

\* The items of a set or a dict are sorted by their JSON text, which brings every
\* rearrangement of them into the same order.
Arranged(kind, items) ==
  IF kind \in {"frozenset", "dict"} THEN CHOOSE s \in Rearrangements(items) : TRUE ELSE items

Normalized(n) == IF heap[n].value = NegZero THEN 0 ELSE heap[n].value

ScalarEncoding(n) ==
  IF heap[n].kind = "bytes" \/ heap[n].value \in {NaN, Inf} THEN NotEncoded
  ELSE <<heap[n].kind, Normalized(n)>>

\* Encoding[<<n, active>>], active being the containers whose items are encoded.
Encoding ==
  LET enc[x \in Nodes \X SUBSET Nodes] ==
        LET n == x[1]
            active == x[2]
            items == [i \in DOMAIN heap[n].items |->
                        [k \in DOMAIN heap[n].items[i] |->
                           enc[<<heap[n].items[i][k], active \cup {n}>>]]]
        IN  IF ~ IsContainer(n) THEN ScalarEncoding(n)
            ELSE IF heap[n].kind \notin Composite \/ n \in active THEN NotEncoded
            ELSE IF \E i \in DOMAIN items : NotEncoded \in Range(items[i]) THEN NotEncoded
            ELSE <<heap[n].kind, Arranged(heap[n].kind, items)>>
  IN  enc

\* _admitted_observation_encoding, and canonical_observation_digest.
Digest(n) == Encoding[<<n, {}>>]

-----------------------------------------------------------------------------
(* _structurally_equal: "T", "F", or "R" where the recursion never ends.    *)

\* Python's all() and `and`: the first answer that is not True.
All(answers) ==
  LET bad == {i \in DOMAIN answers : answers[i] # "T"}
  IN  IF bad = {} THEN "T" ELSE answers[CHOOSE i \in bad : \A j \in bad : i <= j]

\* left == right on scalars of one type.
ScalarsEqual(l, r) ==
  IF Normalized(l) = Normalized(r) /\ Normalized(l) # NaN THEN "T" ELSE "F"

\* Greedy pairing: from left item i on, each takes the first right item still
\* unmatched that equals it; answer[i][j] is for left item i and right item j.
Paired(answer) ==
  LET from[x \in (1..(Len(answer) + 1)) \X SUBSET (1..Len(answer))] ==
        LET i == x[1]
            unmatched == x[2]
            tried == {j \in unmatched : answer[i][j] # "F"}
        IN  IF i > Len(answer) THEN "T"
            ELSE IF tried = {} THEN "F"
            ELSE IF answer[i][Min(tried)] = "R" THEN "R"
            ELSE from[<<i + 1, unmatched \ {Min(tried)}>>]
  IN  from[<<1, 1..Len(answer)>>]

\* Deviation: the fallback compares the items of every container in order.
InOrder_All(kind) == TRUE

InOrder(kind) == kind \in Sequential

SameType(l, r) == heap[l].kind = heap[r].kind

\* StructurallyEqual[<<l, r, path>>], path being the pairs that are being compared; a
\* pair that is reached again from itself is compared for ever.
StructurallyEqual ==
  LET eq[x \in Nodes \X Nodes \X SUBSET (Nodes \X Nodes)] ==
        LET l == x[1]
            r == x[2]
            path == x[3]
            lefts == heap[l].items
            rights == heap[r].items
            answer == [i \in DOMAIN lefts |-> [j \in DOMAIN rights |->
                         All([k \in DOMAIN lefts[i] |->
                                eq[<<lefts[i][k], rights[j][k], path \cup {<<l, r>>}>>]])]]
        IN  IF Digest(l) # NotEncoded /\ Digest(r) # NotEncoded
            THEN IF Digest(l) = Digest(r) THEN "T" ELSE "F"
            ELSE IF <<l, r>> \in path THEN "R"
            ELSE IF ~ SameType(l, r) THEN "F"
            ELSE IF ~ IsContainer(l) THEN ScalarsEqual(l, r)
            ELSE IF Len(lefts) # Len(rights) THEN "F"
            ELSE IF InOrder(heap[l].kind) THEN All([i \in DOMAIN lefts |-> answer[i][i]])
            ELSE Paired(answer)
  IN  eq

Equal(l, r) == StructurallyEqual[<<l, r, {}>>]

-----------------------------------------------------------------------------
(* What a caller may build.                                                 *)

\* What is reached from n by following members.
Reachable(n) ==
  {m \in Nodes : \A S \in SUBSET Nodes :
                   n \in S /\ (\A k \in S : Members(k) \subseteq S) => m \in S}

Hashable(n) == \A m \in Reachable(n) : heap[m].kind \notin {"list", "set", "dict"}

\* Python's == on hashable values, by which a set or a dict tells them apart:
\* True, 1 and 1.0 are one; a NaN equals only the object it is.
PythonEqual ==
  LET number == {"bool", "int", "float"}
      equal[l \in Nodes, r \in Nodes] ==
        \/ l = r
        \/ /\ heap[l].kind \in number /\ heap[r].kind \in number
           /\ ScalarsEqual(l, r) = "T"
        \/ heap[l].kind = "bytes" /\ heap[r].kind = "bytes" /\ ScalarsEqual(l, r) = "T"
        \/ /\ heap[l].kind = "tuple" /\ heap[r].kind = "tuple"
           /\ Len(heap[l].items) = Len(heap[r].items)
           /\ \A i \in DOMAIN heap[l].items : equal[heap[l].items[i][1], heap[r].items[i][1]]
        \/ /\ heap[l].kind = "frozenset" /\ heap[r].kind = "frozenset"
           /\ Len(heap[l].items) = Len(heap[r].items)
           /\ \A m \in Members(l) : \E k \in Members(r) : equal[m, k]
  IN  equal

\* What a container of a kind may hold: the items themselves, no matter where.
Holds(kind, items) ==
  /\ kind \in SetLike \cup {"dict"} =>
       /\ \A i \in DOMAIN items : Hashable(items[i][1])
       /\ \A i, j \in DOMAIN items : PythonEqual[items[i][1], items[j][1]] => i = j

Items(kind) ==
  BoundedSeq(IF kind = "dict" THEN Nodes \X Nodes ELSE {<<n>> : n \in Nodes}, MaxItems)

EncodingInit ==
  \E count \in 1..MaxScalars :
    \E f \in [1..count -> DOMAIN Scalars] :
      /\ \A i, j \in 1..count : i < j => f[i] <= f[j]
      /\ heap = [i \in 1..count |-> Scalars[f[i]]]

Allocate(kind, items) ==
  /\ Len(heap) - Cardinality({n \in Nodes : ~ IsContainer(n)}) < MaxContainers
  /\ Holds(kind, items)
  /\ heap' = Append(heap, [kind |-> kind, items |-> items])

\* l.append(v), or d[k] = v for a new key.
AddItem(n, item) ==
  /\ heap[n].kind \in Mutable
  /\ Len(heap[n].items) < MaxItems
  /\ Holds(heap[n].kind, Append(heap[n].items, item))
  /\ heap' = [heap EXCEPT ![n].items = Append(@, item)]

EncodingNext ==
  \/ \E kind \in Containers : \E items \in Items(kind) : Allocate(kind, items)
  \/ \E n \in Nodes : IsContainer(n) /\ \E items \in Items(heap[n].kind) :
       Len(items) = 1 /\ AddItem(n, items[1])

EncodingSpec == EncodingInit /\ [][EncodingNext]_heap

-----------------------------------------------------------------------------
(* Reference definitions.                                                   *)

\* There is no end to following members from n: a set of nodes holds n and, with
\* every node of it, one of its members.
Cyclic(n) == \E C \in SUBSET Nodes : n \in C /\ \A m \in C : Members(m) \cap C # {}

Carries(n, S) == \E m \in Reachable(n) : ~ IsContainer(m) /\ heap[m].value \in S
OfKind(n, S) == \E m \in Reachable(n) : heap[m].kind \in S

\* Types and, of scalars, values, of containers, sizes.
Alike(l, r) ==
  /\ SameType(l, r)
  /\ IF IsContainer(l) THEN Len(heap[l].items) = Len(heap[r].items)
     ELSE ScalarsEqual(l, r) = "T"

\* The items of two containers are pairs of R, in order where order counts.
ItemsMatch(l, r, R) ==
  \E f \in Bijection(DOMAIN heap[l].items, DOMAIN heap[r].items) :
    /\ heap[l].kind \in Sequential => \A i \in DOMAIN f : f[i] = i
    /\ \A i \in DOMAIN f : \A k \in DOMAIN heap[l].items[i] :
         <<heap[l].items[i][k], heap[r].items[f[i]][k]>> \in R

\* Two values are the same tree: order counts in a sequence, not in a set or a
\* dict; types count everywhere.
SameTree(l, r) ==
  \E R \in SUBSET {p \in Nodes \X Nodes : Alike(p[1], p[2])} :
    /\ <<l, r>> \in R
    /\ \A p \in R : IsContainer(p[1]) => ItemsMatch(p[1], p[2], R)

\* A value has an encoding when it is a finite tree of admitted values: one
\* object in two places is no cycle, a list inside itself is, and nothing
\* unsupported is let through however deep it sits.  Two values that have one
\* share it exactly when they are the same tree: not for True and 1, nor for a
\* list and a tuple, and whatever order a set or a dict was filled in.
DigestIsStructure ==
  \A l \in Nodes :
    /\ Digest(l) = NotEncoded <=>
         Cyclic(l) \/ OfKind(l, {"bytes", "set"}) \/ Carries(l, {NaN, Inf})
    /\ \A r \in Nodes :
         Digest(l) # NotEncoded /\ Digest(r) # NotEncoded =>
           (Digest(l) = Digest(r) <=> SameTree(l, r))

\* Structural equality says the same of values that have no encoding, where it
\* pairs the items of sets and dicts greedily: trees are equal when they are
\* the same, and cycles are never found equal.
EqualityIsStructure ==
  \A l, r \in Nodes :
    CASE Equal(l, r) = "T" -> ~ Cyclic(l) /\ ~ Cyclic(r) /\ SameTree(l, r)
      [] Equal(l, r) = "F" -> Cyclic(l) \/ Cyclic(r) \/ ~ SameTree(l, r)
      [] Equal(l, r) = "R" -> Cyclic(l) /\ Cyclic(r)

=============================================================================
