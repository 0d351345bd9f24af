--------------------------- MODULE OrderedForest ----------------------------
(***************************************************************************)
(* What the content hierarchy of a collection promises: a forest whose     *)
(* children are in an order the editors chose.  ContentTree, which keeps   *)
(* it as rows with a parent, a sort key and a depth, implements it.        *)
(***************************************************************************)
EXTENDS Naturals, FiniteSets, SequencesExt

CONSTANTS
    Docs,  \* document ids
    Root   \* what the roots of the forest are below

VARIABLE children  \* children[p]: the documents directly below p, in order

Above(p) == {q \in Docs \cup {Root} : p \in ToSet(children[q])}
Nodes == UNION {ToSet(children[p]) : p \in Docs \cup {Root}}

\* What is d or below it, found level by level.
SubtreeOf(d) ==
    LET Within[n \in 0..Cardinality(Docs)] ==
          IF n = 0 THEN {d}
          ELSE Within[n - 1] \cup UNION {ToSet(children[e]) : e \in Within[n - 1]}
    IN Within[Cardinality(Docs)]

Inserted(f, d, p, i) == [f EXCEPT ![p] = InsertAt(@, i, d)]

Add(d) ==
    \E p \in Nodes \cup {Root} : \E i \in 1..(Len(children[p]) + 1) :
        children' = Inserted(children, d, p, i)

Without(q, j) == [children EXCEPT ![q] = RemoveAt(@, j)]

\* The children of d come along.
Move(d) ==
    \E q \in Above(d) : \E j \in DOMAIN children[q] :
        /\ children[q][j] = d
        /\ \E p \in (Nodes \ SubtreeOf(d)) \cup {Root} : \E i \in 1..(Len(Without(q, j)[p]) + 1) :
               children' = Inserted(Without(q, j), d, p, i)

Reorder(p) ==
    \E s \in SetToSeqs(ToSet(children[p])) : children' = [children EXCEPT ![p] = s]

\* The children of d take its place.
Promote(d) ==
    \E p \in Above(d) : \E i \in DOMAIN children[p] :
        /\ children[p][i] = d
        /\ children' = [children EXCEPT
             ![d] = <<>>,
             ![p] = SubSeq(@, 1, i - 1) \o children[d] \o SubSeq(@, i + 1, Len(@))]

Clear == children' = [p \in Docs \cup {Root} |-> <<>>]

Init == children = [p \in Docs \cup {Root} |-> <<>>]

Next ==
    \/ \E d \in Docs \ Nodes : Add(d)
    \/ \E d \in Nodes : Move(d) \/ Promote(d)
    \/ \E p \in Nodes \cup {Root} : Reorder(p)
    \/ Clear

Spec == Init /\ [][Next]_children
=============================================================================
