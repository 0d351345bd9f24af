---------------------------- MODULE ContentTree -----------------------------
(***************************************************************************)
(* The content hierarchy of one collection: the rows of                    *)
(* _xecms_content_hierarchy_nodes, the closure table derived from them and *)
(* the structure version every command is conditional on.                  *)
(*                                                                         *)
(* A command runs in one transaction under an advisory lock: it loads the  *)
(* snapshot, applies a function of packages/core/src/hierarchy and stores  *)
(* the result, so a command is one step.  A refused command changes        *)
(* nothing and is no step.  A schema apply changes the depth limit or      *)
(* turns the hierarchy off and on.  A document may be created again after  *)
(* a purge, which stands for a document with a fresh id.                   *)
(***************************************************************************)
EXTENDS Naturals, FiniteSets, Functions, SequencesExt, TLC

CONSTANTS
    Docs,            \* document ids
    Root,            \* the parent of a root, null in the code
    Limits,          \* values of hierarchy.maxDepth a schema may have
    MaxTreeVersion   \* model bound: no command produces a higher version

ASSUME DocsAssumption == IsFiniteSet(Docs)
ASSUME RootAssumption == Root \notin Docs
ASSUME LimitsAssumption == Limits \subseteq Nat \ {0} /\ Limits # {}
ASSUME MaxTreeVersionAssumption == MaxTreeVersion \in Nat

VARIABLES
    documents,  \* the documents of the collection
    tree,       \* the position of every node
    closure,    \* rows of _xecms_content_hierarchy_closure
    version,    \* structure_version, 0 while there is no row
    enabled,    \* hierarchy.enabled in the active schema
    maxDepth    \* hierarchy.maxDepth in the active schema

treeVars == <<documents, tree, closure, version, enabled, maxDepth>>

-----------------------------------------------------------------------------
(* Snapshots: functions from the nodes to their positions. *)

EmptyTree == [d \in {} |-> d]
Places(t) == DOMAIN t \cup {Root}
Children(t, p) == {d \in DOMAIN t : t[d].parent = p}
DepthBelow(t, p) == IF p = Root THEN 0 ELSE t[p].depth + 1
InOrder(t, S) ==
    [n \in 1..Cardinality(S) |->
        CHOOSE d \in S : Cardinality({e \in S : t[e].sort < t[d].sort}) = n - 1]

\* A node and its descendants.
Subtree(t, d) ==
    LET Within[n \in 0..Cardinality(DOMAIN t)] ==
          IF n = 0 THEN {d}
          ELSE Within[n - 1] \cup {e \in DOMAIN t : t[e].parent \in Within[n - 1]}
    IN Within[Cardinality(DOMAIN t)]

\* assertContentHierarchyInvariants; depths that fit exclude cycles.
Valid(t) ==
    /\ \A d \in DOMAIN t : t[d].parent \in Places(t) /\ t[d].depth = DepthBelow(t, t[d].parent)
    /\ \A p \in Places(t) :
         {t[d].sort : d \in Children(t, p)} = 0..(Cardinality(Children(t, p)) - 1)

\* The parents' sort keys give the children of p the order s.
Reordered(t, p, s) ==
    [d \in DOMAIN t |->
        IF t[d].parent = p
        THEN [t[d] EXCEPT !.sort = (CHOOSE i \in DOMAIN s : s[i] = d) - 1]
        ELSE t[d]]

Normalized(t, p) == Reordered(t, p, InOrder(t, Children(t, p)))

Shifted(t, p, i) ==
    [d \in DOMAIN t |->
        IF t[d].parent = p /\ t[d].sort >= i THEN [t[d] EXCEPT !.sort = @ + 1] ELSE t[d]]

Added(t, d, p, i) ==
    LET rest == Shifted(t, p, i)
    IN [e \in DOMAIN t \cup {d} |->
            IF e = d THEN [parent |-> p, sort |-> i, depth |-> DepthBelow(t, p)] ELSE rest[e]]

\* Mutant of Moved: the gap the node leaves is not closed.
MovedLeavingAGap(t, d, p, i) ==
    LET subtree == Subtree(t, d)
        rest == Shifted(Restrict(t, DOMAIN t \ subtree), p, i)
        new == DepthBelow(t, p)
    IN [e \in DOMAIN t |-> IF e = d THEN [parent |-> p, sort |-> i, depth |-> new]
                           ELSE IF e \in subtree THEN [t[e] EXCEPT !.depth = (@ + new) - t[d].depth]
                           ELSE rest[e]]

Moved(t, d, p, i) ==
    LET subtree == Subtree(t, d)
        rest == Shifted(Normalized(Restrict(t, DOMAIN t \ subtree), t[d].parent), p, i)
        new == DepthBelow(t, p)
    IN [e \in DOMAIN t |-> IF e = d THEN [parent |-> p, sort |-> i, depth |-> new]
                           ELSE IF e \in subtree THEN [t[e] EXCEPT !.depth = (@ + new) - t[d].depth]
                           ELSE rest[e]]

\* Mutant of Removed: the children go to the end of the new siblings.
RemovedAppending(t, d) ==
    LET p == t[d].parent
        rest == Normalized(Restrict(t, DOMAIN t \ {d}), p)
        lifted == [e \in DOMAIN rest |->
                     IF rest[e].parent = d THEN [rest[e] EXCEPT !.parent = p, !.depth = t[d].depth]
                     ELSE IF e \in Subtree(t, d) THEN [rest[e] EXCEPT !.depth = @ - 1]
                     ELSE rest[e]]
    IN Reordered(lifted, p, InOrder(rest, Children(rest, p)) \o InOrder(t, Children(t, d)))

\* The children of a removed node take its place among its siblings.
Removed(t, d) ==
    LET p == t[d].parent
        rest == Normalized(Restrict(t, DOMAIN t \ {d}), p)
        lifted == [e \in DOMAIN rest |->
                     IF rest[e].parent = d THEN [rest[e] EXCEPT !.parent = p, !.depth = t[d].depth]
                     ELSE IF e \in Subtree(t, d) THEN [rest[e] EXCEPT !.depth = @ - 1]
                     ELSE rest[e]]
        before == {e \in Children(rest, p) : rest[e].sort < t[d].sort}
        after == Children(rest, p) \ before
    IN Reordered(lifted, p,
         InOrder(rest, before) \o InOrder(t, Children(t, d)) \o InOrder(rest, after))

CanAdd(t, d, p, i) ==
    /\ d \notin DOMAIN t /\ p \in Places(t)
    /\ i <= Cardinality(Children(t, p))

CanMove(t, d, p, i) ==
    /\ d \in DOMAIN t /\ p \in Places(t) \ Subtree(t, d)
    /\ i <= Cardinality(Children(t, p) \ {d})

Fits(t) == \A d \in DOMAIN t : t[d].depth <= maxDepth

\* Every pair of a node and one below it: the join of rebuildClosure.
ClosureOf(t) ==
    LET Paths[n \in 0..Cardinality(DOMAIN t)] ==
          IF n = 0 THEN {<<d, d, 0>> : d \in DOMAIN t}
          ELSE {<<step[1][1], step[2], n>> :
                  step \in {pd \in Paths[n - 1] \X DOMAIN t : t[pd[2]].parent = pd[1][2]}}
    IN UNION {Paths[n] : n \in DOMAIN Paths}

-----------------------------------------------------------------------------
(* Commands.  expected is the version the caller has seen. *)

\* loadSnapshot and nextState check, persistSnapshot writes.
Store(next) ==
    /\ enabled /\ Valid(tree)
    /\ Valid(next) /\ Fits(next)
    /\ tree' = next
    /\ closure' = ClosureOf(next)
    /\ version < MaxTreeVersion /\ version' = version + 1
    /\ UNCHANGED <<enabled, maxDepth>>

\* A document is created together with its place, or without one.
Create(expected, d, p, i) ==
    /\ d \notin documents
    /\ documents' = documents \cup {d}
    /\ \/ expected = version /\ CanAdd(tree, d, p, i) /\ Store(Added(tree, d, p, i))
       \/ ~enabled /\ UNCHANGED <<tree, closure, version, enabled, maxDepth>>

\* createContentDocument reads the roots under the lock when given no place.
CreateLast(d) == Create(version, d, Root, Cardinality(Children(tree, Root)))

\* A document from before the hierarchy was enabled gets a place.
AddNode(expected, d, p, i) ==
    /\ expected = version
    /\ d \in documents /\ CanAdd(tree, d, p, i)
    /\ Store(Added(tree, d, p, i))
    /\ UNCHANGED documents

\* Mutant of MoveNode: the version is read with the snapshot.
MoveNodeUnconditionally(expected, d, p, i) ==
    /\ CanMove(tree, d, p, i)
    /\ Store(Moved(tree, d, p, i))
    /\ UNCHANGED documents

MoveNode(expected, d, p, i) ==
    /\ expected = version
    /\ CanMove(tree, d, p, i)
    /\ Store(Moved(tree, d, p, i))
    /\ UNCHANGED documents

ReorderChildren(expected, p, s) ==
    /\ expected = version
    /\ p \in Places(tree)
    /\ Store(Reordered(tree, p, s))
    /\ UNCHANGED documents

RemoveNode(expected, d, promoteChildren) ==
    /\ expected = version
    /\ d \in DOMAIN tree
    /\ promoteChildren \/ Children(tree, d) = {}
    /\ Store(Removed(tree, d))
    /\ UNCHANGED documents

\* A purge is conditional on the document's version, not on the tree's.
Purge(d) ==
    /\ d \in documents
    /\ documents' = documents \ {d}
    /\ IF enabled /\ d \in DOMAIN tree THEN Store(Removed(tree, d))
       ELSE UNCHANGED <<tree, closure, version, enabled, maxDepth>>

-----------------------------------------------------------------------------
(* Schema applies. *)

Limit(n) == maxDepth' = n /\ UNCHANGED <<documents, tree, closure, version, enabled>>

Disable ==
    /\ enabled /\ enabled' = FALSE
    /\ tree' = EmptyTree /\ closure' = {} /\ version' = 0
    /\ UNCHANGED <<documents, maxDepth>>

Enable == ~enabled /\ enabled' = TRUE /\ UNCHANGED <<documents, tree, closure, version, maxDepth>>

-----------------------------------------------------------------------------
TreeInit ==
    /\ documents = {} /\ tree = EmptyTree /\ closure = {} /\ version = 0
    /\ enabled = TRUE /\ maxDepth \in Limits

\* What a caller that has seen the version expected may ask for.
Request(expected) ==
    \/ \E d \in Docs, p \in Places(tree), i \in 0..Cardinality(Docs) :
         \/ Create(expected, d, p, i) \/ AddNode(expected, d, p, i)
         \/ MoveNode(expected, d, p, i)
    \/ \E p \in Places(tree) : \E s \in SetToSeqs(Children(tree, p)) : ReorderChildren(expected, p, s)
    \/ \E d \in Docs, promoteChildren \in BOOLEAN : RemoveNode(expected, d, promoteChildren)

SchemaApply == Disable \/ Enable \/ \E n \in Limits : Limit(n)

TreeNext ==
    \/ \E expected \in 0..MaxTreeVersion : Request(expected)
    \/ \E d \in Docs : CreateLast(d) \/ Purge(d)
    \/ SchemaApply

TreeSpec == TreeInit /\ [][TreeNext]_treeVars

-----------------------------------------------------------------------------
(* Properties. *)

\* Every variable has its type, and only documents of the collection are nodes,
\* also after the hierarchy was turned off.
TreeTypeOK ==
    /\ documents \subseteq Docs
    /\ DOMAIN tree \subseteq documents
    /\ tree \in [DOMAIN tree -> [parent: Docs \cup {Root}, sort: Nat, depth: Nat]]
    /\ closure \subseteq Docs \X Docs \X Nat
    /\ version \in 0..MaxTreeVersion
    /\ enabled \in BOOLEAN /\ maxDepth \in Limits
    /\ ~enabled => DOMAIN tree = {} /\ closure = {}

\* The invariants a snapshot is checked for when it is loaded and before it is
\* stored are never what refuses a command: no sequence of adds, moves,
\* reorders and removals leaves a forest nobody can change any more.
NoInvariantViolation ==
    /\ Valid(tree)
    /\ \A d \in Docs, p \in Places(tree), i \in 0..Cardinality(Docs) :
         /\ CanAdd(tree, d, p, i) => Valid(Added(tree, d, p, i))
         /\ CanMove(tree, d, p, i) => Valid(Moved(tree, d, p, i))
    /\ \A d \in DOMAIN tree : Valid(Removed(tree, d))

\* The closure table, which ancestors are read from, agrees with the nodes: it
\* has a node's whole path to the root, and the distances the depths give.
ClosureIsTheTree ==
    /\ \A row \in closure : {row[1], row[2]} \subseteq DOMAIN tree
    /\ \A row \in closure : tree[row[1]].depth + row[3] = tree[row[2]].depth
    /\ \A d \in DOMAIN tree : Cardinality({row \in closure : row[2] = d}) = tree[d].depth + 1
    /\ \A row \in closure : row[3] > 0 => <<row[1], tree[row[2]].parent, row[3] - 1>> \in closure

\* The stored tree is one every command can work on, in both of its tables.
TreeIsWhole == TreeTypeOK /\ NoInvariantViolation /\ ClosureIsTheTree

\* The rows implement an ordered forest: sort keys and depths are an encoding
\* in which no command disturbs the order of the siblings it does not name.
Siblings(t) == [p \in Docs \cup {Root} |-> InOrder(t, Children(t, p))]
Forest == INSTANCE OrderedForest WITH children <- Siblings(tree)
ImplementsOrderedForest == Forest!Spec

\* "would create depth": a purge is refused for a depth only if it creates it.
PurgeCreatesRefusedDepths ==
    \A d \in DOMAIN tree : Fits(tree) \/ Fits(Removed(tree, d))
=============================================================================
