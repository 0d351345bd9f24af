--------------------------- MODULE ContentEditors ---------------------------
(***************************************************************************)
(* Editors that edit one content tree: each has read it at some version    *)
(* and states that version with what it asks for, while other clients,     *)
(* purges and schema applies change the tree.                              *)
(***************************************************************************)
EXTENDS ContentTree

CONSTANT Editors   \* who edits

VARIABLE seen  \* seen[c]: the version c has read last, and the trees it names:
               \* the one c has read, or none

Read(c) ==
    /\ enabled
    /\ seen' = [seen EXCEPT ![c] = [version |-> version, trees |-> {tree}]]
    /\ UNCHANGED treeVars

Edit(c) == Request(seen[c].version) /\ UNCHANGED seen

\* When the hierarchy is turned off versions start again: those that were read
\* name no tree any more, and may be stated all the same.
Others ==
    /\ (\E d \in Docs : CreateLast(d) \/ Purge(d)) \/ SchemaApply
    /\ seen' = IF enabled' THEN seen ELSE [c \in Editors |-> [seen[c] EXCEPT !.trees = {}]]

EditorsInit ==
    /\ TreeInit
    /\ seen = [c \in Editors |-> [version |-> 0, trees |-> {EmptyTree}]]
EditorsNext == (\E c \in Editors : Read(c) \/ Edit(c)) \/ Others
EditorsSpec == EditorsInit /\ [][EditorsNext]_<<treeVars, seen>>

\* A command changes the tree its client has read and no other: whoever moved,
\* reordered or purged in between makes it fail.
EditsWhatWasRead ==
    [][\A c \in Editors :
         tree' # tree /\ Edit(c) => seen[c].trees \subseteq {tree}]_<<treeVars, seen>>
=============================================================================
