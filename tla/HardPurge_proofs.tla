-------------------------- MODULE HardPurge_proofs --------------------------
(***************************************************************************)
(* Proofs about the purge of documents (module HardPurge): data, relation  *)
(* rows and documents agree, and what a purge takes is what its plan was   *)
(* made from.                                                              *)
(*                                                                         *)
(* A plan is made outside any transaction, and edits run meanwhile, so the *)
(* plan alone says nothing of what is stored.  The invariant PurgeInv says *)
(* what the transaction adds: no two requests hold locks on a row which    *)
(* exclude each other (LocksExclude), an edit has locked its document and  *)
(* the references it is done with (EditOK), and a purge has locked the     *)
(* rows it is done with, for update; from the comparison on, what it       *)
(* compared is still so, since whoever would change it waits for those     *)
(* locks (ExecutionOK).  Of the walk it says where removals and rewrites   *)
(* come from (PlanOK): a removal is the named document or has a cascading  *)
(* relation, and a document is never both removed and rewritten.           *)
(***************************************************************************)
EXTENDS HardPurge, NaturalRecursion, FiniteSetTheorems, SequenceTheorems

\* No two rows are locked against each other.
LocksExclude ==
    \A a, b \in Actors : \A d \in Docs : \A m, n \in Modes :
        a # b /\ <<d, m>> \in locked[a] /\ <<d, n>> \in locked[b] => ~Conflicting(m, n)
LocksOK ==
    /\ locked \in [Actors -> SUBSET (Docs \X Modes)]
    /\ \A a \in Actors : \A d \in Docs, m \in Modes : <<d, m>> \in locked[a] => d \in Stored
    /\ LocksExclude

Rows == [version : Nat \ {0}, deleted : BOOLEAN, refs : SUBSET Docs]
RowOK(d, r) ==
    /\ r \in Rows
    /\ r.refs \in References(d)
RowsOK ==
    /\ Stored \subseteq Docs
    /\ \A d \in Stored : RowOK(d, documents[d])

\* A request has locked its own row and those of the references it is done with.
EditType == [doc : Docs, refs : SUBSET Docs, step : {"own", "targets"}, waiting : SUBSET Docs]
EditOK(c, q) ==
    /\ q \in EditType /\ q.refs \in References(q.doc)
    /\ <<q.doc, "noKeyUpdate">> \in locked[c]
    /\ \A t \in q.refs \ q.waiting : <<t, "keyShare">> \in locked[c]

Frames == [doc : Docs, version : Nat \ {0}, step : {"load", "incoming", "walk"},
           nullify : SUBSET [source : Docs, next : SUBSET Docs], cascade : SUBSET Docs]
\* What is nullified keeps part of its references, what is cascaded says so.
FrameOK(r, f) ==
    /\ f \in Frames
    /\ \A n \in f.nullify : n.next \subseteq MayReference[n.source]
    /\ \A s \in f.cascade : OnDelete[s] = "cascade"
    /\ f.doc = r \/ OnDelete[f.doc] = "cascade"

StackOK(r, S) == S \in Seq(Frames) /\ \A i \in DOMAIN S : FrameOK(r, S[i])

RewriteOK(s, w) == w \in [version : Nat, refs : SUBSET Docs] /\ w.refs \in References(s)

\* What is removed was asked for or is cascaded; what is rewritten is not removed.
PlanOK(p) ==
    /\ p = [step |-> p.step, root |-> p.root, stack |-> p.stack, removals |-> p.removals,
            pending |-> p.pending, completed |-> p.completed, todo |-> p.todo]
    /\ p.step \in {"plan", "lock", "share"} /\ p.root \in Docs
    /\ StackOK(p.root, p.stack)
    /\ p.step = "plan" => p.stack # << >>
    /\ DOMAIN p.removals \subseteq Docs /\ DOMAIN p.pending \subseteq Docs
    /\ p.completed \subseteq Docs /\ p.todo \subseteq Docs
    /\ DOMAIN p.pending \cap DOMAIN p.removals = {}
    /\ \A s \in DOMAIN p.pending : RewriteOK(s, p.pending[s])
    /\ \A d \in DOMAIN p.removals :
           p.removals[d] \in Nat /\ (d = p.root \/ OnDelete[d] = "cascade")

Planned(p) == DOMAIN p.removals \cup DOMAIN p.pending
Edged(p) == UNION {Edges(s, p.pending[s].refs) : s \in DOMAIN p.pending}

\* The root was in the trash at the version it was read at.
RootOK(p) ==
    p.root \in DOMAIN p.removals \cap Stored =>
        /\ p.removals[p.root] <= documents[p.root].version
        /\ p.removals[p.root] = documents[p.root].version => documents[p.root].deleted

\* The transaction has locked the rows it is done with; once they are compared
\* they stay as they were compared.
ExecutionOK(p) ==
    /\ p.step = "lock" => \A d \in (Planned(p) \cap Stored) \ p.todo : <<d, "update">> \in locked[Purger]
    /\ p.step = "share" =>
         /\ \A d \in Planned(p) : <<d, "update">> \in locked[Purger]
         /\ \A s \in DOMAIN p.pending : Live(s) /\ documents[s].version = p.pending[s].version
         /\ \A d \in DOMAIN p.removals : d \in Stored /\ documents[d].version = p.removals[d]
         /\ \A e \in relations : e[2] \in DOMAIN p.removals =>
                e[1] \in DOMAIN p.removals \/ (OnDelete[e[1]] = "nullify" /\ e[1] \in DOMAIN p.pending)
         /\ \A e \in Edged(p) : e[2] \notin p.todo => <<e[2], "keyShare">> \in locked[Purger]

PurgeOK == purge = IdlePurge \/ (PlanOK(purge) /\ RootOK(purge) /\ ExecutionOK(purge))

PurgeInv ==
    /\ RowsOK /\ EdgesMatchData /\ ReferencesExist /\ LocksOK
    /\ editor = [c \in Editors |-> editor[c]]
    /\ \A c \in Editors : editor[c] = NoEdit \/ EditOK(c, editor[c])
    /\ PurgeOK
-----------------------------------------------------------------------------
(* Row locks. *)

LEMMA LockIsOK ==
    ASSUME LocksOK, NEW a \in Actors, NEW d \in Docs, NEW m \in Modes, Lock(a, d, m),
           documents' = documents
    PROVE  /\ LocksOK'
           /\ \A b \in Actors \ {a} : locked'[b] = locked[b]
           /\ locked[a] \subseteq locked'[a]
           /\ d \in Stored => <<d, m>> \in locked'[a]
<1>1. CASE d \in Stored
    <2>1. locked' = [locked EXCEPT ![a] = @ \cup {<<d, m>>}]
        BY <1>1 DEF Lock
    <2>2. locked' \in [Actors -> SUBSET (Docs \X Modes)]
        BY <2>1 DEF LocksOK
    <2>3. /\ \A b \in Actors \ {a} : locked'[b] = locked[b]
          /\ locked'[a] = locked[a] \cup {<<d, m>>}
        BY <2>1 DEF LocksOK
    <2>4. \A b \in Actors : \A x \in Docs, n \in Modes : <<x, n>> \in locked'[b] => x \in Stored
        BY <1>1, <2>3 DEF LocksOK
    <2>5. LocksExclude'
        <3> SUFFICES ASSUME NEW b \in Actors, NEW c \in Actors, b # c, NEW x \in Docs,
                            NEW n \in Modes, NEW k \in Modes,
                            <<x, n>> \in locked'[b], <<x, k>> \in locked'[c]
                     PROVE  ~Conflicting(n, k)
            BY DEF LocksExclude
        <3>1. \A e \in Actors \ {a} : \A n1 \in Modes : <<d, n1>> \in locked[e] => ~Conflicting(m, n1)
            BY DEF Lock, Grantable, Holds, Conflicting
        <3>2. \A n1, n2 \in Modes : Conflicting(n1, n2) = Conflicting(n2, n1)
            BY DEF Conflicting
        <3>3. <<x, n>> \in locked[b] /\ <<x, k>> \in locked[c] => ~Conflicting(n, k)
            BY DEF LocksOK, LocksExclude
        <3>4. CASE b = a
            BY <2>3, <3>1, <3>3, <3>4
        <3>5. CASE c = a
            BY <2>3, <3>1, <3>2, <3>3, <3>5
        <3>6. CASE b # a /\ c # a
            BY <2>3, <3>3, <3>6
        <3> QED BY <3>4, <3>5, <3>6
    <2> QED BY <1>1, <2>2, <2>3, <2>4, <2>5 DEF LocksOK, Stored
<1>2. CASE d \notin Stored
    BY <1>2 DEF Lock, LocksOK, LocksExclude, Stored
<1> QED BY <1>1, <1>2

LEMMA ReleaseIsOK ==
    ASSUME LocksOK, NEW a \in Actors, Release(a), documents' = documents
    PROVE  LocksOK' /\ \A b \in Actors \ {a} : locked'[b] = locked[b]
<1>1. /\ locked' \in [Actors -> SUBSET (Docs \X Modes)] /\ locked'[a] = {}
      /\ \A b \in Actors \ {a} : locked'[b] = locked[b]
    BY DEF Release, LocksOK
<1> QED BY <1>1 DEF LocksOK, LocksExclude, Stored

\* What is locked by nobody else is not locked by the other one.
LEMMA LockedAgainst ==
    ASSUME LocksOK, NEW a \in Actors, NEW b \in Actors, a # b, NEW d \in Docs,
           NEW m \in Modes, <<d, m>> \in locked[a]
    PROVE  /\ <<d, "update">> \notin locked[b]
           /\ m = "noKeyUpdate" => <<d, "noKeyUpdate">> \notin locked[b]
BY DEF LocksOK, LocksExclude, Modes, Conflicting

-----------------------------------------------------------------------------
(* What a step leaves alone. *)

LEMMA PurgerIsActor ==
    /\ Purger \in Actors /\ Editors \subseteq Actors /\ Purger \notin Editors
    /\ Modes = {"keyShare", "noKeyUpdate", "update"}
BY PurgerAssumption DEF Actors, Modes

LEMMA SameRows ==
    ASSUME PurgeInv, UNCHANGED <<documents, relations>>
    PROVE  RowsOK' /\ EdgesMatchData' /\ ReferencesExist'
BY DEF PurgeInv, RowsOK, EdgesMatchData, ReferencesExist, Stored

\* The purge goes by the rows and by its own locks.
LEMMA PurgeStays ==
    ASSUME PurgeInv, UNCHANGED <<documents, relations, purge>>,
           locked'[Purger] = locked[Purger]
    PROVE  PurgeOK'
<1>1. PICK p : p = purge
    OBVIOUS
<1>2. CASE p = IdlePurge
    BY <1>1, <1>2 DEF PurgeOK
<1>3. CASE p # IdlePurge
    <2>1. PlanOK(p) /\ RootOK(p) /\ ExecutionOK(p)
        BY <1>1, <1>3 DEF PurgeInv, PurgeOK
    <2>2. RootOK(p)' /\ ExecutionOK(p)'
        BY <2>1 DEF RootOK, ExecutionOK, Stored, Live
    <2> QED BY <1>1, <2>1, <2>2 DEF PurgeOK
<1> QED BY <1>2, <1>3

LEMMA EditorMoves ==
    ASSUME PurgeInv, UNCHANGED <<documents, relations, purge>>, NEW c \in Editors, NEW q,
           editor' = [editor EXCEPT ![c] = q], q = NoEdit \/ EditOK(c, q)',
           LocksOK', \A b \in Actors \ {c} : locked'[b] = locked[b]
    PROVE  PurgeInv'
<1>1. locked'[Purger] = locked[Purger]
    BY PurgerIsActor
<1>2. RowsOK' /\ EdgesMatchData' /\ ReferencesExist'
    BY SameRows
<1>3. PurgeOK'
    BY <1>1, PurgeStays
<1>4. DOMAIN editor = Editors
    BY DEF PurgeInv
<1>5. editor' = [e \in Editors |-> editor'[e]] /\ editor'[c] = q
      /\ \A e \in Editors \ {c} : editor'[e] = editor[e]
    BY <1>4
<1>6. ASSUME NEW e \in Editors PROVE editor'[e] = NoEdit \/ EditOK(e, editor[e])'
    <2>1. CASE e = c
        BY <1>5, <2>1
    <2>2. CASE e # c
        <3>1. PICK r : r = editor[e]
            OBVIOUS
        <3>2. r = NoEdit \/ EditOK(e, r)
            BY <3>1 DEF PurgeInv
        <3>3. locked'[e] = locked[e]
            BY <2>2, PurgerIsActor
        <3>4. r = NoEdit \/ EditOK(e, r)'
            BY <3>2, <3>3 DEF EditOK
        <3> QED BY <1>5, <2>2, <3>1, <3>4
    <2> QED BY <2>1, <2>2
<1> QED BY <1>2, <1>3, <1>5, <1>6 DEF PurgeInv

LEMMA EditsStay ==
    ASSUME PurgeInv, editor' = editor, \A c \in Editors : locked'[c] = locked[c]
    PROVE  /\ editor' = [c \in Editors |-> editor'[c]]
           /\ \A c \in Editors : editor'[c] = NoEdit \/ EditOK(c, editor[c])'
BY DEF PurgeInv, EditOK

LEMMA PurgeMoves ==
    ASSUME PurgeInv, UNCHANGED <<documents, relations, editor>>, NEW z, purge' = z,
           z = IdlePurge \/ (PlanOK(z) /\ RootOK(z) /\ ExecutionOK(z)'),
           LocksOK', \A b \in Actors \ {Purger} : locked'[b] = locked[b]
    PROVE  PurgeInv'
<1>1. RowsOK' /\ EdgesMatchData' /\ ReferencesExist'
    BY SameRows
<1>2. \A c \in Editors : locked'[c] = locked[c]
    BY PurgerIsActor
<1>3. /\ editor' = [c \in Editors |-> editor'[c]]
      /\ \A c \in Editors : editor'[c] = NoEdit \/ EditOK(c, editor[c])'
    BY <1>2, EditsStay
<1>4. RootOK(z) => RootOK(z)'
    BY DEF RootOK, Stored
<1>5. PurgeOK'
    BY <1>4 DEF PurgeOK
<1> QED BY <1>1, <1>3, <1>5 DEF PurgeInv

\* A plan grows while nothing is locked for it.
LEMMA PlanMoves ==
    ASSUME PurgeInv, UNCHANGED <<documents, relations, editor, locked>>, NEW z, purge' = z,
           PlanOK(z), RootOK(z), ExecutionOK(z)
    PROVE  PurgeInv'
<1>1. LocksOK'
    BY DEF PurgeInv, LocksOK, LocksExclude, Stored
<1>2. ExecutionOK(z)'
    BY DEF ExecutionOK, Stored, Live
<1> QED BY <1>1, <1>2, PurgeMoves

LEMMA PurgeEnds ==
    ASSUME PurgeInv, UNCHANGED <<documents, relations, editor>>, purge' = IdlePurge, Release(Purger)
    PROVE  PurgeInv'
<1>1. LocksOK
    BY DEF PurgeInv
<1>2. LocksOK' /\ \A b \in Actors \ {Purger} : locked'[b] = locked[b]
    BY <1>1, ReleaseIsOK, PurgerIsActor
<1>3. PICK z : z = IdlePurge
    OBVIOUS
<1> QED BY <1>2, <1>3, PurgeMoves

-----------------------------------------------------------------------------
(* Editors. *)

LEMMA BeginEditInv ==
    ASSUME PurgeInv, NEW c \in Editors, NEW d \in Docs, NEW R \in SUBSET Docs, BeginEdit(c, d, R)
    PROVE  PurgeInv'
<1>z. PICK q : q = [doc |-> d, refs |-> R, step |-> "own", waiting |-> R]
    OBVIOUS
<1>1. /\ R \in References(d) /\ d \in Stored /\ Lock(c, d, "noKeyUpdate")
      /\ editor' = [editor EXCEPT ![c] = q] /\ UNCHANGED <<documents, relations, purge>>
    BY <1>z DEF BeginEdit, Live
<1>2. LocksOK /\ "noKeyUpdate" \in Modes /\ c \in Actors
    BY PurgerIsActor DEF PurgeInv
<1>3. LocksOK' /\ \A b \in Actors \ {c} : locked'[b] = locked[b]
    BY <1>1, <1>2, LockIsOK
<1>4. <<d, "noKeyUpdate">> \in locked'[c]
    BY <1>1, <1>2, LockIsOK
<1>5. q \in EditType /\ q.doc = d /\ q.refs = R /\ q.waiting = R
    BY <1>z DEF EditType
<1>6. EditOK(c, q)'
    BY <1>1, <1>4, <1>5 DEF EditOK
<1> QED BY <1>1, <1>3, <1>6, EditorMoves

LEMMA EditForm ==
    ASSUME PurgeInv, NEW c \in Editors, editor[c] # NoEdit
    PROVE  EditOK(c, editor[c])
BY DEF PurgeInv

LEMMA LockSourceInv ==
    ASSUME PurgeInv, NEW c \in Editors, LockSource(c)
    PROVE  PurgeInv'
<1>p. PICK p : p = editor[c]
    OBVIOUS
<1>0. EditOK(c, p)
    BY <1>p, EditForm DEF LockSource
<1>z. PICK q : q = [p EXCEPT !.step = "targets"]
    OBVIOUS
<1>1. /\ Lock(c, p.doc, "update") /\ editor' = [editor EXCEPT ![c] = q]
      /\ UNCHANGED <<documents, relations, purge>>
    BY <1>p, <1>z DEF LockSource
<1>2. LocksOK /\ "update" \in Modes /\ c \in Actors
    BY PurgerIsActor DEF PurgeInv
<1>3. q \in EditType /\ q.doc = p.doc /\ q.refs = p.refs /\ q.waiting = p.waiting /\ p.doc \in Docs
    BY <1>0, <1>z DEF EditOK, EditType
<1>4. LocksOK' /\ \A b \in Actors \ {c} : locked'[b] = locked[b]
    BY <1>1, <1>2, <1>3, LockIsOK
<1>5. locked[c] \subseteq locked'[c]
    BY <1>1, <1>2, <1>3, LockIsOK
<1>6. EditOK(c, q)'
    BY <1>0, <1>3, <1>5 DEF EditOK
<1> QED BY <1>1, <1>4, <1>6, EditorMoves

LEMMA EditorGoes ==
    ASSUME PurgeInv, NEW c \in Editors, Release(c), editor' = [editor EXCEPT ![c] = NoEdit],
           UNCHANGED <<documents, relations, purge>>
    PROVE  PurgeInv'
<1>1. LocksOK /\ c \in Actors
    BY PurgerIsActor DEF PurgeInv
<1>2. LocksOK' /\ \A b \in Actors \ {c} : locked'[b] = locked[b]
    BY <1>1, ReleaseIsOK
<1>3. PICK q : q = NoEdit
    OBVIOUS
<1> QED BY <1>2, <1>3, EditorMoves

LEMMA LockTargetInv ==
    ASSUME PurgeInv, NEW c \in Editors, LockTarget(c)
    PROVE  PurgeInv'
<1>p. PICK p : p = editor[c]
    OBVIOUS
<1>0. EditOK(c, p) /\ UNCHANGED <<documents, relations, purge>>
    BY <1>p, EditForm DEF LockTarget
<1>1. PICK t \in p.waiting :
        IF Live(t) THEN /\ Lock(c, t, "keyShare")
                        /\ editor' = [editor EXCEPT ![c].waiting = @ \ {t}]
        ELSE editor' = [editor EXCEPT ![c] = NoEdit] /\ Release(c)
    BY <1>p DEF LockTarget
<1>2. CASE Live(t)
    <2>z. PICK q : q = [p EXCEPT !.waiting = @ \ {t}]
        OBVIOUS
    <2>1. Lock(c, t, "keyShare") /\ editor' = [editor EXCEPT ![c] = q] /\ t \in Stored
        BY <1>1, <1>2, <1>p, <2>z DEF Live
    <2>2. LocksOK /\ "keyShare" \in Modes /\ c \in Actors
        BY PurgerIsActor DEF PurgeInv
    <2>3. /\ q \in EditType /\ q.doc = p.doc /\ q.refs = p.refs /\ q.waiting = p.waiting \ {t}
          /\ t \in Docs
        BY <1>0, <2>z DEF EditOK, EditType
    <2>4. LocksOK' /\ \A b \in Actors \ {c} : locked'[b] = locked[b]
        BY <1>0, <2>1, <2>2, <2>3, LockIsOK
    <2>5. locked[c] \subseteq locked'[c]
        BY <1>0, <2>1, <2>2, <2>3, LockIsOK
    <2>6. <<t, "keyShare">> \in locked'[c]
        BY <1>0, <2>1, <2>2, <2>3, LockIsOK
    <2>7. EditOK(c, q)'
        BY <1>0, <2>3, <2>5, <2>6 DEF EditOK
    <2> QED BY <1>0, <2>1, <2>4, <2>7, EditorMoves
<1>3. CASE ~Live(t)
    BY <1>0, <1>1, <1>3, EditorGoes
<1> QED BY <1>2, <1>3

-----------------------------------------------------------------------------
(* Rows that change. *)

\* The rows of E are the references of the documents D.
HasEdges(E, D) == \A e : e \in E <=> \E d \in DOMAIN D : \E t \in D[d].refs : e = <<d, t>>

LEMMA EdgesForm ==
    /\ EdgesMatchData <=> HasEdges(relations, documents)
    /\ EdgesMatchData' <=> HasEdges(relations', documents')
BY DEF EdgesMatchData, HasEdges, Edges, Stored

\* A document gets other references or goes to the trash; its version grows.
RowChanges(d, r) ==
    /\ d \in Stored /\ RowOK(d, r) /\ r.version = documents[d].version + 1
    /\ r.refs \subseteq Stored
    /\ documents' = [documents EXCEPT ![d] = r]
    /\ relations' = {e \in relations : e[1] # d} \cup Edges(d, r.refs)

LEMMA RowChangesRows ==
    ASSUME PurgeInv, NEW d, NEW r, RowChanges(d, r)
    PROVE  RowsOK' /\ EdgesMatchData' /\ ReferencesExist' /\ Stored' = Stored
<1>1. /\ DOMAIN documents' = DOMAIN documents /\ documents'[d] = r
      /\ \A e \in DOMAIN documents \ {d} : documents'[e] = documents[e]
      /\ d \in DOMAIN documents
    BY DEF RowChanges, Stored
<1>2. RowsOK'
    BY <1>1 DEF RowsOK, RowChanges, Stored, PurgeInv
<1>3. ReferencesExist'
    BY <1>1 DEF ReferencesExist, RowChanges, Stored, PurgeInv
<1>4. HasEdges(relations, documents)
    BY EdgesForm DEF PurgeInv
<1>5. HasEdges(relations', documents')
    <2>1. \A e : e \in relations' <=> (e \in relations /\ e[1] # d) \/ \E t \in r.refs : e = <<d, t>>
        BY DEF RowChanges, Edges
    <2> QED BY <1>1, <1>4, <2>1 DEF HasEdges
<1> QED BY <1>1, <1>2, <1>3, <1>5, EdgesForm DEF Stored

\* What the purge has compared is not what changes.
LEMMA RowChangesPurge ==
    ASSUME PurgeInv, NEW d, NEW r, RowChanges(d, r), purge' = purge,
           locked'[Purger] = locked[Purger], <<d, "update">> \notin locked[Purger],
           \A t \in r.refs : <<d, t>> \in relations \/ <<t, "update">> \notin locked[Purger]
    PROVE  PurgeOK'
<1>0. /\ DOMAIN documents' = DOMAIN documents /\ documents'[d] = r
      /\ \A e \in DOMAIN documents \ {d} : documents'[e] = documents[e]
      /\ d \in DOMAIN documents /\ r.version = documents[d].version + 1
      /\ documents[d].version \in Nat
    BY DEF RowChanges, Stored, PurgeInv, RowsOK, RowOK, Rows
<1>1. PICK p : p = purge
    OBVIOUS
<1>2. CASE p = IdlePurge
    BY <1>1, <1>2 DEF PurgeOK
<1>3. CASE p # IdlePurge
    <2>1. PlanOK(p) /\ RootOK(p) /\ ExecutionOK(p)
        BY <1>1, <1>3 DEF PurgeInv, PurgeOK
    <2>2. RootOK(p)'
        <3> SUFFICES ASSUME p.root \in DOMAIN p.removals \cap DOMAIN documents
                     PROVE  /\ p.removals[p.root] <= documents'[p.root].version
                            /\ p.removals[p.root] = documents'[p.root].version =>
                                 documents'[p.root].deleted
            BY <1>0 DEF RootOK, Stored
        <3>1. /\ p.removals[p.root] <= documents[p.root].version
              /\ p.removals[p.root] = documents[p.root].version => documents[p.root].deleted
            BY <2>1 DEF RootOK, Stored
        <3>2. p.removals[p.root] \in Nat
            BY <2>1 DEF PlanOK
        <3> QED BY <1>0, <3>1, <3>2
    <2>3. ExecutionOK(p)'
        <3>1. CASE p.step = "lock"
            BY <1>0, <2>1, <3>1 DEF ExecutionOK, Stored
        <3>2. CASE p.step = "share"
            <4>1. /\ \A x \in Planned(p) : <<x, "update">> \in locked[Purger]
                  /\ \A s \in DOMAIN p.pending :
                         Live(s) /\ documents[s].version = p.pending[s].version
                  /\ \A x \in DOMAIN p.removals :
                         x \in DOMAIN documents /\ documents[x].version = p.removals[x]
                  /\ \A e \in relations : e[2] \in DOMAIN p.removals =>
                         e[1] \in DOMAIN p.removals \/ (OnDelete[e[1]] = "nullify" /\ e[1] \in DOMAIN p.pending)
                  /\ \A e \in Edged(p) : e[2] \notin p.todo => <<e[2], "keyShare">> \in locked[Purger]
                BY <2>1, <3>2 DEF ExecutionOK, Stored
            <4>2. d \notin Planned(p)
                BY <4>1
            <4>3. \A s \in DOMAIN p.pending :
                    Live(s)' /\ documents'[s].version = p.pending[s].version
                BY <1>0, <4>1, <4>2 DEF Planned, Live, Stored
            <4>4. \A x \in DOMAIN p.removals :
                    x \in DOMAIN documents' /\ documents'[x].version = p.removals[x]
                BY <1>0, <4>1, <4>2 DEF Planned
            <4>5. ASSUME NEW e \in relations', e[2] \in DOMAIN p.removals
                  PROVE  e[1] \in DOMAIN p.removals \/ (OnDelete[e[1]] = "nullify" /\ e[1] \in DOMAIN p.pending)
                <5>1. e \in relations \/ \E t \in r.refs : e = <<d, t>>
                    BY DEF RowChanges, Edges
                <5>2. ASSUME NEW t \in r.refs, e = <<d, t>> PROVE e \in relations
                    BY <4>1, <4>5, <5>2 DEF Planned
                <5> QED BY <4>1, <4>5, <5>1, <5>2
            <4> QED BY <3>2, <4>1, <4>3, <4>4, <4>5 DEF ExecutionOK, Stored
        <3>3. CASE p.step \notin {"lock", "share"}
            BY <3>3 DEF ExecutionOK
        <3> QED BY <3>1, <3>2, <3>3
    <2> QED BY <1>1, <2>1, <2>2, <2>3 DEF PurgeOK
<1> QED BY <1>2, <1>3

LEMMA FinishEditInv ==
    ASSUME PurgeInv, NEW c \in Editors, FinishEdit(c)
    PROVE  PurgeInv'
<1>p. PICK p : p = editor[c]
    OBVIOUS
<1>0. EditOK(c, p) /\ p.waiting = {} /\ c \in Actors /\ c # Purger /\ Purger \in Actors /\ LocksOK
    BY <1>p, EditForm, PurgerIsActor DEF FinishEdit, PurgeInv
<1>1. /\ p.doc \in Docs /\ p.refs \subseteq Docs /\ p.refs \in References(p.doc)
      /\ <<p.doc, "noKeyUpdate">> \in locked[c] /\ \A t \in p.refs : <<t, "keyShare">> \in locked[c]
    BY <1>0 DEF EditOK, EditType
<1>2. p.doc \in Stored /\ p.refs \subseteq Stored
    BY <1>0, <1>1 DEF LocksOK, Modes
<1>w. PICK w : w = documents[p.doc]
    OBVIOUS
<1>r. PICK r : r = [w EXCEPT !.version = @ + 1, !.refs = p.refs]
    OBVIOUS
<1>d. w \in Rows /\ w.deleted \in BOOLEAN /\ p.refs \in SUBSET Docs
    BY <1>1, <1>2, <1>w DEF PurgeInv, RowsOK, RowOK, Rows
<1>v. PICK v : v = w.version + 1
    OBVIOUS
<1>f. v \in Nat \ {0} /\ r = [w EXCEPT !.version = v, !.refs = p.refs]
    BY <1>r, <1>d, <1>v DEF Rows
<1>3. /\ r \in Rows /\ r.refs = p.refs
      /\ r.version = documents[p.doc].version + 1
    BY <1>w, <1>v, <1>f, <1>d DEF Rows
<1>4. /\ documents' = [documents EXCEPT ![p.doc] = r] /\ relations' = Replaced(p.doc, p.refs)
      /\ editor' = [editor EXCEPT ![c] = NoEdit] /\ Release(c) /\ purge' = purge
    BY <1>p, <1>w, <1>r DEF FinishEdit
<1>5. RowChanges(p.doc, r)
    BY <1>1, <1>2, <1>3, <1>4 DEF RowChanges, RowOK, Replaced
<1>6. RowsOK' /\ EdgesMatchData' /\ ReferencesExist'
    BY <1>5, RowChangesRows
<1>7. Stored' = Stored
    BY <1>5, RowChangesRows
<1>8. /\ locked' \in [Actors -> SUBSET (Docs \X Modes)] /\ locked'[c] = {}
      /\ \A b \in Actors \ {c} : locked'[b] = locked[b]
    BY <1>0, <1>4 DEF Release, LocksOK
<1>9. LocksOK'
    BY <1>0, <1>7, <1>8 DEF LocksOK, LocksExclude
<1>10. /\ <<p.doc, "update">> \notin locked[Purger]
       /\ \A t \in p.refs : <<t, "update">> \notin locked[Purger]
    BY <1>0, <1>1, LockedAgainst, PurgerIsActor
<1>11. PurgeOK'
    BY <1>0, <1>3, <1>4, <1>5, <1>8, <1>10, RowChangesPurge
<1>12. editor' = [e \in Editors |-> editor'[e]] /\ editor'[c] = NoEdit
       /\ \A e \in Editors \ {c} : editor'[e] = editor[e]
    BY <1>4 DEF PurgeInv
<1>13. ASSUME NEW e \in Editors PROVE editor'[e] = NoEdit \/ EditOK(e, editor[e])'
    <2>1. CASE e = c
        BY <1>12, <2>1
    <2>2. CASE e # c
        <3>1. locked'[e] = locked[e] /\ editor'[e] = editor[e]
            BY <1>8, <1>12, <2>2, PurgerIsActor
        <3> QED BY <3>1 DEF PurgeInv, EditOK
    <2> QED BY <2>1, <2>2
<1> QED BY <1>6, <1>9, <1>11, <1>12, <1>13 DEF PurgeInv

LEMMA SetDeletedInv ==
    ASSUME PurgeInv, NEW d \in Docs, NEW b \in BOOLEAN, SetDeleted(d, b)
    PROVE  PurgeInv'
<1>w. PICK w : w = documents[d]
    OBVIOUS
<1>r. PICK r : r = [w EXCEPT !.version = @ + 1, !.deleted = b]
    OBVIOUS
<1>1. /\ d \in Stored /\ documents' = [documents EXCEPT ![d] = r]
      /\ UNCHANGED <<relations, editor, purge, locked>>
      /\ \A a \in Actors : ~Holds(a, d, "noKeyUpdate")
    BY <1>w, <1>r DEF SetDeleted
<1>d. /\ w \in Rows /\ w.refs \in SUBSET Docs
      /\ w.refs \in References(d) /\ w.refs \subseteq Stored
    BY <1>1, <1>w DEF PurgeInv, RowsOK, RowOK, ReferencesExist, Rows
<1>v. PICK v : v = w.version + 1
    OBVIOUS
<1>f. v \in Nat \ {0} /\ r = [w EXCEPT !.version = v, !.deleted = b]
    BY <1>r, <1>d, <1>v DEF Rows
<1>2. /\ r \in Rows
      /\ r.refs = documents[d].refs /\ r.version = documents[d].version + 1
    BY <1>w, <1>v, <1>f, <1>d DEF Rows
<1>3. /\ relations = {e \in relations : e[1] # d} \cup Edges(d, r.refs)
      /\ \A t \in r.refs : <<d, t>> \in relations
    <2>1. HasEdges(relations, documents)
        BY EdgesForm DEF PurgeInv
    <2>2. \A e : e \in relations /\ e[1] = d <=> \E t \in r.refs : e = <<d, t>>
        BY <1>1, <1>2, <2>1 DEF HasEdges, Stored
    <2> QED BY <2>2 DEF Edges
<1>4. RowChanges(d, r)
    BY <1>1, <1>2, <1>w, <1>d, <1>3 DEF RowChanges, RowOK
<1>5. RowsOK' /\ EdgesMatchData' /\ ReferencesExist'
    BY <1>4, RowChangesRows
<1>6. Stored' = Stored
    BY <1>4, RowChangesRows
<1>7. LocksOK'
    BY <1>1, <1>6 DEF PurgeInv, LocksOK, LocksExclude
<1>8. <<d, "update">> \notin locked[Purger]
    BY <1>1, PurgerIsActor DEF Holds, Conflicting
<1>9. PurgeOK'
    BY <1>1, <1>3, <1>4, <1>8, RowChangesPurge
<1>10. \A c \in Editors : locked'[c] = locked[c]
    BY <1>1
<1>11. /\ editor' = [c \in Editors |-> editor'[c]]
       /\ \A c \in Editors : editor'[c] = NoEdit \/ EditOK(c, editor[c])'
    BY <1>1, <1>10, EditsStay
<1> QED BY <1>5, <1>7, <1>9, <1>11 DEF PurgeInv

-----------------------------------------------------------------------------
(* Planning. *)

LEMMA TopChanges ==
    ASSUME NEW r, NEW S, StackOK(r, S), S # << >>, NEW g, FrameOK(r, g),
           NEW T, T = [S EXCEPT ![1] = g]
    PROVE  StackOK(r, T) /\ T # << >>
<1>1. S \in Seq(Frames) /\ g \in Frames /\ \A i \in DOMAIN S : FrameOK(r, S[i])
    BY DEF StackOK, FrameOK
<1>2. Len(S) \in Nat \ {0} /\ DOMAIN S = 1 .. Len(S)
    BY <1>1, EmptySeq, LenProperties
<1>3. /\ T \in Seq(Frames) /\ Len(T) = Len(S)
      /\ \A j \in 1 .. Len(S) : T[j] = IF j = 1 THEN g ELSE S[j]
    BY <1>1, <1>2, ExceptSeq
<1>4. DOMAIN T = 1 .. Len(S)
    BY <1>3, LenProperties
<1> QED BY <1>1, <1>2, <1>3, <1>4 DEF StackOK

LEMMA StackGrows ==
    ASSUME NEW r, NEW S, StackOK(r, S), NEW g, FrameOK(r, g), NEW T, T = <<g>> \o S
    PROVE  StackOK(r, T) /\ T # << >>
<1>1. S \in Seq(Frames) /\ <<g>> \in Seq(Frames) /\ \A i \in DOMAIN S : FrameOK(r, S[i])
    BY DEF StackOK, FrameOK
<1>2. Len(S) \in Nat /\ DOMAIN S = 1 .. Len(S) /\ Len(<<g>>) = 1 /\ <<g>>[1] = g
    BY <1>1, LenProperties
<1>3. /\ T \in Seq(Frames) /\ Len(T) = 1 + Len(S)
      /\ \A j \in 1 .. 1 + Len(S) : T[j] = IF j <= 1 THEN <<g>>[j] ELSE S[j - 1]
    BY <1>1, <1>2, ConcatProperties
<1>4. DOMAIN T = 1 .. 1 + Len(S)
    BY <1>3, LenProperties
<1>5. ASSUME NEW j \in DOMAIN T PROVE FrameOK(r, T[j])
    <2>1. CASE j = 1
        BY <1>2, <1>3, <1>4, <2>1
    <2>2. CASE j # 1
        <3>1. j - 1 \in 1 .. Len(S) /\ T[j] = S[j - 1]
            BY <1>2, <1>3, <1>4, <2>2
        <3> QED BY <1>1, <1>2, <3>1
    <2> QED BY <2>1, <2>2
<1>6. T # << >>
    BY <1>2, <1>3
<1> QED BY <1>3, <1>5, <1>6 DEF StackOK

LEMMA StackShrinks ==
    ASSUME NEW r, NEW S, StackOK(r, S), S # << >>, NEW T, T = Tail(S)
    PROVE  StackOK(r, T) /\ (Len(S) > 1 => T # << >>)
<1>1. S \in Seq(Frames) /\ \A i \in DOMAIN S : FrameOK(r, S[i])
    BY DEF StackOK
<1>2. Len(S) \in Nat \ {0} /\ DOMAIN S = 1 .. Len(S)
    BY <1>1, EmptySeq, LenProperties
<1>3. /\ T \in Seq(Frames) /\ Len(T) = Len(S) - 1
      /\ \A j \in 1 .. Len(T) : T[j] = S[j + 1]
    BY <1>1, HeadTailProperties
<1>4. DOMAIN T = 1 .. Len(T)
    BY <1>3, LenProperties
<1>5. ASSUME NEW j \in DOMAIN T PROVE FrameOK(r, T[j])
    <2>1. j + 1 \in DOMAIN S
        BY <1>2, <1>3, <1>4
    <2> QED BY <1>1, <1>3, <1>4, <2>1
<1>6. Len(S) > 1 => T # << >>
    <2>1. Len(S) > 1 => Len(T) # 0
        <3>1. PICK n \in Nat : n = Len(S)
            BY <1>2
        <3>2. Len(T) = n - 1
            BY <1>3, <3>1
        <3> QED BY <3>1, <3>2
    <2>2. Len(<< >>) = 0
        OBVIOUS
    <2> QED BY <2>1, <2>2, Zenon
<1> QED BY <1>3, <1>5, <1>6 DEF StackOK

LEMMA TopIsOK ==
    ASSUME NEW p, PlanOK(p), p.step = "plan"
    PROVE  FrameOK(p.root, p.stack[1])
<1>1. p.stack \in Seq(Frames) /\ p.stack # << >>
      /\ \A i \in DOMAIN p.stack : FrameOK(p.root, p.stack[i])
    BY DEF PlanOK, StackOK
<1>2. 1 \in DOMAIN p.stack
    BY <1>1, EmptySeq, LenProperties
<1> QED BY <1>1, <1>2

LEMMA PlanForm ==
    ASSUME PurgeInv, purge # IdlePurge
    PROVE  PlanOK(purge) /\ RootOK(purge) /\ ExecutionOK(purge)
BY DEF PurgeInv, PurgeOK

LEMMA LeastIsThere ==
    ASSUME NEW S, S \subseteq Docs, S # {}
    PROVE  Least(S) \in S
<1>1. S \in SUBSET Nat
    BY ConstantsAssumption
<1>2. \E n \in S : \A m \in S : n <= m
    BY <1>1, LeastElement
<1> QED BY <1>2 DEF Least

LEMMA NoneIsReference ==
    ASSUME NEW s \in Docs
    PROVE  {} \in References(s)
<1>1. Cardinality({}) = 0
    BY FS_EmptySet
<1>2. Cardinality({}) <= 1
    BY <1>1
<1> QED BY <1>2 DEF References

LEMMA StartPurgeInv ==
    ASSUME PurgeInv, NEW d \in Docs, StartPurge(d)
    PROVE  PurgeInv'
<1>w. PICK w : w = documents[d]
    OBVIOUS
<1>f. PICK f : f = Frame(d, w.version)
    OBVIOUS
<1>z. PICK z : z = [step |-> "plan", root |-> d, stack |-> <<f>>, removals |-> << >>,
                    pending |-> << >>, completed |-> {}, todo |-> {}]
    OBVIOUS
<1>1. purge' = z /\ d \in Stored /\ UNCHANGED <<documents, relations, editor, locked>>
    BY <1>w, <1>f, <1>z DEF StartPurge
<1>2. w.version \in Nat \ {0}
    BY <1>1, <1>w DEF PurgeInv, RowsOK, RowOK, Rows
<1>3. f \in Frames /\ f.doc = d /\ f.nullify = {} /\ f.cascade = {}
    BY <1>2, <1>f DEF Frame, Frames
<1>4. FrameOK(d, f)
    BY <1>3 DEF FrameOK
<1>5. StackOK(d, <<f>>) /\ <<f>> # << >>
    <2>1. <<f>> \in Seq(Frames) /\ DOMAIN <<f>> = {1} /\ <<f>>[1] = f /\ <<f>> # << >>
        BY <1>3
    <2> QED BY <1>4, <2>1 DEF StackOK
<1>6. DOMAIN << >> = {}
    OBVIOUS
<1>7. PlanOK(z)
    BY <1>5, <1>6, <1>z DEF PlanOK
<1>8. RootOK(z) /\ ExecutionOK(z)
    BY <1>6, <1>z DEF RootOK, ExecutionOK
<1> QED BY <1>1, <1>7, <1>8, PlanMoves

\* A document that is to be removed is no longer one to be rewritten.
LEMMA LoadRemovalInv ==
    ASSUME PurgeInv, LoadRemoval
    PROVE  PurgeInv'
<1>p. PICK p : p = purge
    OBVIOUS
<1>f. PICK f : f = p.stack[1]
    OBVIOUS
<1>0. p.step = "plan" /\ UNCHANGED <<documents, relations, editor>>
    BY <1>p DEF LoadRemoval, Planning
<1>1. PlanOK(p) /\ RootOK(p) /\ FrameOK(p.root, f)
    BY <1>p, <1>f, <1>0, PlanForm, TopIsOK DEF IdlePurge
<1>2. CASE Refuse
    BY <1>0, <1>2, PurgeEnds DEF Refuse
<1>3. CASE ~Refuse
    <2>1. PICK R : R = [r \in DOMAIN p.removals \cup {f.doc} |->
                          IF r = f.doc THEN f.version ELSE p.removals[r]]
        OBVIOUS
    <2>2. PICK P : P = [s \in DOMAIN p.pending \ {f.doc} |-> p.pending[s]]
        OBVIOUS
    <2>3. PICK g : g = [f EXCEPT !.step = "incoming"]
        OBVIOUS
    <2>4. PICK S : S = [p.stack EXCEPT ![1] = g]
        OBVIOUS
    <2>5. PICK z : z = [p EXCEPT !.stack = S, !.removals = R, !.pending = P]
        OBVIOUS
    <2>6. /\ purge' = z /\ locked' = locked
          /\ f.doc \in Stored /\ documents[f.doc].version = f.version
          /\ f.doc = p.root => documents[f.doc].deleted
        BY <1>3, <1>p, <1>f, <2>1, <2>2, <2>3, <2>4, <2>5
        DEF LoadRemoval, Removals, Pending, Top, Planning
    <2>7. g \in Frames /\ g.doc = f.doc /\ g.nullify = f.nullify /\ g.cascade = f.cascade
        BY <1>1, <2>3 DEF FrameOK, Frames
    <2>8. FrameOK(p.root, g)
        BY <1>1, <2>7 DEF FrameOK
    <2>9. StackOK(p.root, p.stack) /\ p.stack # << >>
        BY <1>0, <1>1 DEF PlanOK
    <2>10. StackOK(p.root, S) /\ S # << >>
        BY <2>4, <2>8, <2>9, TopChanges
    <2>11. /\ z = [step |-> "plan", root |-> p.root, stack |-> S, removals |-> R, pending |-> P,
                   completed |-> p.completed, todo |-> p.todo]
        BY <1>0, <1>1, <2>5 DEF PlanOK
    <2>12. /\ f.doc \in Docs /\ f.version \in Nat
           /\ f.doc = p.root \/ OnDelete[f.doc] = "cascade"
        BY <1>1 DEF FrameOK, Frames
    <2>13. PlanOK(z)
        BY <1>1, <2>1, <2>2, <2>10, <2>11, <2>12 DEF PlanOK
    <2>14. RootOK(z)
        BY <1>1, <2>1, <2>6, <2>11, <2>12 DEF RootOK
    <2>15. ExecutionOK(z)
        BY <2>11 DEF ExecutionOK
    <2> QED BY <1>0, <2>6, <2>13, <2>14, <2>15, PlanMoves
<1> QED BY <1>2, <1>3

LEMMA ListIncomingInv ==
    ASSUME PurgeInv, ListIncoming
    PROVE  PurgeInv'
<1>p. PICK p : p = purge
    OBVIOUS
<1>f. PICK f : f = p.stack[1]
    OBVIOUS
<1>0. p.step = "plan" /\ UNCHANGED <<documents, relations, editor>>
    BY <1>p DEF ListIncoming, Planning
<1>1. PlanOK(p) /\ RootOK(p) /\ FrameOK(p.root, f)
    BY <1>p, <1>f, <1>0, PlanForm, TopIsOK DEF IdlePurge
<1>2. CASE Refuse
    BY <1>0, <1>2, PurgeEnds DEF Refuse
<1>3. CASE ~Refuse
    <2>1. PICK N : N = {[source |-> s, next |-> documents[s].refs \ {f.doc}] :
                          s \in {t \in Stored : <<t, f.doc>> \in relations /\ OnDelete[t] = "nullify"}}
        OBVIOUS
    <2>2. PICK C : C = {t \in Stored : <<t, f.doc>> \in relations /\ OnDelete[t] = "cascade"}
        OBVIOUS
    <2>3. PICK g : g = [f EXCEPT !.step = "walk", !.nullify = N, !.cascade = C]
        OBVIOUS
    <2>4. PICK S : S = [p.stack EXCEPT ![1] = g]
        OBVIOUS
    <2>5. PICK z : z = [p EXCEPT !.stack = S]
        OBVIOUS
    <2>6. purge' = z /\ locked' = locked
        BY <1>3, <1>p, <1>f, <2>1, <2>2, <2>3, <2>4, <2>5 DEF ListIncoming, Top, Planning
    <2>7. /\ N \subseteq [source : Docs, next : SUBSET Docs] /\ C \subseteq Docs
          /\ \A n \in N : n.next \subseteq MayReference[n.source]
        <3>1. \A s \in Stored : s \in Docs /\ documents[s].refs \subseteq MayReference[s]
                                /\ documents[s].refs \subseteq Docs
            BY DEF PurgeInv, RowsOK, RowOK, Rows, References
        <3>2. ASSUME NEW n \in N
              PROVE  n \in [source : Docs, next : SUBSET Docs] /\ n.next \subseteq MayReference[n.source]
            <4>1. PICK s \in Stored : n = [source |-> s, next |-> documents[s].refs \ {f.doc}]
                BY <2>1
            <4>2. documents[s].refs \ {f.doc} \in SUBSET Docs
                BY <3>1
            <4> QED BY <3>1, <4>1, <4>2
        <3>3. C \subseteq Docs
            BY <2>2, <3>1
        <3> QED BY <3>2, <3>3
    <2>8. g \in Frames /\ g.doc = f.doc /\ g.nullify = N /\ g.cascade = C
        BY <1>1, <2>3, <2>7 DEF FrameOK, Frames
    <2>9. FrameOK(p.root, g)
        BY <1>1, <2>2, <2>7, <2>8 DEF FrameOK
    <2>10. StackOK(p.root, p.stack) /\ p.stack # << >>
        BY <1>0, <1>1 DEF PlanOK
    <2>11. StackOK(p.root, S) /\ S # << >>
        BY <2>4, <2>9, <2>10, TopChanges
    <2>12. z = [step |-> "plan", root |-> p.root, stack |-> S, removals |-> p.removals,
                pending |-> p.pending, completed |-> p.completed, todo |-> p.todo]
        BY <1>0, <1>1, <2>5 DEF PlanOK
    <2>13. PlanOK(z) /\ RootOK(z) /\ ExecutionOK(z)
        BY <1>1, <2>11, <2>12 DEF PlanOK, RootOK, ExecutionOK
    <2> QED BY <1>0, <2>6, <2>13, PlanMoves
<1> QED BY <1>2, <1>3

\* What is left of the references of a source is what it may have.
LEMMA NullifiedIsOK ==
    ASSUME NEW s \in Docs, NEW R, R \subseteq MayReference[s],
           NEW N, N \subseteq MayReference[s], NEW Q \in Nullified(s, R, N)
    PROVE  Q \in References(s) /\ Q \subseteq Docs
<1>1. MayReference[s] \subseteq Docs
    BY ConstantsAssumption
<1>2. {} \in References(s)
    BY NoneIsReference
<1>3. CASE s \in Multiple
    BY <1>1, <1>3 DEF Nullified, References
<1>4. CASE s \notin Multiple
    BY <1>1, <1>2, <1>4 DEF Nullified
<1> QED BY <1>3, <1>4

LEMMA NullifySourceInv ==
    ASSUME PurgeInv, NullifySource
    PROVE  PurgeInv'
<1>p. PICK p : p = purge
    OBVIOUS
<1>f. PICK f : f = p.stack[1]
    OBVIOUS
<1>0. p.step = "plan" /\ UNCHANGED <<documents, relations, editor>>
    BY <1>p DEF NullifySource, Planning
<1>1. PlanOK(p) /\ RootOK(p) /\ FrameOK(p.root, f)
    BY <1>p, <1>f, <1>0, PlanForm, TopIsOK DEF IdlePurge
<1>2. CASE Refuse
    BY <1>0, <1>2, PurgeEnds DEF Refuse
<1>3. CASE ~Refuse
    <2>1. PICK n \in Top.nullify :
             IF n.source \notin Removals /\ n.source \notin Pending /\ ~Live(n.source)
             THEN Refuse
             ELSE /\ \E Q \in Nullified(n.source, Source(n.source).refs, n.next) :
                      purge' = [purge EXCEPT
                          !.stack[1].nullify = @ \ {n},
                          !.pending = IF n.source \in Removals THEN @
                                      ELSE [s \in Pending \cup {n.source} |->
                                        IF s = n.source THEN [Source(n.source) EXCEPT !.refs = Q]
                                        ELSE @[s]]]
                  /\ locked' = locked
        BY DEF NullifySource
    <2>2. n \in f.nullify
        BY <1>p, <1>f DEF Top
    <2>3. n.source \in Docs /\ n.next \subseteq MayReference[n.source]
        BY <1>1, <2>2 DEF FrameOK, Frames
    <2>4. PICK w : w = Source(n.source)
        OBVIOUS
    <2>5. PICK Q \in Nullified(n.source, w.refs, n.next) :
             /\ purge' = [purge EXCEPT
                            !.stack[1].nullify = @ \ {n},
                            !.pending = IF n.source \in Removals THEN @
                                        ELSE [s \in Pending \cup {n.source} |->
                                               IF s = n.source THEN [Source(n.source) EXCEPT !.refs = Q]
                                               ELSE @[s]]]
             /\ locked' = locked
             /\ n.source \in DOMAIN p.removals \/ n.source \in DOMAIN p.pending \/ Live(n.source)
        BY <1>3, <1>p, <2>1, <2>4 DEF Pending, Removals
    <2>6. PICK P : P = IF n.source \in Removals THEN purge.pending
                       ELSE [s \in Pending \cup {n.source} |->
                               IF s = n.source THEN [Source(n.source) EXCEPT !.refs = Q]
                               ELSE purge.pending[s]]
        OBVIOUS
    <2>7. PICK g : g = [f EXCEPT !.nullify = @ \ {n}]
        OBVIOUS
    <2>8. PICK S : S = [p.stack EXCEPT ![1] = g]
        OBVIOUS
    <2>9. PICK z : z = [p EXCEPT !.stack = S, !.pending = P]
        OBVIOUS
    <2>10. purge' = z
        <3>1. purge' = [purge EXCEPT !.stack[1].nullify = @ \ {n}, !.pending = P]
            BY <2>5, <2>6
        <3> QED BY <1>p, <1>f, <2>7, <2>8, <2>9, <3>1
    <2>11. /\ g \in Frames /\ g.doc = f.doc /\ g.nullify = f.nullify \ {n} /\ g.cascade = f.cascade
        BY <1>1, <2>7 DEF FrameOK, Frames
    <2>12. FrameOK(p.root, g)
        BY <1>1, <2>11 DEF FrameOK
    <2>13. StackOK(p.root, p.stack) /\ p.stack # << >>
        BY <1>0, <1>1 DEF PlanOK
    <2>14. StackOK(p.root, S) /\ S # << >>
        BY <2>8, <2>12, <2>13, TopChanges
    <2>15. z = [step |-> "plan", root |-> p.root, stack |-> S, removals |-> p.removals,
                pending |-> P, completed |-> p.completed, todo |-> p.todo]
        BY <1>0, <1>1, <2>9 DEF PlanOK
    <2>16. /\ DOMAIN P \subseteq Docs /\ DOMAIN P \cap DOMAIN p.removals = {}
           /\ \A s \in DOMAIN P : RewriteOK(s, P[s])
        <3>1. CASE n.source \in DOMAIN p.removals
            BY <1>1, <1>p, <2>6, <3>1 DEF PlanOK, Removals
        <3>2. CASE n.source \notin DOMAIN p.removals
            <4>1. w \in [version : Nat, refs : SUBSET Docs] /\ w.refs \subseteq MayReference[n.source]
                <5>1. CASE n.source \in DOMAIN p.pending
                    BY <1>1, <1>p, <2>4, <5>1 DEF PlanOK, RewriteOK, References, Pending, Source
                <5>2. CASE n.source \notin DOMAIN p.pending
                    <6>1. n.source \in Stored
                        BY <2>5, <3>2, <5>2 DEF Live
                    <6>2. RowOK(n.source, documents[n.source])
                        BY <6>1 DEF PurgeInv, RowsOK
                    <6> QED BY <1>p, <2>4, <5>2, <6>2 DEF RowOK, Rows, References, Pending, Source
                <5> QED BY <5>1, <5>2
            <4>2. Q \in References(n.source) /\ Q \subseteq Docs
                BY <2>3, <2>5, <4>1, NullifiedIsOK
            <4>3. PICK v : v = [w EXCEPT !.refs = Q]
                OBVIOUS
            <4>4. v \in [version : Nat, refs : SUBSET Docs] /\ v.refs = Q
                BY <4>1, <4>2, <4>3
            <4>5. RewriteOK(n.source, v)
                BY <4>2, <4>4 DEF RewriteOK
            <4>6. P = [s \in DOMAIN p.pending \cup {n.source} |->
                               IF s = n.source THEN v ELSE p.pending[s]]
                BY <1>p, <2>4, <2>6, <3>2, <4>3 DEF Pending, Removals
            <4>7. /\ DOMAIN p.pending \subseteq Docs /\ DOMAIN p.pending \cap DOMAIN p.removals = {}
                  /\ \A s \in DOMAIN p.pending : RewriteOK(s, p.pending[s])
                BY <1>1 DEF PlanOK
            <4> QED BY <2>3, <3>2, <4>5, <4>6, <4>7
        <3> QED BY <3>1, <3>2
    <2>17. PlanOK(z)
        BY <1>1, <2>14, <2>15, <2>16 DEF PlanOK
    <2>18. RootOK(z) /\ ExecutionOK(z)
        BY <1>1, <2>15 DEF RootOK, ExecutionOK
    <2> QED BY <1>0, <2>5, <2>10, <2>17, <2>18, PlanMoves
<1> QED BY <1>2, <1>3

LEMMA CascadeSourceInv ==
    ASSUME PurgeInv, CascadeSource
    PROVE  PurgeInv'
<1>p. PICK p : p = purge
    OBVIOUS
<1>f. PICK f : f = p.stack[1]
    OBVIOUS
<1>0. p.step = "plan" /\ f.cascade # {} /\ UNCHANGED <<documents, relations, editor>>
    BY <1>p, <1>f DEF CascadeSource, Planning, Top
<1>1. PlanOK(p) /\ RootOK(p) /\ FrameOK(p.root, f)
    BY <1>p, <1>f, <1>0, PlanForm, TopIsOK DEF IdlePurge
<1>2. CASE Refuse
    BY <1>0, <1>2, PurgeEnds DEF Refuse
<1>3. CASE ~Refuse
    <2>1. PICK s : s = Least(f.cascade)
        OBVIOUS
    <2>2. s \in f.cascade
        BY <1>0, <1>1, <2>1, LeastIsThere DEF FrameOK, Frames
    <2>3. s \in Docs /\ OnDelete[s] = "cascade"
        BY <1>1, <2>2 DEF FrameOK, Frames
    <2>4. PICK g : g = [f EXCEPT !.cascade = @ \ {s}]
        OBVIOUS
    <2>5. PICK S : S = [p.stack EXCEPT ![1] = g]
        OBVIOUS
    <2>6. PICK y : y = [p EXCEPT !.stack = S]
        OBVIOUS
    <2>7. PICK h : h = Frame(s, documents[s].version)
        OBVIOUS
    <2>8. PICK T : T = <<h>> \o S
        OBVIOUS
    <2>a. y.stack = S
        BY <1>1, <2>6 DEF PlanOK
    <2>9. /\ locked' = locked
          /\ purge' = y \/ (s \in Stored /\ purge' = [y EXCEPT !.stack = T])
        <3>1. y = [p EXCEPT !.stack[1].cascade = @ \ {s}]
            BY <1>f, <2>4, <2>5, <2>6
        <3> QED BY <1>3, <1>p, <1>f, <2>1, <2>a, <2>7, <2>8, <3>1 DEF CascadeSource, Top
    <2>10. g \in Frames /\ g.doc = f.doc /\ g.nullify = f.nullify /\ g.cascade = f.cascade \ {s}
        BY <1>1, <2>4 DEF FrameOK, Frames
    <2>11. FrameOK(p.root, g)
        BY <1>1, <2>10 DEF FrameOK
    <2>12. StackOK(p.root, p.stack) /\ p.stack # << >>
        BY <1>0, <1>1 DEF PlanOK
    <2>13. StackOK(p.root, S) /\ S # << >>
        BY <2>5, <2>11, <2>12, TopChanges
    <2>14. y = [step |-> "plan", root |-> p.root, stack |-> S, removals |-> p.removals,
                pending |-> p.pending, completed |-> p.completed, todo |-> p.todo]
        BY <1>0, <1>1, <2>6 DEF PlanOK
    <2>15. PlanOK(y) /\ RootOK(y) /\ ExecutionOK(y)
        BY <1>1, <2>13, <2>14 DEF PlanOK, RootOK, ExecutionOK
    <2>16. CASE purge' = y
        BY <1>0, <2>9, <2>15, <2>16, PlanMoves
    <2>17. CASE s \in Stored /\ purge' = [y EXCEPT !.stack = T]
        <3>1. h \in Frames /\ h.doc = s /\ h.nullify = {} /\ h.cascade = {}
            <4>1. documents[s].version \in Nat \ {0}
                BY <2>17 DEF PurgeInv, RowsOK, RowOK, Rows
            <4> QED BY <2>3, <2>7, <4>1 DEF Frame, Frames
        <3>2. FrameOK(p.root, h)
            BY <2>3, <3>1 DEF FrameOK
        <3>3. StackOK(p.root, T) /\ T # << >>
            BY <2>8, <2>13, <3>2, StackGrows
        <3>4. PICK z : z = [y EXCEPT !.stack = T]
            OBVIOUS
        <3>5. z = [step |-> "plan", root |-> p.root, stack |-> T, removals |-> p.removals,
                   pending |-> p.pending, completed |-> p.completed, todo |-> p.todo]
            BY <2>14, <3>4
        <3>6. PlanOK(z) /\ RootOK(z) /\ ExecutionOK(z)
            BY <1>1, <3>3, <3>5 DEF PlanOK, RootOK, ExecutionOK
        <3> QED BY <1>0, <2>9, <2>17, <3>4, <3>6, PlanMoves
    <2> QED BY <2>9, <2>16, <2>17
<1> QED BY <1>2, <1>3

LEMMA ReturnFromCallInv ==
    ASSUME PurgeInv, ReturnFromCall
    PROVE  PurgeInv'
<1>p. PICK p : p = purge
    OBVIOUS
<1>f. PICK f : f = p.stack[1]
    OBVIOUS
<1>0. p.step = "plan" /\ UNCHANGED <<documents, relations, editor, locked>>
    BY <1>p DEF ReturnFromCall, Planning
<1>1. PlanOK(p) /\ RootOK(p) /\ FrameOK(p.root, f)
    BY <1>p, <1>f, <1>0, PlanForm, TopIsOK DEF IdlePurge
<1>2. PICK S : S = Tail(p.stack)
    OBVIOUS
<1>3. PICK C : C = p.completed \cup {f.doc}
    OBVIOUS
<1>4. StackOK(p.root, p.stack) /\ p.stack # << >>
    BY <1>0, <1>1 DEF PlanOK
<1>5. StackOK(p.root, S) /\ (Len(p.stack) > 1 => S # << >>)
    BY <1>2, <1>4, StackShrinks
<1>6. C \subseteq Docs
    BY <1>1, <1>3 DEF PlanOK, FrameOK, Frames
<1>7. PICK z : z = IF Len(p.stack) > 1 THEN [p EXCEPT !.stack = S, !.completed = C]
                   ELSE [p EXCEPT !.stack = S, !.completed = C, !.step = "lock", !.todo = Planned(p)]
    OBVIOUS
<1>8. purge' = z
    <2>1. PICK y : y = [p EXCEPT !.stack = S, !.completed = C]
        OBVIOUS
    <2>2. purge' = IF Len(p.stack) > 1 THEN y
                   ELSE [y EXCEPT !.step = "lock", !.todo = Planned(p)]
        BY <1>p, <1>f, <1>2, <1>3, <2>1 DEF ReturnFromCall, Top, Removals, Pending, Planned
    <2> QED BY <1>7, <2>1, <2>2
<1>9. CASE Len(p.stack) > 1
    <2>1. z = [step |-> "plan", root |-> p.root, stack |-> S, removals |-> p.removals,
               pending |-> p.pending, completed |-> C, todo |-> p.todo]
        BY <1>0, <1>1, <1>7, <1>9 DEF PlanOK
    <2>2. PlanOK(z) /\ RootOK(z) /\ ExecutionOK(z)
        BY <1>1, <1>5, <1>6, <1>9, <2>1 DEF PlanOK, RootOK, ExecutionOK
    <2> QED BY <1>0, <1>8, <2>2, PlanMoves
<1>10. CASE ~(Len(p.stack) > 1)
    <2>1. z = [step |-> "lock", root |-> p.root, stack |-> S, removals |-> p.removals,
               pending |-> p.pending, completed |-> C, todo |-> Planned(p)]
        BY <1>0, <1>1, <1>7, <1>10 DEF PlanOK
    <2>2. PlanOK(z)
        BY <1>1, <1>5, <1>6, <2>1 DEF PlanOK, Planned
    <2>3. RootOK(z) /\ ExecutionOK(z)
        BY <1>1, <2>1 DEF RootOK, ExecutionOK, Planned
    <2> QED BY <1>0, <1>8, <2>2, <2>3, PlanMoves
<1> QED BY <1>9, <1>10

-----------------------------------------------------------------------------
(* Execution. *)

\* A purge that executes its plan.
LEMMA TodoForm ==
    ASSUME NEW p, PlanOK(p), NEW t, NEW z, z = [p EXCEPT !.todo = @ \ {t}]
    PROVE  /\ PlanOK(z) /\ z.step = p.step /\ z.root = p.root /\ z.removals = p.removals
           /\ z.pending = p.pending /\ z.todo = p.todo \ {t}
<1>1. z = [step |-> p.step, root |-> p.root, stack |-> p.stack, removals |-> p.removals,
           pending |-> p.pending, completed |-> p.completed, todo |-> p.todo \ {t}]
    BY DEF PlanOK
<1> QED BY <1>1 DEF PlanOK

LEMMA LockPlannedInv ==
    ASSUME PurgeInv, LockPlanned
    PROVE  PurgeInv'
<1>p. PICK p : p = purge
    OBVIOUS
<1>0. p.step = "lock" /\ p.todo # {} /\ UNCHANGED <<documents, relations, editor>>
    BY <1>p DEF LockPlanned
<1>1. PlanOK(p) /\ RootOK(p) /\ ExecutionOK(p)
    BY <1>p, <1>0, PlanForm DEF IdlePurge
<1>2. PICK t : t = Least(p.todo)
    OBVIOUS
<1>3. t \in Docs
    BY <1>0, <1>1, <1>2, LeastIsThere DEF PlanOK
<1>4. PICK z : z = [p EXCEPT !.todo = @ \ {t}]
    OBVIOUS
<1>5. purge' = z /\ Lock(Purger, t, "update")
    BY <1>p, <1>2, <1>4 DEF LockPlanned
<1>6. LocksOK /\ "update" \in Modes /\ Purger \in Actors
    BY PurgerIsActor DEF PurgeInv
<1>7. LocksOK' /\ \A b \in Actors \ {Purger} : locked'[b] = locked[b]
    BY <1>0, <1>3, <1>5, <1>6, LockIsOK
<1>8. locked[Purger] \subseteq locked'[Purger] /\ (t \in Stored => <<t, "update">> \in locked'[Purger])
    BY <1>0, <1>3, <1>5, <1>6, LockIsOK
<1>9. /\ PlanOK(z) /\ z.step = p.step /\ z.root = p.root /\ z.removals = p.removals
      /\ z.pending = p.pending /\ z.todo = p.todo \ {t}
    <2>1. PlanOK(p)
        BY <1>1
    <2> QED BY <2>1, <1>4, TodoForm
<1>10. RootOK(z)
    BY <1>1, <1>9 DEF RootOK
<1>11. ExecutionOK(z)'
    BY <1>0, <1>1, <1>8, <1>9 DEF ExecutionOK, Planned, Stored
<1> QED BY <1>0, <1>5, <1>7, <1>9, <1>10, <1>11, PurgeMoves

\* What is compared is locked: nobody changes it before the commit.
LEMMA RevalidateInv ==
    ASSUME PurgeInv, Revalidate
    PROVE  PurgeInv'
<1>p. PICK p : p = purge
    OBVIOUS
<1>0. p.step = "lock" /\ p.todo = {} /\ UNCHANGED <<documents, relations, editor>>
    BY <1>p DEF Revalidate
<1>1. PlanOK(p) /\ RootOK(p) /\ ExecutionOK(p)
    BY <1>p, <1>0, PlanForm DEF IdlePurge
<1>2. CASE Refuse
    BY <1>0, <1>2, PurgeEnds DEF Refuse
<1>3. CASE ~Refuse
    <2>1. PICK T : T = {e[2] : e \in Edged(p)}
        OBVIOUS
    <2>2. PICK z : z = [p EXCEPT !.step = "share", !.todo = T]
        OBVIOUS
    <2>3. purge' = z /\ locked' = locked /\ PlanIsCurrent /\ RelationsAreFollowed
        BY <1>3, <1>p, <2>1, <2>2 DEF Revalidate, NewEdges, Edged, Pending
    <2>4. z = [step |-> "share", root |-> p.root, stack |-> p.stack, removals |-> p.removals,
               pending |-> p.pending, completed |-> p.completed, todo |-> T]
        BY <1>1, <2>2 DEF PlanOK
    <2>5. T \subseteq Docs
        <3>1. \A s \in DOMAIN p.pending : p.pending[s].refs \subseteq Docs
            BY <1>1 DEF PlanOK, RewriteOK
        <3> QED BY <2>1, <3>1 DEF Edged, Edges
    <2>6. PlanOK(z)
        BY <1>0, <1>1, <2>4, <2>5 DEF PlanOK
    <2>7. RootOK(z)
        BY <1>1, <2>4 DEF RootOK
    <2>8. ExecutionOK(z)
        <3>1. \A d \in Planned(p) : d \in Stored
            BY <1>p, <2>3 DEF PlanIsCurrent, Planned, Removals, Pending, Live
        <3>2. \A d \in Planned(p) : <<d, "update">> \in locked[Purger]
            BY <1>0, <1>1, <3>1 DEF ExecutionOK
        <3>3. /\ \A s \in DOMAIN p.pending : Live(s) /\ documents[s].version = p.pending[s].version
              /\ \A d \in DOMAIN p.removals : d \in Stored /\ documents[d].version = p.removals[d]
            BY <1>p, <2>3 DEF PlanIsCurrent, Removals, Pending
        <3>4. \A e \in relations : e[2] \in DOMAIN p.removals =>
                e[1] \in DOMAIN p.removals \/ (OnDelete[e[1]] = "nullify" /\ e[1] \in DOMAIN p.pending)
            BY <1>p, <2>3 DEF RelationsAreFollowed, Removals, Pending
        <3>5. \A e \in Edged(p) : e[2] \in T
            BY <2>1
        <3>6. Planned(z) = Planned(p) /\ Edged(z) = Edged(p) /\ z.step = "share" /\ z.todo = T
              /\ z.pending = p.pending /\ z.removals = p.removals
            BY <2>4 DEF Planned, Edged
        <3> QED BY <3>2, <3>3, <3>4, <3>5, <3>6 DEF ExecutionOK
    <2> QED BY <1>0, <2>3, <2>6, <2>7, <2>8, PlanMoves
<1> QED BY <1>2, <1>3

LEMMA LockRemainingInv ==
    ASSUME PurgeInv, LockRemaining
    PROVE  PurgeInv'
<1>p. PICK p : p = purge
    OBVIOUS
<1>0. p.step = "share" /\ UNCHANGED <<documents, relations, editor>>
    BY <1>p DEF LockRemaining
<1>1. PlanOK(p) /\ RootOK(p) /\ ExecutionOK(p)
    BY <1>p, <1>0, PlanForm DEF IdlePurge
<1>2. CASE Refuse
    BY <1>0, <1>2, PurgeEnds DEF Refuse
<1>3. CASE ~Refuse
    <2>1. PICK t \in p.todo :
             /\ Live(t) /\ Lock(Purger, t, "keyShare")
             /\ purge' = [purge EXCEPT !.todo = @ \ {t}]
        BY <1>3, <1>p DEF LockRemaining
    <2>2. PICK z : z = [p EXCEPT !.todo = @ \ {t}]
        OBVIOUS
    <2>3. purge' = z /\ t \in Stored /\ t \in Docs
        BY <1>p, <1>1, <2>1, <2>2 DEF PlanOK, Live
    <2>4. LocksOK /\ "keyShare" \in Modes /\ Purger \in Actors
        BY PurgerIsActor DEF PurgeInv
    <2>5. LocksOK' /\ \A b \in Actors \ {Purger} : locked'[b] = locked[b]
        BY <1>0, <2>1, <2>3, <2>4, LockIsOK
    <2>6. locked[Purger] \subseteq locked'[Purger] /\ <<t, "keyShare">> \in locked'[Purger]
        BY <1>0, <2>1, <2>3, <2>4, LockIsOK
    <2>7. /\ PlanOK(z) /\ z.step = p.step /\ z.root = p.root /\ z.removals = p.removals
          /\ z.pending = p.pending /\ z.todo = p.todo \ {t}
        BY <1>1, <2>2, TodoForm
    <2>8. RootOK(z)
        BY <1>1, <2>7 DEF RootOK
    <2>9. ExecutionOK(z)'
        <3>1. Planned(z) = Planned(p) /\ Edged(z) = Edged(p)
            BY <2>7 DEF Planned, Edged
        <3>2. /\ \A d \in Planned(p) : <<d, "update">> \in locked'[Purger]
              /\ \A s \in DOMAIN p.pending : Live(s)' /\ documents'[s].version = p.pending[s].version
              /\ \A d \in DOMAIN p.removals : d \in Stored' /\ documents'[d].version = p.removals[d]
              /\ \A e \in relations' : e[2] \in DOMAIN p.removals =>
                   e[1] \in DOMAIN p.removals \/ (OnDelete[e[1]] = "nullify" /\ e[1] \in DOMAIN p.pending)
            BY <1>0, <1>1, <2>6 DEF ExecutionOK, Stored, Live
        <3>3. \A e \in Edged(p) : e[2] \notin p.todo \ {t} => <<e[2], "keyShare">> \in locked'[Purger]
            BY <1>0, <1>1, <2>6 DEF ExecutionOK
        <3>4. z.step = "share"
            BY <1>0, <2>7
        <3> QED BY <2>7, <3>1, <3>2, <3>3, <3>4 DEF ExecutionOK
    <2> QED BY <1>0, <2>3, <2>5, <2>7, <2>8, <2>9, PurgeMoves
<1> QED BY <1>2, <1>3

\* What a purge that commits has locked and compared.
Compared(p) ==
    /\ p = purge /\ PlanOK(p) /\ RootOK(p)
    /\ \A d \in Planned(p) : d \in Stored /\ <<d, "update">> \in locked[Purger]
    /\ \A s \in DOMAIN p.pending : Live(s) /\ documents[s].version = p.pending[s].version
    /\ \A d \in DOMAIN p.removals : documents[d].version = p.removals[d]
    /\ \A e \in relations : e[2] \in DOMAIN p.removals =>
           e[1] \in DOMAIN p.removals \/ (OnDelete[e[1]] = "nullify" /\ e[1] \in DOMAIN p.pending)
    /\ \A s \in DOMAIN p.pending : p.pending[s].refs \subseteq Stored

LEMMA CommitForm ==
    ASSUME PurgeInv, CommitPurge
    PROVE  Compared(purge)
<1>p. PICK p : p = purge
    OBVIOUS
<1>0. p.step = "share" /\ p.todo = {}
    BY <1>p DEF CommitPurge
<1>1. PlanOK(p) /\ RootOK(p) /\ ExecutionOK(p)
    BY <1>p, <1>0, PlanForm DEF IdlePurge
<1>2. /\ \A d \in Planned(p) : <<d, "update">> \in locked[Purger]
      /\ \A s \in DOMAIN p.pending : Live(s) /\ documents[s].version = p.pending[s].version
      /\ \A d \in DOMAIN p.removals : d \in Stored /\ documents[d].version = p.removals[d]
      /\ \A e \in relations : e[2] \in DOMAIN p.removals =>
           e[1] \in DOMAIN p.removals \/ (OnDelete[e[1]] = "nullify" /\ e[1] \in DOMAIN p.pending)
      /\ \A e \in Edged(p) : <<e[2], "keyShare">> \in locked[Purger]
    BY <1>0, <1>1 DEF ExecutionOK
<1>3. \A d \in Planned(p) : d \in Stored
    BY <1>2 DEF Planned, Live
<1>4. ASSUME NEW s \in DOMAIN p.pending, NEW t \in p.pending[s].refs PROVE t \in Stored
    <2>1. <<s, t>> \in Edged(p)
        BY DEF Edged, Edges
    <2>2. <<t, "keyShare">> \in locked[Purger]
        BY <1>2, <2>1
    <2>3. t \in Docs
        BY <1>1 DEF PlanOK, RewriteOK
    <2> QED BY <2>2, <2>3, PurgerIsActor DEF PurgeInv, LocksOK
<1> QED BY <1>p, <1>1, <1>2, <1>3, <1>4 DEF Compared

LEMMA CommitPurgeInv ==
    ASSUME PurgeInv, CommitPurge
    PROVE  PurgeInv'
<1>p. PICK p : p = purge
    OBVIOUS
<1>0. Compared(p) /\ editor' = editor /\ purge' = IdlePurge /\ Release(Purger)
    BY <1>p, CommitForm DEF CommitPurge, Refuse
<1>1. CASE ~NothingPointsAtRemovals
    <2>1. UNCHANGED <<documents, relations>>
        BY <1>1 DEF CommitPurge
    <2> QED BY <1>0, <2>1, PurgeEnds
<1>2. CASE NothingPointsAtRemovals
    <2>1. /\ documents' = [d \in Stored \ Removals |->
                  IF d \in Pending
                  THEN [documents[d] EXCEPT !.version = @ + 1, !.refs = purge.pending[d].refs]
                  ELSE documents[d]]
          /\ relations' = Rewritten
        BY <1>2 DEF CommitPurge
    <2>2. /\ DOMAIN documents' = DOMAIN documents \ DOMAIN p.removals
          /\ DOMAIN p.pending \subseteq DOMAIN documents'
          /\ \A d \in DOMAIN documents' \ DOMAIN p.pending : documents'[d] = documents[d]
        BY <1>p, <1>0, <2>1 DEF Compared, Planned, PlanOK, Stored, Removals, Pending
    <2>3. ASSUME NEW d \in DOMAIN p.pending
          PROVE  RowOK(d, documents'[d]) /\ documents'[d].refs = p.pending[d].refs
        <3>1. PICK w : w = documents[d]
            OBVIOUS
        <3>2. PICK v : v = w.version + 1
            OBVIOUS
        <3>3. w \in Rows /\ v \in Nat \ {0}
            <4>1. d \in Stored
                BY <1>0 DEF Compared, Planned
            <4>2. w \in Rows
                BY <3>1, <4>1 DEF PurgeInv, RowsOK, RowOK
            <4>3. w.version \in Nat
                BY <4>2 DEF Rows
            <4> QED BY <3>2, <4>2, <4>3
        <3>4. documents'[d] = [w EXCEPT !.version = v, !.refs = p.pending[d].refs]
            BY <1>p, <2>1, <2>2, <3>1, <3>2 DEF Pending
        <3>5. p.pending[d].refs \in SUBSET Docs /\ p.pending[d].refs \in References(d)
            BY <1>0 DEF Compared, PlanOK, RewriteOK
        <3>6. PICK R : R = p.pending[d].refs
            OBVIOUS
        <3>7. [w EXCEPT !.version = v, !.refs = R] \in Rows /\ [w EXCEPT !.version = v, !.refs = R].refs = R
            BY <3>3, <3>5, <3>6 DEF Rows
        <3> QED BY <3>4, <3>5, <3>6, <3>7 DEF RowOK
    <2>4. RowsOK'
        <3>1. \A d \in DOMAIN documents' : RowOK(d, documents'[d])
            BY <2>2, <2>3 DEF PurgeInv, RowsOK, Stored
        <3> QED BY <2>2, <3>1 DEF PurgeInv, RowsOK, Stored
    <2>5. HasEdges(relations, documents)
        BY EdgesForm DEF PurgeInv
    <2>6. \A e : e \in relations' <=>
                  \/ e \in relations /\ e[1] \notin DOMAIN p.pending \cup DOMAIN p.removals
                  \/ \E s \in DOMAIN p.pending : \E t \in p.pending[s].refs : e = <<s, t>>
        <3>1. \A e : e \in NewEdges <=>
                     \E s \in DOMAIN p.pending : e \in Edges(s, p.pending[s].refs)
            BY <1>p DEF NewEdges, Pending
        <3>2. \A e, s : e \in Edges(s, p.pending[s].refs) <=> \E t \in p.pending[s].refs : e = <<s, t>>
            BY DEF Edges
        <3>3. \A e : e \in relations' <=>
                  \/ e \in relations /\ e[1] \notin DOMAIN p.pending \cup DOMAIN p.removals
                  \/ e \in NewEdges
            BY <1>p, <2>1 DEF Rewritten, Pending, Removals
        <3> QED BY <3>1, <3>2, <3>3
    <2>7. HasEdges(relations', documents')
        <3> SUFFICES ASSUME NEW e
                     PROVE  e \in relations' <=>
                              \E d \in DOMAIN documents' : \E t \in documents'[d].refs : e = <<d, t>>
            BY DEF HasEdges
        <3>1. e \in relations <=> \E d \in DOMAIN documents : \E t \in documents[d].refs : e = <<d, t>>
            BY <2>5 DEF HasEdges
        <3>2. ASSUME NEW d \in DOMAIN documents', NEW t \in documents'[d].refs, e = <<d, t>>
              PROVE  e \in relations'
            BY <2>2, <2>3, <2>6, <3>1, <3>2
        <3>3. ASSUME e \in relations'
              PROVE  \E d \in DOMAIN documents' : \E t \in documents'[d].refs : e = <<d, t>>
            <4>1. CASE e \in relations /\ e[1] \notin DOMAIN p.pending \cup DOMAIN p.removals
                <5>1. PICK d \in DOMAIN documents : \E t \in documents[d].refs : e = <<d, t>>
                    BY <3>1, <4>1
                <5>2. d \in DOMAIN documents' /\ documents'[d] = documents[d]
                    BY <2>2, <4>1, <5>1
                <5> QED BY <5>1, <5>2
            <4>2. CASE \E s \in DOMAIN p.pending : \E t \in p.pending[s].refs : e = <<s, t>>
                BY <2>2, <2>3, <4>2
            <4> QED BY <2>6, <3>3, <4>1, <4>2
        <3> QED BY <3>2, <3>3
    <2>8. \A e \in relations' : e[2] \notin DOMAIN p.removals
        BY <1>2, <1>p, <2>1 DEF NothingPointsAtRemovals, Removals
    <2>9. ReferencesExist'
        <3> SUFFICES ASSUME NEW d \in DOMAIN documents', NEW t \in documents'[d].refs
                     PROVE  t \in DOMAIN documents'
            BY DEF ReferencesExist, Stored
        <3>1. t \notin DOMAIN p.removals
            <4>1. PICK e : e = <<d, t>>
                OBVIOUS
            <4>2. e \in relations'
                BY <2>7, <4>1 DEF HasEdges
            <4>3. e[2] = t
                BY <4>1
            <4> QED BY <2>8, <4>2, <4>3
        <3>2. t \in DOMAIN documents
            BY <1>0, <2>2, <2>3 DEF Compared, PurgeInv, ReferencesExist, Stored
        <3> QED BY <2>2, <3>1, <3>2
    <2>10. LocksOK'
        <3>1. LocksOK /\ Purger \in Actors
            BY PurgerIsActor DEF PurgeInv
        <3>2. /\ locked' \in [Actors -> SUBSET (Docs \X Modes)] /\ locked'[Purger] = {}
              /\ \A b \in Actors \ {Purger} : locked'[b] = locked[b]
            BY <1>0, <3>1 DEF Release, LocksOK
        <3>3. ASSUME NEW b \in Actors, NEW d \in Docs, NEW m \in Modes, <<d, m>> \in locked'[b]
              PROVE  d \in DOMAIN documents'
            <4>1. b # Purger /\ <<d, m>> \in locked[b]
                BY <3>2, <3>3
            <4>2. d \in DOMAIN documents /\ <<d, "update">> \notin locked[Purger]
                BY <3>1, <4>1, LockedAgainst DEF LocksOK, Stored
            <4> QED BY <1>0, <2>2, <4>2 DEF Compared, Planned
        <3> QED BY <3>1, <3>2, <3>3 DEF LocksOK, LocksExclude, Stored
    <2>11. \A c \in Editors : locked'[c] = locked[c]
        BY <1>0, PurgerIsActor DEF Release, PurgeInv, LocksOK
    <2>12. /\ editor' = [c \in Editors |-> editor'[c]]
           /\ \A c \in Editors : editor'[c] = NoEdit \/ EditOK(c, editor[c])'
        BY <1>0, <2>11, EditsStay
    <2>13. PurgeOK'
        BY <1>0 DEF PurgeOK
    <2> QED BY <2>4, <2>7, <2>9, <2>10, <2>12, <2>13, EdgesForm DEF PurgeInv
<1> QED BY <1>1, <1>2

-----------------------------------------------------------------------------
LEMMA PurgeInit == Init => PurgeInv
<1> SUFFICES ASSUME Init PROVE PurgeInv
    OBVIOUS
<1>1. RowsOK /\ ReferencesExist /\ EdgesMatchData
    <2>1. DOMAIN documents = Docs
        BY DEF Init
    <2>2. \A d \in Docs : documents[d] \in Rows /\ documents[d].refs \in References(d)
                          /\ documents[d].refs \subseteq Docs
        BY DEF Init, Rows
    <2> QED BY <2>1, <2>2 DEF Init, RowsOK, RowOK, ReferencesExist, EdgesMatchData, Stored
<1>2. LocksOK
    BY DEF Init, LocksOK, LocksExclude
<1>3. PurgeOK
    BY DEF Init, PurgeOK
<1> QED BY <1>1, <1>2, <1>3 DEF Init, PurgeInv

LEMMA PurgeNext == PurgeInv /\ [Next]_vars => PurgeInv'
<1> SUFFICES ASSUME PurgeInv, [Next]_vars PROVE PurgeInv'
    OBVIOUS
<1>1. ASSUME NEW c \in Editors,
             (\E d \in Docs : \E R \in SUBSET Docs : BeginEdit(c, d, R)) \/ EditorStep(c)
      PROVE  PurgeInv'
    BY <1>1, BeginEditInv, LockSourceInv, LockTargetInv, FinishEditInv DEF EditorStep
<1>2. ASSUME NEW d \in Docs, Trash(d) \/ Restore(d) \/ StartPurge(d) PROVE PurgeInv'
    BY <1>2, SetDeletedInv, StartPurgeInv DEF Trash, Restore
<1>3. ASSUME PurgeStep PROVE PurgeInv'
    BY <1>3, LoadRemovalInv, ListIncomingInv, NullifySourceInv, CascadeSourceInv, ReturnFromCallInv,
       LockPlannedInv, RevalidateInv, LockRemainingInv, CommitPurgeInv
    DEF PurgeStep, PlanStep, ExecuteStep
<1>4. ASSUME NEW a \in Actors, AbortDeadlocked(a) PROVE PurgeInv'
    <2>1. CASE a = Purger
        BY <1>4, <2>1, PurgeEnds DEF AbortDeadlocked
    <2>2. CASE a # Purger
        BY <1>4, <2>2, EditorGoes DEF AbortDeadlocked, Actors
    <2> QED BY <2>1, <2>2
<1>5. ASSUME UNCHANGED vars PROVE PurgeInv'
    <2>1. UNCHANGED <<documents, relations, editor, locked>> /\ purge' = purge
        BY <1>5 DEF vars
    <2>2. RowsOK' /\ EdgesMatchData' /\ ReferencesExist'
        BY <2>1, SameRows
    <2>3. LocksOK'
        BY <2>1 DEF PurgeInv, LocksOK, LocksExclude, Stored
    <2>4. PurgeOK'
        BY <2>1, PurgeStays
    <2>5. \A c \in Editors : locked'[c] = locked[c]
        BY <2>1
    <2>6. /\ editor' = [c \in Editors |-> editor'[c]]
          /\ \A c \in Editors : editor'[c] = NoEdit \/ EditOK(c, editor[c])'
        BY <2>1, <2>5, EditsStay
    <2> QED BY <2>2, <2>3, <2>4, <2>6 DEF PurgeInv
<1> QED BY <1>1, <1>2, <1>3, <1>4, <1>5 DEF Next

\* The inductive invariant of purges and edits.
THEOREM PurgeInvariance == Spec => []PurgeInv
<1> QED BY PurgeInit, PurgeNext, PTL DEF Spec

\* Data, relation rows and documents agree, and nothing refers to a document
\* that was purged, whatever was edited while the purge was planned and executed.
THEOREM ReferencesStayWhole == Spec => []ReferencesAreWhole
<1>1. PurgeInv => ReferencesAreWhole
    <2> SUFFICES ASSUME PurgeInv PROVE ReferencesAreWhole
        OBVIOUS
    <2>1. /\ Stored \subseteq Docs
          /\ \A d \in Stored : /\ documents[d].version \in Nat \ {0} /\ documents[d].deleted \in BOOLEAN
                               /\ documents[d].refs \in References(d) /\ documents[d].refs \subseteq Docs
        BY DEF PurgeInv, RowsOK, RowOK, Rows
    <2>2. relations \subseteq Docs \X Docs
        <3>1. HasEdges(relations, documents)
            BY EdgesForm DEF PurgeInv
        <3> QED BY <2>1, <3>1 DEF HasEdges, Stored
    <2>3. editor \in [Editors -> {NoEdit} \cup EditType]
        BY DEF PurgeInv, EditOK
    <2>4. purge = IdlePurge \/ PlanTypeOK
        <3>1. PICK p : p = purge
            OBVIOUS
        <3>2. CASE p # IdlePurge
            <4>1. PlanOK(p)
                BY <3>1, <3>2, PlanForm
            <4>2. \A i \in DOMAIN p.stack : p.stack[i] \in Frames
                BY <4>1 DEF PlanOK, StackOK, FrameOK
            <4>3. \A i \in DOMAIN p.stack :
                    /\ p.stack[i].doc \in Docs /\ p.stack[i].version \in Nat \ {0}
                    /\ p.stack[i].step \in {"load", "incoming", "walk"}
                    /\ p.stack[i].nullify \subseteq [source : Docs, next : SUBSET Docs]
                    /\ p.stack[i].cascade \subseteq Docs
                BY <4>2 DEF Frames
            <4> QED BY <3>1, <4>1, <4>3 DEF PlanOK, PlanTypeOK, Removals, Pending
        <3> QED BY <3>1, <3>2
    <2>5. TypeOK
        BY <2>1, <2>2, <2>3, <2>4 DEF TypeOK, PurgeInv, LocksOK, EditType
    <2> QED BY <2>5 DEF ReferencesAreWhole, PurgeInv
<1> QED BY <1>1, PurgeInvariance, PTL

-----------------------------------------------------------------------------
(* What a purge takes. *)

LEMMA OnlyCommitRemoves ==
    ASSUME PurgeInv, [Next]_vars, Removed # {}
    PROVE  CommitPurge /\ NothingPointsAtRemovals
<1>1. DOMAIN documents' # DOMAIN documents
    BY DEF Removed, Stored
<1>2. ASSUME NEW c \in Editors,
             (\E d \in Docs : \E R \in SUBSET Docs : BeginEdit(c, d, R)) \/ EditorStep(c)
      PROVE  FALSE
    BY <1>1, <1>2 DEF BeginEdit, EditorStep, LockSource, LockTarget, FinishEdit
<1>3. ASSUME NEW d \in Docs, Trash(d) \/ Restore(d) \/ StartPurge(d) PROVE FALSE
    BY <1>1, <1>3 DEF Trash, Restore, SetDeleted, StartPurge
<1>4. ASSUME NEW a \in Actors, AbortDeadlocked(a) PROVE FALSE
    BY <1>1, <1>4 DEF AbortDeadlocked
<1>5. ~UNCHANGED vars
    BY <1>1 DEF vars
<1>6. PurgeStep
    BY <1>2, <1>3, <1>4, <1>5 DEF Next
<1>7. CommitPurge
    BY <1>1, <1>6 DEF PurgeStep, PlanStep, ExecuteStep, LoadRemoval, ListIncoming, NullifySource,
       CascadeSource, ReturnFromCall, LockPlanned, Revalidate, LockRemaining
<1>8. NothingPointsAtRemovals
    BY <1>1, <1>7 DEF CommitPurge
<1> QED BY <1>7, <1>8

\* What a purge removes and rewrites was locked and compared with its plan.
LEMMA RemovalsWereCompared ==
    ASSUME PurgeInv, [Next]_vars, Removed # {}, NEW p, p = purge
    PROVE  /\ Compared(p) /\ Removed = DOMAIN p.removals
           /\ \A s \in DOMAIN documents' : documents[s] # documents'[s] =>
                s \in DOMAIN p.pending /\ documents'[s].version = documents[s].version + 1
<1>1. CommitPurge /\ NothingPointsAtRemovals
    BY OnlyCommitRemoves
<1>2. Compared(p)
    BY <1>1, CommitForm
<1>3. documents' = [d \in Stored \ Removals |->
                  IF d \in Pending
                  THEN [documents[d] EXCEPT !.version = @ + 1, !.refs = purge.pending[d].refs]
                  ELSE documents[d]]
    BY <1>1 DEF CommitPurge
<1>4. Removed = DOMAIN p.removals
    BY <1>2, <1>3 DEF Removed, Compared, Planned, Removals, Stored
<1>5. ASSUME NEW s \in DOMAIN documents', documents[s] # documents'[s]
      PROVE  s \in DOMAIN p.pending /\ documents'[s].version = documents[s].version + 1
    <2>1. s \in DOMAIN p.pending /\ s \in Stored
        BY <1>3, <1>5 DEF Pending
    <2>2. documents'[s] = [documents[s] EXCEPT !.version = @ + 1, !.refs = purge.pending[s].refs]
        BY <1>3, <2>1 DEF Pending
    <2>3. documents[s] \in Rows
        BY <2>1 DEF PurgeInv, RowsOK, RowOK
    <2>4. PICK w : w = documents[s]
        OBVIOUS
    <2>5. PICK v : v = w.version + 1
        OBVIOUS
    <2>6. [w EXCEPT !.version = v, !.refs = purge.pending[s].refs].version = v
        BY <2>3, <2>4 DEF Rows
    <2> QED BY <2>1, <2>2, <2>4, <2>5, <2>6
<1> QED BY <1>2, <1>4, <1>5

\* A purge takes what its plan was made from, at the versions that were looked
\* at; nothing that is restricted meanwhile, and no edit that was made meanwhile.
THEOREM PurgesArePlanned == Spec => PurgesWhatWasPlanned
<1>1. ASSUME PurgeInv, [Next]_vars, Removed # {}
      PROVE  /\ \A e \in relations : e[2] \in Removed /\ OnDelete[e[1]] = "restrict" => e[1] = purge.root
             /\ \A d \in Removed : /\ documents[d].version = purge.removals[d]
                                   /\ d = purge.root => documents[d].deleted
             /\ \A s \in DOMAIN documents' : documents[s] # documents'[s] =>
                    /\ Live(s) /\ documents[s].version = purge.pending[s].version
                    /\ documents'[s].version = documents[s].version + 1
    <2>p. PICK p : p = purge
        OBVIOUS
    <2>1. /\ Compared(p) /\ Removed = DOMAIN p.removals
          /\ \A s \in DOMAIN documents' : documents[s] # documents'[s] =>
                s \in DOMAIN p.pending /\ documents'[s].version = documents[s].version + 1
        BY <1>1, <2>p, RemovalsWereCompared
    <2>2. \A e \in relations : e[2] \in Removed /\ OnDelete[e[1]] = "restrict" => e[1] = p.root
        <3>1. \A d \in DOMAIN p.removals : d = p.root \/ OnDelete[d] = "cascade"
            BY <2>1 DEF Compared, PlanOK
        <3>2. \A e \in relations : e[2] \in DOMAIN p.removals =>
                e[1] \in DOMAIN p.removals \/ (OnDelete[e[1]] = "nullify" /\ e[1] \in DOMAIN p.pending)
            BY <2>1 DEF Compared
        <3> QED BY <2>1, <3>1, <3>2
    <2>3. \A d \in Removed : documents[d].version = p.removals[d] /\ (d = p.root => documents[d].deleted)
        BY <2>1 DEF Compared, RootOK, Planned
    <2>4. \A s \in DOMAIN p.pending : Live(s) /\ documents[s].version = p.pending[s].version
        BY <2>1 DEF Compared
    <2> QED BY <2>p, <2>1, <2>2, <2>3, <2>4
<1>2. PurgeInv /\ [Next]_vars =>
        [\A e \in relations :
            e[2] \in Removed /\ OnDelete[e[1]] = "restrict" => e[1] = purge.root]_vars
    BY <1>1
<1>3. PurgeInv /\ [Next]_vars =>
        [\A d \in Removed : /\ documents[d].version = purge.removals[d]
                            /\ d = purge.root => documents[d].deleted]_vars
    BY <1>1
<1>4. PurgeInv /\ [Next]_vars =>
        [Removed # {} => \A s \in DOMAIN documents' :
          documents[s] # documents'[s] =>
              /\ Live(s)
              /\ documents[s].version = purge.pending[s].version
              /\ documents'[s].version = documents[s].version + 1]_vars
    BY <1>1
<1> QED BY <1>2, <1>3, <1>4, PurgeInvariance, PTL
    DEF Spec, PurgesWhatWasPlanned, RestrictIsHonoured, RemovesWhatWasPlanned, RewritesAreConditional
=============================================================================
