----------------------------- MODULE HardPurge -----------------------------
(***************************************************************************)
(* Document relations and the purge of documents from the trash.           *)
(*                                                                         *)
(* A document holds references to other documents in a relation field; the *)
(* store keeps one row per reference in _xecms_document_relations.  A      *)
(* purge is planned outside any transaction: prepareHardPurge walks the    *)
(* incoming rows depth first, one query at a time, and collects documents  *)
(* to remove and sources to rewrite.  executeHardPurge then takes row      *)
(* locks, compares the plan with what is stored now, and commits.  Other   *)
(* requests edit, trash and restore documents meanwhile: they do not take  *)
(* the projection lock which keeps two purges apart.                       *)
(*                                                                         *)
(* A document has one relation field; what its collection says of that     *)
(* field is given by the constants.  The order of a list of references is  *)
(* left out, and so are revisions and publication (module Documents).      *)
(* Row locks are PostgreSQL's: a transaction keeps them to its end, waits  *)
(* for a conflicting one, and is aborted when it is part of a cycle of     *)
(* waiting transactions.                                                   *)
(***************************************************************************)
EXTENDS Naturals, FiniteSets, Sequences

CONSTANTS
    Docs,          \* document identities; the order is the order of the ids
    Editors,       \* concurrent requests that write documents
    MayReference,  \* MayReference[d]: the documents of d's target collection
    Multiple,      \* the documents whose relation has cardinality "many"
    OnDelete,      \* OnDelete[d]: the onDelete of d's relation
    MaxVersion,    \* bound: edits stop at this aggregate version
    NoEdit         \* an editor between two requests

ASSUME ConstantsAssumption ==
    /\ Docs \subseteq Nat
    /\ MayReference \in [Docs -> SUBSET Docs]
    /\ Multiple \subseteq Docs
    /\ OnDelete \in [Docs -> {"restrict", "nullify", "cascade"}]
    /\ MaxVersion \in Nat
    /\ NoEdit \notin [doc: Docs, refs: SUBSET Docs, step: {"own", "targets"},
                      waiting: SUBSET Docs]

Purger == "purger"
ASSUME PurgerAssumption == Purger \notin Editors

VARIABLES
    documents,  \* rows of _xecms_documents, by id, with their references
    relations,  \* rows of _xecms_document_relations: <<source, target>>
    editor,     \* editor[c]: the transaction request c has open
    purge,      \* the one purge the projection lock admits
    locked      \* locked[a]: row locks held by a, as <<document, mode>>

vars == <<documents, relations, editor, purge, locked>>

Actors == Editors \cup {Purger}
Modes == {"keyShare", "noKeyUpdate", "update"}

\* What an editor may write into d's relation field.
References(d) ==
    {R \in SUBSET MayReference[d] : d \in Multiple \/ Cardinality(R) <= 1}

Stored == DOMAIN documents
Live(d) == d \in Stored /\ ~documents[d].deleted
Edges(s, R) == {s} \X R

IdlePurge == [step |-> "idle"]
Least(S) == CHOOSE d \in S : \A e \in S : d <= e

-----------------------------------------------------------------------------
(* Row locks. *)

Conflicting(m, n) ==
    \/ m = "update" \/ n = "update"
    \/ m = "noKeyUpdate" /\ n = "noKeyUpdate"

Holds(b, d, m) == \E n \in Modes : <<d, n>> \in locked[b] /\ Conflicting(m, n)
Grantable(a, d, m) == \A b \in Actors \ {a} : ~Holds(b, d, m)

\* A row that is not stored gives nothing to lock: the query returns without it.
Lock(a, d, m) ==
    /\ Grantable(a, d, m)
    /\ locked' = IF d \in Stored THEN [locked EXCEPT ![a] = @ \cup {<<d, m>>}]
                 ELSE locked
Release(a) == locked' = [locked EXCEPT ![a] = {}]

-----------------------------------------------------------------------------
(* Editors: update, restoreRevision, delete and restoreDeleted.  The        *)
(* UPDATE of the document row carries the version the request read; one     *)
(* with another version is refused and changes nothing, so a request is     *)
(* modelled from an UPDATE that matches.                                    *)

BeginEdit(c, d, R) ==
    /\ editor[c] = NoEdit
    /\ Live(d)
    /\ documents[d].version < MaxVersion
    /\ R \in References(d)
    /\ Lock(c, d, "noKeyUpdate")
    /\ editor' = [editor EXCEPT ![c] =
                    [doc |-> d, refs |-> R, step |-> "own", waiting |-> R]]
    /\ UNCHANGED <<documents, relations, purge>>

\* validateAndReplaceWithClient first locks the source row FOR UPDATE ...
LockSource(c) ==
    /\ editor[c] # NoEdit
    /\ editor[c].step = "own"
    /\ Lock(c, editor[c].doc, "update")
    /\ editor' = [editor EXCEPT ![c].step = "targets"]
    /\ UNCHANGED <<documents, relations, purge>>

\* ... then the targets FOR KEY SHARE, row by row in no stated order.  A target
\* that is missing or in the trash when its row is locked fails the request; it
\* may still go to the trash afterwards, since delete does not change a key.
LockTarget(c) ==
    /\ editor[c] # NoEdit
    /\ editor[c].step = "targets"
    /\ \E t \in editor[c].waiting :
          IF Live(t)
          THEN /\ Lock(c, t, "keyShare")
               /\ editor' = [editor EXCEPT ![c].waiting = @ \ {t}]
          ELSE /\ Grantable(c, t, "keyShare")
               /\ editor' = [editor EXCEPT ![c] = NoEdit]
               /\ Release(c)
    /\ UNCHANGED <<documents, relations, purge>>

\* The rows of a source are deleted and inserted anew.
Replaced(d, R) == {e \in relations : e[1] # d} \cup Edges(d, R)

FinishEdit(c) ==
    LET d == editor[c].doc
        R == editor[c].refs
    IN
    /\ editor[c] # NoEdit
    /\ editor[c].step = "targets"
    /\ editor[c].waiting = {}
    /\ documents' = [documents EXCEPT ![d].version = @ + 1, ![d].refs = R]
    /\ relations' = Replaced(d, R)
    /\ editor' = [editor EXCEPT ![c] = NoEdit]
    /\ Release(c)
    /\ UNCHANGED purge

\* delete and restoreDeleted write the document row only, in one statement.
SetDeleted(d, deleted) ==
    /\ d \in Stored
    /\ documents[d].deleted # deleted
    /\ documents[d].version < MaxVersion
    /\ \A a \in Actors : ~Holds(a, d, "noKeyUpdate")
    /\ documents' = [documents EXCEPT ![d].version = @ + 1, ![d].deleted = deleted]
    /\ UNCHANGED <<relations, editor, purge, locked>>

Trash(d) == SetDeleted(d, TRUE)
Restore(d) == SetDeleted(d, FALSE)

-----------------------------------------------------------------------------
(* Planning: prepareHardPurge.  Each action is one query and what the code  *)
(* does with its answer; the stack holds the calls that are open.           *)

Frame(d, v) == [doc |-> d, version |-> v, step |-> "load",
                nullify |-> {}, cascade |-> {}]
Top == purge.stack[1]
Visiting == {purge.stack[i].doc : i \in DOMAIN purge.stack}
Removals == DOMAIN purge.removals
Pending == DOMAIN purge.pending

Planning(step) == purge.step = "plan" /\ Top.step = step

\* Mutant of Refuse: the transaction is left open.
RefuseWithoutRollback == purge' = IdlePurge /\ UNCHANGED locked

\* ROLLBACK, or the request ends before there is a transaction.
Refuse == purge' = IdlePurge /\ Release(Purger)

StartPurge(d) ==
    /\ purge.step = "idle"
    /\ d \in Stored
    /\ purge' = [step |-> "plan", root |-> d, stack |-> <<Frame(d, documents[d].version)>>,
                 removals |-> << >>, pending |-> << >>, completed |-> {}, todo |-> {}]
    /\ UNCHANGED <<documents, relations, editor, locked>>

\* Only a document reached by a cascade may be removed without being in the trash.
LoadRemoval ==
    LET d == Top.doc IN
    /\ Planning("load")
    /\ IF \/ d \notin Stored
          \/ documents[d].version # Top.version
          \/ ~documents[d].deleted /\ d = purge.root
       THEN Refuse
       ELSE /\ purge' = [purge EXCEPT
                  !.stack[1].step = "incoming",
                  !.removals = [r \in Removals \cup {d} |->
                                  IF r = d THEN Top.version ELSE @[r]],
                  !.pending = [s \in Pending \ {d} |-> @[s]]]
            /\ UNCHANGED locked
    /\ UNCHANGED <<documents, relations, editor>>

\* Mutant of ListIncoming: restricting relations do not refuse.
ListIncomingUnrestricted ==
    LET d == Top.doc
        sources(action) == {s \in Stored : <<s, d>> \in relations /\ OnDelete[s] = action}
    IN
    /\ Planning("incoming")
    /\ purge' = [purge EXCEPT !.stack[1] =
                  [@ EXCEPT !.step = "walk",
                            !.nullify = {[source |-> s, next |-> documents[s].refs \ {d}] :
                                           s \in sources("nullify")},
                            !.cascade = sources("cascade") \cup sources("restrict")]]
    /\ UNCHANGED <<documents, relations, editor, locked>>

\* planTargetDeletion: the incoming rows with the sources' data, in one query.
ListIncoming ==
    LET d == Top.doc
        sources(action) == {s \in Stored : <<s, d>> \in relations /\ OnDelete[s] = action}
    IN
    /\ Planning("incoming")
    /\ IF sources("restrict") \subseteq Removals
       THEN /\ purge' = [purge EXCEPT !.stack[1] =
                  [@ EXCEPT !.step = "walk",
                            !.nullify = {[source |-> s, next |-> documents[s].refs \ {d}] :
                                           s \in sources("nullify")},
                            !.cascade = sources("cascade")]]
            /\ UNCHANGED locked
       ELSE Refuse
    /\ UNCHANGED <<documents, relations, editor>>

\* applyRelationNullification: the field is dropped, or cut down to next.  A
\* list that is stored as no value at all is given next as it is.
Nullified(s, refs, next) ==
    IF s \notin Multiple THEN {{}}
    ELSE IF refs = {} THEN {{}, next}
    ELSE {refs \cap next}

\* A source as the plan has it so far, or as it is stored.
Source(s) ==
    IF s \in Pending THEN purge.pending[s]
    ELSE [version |-> documents[s].version, refs |-> documents[s].refs]

NullifySource ==
    /\ Planning("walk")
    /\ \E n \in Top.nullify :
          LET s == n.source IN
          /\ s = Least({m.source : m \in Top.nullify})
          /\ IF s \notin Removals /\ s \notin Pending /\ ~Live(s)
             THEN Refuse
             ELSE /\ \E refs \in Nullified(s, Source(s).refs, n.next) :
                       purge' = [purge EXCEPT
                          !.stack[1].nullify = @ \ {n},
                          !.pending = IF s \in Removals THEN @
                                      ELSE [p \in Pending \cup {s} |->
                                              IF p = s THEN [Source(s) EXCEPT !.refs = refs]
                                              ELSE @[p]]]
                  /\ UNCHANGED locked
    /\ UNCHANGED <<documents, relations, editor>>

\* The source is loaded, and the recursive call begins with the version it has.
CascadeSource ==
    LET s == Least(Top.cascade)
        walked == [purge EXCEPT !.stack[1].cascade = @ \ {s}]
    IN
    /\ Planning("walk")
    /\ Top.nullify = {}
    /\ Top.cascade # {}
    /\ IF s \in purge.completed \/ s \notin Stored
       THEN purge' = walked /\ UNCHANGED locked
       ELSE IF s \in Visiting
            THEN Refuse
            ELSE /\ purge' = [walked EXCEPT !.stack =
                                <<Frame(s, documents[s].version)>> \o @]
                 /\ UNCHANGED locked
    /\ UNCHANGED <<documents, relations, editor>>

\* The last return leaves a plan: the removals, and the pending rewrites of others.
ReturnFromCall ==
    LET done == [purge EXCEPT !.stack = Tail(@), !.completed = @ \cup {Top.doc}]
    IN
    /\ Planning("walk")
    /\ Top.nullify = {}
    /\ Top.cascade = {}
    /\ purge' = IF Len(purge.stack) > 1 THEN done
                ELSE [done EXCEPT !.step = "lock", !.todo = Removals \cup Pending]
    /\ UNCHANGED <<documents, relations, editor, locked>>

-----------------------------------------------------------------------------
(* Execution: executeHardPurge, one transaction. *)

\* Mutant of LockPlanned: FOR NO KEY UPDATE, which admits new references.
LockPlannedWeakly ==
    /\ purge.step = "lock"
    /\ purge.todo # {}
    /\ Lock(Purger, Least(purge.todo), "noKeyUpdate")
    /\ purge' = [purge EXCEPT !.todo = @ \ {Least(@)}]
    /\ UNCHANGED <<documents, relations, editor>>

\* SELECT ... WHERE id = ANY($1) ORDER BY id FOR UPDATE.
LockPlanned ==
    /\ purge.step = "lock"
    /\ purge.todo # {}
    /\ Lock(Purger, Least(purge.todo), "update")
    /\ purge' = [purge EXCEPT !.todo = @ \ {Least(@)}]
    /\ UNCHANGED <<documents, relations, editor>>

\* Mutants of PlanIsCurrent: the versions of the removals, or of the sources,
\* are not compared.
PlanIsCurrentBySources ==
    /\ \A s \in Pending :
          Live(s) /\ documents[s].version = purge.pending[s].version
    /\ \A d \in Removals : d \in Stored

PlanIsCurrentByRemovals ==
    /\ \A s \in Pending : Live(s)
    /\ \A d \in Removals :
          d \in Stored /\ documents[d].version = purge.removals[d]

PlanIsCurrent ==
    /\ \A s \in Pending :
          Live(s) /\ documents[s].version = purge.pending[s].version
    /\ \A d \in Removals :
          d \in Stored /\ documents[d].version = purge.removals[d]

\* assertHardPurgeRelationPlan.
RelationsAreFollowed ==
    \A e \in relations : e[2] \in Removals =>
        \/ e[1] \in Removals
        \/ OnDelete[e[1]] = "nullify" /\ e[1] \in Pending

NewEdges == UNION {Edges(s, purge.pending[s].refs) : s \in Pending}

Revalidate ==
    /\ purge.step = "lock"
    /\ purge.todo = {}
    /\ IF PlanIsCurrent /\ RelationsAreFollowed
       THEN /\ purge' = [purge EXCEPT !.step = "share", !.todo = {e[2] : e \in NewEdges}]
            /\ UNCHANGED locked
       ELSE Refuse
    /\ UNCHANGED <<documents, relations, editor>>

\* Rewriting a source locks and checks what it still references, as an edit does.
LockRemaining ==
    /\ purge.step = "share"
    /\ \E t \in purge.todo :
          IF Live(t)
          THEN /\ Lock(Purger, t, "keyShare")
               /\ purge' = [purge EXCEPT !.todo = @ \ {t}]
          ELSE Grantable(Purger, t, "keyShare") /\ Refuse
    /\ UNCHANGED <<documents, relations, editor>>

Rewritten == {e \in relations : e[1] \notin Pending \cup Removals} \cup NewEdges
\* assertNoIncomingPurgeRelations, once the removals' own edges are deleted.
NothingPointsAtRemovals == \A e \in Rewritten : e[2] \notin Removals

CommitPurge ==
    /\ purge.step = "share"
    /\ purge.todo = {}
    /\ IF NothingPointsAtRemovals
       THEN /\ documents' = [d \in Stored \ Removals |->
                  IF d \in Pending
                  THEN [documents[d] EXCEPT !.version = @ + 1, !.refs = purge.pending[d].refs]
                  ELSE documents[d]]
            /\ relations' = Rewritten
       ELSE UNCHANGED <<documents, relations>>
    /\ Refuse
    /\ UNCHANGED editor

-----------------------------------------------------------------------------
(* PostgreSQL aborts a transaction that waits, through others, for itself. *)

Requests(a) ==
    IF a = Purger
    THEN CASE purge.step = "lock" /\ purge.todo # {} -> {<<Least(purge.todo), "update">>}
           [] purge.step = "share" -> purge.todo \X {"keyShare"}
           [] OTHER -> {}
    ELSE IF editor[a] = NoEdit THEN {}
         ELSE IF editor[a].step = "own" THEN {<<editor[a].doc, "update">>}
         ELSE editor[a].waiting \X {"keyShare"}

WaitsFor(a, b) ==
    /\ \A r \in Requests(a) : ~Grantable(a, r[1], r[2])
    /\ \E r \in Requests(a) : Holds(b, r[1], r[2])

Deadlocked(a) ==
    \E n \in 2..Cardinality(Actors) : \E path \in [0..(n - 1) -> Actors] :
        /\ path[0] = a
        /\ \A i, j \in 0..(n - 1) : path[i] = path[j] => i = j
        /\ \A i \in 0..(n - 1) : WaitsFor(path[i], path[(i + 1) % n])

AbortDeadlocked(a) ==
    /\ Deadlocked(a)
    /\ Release(a)
    /\ IF a = Purger THEN purge' = IdlePurge /\ UNCHANGED editor
       ELSE editor' = [editor EXCEPT ![a] = NoEdit] /\ UNCHANGED purge
    /\ UNCHANGED <<documents, relations>>

-----------------------------------------------------------------------------
\* Any documents with any references, some in the trash; versions are counted
\* from here.
Init ==
    /\ documents \in [Docs -> [version: {1}, deleted: BOOLEAN, refs: SUBSET Docs]]
    /\ \A d \in Docs : documents[d].refs \in References(d)
    /\ relations = UNION {Edges(d, documents[d].refs) : d \in Docs}
    /\ editor = [c \in Editors |-> NoEdit]
    /\ purge = IdlePurge
    /\ locked = [a \in Actors |-> {}]

EditorStep(c) == LockSource(c) \/ LockTarget(c) \/ FinishEdit(c)
PlanStep ==
    LoadRemoval \/ ListIncoming \/ NullifySource \/ CascadeSource \/ ReturnFromCall
ExecuteStep == LockPlanned \/ Revalidate \/ LockRemaining \/ CommitPurge
PurgeStep == PlanStep \/ ExecuteStep

Next ==
    \/ \E c \in Editors :
          \/ \E d \in Docs : \E R \in SUBSET Docs : BeginEdit(c, d, R)
          \/ EditorStep(c)
    \/ \E d \in Docs : Trash(d) \/ Restore(d) \/ StartPurge(d)
    \/ PurgeStep
    \/ \E a \in Actors : AbortDeadlocked(a)

Spec == Init /\ [][Next]_vars

RequestArrives ==
    \E d \in Docs :
        \/ StartPurge(d)
        \/ \E c \in Editors : \E R \in SUBSET Docs : BeginEdit(c, d, R)

\* A started request is carried on, and PostgreSQL breaks every deadlock.
FairSpec ==
    /\ Spec
    /\ \A c \in Editors : WF_vars(EditorStep(c))
    /\ WF_vars(PurgeStep)
    /\ \A a \in Actors : WF_vars(AbortDeadlocked(a))

-----------------------------------------------------------------------------
(* Properties. *)

\* The shape of the plan of a purge.
PlanTypeOK ==
    /\ purge.step \in {"plan", "lock", "share"}
    /\ purge.root \in Docs
    /\ \A i \in DOMAIN purge.stack :
          /\ purge.stack[i].doc \in Docs
          /\ purge.stack[i].version \in Nat \ {0}
          /\ purge.stack[i].step \in {"load", "incoming", "walk"}
          /\ purge.stack[i].nullify \subseteq [source: Docs, next: SUBSET Docs]
          /\ purge.stack[i].cascade \subseteq Docs
    /\ Removals \cup Pending \cup purge.completed \cup purge.todo \subseteq Docs

\* The shape of the rows, of open requests and of the plan.
TypeOK ==
    /\ Stored \subseteq Docs
    /\ \A d \in Stored :
          /\ documents[d].version \in Nat \ {0}
          /\ documents[d].deleted \in BOOLEAN
          /\ documents[d].refs \in References(d)
    /\ relations \subseteq Docs \X Docs
    /\ editor \in [Editors -> {NoEdit} \cup [doc: Docs, refs: SUBSET Docs,
                                             step: {"own", "targets"}, waiting: SUBSET Docs]]
    /\ locked \in [Actors -> SUBSET (Docs \X Modes)]
    /\ purge = IdlePurge \/ PlanTypeOK

\* The relation rows of a document are the references of its data: every
\* operation which writes the data also replaces the rows, and no other does
\* (synchronizeDocumentIntegrity is called by some operations only).
EdgesMatchData == relations = UNION {Edges(d, documents[d].refs) : d \in Stored}

\* No document's data names a document that has been purged, whatever edits ran
\* while the purge was planned and executed.  The locks and the two checks of
\* executeHardPurge give this before the foreign key has to.
ReferencesExist == \A d \in Stored : documents[d].refs \subseteq Stored

\* The three tables of a reference agree: data, relation rows and documents.
ReferencesAreWhole == TypeOK /\ EdgesMatchData /\ ReferencesExist

Removed == Stored \ DOMAIN documents'

\* A purge never takes a document some other document restricts, even if the
\* reference was written after the plan was made; the one document whose own
\* restricting reference does not count is the one whose purge was asked for.
RestrictIsHonoured ==
    [][\A e \in relations :
          e[2] \in Removed /\ OnDelete[e[1]] = "restrict" => e[1] = purge.root]_vars

\* What is removed is what was looked at: the named document in the trash, at
\* the version its request was made for, and each other document at the
\* version it had when the walk reached it.
RemovesWhatWasPlanned ==
    [][\A d \in Removed :
          /\ documents[d].version = purge.removals[d]
          /\ d = purge.root => documents[d].deleted]_vars

\* A purge rewrites only documents outside the trash, and each by one version
\* over the one the rewrite was computed from, so no rewrite hides an edit
\* committed after its source was loaded.
RewritesAreConditional ==
    [][Removed # {} => \A s \in DOMAIN documents' :
          documents[s] # documents'[s] =>
              /\ Live(s)
              /\ documents[s].version = purge.pending[s].version
              /\ documents'[s].version = documents[s].version + 1]_vars

\* What a purge removes and what it rewrites is what its plan was made from,
\* and nothing that is restricted meanwhile.
PurgesWhatWasPlanned == RestrictIsHonoured /\ RemovesWhatWasPlanned /\ RewritesAreConditional

\* Purge and edits wait for each other's row locks in both directions, and yet,
\* once no new request arrives, every purge and every edit comes to an end.
EverybodyIsAnswered ==
    \/ []<><<RequestArrives>>_vars
    \/ <>[](purge.step = "idle" /\ \A c \in Editors : editor[c] = NoEdit)

\* executeHardPurge "must lock/revalidate the complete relation boundary":
\* what a purge takes from a document are references to documents it removes.
NullifiesOnlyRemoved ==
    [][Removed # {} => \A s \in DOMAIN documents' :
          documents[s].refs \ documents'[s].refs \subseteq Removed]_vars

\* The same boundary on the other side: a document other than the named one is
\* removed only if it still has a cascading reference to a removed one.
CascadesOnlyReferencing ==
    [][\A d \in Removed : d # purge.root =>
          OnDelete[d] = "cascade" /\ documents[d].refs \cap Removed # {}]_vars
=============================================================================
