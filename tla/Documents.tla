------------------------------- MODULE Documents -------------------------------
(***************************************************************************)
(* Concurrent requests on one document: DocumentApplicationService         *)
(* (packages/application/src/documents.ts) over the PostgreSQL stores      *)
(* (packages/database/src/postgres).  A request                            *)
(*   1. loads the identity row, then, in a second query without a shared   *)
(*      snapshot, the revision rows, and asserts the aggregate invariants; *)
(*   2. authorizes, runs hooks, and applies a core command to its copy;    *)
(*   3. writes the result in one transaction, conditional on the version   *)
(*      it started from, with the event and its outbox row.                *)
(* Other requests run between these steps, and a request may end early at  *)
(* any of them (an error, a rejected hook, a crashed process).             *)
(***************************************************************************)
EXTENDS DocumentAggregate

CONSTANT MaxVersion    \* model bound: no request starts a command past this version

ASSUME MaxVersionAssumption == MaxVersion \in Nat

VARIABLES row,       \* row of _xecms_documents: identity and aggregate_version
          table,     \* rows of _xecms_document_revisions, by sequence
          outbox,    \* the rows of _xecms_outbox_events of this document
          phase,     \* client -> step its request is at
          copy,      \* client -> aggregate it read
          result,    \* client -> aggregate its command produced
          event      \* client -> event its command produced

store == <<row, table, outbox>>
clientVars == <<phase, copy, result, event>>
vars == <<row, table, outbox, phase, copy, result, event>>

Register == INSTANCE DocumentRegister WITH
              doc <- [identity |-> row.identity, revisions |-> table, version |-> row.version],
              events <- outbox

NoRow == [identity |-> NoDocument.identity, version |-> 0]
NoEvent == [type |-> "none", version |-> 0, at |-> Never, revision |-> NoRevision]

(* hydrateAggregate: one aggregate out of an identity row and revision rows. *)
Assembled(r, revisions) ==
  [identity |-> r.identity, revisions |-> revisions, version |-> r.version]
Stored == Assembled(row, table)
Exists == row.version # 0

Phases == {"idle", "reading", "loaded", "prepared", "defect"}

-------------------------------------------------------------------------------
Init ==
  /\ row = NoRow
  /\ table = <<>>
  /\ outbox = <<>>
  /\ phase = [c \in Clients |-> "idle"]
  /\ copy = [c \in Clients |-> NoDocument]
  /\ result = [c \in Clients |-> NoDocument]
  /\ event = [c \in Clients |-> NoEvent]

(* The request of c is over: nothing it read or computed is kept. *)
Finish(c) ==
  /\ phase' = [phase EXCEPT ![c] = "idle"]
  /\ copy' = [copy EXCEPT ![c] = NoDocument]
  /\ result' = [result EXCEPT ![c] = NoDocument]
  /\ event' = [event EXCEPT ![c] = NoEvent]

(* create: the document id is new, so nobody else can refer to the document *)
(* before the transaction that inserts it commits.                          *)
CreateDocument(c, data, now) ==
  /\ phase[c] = "idle"
  /\ outbox = <<>>
  /\ MaxVersion >= 1
  /\ LET next == Created(<<c, 1>>, data, now)
     IN /\ row' = [identity |-> next.identity, version |-> next.version]
        /\ table' = next.revisions
        /\ outbox' = <<Event("created", next, now, Latest(next).id)>>
  /\ UNCHANGED clientVars

(* loadDocument, first query.  A missing row is a 404 and changes nothing. *)
LoadIdentity(c) ==
  /\ phase[c] = "idle"
  /\ Exists
  /\ phase' = [phase EXCEPT ![c] = "reading"]
  /\ copy' = [copy EXCEPT ![c] = Assembled(row, <<>>)]
  /\ UNCHANGED <<store, result, event>>

\* Mutant of LoadRevisions: what was read is not asserted.
LoadUnasserted(c) ==
  /\ phase[c] = "reading"
  /\ phase' = [phase EXCEPT ![c] = "loaded"]
  /\ copy' = [copy EXCEPT ![c] = Assembled(copy[c], table)]
  /\ UNCHANGED <<store, result, event>>

(* loadDocument, second query, and assertDocumentInvariants. *)
LoadRevisions(c) ==
  LET loaded == Assembled(copy[c], table)
  IN /\ phase[c] = "reading"
     /\ IF AggregateOK(loaded)
        THEN /\ phase' = [phase EXCEPT ![c] = "loaded"]
             /\ copy' = [copy EXCEPT ![c] = loaded]
             /\ UNCHANGED <<result, event>>
        ELSE Finish(c)
     /\ UNCHANGED store

(* finalize: the command's result is asserted before anything is written.  *)
(* A failed assertion is a defect of the command, kept visible as a phase.  *)
Prepare(c, type, next, now, revision) ==
  /\ phase[c] = "loaded"
  /\ copy[c].version < MaxVersion
  /\ phase' = [phase EXCEPT ![c] = IF AggregateOK(next) THEN "prepared" ELSE "defect"]
  /\ result' = [result EXCEPT ![c] = next]
  /\ event' = [event EXCEPT ![c] = Event(type, next, now, revision)]
  /\ UNCHANGED <<store, copy>>

(* The version a request expects is the one it loaded: any other value is  *)
(* rejected (documentConflict, assertExpectedVersion) before the command.  *)
Expected(c) == copy[c].version
NewId(c) == <<c, Expected(c) + 1>>
Visible(c) == ~IsDeleted(copy[c])

Update(c, f, v, now) ==
  LET data == [WorkingRevision(copy[c]).data EXCEPT ![f] = v]
      next == Drafted(copy[c], NewId(c), data, now)
  IN /\ phase[c] = "loaded" /\ Visible(c)
     /\ CanDraft(copy[c], Expected(c), NewId(c), now)
     /\ Prepare(c, "draft-created", next, now, NewId(c))

Publish(c, now) ==
  /\ phase[c] = "loaded" /\ Visible(c)
  /\ CanPublish(copy[c], Expected(c), now)
  /\ Prepare(c, "published", Published(copy[c], now), now, copy[c].identity.draft)

Unpublish(c, now) ==
  /\ phase[c] = "loaded" /\ Visible(c)
  /\ CanUnpublish(copy[c], Expected(c), now)
  /\ Prepare(c, "unpublished", Unpublished(copy[c], now), now, copy[c].identity.publication)

RestoreRevision(c, i, now) ==
  LET source == copy[c].revisions[i].id
  IN /\ phase[c] = "loaded" /\ Visible(c)
     /\ CanRestoreRevision(copy[c], Expected(c), source, NewId(c), now)
     /\ Prepare(c, "revision-restored",
                RevisionRestored(copy[c], source, NewId(c), now), now, NewId(c))

Delete(c, now) ==
  /\ phase[c] = "loaded" /\ Visible(c)
  /\ CanDelete(copy[c], Expected(c), now)
  /\ Prepare(c, "deleted", SoftDeleted(copy[c], now), now, NoRevision)

RestoreDeleted(c, now) ==
  /\ phase[c] = "loaded"
  /\ CanRestoreDeleted(copy[c], Expected(c), now)
  /\ Prepare(c, "restored", DeletedRestored(copy[c], now), now, NoRevision)

(* purge: the preparation keeps the aggregate it loaded; its event carries  *)
(* that aggregate's version.                                                *)
PreparePurge(c, now) ==
  /\ phase[c] = "loaded"
  /\ IsDeleted(copy[c])
  /\ phase' = [phase EXCEPT ![c] = "prepared"]
  /\ result' = [result EXCEPT ![c] = copy[c]]
  /\ event' = [event EXCEPT ![c] = Event("purged", copy[c], now, NoRevision)]
  /\ UNCHANGED <<store, copy>>

-------------------------------------------------------------------------------
(* updateDocument: UPDATE ... WHERE aggregate_version = expected, then the  *)
(* newest revision unless it is already stored, then event and outbox row,  *)
(* in one transaction.                                                      *)
VersionMatches(c) == row.version = Expected(c)

\* Mutant of CommitUpdate: the update is not conditional on the version.
CommitUnconditionally(c) ==
  /\ phase[c] = "prepared"
  /\ event[c].type # "purged"
  /\ Exists
  /\ row' = [identity |-> result[c].identity, version |-> result[c].version]
  /\ table' = IF HasRevision(Stored, Latest(result[c]).id)
              THEN table ELSE Append(table, Latest(result[c]))
  /\ outbox' = Append(outbox, event[c])
  /\ Finish(c)

CommitUpdate(c) ==
  /\ phase[c] = "prepared"
  /\ event[c].type # "purged"
  /\ VersionMatches(c)
  /\ row' = [identity |-> result[c].identity, version |-> result[c].version]
  /\ table' = IF HasRevision(Stored, Latest(result[c]).id)
              THEN table ELSE Append(table, Latest(result[c]))
  /\ outbox' = Append(outbox, event[c])
  /\ Finish(c)

(* executeHardPurge under the row lock: version and deletion are compared   *)
(* again, the row is deleted and its revisions cascade.                     *)
CommitPurge(c) ==
  /\ phase[c] = "prepared"
  /\ event[c].type = "purged"
  /\ VersionMatches(c)
  /\ IsDeleted(Stored) /\ IsDeleted(result[c])
  /\ row' = NoRow
  /\ table' = <<>>
  /\ outbox' = Append(outbox, event[c])
  /\ Finish(c)

(* The request ends without a write: a version conflict, a denied           *)
(* capability, a failing hook, a lost connection or a crash.                *)
Abort(c) ==
  /\ phase[c] # "idle"
  /\ Finish(c)
  /\ UNCHANGED store

Next ==
  \E c \in Clients :
    \/ LoadIdentity(c)
    \/ LoadRevisions(c)
    \/ CommitUpdate(c)
    \/ CommitPurge(c)
    \/ Abort(c)
    \/ \E now \in Instants :
         \/ \E data \in Data : CreateDocument(c, data, now)
         \/ \E f \in Fields, v \in Values : Update(c, f, v, now)
         \/ Publish(c, now)
         \/ Unpublish(c, now)
         \/ \E i \in Indices(copy[c]) : RestoreRevision(c, i, now)
         \/ Delete(c, now)
         \/ RestoreDeleted(c, now)
         \/ PreparePurge(c, now)

Spec == Init /\ [][Next]_vars

-------------------------------------------------------------------------------
\* The shape of the document, of what every request holds and of the log.
TypeOK ==
  /\ Stored \in Aggregates \/ Stored = NoDocument
  /\ outbox \in Seq(Events)
  /\ phase \in [Clients -> Phases]
  /\ copy \in [Clients -> Aggregates \cup {NoDocument}]
  /\ result \in [Clients -> Aggregates \cup {NoDocument}]
  /\ event \in [Clients -> Events \cup {NoEvent}]
  /\ \A c \in Clients :
       /\ phase[c] # "idle" => copy[c] \in Aggregates
       /\ phase[c] = "prepared" => result[c] \in Aggregates /\ event[c] \in Events

(* The assertion that ends every core command (finalize) never fails on a   *)
(* copy that passed the assertion of the load: commands preserve            *)
(* assertDocumentInvariants, so a request never dies with a 500 halfway.    *)
NoDefect == \A c \in Clients : phase[c] # "defect"

(* What is stored always satisfies assertDocumentInvariants: no            *)
(* interleaving of requests leaves a document no later load would accept.   *)
StoredOK == Exists => AggregateOK(Stored)

(* A load that passes its assertion saw one committed state, although it is *)
(* two queries without a snapshot: a copy torn by a concurrent commit or    *)
(* purge is always rejected.  The state committed with the n-th version is  *)
(* what the first n events of the outbox tell.                              *)
LoadsAreNotTorn ==
  \A c \in Clients : phase[c] \in {"loaded", "prepared"} =>
    /\ copy[c].version <= Len(outbox)
    /\ Replayed(outbox, copy[c].version) = ViewOf(copy[c])

(* The conditional update is enough to exclude lost updates: a request whose *)
(* expected version still matches holds exactly the stored document, so      *)
(* overwriting the row discards nothing another request committed.  What     *)
(* makes this and NoDefect inductive is that a request never holds a version *)
(* newer than the stored one, that its identity row is the stored one while  *)
(* the versions agree (whatever the second query then reads), and that a     *)
(* prepared result extends the copy by at most one new revision.             *)
CopyInv(c) ==
  /\ phase[c] # "defect"
  /\ phase[c] # "idle" => /\ copy[c].version >= 1
                          /\ outbox # <<>>
                          /\ copy[c].version <= row.version \/ ~Exists
  /\ phase[c] = "reading" /\ VersionMatches(c) => copy[c].identity = row.identity
  /\ phase[c] \in {"loaded", "prepared"} =>
       /\ AggregateOK(copy[c])
       /\ VersionMatches(c) => copy[c] = Stored

Extends(b, a) ==
  /\ b.version = a.version + 1
  /\ \/ b.revisions = a.revisions
     \/ /\ b.revisions = Append(a.revisions, Latest(b))
        /\ Latest(b) \in Revisions
        /\ ~HasRevision(a, Latest(b).id)

ResultInv(c) ==
  phase[c] = "prepared" /\ event[c].type # "purged" =>
    AggregateOK(result[c]) /\ Extends(result[c], copy[c])

Inv ==
  /\ TypeOK
  /\ StoredOK
  /\ Exists => outbox # <<>>
  /\ \A c \in Clients : CopyInv(c) /\ ResultInv(c)

(* The two-step, optimistic implementation behaves as one atomic register.  *)
Linearizable == Register!Spec

(* Whoever replays the outbox in order has the version, the pointers and the *)
(* deletion of the stored document, whichever requests wrote it.             *)
EventsDetermineDocument == Replayed(outbox, Len(outbox)) = ViewOf(Stored)

\* The events a consumer reads tell the state: the whole stream that of the
\* stored document, its prefix that of the copy each request has loaded.
EventsTellTheState == EventsDetermineDocument /\ LoadsAreNotTorn

(* What public readers see changes only with a publish, unpublish, archive   *)
(* or delete command or its inverse, never with an edit or a restored        *)
(* revision that ran beside it.                                              *)
EditsStayPrivate == Register!EditsStayPrivate
================================================================================
