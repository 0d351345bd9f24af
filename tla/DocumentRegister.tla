--------------------------- MODULE DocumentRegister ----------------------------
(***************************************************************************)
(* What the document subsystem promises: a document is one register that   *)
(* every accepted request changes atomically, by applying one core command *)
(* (packages/core/src/document/commands.ts) to its current value and       *)
(* appending the event of that command.  The module Documents, with its    *)
(* two-step loads, hooks and conditional writes, implements it.            *)
(***************************************************************************)
EXTENDS DocumentAggregate, SequencesExt

CONSTANT MaxVersion    \* model bound: no command produces a higher version

VARIABLES doc,      \* the current aggregate, NoDocument before creation and after purge
          events    \* the domain events, in commit order

vars == <<doc, events>>

Exists == doc.version # 0

Record(type, next, now, revision) ==
  /\ next.version <= MaxVersion
  /\ doc' = next
  /\ events' = Append(events, Event(type, next, now, revision))

-------------------------------------------------------------------------------
Init == doc = NoDocument /\ events = <<>>

Create(c, data, now) ==
  /\ events = <<>>
  /\ LET next == Created(<<c, 1>>, data, now)
     IN Record("created", next, now, Latest(next).id)

(* update: a patch of one field, merged into the working revision. *)
Draft(c, f, v, now) ==
  LET id == <<c, doc.version + 1>>
      data == [WorkingRevision(doc).data EXCEPT ![f] = v]
      next == Drafted(doc, id, data, now)
  IN /\ Exists /\ CanDraft(doc, doc.version, id, now)
     /\ Record("draft-created", next, now, Latest(next).id)

Publish(now) ==
  /\ Exists /\ CanPublish(doc, doc.version, now)
  /\ Record("published", Published(doc, now), now, doc.identity.draft)

Unpublish(now) ==
  /\ Exists /\ CanUnpublish(doc, doc.version, now)
  /\ Record("unpublished", Unpublished(doc, now), now, doc.identity.publication)

RestoreRevision(c, i, now) ==
  LET id == <<c, doc.version + 1>>
      next == RevisionRestored(doc, doc.revisions[i].id, id, now)
  IN /\ Exists /\ CanRestoreRevision(doc, doc.version, doc.revisions[i].id, id, now)
     /\ Record("revision-restored", next, now, Latest(next).id)

Archive(now) ==
  /\ Exists /\ CanArchive(doc, doc.version, now)
  /\ Record("archived", Archived(doc, now), now, NoRevision)

Unarchive(now) ==
  /\ Exists /\ CanUnarchive(doc, doc.version, now)
  /\ Record("unarchived", Unarchived(doc, now), now, NoRevision)

SoftDelete(now) ==
  /\ Exists /\ CanDelete(doc, doc.version, now)
  /\ Record("deleted", SoftDeleted(doc, now), now, NoRevision)

RestoreDeleted(now) ==
  /\ Exists /\ CanRestoreDeleted(doc, doc.version, now)
  /\ Record("restored", DeletedRestored(doc, now), now, NoRevision)

(* Hard purge of a soft-deleted document: the row and its revisions go, and *)
(* the event carries the version of the removed document, not a new one.    *)
Purge(now) ==
  /\ Exists /\ IsDeleted(doc)
  /\ doc' = NoDocument
  /\ events' = Append(events, Event("purged", doc, now, NoRevision))

Next ==
  \E now \in Instants :
    \/ \E c \in Clients, data \in Data : Create(c, data, now)
    \/ \E c \in Clients, f \in Fields, v \in Values : Draft(c, f, v, now)
    \/ Publish(now)
    \/ Unpublish(now)
    \/ \E c \in Clients : \E i \in Indices(doc) : RestoreRevision(c, i, now)
    \/ Archive(now)
    \/ Unarchive(now)
    \/ SoftDelete(now)
    \/ RestoreDeleted(now)
    \/ Purge(now)

Spec == Init /\ [][Next]_vars

-------------------------------------------------------------------------------
(* Editing is invisible to public readers: the revision they see changes    *)
(* only with a publish, unpublish, archive or delete command or its inverse.*)
EditsStayPrivate ==
  [][PublicId(doc') # PublicId(doc) =>
       Last(events').type \notin {"created", "draft-created", "revision-restored"}]_vars
================================================================================
