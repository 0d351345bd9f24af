--------------------------- MODULE DocumentAggregate ---------------------------
(***************************************************************************)
(* The document aggregate of packages/core/src/document: one document with *)
(* its revisions, and the pure commands that map an aggregate to the next  *)
(* one.  No variables: the modules Documents and DocumentRegister apply    *)
(* these operators to their own state.                                     *)
(*                                                                         *)
(* Representation.  Instants are positive naturals; 0 (Never) stands for a *)
(* null timestamp, so that "publication", "lifecycle" and "deletion" are   *)
(* the instants at which the document was published, archived or deleted.  *)
(* A revision id is the pair of the client that minted it and the version  *)
(* its command produced: a client commits at most one command per version, *)
(* so the pairs are as unique as the UUIDs they stand for.  The data of a  *)
(* revision is a function from fields to values.                           *)
(***************************************************************************)
EXTENDS Integers, Sequences

CONSTANTS Clients,      \* the requests that may run concurrently
          Fields,       \* field names of the collection
          Values,       \* values a field may hold
          NoRevision,   \* a null revision id
          Instants      \* the UTC instants clocks may show

RevisionIds == Clients \X (Nat \ {0})

ASSUME NoRevisionAssumption == NoRevision \notin RevisionIds
ASSUME InstantsAssumption == Instants \subseteq Nat \ {0}

Never == 0
Data == [Fields -> Values]
OriginKinds == {"create", "edit", "restore"}

Revisions ==
  [id : RevisionIds, sequence : Nat \ {0}, parent : RevisionIds \cup {NoRevision},
   kind : OriginKinds, source : RevisionIds \cup {NoRevision},
   data : Data, createdAt : Instants]

Identities ==
  [draft : RevisionIds \cup {NoRevision},
   publication : RevisionIds \cup {NoRevision}, publishedAt : Nat,
   archivedAt : Nat, deletedAt : Nat, createdAt : Instants, updatedAt : Instants]

Aggregates == [identity : Identities, revisions : Seq(Revisions), version : Nat]

-------------------------------------------------------------------------------
Indices(a) == 1 .. Len(a.revisions)
Latest(a) == a.revisions[Len(a.revisions)]
HasRevision(a, id) == \E i \in Indices(a) : a.revisions[i].id = id
RevisionOf(a, id) == a.revisions[CHOOSE i \in Indices(a) : a.revisions[i].id = id]

IsDeleted(a) == a.identity.deletedAt # Never
IsArchived(a) == a.identity.archivedAt # Never
WorkingId(a) == IF a.identity.draft # NoRevision
                THEN a.identity.draft ELSE a.identity.publication
WorkingRevision(a) == RevisionOf(a, WorkingId(a))

(* The revisions of an aggregate form one chain: numbered from 1, each the *)
(* child of the one before, ids distinct, created in order.                *)
LinkOK(a, i) ==
  LET r == a.revisions[i] IN
  /\ r.sequence = i
  /\ \A j \in Indices(a) : a.revisions[j].id = r.id => j = i
  /\ i = 1 => /\ r.parent = NoRevision
              /\ r.kind = "create"
              /\ r.createdAt = a.identity.createdAt
  /\ i > 1 => /\ r.parent = a.revisions[i - 1].id
              /\ r.kind # "create"
              /\ a.revisions[i - 1].createdAt <= r.createdAt
  /\ r.kind = "restore" => \E j \in 1 .. (i - 1) : a.revisions[j].id = r.source
  /\ r.createdAt <= a.identity.updatedAt

RevisionChainOK(a) == \A i \in Indices(a) : LinkOK(a, i)

PointersOK(a) ==
  LET d == a.identity.draft
      p == a.identity.publication
  IN /\ d # NoRevision => d = Latest(a).id
     /\ p # NoRevision => HasRevision(a, p)
     /\ d # NoRevision \/ p # NoRevision
     /\ d # p
     /\ d = NoRevision => p = Latest(a).id

ChronologyOK(a) ==
  LET identity == a.identity IN
  /\ identity.createdAt <= identity.updatedAt
  /\ identity.publication # NoRevision =>
       /\ RevisionOf(a, identity.publication).createdAt <= identity.publishedAt
       /\ identity.publishedAt <= identity.updatedAt
  /\ IsArchived(a) => identity.archivedAt \in identity.createdAt .. identity.updatedAt
  /\ IsDeleted(a) => identity.deletedAt \in identity.createdAt .. identity.updatedAt

(* assertDocumentInvariants: what every load and every command asserts. *)
AggregateOK(a) ==
  /\ Len(a.revisions) >= 1
  /\ a.version >= 1
  /\ a.version >= Len(a.revisions)
  /\ RevisionChainOK(a)
  /\ PointersOK(a)
  /\ ChronologyOK(a)

-------------------------------------------------------------------------------
(* Guards of the commands.  Each takes the version the caller expects.     *)
AtVersion(a, expected, now) ==
  /\ AggregateOK(a)
  /\ a.version = expected
  /\ now >= a.identity.updatedAt

Mutable(a, expected, now) ==
  /\ AtVersion(a, expected, now)
  /\ ~IsDeleted(a)
  /\ ~IsArchived(a)

CanDraft(a, expected, id, now) == Mutable(a, expected, now) /\ ~HasRevision(a, id)
CanPublish(a, expected, now) == Mutable(a, expected, now) /\ a.identity.draft # NoRevision
CanUnpublish(a, expected, now) ==
  Mutable(a, expected, now) /\ a.identity.publication # NoRevision
CanRestoreRevision(a, expected, source, id, now) ==
  CanDraft(a, expected, id, now) /\ HasRevision(a, source)
CanArchive(a, expected, now) ==
  AtVersion(a, expected, now) /\ ~IsDeleted(a) /\ ~IsArchived(a)
CanUnarchive(a, expected, now) ==
  AtVersion(a, expected, now) /\ ~IsDeleted(a) /\ IsArchived(a)
CanDelete(a, expected, now) == AtVersion(a, expected, now) /\ ~IsDeleted(a)
CanRestoreDeleted(a, expected, now) == AtVersion(a, expected, now) /\ IsDeleted(a)

-------------------------------------------------------------------------------
(* Results of the commands. *)
Created(id, data, now) ==
  [identity |-> [draft |-> id, publication |-> NoRevision, publishedAt |-> Never,
                 archivedAt |-> Never, deletedAt |-> Never,
                 createdAt |-> now, updatedAt |-> now],
   revisions |-> <<[id |-> id, sequence |-> 1, parent |-> NoRevision, kind |-> "create",
                    source |-> NoRevision, data |-> data, createdAt |-> now]>>,
   version |-> 1]

Stamped(a, identity, now) ==
  [identity |-> [identity EXCEPT !.updatedAt = now],
   revisions |-> a.revisions, version |-> a.version + 1]

\* Mutant of WithRevision: the new revision overwrites the latest one.
WithRevisionReplaced(a, id, kind, source, data, now) ==
  [Stamped(a, [a.identity EXCEPT !.draft = id], now) EXCEPT
     !.revisions = [@ EXCEPT ![Len(a.revisions)].id = id,
                                  ![Len(a.revisions)].data = data]]

WithRevision(a, id, kind, source, data, now) ==
  [Stamped(a, [a.identity EXCEPT !.draft = id], now) EXCEPT
     !.revisions = Append(@, [id |-> id, sequence |-> Len(a.revisions) + 1,
                              parent |-> WorkingId(a), kind |-> kind,
                              source |-> source, data |-> data, createdAt |-> now])]

\* Mutant of Drafted: saving a published document publishes the edit.
DraftedPublic(a, id, data, now) ==
  LET next == WithRevision(a, id, "edit", NoRevision, data, now)
  IN  IF a.identity.publication = NoRevision THEN next
      ELSE [next EXCEPT !.identity.draft = NoRevision, !.identity.publication = id,
                        !.identity.publishedAt = now]

Drafted(a, id, data, now) == WithRevision(a, id, "edit", NoRevision, data, now)

Published(a, now) ==
  Stamped(a, [a.identity EXCEPT !.draft = NoRevision,
                                !.publication = a.identity.draft,
                                !.publishedAt = now], now)

Unpublished(a, now) ==
  Stamped(a, [a.identity EXCEPT !.draft = WorkingId(a),
                                !.publication = NoRevision,
                                !.publishedAt = Never], now)

RevisionRestored(a, source, id, now) ==
  WithRevision(a, id, "restore", source, RevisionOf(a, source).data, now)

Archived(a, now) == Stamped(a, [a.identity EXCEPT !.archivedAt = now], now)
Unarchived(a, now) == Stamped(a, [a.identity EXCEPT !.archivedAt = Never], now)

SoftDeleted(a, now) == Stamped(a, [a.identity EXCEPT !.deletedAt = now], now)
DeletedRestored(a, now) == Stamped(a, [a.identity EXCEPT !.deletedAt = Never], now)

-------------------------------------------------------------------------------
(* No document: before its creation and after its purge. *)
NoDocument ==
  [identity |-> [draft |-> NoRevision, publication |-> NoRevision, publishedAt |-> Never,
                 archivedAt |-> Never, deletedAt |-> Never,
                 createdAt |-> Never, updatedAt |-> Never],
   revisions |-> <<>>, version |-> 0]

EventTypes == {"created", "draft-created", "published", "unpublished", "revision-restored",
               "archived", "unarchived", "deleted", "restored", "purged"}

(* A domain event: what happened, the version it produced, and the revision *)
(* id named by its payload (null when it names none).                      *)
Event(type, next, now, revision) ==
  [type |-> type, version |-> next.version, at |-> now, revision |-> revision]

Events == [type : EventTypes, version : Nat, at : Instants,
           revision : RevisionIds \cup {NoRevision}]

(* What a consumer of the events (search, webhooks) can know of a document:  *)
(* version, pointers, deletion and how many revisions there are.             *)
ViewOf(a) ==
  [version |-> a.version, draft |-> a.identity.draft,
   publication |-> a.identity.publication, deleted |-> IsDeleted(a),
   length |-> Len(a.revisions)]

(* The view of a consumer that had s and then handles the event e.           *)
Handled(s, e) ==
  [version |-> IF e.type = "purged" THEN 0 ELSE e.version,
   draft |-> CASE e.type \in {"created", "draft-created", "revision-restored"} -> e.revision
               [] e.type \in {"published", "purged"} -> NoRevision
               [] e.type = "unpublished" /\ s.draft = NoRevision -> e.revision
               [] OTHER -> s.draft,
   publication |-> CASE e.type = "published" -> e.revision
                     [] e.type \in {"unpublished", "purged"} -> NoRevision
                     [] OTHER -> s.publication,
   deleted |-> CASE e.type = "deleted" -> TRUE
                 [] e.type \in {"restored", "purged"} -> FALSE
                 [] OTHER -> s.deleted,
   length |-> CASE e.type \in {"created", "draft-created", "revision-restored"} -> s.length + 1
                [] e.type = "purged" -> 0
                [] OTHER -> s.length]

(* The view after the first n events of a history.                           *)
Replayed(history, n) ==
  LET replay[i \in 0 .. n] ==
        IF i = 0 THEN ViewOf(NoDocument) ELSE Handled(replay[i - 1], history[i])
  IN replay[n]

(* getPublicRevision: what an unauthenticated reader may see. *)
PublicId(a) ==
  IF IsDeleted(a) \/ IsArchived(a) THEN NoRevision ELSE a.identity.publication
================================================================================
