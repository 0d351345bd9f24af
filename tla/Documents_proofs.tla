--------------------------- MODULE Documents_proofs ----------------------------
(***************************************************************************)
(* The invariants of concurrent requests on a document, for any number of  *)
(* clients, fields, values, instants and versions, and of those that edit  *)
(* a content tree.                                                         *)
(***************************************************************************)
EXTENDS Documents, ContentEditors, NaturalRecursion, FiniteSetTheorems,
        SequenceTheorems, TLAPS

(***************************************************************************)
(* Every core command preserves assertDocumentInvariants: applied to an    *)
(* aggregate that satisfies it, in a state its guard accepts, the command  *)
(* yields an aggregate that satisfies it again.                            *)
(***************************************************************************)

LEMMA Typed ==
  ASSUME NEW a \in Aggregates
  PROVE  /\ a.version \in Nat
         /\ Len(a.revisions) \in Nat
         /\ a.identity \in Identities
         /\ a.identity.createdAt \in Nat /\ a.identity.updatedAt \in Nat
         /\ a.identity.publishedAt \in Nat
         /\ a.identity.archivedAt \in Nat /\ a.identity.deletedAt \in Nat
         /\ \A i \in Indices(a) : /\ a.revisions[i] \in Revisions
                                  /\ a.revisions[i].id \in RevisionIds
                                  /\ a.revisions[i].createdAt \in Nat
<1>1. a.identity \in Identities /\ a.revisions \in Seq(Revisions) /\ a.version \in Nat
  BY DEF Aggregates
<1>2. /\ a.identity.createdAt \in Nat /\ a.identity.updatedAt \in Nat
      /\ a.identity.publishedAt \in Nat
      /\ a.identity.archivedAt \in Nat /\ a.identity.deletedAt \in Nat
  BY <1>1, InstantsAssumption DEF Identities
<1>3. ASSUME NEW i \in Indices(a)
      PROVE  a.revisions[i] \in Revisions
  BY <1>1 DEF Indices
<1>4. ASSUME NEW r \in Revisions
      PROVE  r.id \in RevisionIds /\ r.createdAt \in Nat
  BY InstantsAssumption DEF Revisions
<1> QED BY <1>1, <1>2, <1>3, <1>4

(* What the guards and the type of an aggregate say about its parts. *)
LEMMA Parts ==
  ASSUME NEW a \in Aggregates, AggregateOK(a)
  PROVE  /\ a.revisions \in Seq(Revisions)
         /\ Len(a.revisions) \in Nat \ {0}
         /\ Latest(a) \in Revisions
         /\ \A i \in Indices(a) : a.revisions[i] \in Revisions
         /\ a.identity \in Identities
         /\ a.version \in Nat \ {0}
  BY DEF Aggregates, AggregateOK, Latest, Indices

(* The working revision is always the latest one. *)
LEMMA WorkingIsLatest ==
  ASSUME NEW a \in Aggregates, AggregateOK(a)
  PROVE  /\ WorkingId(a) = Latest(a).id
         /\ WorkingId(a) \in RevisionIds
<1>1. WorkingId(a) = Latest(a).id
  BY DEF AggregateOK, PointersOK, WorkingId
<1>2. Latest(a).id \in RevisionIds
  BY Parts DEF Revisions
<1> QED BY <1>1, <1>2

LEMMA RevisionOfIndex ==
  ASSUME NEW a \in Aggregates, RevisionChainOK(a), NEW i \in Indices(a)
  PROVE  RevisionOf(a, a.revisions[i].id) = a.revisions[i]
<1> DEFINE P(j) == j \in Indices(a) /\ a.revisions[j].id = a.revisions[i].id
           k == CHOOSE j \in Indices(a) : a.revisions[j].id = a.revisions[i].id
<1>1. k \in Indices(a) /\ a.revisions[k].id = a.revisions[i].id
  OBVIOUS
<1>2. k = i
  BY <1>1 DEF RevisionChainOK, LinkOK
<1> QED BY <1>2 DEF RevisionOf

(* Commands that keep the revisions keep the chain. *)
LEMMA ChainKept ==
  ASSUME NEW a \in Aggregates, NEW b \in Aggregates, RevisionChainOK(a),
         b.revisions = a.revisions,
         b.identity.createdAt = a.identity.createdAt,
         a.identity.updatedAt <= b.identity.updatedAt
  PROVE  RevisionChainOK(b)
<1> SUFFICES ASSUME NEW i \in Indices(b)
             PROVE  LinkOK(b, i)
  BY DEF RevisionChainOK
<1>1. i \in Indices(a) /\ Indices(a) = Indices(b)
  BY DEF Indices
<1>2. a.revisions[i].createdAt <= a.identity.updatedAt
  BY <1>1 DEF RevisionChainOK, LinkOK
<1>3. /\ a.revisions[i].createdAt \in Nat
      /\ a.identity.updatedAt \in Nat
      /\ b.identity.updatedAt \in Nat
  BY <1>1, Typed
<1>4. b.revisions[i].createdAt <= b.identity.updatedAt
  BY <1>2, <1>3
<1> QED BY <1>1, <1>4 DEF RevisionChainOK, LinkOK

(* The publication of an aggregate and of one that extends its revisions is *)
(* the same revision.                                                       *)
LEMMA PublicationKept ==
  ASSUME NEW a \in Aggregates, NEW b \in Aggregates,
         RevisionChainOK(a), RevisionChainOK(b),
         Len(a.revisions) <= Len(b.revisions),
         \A i \in Indices(a) : b.revisions[i] = a.revisions[i],
         NEW id, HasRevision(a, id)
  PROVE  HasRevision(b, id) /\ RevisionOf(b, id) = RevisionOf(a, id)
<1>1. PICK i \in Indices(a) : a.revisions[i].id = id
  BY DEF HasRevision
<1>2. i \in Indices(b) /\ b.revisions[i] = a.revisions[i]
  BY Typed DEF Indices
<1>3. RevisionOf(a, id) = a.revisions[i]
  BY <1>1, RevisionOfIndex
<1>4. RevisionOf(b, id) = b.revisions[i]
  BY <1>1, <1>2, RevisionOfIndex
<1> QED BY <1>1, <1>2, <1>3, <1>4 DEF HasRevision

(* Commands that append a revision: createDraft and restoreRevision. *)
LEMMA ChainExtended ==
  ASSUME NEW a \in Aggregates, NEW b \in Aggregates, NEW r \in Revisions,
         AggregateOK(a),
         b.revisions = Append(a.revisions, r),
         b.identity.createdAt = a.identity.createdAt,
         a.identity.updatedAt <= b.identity.updatedAt,
         r.sequence = Len(a.revisions) + 1,
         r.parent = Latest(a).id,
         r.kind # "create",
         r.kind = "restore" => HasRevision(a, r.source),
         r.createdAt = b.identity.updatedAt,
         ~HasRevision(a, r.id)
  PROVE  RevisionChainOK(b)
<1> DEFINE n == Len(a.revisions)
<1>1. /\ a.revisions \in Seq(Revisions) /\ n \in Nat \ {0}
      /\ Len(b.revisions) = n + 1
      /\ b.revisions[n + 1] = r
      /\ \A i \in 1 .. n : b.revisions[i] = a.revisions[i]
  BY Parts
<1>2. Indices(a) = 1 .. n /\ Indices(b) = 1 .. (n + 1)
  BY <1>1 DEF Indices
<1>3. RevisionChainOK(a)
  BY DEF AggregateOK
<1>4. \A i \in 1 .. n : a.revisions[i].createdAt <= b.identity.updatedAt
  <2> TAKE i \in 1 .. n
  <2>1. a.revisions[i].createdAt <= a.identity.updatedAt
    BY <1>2, <1>3 DEF RevisionChainOK, LinkOK
  <2>2. /\ a.revisions[i].createdAt \in Nat
        /\ a.identity.updatedAt \in Nat /\ b.identity.updatedAt \in Nat
    BY <1>2, Typed
  <2> QED BY <2>1, <2>2
<1>5. \A i \in 1 .. n : a.revisions[i].id # r.id
  BY <1>2 DEF HasRevision
<1>6. ASSUME NEW i \in 1 .. (n + 1)
      PROVE  LinkOK(b, i)
  <2>1. CASE i \in 1 .. n
    <3>1. b.revisions[i] = a.revisions[i]
      BY <1>1, <2>1
    <3>2. \A j \in Indices(b) : b.revisions[j].id = b.revisions[i].id => j = i
      <4> TAKE j \in Indices(b)
      <4>1. CASE j \in 1 .. n
        BY <4>1, <3>1, <2>1, <1>1, <1>2, <1>3 DEF RevisionChainOK, LinkOK
      <4>2. CASE j = n + 1
        BY <4>2, <3>1, <2>1, <1>1, <1>5
      <4> QED BY <4>1, <4>2, <1>1, <1>2
    <3>3. i > 1 => b.revisions[i - 1] = a.revisions[i - 1]
      BY <1>1, <2>1
    <3>4. ASSUME a.revisions[i].kind = "restore"
          PROVE  \E j \in 1 .. (i - 1) : b.revisions[j].id = b.revisions[i].source
      <4>1. PICK j \in 1 .. (i - 1) : a.revisions[j].id = a.revisions[i].source
        BY <3>4, <2>1, <1>2, <1>3 DEF RevisionChainOK, LinkOK
      <4>2. j \in 1 .. n
        BY <2>1, <1>1
      <4> QED BY <4>1, <4>2, <3>1, <1>1
    <3> QED BY <3>1, <3>2, <3>3, <3>4, <2>1, <1>2, <1>3, <1>4 DEF RevisionChainOK, LinkOK
  <2>2. CASE i = n + 1
    <3>1. b.revisions[i] = r /\ i > 1 /\ i - 1 = n
      BY <2>2, <1>1
    <3>2. b.revisions[i - 1] = Latest(a)
      BY <3>1, <1>1 DEF Latest
    <3>3. \A j \in Indices(b) : b.revisions[j].id = b.revisions[i].id => j = i
      BY <3>1, <2>2, <1>1, <1>2, <1>5
    <3>4. Latest(a).createdAt <= r.createdAt
      BY <1>1, <1>4 DEF Latest
    <3>5. r.kind = "restore" => \E j \in 1 .. n : b.revisions[j].id = r.source
      BY <1>1, <1>2 DEF HasRevision
    <3>6. r.createdAt <= b.identity.updatedAt
      BY Typed
    <3>7. b.revisions[i].kind = "restore" =>
            \E j \in 1 .. (i - 1) : b.revisions[j].id = b.revisions[i].source
      BY <3>1, <3>5
    <3>8. /\ b.revisions[i].sequence = i
          /\ i # 1
          /\ b.revisions[i].parent = b.revisions[i - 1].id
          /\ b.revisions[i].kind # "create"
          /\ b.revisions[i - 1].createdAt <= b.revisions[i].createdAt
          /\ b.revisions[i].createdAt <= b.identity.updatedAt
      BY <3>1, <3>2, <3>4, <3>6, <2>2
    <3> QED BY <3>3, <3>7, <3>8 DEF LinkOK
  <2>3. i \in 1 .. n \/ i = n + 1
    BY <1>1
  <2> QED BY <2>1, <2>2, <2>3
<1>7. Indices(b) = 1 .. (n + 1)
  BY <1>2
<1> QED BY <1>6, <1>7 DEF RevisionChainOK

-------------------------------------------------------------------------------
(* The commands that keep the revisions: publish, unpublish, archive,       *)
(* unarchive, soft delete and restore.  What they share is that the stamp   *)
(* moves forward and the pointers and instants stay legal.                  *)
LEMMA RepointedOK ==
  ASSUME NEW a \in Aggregates, NEW b \in Aggregates, AggregateOK(a),
         b.revisions = a.revisions,
         b.version = a.version + 1,
         b.identity.createdAt = a.identity.createdAt,
         a.identity.updatedAt <= b.identity.updatedAt,
         \/ /\ b.identity.draft = a.identity.draft
            /\ b.identity.publication = a.identity.publication
            /\ b.identity.publishedAt = a.identity.publishedAt
         \/ /\ b.identity.draft = NoRevision
            /\ b.identity.publication = WorkingId(a)
            /\ b.identity.publishedAt = b.identity.updatedAt
         \/ /\ b.identity.draft = WorkingId(a)
            /\ b.identity.publication = NoRevision,
         b.identity.archivedAt \in {Never, a.identity.archivedAt, b.identity.updatedAt},
         b.identity.deletedAt \in {Never, a.identity.deletedAt, b.identity.updatedAt}
  PROVE  AggregateOK(b)
<1>1. RevisionChainOK(a) /\ PointersOK(a) /\ ChronologyOK(a)
  BY DEF AggregateOK
<1>2. RevisionChainOK(b)
  BY <1>1, ChainKept
<1>3. /\ Latest(b) = Latest(a) /\ Indices(b) = Indices(a)
      /\ \A id : HasRevision(b, id) <=> HasRevision(a, id)
      /\ \A id : RevisionOf(b, id) = RevisionOf(a, id)
  BY DEF Latest, Indices, HasRevision, RevisionOf
<1>4. /\ WorkingId(a) = Latest(a).id
      /\ WorkingId(a) # NoRevision
      /\ HasRevision(a, WorkingId(a))
      /\ RevisionOf(a, WorkingId(a)).createdAt \in Nat
      /\ RevisionOf(a, WorkingId(a)).createdAt <= a.identity.updatedAt
  <2>1. WorkingId(a) = Latest(a).id /\ WorkingId(a) \in RevisionIds
    BY WorkingIsLatest
  <2>2. Len(a.revisions) \in Indices(a)
    BY Parts DEF Indices
  <2>3. RevisionOf(a, WorkingId(a)) = a.revisions[Len(a.revisions)]
    BY <1>1, <2>1, <2>2, RevisionOfIndex DEF Latest
  <2> QED BY <1>1, <2>1, <2>2, <2>3, Typed, NoRevisionAssumption
             DEF HasRevision, Latest, RevisionChainOK, LinkOK
<1>5. PointersOK(b)
  BY <1>1, <1>3, <1>4 DEF PointersOK
<1>6. ChronologyOK(b)
  <2>1. /\ a.identity.createdAt \in Nat /\ a.identity.updatedAt \in Nat
        /\ a.identity.publishedAt \in Nat /\ b.identity.publishedAt \in Nat
        /\ a.identity.archivedAt \in Nat /\ a.identity.deletedAt \in Nat
        /\ b.identity.updatedAt \in Nat
    BY Typed
  <2>2. b.identity.createdAt <= b.identity.updatedAt
    BY <1>1, <2>1 DEF ChronologyOK
  <2>3. b.identity.publication # NoRevision =>
          /\ RevisionOf(b, b.identity.publication).createdAt <= b.identity.publishedAt
          /\ b.identity.publishedAt <= b.identity.updatedAt
    <3>1. CASE /\ b.identity.publication = a.identity.publication
               /\ b.identity.publishedAt = a.identity.publishedAt
      BY <3>1, <1>1, <1>3, <2>1 DEF ChronologyOK
    <3>2. CASE /\ b.identity.publication = WorkingId(a)
               /\ b.identity.publishedAt = b.identity.updatedAt
      BY <3>2, <1>3, <1>4, <2>1
    <3>3. CASE b.identity.publication = NoRevision
      BY <3>3
    <3> QED BY <3>1, <3>2, <3>3
  <2>4. b.identity.archivedAt # Never =>
          b.identity.archivedAt \in b.identity.createdAt .. b.identity.updatedAt
    BY <1>1, <2>1, <2>2 DEF ChronologyOK, IsArchived
  <2>5. b.identity.deletedAt # Never =>
          b.identity.deletedAt \in b.identity.createdAt .. b.identity.updatedAt
    BY <1>1, <2>1, <2>2 DEF ChronologyOK, IsDeleted
  <2> QED BY <2>2, <2>3, <2>4, <2>5 DEF ChronologyOK, IsArchived, IsDeleted
<1>7. /\ Len(b.revisions) >= 1
      /\ b.version >= 1
      /\ b.version >= Len(b.revisions)
  BY Parts DEF AggregateOK
<1> QED BY <1>2, <1>5, <1>6, <1>7 DEF AggregateOK

(* A command that only replaces the identity. *)
LEMMA StampedParts ==
  ASSUME NEW a \in Aggregates, NEW identity \in Identities, NEW now \in Instants
  PROVE  LET b == Stamped(a, identity, now) IN
         /\ b \in Aggregates
         /\ b.revisions = a.revisions
         /\ b.version = a.version + 1
         /\ b.identity = [identity EXCEPT !.updatedAt = now]
         /\ b.identity.updatedAt = now
<1>1. /\ [identity EXCEPT !.updatedAt = now] \in Identities
      /\ [identity EXCEPT !.updatedAt = now].updatedAt = now
  BY DEF Identities
<1>2. /\ a.revisions \in Seq(Revisions)
      /\ a.version + 1 \in Nat
  BY DEF Aggregates
<1> QED BY <1>1, <1>2 DEF Stamped, Aggregates

LEMMA IdentityCommandOK ==
  ASSUME NEW a \in Aggregates, AggregateOK(a),
         NEW identity \in Identities, NEW now \in Instants,
         a.identity.updatedAt <= now,
         identity.createdAt = a.identity.createdAt,
         \/ /\ identity.draft = a.identity.draft
            /\ identity.publication = a.identity.publication
            /\ identity.publishedAt = a.identity.publishedAt
         \/ /\ identity.draft = NoRevision
            /\ identity.publication = WorkingId(a)
            /\ identity.publishedAt = now
         \/ /\ identity.draft = WorkingId(a)
            /\ identity.publication = NoRevision,
         identity.archivedAt \in {Never, a.identity.archivedAt, now},
         identity.deletedAt \in {Never, a.identity.deletedAt, now}
  PROVE  /\ Stamped(a, identity, now) \in Aggregates
         /\ AggregateOK(Stamped(a, identity, now))
         /\ Stamped(a, identity, now).version = a.version + 1
         /\ Stamped(a, identity, now).revisions = a.revisions
<1> DEFINE b == Stamped(a, identity, now)
<1>1. /\ b \in Aggregates
      /\ b.revisions = a.revisions
      /\ b.version = a.version + 1
      /\ b.identity = [identity EXCEPT !.updatedAt = now]
      /\ b.identity.updatedAt = now
  BY StampedParts
<1>2. /\ b.identity.createdAt = identity.createdAt
      /\ b.identity.draft = identity.draft
      /\ b.identity.publication = identity.publication
      /\ b.identity.publishedAt = identity.publishedAt
      /\ b.identity.archivedAt = identity.archivedAt
      /\ b.identity.deletedAt = identity.deletedAt
  BY <1>1 DEF Identities
<1> HIDE DEF b
<1>3. AggregateOK(b)
  BY <1>1, <1>2, RepointedOK
<1> QED BY <1>1, <1>3 DEF b

LEMMA PublishedOK ==
  ASSUME NEW a \in Aggregates, NEW e, NEW now \in Instants, CanPublish(a, e, now)
  PROVE  /\ Published(a, now) \in Aggregates
         /\ AggregateOK(Published(a, now))
         /\ Published(a, now).version = a.version + 1
         /\ Published(a, now).revisions = a.revisions
<1> DEFINE identity == [a.identity EXCEPT !.draft = NoRevision, !.publication = a.identity.draft, !.publishedAt = now]
<1>1. /\ AggregateOK(a) /\ a.identity.updatedAt <= now
      /\ a.identity.draft = WorkingId(a)
  BY DEF CanPublish, Mutable, AtVersion, WorkingId
<1>2. a.identity \in Identities /\ WorkingId(a) \in RevisionIds
  BY <1>1, Typed, WorkingIsLatest
<1>3. /\ identity \in Identities
      /\ identity.createdAt = a.identity.createdAt
      /\ identity.draft = NoRevision
      /\ identity.publication = WorkingId(a)
      /\ identity.publishedAt = now
      /\ identity.archivedAt = a.identity.archivedAt
      /\ identity.deletedAt = a.identity.deletedAt
  BY <1>1, <1>2, InstantsAssumption DEF Identities, Never
<1>4. Published(a, now) = Stamped(a, identity, now)
  BY DEF Published
<1> HIDE DEF identity
<1> QED BY <1>1, <1>3, <1>4, IdentityCommandOK

LEMMA UnpublishedOK ==
  ASSUME NEW a \in Aggregates, NEW e, NEW now \in Instants, CanUnpublish(a, e, now)
  PROVE  /\ Unpublished(a, now) \in Aggregates
         /\ AggregateOK(Unpublished(a, now))
         /\ Unpublished(a, now).version = a.version + 1
         /\ Unpublished(a, now).revisions = a.revisions
<1> DEFINE identity == [a.identity EXCEPT !.draft = WorkingId(a), !.publication = NoRevision, !.publishedAt = Never]
<1>1. /\ AggregateOK(a) /\ a.identity.updatedAt <= now
  BY DEF CanUnpublish, Mutable, AtVersion
<1>2. a.identity \in Identities /\ WorkingId(a) \in RevisionIds
  BY <1>1, Typed, WorkingIsLatest
<1>3. /\ identity \in Identities
      /\ identity.createdAt = a.identity.createdAt
      /\ identity.draft = WorkingId(a)
      /\ identity.publication = NoRevision
      /\ identity.archivedAt = a.identity.archivedAt
      /\ identity.deletedAt = a.identity.deletedAt
  BY <1>1, <1>2, InstantsAssumption DEF Identities, Never
<1>4. Unpublished(a, now) = Stamped(a, identity, now)
  BY DEF Unpublished
<1> HIDE DEF identity
<1> QED BY <1>1, <1>3, <1>4, IdentityCommandOK

LEMMA SoftDeletedOK ==
  ASSUME NEW a \in Aggregates, NEW e, NEW now \in Instants, CanDelete(a, e, now)
  PROVE  /\ SoftDeleted(a, now) \in Aggregates
         /\ AggregateOK(SoftDeleted(a, now))
         /\ SoftDeleted(a, now).version = a.version + 1
         /\ SoftDeleted(a, now).revisions = a.revisions
<1> DEFINE identity == [a.identity EXCEPT !.deletedAt = now]
<1>1. /\ AggregateOK(a) /\ a.identity.updatedAt <= now
  BY DEF CanDelete, AtVersion
<1>2. a.identity \in Identities /\ WorkingId(a) \in RevisionIds
  BY <1>1, Typed, WorkingIsLatest
<1>3. /\ identity \in Identities
      /\ identity.createdAt = a.identity.createdAt
      /\ identity.draft = a.identity.draft
      /\ identity.publication = a.identity.publication
      /\ identity.publishedAt = a.identity.publishedAt
      /\ identity.archivedAt = a.identity.archivedAt
      /\ identity.deletedAt = now
  BY <1>1, <1>2, InstantsAssumption DEF Identities, Never
<1>4. SoftDeleted(a, now) = Stamped(a, identity, now)
  BY DEF SoftDeleted
<1> HIDE DEF identity
<1> QED BY <1>1, <1>3, <1>4, IdentityCommandOK

LEMMA DeletedRestoredOK ==
  ASSUME NEW a \in Aggregates, NEW e, NEW now \in Instants, CanRestoreDeleted(a, e, now)
  PROVE  /\ DeletedRestored(a, now) \in Aggregates
         /\ AggregateOK(DeletedRestored(a, now))
         /\ DeletedRestored(a, now).version = a.version + 1
         /\ DeletedRestored(a, now).revisions = a.revisions
<1> DEFINE identity == [a.identity EXCEPT !.deletedAt = Never]
<1>1. /\ AggregateOK(a) /\ a.identity.updatedAt <= now
  BY DEF CanRestoreDeleted, AtVersion
<1>2. a.identity \in Identities /\ WorkingId(a) \in RevisionIds
  BY <1>1, Typed, WorkingIsLatest
<1>3. /\ identity \in Identities
      /\ identity.createdAt = a.identity.createdAt
      /\ identity.draft = a.identity.draft
      /\ identity.publication = a.identity.publication
      /\ identity.publishedAt = a.identity.publishedAt
      /\ identity.archivedAt = a.identity.archivedAt
      /\ identity.deletedAt = Never
  BY <1>1, <1>2, InstantsAssumption DEF Identities, Never
<1>4. DeletedRestored(a, now) = Stamped(a, identity, now)
  BY DEF DeletedRestored
<1> HIDE DEF identity
<1> QED BY <1>1, <1>3, <1>4, IdentityCommandOK

LEMMA ArchivedOK ==
  ASSUME NEW a \in Aggregates, NEW e, NEW now \in Instants, CanArchive(a, e, now)
  PROVE  /\ Archived(a, now) \in Aggregates
         /\ AggregateOK(Archived(a, now))
         /\ Archived(a, now).version = a.version + 1
         /\ Archived(a, now).revisions = a.revisions
<1> DEFINE identity == [a.identity EXCEPT !.archivedAt = now]
<1>1. /\ AggregateOK(a) /\ a.identity.updatedAt <= now
  BY DEF CanArchive, AtVersion
<1>2. a.identity \in Identities /\ WorkingId(a) \in RevisionIds
  BY <1>1, Typed, WorkingIsLatest
<1>3. /\ identity \in Identities
      /\ identity.createdAt = a.identity.createdAt
      /\ identity.draft = a.identity.draft
      /\ identity.publication = a.identity.publication
      /\ identity.publishedAt = a.identity.publishedAt
      /\ identity.archivedAt = now
      /\ identity.deletedAt = a.identity.deletedAt
  BY <1>1, <1>2, InstantsAssumption DEF Identities, Never
<1>4. Archived(a, now) = Stamped(a, identity, now)
  BY DEF Archived
<1> HIDE DEF identity
<1> QED BY <1>1, <1>3, <1>4, IdentityCommandOK

LEMMA UnarchivedOK ==
  ASSUME NEW a \in Aggregates, NEW e, NEW now \in Instants, CanUnarchive(a, e, now)
  PROVE  /\ Unarchived(a, now) \in Aggregates
         /\ AggregateOK(Unarchived(a, now))
         /\ Unarchived(a, now).version = a.version + 1
         /\ Unarchived(a, now).revisions = a.revisions
<1> DEFINE identity == [a.identity EXCEPT !.archivedAt = Never]
<1>1. /\ AggregateOK(a) /\ a.identity.updatedAt <= now
  BY DEF CanUnarchive, AtVersion
<1>2. a.identity \in Identities /\ WorkingId(a) \in RevisionIds
  BY <1>1, Typed, WorkingIsLatest
<1>3. /\ identity \in Identities
      /\ identity.createdAt = a.identity.createdAt
      /\ identity.draft = a.identity.draft
      /\ identity.publication = a.identity.publication
      /\ identity.publishedAt = a.identity.publishedAt
      /\ identity.archivedAt = Never
      /\ identity.deletedAt = a.identity.deletedAt
  BY <1>1, <1>2, InstantsAssumption DEF Identities, Never
<1>4. Unarchived(a, now) = Stamped(a, identity, now)
  BY DEF Unarchived
<1> HIDE DEF identity
<1> QED BY <1>1, <1>3, <1>4, IdentityCommandOK

-------------------------------------------------------------------------------
(* b is a with one more revision, the draft id. *)
AddsRevision(a, b, id) ==
  /\ b.revisions = Append(a.revisions, Latest(b))
  /\ Latest(b) \in Revisions
  /\ Latest(b).id = id

(* The commands that append a revision and make it the draft. *)
LEMMA WithRevisionOK ==
  ASSUME NEW a \in Aggregates, NEW e, NEW now \in Instants, NEW id \in RevisionIds,
         NEW kind \in OriginKinds, kind # "create",
         NEW source \in RevisionIds \cup {NoRevision},
         NEW data \in Data,
         CanDraft(a, e, id, now),
         kind = "restore" => HasRevision(a, source)
  PROVE  /\ WithRevision(a, id, kind, source, data, now) \in Aggregates
         /\ AggregateOK(WithRevision(a, id, kind, source, data, now))
         /\ WithRevision(a, id, kind, source, data, now).version = a.version + 1
         /\ AddsRevision(a, WithRevision(a, id, kind, source, data, now), id)
<1> DEFINE identity == [a.identity EXCEPT !.draft = id]
           s == Stamped(a, identity, now)
           r == [id |-> id, sequence |-> Len(a.revisions) + 1, parent |-> WorkingId(a),
                 kind |-> kind, source |-> source, data |-> data, createdAt |-> now]
           b == [s EXCEPT !.revisions = Append(@, r)]
<1>1. /\ AggregateOK(a) /\ a.identity.updatedAt <= now /\ ~HasRevision(a, id)
  BY DEF CanDraft, Mutable, AtVersion
<1>2. /\ a.identity \in Identities /\ a.identity.updatedAt \in Nat
      /\ WorkingId(a) \in RevisionIds /\ WorkingId(a) = Latest(a).id
      /\ a.revisions \in Seq(Revisions) /\ Len(a.revisions) \in Nat \ {0}
      /\ a.version \in Nat
  BY <1>1, Typed, WorkingIsLatest, Parts
<1>3. /\ identity \in Identities
      /\ identity.createdAt = a.identity.createdAt
      /\ identity.draft = id
      /\ identity.publication = a.identity.publication
      /\ identity.publishedAt = a.identity.publishedAt
      /\ identity.archivedAt = a.identity.archivedAt
      /\ identity.deletedAt = a.identity.deletedAt
  BY <1>2 DEF Identities
<1>4. r \in Revisions
  BY <1>2 DEF Revisions, OriginKinds
<1>5. /\ s \in Aggregates
      /\ s.revisions = a.revisions
      /\ s.version = a.version + 1
      /\ s.identity = [identity EXCEPT !.updatedAt = now]
      /\ s.identity.updatedAt = now
  <2> HIDE DEF identity
  <2> QED BY <1>3, StampedParts
<1>6. /\ s.identity.createdAt = a.identity.createdAt
      /\ s.identity.draft = id
      /\ s.identity.publication = a.identity.publication
      /\ s.identity.publishedAt = a.identity.publishedAt
      /\ s.identity.archivedAt = a.identity.archivedAt
      /\ s.identity.deletedAt = a.identity.deletedAt
  <2> HIDE DEF identity, s
  <2> QED BY <1>3, <1>5 DEF Identities
<1>7. /\ b \in Aggregates
      /\ b.identity = s.identity
      /\ b.version = a.version + 1
      /\ b.revisions = Append(a.revisions, r)
  <2> HIDE DEF s, r
  <2>1. Append(a.revisions, r) \in Seq(Revisions)
    BY <1>2, <1>4
  <2> QED BY <1>5, <2>1 DEF Aggregates
<1>8. b = WithRevision(a, id, kind, source, data, now)
  BY DEF WithRevision
<1>9. /\ r.id = id /\ r.sequence = Len(a.revisions) + 1 /\ r.parent = Latest(a).id
      /\ r.kind = kind /\ r.source = source /\ r.createdAt = now
  BY <1>2
<1> HIDE DEF identity, s, r, b
<1>10. RevisionChainOK(b)
  <2>1. /\ b.identity.createdAt = a.identity.createdAt
        /\ a.identity.updatedAt <= b.identity.updatedAt
        /\ r.createdAt = b.identity.updatedAt
        /\ r.kind # "create"
        /\ r.kind = "restore" => HasRevision(a, r.source)
        /\ ~HasRevision(a, r.id)
    BY <1>1, <1>5, <1>6, <1>7, <1>9
  <2> QED BY <1>1, <1>4, <1>7, <1>9, <2>1, ChainExtended
<1>11. RevisionChainOK(a) /\ PointersOK(a) /\ ChronologyOK(a)
  BY <1>1 DEF AggregateOK
<1>12. /\ Len(b.revisions) = Len(a.revisions) + 1
       /\ Latest(b) = r
       /\ \A i \in Indices(a) : b.revisions[i] = a.revisions[i]
       /\ Len(a.revisions) <= Len(b.revisions)
  BY <1>2, <1>4, <1>7 DEF Latest, Indices
<1>13. PointersOK(b)
  <2>1. b.identity.publication # NoRevision =>
          HasRevision(a, b.identity.publication) /\ HasRevision(b, b.identity.publication)
    BY <1>6, <1>7, <1>10, <1>11, <1>12, PublicationKept DEF PointersOK
  <2>2. id # NoRevision /\ b.identity.draft = Latest(b).id
    BY <1>6, <1>7, <1>9, <1>12, NoRevisionAssumption
  <2>3. b.identity.draft # b.identity.publication
    BY <2>1, <2>2, <1>1, <1>6, <1>7
  <2> QED BY <2>1, <2>2, <2>3, <1>6, <1>7 DEF PointersOK
<1>14. ChronologyOK(b)
  <2>1. /\ a.identity.createdAt \in Nat /\ a.identity.updatedAt \in Nat /\ now \in Nat
        /\ a.identity.publishedAt \in Nat
        /\ a.identity.archivedAt \in Nat /\ a.identity.deletedAt \in Nat
    BY Typed, InstantsAssumption
  <2>2. b.identity.publication # NoRevision =>
          RevisionOf(b, b.identity.publication) = RevisionOf(a, b.identity.publication)
    BY <1>6, <1>7, <1>10, <1>11, <1>12, PublicationKept DEF PointersOK
  <2> QED BY <1>1, <1>5, <1>6, <1>7, <1>11, <2>1, <2>2 DEF ChronologyOK, IsArchived, IsDeleted
<1>15. AggregateOK(b)
  <2>1. a.version >= Len(a.revisions)
    BY <1>1 DEF AggregateOK
  <2> QED BY <1>2, <1>7, <1>10, <1>12, <1>13, <1>14, <2>1 DEF AggregateOK
<1>16. AddsRevision(a, b, id)
  BY <1>4, <1>7, <1>9, <1>12 DEF AddsRevision
<1> QED BY <1>7, <1>8, <1>15, <1>16

LEMMA DraftedOK ==
  ASSUME NEW a \in Aggregates, NEW e, NEW now \in Instants, NEW id \in RevisionIds,
         NEW data \in Data, CanDraft(a, e, id, now)
  PROVE  /\ Drafted(a, id, data, now) \in Aggregates
         /\ AggregateOK(Drafted(a, id, data, now))
         /\ Drafted(a, id, data, now).version = a.version + 1
         /\ AddsRevision(a, Drafted(a, id, data, now), id)
<1>1. "edit" \in OriginKinds /\ "edit" # "create" /\ "edit" # "restore"
  BY DEF OriginKinds
<1>2. NoRevision \in RevisionIds \cup {NoRevision}
  OBVIOUS
<1> QED BY <1>1, <1>2, WithRevisionOK DEF Drafted

LEMMA RevisionRestoredOK ==
  ASSUME NEW a \in Aggregates, NEW e, NEW now \in Instants, NEW id \in RevisionIds,
         NEW source \in RevisionIds, RevisionOf(a, source).data \in Data,
         CanRestoreRevision(a, e, source, id, now)
  PROVE  /\ RevisionRestored(a, source, id, now) \in Aggregates
         /\ AggregateOK(RevisionRestored(a, source, id, now))
         /\ RevisionRestored(a, source, id, now).version = a.version + 1
         /\ AddsRevision(a, RevisionRestored(a, source, id, now), id)
<1> DEFINE data == RevisionOf(a, source).data
<1>1. /\ "restore" \in OriginKinds /\ "restore" # "create"
      /\ source \in RevisionIds \cup {NoRevision}
  BY DEF OriginKinds
<1>2. CanDraft(a, e, id, now) /\ HasRevision(a, source)
  BY DEF CanRestoreRevision
<1>3. data \in Data
  OBVIOUS
<1>4. RevisionRestored(a, source, id, now) = WithRevision(a, id, "restore", source, data, now)
  BY DEF RevisionRestored
<1> HIDE DEF data
<1> QED BY <1>1, <1>2, <1>3, <1>4, WithRevisionOK

LEMMA CreatedOK ==
  ASSUME NEW id \in RevisionIds, NEW data \in Data, NEW now \in Instants
  PROVE  /\ Created(id, data, now) \in Aggregates
         /\ AggregateOK(Created(id, data, now))
         /\ Created(id, data, now).version = 1
         /\ Latest(Created(id, data, now)).id = id
<1> DEFINE a == Created(id, data, now)
           r == [id |-> id, sequence |-> 1, parent |-> NoRevision, kind |-> "create",
                 source |-> NoRevision, data |-> data, createdAt |-> now]
<1>1. r \in Revisions /\ now \in Nat \ {0}
  BY InstantsAssumption DEF Revisions, OriginKinds
<1>2. /\ a.revisions = <<r>> /\ Len(a.revisions) = 1 /\ a.revisions[1] = r
      /\ a.version = 1
      /\ a.identity.draft = id /\ a.identity.publication = NoRevision
      /\ a.identity.createdAt = now /\ a.identity.updatedAt = now
      /\ a.identity.archivedAt = Never /\ a.identity.deletedAt = Never
  BY DEF Created
<1>3. a \in Aggregates
  <2>1. a.identity \in Identities
    BY <1>1 DEF Created, Identities, Never
  <2>2. <<r>> \in Seq(Revisions)
    BY <1>1
  <2> QED BY <2>1, <2>2 DEF Created, Aggregates
<1>4. /\ r.id = id /\ r.sequence = 1 /\ r.parent = NoRevision /\ r.kind = "create"
      /\ r.createdAt = now
  OBVIOUS
<1> HIDE DEF a, r
<1>5. Latest(a) = r /\ Indices(a) = {1}
  BY <1>2 DEF Latest, Indices
<1>6. RevisionChainOK(a)
  BY <1>1, <1>2, <1>4, <1>5 DEF RevisionChainOK, LinkOK
<1>7. PointersOK(a) /\ ChronologyOK(a)
  BY <1>1, <1>2, <1>4, <1>5, NoRevisionAssumption
     DEF PointersOK, ChronologyOK, IsArchived, IsDeleted, Never
<1>8. AggregateOK(a)
  BY <1>2, <1>6, <1>7 DEF AggregateOK
<1> QED BY <1>2, <1>3, <1>4, <1>5, <1>8 DEF a

(***************************************************************************)
(* Requests on a stored document.                                          *)
(***************************************************************************)

LEMMA NoDocumentFacts ==
  /\ NoDocument.version = 0
  /\ NoDocument.revisions = <<>>
  /\ NoDocument \notin Aggregates
<1>1. NoDocument.identity.createdAt = Never
  BY DEF NoDocument
<1>2. ASSUME NoDocument \in Aggregates PROVE FALSE
  BY <1>1, <1>2, InstantsAssumption DEF Aggregates, Identities, Never
<1> QED BY <1>2 DEF NoDocument

(* The stored document, read back from the two tables. *)
LEMMA StoredFacts ==
  ASSUME TypeOK
  PROVE  /\ Stored.identity = row.identity
         /\ Stored.revisions = table
         /\ Stored.version = row.version
         /\ row.version \in Nat
         /\ table \in Seq(Revisions)
         /\ Exists => Stored \in Aggregates /\ row.identity \in Identities
<1>1. /\ Stored.identity = row.identity /\ Stored.revisions = table
      /\ Stored.version = row.version
  BY DEF Stored, Assembled
<1>2. CASE Stored \in Aggregates
  BY <1>1, <1>2 DEF Aggregates
<1>3. CASE Stored = NoDocument
  <2>1. row.version = 0 /\ table = <<>>
    BY <1>1, <1>3, NoDocumentFacts
  <2>2. <<>> \in Seq(Revisions)
    OBVIOUS
  <2> QED BY <1>1, <2>1, <2>2 DEF Exists
<1> QED BY <1>1, <1>2, <1>3 DEF TypeOK

LEMMA InitInv == Init => Inv
<1> SUFFICES ASSUME Init PROVE Inv
  OBVIOUS
<1>1. Stored = NoDocument
  BY DEF Init, Stored, Assembled, NoRow, NoDocument
<1>2. TypeOK
  BY <1>1 DEF Init, TypeOK, Phases
<1>3. ~Exists
  BY DEF Init, Exists, NoRow
<1>4. \A c \in Clients : phase[c] = "idle"
  BY DEF Init
<1> QED BY <1>2, <1>3, <1>4 DEF Inv, StoredOK, CopyInv, ResultInv

-------------------------------------------------------------------------------
(* A client that ends its request keeps nothing; the others keep theirs.    *)
LEMMA FinishParts ==
  ASSUME TypeOK, NEW c \in Clients, Finish(c)
  PROVE  /\ phase' \in [Clients -> Phases] /\ phase'[c] = "idle"
         /\ copy' \in [Clients -> Aggregates \cup {NoDocument}]
         /\ result' \in [Clients -> Aggregates \cup {NoDocument}]
         /\ event' \in [Clients -> Events \cup {NoEvent}]
         /\ \A d \in Clients \ {c} : /\ phase'[d] = phase[d] /\ copy'[d] = copy[d]
                                     /\ result'[d] = result[d] /\ event'[d] = event[d]
  BY DEF TypeOK, Finish, Phases

(* Steps of c that leave the store alone keep what the others hold. *)
LEMMA OthersKept ==
  ASSUME Inv, NEW c \in Clients, UNCHANGED store,
         \A d \in Clients \ {c} : /\ phase'[d] = phase[d] /\ copy'[d] = copy[d]
                                  /\ result'[d] = result[d] /\ event'[d] = event[d]
  PROVE  /\ Stored' = Stored /\ Exists' = Exists /\ StoredOK'
         /\ Exists' => outbox' # <<>>
         /\ \A d \in Clients \ {c} : CopyInv(d)' /\ ResultInv(d)'
<1>1. /\ row' = row /\ table' = table /\ outbox' = outbox
      /\ Stored' = Stored /\ (Exists <=> Exists') /\ Exists' = Exists
  BY DEF store, Stored, Exists
<1>2. StoredOK' /\ (Exists' => outbox' # <<>>)
  BY <1>1 DEF Inv, StoredOK
<1>3. ASSUME NEW d \in Clients \ {c} PROVE CopyInv(d)' /\ ResultInv(d)'
  BY <1>1 DEF Inv, CopyInv, ResultInv, VersionMatches, Expected
<1> QED BY <1>1, <1>2, <1>3

LEMMA LoadIdentityInv ==
  ASSUME Inv, NEW c \in Clients, LoadIdentity(c)
  PROVE  Inv'
<1> USE DEF LoadIdentity
<1>1. TypeOK
  BY DEF Inv
<1>2. /\ Stored \in Aggregates /\ Stored.identity = row.identity
      /\ Stored.version = row.version /\ row.version \in Nat \ {0}
      /\ outbox # <<>>
  BY <1>1, StoredFacts DEF Exists, Inv
<1>3. /\ phase'[c] = "reading"
      /\ copy'[c] = Assembled(row, <<>>)
      /\ \A d \in Clients \ {c} : /\ phase'[d] = phase[d] /\ copy'[d] = copy[d]
                                  /\ result'[d] = result[d] /\ event'[d] = event[d]
  BY <1>1 DEF TypeOK
<1>4. /\ Assembled(row, <<>>) \in Aggregates
      /\ Assembled(row, <<>>).version = row.version
      /\ Assembled(row, <<>>).identity = row.identity
  BY <1>1, <1>2, StoredFacts, <<>> \in Seq(Revisions) DEF Assembled, Aggregates, Exists
<1>5. /\ Stored' = Stored /\ StoredOK' /\ (Exists' => outbox' # <<>>)
      /\ \A d \in Clients \ {c} : CopyInv(d)' /\ ResultInv(d)'
  BY <1>3, OthersKept
<1>6. TypeOK'
  BY <1>1, <1>3, <1>4, <1>5 DEF TypeOK, store, Phases
<1>7. CopyInv(c)' /\ ResultInv(c)'
  BY <1>2, <1>3, <1>4 DEF CopyInv, ResultInv, store, VersionMatches, Expected
<1> QED BY <1>5, <1>6, <1>7 DEF Inv

(* A torn copy is of an older version than the stored one: whether or not   *)
(* the assertion accepts it, it can no longer match.                        *)
LEMMA LoadRevisionsInv ==
  ASSUME Inv, NEW c \in Clients, LoadRevisions(c)
  PROVE  Inv'
<1> DEFINE loaded == Assembled(copy[c], table)
<1>1. TypeOK /\ CopyInv(c) /\ phase[c] = "reading" /\ UNCHANGED store
  BY DEF Inv, LoadRevisions
<1>2. CASE ~AggregateOK(loaded)
  <2>1. Finish(c)
    BY <1>2 DEF LoadRevisions
  <2>2. /\ phase'[c] = "idle"
        /\ \A d \in Clients \ {c} : /\ phase'[d] = phase[d] /\ copy'[d] = copy[d]
                                    /\ result'[d] = result[d] /\ event'[d] = event[d]
    BY <1>1, <2>1, FinishParts
  <2>3. /\ Stored' = Stored /\ StoredOK' /\ (Exists' => outbox' # <<>>)
        /\ \A d \in Clients \ {c} : CopyInv(d)' /\ ResultInv(d)'
    BY <1>1, <2>2, OthersKept
  <2>4. TypeOK'
    BY <1>1, <2>1, <2>2, <2>3, FinishParts DEF TypeOK, store
  <2>5. CopyInv(c)' /\ ResultInv(c)'
    BY <2>2 DEF CopyInv, ResultInv
  <2> QED BY <2>3, <2>4, <2>5 DEF Inv
<1>3. CASE AggregateOK(loaded)
  <2>1. /\ phase'[c] = "loaded" /\ copy'[c] = loaded
        /\ phase' = [phase EXCEPT ![c] = "loaded"]
        /\ copy' = [copy EXCEPT ![c] = loaded]
        /\ result' = result /\ event' = event
        /\ \A d \in Clients \ {c} : /\ phase'[d] = phase[d] /\ copy'[d] = copy[d]
                                    /\ result'[d] = result[d] /\ event'[d] = event[d]
    BY <1>1, <1>3 DEF LoadRevisions, TypeOK
  <2>2. copy[c] \in Aggregates
    BY <1>1 DEF TypeOK
  <2>3. loaded \in Aggregates
    BY <1>1, <2>2, StoredFacts DEF Assembled, Aggregates
  <2>4. /\ Stored' = Stored /\ StoredOK' /\ (Exists' => outbox' # <<>>)
        /\ \A d \in Clients \ {c} : CopyInv(d)' /\ ResultInv(d)'
    BY <1>1, <2>1, OthersKept
  <2>5. TypeOK'
    BY <1>1, <2>1, <2>3, <2>4 DEF TypeOK, store, Phases
  <2>6. loaded.version = copy[c].version
    BY DEF Assembled
  <2>7. VersionMatches(c) => loaded = Stored
    BY <1>1 DEF CopyInv, Assembled, Stored, VersionMatches, Expected
  <2>8. row' = row /\ outbox' = outbox
    BY <1>1 DEF store
  <2>9. CopyInv(c)'
    <3> HIDE DEF loaded
    <3> QED BY <1>1, <1>3, <2>1, <2>4, <2>6, <2>7, <2>8
            DEF CopyInv, VersionMatches, Expected, Exists
  <2>10. ResultInv(c)'
    BY <2>1 DEF ResultInv
  <2> QED BY <2>4, <2>5, <2>9, <2>10 DEF Inv
<1> QED BY <1>2, <1>3

-------------------------------------------------------------------------------
(* A command whose result satisfies the assertion of finalize. *)
LEMMA PrepareInv ==
  ASSUME Inv, NEW c \in Clients, NEW type \in EventTypes \ {"purged"}, NEW now \in Instants,
         NEW next \in Aggregates, NEW revision \in RevisionIds \cup {NoRevision},
         AggregateOK(next), Extends(next, copy[c]),
         Prepare(c, type, next, now, revision)
  PROVE  Inv'
<1> DEFINE e == Event(type, next, now, revision)
<1>1. TypeOK /\ CopyInv(c) /\ phase[c] = "loaded" /\ UNCHANGED store /\ copy' = copy
  BY DEF Inv, Prepare
<1>2. /\ phase' = [phase EXCEPT ![c] = "prepared"]
      /\ result' = [result EXCEPT ![c] = next]
      /\ event' = [event EXCEPT ![c] = e]
  BY DEF Prepare
<1>3. /\ phase'[c] = "prepared" /\ result'[c] = next /\ event'[c] = e
      /\ \A d \in Clients \ {c} : /\ phase'[d] = phase[d] /\ copy'[d] = copy[d]
                                  /\ result'[d] = result[d] /\ event'[d] = event[d]
  BY <1>1, <1>2 DEF TypeOK
<1>4. e \in Events /\ e.type = type
  BY DEF Event, Events, Aggregates
<1>5. /\ Stored' = Stored /\ StoredOK' /\ (Exists' => outbox' # <<>>)
      /\ \A d \in Clients \ {c} : CopyInv(d)' /\ ResultInv(d)'
  BY <1>1, <1>3, OthersKept
<1> HIDE DEF e
<1>6. TypeOK'
  BY <1>1, <1>2, <1>3, <1>4, <1>5 DEF TypeOK, store, Phases
<1>7. row' = row /\ outbox' = outbox
  BY <1>1 DEF store
<1>8. CopyInv(c)'
  BY <1>1, <1>3, <1>5, <1>7 DEF CopyInv, VersionMatches, Expected, Exists
<1>9. ResultInv(c)'
  BY <1>1, <1>3, <1>4 DEF ResultInv
<1> QED BY <1>5, <1>6, <1>8, <1>9 DEF Inv

LEMMA PreparePurgeInv ==
  ASSUME Inv, NEW c \in Clients, NEW now \in Instants, PreparePurge(c, now)
  PROVE  Inv'
<1> DEFINE e == Event("purged", copy[c], now, NoRevision)
<1>1. TypeOK /\ CopyInv(c) /\ phase[c] = "loaded" /\ UNCHANGED store /\ copy' = copy
  BY DEF Inv, PreparePurge
<1>2. /\ phase' = [phase EXCEPT ![c] = "prepared"]
      /\ result' = [result EXCEPT ![c] = copy[c]]
      /\ event' = [event EXCEPT ![c] = e]
  BY DEF PreparePurge
<1>3. /\ phase'[c] = "prepared" /\ result'[c] = copy[c] /\ event'[c] = e
      /\ \A d \in Clients \ {c} : /\ phase'[d] = phase[d] /\ copy'[d] = copy[d]
                                  /\ result'[d] = result[d] /\ event'[d] = event[d]
  BY <1>1, <1>2 DEF TypeOK
<1>4. copy[c] \in Aggregates
  BY <1>1 DEF TypeOK
<1>5. e \in Events /\ e.type = "purged"
  BY <1>4 DEF Event, Events, Aggregates, EventTypes
<1>6. /\ Stored' = Stored /\ StoredOK' /\ (Exists' => outbox' # <<>>)
      /\ \A d \in Clients \ {c} : CopyInv(d)' /\ ResultInv(d)'
  BY <1>1, <1>3, OthersKept
<1> HIDE DEF e
<1>7. TypeOK'
  BY <1>1, <1>2, <1>3, <1>4, <1>5, <1>6 DEF TypeOK, store, Phases
<1>8. row' = row /\ outbox' = outbox
  BY <1>1 DEF store
<1>9. CopyInv(c)' /\ ResultInv(c)'
  BY <1>1, <1>3, <1>5, <1>6, <1>8 DEF CopyInv, ResultInv, VersionMatches, Expected, Exists
<1> QED BY <1>6, <1>7, <1>9 DEF Inv

LEMMA AbortInv ==
  ASSUME Inv, NEW c \in Clients, Abort(c)
  PROVE  Inv'
<1>1. TypeOK /\ Finish(c) /\ UNCHANGED store
  BY DEF Inv, Abort
<1>2. /\ phase'[c] = "idle"
      /\ \A d \in Clients \ {c} : /\ phase'[d] = phase[d] /\ copy'[d] = copy[d]
                                  /\ result'[d] = result[d] /\ event'[d] = event[d]
  BY <1>1, FinishParts
<1>3. /\ Stored' = Stored /\ StoredOK' /\ (Exists' => outbox' # <<>>)
      /\ \A d \in Clients \ {c} : CopyInv(d)' /\ ResultInv(d)'
  BY <1>1, <1>2, OthersKept
<1>4. TypeOK'
  BY <1>1, <1>2, <1>3, FinishParts DEF TypeOK, store
<1>5. CopyInv(c)' /\ ResultInv(c)'
  BY <1>2 DEF CopyInv, ResultInv
<1> QED BY <1>3, <1>4, <1>5 DEF Inv

-------------------------------------------------------------------------------
(* The commit of an update: the copy it started from is the stored document, *)
(* so what it stores is exactly the result of its command, and every other   *)
(* request now holds an older version.                                       *)
LEMMA CommitUpdateInv ==
  ASSUME Inv, NEW c \in Clients, CommitUpdate(c)
  PROVE  Inv' /\ Stored' = result[c]
<1>1. /\ TypeOK /\ CopyInv(c) /\ ResultInv(c) /\ phase[c] = "prepared"
      /\ event[c].type # "purged" /\ VersionMatches(c) /\ Finish(c)
      /\ row' = [identity |-> result[c].identity, version |-> result[c].version]
      /\ outbox' = Append(outbox, event[c])
      /\ table' = IF HasRevision(Stored, Latest(result[c]).id)
                  THEN table ELSE Append(table, Latest(result[c]))
  BY DEF Inv, CommitUpdate
<1>2. /\ copy[c] = Stored /\ AggregateOK(copy[c]) /\ copy[c] \in Aggregates
      /\ result[c] \in Aggregates /\ event[c] \in Events
      /\ AggregateOK(result[c]) /\ Extends(result[c], Stored)
  BY <1>1 DEF CopyInv, ResultInv, TypeOK
<1>3. Stored.revisions = table /\ Stored.version = row.version /\ row.version \in Nat
  BY <1>1, StoredFacts
<1>4. table' = result[c].revisions
  <2>1. CASE result[c].revisions = Stored.revisions
    <3>1. Latest(result[c]) = Latest(Stored) /\ Len(table) \in Indices(Stored)
      BY <1>2, <1>3, <2>1, Parts DEF Latest, Indices
    <3>2. HasRevision(Stored, Latest(result[c]).id)
      BY <1>3, <3>1 DEF HasRevision, Latest
    <3> QED BY <1>1, <1>3, <2>1, <3>2
  <2>2. CASE /\ result[c].revisions = Append(Stored.revisions, Latest(result[c]))
             /\ ~HasRevision(Stored, Latest(result[c]).id)
    BY <1>1, <1>3, <2>2
  <2> QED BY <1>2, <2>1, <2>2 DEF Extends
<1>5. Stored' = result[c]
  <2>1. Stored' = [identity |-> result[c].identity, revisions |-> result[c].revisions,
                   version |-> result[c].version]
    BY <1>1, <1>4 DEF Stored, Assembled
  <2> QED BY <1>2, <2>1 DEF Aggregates
<1>6. row'.version = row.version + 1 /\ Exists' /\ Exists
  BY <1>1, <1>2, <1>3 DEF Extends, Exists, CopyInv, VersionMatches, Expected
<1>7. outbox' \in Seq(Events) /\ outbox' # <<>>
  BY <1>1, <1>2 DEF TypeOK
<1>8. TypeOK' /\ StoredOK'
  BY <1>1, <1>2, <1>5, <1>7, FinishParts DEF TypeOK, StoredOK
<1>9. CopyInv(c)' /\ ResultInv(c)'
  BY <1>1, FinishParts DEF CopyInv, ResultInv
<1>10. ASSUME NEW d \in Clients \ {c} PROVE CopyInv(d)' /\ ResultInv(d)'
  <2>1. /\ phase'[d] = phase[d] /\ copy'[d] = copy[d]
        /\ result'[d] = result[d] /\ event'[d] = event[d]
    BY <1>1, FinishParts
  <2>2. CopyInv(d) /\ ResultInv(d)
    BY DEF Inv
  <2>3. ResultInv(d)'
    BY <2>1, <2>2 DEF ResultInv
  <2>4. phase[d] # "idle" => copy[d].version \in Nat /\ copy[d].version < row'.version
    BY <1>1, <1>3, <1>6, <2>2 DEF CopyInv, TypeOK, Aggregates
  <2>5. phase[d] # "idle" => ~VersionMatches(d)'
    BY <1>6, <1>3, <2>1, <2>4 DEF VersionMatches, Expected
  <2> QED BY <1>3, <1>6, <1>7, <2>1, <2>2, <2>3, <2>4, <2>5 DEF CopyInv
<1> QED BY <1>5, <1>6, <1>7, <1>8, <1>9, <1>10 DEF Inv

(* After a purge no version matches any more: copies have positive versions. *)
LEMMA CommitPurgeInv ==
  ASSUME Inv, NEW c \in Clients, CommitPurge(c)
  PROVE  Inv'
<1>1. /\ TypeOK /\ phase[c] = "prepared" /\ Finish(c)
      /\ row' = NoRow /\ table' = <<>> /\ outbox' = Append(outbox, event[c])
      /\ event[c] \in Events
  BY DEF Inv, CommitPurge, TypeOK
<1>2. /\ Stored' = NoDocument /\ ~Exists' /\ row'.version = 0
  BY <1>1 DEF Stored, Assembled, NoRow, NoDocument, Exists
<1>3. outbox' \in Seq(Events) /\ outbox' # <<>>
  BY <1>1 DEF TypeOK
<1>4. TypeOK' /\ StoredOK'
  BY <1>1, <1>2, <1>3, FinishParts DEF TypeOK, StoredOK
<1>5. CopyInv(c)' /\ ResultInv(c)'
  BY <1>1, FinishParts DEF CopyInv, ResultInv
<1>6. ASSUME NEW d \in Clients \ {c} PROVE CopyInv(d)' /\ ResultInv(d)'
  <2>1. /\ phase'[d] = phase[d] /\ copy'[d] = copy[d]
        /\ result'[d] = result[d] /\ event'[d] = event[d]
    BY <1>1, FinishParts
  <2>2. CopyInv(d) /\ ResultInv(d)
    BY DEF Inv
  <2>3. phase[d] # "idle" => copy[d].version \in Nat /\ copy[d].version >= 1
    BY <1>1, <2>2 DEF CopyInv, TypeOK, Aggregates
  <2>4. phase[d] # "idle" => ~VersionMatches(d)'
    BY <1>2, <2>1, <2>3 DEF VersionMatches, Expected
  <2> QED BY <1>2, <1>3, <2>1, <2>2, <2>4 DEF CopyInv, ResultInv
<1> QED BY <1>2, <1>3, <1>4, <1>5, <1>6 DEF Inv

(* Nobody can hold a copy of a document that was never there. *)
LEMMA CreateDocumentInv ==
  ASSUME Inv, NEW c \in Clients, NEW data \in Data, NEW now \in Instants,
         CreateDocument(c, data, now)
  PROVE  Inv'
<1> DEFINE next == Created(<<c, 1>>, data, now)
           e == Event("created", next, now, Latest(next).id)
<1>1. /\ TypeOK /\ outbox = <<>> /\ UNCHANGED clientVars
      /\ row' = [identity |-> next.identity, version |-> next.version]
      /\ table' = next.revisions /\ outbox' = <<e>>
  BY DEF Inv, CreateDocument
<1>2. <<c, 1>> \in RevisionIds
  BY DEF RevisionIds
<1>3. /\ next \in Aggregates /\ AggregateOK(next) /\ next.version = 1
      /\ Latest(next).id = <<c, 1>>
  BY <1>2, CreatedOK
<1> HIDE DEF next
<1>4. e \in Events
  BY <1>2, <1>3 DEF Event, Events, EventTypes
<1> HIDE DEF e
<1>5. Stored' = next
  <2>1. Stored' = [identity |-> next.identity, revisions |-> next.revisions,
                   version |-> next.version]
    BY <1>1 DEF Stored, Assembled
  <2> QED BY <1>3, <2>1 DEF Aggregates
<1>6. \A d \in Clients : phase[d] = "idle"
  BY <1>1 DEF Inv, CopyInv
<1>7. outbox' \in Seq(Events) /\ outbox' # <<>>
  BY <1>1, <1>4
<1>8. TypeOK' /\ StoredOK'
  BY <1>1, <1>3, <1>5, <1>7 DEF TypeOK, StoredOK, clientVars
<1>9. \A d \in Clients : CopyInv(d)' /\ ResultInv(d)'
  BY <1>1, <1>6 DEF CopyInv, ResultInv, clientVars
<1> QED BY <1>7, <1>8, <1>9 DEF Inv

-------------------------------------------------------------------------------
(* The result of each operation extends the copy it was applied to. *)
LEMMA OperationInv ==
  ASSUME Inv, NEW c \in Clients, NEW now \in Instants,
         \/ \E f \in Fields, v \in Values : Update(c, f, v, now)
         \/ Publish(c, now)
         \/ Unpublish(c, now)
         \/ \E i \in Indices(copy[c]) : RestoreRevision(c, i, now)
         \/ Delete(c, now)
         \/ RestoreDeleted(c, now)
  PROVE  Inv'
<1>1. phase[c] = "loaded"
  BY DEF Update, Publish, Unpublish, RestoreRevision, Delete, RestoreDeleted
<1>2. copy[c] \in Aggregates /\ AggregateOK(copy[c])
  BY <1>1 DEF Inv, TypeOK, CopyInv
<1>3. /\ copy[c].version \in Nat
      /\ NewId(c) \in RevisionIds
      /\ copy[c].identity.draft \in RevisionIds \cup {NoRevision}
      /\ copy[c].identity.publication \in RevisionIds \cup {NoRevision}
  BY <1>2, Typed DEF NewId, Expected, RevisionIds, Identities
<1>4. \A id \in RevisionIds : HasRevision(copy[c], id) => RevisionOf(copy[c], id).data \in Data
  <2> TAKE id \in RevisionIds
  <2> HAVE HasRevision(copy[c], id)
  <2>1. PICK i \in Indices(copy[c]) : copy[c].revisions[i].id = id
    BY DEF HasRevision
  <2>2. RevisionOf(copy[c], id) = copy[c].revisions[i]
    BY <1>2, <2>1, RevisionOfIndex DEF AggregateOK
  <2>3. copy[c].revisions[i] \in Revisions
    BY <1>2, Typed
  <2> QED BY <2>2, <2>3 DEF Revisions
<1>5. ASSUME NEW f \in Fields, NEW v \in Values, Update(c, f, v, now) PROVE Inv'
  <2> DEFINE data == [WorkingRevision(copy[c]).data EXCEPT ![f] = v]
             next == Drafted(copy[c], NewId(c), data, now)
  <2>1. /\ CanDraft(copy[c], Expected(c), NewId(c), now)
        /\ Prepare(c, "draft-created", next, now, NewId(c))
    BY <1>5 DEF Update
  <2>2. WorkingRevision(copy[c]).data \in Data
    <3>1. WorkingId(copy[c]) \in RevisionIds /\ HasRevision(copy[c], WorkingId(copy[c]))
      BY <1>2, WorkingIsLatest, Parts DEF HasRevision, Latest, Indices
    <3> QED BY <1>4, <3>1 DEF WorkingRevision
  <2>3. data \in Data
    BY <2>2 DEF Data
  <2> HIDE DEF data
  <2>4. /\ next \in Aggregates /\ AggregateOK(next) /\ next.version = copy[c].version + 1
        /\ AddsRevision(copy[c], next, NewId(c))
    BY <1>2, <1>3, <2>1, <2>3, DraftedOK
  <2> HIDE DEF next
  <2>5. Extends(next, copy[c])
    BY <2>1, <2>4 DEF Extends, CanDraft, AddsRevision
  <2> QED BY <1>3, <2>1, <2>4, <2>5, PrepareInv DEF EventTypes
<1>6. ASSUME NEW i \in Indices(copy[c]), RestoreRevision(c, i, now) PROVE Inv'
  <2> DEFINE source == copy[c].revisions[i].id
             next == RevisionRestored(copy[c], source, NewId(c), now)
  <2>1. /\ CanRestoreRevision(copy[c], Expected(c), source, NewId(c), now)
        /\ Prepare(c, "revision-restored", next, now, NewId(c))
    BY <1>6 DEF RestoreRevision
  <2>2. source \in RevisionIds
    BY <1>2, Typed
  <2>3. /\ HasRevision(copy[c], source) /\ ~HasRevision(copy[c], NewId(c))
        /\ RevisionOf(copy[c], source).data \in Data
    BY <1>4, <2>1, <2>2 DEF CanRestoreRevision, CanDraft
  <2> HIDE DEF source
  <2>4. /\ next \in Aggregates /\ AggregateOK(next) /\ next.version = copy[c].version + 1
        /\ AddsRevision(copy[c], next, NewId(c))
    BY <1>2, <1>3, <2>1, <2>2, <2>3, RevisionRestoredOK
  <2> HIDE DEF next
  <2>5. Extends(next, copy[c])
    BY <2>3, <2>4 DEF Extends, AddsRevision
  <2> QED BY <1>3, <2>1, <2>4, <2>5, PrepareInv DEF EventTypes
<1>7. CASE Publish(c, now)
  <2>1. CanPublish(copy[c], Expected(c), now)
    BY <1>7 DEF Publish
  <2>2. Extends(Published(copy[c], now), copy[c])
    BY <1>2, <2>1, PublishedOK DEF Extends
  <2> QED BY <1>2, <1>3, <1>7, <2>1, <2>2, PublishedOK, PrepareInv DEF Publish, EventTypes
<1>8. CASE Unpublish(c, now)
  <2>1. CanUnpublish(copy[c], Expected(c), now)
    BY <1>8 DEF Unpublish
  <2>2. Extends(Unpublished(copy[c], now), copy[c])
    BY <1>2, <2>1, UnpublishedOK DEF Extends
  <2> QED BY <1>2, <1>3, <1>8, <2>1, <2>2, UnpublishedOK, PrepareInv DEF Unpublish, EventTypes
<1>9. CASE Delete(c, now)
  <2>1. CanDelete(copy[c], Expected(c), now)
    BY <1>9 DEF Delete
  <2>2. Extends(SoftDeleted(copy[c], now), copy[c])
    BY <1>2, <2>1, SoftDeletedOK DEF Extends
  <2> QED BY <1>2, <1>3, <1>9, <2>1, <2>2, SoftDeletedOK, PrepareInv DEF Delete, EventTypes
<1>10. CASE RestoreDeleted(c, now)
  <2>1. CanRestoreDeleted(copy[c], Expected(c), now)
    BY <1>10 DEF RestoreDeleted
  <2>2. Extends(DeletedRestored(copy[c], now), copy[c])
    BY <1>2, <2>1, DeletedRestoredOK DEF Extends
  <2> QED BY <1>2, <1>3, <1>10, <2>1, <2>2, DeletedRestoredOK, PrepareInv
          DEF RestoreDeleted, EventTypes
<1> QED BY <1>5, <1>6, <1>7, <1>8, <1>9, <1>10

LEMMA NextInv == Inv /\ [Next]_vars => Inv'
<1> SUFFICES ASSUME Inv, [Next]_vars PROVE Inv'
  OBVIOUS
<1>1. CASE UNCHANGED vars
  <2>1. /\ Stored' = Stored /\ row' = row /\ outbox' = outbox /\ phase' = phase
        /\ copy' = copy /\ result' = result /\ event' = event
    BY <1>1 DEF vars, Stored
  <2> QED BY <2>1 DEF Inv, TypeOK, StoredOK, Exists, CopyInv, ResultInv, VersionMatches, Expected
<1>2. ASSUME NEW c \in Clients, LoadIdentity(c) PROVE Inv'
  BY <1>2, LoadIdentityInv
<1>3. ASSUME NEW c \in Clients, LoadRevisions(c) PROVE Inv'
  BY <1>3, LoadRevisionsInv
<1>4. ASSUME NEW c \in Clients, CommitUpdate(c) PROVE Inv'
  BY <1>4, CommitUpdateInv
<1>5. ASSUME NEW c \in Clients, CommitPurge(c) PROVE Inv'
  BY <1>5, CommitPurgeInv
<1>6. ASSUME NEW c \in Clients, Abort(c) PROVE Inv'
  BY <1>6, AbortInv
<1>7. ASSUME NEW c \in Clients, NEW now \in Instants,
             \/ \E data \in Data : CreateDocument(c, data, now)
             \/ \E f \in Fields, v \in Values : Update(c, f, v, now)
             \/ Publish(c, now)
             \/ Unpublish(c, now)
             \/ \E i \in Indices(copy[c]) : RestoreRevision(c, i, now)
             \/ Delete(c, now)
             \/ RestoreDeleted(c, now)
             \/ PreparePurge(c, now)
      PROVE  Inv'
  BY <1>7, CreateDocumentInv, OperationInv, PreparePurgeInv
<1> QED BY <1>1, <1>2, <1>3, <1>4, <1>5, <1>6, <1>7 DEF Next

-------------------------------------------------------------------------------
(* Inv holds in every reachable state: stored documents always satisfy the  *)
(* assertion of the next load, and what requests hold stays related to it.  *)
THEOREM Invariance == Spec => []Inv
<1>1. Init => Inv
  BY InitInv
<1>2. Inv /\ [Next]_vars => Inv'
  BY NextInv
<1> QED BY <1>1, <1>2, PTL DEF Spec

(* Every variable has its type in every reachable state. *)
THEOREM TypeCorrect == Spec => []TypeOK
<1>1. Inv => TypeOK
  BY DEF Inv
<1> QED BY <1>1, Invariance, PTL

(* No interleaving of requests leaves a document that assertDocumentInvariants *)
(* would reject at the next load.                                              *)
THEOREM StoredAlwaysOK == Spec => []StoredOK
<1>1. Inv => StoredOK
  BY DEF Inv
<1> QED BY <1>1, Invariance, PTL

(* The assertion of finalize never fails on a copy accepted by its load. *)
THEOREM CommandsNeverFail == Spec => []NoDefect
<1>1. Inv => NoDefect
  BY DEF Inv, CopyInv, NoDefect
<1> QED BY <1>1, Invariance, PTL

-----------------------------------------------------------------------------
(* The operators of the register are those of the aggregate. *)
LEMMA RegisterReads ==
  /\ \A a : /\ Register!IsDeleted(a) = IsDeleted(a)
            /\ Register!IsArchived(a) = IsArchived(a)
            /\ Register!Indices(a) = Indices(a)
            /\ Register!Latest(a) = Latest(a)
            /\ Register!WorkingId(a) = WorkingId(a)
            /\ Register!WorkingRevision(a) = WorkingRevision(a)
            /\ Register!AggregateOK(a) = AggregateOK(a)
            /\ Register!PublicId(a) = PublicId(a)
  /\ \A a, id : /\ Register!HasRevision(a, id) = HasRevision(a, id)
                /\ Register!RevisionOf(a, id) = RevisionOf(a, id)
  BY DEF Register!IsDeleted, IsDeleted, Register!IsArchived, IsArchived, Register!Never, Never,
         Register!Indices, Indices, Register!Latest, Latest, Register!HasRevision, HasRevision,
         Register!RevisionOf, RevisionOf, Register!WorkingId, WorkingId,
         Register!WorkingRevision, WorkingRevision, Register!AggregateOK, AggregateOK,
         Register!RevisionChainOK, RevisionChainOK, Register!LinkOK, LinkOK,
         Register!PointersOK, PointersOK, Register!ChronologyOK, ChronologyOK,
         Register!PublicId, PublicId

LEMMA RegisterGuards ==
  /\ \A a, e, now :
       /\ Register!CanPublish(a, e, now) <=> CanPublish(a, e, now)
       /\ Register!CanUnpublish(a, e, now) <=> CanUnpublish(a, e, now)
       /\ Register!CanDelete(a, e, now) <=> CanDelete(a, e, now)
       /\ Register!CanRestoreDeleted(a, e, now) <=> CanRestoreDeleted(a, e, now)
  /\ \A a, e, id, now : Register!CanDraft(a, e, id, now) <=> CanDraft(a, e, id, now)
  /\ \A a, e, source, id, now :
       Register!CanRestoreRevision(a, e, source, id, now)
         <=> CanRestoreRevision(a, e, source, id, now)
  BY RegisterReads
     DEF Register!CanDraft, CanDraft, Register!CanPublish, CanPublish,
         Register!CanUnpublish, CanUnpublish, Register!CanRestoreRevision, CanRestoreRevision,
         Register!CanDelete, CanDelete, Register!CanRestoreDeleted, CanRestoreDeleted,
         Register!Mutable, Mutable, Register!AtVersion, AtVersion

LEMMA RegisterWrites ==
  /\ \A a, now :
       /\ Register!Published(a, now) = Published(a, now)
       /\ Register!Unpublished(a, now) = Unpublished(a, now)
       /\ Register!SoftDeleted(a, now) = SoftDeleted(a, now)
       /\ Register!DeletedRestored(a, now) = DeletedRestored(a, now)
  /\ \A id, data, now : Register!Created(id, data, now) = Created(id, data, now)
  /\ \A a, id, data, now : Register!Drafted(a, id, data, now) = Drafted(a, id, data, now)
  /\ \A a, source, id, now :
       Register!RevisionRestored(a, source, id, now) = RevisionRestored(a, source, id, now)
  /\ \A type, a, now, id : Register!Event(type, a, now, id) = Event(type, a, now, id)
  /\ Register!NoDocument = NoDocument
  BY RegisterReads
     DEF Register!Created, Created, Register!Drafted, Drafted,
         Register!RevisionRestored, RevisionRestored, Register!WithRevision, WithRevision,
         Register!Published, Published, Register!Unpublished, Unpublished,
         Register!SoftDeleted, SoftDeleted, Register!DeletedRestored, DeletedRestored,
         Register!Stamped, Stamped, Register!Event, Event, Register!NoDocument, NoDocument,
         Register!Never, Never, Register!WorkingId, WorkingId, Register!RevisionOf, RevisionOf,
         Register!Indices, Indices

-----------------------------------------------------------------------------
(* What a request is about to store is what one command makes of its copy. *)
Drafting(a, b, e, now) ==
  \E c \in Clients, f \in Fields, v \in Values :
    LET id == <<c, a.version + 1>>
        data == [WorkingRevision(a).data EXCEPT ![f] = v]
    IN /\ CanDraft(a, a.version, id, now)
       /\ b = Drafted(a, id, data, now)
       /\ e = Event("draft-created", b, now, Latest(b).id)

Restoring(a, b, e, now) ==
  \E c \in Clients : \E i \in Indices(a) :
    LET id == <<c, a.version + 1>>
        source == a.revisions[i].id
    IN /\ CanRestoreRevision(a, a.version, source, id, now)
       /\ b = RevisionRestored(a, source, id, now)
       /\ e = Event("revision-restored", b, now, Latest(b).id)

Stamping(a, b, e, now) ==
  \/ /\ CanPublish(a, a.version, now) /\ b = Published(a, now)
     /\ e = Event("published", b, now, a.identity.draft)
  \/ /\ CanUnpublish(a, a.version, now) /\ b = Unpublished(a, now)
     /\ e = Event("unpublished", b, now, a.identity.publication)
  \/ /\ CanDelete(a, a.version, now) /\ b = SoftDeleted(a, now)
     /\ e = Event("deleted", b, now, NoRevision)
  \/ /\ CanRestoreDeleted(a, a.version, now) /\ b = DeletedRestored(a, now)
     /\ e = Event("restored", b, now, NoRevision)

Commanded(a, b, e) ==
  /\ b.version <= MaxVersion
  /\ \E now \in Instants : Drafting(a, b, e, now) \/ Restoring(a, b, e, now)
                           \/ Stamping(a, b, e, now)

Purging(a, b, e) == b = a /\ \E now \in Instants : e = Event("purged", a, now, NoRevision)

DecidedInv ==
  \A c \in Clients : phase[c] = "prepared" =>
    IF event[c].type = "purged" THEN Purging(copy[c], result[c], event[c])
    ELSE Commanded(copy[c], result[c], event[c])

\* A request that does not prepare anything has nothing new to decide.
LEMMA DecidedStays ==
  ASSUME TypeOK, DecidedInv, NEW c \in Clients, phase'[c] # "prepared",
         \A d \in Clients \ {c} : /\ phase'[d] = phase[d] /\ copy'[d] = copy[d]
                                  /\ result'[d] = result[d] /\ event'[d] = event[d]
  PROVE  DecidedInv'
  BY DEF DecidedInv

\* A prepared command is the one that was applied.
LEMMA PrepareDecides ==
  ASSUME Inv, DecidedInv, NEW c \in Clients, NEW type, type # "purged", NEW next, NEW now,
         NEW revision, Prepare(c, type, next, now, revision), AggregateOK(next),
         Commanded(copy[c], next, Event(type, next, now, revision))
  PROVE  DecidedInv'
<1> DEFINE e == Event(type, next, now, revision)
<1>1. /\ phase' = [phase EXCEPT ![c] = "prepared"] /\ copy' = copy
      /\ result' = [result EXCEPT ![c] = next] /\ event' = [event EXCEPT ![c] = e]
  BY DEF Prepare
<1>2. e.type # "purged"  BY DEF Event
<1> HIDE DEF e
<1>3. /\ phase'[c] = "prepared" /\ copy'[c] = copy[c] /\ result'[c] = next /\ event'[c] = e
      /\ \A d \in Clients \ {c} : /\ phase'[d] = phase[d] /\ copy'[d] = copy[d]
                                  /\ result'[d] = result[d] /\ event'[d] = event[d]
  BY <1>1 DEF Inv, TypeOK
<1>4. Commanded(copy[c], next, e)  BY DEF e
<1> QED  BY <1>2, <1>3, <1>4 DEF DecidedInv

LEMMA UpdateDecides ==
  ASSUME Inv, DecidedInv, NEW c \in Clients, NEW now \in Instants,
         NEW f \in Fields, NEW v \in Values, Update(c, f, v, now)
  PROVE  DecidedInv'
<1> DEFINE a == copy[c]
           id == NewId(c)
           data == [WorkingRevision(a).data EXCEPT ![f] = v]
           next == Drafted(a, id, data, now)
<1>1. CanDraft(a, a.version, id, now) /\ Prepare(c, "draft-created", next, now, id)
  BY DEF Update, Expected
<1>2. a \in Aggregates /\ AggregateOK(a) /\ a.version < MaxVersion
  BY <1>1 DEF Prepare, Inv, TypeOK, CopyInv
<1>3. id = <<c, a.version + 1>> /\ id \in RevisionIds /\ a.version \in Nat
  BY <1>2 DEF NewId, Expected, RevisionIds, Aggregates
<1>4. data \in Data
  <2>1. WorkingRevision(a) \in Revisions
    <3>1. WorkingId(a) \in RevisionIds /\ HasRevision(a, WorkingId(a))
      BY <1>2, WorkingIsLatest, Parts DEF HasRevision, Latest, Indices
    <3>2. PICK i \in Indices(a) : a.revisions[i].id = WorkingId(a)
      BY <3>1 DEF HasRevision
    <3>3. WorkingRevision(a) = a.revisions[i]
      BY <1>2, <3>2, RevisionOfIndex DEF WorkingRevision, AggregateOK
    <3> QED  BY <1>2, <3>3, Typed
  <2> QED  BY <2>1 DEF Revisions, Data
<1>5. /\ AggregateOK(next) /\ next.version = a.version + 1 /\ Latest(next).id = id
  <2> HIDE DEF data, id, a
  <2>1. /\ AggregateOK(next) /\ next.version = a.version + 1
        /\ AddsRevision(a, next, id)
    BY <1>1, <1>2, <1>3, <1>4, DraftedOK
  <2> QED  BY <2>1 DEF AddsRevision
<1>6. Commanded(a, next, Event("draft-created", next, now, id))
  <2>1. Drafting(a, next, Event("draft-created", next, now, id), now)
    BY <1>1, <1>3, <1>5 DEF Drafting
  <2>2. next.version <= MaxVersion
    BY <1>2, <1>3, <1>5, MaxVersionAssumption
  <2> HIDE DEF next
  <2> QED  BY <2>1, <2>2 DEF Commanded
<1> HIDE DEF next, data, id
<1> QED  BY <1>1, <1>5, <1>6, PrepareDecides

LEMMA RestoreDecides ==
  ASSUME Inv, DecidedInv, NEW c \in Clients, NEW now \in Instants,
         NEW i \in Indices(copy[c]), RestoreRevision(c, i, now)
  PROVE  DecidedInv'
<1> DEFINE a == copy[c]
           id == NewId(c)
           source == a.revisions[i].id
           next == RevisionRestored(a, source, id, now)
<1>1. /\ CanRestoreRevision(a, a.version, source, id, now)
      /\ Prepare(c, "revision-restored", next, now, id)
  BY DEF RestoreRevision, Expected
<1>2. a \in Aggregates /\ AggregateOK(a) /\ a.version < MaxVersion
  BY <1>1 DEF Prepare, Inv, TypeOK, CopyInv
<1>3. id = <<c, a.version + 1>> /\ id \in RevisionIds /\ a.version \in Nat
  BY <1>2 DEF NewId, Expected, RevisionIds, Aggregates
<1>4. source \in RevisionIds /\ RevisionOf(a, source).data \in Data
  <2>1. a.revisions[i] \in Revisions  BY <1>2, Typed
  <2>2. RevisionOf(a, source) = a.revisions[i]
    BY <1>2, <2>1, RevisionOfIndex DEF AggregateOK
  <2> QED  BY <2>1, <2>2 DEF Revisions
<1>5. /\ AggregateOK(next) /\ next.version = a.version + 1 /\ Latest(next).id = id
  <2> HIDE DEF source, id, a
  <2>1. /\ AggregateOK(next) /\ next.version = a.version + 1
        /\ AddsRevision(a, next, id)
    BY <1>1, <1>2, <1>3, <1>4, RevisionRestoredOK
  <2> QED  BY <2>1 DEF AddsRevision
<1>6. Commanded(a, next, Event("revision-restored", next, now, id))
  <2>1. Restoring(a, next, Event("revision-restored", next, now, id), now)
    BY <1>1, <1>3, <1>5 DEF Restoring
  <2>2. next.version <= MaxVersion
    BY <1>2, <1>3, <1>5, MaxVersionAssumption
  <2> HIDE DEF next
  <2> QED  BY <2>1, <2>2 DEF Commanded
<1> HIDE DEF next, source, id
<1> QED  BY <1>1, <1>5, <1>6, PrepareDecides

LEMMA StampDecides ==
  ASSUME Inv, DecidedInv, NEW c \in Clients, NEW now \in Instants,
         Publish(c, now) \/ Unpublish(c, now) \/ Delete(c, now) \/ RestoreDeleted(c, now)
  PROVE  DecidedInv'
<1> DEFINE a == copy[c]
<1>1. /\ a \in Aggregates /\ AggregateOK(a) /\ a.version < MaxVersion /\ a.version \in Nat
  <2>1. phase[c] = "loaded" /\ a.version < MaxVersion
    BY DEF Publish, Unpublish, Delete, RestoreDeleted, Prepare
  <2> QED  BY <2>1 DEF Inv, TypeOK, CopyInv, Aggregates
<1>2. ASSUME NEW type, type # "purged", NEW next, NEW revision,
             AggregateOK(next), next.version = a.version + 1,
             Stamping(a, next, Event(type, next, now, revision), now),
             Prepare(c, type, next, now, revision)
      PROVE  DecidedInv'
  <2>1. next.version <= MaxVersion  BY <1>1, <1>2, MaxVersionAssumption
  <2>2. Commanded(a, next, Event(type, next, now, revision))  BY <1>2, <2>1 DEF Commanded
  <2> QED  BY <1>2, <2>2, PrepareDecides
<1>3. CASE Publish(c, now)
  <2>1. CanPublish(a, a.version, now)  BY <1>3 DEF Publish, Expected
  <2> QED  BY <1>1, <1>2, <1>3, <2>1, PublishedOK DEF Publish, Stamping
<1>4. CASE Unpublish(c, now)
  <2>1. CanUnpublish(a, a.version, now)  BY <1>4 DEF Unpublish, Expected
  <2> QED  BY <1>1, <1>2, <1>4, <2>1, UnpublishedOK DEF Unpublish, Stamping
<1>5. CASE Delete(c, now)
  <2>1. CanDelete(a, a.version, now)  BY <1>5 DEF Delete, Expected
  <2> QED  BY <1>1, <1>2, <1>5, <2>1, SoftDeletedOK DEF Delete, Stamping
<1>6. CASE RestoreDeleted(c, now)
  <2>1. CanRestoreDeleted(a, a.version, now)  BY <1>6 DEF RestoreDeleted, Expected
  <2> QED  BY <1>1, <1>2, <1>6, <2>1, DeletedRestoredOK DEF RestoreDeleted, Stamping
<1> QED  BY <1>3, <1>4, <1>5, <1>6

LEMMA PurgeDecides ==
  ASSUME Inv, DecidedInv, NEW c \in Clients, NEW now \in Instants, PreparePurge(c, now)
  PROVE  DecidedInv'
<1> DEFINE e == Event("purged", copy[c], now, NoRevision)
<1>1. /\ phase' = [phase EXCEPT ![c] = "prepared"] /\ copy' = copy
      /\ result' = [result EXCEPT ![c] = copy[c]] /\ event' = [event EXCEPT ![c] = e]
  BY DEF PreparePurge
<1>2. e.type = "purged"  BY DEF Event
<1>3. Purging(copy[c], copy[c], e)  BY DEF Purging
<1> HIDE DEF e
<1>4. /\ phase'[c] = "prepared" /\ copy'[c] = copy[c] /\ result'[c] = copy[c] /\ event'[c] = e
      /\ \A d \in Clients \ {c} : /\ phase'[d] = phase[d] /\ copy'[d] = copy[d]
                                  /\ result'[d] = result[d] /\ event'[d] = event[d]
  BY <1>1 DEF Inv, TypeOK
<1> QED  BY <1>2, <1>3, <1>4 DEF DecidedInv

LEMMA NextDecides == Inv /\ DecidedInv /\ [Next]_vars => DecidedInv'
<1> SUFFICES ASSUME Inv, DecidedInv, [Next]_vars  PROVE DecidedInv'
  OBVIOUS
<1>1. CASE UNCHANGED vars  BY <1>1 DEF vars, DecidedInv
<1>2. ASSUME NEW c \in Clients,
             LoadIdentity(c) \/ LoadRevisions(c) \/ CommitUpdate(c) \/ CommitPurge(c) \/ Abort(c)
      PROVE  DecidedInv'
  <2>1. CASE Finish(c)  BY <2>1, FinishParts, DecidedStays DEF Inv
  <2>2. CASE /\ \/ phase' = [phase EXCEPT ![c] = "reading"]
                \/ phase' = [phase EXCEPT ![c] = "loaded"]
             /\ \E a : copy' = [copy EXCEPT ![c] = a]
             /\ UNCHANGED <<result, event>>
    <3>1. /\ phase'[c] # "prepared"
          /\ \A d \in Clients \ {c} : /\ phase'[d] = phase[d] /\ copy'[d] = copy[d]
                                      /\ result'[d] = result[d] /\ event'[d] = event[d]
      BY <2>2 DEF Inv, TypeOK
    <3> QED  BY <3>1, DecidedStays DEF Inv
  <2> QED  BY <1>2, <2>1, <2>2 DEF LoadIdentity, LoadRevisions, CommitUpdate, CommitPurge, Abort
<1>3. ASSUME NEW c \in Clients, NEW now \in Instants, NEW data, CreateDocument(c, data, now)
      PROVE  DecidedInv'
  BY <1>3 DEF CreateDocument, clientVars, DecidedInv
<1>4. ASSUME NEW c \in Clients, NEW now \in Instants,
             \/ \E f \in Fields, v \in Values : Update(c, f, v, now)
             \/ Publish(c, now)
             \/ Unpublish(c, now)
             \/ \E i \in Indices(copy[c]) : RestoreRevision(c, i, now)
             \/ Delete(c, now)
             \/ RestoreDeleted(c, now)
             \/ PreparePurge(c, now)
      PROVE  DecidedInv'
  BY <1>4, UpdateDecides, RestoreDecides, StampDecides, PurgeDecides
<1> QED  BY <1>1, <1>2, <1>3, <1>4 DEF Next

-----------------------------------------------------------------------------
(* Every commit is one command of the register. *)
LEMMA CommandIsAtomic ==
  ASSUME NEW c, Exists, AggregateOK(Stored), Commanded(Stored, Stored', event[c]),
         outbox' = Append(outbox, event[c])
  PROVE  Register!Next
<1> DEFINE a == Stored
           b == Stored'
<1>0. /\ a = [identity |-> row.identity, revisions |-> table, version |-> row.version]
      /\ b = [identity |-> row'.identity, revisions |-> table', version |-> row'.version]
  BY DEF Stored, Assembled
<1>1. a.version # 0  BY DEF Exists, Stored, Assembled
<1>2. PICK now \in Instants : Drafting(a, b, event[c], now) \/ Restoring(a, b, event[c], now)
                              \/ Stamping(a, b, event[c], now)
  BY DEF Commanded
<1>3. b.version <= MaxVersion  BY DEF Commanded
<1> HIDE DEF a, b
<1>4. ASSUME NEW d \in Clients, NEW f \in Fields, NEW v \in Values,
             LET id == <<d, a.version + 1>>
                 data == [WorkingRevision(a).data EXCEPT ![f] = v]
             IN /\ CanDraft(a, a.version, id, now) /\ b = Drafted(a, id, data, now)
                /\ event[c] = Event("draft-created", b, now, Latest(b).id)
      PROVE  Register!Draft(d, f, v, now)
  <2> DEFINE id == <<d, a.version + 1>>
             data == [Register!WorkingRevision(a).data EXCEPT ![f] = v]
  <2>1. /\ Register!CanDraft(a, a.version, id, now) /\ b = Register!Drafted(a, id, data, now)
        /\ event[c] = Register!Event("draft-created", b, now, Register!Latest(b).id)
    BY <1>4, RegisterReads, RegisterGuards, RegisterWrites
  <2> QED  BY <1>0, <1>1, <1>3, <2>1 DEF Register!Draft, Register!Record, Register!Exists
<1>5. ASSUME NEW d \in Clients, NEW i \in Indices(a),
             LET id == <<d, a.version + 1>>
                 source == a.revisions[i].id
             IN /\ CanRestoreRevision(a, a.version, source, id, now)
                /\ b = RevisionRestored(a, source, id, now)
                /\ event[c] = Event("revision-restored", b, now, Latest(b).id)
      PROVE  Register!RestoreRevision(d, i, now) /\ i \in Register!Indices(a)
  <2> DEFINE id == <<d, a.version + 1>>
             source == a.revisions[i].id
  <2>1. /\ Register!CanRestoreRevision(a, a.version, source, id, now)
        /\ b = Register!RevisionRestored(a, source, id, now)
        /\ event[c] = Register!Event("revision-restored", b, now, Register!Latest(b).id)
        /\ i \in Register!Indices(a)
    BY <1>5, RegisterReads, RegisterGuards, RegisterWrites
  <2> QED  BY <1>0, <1>1, <1>3, <2>1 DEF Register!RestoreRevision, Register!Record, Register!Exists
<1>6. CASE Stamping(a, b, event[c], now)
  <2>1. CASE /\ Register!CanPublish(a, a.version, now) /\ b = Register!Published(a, now)
             /\ event[c] = Register!Event("published", b, now, a.identity.draft)
    BY <1>0, <1>1, <1>3, <2>1
       DEF Register!Next, Register!Publish, Register!Record, Register!Exists
  <2>2. CASE /\ Register!CanUnpublish(a, a.version, now) /\ b = Register!Unpublished(a, now)
             /\ event[c] = Register!Event("unpublished", b, now, a.identity.publication)
    BY <1>0, <1>1, <1>3, <2>2
       DEF Register!Next, Register!Unpublish, Register!Record, Register!Exists
  <2>3. CASE /\ Register!CanDelete(a, a.version, now) /\ b = Register!SoftDeleted(a, now)
             /\ event[c] = Register!Event("deleted", b, now, NoRevision)
    BY <1>0, <1>1, <1>3, <2>3
       DEF Register!Next, Register!SoftDelete, Register!Record, Register!Exists
  <2>4. CASE /\ Register!CanRestoreDeleted(a, a.version, now)
             /\ b = Register!DeletedRestored(a, now)
             /\ event[c] = Register!Event("restored", b, now, NoRevision)
    BY <1>0, <1>1, <1>3, <2>4
       DEF Register!Next, Register!RestoreDeleted, Register!Record, Register!Exists
  <2> QED  BY <1>6, <2>1, <2>2, <2>3, <2>4, RegisterGuards, RegisterWrites DEF Stamping
<1>7. CASE Drafting(a, b, event[c], now)  BY <1>4, <1>7 DEF Drafting, Register!Next
<1>8. CASE Restoring(a, b, event[c], now)
  <2>1. PICK d \in Clients, i \in Register!Indices(a) : Register!RestoreRevision(d, i, now)
    BY <1>5, <1>8 DEF Restoring
  <2> QED  BY <1>0, <2>1 DEF Register!Next
<1> QED  BY <1>2, <1>6, <1>7, <1>8

LEMMA CommitUpdateIsCommand ==
  ASSUME Inv, DecidedInv, NEW c \in Clients, CommitUpdate(c)
  PROVE  /\ Register!Next
         /\ Commanded(Stored, Stored', event[c]) /\ outbox' = Append(outbox, event[c])
<1>1. /\ phase[c] = "prepared" /\ event[c].type # "purged" /\ VersionMatches(c)
      /\ outbox' = Append(outbox, event[c])
  BY DEF CommitUpdate
<1>2. copy[c] = Stored /\ AggregateOK(Stored) /\ Stored' = result[c]
  BY <1>1, CommitUpdateInv DEF Inv, CopyInv
<1>3. Commanded(Stored, Stored', event[c])  BY <1>1, <1>2 DEF DecidedInv
<1>4. Exists
  BY <1>1, <1>2 DEF Inv, CopyInv, VersionMatches, Expected, Exists, AggregateOK, Stored, Assembled
<1> QED  BY <1>1, <1>2, <1>3, <1>4, CommandIsAtomic

LEMMA CommitPurgeIsCommand ==
  ASSUME Inv, DecidedInv, NEW c \in Clients, CommitPurge(c)
  PROVE  Register!Next
<1>1. /\ phase[c] = "prepared" /\ event[c].type = "purged" /\ VersionMatches(c)
      /\ IsDeleted(Stored) /\ outbox' = Append(outbox, event[c])
      /\ row' = NoRow /\ table' = <<>>
  BY DEF CommitPurge
<1>2. copy[c] = Stored /\ AggregateOK(Stored)
  BY <1>1 DEF Inv, CopyInv
<1>3. PICK now \in Instants : event[c] = Event("purged", Stored, now, NoRevision)
  BY <1>1, <1>2 DEF DecidedInv, Purging
<1>4. /\ Stored = [identity |-> row.identity, revisions |-> table, version |-> row.version]
      /\ [identity |-> row'.identity, revisions |-> table', version |-> row'.version] = NoDocument
      /\ row.version # 0
  BY <1>1, <1>2 DEF Inv, CopyInv, VersionMatches, Expected, Stored, Assembled, NoRow, NoDocument,
                    AggregateOK
<1>5. Register!Purge(now)
  BY <1>1, <1>3, <1>4, RegisterReads, RegisterWrites DEF Register!Purge, Register!Exists, Stored, Assembled
<1> QED  BY <1>5 DEF Register!Next

LEMMA CreateIsCommand ==
  ASSUME Inv, NEW c \in Clients, NEW data \in Data, NEW now \in Instants,
         CreateDocument(c, data, now)
  PROVE  Register!Next
<1> DEFINE next == Created(<<c, 1>>, data, now)
<1>1. /\ outbox = <<>> /\ MaxVersion >= 1
      /\ row' = [identity |-> next.identity, version |-> next.version]
      /\ table' = next.revisions /\ outbox' = <<Event("created", next, now, Latest(next).id)>>
  BY DEF CreateDocument
<1>2. next = [identity |-> next.identity, revisions |-> next.revisions, version |-> 1]
  BY DEF Created
<1> HIDE DEF next
<1>3. [identity |-> row'.identity, revisions |-> table', version |-> row'.version] = next
  BY <1>1, <1>2
<1>4. /\ next.version = 1
      /\ outbox' = Append(outbox, Event("created", next, now, Latest(next).id))
  BY <1>1, <1>2
<1>5. data \in Register!Data  BY DEF Data, Register!Data
<1>6. Register!Create(c, data, now)
  BY <1>1, <1>3, <1>4, RegisterReads, RegisterWrites, MaxVersionAssumption
     DEF Register!Create, Register!Record, next
<1> QED  BY <1>5, <1>6 DEF Register!Next

\* The steps that are no commit leave the register alone.
StoreSteps ==
  \/ \E c \in Clients : CommitUpdate(c) \/ CommitPurge(c)
  \/ \E c \in Clients, data \in Data, now \in Instants : CreateDocument(c, data, now)

LEMMA OthersLeaveTheStore == [Next]_vars => StoreSteps \/ UNCHANGED store
<1> SUFFICES ASSUME [Next]_vars  PROVE StoreSteps \/ UNCHANGED store
  OBVIOUS
<1>1. CASE UNCHANGED vars  BY <1>1 DEF vars, store
<1>2. ASSUME NEW c \in Clients, LoadIdentity(c) \/ LoadRevisions(c) \/ Abort(c)
      PROVE  UNCHANGED store
  BY <1>2 DEF LoadIdentity, LoadRevisions, Abort
<1>3. ASSUME NEW c \in Clients, NEW now \in Instants,
             \/ \E f \in Fields, v \in Values : Update(c, f, v, now)
             \/ \E i \in Indices(copy[c]) : RestoreRevision(c, i, now)
             \/ Publish(c, now) \/ Unpublish(c, now) \/ Delete(c, now) \/ RestoreDeleted(c, now)
             \/ PreparePurge(c, now)
      PROVE  UNCHANGED store
  BY <1>3 DEF Update, Publish, Unpublish, RestoreRevision, Delete, RestoreDeleted,
              PreparePurge, Prepare
<1> QED  BY <1>1, <1>2, <1>3 DEF Next, StoreSteps

\* Where there is no document nothing of one is left.
NothingLeft == Exists \/ Stored = NoDocument

LEMMA NextLeavesNothing == Inv /\ NothingLeft /\ [Next]_vars => NothingLeft'
<1> SUFFICES ASSUME Inv, NothingLeft, [Next]_vars  PROVE NothingLeft'
  OBVIOUS
<1>1. CASE UNCHANGED store  BY <1>1 DEF store, NothingLeft, Exists, Stored
<1>2. ASSUME NEW c \in Clients, CommitUpdate(c)  PROVE NothingLeft'
  <2>1. AggregateOK(result[c]) /\ Stored' = result[c]
    BY <1>2, CommitUpdateInv DEF CommitUpdate, Inv, ResultInv
  <2>2. row'.version # 0  BY <1>2, <2>1 DEF CommitUpdate, AggregateOK
  <2> QED  BY <2>2 DEF NothingLeft, Exists
<1>3. ASSUME NEW c \in Clients, CommitPurge(c)  PROVE NothingLeft'
  BY <1>3 DEF CommitPurge, NothingLeft, Stored, Assembled, NoRow, NoDocument
<1>4. ASSUME NEW c \in Clients, NEW data \in Data, NEW now \in Instants,
             CreateDocument(c, data, now)
      PROVE  NothingLeft'
  BY <1>4 DEF CreateDocument, Created, NothingLeft, Exists
<1> QED  BY <1>1, <1>2, <1>3, <1>4, OthersLeaveTheStore DEF StoreSteps

\* What a request prepared is always the result of one command on its copy.
THEOREM RequestsAreDecided == Spec => [](Inv /\ DecidedInv /\ NothingLeft)
<1>1. Init => Inv /\ DecidedInv /\ NothingLeft
  BY InitInv DEF Init, DecidedInv, NothingLeft, Stored, Assembled, NoRow, NoDocument
<1> QED  BY <1>1, NextInv, NextDecides, NextLeavesNothing, PTL DEF Spec

\* The document behaves as one register to which whole commands are applied,
\* although requests load it in two queries and write it in a third step, fail
\* and crash in between (documents.ts, document-store.ts).
THEOREM DocumentIsARegister == Spec => Linearizable
<1>1. Init => Register!Init
  BY RegisterWrites DEF Init, Register!Init, NoRow, NoDocument
<1>2. Inv /\ DecidedInv /\ [Next]_vars => [Register!Next]_Register!vars
  <2> SUFFICES ASSUME Inv, DecidedInv, [Next]_vars
               PROVE  Register!Next \/ UNCHANGED Register!vars
    OBVIOUS
  <2>1. CASE UNCHANGED store  BY <2>1 DEF store, Register!vars
  <2>2. CASE StoreSteps
    BY <2>2, CommitUpdateIsCommand, CommitPurgeIsCommand, CreateIsCommand DEF StoreSteps
  <2> QED  BY <2>1, <2>2, OthersLeaveTheStore
<1> QED  BY <1>1, <1>2, RequestsAreDecided, PTL DEF Spec, Linearizable, Register!Spec

-----------------------------------------------------------------------------
(* Readers *)

\* A draft, a restored revision and a new document leave the public one alone.
LEMMA DraftIsPrivate ==
  ASSUME NEW a \in Aggregates, NEW id, NEW kind, NEW source, NEW data, NEW now
  PROVE  PublicId(WithRevision(a, id, kind, source, data, now)) = PublicId(a)
<1> DEFINE identity == [[a.identity EXCEPT !.draft = id] EXCEPT !.updatedAt = now]
           b == WithRevision(a, id, kind, source, data, now)
<1>1. a.identity \in Identities  BY DEF Aggregates
<1>2. /\ identity.publication = a.identity.publication
      /\ identity.deletedAt = a.identity.deletedAt
      /\ identity.archivedAt = a.identity.archivedAt
  BY <1>1 DEF Identities
<1>3. b.identity = identity  BY DEF WithRevision, Stamped
<1> HIDE DEF b, identity
<1>4. PublicId(b) = PublicId(a)  BY <1>2, <1>3 DEF PublicId, IsDeleted, IsArchived
<1> QED  BY <1>4 DEF b

\* An edit that runs beside publications never shows to the public: what its
\* readers see changes with a publication, an unpublication, a deletion, a
\* restored deletion or a purge only (getPublicRevision).
THEOREM EditsStayInvisible == Spec => EditsStayPrivate
<1> DEFINE edits == {"created", "draft-created", "revision-restored"}
           a == [identity |-> row.identity, revisions |-> table, version |-> row.version]
<1>1. ASSUME Inv, DecidedInv, NothingLeft, [Next]_vars,
             Register!PublicId(a') # Register!PublicId(a)
      PROVE  Register!Last(outbox').type \notin edits
  <2>1. PublicId(Stored') # PublicId(Stored)
    BY <1>1, RegisterReads DEF Stored, Assembled
  <2>2. ASSUME NEW e \in Events, outbox' = Append(outbox, e)
        PROVE  Register!Last(outbox') = e
    BY <1>1, <2>2 DEF Inv, TypeOK, Register!Last
  <2>3. CASE UNCHANGED store  BY <2>1, <2>3 DEF store, Stored
  <2>4. ASSUME NEW c \in Clients, CommitUpdate(c)
        PROVE  Register!Last(outbox').type \notin edits
    <3>1. Commanded(Stored, Stored', event[c]) /\ outbox' = Append(outbox, event[c])
      BY <1>1, <2>4, CommitUpdateIsCommand
    <3>2. event[c] \in Events
      BY <1>1, <2>4 DEF Inv, TypeOK, CommitUpdate
    <3>3. Stored \in Aggregates
      BY <1>1, <2>4 DEF Inv, TypeOK, CopyInv, CommitUpdate
    <3>4. PICK now \in Instants :
            \/ Drafting(Stored, Stored', event[c], now)
            \/ Restoring(Stored, Stored', event[c], now)
            \/ Stamping(Stored, Stored', event[c], now)
      BY <3>1 DEF Commanded
    <3>5. ~Drafting(Stored, Stored', event[c], now)
      <4>1. \A id, data : PublicId(Drafted(Stored, id, data, now)) = PublicId(Stored)
        BY <3>3, DraftIsPrivate DEF Drafted
      <4> QED  BY <2>1, <4>1 DEF Drafting
    <3>6. ~Restoring(Stored, Stored', event[c], now)
      <4>1. \A id, source :
              PublicId(RevisionRestored(Stored, source, id, now)) = PublicId(Stored)
        BY <3>3, DraftIsPrivate DEF RevisionRestored
      <4> QED  BY <2>1, <4>1 DEF Restoring
    <3>7. event[c].type \in {"published", "unpublished", "deleted", "restored"}
      BY <3>4, <3>5, <3>6 DEF Stamping, Event
    <3> QED  BY <2>2, <3>1, <3>2, <3>7
  <2>5. ASSUME NEW c \in Clients, CommitPurge(c)
        PROVE  Register!Last(outbox').type \notin edits
    BY <1>1, <2>2, <2>5 DEF CommitPurge, Inv, TypeOK
  <2>6. ASSUME NEW c \in Clients, NEW data \in Data, NEW now \in Instants,
               CreateDocument(c, data, now)
        PROVE  FALSE
    <3>1. Stored = NoDocument
      BY <1>1, <2>6 DEF CreateDocument, Inv, NothingLeft
    <3>2. Stored'.identity = Created(<<c, 1>>, data, now).identity
      BY <2>6 DEF CreateDocument, Stored, Assembled
    <3>3. PublicId(Stored') = NoRevision /\ PublicId(Stored) = NoRevision
      BY <3>1, <3>2 DEF PublicId, IsDeleted, IsArchived, Created, NoDocument
    <3> QED  BY <2>1, <3>3
  <2> QED  BY <1>1, <2>3, <2>4, <2>5, <2>6, OthersLeaveTheStore DEF StoreSteps
<1>2. Inv /\ DecidedInv /\ NothingLeft /\ [Next]_vars =>
        [Register!PublicId(a') # Register!PublicId(a) =>
           Register!Last(outbox').type \notin edits]_Register!vars
  BY <1>1
<1> QED  BY <1>2, RequestsAreDecided, PTL DEF Spec, EditsStayPrivate, Register!EditsStayPrivate
-----------------------------------------------------------------------------
(* What the events tell *)

ReplayStep(h, r, i) == IF i = 0 THEN ViewOf(NoDocument) ELSE Handled(r[i - 1], h[i])
Replays(h, r, N) == r = [i \in 0 .. N |-> ReplayStep(h, r, i)]

(* The function that Replayed defines by recursion exists ... *)
LEMMA ReplayExists ==
  ASSUME NEW h, NEW N \in Nat
  PROVE  \E r : Replays(h, r, N)
<1> DEFINE T == {j \in Nat : \E r : Replays(h, r, j)}
<1>1. 0 \in T
  <2> DEFINE g == [i \in 0 .. 0 |-> ViewOf(NoDocument)]
  <2>1. g = [i \in 0 .. 0 |-> ReplayStep(h, g, i)]
    BY DEF ReplayStep
  <2> QED  BY <2>1 DEF Replays
<1>2. ASSUME NEW k \in Nat, k \in T
      PROVE  k + 1 \in T
  <2>1. PICK r : Replays(h, r, k)  BY <1>2
  <2> DEFINE g == [i \in 0 .. k + 1 |-> IF i <= k THEN r[i] ELSE Handled(r[k], h[k + 1])]
  <2>2. ASSUME NEW i \in 0 .. k + 1
        PROVE  g[i] = ReplayStep(h, g, i)
    <3>1. CASE i <= k
      <4>1. g[i] = r[i] /\ r[i] = ReplayStep(h, r, i)
        BY <2>1, <3>1 DEF Replays
      <4>2. i # 0 => i - 1 \in 0 .. k + 1 /\ g[i - 1] = r[i - 1]
        BY <3>1
      <4> HIDE DEF g
      <4> QED  BY <4>1, <4>2 DEF ReplayStep
    <3>2. CASE i = k + 1
      <4>1. g[i] = Handled(r[k], h[i]) /\ g[i - 1] = r[k] /\ i # 0
        BY <3>2
      <4>2. i - 1 = k  BY <3>2
      <4> HIDE DEF g
      <4> QED  BY <4>1 DEF ReplayStep
    <3> QED  BY <3>1, <3>2
  <2>3. g = [i \in 0 .. k + 1 |-> ReplayStep(h, g, i)]
    <3>1. g = [i \in 0 .. k + 1 |-> g[i]]  OBVIOUS
    <3> HIDE DEF g
    <3> QED  BY <2>2, <3>1
  <2>4. Replays(h, g, k + 1)  BY <2>3 DEF Replays
  <2> HIDE DEF g
  <2> QED  BY <2>4
<1>3. N \in T
  <2> HIDE DEF T
  <2> QED  BY <1>1, <1>2, SetInduction
<1> QED  BY <1>3

(* ... and is the one that Replayed reads. *)
LEMMA ReplayedReads ==
  ASSUME NEW h, NEW N \in Nat
  PROVE  \E r : Replays(h, r, N) /\ Replayed(h, N) = r[N]
<1> DEFINE r == CHOOSE f : f = [i \in 0 .. N |->
                  IF i = 0 THEN ViewOf(NoDocument) ELSE Handled(f[i - 1], h[i])]
<1>1. Replayed(h, N) = r[N]  BY DEF Replayed
<1>2. PICK g : g = [i \in 0 .. N |->
                  IF i = 0 THEN ViewOf(NoDocument) ELSE Handled(g[i - 1], h[i])]
  BY ReplayExists DEF Replays, ReplayStep
<1>3. r = [i \in 0 .. N |-> IF i = 0 THEN ViewOf(NoDocument) ELSE Handled(r[i - 1], h[i])]
  BY <1>2, Zenon
<1> HIDE DEF r
<1>4. Replays(h, r, N)  BY <1>3 DEF Replays, ReplayStep
<1> QED  BY <1>1, <1>4

(* Two replays agree as long as their histories do. *)
LEMMA ReplaysAgree ==
  ASSUME NEW g, NEW h, NEW r, NEW s, NEW M \in Nat, NEW N \in Nat,
         Replays(g, r, M), Replays(h, s, N),
         NEW K \in Nat, K <= M, K <= N, \A i \in 1 .. K : g[i] = h[i]
  PROVE  r[K] = s[K]
<1> DEFINE T == {j \in Nat : j <= K => r[j] = s[j]}
<1>1. 0 \in T
  BY DEF Replays, ReplayStep
<1>2. ASSUME NEW j \in Nat, j \in T
      PROVE  j + 1 \in T
  <2> SUFFICES ASSUME j + 1 <= K  PROVE r[j + 1] = s[j + 1]
    OBVIOUS
  <2>1. r[j + 1] = ReplayStep(g, r, j + 1) /\ s[j + 1] = ReplayStep(h, s, j + 1)
    <3>1. j + 1 \in 0 .. M /\ j + 1 \in 0 .. N  OBVIOUS
    <3> QED  BY <3>1 DEF Replays
  <2>2. r[j] = s[j] /\ g[j + 1] = h[j + 1] /\ j + 1 # 0 /\ (j + 1) - 1 = j
    BY <1>2
  <2> QED  BY <2>1, <2>2 DEF ReplayStep
<1>3. K \in T
  <2> HIDE DEF T
  <2> QED  BY <1>1, <1>2, SetInduction
<1> QED  BY <1>3

(* Nothing is known before the first event; each event adds what it says;   *)
(* and what a consumer knows depends on the events it has handled only.     *)
LEMMA ReplayLaws ==
  /\ \A h : Replayed(h, 0) = ViewOf(NoDocument)
  /\ \A h : \A n \in Nat : Replayed(h, n + 1) = Handled(Replayed(h, n), h[n + 1])
  /\ \A g, h : \A n \in Nat :
       (\A i \in 1 .. n : g[i] = h[i]) => Replayed(g, n) = Replayed(h, n)
<1>1. ASSUME NEW h  PROVE Replayed(h, 0) = ViewOf(NoDocument)
  <2>1. PICK r : Replays(h, r, 0) /\ Replayed(h, 0) = r[0]  BY ReplayedReads
  <2> QED  BY <2>1 DEF Replays, ReplayStep
<1>2. ASSUME NEW h, NEW n \in Nat
      PROVE  Replayed(h, n + 1) = Handled(Replayed(h, n), h[n + 1])
  <2>1. PICK r : Replays(h, r, n + 1) /\ Replayed(h, n + 1) = r[n + 1]  BY ReplayedReads
  <2>2. PICK s : Replays(h, s, n) /\ Replayed(h, n) = s[n]  BY ReplayedReads
  <2>3. r[n] = s[n]  BY <2>1, <2>2, ReplaysAgree
  <2>4. r[n + 1] = ReplayStep(h, r, n + 1)  BY <2>1 DEF Replays
  <2> QED  BY <2>1, <2>2, <2>3, <2>4 DEF ReplayStep
<1>3. ASSUME NEW g, NEW h, NEW n \in Nat, \A i \in 1 .. n : g[i] = h[i]
      PROVE  Replayed(g, n) = Replayed(h, n)
  <2>1. PICK r : Replays(g, r, n) /\ Replayed(g, n) = r[n]  BY ReplayedReads
  <2>2. PICK s : Replays(h, s, n) /\ Replayed(h, n) = s[n]  BY ReplayedReads
  <2> QED  BY <1>3, <2>1, <2>2, ReplaysAgree
<1> QED  BY <1>1, <1>2, <1>3

(* Appending an event leaves what was known, and adds what it says. *)
LEMMA ReplayAppends ==
  ASSUME NEW h \in Seq(Events), NEW e
  PROVE  /\ \A n \in 0 .. Len(h) : Replayed(Append(h, e), n) = Replayed(h, n)
         /\ Replayed(Append(h, e), Len(h) + 1) = Handled(Replayed(h, Len(h)), e)
<1>1. \A n \in 0 .. Len(h) : Replayed(Append(h, e), n) = Replayed(h, n)
  <2> SUFFICES ASSUME NEW n \in 0 .. Len(h)
               PROVE  Replayed(Append(h, e), n) = Replayed(h, n)
    OBVIOUS
  <2>1. n \in Nat /\ \A i \in 1 .. n : Append(h, e)[i] = h[i]  OBVIOUS
  <2> QED  BY <2>1, ReplayLaws
<1>2. /\ Len(h) \in Nat /\ Append(h, e)[Len(h) + 1] = e
      /\ Replayed(Append(h, e), Len(h)) = Replayed(h, Len(h))
  BY <1>1
<1> QED  BY <1>1, <1>2, ReplayLaws

(* The event of a command tells what the command did. *)
LEMMA RevisionTells ==
  ASSUME NEW a \in Aggregates, NEW id, NEW kind, NEW source, NEW data, NEW now, NEW b, NEW e,
         NEW type \in {"draft-created", "revision-restored"},
         b = WithRevision(a, id, kind, source, data, now),
         e = Event(type, b, now, Latest(b).id)
  PROVE  Handled(ViewOf(a), e) = ViewOf(b)
<1> DEFINE identity == [[a.identity EXCEPT !.draft = id] EXCEPT !.updatedAt = now]
           added == [id |-> id, sequence |-> Len(a.revisions) + 1, parent |-> WorkingId(a),
                     kind |-> kind, source |-> source, data |-> data, createdAt |-> now]
<1>1. a.identity \in Identities /\ a.revisions \in Seq(Revisions)  BY DEF Aggregates
<1>2. /\ identity.draft = id /\ identity.publication = a.identity.publication
      /\ identity.deletedAt = a.identity.deletedAt
  BY <1>1 DEF Identities
<1>3. /\ b.identity = identity /\ b.revisions = Append(a.revisions, added)
      /\ b.version = a.version + 1
  BY DEF WithRevision, Stamped
<1>4. added.id = id  OBVIOUS
<1> HIDE DEF identity, added
<1>5. Len(b.revisions) = Len(a.revisions) + 1 /\ Latest(b).id = id
  BY <1>1, <1>3, <1>4 DEF Latest
<1>6. /\ ViewOf(b).length = ViewOf(a).length + 1 /\ ViewOf(b).draft = id
      /\ ViewOf(b).publication = ViewOf(a).publication /\ ViewOf(b).deleted = ViewOf(a).deleted
      /\ ViewOf(b).version = b.version
  BY <1>2, <1>3, <1>5 DEF ViewOf, IsDeleted
<1>7. e.type \in {"draft-created", "revision-restored"} /\ e.revision = id /\ e.version = b.version
  BY <1>5 DEF Event
<1>8. /\ Handled(ViewOf(a), e).version = ViewOf(b).version
      /\ Handled(ViewOf(a), e).draft = ViewOf(b).draft
      /\ Handled(ViewOf(a), e).publication = ViewOf(b).publication
      /\ Handled(ViewOf(a), e).deleted = ViewOf(b).deleted
      /\ Handled(ViewOf(a), e).length = ViewOf(b).length
  BY <1>6, <1>7 DEF Handled
<1> QED  BY <1>8 DEF Handled, ViewOf

LEMMA StampTells ==
  ASSUME NEW a \in Aggregates, NEW now \in Instants, NEW b, NEW e, Stamping(a, b, e, now)
  PROVE  Handled(ViewOf(a), e) = ViewOf(b) /\ b.version = a.version + 1
<1>1. /\ a.identity \in Identities /\ now # Never
  BY InstantsAssumption DEF Aggregates, Never
<1>2. /\ b.revisions = a.revisions /\ b.version = a.version + 1 /\ e.version = b.version
      /\ \/ /\ e.type = "published" /\ e.revision = a.identity.draft
            /\ b.identity.draft = NoRevision /\ b.identity.publication = a.identity.draft
            /\ b.identity.deletedAt = a.identity.deletedAt
         \/ /\ e.type = "unpublished" /\ e.revision = a.identity.publication
            /\ b.identity.draft = WorkingId(a) /\ b.identity.publication = NoRevision
            /\ b.identity.deletedAt = a.identity.deletedAt
         \/ /\ e.type = "deleted" /\ b.identity.deletedAt = now
            /\ b.identity.draft = a.identity.draft
            /\ b.identity.publication = a.identity.publication
         \/ /\ e.type = "restored" /\ b.identity.deletedAt = Never
            /\ b.identity.draft = a.identity.draft
            /\ b.identity.publication = a.identity.publication
  <2>1. ASSUME NEW i \in Identities, b = Stamped(a, i, now)
        PROVE  /\ b.revisions = a.revisions /\ b.version = a.version + 1
               /\ b.identity.draft = i.draft /\ b.identity.publication = i.publication
               /\ b.identity.deletedAt = i.deletedAt
    BY <2>1 DEF Stamped, Identities
  <2>2. CASE b = Published(a, now) /\ e = Event("published", b, now, a.identity.draft)
    <3> DEFINE i == [a.identity EXCEPT !.draft = NoRevision,
                                       !.publication = a.identity.draft, !.publishedAt = now]
    <3>1. /\ i \in Identities /\ i.draft = NoRevision /\ i.publication = a.identity.draft
          /\ i.deletedAt = a.identity.deletedAt
      BY <1>1, InstantsAssumption DEF Identities
    <3>2. b = Stamped(a, i, now)  BY <2>2 DEF Published
    <3> HIDE DEF i
    <3> QED  BY <2>1, <2>2, <3>1, <3>2 DEF Event
  <2>3. CASE b = Unpublished(a, now) /\ e = Event("unpublished", b, now, a.identity.publication)
    <3> DEFINE i == [a.identity EXCEPT !.draft = WorkingId(a),
                                       !.publication = NoRevision, !.publishedAt = Never]
    <3>1. /\ i \in Identities /\ i.draft = WorkingId(a) /\ i.publication = NoRevision
          /\ i.deletedAt = a.identity.deletedAt
      BY <1>1 DEF Identities, WorkingId, Never
    <3>2. b = Stamped(a, i, now)  BY <2>3 DEF Unpublished
    <3> HIDE DEF i
    <3> QED  BY <2>1, <2>3, <3>1, <3>2 DEF Event
  <2>4. CASE b = SoftDeleted(a, now) /\ e = Event("deleted", b, now, NoRevision)
    <3> DEFINE i == [a.identity EXCEPT !.deletedAt = now]
    <3>1. /\ i \in Identities /\ i.draft = a.identity.draft
          /\ i.publication = a.identity.publication /\ i.deletedAt = now
      BY <1>1, InstantsAssumption DEF Identities
    <3>2. b = Stamped(a, i, now)  BY <2>4 DEF SoftDeleted
    <3> HIDE DEF i
    <3> QED  BY <2>1, <2>4, <3>1, <3>2 DEF Event
  <2>5. CASE b = DeletedRestored(a, now) /\ e = Event("restored", b, now, NoRevision)
    <3> DEFINE i == [a.identity EXCEPT !.deletedAt = Never]
    <3>1. /\ i \in Identities /\ i.draft = a.identity.draft
          /\ i.publication = a.identity.publication /\ i.deletedAt = Never
      BY <1>1 DEF Identities, Never
    <3>2. b = Stamped(a, i, now)  BY <2>5 DEF DeletedRestored
    <3> HIDE DEF i
    <3> QED  BY <2>1, <2>5, <3>1, <3>2 DEF Event
  <2> QED  BY <2>2, <2>3, <2>4, <2>5 DEF Stamping
<1>3. /\ Handled(ViewOf(a), e).version = ViewOf(b).version
      /\ Handled(ViewOf(a), e).draft = ViewOf(b).draft
      /\ Handled(ViewOf(a), e).publication = ViewOf(b).publication
      /\ Handled(ViewOf(a), e).deleted = ViewOf(b).deleted
      /\ Handled(ViewOf(a), e).length = ViewOf(b).length
  BY <1>1, <1>2 DEF Handled, ViewOf, IsDeleted, WorkingId
<1> QED  BY <1>2, <1>3 DEF Handled, ViewOf

LEMMA CommandTells ==
  ASSUME NEW a \in Aggregates, NEW b, NEW e, Commanded(a, b, e)
  PROVE  Handled(ViewOf(a), e) = ViewOf(b) /\ b.version = a.version + 1
<1>1. PICK now \in Instants : Drafting(a, b, e, now) \/ Restoring(a, b, e, now)
                              \/ Stamping(a, b, e, now)
  BY DEF Commanded
<1>2. CASE Drafting(a, b, e, now)
  <2>1. PICK id, data : /\ b = WithRevision(a, id, "edit", NoRevision, data, now)
                        /\ e = Event("draft-created", b, now, Latest(b).id)
    BY <1>2 DEF Drafting, Drafted
  <2>2. b.version = a.version + 1  BY <2>1 DEF WithRevision, Stamped
  <2> QED  BY <2>1, <2>2, RevisionTells
<1>3. CASE Restoring(a, b, e, now)
  <2>1. PICK id, source : /\ b = RevisionRestored(a, source, id, now)
                          /\ e = Event("revision-restored", b, now, Latest(b).id)
    BY <1>3 DEF Restoring
  <2>2. b = WithRevision(a, id, "restore", source, RevisionOf(a, source).data, now)
    BY <2>1 DEF RevisionRestored
  <2>3. b.version = a.version + 1  BY <2>2 DEF WithRevision, Stamped
  <2> QED  BY <2>1, <2>2, <2>3, RevisionTells
<1> QED  BY <1>1, <1>2, <1>3, StampTells

(* What the events tell of what a request has read: all of it, or, between  *)
(* the two queries of a load, all but how many revisions there were.  The   *)
(* last of those is the working revision, and stays stored while the        *)
(* document does.                                                           *)
Known(c) == Replayed(outbox, copy[c].version)

ReplayInv(c) ==
  phase[c] # "idle" =>
    /\ copy[c].version <= Len(outbox)
    /\ IF phase[c] = "reading"
       THEN /\ Known(c) = [ViewOf(copy[c]) EXCEPT !.length = Known(c).length]
            /\ Exists => /\ Known(c).length \in 1 .. Len(table)
                         /\ table[Known(c).length].id = WorkingId(copy[c])
       ELSE Known(c) = ViewOf(copy[c])

ToldInv ==
  /\ EventsDetermineDocument
  /\ Exists => Len(outbox) = row.version
  /\ \A c \in Clients : ReplayInv(c)

\* A commit takes nothing back of what was told, and leaves the revisions of a
\* document that stays.
StoreKeeps ==
  /\ Len(outbox') \in Nat /\ Len(outbox) <= Len(outbox')
  /\ \A n \in 0 .. Len(outbox) : Replayed(outbox', n) = Replayed(outbox, n)
  /\ Exists' => /\ Exists
                /\ Len(table') \in Nat /\ Len(table) <= Len(table')
                /\ \A i \in 1 .. Len(table) : table'[i] = table[i]

LEMMA KnowledgeStays ==
  ASSUME Inv, StoreKeeps, NEW d \in Clients, ReplayInv(d),
         phase'[d] = phase[d], copy'[d] = copy[d]
  PROVE  ReplayInv(d)'
<1> SUFFICES ASSUME phase[d] # "idle"  PROVE ReplayInv(d)'
  BY DEF ReplayInv
<1>1. copy[d].version \in 0 .. Len(outbox) /\ Len(outbox) \in Nat /\ Len(table) \in Nat
  <2>1. copy[d].version \in Nat  BY DEF Inv, TypeOK, Aggregates
  <2>2. Len(outbox) \in Nat  BY DEF Inv, TypeOK
  <2>3. Len(table) \in Nat  BY StoredFacts DEF Inv
  <2> QED  BY <2>1, <2>2, <2>3 DEF ReplayInv
<1>2. Known(d)' = Known(d) /\ copy[d].version <= Len(outbox')
  BY <1>1 DEF Known, StoreKeeps
<1>3. phase[d] = "reading" /\ Exists' =>
         /\ Known(d).length \in 1 .. Len(table')
         /\ table'[Known(d).length].id = WorkingId(copy[d])
  BY <1>1 DEF ReplayInv, StoreKeeps
<1> QED  BY <1>2, <1>3 DEF ReplayInv

LEMMA CommitTells ==
  ASSUME Inv, DecidedInv, NothingLeft, ToldInv, NEW c \in Clients,
         CommitUpdate(c) \/ CommitPurge(c)
  PROVE  /\ StoreKeeps
         /\ EventsDetermineDocument'
         /\ Exists' => Len(outbox') = row'.version
<1>1. /\ outbox \in Seq(Events) /\ Len(outbox) \in Nat /\ outbox' = Append(outbox, event[c])
      /\ VersionMatches(c) /\ phase[c] = "prepared"
  BY DEF CommitUpdate, CommitPurge, Inv, TypeOK
<1>2. Stored \in Aggregates /\ AggregateOK(Stored) /\ Exists /\ table \in Seq(Revisions)
      /\ Stored.version = row.version /\ row.version \in Nat
  <2>1. copy[c] = Stored /\ AggregateOK(Stored) /\ copy[c] \in Aggregates
    BY <1>1 DEF Inv, TypeOK, CopyInv
  <2>2. Stored.version = row.version  BY DEF Stored, Assembled
  <2> QED  BY <2>1, <2>2, StoredFacts DEF Inv, AggregateOK, Exists
<1>3. Len(outbox') = Len(outbox) + 1
      /\ \A n \in 0 .. Len(outbox) : Replayed(outbox', n) = Replayed(outbox, n)
  BY <1>1, ReplayAppends
<1>4. Replayed(outbox', Len(outbox')) = Handled(ViewOf(Stored), event[c])
  BY <1>1, <1>3, ReplayAppends DEF ToldInv, EventsDetermineDocument
<1>5. CASE CommitUpdate(c)
  <2>1. Commanded(Stored, Stored', event[c])  BY <1>5, CommitUpdateIsCommand
  <2>2. Handled(ViewOf(Stored), event[c]) = ViewOf(Stored') /\ Stored'.version = row.version + 1
    BY <1>2, <2>1, CommandTells
  <2>3. EventsDetermineDocument'
    BY <1>4, <2>2 DEF EventsDetermineDocument, ViewOf, IsDeleted
  <2>4. Len(outbox') = row'.version
    BY <1>1, <1>2, <1>3, <2>2 DEF ToldInv, Stored, Assembled
  <2>5. table' = table \/ \E r : table' = Append(table, r)
    BY <1>5 DEF CommitUpdate
  <2>6. Len(table') \in Nat /\ Len(table) <= Len(table')
        /\ \A i \in 1 .. Len(table) : table'[i] = table[i]
    BY <1>2, <2>5
  <2> QED  BY <1>1, <1>2, <1>3, <2>3, <2>4, <2>6 DEF StoreKeeps
<1>6. CASE CommitPurge(c)
  <2>1. row' = NoRow /\ table' = <<>> /\ event[c].type = "purged"
    BY <1>6 DEF CommitPurge
  <2>2. Stored' = NoDocument
    BY <2>1 DEF Stored, Assembled, NoRow, NoDocument
  <2>3. Handled(ViewOf(Stored), event[c]) = ViewOf(NoDocument)
    BY <2>1 DEF Handled, ViewOf, NoDocument, IsDeleted, Never
  <2>4. EventsDetermineDocument'
    BY <1>4, <2>2, <2>3 DEF EventsDetermineDocument
  <2>5. ~Exists'  BY <2>1 DEF Exists, NoRow
  <2> QED  BY <1>1, <1>3, <2>4, <2>5 DEF StoreKeeps
<1> QED  BY <1>5, <1>6

LEMMA CreateTells ==
  ASSUME Inv, NEW c \in Clients, NEW data \in Data, NEW now \in Instants,
         CreateDocument(c, data, now)
  PROVE  ToldInv'
<1> DEFINE next == Created(<<c, 1>>, data, now)
           e == Event("created", next, now, Latest(next).id)
<1>1. /\ outbox = <<>> /\ UNCHANGED clientVars
      /\ row' = [identity |-> next.identity, version |-> next.version]
      /\ table' = next.revisions /\ outbox' = <<e>>
  BY DEF CreateDocument
<1>2. /\ next.version = 1 /\ next.identity.draft = <<c, 1>>
      /\ next.identity.publication = NoRevision /\ next.identity.deletedAt = Never
      /\ Len(next.revisions) = 1 /\ Latest(next).id = <<c, 1>>
  BY DEF Created, Latest
<1>3. e.type = "created" /\ e.version = 1 /\ e.revision = <<c, 1>>
  BY <1>2 DEF Event
<1> HIDE DEF e, next
<1>4. /\ Stored'.version = 1 /\ Stored'.identity = next.identity
      /\ Stored'.revisions = next.revisions
  BY <1>1, <1>2 DEF Stored, Assembled
<1>5. Replayed(outbox', Len(outbox')) = Handled(ViewOf(NoDocument), e)
  <2>1. outbox' = Append(outbox, e) /\ outbox \in Seq(Events) /\ Len(outbox) = 0
        /\ Len(outbox') = 1
    BY <1>1
  <2>2. Replayed(outbox', Len(outbox) + 1) = Handled(Replayed(outbox, Len(outbox)), e)
    BY <2>1, ReplayAppends
  <2>3. Replayed(outbox, 0) = ViewOf(NoDocument)  BY ReplayLaws
  <2> QED  BY <2>1, <2>2, <2>3
<1>6. Handled(ViewOf(NoDocument), e) = ViewOf(Stored')
  <2>1. /\ Handled(ViewOf(NoDocument), e).version = ViewOf(Stored').version
        /\ Handled(ViewOf(NoDocument), e).draft = ViewOf(Stored').draft
        /\ Handled(ViewOf(NoDocument), e).publication = ViewOf(Stored').publication
        /\ Handled(ViewOf(NoDocument), e).deleted = ViewOf(Stored').deleted
        /\ Handled(ViewOf(NoDocument), e).length = ViewOf(Stored').length
    BY <1>2, <1>3, <1>4 DEF Handled, ViewOf, NoDocument, IsDeleted, Never
  <2> QED  BY <2>1 DEF Handled, ViewOf
<1>7. EventsDetermineDocument'  BY <1>5, <1>6 DEF EventsDetermineDocument
<1>8. Len(outbox') = row'.version  BY <1>1, <1>2
<1>9. \A d \in Clients : phase'[d] = "idle"
  BY <1>1 DEF clientVars, Inv, CopyInv
<1> QED  BY <1>7, <1>8, <1>9 DEF ToldInv, ReplayInv

\* What the first query of a load reads is known but for the number of revisions.
LEMMA LoadIdentityTells ==
  ASSUME Inv, ToldInv, NEW c \in Clients, LoadIdentity(c)
  PROVE  ReplayInv(c)'
<1>1. /\ Exists /\ phase'[c] = "reading" /\ copy'[c] = Assembled(row, <<>>)
      /\ UNCHANGED store
  BY DEF LoadIdentity, Inv, TypeOK
<1>2. Stored \in Aggregates /\ AggregateOK(Stored) /\ table \in Seq(Revisions)
      /\ Stored.revisions = table /\ row.version \in Nat
  BY <1>1, StoredFacts DEF Inv, StoredOK
<1>3. Len(outbox) = row.version  BY <1>1 DEF ToldInv
<1>4. copy'[c].version = row.version /\ copy'[c].identity = row.identity
  BY <1>1 DEF Assembled
<1>5. Known(c)' = ViewOf(Stored)
  BY <1>1, <1>3, <1>4 DEF Known, store, ToldInv, EventsDetermineDocument
<1>6. /\ Stored.identity = row.identity /\ Stored.version = row.version
      /\ ViewOf(Stored).length = Len(table)
  BY DEF Stored, Assembled, ViewOf
<1>7. Len(table) \in 1 .. Len(table) /\ table[Len(table)].id = WorkingId(copy[c])'
  <2>1. Len(table) \in Nat \ {0} /\ Latest(Stored) = table[Len(table)]
    BY <1>2, Parts DEF Latest
  <2>2. WorkingId(Stored) = WorkingId(copy'[c])
    BY <1>4, <1>6 DEF WorkingId
  <2> QED  BY <1>2, <2>1, <2>2, WorkingIsLatest
<1>8. Known(c)' = [ViewOf(copy'[c]) EXCEPT !.length = Known(c)'.length]
  BY <1>4, <1>5, <1>6 DEF ViewOf, IsDeleted
<1> QED  BY <1>1, <1>3, <1>4, <1>5, <1>6, <1>7, <1>8 DEF ReplayInv, store

\* The second query can only complete it with the revisions of the same state:
\* the working revision has to be the last one.
LEMMA LoadRevisionsTells ==
  ASSUME Inv, NothingLeft, ToldInv, NEW c \in Clients, LoadRevisions(c),
         phase'[c] # "idle"
  PROVE  ReplayInv(c)'
<1> DEFINE b == Assembled(copy[c], table)
           k == Known(c).length
<1>1. phase[c] = "reading" /\ copy[c] \in Aggregates /\ ReplayInv(c)
  BY DEF LoadRevisions, Inv, TypeOK, ToldInv
<1>2. /\ AggregateOK(b) /\ phase'[c] = "loaded" /\ copy'[c] = b /\ UNCHANGED store
  BY FinishParts DEF LoadRevisions, Inv, TypeOK
<1>3. /\ b.identity = copy[c].identity /\ b.version = copy[c].version
      /\ b.revisions = table
  BY DEF Assembled
<1>4. Exists /\ table \in Seq(Revisions) /\ Len(table) \in Nat \ {0}
  <2>1. table \in Seq(Revisions)  BY StoredFacts DEF Inv
  <2>2. Len(table) >= 1  BY <1>2, <1>3 DEF AggregateOK
  <2>3. Exists  BY <2>2 DEF NothingLeft, Stored, Assembled, NoDocument
  <2> QED  BY <2>1, <2>2, <2>3
<1>5. k \in 1 .. Len(table) /\ table[k].id = WorkingId(copy[c])
  BY <1>1, <1>4 DEF ReplayInv
<1>6. Known(c) = [ViewOf(copy[c]) EXCEPT !.length = k]
  BY <1>1 DEF ReplayInv
<1> HIDE DEF b, k
<1>7. b \in Aggregates  BY <1>1, <1>4 DEF b, Assembled, Aggregates
<1>8. WorkingId(copy[c]) = table[Len(table)].id
  <2>1. WorkingId(b) = Latest(b).id  BY <1>2, <1>7, WorkingIsLatest
  <2> QED  BY <1>3, <2>1 DEF WorkingId, Latest
<1>9. k = Len(table)
  BY <1>2, <1>3, <1>4, <1>5, <1>8 DEF AggregateOK, RevisionChainOK, LinkOK, Indices
<1>10. Known(c) = ViewOf(b)
  BY <1>3, <1>6, <1>9 DEF ViewOf, IsDeleted
<1>11. Known(c)' = Known(c) /\ b.version <= Len(outbox)
  BY <1>1, <1>2, <1>3 DEF Known, store, ReplayInv
<1> QED  BY <1>2, <1>10, <1>11 DEF ReplayInv, store

LEMMA NextTells ==
  Inv /\ DecidedInv /\ NothingLeft /\ ToldInv /\ [Next]_vars => ToldInv'
<1> SUFFICES ASSUME Inv, DecidedInv, NothingLeft, ToldInv, [Next]_vars
             PROVE  ToldInv'
  OBVIOUS
<1>1. ASSUME UNCHANGED store
      PROVE  /\ StoreKeeps
             /\ EventsDetermineDocument' /\ (Exists' => Len(outbox') = row'.version)
  <2>1. Len(outbox) \in Nat  BY DEF Inv, TypeOK
  <2>2. Len(table) \in Nat  BY StoredFacts DEF Inv
  <2> QED  BY <1>1, <2>1, <2>2
           DEF store, StoreKeeps, ToldInv, EventsDetermineDocument, Stored, Assembled, Exists
<1>2. ASSUME StoreKeeps,
             EventsDetermineDocument', Exists' => Len(outbox') = row'.version,
             NEW c \in Clients, phase'[c] # "idle" => ReplayInv(c)',
             \A d \in Clients \ {c} : phase'[d] = phase[d] /\ copy'[d] = copy[d]
      PROVE  ToldInv'
  <2>1. ASSUME NEW d \in Clients \ {c}  PROVE ReplayInv(d)'
    BY <1>2, KnowledgeStays DEF ToldInv
  <2>2. ReplayInv(c)'  BY <1>2 DEF ReplayInv
  <2> QED  BY <1>2, <2>1, <2>2 DEF ToldInv
<1>3. CASE UNCHANGED vars
  <2>1. UNCHANGED store /\ phase' = phase /\ copy' = copy  BY <1>3 DEF vars, store
  <2>2. \A d \in Clients : ReplayInv(d)'
    BY <1>1, <2>1, KnowledgeStays DEF ToldInv
  <2> QED  BY <1>1, <2>1, <2>2 DEF ToldInv
<1>4. ASSUME NEW c \in Clients, LoadIdentity(c)  PROVE ToldInv'
  <2>1. /\ UNCHANGED store
        /\ \A d \in Clients \ {c} : phase'[d] = phase[d] /\ copy'[d] = copy[d]
    BY <1>4 DEF LoadIdentity, Inv, TypeOK
  <2> QED  BY <1>1, <1>2, <1>4, <2>1, LoadIdentityTells
<1>5. ASSUME NEW c \in Clients, LoadRevisions(c)  PROVE ToldInv'
  <2>1. /\ UNCHANGED store
        /\ \A d \in Clients \ {c} : phase'[d] = phase[d] /\ copy'[d] = copy[d]
    BY <1>5 DEF LoadRevisions, Finish, Inv, TypeOK
  <2> QED  BY <1>1, <1>2, <1>5, <2>1, LoadRevisionsTells
<1>6. ASSUME NEW c \in Clients, CommitUpdate(c) \/ CommitPurge(c)  PROVE ToldInv'
  <2>1. Finish(c)  BY <1>6 DEF CommitUpdate, CommitPurge
  <2> QED  BY <1>2, <1>6, <2>1, CommitTells, FinishParts DEF Inv
<1>7. ASSUME NEW c \in Clients, Abort(c)  PROVE ToldInv'
  <2>1. Finish(c) /\ UNCHANGED store  BY <1>7 DEF Abort
  <2> QED  BY <1>1, <1>2, <2>1, FinishParts DEF Inv
<1>8. ASSUME NEW c \in Clients, phase[c] = "loaded", UNCHANGED <<store, copy>>,
             \E p \in {"prepared", "defect"} : phase' = [phase EXCEPT ![c] = p]
      PROVE  ToldInv'
  <2>1. /\ phase'[c] \in {"prepared", "defect"} /\ UNCHANGED store /\ copy' = copy
        /\ \A d \in Clients \ {c} : phase'[d] = phase[d]
    BY <1>8 DEF Inv, TypeOK
  <2>2. ReplayInv(c)'
    BY <1>8, <2>1 DEF ToldInv, ReplayInv, Known, store
  <2> QED  BY <1>1, <1>2, <2>1, <2>2
<1>9. ASSUME NEW c \in Clients, NEW now \in Instants,
             \/ \E f \in Fields, v \in Values : Update(c, f, v, now)
             \/ Publish(c, now)
             \/ Unpublish(c, now)
             \/ \E i \in Indices(copy[c]) : RestoreRevision(c, i, now)
             \/ Delete(c, now)
             \/ RestoreDeleted(c, now)
             \/ PreparePurge(c, now)
      PROVE  ToldInv'
  <2>1. /\ phase[c] = "loaded" /\ UNCHANGED <<store, copy>>
        /\ \E p \in {"prepared", "defect"} : phase' = [phase EXCEPT ![c] = p]
    BY <1>9 DEF Update, Publish, Unpublish, RestoreRevision, Delete, RestoreDeleted,
                PreparePurge, Prepare
  <2> QED  BY <1>8, <2>1
<1> QED  BY <1>3, <1>4, <1>5, <1>6, <1>7, <1>9, CreateTells DEF Next

\* Whatever requests interleave, fail and crash, the outbox tells the state of
\* the document, and a copy that passed the assertion of its load (although the
\* load is two queries without a common snapshot) is the state of one version.
THEOREM EventsAlwaysTell == Spec => []EventsTellTheState
<1>1. Init => ToldInv
  <2> SUFFICES ASSUME Init  PROVE ToldInv
    OBVIOUS
  <2>1. outbox = <<>> /\ Len(outbox) = 0 /\ Stored = NoDocument /\ ~Exists
    BY DEF Init, NoRow, NoDocument, Stored, Assembled, Exists
  <2>2. EventsDetermineDocument  BY <2>1, ReplayLaws DEF EventsDetermineDocument
  <2> QED  BY <2>1, <2>2 DEF Init, ToldInv, ReplayInv
<1>2. ToldInv => EventsTellTheState
  BY DEF ToldInv, ReplayInv, Known, EventsTellTheState, LoadsAreNotTorn
<1> QED  BY <1>1, <1>2, RequestsAreDecided, NextTells, PTL DEF Spec

-----------------------------------------------------------------------------
(* Editors of a content tree: a version that was read names one tree for   *)
(* as long as the hierarchy stays on, and whoever states the present one   *)
(* has read the tree that is stored.                                       *)
HasRead(read, current, stored) ==
  /\ read.version \in Nat
  /\ read.trees # {} => /\ read.version <= current
                        /\ read.version = current => read.trees \subseteq {stored}

ReadsAreKnown ==
  /\ version \in Nat
  /\ seen = [c \in Editors |-> [version |-> seen[c].version, trees |-> seen[c].trees]]
  /\ \A c \in Editors : HasRead(seen[c], version, tree)

\* The structure version only grows while the hierarchy is on, and grows with
\* every tree that is stored.
TreesAreNumbered ==
  \/ UNCHANGED <<tree, version>>
  \/ version' = version + 1
  \/ enabled' = FALSE /\ version' = 0

LEMMA CreateNumbers ==
  ASSUME NEW d, NEW p, NEW i, NEW expected, Create(expected, d, p, i)
  PROVE  TreesAreNumbered /\ (tree' # tree => expected = version /\ version' = version + 1)
  BY DEF Create, Store, TreesAreNumbered

LEMMA RequestsNumber ==
  ASSUME NEW expected, Request(expected)
  PROVE  (UNCHANGED <<tree, version>>) \/ (expected = version /\ version' = version + 1)
  BY CreateNumbers DEF Request, Create, AddNode, MoveNode, ReorderChildren, RemoveNode, Store

LEMMA OthersNumber ==
  ASSUME Others
  PROVE  \/ UNCHANGED <<tree, version>> \/ version' = version + 1
         \/ enabled' = FALSE /\ version' = 0
<1>1. ASSUME NEW d \in Docs, CreateLast(d) PROVE TreesAreNumbered
  BY <1>1, CreateNumbers DEF CreateLast
<1>2. ASSUME NEW d \in Docs, Purge(d) PROVE TreesAreNumbered
  BY <1>2 DEF Purge, Store, TreesAreNumbered
<1>3. ASSUME SchemaApply PROVE TreesAreNumbered
  BY <1>3 DEF SchemaApply, Disable, Enable, Limit, TreesAreNumbered
<1> QED  BY <1>1, <1>2, <1>3 DEF Others, TreesAreNumbered

LEMMA ReadStaysKnown ==
  ASSUME NEW current \in Nat, NEW next \in Nat, NEW stored, NEW new, NEW read,
         HasRead(read, current, stored),
         (next = current /\ new = stored) \/ next = current + 1
  PROVE  HasRead(read, next, new)
  BY DEF HasRead

LEMMA ReadsStayKnown ==
  ASSUME ReadsAreKnown, EditorsNext PROVE ReadsAreKnown'
<1>1. ASSUME NEW c \in Editors, Read(c) PROVE ReadsAreKnown'
  <2>1. /\ seen' = [seen EXCEPT ![c] = [version |-> version, trees |-> {tree}]]
        /\ tree' = tree /\ version' = version
    BY <1>1 DEF Read, treeVars
  <2>2. ASSUME NEW e \in Editors PROVE HasRead(seen'[e], version, tree)
    <3>1. CASE e = c  BY <2>1, <3>1 DEF ReadsAreKnown, HasRead
    <3>2. CASE e # c  BY <2>1, <3>2 DEF ReadsAreKnown
    <3> QED  BY <3>1, <3>2
  <2>3. seen' = [e \in Editors |-> [version |-> seen'[e].version, trees |-> seen'[e].trees]]
    BY <2>1 DEF ReadsAreKnown
  <2> QED  BY <2>1, <2>2, <2>3 DEF ReadsAreKnown
<1>2. ASSUME version' = version + 1 \/ UNCHANGED <<tree, version>>, UNCHANGED seen
      PROVE  ReadsAreKnown'
  <2>1. version \in Nat /\ version' \in Nat
    BY <1>2 DEF ReadsAreKnown
  <2>2. ASSUME NEW e \in Editors PROVE HasRead(seen[e], version', tree')
    BY <1>2, <2>1, ReadStaysKnown DEF ReadsAreKnown
  <2> QED  BY <1>2, <2>1, <2>2 DEF ReadsAreKnown
<1>3. ASSUME NEW c \in Editors, Edit(c) PROVE ReadsAreKnown'
  BY <1>2, <1>3, RequestsNumber DEF Edit
<1>4. ASSUME Others PROVE ReadsAreKnown'
  <2>1. CASE enabled'
    <3>1. UNCHANGED seen  BY <1>4, <2>1 DEF Others
    <3> QED  BY <1>2, <1>4, <2>1, <3>1, OthersNumber
  <2>2. CASE ~enabled'
    <3>1. seen' = [c \in Editors |-> [seen[c] EXCEPT !.trees = {}]]
      BY <1>4, <2>2 DEF Others
    <3>2. version' \in Nat
      <4>1. version \in Nat  BY DEF ReadsAreKnown
      <4>2. PICK n \in Nat : version = n  BY <4>1
      <4>3. version' = version \/ version' = n + 1 \/ version' = 0
        BY <1>4, <4>2, OthersNumber
      <4> QED  BY <4>2, <4>3
    <3>3. ASSUME NEW c \in Editors
          PROVE  seen'[c] = [version |-> seen[c].version, trees |-> {}] /\ seen[c].version \in Nat
      <4>1. PICK n, old : seen[c] = [version |-> n, trees |-> old]
        BY DEF ReadsAreKnown
      <4> QED  BY <3>1, <4>1 DEF ReadsAreKnown, HasRead
    <3>4. ASSUME NEW c \in Editors PROVE HasRead(seen'[c], version', tree')
      <4>1. PICK n \in Nat : seen'[c] = [version |-> n, trees |-> {}]
        BY <3>3
      <4> QED  BY <4>1 DEF HasRead
    <3>5. seen' = [c \in Editors |-> [version |-> seen'[c].version, trees |-> seen'[c].trees]]
      <4>1. seen' = [c \in Editors |-> seen'[c]]
        BY <3>1
      <4>2. ASSUME NEW c \in Editors
            PROVE  seen'[c] = [version |-> seen'[c].version, trees |-> seen'[c].trees]
        <5>1. PICK n : seen'[c] = [version |-> n, trees |-> {}]
          BY <3>3
        <5> QED  BY <5>1
      <4> QED  BY <4>1, <4>2
    <3> QED  BY <3>2, <3>4, <3>5 DEF ReadsAreKnown
  <2> QED  BY <2>1, <2>2
<1> QED  BY <1>1, <1>3, <1>4 DEF EditorsNext

THEOREM ReadsInvariance == EditorsSpec => []ReadsAreKnown
<1>1. EditorsInit => ReadsAreKnown
  BY DEF EditorsInit, TreeInit, ReadsAreKnown, HasRead
<1>2. ReadsAreKnown /\ [EditorsNext]_<<treeVars, seen>> => ReadsAreKnown'
  <2>1. ReadsAreKnown /\ UNCHANGED <<treeVars, seen>> => ReadsAreKnown'
    BY DEF ReadsAreKnown, treeVars
  <2> QED  BY <2>1, ReadsStayKnown
<1> QED  BY <1>1, <1>2, PTL DEF EditorsSpec

\* For any documents, limits and editors: a command changes the tree its editor
\* has read and no other, unless versions started again in between.
THEOREM EditsApplyToWhatWasRead == EditorsSpec => EditsWhatWasRead
<1>1. ReadsAreKnown /\ [EditorsNext]_<<treeVars, seen>> =>
        [\A c \in Editors : tree' # tree /\ Edit(c) => seen[c].trees \subseteq {tree}]_<<treeVars, seen>>
  <2> SUFFICES ASSUME ReadsAreKnown, NEW c \in Editors, tree' # tree, Edit(c)
               PROVE  seen[c].trees \subseteq {tree}
    OBVIOUS
  <2>1. seen[c].version = version
    BY RequestsNumber DEF Edit
  <2> QED  BY <2>1 DEF ReadsAreKnown, HasRead
<1> QED  BY <1>1, ReadsInvariance, PTL DEF EditorsSpec, EditsWhatWasRead

-----------------------------------------------------------------------------
(* The content tree. Depths bound the length of every path, so that a      *)
(* subtree is found in as many steps as there are nodes.                   *)

(* A finite set of nodes with their positions.                             *)
IsTree(t) ==
  /\ IsFiniteSet(DOMAIN t) /\ DOMAIN t \subseteq Docs
  /\ t \in [DOMAIN t -> [parent : Docs \cup {Root}, sort : Nat, depth : Nat]]

(* Parents are nodes, one level up.                                        *)
Shape(t) ==
  \A d \in DOMAIN t : t[d].parent \in Places(t) /\ t[d].depth = DepthBelow(t, t[d].parent)

(* The children of p are numbered from 0.                                  *)
Dense(t, p) ==
  {t[d].sort : d \in Children(t, p)} = 0 .. (Cardinality(Children(t, p)) - 1)

(* What assertContentHierarchyInvariants checks has two parts.             *)
LEMMA ValidParts ==
  ASSUME NEW t
  PROVE  Valid(t) <=> Shape(t) /\ \A p \in Places(t) : Dense(t, p)
  BY DEF Valid, Shape, Dense

(* A node's row.                                                           *)
LEMMA Position ==
  ASSUME NEW t, IsTree(t), NEW d \in DOMAIN t
  PROVE  /\ t[d] \in [parent : Docs \cup {Root}, sort : Nat, depth : Nat]
         /\ t[d].parent \in Docs \cup {Root} /\ t[d].sort \in Nat /\ t[d].depth \in Nat
         /\ t[d] = [parent |-> t[d].parent, sort |-> t[d].sort, depth |-> t[d].depth]
         /\ d \in Docs /\ d # Root
  BY RootAssumption DEF IsTree

(* A node is one level below its parent.                                   *)
LEMMA OneDown ==
  ASSUME NEW t, IsTree(t), Shape(t), NEW d \in DOMAIN t
  PROVE  \/ t[d].parent = Root /\ t[d].depth = 0
         \/ t[d].parent \in DOMAIN t /\ t[d].parent # Root /\ t[d].depth = t[t[d].parent].depth + 1
  BY Position DEF Shape, Places, DepthBelow

(* There are finitely many children.                                       *)
LEMMA ChildrenFinite ==
  ASSUME NEW t, IsTree(t), NEW p
  PROVE  /\ IsFiniteSet(Children(t, p)) /\ Cardinality(Children(t, p)) \in Nat
         /\ Children(t, p) \subseteq DOMAIN t
<1>1. Children(t, p) \in SUBSET DOMAIN t
  BY DEF Children
<1> QED
  BY <1>1, FS_Subset, FS_CardinalityType DEF IsTree

(* No path is longer than there are nodes.                                 *)
LEMMA DepthsBounded ==
  ASSUME NEW t, IsTree(t), Shape(t), NEW d \in DOMAIN t
  PROVE  t[d].depth < Cardinality(DOMAIN t)
<1> DEFINE D == {t[x].depth : x \in DOMAIN t}
           G == {k \in Nat : k <= t[d].depth => t[d].depth - k \in D}
           f == [x \in DOMAIN t |-> t[x].depth]
<1>1. t[d].depth \in Nat
  BY Position
<1>2. 0 \in G
  BY <1>1
<1>3. ASSUME NEW k \in Nat, k \in G PROVE k + 1 \in G
  <2> SUFFICES ASSUME k + 1 <= t[d].depth PROVE t[d].depth - (k + 1) \in D
    BY <1>3
  <2>1. PICK x \in DOMAIN t : t[x].depth = t[d].depth - k
    BY <1>1, <1>3
  <2>2. t[x].parent \in DOMAIN t /\ t[x].depth = t[t[x].parent].depth + 1
    BY <1>1, <2>1, OneDown
  <2>3. t[t[x].parent].depth \in Nat
    BY <2>2, Position
  <2> QED
    BY <1>1, <2>1, <2>2, <2>3
<1>4. Nat \subseteq G
  <2> HIDE DEF G
  <2> QED
    BY <1>2, <1>3, SetInduction
<1>5. 0 .. t[d].depth \in SUBSET D
  <2> SUFFICES ASSUME NEW j \in 0 .. t[d].depth PROVE j \in D
    OBVIOUS
  <2>1. t[d].depth - j \in Nat /\ t[d].depth - j <= t[d].depth
    BY <1>1
  <2>2. t[d].depth - j \in G
    BY <1>4, <2>1
  <2> QED
    BY <1>1, <2>1, <2>2
<1>6. IsFiniteSet(D) /\ Cardinality(D) <= Cardinality(DOMAIN t)
  <2>1. f \in Surjection(DOMAIN t, D)
    BY DEF Surjection
  <2> QED
    BY <2>1, FS_Surjection DEF IsTree
<1>7. Cardinality(0 .. t[d].depth) = t[d].depth + 1
  BY <1>1, FS_Interval
<1>8. Cardinality(0 .. t[d].depth) <= Cardinality(D)
  BY <1>5, <1>6, FS_Subset
<1>9. Cardinality(D) \in Nat /\ Cardinality(DOMAIN t) \in Nat
  BY <1>6, FS_CardinalityType DEF IsTree
<1> QED
  BY <1>1, <1>6, <1>7, <1>8, <1>9

(* w[n]: d and what is below it, down to n levels.                         *)
Descends(w, t, d) ==
  /\ w[0] = {d}
  /\ \A n \in 0 .. Cardinality(DOMAIN t) : n # 0 =>
       w[n] = w[n - 1] \cup {e \in DOMAIN t : t[e].parent \in w[n - 1]}

(* A subtree is found level by level.                                      *)
LEMMA SubtreeByLevels ==
  ASSUME NEW t, IsTree(t), NEW d \in DOMAIN t
  PROVE  \E w : Descends(w, t, d) /\ Subtree(t, d) = w[Cardinality(DOMAIN t)]
<1> DEFINE N == Cardinality(DOMAIN t)
           S == SUBSET DOMAIN t
           F == [s \in S |-> s \cup {e \in DOMAIN t : t[e].parent \in s}]
           w == CHOOSE f : f = [n \in 0 .. N |->
                  IF n = 0 THEN {d} ELSE f[n - 1] \cup {e \in DOMAIN t : t[e].parent \in f[n - 1]}]
<1>1. Subtree(t, d) = w[N]
  BY DEF Subtree
<1>2. {d} \in S /\ F \in [S -> S] /\ N \in Nat
  BY FS_CardinalityType DEF IsTree
<1>3. PICK h \in [0 .. N -> S] : Solves(h, {d}, F, N)
  <2> HIDE DEF S, F, N
  <2> QED
    BY <1>2, Recursion
<1>4. \A n \in 0 .. N : n # 0 => n - 1 \in 0 .. N /\ h[n - 1] \in S
  BY <1>2, <1>3
<1>5. \A n \in 0 .. N :
        h[n] = IF n = 0 THEN {d} ELSE h[n - 1] \cup {e \in DOMAIN t : t[e].parent \in h[n - 1]}
  BY <1>3, <1>4 DEF Solves
<1>6. h = [n \in 0 .. N |->
             IF n = 0 THEN {d} ELSE h[n - 1] \cup {e \in DOMAIN t : t[e].parent \in h[n - 1]}]
  BY <1>3, <1>5
<1>7. w = [n \in 0 .. N |->
             IF n = 0 THEN {d} ELSE w[n - 1] \cup {e \in DOMAIN t : t[e].parent \in w[n - 1]}]
  BY <1>6
<1> HIDE DEF w
<1>8. Descends(w, t, d)
  BY <1>2, <1>7 DEF Descends
<1> QED
  BY <1>1, <1>8

(* A subtree is its root and, with every node, the node's children; it is  *)
(* the least such set, and nothing of it is higher up than its root.       *)
LEMMA SubtreeIs ==
  ASSUME NEW t, IsTree(t), Shape(t), NEW d \in DOMAIN t
  PROVE  /\ Subtree(t, d) \subseteq DOMAIN t /\ d \in Subtree(t, d)
         /\ \A e \in DOMAIN t : t[e].parent \in Subtree(t, d) => e \in Subtree(t, d)
         /\ \A e \in Subtree(t, d) : e # d => t[e].parent \in Subtree(t, d) /\ t[e].depth > t[d].depth
         /\ \A C : d \in C /\ (\A e \in DOMAIN t : t[e].parent \in C => e \in C) => Subtree(t, d) \subseteq C
         /\ t[d].parent \notin Subtree(t, d)
<1> DEFINE N == Cardinality(DOMAIN t)
<1>1. PICK w : Descends(w, t, d) /\ Subtree(t, d) = w[N]
  BY SubtreeByLevels
<1>2. N \in Nat
  BY FS_CardinalityType DEF IsTree
<1> HIDE DEF N
<1>w. /\ w[0] = {d}
      /\ \A n \in 0 .. N : n # 0 => w[n] = w[n - 1] \cup {e \in DOMAIN t : t[e].parent \in w[n - 1]}
  BY <1>1 DEF Descends, N
<1> DEFINE Good(n) == /\ w[n] \subseteq DOMAIN t /\ d \in w[n]
                      /\ \A e \in w[n] : e # d => t[e].parent \in w[n] /\ t[e].depth > t[d].depth
                      /\ \A e \in w[n] : t[e].depth - t[d].depth <= n /\ e \in w[t[e].depth - t[d].depth]
           G == {n \in Nat : n <= N => Good(n)}
<1>3. \A e \in DOMAIN t : t[e].depth \in Nat
  BY Position
<1>4. 0 \in G
  BY <1>w, <1>3
<1>5. ASSUME NEW n \in Nat, n \in G PROVE n + 1 \in G
  <2> SUFFICES ASSUME n + 1 <= N PROVE Good(n + 1)
    BY <1>5
  <2>1. Good(n)
    BY <1>2, <1>5
  <2>2. w[n + 1] = w[n] \cup {e \in DOMAIN t : t[e].parent \in w[n]}
    <3>1. n + 1 \in 0 .. N /\ n + 1 # 0 /\ (n + 1) - 1 = n
      BY <1>2
    <3> QED
      BY <1>w, <3>1
  <2>3. w[n + 1] \subseteq DOMAIN t /\ d \in w[n + 1]
    BY <2>1, <2>2
  <2>4. ASSUME NEW e \in w[n + 1], e \notin w[n]
        PROVE  /\ t[e].parent \in w[n] /\ t[e].depth > t[d].depth
               /\ t[e].depth - t[d].depth <= n + 1 /\ e \in w[t[e].depth - t[d].depth]
    <3>1. e \in DOMAIN t /\ t[e].parent \in w[n] /\ t[e].parent \in DOMAIN t
      BY <2>1, <2>2, <2>4
    <3>2. t[e].depth = t[t[e].parent].depth + 1
      BY <3>1, OneDown, Position
    <3> DEFINE k == t[t[e].parent].depth - t[d].depth
    <3>3. /\ k \in Nat /\ k <= n /\ t[e].parent \in w[k]
      <4>1. t[e].parent = d => k = 0
        BY <1>3
      <4>2. t[e].parent # d => t[t[e].parent].depth > t[d].depth
        BY <2>1, <3>1
      <4> QED
        BY <1>3, <2>1, <3>1, <4>1, <4>2
    <3>4. t[e].depth - t[d].depth = k + 1 /\ t[e].depth > t[d].depth
      BY <1>3, <3>1, <3>2, <3>3
    <3> HIDE DEF k
    <3>5. w[k + 1] = w[k] \cup {x \in DOMAIN t : t[x].parent \in w[k]}
      <4>1. k + 1 \in 0 .. N /\ k + 1 # 0 /\ (k + 1) - 1 = k
        BY <1>2, <3>3
      <4> QED
        BY <1>w, <4>1
    <3>6. e \in w[k + 1]
      BY <3>1, <3>3, <3>5
    <3> QED
      BY <3>1, <3>3, <3>4, <3>6
  <2>5. ASSUME NEW e \in w[n]
        PROVE  /\ e # d => t[e].parent \in w[n + 1] /\ t[e].depth > t[d].depth
               /\ t[e].depth - t[d].depth <= n + 1 /\ e \in w[t[e].depth - t[d].depth]
    <3>1. t[e].depth - t[d].depth \in Int
      BY <1>3, <2>1, <2>5
    <3> QED
      BY <2>1, <2>2, <2>5, <3>1
  <2> QED
    BY <2>2, <2>3, <2>4, <2>5
<1>6. Nat \subseteq G
  <2> HIDE DEF G
  <2> QED
    BY <1>4, <1>5, SetInduction
<1>7. \A n \in 0 .. N : Good(n)
  BY <1>2, <1>6
<1> HIDE DEF G
<1>8. \A n \in 0 .. N : w[n] \subseteq w[N]
  <2> DEFINE H == {j \in Nat : j <= N => w[N - j] \subseteq w[N]}
  <2>1. 0 \in H
    BY <1>2
  <2>2. ASSUME NEW j \in Nat, j \in H PROVE j + 1 \in H
    <3> SUFFICES ASSUME j + 1 <= N PROVE w[N - (j + 1)] \subseteq w[N]
      BY <2>2
    <3>1. N - j \in 0 .. N /\ N - j # 0 /\ (N - j) - 1 = N - (j + 1) /\ j <= N
      BY <1>2
    <3>2. w[N - (j + 1)] \subseteq w[N - j]
      BY <1>w, <3>1
    <3> QED
      BY <2>2, <3>1, <3>2
  <2>3. Nat \subseteq H
    <3> HIDE DEF H
    <3> QED
      BY <2>1, <2>2, SetInduction
  <2> SUFFICES ASSUME NEW n \in 0 .. N PROVE w[n] \subseteq w[N]
    OBVIOUS
  <2>4. N - n \in Nat /\ N - n <= N /\ N - (N - n) = n
    BY <1>2
  <2>5. N - n \in H
    BY <2>3, <2>4
  <2> QED
    BY <2>4, <2>5
<1>9. Good(N)
  BY <1>2, <1>7
<1>10. ASSUME NEW e \in DOMAIN t, t[e].parent \in w[N] PROVE e \in w[N]
  <2>1. t[e].parent \in DOMAIN t
    BY <1>9, <1>10
  <2>2. t[e].depth = t[t[e].parent].depth + 1
    BY <2>1, OneDown, Position
  <2> DEFINE k == t[t[e].parent].depth - t[d].depth
  <2>3. k \in Nat /\ t[e].parent \in w[k]
    <3>1. t[e].parent = d => k = 0
      BY <1>3
    <3>2. t[e].parent # d => t[t[e].parent].depth > t[d].depth
      BY <1>9, <1>10
    <3> QED
      BY <1>3, <1>9, <1>10, <2>1, <3>1, <3>2
  <2>4. t[e].depth < N
    BY DepthsBounded DEF N
  <2>5. k + 1 \in 0 .. N /\ k + 1 # 0 /\ (k + 1) - 1 = k
    BY <1>2, <1>3, <2>1, <2>2, <2>3, <2>4
  <2> HIDE DEF k
  <2>6. e \in w[k + 1]
    BY <1>w, <2>3, <2>5
  <2> QED
    BY <1>8, <2>5, <2>6
<1>11. ASSUME NEW C, d \in C, \A e \in DOMAIN t : t[e].parent \in C => e \in C
       PROVE  w[N] \subseteq C
  <2> DEFINE K == {n \in Nat : n <= N => w[n] \subseteq C}
  <2>1. 0 \in K
    BY <1>w, <1>11
  <2>2. ASSUME NEW n \in Nat, n \in K PROVE n + 1 \in K
    <3> SUFFICES ASSUME n + 1 <= N PROVE w[n + 1] \subseteq C
      BY <2>2
    <3>1. n + 1 \in 0 .. N /\ n + 1 # 0 /\ (n + 1) - 1 = n /\ n <= N
      BY <1>2
    <3>2. w[n + 1] = w[n] \cup {e \in DOMAIN t : t[e].parent \in w[n]}
      BY <1>w, <3>1
    <3> QED
      BY <1>11, <2>2, <3>1, <3>2
  <2>3. Nat \subseteq K
    <3> HIDE DEF K
    <3> QED
      BY <2>1, <2>2, SetInduction
  <2>4. N \in K
    BY <1>2, <2>3
  <2> QED
    BY <1>2, <2>4
<1>12. t[d].parent \notin w[N]
  <2> SUFFICES ASSUME t[d].parent \in w[N] PROVE FALSE
    OBVIOUS
  <2>1. t[d].parent \in DOMAIN t
    BY <1>9
  <2>2. t[d].depth = t[t[d].parent].depth + 1
    BY <2>1, OneDown, Position
  <2>3. t[d].parent = d \/ t[t[d].parent].depth > t[d].depth
    BY <1>9
  <2> QED
    BY <1>3, <2>1, <2>2, <2>3
<1> QED
  BY <1>1, <1>9, <1>10, <1>11, <1>12

-----------------------------------------------------------------------------
(* Sort keys that differ give an order, and an order gives sort keys: the  *)
(* children of a place can be listed and numbered again.                   *)

(* s names every element of S once.                                        *)
Lists(s, S, n) ==
  /\ s \in [1 .. n -> S]
  /\ \A x \in S : \E i \in 1 .. n : s[i] = x
  /\ \A i, j \in 1 .. n : i # j => s[i] # s[j]

(* A list of a set is as long as the set is large.                         *)
LEMMA ListsAll ==
  ASSUME NEW S, NEW n \in Nat, NEW s, Lists(s, S, n)
  PROVE  IsFiniteSet(S) /\ Cardinality(S) = n
<1>1. s \in Bijection(1 .. n, S)
  BY DEF Lists, Bijection, Injection, Surjection, IsInjective
<1>2. IsFiniteSet(1 .. n) /\ Cardinality(1 .. n) = n
  BY FS_Interval
<1> QED
  BY <1>1, <1>2, FS_Bijection DEF ExistsBijection

(* Nodes whose sort keys differ are listed in the order of the keys.       *)
LEMMA InOrderIs ==
  ASSUME NEW t, IsTree(t), NEW S \in SUBSET DOMAIN t,
         \A d, e \in S : t[d].sort = t[e].sort => d = e
  PROVE  /\ Lists(InOrder(t, S), S, Cardinality(S)) /\ Cardinality(S) \in Nat
         /\ \A i, j \in 1 .. Cardinality(S) :
              i < j <=> t[InOrder(t, S)[i]].sort < t[InOrder(t, S)[j]].sort
<1> DEFINE L == [d \in S |-> {e \in S : t[e].sort < t[d].sort}]
           N == Cardinality(S)
           s == InOrder(t, S)
<1>1. IsFiniteSet(S)
  BY FS_Subset DEF IsTree
<1>2. \A d \in S : t[d].sort \in Nat
  BY Position
<1>3. /\ N \in Nat
      /\ \A x \in S : Cardinality(L[x]) \in 0 .. (N - 1)
      /\ \A x, y \in S : x \in L[y] <=> Cardinality(L[x]) < Cardinality(L[y])
      /\ \A n \in 0 .. (N - 1) : \E x \in S : Cardinality(L[x]) = n
  <2>1. L \in [S -> SUBSET S]
    OBVIOUS
  <2>2. \A x \in S : x \notin L[x]
    BY <1>2
  <2>3. \A x, y \in S : x # y => x \in L[y] \/ y \in L[x]
    BY <1>2
  <2>4. \A x, y \in S : x \in L[y] => L[x] \subseteq L[y]
    BY <1>2
  <2> HIDE DEF L
  <2> QED
    BY <1>1, <2>1, <2>2, <2>3, <2>4, OrdersAreNumbered
<1>4. s = [n \in 1 .. N |-> CHOOSE d \in S : Cardinality({e \in S : t[e].sort < t[d].sort}) = n - 1]
  BY DEF InOrder
<1>5. s = [n \in 1 .. N |-> CHOOSE d \in S : Cardinality(L[d]) = n - 1]
  BY <1>4
<1> HIDE DEF L, s, N
<1>6. \A n \in 1 .. N : s[n] \in S /\ Cardinality(L[s[n]]) = n - 1
  <2> SUFFICES ASSUME NEW n \in 1 .. N PROVE s[n] \in S /\ Cardinality(L[s[n]]) = n - 1
    OBVIOUS
  <2>1. n - 1 \in 0 .. (N - 1)
    BY <1>3
  <2>2. \E d \in S : Cardinality(L[d]) = n - 1
    BY <1>3, <2>1
  <2>3. s[n] = CHOOSE d \in S : Cardinality(L[d]) = n - 1
    BY <1>5
  <2> QED
    BY <2>2, <2>3
<1>7. s \in [1 .. N -> S]
  BY <1>5, <1>6
<1>8. \A d, e \in S : d \in L[e] <=> t[d].sort < t[e].sort
  BY DEF L
<1>9. ASSUME NEW i \in 1 .. N, NEW j \in 1 .. N
      PROVE  i < j <=> t[s[i]].sort < t[s[j]].sort
  <2>1. i < j <=> Cardinality(L[s[i]]) < Cardinality(L[s[j]])
    BY <1>3, <1>6
  <2> QED
    BY <1>3, <1>6, <1>8, <2>1
<1>10. ASSUME NEW i \in 1 .. N, NEW j \in 1 .. N, i # j
       PROVE  s[i] # s[j]
  BY <1>3, <1>6, <1>10
<1>11. ASSUME NEW d \in S PROVE \E i \in 1 .. N : s[i] = d
  <2> DEFINE i == Cardinality(L[d]) + 1
  <2>1. i \in 1 .. N /\ Cardinality(L[d]) = i - 1
    BY <1>3
  <2>2. Cardinality(L[s[i]]) = Cardinality(L[d]) /\ s[i] \in S
    BY <1>6, <2>1
  <2>3. ~ (t[s[i]].sort < t[d].sort) /\ ~ (t[d].sort < t[s[i]].sort)
    <3>1. Cardinality(L[d]) \in Nat
      BY <1>3
    <3> QED
      BY <1>3, <1>8, <2>2, <3>1
  <2>4. t[s[i]].sort = t[d].sort
    BY <1>2, <2>2, <2>3
  <2> QED
    BY <2>1, <2>2, <2>4
<1> QED
  BY <1>3, <1>7, <1>9, <1>10, <1>11 DEF Lists, N, s

(* What does not touch parents and depths changes nobody's place.          *)
LEMMA SamePlaces ==
  ASSUME NEW t, NEW u, DOMAIN u = DOMAIN t,
         \A d \in DOMAIN t : u[d].parent = t[d].parent /\ u[d].depth = t[d].depth
  PROVE  /\ Places(u) = Places(t) /\ (Shape(t) <=> Shape(u))
         /\ \A p : Children(u, p) = Children(t, p)
         /\ \A p \in Places(t) : DepthBelow(u, p) = DepthBelow(t, p)
<1>1. Places(u) = Places(t)
  BY DEF Places
<1>2. \A p : Children(u, p) = Children(t, p)
  BY DEF Children
<1>3. \A p \in Places(t) : DepthBelow(u, p) = DepthBelow(t, p)
  BY DEF DepthBelow, Places
<1>4. Shape(t) <=> Shape(u)
  BY <1>1, <1>3 DEF Shape
<1> QED
  BY <1>1, <1>2, <1>3, <1>4

(* Reordering gives the children of p the sort keys of a list of them, and *)
(* leaves everything else as it is.                                        *)
LEMMA ReorderedIs ==
  ASSUME NEW t, IsTree(t), NEW p, NEW s, Lists(s, Children(t, p), Cardinality(Children(t, p)))
  PROVE  /\ IsTree(Reordered(t, p, s)) /\ DOMAIN Reordered(t, p, s) = DOMAIN t
         /\ \A d \in DOMAIN t : /\ Reordered(t, p, s)[d].parent = t[d].parent
                                /\ Reordered(t, p, s)[d].depth = t[d].depth
                                /\ t[d].parent # p => Reordered(t, p, s)[d] = t[d]
         /\ \A i \in 1 .. Cardinality(Children(t, p)) : Reordered(t, p, s)[s[i]].sort = i - 1
         /\ Dense(Reordered(t, p, s), p)
         /\ \A q : q # p /\ Dense(t, q) => Dense(Reordered(t, p, s), q)
<1> DEFINE C == Children(t, p)
           N == Cardinality(C)
           At(d) == CHOOSE i \in DOMAIN s : s[i] = d
           u == Reordered(t, p, s)
<1>1. N \in Nat /\ C \subseteq DOMAIN t /\ (\A d \in DOMAIN t : d \in C <=> t[d].parent = p)
  BY ChildrenFinite DEF Children
<1> HIDE DEF C, N
<1>2. /\ s \in [1 .. N -> C] /\ (\A x \in C : \E i \in 1 .. N : s[i] = x)
      /\ \A i, j \in 1 .. N : i # j => s[i] # s[j]
  BY DEF Lists, C, N
<1>3. \A d \in C : At(d) \in 1 .. N /\ s[At(d)] = d
  BY <1>2
<1>4. \A i \in 1 .. N : s[i] \in C /\ At(s[i]) = i
  BY <1>2, <1>3
<1>5. u = [d \in DOMAIN t |-> IF t[d].parent = p THEN [t[d] EXCEPT !.sort = At(d) - 1] ELSE t[d]]
  BY DEF Reordered
<1> HIDE DEF At, u
<1>6. ASSUME NEW d \in DOMAIN t
      PROVE  /\ u[d] = IF t[d].parent = p THEN [parent |-> t[d].parent, sort |-> At(d) - 1, depth |-> t[d].depth]
                       ELSE t[d]
             /\ u[d] \in [parent : Docs \cup {Root}, sort : Nat, depth : Nat]
             /\ u[d].parent = t[d].parent /\ u[d].depth = t[d].depth
             /\ t[d].parent = p => u[d].sort = At(d) - 1
             /\ t[d].parent # p => u[d] = t[d]
  <2>1. u[d] = IF t[d].parent = p THEN [parent |-> t[d].parent, sort |-> At(d) - 1, depth |-> t[d].depth]
               ELSE t[d]
    <3>1. PICK a, b, c, v : t[d] = [parent |-> a, sort |-> b, depth |-> c] /\ v = At(d) - 1
      BY Position
    <3> QED
      BY <1>5, <3>1
  <2>2. t[d].parent = p => At(d) - 1 \in Nat
    BY <1>1, <1>3
  <2>3. CASE t[d].parent = p
    <3>1. u[d] = [parent |-> t[d].parent, sort |-> At(d) - 1, depth |-> t[d].depth]
      BY <2>1, <2>3
    <3> QED
      BY <2>1, <2>2, <2>3, <3>1, Position
  <2>4. CASE t[d].parent # p
    BY <2>1, <2>4, Position
  <2> QED
    BY <2>3, <2>4
<1>7. IsTree(u) /\ DOMAIN u = DOMAIN t
  BY <1>5, <1>6 DEF IsTree
<1>8. \A d \in DOMAIN t : u[d].parent = t[d].parent /\ u[d].depth = t[d].depth
                          /\ (t[d].parent # p => u[d] = t[d])
  BY <1>6
<1>9. \A q : Children(u, q) = Children(t, q)
  BY <1>7, <1>8, SamePlaces
<1>10. ASSUME NEW i \in 1 .. N PROVE u[s[i]].sort = i - 1
  <2>1. s[i] \in C /\ At(s[i]) = i
    BY <1>4
  <2>2. s[i] \in DOMAIN t /\ t[s[i]].parent = p
    BY <1>1, <2>1
  <2>3. u[s[i]].sort = At(s[i]) - 1
    BY <1>6, <2>2
  <2> QED
    BY <2>1, <2>3
<1>11. {u[d].sort : d \in C} = 0 .. (N - 1)
  <2>1. ASSUME NEW d \in C PROVE u[d].sort \in 0 .. (N - 1)
    <3>1. d \in DOMAIN t /\ t[d].parent = p
      BY <1>1, <2>1
    <3>2. u[d].sort = At(d) - 1
      BY <1>6, <3>1
    <3>3. At(d) \in 1 .. N
      BY <1>3, <2>1
    <3> QED
      BY <1>1, <3>2, <3>3
  <2>2. ASSUME NEW n \in 0 .. (N - 1) PROVE \E d \in C : u[d].sort = n
    <3>1. n + 1 \in 1 .. N /\ (n + 1) - 1 = n
      BY <1>1
    <3> QED
      BY <1>4, <1>10, <3>1
  <2> QED
    BY <2>1, <2>2
<1>12. ASSUME NEW q, q # p, Dense(t, q) PROVE Dense(u, q)
  <2>1. \A d \in Children(t, q) : u[d].sort = t[d].sort
    BY <1>8, <1>12 DEF Children
  <2> QED
    BY <1>9, <1>12, <2>1 DEF Dense
<1>13. Dense(u, p)
  BY <1>9, <1>11 DEF Dense, C, N
<1> QED
  BY <1>7, <1>8, <1>10, <1>12, <1>13 DEF C, N, u

(* The children of p have different sort keys.                             *)
Distinct(t, p) == \A d, e \in Children(t, p) : t[d].sort = t[e].sort => d = e

(* As many numbers as children: none is there twice.                       *)
LEMMA DenseIsDistinct ==
  ASSUME NEW t, IsTree(t), NEW p, Dense(t, p)
  PROVE  Distinct(t, p)
<1> DEFINE C == Children(t, p)
           f == [d \in C |-> t[d].sort]
           T == 0 .. (Cardinality(C) - 1)
<1>1. IsFiniteSet(C) /\ Cardinality(C) \in Nat
  BY ChildrenFinite
<1>2. f \in Surjection(C, T)
  BY DEF Surjection, Dense
<1>3. IsFiniteSet(T) /\ Cardinality(T) = Cardinality(C)
  BY <1>1, FS_Interval
<1>4. f \in Injection(C, T)
  <2> HIDE DEF C, T, f
  <2> QED
    BY <1>1, <1>2, <1>3, FS_Surjection
<1> QED
  BY <1>4 DEF Injection, IsInjective, Distinct

(* normalizeSiblings: the children of p are numbered from 0 in their order.*)
LEMMA NormalizedIs ==
  ASSUME NEW t, IsTree(t), NEW p, Distinct(t, p)
  PROVE  /\ IsTree(Normalized(t, p)) /\ DOMAIN Normalized(t, p) = DOMAIN t
         /\ \A d \in DOMAIN t : /\ Normalized(t, p)[d].parent = t[d].parent
                                /\ Normalized(t, p)[d].depth = t[d].depth
                                /\ t[d].parent # p => Normalized(t, p)[d] = t[d]
         /\ Dense(Normalized(t, p), p)
         /\ \A q : q # p /\ Dense(t, q) => Dense(Normalized(t, p), q)
         /\ \A d, e \in Children(t, p) :
              t[d].sort < t[e].sort <=> Normalized(t, p)[d].sort < Normalized(t, p)[e].sort
<1> DEFINE C == Children(t, p)
           N == Cardinality(C)
           s == InOrder(t, C)
           u == Reordered(t, p, s)
<1>1. C \in SUBSET DOMAIN t
  BY DEF Children
<1>2. \A d, e \in C : t[d].sort = t[e].sort => d = e
  BY DEF Distinct
<1>3. /\ Lists(s, C, N) /\ N \in Nat
      /\ \A i, j \in 1 .. N : i < j <=> t[s[i]].sort < t[s[j]].sort
  <2> HIDE DEF C
  <2> QED
    BY <1>1, <1>2, InOrderIs
<1>4. Normalized(t, p) = u
  BY DEF Normalized
<1>5. /\ IsTree(u) /\ DOMAIN u = DOMAIN t
      /\ \A d \in DOMAIN t : /\ u[d].parent = t[d].parent /\ u[d].depth = t[d].depth
                             /\ t[d].parent # p => u[d] = t[d]
      /\ \A i \in 1 .. N : u[s[i]].sort = i - 1
      /\ Dense(u, p)
      /\ \A q : q # p /\ Dense(t, q) => Dense(u, q)
  <2> HIDE DEF s
  <2> QED
    BY <1>3, ReorderedIs
<1> HIDE DEF C, N, s, u
<1>6. ASSUME NEW d \in C, NEW e \in C PROVE t[d].sort < t[e].sort <=> u[d].sort < u[e].sort
  <2>1. PICK i \in 1 .. N, j \in 1 .. N : s[i] = d /\ s[j] = e
    BY <1>3 DEF Lists
  <2>2. u[d].sort = i - 1 /\ u[e].sort = j - 1
    BY <1>5, <2>1
  <2>3. i < j <=> t[d].sort < t[e].sort
    BY <1>3, <2>1
  <2> QED
    BY <1>3, <2>2, <2>3
<1> QED
  BY <1>4, <1>5, <1>6 DEF C

-----------------------------------------------------------------------------
(* Putting a branch below a place.                                         *)

(* A gap is made among the children of p.                                  *)
LEMMA ShiftedIs ==
  ASSUME NEW t, IsTree(t), NEW p, NEW i \in Nat
  PROVE  /\ IsTree(Shifted(t, p, i)) /\ DOMAIN Shifted(t, p, i) = DOMAIN t
         /\ \A d \in DOMAIN t : /\ Shifted(t, p, i)[d].parent = t[d].parent
                                /\ Shifted(t, p, i)[d].depth = t[d].depth
                                /\ t[d].parent # p => Shifted(t, p, i)[d] = t[d]
                                /\ t[d].parent = p => Shifted(t, p, i)[d].sort =
                                     IF t[d].sort >= i THEN t[d].sort + 1 ELSE t[d].sort
<1> DEFINE u == Shifted(t, p, i)
<1>1. u = [d \in DOMAIN t |->
             IF t[d].parent = p /\ t[d].sort >= i THEN [t[d] EXCEPT !.sort = @ + 1] ELSE t[d]]
  BY DEF Shifted
<1> HIDE DEF u
<1>2. ASSUME NEW d \in DOMAIN t
      PROVE  /\ u[d] = IF t[d].parent = p /\ t[d].sort >= i
                       THEN [parent |-> t[d].parent, sort |-> t[d].sort + 1, depth |-> t[d].depth]
                       ELSE t[d]
             /\ u[d] \in [parent : Docs \cup {Root}, sort : Nat, depth : Nat]
  <2>1. u[d] = IF t[d].parent = p /\ t[d].sort >= i
               THEN [parent |-> t[d].parent, sort |-> t[d].sort + 1, depth |-> t[d].depth]
               ELSE t[d]
    <3>1. PICK a, b, c : t[d] = [parent |-> a, sort |-> b, depth |-> c]
      BY Position
    <3> QED
      BY <1>1, <3>1
  <2> QED
    BY <2>1, Position
<1>3. IsTree(u) /\ DOMAIN u = DOMAIN t
  BY <1>1, <1>2 DEF IsTree
<1> QED
  BY <1>2, <1>3 DEF u

(* f with the root d is a branch that may become the i-th child of p.      *)
Branch(f, d, t, p, i) ==
  /\ IsTree(f) /\ DOMAIN f \cap DOMAIN t = {} /\ d \in DOMAIN f
  /\ f[d].parent = p /\ f[d].sort = i /\ f[d].depth = DepthBelow(t, p)
  /\ \A e \in DOMAIN f \ {d} : f[e].parent \in DOMAIN f /\ f[e].depth = f[f[e].parent].depth + 1
  /\ \A q \in DOMAIN f : Dense(f, q)

Graft(t, p, i, f) ==
  [e \in DOMAIN t \cup DOMAIN f |-> IF e \in DOMAIN f THEN f[e] ELSE Shifted(t, p, i)[e]]

(* A valid tree with a branch put below p, in the place i, is valid.       *)
LEMMA Grafted ==
  ASSUME NEW t, IsTree(t), Valid(t), NEW p \in Places(t), NEW i \in Nat,
         i <= Cardinality(Children(t, p)),
         NEW f, NEW d, Branch(f, d, t, p, i),
         NEW r, r = Graft(t, p, i, f)
  PROVE  IsTree(r) /\ Valid(r)
<1> DEFINE u == Shifted(t, p, i)
<1>1. /\ IsTree(u) /\ DOMAIN u = DOMAIN t
      /\ \A e \in DOMAIN t : /\ u[e].parent = t[e].parent /\ u[e].depth = t[e].depth
                             /\ t[e].parent # p => u[e] = t[e]
                             /\ t[e].parent = p => u[e].sort = IF t[e].sort >= i THEN t[e].sort + 1 ELSE t[e].sort
  BY ShiftedIs
<1>2. Shape(t) /\ \A q \in Places(t) : Dense(t, q)
  BY ValidParts
<1>b. /\ IsTree(f) /\ DOMAIN f \cap DOMAIN t = {} /\ d \in DOMAIN f
      /\ f[d].parent = p /\ f[d].sort = i /\ f[d].depth = DepthBelow(t, p)
      /\ \A e \in DOMAIN f \ {d} : f[e].parent \in DOMAIN f /\ f[e].depth = f[f[e].parent].depth + 1
      /\ \A q \in DOMAIN f : Dense(f, q)
  BY DEF Branch
<1>3. DOMAIN r = DOMAIN t \cup DOMAIN f /\ Places(r) = Places(t) \cup DOMAIN f
  BY DEF Graft, Places
<1>4. /\ \A e \in DOMAIN f : r[e] = f[e] /\ e \notin DOMAIN t
      /\ \A e \in DOMAIN t : r[e] = u[e] /\ e \notin DOMAIN f
  BY <1>1, <1>b DEF Graft
<1> HIDE DEF u
<1>5. Root \notin DOMAIN f /\ Root \notin DOMAIN t
  BY <1>b, RootAssumption DEF IsTree
<1>6. IsTree(r)
  <2>1. IsFiniteSet(DOMAIN r) /\ DOMAIN r \subseteq Docs
    <3>1. IsFiniteSet(DOMAIN t) /\ DOMAIN t \subseteq Docs
      BY DEF IsTree
    <3>2. IsFiniteSet(DOMAIN f) /\ DOMAIN f \subseteq Docs
      BY <1>b DEF IsTree
    <3>3. IsFiniteSet(DOMAIN t \cup DOMAIN f)
      BY <3>1, <3>2, FS_Union
    <3> QED
      BY <1>3, <3>1, <3>2, <3>3
  <2>2. \A e \in DOMAIN r : r[e] \in [parent : Docs \cup {Root}, sort : Nat, depth : Nat]
    BY <1>1, <1>3, <1>4, <1>b, Position
  <2>3. r = [e \in DOMAIN r |-> r[e]]
    BY DEF Graft
  <2> QED
    BY <2>1, <2>2, <2>3 DEF IsTree
<1>7. \A e \in DOMAIN t : t[e].parent \in Places(t)
  BY <1>2 DEF Shape
<1>8. \A q \in Places(t) : DepthBelow(r, q) = DepthBelow(t, q) /\ q \notin DOMAIN f
  BY <1>1, <1>4, <1>5, <1>b DEF Places, DepthBelow
<1>9. Shape(r)
  <2>1. ASSUME NEW e \in DOMAIN t
        PROVE  r[e].parent \in Places(r) /\ r[e].depth = DepthBelow(r, r[e].parent)
    BY <1>1, <1>2, <1>3, <1>4, <1>7, <1>8 DEF Shape
  <2>2. r[d].parent \in Places(r) /\ r[d].depth = DepthBelow(r, r[d].parent)
    BY <1>3, <1>4, <1>8, <1>b
  <2>3. ASSUME NEW e \in DOMAIN f \ {d}
        PROVE  r[e].parent \in Places(r) /\ r[e].depth = DepthBelow(r, r[e].parent)
    BY <1>3, <1>4, <1>5, <1>b DEF DepthBelow
  <2> QED
    BY <1>3, <2>1, <2>2, <2>3 DEF Shape
<1>10. ASSUME NEW q \in DOMAIN f PROVE Dense(r, q)
  <2>1. Children(r, q) = Children(f, q)
    <3>1. \A e \in DOMAIN t : r[e].parent # q
      BY <1>1, <1>4, <1>7, <1>8
    <3> QED
      BY <1>3, <1>4, <3>1 DEF Children
  <2>2. \A e \in Children(f, q) : r[e].sort = f[e].sort
    BY <1>4 DEF Children
  <2> QED
    BY <1>b, <2>1, <2>2 DEF Dense
<1>11. ASSUME NEW q \in Places(t), q # p PROVE Dense(r, q)
  <2>1. Children(r, q) = Children(t, q)
    <3>1. \A e \in DOMAIN f : r[e].parent # q
      BY <1>4, <1>8, <1>11, <1>b
    <3> QED
      BY <1>1, <1>3, <1>4, <3>1 DEF Children
  <2>2. \A e \in Children(t, q) : r[e].sort = t[e].sort
    BY <1>1, <1>4, <1>11 DEF Children
  <2> QED
    BY <1>2, <2>1, <2>2 DEF Dense
<1>12. Dense(r, p)
  <2> DEFINE C == Children(t, p)
             N == Cardinality(C)
  <2>1. N \in Nat /\ IsFiniteSet(C) /\ {t[e].sort : e \in C} = 0 .. (N - 1)
    BY <1>2, ChildrenFinite DEF Dense
  <2>2. C \subseteq DOMAIN t /\ (\A e \in C : t[e].parent = p /\ t[e].sort \in Nat)
    BY Position DEF Children
  <2>3. Children(r, p) = C \cup {d} /\ d \notin C
    <3>1. \A e \in DOMAIN f : r[e].parent = p <=> e = d
      BY <1>4, <1>8, <1>b
    <3> QED
      BY <1>1, <1>3, <1>4, <1>b, <3>1 DEF Children
  <2> HIDE DEF C
  <2>4. Cardinality(Children(r, p)) = N + 1
    BY <2>1, <2>3, FS_AddElement
  <2>5. \A e \in C : r[e].sort = IF t[e].sort >= i THEN t[e].sort + 1 ELSE t[e].sort
    BY <1>1, <1>4, <2>2
  <2>6. r[d].sort = i /\ i <= N
    BY <1>4, <1>b DEF C
  <2>7. ASSUME NEW e \in Children(r, p) PROVE r[e].sort \in 0 .. N
    <3>1. CASE e = d
      BY <2>1, <2>6, <3>1
    <3>2. CASE e \in C
      <4>1. t[e].sort \in 0 .. (N - 1)
        BY <2>1, <3>2
      <4> QED
        BY <2>1, <2>5, <3>2, <4>1
    <3> QED
      BY <2>3, <3>1, <3>2
  <2>8. ASSUME NEW n \in 0 .. N PROVE \E e \in Children(r, p) : r[e].sort = n
    <3>1. CASE n = i
      BY <2>3, <2>6, <3>1
    <3>2. CASE n < i
      <4>1. n \in 0 .. (N - 1)
        BY <2>1, <2>6, <3>2
      <4>2. PICK e \in C : t[e].sort = n
        BY <2>1, <4>1
      <4> QED
        BY <2>3, <2>5, <3>2, <4>2
    <3>3. CASE n > i
      <4>1. n - 1 \in 0 .. (N - 1) /\ n - 1 >= i
        BY <2>1, <3>3
      <4>2. PICK e \in C : t[e].sort = n - 1
        BY <2>1, <4>1
      <4> QED
        BY <2>3, <2>5, <4>1, <4>2
    <3> QED
      BY <2>1, <3>1, <3>2, <3>3
  <2>9. {r[e].sort : e \in Children(r, p)} = 0 .. N
    BY <2>7, <2>8
  <2> HIDE DEF N
  <2>10. (N + 1) - 1 = N
    BY <2>1
  <2> QED
    BY <2>4, <2>9, <2>10 DEF Dense
<1> QED
  BY <1>3, <1>6, <1>9, <1>10, <1>11, <1>12, ValidParts DEF Places

(* Adding a node grafts a branch of one.                                   *)
LEMMA AddedIsGraft ==
  ASSUME NEW t, IsTree(t), Valid(t), NEW d \in Docs, NEW p, NEW i \in Nat, CanAdd(t, d, p, i)
  PROVE  \E f : Branch(f, d, t, p, i) /\ DOMAIN f = {d} /\ Added(t, d, p, i) = Graft(t, p, i, f)
<1> DEFINE v == [parent |-> p, sort |-> i, depth |-> DepthBelow(t, p)]
           f == [e \in {d} |-> v]
           u == Shifted(t, p, i)
<1>1. d \notin DOMAIN t /\ p \in Places(t) /\ i <= Cardinality(Children(t, p))
  BY DEF CanAdd
<1>2. DepthBelow(t, p) \in Nat /\ p \in Docs \cup {Root}
  BY <1>1, Position DEF DepthBelow, Places, IsTree
<1>3. IsTree(f)
  BY <1>2, FS_Singleton DEF IsTree
<1>4. Dense(f, d)
  <2>1. d # p
    BY <1>1, RootAssumption DEF Places
  <2>2. Children(f, d) = {}
    BY <2>1 DEF Children
  <2> HIDE DEF f
  <2>3. {f[e].sort : e \in Children(f, d)} = {}
    BY <2>2
  <2>4. 0 .. (Cardinality(Children(f, d)) - 1) = {}
    BY <2>2, FS_EmptySet
  <2> QED
    BY <2>3, <2>4 DEF Dense
<1>5. Added(t, d, p, i) = [e \in DOMAIN t \cup DOMAIN f |-> IF e \in DOMAIN f THEN f[e] ELSE u[e]]
  <2> HIDE DEF v, u
  <2>1. Added(t, d, p, i) = [e \in DOMAIN t \cup {d} |-> IF e = d THEN v ELSE u[e]]
    BY DEF Added, v, u
  <2> QED
    BY <2>1
<1>6. f[d].parent = p /\ f[d].sort = i /\ f[d].depth = DepthBelow(t, p)
  OBVIOUS
<1>7. DOMAIN f = {d} /\ DOMAIN f \cap DOMAIN t = {}
  BY <1>1
<1> HIDE DEF f
<1>8. Branch(f, d, t, p, i)
  BY <1>3, <1>4, <1>6, <1>7 DEF Branch
<1>9. Added(t, d, p, i) = Graft(t, p, i, f)
  BY <1>5 DEF Graft, u
<1> QED
  BY <1>7, <1>8, <1>9

(* Adding a node to a valid tree gives a valid tree.                       *)
LEMMA AddedIsValid ==
  ASSUME NEW t, IsTree(t), Valid(t), NEW d \in Docs, NEW p, NEW i \in Nat, CanAdd(t, d, p, i)
  PROVE  IsTree(Added(t, d, p, i)) /\ Valid(Added(t, d, p, i))
         /\ DOMAIN Added(t, d, p, i) = DOMAIN t \cup {d}
<1>1. PICK f : Branch(f, d, t, p, i) /\ DOMAIN f = {d} /\ Added(t, d, p, i) = Graft(t, p, i, f)
  BY AddedIsGraft
<1>2. p \in Places(t) /\ i <= Cardinality(Children(t, p))
  BY DEF CanAdd
<1>3. IsTree(Graft(t, p, i, f)) /\ Valid(Graft(t, p, i, f))
  BY <1>1, <1>2, Grafted
<1> QED
  BY <1>1, <1>3 DEF Graft

-----------------------------------------------------------------------------
(* Taking a branch out, and moving it.                                     *)

(* A valid tree without one of its branches is a tree again, but for the   *)
(* gap among the siblings of the branch.                                   *)
LEMMA PrunedIs ==
  ASSUME NEW t, IsTree(t), Valid(t), NEW d \in DOMAIN t,
         NEW u, u = Restrict(t, DOMAIN t \ Subtree(t, d))
  PROVE  /\ IsTree(u) /\ DOMAIN u = DOMAIN t \ Subtree(t, d) /\ (\A e \in DOMAIN u : u[e] = t[e])
         /\ Shape(u) /\ t[d].parent \in Places(u) /\ Distinct(u, t[d].parent)
         /\ \A q \in Places(u) : /\ Children(u, q) = Children(t, q) \ {d}
                                 /\ q # t[d].parent => Dense(u, q)
                                 /\ DepthBelow(u, q) = DepthBelow(t, q)
<1> DEFINE S == Subtree(t, d)
<1>1. Shape(t) /\ \A q \in Places(t) : Dense(t, q)
  BY ValidParts
<1>2. /\ S \subseteq DOMAIN t /\ d \in S /\ t[d].parent \notin S
      /\ \A e \in DOMAIN t : t[e].parent \in S => e \in S
      /\ \A e \in S : e # d => t[e].parent \in S
  BY <1>1, SubtreeIs
<1> HIDE DEF S
<1>3. DOMAIN u = DOMAIN t \ S /\ (\A e \in DOMAIN u : u[e] = t[e]) /\ u = [e \in DOMAIN u |-> u[e]]
  BY DEF Restrict, S
<1>4. IsTree(u)
  <2>1. DOMAIN u \in SUBSET DOMAIN t
    BY <1>3
  <2>2. IsFiniteSet(DOMAIN u)
    BY <2>1, FS_Subset DEF IsTree
  <2>3. \A e \in DOMAIN u : u[e] \in [parent : Docs \cup {Root}, sort : Nat, depth : Nat]
    BY <1>3, <2>1, Position
  <2>4. DOMAIN u \subseteq Docs
    BY <2>1 DEF IsTree
  <2> QED
    BY <1>3, <2>2, <2>3, <2>4 DEF IsTree
<1>5. Root \notin S /\ Root \notin DOMAIN t
  BY <1>2, RootAssumption DEF IsTree
<1>6. Places(u) = Places(t) \ S
  BY <1>3, <1>5 DEF Places
<1>7. \A q \in Places(u) : DepthBelow(u, q) = DepthBelow(t, q)
  BY <1>3 DEF DepthBelow, Places
<1>8. \A e \in DOMAIN u : t[e].parent \in Places(u)
  BY <1>1, <1>2, <1>3, <1>6 DEF Shape
<1>9. Shape(u)
  <2> SUFFICES ASSUME NEW e \in DOMAIN u
               PROVE  u[e].parent \in Places(u) /\ u[e].depth = DepthBelow(u, u[e].parent)
    BY DEF Shape
  <2>1. e \in DOMAIN t /\ u[e] = t[e]
    BY <1>3
  <2>2. t[e].parent \in Places(u) /\ t[e].depth = DepthBelow(t, t[e].parent)
    BY <1>1, <1>8, <2>1 DEF Shape
  <2> QED
    BY <1>7, <2>1, <2>2
<1>10. t[d].parent \in Places(u)
  BY <1>1, <1>2, <1>6 DEF Shape
<1>11. ASSUME NEW q \in Places(u) PROVE Children(u, q) = Children(t, q) \ {d}
  <2>1. \A e \in DOMAIN t : t[e].parent = q /\ e # d => e \in DOMAIN u
    BY <1>2, <1>3, <1>6
  <2>2. \A e : e \in Children(u, q) <=> e \in DOMAIN u /\ t[e].parent = q
    BY <1>3 DEF Children
  <2>3. \A e : e \in Children(t, q) <=> e \in DOMAIN t /\ t[e].parent = q
    BY DEF Children
  <2>4. DOMAIN u \subseteq DOMAIN t /\ d \notin DOMAIN u
    BY <1>2, <1>3
  <2> QED
    BY <2>1, <2>2, <2>3, <2>4
<1>12. ASSUME NEW q \in Places(u), q # t[d].parent PROVE Dense(u, q)
  <2>1. Children(u, q) = Children(t, q)
    BY <1>11, <1>12 DEF Children
  <2>2. \A e \in Children(t, q) : u[e].sort = t[e].sort
    BY <1>3, <2>1 DEF Children
  <2>3. Dense(t, q)
    BY <1>1, <1>6
  <2> QED
    BY <2>1, <2>2, <2>3 DEF Dense
<1>13. Distinct(u, t[d].parent)
  <2>1. Distinct(t, t[d].parent)
    BY <1>1, <1>6, <1>10, DenseIsDistinct
  <2> QED
    BY <1>3, <1>10, <1>11, <2>1 DEF Distinct, Children
<1> QED
  BY <1>3, <1>4, <1>7, <1>9, <1>10, <1>11, <1>12, <1>13 DEF S

(* A tree whose gap was closed is valid.                                   *)
LEMMA GapCloses ==
  ASSUME NEW u, IsTree(u), Shape(u), NEW p \in Places(u), Distinct(u, p),
         \A q \in Places(u) : q # p => Dense(u, q),
         NEW v, v = Normalized(u, p)
  PROVE  /\ IsTree(v) /\ Valid(v) /\ DOMAIN v = DOMAIN u /\ Places(v) = Places(u)
         /\ \A q : Children(v, q) = Children(u, q)
         /\ \A q \in Places(u) : DepthBelow(v, q) = DepthBelow(u, q)
         /\ \A e \in DOMAIN u : /\ v[e].parent = u[e].parent /\ v[e].depth = u[e].depth
                                /\ u[e].parent # p => v[e] = u[e]
         /\ \A e, x \in Children(u, p) : u[e].sort < u[x].sort <=> v[e].sort < v[x].sort
<1>1. /\ IsTree(v) /\ DOMAIN v = DOMAIN u
      /\ \A e \in DOMAIN u : /\ v[e].parent = u[e].parent /\ v[e].depth = u[e].depth
                             /\ u[e].parent # p => v[e] = u[e]
      /\ Dense(v, p) /\ (\A q : q # p /\ Dense(u, q) => Dense(v, q))
      /\ \A e, x \in Children(u, p) : u[e].sort < u[x].sort <=> v[e].sort < v[x].sort
  BY NormalizedIs
<1>2. /\ Places(v) = Places(u) /\ Shape(v) /\ (\A q : Children(v, q) = Children(u, q))
      /\ \A q \in Places(u) : DepthBelow(v, q) = DepthBelow(u, q)
  BY <1>1, SamePlaces
<1>3. Valid(v)
  BY <1>1, <1>2, ValidParts
<1> QED
  BY <1>1, <1>2, <1>3

(* f is the branch of d, on its way to the place i below p of what is left. *)
Uprooted(f, v, t, d, p, i) ==
  /\ v = Normalized(Restrict(t, DOMAIN t \ Subtree(t, d)), t[d].parent)
  /\ IsTree(v) /\ Valid(v) /\ p \in Places(v) /\ i <= Cardinality(Children(v, p))
  /\ Branch(f, d, v, p, i) /\ DOMAIN f = Subtree(t, d)
  /\ \A q \in Subtree(t, d) : /\ Children(f, q) = Children(t, q)
                             /\ \A e \in Children(t, q) : f[e].sort = t[e].sort

(* Moving a node grafts its branch.                                        *)
LEMMA MovedIsGraft ==
  ASSUME NEW t, IsTree(t), Valid(t), NEW d, NEW p, NEW i \in Nat, CanMove(t, d, p, i)
  PROVE  /\ \E f, v : Uprooted(f, v, t, d, p, i) /\ Moved(t, d, p, i) = Graft(v, p, i, f)
         /\ DOMAIN Moved(t, d, p, i) = DOMAIN t
<1> DEFINE S == Subtree(t, d)
           u == Restrict(t, DOMAIN t \ S)
           v == Normalized(u, t[d].parent)
           new == DepthBelow(t, p)
           x == [parent |-> p, sort |-> i, depth |-> new]
           f == [e \in S |-> IF e = d THEN x ELSE [t[e] EXCEPT !.depth = (@ + new) - t[d].depth]]
           w == Shifted(v, p, i)
<1>1. d \in DOMAIN t /\ p \in Places(t) \ S /\ i <= Cardinality(Children(t, p) \ {d})
  BY DEF CanMove
<1>2. Moved(t, d, p, i) = [e \in DOMAIN t |-> IF e = d THEN x
                             ELSE IF e \in S THEN [t[e] EXCEPT !.depth = (@ + new) - t[d].depth] ELSE w[e]]
  BY DEF Moved
<1>3. Shape(t) /\ \A q \in Places(t) : Dense(t, q)
  BY ValidParts
<1>4. /\ S \subseteq DOMAIN t /\ d \in S /\ t[d].parent \notin S
      /\ \A e \in DOMAIN t : t[e].parent \in S => e \in S
      /\ \A e \in S : e # d => t[e].parent \in S /\ t[e].depth > t[d].depth
  BY <1>1, <1>3, SubtreeIs
<1>5. /\ IsTree(u) /\ DOMAIN u = DOMAIN t \ S /\ (\A e \in DOMAIN u : u[e] = t[e])
      /\ Shape(u) /\ t[d].parent \in Places(u) /\ Distinct(u, t[d].parent)
      /\ \A q \in Places(u) : /\ Children(u, q) = Children(t, q) \ {d}
                              /\ q # t[d].parent => Dense(u, q)
                              /\ DepthBelow(u, q) = DepthBelow(t, q)
  BY <1>1, PrunedIs
<1>6. /\ IsTree(v) /\ Valid(v) /\ DOMAIN v = DOMAIN u /\ Places(v) = Places(u)
      /\ \A q : Children(v, q) = Children(u, q)
      /\ \A q \in Places(u) : DepthBelow(v, q) = DepthBelow(u, q)
  <2> HIDE DEF u
  <2> QED
    BY <1>5, GapCloses
<1>7. Root \notin DOMAIN t
  BY RootAssumption DEF IsTree
<1> HIDE DEF S, u, v, new
<1>8. p \in Places(v) /\ i <= Cardinality(Children(v, p)) /\ new = DepthBelow(v, p)
  <2>1. p \in Places(u)
    BY <1>1, <1>5 DEF Places
  <2> QED
    BY <1>1, <1>5, <1>6, <2>1 DEF new
<1>9. new \in Nat /\ p \in Docs \cup {Root}
  BY <1>1, Position DEF DepthBelow, Places, new
<1>10. ASSUME NEW e \in S, e # d
       PROVE  /\ f[e] = [parent |-> t[e].parent, sort |-> t[e].sort, depth |-> (t[e].depth + new) - t[d].depth]
              /\ (t[e].depth + new) - t[d].depth \in Nat
              /\ f[e].parent = t[e].parent /\ f[e].sort = t[e].sort
              /\ f[e].depth = (t[e].depth + new) - t[d].depth
  <2>1. PICK a, b, c : t[e] = [parent |-> a, sort |-> b, depth |-> c]
    BY <1>4, Position
  <2>2. f[e] = [t[e] EXCEPT !.depth = (@ + new) - t[d].depth]
    BY <1>10
  <2>3. t[e].depth \in Nat /\ t[d].depth \in Nat /\ t[e].depth > t[d].depth
    BY <1>1, <1>4, <1>10, Position
  <2>4. f[e] = [parent |-> t[e].parent, sort |-> t[e].sort, depth |-> (t[e].depth + new) - t[d].depth]
    BY <2>1, <2>2
  <2>5. (t[e].depth + new) - t[d].depth \in Nat
    BY <1>9, <2>3
  <2> HIDE DEF f
  <2> QED
    BY <2>4, <2>5
<1>11. f[d] = x /\ DOMAIN f = S /\ f = [e \in DOMAIN f |-> f[e]]
  BY <1>4
<1>12. Moved(t, d, p, i) = [e \in DOMAIN v \cup DOMAIN f |-> IF e \in DOMAIN f THEN f[e] ELSE w[e]]
  <2>1. DOMAIN v \cup DOMAIN f = DOMAIN t
    BY <1>4, <1>5, <1>6, <1>11
  <2> HIDE DEF x, w
  <2>2. \A e \in DOMAIN t : (IF e = d THEN x ELSE IF e \in S THEN [t[e] EXCEPT !.depth = (@ + new) - t[d].depth] ELSE w[e])
                             = IF e \in S THEN f[e] ELSE w[e]
    BY <1>4
  <2> QED
    BY <1>2, <1>11, <2>1, <2>2
<1>13. DOMAIN Moved(t, d, p, i) = DOMAIN t
  BY <1>2
<1> HIDE DEF f
<1>14. IsTree(f)
  <2>1. S \in SUBSET DOMAIN t
    BY <1>4
  <2>2. IsFiniteSet(S) /\ S \subseteq Docs
    BY <2>1, FS_Subset DEF IsTree
  <2>3. \A e \in S : f[e] \in [parent : Docs \cup {Root}, sort : Nat, depth : Nat]
    BY <1>4, <1>9, <1>10, <1>11, Position
  <2> QED
    BY <1>11, <2>2, <2>3 DEF IsTree
<1>15. f[d].parent = p /\ f[d].sort = i /\ f[d].depth = DepthBelow(v, p) /\ d \in DOMAIN f
  BY <1>4, <1>8, <1>11
<1>16. ASSUME NEW e \in DOMAIN f \ {d}
       PROVE  f[e].parent \in DOMAIN f /\ f[e].depth = f[f[e].parent].depth + 1
  <2>1. /\ e \in S /\ t[e].parent \in S /\ f[e].parent = t[e].parent
        /\ f[e].depth = (t[e].depth + new) - t[d].depth
    BY <1>4, <1>10, <1>11, <1>16
  <2>2. t[e].depth = t[t[e].parent].depth + 1
    BY <1>3, <1>4, <1>7, <2>1 DEF Shape, DepthBelow
  <2>3. f[t[e].parent].depth = (t[t[e].parent].depth + new) - t[d].depth
    <3>1. CASE t[e].parent = d
      BY <1>1, <1>9, <1>11, <3>1, Position
    <3>2. CASE t[e].parent # d
      BY <1>10, <2>1, <3>2
    <3> QED
      BY <3>1, <3>2
  <2>4. t[d].depth \in Nat /\ t[t[e].parent].depth \in Nat
    BY <1>1, <1>4, <2>1, Position
  <2> QED
    BY <1>9, <1>11, <2>1, <2>2, <2>3, <2>4
<1>17. ASSUME NEW q \in DOMAIN f
       PROVE  /\ Dense(f, q) /\ Children(f, q) = Children(t, q)
              /\ \A e \in Children(t, q) : f[e].sort = t[e].sort
  <2>1. q \in S /\ q \in DOMAIN t
    BY <1>4, <1>11
  <2>2. \A e \in S : e # d => f[e].parent = t[e].parent /\ f[e].sort = t[e].sort
    BY <1>10
  <2>3. Children(f, q) = Children(t, q)
    <3>1. ASSUME NEW e \in Children(f, q) PROVE e \in Children(t, q)
      <4>1. e \in S /\ f[e].parent = q
        BY <1>11, <3>1 DEF Children
      <4>2. e # d
        BY <1>1, <1>15, <2>1, <4>1
      <4> QED
        BY <1>4, <2>2, <4>1, <4>2 DEF Children
    <3>2. ASSUME NEW e \in Children(t, q) PROVE e \in Children(f, q)
      <4>1. e \in DOMAIN t /\ t[e].parent = q
        BY <3>2 DEF Children
      <4>2. e \in S /\ e # d
        BY <1>4, <2>1, <4>1
      <4> QED
        BY <1>11, <2>2, <4>1, <4>2 DEF Children
    <3> QED
      BY <3>1, <3>2
  <2>4. \A e \in Children(t, q) : f[e].sort = t[e].sort
    BY <1>1, <1>4, <2>1, <2>2 DEF Children
  <2>5. Dense(t, q)
    BY <1>3, <2>1 DEF Places
  <2> QED
    BY <2>3, <2>4, <2>5 DEF Dense
<1>18. DOMAIN f \cap DOMAIN v = {}
  BY <1>5, <1>6, <1>11
<1> HIDE DEF x
<1>19. Branch(f, d, v, p, i)
  BY <1>14, <1>15, <1>16, <1>17, <1>18 DEF Branch
<1>20. Moved(t, d, p, i) = Graft(v, p, i, f)
  BY <1>12 DEF Graft, w
<1>21. v = Normalized(Restrict(t, DOMAIN t \ Subtree(t, d)), t[d].parent) /\ DOMAIN f = Subtree(t, d)
  BY <1>11 DEF v, u, S
<1> HIDE DEF w
<1>22. Uprooted(f, v, t, d, p, i)
  BY <1>6, <1>8, <1>11, <1>17, <1>19, <1>21 DEF Uprooted
<1> QED
  BY <1>13, <1>20, <1>22

(* Moving a node of a valid tree gives a valid tree.                       *)
LEMMA MovedIsValid ==
  ASSUME NEW t, IsTree(t), Valid(t), NEW d, NEW p, NEW i \in Nat, CanMove(t, d, p, i)
  PROVE  IsTree(Moved(t, d, p, i)) /\ Valid(Moved(t, d, p, i)) /\ DOMAIN Moved(t, d, p, i) = DOMAIN t
<1>1. PICK f, v : Uprooted(f, v, t, d, p, i) /\ Moved(t, d, p, i) = Graft(v, p, i, f)
  BY MovedIsGraft
<1>2. /\ IsTree(v) /\ Valid(v) /\ p \in Places(v) /\ i <= Cardinality(Children(v, p))
      /\ Branch(f, d, v, p, i)
  BY <1>1 DEF Uprooted
<1>3. IsTree(Graft(v, p, i, f)) /\ Valid(Graft(v, p, i, f))
  BY <1>2, Grafted
<1> QED
  BY <1>1, <1>3, MovedIsGraft

-----------------------------------------------------------------------------
(* Removing a node, whose children take its place.                         *)

(* One list after another.                                                 *)
LEMMA ListsConcat ==
  ASSUME NEW A, NEW m \in Nat, NEW a, Lists(a, A, m),
         NEW B, NEW n \in Nat, NEW b, Lists(b, B, n), A \cap B = {}
  PROVE  Lists(a \o b, A \cup B, m + n)
<1>1. /\ a \in Seq(A \cup B) /\ Len(a) = m /\ b \in Seq(A \cup B) /\ Len(b) = n
      /\ \A i \in 1 .. m : a[i] \in A
      /\ \A i \in 1 .. n : b[i] \in B
  BY DEF Lists
<1> DEFINE s == a \o b
<1>2. s \in Seq(A \cup B) /\ Len(s) = m + n
  BY <1>1
<1>3. /\ \A i \in 1 .. m : s[i] = a[i]
      /\ \A i \in (m + 1) .. (m + n) : s[i] = b[i - m]
  BY <1>1
<1> HIDE DEF s
<1>4. s \in [1 .. (m + n) -> A \cup B]
  BY <1>2
<1>5. \A i \in 1 .. n : i + m \in (m + 1) .. (m + n) /\ s[i + m] = b[i]
  BY <1>3
<1>6. ASSUME NEW x \in A \cup B PROVE \E i \in 1 .. (m + n) : s[i] = x
  <2>1. CASE x \in A
    <3>1. PICK i \in 1 .. m : a[i] = x
      BY <2>1 DEF Lists
    <3> QED
      BY <1>3, <3>1
  <2>2. CASE x \in B
    <3>1. PICK i \in 1 .. n : b[i] = x
      BY <2>2 DEF Lists
    <3> QED
      BY <1>5, <3>1
  <2> QED
    BY <2>1, <2>2
<1>7. ASSUME NEW i \in 1 .. (m + n), NEW j \in 1 .. (m + n), i # j PROVE s[i] # s[j]
  <2>1. CASE i <= m /\ j <= m
    BY <1>3, <1>7, <2>1 DEF Lists
  <2>2. CASE i > m /\ j > m
    <3>1. i - m \in 1 .. n /\ j - m \in 1 .. n /\ i - m # j - m
      BY <1>7, <2>2
    <3>2. s[i] = b[i - m] /\ s[j] = b[j - m]
      BY <1>3, <2>2
    <3> QED
      BY <3>1, <3>2 DEF Lists
  <2>3. CASE i <= m /\ j > m
    <3>1. i \in 1 .. m /\ j \in (m + 1) .. (m + n) /\ j - m \in 1 .. n
      BY <2>3
    <3>2. s[i] = a[i] /\ s[j] = b[j - m]
      BY <1>3, <3>1
    <3> QED
      BY <1>1, <3>1, <3>2
  <2>4. CASE i > m /\ j <= m
    <3>1. j \in 1 .. m /\ i \in (m + 1) .. (m + n) /\ i - m \in 1 .. n
      BY <2>4
    <3>2. s[j] = a[j] /\ s[i] = b[i - m]
      BY <1>3, <3>1
    <3> QED
      BY <1>1, <3>1, <3>2
  <2> QED
    BY <2>1, <2>2, <2>3, <2>4
<1> QED
  BY <1>4, <1>6, <1>7 DEF Lists, s

(* Removed, before its children are renumbered.                            *)
Lifted(t, d) ==
  LET rest == Normalized(Restrict(t, DOMAIN t \ {d}), t[d].parent)
  IN [e \in DOMAIN rest |->
        IF rest[e].parent = d THEN [rest[e] EXCEPT !.parent = t[d].parent, !.depth = t[d].depth]
        ELSE IF e \in Subtree(t, d) THEN [rest[e] EXCEPT !.depth = @ - 1]
        ELSE rest[e]]

(* What is left, and what it becomes.                                      *)
LiftedWell(t, d, rest, r) ==
  /\ IsTree(rest) /\ DOMAIN rest = DOMAIN t \ {d}
  /\ Children(rest, t[d].parent) = Children(t, t[d].parent) \ {d}
  /\ Distinct(rest, t[d].parent)
  /\ \A e, x \in Children(rest, t[d].parent) : t[e].sort < t[x].sort <=> rest[e].sort < rest[x].sort
  /\ IsTree(r) /\ Shape(r) /\ DOMAIN r = DOMAIN t \ {d} /\ t[d].parent \in Places(r)
  /\ Children(r, t[d].parent) = (Children(t, t[d].parent) \ {d}) \cup Children(t, d)
  /\ \A q \in Places(r) : q # t[d].parent =>
       Dense(r, q) /\ Children(r, q) = Children(t, q) /\ (\A e \in Children(t, q) : r[e].sort = t[e].sort)

(* Everything below the node comes up one level, its children to its       *)
(* siblings.                                                               *)
LEMMA LiftedIs ==
  ASSUME NEW t, IsTree(t), Valid(t), NEW d \in DOMAIN t,
         NEW rest, rest = Normalized(Restrict(t, DOMAIN t \ {d}), t[d].parent),
         NEW r, r = Lifted(t, d)
  PROVE  LiftedWell(t, d, rest, r)
<1> DEFINE S == Subtree(t, d)
           p == t[d].parent
           u == Restrict(t, DOMAIN t \ {d})
<1>1. Shape(t) /\ \A q \in Places(t) : Dense(t, q)
  BY ValidParts
<1>2. /\ S \subseteq DOMAIN t /\ d \in S /\ p \notin S
      /\ \A e \in DOMAIN t : t[e].parent \in S => e \in S
      /\ \A e \in S : e # d => t[e].parent \in S /\ t[e].depth > t[d].depth
  BY <1>1, SubtreeIs
<1>3. DOMAIN u = DOMAIN t \ {d} /\ (\A e \in DOMAIN u : u[e] = t[e]) /\ u = [e \in DOMAIN u |-> u[e]]
  BY DEF Restrict
<1> HIDE DEF S, u
<1>4. IsTree(u)
  <2>1. IsFiniteSet(DOMAIN u)
    BY <1>3, FS_RemoveElement DEF IsTree
  <2> QED
    BY <1>3, <2>1, Position DEF IsTree
<1>5. Children(u, p) = Children(t, p) \ {d} /\ p \in Places(t) /\ p # d
  BY <1>1, <1>2, <1>3 DEF Children, Shape
<1>6. Distinct(u, p)
  <2>1. Distinct(t, p)
    BY <1>1, <1>5, DenseIsDistinct
  <2> QED
    BY <1>3, <1>5, <2>1 DEF Distinct, Children
<1>7. /\ IsTree(rest) /\ DOMAIN rest = DOMAIN u /\ Dense(rest, p)
      /\ \A e \in DOMAIN u : /\ rest[e].parent = u[e].parent /\ rest[e].depth = u[e].depth
                             /\ u[e].parent # p => rest[e] = u[e]
      /\ \A e, x \in Children(u, p) : u[e].sort < u[x].sort <=> rest[e].sort < rest[x].sort
  <2>1. rest = Normalized(u, p)
    BY DEF u
  <2> HIDE DEF p
  <2>2. /\ IsTree(Normalized(u, p)) /\ DOMAIN Normalized(u, p) = DOMAIN u /\ Dense(Normalized(u, p), p)
        /\ \A e \in DOMAIN u : /\ Normalized(u, p)[e].parent = u[e].parent
                               /\ Normalized(u, p)[e].depth = u[e].depth
                               /\ u[e].parent # p => Normalized(u, p)[e] = u[e]
        /\ \A e, x \in Children(u, p) :
             u[e].sort < u[x].sort <=> Normalized(u, p)[e].sort < Normalized(u, p)[x].sort
    BY <1>4, <1>6, NormalizedIs
  <2> QED
    BY <2>1, <2>2
<1>8. \A q : Children(rest, q) = Children(u, q)
  BY <1>7, SamePlaces
<1>9. Distinct(rest, p)
  BY <1>7, DenseIsDistinct
<1>10. r = [e \in DOMAIN rest |->
              IF rest[e].parent = d THEN [rest[e] EXCEPT !.parent = p, !.depth = t[d].depth]
              ELSE IF e \in S THEN [rest[e] EXCEPT !.depth = @ - 1]
              ELSE rest[e]]
  BY DEF Lifted, S
<1> HIDE DEF p
<1>11. ASSUME NEW e \in DOMAIN t, e # d
       PROVE  /\ r[e] = [parent |-> IF t[e].parent = d THEN p ELSE t[e].parent, sort |-> rest[e].sort,
                         depth |-> IF e \in S THEN t[e].depth - 1 ELSE t[e].depth]
              /\ r[e] \in [parent : Docs \cup {Root}, sort : Nat, depth : Nat]
              /\ t[e].depth \in Nat /\ (e \in S => t[e].depth - 1 \in Nat)
              /\ r[e].parent = IF t[e].parent = d THEN p ELSE t[e].parent
              /\ r[e].sort = rest[e].sort
              /\ r[e].depth = IF e \in S THEN t[e].depth - 1 ELSE t[e].depth
  <2>0. e \in DOMAIN rest /\ IsTree(rest)
    BY <1>3, <1>7, <1>11
  <2>1. PICK a, b, c : rest[e] = [parent |-> a, sort |-> b, depth |-> c]
    <3>1. rest[e] = [parent |-> rest[e].parent, sort |-> rest[e].sort, depth |-> rest[e].depth]
      BY <2>0, Position
    <3> QED
      BY <3>1
  <2>2. rest[e].parent = t[e].parent /\ rest[e].depth = t[e].depth /\ e \in DOMAIN rest
    BY <1>3, <1>7, <1>11
  <2>3. PICK z : z = t[d].depth
    OBVIOUS
  <2>4. r[e] = IF a = d THEN [parent |-> p, sort |-> b, depth |-> z]
               ELSE IF e \in S THEN [parent |-> a, sort |-> b, depth |-> c - 1] ELSE rest[e]
    <3>1. r[e] = IF rest[e].parent = d THEN [rest[e] EXCEPT !.parent = p, !.depth = z]
                 ELSE IF e \in S THEN [rest[e] EXCEPT !.depth = @ - 1] ELSE rest[e]
      BY <1>10, <2>2, <2>3
    <3>2. rest[e].parent = a /\ rest[e].depth = c /\ rest[e].sort = b
      BY <2>1
    <3>3. [rest[e] EXCEPT !.parent = p, !.depth = z] = [parent |-> p, sort |-> b, depth |-> z]
      <4>1. [rest[e] EXCEPT !.parent = p, !.depth = z] = [[rest[e] EXCEPT !.parent = p] EXCEPT !.depth = z]
        OBVIOUS
      <4>2. [rest[e] EXCEPT !.parent = p] = [parent |-> p, sort |-> b, depth |-> c]
        BY <2>1
      <4>3. [[parent |-> p, sort |-> b, depth |-> c] EXCEPT !.depth = z] = [parent |-> p, sort |-> b, depth |-> z]
        OBVIOUS
      <4> QED
        BY <4>1, <4>2, <4>3
    <3>4. [rest[e] EXCEPT !.depth = @ - 1] = [parent |-> a, sort |-> b, depth |-> c - 1]
      BY <2>1
    <3>5. CASE a = d
      BY <3>1, <3>2, <3>3, <3>5
    <3>6. CASE a # d
      BY <3>1, <3>2, <3>4, <3>6
    <3> QED
      BY <3>5, <3>6
  <2>5. t[e].parent = d => e \in S /\ t[d].depth = t[e].depth - 1
    <3> SUFFICES ASSUME t[e].parent = d PROVE e \in S /\ t[d].depth = t[e].depth - 1
      OBVIOUS
    <3>1. e \in S
      BY <1>2
    <3>2. t[e].depth = t[d].depth + 1
      BY <1>1, OneDown, Position
    <3> QED
      BY <3>1, <3>2, Position
  <2>6. r[e] = [parent |-> IF t[e].parent = d THEN p ELSE t[e].parent, sort |-> rest[e].sort,
                depth |-> IF e \in S THEN t[e].depth - 1 ELSE t[e].depth]
    BY <2>1, <2>2, <2>3, <2>4, <2>5
  <2>7. /\ t[e].depth \in Nat /\ t[d].depth \in Nat /\ t[e].parent \in Docs \cup {Root}
        /\ p \in Docs \cup {Root}
    BY Position DEF p
  <2>8. e \in S => t[e].depth - 1 \in Nat
    BY <1>2, <1>11, <2>7
  <2>9. rest[e].sort \in Nat
    BY <2>0, Position
  <2> DEFINE P == IF t[e].parent = d THEN p ELSE t[e].parent
             D == IF e \in S THEN t[e].depth - 1 ELSE t[e].depth
  <2>10. P \in Docs \cup {Root} /\ D \in Nat
    BY <2>7, <2>8
  <2>11. r[e] = [parent |-> P, sort |-> rest[e].sort, depth |-> D]
    BY <2>6
  <2> HIDE DEF P, D
  <2>12. /\ r[e] \in [parent : Docs \cup {Root}, sort : Nat, depth : Nat]
         /\ r[e].parent = P /\ r[e].sort = rest[e].sort /\ r[e].depth = D
    BY <2>9, <2>10, <2>11
  <2> QED
    BY <2>6, <2>7, <2>8, <2>12 DEF P, D
<1>12. DOMAIN r = DOMAIN t \ {d} /\ r = [e \in DOMAIN r |-> r[e]]
  BY <1>3, <1>7, <1>10
<1>13. IsTree(r)
  <2>1. IsFiniteSet(DOMAIN r) /\ DOMAIN r \subseteq Docs
    BY <1>12, FS_RemoveElement DEF IsTree
  <2> QED
    BY <1>11, <1>12, <2>1 DEF IsTree
<1>14. Root \notin DOMAIN t /\ Root # d
  BY RootAssumption DEF IsTree
<1>15. Places(r) = Places(t) \ {d} /\ p \in Places(r)
  BY <1>5, <1>12, <1>14 DEF Places
<1>16. ASSUME NEW e \in DOMAIN r
       PROVE  r[e].parent \in Places(r) /\ r[e].depth = DepthBelow(r, r[e].parent)
  <2>1. e \in DOMAIN t /\ e # d /\ t[e].parent \in Places(t) /\ t[e].depth = DepthBelow(t, t[e].parent)
    BY <1>1, <1>12, <1>16 DEF Shape
  <2>2. CASE e \notin S
    <3>0. t[e].parent \notin S /\ t[e].parent # d
      BY <1>2, <2>1, <2>2
    <3>1. /\ t[e].parent \notin S /\ t[e].parent # d
          /\ r[e].parent = t[e].parent /\ r[e].depth = t[e].depth
      <4>1. /\ r[e].parent = IF t[e].parent = d THEN p ELSE t[e].parent
            /\ r[e].depth = IF e \in S THEN t[e].depth - 1 ELSE t[e].depth
        BY <1>11, <2>1
      <4> QED
        BY <2>2, <3>0, <4>1
    <3>2. CASE t[e].parent = Root
      BY <1>15, <2>1, <3>1, <3>2 DEF DepthBelow
    <3>3. CASE t[e].parent # Root
      <4>1. t[e].parent \in DOMAIN t
        BY <2>1, <3>3 DEF Places
      <4>2. r[t[e].parent].depth = t[t[e].parent].depth
        BY <1>11, <3>1, <4>1
      <4> QED
        BY <1>15, <2>1, <3>1, <3>3, <4>2 DEF DepthBelow
    <3> QED
      BY <3>2, <3>3
  <2>3. CASE e \in S /\ t[e].parent = d
    <3>1. r[e].parent = p /\ r[e].depth = t[e].depth - 1 /\ t[e].depth = t[d].depth + 1
      BY <1>11, <1>14, <2>1, <2>3 DEF DepthBelow
    <3>2. t[d].depth \in Nat /\ t[d].depth = DepthBelow(t, p)
      BY <1>1, Position DEF Shape, p
    <3>3. DepthBelow(r, p) = DepthBelow(t, p)
      <4>1. CASE p = Root
        BY <4>1 DEF DepthBelow
      <4>2. CASE p # Root
        <5>1. p \in DOMAIN t /\ p # d /\ p \notin S
          BY <1>2, <1>5, <4>2 DEF Places
        <5>2. r[p].depth = t[p].depth
          BY <1>11, <5>1
        <5> QED
          BY <4>2, <5>2 DEF DepthBelow
      <4> QED
        BY <4>1, <4>2
    <3> QED
      BY <1>15, <3>1, <3>2, <3>3
  <2>4. CASE e \in S /\ t[e].parent # d
    <3>1. t[e].parent \in S /\ r[e].parent = t[e].parent /\ r[e].depth = t[e].depth - 1
      BY <1>2, <1>11, <2>1, <2>4
    <3>2. t[e].parent \in DOMAIN t /\ t[e].parent # Root /\ t[e].parent # d
      BY <1>2, <1>14, <2>4, <3>1
    <3>3. /\ r[t[e].parent].depth = t[t[e].parent].depth - 1 /\ t[t[e].parent].depth - 1 \in Nat
          /\ t[e].depth = t[t[e].parent].depth + 1 /\ t[t[e].parent].depth \in Nat
      BY <1>11, <2>1, <3>1, <3>2 DEF DepthBelow
    <3>4. t[e].depth - 1 = (t[t[e].parent].depth - 1) + 1
      BY <3>3
    <3>5. DepthBelow(r, t[e].parent) = r[t[e].parent].depth + 1
      BY <3>2 DEF DepthBelow
    <3> QED
      BY <1>15, <2>1, <3>1, <3>2, <3>3, <3>4, <3>5
  <2> QED
    BY <2>2, <2>3, <2>4
<1>17. Shape(r)
  BY <1>16 DEF Shape
<1>18. Children(r, p) = (Children(t, p) \ {d}) \cup Children(t, d)
  <2>1. \A e \in DOMAIN r : r[e].parent = IF t[e].parent = d THEN p ELSE t[e].parent
    BY <1>11, <1>12
  <2>2. t[d].parent # d
    BY <1>5 DEF p
  <2> QED
    BY <1>12, <2>1, <2>2 DEF Children
<1>19. ASSUME NEW q \in Places(r), q # p
       PROVE  Dense(r, q) /\ Children(r, q) = Children(t, q) /\ (\A e \in Children(t, q) : r[e].sort = t[e].sort)
  <2>1. q # d
    BY <1>15
  <2>2. Children(r, q) = Children(t, q)
    <3>1. \A e \in DOMAIN r : r[e].parent = IF t[e].parent = d THEN p ELSE t[e].parent
      BY <1>11, <1>12
    <3>2. t[d].parent # q
      BY <1>19 DEF p
    <3> QED
      BY <1>12, <1>19, <2>1, <3>1, <3>2 DEF Children
  <2>3. \A e \in Children(t, q) : r[e].sort = t[e].sort
    <3> SUFFICES ASSUME NEW e \in Children(t, q) PROVE r[e].sort = t[e].sort
      OBVIOUS
    <3>1. e \in DOMAIN t /\ t[e].parent = q /\ e # d
      BY <1>19 DEF Children, p
    <3>2. rest[e] = t[e]
      BY <1>3, <1>7, <1>19, <3>1
    <3>3. r[e].sort = rest[e].sort
      BY <1>11, <3>1
    <3> QED
      BY <3>2, <3>3
  <2>4. Dense(t, q)
    BY <1>1, <1>15
  <2> QED
    BY <2>2, <2>3, <2>4 DEF Dense
<1>20. ASSUME NEW e \in Children(rest, p), NEW x \in Children(rest, p)
       PROVE  t[e].sort < t[x].sort <=> rest[e].sort < rest[x].sort
  <2>1. e \in Children(u, p) /\ x \in Children(u, p)
    BY <1>8
  <2>2. u[e] = t[e] /\ u[x] = t[x]
    BY <1>3, <2>1 DEF Children
  <2>3. u[e].sort < u[x].sort <=> rest[e].sort < rest[x].sort
    BY <1>7, <2>1
  <2> QED
    BY <2>2, <2>3
<1> QED
  BY <1>3, <1>5, <1>7, <1>8, <1>9, <1>12, <1>13, <1>15, <1>17, <1>18, <1>19, <1>20 DEF p, LiftedWell

(* s lists the siblings of d with its children in its place.               *)
Spliced(s, t, d, rest, r) ==
  LET p == t[d].parent
      before == {e \in Children(rest, p) : rest[e].sort < t[d].sort}
      after == Children(rest, p) \ before
  IN /\ rest = Normalized(Restrict(t, DOMAIN t \ {d}), p)
     /\ LiftedWell(t, d, rest, r)
     /\ s = InOrder(rest, before) \o InOrder(t, Children(t, d)) \o InOrder(rest, after)
     /\ Lists(s, Children(r, p), Cardinality(Children(r, p)))

(* Removing a node numbers its siblings and its children again.            *)
LEMMA RemovedIsSpliced ==
  ASSUME NEW t, IsTree(t), Valid(t), NEW d \in DOMAIN t
  PROVE  \E s, rest, r : Spliced(s, t, d, rest, r) /\ Removed(t, d) = Reordered(r, t[d].parent, s)
<1> DEFINE p == t[d].parent
           rest == Normalized(Restrict(t, DOMAIN t \ {d}), p)
           r == Lifted(t, d)
           before == {e \in Children(rest, p) : rest[e].sort < t[d].sort}
           after == Children(rest, p) \ before
           K == Children(t, d)
           s == InOrder(rest, before) \o InOrder(t, K) \o InOrder(rest, after)
           R == Reordered(r, p, s)
<1>1. Removed(t, d) = R
  BY DEF Removed, Lifted
<1>w. LiftedWell(t, d, rest, r) /\ rest = Normalized(Restrict(t, DOMAIN t \ {d}), p)
  <2>1. rest = Normalized(Restrict(t, DOMAIN t \ {d}), t[d].parent) /\ r = Lifted(t, d)
    OBVIOUS
  <2> HIDE DEF rest, r
  <2> QED
    BY <2>1, LiftedIs
<1>2. /\ IsTree(rest) /\ DOMAIN rest = DOMAIN t \ {d}
      /\ Children(rest, p) = Children(t, p) \ {d}
      /\ Distinct(rest, p)
      /\ IsTree(r) /\ Shape(r) /\ DOMAIN r = DOMAIN t \ {d} /\ p \in Places(r)
      /\ Children(r, p) = (Children(t, p) \ {d}) \cup Children(t, d)
      /\ \A q \in Places(r) : q # p => Dense(r, q)
  <2>1. LiftedWell(t, d, rest, r)
    BY <1>w
  <2> QED
    BY <2>1 DEF LiftedWell
<1> HIDE DEF rest, r
<1>3. Shape(t) /\ (\A q \in Places(t) : Dense(t, q)) /\ p # d
  <2>1. Shape(t) /\ (\A q \in Places(t) : Dense(t, q))
    BY ValidParts
  <2> QED
    BY <2>1, SubtreeIs
<1>4. before \in SUBSET DOMAIN rest /\ after \in SUBSET DOMAIN rest /\ before \cap after = {}
      /\ before \cup after = Children(rest, p) /\ before \subseteq Children(rest, p) /\ after \subseteq Children(rest, p)
  BY DEF Children
<1> HIDE DEF before, after
<1>5. /\ Lists(InOrder(rest, before), before, Cardinality(before)) /\ Cardinality(before) \in Nat
      /\ Lists(InOrder(rest, after), after, Cardinality(after)) /\ Cardinality(after) \in Nat
  <2>1. \A e, x \in before : rest[e].sort = rest[x].sort => e = x
    BY <1>2, <1>4 DEF Distinct
  <2>2. \A e, x \in after : rest[e].sort = rest[x].sort => e = x
    BY <1>2, <1>4 DEF Distinct
  <2> QED
    BY <1>2, <1>4, <2>1, <2>2, InOrderIs
<1>6. Lists(InOrder(t, K), K, Cardinality(K)) /\ Cardinality(K) \in Nat
  <2>1. Distinct(t, d)
    BY <1>3, DenseIsDistinct DEF Places
  <2>2. K \in SUBSET DOMAIN t
    BY DEF Children
  <2>3. \A e, x \in K : t[e].sort = t[x].sort => e = x
    BY <2>1 DEF Distinct
  <2> HIDE DEF K
  <2> QED
    BY <2>2, <2>3, InOrderIs
<1>7. K \cap (before \cup after) = {}
  BY <1>2, <1>3, <1>4 DEF Children
<1> HIDE DEF K
<1>8. Lists(InOrder(rest, before) \o InOrder(t, K), before \cup K, Cardinality(before) + Cardinality(K))
  BY <1>5, <1>6, <1>7, ListsConcat
<1>9. Lists(s, (before \cup K) \cup after, (Cardinality(before) + Cardinality(K)) + Cardinality(after))
  <2>1. Cardinality(before) + Cardinality(K) \in Nat
    BY <1>5, <1>6
  <2>2. (before \cup K) \cap after = {}
    BY <1>4, <1>7
  <2> QED
    BY <1>5, <1>8, <2>1, <2>2, ListsConcat
<1>10. (before \cup K) \cup after = Children(r, p)
  BY <1>2, <1>4 DEF K
<1>11. Lists(s, Children(r, p), Cardinality(Children(r, p)))
  <2>1. (Cardinality(before) + Cardinality(K)) + Cardinality(after) \in Nat
    BY <1>5, <1>6
  <2> HIDE DEF s
  <2> QED
    BY <1>9, <1>10, <2>1, ListsAll
<1>12. s = InOrder(rest, before) \o InOrder(t, Children(t, d)) \o InOrder(rest, after)
  BY DEF s, K
<1> HIDE DEF s
<1>13. Spliced(s, t, d, rest, r)
  BY <1>w, <1>11, <1>12 DEF Spliced, before, after
<1> QED
  BY <1>1, <1>13

(* Removing a node of a valid tree gives a valid tree.                     *)
LEMMA RemovedIsValid ==
  ASSUME NEW t, IsTree(t), Valid(t), NEW d \in DOMAIN t
  PROVE  IsTree(Removed(t, d)) /\ Valid(Removed(t, d)) /\ DOMAIN Removed(t, d) = DOMAIN t \ {d}
<1>1. PICK s, rest, r : Spliced(s, t, d, rest, r) /\ Removed(t, d) = Reordered(r, t[d].parent, s)
  BY RemovedIsSpliced
<1>p. PICK p : p = t[d].parent
  OBVIOUS
<1>2. /\ IsTree(r) /\ Shape(r) /\ DOMAIN r = DOMAIN t \ {d} /\ p \in Places(r)
      /\ \A q \in Places(r) : q # p => Dense(r, q)
  BY <1>1, <1>p DEF Spliced, LiftedWell
<1>3. Lists(s, Children(r, p), Cardinality(Children(r, p)))
  BY <1>1, <1>p DEF Spliced
<1> DEFINE R == Reordered(r, p, s)
<1>4. /\ IsTree(R) /\ DOMAIN R = DOMAIN r
      /\ \A e \in DOMAIN r : R[e].parent = r[e].parent /\ R[e].depth = r[e].depth
      /\ Dense(R, p) /\ \A q : q # p /\ Dense(r, q) => Dense(R, q)
  <2>1. R = Reordered(r, p, s)
    OBVIOUS
  <2> HIDE DEF R
  <2>2. /\ IsTree(Reordered(r, p, s)) /\ DOMAIN Reordered(r, p, s) = DOMAIN r
        /\ \A e \in DOMAIN r : /\ Reordered(r, p, s)[e].parent = r[e].parent
                               /\ Reordered(r, p, s)[e].depth = r[e].depth
                               /\ r[e].parent # p => Reordered(r, p, s)[e] = r[e]
        /\ \A i \in 1 .. Cardinality(Children(r, p)) : Reordered(r, p, s)[s[i]].sort = i - 1
        /\ Dense(Reordered(r, p, s), p)
        /\ \A q : q # p /\ Dense(r, q) => Dense(Reordered(r, p, s), q)
    BY <1>2, <1>3, ReorderedIs
  <2> QED
    BY <2>1, <2>2
<1> HIDE DEF R
<1>5. Places(R) = Places(r) /\ Shape(R)
  BY <1>2, <1>4, SamePlaces
<1>6. Removed(t, d) = R
  BY <1>1, <1>p DEF R
<1> QED
  BY <1>2, <1>4, <1>5, <1>6, ValidParts

-----------------------------------------------------------------------------
(* The closure: who is how far above whom.                                 *)

(* w[n]: the pairs that are n levels apart.                                *)
Leads(w, t) ==
  \A n \in 0 .. Cardinality(DOMAIN t) :
    w[n] = {link \in (DOMAIN t) \X (DOMAIN t) \X {n} :
              IF n = 0 THEN link[1] = link[2] ELSE <<link[1], t[link[2]].parent, n - 1>> \in w[n - 1]}

(* The closure is found level by level.                                    *)
LEMMA ClosureByLengths ==
  ASSUME NEW t, IsTree(t)
  PROVE  \E w : Leads(w, t) /\ ClosureOf(t) = UNION {w[n] : n \in 0 .. Cardinality(DOMAIN t)}
<1> DEFINE N == Cardinality(DOMAIN t)
           D == DOMAIN t
           S == SUBSET (D \X D \X Nat)
           c == {<<d, d, 0>> : d \in D}
           On(P, n) == {<<step[1][1], step[2], n>> : step \in {pd \in P \X D : t[pd[2]].parent = pd[1][2]}}
           F == [P \in S |-> {link \in D \X D \X Nat :
                                link[3] # 0 /\ <<link[1], t[link[2]].parent, link[3] - 1>> \in P}]
           w == CHOOSE f : f = [n \in 0 .. N |-> IF n = 0 THEN c ELSE On(f[n - 1], n)]
<1>1. ClosureOf(t) = UNION {w[n] : n \in DOMAIN w}
  BY DEF ClosureOf
<1>2. c \in S /\ F \in [S -> S] /\ N \in Nat
  BY FS_CardinalityType DEF IsTree
<1>3. PICK h \in [0 .. N -> S] : Solves(h, c, F, N)
  <2> HIDE DEF S, F, N, c
  <2> QED
    BY <1>2, Recursion
<1>4. \A n \in 0 .. N : n # 0 => n - 1 \in 0 .. N /\ h[n - 1] \in S
  BY <1>2, <1>3
<1>5. \A n \in 0 .. N :
        h[n] = IF n = 0 THEN c ELSE {link \in D \X D \X Nat :
                                       link[3] # 0 /\ <<link[1], t[link[2]].parent, link[3] - 1>> \in h[n - 1]}
  BY <1>3, <1>4 DEF Solves
<1>6. \A n \in 0 .. N : h[n] \subseteq D \X D \X {n}
  <2> DEFINE G == {n \in Nat : n <= N => h[n] \subseteq D \X D \X {n}}
  <2>1. 0 \in G
    BY <1>2, <1>5
  <2>2. ASSUME NEW n \in Nat, n \in G PROVE n + 1 \in G
    <3> SUFFICES ASSUME n + 1 <= N, NEW link \in h[n + 1] PROVE link \in D \X D \X {n + 1}
      OBVIOUS
    <3>1. n + 1 \in 0 .. N /\ n + 1 # 0 /\ (n + 1) - 1 = n /\ n <= N
      BY <1>2
    <3>2. /\ link \in D \X D \X Nat /\ link[3] # 0
          /\ <<link[1], t[link[2]].parent, link[3] - 1>> \in h[n]
      BY <1>5, <3>1
    <3>3. link[3] - 1 = n
      BY <2>2, <3>1, <3>2
    <3>4. link[3] = n + 1
      BY <3>2, <3>3
    <3> QED
      BY <3>2, <3>4
  <2>3. Nat \subseteq G
    <3> HIDE DEF G
    <3> QED
      BY <2>1, <2>2, SetInduction
  <2> QED
    BY <1>2, <2>3
<1>7. ASSUME NEW n \in 0 .. N, n # 0, NEW P, P \subseteq D \X D \X {n - 1}
      PROVE  On(P, n) = {link \in D \X D \X {n} : <<link[1], t[link[2]].parent, n - 1>> \in P}
  <2>1. ASSUME NEW link \in On(P, n)
        PROVE  link \in D \X D \X {n} /\ <<link[1], t[link[2]].parent, n - 1>> \in P
    <3>1. PICK pd \in P \X D : t[pd[2]].parent = pd[1][2] /\ link = <<pd[1][1], pd[2], n>>
      BY <2>1
    <3>2. pd[1] \in D \X D \X {n - 1} /\ pd[1] \in P /\ pd[2] \in D
      BY <1>7, <3>1
    <3>3. pd[1] = <<pd[1][1], pd[1][2], n - 1>>
      BY <3>2
    <3>4. link[1] = pd[1][1] /\ link[2] = pd[2] /\ link[3] = n
      BY <3>1
    <3> QED
      BY <3>1, <3>2, <3>3, <3>4
  <2>2. ASSUME NEW link \in D \X D \X {n}, <<link[1], t[link[2]].parent, n - 1>> \in P
        PROVE  link \in On(P, n)
    <3> DEFINE pd == <<<<link[1], t[link[2]].parent, n - 1>>, link[2]>>
    <3>1. pd \in P \X D /\ t[pd[2]].parent = pd[1][2]
      BY <2>2
    <3>2. link = <<pd[1][1], pd[2], n>>
      BY <2>2
    <3> HIDE DEF pd
    <3> QED
      BY <3>1, <3>2
  <2> QED
    BY <2>1, <2>2
<1>8. \A n \in 0 .. N : n # 0 => h[n] = On(h[n - 1], n)
  <2> SUFFICES ASSUME NEW n \in 0 .. N, n # 0 PROVE h[n] = On(h[n - 1], n)
    OBVIOUS
  <2>1. h[n - 1] \subseteq D \X D \X {n - 1} /\ h[n] \subseteq D \X D \X {n}
    BY <1>4, <1>6
  <2>2. On(h[n - 1], n) = {link \in D \X D \X {n} : <<link[1], t[link[2]].parent, n - 1>> \in h[n - 1]}
    BY <1>7, <2>1
  <2>3. h[n] = {link \in D \X D \X Nat :
                  link[3] # 0 /\ <<link[1], t[link[2]].parent, link[3] - 1>> \in h[n - 1]}
    BY <1>5
  <2> HIDE DEF On
  <2>4. h[n] = {link \in D \X D \X {n} : <<link[1], t[link[2]].parent, n - 1>> \in h[n - 1]}
    <3>1. \A link \in D \X D \X {n} : link \in D \X D \X Nat /\ link[3] = n
      BY <1>2
    <3> QED
      BY <2>1, <2>3, <3>1
  <2> QED
    BY <2>2, <2>4
<1>9. h = [n \in 0 .. N |-> IF n = 0 THEN c ELSE On(h[n - 1], n)]
  <2> HIDE DEF On, c
  <2> QED
    BY <1>3, <1>5, <1>8
<1>10. w = [n \in 0 .. N |-> IF n = 0 THEN c ELSE On(w[n - 1], n)]
  <2>1. \E f : f = [n \in 0 .. N |-> IF n = 0 THEN c ELSE On(f[n - 1], n)]
    BY <1>9
  <2> HIDE DEF On, c, N
  <2> QED
    BY <2>1
<1> HIDE DEF w, On
<1>11. DOMAIN w = 0 .. N /\ \A n \in 0 .. N : w[n] = IF n = 0 THEN c ELSE On(w[n - 1], n)
  BY <1>10
<1>12. \A n \in 0 .. N : w[n] \subseteq D \X D \X {n}
  <2> DEFINE G == {n \in Nat : n <= N => w[n] \subseteq D \X D \X {n}}
  <2>1. 0 \in G
    BY <1>2, <1>11
  <2>2. ASSUME NEW n \in Nat, n \in G PROVE n + 1 \in G
    <3> SUFFICES ASSUME n + 1 <= N PROVE w[n + 1] \subseteq D \X D \X {n + 1}
      OBVIOUS
    <3>1. n + 1 \in 0 .. N /\ n + 1 # 0 /\ (n + 1) - 1 = n /\ n <= N
      BY <1>2
    <3>2. w[n + 1] = On(w[n], n + 1)
      BY <1>11, <3>1
    <3>3. w[n] \subseteq D \X D \X {(n + 1) - 1}
      BY <2>2, <3>1
    <3>4. On(w[n], n + 1) = {link \in D \X D \X {n + 1} : <<link[1], t[link[2]].parent, (n + 1) - 1>> \in w[n]}
      BY <1>7, <3>1, <3>3
    <3> QED
      BY <3>2, <3>4
  <2>3. Nat \subseteq G
    <3> HIDE DEF G
    <3> QED
      BY <2>1, <2>2, SetInduction
  <2> QED
    BY <1>2, <2>3
<1>13. ASSUME NEW n \in 0 .. N
       PROVE  w[n] = {link \in D \X D \X {n} :
                IF n = 0 THEN link[1] = link[2] ELSE <<link[1], t[link[2]].parent, n - 1>> \in w[n - 1]}
  <2>1. CASE n = 0
    <3>1. w[n] = c
      BY <1>11, <2>1
    <3>2. c = {link \in D \X D \X {0} : link[1] = link[2]}
      OBVIOUS
    <3> QED
      BY <2>1, <3>1, <3>2
  <2>2. CASE n # 0
    <3>1. n - 1 \in 0 .. N
      BY <1>2, <2>2
    <3>2. w[n] = On(w[n - 1], n) /\ w[n - 1] \subseteq D \X D \X {n - 1}
      BY <1>11, <1>12, <2>2, <3>1
    <3> QED
      BY <1>7, <2>2, <3>2
  <2> QED
    BY <2>1, <2>2
<1>14. Leads(w, t)
  BY <1>13 DEF Leads
<1>15. ClosureOf(t) = UNION {w[n] : n \in 0 .. N}
  BY <1>1, <1>11
<1> HIDE DEF N
<1> QED
  BY <1>14, <1>15 DEF N

(* The closure that rebuildClosure computes of a valid tree is the tree's: *)
(* from every node there is one link for each of its ancestors and itself. *)
LEMMA ClosureIs ==
  ASSUME NEW t, IsTree(t), Valid(t), NEW c, c = ClosureOf(t)
  PROVE  /\ c \subseteq Docs \X Docs \X Nat
         /\ \A link \in c : {link[1], link[2]} \subseteq DOMAIN t
         /\ \A link \in c : t[link[1]].depth + link[3] = t[link[2]].depth
         /\ \A d \in DOMAIN t : Cardinality({link \in c : link[2] = d}) = t[d].depth + 1
         /\ \A link \in c : link[3] > 0 => <<link[1], t[link[2]].parent, link[3] - 1>> \in c
<1> DEFINE N == Cardinality(DOMAIN t)
           D == DOMAIN t
<1>1. PICK w : Leads(w, t) /\ c = UNION {w[n] : n \in 0 .. N}
  BY ClosureByLengths
<1>2. N \in Nat
  BY FS_CardinalityType DEF IsTree
<1>3. Shape(t) /\ D \subseteq Docs
  BY ValidParts DEF IsTree
<1>4. \A d \in D : t[d].depth \in Nat /\ t[d].depth < N
  BY <1>3, Position, DepthsBounded
<1> HIDE DEF N, D
<1>5. \A n \in 0 .. N :
        w[n] = {link \in D \X D \X {n} :
                  IF n = 0 THEN link[1] = link[2] ELSE <<link[1], t[link[2]].parent, n - 1>> \in w[n - 1]}
  BY <1>1 DEF Leads, N, D
<1>6. \A link \in c : link[3] \in 0 .. N /\ link \in w[link[3]] /\ link \in D \X D \X {link[3]}
  <2> SUFFICES ASSUME NEW link \in c PROVE link[3] \in 0 .. N /\ link \in w[link[3]] /\ link \in D \X D \X {link[3]}
    OBVIOUS
  <2>1. PICK n \in 0 .. N : link \in w[n]
    BY <1>1
  <2>2. link \in D \X D \X {n}
    BY <1>5, <2>1
  <2> QED
    BY <2>1, <2>2
<1>7. \A n \in 0 .. N : \A link \in w[n] : link \in c
  BY <1>1
<1> DEFINE G == {n \in Nat : n <= N =>
                   /\ \A link \in w[n] : t[link[1]].depth + n = t[link[2]].depth
                   /\ \A link, other \in w[n] : link[2] = other[2] => link = other
                   /\ \A d \in D : n <= t[d].depth => \E link \in w[n] : link[2] = d}
<1>8. 0 \in G
  <2>1. 0 \in 0 .. N
    BY <1>2
  <2>2. w[0] = {link \in D \X D \X {0} : link[1] = link[2]}
    BY <1>5, <2>1
  <2>3. \A link \in w[0] : t[link[1]].depth + 0 = t[link[2]].depth
    BY <1>4, <2>2
  <2>4. \A link, other \in w[0] : link[2] = other[2] => link = other
    BY <2>2
  <2>5. ASSUME NEW d \in D PROVE \E link \in w[0] : link[2] = d
    <3>1. <<d, d, 0>> \in w[0] /\ <<d, d, 0>>[2] = d
      BY <2>2
    <3> QED
      BY <3>1
  <2> QED
    BY <2>3, <2>4, <2>5
<1>9. ASSUME NEW n \in Nat, n \in G PROVE n + 1 \in G
  <2> SUFFICES ASSUME n + 1 <= N
               PROVE  /\ \A link \in w[n + 1] : t[link[1]].depth + (n + 1) = t[link[2]].depth
                      /\ \A link, other \in w[n + 1] : link[2] = other[2] => link = other
                      /\ \A d \in D : n + 1 <= t[d].depth => \E link \in w[n + 1] : link[2] = d
    OBVIOUS
  <2>1. n + 1 \in 0 .. N /\ n + 1 # 0 /\ (n + 1) - 1 = n /\ n <= N /\ n \in 0 .. N
    BY <1>2
  <2>2. w[n + 1] = {link \in D \X D \X {n + 1} : <<link[1], t[link[2]].parent, n>> \in w[n]}
    BY <1>5, <2>1
  <2>3. w[n] \subseteq D \X D \X {n}
    BY <1>5, <2>1
  <2>4. /\ \A link \in w[n] : t[link[1]].depth + n = t[link[2]].depth
        /\ \A link, other \in w[n] : link[2] = other[2] => link = other
        /\ \A d \in D : n <= t[d].depth => \E link \in w[n] : link[2] = d
    BY <1>9, <2>1
  <2>5. ASSUME NEW link \in w[n + 1] PROVE t[link[1]].depth + (n + 1) = t[link[2]].depth
    <3>1. /\ link[1] \in D /\ link[2] \in D /\ t[link[2]].parent \in D
          /\ t[link[1]].depth + n = t[t[link[2]].parent].depth
      <4>1. link \in D \X D \X {n + 1} /\ <<link[1], t[link[2]].parent, n>> \in w[n]
        BY <2>2, <2>5
      <4> DEFINE up == <<link[1], t[link[2]].parent, n>>
      <4>2. up[1] = link[1] /\ up[2] = t[link[2]].parent /\ up \in D \X D \X {n} /\ t[up[1]].depth + n = t[up[2]].depth
        BY <2>3, <2>4, <4>1
      <4> QED
        BY <4>1, <4>2
    <3>2. t[link[2]].depth = t[t[link[2]].parent].depth + 1
      BY <1>3, <3>1, OneDown, Position DEF D
    <3>3. t[link[1]].depth \in Nat
      BY <1>4, <3>1
    <3> QED
      BY <3>1, <3>2, <3>3
  <2>6. ASSUME NEW link \in w[n + 1], NEW other \in w[n + 1], link[2] = other[2] PROVE link = other
    <3> DEFINE up == <<link[1], t[link[2]].parent, n>>
               above == <<other[1], t[other[2]].parent, n>>
    <3>1. up \in w[n] /\ above \in w[n] /\ up[2] = above[2]
      BY <2>2, <2>6
    <3>2. up = above
      BY <2>4, <3>1
    <3>3. link[1] = other[1]
      BY <3>2
    <3>4. link = <<link[1], link[2], n + 1>> /\ other = <<other[1], other[2], n + 1>>
      BY <2>2
    <3> QED
      BY <2>6, <3>3, <3>4
  <2>7. ASSUME NEW d \in D, n + 1 <= t[d].depth PROVE \E link \in w[n + 1] : link[2] = d
    <3>1. t[d].parent \in D /\ t[d].depth = t[t[d].parent].depth + 1
      <4>1. t[d].depth # 0
        BY <1>4, <2>7
      <4> QED
        BY <1>3, <4>1, OneDown DEF D
    <3>2. n <= t[t[d].parent].depth
      BY <1>4, <2>7, <3>1
    <3>3. PICK up \in w[n] : up[2] = t[d].parent
      BY <2>4, <3>1, <3>2
    <3>4. up = <<up[1], t[d].parent, n>> /\ up[1] \in D
      BY <2>3, <3>3
    <3> DEFINE link == <<up[1], d, n + 1>>
    <3>5. link \in w[n + 1] /\ link[2] = d
      BY <2>2, <3>3, <3>4
    <3> QED
      BY <3>5
  <2> QED
    BY <2>5, <2>6, <2>7
<1>10. \A n \in 0 .. N :
         /\ \A link \in w[n] : t[link[1]].depth + n = t[link[2]].depth
         /\ \A link, other \in w[n] : link[2] = other[2] => link = other
         /\ \A d \in D : n <= t[d].depth => \E link \in w[n] : link[2] = d
  <2>1. Nat \subseteq G
    <3> HIDE DEF G
    <3> QED
      BY <1>8, <1>9, SetInduction
  <2> QED
    BY <1>2, <2>1
<1> HIDE DEF G
<1>11. c \subseteq Docs \X Docs \X Nat
  BY <1>3, <1>6
<1>12. \A link \in c : {link[1], link[2]} \subseteq D
  BY <1>6
<1>13. \A link \in c : t[link[1]].depth + link[3] = t[link[2]].depth
  BY <1>6, <1>10
<1>14. ASSUME NEW link \in c, link[3] > 0 PROVE <<link[1], t[link[2]].parent, link[3] - 1>> \in c
  <2>1. link[3] \in 0 .. N /\ link[3] # 0 /\ link \in w[link[3]] /\ link[3] - 1 \in 0 .. N
    BY <1>2, <1>6, <1>14
  <2>2. <<link[1], t[link[2]].parent, link[3] - 1>> \in w[link[3] - 1]
    BY <1>5, <2>1
  <2> QED
    BY <1>7, <2>1, <2>2
<1>15. ASSUME NEW d \in D PROVE Cardinality({link \in c : link[2] = d}) = t[d].depth + 1
  <2> DEFINE R == {link \in c : link[2] = d}
             T == 0 .. t[d].depth
             f == [link \in R |-> link[3]]
  <2>1. ASSUME NEW link \in R PROVE link[3] \in T
    <3>1. /\ link \in c /\ link[2] = d /\ link[3] \in 0 .. N /\ link[1] \in D
          /\ t[link[1]].depth + link[3] = t[d].depth
      BY <1>6, <1>13, <2>1
    <3>2. t[link[1]].depth \in Nat /\ t[d].depth \in Nat /\ link[3] \in Nat
      BY <1>2, <1>4, <3>1
    <3> QED
      BY <3>1, <3>2
  <2>2. ASSUME NEW link \in R, NEW other \in R, link[3] = other[3] PROVE link = other
    <3>1. link[3] \in 0 .. N /\ link \in w[link[3]] /\ other \in w[link[3]] /\ link[2] = other[2]
      BY <1>6, <2>2
    <3> QED
      BY <1>10, <3>1
  <2>3. ASSUME NEW n \in T PROVE \E link \in R : link[3] = n
    <3>1. n \in 0 .. N /\ n <= t[d].depth
      BY <1>2, <1>4
    <3>2. PICK link \in w[n] : link[2] = d
      BY <1>10, <3>1
    <3>3. link[3] = n
      <4>1. link \in D \X D \X {n}
        BY <1>5, <3>1, <3>2
      <4> QED
        BY <4>1
    <3> QED
      BY <1>7, <3>1, <3>2, <3>3
  <2>4. f \in Injection(R, T) /\ f \in Surjection(R, T)
    <3> HIDE DEF R, T
    <3>1. f \in [R -> T]
      BY <2>1
    <3>2. \A link, other \in R : f[link] = f[other] => link = other
      BY <2>2
    <3>3. \A n \in T : \E link \in R : f[link] = n
      BY <2>3
    <3> HIDE DEF f
    <3> QED
      BY <3>1, <3>2, <3>3 DEF Injection, IsInjective, Surjection
  <2>5. IsFiniteSet(T) /\ Cardinality(T) = t[d].depth + 1
    BY <1>4, FS_Interval
  <2> HIDE DEF R, T, f
  <2>6. Cardinality(R) = Cardinality(T)
    BY <2>4, <2>5, FS_Injection
  <2> QED
    BY <2>5, <2>6 DEF R
<1> QED
  BY <1>11, <1>12, <1>13, <1>14, <1>15 DEF D

-----------------------------------------------------------------------------
(* What every command finds and leaves.                                    *)

(* What a command finds and leaves: a valid tree of documents, with the    *)
(* closure of its nodes.                                                   *)
TreeInv ==
  /\ documents \subseteq Docs /\ DOMAIN tree \subseteq documents
  /\ IsTree(tree) /\ Valid(tree) /\ closure = ClosureOf(tree)
  /\ version \in 0 .. MaxTreeVersion /\ enabled \in BOOLEAN /\ maxDepth \in Limits
  /\ ~enabled => DOMAIN tree = {}

(* Without nodes there is nothing to close.                                *)
LEMMA EmptyIsValid ==
  /\ IsTree(EmptyTree) /\ Valid(EmptyTree) /\ ClosureOf(EmptyTree) = {} /\ DOMAIN EmptyTree = {}
<1>1. DOMAIN EmptyTree = {} /\ EmptyTree = [d \in {} |-> EmptyTree[d]]
  BY DEF EmptyTree
<1>2. IsTree(EmptyTree)
  BY <1>1, FS_EmptySet DEF IsTree
<1>3. \A p : Children(EmptyTree, p) = {}
  BY <1>1 DEF Children
<1>4. Valid(EmptyTree)
  <2>1. ASSUME NEW p PROVE Dense(EmptyTree, p)
    <3>1. {EmptyTree[d].sort : d \in Children(EmptyTree, p)} = {}
      BY <1>3
    <3>2. 0 .. (Cardinality(Children(EmptyTree, p)) - 1) = {}
      BY <1>3, FS_EmptySet
    <3> QED
      BY <3>1, <3>2 DEF Dense
  <2>2. Shape(EmptyTree)
    BY <1>1 DEF Shape
  <2> QED
    BY <2>1, <2>2, ValidParts
<1>5. \A link \in ClosureOf(EmptyTree) : {link[1], link[2]} \subseteq DOMAIN EmptyTree
  BY <1>2, <1>4, ClosureIs
<1> QED
  BY <1>1, <1>2, <1>4, <1>5

(* The orders an editor may ask for name every child once.                 *)
LEMMA OrdersAreLists ==
  ASSUME NEW S, IsFiniteSet(S), NEW s \in SetToSeqs(S)
  PROVE  Lists(s, S, Cardinality(S))
<1> DEFINE N == Cardinality(S)
<1>1. N \in Nat
  BY FS_CardinalityType
<1> HIDE DEF N
<1>2. s \in [1 .. N -> S] /\ \A i, j \in 1 .. N : i # j => s[i] # s[j]
  BY DEF SetToSeqs, N
<1>3. s \in Injection(1 .. N, S)
  BY <1>2 DEF Injection, IsInjective
<1>4. IsFiniteSet(1 .. N) /\ Cardinality(1 .. N) = N
  BY <1>1, FS_Interval
<1>5. s \in Surjection(1 .. N, S)
  BY <1>3, <1>4, FS_Injection DEF N
<1>6. \A x \in S : \E i \in 1 .. N : s[i] = x
  BY <1>5 DEF Surjection
<1> QED
  BY <1>2, <1>6 DEF Lists, N

(* What a command stores is whole again.                                   *)
LEMMA StoreKeepsWhole ==
  ASSUME TreeInv, NEW next, IsTree(next), Store(next),
         documents' \subseteq Docs, DOMAIN next \subseteq documents'
  PROVE  TreeInv'
<1>1. /\ tree' = next /\ Valid(next) /\ closure' = ClosureOf(next) /\ enabled
      /\ version' = version + 1 /\ version < MaxTreeVersion
      /\ UNCHANGED <<enabled, maxDepth>>
  BY DEF Store
<1>2. version' \in 0 .. MaxTreeVersion
  BY <1>1, MaxTreeVersionAssumption DEF TreeInv
<1> QED
  BY <1>1, <1>2 DEF TreeInv

(* Leaving the rows of the hierarchy alone keeps them whole.               *)
LEMMA AloneKeepsWhole ==
  ASSUME TreeInv, UNCHANGED <<tree, closure, version, enabled, maxDepth>>,
         documents' \subseteq Docs, DOMAIN tree \subseteq documents'
  PROVE  TreeInv'
  BY DEF TreeInv

(* A document created with its place, or without one.                      *)
LEMMA CreateKeepsWhole ==
  ASSUME TreeInv, NEW d \in Docs, NEW p, NEW i \in Nat, NEW expected, Create(expected, d, p, i)
  PROVE  TreeInv'
<1>1. documents' = documents \cup {d} /\ documents' \subseteq Docs
  BY DEF Create, TreeInv
<1>2. CASE CanAdd(tree, d, p, i) /\ Store(Added(tree, d, p, i))
  <2>1. IsTree(Added(tree, d, p, i)) /\ DOMAIN Added(tree, d, p, i) = DOMAIN tree \cup {d}
    BY <1>2, AddedIsValid DEF TreeInv
  <2>2. DOMAIN Added(tree, d, p, i) \subseteq documents'
    BY <1>1, <2>1 DEF TreeInv
  <2> QED
    BY <1>1, <1>2, <2>1, <2>2, StoreKeepsWhole
<1>3. CASE UNCHANGED <<tree, closure, version, enabled, maxDepth>>
  <2>1. DOMAIN tree \subseteq documents'
    BY <1>1 DEF TreeInv
  <2> QED
    BY <1>1, <1>3, <2>1, AloneKeepsWhole
<1> QED
  BY <1>2, <1>3 DEF Create

(* A purge takes the document's node out and lifts its children.           *)
LEMMA PurgeKeepsWhole ==
  ASSUME TreeInv, NEW d \in Docs, Purge(d)
  PROVE  TreeInv'
<1>1. documents' = documents \ {d} /\ documents' \subseteq Docs
  BY DEF Purge, TreeInv
<1>2. CASE enabled /\ d \in DOMAIN tree
  <2>1. Store(Removed(tree, d))
    BY <1>2 DEF Purge
  <2>2. IsTree(Removed(tree, d)) /\ DOMAIN Removed(tree, d) = DOMAIN tree \ {d}
    BY <1>2, RemovedIsValid DEF TreeInv
  <2>3. DOMAIN Removed(tree, d) \subseteq documents'
    BY <1>1, <2>2 DEF TreeInv
  <2> QED
    BY <1>1, <2>1, <2>2, <2>3, StoreKeepsWhole
<1>3. CASE ~(enabled /\ d \in DOMAIN tree)
  <2>1. UNCHANGED <<tree, closure, version, enabled, maxDepth>>
    BY <1>3 DEF Purge
  <2>2. DOMAIN tree \subseteq documents'
    BY <1>1, <1>3 DEF TreeInv
  <2> QED
    BY <1>1, <2>1, <2>2, AloneKeepsWhole
<1> QED
  BY <1>2, <1>3

(* Every request of an editor, whatever version it expects.                *)
LEMMA RequestKeepsWhole ==
  ASSUME TreeInv, NEW expected, Request(expected)
  PROVE  TreeInv'
<1>1. Cardinality(Docs) \in Nat
  BY DocsAssumption, FS_CardinalityType
<1>2. IsTree(tree) /\ Valid(tree) /\ documents \subseteq Docs /\ DOMAIN tree \subseteq documents
  BY DEF TreeInv
<1>3. ASSUME NEW d \in Docs, NEW p, NEW i \in 0 .. Cardinality(Docs), Create(expected, d, p, i)
      PROVE  TreeInv'
  <2>1. i \in Nat
    BY <1>1
  <2> QED
    BY <1>3, <2>1, CreateKeepsWhole
<1>4. ASSUME NEW d \in Docs, NEW p, NEW i \in 0 .. Cardinality(Docs), AddNode(expected, d, p, i)
      PROVE  TreeInv'
  <2>1. /\ i \in Nat /\ d \in documents /\ CanAdd(tree, d, p, i) /\ Store(Added(tree, d, p, i))
        /\ documents' = documents
    BY <1>1, <1>4 DEF AddNode
  <2>2. IsTree(Added(tree, d, p, i)) /\ DOMAIN Added(tree, d, p, i) = DOMAIN tree \cup {d}
    BY <1>2, <2>1, AddedIsValid
  <2> QED
    BY <1>2, <2>1, <2>2, StoreKeepsWhole
<1>5. ASSUME NEW d \in Docs, NEW p, NEW i \in 0 .. Cardinality(Docs), MoveNode(expected, d, p, i)
      PROVE  TreeInv'
  <2>1. i \in Nat /\ CanMove(tree, d, p, i) /\ Store(Moved(tree, d, p, i)) /\ documents' = documents
    BY <1>1, <1>5 DEF MoveNode
  <2>2. IsTree(Moved(tree, d, p, i)) /\ DOMAIN Moved(tree, d, p, i) = DOMAIN tree
    BY <1>2, <2>1, MovedIsValid
  <2> QED
    BY <1>2, <2>1, <2>2, StoreKeepsWhole
<1>6. ASSUME NEW p, NEW s \in SetToSeqs(Children(tree, p)), ReorderChildren(expected, p, s)
      PROVE  TreeInv'
  <2>1. Store(Reordered(tree, p, s)) /\ documents' = documents
    BY <1>6 DEF ReorderChildren
  <2>2. Lists(s, Children(tree, p), Cardinality(Children(tree, p)))
    BY <1>2, <1>6, ChildrenFinite, OrdersAreLists
  <2>3. IsTree(Reordered(tree, p, s)) /\ DOMAIN Reordered(tree, p, s) = DOMAIN tree
    BY <1>2, <2>2, ReorderedIs
  <2> QED
    BY <1>2, <2>1, <2>3, StoreKeepsWhole
<1>7. ASSUME NEW d, NEW promoteChildren, RemoveNode(expected, d, promoteChildren)
      PROVE  TreeInv'
  <2>1. d \in DOMAIN tree /\ Store(Removed(tree, d)) /\ documents' = documents
    BY <1>7 DEF RemoveNode
  <2>2. IsTree(Removed(tree, d)) /\ DOMAIN Removed(tree, d) = DOMAIN tree \ {d}
    BY <1>2, <2>1, RemovedIsValid
  <2> QED
    BY <1>2, <2>1, <2>2, StoreKeepsWhole
<1> QED
  BY <1>3, <1>4, <1>5, <1>6, <1>7 DEF Request

(* A schema apply that turns the hierarchy off drops the rows with it.     *)
LEMMA SchemaKeepsWhole ==
  ASSUME TreeInv, SchemaApply
  PROVE  TreeInv'
<1>1. CASE Disable
  <2>1. /\ tree' = EmptyTree /\ closure' = {} /\ version' = 0 /\ enabled' = FALSE
        /\ UNCHANGED <<documents, maxDepth>>
    BY <1>1 DEF Disable
  <2>2. version' \in 0 .. MaxTreeVersion
    BY <2>1, MaxTreeVersionAssumption
  <2> QED
    BY <2>1, <2>2, EmptyIsValid DEF TreeInv
<1>2. CASE Enable
  BY <1>2 DEF Enable, TreeInv
<1>3. ASSUME NEW n \in Limits, Limit(n) PROVE TreeInv'
  BY <1>3 DEF Limit, TreeInv
<1> QED
  BY <1>1, <1>2, <1>3 DEF SchemaApply

(* The steps no editor asked for.                                          *)
LEMMA OthersKeepWhole ==
  ASSUME TreeInv, Others
  PROVE  TreeInv'
<1>1. ASSUME NEW d \in Docs, CreateLast(d) PROVE TreeInv'
  <2>1. Cardinality(Children(tree, Root)) \in Nat
    BY ChildrenFinite DEF TreeInv
  <2> QED
    BY <1>1, <2>1, CreateKeepsWhole DEF CreateLast
<1> QED
  BY <1>1, PurgeKeepsWhole, SchemaKeepsWhole DEF Others

(* The stored nodes are always a valid tree of documents of the collection,*)
(* the closure is the one a rebuild would compute: whoever edits, whatever *)
(* versions they have seen.                                                *)
THEOREM TreeInvHolds == EditorsSpec => []TreeInv
<1>1. EditorsInit => TreeInv
  <2> SUFFICES ASSUME EditorsInit PROVE TreeInv
    OBVIOUS
  <2>1. 0 \in 0 .. MaxTreeVersion
    BY MaxTreeVersionAssumption
  <2> QED
    BY <2>1, EmptyIsValid DEF EditorsInit, TreeInit, TreeInv
<1>2. TreeInv /\ [EditorsNext]_<<treeVars, seen>> => TreeInv'
  <2> SUFFICES ASSUME TreeInv, [EditorsNext]_<<treeVars, seen>> PROVE TreeInv'
    OBVIOUS
  <2>1. ASSUME UNCHANGED treeVars PROVE TreeInv'
    BY <2>1 DEF treeVars, TreeInv
  <2>2. ASSUME NEW c \in Editors, Read(c) PROVE TreeInv'
    BY <2>1, <2>2 DEF Read
  <2>3. ASSUME NEW c \in Editors, Edit(c) PROVE TreeInv'
    BY <2>3, RequestKeepsWhole DEF Edit
  <2>4. ASSUME Others PROVE TreeInv'
    BY <2>4, OthersKeepWhole
  <2>5. CASE UNCHANGED <<treeVars, seen>>
    BY <2>1, <2>5
  <2> QED
    BY <2>2, <2>3, <2>4, <2>5 DEF EditorsNext
<1> QED
  BY <1>1, <1>2, PTL DEF EditorsSpec

(* A valid tree is one that every command can work on.                     *)
LEMMA WholeIsWhole ==
  TreeInv => TreeIsWhole
<1> SUFFICES ASSUME TreeInv PROVE TreeIsWhole
  OBVIOUS
<1>1. IsTree(tree) /\ Valid(tree) /\ closure = ClosureOf(tree)
  BY DEF TreeInv
<1>2. /\ closure \subseteq Docs \X Docs \X Nat
      /\ \A link \in closure : {link[1], link[2]} \subseteq DOMAIN tree
      /\ \A link \in closure : tree[link[1]].depth + link[3] = tree[link[2]].depth
      /\ \A d \in DOMAIN tree : Cardinality({link \in closure : link[2] = d}) = tree[d].depth + 1
      /\ \A link \in closure : link[3] > 0 => <<link[1], tree[link[2]].parent, link[3] - 1>> \in closure
  BY <1>1, ClosureIs
<1>3. TreeTypeOK
  <2>1. DOMAIN tree = {} => closure = {}
    BY <1>2
  <2> QED
    BY <1>2, <2>1 DEF TreeInv, TreeTypeOK, IsTree
<1>4. NoInvariantViolation
  <2>1. Cardinality(Docs) \in Nat
    BY DocsAssumption, FS_CardinalityType
  <2>2. ASSUME NEW d \in Docs, NEW p \in Places(tree), NEW i \in 0 .. Cardinality(Docs)
        PROVE  /\ CanAdd(tree, d, p, i) => Valid(Added(tree, d, p, i))
               /\ CanMove(tree, d, p, i) => Valid(Moved(tree, d, p, i))
    <3>1. i \in Nat
      BY <2>1
    <3> QED
      BY <1>1, <3>1, AddedIsValid, MovedIsValid
  <2>3. \A d \in DOMAIN tree : Valid(Removed(tree, d))
    BY <1>1, RemovedIsValid
  <2> QED
    BY <1>1, <2>2, <2>3 DEF NoInvariantViolation
<1>5. ClosureIsTheTree
  BY <1>2 DEF ClosureIsTheTree
<1> QED
  BY <1>3, <1>4, <1>5 DEF TreeIsWhole

(* The checks assertContentHierarchyInvariants makes of a stored and of a  *)
(* new snapshot never refuse a command, and the closure always has a node's*)
(* whole path to the root.                                                 *)
THEOREM TreeStaysWhole == EditorsSpec => []TreeIsWhole
  BY TreeInvHolds, WholeIsWhole, PTL

-----------------------------------------------------------------------------
(* The refinement: the rows as lists of children.                          *)

(* A list of a set in the order of the sort keys is the one InOrder gives. *)
LEMMA AscendingIsInOrder ==
  ASSUME NEW t, NEW S, NEW n \in Nat, NEW s, Lists(s, S, n), \A x \in S : t[x].sort \in Nat,
         \A i, j \in 1 .. n : i < j => t[s[i]].sort < t[s[j]].sort
  PROVE  InOrder(t, S) = s
<1> DEFINE L(d) == {e \in S : t[e].sort < t[d].sort}
<1>1. /\ s \in [1 .. n -> S] /\ (\A x \in S : \E i \in 1 .. n : s[i] = x)
      /\ \A i, j \in 1 .. n : i # j => s[i] # s[j]
  BY DEF Lists
<1>2. Cardinality(S) = n
  BY ListsAll
<1>3. \A i, j \in 1 .. n : t[s[i]].sort < t[s[j]].sort <=> i < j
  <2> SUFFICES ASSUME NEW i \in 1 .. n, NEW j \in 1 .. n PROVE t[s[i]].sort < t[s[j]].sort <=> i < j
    OBVIOUS
  <2>1. t[s[i]].sort \in Nat /\ t[s[j]].sort \in Nat
    BY <1>1
  <2>2. j < i => t[s[j]].sort < t[s[i]].sort
    OBVIOUS
  <2>3. i < j => t[s[i]].sort < t[s[j]].sort
    OBVIOUS
  <2>4. CASE i = j
    BY <2>1, <2>4
  <2>5. CASE i < j
    BY <2>3, <2>5
  <2>6. CASE j < i
    BY <2>1, <2>2, <2>6
  <2> QED
    BY <2>4, <2>5, <2>6
<1>4. ASSUME NEW i \in 1 .. n PROVE Cardinality(L(s[i])) = i - 1
  <2> DEFINE a == [k \in 1 .. (i - 1) |-> s[k]]
  <2>1. \A k \in 1 .. (i - 1) : k \in 1 .. n /\ a[k] = s[k] /\ s[k] \in L(s[i])
    BY <1>1, <1>3
  <2>2. \A x \in L(s[i]) : \E k \in 1 .. (i - 1) : a[k] = x
    <3> SUFFICES ASSUME NEW x \in L(s[i]) PROVE \E k \in 1 .. (i - 1) : a[k] = x
      OBVIOUS
    <3>1. PICK k \in 1 .. n : s[k] = x
      BY <1>1
    <3>2. t[s[k]].sort < t[s[i]].sort
      BY <3>1
    <3>3. k < i
      BY <1>3, <3>2
    <3> QED
      BY <2>1, <3>1, <3>3
  <2>3. Lists(a, L(s[i]), i - 1)
    <3>1. a \in [1 .. (i - 1) -> L(s[i])]
      BY <2>1
    <3>2. \A k, l \in 1 .. (i - 1) : k # l => a[k] # a[l]
      BY <1>1, <2>1
    <3> HIDE DEF a
    <3> QED
      BY <2>2, <3>1, <3>2 DEF Lists
  <2>4. i - 1 \in Nat
    OBVIOUS
  <2> HIDE DEF a, L
  <2> QED
    BY <2>3, <2>4, ListsAll
<1>5. \A i, j \in 1 .. n : Cardinality(L(s[i])) = j - 1 => i = j
  BY <1>4
<1>6. \A k \in 1 .. n : s[k] = CHOOSE d \in S : Cardinality(L(d)) = k - 1
  <2> SUFFICES ASSUME NEW k \in 1 .. n PROVE s[k] = CHOOSE d \in S : Cardinality(L(d)) = k - 1
    OBVIOUS
  <2>1. s[k] \in S /\ Cardinality(L(s[k])) = k - 1
    BY <1>1, <1>4
  <2>2. ASSUME NEW d \in S, Cardinality(L(d)) = k - 1 PROVE d = s[k]
    <3>1. PICK i \in 1 .. n : s[i] = d
      BY <1>1
    <3> HIDE DEF L
    <3> QED
      BY <1>5, <2>2, <3>1
  <2> HIDE DEF L
  <2> QED
    BY <2>1, <2>2
<1>7. InOrder(t, S) = [k \in 1 .. n |-> CHOOSE d \in S : Cardinality(L(d)) = k - 1]
  BY <1>2 DEF InOrder
<1> HIDE DEF L
<1> QED
  BY <1>1, <1>6, <1>7

(* A list of the children of p that their sort keys number from 0 is the   *)
(* list of them.                                                           *)
LEMMA NumberedIsInOrder ==
  ASSUME NEW t, IsTree(t), NEW p, NEW n \in Nat, NEW s, Lists(s, Children(t, p), n),
         \A i \in 1 .. n : t[s[i]].sort = i - 1
  PROVE  InOrder(t, Children(t, p)) = s
<1>1. \A x \in Children(t, p) : t[x].sort \in Nat
  BY ChildrenFinite, Position
<1>2. \A i, j \in 1 .. n : i < j => t[s[i]].sort < t[s[j]].sort
  OBVIOUS
<1> QED
  BY <1>1, <1>2, AscendingIsInOrder

(* The list of the children of p, numbered from 0.                         *)
LEMMA KidsByKeys ==
  ASSUME NEW t, IsTree(t), NEW p, Dense(t, p),
         NEW s, s = InOrder(t, Children(t, p)), NEW n, n = Cardinality(Children(t, p))
  PROVE  /\ n \in Nat /\ Lists(s, Children(t, p), n) /\ s \in Seq(Docs) /\ Len(s) = n
         /\ DOMAIN s = 1 .. n
         /\ \A i \in 1 .. n : s[i] \in Children(t, p) /\ t[s[i]].sort = i - 1
         /\ \A x \in Children(t, p) : t[x].sort + 1 \in 1 .. n /\ s[t[x].sort + 1] = x
<1> DEFINE C == Children(t, p)
           f == [i \in 1 .. n |-> CHOOSE d \in C : t[d].sort = i - 1]
<1>1. n \in Nat /\ C \subseteq DOMAIN t /\ \A x \in C : t[x].sort \in Nat
  BY ChildrenFinite, Position
<1>2. {t[d].sort : d \in C} = 0 .. (n - 1)
  BY DEF Dense
<1>3. Distinct(t, p)
  BY DenseIsDistinct
<1>4. \A d, e \in C : t[d].sort = t[e].sort => d = e
  BY <1>3 DEF Distinct
<1>5. C \subseteq Docs
  BY <1>1 DEF IsTree
<1> HIDE DEF C
<1>6. \A i \in 1 .. n : f[i] \in C /\ t[f[i]].sort = i - 1
  <2> SUFFICES ASSUME NEW i \in 1 .. n PROVE f[i] \in C /\ t[f[i]].sort = i - 1
    OBVIOUS
  <2>1. i - 1 \in 0 .. (n - 1)
    BY <1>1
  <2>2. \E d \in C : t[d].sort = i - 1
    BY <1>2, <2>1
  <2> QED
    BY <2>2
<1>7. \A x \in C : t[x].sort + 1 \in 1 .. n
  BY <1>1, <1>2
<1>8. f \in [1 .. n -> C]
  BY <1>6
<1> HIDE DEF f
<1>9. \A x \in C : f[t[x].sort + 1] = x
  <2> SUFFICES ASSUME NEW x \in C PROVE f[t[x].sort + 1] = x
    OBVIOUS
  <2>1. t[x].sort + 1 \in 1 .. n /\ (t[x].sort + 1) - 1 = t[x].sort
    BY <1>1, <1>7
  <2>2. f[t[x].sort + 1] \in C /\ t[f[t[x].sort + 1]].sort = t[x].sort
    BY <1>6, <2>1
  <2> QED
    BY <1>4, <2>2
<1>10. Lists(f, C, n)
  <2>1. \A i, j \in 1 .. n : i # j => f[i] # f[j]
    BY <1>6
  <2> QED
    BY <1>7, <1>8, <1>9, <2>1 DEF Lists
<1>11. s = f
  BY <1>1, <1>6, <1>10, NumberedIsInOrder DEF C
<1>12. f \in Seq(Docs) /\ Len(f) = n /\ DOMAIN f = 1 .. n
  BY <1>1, <1>5, <1>8
<1> QED
  BY <1>1, <1>6, <1>7, <1>9, <1>10, <1>11, <1>12 DEF C

(* Nobody: an empty list.                                                  *)
LEMMA NobodyInOrder ==
  ASSUME NEW t
  PROVE  InOrder(t, {}) = << >>
<1>1. Cardinality({}) = 0
  BY FS_EmptySet
<1>2. 1 .. 0 = {}
  OBVIOUS
<1> QED
  BY <1>1, <1>2 DEF InOrder

(* What has the same children with the same sort keys lists them alike.    *)
LEMMA SameKids ==
  ASSUME NEW t, IsTree(t), NEW p, Distinct(t, p), NEW u, Children(u, p) = Children(t, p),
         \A e \in Children(t, p) : u[e].sort = t[e].sort
  PROVE  InOrder(u, Children(u, p)) = InOrder(t, Children(t, p))
<1> DEFINE C == Children(t, p)
           n == Cardinality(C)
           s == InOrder(t, C)
<1>1. C \in SUBSET DOMAIN t /\ (\A x \in C : t[x].sort \in Nat)
  BY ChildrenFinite, Position
<1>2. \A d, e \in C : t[d].sort = t[e].sort => d = e
  BY DEF Distinct
<1> HIDE DEF C
<1>3. Lists(s, C, n) /\ n \in Nat /\ \A i, j \in 1 .. n : i < j <=> t[s[i]].sort < t[s[j]].sort
  BY <1>1, <1>2, InOrderIs
<1> HIDE DEF s, n
<1>4. \A i \in 1 .. n : s[i] \in C
  BY <1>3 DEF Lists
<1>5. \A i, j \in 1 .. n : i < j => u[s[i]].sort < u[s[j]].sort
  BY <1>3, <1>4 DEF C
<1>6. \A x \in C : u[x].sort \in Nat
  BY <1>1 DEF C
<1>7. InOrder(u, C) = s
  BY <1>3, <1>5, <1>6, AscendingIsInOrder
<1> QED
  BY <1>7 DEF s, C

(* What RemoveAt leaves.                                                   *)
LEMMA RemoveAtIs ==
  ASSUME NEW X, NEW s \in Seq(X), NEW j \in 1 .. Len(s)
  PROVE  /\ RemoveAt(s, j) \in Seq(X) /\ Len(RemoveAt(s, j)) = Len(s) - 1
         /\ DOMAIN RemoveAt(s, j) = 1 .. (Len(s) - 1)
         /\ \A n \in 1 .. (Len(s) - 1) : RemoveAt(s, j)[n] = IF n < j THEN s[n] ELSE s[n + 1]
<1> DEFINE a == SubSeq(s, 1, j - 1)
           b == SubSeq(s, j + 1, Len(s))
           N == Len(s)
<1>1. N \in Nat /\ j \in Nat /\ j >= 1 /\ j <= N /\ \A i \in 1 .. N : s[i] \in X
  OBVIOUS
<1>2. a \in Seq(X) /\ Len(a) = j - 1 /\ \A i \in 1 .. (j - 1) : a[i] = s[i]
  <2>1. \A i \in 1 .. (j - 1) : s[i] \in X
    BY <1>1
  <2>2. 1 \in Int /\ j - 1 \in Int
    BY <1>1
  <2>3. /\ a \in Seq(X) /\ Len(a) = IF 1 <= j - 1 THEN (j - 1) - 1 + 1 ELSE 0
        /\ \A i \in 1 .. ((j - 1) - 1 + 1) : a[i] = s[1 + i - 1]
    BY <2>1, <2>2, SubSeqProperties
  <2> HIDE DEF a
  <2> QED
    BY <1>1, <2>3
<1>3. b \in Seq(X) /\ Len(b) = N - j /\ \A i \in 1 .. (N - j) : b[i] = s[j + i]
  <2>1. \A i \in (j + 1) .. N : s[i] \in X
    BY <1>1
  <2>2. j + 1 \in Int /\ N \in Int
    BY <1>1
  <2>3. /\ b \in Seq(X) /\ Len(b) = IF j + 1 <= N THEN N - (j + 1) + 1 ELSE 0
        /\ \A i \in 1 .. (N - (j + 1) + 1) : b[i] = s[(j + 1) + i - 1]
    BY <2>1, <2>2, SubSeqProperties
  <2> HIDE DEF b, N
  <2> QED
    BY <1>1, <2>3
<1>4. RemoveAt(s, j) = a \o b
  BY DEF RemoveAt
<1> HIDE DEF a, b, N
<1>5. /\ a \o b \in Seq(X) /\ Len(a \o b) = Len(a) + Len(b)
      /\ \A i \in 1 .. (Len(a) + Len(b)) : (a \o b)[i] = IF i <= Len(a) THEN a[i] ELSE b[i - Len(a)]
  BY <1>2, <1>3, ConcatProperties
<1> DEFINE r == a \o b
<1> HIDE DEF r
<1>6. r \in Seq(X) /\ Len(r) = N - 1
  BY <1>1, <1>2, <1>3, <1>5 DEF r
<1>7. DOMAIN r = 1 .. (N - 1)
  BY <1>6
<1>8. ASSUME NEW n \in 1 .. (N - 1) PROVE r[n] = IF n < j THEN s[n] ELSE s[n + 1]
  <2>1. r[n] = IF n <= j - 1 THEN a[n] ELSE b[n - (j - 1)]
    BY <1>1, <1>2, <1>3, <1>5 DEF r
  <2>2. CASE n < j
    <3>1. n \in 1 .. (j - 1)
      BY <1>1, <2>2
    <3> QED
      BY <1>2, <2>1, <2>2, <3>1
  <2>3. CASE ~(n < j)
    <3>1. n - (j - 1) \in 1 .. (N - j) /\ j + (n - (j - 1)) = n + 1
      BY <1>1, <2>3
    <3>2. b[n - (j - 1)] = s[n + 1]
      BY <1>3, <3>1
    <3>3. ~(n <= j - 1)
      BY <1>1, <2>3
    <3> QED
      BY <2>1, <2>3, <3>2, <3>3
  <2> QED
    BY <2>2, <2>3
<1> QED
  BY <1>4, <1>6, <1>7, <1>8 DEF r, N

(* What InsertAt makes room for.                                           *)
LEMMA InsertAtIs ==
  ASSUME NEW X, NEW s \in Seq(X), NEW j \in 1 .. (Len(s) + 1), NEW x \in X
  PROVE  /\ InsertAt(s, j, x) \in Seq(X) /\ Len(InsertAt(s, j, x)) = Len(s) + 1
         /\ DOMAIN InsertAt(s, j, x) = 1 .. (Len(s) + 1)
         /\ \A n \in 1 .. (Len(s) + 1) :
              InsertAt(s, j, x)[n] = IF n < j THEN s[n] ELSE IF n = j THEN x ELSE s[n - 1]
<1> DEFINE a == SubSeq(s, 1, j - 1)
           b == SubSeq(s, j, Len(s))
           c == <<x>>
           N == Len(s)
<1>1. N \in Nat /\ j \in Nat /\ j >= 1 /\ j <= N + 1 /\ \A i \in 1 .. N : s[i] \in X
  OBVIOUS
<1>2. a \in Seq(X) /\ Len(a) = j - 1 /\ \A i \in 1 .. (j - 1) : a[i] = s[i]
  <2>1. \A i \in 1 .. (j - 1) : s[i] \in X
    BY <1>1
  <2>2. 1 \in Int /\ j - 1 \in Int
    BY <1>1
  <2>3. /\ a \in Seq(X) /\ Len(a) = IF 1 <= j - 1 THEN (j - 1) - 1 + 1 ELSE 0
        /\ \A i \in 1 .. ((j - 1) - 1 + 1) : a[i] = s[1 + i - 1]
    BY <2>1, <2>2, SubSeqProperties
  <2> HIDE DEF a
  <2> QED
    BY <1>1, <2>3
<1>3. b \in Seq(X) /\ Len(b) = N - j + 1 /\ \A i \in 1 .. (N - j + 1) : b[i] = s[j + i - 1]
  <2>1. \A i \in j .. N : s[i] \in X
    BY <1>1
  <2>2. j \in Int /\ N \in Int
    BY <1>1
  <2>3. /\ b \in Seq(X) /\ Len(b) = IF j <= N THEN N - j + 1 ELSE 0
        /\ \A i \in 1 .. (N - j + 1) : b[i] = s[j + i - 1]
    BY <2>1, <2>2, SubSeqProperties
  <2> HIDE DEF b, N
  <2> QED
    BY <1>1, <2>3
<1>4. c \in Seq(X) /\ Len(c) = 1 /\ c[1] = x
  OBVIOUS
<1>5. InsertAt(s, j, x) = (a \o c) \o b
  BY DEF InsertAt
<1> HIDE DEF a, b, c, N
<1> DEFINE h == a \o c
<1>6. /\ h \in Seq(X) /\ Len(h) = Len(a) + Len(c)
      /\ \A i \in 1 .. (Len(a) + Len(c)) : h[i] = IF i <= Len(a) THEN a[i] ELSE c[i - Len(a)]
  BY <1>2, <1>4, ConcatProperties
<1> HIDE DEF h
<1>7. /\ Len(h) = j
      /\ \A i \in 1 .. j : h[i] = IF i < j THEN s[i] ELSE x
  <2>1. Len(h) = j
    BY <1>1, <1>2, <1>4, <1>6
  <2>2. ASSUME NEW i \in 1 .. j PROVE h[i] = IF i < j THEN s[i] ELSE x
    <3>1. h[i] = IF i <= j - 1 THEN a[i] ELSE c[i - (j - 1)]
      BY <1>1, <1>2, <1>4, <1>6
    <3>2. CASE i < j
      <4>1. i \in 1 .. (j - 1) /\ i <= j - 1
        BY <1>1, <3>2
      <4> QED
        BY <1>2, <3>1, <3>2, <4>1
    <3>3. CASE i = j
      <4>1. i - (j - 1) = 1 /\ ~(i <= j - 1)
        BY <1>1, <3>3
      <4> QED
        BY <1>4, <3>1, <3>3, <4>1
    <3> QED
      BY <1>1, <3>2, <3>3
  <2> QED
    BY <2>1, <2>2
<1> DEFINE r == h \o b
<1>8. /\ r \in Seq(X) /\ Len(r) = Len(h) + Len(b)
      /\ \A i \in 1 .. (Len(h) + Len(b)) : r[i] = IF i <= Len(h) THEN h[i] ELSE b[i - Len(h)]
  BY <1>3, <1>6, ConcatProperties
<1> HIDE DEF r
<1>9. Len(r) = N + 1
  BY <1>1, <1>3, <1>7, <1>8
<1>10. DOMAIN r = 1 .. (N + 1)
  BY <1>8, <1>9
<1>11. ASSUME NEW n \in 1 .. (N + 1)
       PROVE  r[n] = IF n < j THEN s[n] ELSE IF n = j THEN x ELSE s[n - 1]
  <2>1. r[n] = IF n <= j THEN h[n] ELSE b[n - j]
    BY <1>1, <1>3, <1>7, <1>8
  <2>2. CASE n <= j
    <3>1. n \in 1 .. j
      BY <1>1, <2>2
    <3>2. r[n] = IF n < j THEN s[n] ELSE x
      BY <1>7, <2>1, <2>2, <3>1
    <3> QED
      BY <1>1, <2>2, <3>2
  <2>3. CASE ~(n <= j)
    <3>1. n - j \in 1 .. (N - j + 1) /\ j + (n - j) - 1 = n - 1
      BY <1>1, <2>3
    <3>2. b[n - j] = s[n - 1]
      BY <1>3, <3>1
    <3>3. ~(n < j) /\ n # j
      BY <1>1, <2>3
    <3> QED
      BY <2>1, <2>3, <3>2, <3>3
  <2> QED
    BY <2>2, <2>3
<1> QED
  BY <1>5, <1>8, <1>9, <1>10, <1>11 DEF r, h, N

(* v has the n children of p in the order r, numbered from 0.              *)
Renumbers(v, p, r, n) ==
  InOrder(v, Children(v, p)) = r /\ \A i \in 1 .. n : v[r[i]].sort = i - 1

(* Normalizing keeps the order and numbers it from 0.                      *)
LEMMA RenumberedIs ==
  ASSUME NEW u, IsTree(u), NEW p, NEW n \in Nat, NEW r, Lists(r, Children(u, p), n),
         InOrder(u, Children(u, p)) = r, NEW v, v = Normalized(u, p)
  PROVE  Children(v, p) = Children(u, p) /\ Renumbers(v, p, r, n)
<1>1. v = Reordered(u, p, r)
  BY DEF Normalized
<1>2. Cardinality(Children(u, p)) = n
  BY ListsAll
<1>3. Lists(r, Children(u, p), Cardinality(Children(u, p)))
  BY <1>2
<1>4. /\ IsTree(Reordered(u, p, r)) /\ DOMAIN Reordered(u, p, r) = DOMAIN u
      /\ \A e \in DOMAIN u : /\ Reordered(u, p, r)[e].parent = u[e].parent
                             /\ Reordered(u, p, r)[e].depth = u[e].depth
                             /\ u[e].parent # p => Reordered(u, p, r)[e] = u[e]
      /\ \A i \in 1 .. Cardinality(Children(u, p)) : Reordered(u, p, r)[r[i]].sort = i - 1
  BY <1>3, ReorderedIs
<1>5. /\ IsTree(v) /\ DOMAIN v = DOMAIN u
      /\ \A e \in DOMAIN u : v[e].parent = u[e].parent /\ v[e].depth = u[e].depth
  BY <1>1, <1>4
<1>6. \A i \in 1 .. n : v[r[i]].sort = i - 1
  BY <1>1, <1>2, <1>4
<1>7. Children(v, p) = Children(u, p)
  BY <1>5, SamePlaces
<1>8. InOrder(v, Children(v, p)) = r
  BY <1>5, <1>6, <1>7, NumberedIsInOrder
<1> QED
  BY <1>6, <1>7, <1>8 DEF Renumbers

(* Without d its siblings are listed as before, and normalizing numbers    *)
(* those behind it one lower.                                              *)
LEMMA GapKeys ==
  ASSUME NEW t, IsTree(t), NEW d \in DOMAIN t, NEW p, p = t[d].parent, Dense(t, p),
         NEW s, s = InOrder(t, Children(t, p)), NEW j, j = t[d].sort + 1,
         NEW u, IsTree(u), Children(u, p) = Children(t, p) \ {d},
         \A e \in Children(u, p) : u[e].sort = t[e].sort,
         NEW v, v = Normalized(u, p), NEW r, r = RemoveAt(s, j)
  PROVE  /\ j \in 1 .. Len(s) /\ s[j] = d /\ s \in Seq(Docs) /\ r \in Seq(Docs)
         /\ Len(r) = Len(s) - 1
         /\ \A n \in 1 .. (Len(s) - 1) : r[n] = IF n < j THEN s[n] ELSE s[n + 1]
         /\ Children(v, p) = Children(u, p) /\ InOrder(v, Children(v, p)) = r
         /\ Lists(r, Children(u, p), Len(s) - 1)
         /\ \A n \in 1 .. (Len(s) - 1) : v[r[n]].sort = n - 1
<1> DEFINE N == Len(s)
           C == Children(t, p)
           D == Children(u, p)
<1>0. N \in Nat
  <2>1. Len(s) = Cardinality(C) /\ Cardinality(C) \in Nat
    BY KidsByKeys
  <2> QED
    BY <2>1
<1>1. /\ Lists(s, C, N) /\ s \in Seq(Docs)
      /\ \A i \in 1 .. N : s[i] \in C /\ t[s[i]].sort = i - 1
      /\ \A x \in C : t[x].sort + 1 \in 1 .. N /\ s[t[x].sort + 1] = x
  <2>1. Len(s) = Cardinality(C)
    BY KidsByKeys
  <2> QED
    BY <2>1, KidsByKeys
<1>2. d \in C
  BY DEF Children
<1>3. j \in 1 .. N /\ s[j] = d
  BY <1>1, <1>2
<1>4. /\ r \in Seq(Docs) /\ Len(r) = N - 1 /\ DOMAIN r = 1 .. (N - 1)
      /\ \A n \in 1 .. (N - 1) : r[n] = IF n < j THEN s[n] ELSE s[n + 1]
  <2> HIDE DEF C
  <2>1. /\ RemoveAt(s, j) \in Seq(Docs) /\ Len(RemoveAt(s, j)) = Len(s) - 1
        /\ DOMAIN RemoveAt(s, j) = 1 .. (Len(s) - 1)
        /\ \A n \in 1 .. (Len(s) - 1) : RemoveAt(s, j)[n] = IF n < j THEN s[n] ELSE s[n + 1]
    <3>1. ASSUME NEW a \in Seq(Docs), NEW k \in 1 .. Len(a)
          PROVE  /\ RemoveAt(a, k) \in Seq(Docs) /\ Len(RemoveAt(a, k)) = Len(a) - 1
                 /\ DOMAIN RemoveAt(a, k) = 1 .. (Len(a) - 1)
                 /\ \A n \in 1 .. (Len(a) - 1) : RemoveAt(a, k)[n] = IF n < k THEN a[n] ELSE a[n + 1]
      BY <3>1, RemoveAtIs
    <3>2. s \in Seq(Docs) /\ j \in 1 .. Len(s)
      BY <1>1, <1>3
    <3> QED
      BY <3>1, <3>2
  <2> QED
    BY <2>1
<1> HIDE DEF C, N, D
<1>5. D = C \ {d} /\ \A e \in D : u[e].sort = t[e].sort
  BY DEF C, D
<1>6. ASSUME NEW n \in 1 .. (N - 1)
      PROVE  r[n] \in D /\ u[r[n]].sort = IF n < j THEN n - 1 ELSE n
  <2>1. CASE n < j
    <3>1. n \in 1 .. N /\ n # j
      BY <1>0, <1>3, <2>1
    <3>2. r[n] = s[n] /\ s[n] \in C /\ t[s[n]].sort = n - 1
      BY <1>1, <1>4, <2>1, <3>1
    <3>3. s[n] # d
      BY <1>1, <1>3, <3>1 DEF Lists
    <3> QED
      BY <1>5, <2>1, <3>2, <3>3
  <2>2. CASE ~(n < j)
    <3>1. n + 1 \in 1 .. N /\ n + 1 # j /\ (n + 1) - 1 = n
      BY <1>0, <1>3, <2>2
    <3>2. r[n] = s[n + 1] /\ s[n + 1] \in C /\ t[s[n + 1]].sort = n
      BY <1>1, <1>4, <2>2, <3>1
    <3>3. s[n + 1] # d
      BY <1>1, <1>3, <3>1 DEF Lists
    <3> QED
      BY <1>5, <2>2, <3>2, <3>3
  <2> QED
    BY <2>1, <2>2
<1>7. N - 1 \in Nat
  BY <1>0, <1>3
<1>8. ASSUME NEW x \in D PROVE \E n \in 1 .. (N - 1) : r[n] = x
  <2>1. PICK m \in 1 .. N : s[m] = x
    BY <1>1, <1>5 DEF Lists
  <2>2. m # j
    BY <1>3, <1>5, <2>1
  <2>3. CASE m < j
    <3>1. m \in 1 .. (N - 1) /\ r[m] = s[m]
      BY <1>3, <1>4, <2>3, <1>0
    <3> QED
      BY <2>1, <3>1
  <2>4. CASE m > j
    <3>1. m - 1 \in 1 .. (N - 1) /\ ~(m - 1 < j) /\ (m - 1) + 1 = m
      BY <1>0, <1>3, <2>4
    <3>2. r[m - 1] = s[m]
      BY <1>4, <3>1
    <3> QED
      BY <2>1, <3>1, <3>2
  <2> QED
    BY <1>0, <1>3, <2>2, <2>3, <2>4
<1>9. ASSUME NEW m \in 1 .. (N - 1), NEW n \in 1 .. (N - 1), m < n
      PROVE  u[r[m]].sort < u[r[n]].sort
  <2>1. u[r[m]].sort = (IF m < j THEN m - 1 ELSE m) /\ u[r[n]].sort = (IF n < j THEN n - 1 ELSE n)
    BY <1>6
  <2> QED
    BY <1>0, <1>3, <1>9, <2>1
<1>10. Lists(r, D, N - 1)
  <2>1. r \in [1 .. (N - 1) -> D]
    BY <1>4, <1>6
  <2>2. \A m, n \in 1 .. (N - 1) : m # n => r[m] # r[n]
    <3> SUFFICES ASSUME NEW m \in 1 .. (N - 1), NEW n \in 1 .. (N - 1), m # n PROVE r[m] # r[n]
      OBVIOUS
    <3>1. m < n \/ n < m
      BY <1>7
    <3>2. u[r[m]].sort \in Int /\ u[r[n]].sort \in Int
      BY <1>6, <1>7
    <3> QED
      BY <1>9, <3>1, <3>2
  <2> QED
    BY <1>8, <2>1, <2>2 DEF Lists
<1>11. InOrder(u, D) = r
  <2>1. \A x \in D : u[x].sort \in Nat
    BY ChildrenFinite, Position DEF D
  <2> QED
    BY <1>7, <1>9, <1>10, <2>1, AscendingIsInOrder
<1>12. /\ Children(v, p) = D /\ InOrder(v, Children(v, p)) = r
       /\ \A n \in 1 .. (N - 1) : v[r[n]].sort = n - 1
  <2>1. Lists(r, Children(u, p), N - 1) /\ InOrder(u, Children(u, p)) = r
    BY <1>10, <1>11 DEF D
  <2>2. IsTree(u) /\ v = Normalized(u, p)
    OBVIOUS
  <2>3. Children(v, p) = Children(u, p) /\ Renumbers(v, p, r, N - 1)
    BY <1>7, <2>1, <2>2, RenumberedIs
  <2> QED
    BY <2>3 DEF Renumbers, D
<1> QED
  BY <1>1, <1>3, <1>4, <1>10, <1>12 DEF N, D

(* A branch put below p: its root comes in among the children of p, every  *)
(* other list of children is the one it was.                               *)
LEMMA GraftedKids ==
  ASSUME NEW t, IsTree(t), Valid(t), NEW p \in Places(t), NEW i \in Nat,
         i <= Cardinality(Children(t, p)),
         NEW f, NEW d, Branch(f, d, t, p, i),
         NEW r, r = Graft(t, p, i, f)
  PROVE  /\ i + 1 \in 1 .. (Len(InOrder(t, Children(t, p))) + 1)
         /\ InOrder(r, Children(r, p)) = InsertAt(InOrder(t, Children(t, p)), i + 1, d)
         /\ \A q \in Places(t) : q # p => InOrder(r, Children(r, q)) = InOrder(t, Children(t, q))
         /\ \A q \in DOMAIN f : InOrder(r, Children(r, q)) = InOrder(f, Children(f, q))
<1> DEFINE u == Shifted(t, p, i)
           N == Cardinality(Children(t, p))
           s == InOrder(t, Children(t, p))
           a == InsertAt(s, i + 1, d)
<1>1. /\ IsTree(u) /\ DOMAIN u = DOMAIN t
      /\ \A e \in DOMAIN t : /\ u[e].parent = t[e].parent
                             /\ t[e].parent # p => u[e] = t[e]
                             /\ t[e].parent = p => u[e].sort = IF t[e].sort >= i THEN t[e].sort + 1 ELSE t[e].sort
  BY ShiftedIs
<1>2. Shape(t) /\ \A q \in Places(t) : Dense(t, q)
  BY ValidParts
<1>b. /\ IsTree(f) /\ DOMAIN f \cap DOMAIN t = {} /\ d \in DOMAIN f
      /\ f[d].parent = p /\ f[d].sort = i
      /\ \A e \in DOMAIN f \ {d} : f[e].parent \in DOMAIN f
      /\ \A q \in DOMAIN f : Dense(f, q)
  BY DEF Branch
<1>3. DOMAIN r = DOMAIN t \cup DOMAIN f
  BY DEF Graft
<1>4. /\ \A e \in DOMAIN f : r[e] = f[e] /\ e \notin DOMAIN t
      /\ \A e \in DOMAIN t : r[e] = u[e] /\ e \notin DOMAIN f
  BY <1>1, <1>b DEF Graft
<1>5. IsTree(r)
  BY Grafted
<1> HIDE DEF u
<1>6. Root \notin DOMAIN f /\ Root \notin DOMAIN t /\ Places(t) \cap DOMAIN f = {}
  BY <1>b, RootAssumption DEF IsTree, Places
<1>7. \A e \in DOMAIN t : t[e].parent \in Places(t)
  BY <1>2 DEF Shape
<1>8. ASSUME NEW q \in Places(t), q # p
      PROVE  InOrder(r, Children(r, q)) = InOrder(t, Children(t, q))
  <2>1. Children(r, q) = Children(t, q)
    <3>1. ASSUME NEW e \in DOMAIN f PROVE r[e].parent # q
      <4>1. CASE e = d
        BY <1>4, <1>b, <1>8, <4>1
      <4>2. CASE e # d
        <5>1. r[e].parent \in DOMAIN f
          BY <1>4, <1>b, <4>2
        <5> QED
          BY <1>6, <1>8, <5>1
      <4> QED
        BY <4>1, <4>2
    <3>2. \A e \in DOMAIN t : r[e].parent = t[e].parent
      BY <1>1, <1>4
    <3> QED
      BY <1>3, <3>1, <3>2 DEF Children
  <2>2. \A e \in Children(t, q) : r[e].sort = t[e].sort
    BY <1>1, <1>4, <1>8 DEF Children
  <2>3. Distinct(t, q)
    BY <1>2, DenseIsDistinct
  <2> QED
    BY <2>1, <2>2, <2>3, SameKids
<1>9. ASSUME NEW q \in DOMAIN f
      PROVE  InOrder(r, Children(r, q)) = InOrder(f, Children(f, q))
  <2>1. Children(r, q) = Children(f, q)
    <3>1. ASSUME NEW e \in DOMAIN t PROVE r[e].parent # q
      <4>1. r[e].parent \in Places(t)
        BY <1>1, <1>4, <1>7
      <4> QED
        BY <1>6, <1>9, <4>1
    <3> QED
      BY <1>3, <1>4, <3>1 DEF Children
  <2>2. \A e \in Children(f, q) : r[e].sort = f[e].sort
    BY <1>4 DEF Children
  <2>3. Distinct(f, q)
    BY <1>b, DenseIsDistinct
  <2> QED
    BY <1>b, <2>1, <2>2, <2>3, SameKids
<1>10. /\ N \in Nat /\ Lists(s, Children(t, p), N) /\ s \in Seq(Docs) /\ Len(s) = N
       /\ \A k \in 1 .. N : s[k] \in Children(t, p) /\ t[s[k]].sort = k - 1
       /\ \A x \in Children(t, p) : t[x].sort + 1 \in 1 .. N /\ s[t[x].sort + 1] = x
  BY <1>2, KidsByKeys
<1>11. Children(r, p) = Children(t, p) \cup {d} /\ d \notin Children(t, p)
  <2>1. ASSUME NEW e \in DOMAIN f, e # d PROVE r[e].parent # p
    <3>1. r[e].parent \in DOMAIN f
      BY <1>4, <1>b, <2>1
    <3> QED
      BY <1>6, <3>1
  <2>2. r[d].parent = p /\ d \in DOMAIN r /\ d \notin DOMAIN t
    BY <1>3, <1>4, <1>b
  <2>3. \A e \in DOMAIN t : r[e].parent = t[e].parent
    BY <1>1, <1>4
  <2> QED
    BY <1>3, <2>1, <2>2, <2>3 DEF Children
<1> DEFINE C == Children(t, p)
<1>12. \A e \in C : r[e].sort = IF t[e].sort >= i THEN t[e].sort + 1 ELSE t[e].sort
  BY <1>1, <1>4 DEF Children
<1>13. r[d].sort = i
  BY <1>4, <1>b
<1>14. d \in Docs /\ i <= N
  BY <1>b DEF IsTree
<1> HIDE DEF N, s, C
<1>15. /\ DOMAIN a = 1 .. (N + 1)
       /\ \A n \in 1 .. (N + 1) : a[n] = IF n < i + 1 THEN s[n] ELSE IF n = i + 1 THEN d ELSE s[n - 1]
  <2>1. i + 1 \in 1 .. (N + 1)
    BY <1>10, <1>14
  <2>2. s \in Seq(Docs) /\ i + 1 \in 1 .. (Len(s) + 1)
    BY <1>10, <2>1
  <2> DEFINE j == i + 1
  <2>3. j \in 1 .. (Len(s) + 1)
    BY <2>2
  <2> HIDE DEF a, j
  <2>4. /\ DOMAIN InsertAt(s, j, d) = 1 .. (Len(s) + 1)
        /\ \A n \in 1 .. (Len(s) + 1) :
             InsertAt(s, j, d)[n] = IF n < j THEN s[n] ELSE IF n = j THEN d ELSE s[n - 1]
    <3>1. ASSUME NEW b \in Seq(Docs), NEW k \in 1 .. (Len(b) + 1), NEW x \in Docs
          PROVE  /\ DOMAIN InsertAt(b, k, x) = 1 .. (Len(b) + 1)
                 /\ \A n \in 1 .. (Len(b) + 1) :
                      InsertAt(b, k, x)[n] = IF n < k THEN b[n] ELSE IF n = k THEN x ELSE b[n - 1]
      BY <3>1, InsertAtIs
    <3> QED
      BY <1>14, <2>2, <2>3, <3>1
  <2>5. a = InsertAt(s, j, d) /\ Len(s) = N
    BY <1>10 DEF a, j
  <2>6. /\ DOMAIN a = 1 .. (N + 1)
        /\ \A n \in 1 .. (N + 1) : a[n] = IF n < j THEN s[n] ELSE IF n = j THEN d ELSE s[n - 1]
    BY <2>4, <2>5
  <2> QED
    BY <2>6 DEF j
<1> HIDE DEF a
<1>16. /\ \A k \in 1 .. N : s[k] \in C /\ t[s[k]].sort = k - 1
       /\ \A x \in C : t[x].sort + 1 \in 1 .. N /\ s[t[x].sort + 1] = x
       /\ \A j, k \in 1 .. N : j # k => s[j] # s[k]
  BY <1>10 DEF C, Lists
<1>17. ASSUME NEW n \in 1 .. (N + 1) PROVE a[n] \in C \cup {d} /\ r[a[n]].sort = n - 1
  <2>1. CASE n < i + 1
    <3>1. n \in 1 .. N
      BY <1>10, <1>14, <2>1
    <3>2. a[n] = s[n] /\ s[n] \in C /\ t[s[n]].sort = n - 1
      BY <1>15, <1>16, <2>1, <3>1
    <3>3. ~(n - 1 >= i)
      BY <1>10, <2>1
    <3> QED
      BY <1>12, <3>2, <3>3
  <2>2. CASE n = i + 1
    BY <1>13, <1>15, <2>2
  <2>3. CASE n > i + 1
    <3>1. n - 1 \in 1 .. N /\ (n - 1) - 1 >= i /\ ~(n < i + 1) /\ n # i + 1
      BY <1>10, <1>14, <2>3
    <3>2. a[n] = s[n - 1] /\ s[n - 1] \in C /\ t[s[n - 1]].sort = (n - 1) - 1
      BY <1>15, <1>16, <3>1
    <3>3. r[a[n]].sort = ((n - 1) - 1) + 1
      BY <1>12, <3>1, <3>2
    <3> QED
      BY <1>10, <3>2, <3>3
  <2> QED
    BY <1>10, <2>1, <2>2, <2>3
<1>18. ASSUME NEW x \in C \cup {d} PROVE \E n \in 1 .. (N + 1) : a[n] = x
  <2>1. CASE x = d
    <3>1. i + 1 \in 1 .. (N + 1) /\ ~(i + 1 < i + 1)
      BY <1>10, <1>14
    <3> QED
      BY <1>15, <2>1, <3>1
  <2>2. CASE x \in C
    <3>1. PICK k \in 1 .. N : s[k] = x
      BY <1>16, <2>2
    <3>2. CASE k < i + 1
      <4>1. k \in 1 .. (N + 1)
        BY <1>10
      <4> QED
        BY <1>15, <3>1, <3>2, <4>1
    <3>3. CASE ~(k < i + 1)
      <4>1. k + 1 \in 1 .. (N + 1) /\ ~(k + 1 < i + 1) /\ k + 1 # i + 1 /\ (k + 1) - 1 = k
        BY <1>10, <3>3
      <4>2. a[k + 1] = s[k]
        BY <1>15, <4>1
      <4> QED
        BY <3>1, <4>1, <4>2
    <3> QED
      BY <3>2, <3>3
  <2> QED
    BY <2>1, <2>2
<1>19. a = [n \in 1 .. (N + 1) |-> a[n]] /\ N + 1 \in Nat
  <2>1. a \in Seq(Docs) /\ Len(a) = N + 1
    <3>1. i + 1 \in 1 .. (N + 1)
      BY <1>10, <1>14
    <3> QED
      BY <1>10, <1>14, <3>1, InsertAtIs DEF a
  <2> QED
    BY <1>10, <2>1
<1>20. Lists(a, Children(r, p), N + 1)
  <2>1. Children(r, p) = C \cup {d}
    BY <1>11 DEF C
  <2>2. a \in [1 .. (N + 1) -> C \cup {d}]
    BY <1>17, <1>19
  <2>3. \A j, k \in 1 .. (N + 1) : j # k => a[j] # a[k]
    <3> SUFFICES ASSUME NEW j \in 1 .. (N + 1), NEW k \in 1 .. (N + 1), a[j] = a[k] PROVE j = k
      OBVIOUS
    <3>1. j - 1 = k - 1
      BY <1>17
    <3> QED
      BY <1>10, <3>1
  <2> QED
    BY <1>18, <2>1, <2>2, <2>3 DEF Lists
<1>21. InOrder(r, Children(r, p)) = a
  BY <1>5, <1>17, <1>19, <1>20, NumberedIsInOrder
<1>22. i + 1 \in 1 .. (Len(s) + 1)
  BY <1>10, <1>14
<1> QED
  BY <1>8, <1>9, <1>21, <1>22 DEF s, a

(* k has the children of every place, in order.                            *)
KidsOf(k, t) ==
  /\ k = [q \in Docs \cup {Root} |-> k[q]]
  /\ \A q \in Docs \cup {Root} :
       /\ k[q] = InOrder(t, Children(t, q)) /\ k[q] \in Seq(Docs)
       /\ ToSet(k[q]) = Children(t, q) /\ Len(k[q]) = Cardinality(Children(t, q))
       /\ DOMAIN k[q] = 1 .. Len(k[q])
       /\ q \notin Places(t) => k[q] = << >> /\ Children(t, q) = {}

(* What the lists of children say of a tree.                               *)
LEMMA SiblingsIs ==
  ASSUME NEW t, IsTree(t), Valid(t), NEW k, k = Siblings(t)
  PROVE  /\ KidsOf(k, t) /\ Places(t) \subseteq Docs \cup {Root}
         /\ UNION {ToSet(k[q]) : q \in Docs \cup {Root}} = DOMAIN t
<1>1. k = [q \in Docs \cup {Root} |-> InOrder(t, Children(t, q))]
  BY DEF Siblings
<1>2. Shape(t) /\ \A q \in Places(t) : Dense(t, q)
  BY ValidParts
<1>3. \A q : q \notin Places(t) => Children(t, q) = {}
  BY <1>2 DEF Shape, Children
<1>4. ASSUME NEW q \in Docs \cup {Root}
      PROVE  /\ k[q] = InOrder(t, Children(t, q)) /\ k[q] \in Seq(Docs)
             /\ ToSet(k[q]) = Children(t, q) /\ Len(k[q]) = Cardinality(Children(t, q))
             /\ DOMAIN k[q] = 1 .. Len(k[q])
             /\ q \notin Places(t) => k[q] = << >> /\ Children(t, q) = {}
  <2>1. k[q] = InOrder(t, Children(t, q))
    BY <1>1
  <2>2. CASE q \in Places(t)
    <3>1. PICK s, n : s = InOrder(t, Children(t, q)) /\ n = Cardinality(Children(t, q))
      OBVIOUS
    <3>2. Dense(t, q)
      BY <1>2, <2>2
    <3>3. /\ n \in Nat /\ Lists(s, Children(t, q), n) /\ s \in Seq(Docs) /\ Len(s) = n
          /\ DOMAIN s = 1 .. n
      BY <3>1, <3>2, KidsByKeys
    <3>4. ToSet(s) = Children(t, q)
      BY <3>3 DEF ToSet, Lists
    <3> QED
      BY <2>1, <2>2, <3>1, <3>3, <3>4
  <2>3. CASE q \notin Places(t)
    <3>1. Children(t, q) = {}
      BY <1>3, <2>3
    <3>2. k[q] = << >>
      BY <2>1, <3>1, NobodyInOrder
    <3>3. Cardinality(Children(t, q)) = 0
      BY <3>1, FS_EmptySet
    <3>4. ToSet(k[q]) = {}
      BY <3>2 DEF ToSet
    <3>5. << >> \in Seq(Docs) /\ Len(<< >>) = 0 /\ DOMAIN << >> = 1 .. Len(<< >>)
      OBVIOUS
    <3>6. Len(k[q]) = 0 /\ k[q] \in Seq(Docs) /\ DOMAIN k[q] = 1 .. Len(k[q])
      BY <3>2, <3>5
    <3> QED
      BY <2>1, <3>1, <3>2, <3>3, <3>4, <3>6
  <2> QED
    BY <2>2, <2>3
<1>5. UNION {ToSet(k[q]) : q \in Docs \cup {Root}} = DOMAIN t
  <2>1. \A q : \A x \in Children(t, q) : x \in DOMAIN t
    BY DEF Children
  <2>2. \A x \in DOMAIN t : t[x].parent \in Docs \cup {Root} /\ x \in Children(t, t[x].parent)
    BY Position DEF Children
  <2>3. \A q \in Docs \cup {Root} : ToSet(k[q]) = Children(t, q)
    BY <1>4
  <2>4. UNION {ToSet(k[q]) : q \in Docs \cup {Root}} \subseteq DOMAIN t
    BY <2>1, <2>3
  <2>5. ASSUME NEW x \in DOMAIN t PROVE x \in UNION {ToSet(k[q]) : q \in Docs \cup {Root}}
    <3>1. PICK q \in Docs \cup {Root} : x \in Children(t, q)
      BY <2>2
    <3> QED
      BY <2>3, <3>1
  <2> QED
    BY <2>4, <2>5
<1>6. Places(t) \subseteq Docs \cup {Root}
  BY DEF Places, IsTree
<1>7. k = [q \in Docs \cup {Root} |-> k[q]]
  BY <1>1
<1> QED
  BY <1>4, <1>5, <1>6, <1>7 DEF KidsOf

(* Adding a node puts it into the list of its parent's children.           *)
LEMMA AddedKids ==
  ASSUME NEW t, IsTree(t), Valid(t), NEW d \in Docs, NEW p, NEW i \in Nat, CanAdd(t, d, p, i),
         NEW k, k = Siblings(t)
  PROVE  /\ p \in DOMAIN t \cup {Root} /\ i + 1 \in 1 .. (Len(k[p]) + 1) /\ d \notin DOMAIN t
         /\ Siblings(Added(t, d, p, i)) = [k EXCEPT ![p] = InsertAt(@, i + 1, d)]
<1>1. PICK f : Branch(f, d, t, p, i) /\ DOMAIN f = {d} /\ Added(t, d, p, i) = Graft(t, p, i, f)
  BY AddedIsGraft
<1>2. p \in Places(t) /\ i <= Cardinality(Children(t, p)) /\ d \notin DOMAIN t
  BY DEF CanAdd
<1> DEFINE r == Added(t, d, p, i)
<1>3. IsTree(r) /\ Valid(r) /\ DOMAIN r = DOMAIN t \cup {d}
  BY AddedIsValid
<1>4. /\ i + 1 \in 1 .. (Len(InOrder(t, Children(t, p))) + 1)
      /\ InOrder(r, Children(r, p)) = InsertAt(InOrder(t, Children(t, p)), i + 1, d)
      /\ \A q \in Places(t) : q # p => InOrder(r, Children(r, q)) = InOrder(t, Children(t, q))
      /\ \A q \in DOMAIN f : InOrder(r, Children(r, q)) = InOrder(f, Children(f, q))
  <2>1. r = Graft(t, p, i, f)
    BY <1>1
  <2> HIDE DEF r
  <2> QED
    BY <1>1, <1>2, <2>1, GraftedKids
<1>5. InOrder(f, Children(f, d)) = << >>
  <2>1. f[d].parent = p /\ p # d
    BY <1>1, <1>2, RootAssumption DEF Branch, Places
  <2>2. Children(f, d) = {}
    BY <1>1, <2>1 DEF Children
  <2> QED
    BY <2>2, NobodyInOrder
<1> HIDE DEF r
<1>6. Places(r) = Places(t) \cup {d}
  BY <1>3 DEF Places
<1> DEFINE K == Siblings(r)
<1>k. KidsOf(K, r) /\ KidsOf(k, t) /\ Places(t) \subseteq Docs \cup {Root}
  BY <1>3, SiblingsIs
<1> HIDE DEF K
<1>7. /\ K = [q \in Docs \cup {Root} |-> K[q]]
      /\ \A q \in Docs \cup {Root} : /\ K[q] = InOrder(r, Children(r, q))
                                     /\ q \notin Places(r) => K[q] = << >>
  BY <1>k DEF KidsOf
<1>8. /\ k = [q \in Docs \cup {Root} |-> k[q]]
      /\ \A q \in Docs \cup {Root} : /\ k[q] = InOrder(t, Children(t, q))
                                     /\ q \notin Places(t) => k[q] = << >>
      /\ Places(t) \subseteq Docs \cup {Root}
  BY <1>k DEF KidsOf
<1>9. p \in Docs \cup {Root} /\ p # d /\ d \notin Places(t)
  BY <1>2, <1>8, RootAssumption DEF Places
<1>10. K[p] = InsertAt(k[p], i + 1, d)
  BY <1>4, <1>7, <1>8, <1>9
<1>11. ASSUME NEW q \in Docs \cup {Root}, q # p PROVE K[q] = k[q]
  <2>1. CASE q \in Places(t)
    <3>1. InOrder(r, Children(r, q)) = InOrder(t, Children(t, q))
      BY <1>4, <1>11, <2>1
    <3>2. K[q] = InOrder(r, Children(r, q)) /\ k[q] = InOrder(t, Children(t, q))
      BY <1>7, <1>8
    <3> QED
      BY <3>1, <3>2
  <2>2. CASE q = d
    BY <1>1, <1>4, <1>5, <1>7, <1>8, <1>9, <2>2
  <2>3. CASE q \notin Places(t) /\ q # d
    BY <1>6, <1>7, <1>8, <2>3
  <2> QED
    BY <2>1, <2>2, <2>3
<1> DEFINE a == InsertAt(k[p], i + 1, d)
<1>12. K = [k EXCEPT ![p] = a]
  <2>1. K[p] = a
    BY <1>10
  <2> HIDE DEF a
  <2> QED
    BY <1>7, <1>8, <1>9, <1>11, <2>1
<1> QED
  BY <1>2, <1>4, <1>8, <1>9, <1>12 DEF Places, K, r

(* Reordering the children of p changes their list and no other.           *)
LEMMA ReorderedKids ==
  ASSUME NEW t, IsTree(t), Valid(t), NEW p \in Places(t), NEW s \in SetToSeqs(Children(t, p)),
         NEW r, r = Reordered(t, p, s), Valid(r), NEW k, k = Siblings(t)
  PROVE  Siblings(r) = [k EXCEPT ![p] = s]
<1> DEFINE n == Cardinality(Children(t, p))
<1>1. n \in Nat /\ Lists(s, Children(t, p), n)
  BY ChildrenFinite, OrdersAreLists
<1> HIDE DEF n
<1>2. /\ IsTree(r) /\ DOMAIN r = DOMAIN t
      /\ \A d \in DOMAIN t : /\ r[d].parent = t[d].parent /\ r[d].depth = t[d].depth
                             /\ t[d].parent # p => r[d] = t[d]
      /\ \A i \in 1 .. n : r[s[i]].sort = i - 1
  <2>1. Lists(s, Children(t, p), Cardinality(Children(t, p)))
    BY <1>1 DEF n
  <2>2. /\ IsTree(Reordered(t, p, s)) /\ DOMAIN Reordered(t, p, s) = DOMAIN t
        /\ \A d \in DOMAIN t : /\ Reordered(t, p, s)[d].parent = t[d].parent
                               /\ Reordered(t, p, s)[d].depth = t[d].depth
                               /\ t[d].parent # p => Reordered(t, p, s)[d] = t[d]
        /\ \A i \in 1 .. Cardinality(Children(t, p)) : Reordered(t, p, s)[s[i]].sort = i - 1
    BY <2>1, ReorderedIs
  <2> QED
    BY <2>2 DEF n
<1>3. Places(r) = Places(t) /\ \A q : Children(r, q) = Children(t, q)
  <2>1. DOMAIN r = DOMAIN t /\ \A d \in DOMAIN t : r[d].parent = t[d].parent /\ r[d].depth = t[d].depth
    BY <1>2
  <2>2. PICK u : u = r
    OBVIOUS
  <2>3. Places(u) = Places(t) /\ \A q : Children(u, q) = Children(t, q)
    BY <2>1, <2>2, SamePlaces
  <2> QED
    BY <2>2, <2>3
<1>4. InOrder(r, Children(r, p)) = s
  <2>1. Lists(s, Children(r, p), n)
    BY <1>1, <1>3
  <2> QED
    BY <1>1, <1>2, <2>1, NumberedIsInOrder
<1>5. ASSUME NEW q \in Places(t), q # p PROVE InOrder(r, Children(r, q)) = InOrder(t, Children(t, q))
  <2>1. Distinct(t, q)
    BY ValidParts, DenseIsDistinct
  <2>2. \A e \in Children(t, q) : r[e].sort = t[e].sort
    BY <1>2, <1>5 DEF Children
  <2> QED
    BY <1>3, <2>1, <2>2, SameKids
<1> DEFINE K == Siblings(r)
<1>6. KidsOf(K, r) /\ KidsOf(k, t) /\ Places(t) \subseteq Docs \cup {Root}
  BY <1>2, SiblingsIs
<1> HIDE DEF K
<1>7. /\ K = [q \in Docs \cup {Root} |-> K[q]]
      /\ \A q \in Docs \cup {Root} : /\ K[q] = InOrder(r, Children(r, q))
                                     /\ q \notin Places(r) => K[q] = << >>
  BY <1>6 DEF KidsOf
<1>8. /\ k = [q \in Docs \cup {Root} |-> k[q]]
      /\ \A q \in Docs \cup {Root} : /\ k[q] = InOrder(t, Children(t, q))
                                     /\ q \notin Places(t) => k[q] = << >>
  BY <1>6 DEF KidsOf
<1>9. p \in Docs \cup {Root}
  BY <1>6
<1>10. K[p] = s
  BY <1>4, <1>7, <1>9
<1>11. ASSUME NEW q \in Docs \cup {Root}, q # p PROVE K[q] = k[q]
  <2>1. K[q] = InOrder(r, Children(r, q)) /\ k[q] = InOrder(t, Children(t, q))
    BY <1>7, <1>8
  <2>2. CASE q \in Places(t)
    BY <1>5, <1>11, <2>1, <2>2
  <2>3. CASE q \notin Places(t)
    BY <1>3, <1>7, <1>8, <2>3
  <2> QED
    BY <2>2, <2>3
<1>12. K = [k EXCEPT ![p] = s]
  BY <1>7, <1>8, <1>9, <1>10, <1>11
<1> QED
  BY <1>12 DEF K

(* What is left when the branch of d is taken out: d is missing in one list*)
(* of children, and its branch is gone.                                    *)
LEMMA UprootedKids ==
  ASSUME NEW t, IsTree(t), Valid(t), NEW d \in DOMAIN t, NEW f, NEW v, NEW p, NEW i,
         Uprooted(f, v, t, d, p, i)
  PROVE  /\ Places(t) = Places(v) \cup Subtree(t, d) /\ Places(v) \cap Subtree(t, d) = {}
         /\ t[d].parent \in Places(v) /\ Subtree(t, d) \subseteq DOMAIN t
         /\ t[d].sort + 1 \in 1 .. Len(InOrder(t, Children(t, t[d].parent)))
         /\ InOrder(t, Children(t, t[d].parent))[t[d].sort + 1] = d
         /\ InOrder(v, Children(v, t[d].parent)) = RemoveAt(InOrder(t, Children(t, t[d].parent)), t[d].sort + 1)
         /\ \A x \in Places(v) : x # t[d].parent =>
              InOrder(v, Children(v, x)) = InOrder(t, Children(t, x))
<1> DEFINE S == Subtree(t, d)
           q == t[d].parent
           u == Restrict(t, DOMAIN t \ S)
<1>1. Shape(t) /\ \A x \in Places(t) : Dense(t, x)
  BY ValidParts
<1>2. S \subseteq DOMAIN t /\ d \in S /\ q \notin S
  BY <1>1, SubtreeIs
<1>3. v = Normalized(u, q)
  BY DEF Uprooted
<1>4. /\ IsTree(u) /\ DOMAIN u = DOMAIN t \ S /\ (\A e \in DOMAIN u : u[e] = t[e])
      /\ Shape(u) /\ q \in Places(u) /\ Distinct(u, q)
      /\ \A x \in Places(u) : Children(u, x) = Children(t, x) \ {d} /\ (x # q => Dense(u, x))
  <2>1. /\ IsTree(u) /\ DOMAIN u = DOMAIN t \ Subtree(t, d) /\ (\A e \in DOMAIN u : u[e] = t[e])
        /\ Shape(u) /\ t[d].parent \in Places(u) /\ Distinct(u, t[d].parent)
        /\ \A x \in Places(u) : /\ Children(u, x) = Children(t, x) \ {d}
                                /\ x # t[d].parent => Dense(u, x)
                                /\ DepthBelow(u, x) = DepthBelow(t, x)
    BY PrunedIs
  <2> HIDE DEF u
  <2> QED
    BY <2>1
<1>5. v = Normalized(u, q)
  BY <1>3
<1> HIDE DEF S, q, u
<1>6. /\ DOMAIN v = DOMAIN u /\ Places(v) = Places(u) /\ (\A x : Children(v, x) = Children(u, x))
      /\ \A e \in DOMAIN u : u[e].parent # q => v[e] = u[e]
  BY <1>4, <1>5, GapCloses
<1>7. Places(t) = Places(v) \cup S /\ Places(v) \cap S = {}
  <2>1. Root \notin DOMAIN t
    BY RootAssumption DEF IsTree
  <2>2. Places(v) = Places(t) \ S
    BY <1>2, <1>4, <1>6, <2>1 DEF Places
  <2> QED
    BY <1>2, <2>1, <2>2 DEF Places
<1>8. ASSUME NEW s, s = InOrder(t, Children(t, q)), NEW j, j = t[d].sort + 1
      PROVE  j \in 1 .. Len(s) /\ s[j] = d /\ InOrder(v, Children(v, q)) = RemoveAt(s, j)
  <2>1. Dense(t, q) /\ Children(u, q) = Children(t, q) \ {d} /\ q = t[d].parent
    BY <1>1, <1>4, <1>6, <1>7 DEF q
  <2>2. \A e \in Children(u, q) : u[e].sort = t[e].sort
    BY <1>4 DEF Children
  <2>3. PICK a : a = RemoveAt(s, j)
    OBVIOUS
  <2>4. j \in 1 .. Len(s) /\ s[j] = d /\ InOrder(v, Children(v, q)) = a
    BY <1>4, <1>5, <1>8, <2>1, <2>2, <2>3, GapKeys
  <2> QED
    BY <2>3, <2>4
<1>9. ASSUME NEW x \in Places(v), x # q
      PROVE  InOrder(v, Children(v, x)) = InOrder(t, Children(t, x))
  <2>1. Children(v, x) = Children(t, x)
    BY <1>4, <1>6, <1>9 DEF Children, q
  <2>2. \A e \in Children(t, x) : v[e].sort = t[e].sort
    <3> SUFFICES ASSUME NEW e \in Children(t, x) PROVE v[e].sort = t[e].sort
      OBVIOUS
    <3>1. e \in DOMAIN u
      BY <1>6, <2>1 DEF Children
    <3>2. u[e] = t[e] /\ t[e].parent = x
      BY <1>4, <3>1 DEF Children
    <3> QED
      BY <1>6, <1>9, <3>1, <3>2
  <2>3. Distinct(t, x)
    BY <1>1, <1>7, <1>9, DenseIsDistinct
  <2> QED
    BY <2>1, <2>2, <2>3, SameKids
<1> QED
  BY <1>2, <1>4, <1>6, <1>7, <1>8, <1>9 DEF S, q

(* d goes from the place j of one list of children to the place i of p's.  *)
MovesOne(k, K, d, q, j, p, i) ==
  /\ q \in Docs \cup {Root} /\ j \in DOMAIN k[q] /\ k[q][j] = d
  /\ LET rest == [k EXCEPT ![q] = RemoveAt(@, j)]
     IN i \in 1 .. (Len(rest[p]) + 1) /\ K = [rest EXCEPT ![p] = InsertAt(@, i, d)]

(* A moved node goes from one list of children into another, or to another *)
(* place of the same one; what is below it keeps its lists.                *)
LEMMA MovedKids ==
  ASSUME NEW t, IsTree(t), Valid(t), NEW d, NEW p, NEW i \in Nat, CanMove(t, d, p, i)
  PROVE  MovesOne(Siblings(t), Siblings(Moved(t, d, p, i)), d, t[d].parent, t[d].sort + 1, p, i + 1)
<1> DEFINE S == Subtree(t, d)
           q == t[d].parent
           j == t[d].sort + 1
           k == Siblings(t)
           rest == [k EXCEPT ![q] = RemoveAt(@, j)]
           s == InOrder(t, Children(t, q))
           r == Moved(t, d, p, i)
           K == Siblings(r)
<1>1. PICK f, v : Uprooted(f, v, t, d, p, i) /\ r = Graft(v, p, i, f)
  BY MovedIsGraft
<1>2. IsTree(r) /\ Valid(r) /\ DOMAIN r = DOMAIN t
  BY MovedIsValid
<1>3. d \in DOMAIN t /\ p \in Places(t) \ S
  BY DEF CanMove
<1>4. Shape(t) /\ \A x \in Places(t) : Dense(t, x)
  BY ValidParts
<1>5. /\ v = Normalized(Restrict(t, DOMAIN t \ S), t[d].parent)
      /\ IsTree(v) /\ Valid(v) /\ p \in Places(v) /\ i <= Cardinality(Children(v, p))
      /\ Branch(f, d, v, p, i) /\ DOMAIN f = S
      /\ \A x \in S : Children(f, x) = Children(t, x) /\ \A e \in Children(t, x) : f[e].sort = t[e].sort
  BY <1>1 DEF Uprooted
<1>6. /\ Places(t) = Places(v) \cup S /\ Places(v) \cap S = {} /\ q \in Places(v) /\ S \subseteq DOMAIN t
      /\ j \in 1 .. Len(s) /\ s[j] = d /\ InOrder(v, Children(v, q)) = RemoveAt(s, j)
      /\ \A x \in Places(v) : x # q => InOrder(v, Children(v, x)) = InOrder(t, Children(t, x))
  BY <1>1, <1>3, UprootedKids
<1>7. Places(r) = Places(t)
  BY <1>2 DEF Places
<1>8. KidsOf(K, r) /\ KidsOf(k, t) /\ Places(t) \subseteq Docs \cup {Root}
  <2>1. \A x : IsTree(x) /\ Valid(x) => KidsOf(Siblings(x), x) /\ Places(x) \subseteq Docs \cup {Root}
    BY SiblingsIs
  <2> HIDE DEF r
  <2> QED
    BY <1>2, <2>1
<1> HIDE DEF S, q, j, s, k, r, K
<1>9. /\ i + 1 \in 1 .. (Len(InOrder(v, Children(v, p))) + 1)
      /\ InOrder(r, Children(r, p)) = InsertAt(InOrder(v, Children(v, p)), i + 1, d)
      /\ \A x \in Places(v) : x # p => InOrder(r, Children(r, x)) = InOrder(v, Children(v, x))
      /\ \A x \in DOMAIN f : InOrder(r, Children(r, x)) = InOrder(f, Children(f, x))
  <2>1. /\ IsTree(v) /\ Valid(v) /\ p \in Places(v) /\ i <= Cardinality(Children(v, p))
        /\ Branch(f, d, v, p, i) /\ r = Graft(v, p, i, f)
    BY <1>1, <1>5
  <2> QED
    BY <2>1, GraftedKids
<1>10. ASSUME NEW x \in S PROVE InOrder(r, Children(r, x)) = InOrder(t, Children(t, x))
  <2>1. InOrder(r, Children(r, x)) = InOrder(f, Children(f, x))
    <3>1. DOMAIN f = S
      BY <1>5
    <3>2. \A y \in DOMAIN f : InOrder(r, Children(r, y)) = InOrder(f, Children(f, y))
      BY <1>9
    <3> QED
      BY <1>10, <3>1, <3>2
  <2>2. Distinct(t, x)
    BY <1>4, <1>6, <1>7, <1>10, DenseIsDistinct
  <2>3. InOrder(f, Children(f, x)) = InOrder(t, Children(t, x))
    BY <1>5, <1>10, <2>2, SameKids
  <2> QED
    BY <2>1, <2>3
<1>11. /\ K = [x \in Docs \cup {Root} |-> K[x]]
       /\ \A x \in Docs \cup {Root} : /\ K[x] = InOrder(r, Children(r, x))
                                      /\ x \notin Places(r) => K[x] = << >>
  BY <1>8 DEF KidsOf
<1>12. /\ k = [x \in Docs \cup {Root} |-> k[x]]
       /\ \A x \in Docs \cup {Root} : /\ k[x] = InOrder(t, Children(t, x))
                                      /\ DOMAIN k[x] = 1 .. Len(k[x])
                                      /\ x \notin Places(t) => k[x] = << >>
  BY <1>8 DEF KidsOf
<1>13. q \in Docs \cup {Root} /\ p \in Docs \cup {Root} /\ p \in Places(v) /\ q \in Places(v)
  BY <1>5, <1>6, <1>7, <1>8
<1> DEFINE a == RemoveAt(k[q], j)
<1>14. /\ rest = [x \in Docs \cup {Root} |-> rest[x]]
       /\ rest[q] = a
       /\ \A x \in Docs \cup {Root} : x # q => rest[x] = k[x]
  <2> HIDE DEF a
  <2>1. rest = [k EXCEPT ![q] = a]
    BY DEF a
  <2>2. DOMAIN k = Docs \cup {Root} /\ q \in DOMAIN k
    BY <1>12, <1>13
  <2> HIDE DEF rest
  <2> QED
    BY <2>1, <2>2
<1>15. a = InOrder(v, Children(v, q))
  <2>1. k[q] = s
    BY <1>12, <1>13 DEF s
  <2> QED
    BY <1>6, <2>1
<1> HIDE DEF a, rest
<1>16. ASSUME NEW x \in Places(v) PROVE rest[x] = InOrder(v, Children(v, x))
  <2>1. x \in Docs \cup {Root}
    BY <1>6, <1>7, <1>8
  <2>2. CASE x = q
    BY <1>14, <1>15, <2>2
  <2>3. CASE x # q
    <3>1. rest[x] = k[x] /\ k[x] = InOrder(t, Children(t, x))
      BY <1>12, <1>14, <2>1, <2>3
    <3> QED
      BY <1>6, <2>3, <3>1
  <2> QED
    BY <2>2, <2>3
<1> DEFINE b == InsertAt(rest[p], i + 1, d)
<1>17. K[p] = b /\ i + 1 \in 1 .. (Len(rest[p]) + 1)
  <2>1. rest[p] = InOrder(v, Children(v, p)) /\ K[p] = InOrder(r, Children(r, p))
    BY <1>11, <1>13, <1>16
  <2> QED
    BY <1>9, <2>1
<1> HIDE DEF b
<1>18. ASSUME NEW x \in Docs \cup {Root}, x # p PROVE K[x] = rest[x]
  <2>0. K[x] = InOrder(r, Children(r, x)) /\ k[x] = InOrder(t, Children(t, x))
    BY <1>11, <1>12
  <2>1. CASE x \in Places(v)
    <3>1. InOrder(r, Children(r, x)) = InOrder(v, Children(v, x))
      BY <1>9, <1>18, <2>1
    <3> QED
      BY <1>16, <2>0, <2>1, <3>1
  <2>2. CASE x \in S
    <3>1. x # q
      BY <1>6, <2>2
    <3> QED
      BY <1>10, <1>14, <2>0, <2>2, <3>1
  <2>3. CASE x \notin Places(v) /\ x \notin S
    <3>1. x \notin Places(t) /\ x \notin Places(r) /\ x # q
      BY <1>6, <1>7, <1>13, <2>3
    <3> QED
      BY <1>11, <1>12, <1>14, <3>1
  <2> QED
    BY <2>1, <2>2, <2>3
<1>19. K = [rest EXCEPT ![p] = b]
  BY <1>11, <1>13, <1>14, <1>17, <1>18
<1>20. j \in DOMAIN k[q] /\ k[q][j] = d
  <2>1. k[q] = s /\ DOMAIN k[q] = 1 .. Len(k[q])
    BY <1>12, <1>13 DEF s
  <2> QED
    BY <1>6, <2>1
<1> QED
  BY <1>13, <1>17, <1>19, <1>20 DEF MovesOne, b, K, r, rest, q, j, k

(* The list m in the place j of the list l.                                *)
InPlace(l, m, j) == SubSeq(l, 1, j - 1) \o m \o SubSeq(l, j + 1, Len(l))

(* Its siblings come before and after the children of a removed node as    *)
(* they came before and after the node.                                    *)
LEMMA SplicedKids ==
  ASSUME NEW t, IsTree(t), Valid(t), NEW d \in DOMAIN t, NEW s, NEW rest, NEW r, Spliced(s, t, d, rest, r),
         NEW L, L = InOrder(t, Children(t, t[d].parent)), NEW j, j = t[d].sort + 1
  PROVE  /\ j \in 1 .. Len(L) /\ L[j] = d
         /\ s = InPlace(L, InOrder(t, Children(t, d)), j)
<1> DEFINE p == t[d].parent
           u == Restrict(t, DOMAIN t \ {d})
           C == Children(rest, p)
           before == {e \in C : rest[e].sort < t[d].sort}
           after == C \ before
           N == Len(L)
           x == RemoveAt(L, j)
<1>1. /\ rest = Normalized(u, p)
      /\ s = InOrder(rest, before) \o InOrder(t, Children(t, d)) \o InOrder(rest, after)
      /\ IsTree(rest)
  BY DEF Spliced, LiftedWell
<1>2. Shape(t) /\ Dense(t, p) /\ p # d
  <2>1. Shape(t) /\ \A q \in Places(t) : Dense(t, q)
    BY ValidParts
  <2>2. p \in Places(t)
    BY <2>1 DEF Shape
  <2> QED
    BY <2>1, <2>2, SubtreeIs
<1>3. DOMAIN u = DOMAIN t \ {d} /\ (\A e \in DOMAIN u : u[e] = t[e]) /\ u = [e \in DOMAIN u |-> u[e]]
  BY DEF Restrict
<1>4. t[d].sort \in Nat /\ j - 1 = t[d].sort
  BY Position
<1> HIDE DEF u, x, before, after, C
<1>5. IsTree(u)
  <2>1. IsFiniteSet(DOMAIN u)
    BY <1>3, FS_RemoveElement DEF IsTree
  <2> QED
    BY <1>3, <2>1, Position DEF IsTree
<1>6. Children(u, p) = Children(t, p) \ {d} /\ \A e \in Children(u, p) : u[e].sort = t[e].sort
  BY <1>3 DEF Children
<1> HIDE DEF p
<1>7. /\ j \in 1 .. N /\ L[j] = d /\ L \in Seq(Docs) /\ x \in Seq(Docs) /\ Len(x) = N - 1
      /\ \A n \in 1 .. (N - 1) : x[n] = IF n < j THEN L[n] ELSE L[n + 1]
      /\ C = Children(u, p)
      /\ Lists(x, Children(u, p), N - 1)
      /\ \A n \in 1 .. (N - 1) : rest[x[n]].sort = n - 1
  <2>0. x = RemoveAt(L, j) /\ p = t[d].parent /\ L = InOrder(t, Children(t, p)) /\ Dense(t, p)
    BY <1>2 DEF x, p
  <2>1. rest = Normalized(u, p)
    BY <1>1 DEF u, p
  <2> HIDE DEF N
  <2>2. Dense(t, p) /\ Children(u, p) = Children(t, p) \ {d} /\ p = t[d].parent
    BY <1>6, <2>0
  <2>a. PICK y : y = RemoveAt(L, j)
    OBVIOUS
  <2>b. \A e \in Children(u, p) : u[e].sort = t[e].sort
    BY <1>6
  <2>c. j \in 1 .. Len(L) /\ L[j] = d /\ L \in Seq(Docs) /\ y \in Seq(Docs)
    BY <1>5, <2>0, <2>1, <2>2, <2>a, <2>b, GapKeys
  <2>d. Len(y) = Len(L) - 1
    BY <1>5, <2>0, <2>1, <2>2, <2>a, <2>b, GapKeys
  <2>g. \A n \in 1 .. (Len(L) - 1) : y[n] = IF n < j THEN L[n] ELSE L[n + 1]
    <3>1. ASSUME NEW a \in Seq(Docs), NEW k \in 1 .. Len(a)
          PROVE  \A n \in 1 .. (Len(a) - 1) : RemoveAt(a, k)[n] = IF n < k THEN a[n] ELSE a[n + 1]
      BY <3>1, RemoveAtIs
    <3>2. L \in Seq(Docs) /\ j \in 1 .. Len(L)
      BY <2>c
    <3>3. \A n \in 1 .. (Len(L) - 1) : RemoveAt(L, j)[n] = IF n < j THEN L[n] ELSE L[n + 1]
      BY <3>1, <3>2
    <3> QED
      BY <2>a, <3>3
  <2>h. Children(rest, p) = Children(u, p) /\ InOrder(rest, Children(rest, p)) = y
    BY <1>5, <2>0, <2>1, <2>2, <2>a, <2>b, GapKeys
  <2>i. Lists(y, Children(u, p), Len(L) - 1)
    <3>1. /\ Children(rest, p) \in SUBSET DOMAIN rest
          /\ \A e, z \in Children(rest, p) : rest[e].sort = rest[z].sort => e = z
      BY <2>2 DEF Spliced, LiftedWell, Distinct, Children
    <3>2. Lists(InOrder(rest, Children(rest, p)), Children(rest, p), Cardinality(Children(rest, p)))
      BY <1>1, <3>1, InOrderIs
    <3>3. Lists(y, Children(u, p), Cardinality(Children(u, p)))
      BY <2>h, <3>2
    <3>4. Cardinality(Children(u, p)) = Len(y)
      <4>1. Cardinality(Children(u, p)) \in Nat
        BY <1>5, ChildrenFinite
      <4>2. DOMAIN y = 1 .. Cardinality(Children(u, p))
        BY <3>3 DEF Lists
      <4>3. y \in Seq(Docs)
        BY <2>c
      <4> QED
        BY <4>1, <4>2, <4>3
    <3> QED
      BY <2>d, <3>3, <3>4
  <2>k. \A n \in 1 .. (Len(L) - 1) : rest[y[n]].sort = n - 1
    <3>1. SUFFICES ASSUME NEW n \in 1 .. (Len(L) - 1) PROVE rest[y[n]].sort = n - 1
      OBVIOUS
    <3> QED
      BY <1>5, <2>0, <2>1, <2>2, <2>a, <2>b, GapKeys
  <2>f. x = y
    BY <2>0, <2>a
  <2>3. C = Children(u, p)
    BY <2>h DEF C
  <2> USE DEF N
  <2> QED
    BY <2>c, <2>d, <2>f, <2>g, <2>h, <2>i, <2>k, <2>3
<1>8. N \in Nat /\ j \in Nat /\ 1 <= j /\ j <= N
  BY <1>7
<1> HIDE DEF N
<1>9. /\ Lists(x, C, N - 1) /\ \A n \in 1 .. (N - 1) : x[n] \in C
  BY <1>7 DEF Lists
<1>10. \A e \in C : rest[e].sort \in Nat
  BY <1>1, ChildrenFinite, Position DEF C
<1> DEFINE a == SubSeq(L, 1, j - 1)
           b == SubSeq(L, j + 1, N)
<1>11. \A i \in 1 .. N : L[i] \in Docs
  BY <1>7 DEF N
<1>12. a \in Seq(Docs) /\ Len(a) = j - 1 /\ \A i \in 1 .. (j - 1) : a[i] = L[i]
  <2>1. \A i \in 1 .. (j - 1) : L[i] \in Docs
    BY <1>7, <1>8, <1>11
  <2>2. 1 \in Int /\ j - 1 \in Int
    BY <1>7
  <2>3. /\ a \in Seq(Docs) /\ Len(a) = IF 1 <= j - 1 THEN (j - 1) - 1 + 1 ELSE 0
        /\ \A i \in 1 .. ((j - 1) - 1 + 1) : a[i] = L[1 + i - 1]
    BY <2>1, <2>2, SubSeqProperties
  <2> HIDE DEF a
  <2>4. (j - 1) - 1 + 1 = j - 1 /\ j >= 1 /\ j \in Int
    BY <1>7
  <2>5. \A i \in 1 .. (j - 1) : 1 + i - 1 = i
    OBVIOUS
  <2>6. \A i \in 1 .. (j - 1) : a[i] = L[1 + i - 1]
    BY <2>3, <2>4
  <2>7. Len(a) = j - 1
    BY <2>3, <2>4
  <2> QED
    BY <2>3, <2>5, <2>6, <2>7
<1>13. b \in Seq(Docs) /\ Len(b) = N - j /\ \A i \in 1 .. (N - j) : b[i] = L[j + i]
  <2>1. \A i \in (j + 1) .. N : L[i] \in Docs
    BY <1>7, <1>8, <1>11
  <2>2. j + 1 \in Int /\ N \in Int
    BY <1>7, <1>8
  <2>3. /\ b \in Seq(Docs) /\ Len(b) = IF j + 1 <= N THEN N - (j + 1) + 1 ELSE 0
        /\ \A i \in 1 .. (N - (j + 1) + 1) : b[i] = L[(j + 1) + i - 1]
    BY <2>1, <2>2, SubSeqProperties
  <2> HIDE DEF b
  <2>4. N - (j + 1) + 1 = N - j /\ j <= N /\ j \in Int
    BY <1>7, <1>8
  <2>5. \A i \in 1 .. (N - j) : (j + 1) + i - 1 = j + i
    BY <2>4
  <2>6. \A i \in 1 .. (N - j) : b[i] = L[(j + 1) + i - 1]
    BY <2>3, <2>4
  <2>7. Len(b) = N - j
    BY <1>8, <2>3, <2>4
  <2> QED
    BY <2>3, <2>5, <2>6, <2>7
<1> HIDE DEF a, b
<1>14. ASSUME NEW n \in 1 .. (j - 1)
       PROVE  n \in 1 .. (N - 1) /\ a[n] = x[n]
  <2>1. n \in 1 .. (N - 1) /\ n < j
    BY <1>7, <1>8
  <2> QED
    BY <1>7, <1>12, <2>1
<1>15. ASSUME NEW n \in 1 .. (N - j)
       PROVE  j + n - 1 \in 1 .. (N - 1) /\ b[n] = x[j + n - 1]
  <2>1. j + n - 1 \in 1 .. (N - 1) /\ ~(j + n - 1 < j) /\ (j + n - 1) + 1 = j + n
    BY <1>8
  <2>2. x[j + n - 1] = L[(j + n - 1) + 1]
    BY <1>7, <2>1
  <2>3. x[j + n - 1] = L[j + n]
    BY <2>1, <2>2
  <2> QED
    BY <1>13, <2>1, <2>3
<1>16. \A n \in 1 .. (N - 1) : x[n] \in before <=> n < j
  <2> SUFFICES ASSUME NEW n \in 1 .. (N - 1) PROVE x[n] \in before <=> n < j
    OBVIOUS
  <2>1. x[n] \in C /\ rest[x[n]].sort = n - 1 /\ n \in Int
    BY <1>7, <1>9
  <2>2. n - 1 < t[d].sort <=> n < j
    BY <1>4, <2>1
  <2> QED
    BY <2>1, <2>2 DEF before
<1>17. InOrder(rest, before) = a
  <2>1. Lists(a, before, j - 1)
    <3>1. a = [n \in 1 .. (j - 1) |-> a[n]]
      BY <1>12
    <3>2. \A n \in 1 .. (j - 1) : a[n] \in before
      BY <1>14, <1>16
    <3>3. ASSUME NEW e \in before PROVE \E n \in 1 .. (j - 1) : a[n] = e
      <4>1. PICK n \in 1 .. (N - 1) : x[n] = e
        BY <1>9 DEF Lists, before
      <4>2. n < j
        BY <1>16, <4>1
      <4>3. n \in 1 .. (j - 1)
        BY <1>7, <4>2
      <4> QED
        BY <1>14, <4>1, <4>3
    <3>4. \A m, n \in 1 .. (j - 1) : m # n => a[m] # a[n]
      BY <1>9, <1>14 DEF Lists
    <3> QED
      BY <3>1, <3>2, <3>3, <3>4 DEF Lists
  <2>2. \A m, n \in 1 .. (j - 1) : m < n => rest[a[m]].sort < rest[a[n]].sort
    <3> SUFFICES ASSUME NEW m \in 1 .. (j - 1), NEW n \in 1 .. (j - 1), m < n
                 PROVE  rest[a[m]].sort < rest[a[n]].sort
      OBVIOUS
    <3>1. rest[a[m]].sort = m - 1 /\ rest[a[n]].sort = n - 1
      BY <1>7, <1>14
    <3> QED
      BY <3>1
  <2>3. j - 1 \in Nat /\ \A e \in before : rest[e].sort \in Nat
    BY <1>7, <1>10 DEF before
  <2> QED
    BY <2>1, <2>2, <2>3, AscendingIsInOrder
<1>18. InOrder(rest, after) = b
  <2>1. Lists(b, after, N - j)
    <3>1. b = [n \in 1 .. (N - j) |-> b[n]]
      BY <1>13
    <3>2. \A n \in 1 .. (N - j) : b[n] \in after
      <4> SUFFICES ASSUME NEW n \in 1 .. (N - j) PROVE b[n] \in after
        OBVIOUS
      <4>1. j + n - 1 \in 1 .. (N - 1) /\ b[n] = x[j + n - 1] /\ ~(j + n - 1 < j)
        BY <1>7, <1>15
      <4> QED
        BY <1>9, <1>16, <4>1 DEF after
    <3>3. ASSUME NEW e \in after PROVE \E n \in 1 .. (N - j) : b[n] = e
      <4>1. PICK n \in 1 .. (N - 1) : x[n] = e
        BY <1>9 DEF Lists, after
      <4>2. ~(n < j)
        BY <1>16, <4>1 DEF after
      <4>3. n - j + 1 \in 1 .. (N - j) /\ j + (n - j + 1) - 1 = n
        BY <1>8, <4>2
      <4> QED
        BY <1>15, <4>1, <4>3
    <3>4. ASSUME NEW m \in 1 .. (N - j), NEW n \in 1 .. (N - j), m # n PROVE b[m] # b[n]
      <4>1. /\ j + m - 1 \in 1 .. (N - 1) /\ j + n - 1 \in 1 .. (N - 1)
            /\ b[m] = x[j + m - 1] /\ b[n] = x[j + n - 1]
        BY <1>15
      <4>2. j + m - 1 # j + n - 1
        <5>1. j \in Int /\ m \in Int /\ n \in Int
          BY <1>8
        <5> QED
          BY <3>4, <5>1
      <4> QED
        BY <1>9, <4>1, <4>2 DEF Lists
    <3> QED
      BY <3>1, <3>2, <3>3, <3>4 DEF Lists
  <2>2. \A m, n \in 1 .. (N - j) : m < n => rest[b[m]].sort < rest[b[n]].sort
    <3> SUFFICES ASSUME NEW m \in 1 .. (N - j), NEW n \in 1 .. (N - j), m < n
                 PROVE  rest[b[m]].sort < rest[b[n]].sort
      OBVIOUS
    <3>1. /\ j + m - 1 \in 1 .. (N - 1) /\ j + n - 1 \in 1 .. (N - 1)
          /\ b[m] = x[j + m - 1] /\ b[n] = x[j + n - 1]
      BY <1>15
    <3>2. rest[b[m]].sort = (j + m - 1) - 1 /\ rest[b[n]].sort = (j + n - 1) - 1
      BY <1>7, <3>1
    <3> QED
      BY <1>7, <3>2
  <2>3. N - j \in Nat /\ \A e \in after : rest[e].sort \in Nat
    BY <1>7, <1>8, <1>10 DEF after
  <2> QED
    BY <2>1, <2>2, <2>3, AscendingIsInOrder
<1> QED
  BY <1>1, <1>7, <1>17, <1>18 DEF InPlace, a, b, N

(* The list of d's children takes the place j of d in the list of q's.     *)
PromotesOne(k, K, d, q, j) ==
  /\ q \in Docs \cup {Root} /\ j \in DOMAIN k[q] /\ k[q][j] = d
  /\ K = [k EXCEPT ![d] = << >>,
                   ![q] = SubSeq(@, 1, j - 1) \o k[d] \o SubSeq(@, j + 1, Len(@))]

(* Removing a node puts the list of its children into its place.           *)
LEMMA RemovedKids ==
  ASSUME NEW t, IsTree(t), Valid(t), NEW d \in DOMAIN t
  PROVE  PromotesOne(Siblings(t), Siblings(Removed(t, d)), d, t[d].parent, t[d].sort + 1)
<1> DEFINE p == t[d].parent
           j == t[d].sort + 1
           R == Removed(t, d)
           k == Siblings(t)
           K == Siblings(R)
           L == InOrder(t, Children(t, p))
<1>1. PICK s, rest, r : Spliced(s, t, d, rest, r) /\ R = Reordered(r, p, s)
  BY RemovedIsSpliced
<1>2. IsTree(R) /\ Valid(R) /\ DOMAIN R = DOMAIN t \ {d}
  BY RemovedIsValid
<1>3. Shape(t) /\ (\A q \in Places(t) : Dense(t, q)) /\ p \in Places(t) /\ p # d
  <2>1. Shape(t) /\ \A q \in Places(t) : Dense(t, q)
    BY ValidParts
  <2> QED
    BY <2>1, SubtreeIs DEF Shape
<1>4. /\ j \in 1 .. Len(L) /\ L[j] = d
      /\ s = SubSeq(L, 1, j - 1) \o InOrder(t, Children(t, d)) \o SubSeq(L, j + 1, Len(L))
  <2>1. ASSUME NEW a, a = InOrder(t, Children(t, t[d].parent)), NEW b, b = t[d].sort + 1
        PROVE  b \in 1 .. Len(a) /\ a[b] = d
    BY <1>1, <2>1, SplicedKids
  <2>2. ASSUME NEW a, a = InOrder(t, Children(t, t[d].parent)), NEW b, b = t[d].sort + 1
        PROVE  s = InPlace(a, InOrder(t, Children(t, d)), b)
    BY <1>1, <2>2, SplicedKids
  <2> QED
    BY <2>1, <2>2 DEF InPlace
<1>5. /\ IsTree(r) /\ DOMAIN r = DOMAIN t \ {d}
      /\ Lists(s, Children(r, p), Cardinality(Children(r, p)))
      /\ \A q \in Places(r) : q # p =>
           Children(r, q) = Children(t, q) /\ \A e \in Children(t, q) : r[e].sort = t[e].sort
  BY <1>1 DEF Spliced, LiftedWell
<1> HIDE DEF p, j, R, k, K, L
<1>6. /\ IsTree(Reordered(r, p, s)) /\ DOMAIN Reordered(r, p, s) = DOMAIN r
      /\ \A e \in DOMAIN r : /\ Reordered(r, p, s)[e].parent = r[e].parent
                             /\ Reordered(r, p, s)[e].depth = r[e].depth
                             /\ r[e].parent # p => Reordered(r, p, s)[e] = r[e]
      /\ \A i \in 1 .. Cardinality(Children(r, p)) : Reordered(r, p, s)[s[i]].sort = i - 1
  BY <1>5, ReorderedIs
<1>7. /\ DOMAIN R = DOMAIN r
      /\ \A e \in DOMAIN r : R[e].parent = r[e].parent /\ R[e].depth = r[e].depth
      /\ \A e \in DOMAIN r : r[e].parent # p => R[e] = r[e]
      /\ \A i \in 1 .. Cardinality(Children(r, p)) : R[s[i]].sort = i - 1
  BY <1>1, <1>6
<1>8. Places(R) = Places(r) /\ \A q : Children(R, q) = Children(r, q)
  BY <1>2, <1>5, <1>7, SamePlaces
<1>9. InOrder(R, Children(R, p)) = s
  <2>1. Lists(s, Children(R, p), Cardinality(Children(R, p)))
    BY <1>5, <1>8
  <2>2. Cardinality(Children(R, p)) \in Nat
    BY <1>2, ChildrenFinite
  <2>3. \A i \in 1 .. Cardinality(Children(R, p)) : R[s[i]].sort = i - 1
    BY <1>7, <1>8
  <2> QED
    BY <1>2, <2>1, <2>2, <2>3, NumberedIsInOrder
<1>10. ASSUME NEW q \in Places(R), q # p
       PROVE  InOrder(R, Children(R, q)) = InOrder(t, Children(t, q))
  <2>1. Children(R, q) = Children(t, q)
    BY <1>5, <1>8, <1>10
  <2>2. ASSUME NEW e \in Children(t, q) PROVE R[e].sort = t[e].sort
    <3>1. e \in DOMAIN r /\ r[e].parent = q
      BY <1>5, <1>8, <1>10 DEF Children
    <3>2. R[e] = r[e]
      BY <1>7, <1>10, <3>1
    <3>3. r[e].sort = t[e].sort
      BY <1>5, <1>8, <1>10
    <3> QED
      BY <3>2, <3>3
  <2>3. q \in Places(t)
    BY <1>2 DEF Places
  <2>4. Distinct(t, q)
    BY <1>3, <2>3, DenseIsDistinct
  <2> QED
    BY <2>1, <2>2, <2>4, SameKids
<1>11. KidsOf(K, R) /\ KidsOf(k, t) /\ Places(t) \subseteq Docs \cup {Root}
  <2>1. \A x : IsTree(x) /\ Valid(x) => KidsOf(Siblings(x), x) /\ Places(x) \subseteq Docs \cup {Root}
    BY SiblingsIs
  <2> QED
    BY <1>2, <2>1 DEF K, k
<1>12. /\ K = [x \in Docs \cup {Root} |-> K[x]]
       /\ \A x \in Docs \cup {Root} : /\ K[x] = InOrder(R, Children(R, x))
                                      /\ x \notin Places(R) => K[x] = << >>
  BY <1>11 DEF KidsOf
<1>13. /\ k = [x \in Docs \cup {Root} |-> k[x]]
       /\ \A x \in Docs \cup {Root} : /\ k[x] = InOrder(t, Children(t, x))
                                      /\ DOMAIN k[x] = 1 .. Len(k[x])
                                      /\ x \notin Places(t) => k[x] = << >>
  BY <1>11 DEF KidsOf
<1>14. p \in Docs \cup {Root} /\ d \in Docs \cup {Root} /\ d \notin Places(R)
  <2>1. d # Root
    BY RootAssumption DEF IsTree
  <2> QED
    BY <1>2, <1>3, <1>11, <2>1 DEF Places
<1>15. p \in Places(R)
  BY <1>2, <1>3 DEF Places
<1> DEFINE b == SubSeq(k[p], 1, j - 1) \o k[d] \o SubSeq(k[p], j + 1, Len(k[p]))
<1>16. k[p] = L /\ k[d] = InOrder(t, Children(t, d))
  BY <1>13, <1>14 DEF L
<1>17. K[p] = b
  <2>1. K[p] = s
    BY <1>9, <1>12, <1>14
  <2> QED
    BY <1>4, <1>16, <2>1
<1>18. K[d] = << >>
  BY <1>12, <1>14
<1>19. ASSUME NEW x \in Docs \cup {Root}, x # p, x # d PROVE K[x] = k[x]
  <2>1. CASE x \in Places(R)
    BY <1>10, <1>12, <1>13, <1>19, <2>1
  <2>2. CASE x \notin Places(R)
    <3>1. x \notin Places(t)
      BY <1>2, <1>19, <2>2 DEF Places
    <3> QED
      BY <1>12, <1>13, <2>2, <3>1
  <2> QED
    BY <2>1, <2>2
<1> HIDE DEF b
<1> DEFINE m == [k EXCEPT ![d] = << >>]
<1>20. m = [x \in Docs \cup {Root} |-> IF x = d THEN << >> ELSE k[x]]
  BY <1>13, <1>14
<1> HIDE DEF m
<1>21. K = [m EXCEPT ![p] = b]
  <2>1. DOMAIN m = Docs \cup {Root} /\ \A x \in Docs \cup {Root} : m[x] = IF x = d THEN << >> ELSE k[x]
    BY <1>20
  <2> QED
    BY <1>12, <1>14, <1>17, <1>18, <1>19, <1>20, <2>1
<1>22. K = [k EXCEPT ![d] = << >>, ![p] = b]
  BY <1>21 DEF m
<1>23. DOMAIN k = Docs \cup {Root}
  BY <1>13
<1>24. K = [k EXCEPT ![d] = << >>,
                     ![p] = SubSeq(@, 1, j - 1) \o k[d] \o SubSeq(@, j + 1, Len(@))]
  BY <1>22 DEF b
<1>25. j \in DOMAIN k[p] /\ k[p][j] = d
  BY <1>4, <1>13, <1>14, <1>16
<1> QED
  BY <1>14, <1>24, <1>25 DEF PromotesOne, p, j, K, k, R

(* The forest's operators on sequences and sets are those of the tree.     *)
LEMMA ForestOperators ==
  /\ \A s : Forest!ToSet(s) = ToSet(s)
  /\ \A S : Forest!Cardinality(S) = Cardinality(S) /\ Forest!SetToSeqs(S) = SetToSeqs(S)
  /\ \A s, i : Forest!RemoveAt(s, i) = RemoveAt(s, i)
  /\ \A f, d, p, i : Forest!Inserted(f, d, p, i) = [f EXCEPT ![p] = InsertAt(@, i, d)]
<1>1. \A s : Forest!ToSet(s) = ToSet(s)
  BY DEF Forest!ToSet, ToSet
<1>2. \A S : Forest!Cardinality(S) = Cardinality(S)
  BY DEF Forest!Cardinality, Cardinality
<1>3. \A S : Forest!SetToSeqs(S) = SetToSeqs(S)
  BY <1>2 DEF Forest!SetToSeqs, SetToSeqs
<1>4. \A s, i : Forest!RemoveAt(s, i) = RemoveAt(s, i)
  BY DEF Forest!RemoveAt, RemoveAt
<1>5. \A s, i, x : Forest!InsertAt(s, i, x) = InsertAt(s, i, x)
  BY DEF Forest!InsertAt, InsertAt
<1>6. \A f, d, p, i : Forest!Inserted(f, d, p, i) = [f EXCEPT ![p] = InsertAt(@, i, d)]
  BY <1>5 DEF Forest!Inserted
<1> QED
  BY <1>1, <1>2, <1>3, <1>4, <1>6

(* The nodes of the forest are the nodes of the tree, and a node is in the *)
(* list of its parent's children.                                          *)
LEMMA ForestNodes ==
  ASSUME IsTree(tree), Valid(tree)
  PROVE  /\ Forest!Nodes = DOMAIN tree
         /\ \A d, q : q \in Docs \cup {Root} /\ d \in ToSet(Siblings(tree)[q]) => q \in Forest!Above(d)
<1> DEFINE k == Siblings(tree)
<1>1. UNION {ToSet(k[q]) : q \in Docs \cup {Root}} = DOMAIN tree
  BY SiblingsIs
<1>2. Forest!Nodes = UNION {ToSet(k[q]) : q \in Docs \cup {Root}}
  BY ForestOperators DEF Forest!Nodes
<1>3. \A d, q : q \in Docs \cup {Root} /\ d \in ToSet(k[q]) => q \in Forest!Above(d)
  BY ForestOperators DEF Forest!Above
<1> QED
  BY <1>1, <1>2, <1>3

(* u[n]: d and what the lists of children have below it, down to n levels. *)
Lowers(u, k, d) ==
  /\ u[0] = {d}
  /\ \A n \in 0 .. Cardinality(Docs) : n # 0 =>
       u[n] = u[n - 1] \cup UNION {ToSet(k[e]) : e \in u[n - 1]}

(* The branch of a node in the forest is found level by level.             *)
LEMMA BranchByLevels ==
  ASSUME IsTree(tree), Valid(tree), NEW d \in DOMAIN tree
  PROVE  \E u : Lowers(u, Siblings(tree), d) /\ Forest!SubtreeOf(d) = u[Cardinality(Docs)]
<1> DEFINE N == Forest!Cardinality(Docs)
           S == SUBSET DOMAIN tree
           k == Siblings(tree)
           F == [s \in S |-> s \cup UNION {Forest!ToSet(k[e]) : e \in s}]
           w == CHOOSE f : f = [n \in 0 .. N |->
                  IF n = 0 THEN {d} ELSE f[n - 1] \cup UNION {Forest!ToSet(k[e]) : e \in f[n - 1]}]
<1>1. Forest!SubtreeOf(d) = w[N]
  BY DEF Forest!SubtreeOf
<1>2. {d} \in S /\ N \in Nat
  BY DocsAssumption, FS_CardinalityType, ForestOperators
<1>3. F \in [S -> S]
  <2>1. KidsOf(k, tree)
    BY SiblingsIs
  <2>2. \A e \in DOMAIN tree : Forest!ToSet(k[e]) \subseteq DOMAIN tree
    <3> SUFFICES ASSUME NEW e \in DOMAIN tree PROVE Forest!ToSet(k[e]) \subseteq DOMAIN tree
      OBVIOUS
    <3>1. e \in Docs
      BY DEF IsTree
    <3>2. ToSet(k[e]) = Children(tree, e)
      BY <2>1, <3>1 DEF KidsOf
    <3>3. Forest!ToSet(k[e]) = ToSet(k[e])
      BY ForestOperators
    <3> QED
      BY <3>2, <3>3 DEF Children
  <2> HIDE DEF k
  <2>3. ASSUME NEW s \in S PROVE s \cup UNION {Forest!ToSet(k[e]) : e \in s} \in S
    BY <2>2
  <2> QED
    BY <2>3
<1> HIDE DEF k
<1>4. PICK h \in [0 .. N -> S] : Solves(h, {d}, F, N)
  <2> HIDE DEF S, F, N
  <2> QED
    BY <1>2, <1>3, Recursion
<1>5. \A n \in 0 .. N : n # 0 => n - 1 \in 0 .. N /\ h[n - 1] \in S
  BY <1>2, <1>4
<1>6. \A n \in 0 .. N :
        h[n] = IF n = 0 THEN {d} ELSE h[n - 1] \cup UNION {Forest!ToSet(k[e]) : e \in h[n - 1]}
  BY <1>4, <1>5 DEF Solves
<1>7. h = [n \in 0 .. N |->
             IF n = 0 THEN {d} ELSE h[n - 1] \cup UNION {Forest!ToSet(k[e]) : e \in h[n - 1]}]
  BY <1>4, <1>6
<1>8. w = [n \in 0 .. N |->
             IF n = 0 THEN {d} ELSE w[n - 1] \cup UNION {Forest!ToSet(k[e]) : e \in w[n - 1]}]
  BY <1>7
<1> HIDE DEF w
<1>9. Lowers(w, k, d)
  <2>1. N = Cardinality(Docs) /\ \A e : Forest!ToSet(k[e]) = ToSet(k[e])
    BY ForestOperators
  <2>2. w[0] = {d}
    BY <1>2, <1>8
  <2>3. \A n \in 0 .. N : n # 0 => w[n] = w[n - 1] \cup UNION {Forest!ToSet(k[e]) : e \in w[n - 1]}
    BY <1>8
  <2> HIDE DEF N
  <2>4. \A n \in 0 .. N : n # 0 => w[n] = w[n - 1] \cup UNION {ToSet(k[e]) : e \in w[n - 1]}
    BY <2>1, <2>3
  <2> QED
    BY <2>1, <2>2, <2>4 DEF Lowers
<1>10. N = Cardinality(Docs)
  BY ForestOperators
<1> QED
  BY <1>1, <1>9, <1>10 DEF k

(* Nothing is below a node in the forest that is not below it in the tree. *)
LEMMA BranchIsSubtree ==
  ASSUME IsTree(tree), Valid(tree), NEW d \in DOMAIN tree
  PROVE  Forest!SubtreeOf(d) \subseteq Subtree(tree, d)
<1> DEFINE N == Cardinality(Docs)
           k == Siblings(tree)
           S == Subtree(tree, d)
<1>1. PICK u : Lowers(u, k, d) /\ Forest!SubtreeOf(d) = u[N]
  BY BranchByLevels
<1>2. KidsOf(k, tree)
  BY SiblingsIs
<1>3. /\ S \subseteq DOMAIN tree /\ d \in S
      /\ \A e \in DOMAIN tree : tree[e].parent \in S => e \in S
  BY ValidParts, SubtreeIs
<1>4. N \in Nat
  BY DocsAssumption, FS_CardinalityType
<1> HIDE DEF k, S
<1>5. \A e \in S : ToSet(k[e]) \subseteq S
  <2> SUFFICES ASSUME NEW e \in S, NEW x \in ToSet(k[e]) PROVE x \in S
    OBVIOUS
  <2>1. e \in Docs
    BY <1>3 DEF IsTree
  <2>2. x \in Children(tree, e)
    BY <1>2, <2>1 DEF KidsOf
  <2> QED
    BY <1>3, <2>2 DEF Children
<1>6. u[0] = {d} /\ \A n \in 0 .. N : n # 0 => u[n] = u[n - 1] \cup UNION {ToSet(k[e]) : e \in u[n - 1]}
  BY <1>1 DEF Lowers
<1> HIDE DEF N
<1> DEFINE G == {n \in Nat : n <= N => u[n] \subseteq S}
<1>7. 0 \in G
  BY <1>3, <1>6
<1>8. ASSUME NEW n \in Nat, n \in G PROVE n + 1 \in G
  <2> SUFFICES ASSUME n + 1 <= N PROVE u[n + 1] \subseteq S
    OBVIOUS
  <2>1. n + 1 \in 0 .. N /\ n + 1 # 0 /\ (n + 1) - 1 = n /\ n <= N
    BY <1>4
  <2>2. u[n + 1] = u[n] \cup UNION {ToSet(k[e]) : e \in u[n]}
    BY <1>6, <2>1
  <2>3. u[n] \subseteq S
    BY <1>8, <2>1
  <2> QED
    BY <1>5, <2>2, <2>3
<1>9. Nat \subseteq G
  <2> HIDE DEF G
  <2> QED
    BY <1>7, <1>8, SetInduction
<1>10. u[N] \subseteq S
  BY <1>4, <1>9
<1> QED
  BY <1>1, <1>10 DEF S, N

(* The lists of children after a step are those of the new tree.           *)
LEMMA NextSiblings ==
  ASSUME NEW r, tree' = r
  PROVE  Siblings(tree)' = Siblings(r)
  BY DEF Siblings, InOrder, Children

(* A node that is added is in one list of children more.                   *)
LEMMA AddedIsAdd ==
  ASSUME IsTree(tree), Valid(tree), NEW d \in Docs, NEW p, NEW i \in Nat, CanAdd(tree, d, p, i),
         tree' = Added(tree, d, p, i)
  PROVE  Forest!Next
<1> DEFINE k == Siblings(tree)
<1>1. /\ p \in DOMAIN tree \cup {Root} /\ i + 1 \in 1 .. (Len(k[p]) + 1) /\ d \notin DOMAIN tree
      /\ Siblings(Added(tree, d, p, i)) = [k EXCEPT ![p] = InsertAt(@, i + 1, d)]
  BY AddedKids
<1>2. k' = Siblings(Added(tree, d, p, i))
  BY NextSiblings
<1>3. Forest!Nodes = DOMAIN tree
  BY ForestNodes
<1>4. k' = Forest!Inserted(k, d, p, i + 1)
  BY <1>1, <1>2, ForestOperators
<1>5. p \in Forest!Nodes \cup {Root} /\ d \in Docs \ Forest!Nodes
  BY <1>1, <1>3
<1>6. Forest!Add(d)
  BY <1>1, <1>4, <1>5 DEF Forest!Add
<1> QED
  BY <1>5, <1>6 DEF Forest!Next

(* A node that is moved goes into a list of children that is not below it. *)
LEMMA MovedIsMove ==
  ASSUME IsTree(tree), Valid(tree), NEW d, NEW p, NEW i \in Nat, CanMove(tree, d, p, i),
         tree' = Moved(tree, d, p, i)
  PROVE  Forest!Next
<1> DEFINE k == Siblings(tree)
           q == tree[d].parent
           j == tree[d].sort + 1
           rest == [k EXCEPT ![q] = RemoveAt(@, j)]
<1>1. MovesOne(k, Siblings(Moved(tree, d, p, i)), d, q, j, p, i + 1)
  BY MovedKids
<1>2. k' = Siblings(Moved(tree, d, p, i))
  BY NextSiblings
<1>3. Forest!Nodes = DOMAIN tree /\ d \in DOMAIN tree
  BY ForestNodes DEF CanMove
<1>4. p \in (Forest!Nodes \ Forest!SubtreeOf(d)) \cup {Root}
  BY <1>3, BranchIsSubtree DEF CanMove, Places
<1>5. /\ q \in Docs \cup {Root} /\ j \in DOMAIN k[q] /\ k[q][j] = d
      /\ i + 1 \in 1 .. (Len(rest[p]) + 1) /\ k' = [rest EXCEPT ![p] = InsertAt(@, i + 1, d)]
  BY <1>1, <1>2 DEF MovesOne
<1>6. q \in Forest!Above(d)
  <2>1. d \in ToSet(k[q])
    BY <1>5 DEF ToSet
  <2> QED
    BY <1>5, <2>1, ForestNodes
<1>7. rest = Forest!Without(q, j)
  BY ForestOperators DEF Forest!Without
<1> HIDE DEF rest
<1>8. k' = Forest!Inserted(Forest!Without(q, j), d, p, i + 1)
  BY <1>5, <1>7, ForestOperators
<1>9. i + 1 \in 1 .. (Len(Forest!Without(q, j)[p]) + 1)
  BY <1>5, <1>7
<1> HIDE DEF q, j
<1>10. Forest!Move(d)
  BY <1>4, <1>5, <1>6, <1>8, <1>9 DEF Forest!Move
<1> QED
  BY <1>3, <1>10 DEF Forest!Next

(* Reordering reorders one list of children.                               *)
LEMMA ReorderedIsReorder ==
  ASSUME IsTree(tree), Valid(tree), NEW p \in Places(tree), NEW s \in SetToSeqs(Children(tree, p)),
         tree' = Reordered(tree, p, s), Valid(Reordered(tree, p, s))
  PROVE  Forest!Next
<1> DEFINE k == Siblings(tree)
<1>1. Siblings(Reordered(tree, p, s)) = [k EXCEPT ![p] = s]
  BY ReorderedKids
<1>2. k' = [k EXCEPT ![p] = s]
  BY <1>1, NextSiblings
<1>3. Forest!Nodes = DOMAIN tree
  BY ForestNodes
<1>4. KidsOf(k, tree) /\ Places(tree) \subseteq Docs \cup {Root}
  BY SiblingsIs
<1> HIDE DEF k
<1>5. ToSet(k[p]) = Children(tree, p)
  BY <1>4 DEF KidsOf
<1>6. s \in Forest!SetToSeqs(Forest!ToSet(k[p]))
  BY <1>5, ForestOperators
<1>7. p \in Forest!Nodes \cup {Root}
  BY <1>3 DEF Places
<1>8. Forest!Reorder(p)
  BY <1>2, <1>6 DEF Forest!Reorder, k
<1> QED
  BY <1>7, <1>8 DEF Forest!Next

(* Removing a node puts its children into its place.                       *)
LEMMA RemovedIsPromote ==
  ASSUME IsTree(tree), Valid(tree), NEW d \in DOMAIN tree, tree' = Removed(tree, d)
  PROVE  Forest!Next
<1> DEFINE k == Siblings(tree)
           q == tree[d].parent
           j == tree[d].sort + 1
<1>1. PromotesOne(k, Siblings(Removed(tree, d)), d, q, j)
  BY RemovedKids
<1>2. k' = Siblings(Removed(tree, d))
  BY NextSiblings
<1>3. /\ q \in Docs \cup {Root} /\ j \in DOMAIN k[q] /\ k[q][j] = d
      /\ k' = [k EXCEPT ![d] = << >>,
                        ![q] = SubSeq(@, 1, j - 1) \o k[d] \o SubSeq(@, j + 1, Len(@))]
  BY <1>1, <1>2 DEF PromotesOne
<1>4. q \in Forest!Above(d)
  <2>1. d \in ToSet(k[q])
    BY <1>3 DEF ToSet
  <2> QED
    BY <1>3, <2>1, ForestNodes
<1> HIDE DEF q, j
<1>5. Forest!Promote(d)
  BY <1>3, <1>4 DEF Forest!Promote
<1>6. Forest!Nodes = DOMAIN tree
  BY ForestNodes
<1> QED
  BY <1>5, <1>6 DEF Forest!Next

(* The empty tree has no lists.                                            *)
LEMMA EmptySiblings ==
  Siblings(EmptyTree) = [p \in Docs \cup {Root} |-> << >>]
<1>1. \A p : Children(EmptyTree, p) = {}
  BY DEF Children, EmptyTree
<1>2. \A p : InOrder(EmptyTree, Children(EmptyTree, p)) = << >>
  BY <1>1, NobodyInOrder
<1> QED
  BY <1>2 DEF Siblings

(* What an editor asks for, and what is done without being asked for, is a *)
(* step of the forest or leaves it alone.                                  *)
LEMMA StepsAreForestSteps ==
  ASSUME TreeInv, [EditorsNext]_<<treeVars, seen>>
  PROVE  [Forest!Next]_(Siblings(tree))
<1>1. IsTree(tree) /\ Valid(tree) /\ Cardinality(Docs) \in Nat
  BY DocsAssumption, FS_CardinalityType DEF TreeInv
<1>2. ASSUME tree' = tree PROVE UNCHANGED Siblings(tree)
  BY <1>2, NextSiblings
<1>3. ASSUME NEW d \in Docs, NEW p, NEW i \in Nat, NEW expected, Create(expected, d, p, i)
      PROVE  Forest!Next \/ UNCHANGED Siblings(tree)
  <2>1. CASE CanAdd(tree, d, p, i) /\ Store(Added(tree, d, p, i))
    <3>1. tree' = Added(tree, d, p, i)
      BY <2>1 DEF Store
    <3> QED
      BY <1>1, <2>1, <3>1, AddedIsAdd
  <2>2. CASE UNCHANGED tree
    BY <1>2, <2>2
  <2> QED
    BY <1>3, <2>1, <2>2 DEF Create
<1>4. ASSUME NEW d \in Docs, NEW p, NEW i \in Nat, NEW expected, AddNode(expected, d, p, i)
      PROVE  Forest!Next
  <2>1. CanAdd(tree, d, p, i) /\ tree' = Added(tree, d, p, i)
    BY <1>4 DEF AddNode, Store
  <2> QED
    BY <1>1, <2>1, AddedIsAdd
<1>5. ASSUME NEW d \in Docs, NEW p, NEW i \in Nat, NEW expected, MoveNode(expected, d, p, i)
      PROVE  Forest!Next
  <2>1. CanMove(tree, d, p, i) /\ tree' = Moved(tree, d, p, i)
    BY <1>5 DEF MoveNode, Store
  <2> QED
    BY <1>1, <2>1, MovedIsMove
<1>6. ASSUME NEW p \in Places(tree), NEW s \in SetToSeqs(Children(tree, p)), NEW expected,
             ReorderChildren(expected, p, s)
      PROVE  Forest!Next
  <2>1. tree' = Reordered(tree, p, s) /\ Valid(Reordered(tree, p, s))
    BY <1>6 DEF ReorderChildren, Store
  <2> QED
    BY <1>1, <2>1, ReorderedIsReorder
<1>7. ASSUME NEW d \in DOMAIN tree, Store(Removed(tree, d)) PROVE Forest!Next
  <2>1. tree' = Removed(tree, d)
    BY <1>7 DEF Store
  <2> QED
    BY <1>1, <2>1, RemovedIsPromote
<1>8. ASSUME NEW expected, Request(expected) PROVE Forest!Next \/ UNCHANGED Siblings(tree)
  <2>1. 0 .. Cardinality(Docs) \subseteq Nat
    BY <1>1
  <2>2. ASSUME NEW d, NEW promoteChildren, RemoveNode(expected, d, promoteChildren) PROVE Forest!Next
    BY <1>7, <2>2 DEF RemoveNode
  <2> QED
    BY <1>3, <1>4, <1>5, <1>6, <1>8, <2>1, <2>2 DEF Request
<1>9. ASSUME NEW d \in Docs, CreateLast(d) PROVE Forest!Next \/ UNCHANGED Siblings(tree)
  <2>1. Cardinality(Children(tree, Root)) \in Nat
    BY <1>1, ChildrenFinite
  <2> QED
    BY <1>3, <1>9, <2>1 DEF CreateLast
<1>10. ASSUME NEW d \in Docs, Purge(d) PROVE Forest!Next \/ UNCHANGED Siblings(tree)
  <2>1. CASE enabled /\ d \in DOMAIN tree
    BY <1>7, <1>10, <2>1 DEF Purge
  <2>2. CASE ~(enabled /\ d \in DOMAIN tree)
    <3>1. tree' = tree
      BY <1>10, <2>2 DEF Purge
    <3> QED
      BY <1>2, <3>1
  <2> QED
    BY <2>1, <2>2
<1>11. ASSUME SchemaApply PROVE Forest!Next \/ UNCHANGED Siblings(tree)
  <2>1. CASE Disable
    <3>1. tree' = EmptyTree
      BY <2>1 DEF Disable
    <3>2. Siblings(tree)' = [p \in Docs \cup {Root} |-> << >>]
      BY <3>1, NextSiblings, EmptySiblings
    <3> QED
      BY <3>2 DEF Forest!Clear, Forest!Next
  <2>2. CASE tree' = tree
    BY <1>2, <2>2
  <2> QED
    BY <1>11, <2>1, <2>2 DEF SchemaApply, Enable, Limit
<1>12. ASSUME UNCHANGED treeVars PROVE UNCHANGED Siblings(tree)
  BY <1>2, <1>12 DEF treeVars
<1> QED
  BY <1>8, <1>9, <1>10, <1>11, <1>12 DEF EditorsNext, Edit, Read, Others

(* The rows of the hierarchy implement a forest with ordered children: no  *)
(* command, purge or schema apply disturbs the order of siblings it does   *)
(* not name.                                                               *)
THEOREM ForestIsImplemented == EditorsSpec => ImplementsOrderedForest
<1>1. EditorsInit => Forest!Init
  <2> SUFFICES ASSUME EditorsInit PROVE Forest!Init
    OBVIOUS
  <2>1. tree = EmptyTree
    BY DEF EditorsInit, TreeInit
  <2> QED
    BY <2>1, EmptySiblings DEF Forest!Init
<1>2. TreeInv /\ [EditorsNext]_<<treeVars, seen>> => [Forest!Next]_(Siblings(tree))
  BY StepsAreForestSteps
<1> QED
  BY <1>1, <1>2, TreeInvHolds, PTL DEF EditorsSpec, ImplementsOrderedForest, Forest!Spec
=============================================================================
