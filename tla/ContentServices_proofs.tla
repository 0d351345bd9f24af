----------------------- MODULE ContentServices_proofs -----------------------
(***************************************************************************)
(* Proofs about four services beside the documents.                        *)
(*                                                                         *)
(* MediaLibrary: for any media, documents and interleaving of uploads,     *)
(* deletions, saves and a backup.                                          *)
(*                                                                         *)
(* AdminApps and AppRuntime: for any apps, authors, manifests, roles and   *)
(* visitors, and any order in which permissions are asked in batches.      *)
(*                                                                         *)
(* PolicyTables and AccessImpact: for any seeds, servers and mutations, a  *)
(* plugin, and any order in which servers load, decide and commit.         *)
(*                                                                         *)
(* DocumentQuery: for any rows, sorts and limits, and any changes to the   *)
(* documents and the permissions around a walk.                            *)
(***************************************************************************)
EXTENDS MediaLibrary, AppRuntime, AccessImpact, DocumentQuery, NaturalRecursion,
        FiniteSetTheorems, SequenceTheorems, TLAPS

-----------------------------------------------------------------------------
(* Type correctness. *)

\* Only saving and purging a document touches its references or their rows.
LEMMA EdgesAreWorking ==
    ASSUME NEW D, NEW f, NEW g, NEW E, NEW d \in D, NEW R,
           E = UNION {{x} \X f[x] : x \in D},
           g[d] = R, \A x \in D \ {d} : g[x] = f[x]
    PROVE  {e \in E : e[1] # d} \cup ({d} \X R) = UNION {{x} \X g[x] : x \in D}
<1> DEFINE L == {e \in E : e[1] # d} \cup ({d} \X R)
           G == UNION {{x} \X g[x] : x \in D}
<1>1. ASSUME NEW e \in L PROVE e \in G
    <2>1. CASE e \in {d} \X R
        BY <2>1
    <2>2. CASE e \in E /\ e[1] # d
        <3>1. PICK x \in D : e \in {x} \X f[x]
            BY <2>2
        <3>2. e[1] = x
            BY <3>1
        <3>3. x # d
            BY <3>2, <2>2
        <3>4. e \in {x} \X g[x]
            BY <3>1, <3>3
        <3> QED BY <3>4
    <2> QED BY <1>1, <2>1, <2>2
<1>2. ASSUME NEW e \in G PROVE e \in L
    <2>1. PICK x \in D : e \in {x} \X g[x]
        BY <1>2
    <2>2. CASE x = d
        BY <2>1, <2>2
    <2>3. CASE x # d
        <3>1. e \in {x} \X f[x]
            BY <2>1, <2>3
        <3>2. e[1] = x
            BY <2>1
        <3> QED BY <3>1, <3>2, <2>3
    <2> QED BY <2>2, <2>3
<1> QED BY <1>1, <1>2

\* Nothing is stored at first.
LEMMA InitTypeOK == Init => TypeOK
<1> SUFFICES ASSUME Init PROVE TypeOK
    OBVIOUS
<1>1. edges = UNION {{d} \X documents[d].working : d \in Docs}
    BY DEF Init
<1> QED BY <1>1 DEF Init, TypeOK, UploadSteps, DeletionSteps, BackupSteps

\* TypeOK is inductive.
LEMMA NextTypeOK == TypeOK /\ [Next]_vars => TypeOK'
<1> SUFFICES ASSUME TypeOK, [Next]_vars PROVE TypeOK'
    OBVIOUS
<1> USE DEF TypeOK, UploadSteps
<1>1. ASSUME NEW m \in Media, UploadStep(m) PROVE TypeOK'
    <2>1. CASE ReserveMedia(m)
        BY <2>1 DEF ReserveMedia, Uploading
    <2>2. CASE WriteFile(m)
        BY <2>2 DEF WriteFile, Uploading
    <2>3. CASE WriteFails(m)
        BY <2>3 DEF WriteFails, Uploading
    <2>4. CASE CompleteMedia(m)
        BY <2>4 DEF CompleteMedia, Uploading
    <2>5. CASE CompleteFails(m)
        BY <2>5 DEF CompleteFails, Uploading
    <2>6. CASE DiscardFile(m)
        BY <2>6 DEF DiscardFile, Uploading
    <2>7. CASE DiscardFails(m)
        BY <2>7 DEF DiscardFails, Uploading
    <2>8. CASE MarkFailed(m)
        BY <2>8 DEF MarkFailed, Uploading
    <2>9. CASE AbandonUpload(m)
        BY <2>9 DEF AbandonUpload
    <2>10. CASE CommitUnanswered(m)
        BY <2>10 DEF CommitUnanswered
    <2> QED BY <1>1, <2>1, <2>2, <2>3, <2>4, <2>5, <2>6, <2>7, <2>8, <2>9, <2>10 DEF UploadStep
<1>2. ASSUME NEW m \in Media, DeletionStep(m) PROVE TypeOK'
    <2> USE DEF DeletionSteps
    <2>1. CASE RequireReady(m)
        BY <2>1 DEF RequireReady, Deleting
    <2>2. CASE DeleteRecord(m)
        BY <2>2 DEF DeleteRecord, Deleting
    <2>3. CASE DeleteFile(m)
        BY <2>3 DEF DeleteFile, Deleting
    <2>4. CASE AbandonDeletion(m)
        BY <2>4 DEF AbandonDeletion
    <2> QED BY <1>2, <2>1, <2>2, <2>3, <2>4 DEF DeletionStep
<1>3. ASSUME NEW d \in Docs, DocumentStep(d) PROVE TypeOK'
    <2> DEFINE Working == [x \in Docs |-> documents[x].working]
    <2>0. edges = UNION {{x} \X Working[x] : x \in Docs}
        OBVIOUS
    <2>1. ASSUME NEW R \in SUBSET Media, SaveDraft(d, R) PROVE TypeOK'
        <3>1. documents' \in [Docs -> [working: SUBSET Media, published: SUBSET Media]]
            BY <2>1 DEF SaveDraft
        <3>2. documents'[d].working = R /\ \A x \in Docs \ {d} : documents'[x].working = documents[x].working
            BY <2>1 DEF SaveDraft
        <3>3. edges' = UNION {{x} \X [y \in Docs |-> documents'[y].working][x] : x \in Docs}
            BY <2>0, <2>1, <3>2, EdgesAreWorking DEF SaveDraft
        <3>4. edges' = UNION {{x} \X documents'[x].working : x \in Docs}
            BY <3>3
        <3> QED BY <2>1, <3>1, <3>4 DEF SaveDraft
    <2>2. CASE Publish(d)
        <3>1. \A x \in Docs : documents'[x].working = documents[x].working
            BY <2>2 DEF Publish
        <3>2. edges' = UNION {{x} \X documents'[x].working : x \in Docs}
            BY <2>2, <3>1 DEF Publish
        <3> QED BY <2>2, <3>2 DEF Publish
    <2>3. CASE Unpublish(d)
        <3>1. \A x \in Docs : documents'[x].working = documents[x].working
            BY <2>3 DEF Unpublish
        <3>2. edges' = UNION {{x} \X documents'[x].working : x \in Docs}
            BY <2>3, <3>1 DEF Unpublish
        <3> QED BY <2>3, <3>2 DEF Unpublish
    <2>4. CASE Purge(d)
        <3>1. documents' \in [Docs -> [working: SUBSET Media, published: SUBSET Media]]
            BY <2>4 DEF Purge
        <3>2. documents'[d].working = {} /\ \A x \in Docs \ {d} : documents'[x].working = documents[x].working
            BY <2>4 DEF Purge
        <3>3. edges' = {e \in edges : e[1] # d} \cup ({d} \X {})
            BY <2>4 DEF Purge
        <3>4. edges' = UNION {{x} \X [y \in Docs |-> documents'[y].working][x] : x \in Docs}
            BY <2>0, <3>2, <3>3, EdgesAreWorking
        <3>5. edges' = UNION {{x} \X documents'[x].working : x \in Docs}
            BY <3>4
        <3> QED BY <2>4, <3>1, <3>5 DEF Purge
    <2> QED BY <1>3, <2>1, <2>2, <2>3, <2>4 DEF DocumentStep
<1>4. ASSUME DumpDatabase \/ ArchiveMedia PROVE TypeOK'
    <2>1. Ready \subseteq Media
        BY DEF Ready
    <2>2. backup' \in [step: BackupSteps, ready: SUBSET Media, files: SUBSET Media]
        <3>1. CASE DumpDatabase
            BY <3>1, <2>1 DEF DumpDatabase, BackupSteps
        <3>2. CASE ArchiveMedia
            BY <3>2 DEF ArchiveMedia, BackupSteps
        <3> QED BY <1>4, <3>1, <3>2
    <2>3. UNCHANGED <<records, files, upload, deletion, documents, edges, unanswered>>
        BY <1>4 DEF DumpDatabase, ArchiveMedia
    <2> QED BY <2>2, <2>3
<1>5. CASE UNCHANGED vars
    BY <1>5 DEF vars
<1> QED BY <1>1, <1>2, <1>3, <1>4, <1>5 DEF Next

\* Every variable keeps its type, and _xecms_document_media holds exactly the
\* references of the working revisions, whoever saves or purges what.
THEOREM TypeCorrect == Spec => []TypeOK
BY InitTypeOK, NextTypeOK, PTL DEF Spec

-----------------------------------------------------------------------------
(* The invariant says of every media how far its upload and its deletion     *)
(* have come.  The bytes of a ready record are behind both, unless the        *)
(* completing UPDATE was not answered; then the upload is past completing it, *)
(* and the record becomes ready once, if at all.                              *)

MediaOK(m) ==
    /\ records[m] = "ready" =>
           \/ m \in unanswered
           \/ m \in files /\ upload[m] = "over" /\ deletion[m] # "bytes"
    /\ upload[m] = "complete" => m \in files
    /\ upload[m] \in {"write", "complete", "empty"} => records[m] = "pending"
    /\ upload[m] \in {"discard", "mark"} => records[m] = "pending" \/ m \in unanswered
    /\ upload[m] = "none" => records[m] = "absent"
    /\ m \in unanswered => upload[m] \in {"discard", "mark", "over"}
    /\ deletion[m] # "none" => upload[m] = "over" \/ m \in unanswered

\* What was completed once, deleted or not, is not completed again.
Settled(m) == upload[m] # "none" /\ records[m] # "pending"

\* What the dump knows as ready is settled.
BackupOK ==
    /\ \A m \in backup.ready : Settled(m)
    /\ BackupHasWhatStays

Inv ==
    /\ TypeOK
    /\ \A m \in Media : MediaOK(m)
    /\ \A d \in Docs : documents[d].working \subseteq Ready
    /\ BackupOK

\* An empty library satisfies the invariant.
LEMMA InitInv == Init => Inv
<1> SUFFICES ASSUME Init PROVE Inv
    OBVIOUS
<1>1. \A m \in Media : MediaOK(m)
    BY DEF Init, MediaOK
<1>2. \A d \in Docs : documents[d].working = {}
    BY DEF Init
<1>3. BackupOK
    BY DEF Init, BackupOK, BackupHasWhatStays
<1> QED BY <1>1, <1>2, <1>3, InitTypeOK DEF Inv

\* A step of the upload or the deletion of m: it leaves the other media alone,
\* takes a ready record away only when nothing refers to it, and makes none
\* ready that was settled.
MediaStep(m) ==
    /\ \A n \in Media \ {m} :
           /\ records'[n] = records[n]
           /\ n \in files' <=> n \in files
           /\ upload'[n] = upload[n]
           /\ deletion'[n] = deletion[n]
           /\ n \in unanswered' <=> n \in unanswered
    /\ MediaOK(m)'
    /\ records[m] = "ready" /\ records'[m] # "ready" => Unreferenced(m)
    /\ Settled(m) => Settled(m)'
    /\ Settled(m) /\ records'[m] = "ready" => records[m] = "ready"
    /\ unanswered \subseteq unanswered'
    /\ UNCHANGED <<documents, edges, backup>>

\* The invariant survives such a step.
LEMMA MediaStepInv ==
    ASSUME Inv, TypeOK', NEW m \in Media, MediaStep(m)
    PROVE  Inv'
<1> USE DEF MediaStep
<1>1. ASSUME NEW n \in Media PROVE MediaOK(n)'
    <2>1. CASE n = m
        BY <2>1
    <2>2. CASE n # m
        <3>1. MediaOK(n)
            BY DEF Inv
        <3> QED BY <3>1, <2>2 DEF MediaOK
    <2> QED BY <2>1, <2>2
<1>2. ASSUME NEW d \in Docs PROVE documents'[d].working \subseteq Ready'
    <2>1. SUFFICES ASSUME NEW n \in documents[d].working PROVE n \in Ready'
        OBVIOUS
    <2>2. n \in Media /\ records[n] = "ready"
        BY DEF Inv, Ready
    <2>3. CASE n = m
        <3>1. <<d, n>> \in edges
            BY DEF Inv, TypeOK
        <3> QED BY <2>2, <2>3, <3>1 DEF Ready, Unreferenced
    <2>4. CASE n # m
        BY <2>2, <2>4 DEF Ready
    <2> QED BY <2>3, <2>4
<1>3. BackupOK'
    <2>1. backup.ready \subseteq Media
        BY DEF Inv, TypeOK
    <2>2. \A n \in backup.ready : Settled(n) /\ Settled(n)'
        BY <2>1 DEF Inv, BackupOK, Settled
    <2>3. backup.ready \cap Ready' \subseteq Ready
        BY <2>2 DEF Ready
    <2> QED BY <2>2, <2>3 DEF Inv, BackupOK, BackupHasWhatStays
<1> QED BY <1>1, <1>2, <1>3 DEF Inv

\* Every step of every request, document and backup keeps the invariant.
LEMMA NextInv == Inv /\ [Next]_vars => Inv'
<1> SUFFICES ASSUME Inv, [Next]_vars PROVE Inv'
    OBVIOUS
<1>0. TypeOK /\ TypeOK'
    BY NextTypeOK DEF Inv
<1>1. ASSUME NEW m \in Media, UploadStep(m) PROVE Inv'
    <2>0. MediaOK(m)
        BY DEF Inv
    <2>1. MediaStep(m)
        <3> USE <1>0, <2>0 DEF TypeOK, UploadSteps, Uploading, MediaOK, Settled, MediaStep
        <3>1. CASE ReserveMedia(m)
            BY <3>1 DEF ReserveMedia
        <3>2. CASE WriteFile(m)
            BY <3>2 DEF WriteFile
        <3>3. CASE WriteFails(m)
            BY <3>3 DEF WriteFails
        <3>4. CASE CompleteMedia(m)
            BY <3>4 DEF CompleteMedia
        <3>5. CASE CompleteFails(m)
            BY <3>5 DEF CompleteFails
        <3>6. CASE DiscardFile(m)
            BY <3>6 DEF DiscardFile
        <3>7. CASE DiscardFails(m)
            BY <3>7 DEF DiscardFails
        <3>8. CASE MarkFailed(m)
            BY <3>8 DEF MarkFailed
        <3>9. CASE AbandonUpload(m)
            BY <3>9 DEF AbandonUpload
        <3>10. CASE CommitUnanswered(m)
            BY <3>10 DEF CommitUnanswered
        <3> QED BY <1>1, <3>1, <3>2, <3>3, <3>4, <3>5, <3>6, <3>7, <3>8, <3>9, <3>10
                DEF UploadStep
    <2> QED BY <1>0, <2>1, MediaStepInv
<1>2. ASSUME NEW m \in Media, DeletionStep(m) PROVE Inv'
    <2>0. MediaOK(m)
        BY DEF Inv
    <2>1. MediaStep(m)
        <3> USE <1>0, <2>0 DEF TypeOK, DeletionSteps, Deleting, MediaOK, Settled, MediaStep
        <3>1. CASE RequireReady(m)
            BY <3>1 DEF RequireReady, Ready
        <3>2. CASE DeleteRecord(m)
            BY <3>2 DEF DeleteRecord, Ready
        <3>3. CASE DeleteFile(m)
            BY <3>3 DEF DeleteFile
        <3>4. CASE AbandonDeletion(m)
            BY <3>4 DEF AbandonDeletion
        <3> QED BY <1>2, <3>1, <3>2, <3>3, <3>4 DEF DeletionStep
    <2> QED BY <1>0, <2>1, MediaStepInv
<1>3. ASSUME NEW d \in Docs, DocumentStep(d) PROVE Inv'
    <2>1. UNCHANGED <<records, files, upload, deletion, backup, unanswered>>
        BY <1>3 DEF DocumentStep, SaveDraft, Publish, Unpublish, Purge
    <2>2. (\A m \in Media : MediaOK(m)') /\ BackupOK'
        BY <2>1 DEF Inv, MediaOK, BackupOK, BackupHasWhatStays, Settled, Ready
    <2>3. documents'[d].working \in {documents[d].working} \cup SUBSET Ready
        <3> USE <1>0 DEF TypeOK
        <3>1. ASSUME NEW R \in SUBSET Media, SaveDraft(d, R)
              PROVE  documents'[d].working \in SUBSET Ready
            BY <3>1 DEF SaveDraft, Acceptable
        <3>2. CASE Publish(d)
            BY <3>2 DEF Publish
        <3>3. CASE Unpublish(d)
            BY <3>3 DEF Unpublish
        <3>4. CASE Purge(d)
            BY <3>4 DEF Purge
        <3> QED BY <1>3, <3>1, <3>2, <3>3, <3>4 DEF DocumentStep
    <2>4. \A x \in Docs \ {d} : documents'[x] = documents[x]
        BY <1>0, <1>3 DEF TypeOK, DocumentStep, SaveDraft, Publish, Unpublish, Purge
    <2>5. \A x \in Docs : documents'[x].working \subseteq Ready
        BY <2>3, <2>4 DEF Inv
    <2> QED BY <1>0, <2>1, <2>2, <2>5 DEF Inv, Ready
<1>4. CASE DumpDatabase
    <2>1. UNCHANGED <<records, files, upload, deletion, documents, edges, unanswered>>
        BY <1>4 DEF DumpDatabase
    <2>2. backup'.step = "dumped" /\ backup'.ready = Ready
        BY <1>0, <1>4 DEF DumpDatabase, TypeOK
    <2>3. \A m \in Ready : Settled(m)
        BY DEF Inv, MediaOK, Settled, Ready
    <2>4. BackupOK'
        BY <2>1, <2>2, <2>3 DEF BackupOK, BackupHasWhatStays, Settled
    <2> QED BY <1>0, <2>1, <2>4 DEF Inv, MediaOK, Ready
<1>5. CASE ArchiveMedia
    <2>1. UNCHANGED <<records, files, upload, deletion, documents, edges, unanswered>>
        BY <1>5 DEF ArchiveMedia
    <2>2. backup'.ready = backup.ready /\ backup'.files = files
        BY <1>0, <1>5 DEF ArchiveMedia, TypeOK
    <2>3. Ready' \subseteq files \cup unanswered
        BY <2>1 DEF Inv, MediaOK, Ready
    <2>4. BackupOK'
        BY <2>1, <2>2, <2>3 DEF Inv, BackupOK, BackupHasWhatStays, Settled
    <2> QED BY <1>0, <2>1, <2>4 DEF Inv, MediaOK, Ready
<1>6. CASE UNCHANGED vars
    BY <1>0, <1>6 DEF vars, Inv, MediaOK, BackupOK, BackupHasWhatStays, Settled, Ready
<1> QED BY <1>1, <1>2, <1>3, <1>4, <1>5, <1>6 DEF Next

\* The invariant holds in every reachable state, also when answers are lost.
THEOREM Invariance == Spec => []Inv
BY InitInv, NextInv, PTL DEF Spec

\* A record that is ready has its file: no request for a media that is ready can
\* find its bytes gone, whatever uploads and deletions were abandoned where, unless
\* its upload got no answer to the completing UPDATE and so may take them back.
THEOREM ReadyMediaHaveBytes == Spec => []ReadyHasBytes
<1>1. Inv => ReadyHasBytes
    BY DEF Inv, MediaOK, ReadyHasBytes, Ready
<1> QED BY Invariance, <1>1, PTL

\* What a saved document refers to can be served: the lock and the validation
\* of a save and the constraint on a deletion exclude one another, and what cleans
\* up behind a failed upload never touches a record that is ready.
THEOREM SavedMediaAreServed == Spec => []WorkingIsServed
<1>1. Inv => WorkingIsServed
    BY DEF Inv, MediaOK, WorkingIsServed, Ready
<1> QED BY Invariance, <1>1, PTL

\* A backup made beside a running server has the bytes of every media in its
\* dump that nobody deleted and whose completing UPDATE was answered.
THEOREM BackupsHaveWhatStays == Spec => []BackupHasWhatStays
<1>1. Inv => BackupHasWhatStays
    BY DEF Inv, BackupOK
<1> QED BY Invariance, <1>1, PTL

\* Records, reference rows, files and backups agree in every reachable state.
THEOREM LibraryStaysWhole == Spec => []LibraryIsWhole
<1>1. TypeOK /\ ReadyHasBytes /\ WorkingIsServed /\ BackupHasWhatStays => LibraryIsWhole
    BY DEF LibraryIsWhole
<1> QED BY TypeCorrect, ReadyMediaHaveBytes, SavedMediaAreServed, BackupsHaveWhatStays, <1>1, PTL

-----------------------------------------------------------------------------
(* Admin apps. *)

ManifestType == [key : {m.key : m \in Manifests}, realm : {m.realm : m \in Manifests},
                 pages : {m.pages : m \in Manifests}]
RevisionType == [manifest : Manifests, parent : Nat]
AppType == [key : {m.key : m \in Manifests}, realm : {m.realm : m \in Manifests},
            archived : BOOLEAN, active : Nat, route : Nat, revisions : Seq(RevisionType)]
DraftType == [base : Nat, version : Nat, manifest : Manifests, serial : Nat]
Nodes == {"app"} \cup UNION {m.pages : m \in Manifests}

\* The rows of apps, drafts and resources have the columns they should have; an
\* id is used once, and an app points to a revision it has.
AppRowsOK ==
    /\ app \in [DOMAIN app -> AppType]
    /\ draft \in [DOMAIN draft -> DraftType]
    /\ made \in [DOMAIN made -> Nat]
    /\ DOMAIN draft \subseteq DOMAIN app /\ DOMAIN app \subseteq DOMAIN made
    /\ DOMAIN made \subseteq AppIds
    /\ \A a \in DOMAIN app : app[a].active \in 0..Len(app[a].revisions)
    /\ \A a \in DOMAIN draft : draft[a].serial = made[a]
    /\ appResource \subseteq
         [app : AppIds, realm : {m.realm : m \in Manifests}, node : Nodes]

\* What is inductive of AppsAreWhole.
AppsInv == AppRowsOK /\ AppsAreWhole

LEMMA RowType ==
    ASSUME NEW T, NEW f, f \in [DOMAIN f -> T], NEW a, NEW v \in T
    PROVE  Row(f, a, v) \in [DOMAIN f \cup {a} -> T]
BY DEF Row

LEMMA DeleteType ==
    ASSUME NEW T, NEW f, f \in [DOMAIN f -> T], NEW a
    PROVE  Delete(f, a) \in [DOMAIN f \ {a} -> T]
BY DEF Delete

LEMMA AppsInitInv == AppsInit => AppsInv
<1> SUFFICES ASSUME AppsInit PROVE AppsInv
    OBVIOUS
<1>1. DOMAIN app = {} /\ DOMAIN draft = {} /\ DOMAIN made = {}
    BY DEF AppsInit
<1>2. app \in [DOMAIN app -> AppType] /\ draft \in [DOMAIN draft -> DraftType]
      /\ made \in [DOMAIN made -> Nat]
    BY <1>1 DEF AppsInit
<1> QED BY <1>1, <1>2
        DEF AppsInit, AppsInv, AppRowsOK, AppsAreWhole, RoutesAreReserved, ResourcesFollowRevisions

\* createAppDraft: the id is new, so nothing of it is there.
LEMMA CreateAppInv ==
    ASSUME AppsInv, NEW a \in AppIds, NEW m \in Manifests, CreateApp(a, m)
    PROVE  AppsInv'
<1> DEFINE entry == [key |-> m.key, realm |-> m.realm, archived |-> FALSE,
                   active |-> 0, route |-> 1, revisions |-> <<>>]
           new == [base |-> 0, version |-> 1, manifest |-> m, serial |-> 1]
<1>1. entry \in AppType /\ new \in DraftType
    BY DEF AppType, DraftType
<1>2. a \notin DOMAIN app /\ a \notin DOMAIN draft
    BY DEF CreateApp, AppsInv, AppRowsOK
<1>3. app' = Row(app, a, entry) /\ draft' = Row(draft, a, new) /\ made' = Row(made, a, 1)
      /\ appResource' = appResource /\ roleBinding' = roleBinding
    BY DEF CreateApp
<1> HIDE DEF entry, new
<1>4. /\ DOMAIN app' = DOMAIN app \cup {a} /\ app'[a] = entry
      /\ \A x \in DOMAIN app : app'[x] = app[x]
      /\ app' \in [DOMAIN app' -> AppType]
    <2>1. app \in [DOMAIN app -> AppType]
        BY DEF AppsInv, AppRowsOK
    <2>2. Row(app, a, entry) \in [DOMAIN app \cup {a} -> AppType]
        BY <1>1, <2>1, RowType
    <2>3. /\ DOMAIN Row(app, a, entry) = DOMAIN app \cup {a} /\ Row(app, a, entry)[a] = entry
          /\ \A x \in DOMAIN app : x # a => Row(app, a, entry)[x] = app[x]
        BY DEF Row
    <2>4. DOMAIN app' = DOMAIN app \cup {a} /\ app'[a] = entry
        BY <1>3, <2>3
    <2>5. \A x \in DOMAIN app : x # a => app'[x] = app[x]
        BY <1>3, <2>3
    <2>6. app' \in [DOMAIN app' -> AppType]
        BY <1>3, <2>2, <2>4
    <2> QED BY <1>2, <2>1, <2>4, <2>5, <2>6
<1>5. /\ DOMAIN draft' = DOMAIN draft \cup {a} /\ draft'[a] = new
      /\ \A x \in DOMAIN draft : draft'[x] = draft[x]
      /\ draft' \in [DOMAIN draft' -> DraftType]
    <2>1. draft \in [DOMAIN draft -> DraftType]
        BY DEF AppsInv, AppRowsOK
    <2>2. Row(draft, a, new) \in [DOMAIN draft \cup {a} -> DraftType]
        BY <1>1, <2>1, RowType
    <2>3. /\ DOMAIN Row(draft, a, new) = DOMAIN draft \cup {a} /\ Row(draft, a, new)[a] = new
          /\ \A x \in DOMAIN draft : x # a => Row(draft, a, new)[x] = draft[x]
        BY DEF Row
    <2>4. DOMAIN draft' = DOMAIN draft \cup {a} /\ draft'[a] = new
        BY <1>3, <2>3
    <2>5. \A x \in DOMAIN draft : x # a => draft'[x] = draft[x]
        BY <1>3, <2>3
    <2>6. draft' \in [DOMAIN draft' -> DraftType]
        BY <1>3, <2>2, <2>4
    <2> QED BY <1>2, <2>1, <2>4, <2>5, <2>6
<1>6. /\ DOMAIN made' = DOMAIN made \cup {a} /\ made'[a] = 1
      /\ \A x \in DOMAIN draft : made'[x] = made[x]
      /\ made' \in [DOMAIN made' -> Nat]
    <2>1. made \in [DOMAIN made -> Nat] /\ DOMAIN draft \subseteq DOMAIN made
        BY DEF AppsInv, AppRowsOK
    <2>2. Row(made, a, 1) \in [DOMAIN made \cup {a} -> Nat]
        BY <2>1, RowType
    <2>3. /\ DOMAIN Row(made, a, 1) = DOMAIN made \cup {a} /\ Row(made, a, 1)[a] = 1
          /\ \A x \in DOMAIN made : x # a => Row(made, a, 1)[x] = made[x]
        BY DEF Row
    <2>4. DOMAIN made' = DOMAIN made \cup {a} /\ made'[a] = 1
        BY <1>3, <2>3
    <2>5. \A x \in DOMAIN made : x # a => made'[x] = made[x]
        BY <1>3, <2>3
    <2>6. made' \in [DOMAIN made' -> Nat]
        BY <1>3, <2>2, <2>4
    <2> QED BY <1>2, <2>1, <2>4, <2>5, <2>6
<1>r. entry.active = 0 /\ entry.key = m.key /\ entry.revisions = <<>> /\ new.base = 0 /\ new.serial = 1
      /\ new.manifest = m
    BY DEF entry, new
<1>7. AppRowsOK'
    <2>1. \A x \in DOMAIN app' : app'[x].active \in 0..Len(app'[x].revisions)
        BY <1>4, <1>r DEF AppsInv, AppRowsOK
    <2>2. \A x \in DOMAIN draft' : draft'[x].serial = made'[x]
        BY <1>5, <1>6, <1>2, <1>r DEF AppsInv, AppRowsOK
    <2> QED BY <2>1, <2>2, <1>3, <1>4, <1>5, <1>6 DEF AppsInv, AppRowsOK
<1>8. RoutesAreReserved'
    <2>1. Reserved(a)' = {m.key}
        BY <1>4, <1>5, <1>r DEF Reserved
    <2>2. \A x \in DOMAIN app : Reserved(x)' = Reserved(x)
        BY <1>2, <1>4, <1>5 DEF Reserved
    <2>3. \A x \in DOMAIN app : m.key \notin Reserved(x)
        BY <1>2 DEF CreateApp, RouteIsFree, Reserved
    <2>4. \A x, y \in DOMAIN app' : x # y => Reserved(x)' \cap Reserved(y)' = {}
        BY <2>1, <2>2, <2>3, <1>4 DEF AppsInv, AppsAreWhole, RoutesAreReserved
    <2>5. \A x \in DOMAIN draft' : x \in DOMAIN app' /\ draft'[x].base = app'[x].active
        BY <1>4, <1>5, <1>2, <1>r DEF AppsInv, AppsAreWhole, RoutesAreReserved
    <2> QED BY <2>4, <2>5 DEF RoutesAreReserved
<1>9. ResourcesFollowRevisions'
    <2>1. ASSUME NEW x \in DOMAIN app', app'[x].active # 0
          PROVE  LET m0 == app'[x].revisions[app'[x].active].manifest
                 IN app'[x].key = m0.key /\ app'[x].realm = m0.realm /\ ResourcesOf(x, m0) \subseteq appResource'
        <3>1. x \in DOMAIN app /\ app'[x] = app[x]
            BY <2>1, <1>4, <1>r
        <3> QED BY <2>1, <3>1, <1>3 DEF AppsInv, AppsAreWhole, ResourcesFollowRevisions
    <2>2. \A b \in roleBinding' : b.resource \in appResource'
        BY <1>3 DEF AppsInv, AppsAreWhole, ResourcesFollowRevisions
    <2>3. \A r \in appResource' : /\ r.app \in DOMAIN app' /\ app'[r.app].active # 0
                                  /\ r.realm = app'[r.app].realm
        BY <1>3, <1>4 DEF AppsInv, AppsAreWhole, ResourcesFollowRevisions
    <2>4. \A x, m0 : ResourcesOf(x, m0)' = ResourcesOf(x, m0)
        BY DEF ResourcesOf
    <2> QED BY <2>1, <2>2, <2>3 DEF ResourcesFollowRevisions, ResourcesOf
<1> QED BY <1>7, <1>8, <1>9 DEF AppsInv, AppsAreWhole

\* createDraft and saveDraft: a draft wants a route nobody else has.
LEMMA DraftInv ==
    ASSUME AppsInv, NEW a \in DOMAIN app, NEW d \in DraftType,
           d.base = app[a].active, d.serial = made'[a], made'[a] \in Nat,
           RouteIsFree(a, d.manifest.key),
           DOMAIN draft' = DOMAIN draft \cup {a}, draft' \in [DOMAIN draft' -> DraftType],
           draft'[a] = d, \A x \in DOMAIN draft \ {a} : draft'[x] = draft[x],
           made' \in [DOMAIN made -> Nat], \A x \in DOMAIN made \ {a} : made'[x] = made[x],
           UNCHANGED <<app, appResource, roleBinding>>
    PROVE  AppsInv'
<1>1. AppRowsOK'
    BY DEF AppsInv, AppRowsOK
<1>2. RoutesAreReserved'
    <2>1. Reserved(a)' = {app[a].key, d.manifest.key}
        BY DEF Reserved
    <2>2. \A x \in DOMAIN app \ {a} : Reserved(x)' = Reserved(x)
        BY DEF Reserved
    <2>3. \A x \in DOMAIN app \ {a} : app[a].key \notin Reserved(x) /\ d.manifest.key \notin Reserved(x)
        BY DEF AppsInv, AppsAreWhole, RoutesAreReserved, RouteIsFree, Reserved
    <2>4. \A x, y \in DOMAIN app' : x # y => Reserved(x)' \cap Reserved(y)' = {}
        BY <2>1, <2>2, <2>3 DEF AppsInv, AppsAreWhole, RoutesAreReserved
    <2>5. \A x \in DOMAIN draft' : x \in DOMAIN app' /\ draft'[x].base = app'[x].active
        BY DEF AppsInv, AppsAreWhole, RoutesAreReserved
    <2> QED BY <2>4, <2>5 DEF RoutesAreReserved
<1>3. ResourcesFollowRevisions'
    BY DEF AppsInv, AppsAreWhole, ResourcesFollowRevisions, ResourcesOf
<1> QED BY <1>1, <1>2, <1>3 DEF AppsInv, AppsAreWhole

LEMMA CreateDraftInv ==
    ASSUME AppsInv, NEW a, CreateDraft(a)
    PROVE  AppsInv'
<1> DEFINE m == app[a].revisions[app[a].active].manifest
           new == [base |-> app[a].active, version |-> 1, manifest |-> m, serial |-> made[a] + 1]
<1>1. a \in DOMAIN app /\ a \in DOMAIN made /\ app[a].active # 0
      /\ draft' = Row(draft, a, new) /\ made' = [made EXCEPT ![a] = @ + 1] /\ RouteIsFree(a, m.key)
      /\ UNCHANGED <<app, appResource, roleBinding>>
    BY DEF CreateDraft, Editable, AppsInv, AppRowsOK
<1>2. made \in [DOMAIN made -> Nat] /\ app[a] \in AppType
      /\ draft \in [DOMAIN draft -> DraftType] /\ app[a].active \in 0..Len(app[a].revisions)
    BY <1>1 DEF AppsInv, AppRowsOK
<1>3. m \in Manifests
    <2>1. app[a].revisions \in Seq(RevisionType) /\ app[a].active \in Nat
        BY <1>2 DEF AppType
    <2>2. app[a].active \in 1..Len(app[a].revisions)
        BY <1>1, <1>2, <2>1
    <2>3. app[a].revisions[app[a].active] \in RevisionType
        BY <2>1, <2>2
    <2> QED BY <2>3 DEF RevisionType
<1>4. made'[a] = made[a] + 1 /\ made[a] \in Nat
    BY <1>1, <1>2
<1>5. new \in DraftType
    BY <1>2, <1>3, <1>4 DEF DraftType, AppType
<1>6. new.base = app[a].active /\ new.serial = made'[a] /\ new.manifest = m
    BY <1>4
<1> HIDE DEF new, m
<1>7. DOMAIN draft' = DOMAIN draft \cup {a} /\ draft'[a] = new
      /\ \A x \in DOMAIN draft \ {a} : draft'[x] = draft[x]
    BY <1>1 DEF Row
<1>8. draft' \in [DOMAIN draft' -> DraftType]
    BY <1>1, <1>2, <1>5 DEF Row
<1>9. made' \in [DOMAIN made -> Nat] /\ \A x \in DOMAIN made \ {a} : made'[x] = made[x]
    BY <1>1, <1>2
<1> QED BY <1>1, <1>4, <1>5, <1>6, <1>7, <1>8, <1>9, DraftInv

\* What a save leaves of the row of a draft.
LEMMA SavedDraft ==
    ASSUME NEW d \in DraftType, NEW m \in Manifests,
           NEW w, w = [d EXCEPT !.version = @ + 1, !.manifest = m]
    PROVE  w \in DraftType
<1>1. w = [base |-> d.base, version |-> d.version + 1, manifest |-> m, serial |-> d.serial]
    BY DEF DraftType
<1> QED BY <1>1 DEF DraftType

LEMMA SaveAppDraftInv ==
    ASSUME AppsInv, NEW a, NEW m \in Manifests, SaveAppDraft(a, m)
    PROVE  AppsInv'
<1>1. a \in DOMAIN app /\ a \in DOMAIN draft /\ draft[a].base = app[a].active /\ RouteIsFree(a, m.key)
      /\ UNCHANGED <<app, appResource, roleBinding, made>>
    BY DEF SaveAppDraft, Editable
<1>2. draft[a] \in DraftType /\ draft \in [DOMAIN draft -> DraftType] /\ draft[a].serial = made[a]
      /\ made \in [DOMAIN made -> Nat] /\ a \in DOMAIN made
    BY <1>1 DEF AppsInv, AppRowsOK
<1>3. PICK d \in DraftType : d = draft[a]
    BY <1>2
<1>n. PICK new : new = [d EXCEPT !.version = @ + 1, !.manifest = m]
    OBVIOUS
<1>4. draft' = [draft EXCEPT ![a] = new]
    BY <1>1, <1>3, <1>n DEF SaveAppDraft
<1>5. new \in DraftType /\ new.base = app[a].active /\ new.serial = made'[a] /\ new.manifest = m
      /\ made'[a] \in Nat
    <2>1. new \in DraftType
        BY <1>3, <1>n, SavedDraft
    <2>2. new.base = d.base /\ new.serial = d.serial /\ new.manifest = m
        BY <1>3, <1>n DEF DraftType
    <2> QED BY <2>1, <2>2, <1>1, <1>2, <1>3
<1>6. DOMAIN draft' = DOMAIN draft \cup {a} /\ draft'[a] = new
      /\ (\A x \in DOMAIN draft \ {a} : draft'[x] = draft[x])
      /\ draft' \in [DOMAIN draft' -> DraftType]
    BY <1>1, <1>2, <1>4, <1>5
<1>7. made' \in [DOMAIN made -> Nat] /\ \A x \in DOMAIN made \ {a} : made'[x] = made[x]
    BY <1>1, <1>2
<1> QED BY <1>1, <1>5, <1>6, <1>7, DraftInv

LEMMA DiscardDraftInv ==
    ASSUME AppsInv, NEW a, DiscardDraft(a)
    PROVE  AppsInv'
<1>1. draft' = Delete(draft, a) /\ UNCHANGED <<app, appResource, roleBinding, made>>
    BY DEF DiscardDraft
<1>2. DOMAIN draft' = DOMAIN draft \ {a} /\ \A x \in DOMAIN draft' : draft'[x] = draft[x]
    BY <1>1 DEF Delete
<1>3. draft' \in [DOMAIN draft' -> DraftType]
    BY <1>1 DEF Delete, AppsInv, AppRowsOK
<1>4. AppRowsOK'
    BY <1>1, <1>2, <1>3 DEF AppsInv, AppRowsOK
<1>5. \A x \in DOMAIN app : Reserved(x)' \subseteq Reserved(x)
    BY <1>1, <1>2 DEF Reserved
<1>6. RoutesAreReserved'
    BY <1>1, <1>2, <1>5 DEF AppsInv, AppsAreWhole, RoutesAreReserved
<1>7. ResourcesFollowRevisions'
    BY <1>1 DEF AppsInv, AppsAreWhole, ResourcesFollowRevisions, ResourcesOf
<1> QED BY <1>4, <1>6, <1>7 DEF AppsInv, AppsAreWhole

\* Nothing is bound on an app that was never applied, so nothing is left of it.
LEMMA DeleteUnappliedAppInv ==
    ASSUME AppsInv, NEW a, DeleteUnappliedApp(a)
    PROVE  AppsInv'
<1>1. app' = Delete(app, a) /\ draft' = Delete(draft, a) /\ UNCHANGED <<appResource, roleBinding, made>>
      /\ app[a].active = 0
    BY DEF DeleteUnappliedApp
<1>2. DOMAIN draft' = DOMAIN draft \ {a} /\ \A x \in DOMAIN draft' : draft'[x] = draft[x]
    BY <1>1 DEF Delete
<1>3. DOMAIN app' = DOMAIN app \ {a} /\ \A x \in DOMAIN app' : app'[x] = app[x]
    BY <1>1 DEF Delete
<1>4. draft' \in [DOMAIN draft' -> DraftType] /\ app' \in [DOMAIN app' -> AppType]
    BY <1>1 DEF Delete, AppsInv, AppRowsOK
<1>5. AppRowsOK'
    BY <1>1, <1>2, <1>3, <1>4 DEF AppsInv, AppRowsOK
<1>6. \A x \in DOMAIN app' : Reserved(x)' \subseteq Reserved(x)
    BY <1>2, <1>3 DEF Reserved
<1>7. RoutesAreReserved'
    BY <1>2, <1>3, <1>6 DEF AppsInv, AppsAreWhole, RoutesAreReserved
<1>8. ResourcesFollowRevisions'
    BY <1>1, <1>3 DEF AppsInv, AppsAreWhole, ResourcesFollowRevisions, ResourcesOf
<1> QED BY <1>5, <1>7, <1>8 DEF AppsInv, AppsAreWhole

\* What an activation leaves of the row of an app.
LEMMA ActivatedRow ==
    ASSUME NEW x \in AppType, NEW m \in Manifests, NEW revisions \in Seq(RevisionType),
           NEW r \in Nat, NEW n \in Nat,
           NEW w, w = [x EXCEPT !.key = m.key, !.realm = m.realm,
                                !.revisions = revisions, !.active = r, !.route = n]
    PROVE  w \in AppType
<1>1. w = [key |-> m.key, realm |-> m.realm, archived |-> x.archived, active |-> r,
           route |-> n, revisions |-> revisions]
    <2>1. DOMAIN w = {"key", "realm", "archived", "active", "route", "revisions"}
        BY DEF AppType
    <2> QED BY <2>1 DEF AppType
<1> QED BY <1>1 DEF AppType

\* applyDraft and activateRevision: the resources follow the revision into the
\* realm of its audience, and what was bound keeps what it is bound on.
LEMMA ActivatedInv ==
    ASSUME AppsInv, NEW a \in DOMAIN app, NEW revisions \in Seq(RevisionType), NEW r \in DOMAIN revisions,
           NEW m \in Manifests, m = revisions[r].manifest,
           RouteIsFree(a, m.key), Syncable(a, m), SyncAppResources(a, m),
           app' = Activated(a, revisions, r),
           DOMAIN draft' = DOMAIN draft \ {a}, \A x \in DOMAIN draft' : draft'[x] = draft[x],
           draft' \in [DOMAIN draft' -> DraftType],
           UNCHANGED <<roleBinding, made>>
    PROVE  AppsInv'
<1>1. app \in [DOMAIN app -> AppType]
    BY DEF AppsInv, AppRowsOK
<1>x. PICK before \in AppType : before = app[a]
    BY <1>1
<1>n. PICK n \in Nat : n = app[a].route + 1
    BY <1>x DEF AppType
<1>w. PICK entry : entry = [before EXCEPT !.key = m.key, !.realm = m.realm,
                                 !.revisions = revisions, !.active = r, !.route = n]
    OBVIOUS
<1>2. app' = [app EXCEPT ![a] = entry]
    BY <1>1, <1>x, <1>n, <1>w DEF Activated
<1>3. r \in Nat /\ r # 0 /\ r \in 0..Len(revisions)
    OBVIOUS
<1>4. entry \in AppType /\ entry.active = r /\ entry.key = m.key /\ entry.realm = m.realm
      /\ entry.revisions = revisions
    <2>1. r \in Nat
        BY <1>3
    <2>2. entry \in AppType
        BY <2>1, <1>x, <1>n, <1>w, ActivatedRow
    <2>3. entry.active = r /\ entry.key = m.key /\ entry.realm = m.realm /\ entry.revisions = revisions
        BY <1>x, <1>w DEF AppType
    <2> QED BY <2>2, <2>3
<1>5. entry.active = r /\ entry.key = m.key /\ entry.realm = m.realm /\ entry.revisions = revisions
    BY <1>4
<1>6. /\ DOMAIN app' = DOMAIN app /\ app'[a] = entry
      /\ \A x \in DOMAIN app \ {a} : app'[x] = app[x]
      /\ app' \in [DOMAIN app' -> AppType]
    BY <1>1, <1>2, <1>4
<1>7. ResourcesOf(a, m) \subseteq [app : AppIds, realm : {x.realm : x \in Manifests}, node : Nodes]
    BY DEF ResourcesOf, Nodes, AppsInv, AppRowsOK
<1>8. AppRowsOK'
    <2>1. appResource' \subseteq [app : AppIds, realm : {x.realm : x \in Manifests}, node : Nodes]
        BY <1>7 DEF SyncAppResources, Staying, AppsInv, AppRowsOK
    <2>2. \A x \in DOMAIN app' : app'[x].active \in 0..Len(app'[x].revisions)
        BY <1>3, <1>5, <1>6 DEF AppsInv, AppRowsOK
    <2> QED BY <2>1, <2>2, <1>6 DEF AppsInv, AppRowsOK
<1>9. RoutesAreReserved'
    <2>1. Reserved(a)' = {m.key}
        BY <1>5, <1>6 DEF Reserved
    <2>2. \A x \in DOMAIN app \ {a} : Reserved(x)' = Reserved(x)
        BY <1>6 DEF Reserved
    <2>3. \A x \in DOMAIN app \ {a} : m.key \notin Reserved(x)
        BY DEF RouteIsFree, Reserved
    <2>4. \A x, y \in DOMAIN app' : x # y => Reserved(x)' \cap Reserved(y)' = {}
        BY <2>1, <2>2, <2>3, <1>6 DEF AppsInv, AppsAreWhole, RoutesAreReserved
    <2>5. \A x \in DOMAIN draft' : x \in DOMAIN app' /\ draft'[x].base = app'[x].active
        BY <1>6 DEF AppsInv, AppsAreWhole, RoutesAreReserved
    <2> QED BY <2>4, <2>5 DEF RoutesAreReserved
<1>10. \A x \in appResource' : x.app = a => x.realm = m.realm
    <2>a. \A x \in ResourcesOf(a, m) : x.realm = m.realm
        BY DEF ResourcesOf
    <2> SUFFICES ASSUME NEW x \in appResource, x \in Staying(a, m), x.app = a, x.realm # m.realm
                 PROVE  FALSE
        BY <2>a DEF SyncAppResources, Staying
    <2>1. x = [app |-> a, realm |-> x.realm, node |-> x.node]
        BY DEF AppsInv, AppRowsOK
    <2>2. app[a].active # 0 /\ x.realm = app[a].realm
        BY DEF AppsInv, AppsAreWhole, ResourcesFollowRevisions
    <2>3. [app |-> a, realm |-> x.realm, node |-> "app"] \in appResource
        BY <2>2 DEF AppsInv, AppsAreWhole, ResourcesFollowRevisions, ResourcesOf
    <2>4. [x EXCEPT !.node = "app"] = [app |-> a, realm |-> x.realm, node |-> "app"]
        BY <2>1
    <2>5. x \in MovedAway(a, m.realm)
        BY <2>3, <2>4 DEF MovedAway
    <2> QED BY <2>5 DEF Staying
<1>11. \A x \in appResource' : x.app # a => x \in appResource
    BY DEF SyncAppResources, ResourcesOf, Staying
<1>12. \A x \in appResource : x.app # a => x \in appResource'
    BY DEF SyncAppResources, Staying, MovedAway
<1>13. ResourcesFollowRevisions'
    <2>1. ASSUME NEW x \in DOMAIN app', app'[x].active # 0
          PROVE  LET m0 == app'[x].revisions[app'[x].active].manifest
                 IN app'[x].key = m0.key /\ app'[x].realm = m0.realm /\ ResourcesOf(x, m0) \subseteq appResource'
        <3>1. CASE x = a
            BY <3>1, <1>5, <1>6 DEF SyncAppResources
        <3>2. CASE x # a
            <4> DEFINE m0 == app[x].revisions[app[x].active].manifest
            <4>1. app[x].key = m0.key /\ app[x].realm = m0.realm /\ ResourcesOf(x, m0) \subseteq appResource
                BY <2>1, <3>2, <1>6 DEF AppsInv, AppsAreWhole, ResourcesFollowRevisions
            <4>2. \A y \in ResourcesOf(x, m0) : y.app = x
                BY DEF ResourcesOf
            <4>3. ResourcesOf(x, m0) \subseteq appResource'
                BY <4>1, <4>2, <3>2, <1>12
            <4> QED BY <4>1, <4>3, <3>2, <1>6
        <3> QED BY <3>1, <3>2
    <2>2. \A b \in roleBinding' : b.resource \in appResource'
        BY DEF Syncable, SyncAppResources
    <2>3. \A x \in appResource' : /\ x.app \in DOMAIN app' /\ app'[x.app].active # 0
                                  /\ x.realm = app'[x.app].realm
        BY <1>3, <1>5, <1>6, <1>10, <1>11 DEF AppsInv, AppsAreWhole, ResourcesFollowRevisions
    <2> QED BY <2>1, <2>2, <2>3 DEF ResourcesFollowRevisions, ResourcesOf
<1> QED BY <1>8, <1>9, <1>13 DEF AppsInv, AppsAreWhole

\* Policy mutations and what authors look at change no app.
LEMMA AppsElsewhereInv ==
    ASSUME AppsInv, UNCHANGED <<app, draft, appResource, made>>,
           \A b \in roleBinding' : b \in roleBinding \/ b.resource \in appResource
    PROVE  AppsInv'
<1>1. AppRowsOK'
    BY DEF AppsInv, AppRowsOK
<1>2. \A x : Reserved(x)' = Reserved(x)
    BY DEF Reserved
<1>3. RoutesAreReserved'
    BY <1>2 DEF AppsInv, AppsAreWhole, RoutesAreReserved
<1>4. ResourcesFollowRevisions'
    BY DEF AppsInv, AppsAreWhole, ResourcesFollowRevisions, ResourcesOf
<1> QED BY <1>1, <1>3, <1>4 DEF AppsInv, AppsAreWhole

LEMMA ApplyDraftInv ==
    ASSUME AppsInv, NEW t, ApplyDraft(t)
    PROVE  AppsInv'
<1> DEFINE a == author[t].on
           d == draft[a]
           new == [manifest |-> d.manifest, parent |-> app[a].active]
           revisions == Append(app[a].revisions, new)
<1>1. CASE UNCHANGED <<app, draft, appResource>>
    <2>1. UNCHANGED <<roleBinding, made>>
        BY DEF ApplyDraft
    <2> QED BY <1>1, <2>1, AppsElsewhereInv
<1>2. CASE ~UNCHANGED <<app, draft, appResource>>
    <2>1. /\ a \in DOMAIN app /\ a \in DOMAIN draft /\ RouteIsFree(a, d.manifest.key)
          /\ Syncable(a, d.manifest) /\ SyncAppResources(a, d.manifest)
          /\ app' = Activated(a, revisions, Len(revisions)) /\ draft' = Delete(draft, a)
          /\ UNCHANGED <<roleBinding, made>>
        BY <1>2 DEF ApplyDraft, Editable
    <2>2. app[a] \in AppType /\ d \in DraftType
        BY <2>1 DEF AppsInv, AppRowsOK
    <2>3. new \in RevisionType
        BY <2>2 DEF AppType, DraftType, RevisionType
    <2>4. /\ revisions \in Seq(RevisionType) /\ Len(revisions) \in DOMAIN revisions
          /\ revisions[Len(revisions)] = new
        <3>1. app[a].revisions \in Seq(RevisionType)
            BY <2>2 DEF AppType
        <3> HIDE DEF new
        <3>2. revisions \in Seq(RevisionType)
            BY <2>3, <3>1
        <3>3. Len(revisions) = Len(app[a].revisions) + 1 /\ Len(app[a].revisions) \in Nat
            BY <3>1
        <3>4. revisions[Len(app[a].revisions) + 1] = new
            BY <3>1
        <3> HIDE DEF revisions
        <3> QED BY <3>2, <3>3, <3>4
    <2>5. d.manifest \in Manifests /\ d.manifest = revisions[Len(revisions)].manifest
        <3>1. new.manifest = d.manifest /\ d.manifest \in Manifests
            BY <2>2 DEF DraftType
        <3> HIDE DEF revisions, new
        <3> QED BY <2>4, <3>1
    <2>6. DOMAIN draft' = DOMAIN draft \ {a} /\ \A x \in DOMAIN draft' : draft'[x] = draft[x]
        BY <2>1 DEF Delete
    <2>7. draft' \in [DOMAIN draft' -> DraftType]
        BY <2>1 DEF Delete, AppsInv, AppRowsOK
    <2> HIDE DEF a, d, new, revisions
    <2> QED BY <2>1, <2>4, <2>5, <2>6, <2>7, ActivatedInv
<1> QED BY <1>1, <1>2

LEMMA ActivateRevisionInv ==
    ASSUME AppsInv, NEW a, NEW r, ActivateRevision(a, r)
    PROVE  AppsInv'
<1> DEFINE revisions == app[a].revisions
           m == revisions[r].manifest
<1>1. /\ a \in DOMAIN app /\ a \notin DOMAIN draft /\ r \in DOMAIN revisions
      /\ RouteIsFree(a, m.key) /\ Syncable(a, m) /\ SyncAppResources(a, m)
      /\ app' = Activated(a, revisions, r) /\ UNCHANGED <<draft, roleBinding, made>>
    BY DEF ActivateRevision, Editable
<1>2. app[a] \in AppType
    BY <1>1 DEF AppsInv, AppRowsOK
<1>3. revisions \in Seq(RevisionType)
    BY <1>2 DEF AppType
<1>4. revisions[r] \in RevisionType
    BY <1>1, <1>3
<1>5. m \in Manifests
    BY <1>4 DEF RevisionType
<1>6. DOMAIN draft' = DOMAIN draft \ {a} /\ (\A x \in DOMAIN draft' : draft'[x] = draft[x])
      /\ draft' \in [DOMAIN draft' -> DraftType]
    BY <1>1 DEF AppsInv, AppRowsOK
<1>7. m = revisions[r].manifest
    OBVIOUS
<1> HIDE DEF revisions, m
<1> QED BY <1>1, <1>3, <1>5, <1>6, <1>7, ActivatedInv

\* What archiving leaves of the row of an app.
LEMMA ArchivedRow ==
    ASSUME NEW x \in AppType, NEW c \in BOOLEAN,
           NEW w, w = [x EXCEPT !.archived = c, !.route = @ + 1]
    PROVE  w \in AppType
<1>1. w = [key |-> x.key, realm |-> x.realm, archived |-> c, active |-> x.active,
           route |-> x.route + 1, revisions |-> x.revisions]
    <2>1. DOMAIN w = {"key", "realm", "archived", "active", "route", "revisions"}
        BY DEF AppType
    <2> QED BY <2>1 DEF AppType
<1> QED BY <1>1 DEF AppType

LEMMA SetAppArchivedInv ==
    ASSUME AppsInv, NEW a, NEW c \in BOOLEAN, SetAppArchived(a, c)
    PROVE  AppsInv'
<1>1. a \in DOMAIN app /\ UNCHANGED <<draft, appResource, roleBinding, made>>
    BY DEF SetAppArchived
<1>2. app \in [DOMAIN app -> AppType]
    BY DEF AppsInv, AppRowsOK
<1>3. PICK x \in AppType : x = app[a]
    BY <1>1, <1>2
<1>4. PICK w : w = [x EXCEPT !.archived = c, !.route = @ + 1]
    OBVIOUS
<1>5. app' = [app EXCEPT ![a] = w]
    BY <1>1, <1>2, <1>3, <1>4 DEF SetAppArchived
<1>6. w \in AppType
    BY <1>3, <1>4, ArchivedRow
<1>7. w.key = app[a].key /\ w.realm = app[a].realm /\ w.active = app[a].active
      /\ w.revisions = app[a].revisions
    BY <1>3, <1>4 DEF AppType
<1>8. /\ DOMAIN app' = DOMAIN app /\ app' \in [DOMAIN app' -> AppType]
      /\ \A y \in DOMAIN app : /\ app'[y].key = app[y].key /\ app'[y].realm = app[y].realm
                               /\ app'[y].active = app[y].active
                               /\ app'[y].revisions = app[y].revisions
    BY <1>1, <1>2, <1>5, <1>6, <1>7
<1>9. AppRowsOK'
    BY <1>1, <1>8 DEF AppsInv, AppRowsOK
<1>10. \A y \in DOMAIN app : Reserved(y)' = Reserved(y)
    BY <1>1, <1>8 DEF Reserved
<1>11. RoutesAreReserved'
    BY <1>1, <1>8, <1>10 DEF AppsInv, AppsAreWhole, RoutesAreReserved
<1>12. ResourcesFollowRevisions'
    BY <1>1, <1>8 DEF AppsInv, AppsAreWhole, ResourcesFollowRevisions, ResourcesOf
<1> QED BY <1>9, <1>11, <1>12 DEF AppsInv, AppsAreWhole

LEMMA AppsNextInv == AppsInv /\ [AppsNext]_avars => AppsInv'
<1> SUFFICES ASSUME AppsInv, [AppsNext]_avars PROVE AppsInv'
    OBVIOUS
<1>1. ASSUME NEW a \in AppIds, AppRequest(a) PROVE AppsInv'
    <2>1. ASSUME NEW m \in Manifests, CreateApp(a, m) PROVE AppsInv'
        BY <2>1, CreateAppInv
    <2>2. ASSUME NEW m \in Manifests, SaveAppDraft(a, m) PROVE AppsInv'
        BY <2>2, SaveAppDraftInv
    <2>3. ASSUME NEW r \in 1..MaxRevisions, ActivateRevision(a, r) PROVE AppsInv'
        BY <2>3, ActivateRevisionInv
    <2>4. ASSUME NEW c \in BOOLEAN, SetAppArchived(a, c) PROVE AppsInv'
        BY <2>4, SetAppArchivedInv
    <2>5. CASE CreateDraft(a)
        BY <2>5, CreateDraftInv
    <2>6. CASE DiscardDraft(a)
        BY <2>6, DiscardDraftInv
    <2>7. CASE DeleteUnappliedApp(a)
        BY <2>7, DeleteUnappliedAppInv
    <2> QED BY <1>1, <2>1, <2>2, <2>3, <2>4, <2>5, <2>6, <2>7 DEF AppRequest
<1>2. ASSUME NEW t \in Authors, ApplyDraft(t) PROVE AppsInv'
    BY <1>2, ApplyDraftInv
<1>3. ASSUME NEW a \in AppIds, NEW t \in Authors, StartPreview(t, a) PROVE AppsInv'
    BY <1>3, AppsElsewhereInv DEF StartPreview
<1>4. ASSUME NEW t \in Authors, StartApply(t) PROVE AppsInv'
    BY <1>4, AppsElsewhereInv DEF StartApply
<1>5. ASSUME NEW t \in Authors, NEW table \in {"app", "draft"}, Look(t, table) PROVE AppsInv'
    BY <1>5, AppsElsewhereInv DEF Look
<1>6. ASSUME NEW r \in appResource, NEW role \in Roles, BindRole(r, role) PROVE AppsInv'
    BY <1>6, AppsElsewhereInv DEF BindRole
<1>7. ASSUME NEW b \in roleBinding, UnbindRole(b) PROVE AppsInv'
    BY <1>7, AppsElsewhereInv DEF UnbindRole
<1>8. CASE UNCHANGED avars
    BY <1>8, AppsElsewhereInv DEF avars
<1> QED BY <1>1, <1>2, <1>3, <1>4, <1>5, <1>6, <1>7, <1>8 DEF AppsNext

\* For any apps, authors and manifests, whatever is drafted, applied, rolled
\* back, archived, deleted and bound: no two apps claim one route, a draft is
\* based on the active revision, and resources are those of that revision.
THEOREM AppsStayWhole == AppsSpec => []AppsAreWhole
<1>1. AppsSpec => []AppsInv
    BY AppsInitInv, AppsNextInv, PTL DEF AppsSpec
<1>2. AppsInv => AppsAreWhole
    BY DEF AppsInv
<1> QED BY <1>1, <1>2, PTL

-----------------------------------------------------------------------------
(* Apply. *)

\* What was read of a draft is what the draft of that serial was at that version.
Held(look, d) ==
    /\ look.on \in DOMAIN made /\ look.serial <= made[look.on]
    /\ look.serial \in Nat /\ d.version \in Nat
    /\ look.on \in DOMAIN draft /\ draft[look.on].serial = look.serial =>
         /\ d.version <= draft[look.on].version
         /\ d.version = draft[look.on].version => d.manifest = draft[look.on].manifest

Steps == {"preview", "shown", "apply", "checked"}
IsLook(l) ==
    /\ l = [step |-> l.step, on |-> l.on, shown |-> l.shown, seen |-> l.seen, serial |-> l.serial]
    /\ l.step \in Steps
LookOK(l) ==
    \/ l = NoApply
    \/ /\ IsLook(l)
       /\ l.step \in {"preview", "apply"} /\ "draft" \in DOMAIN l.seen => Held(l, l.seen["draft"])
       /\ l.step = "shown" => l.seen = <<>>
       /\ l.step = "checked" => Held(l, l.shown["draft"])
AuthorsOK ==
    /\ DOMAIN author = Authors /\ author = [t \in Authors |-> author[t]]
    /\ \A t \in Authors : LookOK(author[t])

\* A draft that goes on keeps its serial, its version grows with every change,
\* and the serial of a new one was never given before.
DraftsGrow ==
    /\ \A a \in DOMAIN made : a \in DOMAIN made' /\ made[a] <= made'[a] /\ made'[a] \in Nat
    /\ \A a \in DOMAIN draft' : a \in DOMAIN made /\ draft'[a].serial <= made[a] =>
         /\ a \in DOMAIN draft /\ draft[a].serial = draft'[a].serial
         /\ draft[a].version <= draft'[a].version
         /\ draft[a].version = draft'[a].version => draft[a].manifest = draft'[a].manifest

LEMMA DraftsOnlyGrow ==
    ASSUME AppsInv, [AppsNext]_avars
    PROVE  DraftsGrow
<1>1. /\ \A a \in DOMAIN draft : draft[a].version \in Nat /\ draft[a].serial \in Nat
                                 /\ draft[a].serial = made[a]
      /\ \A a \in DOMAIN made : made[a] \in Nat
      /\ draft \in [DOMAIN draft -> DraftType] /\ made \in [DOMAIN made -> Nat]
      /\ DOMAIN draft \subseteq DOMAIN made
    BY DEF AppsInv, AppRowsOK, DraftType
<1>2. ASSUME DOMAIN draft' \subseteq DOMAIN draft, \A x \in DOMAIN draft' : draft'[x] = draft[x],
             made' = made
      PROVE  DraftsGrow
    BY <1>1, <1>2 DEF DraftsGrow
<1>3. ASSUME NEW a \in AppIds, NEW m \in Manifests, CreateApp(a, m) PROVE DraftsGrow
    <2>1. a \notin DOMAIN made /\ \E entry : draft' = Row(draft, a, entry) /\ made' = Row(made, a, 1)
        BY <1>3 DEF CreateApp
    <2>2. DOMAIN draft' = DOMAIN draft \cup {a} /\ \A x \in DOMAIN draft : x # a => draft'[x] = draft[x]
        BY <2>1 DEF Row
    <2>3. \A x \in DOMAIN made : x \in DOMAIN made' /\ made'[x] = made[x]
        BY <2>1 DEF Row
    <2> QED BY <1>1, <2>1, <2>2, <2>3 DEF DraftsGrow
<1>4. ASSUME NEW a \in AppIds, CreateDraft(a) PROVE DraftsGrow
    <2>1. PICK entry : /\ a \notin DOMAIN draft /\ draft' = Row(draft, a, entry)
                     /\ entry.serial = made[a] + 1 /\ made' = [made EXCEPT ![a] = @ + 1]
                     /\ a \in DOMAIN app
        BY <1>4 DEF CreateDraft, Editable
    <2>2. DOMAIN draft' = DOMAIN draft \cup {a} /\ draft'[a] = entry
          /\ \A x \in DOMAIN draft : x # a => draft'[x] = draft[x]
        BY <2>1 DEF Row
    <2>3. \A x \in DOMAIN made : x \in DOMAIN made' /\ made[x] <= made'[x] /\ made'[x] \in Nat
        BY <1>1, <2>1
    <2>4. a \in DOMAIN made
        BY <2>1 DEF AppsInv, AppRowsOK
    <2>5. ~(draft'[a].serial <= made[a])
        BY <1>1, <2>1, <2>2, <2>4
    <2> QED BY <1>1, <2>1, <2>2, <2>3, <2>5 DEF DraftsGrow
<1>5. ASSUME NEW a \in AppIds, NEW m \in Manifests, SaveAppDraft(a, m) PROVE DraftsGrow
    <2>1. a \in DOMAIN draft /\ made' = made
        BY <1>5 DEF SaveAppDraft
    <2>2. PICK d \in DraftType : d = draft[a]
        BY <1>1, <2>1
    <2>3. PICK new : new = [d EXCEPT !.version = @ + 1, !.manifest = m]
        OBVIOUS
    <2>4. draft' = [draft EXCEPT ![a] = new]
        BY <1>1, <1>5, <2>2, <2>3 DEF SaveAppDraft
    <2>5. new.serial = d.serial /\ new.version = d.version + 1 /\ d.version \in Nat
        BY <2>2, <2>3 DEF DraftType
    <2>6. DOMAIN draft' = DOMAIN draft /\ draft'[a] = new
          /\ \A x \in DOMAIN draft \ {a} : draft'[x] = draft[x]
        BY <2>1, <2>4
    <2> QED BY <1>1, <2>1, <2>2, <2>5, <2>6 DEF DraftsGrow
<1>6. ASSUME NEW a \in AppIds, DiscardDraft(a) PROVE DraftsGrow
    BY <1>6, <1>2 DEF DiscardDraft, Delete
<1>7. ASSUME NEW a \in AppIds, DeleteUnappliedApp(a) PROVE DraftsGrow
    BY <1>7, <1>2 DEF DeleteUnappliedApp, Delete
<1>8. ASSUME NEW t \in Authors, ApplyDraft(t) PROVE DraftsGrow
    <2>1. made' = made /\ (draft' = draft \/ draft' = Delete(draft, author[t].on))
        BY <1>8 DEF ApplyDraft
    <2> QED BY <2>1, <1>2 DEF Delete
<1>9. CASE UNCHANGED <<draft, made>>
    BY <1>9, <1>2
<1> QED BY <1>3, <1>4, <1>5, <1>6, <1>7, <1>8, <1>9
        DEF AppsNext, AppRequest, ActivateRevision, SetAppArchived, StartPreview, StartApply, Look,
            BindRole, UnbindRole, avars

\* What was read stays what the draft of that serial was.
LEMMA HeldStays ==
    ASSUME AppsInv, AppsInv', DraftsGrow, NEW look, NEW d, Held(look, d)
    PROVE  Held(look, d)'
<1> USE DEF Held
<1>1. look.on \in DOMAIN made' /\ look.serial <= made'[look.on]
    BY DEF DraftsGrow, AppsInv, AppRowsOK
<1>2. ASSUME look.on \in DOMAIN draft', draft'[look.on].serial = look.serial
      PROVE  /\ d.version <= draft'[look.on].version
             /\ d.version = draft'[look.on].version => d.manifest = draft'[look.on].manifest
    <2>1. /\ look.on \in DOMAIN draft /\ draft[look.on].serial = look.serial
          /\ draft[look.on].version <= draft'[look.on].version
          /\ draft[look.on].version = draft'[look.on].version =>
               draft[look.on].manifest = draft'[look.on].manifest
        BY <1>2 DEF DraftsGrow
    <2>2. draft[look.on].version \in Nat /\ draft'[look.on].version \in Nat
        BY <1>2, <2>1 DEF AppsInv, AppRowsOK, DraftType
    <2> QED BY <2>1, <2>2
<1> QED BY <1>1, <1>2

\* Others change drafts while an author looks.
LEMMA LookStaysOK ==
    ASSUME AppsInv, AppsInv', DraftsGrow, NEW l, LookOK(l)
    PROVE  LookOK(l)'
<1>1. CASE l = NoApply
    BY <1>1 DEF LookOK
<1>2. CASE IsLook(l) /\ l # NoApply
    <2>1. ASSUME l.step \in {"preview", "apply"}, "draft" \in DOMAIN l.seen
          PROVE  Held(l, l.seen["draft"])'
        BY <1>2, <2>1, HeldStays DEF LookOK
    <2>2. ASSUME l.step = "checked"
          PROVE  Held(l, l.shown["draft"])'
        BY <1>2, <2>2, HeldStays DEF LookOK
    <2>3. IsLook(l)'
        BY <1>2 DEF IsLook
    <2> QED BY <2>1, <2>2, <2>3 DEF LookOK
<1> QED BY <1>1, <1>2 DEF LookOK

\* The look of one author changes, and no row.
LEMMA OneAuthorLooks ==
    ASSUME AuthorsOK, UNCHANGED <<draft, made>>, NEW t \in Authors, NEW l,
           author' = [author EXCEPT ![t] = l], LookOK(l)
    PROVE  AuthorsOK'
<1>1. \A x : LookOK(x)' = LookOK(x)
    BY DEF LookOK, Held, IsLook
<1>2. author' = [x \in Authors |-> IF x = t THEN l ELSE author[x]]
    BY DEF AuthorsOK
<1> QED BY <1>1, <1>2 DEF AuthorsOK

LEMMA LookKeepsAuthors ==
    ASSUME AppsInv, AuthorsOK, NEW t \in Authors, NEW table \in {"app", "draft"}, Look(t, table)
    PROVE  AuthorsOK'
<1>0. PICK l : l = author[t]
    OBVIOUS
<1> DEFINE a == l.on
           entry == Rows(a)[table]
           look == [l EXCEPT !.seen = Row(@, table, entry),
                             !.serial = IF table = "draft" THEN draft[a].serial ELSE @]
           next == IF table \notin DOMAIN Rows(a) THEN NoApply
                   ELSE IF DOMAIN look.seen = {"app", "draft"} THEN Concluded(look)
                   ELSE look
<1>1. /\ l.step \in {"preview", "apply"} /\ table \notin DOMAIN l.seen
      /\ author' = [author EXCEPT ![t] = next]
      /\ UNCHANGED <<app, draft, appResource, roleBinding, made>>
    BY <1>0 DEF Look
<1>2. IsLook(l) /\ ("draft" \in DOMAIN l.seen => Held(l, l.seen["draft"]))
    BY <1>0, <1>1 DEF AuthorsOK, LookOK, NoApply
<1>3. LookOK(NoApply)
    BY DEF LookOK
<1>4. ASSUME table \in DOMAIN Rows(a)
      PROVE  /\ IsLook(look) /\ look.step = l.step /\ look.on = a /\ look.shown = l.shown
             /\ DOMAIN look.seen = DOMAIN l.seen \cup {table}
             /\ "draft" \in DOMAIN look.seen => Held(look, look.seen["draft"])
    <2>1. look = [step |-> l.step, on |-> l.on, shown |-> l.shown,
                  seen |-> Row(l.seen, table, entry),
                  serial |-> IF table = "draft" THEN draft[a].serial ELSE l.serial]
        <3>1. PICK sp, on, sh, sn, sr :
                 l = [step |-> sp, on |-> on, shown |-> sh, seen |-> sn, serial |-> sr]
            BY <1>2 DEF IsLook
        <3>2. PICK x, y : x = Row(l.seen, table, entry)
                          /\ y = IF table = "draft" THEN draft[a].serial ELSE l.serial
            OBVIOUS
        <3>3. PICK k : k = [l EXCEPT !.seen = x]
            OBVIOUS
        <3>4. k = [step |-> sp, on |-> on, shown |-> sh, seen |-> x, serial |-> sr]
            BY <3>1, <3>3
        <3>5. look = [k EXCEPT !.serial = y]
            BY <3>1, <3>2, <3>3
        <3>6. [k EXCEPT !.serial = y] = [step |-> sp, on |-> on, shown |-> sh, seen |-> x, serial |-> y]
            BY <3>4
        <3>7. sp = l.step /\ on = l.on /\ sh = l.shown
            BY <3>1
        <3> HIDE DEF look
        <3> QED BY <3>2, <3>5, <3>6, <3>7
    <2>2. IsLook(look) /\ look.step = l.step /\ look.on = a /\ look.shown = l.shown
          /\ look.seen = Row(l.seen, table, entry)
          /\ look.serial = IF table = "draft" THEN draft[a].serial ELSE l.serial
        BY <2>1, <1>2 DEF IsLook
    <2> HIDE DEF look
    <2>3. DOMAIN look.seen = DOMAIN l.seen \cup {table} /\ look.seen[table] = entry
          /\ \A x \in DOMAIN l.seen : x # table => look.seen[x] = l.seen[x]
        BY <2>2 DEF Row
    <2>4. ASSUME table = "draft" PROVE Held(look, look.seen["draft"])
        <3>1. a \in DOMAIN draft
            BY <1>4, <2>4 DEF Rows
        <3>2. draft[a] \in DraftType /\ a \in DOMAIN made /\ draft[a].serial = made[a]
            BY <3>1 DEF AppsInv, AppRowsOK
        <3>3. entry.version = draft[a].version /\ entry.manifest = draft[a].manifest
            BY <1>4, <2>4 DEF Rows
        <3> QED BY <2>2, <2>3, <2>4, <3>1, <3>2, <3>3 DEF Held, DraftType
    <2>5. ASSUME table = "app", "draft" \in DOMAIN look.seen PROVE Held(look, look.seen["draft"])
        <3>1. "draft" \in DOMAIN l.seen /\ look.seen["draft"] = l.seen["draft"]
            BY <2>3, <2>5
        <3> QED BY <2>2, <2>5, <3>1, <1>2 DEF Held
    <2> QED BY <2>2, <2>3, <2>4, <2>5
<1>5. ASSUME table \in DOMAIN Rows(a), DOMAIN look.seen = {"app", "draft"}
      PROVE  LookOK(Concluded(look))
    <2>1. PICK k : k = look
        OBVIOUS
    <2>2. IsLook(k) /\ k.step \in {"preview", "apply"} /\ Held(k, k.seen["draft"])
        BY <1>1, <1>4, <1>5, <2>1
    <2>3. CASE Concluded(k) = NoApply
        BY <2>3, <2>1, <1>3
    <2>4. CASE Concluded(k) = [k EXCEPT !.step = "shown", !.shown = k.seen, !.seen = <<>>]
        <3>1. Concluded(k) = [step |-> "shown", on |-> k.on, shown |-> k.seen, seen |-> <<>>, serial |-> k.serial]
            BY <2>2, <2>4 DEF IsLook
        <3>2. LookOK(Concluded(k))
            BY <3>1 DEF LookOK, IsLook, Steps
        <3> QED BY <3>2, <2>1
    <2>5. CASE Concluded(k) = [k EXCEPT !.step = "checked", !.seen = <<>>] /\ k.seen = k.shown
        <3>1. Concluded(k) = [step |-> "checked", on |-> k.on, shown |-> k.shown, seen |-> <<>>, serial |-> k.serial]
            BY <2>2, <2>5 DEF IsLook
        <3>2. PICK c : c = Concluded(k)
            OBVIOUS
        <3>3. IsLook(c) /\ c.step = "checked" /\ c.on = k.on /\ c.shown = k.shown /\ c.serial = k.serial
            BY <3>1, <3>2 DEF IsLook, Steps
        <3>4. Held(c, c.shown["draft"])
            BY <3>3, <2>2, <2>5 DEF Held
        <3> QED BY <3>2, <3>3, <3>4, <2>1 DEF LookOK
    <2> QED BY <2>2, <2>3, <2>4, <2>5 DEF Concluded
<1>6. ASSUME table \in DOMAIN Rows(a), DOMAIN look.seen # {"app", "draft"}
      PROVE  LookOK(look)
    <2>1. IsLook(look) /\ look.step = l.step
          /\ ("draft" \in DOMAIN look.seen => Held(look, look.seen["draft"]))
        BY <1>4, <1>6
    <2> HIDE DEF look
    <2> QED BY <1>1, <2>1 DEF LookOK
<1> HIDE DEF look
<1>7. LookOK(next)
    <2>1. CASE table \notin DOMAIN Rows(a)
        <3>1. next = NoApply
            BY <2>1
        <3> HIDE DEF next
        <3> QED BY <3>1, <1>3
    <2>2. CASE table \in DOMAIN Rows(a) /\ DOMAIN look.seen = {"app", "draft"}
        <3>1. next = Concluded(look)
            BY <2>2
        <3> HIDE DEF next
        <3> QED BY <3>1, <2>2, <1>5
    <2>3. CASE table \in DOMAIN Rows(a) /\ DOMAIN look.seen # {"app", "draft"}
        <3>1. next = look
            BY <2>3
        <3> HIDE DEF next
        <3> QED BY <3>1, <2>3, <1>6
    <2> QED BY <2>1, <2>2, <2>3
<1> HIDE DEF next
<1> QED BY <1>1, <1>7, OneAuthorLooks

LEMMA AuthorsInit == AppsInit => AuthorsOK
BY DEF AppsInit, AuthorsOK, LookOK

LEMMA AuthorsNext ==
    ASSUME AppsInv, AuthorsOK, [AppsNext]_avars
    PROVE  AuthorsOK'
<1>1. AppsInv' /\ DraftsGrow
    BY AppsNextInv, DraftsOnlyGrow
<1>2. CASE UNCHANGED author
    BY <1>1, <1>2, LookStaysOK DEF AuthorsOK
<1>3. LookOK(NoApply)
    BY DEF LookOK
<1>4. ASSUME NEW t \in Authors, ApplyDraft(t) PROVE AuthorsOK'
    <2>1. author' = [author EXCEPT ![t] = NoApply]
        BY <1>4 DEF ApplyDraft
    <2>2. author' = [x \in Authors |-> IF x = t THEN NoApply ELSE author[x]]
        BY <2>1 DEF AuthorsOK
    <2>3. LookOK(NoApply)'
        BY DEF LookOK, NoApply
    <2> QED BY <1>1, <2>2, <2>3, LookStaysOK DEF AuthorsOK
<1>5. ASSUME NEW a \in AppIds, NEW t \in Authors, StartPreview(t, a) PROVE AuthorsOK'
    <2> DEFINE l == [step |-> "preview", on |-> a, shown |-> <<>>, seen |-> <<>>, serial |-> 0]
    <2>1. LookOK(l)
        BY DEF LookOK, IsLook, Steps
    <2>2. author' = [author EXCEPT ![t] = l] /\ UNCHANGED <<draft, made>>
        BY <1>5 DEF StartPreview
    <2> HIDE DEF l
    <2> QED BY <2>1, <2>2, OneAuthorLooks
<1>6. ASSUME NEW t \in Authors, StartApply(t) PROVE AuthorsOK'
    <2>1. PICK l : l = author[t]
        OBVIOUS
    <2>2. PICK k : k = [l EXCEPT !.step = "apply"]
        OBVIOUS
    <2>3. l.step = "shown" /\ author' = [author EXCEPT ![t] = k] /\ UNCHANGED <<draft, made>>
        BY <1>6, <2>1, <2>2 DEF StartApply
    <2>4. IsLook(l) /\ l.seen = <<>>
        BY <2>1, <2>3 DEF AuthorsOK, LookOK, NoApply
    <2>5. k = [step |-> "apply", on |-> l.on, shown |-> l.shown, seen |-> l.seen, serial |-> l.serial]
        BY <2>2, <2>4 DEF IsLook
    <2>6. LookOK(k)
        BY <2>4, <2>5 DEF LookOK, IsLook, Steps
    <2> QED BY <2>3, <2>6, OneAuthorLooks
<1>7. ASSUME NEW t \in Authors, NEW table \in {"app", "draft"}, Look(t, table) PROVE AuthorsOK'
    BY <1>7, LookKeepsAuthors
<1> QED BY <1>2, <1>4, <1>5, <1>6, <1>7
        DEF AppsNext, AppRequest, CreateApp, SaveAppDraft, ActivateRevision, SetAppArchived,
            CreateDraft, DiscardDraft, DeleteUnappliedApp, BindRole, UnbindRole, avars

\* Only applyDraft adds a revision.
LEMMA AppliedAsShown ==
    ASSUME AppsInv, AuthorsOK, [AppsNext]_avars, NEW a \in DOMAIN app \cap DOMAIN app',
           Len(app'[a].revisions) > Len(app[a].revisions)
    PROVE  \E t \in Authors :
             /\ author[t].step = "checked" /\ author[t].on = a /\ author'[t] = NoApply
             /\ author[t].serial = draft[a].serial =>
                  app'[a].revisions[app'[a].active] =
                    [manifest |-> author[t].shown["draft"].manifest,
                     parent |-> author[t].shown["app"].active]
<1>1. app \in [DOMAIN app -> AppType] /\ Len(app[a].revisions) \in Nat
    BY DEF AppsInv, AppRowsOK, AppType
<1>2. ASSUME app'[a].revisions = app[a].revisions PROVE FALSE
    BY <1>1, <1>2
<1>3. ASSUME NEW x \in AppIds, AppRequest(x) PROVE FALSE
    <2>1. ASSUME NEW m \in Manifests, CreateApp(x, m) PROVE FALSE
        <3>1. x \notin DOMAIN app
            BY <2>1 DEF CreateApp, AppsInv, AppRowsOK
        <3>2. app'[a] = app[a]
            BY <2>1, <3>1 DEF CreateApp, Row
        <3> QED BY <3>2, <1>2
    <2>2. ASSUME NEW r, ActivateRevision(x, r) PROVE FALSE
        <3>1. app' = Activated(x, app[x].revisions, r) /\ x \in DOMAIN app
            BY <2>2 DEF ActivateRevision, Editable
        <3>2. CASE a = x
            <4>1. PICK y \in AppType : y = app[a]
                BY <1>1
            <4>2. app'[a].revisions = y.revisions
                BY <3>1, <3>2, <4>1, <1>1 DEF Activated, AppType
            <4> QED BY <4>1, <4>2, <1>2
        <3>3. CASE a # x
            BY <3>1, <3>3, <1>2 DEF Activated
        <3> QED BY <3>2, <3>3
    <2>3. ASSUME NEW c, SetAppArchived(x, c) PROVE FALSE
        <3>1. app' = [app EXCEPT ![x].archived = c, ![x].route = @ + 1] /\ x \in DOMAIN app
            BY <2>3 DEF SetAppArchived
        <3>2. PICK y \in AppType : y = app[x]
            BY <1>1, <3>1
        <3>3. PICK w : w = [y EXCEPT !.archived = c, !.route = @ + 1]
            OBVIOUS
        <3>4. app' = [app EXCEPT ![x] = w]
            BY <1>1, <3>1, <3>2, <3>3
        <3>5. w.revisions = y.revisions
            BY <3>2, <3>3 DEF AppType
        <3>6. app'[a].revisions = app[a].revisions
            BY <3>1, <3>2, <3>4, <3>5
        <3> QED BY <3>6, <1>2
    <2>4. ASSUME DeleteUnappliedApp(x) PROVE FALSE
        BY <2>4, <1>2 DEF DeleteUnappliedApp, Delete
    <2>5. CASE app' = app
        BY <2>5, <1>2
    <2> QED BY <1>3, <2>1, <2>2, <2>3, <2>4, <2>5
            DEF AppRequest, SaveAppDraft, CreateDraft, DiscardDraft
<1>4. ASSUME NEW t \in Authors, ApplyDraft(t), app' # app
      PROVE  /\ author[t].step = "checked" /\ author[t].on = a /\ author'[t] = NoApply
             /\ author[t].serial = draft[a].serial =>
                  app'[a].revisions[app'[a].active] =
                    [manifest |-> author[t].shown["draft"].manifest,
                     parent |-> author[t].shown["app"].active]
    <2> DEFINE x == author[t].on
               d == draft[x]
               new == [manifest |-> d.manifest, parent |-> app[x].active]
               revisions == Append(app[x].revisions, new)
    <2>1. /\ author[t].step = "checked" /\ author' = [author EXCEPT ![t] = NoApply]
          /\ x \in DOMAIN app /\ x \in DOMAIN draft
          /\ author[t].shown["app"] = Rows(x)["app"] /\ DraftIsAsShown(t)
          /\ app' = Activated(x, revisions, Len(revisions))
        BY <1>4 DEF ApplyDraft, Editable
    <2>2. author'[t] = NoApply
        BY <2>1 DEF AuthorsOK
    <2>3. x = a
        <3> SUFFICES ASSUME x # a PROVE FALSE
            OBVIOUS
        <3>1. app'[a] = app[a]
            BY <2>1 DEF Activated
        <3> QED BY <3>1, <1>2
    <2>4. PICK y \in AppType : y = app[a]
        BY <1>1
    <2>5. app'[a].revisions = revisions /\ app'[a].active = Len(revisions)
        <3> HIDE DEF revisions
        <3>1. app' = Activated(a, revisions, Len(revisions))
            BY <2>1, <2>3
        <3> QED BY <3>1, <2>4, <1>1 DEF Activated, AppType
    <2>6. revisions[Len(revisions)] = new
        <3>1. y.revisions \in Seq(RevisionType)
            BY <2>4 DEF AppType
        <3>2. app[x].revisions \in Seq(RevisionType)
            BY <2>3, <2>4, <3>1
        <3> HIDE DEF new
        <3>3. Len(revisions) = Len(app[x].revisions) + 1 /\ Len(app[x].revisions) \in Nat
            BY <3>2
        <3>4. revisions[Len(app[x].revisions) + 1] = new
            BY <3>2
        <3> HIDE DEF revisions
        <3> QED BY <3>3, <3>4
    <2>7. author[t].shown["app"].active = app[a].active
        BY <2>1, <2>3 DEF Rows
    <2>8. ASSUME author[t].serial = draft[a].serial
          PROVE  draft[a].manifest = author[t].shown["draft"].manifest
        <3>1. Held(author[t], author[t].shown["draft"])
            BY <2>1 DEF AuthorsOK, LookOK, NoApply
        <3>2. draft[a].version = author[t].shown["draft"].version
            BY <2>1, <2>3 DEF DraftIsAsShown
        <3> QED BY <3>1, <3>2, <2>1, <2>3, <2>8 DEF Held
    <2>9. new = [manifest |-> draft[a].manifest, parent |-> app[a].active]
        BY <2>3
    <2> HIDE DEF x, d, new, revisions
    <2>10. author[t].on = a
        BY <2>3 DEF x
    <2>11. app'[a].revisions[app'[a].active] = [manifest |-> draft[a].manifest, parent |-> app[a].active]
        BY <2>5, <2>6, <2>9
    <2> QED BY <2>1, <2>2, <2>7, <2>8, <2>10, <2>11
<1>5. CASE app' = app
    BY <1>2, <1>5
<1> QED BY <1>3, <1>4, <1>5
        DEF AppsNext, StartPreview, StartApply, Look, BindRole, UnbindRole, avars

\* For any authors, apps and manifests: what is applied is what its author was
\* shown of the draft, on the revision it was shown on, unless the draft is
\* another one of the same version number.
THEOREM AppliedIsWhatWasShown == AppsSpec => AppliesWhatWasShown
<1>1. AppsInit => AppsInv /\ AuthorsOK
    BY AppsInitInv, AuthorsInit
<1>2. AppsInv /\ AuthorsOK /\ [AppsNext]_avars => (AppsInv /\ AuthorsOK)'
    BY AppsNextInv, AuthorsNext
<1>3. AppsInv /\ AuthorsOK /\ [AppsNext]_avars =>
        [\A a \in DOMAIN app \cap DOMAIN app' :
           Len(app'[a].revisions) > Len(app[a].revisions) =>
             \E t \in Authors :
               /\ author[t].step = "checked" /\ author[t].on = a /\ author'[t] = NoApply
               /\ author[t].serial = draft[a].serial =>
                    app'[a].revisions[app'[a].active] =
                      [manifest |-> author[t].shown["draft"].manifest,
                       parent |-> author[t].shown["app"].active]]_avars
    BY AppliedAsShown
<1> QED BY <1>1, <1>2, <1>3, PTL DEF AppsSpec, AppliesWhatWasShown

-----------------------------------------------------------------------------
(* Pages. *)

BindingType == [resource : [app : AppIds, realm : {m.realm : m \in Manifests}, node : Nodes],
                role : Roles]
All == {"access", "read", "unmask"}
ViewSteps == {"entered", "found", "loaded", "evaluating", "profiled", "served"}
FieldsAt(step) ==
    {"step", "realm", "policies"}
    \cup (IF step = "entered" THEN {"key"} ELSE {"app", "revision"})
    \cup (IF step \in {"loaded", "evaluating"} THEN {"attempt"} ELSE {})
    \cup (IF step = "evaluating" THEN {"before", "results"} ELSE {})
    \cup (IF step = "profiled" THEN {"allowed"} ELSE {})
    \cup (IF step = "served" THEN {"plain"} ELSE {})

\* A batch was answered by one of the revisions, with what it holds.
AnsweredBy(w, i) ==
    /\ w.results[i].at \in DOMAIN w.policies
    /\ w.results[i].allowed = Allowed(w.policies[w.results[i].at], w.app, Batches[i])
AsAWhole(w) == \E n \in DOMAIN w.policies : w.allowed = Allowed(w.policies[n], w.app, All)
Served(w) ==
    /\ w.revision.manifest.realm = w.realm
    /\ \E n \in DOMAIN w.policies :
         /\ Holds(w.policies[n], w.app, "read")
         /\ w.plain <=> Holds(w.policies[n], w.app, "unmask")
    /\ \E n \in DOMAIN w.policies : Holds(w.policies[n], w.app, "access")

\* A request knows the revisions of the policy since it began, of which the
\* last is in force, and what it has found is what they grant.
Granting(w) ==
    /\ w.step \in ViewSteps /\ FieldsAt(w.step) \subseteq DOMAIN w
    /\ w.policies \in Seq(SUBSET BindingType) /\ Len(w.policies) >= 1
    /\ w.step # "entered" => w.revision.manifest.realm = w.realm
    /\ w.step \in {"loaded", "evaluating", "profiled", "served"} =>
         \E n \in DOMAIN w.policies : Holds(w.policies[n], w.app, "access")
    /\ w.step = "evaluating" =>
         /\ w.results \in Seq([at : Nat, allowed : SUBSET All]) /\ Len(w.results) <= Len(Batches)
         /\ \A i \in DOMAIN w.results : AnsweredBy(w, i)
    /\ w.step = "profiled" => AsAWhole(w)
    /\ w.step = "served" => Served(w)
InForce(w, bindings) ==
    w.step # "served" => w.policies[Len(w.policies)] = GrantedIn(w.realm, bindings)

ViewsOK ==
    /\ view = [v \in Visitors |-> view[v]]
    /\ \A v \in Visitors : view[v] # NoView => Granting(view[v]) /\ InForce(view[v], roleBinding)
RuntimeInv == AppsInv /\ roleBinding \subseteq BindingType /\ ViewsOK

LEMMA BindingsInv ==
    ASSUME AppsInv, roleBinding \subseteq BindingType, [AppsNext]_avars
    PROVE  roleBinding' \subseteq BindingType
<1>1. ASSUME NEW r \in appResource, NEW role \in Roles, BindRole(r, role)
      PROVE  roleBinding' \subseteq BindingType
    BY <1>1 DEF BindRole, BindingType, AppsInv, AppRowsOK
<1>2. ASSUME NEW b \in roleBinding, UnbindRole(b) PROVE roleBinding' \subseteq BindingType
    BY <1>2 DEF UnbindRole
<1>3. CASE UNCHANGED roleBinding
    BY <1>3
<1> QED BY <1>1, <1>2, <1>3
        DEF AppsNext, AppRequest, CreateApp, SaveAppDraft, ActivateRevision, SetAppArchived,
            CreateDraft, DiscardDraft, DeleteUnappliedApp, StartPreview, StartApply, ApplyDraft, Look, avars

LEMMA GrantedType ==
    ASSUME NEW B, B \subseteq BindingType, NEW realm
    PROVE  GrantedIn(realm, B) \in SUBSET BindingType
BY DEF GrantedIn

\* A revision more leaves what the ones before grant.
LEMMA Longer ==
    ASSUME NEW p \in Seq(SUBSET BindingType), NEW G \in SUBSET BindingType,
           NEW q, q = Append(p, G)
    PROVE  /\ q \in Seq(SUBSET BindingType) /\ Len(q) = Len(p) + 1 /\ Len(q) >= 1
           /\ q[Len(q)] = G
           /\ \A n \in DOMAIN p : n \in DOMAIN q /\ q[n] = p[n]
OBVIOUS

\* What was found stays so when the policy gets another revision.
LEMMA GrantingGoesOn ==
    ASSUME NEW w, Granting(w), w.step # "served", NEW G \in SUBSET BindingType,
           NEW q, q = Append(w.policies, G),
           NEW z, z = [w EXCEPT !.policies = q]
    PROVE  Granting(z) /\ z.policies[Len(z.policies)] = G /\ z.realm = w.realm /\ z.step = w.step
<1>1. PICK p \in Seq(SUBSET BindingType) : p = w.policies
    BY DEF Granting
<1>2. q = Append(p, G)
    BY <1>1
<1>3. /\ q \in Seq(SUBSET BindingType) /\ Len(q) >= 1 /\ q[Len(q)] = G
      /\ \A n \in DOMAIN p : n \in DOMAIN q /\ q[n] = p[n]
    BY <1>1, <1>2, Longer
<1>4. z = [w EXCEPT !.policies = q]
    BY <1>1, <1>2
<1>5. FieldsAt(w.step) \subseteq DOMAIN w /\ {"step", "realm", "policies"} \subseteq DOMAIN w
    BY DEF Granting, FieldsAt
<1>6. DOMAIN z = DOMAIN w /\ z.policies = q /\ \A f \in DOMAIN w \ {"policies"} : z[f] = w[f]
    BY <1>4, <1>5
<1>7. z.step = w.step /\ z.realm = w.realm
    BY <1>5, <1>6
<1>8. /\ "app" \in DOMAIN w => z.app = w.app
      /\ "revision" \in DOMAIN w => z.revision = w.revision
      /\ "results" \in DOMAIN w => z.results = w.results
      /\ "allowed" \in DOMAIN w => z.allowed = w.allowed
    BY <1>6
<1>9. /\ w.step # "entered" => z.app = w.app /\ z.revision = w.revision
      /\ w.step = "evaluating" => z.results = w.results
      /\ w.step = "profiled" => z.allowed = w.allowed
    BY <1>5, <1>8 DEF FieldsAt
<1>10. ASSUME w.step \in {"loaded", "evaluating", "profiled", "served"}
       PROVE  \E n \in DOMAIN z.policies : Holds(z.policies[n], z.app, "access")
    <2>1. PICK n \in DOMAIN p : Holds(p[n], w.app, "access")
        BY <1>1, <1>10 DEF Granting
    <2>2. n \in DOMAIN q /\ q[n] = p[n] /\ z.app = w.app
        BY <2>1, <1>3, <1>9, <1>10
    <2> QED BY <2>1, <2>2, <1>6
<1>11. ASSUME w.step = "evaluating", NEW i \in DOMAIN w.results
       PROVE  AnsweredBy(z, i)
    <2>1. AnsweredBy(w, i)
        BY <1>11 DEF Granting
    <2>2. PICK n : n = w.results[i].at
        OBVIOUS
    <2>3. n \in DOMAIN p /\ w.results[i].allowed = Allowed(p[n], w.app, Batches[i])
        BY <2>1, <2>2, <1>1 DEF AnsweredBy
    <2>4. n \in DOMAIN q /\ q[n] = p[n]
        BY <2>3, <1>3
    <2>5. z.results = w.results /\ z.app = w.app /\ z.policies = q
        BY <1>6, <1>9, <1>11
    <2> QED BY <2>2, <2>3, <2>4, <2>5 DEF AnsweredBy
<1>12. ASSUME w.step = "profiled"
       PROVE  AsAWhole(z)
    <2>1. PICK n \in DOMAIN p : w.allowed = Allowed(p[n], w.app, All)
        BY <1>1, <1>12 DEF Granting, AsAWhole
    <2>2. n \in DOMAIN q /\ q[n] = p[n] /\ z.app = w.app /\ z.allowed = w.allowed /\ z.policies = q
        BY <2>1, <1>3, <1>6, <1>9, <1>12
    <2> QED BY <2>1, <2>2 DEF AsAWhole
<1>13. FieldsAt(z.step) \subseteq DOMAIN z /\ z.step \in ViewSteps
    BY <1>5, <1>6, <1>7 DEF Granting
<1>14. z.step # "entered" => z.revision.manifest.realm = z.realm
    BY <1>7, <1>9 DEF Granting
<1>15. z.step = "evaluating" =>
         /\ z.results \in Seq([at : Nat, allowed : SUBSET All]) /\ Len(z.results) <= Len(Batches)
         /\ \A i \in DOMAIN z.results : AnsweredBy(z, i)
    BY <1>7, <1>9, <1>11 DEF Granting
<1> QED BY <1>3, <1>6, <1>7, <1>10, <1>12, <1>13, <1>14, <1>15 DEF Granting

LEMMA RuntimeInitInv == RuntimeInit => RuntimeInv
<1> SUFFICES ASSUME RuntimeInit PROVE RuntimeInv
    OBVIOUS
<1>1. AppsInv
    BY AppsInitInv DEF RuntimeInit
<1>2. roleBinding \subseteq BindingType
    BY DEF RuntimeInit, AppsInit
<1>3. view = [v \in Visitors |-> view[v]] /\ \A v \in Visitors : view[v] = NoView
    BY DEF RuntimeInit
<1> QED BY <1>1, <1>2, <1>3 DEF RuntimeInv, ViewsOK

\* Whatever administrators and authors do, a request in between knows it.
LEMMA AdministerInv ==
    ASSUME RuntimeInv, Administer
    PROVE  RuntimeInv'
<1>1. AppsInv' /\ roleBinding' \subseteq BindingType
    BY AppsNextInv, BindingsInv DEF RuntimeInv, Administer
<1> DEFINE Hit(v) == view[v].step \notin {"none", "served"} /\ PolicyChanges(view[v].realm)
           More(v) == [view[v] EXCEPT !.policies = Append(@, GrantedIn(view[v].realm, roleBinding'))]
<1>2. view' = [v \in Visitors |-> IF Hit(v) THEN More(v) ELSE view[v]]
    BY DEF Administer
<1> HIDE DEF Hit, More
<1>3. view' = [v \in Visitors |-> view'[v]]
    BY <1>2
<1>4. ASSUME NEW v \in Visitors, view'[v] # NoView
      PROVE  Granting(view'[v]) /\ InForce(view'[v], roleBinding')
    <2>1. CASE Hit(v)
        <3>1. PICK w : w = view[v]
            OBVIOUS
        <3>2. PICK G : G = GrantedIn(w.realm, roleBinding')
            OBVIOUS
        <3>3. G \in SUBSET BindingType
            BY <1>1, <3>2, GrantedType
        <3>4. PICK z : z = view'[v]
            OBVIOUS
        <3>q. PICK q : q = Append(w.policies, G)
            OBVIOUS
        <3>5. z = [w EXCEPT !.policies = q]
            BY <1>2, <2>1, <3>1, <3>2, <3>4, <3>q DEF More
        <3>6. w # NoView /\ w.step # "served"
            BY <2>1, <3>1 DEF Hit, NoView
        <3>7. Granting(w)
            BY <3>1, <3>6 DEF RuntimeInv, ViewsOK
        <3>8. Granting(z)
            BY <3>3, <3>q, <3>5, <3>6, <3>7, GrantingGoesOn
        <3>9. z.policies[Len(z.policies)] = G
            BY <3>3, <3>q, <3>5, <3>6, <3>7, GrantingGoesOn
        <3>10. z.realm = w.realm
            BY <3>3, <3>q, <3>5, <3>6, <3>7, GrantingGoesOn
        <3> QED BY <3>2, <3>4, <3>8, <3>9, <3>10 DEF InForce
    <2>2. CASE ~Hit(v)
        <3>1. view'[v] = view[v]
            BY <1>2, <2>2
        <3>2. Granting(view[v]) /\ InForce(view[v], roleBinding)
            BY <1>4, <3>1 DEF RuntimeInv, ViewsOK
        <3>3. CASE view[v].step = "served"
            BY <3>1, <3>2, <3>3 DEF InForce
        <3>4. CASE view[v].step # "served"
            <4>1. view[v].step # "none"
                BY <3>2 DEF Granting, ViewSteps
            <4>2. GrantedIn(view[v].realm, roleBinding') = GrantedIn(view[v].realm, roleBinding)
                BY <2>2, <3>4, <4>1 DEF Hit, PolicyChanges
            <4> QED BY <3>1, <3>2, <3>4, <4>2 DEF InForce
        <3> QED BY <3>3, <3>4
    <2> QED BY <2>1, <2>2
<1>5. ViewsOK'
    BY <1>3, <1>4 DEF ViewsOK
<1> QED BY <1>1, <1>5 DEF RuntimeInv

LEMMA TurnInv ==
    ASSUME RuntimeInv, NEW v \in Visitors, NEW z, Turn(v, z),
           z # NoView => Granting(z) /\ InForce(z, roleBinding)
    PROVE  RuntimeInv'
<1>1. view' = [view EXCEPT ![v] = z] /\ UNCHANGED avars
    BY DEF Turn
<1>2. AppsInv' /\ roleBinding' = roleBinding
    BY <1>1, AppsNextInv DEF RuntimeInv, avars
<1>3. DOMAIN view = Visitors
    BY DEF RuntimeInv, ViewsOK
<1>4. view' = [u \in Visitors |-> view'[u]]
    BY <1>1, <1>3
<1>5. ASSUME NEW u \in Visitors, view'[u] # NoView
      PROVE  Granting(view'[u]) /\ InForce(view'[u], roleBinding')
    <2>1. CASE u = v
        <3>1. view'[u] = z
            BY <1>1, <1>3, <2>1
        <3> QED BY <1>2, <1>5, <3>1 DEF InForce
    <2>2. CASE u # v
        <3>1. view'[u] = view[u]
            BY <1>1, <1>3, <2>2
        <3> QED BY <1>2, <1>5, <3>1 DEF RuntimeInv, ViewsOK, InForce
    <2> QED BY <2>1, <2>2
<1>6. ViewsOK'
    BY <1>4, <1>5 DEF ViewsOK
<1> QED BY <1>2, <1>6 DEF RuntimeInv

LEMMA DenyInv ==
    ASSUME RuntimeInv, NEW v \in Visitors, Deny(v)
    PROVE  RuntimeInv'
BY TurnInv DEF Deny

LEMMA EnterInv ==
    ASSUME RuntimeInv, NEW v \in Visitors, NEW key, Enter(v, key)
    PROVE  RuntimeInv'
<1>1. PICK a \in Running(key) :
        Turn(v, [step |-> "entered", key |-> key, realm |-> app[a].realm,
                 policies |-> <<GrantedIn(app[a].realm, roleBinding)>>])
    BY DEF Enter
<1>2. PICK G : G = GrantedIn(app[a].realm, roleBinding)
    OBVIOUS
<1>3. G \in SUBSET BindingType
    BY <1>2, GrantedType DEF RuntimeInv
<1>4. PICK z : z = [step |-> "entered", key |-> key, realm |-> app[a].realm, policies |-> <<G>>]
    OBVIOUS
<1>5. Turn(v, z)
    BY <1>1, <1>2, <1>4
<1>6. z.step = "entered" /\ z.realm = app[a].realm /\ z.policies = <<G>>
      /\ DOMAIN z = {"step", "key", "realm", "policies"}
    BY <1>4
<1>7. <<G>> \in Seq(SUBSET BindingType) /\ Len(<<G>>) = 1 /\ <<G>>[1] = G
    BY <1>3
<1>8. Granting(z)
    BY <1>6, <1>7 DEF Granting, ViewSteps, FieldsAt
<1>9. InForce(z, roleBinding)
    BY <1>2, <1>6, <1>7 DEF InForce
<1> QED BY <1>5, <1>8, <1>9, TurnInv

LEMMA LoadAppInv ==
    ASSUME RuntimeInv, NEW v \in Visitors, LoadApp(v)
    PROVE  RuntimeInv'
<1>1. CASE Deny(v)
    BY <1>1, DenyInv
<1>2. ASSUME NEW a \in Running(view[v].key), IsOfAudience(v, a),
             Turn(v, [step |-> "found", realm |-> view[v].realm, policies |-> view[v].policies,
                      app |-> a, revision |-> app[a].revisions[app[a].active]])
      PROVE  RuntimeInv'
    <2>1. PICK w : w = view[v]
        OBVIOUS
    <2>2. w.step = "entered" /\ w # NoView
        BY <2>1 DEF LoadApp, NoView
    <2>3. Granting(w) /\ InForce(w, roleBinding)
        BY <2>1, <2>2 DEF RuntimeInv, ViewsOK
    <2>4. PICK r : r = app[a].revisions[app[a].active]
        OBVIOUS
    <2>5. r.manifest.realm = app[a].realm /\ app[a].realm = w.realm
        <3>1. a \in DOMAIN app /\ app[a].active # 0 /\ app[a].realm = w.realm
            BY <1>2, <2>1 DEF Running, IsOfAudience
        <3> QED BY <2>4, <3>1 DEF RuntimeInv, AppsInv, AppsAreWhole, ResourcesFollowRevisions
    <2>6. PICK z : z = [step |-> "found", realm |-> w.realm, policies |-> w.policies,
                        app |-> a, revision |-> r]
        OBVIOUS
    <2>7. z.step = "found" /\ z.realm = w.realm /\ z.policies = w.policies /\ z.revision = r
          /\ DOMAIN z = {"step", "realm", "policies", "app", "revision"}
        BY <2>6
    <2>8. Granting(z)
        BY <2>3, <2>5, <2>7 DEF Granting, ViewSteps, FieldsAt
    <2>9. InForce(z, roleBinding)
        BY <2>2, <2>3, <2>7 DEF InForce
    <2> QED BY <1>2, <2>1, <2>4, <2>6, <2>8, <2>9, TurnInv
<1>3. CASE \E a \in Running(view[v].key) : IsOfAudience(v, a)
    <2> DEFINE Found(a) == [step |-> "found", realm |-> view[v].realm, policies |-> view[v].policies,
                            app |-> a, revision |-> app[a].revisions[app[a].active]]
    <2>1. PICK a \in Running(view[v].key) : Turn(v, Found(a))
        BY <1>3 DEF LoadApp
    <2>2. PICK b \in Running(view[v].key) : IsOfAudience(v, b)
        BY <1>3
    <2>3. a = b
        <3>1. a \in DOMAIN app /\ b \in DOMAIN app /\ app[a].key = app[b].key
            BY DEF Running
        <3>2. app[a].key \in Reserved(a) \cap Reserved(b)
            BY <3>1 DEF Reserved
        <3> QED BY <3>1, <3>2 DEF RuntimeInv, AppsInv, AppsAreWhole, RoutesAreReserved
    <2>4. IsOfAudience(v, a)
        BY <2>2, <2>3
    <2> QED BY <1>2, <2>1, <2>4
<1> QED BY <1>1, <1>3 DEF LoadApp

LEMMA RequireAccessInv ==
    ASSUME RuntimeInv, NEW v \in Visitors, RequireAccess(v)
    PROVE  RuntimeInv'
<1>1. CASE Deny(v)
    BY <1>1, DenyInv
<1>2. ASSUME Holds(view[v].policies[Revision(v)], view[v].app, "access"),
             Turn(v, [step |-> "loaded", realm |-> view[v].realm, policies |-> view[v].policies,
                      app |-> view[v].app, revision |-> view[v].revision, attempt |-> 1])
      PROVE  RuntimeInv'
    <2>1. PICK w : w = view[v]
        OBVIOUS
    <2>2. w.step = "found" /\ w # NoView
        BY <2>1 DEF RequireAccess, NoView
    <2>3. Granting(w) /\ InForce(w, roleBinding)
        BY <2>1, <2>2 DEF RuntimeInv, ViewsOK
    <2>4. Len(w.policies) \in DOMAIN w.policies
        BY <2>3 DEF Granting
    <2>5. PICK z : z = [step |-> "loaded", realm |-> w.realm, policies |-> w.policies,
                        app |-> w.app, revision |-> w.revision, attempt |-> 1]
        OBVIOUS
    <2>6. /\ z.step = "loaded" /\ z.realm = w.realm /\ z.policies = w.policies
          /\ z.revision = w.revision /\ z.app = w.app
          /\ DOMAIN z = {"step", "realm", "policies", "app", "revision", "attempt"}
        BY <2>5
    <2>7. \E n \in DOMAIN z.policies : Holds(z.policies[n], z.app, "access")
        BY <1>2, <2>1, <2>4, <2>6 DEF Revision
    <2>8. Granting(z)
        BY <2>2, <2>3, <2>6, <2>7 DEF Granting, ViewSteps, FieldsAt
    <2>9. InForce(z, roleBinding)
        BY <2>2, <2>3, <2>6 DEF InForce
    <2> QED BY <1>2, <2>1, <2>5, <2>8, <2>9, TurnInv
<1> QED BY <1>1, <1>2 DEF RequireAccess

LEMMA ReadBeforeInv ==
    ASSUME RuntimeInv, NEW v \in Visitors, ReadBefore(v)
    PROVE  RuntimeInv'
<1>1. PICK w : w = view[v]
    OBVIOUS
<1>2. w.step = "loaded" /\ w # NoView
    BY <1>1 DEF ReadBefore, NoView
<1>3. Granting(w) /\ InForce(w, roleBinding)
    BY <1>1, <1>2 DEF RuntimeInv, ViewsOK
<1>4. PICK z : z = [step |-> "evaluating", realm |-> w.realm, policies |-> w.policies,
                    app |-> w.app, revision |-> w.revision,
                    attempt |-> w.attempt, before |-> Revision(v), results |-> <<>>]
    OBVIOUS
<1>5. /\ z.step = "evaluating" /\ z.realm = w.realm /\ z.policies = w.policies
      /\ z.revision = w.revision /\ z.app = w.app /\ z.results = <<>>
      /\ DOMAIN z = {"step", "realm", "policies", "app", "revision", "attempt", "before", "results"}
    BY <1>4
<1>6. /\ z.results \in Seq([at : Nat, allowed : SUBSET All]) /\ Len(z.results) <= Len(Batches)
      /\ \A i \in DOMAIN z.results : AnsweredBy(z, i)
    <2>1. Len(Batches) \in Nat
        BY RuntimeAssumption
    <2> QED BY <1>5, <2>1
<1>7. \E n \in DOMAIN z.policies : Holds(z.policies[n], z.app, "access")
    BY <1>2, <1>3, <1>5 DEF Granting
<1>8. Granting(z)
    BY <1>2, <1>3, <1>5, <1>6, <1>7 DEF Granting, ViewSteps, FieldsAt
<1>9. InForce(z, roleBinding)
    BY <1>2, <1>3, <1>5 DEF InForce
<1>10. Turn(v, z)
    BY <1>1, <1>4 DEF ReadBefore
<1> QED BY <1>8, <1>9, <1>10, TurnInv

\* The answer to a batch is what the revision in force grants of it.
LEMMA EvaluateBatchInv ==
    ASSUME RuntimeInv, NEW v \in Visitors, EvaluateBatch(v)
    PROVE  RuntimeInv'
<1>1. PICK w : w = view[v]
    OBVIOUS
<1>2. w.step = "evaluating" /\ w # NoView /\ Len(w.results) < Len(Batches)
    BY <1>1 DEF EvaluateBatch, NoView
<1>3. Granting(w) /\ InForce(w, roleBinding)
    BY <1>1, <1>2 DEF RuntimeInv, ViewsOK
<1>4. PICK n : n = Len(w.policies)
    OBVIOUS
<1>5. n \in DOMAIN w.policies /\ n \in Nat
    BY <1>3, <1>4 DEF Granting
<1>6. PICK rs \in Seq([at : Nat, allowed : SUBSET All]) : rs = w.results
    BY <1>2, <1>3 DEF Granting
<1>7. PICK k \in Nat : k = Len(rs)
    OBVIOUS
<1>8. k + 1 \in DOMAIN Batches /\ k < Len(Batches)
    BY <1>2, <1>6, <1>7, RuntimeAssumption
<1>9. PICK r : r = [at |-> n, allowed |-> Allowed(w.policies[n], w.app, Batches[k + 1])]
    OBVIOUS
<1>10. r \in [at : Nat, allowed : SUBSET All]
    <2>1. Batches[k + 1] \in SUBSET All
        BY <1>8, RuntimeAssumption DEF All
    <2> QED BY <1>5, <1>9, <2>1 DEF Allowed
<1>11. PICK qs : qs = Append(rs, r)
    OBVIOUS
<1>12. /\ qs \in Seq([at : Nat, allowed : SUBSET All])
       /\ Len(qs) = k + 1
       /\ qs[k + 1] = r
       /\ \A i \in DOMAIN rs : qs[i] = rs[i]
       /\ \A i \in DOMAIN qs : i \in DOMAIN rs \/ i = k + 1
    BY <1>7, <1>10, <1>11
<1>13. PICK z : z = [w EXCEPT !.results = qs]
    OBVIOUS
<1>14. Turn(v, z)
    <2>1. Turn(v, [w EXCEPT !.results = Append(@, [at |-> n, allowed |-> Allowed(w.policies[n], w.app, Batches[Len(@) + 1])])])
        BY <1>1, <1>4 DEF EvaluateBatch, Revision
    <2>2. Turn(v, [w EXCEPT !.results = Append(rs, [at |-> n, allowed |-> Allowed(w.policies[n], w.app, Batches[Len(rs) + 1])])])
        BY <2>1, <1>6
    <2> QED BY <2>2, <1>7, <1>9, <1>11, <1>13
<1>15. /\ z.step = w.step /\ z.realm = w.realm /\ z.policies = w.policies
       /\ z.revision = w.revision /\ z.app = w.app /\ z.results = qs
       /\ DOMAIN z = DOMAIN w
    <2>1. FieldsAt(w.step) \subseteq DOMAIN w
        BY <1>3 DEF Granting
    <2>2. {"step", "realm", "policies", "revision", "app", "results"} \subseteq DOMAIN w
        BY <1>2, <2>1 DEF FieldsAt
    <2> QED BY <1>13, <2>2
<1>16. ASSUME NEW i \in DOMAIN z.results PROVE AnsweredBy(z, i)
    <2>1. CASE i \in DOMAIN rs
        <3>1. AnsweredBy(w, i)
            BY <1>2, <1>3, <1>6, <2>1 DEF Granting
        <3>2. z.results[i] = w.results[i]
            BY <1>6, <1>12, <1>15, <2>1
        <3> QED BY <1>15, <3>1, <3>2 DEF AnsweredBy
    <2>2. CASE i = k + 1
        <3>1. z.results[i] = r
            BY <1>12, <1>15, <2>2
        <3> QED BY <1>5, <1>9, <1>15, <2>2, <3>1 DEF AnsweredBy
    <2> QED BY <1>12, <1>15, <2>1, <2>2
<1>17. Len(z.results) <= Len(Batches)
    BY <1>8, <1>12, <1>15, RuntimeAssumption
<1>18. \E m \in DOMAIN z.policies : Holds(z.policies[m], z.app, "access")
    BY <1>2, <1>3, <1>15 DEF Granting
<1>19. Granting(z)
    <2>1. z.step \in ViewSteps /\ FieldsAt(z.step) \subseteq DOMAIN z
        BY <1>3, <1>15 DEF Granting
    <2>2. z.policies \in Seq(SUBSET BindingType) /\ Len(z.policies) >= 1
        BY <1>3, <1>15 DEF Granting
    <2>3. z.revision.manifest.realm = z.realm
        BY <1>2, <1>3, <1>15 DEF Granting
    <2>4. z.results \in Seq([at : Nat, allowed : SUBSET All])
        BY <1>12, <1>15
    <2> QED BY <1>2, <1>15, <1>16, <1>17, <1>18, <2>1, <2>2, <2>3, <2>4 DEF Granting
<1>20. InForce(z, roleBinding)
    BY <1>2, <1>3, <1>15 DEF InForce
<1> QED BY <1>14, <1>19, <1>20, TurnInv

\* All batches answered by one revision are what it grants of all of them.
LEMMA OneRevision ==
    ASSUME NEW rs, DOMAIN rs = DOMAIN Batches, NEW P, NEW a,
           \A i \in DOMAIN rs : rs[i].allowed = Allowed(P, a, Batches[i])
    PROVE  UNION {rs[i].allowed : i \in DOMAIN rs} = Allowed(P, a, All)
<1> DEFINE U == UNION {rs[i].allowed : i \in DOMAIN rs}
<1>1. ASSUME NEW x \in U PROVE x \in Allowed(P, a, All)
    <2>1. PICK i \in DOMAIN rs : x \in rs[i].allowed
        OBVIOUS
    <2>2. x \in Batches[i] /\ Holds(P, a, x)
        BY <2>1 DEF Allowed
    <2>3. x \in All
        BY <2>1, <2>2, RuntimeAssumption DEF All
    <2> QED BY <2>2, <2>3 DEF Allowed
<1>2. ASSUME NEW x \in Allowed(P, a, All) PROVE x \in U
    <2>1. x \in All /\ Holds(P, a, x)
        BY DEF Allowed
    <2>2. PICK i \in DOMAIN Batches : x \in Batches[i]
        BY <2>1, RuntimeAssumption DEF All
    <2>3. x \in rs[i].allowed
        BY <2>1, <2>2 DEF Allowed
    <2> QED BY <2>2, <2>3
<1> QED BY <1>1, <1>2

LEMMA ReadAfterInv ==
    ASSUME RuntimeInv, NEW v \in Visitors, ReadAfter(v)
    PROVE  RuntimeInv'
<1>1. CASE Deny(v)
    BY <1>1, DenyInv
<1>2. PICK w : w = view[v]
    OBVIOUS
<1>3. w.step = "evaluating" /\ w # NoView /\ Len(w.results) = Len(Batches)
    BY <1>2 DEF ReadAfter, NoView
<1>4. Granting(w) /\ InForce(w, roleBinding)
    BY <1>2, <1>3 DEF RuntimeInv, ViewsOK
<1>5. ASSUME IsStable(w),
             Turn(v, [step |-> "profiled", realm |-> w.realm, policies |-> w.policies,
                      app |-> w.app, revision |-> w.revision,
                      allowed |-> UNION {w.results[i].allowed : i \in DOMAIN w.results}])
      PROVE  RuntimeInv'
    <2>1. PICK n : n = w.before
        OBVIOUS
    <2>2. n = Len(w.policies) /\ n \in DOMAIN w.policies
        BY <1>4, <1>5, <2>1 DEF IsStable, Granting
    <2>3. DOMAIN w.results = DOMAIN Batches
        BY <1>3, <1>4, RuntimeAssumption DEF Granting
    <2>4. ASSUME NEW i \in DOMAIN w.results
          PROVE  w.results[i].allowed = Allowed(w.policies[n], w.app, Batches[i])
        <3>1. AnsweredBy(w, i)
            BY <1>3, <1>4 DEF Granting
        <3>2. w.results[i].at = n
            BY <1>5, <2>1 DEF IsStable
        <3> QED BY <3>1, <3>2 DEF AnsweredBy
    <2>5. PICK U : U = UNION {w.results[i].allowed : i \in DOMAIN w.results}
        OBVIOUS
    <2>6. U = Allowed(w.policies[n], w.app, All)
        BY <2>3, <2>4, <2>5, OneRevision
    <2>7. PICK z : z = [step |-> "profiled", realm |-> w.realm, policies |-> w.policies,
                        app |-> w.app, revision |-> w.revision, allowed |-> U]
        OBVIOUS
    <2>8. /\ z.step = "profiled" /\ z.realm = w.realm /\ z.policies = w.policies
          /\ z.revision = w.revision /\ z.app = w.app /\ z.allowed = U
          /\ DOMAIN z = {"step", "realm", "policies", "app", "revision", "allowed"}
        BY <2>7
    <2>9. AsAWhole(z)
        BY <2>2, <2>6, <2>8 DEF AsAWhole
    <2>10. \E m \in DOMAIN z.policies : Holds(z.policies[m], z.app, "access")
        BY <1>3, <1>4, <2>8 DEF Granting
    <2>11. Granting(z)
        BY <1>3, <1>4, <2>8, <2>9, <2>10 DEF Granting, ViewSteps, FieldsAt
    <2>12. InForce(z, roleBinding)
        BY <1>3, <1>4, <2>8 DEF InForce
    <2> QED BY <1>5, <2>5, <2>7, <2>11, <2>12, TurnInv
<1>6. ASSUME Turn(v, [step |-> "loaded", realm |-> w.realm, policies |-> w.policies,
                      app |-> w.app, revision |-> w.revision, attempt |-> w.attempt + 1])
      PROVE  RuntimeInv'
    <2>1. PICK z : z = [step |-> "loaded", realm |-> w.realm, policies |-> w.policies,
                        app |-> w.app, revision |-> w.revision, attempt |-> w.attempt + 1]
        OBVIOUS
    <2>2. /\ z.step = "loaded" /\ z.realm = w.realm /\ z.policies = w.policies
          /\ z.revision = w.revision /\ z.app = w.app
          /\ DOMAIN z = {"step", "realm", "policies", "app", "revision", "attempt"}
        BY <2>1
    <2>3. \E m \in DOMAIN z.policies : Holds(z.policies[m], z.app, "access")
        BY <1>3, <1>4, <2>2 DEF Granting
    <2>4. Granting(z)
        BY <1>3, <1>4, <2>2, <2>3 DEF Granting, ViewSteps, FieldsAt
    <2>5. InForce(z, roleBinding)
        BY <1>3, <1>4, <2>2 DEF InForce
    <2> QED BY <1>6, <2>1, <2>4, <2>5, TurnInv
<1> QED BY <1>1, <1>2, <1>5, <1>6 DEF ReadAfter

LEMMA ServeInv ==
    ASSUME RuntimeInv, NEW v \in Visitors, Serve(v)
    PROVE  RuntimeInv'
<1>1. CASE Deny(v)
    BY <1>1, DenyInv
<1>2. PICK w : w = view[v]
    OBVIOUS
<1>3. w.step = "profiled" /\ w # NoView
    BY <1>2 DEF Serve, NoView
<1>4. Granting(w) /\ InForce(w, roleBinding)
    BY <1>2, <1>3 DEF RuntimeInv, ViewsOK
<1>5. ASSUME "read" \in w.allowed,
             Turn(v, [step |-> "served", realm |-> w.realm, policies |-> w.policies,
                      app |-> w.app, revision |-> w.revision, plain |-> "unmask" \in w.allowed])
      PROVE  RuntimeInv'
    <2>1. PICK n \in DOMAIN w.policies : w.allowed = Allowed(w.policies[n], w.app, All)
        BY <1>3, <1>4 DEF Granting, AsAWhole
    <2>2. Holds(w.policies[n], w.app, "read")
          /\ ("unmask" \in w.allowed <=> Holds(w.policies[n], w.app, "unmask"))
        BY <1>5, <2>1 DEF Allowed, All
    <2>3. PICK plain : plain = ("unmask" \in w.allowed)
        OBVIOUS
    <2>4. PICK z : z = [step |-> "served", realm |-> w.realm, policies |-> w.policies,
                        app |-> w.app, revision |-> w.revision, plain |-> plain]
        OBVIOUS
    <2>5. /\ z.step = "served" /\ z.realm = w.realm /\ z.policies = w.policies
          /\ z.revision = w.revision /\ z.app = w.app /\ z.plain = plain
          /\ DOMAIN z = {"step", "realm", "policies", "app", "revision", "plain"}
        BY <2>4
    <2>6. \E m \in DOMAIN z.policies : Holds(z.policies[m], z.app, "access")
        BY <1>3, <1>4, <2>5 DEF Granting
    <2>7. Holds(z.policies[n], z.app, "read") /\ (z.plain <=> Holds(z.policies[n], z.app, "unmask"))
        BY <2>2, <2>3, <2>5
    <2>8. z.revision.manifest.realm = z.realm
        BY <1>3, <1>4, <2>5 DEF Granting
    <2>9. Served(z)
        BY <2>1, <2>5, <2>6, <2>7, <2>8 DEF Served
    <2>10. Granting(z)
        BY <1>3, <1>4, <2>5, <2>6, <2>8, <2>9 DEF Granting, ViewSteps, FieldsAt
    <2>11. InForce(z, roleBinding)
        BY <2>5 DEF InForce
    <2> QED BY <1>5, <2>3, <2>4, <2>10, <2>11, TurnInv
<1> QED BY <1>1, <1>2, <1>5 DEF Serve

LEMMA RuntimeNextInv == RuntimeInv /\ [RuntimeNext]_rvars => RuntimeInv'
<1> SUFFICES ASSUME RuntimeInv, [RuntimeNext]_rvars PROVE RuntimeInv'
    OBVIOUS
<1>1. CASE Administer
    BY <1>1, AdministerInv
<1>2. ASSUME NEW v \in Visitors, Visit(v) PROVE RuntimeInv'
    <2>1. ASSUME NEW key \in Keys, Enter(v, key) PROVE RuntimeInv'
        BY <2>1, EnterInv
    <2>2. CASE LoadApp(v)
        BY <2>2, LoadAppInv
    <2>3. CASE RequireAccess(v)
        BY <2>3, RequireAccessInv
    <2>4. CASE ReadBefore(v)
        BY <2>4, ReadBeforeInv
    <2>5. CASE EvaluateBatch(v)
        BY <2>5, EvaluateBatchInv
    <2>6. CASE ReadAfter(v)
        BY <2>6, ReadAfterInv
    <2>7. CASE Serve(v)
        BY <2>7, ServeInv
    <2>8. CASE Leave(v)
        BY <2>8, DenyInv DEF Leave
    <2> QED BY <1>2, <2>1, <2>2, <2>3, <2>4, <2>5, <2>6, <2>7, <2>8 DEF Visit
<1>3. CASE UNCHANGED rvars
    <2>1. UNCHANGED <<view, roleBinding>> /\ UNCHANGED avars
        BY <1>3 DEF rvars, avars
    <2>2. AppsInv'
        BY <2>1, AppsNextInv DEF RuntimeInv
    <2>3. ViewsOK'
        BY <2>1 DEF RuntimeInv, ViewsOK, InForce
    <2> QED BY <2>1, <2>2, <2>3 DEF RuntimeInv
<1> QED BY <1>1, <1>2, <1>3 DEF RuntimeNext

\* For any visitors, apps, roles and order of batches: what a page shows a
\* visitor is what one revision of the policy grants as a whole, and the page
\* is of an app for the realm of the visitor.
THEOREM PagesAreServedAsGranted == RuntimeSpec => []ServedAsGranted
<1>1. RuntimeInv => ServedAsGranted
    <2> SUFFICES ASSUME RuntimeInv, NEW v \in Visitors, view[v].step = "served"
                 PROVE  Served(view[v])
        BY DEF ServedAsGranted, Served
    <2>1. view[v] # NoView
        BY DEF NoView
    <2> QED BY <2>1 DEF RuntimeInv, ViewsOK, Granting
<1> QED BY <1>1, RuntimeInitInv, RuntimeNextInv, PTL DEF RuntimeSpec

-----------------------------------------------------------------------------
(* The policy's tables: walking a relation between rows. Below and the two *)
(* closures add a node at a time: a walk is a function of the set walked.  *)

(* Warshall's step: what k adds to what the nodes before it have led to.   *)
Via(nodes, k, R) == R \cup {e \in nodes \X nodes : <<e[1], k>> \in R /\ <<k, e[2]>> \in R}
OneOf(K) == CHOOSE k \in K : TRUE

(* What holds of no element, and of a set as of the set without one of its *)
(* elements, holds of every part of a finite set.                          *)
LEMMA SubsetInduction ==
    ASSUME NEW N, IsFiniteSet(N), NEW G, {} \in G,
           \A K \in SUBSET N : K # {} /\ K \ {OneOf(K)} \in G => K \in G
    PROVE  SUBSET N \subseteq G
<1> DEFINE B == {K \in SUBSET N : K \notin G}
           T == {Cardinality(K) : K \in B}
<1> SUFFICES ASSUME B # {} PROVE FALSE
  OBVIOUS
<1>1. \A K \in SUBSET N : IsFiniteSet(K) /\ Cardinality(K) \in Nat
  BY FS_Subset, FS_CardinalityType
<1>2. PICK K \in B : \A M \in B : Cardinality(K) <= Cardinality(M)
  <2>1. T \in SUBSET Nat /\ T # {}
    BY <1>1
  <2>2. PICK n \in T : \A m \in T : n <= m
    BY <2>1, LeastElement
  <2> QED
    BY <2>2
<1>3. K \in SUBSET N /\ K # {}
  BY <1>2
<1>4. OneOf(K) \in K
  BY <1>3 DEF OneOf
<1>5. Cardinality(K \ {OneOf(K)}) = Cardinality(K) - 1
  BY <1>1, <1>3, <1>4, FS_RemoveElement
<1>6. Cardinality(K) \in Nat /\ ~ (Cardinality(K) <= Cardinality(K) - 1)
  BY <1>1, <1>3
<1>7. K \ {OneOf(K)} \notin B
  <2> HIDE DEF B
  <2> QED
    BY <1>2, <1>5, <1>6
<1> QED
  BY <1>2, <1>3, <1>7

(* h[K] is where the links c lead through the nodes of K.                  *)
GoesThrough(h, N, c) == \A K \in SUBSET N :
    h[K] = IF K = {} THEN c ELSE Via(N, OneOf(K), h[K \ {OneOf(K)}])

\* Walking through the nodes one at a time is a function of the set walked.
LEMMA StepsExist ==
    ASSUME NEW N, IsFiniteSet(N), NEW c \in SUBSET (N \X N)
    PROVE  \E h \in [SUBSET N -> SUBSET (N \X N)] : GoesThrough(h, N, c)
<1> DEFINE S == SUBSET (N \X N)
           Sized(j) == {K \in SUBSET N : Cardinality(K) <= j}
           Fits(h, K) == h[K] = IF K = {} THEN c ELSE Via(N, OneOf(K), h[K \ {OneOf(K)}])
           T == {j \in Nat : \E h \in [Sized(j) -> S] : \A K \in Sized(j) : Fits(h, K)}
<1>0. c \in S /\ \A k : \A R \in S : Via(N, k, R) \in S
  BY DEF Via
<1> HIDE DEF S
<1>1. \A K \in SUBSET N : /\ IsFiniteSet(K) /\ Cardinality(K) \in Nat /\ Cardinality(K) <= Cardinality(N)
                          /\ Cardinality(K) = 0 <=> K = {}
  BY FS_Subset, FS_CardinalityType, FS_EmptySet
<1>2. \A K \in SUBSET N : K # {} => /\ OneOf(K) \in K /\ OneOf(K) \in N /\ K \ {OneOf(K)} \in SUBSET N
                                    /\ Cardinality(K \ {OneOf(K)}) = Cardinality(K) - 1
  <2> SUFFICES ASSUME NEW K \in SUBSET N, K # {}
               PROVE  /\ OneOf(K) \in K /\ OneOf(K) \in N /\ K \ {OneOf(K)} \in SUBSET N
                      /\ Cardinality(K \ {OneOf(K)}) = Cardinality(K) - 1
    OBVIOUS
  <2>1. OneOf(K) \in K
    BY DEF OneOf
  <2> QED
    BY <2>1, <1>1, FS_RemoveElement
<1>3. 0 \in T
  <2> DEFINE g == [K \in Sized(0) |-> c]
  <2>1. \A K \in Sized(0) : K = {}
    BY <1>1
  <2>2. g \in [Sized(0) -> S] /\ \A K \in Sized(0) : Fits(g, K)
    BY <1>0, <2>1
  <2>3. \E f \in [Sized(0) -> S] : \A K \in Sized(0) : Fits(f, K)
    <3> HIDE DEF g, Fits, Sized
    <3> QED
      BY <2>2
  <2> QED
    BY <2>3
<1>4. ASSUME NEW j \in Nat, j \in T
      PROVE  j + 1 \in T
  <2>1. PICK h \in [Sized(j) -> S] : \A K \in Sized(j) : Fits(h, K)
    BY <1>4
  <2> DEFINE g == [K \in Sized(j + 1) |->
                     IF K \in Sized(j) THEN h[K] ELSE Via(N, OneOf(K), h[K \ {OneOf(K)}])]
  <2>2. \A K \in Sized(j + 1) : K # {} => OneOf(K) \in N /\ K \ {OneOf(K)} \in Sized(j)
    BY <1>1, <1>2
  <2>3. \A K \in Sized(j) : K \in Sized(j + 1) /\ g[K] = h[K]
    BY <1>1
  <2>4. {} \in Sized(j)
    BY <1>1
  <2>5. ASSUME NEW K \in Sized(j + 1)
        PROVE  g[K] \in S /\ Fits(g, K)
    <3>1. CASE K \in Sized(j)
      <4>1. g[K] = h[K] /\ h[K] \in S /\ Fits(h, K)
        BY <2>1, <2>3, <3>1
      <4>2. K # {} => g[K \ {OneOf(K)}] = h[K \ {OneOf(K)}]
        BY <2>2, <2>3, <2>5
      <4> QED
        BY <4>1, <4>2
    <3>2. CASE K \notin Sized(j)
      <4>1. K # {}
        BY <2>4, <3>2
      <4>2. g[K] = Via(N, OneOf(K), h[K \ {OneOf(K)}])
        BY <3>2, <2>5
      <4>3. g[K \ {OneOf(K)}] = h[K \ {OneOf(K)}] /\ h[K \ {OneOf(K)}] \in S
        BY <2>1, <2>2, <2>3, <2>5, <4>1
      <4> QED
        BY <1>0, <4>1, <4>2, <4>3
    <3> QED
      BY <3>1, <3>2
  <2>6. g \in [Sized(j + 1) -> S] /\ \A K \in Sized(j + 1) : Fits(g, K)
    BY <2>5
  <2>7. \E f \in [Sized(j + 1) -> S] : \A K \in Sized(j + 1) : Fits(f, K)
    <3> HIDE DEF g, Fits, Sized
    <3> QED
      BY <2>6
  <2> HIDE DEF Fits, Sized, g
  <2> QED
    BY <2>7
<1>5. Cardinality(N) \in T
  <2> HIDE DEF T
  <2> QED
    BY <1>1, <1>3, <1>4, SetInduction
<1>6. Sized(Cardinality(N)) = SUBSET N
  BY <1>1
<1> QED
  BY <1>5, <1>6 DEF S, GoesThrough

(* Warshall's steps.                                                       *)
LEMMA BelowBySteps ==
    ASSUME NEW nodes, IsFiniteSet(nodes), NEW links, links \subseteq nodes \X nodes
    PROVE  \E t \in [SUBSET nodes -> SUBSET (nodes \X nodes)] :
             Below(nodes, links) = t[nodes] /\ GoesThrough(t, nodes, links)
<1> DEFINE S == SUBSET (nodes \X nodes)
           r == CHOOSE f : f = [K \in SUBSET nodes |->
                  IF K = {} THEN links
                  ELSE LET k == CHOOSE k \in K : TRUE
                           R == f[K \ {k}]
                       IN R \cup {e \in nodes \X nodes : <<e[1], k>> \in R /\ <<k, e[2]>> \in R}]
<1>1. links \in S
  OBVIOUS
<1>2. PICK h \in [SUBSET nodes -> S] : GoesThrough(h, nodes, links)
  BY StepsExist
<1>4. \E f : f = [K \in SUBSET nodes |->
                  IF K = {} THEN links
                  ELSE LET k == CHOOSE k \in K : TRUE
                           R == f[K \ {k}]
                       IN R \cup {e \in nodes \X nodes : <<e[1], k>> \in R /\ <<k, e[2]>> \in R}]
  <2>1. h = [K \in SUBSET nodes |->
                  IF K = {} THEN links ELSE Via(nodes, OneOf(K), h[K \ {OneOf(K)}])]
    BY <1>2 DEF GoesThrough
  <2> QED
    BY <2>1 DEF Via, OneOf
<1>5. r = [K \in SUBSET nodes |->
              IF K = {} THEN links ELSE Via(nodes, OneOf(K), r[K \ {OneOf(K)}])]
  BY <1>4, Zenon DEF Via, OneOf
<1>6. Below(nodes, links) = r[nodes]
  BY DEF Below
<1> HIDE DEF r
<1>7. \A K \in SUBSET nodes :
        r[K] = IF K = {} THEN links ELSE Via(nodes, OneOf(K), r[K \ {OneOf(K)}])
  BY <1>5
<1>8. SUBSET nodes \subseteq {K \in SUBSET nodes : r[K] \in S}
  <2> DEFINE G == {K \in SUBSET nodes : r[K] \in S}
  <2>1. {} \in G
    BY <1>1, <1>7
  <2>2. \A K \in SUBSET nodes : K # {} /\ K \ {OneOf(K)} \in G => K \in G
    <3> SUFFICES ASSUME NEW K \in SUBSET nodes, K # {}, r[K \ {OneOf(K)}] \in S
                 PROVE  r[K] \in S
      OBVIOUS
    <3>1. r[K] = Via(nodes, OneOf(K), r[K \ {OneOf(K)}])
      BY <1>7
    <3>2. Via(nodes, OneOf(K), r[K \ {OneOf(K)}]) \in S
      BY DEF Via
    <3> QED
      BY <3>1, <3>2
  <2> QED
    <3> HIDE DEF G
    <3>1. SUBSET nodes \subseteq G
      BY <2>1, <2>2, SubsetInduction
    <3> QED
      BY <3>1 DEF G
<1>9. r \in [SUBSET nodes -> S]
  BY <1>5, <1>8
<1> QED
  BY <1>6, <1>7, <1>9 DEF GoesThrough

(* Below is the transitive closure of the links.                           *)
LEMMA BelowIsClosure ==
    ASSUME NEW nodes, IsFiniteSet(nodes), NEW links, links \subseteq nodes \X nodes
    PROVE  /\ links \subseteq Below(nodes, links)
           /\ Below(nodes, links) \subseteq nodes \X nodes
           /\ \A a, x, b : <<a, x>> \in Below(nodes, links) /\ <<x, b>> \in Below(nodes, links)
                           => <<a, b>> \in Below(nodes, links)
           /\ \A C : \A a, b :
                <<a, b>> \in Below(nodes, links) /\ (\A e \in links : e[1] = a \/ e[1] \in C => e[2] \in C)
                => b \in C
<1>1. PICK t \in [SUBSET nodes -> SUBSET (nodes \X nodes)] :
             Below(nodes, links) = t[nodes] /\ GoesThrough(t, nodes, links)
  BY BelowBySteps
<1> DEFINE Closed(C, a) == \A e \in links : e[1] = a \/ e[1] \in C => e[2] \in C
           Good(K) == /\ links \subseteq t[K]
                      /\ \A x \in K : \A a, b : <<a, x>> \in t[K] /\ <<x, b>> \in t[K] => <<a, b>> \in t[K]
                      /\ \A C : \A a, b : <<a, b>> \in t[K] /\ Closed(C, a) => b \in C
           G == {K \in SUBSET nodes : Good(K)}
<1>2. {} \in G
  <2>1. t[{}] = links
    BY <1>1 DEF GoesThrough
  <2> QED
    BY <2>1
<1>3. ASSUME NEW K \in SUBSET nodes, K # {}, K \ {OneOf(K)} \in G
      PROVE  Good(K)
  <2>1. PICK k \in K : k = OneOf(K)
    BY <1>3 DEF OneOf
  <2>2. PICK R \in SUBSET (nodes \X nodes) : R = t[K \ {k}]
    BY <1>1
  <2>3. Good(K \ {k}) /\ k \in nodes
    BY <1>3, <2>1
  <2>4. t[K] = Via(nodes, k, R)
    BY <1>1, <1>3, <2>1, <2>2 DEF GoesThrough
  <2>5. \A a, b : <<a, b>> \in t[K] <=> <<a, b>> \in R \/ (<<a, k>> \in R /\ <<k, b>> \in R)
    BY <2>2, <2>4 DEF Via
  <2>6. links \subseteq t[K]
    BY <2>2, <2>3, <2>4 DEF Via
  <2>7. ASSUME NEW x \in K, NEW a, NEW b, <<a, x>> \in t[K], <<x, b>> \in t[K]
        PROVE  <<a, b>> \in t[K]
    <3>1. \A y \in K \ {k} : \A c, d : <<c, y>> \in R /\ <<y, d>> \in R => <<c, d>> \in R
      BY <2>2, <2>3
    <3>2. CASE x = k
      BY <2>5, <2>7, <3>2
    <3>3. CASE x # k
      <4>1. x \in K \ {k}
        BY <3>3
      <4>2. <<a, k>> \in R \/ <<a, x>> \in R
        BY <2>5, <2>7
      <4>3. <<k, b>> \in R \/ <<x, b>> \in R
        BY <2>5, <2>7
      <4> QED
        BY <2>5, <2>7, <3>1, <4>1, <4>2, <4>3
    <3> QED
      BY <3>2, <3>3
  <2>8. ASSUME NEW C, NEW a, NEW b, <<a, b>> \in t[K], Closed(C, a)
        PROVE  b \in C
    <3>1. \A c, d : <<c, d>> \in R /\ Closed(C, c) => d \in C
      BY <2>2, <2>3
    <3>2. CASE <<a, b>> \in R
      BY <2>8, <3>1, <3>2
    <3>3. CASE <<a, k>> \in R /\ <<k, b>> \in R
      <4>1. k \in C
        BY <2>8, <3>1, <3>3
      <4>2. Closed(C, k)
        BY <2>8, <4>1
      <4> QED
        BY <3>1, <3>3, <4>2
    <3> QED
      BY <2>5, <2>8, <3>2, <3>3
  <2> QED
    BY <2>6, <2>7, <2>8
<1>4. nodes \in G
  <2> HIDE DEF Good
  <2>1. \A K \in SUBSET nodes : K # {} /\ K \ {OneOf(K)} \in G => K \in G
    BY <1>3
  <2> HIDE DEF G
  <2> QED
    BY <1>2, <2>1, SubsetInduction
<1>5. Good(nodes) /\ t[nodes] \subseteq nodes \X nodes
  BY <1>1, <1>4
<1>6. \A a, x, b : <<a, x>> \in t[nodes] /\ <<x, b>> \in t[nodes] => <<a, b>> \in t[nodes]
  <2>1. \A a, x : <<a, x>> \in t[nodes] => x \in nodes
    BY <1>5
  <2> QED
    BY <1>5, <2>1
<1> QED
  BY <1>1, <1>5, <1>6

(* The pairs of which every set that holds the first and follows the links *)
(* holds the second are the chains.                                        *)
LEMMA ChainsAreReached ==
    ASSUME NEW nodes, IsFiniteSet(nodes), NEW links, links \subseteq nodes \X nodes
    PROVE  Chains(nodes, links) = {c \in nodes \X nodes : Reaches(nodes, links, c[1], c[2])}
<1> DEFINE B == Below(nodes, links)
<1>1. /\ links \subseteq B /\ B \subseteq nodes \X nodes
      /\ \A a, x, b : <<a, x>> \in B /\ <<x, b>> \in B => <<a, b>> \in B
      /\ \A C : \A a, b :
           <<a, b>> \in B /\ (\A e \in links : e[1] = a \/ e[1] \in C => e[2] \in C) => b \in C
  BY BelowIsClosure
<1> HIDE DEF B
<1>2. ASSUME NEW a \in nodes, NEW b \in nodes, <<a, b>> \in B \/ a = b
      PROVE  Reaches(nodes, links, a, b)
  <2> SUFFICES ASSUME NEW C \in SUBSET nodes, a \in C, \A e \in links : e[1] \in C => e[2] \in C
               PROVE  b \in C
    BY DEF Reaches
  <2>1. CASE a = b
    BY <2>1
  <2>2. CASE <<a, b>> \in B
    BY <1>1, <2>2
  <2> QED
    BY <1>2, <2>1, <2>2
<1>3. ASSUME NEW a \in nodes, NEW b \in nodes, Reaches(nodes, links, a, b)
      PROVE  <<a, b>> \in B \/ a = b
  <2> DEFINE C == {x \in nodes : <<a, x>> \in B \/ a = x}
  <2>1. C \in SUBSET nodes /\ a \in C
    OBVIOUS
  <2>2. ASSUME NEW e \in links, e[1] \in C
        PROVE  e[2] \in C
    <3>1. e = <<e[1], e[2]>> /\ e \in B /\ e[2] \in nodes
      BY <1>1
    <3>2. <<e[1], e[2]>> \in B
      BY <3>1
    <3> QED
      BY <1>1, <2>2, <3>1, <3>2
  <2>3. b \in C
    <3> HIDE DEF C
    <3> QED
      BY <1>3, <2>1, <2>2 DEF Reaches
  <2> QED
    BY <2>3
<1>4. ASSUME NEW c \in nodes \X nodes
      PROVE  c \in Chains(nodes, links) <=> Reaches(nodes, links, c[1], c[2])
  <2>1. PICK a \in nodes, b \in nodes : c = <<a, b>>
    OBVIOUS
  <2>2. c \in Chains(nodes, links) <=> <<a, b>> \in B \/ a = b
    BY <2>1 DEF Chains, B
  <2> QED
    BY <1>2, <1>3, <2>1, <2>2
<1>5. Chains(nodes, links) \subseteq nodes \X nodes
  BY <1>1 DEF Chains, B
<1> QED
  BY <1>4, <1>5

(* Where every node has one parent, whatever is above a node of a subtree  *)
(* and is not of the subtree is above its root.                            *)
LEMMA EntersAtTheRoot ==
    ASSUME NEW nodes, IsFiniteSet(nodes), NEW links, links \subseteq nodes \X nodes,
           \A a, x, b : <<a, b>> \in links /\ <<x, b>> \in links => a = x,
           NEW r, NEW z, z # r, <<r, z>> \notin Below(nodes, links),
           NEW y, y = r \/ <<r, y>> \in Below(nodes, links)
    PROVE  <<z, y>> \in Below(nodes, links) <=> <<z, r>> \in Below(nodes, links)
<1> DEFINE B == Below(nodes, links)
           In(x) == x = r \/ <<r, x>> \in B
           C == {x \in nodes : <<z, x>> \in B /\ (In(x) => <<z, r>> \in B)}
           L == {x \in nodes : \E w : <<w, x>> \in links /\ In(w)}
<1>1. /\ links \subseteq B /\ B \subseteq nodes \X nodes
      /\ \A a, x, b : <<a, x>> \in B /\ <<x, b>> \in B => <<a, b>> \in B
  BY BelowIsClosure
<1>2. \A D : \A a, b :
        <<a, b>> \in B /\ (\A e \in links : e[1] = a \/ e[1] \in D => e[2] \in D) => b \in D
  BY BelowIsClosure
<1> HIDE DEF B
<1>3. \A e \in links : e = <<e[1], e[2]>> /\ e[1] \in nodes /\ e[2] \in nodes
  OBVIOUS
<1>4. ASSUME NEW x, <<r, x>> \in B
      PROVE  \E w : <<w, x>> \in links /\ In(w)
  <2>1. ASSUME NEW e \in links, e[1] = r \/ e[1] \in L
        PROVE  e[2] \in L
    <3>1. In(e[1])
      <4>1. CASE e[1] \in L
        <5>1. PICK w : <<w, e[1]>> \in links /\ In(w)
          BY <4>1
        <5> QED
          BY <1>1, <5>1
      <4> QED
        BY <2>1, <4>1
    <3> QED
      BY <1>3, <3>1
  <2>2. x \in L
    <3> HIDE DEF L
    <3> QED
      BY <1>2, <1>4, <2>1
  <2> QED
    BY <2>2
<1>5. ASSUME <<z, y>> \in B
      PROVE  <<z, r>> \in B
  <2>1. ASSUME NEW e \in links, e[1] = z \/ e[1] \in C
        PROVE  e[2] \in C
    <3>1. <<e[1], e[2]>> \in B /\ <<z, e[2]>> \in B /\ e[2] \in nodes
      BY <1>1, <1>3, <2>1
    <3>2. ASSUME In(e[2]), e[2] # r
          PROVE  <<z, r>> \in B
      <4>1. PICK w : <<w, e[2]>> \in links /\ In(w)
        BY <1>4, <3>2
      <4>2. w = e[1]
        BY <1>3, <4>1
      <4> QED
        BY <2>1, <4>1, <4>2 DEF B
    <3> QED
      BY <3>1, <3>2
  <2>2. y \in C
    <3> HIDE DEF C
    <3> QED
      BY <1>2, <1>5, <2>1
  <2> QED
    BY <2>2 DEF B
<1>6. ASSUME <<z, r>> \in B
      PROVE  <<z, y>> \in B
  BY <1>1, <1>6 DEF B
<1> QED
  BY <1>5, <1>6 DEF B

(* What is below a node does not depend on the links that lead to it.      *)
LEMMA SubtreeStays ==
    ASSUME NEW nodes, IsFiniteSet(nodes), NEW old, old \subseteq nodes \X nodes,
           NEW new, new \subseteq nodes \X nodes, NEW r,
           \A e \in old : e[2] # r => e \in new,
           NEW y, y = r \/ <<r, y>> \in Below(nodes, old)
    PROVE  y = r \/ <<r, y>> \in Below(nodes, new)
<1> DEFINE B == Below(nodes, old)
           D == Below(nodes, new)
           C == {x \in nodes : x = r \/ <<r, x>> \in D}
<1>1. /\ new \subseteq D /\ D \subseteq nodes \X nodes
      /\ \A a, x, b : <<a, x>> \in D /\ <<x, b>> \in D => <<a, b>> \in D
  BY BelowIsClosure
<1>2. \A S : \A a, b :
        <<a, b>> \in B /\ (\A e \in old : e[1] = a \/ e[1] \in S => e[2] \in S) => b \in S
  BY BelowIsClosure
<1> HIDE DEF B, D
<1>3. ASSUME NEW e \in old, e[1] = r \/ e[1] \in C
      PROVE  e[2] \in C
  <2>1. e = <<e[1], e[2]>> /\ e[1] \in nodes /\ e[2] \in nodes
    OBVIOUS
  <2>2. e[2] # r => <<e[1], e[2]>> \in D
    BY <1>1, <2>1
  <2> QED
    BY <1>1, <1>3, <2>1, <2>2
<1>4. <<r, y>> \in B => y \in C
  <2> HIDE DEF C
  <2> QED
    BY <1>2, <1>3
<1> QED
  BY <1>4 DEF B, D

-----------------------------------------------------------------------------
(* What a stored mutation writes, table by table.                          *)

(* The shape of the rows.                                                  *)
RowsOf(rev, s, m, ga, x, xa, l, k, r, rp, rd, fa, b, ms) ==
    [revision |-> rev, subjects |-> s, members |-> m, groupAncestors |-> ga, resources |-> x,
     resourceAncestors |-> xa, levels |-> l, permissions |-> k, roles |-> r,
     rolePermissions |-> rp, roleDelegations |-> rd, fieldAccess |-> fa, bindings |-> b, memberships |-> ms]

TableRows(t) ==
    /\ t = RowsOf(t.revision, t.subjects, t.members, t.groupAncestors, t.resources, t.resourceAncestors,
                  t.levels, t.permissions, t.roles, t.rolePermissions, t.roleDelegations,
                  t.fieldAccess, t.bindings, t.memberships)
    /\ t.revision \in Nat
    /\ IsFiniteSet(DOMAIN t.subjects) /\ IsFiniteSet(DOMAIN t.resources)
    /\ t.members = [e \in DOMAIN t.members |-> t.members[e]]
    /\ \A s \in DOMAIN t.subjects : IsRow("subjects", t.subjects[s])
    /\ \A r \in DOMAIN t.resources : IsRow("resources", t.resources[r])
    /\ \A f, g \in t.fieldAccess : f.role = g.role /\ f.resource = g.resource => f = g

\* rebuildSubjectGroupClosure rewrites one table and leaves the others alone.
LEMMA GroupsRebuilt ==
    ASSUME NEW rev, NEW s, NEW m, NEW ga, NEW x, NEW xa, NEW l, NEW k, NEW r, NEW rp, NEW rd, NEW fa, NEW b, NEW ms
    PROVE  RebuildGroupClosure(RowsOf(rev, s, m, ga, x, xa, l, k, r, rp, rd, fa, b, ms))
             = RowsOf(rev, s, m, GroupAncestors(s, m), x, xa, l, k, r, rp, rd, fa, b, ms)
<1>1. PICK u : u = RowsOf(rev, s, m, ga, x, xa, l, k, r, rp, rd, fa, b, ms)
  OBVIOUS
<1>2. u.subjects = s /\ u.members = m
  BY <1>1 DEF RowsOf
<1>3. PICK n : n = GroupAncestors(s, m)
  OBVIOUS
<1>4. RebuildGroupClosure(u) = [u EXCEPT !.groupAncestors = n]
  BY <1>2, <1>3 DEF RebuildGroupClosure
<1>5. [u EXCEPT !.groupAncestors = n] = RowsOf(rev, s, m, n, x, xa, l, k, r, rp, rd, fa, b, ms)
  BY <1>1 DEF RowsOf
<1> QED
  BY <1>1, <1>3, <1>4, <1>5

\* rebuildResourceClosure rewrites one table and leaves the others alone.
LEMMA TreeRebuilt ==
    ASSUME NEW rev, NEW s, NEW m, NEW ga, NEW x, NEW xa, NEW l, NEW k, NEW r, NEW rp, NEW rd, NEW fa, NEW b, NEW ms
    PROVE  RebuildResourceClosure(RowsOf(rev, s, m, ga, x, xa, l, k, r, rp, rd, fa, b, ms))
             = RowsOf(rev, s, m, ga, x, Chains(DOMAIN x, TreeEdges(x)), l, k, r, rp, rd, fa, b, ms)
<1>1. PICK u : u = RowsOf(rev, s, m, ga, x, xa, l, k, r, rp, rd, fa, b, ms)
  OBVIOUS
<1>2. u.resources = x
  BY <1>1 DEF RowsOf
<1>3. PICK n : n = Chains(DOMAIN x, TreeEdges(x))
  OBVIOUS
<1>4. RebuildResourceClosure(u) = [u EXCEPT !.resourceAncestors = n]
  BY <1>2, <1>3 DEF RebuildResourceClosure
<1>5. [u EXCEPT !.resourceAncestors = n] = RowsOf(rev, s, m, ga, x, n, l, k, r, rp, rd, fa, b, ms)
  BY <1>1 DEF RowsOf
<1> QED
  BY <1>1, <1>3, <1>4, <1>5

\* The tables after an edge between groups is written, closure included.
LEMMA MembersStored ==
    ASSUME NEW t, TableRows(t), NEW m, m.table = "members", NEW n
    PROVE  [RowsAfter(t, m) EXCEPT !.revision = n] =
             RowsOf(n, t.subjects, Edit(t.members, m), GroupAncestors(t.subjects, Edit(t.members, m)), t.resources,
               t.resourceAncestors, t.levels, t.permissions, t.roles, t.rolePermissions, t.roleDelegations,
               t.fieldAccess, t.bindings, t.memberships)
<1>1. PICK e : e = Edit(t.members, m)
  OBVIOUS
<1>2. RowsAfter(t, m) = RebuildGroupClosure([t EXCEPT !.members = e])
  BY <1>1 DEF RowsAfter
<1>3. [t EXCEPT !.members = e] = RowsOf(t.revision, t.subjects, e, t.groupAncestors, t.resources,
               t.resourceAncestors, t.levels, t.permissions, t.roles, t.rolePermissions, t.roleDelegations,
               t.fieldAccess, t.bindings, t.memberships)
  BY DEF TableRows, RowsOf
<1>4. RowsAfter(t, m) = RowsOf(t.revision, t.subjects, e, GroupAncestors(t.subjects, e), t.resources,
               t.resourceAncestors, t.levels, t.permissions, t.roles, t.rolePermissions, t.roleDelegations,
               t.fieldAccess, t.bindings, t.memberships)
  BY <1>2, <1>3, GroupsRebuilt
<1> QED
  BY <1>1, <1>4 DEF RowsOf

\* The tables after resources are written, closure included.
LEMMA ResourcesStored ==
    ASSUME NEW t, TableRows(t), NEW m, m.table = "resources", NEW n
    PROVE  [RowsAfter(t, m) EXCEPT !.revision = n] =
             RowsOf(n, t.subjects, t.members, t.groupAncestors, Edit(t.resources, m),
               Chains(DOMAIN Edit(t.resources, m), TreeEdges(Edit(t.resources, m))),
               t.levels, t.permissions, t.roles, t.rolePermissions, t.roleDelegations,
               t.fieldAccess, t.bindings, t.memberships)
<1>1. PICK e : e = Edit(t.resources, m)
  OBVIOUS
<1>2. RowsAfter(t, m) = RebuildResourceClosure([t EXCEPT !.resources = e])
  BY <1>1 DEF RowsAfter
<1>3. [t EXCEPT !.resources = e] = RowsOf(t.revision, t.subjects, t.members, t.groupAncestors, e,
               t.resourceAncestors, t.levels, t.permissions, t.roles, t.rolePermissions, t.roleDelegations,
               t.fieldAccess, t.bindings, t.memberships)
  BY DEF TableRows, RowsOf
<1>4. RowsAfter(t, m) = RowsOf(t.revision, t.subjects, t.members, t.groupAncestors, e,
               Chains(DOMAIN e, TreeEdges(e)), t.levels, t.permissions, t.roles, t.rolePermissions, t.roleDelegations,
               t.fieldAccess, t.bindings, t.memberships)
  BY <1>2, <1>3, TreeRebuilt
<1> QED
  BY <1>1, <1>4 DEF RowsOf

\* The tables after a level is written.
LEMMA LevelsStored ==
    ASSUME NEW t, TableRows(t), NEW m, m.table = "levels", NEW n
    PROVE  [RowsAfter(t, m) EXCEPT !.revision = n] =
             RowsOf(n, t.subjects, t.members, t.groupAncestors, t.resources,
               t.resourceAncestors, Edit(t.levels, m), t.permissions, t.roles, t.rolePermissions, t.roleDelegations,
               t.fieldAccess, t.bindings, t.memberships)
<1>1. PICK e : e = Edit(t.levels, m)
  OBVIOUS
<1>2. RowsAfter(t, m) = [t EXCEPT !.levels = e]
  <2>1. m.table \notin {"roles", "subjects", "members", "resources"}
    OBVIOUS
  <2>2. RowsAfter(t, m) = [t EXCEPT ![m.table] = Edit(@, m)]
    BY <2>1, Zenon DEF RowsAfter
  <2>3. [t EXCEPT ![m.table] = Edit(@, m)] = [t EXCEPT !.levels = Edit(t.levels, m)]
    BY DEF TableRows, RowsOf
  <2> QED
    BY <1>1, <2>2, <2>3
<1>3. [t EXCEPT !.levels = e] = RowsOf(t.revision, t.subjects, t.members, t.groupAncestors, t.resources,
               t.resourceAncestors, e, t.permissions, t.roles, t.rolePermissions, t.roleDelegations,
               t.fieldAccess, t.bindings, t.memberships)
  BY DEF TableRows, RowsOf
<1>5. RowsAfter(t, m) = RowsOf(t.revision, t.subjects, t.members, t.groupAncestors, t.resources,
               t.resourceAncestors, e, t.permissions, t.roles, t.rolePermissions, t.roleDelegations,
               t.fieldAccess, t.bindings, t.memberships)
  BY <1>2, <1>3, Zenon
<1>4. [RowsAfter(t, m) EXCEPT !.revision = n] = RowsOf(n, t.subjects, t.members, t.groupAncestors, t.resources,
               t.resourceAncestors, e, t.permissions, t.roles, t.rolePermissions, t.roleDelegations,
               t.fieldAccess, t.bindings, t.memberships)
  BY <1>5 DEF RowsOf
<1> QED
  BY <1>1, <1>4, Zenon

\* The tables after a binding is written.
LEMMA BindingsStored ==
    ASSUME NEW t, TableRows(t), NEW m, m.table = "bindings", NEW n
    PROVE  [RowsAfter(t, m) EXCEPT !.revision = n] =
             RowsOf(n, t.subjects, t.members, t.groupAncestors, t.resources,
               t.resourceAncestors, t.levels, t.permissions, t.roles, t.rolePermissions, t.roleDelegations,
               t.fieldAccess, Edit(t.bindings, m), t.memberships)
<1>1. PICK e : e = Edit(t.bindings, m)
  OBVIOUS
<1>2. RowsAfter(t, m) = [t EXCEPT !.bindings = e]
  <2>1. m.table \notin {"roles", "subjects", "members", "resources"}
    OBVIOUS
  <2>2. RowsAfter(t, m) = [t EXCEPT ![m.table] = Edit(@, m)]
    BY <2>1, Zenon DEF RowsAfter
  <2>3. [t EXCEPT ![m.table] = Edit(@, m)] = [t EXCEPT !.bindings = Edit(t.bindings, m)]
    BY DEF TableRows, RowsOf
  <2> QED
    BY <1>1, <2>2, <2>3
<1>3. [t EXCEPT !.bindings = e] = RowsOf(t.revision, t.subjects, t.members, t.groupAncestors, t.resources,
               t.resourceAncestors, t.levels, t.permissions, t.roles, t.rolePermissions, t.roleDelegations,
               t.fieldAccess, e, t.memberships)
  BY DEF TableRows, RowsOf
<1>5. RowsAfter(t, m) = RowsOf(t.revision, t.subjects, t.members, t.groupAncestors, t.resources,
               t.resourceAncestors, t.levels, t.permissions, t.roles, t.rolePermissions, t.roleDelegations,
               t.fieldAccess, e, t.memberships)
  BY <1>2, <1>3, Zenon
<1>4. [RowsAfter(t, m) EXCEPT !.revision = n] = RowsOf(n, t.subjects, t.members, t.groupAncestors, t.resources,
               t.resourceAncestors, t.levels, t.permissions, t.roles, t.rolePermissions, t.roleDelegations,
               t.fieldAccess, e, t.memberships)
  BY <1>5 DEF RowsOf
<1> QED
  BY <1>1, <1>4, Zenon

(* Whoever is in no group, and has no members, takes nobody along.         *)
LEMMA SubjectsStored ==
    ASSUME NEW t, TableRows(t), NEW m, m.table = "subjects", NEW n,
           m.op = "delete" => \A e \in DOMAIN t.members : m.id \notin {t.members[e].group, t.members[e].member}
    PROVE  [RowsAfter(t, m) EXCEPT !.revision = n] =
             RowsOf(n, Edit(t.subjects, m), t.members, GroupAncestors(Edit(t.subjects, m), t.members), t.resources,
               t.resourceAncestors, t.levels, t.permissions, t.roles, t.rolePermissions, t.roleDelegations,
               t.fieldAccess, t.bindings, t.memberships)
<1>1. PICK e : e = Edit(t.subjects, m)
  OBVIOUS
<1>2. RowsAfter(t, m) = RebuildGroupClosure(WriteSubjectRow(t, m))
  BY DEF RowsAfter
<1>3. WriteSubjectRow(t, m) = [t EXCEPT !.subjects = e, !.members = t.members]
  <2> DEFINE about(x) == m.op = "delete" /\ m.id \in {t.members[x].group, t.members[x].member}
  <2>1. PICK k : k = [x \in {y \in DOMAIN t.members : ~about(y)} |-> t.members[x]]
    OBVIOUS
  <2>2. WriteSubjectRow(t, m) = [t EXCEPT !.subjects = e, !.members = k]
    BY <1>1, <2>1 DEF WriteSubjectRow, TableRows, RowsOf
  <2>3. k = t.members
    <3>1. {y \in DOMAIN t.members : ~about(y)} = DOMAIN t.members
      OBVIOUS
    <3> QED
      BY <2>1, <3>1 DEF TableRows
  <2> QED
    BY <2>2, <2>3
<1>4. WriteSubjectRow(t, m) = RowsOf(t.revision, e, t.members, t.groupAncestors, t.resources,
               t.resourceAncestors, t.levels, t.permissions, t.roles, t.rolePermissions, t.roleDelegations,
               t.fieldAccess, t.bindings, t.memberships)
  BY <1>3 DEF TableRows, RowsOf
<1>5. RowsAfter(t, m) = RowsOf(t.revision, e, t.members, GroupAncestors(e, t.members), t.resources,
               t.resourceAncestors, t.levels, t.permissions, t.roles, t.rolePermissions, t.roleDelegations,
               t.fieldAccess, t.bindings, t.memberships)
  BY <1>2, <1>4, GroupsRebuilt
<1> QED
  BY <1>1, <1>5 DEF RowsOf

(* What a role keeps of the rows that grant it something, and what others  *)
(* keep.                                                                   *)
GrantsOf(S, r) == {c \in S : c[1] = r}
GrantsBut(S, r) == {c \in S : c[1] # r}
Pairs(r, K) == {<<r, k>> : k \in K}
RulesOf(S, r) == {q \in S : q.role = r}
RulesBut(S, r) == {q \in S : q.role # r}
RolesBut(roles, r) == [y \in DOMAIN roles \ {r} |-> roles[y]]
RolesWith(roles, r, entry) == [y \in DOMAIN roles \cup {r} |-> IF y = r THEN entry ELSE roles[y]]

\* Deleting a role takes its permissions, delegations and rules with it.
LEMMA RoleDeleted ==
    ASSUME NEW t, TableRows(t), NEW m, m.table = "roles", m.op = "delete", NEW n
    PROVE  [RowsAfter(t, m) EXCEPT !.revision = n] =
             RowsOf(n, t.subjects, t.members, t.groupAncestors, t.resources,
               t.resourceAncestors, t.levels, t.permissions, RolesBut(t.roles, m.id),
               GrantsBut(t.rolePermissions, m.id), GrantsBut(t.roleDelegations, m.id),
               RulesBut(t.fieldAccess, m.id), t.bindings, t.memberships)
<1>1. PICK e, rp, rd, fa :
         /\ e = RolesBut(t.roles, m.id)
         /\ rp = GrantsBut(t.rolePermissions, m.id)
         /\ rd = GrantsBut(t.roleDelegations, m.id)
         /\ fa = RulesBut(t.fieldAccess, m.id)
  OBVIOUS
<1>2. Edit(t.roles, m) = e
  BY <1>1 DEF Edit, RolesBut
<1>3. RowsAfter(t, m) = [t EXCEPT !.roles = e, !.rolePermissions = rp,
                                  !.roleDelegations = rd, !.fieldAccess = fa]
  <2>1. RowsAfter(t, m) = [t EXCEPT !.roles = Edit(t.roles, m),
                             !.rolePermissions = GrantsBut(t.rolePermissions, m.id),
                             !.roleDelegations = GrantsBut(t.roleDelegations, m.id),
                             !.fieldAccess = RulesBut(t.fieldAccess, m.id)]
    BY DEF RowsAfter, WriteRole, GrantsBut, RulesBut
  <2> QED
    BY <1>1, <1>2, <2>1
<1>4. RowsAfter(t, m) = RowsOf(t.revision, t.subjects, t.members, t.groupAncestors, t.resources,
               t.resourceAncestors, t.levels, t.permissions, e, rp, rd, fa, t.bindings, t.memberships)
  BY <1>3 DEF TableRows, RowsOf
<1>5. [RowsAfter(t, m) EXCEPT !.revision = n] =
           RowsOf(n, t.subjects, t.members, t.groupAncestors, t.resources,
               t.resourceAncestors, t.levels, t.permissions, e, rp, rd, fa, t.bindings, t.memberships)
  BY <1>4 DEF RowsOf
<1> QED
  BY <1>1, <1>5

\* Storing a role replaces its permissions, its delegations and its rules.
LEMMA RoleStored ==
    ASSUME NEW t, TableRows(t), NEW m, m.table = "roles", m.op \in {"create", "update"}, IsMutation(m), NEW n
    PROVE  [RowsAfter(t, m) EXCEPT !.revision = n] =
             RowsOf(n, t.subjects, t.members, t.groupAncestors, t.resources,
               t.resourceAncestors, t.levels, t.permissions,
               RolesWith(t.roles, m.id, RoleRow(m.value)),
               GrantsBut(t.rolePermissions, m.id) \cup Pairs(m.id, m.value.permissions),
               GrantsBut(t.roleDelegations, m.id) \cup Pairs(m.id, m.value.delegates),
               RulesBut(t.fieldAccess, m.id) \cup RuleRows(m.id, m.value), t.bindings, t.memberships)
<1>1. PICK e, rp, rd, fa :
         /\ e = RolesWith(t.roles, m.id, RoleRow(m.value))
         /\ rp = GrantsBut(t.rolePermissions, m.id) \cup Pairs(m.id, m.value.permissions)
         /\ rd = GrantsBut(t.roleDelegations, m.id) \cup Pairs(m.id, m.value.delegates)
         /\ fa = RulesBut(t.fieldAccess, m.id) \cup RuleRows(m.id, m.value)
  OBVIOUS
<1>2. Edit(t.roles, [m EXCEPT !.value = RoleRow(m.value)]) = e
  <2>1. PICK entry : entry = RoleRow(m.value)
    OBVIOUS
  <2>2. m = [op |-> m.op, table |-> m.table, id |-> m.id, value |-> m.value]
    BY DEF IsMutation
  <2>3. PICK c : c = [m EXCEPT !.value = entry]
    OBVIOUS
  <2>4. c.op = m.op /\ c.id = m.id /\ c.value = entry
    BY <2>2, <2>3
  <2>5. Edit(t.roles, c) = RolesWith(t.roles, m.id, entry)
    BY <2>4 DEF Edit, RolesWith
  <2> QED
    BY <1>1, <2>1, <2>3, <2>5
<1>3. PICK u : u = [t EXCEPT !.roles = e]
  OBVIOUS
<1>4. u = RowsOf(t.revision, t.subjects, t.members, t.groupAncestors, t.resources,
               t.resourceAncestors, t.levels, t.permissions, e, t.rolePermissions, t.roleDelegations,
               t.fieldAccess, t.bindings, t.memberships)
  BY <1>3 DEF TableRows, RowsOf
<1>5. RowsAfter(t, m) = ReplaceRoleRelations(u, m.id, m.value)
  BY <1>2, <1>3 DEF RowsAfter, WriteRole
<1>6. ReplaceRoleRelations(u, m.id, m.value) = [u EXCEPT !.rolePermissions = rp, !.roleDelegations = rd, !.fieldAccess = fa]
  <2>1. /\ u.rolePermissions = t.rolePermissions /\ u.roleDelegations = t.roleDelegations
        /\ u.fieldAccess = t.fieldAccess
        /\ DOMAIN u = DOMAIN t
    BY <1>4 DEF RowsOf, TableRows
  <2> QED
    BY <1>1, <1>4, <2>1 DEF ReplaceRoleRelations, RowsOf, GrantsBut, RulesBut, Pairs
<1>7. RowsAfter(t, m) = RowsOf(t.revision, t.subjects, t.members, t.groupAncestors, t.resources,
               t.resourceAncestors, t.levels, t.permissions, e, rp, rd, fa, t.bindings, t.memberships)
  BY <1>4, <1>5, <1>6 DEF RowsOf
<1>8. [RowsAfter(t, m) EXCEPT !.revision = n] =
           RowsOf(n, t.subjects, t.members, t.groupAncestors, t.resources,
               t.resourceAncestors, t.levels, t.permissions, e, rp, rd, fa, t.bindings, t.memberships)
  BY <1>7 DEF RowsOf
<1> QED
  BY <1>1, <1>8

-----------------------------------------------------------------------------
(* What is read back from the rows.                                        *)

PolicyOf(rev, s, m, x, l, k, r, b) ==
    [revision |-> rev, subjects |-> s, members |-> m, resources |-> x, levels |-> l,
     permissions |-> k, roles |-> r, bindings |-> b]

IsPolicy(p) ==
    p = PolicyOf(p.revision, p.subjects, p.members, p.resources, p.levels, p.permissions, p.roles, p.bindings)

\* applyPolicyMutation edits one part of the policy and counts a revision.
LEMMA Applied ==
    ASSUME NEW p, IsPolicy(p), NEW m, m.table \in PolicyParts
    PROVE  ApplyPolicyMutation(p, m) =
             PolicyOf(p.revision + 1,
                IF m.table = "subjects" THEN Edit(p.subjects, m) ELSE p.subjects,
                IF m.table = "members" THEN Edit(p.members, m) ELSE p.members,
                IF m.table = "resources" THEN Edit(p.resources, m) ELSE p.resources,
                IF m.table = "levels" THEN Edit(p.levels, m) ELSE p.levels, p.permissions,
                IF m.table = "roles" THEN Edit(p.roles, m) ELSE p.roles,
                IF m.table = "bindings" THEN Edit(p.bindings, m) ELSE p.bindings)
<1>1. PICK s, mm, x, l, r, b :
         /\ s = IF m.table = "subjects" THEN Edit(p.subjects, m) ELSE p.subjects
         /\ mm = IF m.table = "members" THEN Edit(p.members, m) ELSE p.members
         /\ x = IF m.table = "resources" THEN Edit(p.resources, m) ELSE p.resources
         /\ l = IF m.table = "levels" THEN Edit(p.levels, m) ELSE p.levels
         /\ r = IF m.table = "roles" THEN Edit(p.roles, m) ELSE p.roles
         /\ b = IF m.table = "bindings" THEN Edit(p.bindings, m) ELSE p.bindings
  OBVIOUS
<1>2. PICK e : e = Edit(p[m.table], m)
  OBVIOUS
<1>4. PICK n : n = p.revision + 1
  OBVIOUS
<1>3. ApplyPolicyMutation(p, m) = [p EXCEPT ![m.table] = e, !.revision = n]
  BY <1>2, <1>4 DEF ApplyPolicyMutation
<1>6. [p EXCEPT ![m.table] = e, !.revision = n] =
             PolicyOf(n, s, mm, x, l, p.permissions, r, b)
  <2>1. CASE m.table = "subjects"
    <3>1. s = e /\ mm = p.members /\ x = p.resources /\ l = p.levels /\ r = p.roles /\ b = p.bindings
      BY <1>1, <1>2, <2>1
    <3>2. PICK u : u = [p EXCEPT !.subjects = e]
      OBVIOUS
    <3>3. u = PolicyOf(p.revision, e, p.members, p.resources, p.levels, p.permissions, p.roles, p.bindings)
      BY <3>2 DEF IsPolicy, PolicyOf
    <3>4. [u EXCEPT !.revision = n] = PolicyOf(n, e, p.members, p.resources, p.levels, p.permissions, p.roles, p.bindings)
      BY <3>3 DEF PolicyOf
    <3>5. [p EXCEPT !.subjects = e, !.revision = n] = [[p EXCEPT !.subjects = e] EXCEPT !.revision = n]
      OBVIOUS
    <3>6. [p EXCEPT ![m.table] = e, !.revision = n] = [p EXCEPT !.subjects = e, !.revision = n]
      BY <2>1
    <3>7. [p EXCEPT ![m.table] = e, !.revision = n] = [u EXCEPT !.revision = n]
      BY <3>2, <3>5, <3>6, Zenon
    <3> QED
      BY <3>1, <3>4, <3>7, Zenon
  <2>2. CASE m.table = "members"
    <3>1. s = p.subjects /\ mm = e /\ x = p.resources /\ l = p.levels /\ r = p.roles /\ b = p.bindings
      BY <1>1, <1>2, <2>2
    <3>2. PICK u : u = [p EXCEPT !.members = e]
      OBVIOUS
    <3>3. u = PolicyOf(p.revision, p.subjects, e, p.resources, p.levels, p.permissions, p.roles, p.bindings)
      BY <3>2 DEF IsPolicy, PolicyOf
    <3>4. [u EXCEPT !.revision = n] = PolicyOf(n, p.subjects, e, p.resources, p.levels, p.permissions, p.roles, p.bindings)
      BY <3>3 DEF PolicyOf
    <3>5. [p EXCEPT !.members = e, !.revision = n] = [[p EXCEPT !.members = e] EXCEPT !.revision = n]
      OBVIOUS
    <3>6. [p EXCEPT ![m.table] = e, !.revision = n] = [p EXCEPT !.members = e, !.revision = n]
      BY <2>2
    <3>7. [p EXCEPT ![m.table] = e, !.revision = n] = [u EXCEPT !.revision = n]
      BY <3>2, <3>5, <3>6, Zenon
    <3> QED
      BY <3>1, <3>4, <3>7, Zenon
  <2>3. CASE m.table = "resources"
    <3>1. s = p.subjects /\ mm = p.members /\ x = e /\ l = p.levels /\ r = p.roles /\ b = p.bindings
      BY <1>1, <1>2, <2>3
    <3>2. PICK u : u = [p EXCEPT !.resources = e]
      OBVIOUS
    <3>3. u = PolicyOf(p.revision, p.subjects, p.members, e, p.levels, p.permissions, p.roles, p.bindings)
      BY <3>2 DEF IsPolicy, PolicyOf
    <3>4. [u EXCEPT !.revision = n] = PolicyOf(n, p.subjects, p.members, e, p.levels, p.permissions, p.roles, p.bindings)
      BY <3>3 DEF PolicyOf
    <3>5. [p EXCEPT !.resources = e, !.revision = n] = [[p EXCEPT !.resources = e] EXCEPT !.revision = n]
      OBVIOUS
    <3>6. [p EXCEPT ![m.table] = e, !.revision = n] = [p EXCEPT !.resources = e, !.revision = n]
      BY <2>3
    <3>7. [p EXCEPT ![m.table] = e, !.revision = n] = [u EXCEPT !.revision = n]
      BY <3>2, <3>5, <3>6, Zenon
    <3> QED
      BY <3>1, <3>4, <3>7, Zenon
  <2>4. CASE m.table = "levels"
    <3>1. s = p.subjects /\ mm = p.members /\ x = p.resources /\ l = e /\ r = p.roles /\ b = p.bindings
      BY <1>1, <1>2, <2>4
    <3>2. PICK u : u = [p EXCEPT !.levels = e]
      OBVIOUS
    <3>3. u = PolicyOf(p.revision, p.subjects, p.members, p.resources, e, p.permissions, p.roles, p.bindings)
      BY <3>2 DEF IsPolicy, PolicyOf
    <3>4. [u EXCEPT !.revision = n] = PolicyOf(n, p.subjects, p.members, p.resources, e, p.permissions, p.roles, p.bindings)
      BY <3>3 DEF PolicyOf
    <3>5. [p EXCEPT !.levels = e, !.revision = n] = [[p EXCEPT !.levels = e] EXCEPT !.revision = n]
      OBVIOUS
    <3>6. [p EXCEPT ![m.table] = e, !.revision = n] = [p EXCEPT !.levels = e, !.revision = n]
      BY <2>4
    <3>7. [p EXCEPT ![m.table] = e, !.revision = n] = [u EXCEPT !.revision = n]
      BY <3>2, <3>5, <3>6, Zenon
    <3> QED
      BY <3>1, <3>4, <3>7, Zenon
  <2>5. CASE m.table = "roles"
    <3>1. s = p.subjects /\ mm = p.members /\ x = p.resources /\ l = p.levels /\ r = e /\ b = p.bindings
      BY <1>1, <1>2, <2>5
    <3>2. PICK u : u = [p EXCEPT !.roles = e]
      OBVIOUS
    <3>3. u = PolicyOf(p.revision, p.subjects, p.members, p.resources, p.levels, p.permissions, e, p.bindings)
      BY <3>2 DEF IsPolicy, PolicyOf
    <3>4. [u EXCEPT !.revision = n] = PolicyOf(n, p.subjects, p.members, p.resources, p.levels, p.permissions, e, p.bindings)
      BY <3>3 DEF PolicyOf
    <3>5. [p EXCEPT !.roles = e, !.revision = n] = [[p EXCEPT !.roles = e] EXCEPT !.revision = n]
      OBVIOUS
    <3>6. [p EXCEPT ![m.table] = e, !.revision = n] = [p EXCEPT !.roles = e, !.revision = n]
      BY <2>5
    <3>7. [p EXCEPT ![m.table] = e, !.revision = n] = [u EXCEPT !.revision = n]
      BY <3>2, <3>5, <3>6, Zenon
    <3> QED
      BY <3>1, <3>4, <3>7, Zenon
  <2>6. CASE m.table = "bindings"
    <3>1. s = p.subjects /\ mm = p.members /\ x = p.resources /\ l = p.levels /\ r = p.roles /\ b = e
      BY <1>1, <1>2, <2>6
    <3>2. PICK u : u = [p EXCEPT !.bindings = e]
      OBVIOUS
    <3>3. u = PolicyOf(p.revision, p.subjects, p.members, p.resources, p.levels, p.permissions, p.roles, e)
      BY <3>2 DEF IsPolicy, PolicyOf
    <3>4. [u EXCEPT !.revision = n] = PolicyOf(n, p.subjects, p.members, p.resources, p.levels, p.permissions, p.roles, e)
      BY <3>3 DEF PolicyOf
    <3>5. [p EXCEPT !.bindings = e, !.revision = n] = [[p EXCEPT !.bindings = e] EXCEPT !.revision = n]
      OBVIOUS
    <3>6. [p EXCEPT ![m.table] = e, !.revision = n] = [p EXCEPT !.bindings = e, !.revision = n]
      BY <2>6
    <3>7. [p EXCEPT ![m.table] = e, !.revision = n] = [u EXCEPT !.revision = n]
      BY <3>2, <3>5, <3>6, Zenon
    <3> QED
      BY <3>1, <3>4, <3>7, Zenon
  <2> QED
    BY <2>1, <2>2, <2>3, <2>4, <2>5, <2>6 DEF PolicyParts
<1> QED
  BY <1>1, <1>3, <1>4, <1>6, Zenon

Seconds(S) == {g[2] : g \in S}
FieldsRead(entry, rules) ==
    IF entry.restricted
    THEN [x \in {f.resource : f \in rules} |-> (CHOOSE f \in rules : f.resource = x).fields]
    ELSE Unrestricted
RoleRead(entry, permissions, delegations, rules) ==
    [level |-> entry.level, permissions |-> Seconds(permissions),
     delegates |-> Seconds(delegations), fields |-> FieldsRead(entry, rules)]

\* A loaded role is its row, its grants and its rules, and nothing else.
LEMMA RoleIsRead ==
    ASSUME NEW t, NEW r
    PROVE  RoleFromRow(t, r) = RoleRead(t.roles[r], GrantsOf(t.rolePermissions, r),
                                        GrantsOf(t.roleDelegations, r), RulesOf(t.fieldAccess, r))
  BY Zenon DEF RoleFromRow, RoleRead, Seconds, FieldsRead, GrantsOf, RulesOf

\* The parts of a loaded role.
LEMMA RoleHas ==
    ASSUME NEW t, NEW r
    PROVE  /\ RoleFromRow(t, r).level = t.roles[r].level
           /\ RoleFromRow(t, r).permissions = Seconds(GrantsOf(t.rolePermissions, r))
           /\ RoleFromRow(t, r).delegates = Seconds(GrantsOf(t.roleDelegations, r))
           /\ RoleFromRow(t, r).fields = FieldsRead(t.roles[r], RulesOf(t.fieldAccess, r))
  BY RoleIsRead DEF RoleRead

(* A role is read from its own rows.                                       *)
LEMMA RoleReadAlike ==
    ASSUME NEW t, NEW u, NEW r, u.roles[r] = t.roles[r],
           GrantsOf(u.rolePermissions, r) = GrantsOf(t.rolePermissions, r),
           GrantsOf(u.roleDelegations, r) = GrantsOf(t.roleDelegations, r),
           RulesOf(u.fieldAccess, r) = RulesOf(t.fieldAccess, r)
    PROVE  RoleFromRow(u, r) = RoleFromRow(t, r)
  BY RoleIsRead, Zenon

(* What was written of a role is what is read of it.                       *)
LEMMA RoleReadBack ==
    ASSUME NEW u, NEW r, NEW role, IsRow("roles", role), u.roles[r] = RoleRow(role),
           GrantsOf(u.rolePermissions, r) = Pairs(r, role.permissions),
           GrantsOf(u.roleDelegations, r) = Pairs(r, role.delegates),
           RulesOf(u.fieldAccess, r) = RuleRows(r, role)
    PROVE  RoleFromRow(u, r) = role
<1>0. PICK rules : rules = RuleRows(r, role)
  OBVIOUS
<1> DEFINE read == [x \in {f.resource : f \in rules} |-> (CHOOSE f \in rules : f.resource = x).fields]
<1>1. PICK entry, ps, ds : /\ entry = RoleRow(role)
                         /\ ps = Pairs(r, role.permissions)
                         /\ ds = Pairs(r, role.delegates)
  OBVIOUS
<1>2. entry.level = role.level /\ entry.restricted = (role.fields # Unrestricted)
  BY <1>1 DEF RoleRow
<1>3. Seconds(ps) = role.permissions
  <2>1. ASSUME NEW k \in role.permissions PROVE k \in Seconds(ps)
    <3>1. <<r, k>> \in ps /\ <<r, k>>[2] = k
      BY <1>1 DEF Pairs
    <3> QED
      BY <3>1 DEF Seconds
  <2>2. ASSUME NEW g \in ps PROVE g[2] \in role.permissions
    BY <1>1 DEF Pairs
  <2> QED
    BY <2>1, <2>2 DEF Seconds
<1>4. Seconds(ds) = role.delegates
  <2>1. ASSUME NEW k \in role.delegates PROVE k \in Seconds(ds)
    <3>1. <<r, k>> \in ds /\ <<r, k>>[2] = k
      BY <1>1 DEF Pairs
    <3> QED
      BY <3>1 DEF Seconds
  <2>2. ASSUME NEW g \in ds PROVE g[2] \in role.delegates
    BY <1>1 DEF Pairs
  <2> QED
    BY <2>1, <2>2 DEF Seconds
<1>5. ASSUME role.fields # Unrestricted
      PROVE  read = role.fields
  <2>1. rules = {[role |-> r, resource |-> x, fields |-> role.fields[x]] : x \in DOMAIN role.fields}
    BY <1>0, <1>5 DEF RuleRows
  <2>2. {f.resource : f \in rules} = DOMAIN role.fields
    <3>1. ASSUME NEW x \in DOMAIN role.fields PROVE x \in {f.resource : f \in rules}
      <4>1. [role |-> r, resource |-> x, fields |-> role.fields[x]] \in rules
        BY <2>1
      <4> QED
        BY <4>1
    <3>2. ASSUME NEW f \in rules PROVE f.resource \in DOMAIN role.fields
      BY <2>1
    <3> QED
      BY <3>1, <3>2
  <2>3. ASSUME NEW x \in DOMAIN role.fields
        PROVE  (CHOOSE f \in rules : f.resource = x).fields = role.fields[x]
    <3>1. [role |-> r, resource |-> x, fields |-> role.fields[x]] \in rules
      BY <2>1
    <3>2. PICK f : f = CHOOSE g \in rules : g.resource = x
      OBVIOUS
    <3>3. f \in rules /\ f.resource = x
      <4>1. \E g \in rules : g.resource = x
        BY <3>1
      <4> QED
        BY <3>2, <4>1
    <3>4. f.fields = role.fields[x]
      BY <2>1, <3>3
    <3> QED
      BY <3>2, <3>4
  <2>4. read = [x \in DOMAIN role.fields |-> role.fields[x]]
    <3> QED
      BY <2>2, <2>3
  <2> QED
    BY <1>5, <2>4 DEF IsRow
<1>7. FieldsRead(entry, rules) = role.fields
  <2>1. FieldsRead(entry, rules) = IF entry.restricted THEN read ELSE Unrestricted
    BY Zenon DEF FieldsRead
  <2> HIDE DEF read
  <2> QED
    BY <1>2, <1>5, <2>1
<1>8. RoleFromRow(u, r) = RoleRead(entry, ps, ds, rules)
  <2>1. RoleFromRow(u, r) = RoleRead(u.roles[r], GrantsOf(u.rolePermissions, r),
                                   GrantsOf(u.roleDelegations, r), RulesOf(u.fieldAccess, r))
    BY RoleIsRead
  <2> QED
    BY <1>0, <1>1, <2>1, Zenon
<1>9. RoleRead(entry, ps, ds, rules) = [level |-> role.level, permissions |-> role.permissions,
                                      delegates |-> role.delegates, fields |-> role.fields]
  BY <1>2, <1>3, <1>4, <1>7, Zenon DEF RoleRead
<1> QED
  BY <1>8, <1>9, Zenon DEF IsRow

\* The parts of a loaded policy.
LEMMA LoadIsPolicy ==
    ASSUME NEW t
    PROVE  /\ LoadPolicyWith(t) = PolicyOf(t.revision, t.subjects, t.members, t.resources, t.levels, t.permissions,
                                           [r \in DOMAIN t.roles |-> RoleFromRow(t, r)], t.bindings)
           /\ IsPolicy(LoadPolicyWith(t))
           /\ LoadPolicyWith(t).revision = t.revision /\ LoadPolicyWith(t).subjects = t.subjects
           /\ LoadPolicyWith(t).members = t.members /\ LoadPolicyWith(t).resources = t.resources
           /\ LoadPolicyWith(t).levels = t.levels /\ LoadPolicyWith(t).permissions = t.permissions
           /\ LoadPolicyWith(t).roles = [r \in DOMAIN t.roles |-> RoleFromRow(t, r)]
           /\ LoadPolicyWith(t).bindings = t.bindings
<1>1. PICK f : f = [r \in DOMAIN t.roles |-> RoleFromRow(t, r)]
  OBVIOUS
<1>2. LoadPolicyWith(t) = PolicyOf(t.revision, t.subjects, t.members, t.resources, t.levels, t.permissions, f, t.bindings)
  BY <1>1, Zenon DEF LoadPolicyWith, PolicyOf
<1>3. PICK p : p = LoadPolicyWith(t)
  OBVIOUS
<1>4. /\ p.revision = t.revision /\ p.subjects = t.subjects
      /\ p.members = t.members /\ p.resources = t.resources
      /\ p.levels = t.levels /\ p.permissions = t.permissions
      /\ p.roles = f /\ p.bindings = t.bindings
  BY <1>2, <1>3 DEF PolicyOf
<1>5. IsPolicy(p)
  BY <1>2, <1>3, <1>4 DEF IsPolicy
<1> QED
  BY <1>1, <1>2, <1>3, <1>4, <1>5, Zenon

(* What a mutation makes of the policy in the rows is what it makes of the *)
(* policy that is read from them.                                          *)
LEMMA StoresDecision ==
    ASSUME NEW t, TableRows(t), NEW m, IsMutation(m), NEW u,
           u = [RowsAfter(t, m) EXCEPT !.revision = t.revision + 1],
           m.table = "subjects" /\ m.op = "delete" =>
             \A e \in DOMAIN t.members : m.id \notin {t.members[e].group, t.members[e].member}
    PROVE  LoadPolicyWith(u) = ApplyPolicyMutation(LoadPolicyWith(t), m)
<1> DEFINE RolesRead(v) == [r \in DOMAIN v.roles |-> RoleFromRow(v, r)]
<1>1. PICK n : n = t.revision + 1
  OBVIOUS
<1>2. PICK p : p = LoadPolicyWith(t)
  OBVIOUS
<1>3. PICK f : f = RolesRead(t)
  OBVIOUS
<1>4. /\ IsPolicy(p) /\ p.revision + 1 = n /\ p.subjects = t.subjects /\ p.members = t.members /\ p.resources = t.resources
      /\ p.levels = t.levels /\ p.permissions = t.permissions /\ p.roles = f /\ p.bindings = t.bindings
  <2>1. /\ IsPolicy(p) /\ p.revision = t.revision /\ p.subjects = t.subjects /\ p.members = t.members
        /\ p.resources = t.resources /\ p.levels = t.levels /\ p.permissions = t.permissions
        /\ p.roles = [r \in DOMAIN t.roles |-> RoleFromRow(t, r)] /\ p.bindings = t.bindings
    BY <1>2, LoadIsPolicy
  <2> QED
    BY <1>1, <1>3, <2>1
<1>5. m.table \in PolicyParts
  BY DEF IsMutation, PolicyParts
<1>6. PICK s, g, x, l, r, b :
         /\ s = IF m.table = "subjects" THEN Edit(t.subjects, m) ELSE t.subjects
         /\ g = IF m.table = "members" THEN Edit(t.members, m) ELSE t.members
         /\ x = IF m.table = "resources" THEN Edit(t.resources, m) ELSE t.resources
         /\ l = IF m.table = "levels" THEN Edit(t.levels, m) ELSE t.levels
         /\ r = IF m.table = "roles" THEN Edit(f, m) ELSE f
         /\ b = IF m.table = "bindings" THEN Edit(t.bindings, m) ELSE t.bindings
  OBVIOUS
<1>7. ASSUME u.revision = n, u.subjects = s, u.members = g, u.resources = x, u.levels = l,
             u.permissions = t.permissions, RolesRead(u) = r, u.bindings = b
      PROVE  LoadPolicyWith(u) = ApplyPolicyMutation(p, m)
  <2>1. ApplyPolicyMutation(p, m) =
             PolicyOf(p.revision + 1,
                IF m.table = "subjects" THEN Edit(p.subjects, m) ELSE p.subjects,
                IF m.table = "members" THEN Edit(p.members, m) ELSE p.members,
                IF m.table = "resources" THEN Edit(p.resources, m) ELSE p.resources,
                IF m.table = "levels" THEN Edit(p.levels, m) ELSE p.levels, p.permissions,
                IF m.table = "roles" THEN Edit(p.roles, m) ELSE p.roles,
                IF m.table = "bindings" THEN Edit(p.bindings, m) ELSE p.bindings)
    BY <1>4, <1>5, Applied
  <2>2. ApplyPolicyMutation(p, m) = PolicyOf(n, s, g, x, l, t.permissions, r, b)
    BY <1>4, <1>6, <2>1, Zenon
  <2>3. LoadPolicyWith(u) = PolicyOf(u.revision, u.subjects, u.members, u.resources, u.levels, u.permissions,
                                     [y \in DOMAIN u.roles |-> RoleFromRow(u, y)], u.bindings)
    BY LoadIsPolicy, Zenon
  <2>4. RolesRead(u) = [y \in DOMAIN u.roles |-> RoleFromRow(u, y)]
    OBVIOUS
  <2> HIDE DEF RolesRead
  <2> QED
    BY <1>7, <2>2, <2>3, <2>4, Zenon
<1>8. ASSUME u.roles = t.roles, u.rolePermissions = t.rolePermissions,
             u.roleDelegations = t.roleDelegations, u.fieldAccess = t.fieldAccess
      PROVE  RolesRead(u) = f
  <2>1. \A y \in DOMAIN t.roles : RoleFromRow(u, y) = RoleFromRow(t, y)
    BY <1>8, RoleReadAlike
  <2>2. RolesRead(u) = [y \in DOMAIN t.roles |-> RoleFromRow(u, y)]
    BY <1>8
  <2> QED
    BY <1>3, <2>1, <2>2
<1> HIDE DEF RolesRead
<1>9. CASE m.table = "members"
  <2>1. PICK e, ga : e = Edit(t.members, m) /\ ga = GroupAncestors(t.subjects, e)
    OBVIOUS
  <2>2. u = RowsOf(n, t.subjects, e, ga, t.resources,
               t.resourceAncestors, t.levels, t.permissions, t.roles, t.rolePermissions, t.roleDelegations,
               t.fieldAccess, t.bindings, t.memberships)
    BY <1>1, <1>9, <2>1, MembersStored
  <2>3. /\ s = t.subjects /\ g = e /\ x = t.resources /\ l = t.levels /\ r = f /\ b = t.bindings
    BY <1>6, <1>9, <2>1
  <2>4. /\ u.revision = n /\ u.subjects = t.subjects /\ u.members = e /\ u.resources = t.resources
        /\ u.levels = t.levels /\ u.permissions = t.permissions /\ u.bindings = t.bindings
        /\ u.roles = t.roles /\ u.rolePermissions = t.rolePermissions
        /\ u.roleDelegations = t.roleDelegations /\ u.fieldAccess = t.fieldAccess
    BY <2>2 DEF RowsOf
  <2>5. RolesRead(u) = f
    BY <1>8, <2>4
  <2> QED
    BY <1>2, <1>7, <2>3, <2>4, <2>5
<1>10. CASE m.table = "subjects"
  <2>1. PICK e, ga : e = Edit(t.subjects, m) /\ ga = GroupAncestors(e, t.members)
    OBVIOUS
  <2>2. u = RowsOf(n, e, t.members, ga, t.resources,
               t.resourceAncestors, t.levels, t.permissions, t.roles, t.rolePermissions, t.roleDelegations,
               t.fieldAccess, t.bindings, t.memberships)
    BY <1>1, <1>10, <2>1, SubjectsStored
  <2>3. /\ s = e /\ g = t.members /\ x = t.resources /\ l = t.levels /\ r = f /\ b = t.bindings
    BY <1>6, <1>10, <2>1
  <2>4. /\ u.revision = n /\ u.subjects = e /\ u.members = t.members /\ u.resources = t.resources
        /\ u.levels = t.levels /\ u.permissions = t.permissions /\ u.bindings = t.bindings
        /\ u.roles = t.roles /\ u.rolePermissions = t.rolePermissions
        /\ u.roleDelegations = t.roleDelegations /\ u.fieldAccess = t.fieldAccess
    BY <2>2 DEF RowsOf
  <2>5. RolesRead(u) = f
    BY <1>8, <2>4
  <2> QED
    BY <1>2, <1>7, <2>3, <2>4, <2>5
<1>11. CASE m.table = "resources"
  <2>1. PICK e, xa : e = Edit(t.resources, m) /\ xa = Chains(DOMAIN e, TreeEdges(e))
    OBVIOUS
  <2>2. u = RowsOf(n, t.subjects, t.members, t.groupAncestors, e,
               xa, t.levels, t.permissions, t.roles, t.rolePermissions, t.roleDelegations,
               t.fieldAccess, t.bindings, t.memberships)
    BY <1>1, <1>11, <2>1, ResourcesStored
  <2>3. /\ s = t.subjects /\ g = t.members /\ x = e /\ l = t.levels /\ r = f /\ b = t.bindings
    BY <1>6, <1>11, <2>1
  <2>4. /\ u.revision = n /\ u.subjects = t.subjects /\ u.members = t.members /\ u.resources = e
        /\ u.levels = t.levels /\ u.permissions = t.permissions /\ u.bindings = t.bindings
        /\ u.roles = t.roles /\ u.rolePermissions = t.rolePermissions
        /\ u.roleDelegations = t.roleDelegations /\ u.fieldAccess = t.fieldAccess
    BY <2>2 DEF RowsOf
  <2>5. RolesRead(u) = f
    BY <1>8, <2>4
  <2> QED
    BY <1>2, <1>7, <2>3, <2>4, <2>5
<1>12. CASE m.table = "levels"
  <2>1. PICK e : e = Edit(t.levels, m)
    OBVIOUS
  <2>2. u = RowsOf(n, t.subjects, t.members, t.groupAncestors, t.resources,
               t.resourceAncestors, e, t.permissions, t.roles, t.rolePermissions, t.roleDelegations,
               t.fieldAccess, t.bindings, t.memberships)
    BY <1>1, <1>12, <2>1, LevelsStored
  <2>3. /\ s = t.subjects /\ g = t.members /\ x = t.resources /\ l = e /\ r = f /\ b = t.bindings
    BY <1>6, <1>12, <2>1
  <2>4. /\ u.revision = n /\ u.subjects = t.subjects /\ u.members = t.members /\ u.resources = t.resources
        /\ u.levels = e /\ u.permissions = t.permissions /\ u.bindings = t.bindings
        /\ u.roles = t.roles /\ u.rolePermissions = t.rolePermissions
        /\ u.roleDelegations = t.roleDelegations /\ u.fieldAccess = t.fieldAccess
    BY <2>2 DEF RowsOf
  <2>5. RolesRead(u) = f
    BY <1>8, <2>4
  <2> QED
    BY <1>2, <1>7, <2>3, <2>4, <2>5
<1>13. CASE m.table = "bindings"
  <2>1. PICK e : e = Edit(t.bindings, m)
    OBVIOUS
  <2>2. u = RowsOf(n, t.subjects, t.members, t.groupAncestors, t.resources,
               t.resourceAncestors, t.levels, t.permissions, t.roles, t.rolePermissions, t.roleDelegations,
               t.fieldAccess, e, t.memberships)
    BY <1>1, <1>13, <2>1, BindingsStored
  <2>3. /\ s = t.subjects /\ g = t.members /\ x = t.resources /\ l = t.levels /\ r = f /\ b = e
    BY <1>6, <1>13, <2>1
  <2>4. /\ u.revision = n /\ u.subjects = t.subjects /\ u.members = t.members /\ u.resources = t.resources
        /\ u.levels = t.levels /\ u.permissions = t.permissions /\ u.bindings = e
        /\ u.roles = t.roles /\ u.rolePermissions = t.rolePermissions
        /\ u.roleDelegations = t.roleDelegations /\ u.fieldAccess = t.fieldAccess
    BY <2>2 DEF RowsOf
  <2>5. RolesRead(u) = f
    BY <1>8, <2>4
  <2> QED
    BY <1>2, <1>7, <2>3, <2>4, <2>5
<1>14. ASSUME m.table = "roles", m.op = "delete"
       PROVE  LoadPolicyWith(u) = ApplyPolicyMutation(p, m)
  <2>1. PICK e, rp, rd, fa :
         /\ e = RolesBut(t.roles, m.id)
         /\ rp = GrantsBut(t.rolePermissions, m.id)
         /\ rd = GrantsBut(t.roleDelegations, m.id)
         /\ fa = RulesBut(t.fieldAccess, m.id)
    OBVIOUS
  <2>2. u = RowsOf(n, t.subjects, t.members, t.groupAncestors, t.resources,
               t.resourceAncestors, t.levels, t.permissions, e, rp, rd, fa, t.bindings, t.memberships)
    <3>1. [RowsAfter(t, m) EXCEPT !.revision = n] = RowsOf(n, t.subjects, t.members, t.groupAncestors, t.resources,
               t.resourceAncestors, t.levels, t.permissions, RolesBut(t.roles, m.id),
               GrantsBut(t.rolePermissions, m.id), GrantsBut(t.roleDelegations, m.id),
               RulesBut(t.fieldAccess, m.id), t.bindings, t.memberships)
      BY <1>14, RoleDeleted
    <3> QED
      BY <1>1, <2>1, <3>1, Zenon
  <2>3. /\ u.revision = n /\ u.subjects = t.subjects /\ u.members = t.members /\ u.resources = t.resources
        /\ u.levels = t.levels /\ u.permissions = t.permissions /\ u.bindings = t.bindings
        /\ u.roles = e /\ u.rolePermissions = rp /\ u.roleDelegations = rd /\ u.fieldAccess = fa
    BY <2>2 DEF RowsOf
  <2>4. ASSUME NEW y \in DOMAIN e
        PROVE  RoleFromRow(u, y) = f[y]
    <3>1. y \in DOMAIN t.roles /\ y # m.id /\ e[y] = t.roles[y]
      BY <2>1 DEF RolesBut
    <3>2. GrantsOf(rp, y) = GrantsOf(t.rolePermissions, y)
      BY <2>1, <3>1 DEF RolesBut, GrantsOf, GrantsBut, RulesOf, RulesBut
    <3>3. GrantsOf(rd, y) = GrantsOf(t.roleDelegations, y)
      BY <2>1, <3>1 DEF RolesBut, GrantsOf, GrantsBut, RulesOf, RulesBut
    <3>4. RulesOf(fa, y) = RulesOf(t.fieldAccess, y)
      BY <2>1, <3>1 DEF RolesBut, GrantsOf, GrantsBut, RulesOf, RulesBut
    <3>5. /\ u.roles[y] = t.roles[y]
          /\ GrantsOf(u.rolePermissions, y) = GrantsOf(t.rolePermissions, y)
          /\ GrantsOf(u.roleDelegations, y) = GrantsOf(t.roleDelegations, y)
          /\ RulesOf(u.fieldAccess, y) = RulesOf(t.fieldAccess, y)
      BY <2>3, <3>1, <3>2, <3>3, <3>4, Zenon
    <3>6. RoleFromRow(u, y) = RoleFromRow(t, y)
      BY <3>5, RoleReadAlike
    <3> QED
      BY <1>3, <3>1, <3>6 DEF RolesRead
  <2>5. PICK o : o = Edit(f, m)
    OBVIOUS
  <2>6. o = [y \in DOMAIN t.roles \ {m.id} |-> f[y]]
    BY <1>3, <1>14, <2>5 DEF Edit, RolesRead
  <2>7. RolesRead(u) = o
    <3>1. DOMAIN e = DOMAIN t.roles \ {m.id}
      BY <2>1 DEF RolesBut
    <3>2. RolesRead(u) = [y \in DOMAIN e |-> RoleFromRow(u, y)]
      BY <2>3 DEF RolesRead
    <3> QED
      BY <2>4, <2>6, <3>1, <3>2
  <2>8. s = t.subjects /\ g = t.members /\ x = t.resources /\ l = t.levels /\ r = o /\ b = t.bindings
    BY <1>6, <1>14, <2>5
  <2> QED
    BY <1>7, <2>3, <2>7, <2>8
<1>15. ASSUME m.table = "roles", m.op \in {"create", "update"}
       PROVE  LoadPolicyWith(u) = ApplyPolicyMutation(p, m)
  <2>1. PICK e, rp, rd, fa :
         /\ e = RolesWith(t.roles, m.id, RoleRow(m.value))
         /\ rp = GrantsBut(t.rolePermissions, m.id) \cup Pairs(m.id, m.value.permissions)
         /\ rd = GrantsBut(t.roleDelegations, m.id) \cup Pairs(m.id, m.value.delegates)
         /\ fa = RulesBut(t.fieldAccess, m.id) \cup RuleRows(m.id, m.value)
    OBVIOUS
  <2>2. u = RowsOf(n, t.subjects, t.members, t.groupAncestors, t.resources,
               t.resourceAncestors, t.levels, t.permissions, e, rp, rd, fa, t.bindings, t.memberships)
    <3>1. [RowsAfter(t, m) EXCEPT !.revision = n] = RowsOf(n, t.subjects, t.members, t.groupAncestors, t.resources,
               t.resourceAncestors, t.levels, t.permissions,
               RolesWith(t.roles, m.id, RoleRow(m.value)),
               GrantsBut(t.rolePermissions, m.id) \cup Pairs(m.id, m.value.permissions),
               GrantsBut(t.roleDelegations, m.id) \cup Pairs(m.id, m.value.delegates),
               RulesBut(t.fieldAccess, m.id) \cup RuleRows(m.id, m.value), t.bindings, t.memberships)
      BY <1>15, RoleStored
    <3> QED
      BY <1>1, <2>1, <3>1, Zenon
  <2>3. /\ u.revision = n /\ u.subjects = t.subjects /\ u.members = t.members /\ u.resources = t.resources
        /\ u.levels = t.levels /\ u.permissions = t.permissions /\ u.bindings = t.bindings
        /\ u.roles = e /\ u.rolePermissions = rp /\ u.roleDelegations = rd /\ u.fieldAccess = fa
    BY <2>2 DEF RowsOf
  <2>4. \A q \in RuleRows(m.id, m.value) : q.role = m.id
    BY DEF RuleRows
  <2>5. ASSUME NEW y \in DOMAIN e, y # m.id
        PROVE  RoleFromRow(u, y) = f[y]
    <3>1. y \in DOMAIN t.roles /\ e[y] = t.roles[y]
      BY <2>1, <2>5 DEF RolesWith
    <3>2. GrantsOf(rp, y) = GrantsOf(t.rolePermissions, y)
      BY <2>1, <2>5 DEF GrantsOf, GrantsBut, Pairs
    <3>3. GrantsOf(rd, y) = GrantsOf(t.roleDelegations, y)
      BY <2>1, <2>5 DEF GrantsOf, GrantsBut, Pairs
    <3>4. RulesOf(fa, y) = RulesOf(t.fieldAccess, y)
      BY <2>1, <2>4, <2>5 DEF RulesOf, RulesBut
    <3>5. /\ u.roles[y] = t.roles[y]
          /\ GrantsOf(u.rolePermissions, y) = GrantsOf(t.rolePermissions, y)
          /\ GrantsOf(u.roleDelegations, y) = GrantsOf(t.roleDelegations, y)
          /\ RulesOf(u.fieldAccess, y) = RulesOf(t.fieldAccess, y)
      BY <2>3, <3>1, <3>2, <3>3, <3>4, Zenon
    <3>6. RoleFromRow(u, y) = RoleFromRow(t, y)
      BY <3>5, RoleReadAlike
    <3> QED
      BY <1>3, <3>1, <3>6 DEF RolesRead
  <2>6. RoleFromRow(u, m.id) = m.value
    <3>1. IsRow("roles", m.value)
      BY <1>15 DEF IsMutation
    <3>2. e[m.id] = RoleRow(m.value)
      BY <2>1 DEF RolesWith
    <3>3. GrantsOf(rp, m.id) = Pairs(m.id, m.value.permissions)
      BY <2>1 DEF GrantsOf, GrantsBut, Pairs
    <3>4. GrantsOf(rd, m.id) = Pairs(m.id, m.value.delegates)
      BY <2>1 DEF GrantsOf, GrantsBut, Pairs
    <3>5. RulesOf(fa, m.id) = RuleRows(m.id, m.value)
      BY <2>1, <2>4 DEF RulesOf, RulesBut
    <3> QED
      <4>1. /\ u.roles[m.id] = RoleRow(m.value)
            /\ GrantsOf(u.rolePermissions, m.id) = Pairs(m.id, m.value.permissions)
            /\ GrantsOf(u.roleDelegations, m.id) = Pairs(m.id, m.value.delegates)
            /\ RulesOf(u.fieldAccess, m.id) = RuleRows(m.id, m.value)
        BY <2>3, <3>2, <3>3, <3>4, <3>5, Zenon
      <4> QED
        BY <3>1, <4>1, RoleReadBack
  <2>7. PICK o : o = Edit(f, m)
    OBVIOUS
  <2>8. o = [y \in DOMAIN t.roles \cup {m.id} |-> IF y = m.id THEN m.value ELSE f[y]]
    <3>1. DOMAIN f = DOMAIN t.roles
      BY <1>3 DEF RolesRead
    <3> QED
      BY <1>15, <2>7, <3>1 DEF Edit
  <2>9. RolesRead(u) = o
    <3>1. DOMAIN e = DOMAIN t.roles \cup {m.id}
      BY <2>1 DEF RolesWith
    <3>2. RolesRead(u) = [y \in DOMAIN e |-> RoleFromRow(u, y)]
      BY <2>3 DEF RolesRead
    <3> QED
      BY <2>5, <2>6, <2>8, <3>1, <3>2
  <2>10. s = t.subjects /\ g = t.members /\ x = t.resources /\ l = t.levels /\ r = o /\ b = t.bindings
    BY <1>6, <1>15, <2>7
  <2> QED
    BY <1>7, <2>3, <2>9, <2>10
<1>16. m.table = "roles" => m.op \in {"create", "update", "delete"}
  BY DEF IsMutation
<1> QED
  BY <1>2, <1>5, <1>9, <1>10, <1>11, <1>12, <1>13, <1>14, <1>15, <1>16 DEF PolicyParts

-----------------------------------------------------------------------------
(* The rows stay well formed.                                              *)

(* The closures are those of the rows; nothing is delegated that cannot be.*)
Closed(t) ==
    /\ t.groupAncestors = GroupAncestors(t.subjects, t.members)
    /\ t.resourceAncestors = Chains(DOMAIN t.resources, TreeEdges(t.resources))
Undelegable(t) == \A g \in t.roleDelegations : g[2] \notin Protected

\* When tables built part by part are well formed.
LEMMA RowsIf ==
    ASSUME NEW u, NEW rev \in Nat, NEW s, NEW m, NEW ga, NEW x, NEW xa, NEW l, NEW k, NEW r, NEW rp, NEW rd, NEW fa,
           NEW b, NEW ms, u = RowsOf(rev, s, m, ga, x, xa, l, k, r, rp, rd, fa, b, ms),
           IsFiniteSet(DOMAIN s), IsFiniteSet(DOMAIN x), m = [e \in DOMAIN m |-> m[e]],
           \A y \in DOMAIN s : IsRow("subjects", s[y]),
           \A y \in DOMAIN x : IsRow("resources", x[y]),
           \A f, g \in fa : f.role = g.role /\ f.resource = g.resource => f = g
    PROVE  TableRows(u)
<1>1. /\ u.revision = rev /\ u.subjects = s /\ u.members = m /\ u.groupAncestors = ga
      /\ u.resources = x /\ u.resourceAncestors = xa /\ u.levels = l /\ u.permissions = k
      /\ u.roles = r /\ u.rolePermissions = rp /\ u.roleDelegations = rd /\ u.fieldAccess = fa
      /\ u.bindings = b /\ u.memberships = ms
  BY DEF RowsOf
<1>2. u = RowsOf(u.revision, u.subjects, u.members, u.groupAncestors, u.resources, u.resourceAncestors,
                  u.levels, u.permissions, u.roles, u.rolePermissions, u.roleDelegations,
                  u.fieldAccess, u.bindings, u.memberships)
  BY <1>1, Zenon
<1> QED
  BY <1>1, <1>2, Zenon DEF TableRows

\* A mutation writes finitely many rows.
LEMMA EditIsFinite ==
    ASSUME NEW table, IsFiniteSet(DOMAIN table), NEW m, IsMutation(m)
    PROVE  IsFiniteSet(DOMAIN Edit(table, m))
<1>1. CASE m.op \in {"create", "update"}
  <2>1. DOMAIN Edit(table, m) = DOMAIN table \cup {m.id}
    BY <1>1 DEF Edit
  <2> QED
    BY <2>1, FS_AddElement
<1>2. CASE m.op = "delete"
  <2>1. DOMAIN Edit(table, m) = DOMAIN table \ {m.id}
    BY <1>2 DEF Edit
  <2> QED
    BY <2>1, FS_RemoveElement
<1>3. CASE m.op = "reconcile"
  <2>1. DOMAIN Edit(table, m) = (DOMAIN table \ m.deletes) \cup DOMAIN m.upserts
    BY <1>3 DEF Edit
  <2>2. IsFiniteSet(DOMAIN m.upserts)
    BY <1>3 DEF IsMutation
  <2>3. IsFiniteSet(DOMAIN table \ m.deletes)
    BY FS_Subset
  <2> QED
    BY <2>1, <2>2, <2>3, FS_Union
<1>4. CASE m.op = "replace-owner"
  <2>1. DOMAIN Edit(table, m) = {y \in DOMAIN table : table[y].role # OwnerRole} \cup {m.id}
    BY <1>4 DEF Edit
  <2>2. IsFiniteSet({y \in DOMAIN table : table[y].role # OwnerRole})
    BY FS_Subset
  <2> QED
    BY <2>1, <2>2, FS_AddElement
<1> QED
  BY <1>1, <1>2, <1>3, <1>4 DEF IsMutation

\* A mutation writes rows of its table's shape.
LEMMA EditKeepsRows ==
    ASSUME NEW table, NEW m, IsMutation(m), m.table \in {"subjects", "resources"},
           \A y \in DOMAIN table : IsRow(m.table, table[y])
    PROVE  \A y \in DOMAIN Edit(table, m) : IsRow(m.table, Edit(table, m)[y])
<1>1. CASE m.op \in {"create", "update"}
  <2>1. Edit(table, m) = [y \in DOMAIN table \cup {m.id} |-> IF y = m.id THEN m.value ELSE table[y]]
    BY <1>1 DEF Edit
  <2>2. IsRow(m.table, m.value)
    BY <1>1 DEF IsMutation
  <2> QED
    BY <2>1, <2>2
<1>2. CASE m.op = "delete"
  <2>1. Edit(table, m) = [y \in DOMAIN table \ {m.id} |-> table[y]]
    BY <1>2 DEF Edit
  <2> QED
    BY <2>1
<1>3. CASE m.op = "reconcile"
  <2>1. Edit(table, m) = [y \in (DOMAIN table \ m.deletes) \cup DOMAIN m.upserts |->
                            IF y \in DOMAIN m.upserts THEN m.upserts[y] ELSE table[y]]
    BY <1>3 DEF Edit
  <2>2. \A y \in DOMAIN m.upserts : IsRow("resources", m.upserts[y])
    BY <1>3 DEF IsMutation
  <2>3. m.table = "resources"
    BY <1>3 DEF IsMutation
  <2> QED
    BY <2>1, <2>2, <2>3
<1> QED
  BY <1>1, <1>2, <1>3 DEF IsMutation

\* An edited table is a function of its ids.
LEMMA EditIsFunction ==
    ASSUME NEW table, NEW m, IsMutation(m)
    PROVE  Edit(table, m) = [y \in DOMAIN Edit(table, m) |-> Edit(table, m)[y]]
<1>1. CASE m.op \in {"create", "update"}
  <2>1. Edit(table, m) = [y \in DOMAIN table \cup {m.id} |-> IF y = m.id THEN m.value ELSE table[y]]
    BY <1>1 DEF Edit
  <2> QED
    BY <2>1
<1>2. CASE m.op = "delete"
  <2>1. Edit(table, m) = [y \in DOMAIN table \ {m.id} |-> table[y]]
    BY <1>2 DEF Edit
  <2> QED
    BY <2>1
<1>3. CASE m.op = "reconcile"
  <2>1. Edit(table, m) = [y \in (DOMAIN table \ m.deletes) \cup DOMAIN m.upserts |->
                            IF y \in DOMAIN m.upserts THEN m.upserts[y] ELSE table[y]]
    BY <1>3 DEF Edit
  <2> QED
    BY <2>1
<1>4. CASE m.op = "replace-owner"
  <2>1. Edit(table, m) = [y \in {z \in DOMAIN table : table[z].role # OwnerRole} \cup {m.id} |->
                            IF y = m.id THEN m.value ELSE table[y]]
    BY <1>4 DEF Edit
  <2> QED
    BY <2>1
<1> QED
  BY <1>1, <1>2, <1>3, <1>4 DEF IsMutation

\* Every stored mutation leaves the rows, the closures and the grants well formed.
LEMMA StoreKeepsRows ==
    ASSUME NEW t, TableRows(t), Closed(t), Undelegable(t), NEW m, IsMutation(m), NEW u,
           u = [RowsAfter(t, m) EXCEPT !.revision = t.revision + 1],
           m.table = "subjects" /\ m.op = "delete" =>
             \A e \in DOMAIN t.members : m.id \notin {t.members[e].group, t.members[e].member},
           m.table = "roles" /\ m.op # "delete" => m.value.delegates \subseteq t.permissions \ Protected
    PROVE  TableRows(u) /\ Closed(u) /\ Undelegable(u) /\ u.revision = t.revision + 1
<1>1. PICK n : n = t.revision + 1
  OBVIOUS
<1>2. n \in Nat
  BY <1>1 DEF TableRows
<1>3. /\ IsFiniteSet(DOMAIN t.subjects) /\ IsFiniteSet(DOMAIN t.resources)
      /\ t.members = [e \in DOMAIN t.members |-> t.members[e]]
      /\ \A s \in DOMAIN t.subjects : IsRow("subjects", t.subjects[s])
      /\ \A r \in DOMAIN t.resources : IsRow("resources", t.resources[r])
      /\ \A f, g \in t.fieldAccess : f.role = g.role /\ f.resource = g.resource => f = g
  BY DEF TableRows
<1>4. /\ t.groupAncestors = GroupAncestors(t.subjects, t.members)
      /\ t.resourceAncestors = Chains(DOMAIN t.resources, TreeEdges(t.resources))
      /\ \A g \in t.roleDelegations : g[2] \notin Protected
  BY DEF Closed, Undelegable

<1>5. CASE m.table = "members"
  <2>1. PICK e, ga : e = Edit(t.members, m) /\ ga = GroupAncestors(t.subjects, e)
    OBVIOUS
  <2>2. u = RowsOf(n, t.subjects, e, ga, t.resources,
               t.resourceAncestors, t.levels, t.permissions, t.roles, t.rolePermissions,
               t.roleDelegations, t.fieldAccess, t.bindings, t.memberships)
    BY <1>1, <1>5, <2>1, MembersStored
  <2>3. /\ u.revision = n /\ u.subjects = t.subjects /\ u.members = e
        /\ u.groupAncestors = ga /\ u.resources = t.resources /\ u.resourceAncestors = t.resourceAncestors
        /\ u.levels = t.levels /\ u.permissions = t.permissions /\ u.roles = t.roles
        /\ u.rolePermissions = t.rolePermissions /\ u.roleDelegations = t.roleDelegations /\ u.fieldAccess = t.fieldAccess
        /\ u.bindings = t.bindings /\ u.memberships = t.memberships
    BY <2>2 DEF RowsOf
  <2>4. TableRows(u)
    <3>1. e = [y \in DOMAIN e |-> e[y]]
      BY <2>1, EditIsFunction
    <3> QED
      BY <1>2, <1>3, <2>2, <3>1, RowsIf
  <2>5. Closed(u) /\ Undelegable(u)
    BY <1>4, <2>1, <2>3 DEF Closed, Undelegable
  <2> QED
    BY <1>1, <2>3, <2>4, <2>5
<1>6. CASE m.table = "subjects"
  <2>1. PICK e, ga : e = Edit(t.subjects, m) /\ ga = GroupAncestors(e, t.members)
    OBVIOUS
  <2>2. u = RowsOf(n, e, t.members, ga, t.resources,
               t.resourceAncestors, t.levels, t.permissions, t.roles, t.rolePermissions,
               t.roleDelegations, t.fieldAccess, t.bindings, t.memberships)
    BY <1>1, <1>6, <2>1, SubjectsStored
  <2>3. /\ u.revision = n /\ u.subjects = e /\ u.members = t.members
        /\ u.groupAncestors = ga /\ u.resources = t.resources /\ u.resourceAncestors = t.resourceAncestors
        /\ u.levels = t.levels /\ u.permissions = t.permissions /\ u.roles = t.roles
        /\ u.rolePermissions = t.rolePermissions /\ u.roleDelegations = t.roleDelegations /\ u.fieldAccess = t.fieldAccess
        /\ u.bindings = t.bindings /\ u.memberships = t.memberships
    BY <2>2 DEF RowsOf
  <2>4. TableRows(u)
    <3>1. IsFiniteSet(DOMAIN e)
      BY <1>3, <2>1, EditIsFinite
    <3>2. \A y \in DOMAIN e : IsRow("subjects", e[y])
      BY <1>3, <1>6, <2>1, EditKeepsRows
    <3> QED
      BY <1>2, <1>3, <2>2, <3>1, <3>2, RowsIf
  <2>5. Closed(u) /\ Undelegable(u)
    BY <1>4, <2>1, <2>3 DEF Closed, Undelegable
  <2> QED
    BY <1>1, <2>3, <2>4, <2>5
<1>7. CASE m.table = "resources"
  <2>1. PICK e, xa : e = Edit(t.resources, m) /\ xa = Chains(DOMAIN e, TreeEdges(e))
    OBVIOUS
  <2>2. u = RowsOf(n, t.subjects, t.members, t.groupAncestors, e,
               xa, t.levels, t.permissions, t.roles, t.rolePermissions,
               t.roleDelegations, t.fieldAccess, t.bindings, t.memberships)
    BY <1>1, <1>7, <2>1, ResourcesStored
  <2>3. /\ u.revision = n /\ u.subjects = t.subjects /\ u.members = t.members
        /\ u.groupAncestors = t.groupAncestors /\ u.resources = e /\ u.resourceAncestors = xa
        /\ u.levels = t.levels /\ u.permissions = t.permissions /\ u.roles = t.roles
        /\ u.rolePermissions = t.rolePermissions /\ u.roleDelegations = t.roleDelegations /\ u.fieldAccess = t.fieldAccess
        /\ u.bindings = t.bindings /\ u.memberships = t.memberships
    BY <2>2 DEF RowsOf
  <2>4. TableRows(u)
    <3>1. IsFiniteSet(DOMAIN e)
      BY <1>3, <2>1, EditIsFinite
    <3>2. \A y \in DOMAIN e : IsRow("resources", e[y])
      BY <1>3, <1>7, <2>1, EditKeepsRows
    <3> QED
      BY <1>2, <1>3, <2>2, <3>1, <3>2, RowsIf
  <2>5. Closed(u) /\ Undelegable(u)
    BY <1>4, <2>1, <2>3 DEF Closed, Undelegable
  <2> QED
    BY <1>1, <2>3, <2>4, <2>5
<1>8. CASE m.table = "levels"
  <2>1. PICK e : e = Edit(t.levels, m)
    OBVIOUS
  <2>2. u = RowsOf(n, t.subjects, t.members, t.groupAncestors, t.resources,
               t.resourceAncestors, e, t.permissions, t.roles, t.rolePermissions,
               t.roleDelegations, t.fieldAccess, t.bindings, t.memberships)
    BY <1>1, <1>8, <2>1, LevelsStored
  <2>3. /\ u.revision = n /\ u.subjects = t.subjects /\ u.members = t.members
        /\ u.groupAncestors = t.groupAncestors /\ u.resources = t.resources /\ u.resourceAncestors = t.resourceAncestors
        /\ u.levels = e /\ u.permissions = t.permissions /\ u.roles = t.roles
        /\ u.rolePermissions = t.rolePermissions /\ u.roleDelegations = t.roleDelegations /\ u.fieldAccess = t.fieldAccess
        /\ u.bindings = t.bindings /\ u.memberships = t.memberships
    BY <2>2 DEF RowsOf
  <2>4. TableRows(u)
    BY <1>2, <1>3, <2>2, RowsIf
  <2>5. Closed(u) /\ Undelegable(u)
    BY <1>4, <2>1, <2>3 DEF Closed, Undelegable
  <2> QED
    BY <1>1, <2>3, <2>4, <2>5
<1>9. CASE m.table = "bindings"
  <2>1. PICK e : e = Edit(t.bindings, m)
    OBVIOUS
  <2>2. u = RowsOf(n, t.subjects, t.members, t.groupAncestors, t.resources,
               t.resourceAncestors, t.levels, t.permissions, t.roles, t.rolePermissions,
               t.roleDelegations, t.fieldAccess, e, t.memberships)
    BY <1>1, <1>9, <2>1, BindingsStored
  <2>3. /\ u.revision = n /\ u.subjects = t.subjects /\ u.members = t.members
        /\ u.groupAncestors = t.groupAncestors /\ u.resources = t.resources /\ u.resourceAncestors = t.resourceAncestors
        /\ u.levels = t.levels /\ u.permissions = t.permissions /\ u.roles = t.roles
        /\ u.rolePermissions = t.rolePermissions /\ u.roleDelegations = t.roleDelegations /\ u.fieldAccess = t.fieldAccess
        /\ u.bindings = e /\ u.memberships = t.memberships
    BY <2>2 DEF RowsOf
  <2>4. TableRows(u)
    BY <1>2, <1>3, <2>2, RowsIf
  <2>5. Closed(u) /\ Undelegable(u)
    BY <1>4, <2>1, <2>3 DEF Closed, Undelegable
  <2> QED
    BY <1>1, <2>3, <2>4, <2>5
<1>10. ASSUME m.table = "roles", m.op = "delete"
     PROVE  TableRows(u) /\ Closed(u) /\ Undelegable(u) /\ u.revision = t.revision + 1
  <2>1. PICK e, rp, rd, fa :
         /\ e = RolesBut(t.roles, m.id)
         /\ rp = GrantsBut(t.rolePermissions, m.id)
         /\ rd = GrantsBut(t.roleDelegations, m.id)
         /\ fa = RulesBut(t.fieldAccess, m.id)
    OBVIOUS
  <2>2. u = RowsOf(n, t.subjects, t.members, t.groupAncestors, t.resources,
               t.resourceAncestors, t.levels, t.permissions, e, rp,
               rd, fa, t.bindings, t.memberships)
    <3>1. [RowsAfter(t, m) EXCEPT !.revision = n] = RowsOf(n, t.subjects, t.members, t.groupAncestors, t.resources,
               t.resourceAncestors, t.levels, t.permissions, RolesBut(t.roles, m.id),
               GrantsBut(t.rolePermissions, m.id), GrantsBut(t.roleDelegations, m.id),
               RulesBut(t.fieldAccess, m.id), t.bindings, t.memberships)
      BY <1>10, RoleDeleted
    <3> QED
      BY <1>1, <2>1, <3>1, Zenon
  <2>3. /\ u.revision = n /\ u.subjects = t.subjects /\ u.members = t.members
        /\ u.groupAncestors = t.groupAncestors /\ u.resources = t.resources /\ u.resourceAncestors = t.resourceAncestors
        /\ u.levels = t.levels /\ u.permissions = t.permissions /\ u.roles = e
        /\ u.rolePermissions = rp /\ u.roleDelegations = rd /\ u.fieldAccess = fa
        /\ u.bindings = t.bindings /\ u.memberships = t.memberships
    BY <2>2 DEF RowsOf
  <2>4. TableRows(u)
    <3>1. \A f, g \in fa : f.role = g.role /\ f.resource = g.resource => f = g
      BY <1>3, <2>1 DEF RulesBut
    <3> QED
      BY <1>2, <1>3, <2>2, <3>1, RowsIf
  <2>5. Closed(u)
    BY <1>4, <2>3 DEF Closed
  <2>6. Undelegable(u)
    BY <1>4, <2>1, <2>3 DEF Undelegable, GrantsBut
  <2> QED
    BY <1>1, <2>3, <2>4, <2>5, <2>6
<1>11. ASSUME m.table = "roles", m.op \in {"create", "update"}
      PROVE  TableRows(u) /\ Closed(u) /\ Undelegable(u) /\ u.revision = t.revision + 1
  <2>1. PICK e, rp, rd, fa :
         /\ e = RolesWith(t.roles, m.id, RoleRow(m.value))
         /\ rp = GrantsBut(t.rolePermissions, m.id) \cup Pairs(m.id, m.value.permissions)
         /\ rd = GrantsBut(t.roleDelegations, m.id) \cup Pairs(m.id, m.value.delegates)
         /\ fa = RulesBut(t.fieldAccess, m.id) \cup RuleRows(m.id, m.value)
    OBVIOUS
  <2>2. u = RowsOf(n, t.subjects, t.members, t.groupAncestors, t.resources,
               t.resourceAncestors, t.levels, t.permissions, e, rp,
               rd, fa, t.bindings, t.memberships)
    <3>1. [RowsAfter(t, m) EXCEPT !.revision = n] = RowsOf(n, t.subjects, t.members, t.groupAncestors, t.resources,
               t.resourceAncestors, t.levels, t.permissions,
               RolesWith(t.roles, m.id, RoleRow(m.value)),
               GrantsBut(t.rolePermissions, m.id) \cup Pairs(m.id, m.value.permissions),
               GrantsBut(t.roleDelegations, m.id) \cup Pairs(m.id, m.value.delegates),
               RulesBut(t.fieldAccess, m.id) \cup RuleRows(m.id, m.value), t.bindings, t.memberships)
      BY <1>11, RoleStored
    <3> QED
      BY <1>1, <2>1, <3>1, Zenon
  <2>3. /\ u.revision = n /\ u.subjects = t.subjects /\ u.members = t.members
        /\ u.groupAncestors = t.groupAncestors /\ u.resources = t.resources /\ u.resourceAncestors = t.resourceAncestors
        /\ u.levels = t.levels /\ u.permissions = t.permissions /\ u.roles = e
        /\ u.rolePermissions = rp /\ u.roleDelegations = rd /\ u.fieldAccess = fa
        /\ u.bindings = t.bindings /\ u.memberships = t.memberships
    BY <2>2 DEF RowsOf
  <2>4. TableRows(u)
    <3>1. ASSUME NEW f \in fa, NEW g \in fa, f.role = g.role, f.resource = g.resource
          PROVE  f = g
      <4>1. \A q \in RuleRows(m.id, m.value) :
               q.role = m.id /\ q = [role |-> m.id, resource |-> q.resource, fields |-> m.value.fields[q.resource]]
        BY DEF RuleRows
      <4>2. \A q \in RulesBut(t.fieldAccess, m.id) : q \in t.fieldAccess /\ q.role # m.id
        BY DEF RulesBut
      <4>3. CASE f.role = m.id
        <5>1. f \in RuleRows(m.id, m.value) /\ g \in RuleRows(m.id, m.value)
          BY <2>1, <3>1, <4>2, <4>3
        <5>2. /\ f = [role |-> m.id, resource |-> f.resource, fields |-> m.value.fields[f.resource]]
              /\ g = [role |-> m.id, resource |-> g.resource, fields |-> m.value.fields[g.resource]]
          BY <4>1, <5>1, Zenon
        <5> QED
          BY <3>1, <5>2, Zenon
      <4>4. CASE f.role # m.id
        BY <1>3, <2>1, <3>1, <4>1, <4>2, <4>4
      <4> QED
        BY <4>3, <4>4
    <3> QED
      BY <1>2, <1>3, <2>2, <3>1, RowsIf
  <2>5. Closed(u)
    BY <1>4, <2>3 DEF Closed
  <2>6. Undelegable(u)
    <3>1. ASSUME NEW g \in rd
          PROVE  g[2] \notin Protected
      <4>1. CASE g \in GrantsBut(t.roleDelegations, m.id)
        BY <1>4, <4>1 DEF GrantsBut
      <4>2. CASE g \in Pairs(m.id, m.value.delegates)
        BY <1>11, <4>2 DEF Pairs
      <4> QED
        BY <2>1, <4>1, <4>2
    <3> QED
      BY <2>3, <3>1 DEF Undelegable
  <2> QED
    BY <1>1, <2>3, <2>4, <2>5, <2>6
<1>12. m.table = "roles" => m.op \in {"create", "update", "delete"}
  BY DEF IsMutation
<1>13. m.table \in PolicyParts
  BY DEF IsMutation, PolicyParts
<1> QED
  BY <1>5, <1>6, <1>7, <1>8, <1>9, <1>10, <1>11, <1>12, <1>13 DEF PolicyParts

-----------------------------------------------------------------------------
(* The copies: what a server's cached policy shares with the tables.       *)

(* Two policies agree when they differ in identities and permissions only: *)
(* in what provisioning and plugins write past the services.               *)
Agrees(p, q) ==
    /\ p.members = q.members /\ p.resources = q.resources /\ p.bindings = q.bindings
    /\ DOMAIN p.subjects = DOMAIN q.subjects
    /\ \A s \in DOMAIN p.subjects : p.subjects[s].type = q.subjects[s].type
    /\ DOMAIN p.roles = DOMAIN q.roles
    /\ \A r \in DOMAIN p.roles : p.roles[r].fields = q.roles[r].fields

Whole(p) ==
    /\ \A e \in DOMAIN p.members :
         /\ {p.members[e].group, p.members[e].member} \subseteq DOMAIN p.subjects
         /\ p.subjects[p.members[e].group].type = "group"
    /\ ~HasCycle(DOMAIN p.subjects, GroupEdges(p.members))
    /\ TreeRoot \in DOMAIN p.resources
    /\ ~HasCycle(DOMAIN p.resources, TreeEdges(p.resources))

\* Foreign keys are read from what two agreeing policies share.
LEMMA AgreesIsWhole ==
    ASSUME NEW p, NEW q, Agrees(p, q), IsSnapshot(p)
    PROVE  Whole(q)
<1>1. /\ \A e \in DOMAIN p.members :
           /\ {p.members[e].group, p.members[e].member} \subseteq DOMAIN p.subjects
           /\ p.subjects[p.members[e].group].type = "group"
      /\ ~HasCycle(DOMAIN p.subjects, GroupEdges(p.members))
      /\ TreeRoot \in DOMAIN p.resources
      /\ ~HasCycle(DOMAIN p.resources, TreeEdges(p.resources))
  BY DEF IsSnapshot
<1>2. \A e \in DOMAIN q.members :
           /\ {q.members[e].group, q.members[e].member} \subseteq DOMAIN q.subjects
           /\ q.subjects[q.members[e].group].type = "group"
  BY <1>1 DEF Agrees
<1>3. /\ ~HasCycle(DOMAIN q.subjects, GroupEdges(q.members))
      /\ TreeRoot \in DOMAIN q.resources
      /\ ~HasCycle(DOMAIN q.resources, TreeEdges(q.resources))
  BY <1>1, Zenon DEF Agrees
<1> QED
  BY <1>2, <1>3 DEF Whole

\* Agreement is transitive.
LEMMA AgreesTwice ==
    ASSUME NEW p, NEW q, NEW v, Agrees(p, q), Agrees(q, v)
    PROVE  Agrees(p, v)
  BY DEF Agrees

\* Tables that differ in identities and permissions only load as agreeing policies.
LEMMA LoadAgrees ==
    ASSUME NEW t, NEW u, u.members = t.members, u.resources = t.resources, u.bindings = t.bindings,
           DOMAIN u.subjects = DOMAIN t.subjects,
           \A s \in DOMAIN t.subjects : u.subjects[s].type = t.subjects[s].type,
           u.roles = t.roles, u.fieldAccess = t.fieldAccess
    PROVE  Agrees(LoadPolicyWith(t), LoadPolicyWith(u))
<1>1. PICK p, q : p = LoadPolicyWith(t) /\ q = LoadPolicyWith(u)
  OBVIOUS
<1>2. /\ p.subjects = t.subjects /\ p.members = t.members /\ p.resources = t.resources
      /\ p.roles = [r \in DOMAIN t.roles |-> RoleFromRow(t, r)] /\ p.bindings = t.bindings
  BY <1>1, LoadIsPolicy
<1>3. /\ q.subjects = u.subjects /\ q.members = u.members /\ q.resources = u.resources
      /\ q.roles = [r \in DOMAIN u.roles |-> RoleFromRow(u, r)] /\ q.bindings = u.bindings
  BY <1>1, LoadIsPolicy
<1>4. ASSUME NEW r \in DOMAIN t.roles
      PROVE  RoleFromRow(t, r).fields = RoleFromRow(u, r).fields
  BY RoleHas
<1>5. DOMAIN p.roles = DOMAIN q.roles /\ \A r \in DOMAIN p.roles : p.roles[r].fields = q.roles[r].fields
  BY <1>2, <1>3, <1>4
<1>6. Agrees(p, q)
  BY <1>2, <1>3, <1>5 DEF Agrees
<1> QED
  BY <1>1, <1>6

\* The parts of a policy a mutation was applied to.
LEMMA AppliedHas ==
    ASSUME NEW p, IsPolicy(p), NEW m, m.table \in PolicyParts, NEW u, u = ApplyPolicyMutation(p, m)
    PROVE  /\ u.subjects = IF m.table = "subjects" THEN Edit(p.subjects, m) ELSE p.subjects
           /\ u.members = IF m.table = "members" THEN Edit(p.members, m) ELSE p.members
           /\ u.resources = IF m.table = "resources" THEN Edit(p.resources, m) ELSE p.resources
           /\ u.roles = IF m.table = "roles" THEN Edit(p.roles, m) ELSE p.roles
           /\ u.bindings = IF m.table = "bindings" THEN Edit(p.bindings, m) ELSE p.bindings
<1>1. PICK s, g, x, l, r, b :
       /\ s = IF m.table = "subjects" THEN Edit(p.subjects, m) ELSE p.subjects
       /\ g = IF m.table = "members" THEN Edit(p.members, m) ELSE p.members
       /\ x = IF m.table = "resources" THEN Edit(p.resources, m) ELSE p.resources
       /\ l = IF m.table = "levels" THEN Edit(p.levels, m) ELSE p.levels
       /\ r = IF m.table = "roles" THEN Edit(p.roles, m) ELSE p.roles
       /\ b = IF m.table = "bindings" THEN Edit(p.bindings, m) ELSE p.bindings
  OBVIOUS
<1>2. ApplyPolicyMutation(p, m) =
           PolicyOf(p.revision + 1,
              IF m.table = "subjects" THEN Edit(p.subjects, m) ELSE p.subjects,
              IF m.table = "members" THEN Edit(p.members, m) ELSE p.members,
              IF m.table = "resources" THEN Edit(p.resources, m) ELSE p.resources,
              IF m.table = "levels" THEN Edit(p.levels, m) ELSE p.levels, p.permissions,
              IF m.table = "roles" THEN Edit(p.roles, m) ELSE p.roles,
              IF m.table = "bindings" THEN Edit(p.bindings, m) ELSE p.bindings)
  BY Applied
<1>3. u = PolicyOf(p.revision + 1, s, g, x, l, p.permissions, r, b)
  BY <1>1, <1>2, Zenon
<1>4. u.subjects = s /\ u.members = g /\ u.resources = x /\ u.roles = r /\ u.bindings = b
  BY <1>3 DEF PolicyOf
<1> QED
  BY <1>1, <1>4, Zenon

(* The same change of two policies that agree makes two that agree.        *)
LEMMA AppliedAgrees ==
    ASSUME NEW p, IsPolicy(p), NEW q, IsPolicy(q), Agrees(p, q), NEW m, IsMutation(m)
    PROVE  Agrees(ApplyPolicyMutation(p, m), ApplyPolicyMutation(q, m))

<1>1. PICK u : u = ApplyPolicyMutation(p, m)
  OBVIOUS
<1>2. PICK v : v = ApplyPolicyMutation(q, m)
  OBVIOUS
<1>3. m.table \in PolicyParts
  BY DEF IsMutation, PolicyParts
<1>4. /\ u.subjects = IF m.table = "subjects" THEN Edit(p.subjects, m) ELSE p.subjects
      /\ u.members = IF m.table = "members" THEN Edit(p.members, m) ELSE p.members
      /\ u.resources = IF m.table = "resources" THEN Edit(p.resources, m) ELSE p.resources
      /\ u.roles = IF m.table = "roles" THEN Edit(p.roles, m) ELSE p.roles
      /\ u.bindings = IF m.table = "bindings" THEN Edit(p.bindings, m) ELSE p.bindings
  BY <1>1, <1>3, AppliedHas
<1>5. /\ v.subjects = IF m.table = "subjects" THEN Edit(q.subjects, m) ELSE q.subjects
      /\ v.members = IF m.table = "members" THEN Edit(q.members, m) ELSE q.members
      /\ v.resources = IF m.table = "resources" THEN Edit(q.resources, m) ELSE q.resources
      /\ v.roles = IF m.table = "roles" THEN Edit(q.roles, m) ELSE q.roles
      /\ v.bindings = IF m.table = "bindings" THEN Edit(q.bindings, m) ELSE q.bindings
  BY <1>2, <1>3, AppliedHas
<1>6. u.members = v.members /\ u.resources = v.resources
  BY <1>4, <1>5, Zenon DEF Agrees
<1>7. u.bindings = v.bindings
  BY <1>4, <1>5, Zenon DEF Agrees
<1>8. /\ DOMAIN u.subjects = DOMAIN v.subjects
      /\ \A s \in DOMAIN u.subjects : u.subjects[s].type = v.subjects[s].type
  <2>1. /\ DOMAIN p.subjects = DOMAIN q.subjects
        /\ \A s \in DOMAIN p.subjects : p.subjects[s].type = q.subjects[s].type
    BY DEF Agrees
  <2>2. CASE m.table # "subjects"
    BY <1>4, <1>5, <2>1, <2>2
  <2>3. ASSUME m.table = "subjects", m.op \in {"create", "update"}
        PROVE  /\ DOMAIN u.subjects = DOMAIN v.subjects
               /\ \A s \in DOMAIN u.subjects : u.subjects[s].type = v.subjects[s].type
    <3>1. /\ u.subjects = [y \in DOMAIN p.subjects \cup {m.id} |-> IF y = m.id THEN m.value ELSE p.subjects[y]]
          /\ v.subjects = [y \in DOMAIN q.subjects \cup {m.id} |-> IF y = m.id THEN m.value ELSE q.subjects[y]]
      BY <1>4, <1>5, <2>3 DEF Edit
    <3> QED
      BY <2>1, <3>1
  <2>4. ASSUME m.table = "subjects", m.op = "delete"
        PROVE  /\ DOMAIN u.subjects = DOMAIN v.subjects
               /\ \A s \in DOMAIN u.subjects : u.subjects[s].type = v.subjects[s].type
    <3>1. /\ u.subjects = [y \in DOMAIN p.subjects \ {m.id} |-> p.subjects[y]]
          /\ v.subjects = [y \in DOMAIN q.subjects \ {m.id} |-> q.subjects[y]]
      BY <1>4, <1>5, <2>4 DEF Edit
    <3> QED
      BY <2>1, <3>1
  <2>5. m.table = "subjects" => m.op \in {"create", "update", "delete"}
    BY DEF IsMutation
  <2> QED
    BY <2>2, <2>3, <2>4, <2>5
<1>9. /\ DOMAIN u.roles = DOMAIN v.roles
      /\ \A r \in DOMAIN u.roles : u.roles[r].fields = v.roles[r].fields
  <2>1. /\ DOMAIN p.roles = DOMAIN q.roles
        /\ \A r \in DOMAIN p.roles : p.roles[r].fields = q.roles[r].fields
    BY DEF Agrees
  <2>2. CASE m.table # "roles"
    BY <1>4, <1>5, <2>1, <2>2
  <2>3. ASSUME m.table = "roles", m.op \in {"create", "update"}
        PROVE  /\ DOMAIN u.roles = DOMAIN v.roles
               /\ \A r \in DOMAIN u.roles : u.roles[r].fields = v.roles[r].fields
    <3>1. /\ u.roles = [y \in DOMAIN p.roles \cup {m.id} |-> IF y = m.id THEN m.value ELSE p.roles[y]]
          /\ v.roles = [y \in DOMAIN q.roles \cup {m.id} |-> IF y = m.id THEN m.value ELSE q.roles[y]]
      BY <1>4, <1>5, <2>3 DEF Edit
    <3> QED
      BY <2>1, <3>1
  <2>4. ASSUME m.table = "roles", m.op = "delete"
        PROVE  /\ DOMAIN u.roles = DOMAIN v.roles
               /\ \A r \in DOMAIN u.roles : u.roles[r].fields = v.roles[r].fields
    <3>1. /\ u.roles = [y \in DOMAIN p.roles \ {m.id} |-> p.roles[y]]
          /\ v.roles = [y \in DOMAIN q.roles \ {m.id} |-> q.roles[y]]
      BY <1>4, <1>5, <2>4 DEF Edit
    <3> QED
      BY <2>1, <3>1
  <2>5. m.table = "roles" => m.op \in {"create", "update", "delete"}
    BY DEF IsMutation
  <2> QED
    BY <2>2, <2>3, <2>4, <2>5
<1>10. Agrees(u, v)
  BY <1>6, <1>7, <1>8, <1>9 DEF Agrees
<1> QED
  BY <1>1, <1>2, <1>10

(* What keeps the constraints can be loaded.                               *)
LEMMA LoadsWell ==
    ASSUME NEW t, TableRows(t), Constraints(t), Undelegable(t), Whole(t)
    PROVE  IsSnapshot(LoadPolicyWith(t))
<1>1. PICK p : p = LoadPolicyWith(t)
  OBVIOUS
<1>2. /\ p.revision = t.revision /\ p.subjects = t.subjects /\ p.members = t.members /\ p.resources = t.resources
      /\ p.levels = t.levels /\ p.permissions = t.permissions
      /\ p.roles = [r \in DOMAIN t.roles |-> RoleFromRow(t, r)] /\ p.bindings = t.bindings
  BY <1>1, LoadIsPolicy
<1>3. \A l, k \in DOMAIN p.levels : p.levels[l] = p.levels[k] => l = k
  BY <1>2 DEF Constraints
<1>4. ASSUME NEW r \in DOMAIN p.roles
      PROVE  /\ p.roles[r].level \in DOMAIN p.levels
             /\ p.roles[r].delegates \subseteq p.roles[r].permissions \ Protected
             /\ p.roles[r].permissions \subseteq p.permissions
             /\ p.roles[r].fields # Unrestricted => DOMAIN p.roles[r].fields \subseteq DOMAIN p.resources
  <2>1. PICK rules, ps, ds, role :
          /\ rules = RulesOf(t.fieldAccess, r) /\ ps = GrantsOf(t.rolePermissions, r)
          /\ ds = GrantsOf(t.roleDelegations, r) /\ role = RoleFromRow(t, r)
    OBVIOUS
  <2>2. r \in DOMAIN t.roles /\ p.roles[r] = role
    BY <1>2, <2>1
  <2>5. /\ role.level = t.roles[r].level /\ role.permissions = Seconds(ps)
        /\ role.delegates = Seconds(ds) /\ role.fields = FieldsRead(t.roles[r], rules)
    BY <2>1, RoleHas
  <2>6. role.level \in DOMAIN p.levels
    BY <1>2, <2>2, <2>5 DEF Constraints
  <2>7. ds \subseteq ps /\ \A g \in ds : g[2] \notin Protected
    BY <2>1 DEF GrantsOf, Constraints, Undelegable
  <2>8. \A g \in ps : g[2] \in t.permissions
    BY <2>1 DEF GrantsOf, Constraints
  <2>9. role.delegates \subseteq role.permissions \ Protected
    <3>1. ASSUME NEW k \in role.delegates
          PROVE  k \in role.permissions /\ k \notin Protected
      <4>1. PICK g \in ds : k = g[2]
        BY <2>5 DEF Seconds
      <4> QED
        BY <2>5, <2>7, <4>1 DEF Seconds
    <3> QED
      BY <3>1
  <2>10. role.permissions \subseteq p.permissions
    BY <1>2, <2>5, <2>8 DEF Seconds
  <2>11. role.fields # Unrestricted => DOMAIN role.fields \subseteq DOMAIN p.resources
    <3>3. FieldsRead(t.roles[r], rules) # Unrestricted =>
            DOMAIN FieldsRead(t.roles[r], rules) = {f.resource : f \in rules}
      BY DEF FieldsRead
    <3>4. \A f \in rules : f.resource \in DOMAIN t.resources
      BY <2>1 DEF RulesOf, Constraints
    <3> QED
      BY <1>2, <2>5, <3>3, <3>4
  <2> QED
    BY <2>2, <2>6, <2>9, <2>10, <2>11
<1>5. \A b \in DOMAIN p.bindings :
         /\ p.bindings[b].subject \in DOMAIN p.subjects
         /\ p.bindings[b].role \in DOMAIN p.roles
         /\ p.bindings[b].resource \in DOMAIN p.resources
  BY <1>2 DEF Constraints
<1>6. \A e \in DOMAIN p.members :
         /\ {p.members[e].group, p.members[e].member} \subseteq DOMAIN p.subjects
         /\ p.subjects[p.members[e].group].type = "group"
         /\ \A f \in DOMAIN p.members : p.members[f] = p.members[e] => f = e
  <2>1. \A e, f \in DOMAIN t.members : t.members[e] = t.members[f] => e = f
    BY DEF Constraints
  <2> QED
    BY <1>2, <2>1 DEF Whole
<1>7. /\ ~HasCycle(DOMAIN p.subjects, GroupEdges(p.members))
      /\ TreeRoot \in DOMAIN p.resources
      /\ ~HasCycle(DOMAIN p.resources, TreeEdges(p.resources))
  BY <1>2, Zenon DEF Whole
<1>8. \A e \in TreeEdges(p.resources) : e[1] \in DOMAIN p.resources
  <2>1. \A r \in DOMAIN t.resources \ {TreeRoot} : t.resources[r].parent \in DOMAIN t.resources
    BY DEF Constraints
  <2> QED
    BY <1>2, <2>1 DEF TreeEdges
<1>9. IsSnapshot(p)
  BY <1>3, <1>4, <1>5, <1>6, <1>7, <1>8 DEF IsSnapshot
<1> QED
  BY <1>1, <1>9

-----------------------------------------------------------------------------
(* The inductive invariant and where it starts.                            *)

(* What a server has cached is a policy, no newer than the rows, that      *)
(* agrees with them if its revision is theirs.                             *)
Known(t, p) ==
    p # NoPolicyYet =>
      /\ IsPolicy(p) /\ p.revision \in Nat /\ p.revision <= t.revision
      /\ p.revision = t.revision => Agrees(p, LoadPolicyWith(t))

TablesInv ==
    /\ TableRows(tables) /\ Constraints(tables) /\ Closed(tables) /\ Undelegable(tables) /\ Whole(tables)
    /\ log.revision = tables.revision
    /\ cached = [s \in PolicyServers |-> cached[s]]
    /\ \A s \in PolicyServers : Known(tables, cached[s])

\* In whole tables, the links of groups and of the tree join rows of the tables.
LEMMA EdgesJoinNodes ==
    ASSUME NEW t, Whole(t), \A r \in DOMAIN t.resources \ {TreeRoot} : t.resources[r].parent \in DOMAIN t.resources
    PROVE  /\ GroupEdges(t.members) \subseteq (DOMAIN t.subjects) \X (DOMAIN t.subjects)
           /\ TreeEdges(t.resources) \subseteq (DOMAIN t.resources) \X (DOMAIN t.resources)
<1>1. ASSUME NEW e \in GroupEdges(t.members)
      PROVE  e \in (DOMAIN t.subjects) \X (DOMAIN t.subjects)
  <2>1. PICK m \in DOMAIN t.members : e = <<t.members[m].group, t.members[m].member>>
    BY DEF GroupEdges
  <2>2. t.members[m].group \in DOMAIN t.subjects /\ t.members[m].member \in DOMAIN t.subjects
    BY DEF Whole
  <2> QED
    BY <2>1, <2>2
<1>2. ASSUME NEW e \in TreeEdges(t.resources)
      PROVE  e \in (DOMAIN t.resources) \X (DOMAIN t.resources)
  <2>1. PICK r \in DOMAIN t.resources : r # TreeRoot /\ e = <<t.resources[r].parent, r>>
    BY DEF TreeEdges
  <2>2. t.resources[r].parent \in DOMAIN t.resources
    BY <2>1
  <2> QED
    BY <2>1, <2>2
<1> QED
  BY <1>1, <1>2

(* The rows of a policy that was validated.                                *)
LEMMA SeedIsSound ==
    ASSUME NEW p, IsSeed(p), NEW t, t = InsertSeed(p)
    PROVE  /\ TableRows(t) /\ Constraints(t) /\ Closed(t) /\ Undelegable(t) /\ Whole(t)
           /\ t.revision = 1
<1>1. PICK ro, rp, rd, fa, ga, xa, none :
        /\ ro = [r \in DOMAIN p.roles |-> RoleRow(p.roles[r])]
        /\ rp = UNION {{r} \X p.roles[r].permissions : r \in DOMAIN p.roles}
        /\ rd = UNION {{r} \X p.roles[r].delegates : r \in DOMAIN p.roles}
        /\ fa = UNION {RuleRows(r, p.roles[r]) : r \in DOMAIN p.roles}
        /\ ga = GroupAncestors(p.subjects, p.members)
        /\ xa = Chains(DOMAIN p.resources, TreeEdges(p.resources))
        /\ none = <<>>
  OBVIOUS
<1>2. t = RowsOf(1, p.subjects, p.members, ga, p.resources, xa, p.levels, p.permissions,
                 ro, rp, rd, fa, p.bindings, none)
  <2>1. PICK e : e = RowsOf(1, p.subjects, p.members, {}, p.resources, {}, p.levels, p.permissions,
                 ro, rp, rd, fa, p.bindings, none)
    OBVIOUS
  <2>2. t = RebuildResourceClosure(RebuildGroupClosure(e))
    BY <1>1, <2>1, Zenon DEF InsertSeed, RowsOf
  <2>3. RebuildGroupClosure(e) = RowsOf(1, p.subjects, p.members, ga, p.resources, {}, p.levels, p.permissions,
                 ro, rp, rd, fa, p.bindings, none)
    BY <1>1, <2>1, GroupsRebuilt
  <2> QED
    BY <1>1, <2>2, <2>3, TreeRebuilt
<1>3. /\ t.revision = 1 /\ t.subjects = p.subjects /\ t.members = p.members /\ t.groupAncestors = ga
      /\ t.resources = p.resources /\ t.resourceAncestors = xa /\ t.levels = p.levels
      /\ t.permissions = p.permissions /\ t.roles = ro /\ t.rolePermissions = rp /\ t.roleDelegations = rd
      /\ t.fieldAccess = fa /\ t.bindings = p.bindings /\ t.memberships = none
  BY <1>2 DEF RowsOf
<1>4. /\ IsFiniteSet(DOMAIN p.subjects) /\ IsFiniteSet(DOMAIN p.resources)
      /\ \A s \in DOMAIN p.subjects : IsRow("subjects", p.subjects[s])
      /\ \A s, z \in DOMAIN p.subjects :
           p.subjects[s].identity = p.subjects[z].identity /\ s # z => p.subjects[s].identity = NoIdentity
      /\ \A r \in DOMAIN p.resources : IsRow("resources", p.resources[r])
      /\ p.members = [e \in DOMAIN p.members |-> p.members[e]]
      /\ IsSnapshot(p)
  BY DEF IsSeed
<1>5. /\ \A l, k \in DOMAIN p.levels : p.levels[l] = p.levels[k] => l = k
      /\ \A r \in DOMAIN p.roles :
           /\ p.roles[r].level \in DOMAIN p.levels
           /\ p.roles[r].delegates \subseteq p.roles[r].permissions \ Protected
           /\ p.roles[r].permissions \subseteq p.permissions
           /\ p.roles[r].fields # Unrestricted => DOMAIN p.roles[r].fields \subseteq DOMAIN p.resources
      /\ \A b \in DOMAIN p.bindings :
           /\ p.bindings[b].subject \in DOMAIN p.subjects
           /\ p.bindings[b].role \in DOMAIN p.roles
           /\ p.bindings[b].resource \in DOMAIN p.resources
      /\ \A m \in DOMAIN p.members :
           /\ {p.members[m].group, p.members[m].member} \subseteq DOMAIN p.subjects
           /\ p.subjects[p.members[m].group].type = "group"
           /\ \A n \in DOMAIN p.members : p.members[n] = p.members[m] => n = m
      /\ ~HasCycle(DOMAIN p.subjects, GroupEdges(p.members))
      /\ TreeRoot \in DOMAIN p.resources
      /\ \A e \in TreeEdges(p.resources) : e[1] \in DOMAIN p.resources
      /\ ~HasCycle(DOMAIN p.resources, TreeEdges(p.resources))
  BY <1>4 DEF IsSnapshot
<1>6. \A r \in DOMAIN p.resources \ {TreeRoot} : p.resources[r].parent \in DOMAIN p.resources
  <2>1. \A r \in DOMAIN p.resources \ {TreeRoot} : <<p.resources[r].parent, r>> \in TreeEdges(p.resources)
    BY DEF TreeEdges
  <2> QED
    BY <1>5, <2>1
<1>7. Whole(t)
  <2>1. t.subjects = p.subjects /\ t.members = p.members /\ t.resources = p.resources
    BY <1>3
  <2>2. \A e \in DOMAIN t.members :
         /\ {t.members[e].group, t.members[e].member} \subseteq DOMAIN t.subjects
         /\ t.subjects[t.members[e].group].type = "group"
    BY <1>5, <2>1
  <2>3. /\ ~HasCycle(DOMAIN t.subjects, GroupEdges(t.members))
        /\ TreeRoot \in DOMAIN t.resources
        /\ ~HasCycle(DOMAIN t.resources, TreeEdges(t.resources))
    BY <1>5, <2>1, Zenon
  <2> QED
    BY <2>2, <2>3 DEF Whole
<1>8. \A f \in fa : \E r \in DOMAIN p.roles :
        /\ p.roles[r].fields # Unrestricted /\ f.resource \in DOMAIN p.roles[r].fields
        /\ f = [role |-> r, resource |-> f.resource, fields |-> p.roles[r].fields[f.resource]]
  <2> SUFFICES ASSUME NEW f \in fa
               PROVE  \E r \in DOMAIN p.roles :
        /\ p.roles[r].fields # Unrestricted /\ f.resource \in DOMAIN p.roles[r].fields
        /\ f = [role |-> r, resource |-> f.resource, fields |-> p.roles[r].fields[f.resource]]
    OBVIOUS
  <2>1. PICK r \in DOMAIN p.roles : f \in RuleRows(r, p.roles[r])
    BY <1>1
  <2>2. p.roles[r].fields # Unrestricted
    BY <2>1 DEF RuleRows
  <2>3. PICK x \in DOMAIN p.roles[r].fields : f = [role |-> r, resource |-> x, fields |-> p.roles[r].fields[x]]
    BY <2>1, <2>2 DEF RuleRows
  <2>4. f.resource = x
    <3>1. PICK v : v = p.roles[r].fields[x]
      OBVIOUS
    <3>2. f = [role |-> r, resource |-> x, fields |-> v]
      BY <2>3, <3>1, Zenon
    <3> QED
      BY <3>2
  <2> QED
    BY <2>2, <2>3, <2>4, Zenon
<1>9. TableRows(t)
  <2>1. ASSUME NEW f \in fa, NEW g \in fa, f.role = g.role, f.resource = g.resource
        PROVE  f = g
    <3>1. PICK r : f = [role |-> r, resource |-> f.resource, fields |-> p.roles[r].fields[f.resource]]
      BY <1>8
    <3>2. PICK q : g = [role |-> q, resource |-> g.resource, fields |-> p.roles[q].fields[g.resource]]
      BY <1>8
    <3>3. f.role = r /\ g.role = q
      <4>1. PICK x, v : x = f.resource /\ v = p.roles[r].fields[f.resource]
        OBVIOUS
      <4>2. PICK y, w : y = g.resource /\ w = p.roles[q].fields[g.resource]
        OBVIOUS
      <4>3. f = [role |-> r, resource |-> x, fields |-> v] /\ g = [role |-> q, resource |-> y, fields |-> w]
        BY <3>1, <3>2, <4>1, <4>2, Zenon
      <4> QED
        BY <4>3
    <3> QED
      BY <2>1, <3>1, <3>2, <3>3, Zenon
  <2> QED
    BY <1>2, <1>4, <2>1, RowsIf
<1>10. Closed(t)
  BY <1>1, <1>3 DEF Closed
<1>11. ASSUME NEW g \in rp
       PROVE  \E r \in DOMAIN p.roles : g[1] = r /\ g[2] \in p.roles[r].permissions
  BY <1>1
<1>12. ASSUME NEW g \in rd
       PROVE  g[2] \notin Protected /\ g \in rp
  <2>1. PICK r \in DOMAIN p.roles : g \in {r} \X p.roles[r].delegates
    BY <1>1
  <2>2. g \in {r} \X p.roles[r].permissions /\ g[2] \notin Protected
    BY <1>5, <2>1
  <2> QED
    BY <1>1, <2>2
<1>13. Undelegable(t)
  BY <1>3, <1>12 DEF Undelegable
<1>14. Constraints(t)
  <2>1. \A r \in DOMAIN t.roles : r \in DOMAIN p.roles /\ t.roles[r].level = p.roles[r].level
    BY <1>1, <1>3 DEF RoleRow
  <2>2. DOMAIN t.roles = DOMAIN p.roles
    BY <1>1, <1>3
  <2>3. \A g \in t.rolePermissions : g[1] \in DOMAIN t.roles /\ g[2] \in t.permissions
    BY <1>3, <1>5, <1>11, <2>2
  <2>4. \A f \in t.fieldAccess : f.role \in DOMAIN t.roles /\ f.resource \in DOMAIN t.resources
    <3>1. ASSUME NEW f \in fa
          PROVE  f.role \in DOMAIN p.roles /\ f.resource \in DOMAIN p.resources
      <4>1. PICK r \in DOMAIN p.roles :
              /\ p.roles[r].fields # Unrestricted /\ f.resource \in DOMAIN p.roles[r].fields
              /\ f = [role |-> r, resource |-> f.resource, fields |-> p.roles[r].fields[f.resource]]
        BY <1>8
      <4>2. PICK x, v : x = f.resource /\ v = p.roles[r].fields[f.resource]
        OBVIOUS
      <4>3. f = [role |-> r, resource |-> x, fields |-> v]
        BY <4>1, <4>2, Zenon
      <4>4. f.role = r
        BY <4>3
      <4> QED
        BY <1>5, <4>1, <4>4
    <3> QED
      BY <1>3, <2>2, <3>1
  <2>5. \A e \in DOMAIN t.members : t.members[e].group # t.members[e].member
    <3> SUFFICES ASSUME NEW e \in DOMAIN p.members, p.members[e].group = p.members[e].member
                 PROVE  FALSE
      BY <1>3
    <3>1. <<p.members[e].group, p.members[e].member>> \in GroupEdges(p.members)
      BY DEF GroupEdges
    <3>2. GroupEdges(p.members) \subseteq (DOMAIN p.subjects) \X (DOMAIN p.subjects)
      BY <1>3, <1>6, <1>7, EdgesJoinNodes
    <3>3. GroupEdges(p.members) \subseteq Below(DOMAIN p.subjects, GroupEdges(p.members))
      BY <1>4, <3>2, BelowIsClosure
    <3>4. p.members[e].group \in DOMAIN p.subjects
      BY <1>5
    <3> QED
      BY <1>5, <3>1, <3>3, <3>4 DEF HasCycle
  <2>6. \A s \in DOMAIN t.memberships :
         s \in DOMAIN t.subjects /\ t.subjects[s].identity = t.memberships[s]
    <3>1. DOMAIN none = {}
      BY <1>1
    <3> QED
      BY <1>3, <3>1
  <2>7. t.roleDelegations \subseteq t.rolePermissions
    BY <1>3, <1>12
  <2>8. \A r \in DOMAIN t.roles : t.roles[r].level \in DOMAIN t.levels
    BY <1>3, <1>5, <2>1
  <2>9. \A e \in DOMAIN t.members :
         /\ {t.members[e].group, t.members[e].member} \subseteq DOMAIN t.subjects
         /\ \A f \in DOMAIN t.members : t.members[e] = t.members[f] => e = f
    BY <1>3, <1>5
  <2>10. \A b \in DOMAIN t.bindings :
         /\ t.bindings[b].subject \in DOMAIN t.subjects
         /\ t.bindings[b].role \in DOMAIN t.roles
         /\ t.bindings[b].resource \in DOMAIN t.resources
    BY <1>3, <1>5, <2>2
  <2>11. /\ \A s, z \in DOMAIN t.subjects :
              t.subjects[s].identity = t.subjects[z].identity /\ s # z => t.subjects[s].identity = NoIdentity
         /\ \A l, k \in DOMAIN t.levels : t.levels[l] = t.levels[k] => l = k
         /\ \A r \in DOMAIN t.resources \ {TreeRoot} : t.resources[r].parent \in DOMAIN t.resources
    BY <1>3, <1>4, <1>5, <1>6
  <2> QED
    BY <2>3, <2>4, <2>5, <2>6, <2>7, <2>8, <2>9, <2>10, <2>11 DEF Constraints
<1> QED
  BY <1>3, <1>7, <1>9, <1>10, <1>13, <1>14

\* The first migration leaves the tables in a state of the invariant.
LEMMA TablesStart ==
    TablesInit => TablesInv
<1> SUFFICES ASSUME TablesInit
             PROVE  TablesInv
  OBVIOUS
<1>1. PICK p \in Seeds : tables = InsertSeed(p)
  BY DEF TablesInit
<1>2. IsSeed(p)
  BY SeedsAssumption
<1>3. /\ TableRows(tables) /\ Constraints(tables) /\ Closed(tables) /\ Undelegable(tables) /\ Whole(tables)
      /\ tables.revision = 1
  BY <1>1, <1>2, SeedIsSound
<1>4. log.revision = 1
  BY DEF TablesInit
<1>5. cached = [s \in PolicyServers |-> NoPolicyYet]
  BY DEF TablesInit
<1>6. \A s \in PolicyServers : Known(tables, cached[s])
  BY <1>5 DEF Known
<1> QED
  BY <1>3, <1>4, <1>5, <1>6 DEF TablesInv

-----------------------------------------------------------------------------
(* The steps that count no revision, and the store itself.                 *)

\* The references between rows read no identities and no permissions.
LEMMA WholeAlike ==
    ASSUME NEW t, Whole(t), NEW u, u.members = t.members, u.resources = t.resources,
           DOMAIN u.subjects = DOMAIN t.subjects,
           \A s \in DOMAIN t.subjects : u.subjects[s].type = t.subjects[s].type
    PROVE  Whole(u)
<1>1. \A e \in DOMAIN u.members :
         /\ {u.members[e].group, u.members[e].member} \subseteq DOMAIN u.subjects
         /\ u.subjects[u.members[e].group].type = "group"
  BY DEF Whole
<1>2. /\ ~HasCycle(DOMAIN t.subjects, GroupEdges(t.members))
      /\ TreeRoot \in DOMAIN t.resources
      /\ ~HasCycle(DOMAIN t.resources, TreeEdges(t.resources))
  BY DEF Whole
<1>3. /\ ~HasCycle(DOMAIN u.subjects, GroupEdges(u.members))
      /\ TreeRoot \in DOMAIN u.resources
      /\ ~HasCycle(DOMAIN u.resources, TreeEdges(u.resources))
  BY <1>2, Zenon
<1> QED
  BY <1>1, <1>3 DEF Whole

\* A server that has just loaded the tables knows them.
LEMMA KnowsLoaded ==
    ASSUME NEW t, t.revision \in Nat
    PROVE  Known(t, LoadPolicyWith(t))
<1>1. PICK p : p = LoadPolicyWith(t)
  OBVIOUS
<1>2. IsPolicy(p) /\ p.revision = t.revision
  BY <1>1, LoadIsPolicy
<1>3. Agrees(p, p)
  BY DEF Agrees
<1>4. Known(t, p)
  BY <1>1, <1>2, <1>3 DEF Known
<1> QED
  BY <1>1, <1>4

\* loadPolicy changes one server's copy and no table.
LEMMA LoadKeeps ==
    ASSUME TablesInv, NEW s \in PolicyServers, LoadPolicy(s)
    PROVE  TablesInv'
<1>1. tables' = tables /\ log' = log /\ cached' = [cached EXCEPT ![s] = LoadPolicyWith(tables)]
  BY DEF LoadPolicy
<1>2. PICK p : p = LoadPolicyWith(tables)
  OBVIOUS
<1>3. Known(tables, p)
  BY <1>2, KnowsLoaded DEF TablesInv, TableRows
<1>4. cached = [z \in PolicyServers |-> cached[z]] /\ \A z \in PolicyServers : Known(tables, cached[z])
  BY DEF TablesInv
<1>5. cached' = [z \in PolicyServers |-> IF z = s THEN p ELSE cached[z]]
  BY <1>1, <1>2, <1>4
<1>6. \A z \in PolicyServers : Known(tables, cached'[z])
  BY <1>3, <1>4, <1>5
<1>7. cached' = [z \in PolicyServers |-> cached'[z]]
  BY <1>5
<1> QED
  BY <1>1, <1>6, <1>7 DEF TablesInv

(* What the rows have that the caches do not makes no difference to them.  *)
LEMMA StillKnown ==
    ASSUME NEW t, NEW u, u.revision = t.revision, Agrees(LoadPolicyWith(t), LoadPolicyWith(u)), NEW p, Known(t, p)
    PROVE  Known(u, p)
<1>1. Agrees(p, LoadPolicyWith(t)) => Agrees(p, LoadPolicyWith(u))
  BY AgreesTwice
<1> QED
  BY <1>1 DEF Known

\* Linking an identity is a write the revision does not count: the copies stay behind, and agree all the same.
LEMMA LinkKeeps ==
    ASSUME TablesInv, NEW s, NEW i, LinkIdentity(s, i)
    PROVE  TablesInv' /\ tables'.revision = tables.revision
<1>1. PICK t, x, ms : /\ t = tables
                      /\ x = [t.subjects EXCEPT ![s].identity = i]
                      /\ ms = [y \in DOMAIN t.memberships \cup {s} |-> IF y = s THEN i ELSE t.memberships[y]]
  OBVIOUS
<1>2. PICK u : u = tables'
  OBVIOUS
<1>3. /\ s \in DOMAIN t.subjects /\ t.subjects[s].identity \in {NoIdentity, i} /\ s \notin DOMAIN t.memberships
      /\ \A z \in DOMAIN t.subjects \ {s} : t.subjects[z].identity # i
      /\ u = [t EXCEPT !.subjects[s].identity = i, !.memberships = [y \in DOMAIN @ \cup {s} |-> IF y = s THEN i ELSE @[y]]]
      /\ cached' = cached /\ log' = log
  BY <1>1, <1>2, Zenon DEF LinkIdentity
<1>4. /\ TableRows(t) /\ Constraints(t) /\ Closed(t) /\ Undelegable(t) /\ Whole(t) /\ log.revision = t.revision
      /\ cached = [y \in PolicyServers |-> cached[y]] /\ \A y \in PolicyServers : Known(t, cached[y])
  BY <1>1, Zenon DEF TablesInv
<1>5. u = RowsOf(t.revision, x, t.members, t.groupAncestors, t.resources, t.resourceAncestors,
                  t.levels, t.permissions, t.roles, t.rolePermissions, t.roleDelegations,
                  t.fieldAccess, t.bindings, ms)
  <2>1. PICK v : v = [t EXCEPT !.subjects = x]
    OBVIOUS
  <2>2. v = RowsOf(t.revision, x, t.members, t.groupAncestors, t.resources, t.resourceAncestors,
                  t.levels, t.permissions, t.roles, t.rolePermissions, t.roleDelegations,
                  t.fieldAccess, t.bindings, t.memberships)
    BY <1>4, <2>1 DEF TableRows, RowsOf
  <2>3. [v EXCEPT !.memberships = ms] = RowsOf(t.revision, x, t.members, t.groupAncestors, t.resources, t.resourceAncestors,
                  t.levels, t.permissions, t.roles, t.rolePermissions, t.roleDelegations,
                  t.fieldAccess, t.bindings, ms)
    BY <2>2 DEF RowsOf
  <2>4. u = [t EXCEPT !.subjects[s].identity = i, !.memberships = ms]
    BY <1>1, <1>3
  <2>5. [t EXCEPT !.subjects[s].identity = i, !.memberships = ms]
          = [[t EXCEPT !.subjects = x] EXCEPT !.memberships = ms]
    BY <1>1
  <2> QED
    BY <2>1, <2>3, <2>4, <2>5, Zenon
<1>6. /\ u.revision = t.revision /\ u.subjects = x /\ u.members = t.members /\ u.groupAncestors = t.groupAncestors
      /\ u.resources = t.resources /\ u.resourceAncestors = t.resourceAncestors /\ u.levels = t.levels
      /\ u.permissions = t.permissions /\ u.roles = t.roles /\ u.rolePermissions = t.rolePermissions
      /\ u.roleDelegations = t.roleDelegations /\ u.fieldAccess = t.fieldAccess /\ u.bindings = t.bindings
      /\ u.memberships = ms
  BY <1>5 DEF RowsOf
<1>7. /\ IsFiniteSet(DOMAIN t.subjects) /\ IsFiniteSet(DOMAIN t.resources)
      /\ t.members = [e \in DOMAIN t.members |-> t.members[e]]
      /\ \A y \in DOMAIN t.subjects : t.subjects[y] = [type |-> t.subjects[y].type, identity |-> t.subjects[y].identity]
      /\ \A r \in DOMAIN t.resources : IsRow("resources", t.resources[r])
      /\ \A f, g \in t.fieldAccess : f.role = g.role /\ f.resource = g.resource => f = g
      /\ t.revision \in Nat
  BY <1>4 DEF TableRows, IsRow
<1>8. /\ DOMAIN x = DOMAIN t.subjects
      /\ \A y \in DOMAIN t.subjects : y # s => x[y] = t.subjects[y]
      /\ x[s] = [type |-> t.subjects[s].type, identity |-> i]
  <2>1. PICK f, entry, k : f = t.subjects /\ entry = f[s] /\ k = [entry EXCEPT !.identity = i]
    OBVIOUS
  <2>2. entry = [type |-> entry.type, identity |-> entry.identity]
    BY <1>3, <1>7, <2>1
  <2>3. k = [type |-> entry.type, identity |-> i]
    BY <2>1, <2>2
  <2>4. x = [f EXCEPT ![s] = k]
    BY <1>1, <2>1
  <2>5. s \in DOMAIN f
    BY <1>3, <2>1
  <2>6. DOMAIN x = DOMAIN f /\ x[s] = k /\ \A y \in DOMAIN f : y # s => x[y] = f[y]
    BY <2>4, <2>5
  <2> QED
    BY <2>1, <2>3, <2>6
<1>9. \A y \in DOMAIN t.subjects : x[y].type = t.subjects[y].type /\ IsRow("subjects", x[y])
  <2> SUFFICES ASSUME NEW y \in DOMAIN t.subjects
               PROVE  x[y].type = t.subjects[y].type /\ IsRow("subjects", x[y])
    OBVIOUS
  <2>1. CASE y = s
    BY <1>8, <2>1 DEF IsRow
  <2>2. CASE y # s
    BY <1>4, <1>8, <2>2 DEF TableRows
  <2> QED
    BY <2>1, <2>2
<1>10. TableRows(u)
  <2>1. /\ IsFiniteSet(DOMAIN x) /\ \A y \in DOMAIN x : IsRow("subjects", x[y])
    BY <1>7, <1>8, <1>9
  <2> QED
    BY <1>5, <1>7, <2>1, RowsIf
<1>11. Closed(u)
  <2>1. GroupAncestors(x, t.members) = GroupAncestors(t.subjects, t.members)
    <3>1. PICK N, E : N = DOMAIN t.subjects /\ E = GroupEdges(t.members)
      OBVIOUS
    <3>2. Chains(N, E) \subseteq N \X N
      <4>1. E \subseteq N \X N /\ IsFiniteSet(N)
        BY <1>4, <1>7, <3>1, EdgesJoinNodes DEF Constraints
      <4> QED
        BY <4>1, ChainsAreReached
    <3>3. \A c \in Chains(N, E) : x[c[1]].type = t.subjects[c[1]].type
      BY <1>9, <3>1, <3>2
    <3>4. PICK C : C = Chains(N, E)
      OBVIOUS
    <3>5. GroupAncestors(x, t.members) = {c \in C : x[c[1]].type = "group"}
      BY <1>8, <3>1, <3>4 DEF GroupAncestors
    <3>6. GroupAncestors(t.subjects, t.members) = {c \in C : t.subjects[c[1]].type = "group"}
      BY <3>1, <3>4 DEF GroupAncestors
    <3> QED
      BY <3>3, <3>4, <3>5, <3>6
  <2> QED
    BY <1>4, <1>6, <2>1 DEF Closed
<1>12. Undelegable(u)
  BY <1>4, <1>6 DEF Undelegable
<1>13. Whole(u)
  BY <1>4, <1>6, <1>8, <1>9, WholeAlike
<1>14. Constraints(u)
  <2>1. \A y, z \in DOMAIN u.subjects :
         u.subjects[y].identity = u.subjects[z].identity /\ y # z => u.subjects[y].identity = NoIdentity
    <3> SUFFICES ASSUME NEW y \in DOMAIN t.subjects, NEW z \in DOMAIN t.subjects,
                        x[y].identity = x[z].identity, y # z
                 PROVE  x[y].identity = NoIdentity
      BY <1>6, <1>8
    <3>1. x[s].identity = i
      BY <1>8
    <3>2. y # s /\ z # s
      BY <1>3, <1>8, <3>1
    <3>3. x[y] = t.subjects[y] /\ x[z] = t.subjects[z]
      BY <1>8, <3>2
    <3> QED
      BY <1>4, <3>3 DEF Constraints
  <2>2. \A y \in DOMAIN u.memberships :
         y \in DOMAIN u.subjects /\ u.subjects[y].identity = u.memberships[y]
    <3> SUFFICES ASSUME NEW y \in DOMAIN ms
                 PROVE  y \in DOMAIN x /\ x[y].identity = ms[y]
      BY <1>6
    <3>1. CASE y = s
      BY <1>1, <1>3, <1>8, <3>1
    <3>2. CASE y # s
      <4>1. y \in DOMAIN t.memberships /\ ms[y] = t.memberships[y]
        BY <1>1, <3>2
      <4>2. y \in DOMAIN t.subjects /\ t.subjects[y].identity = t.memberships[y]
        BY <1>4, <4>1 DEF Constraints
      <4> QED
        BY <1>8, <3>2, <4>1, <4>2
    <3> QED
      BY <3>1, <3>2
  <2> QED
    BY <1>4, <1>6, <1>8, <2>1, <2>2 DEF Constraints
<1>15. \A y \in PolicyServers : Known(u, cached[y])
  <2>1. Agrees(LoadPolicyWith(t), LoadPolicyWith(u))
    BY <1>6, <1>8, <1>9, LoadAgrees
  <2> QED
    BY <1>4, <1>6, <2>1, StillKnown
<1> QED
  BY <1>1, <1>2, <1>3, <1>4, <1>6, <1>10, <1>11, <1>12, <1>13, <1>14, <1>15 DEF TablesInv

(* A plugin's permission comes and goes.                                   *)
LEMMA PermissionsKeep ==
    ASSUME TablesInv, NEW k, NEW rp, NEW rd,
           tables' = [tables EXCEPT !.permissions = k, !.rolePermissions = rp, !.roleDelegations = rd],
           UNCHANGED <<cached, log>>,
           \A g \in rp : g[1] \in DOMAIN tables.roles /\ g[2] \in k,
           rd \subseteq rp, \A g \in rd : g[2] \notin Protected
    PROVE  TablesInv' /\ tables'.revision = tables.revision
<1>1. PICK t, u : t = tables /\ u = tables'
  OBVIOUS
<1>2. /\ TableRows(t) /\ Constraints(t) /\ Closed(t) /\ Undelegable(t) /\ Whole(t) /\ log.revision = t.revision
      /\ cached = [y \in PolicyServers |-> cached[y]] /\ \A y \in PolicyServers : Known(t, cached[y])
  BY <1>1, Zenon DEF TablesInv
<1>3. u = RowsOf(t.revision, t.subjects, t.members, t.groupAncestors, t.resources, t.resourceAncestors,
                  t.levels, k, t.roles, rp, rd, t.fieldAccess, t.bindings, t.memberships)
  <2>1. u = [t EXCEPT !.permissions = k, !.rolePermissions = rp, !.roleDelegations = rd]
    BY <1>1
  <2> QED
    BY <1>2, <2>1 DEF TableRows, RowsOf
<1>4. /\ u.revision = t.revision /\ u.subjects = t.subjects /\ u.members = t.members /\ u.groupAncestors = t.groupAncestors
      /\ u.resources = t.resources /\ u.resourceAncestors = t.resourceAncestors /\ u.levels = t.levels
      /\ u.permissions = k /\ u.roles = t.roles /\ u.rolePermissions = rp
      /\ u.roleDelegations = rd /\ u.fieldAccess = t.fieldAccess /\ u.bindings = t.bindings
      /\ u.memberships = t.memberships
  BY <1>3 DEF RowsOf
<1>5. TableRows(u)
  <2>1. /\ IsFiniteSet(DOMAIN t.subjects) /\ IsFiniteSet(DOMAIN t.resources)
        /\ t.members = [e \in DOMAIN t.members |-> t.members[e]]
        /\ \A y \in DOMAIN t.subjects : IsRow("subjects", t.subjects[y])
        /\ \A r \in DOMAIN t.resources : IsRow("resources", t.resources[r])
        /\ \A f, g \in t.fieldAccess : f.role = g.role /\ f.resource = g.resource => f = g
        /\ t.revision \in Nat
    BY <1>2 DEF TableRows
  <2> QED
    BY <1>3, <2>1, RowsIf
<1>6. Closed(u) /\ Undelegable(u)
  BY <1>2, <1>4 DEF Closed, Undelegable
<1>7. Whole(u)
  BY <1>2, <1>4, WholeAlike
<1>8. Constraints(u)
  BY <1>1, <1>2, <1>4 DEF Constraints
<1>9. \A y \in PolicyServers : Known(u, cached[y])
  <2>1. Agrees(LoadPolicyWith(t), LoadPolicyWith(u))
    BY <1>4, LoadAgrees
  <2> QED
    BY <1>2, <1>4, <2>1, StillKnown
<1> QED
  BY <1>1, <1>2, <1>4, <1>5, <1>6, <1>7, <1>8, <1>9 DEF TablesInv

\* Installing a plugin adds permissions to the owner role, uninstalling one takes them away from every role.
LEMMA PluginKeeps ==
    ASSUME TablesInv, InstallPlugin \/ UninstallPlugin
    PROVE  TablesInv' /\ tables'.revision = tables.revision
<1>1. /\ \A g \in tables.rolePermissions : g[1] \in DOMAIN tables.roles /\ g[2] \in tables.permissions
      /\ tables.roleDelegations \subseteq tables.rolePermissions
      /\ \A g \in tables.roleDelegations : g[2] \notin Protected
  BY DEF TablesInv, Constraints, Undelegable
<1>2. CASE InstallPlugin
  <2>1. PICK o, k, rp, rd :
          /\ o = (DOMAIN tables.roles \cap {OwnerRole}) \X {PluginKey}
          /\ k = tables.permissions \cup {PluginKey} /\ rp = tables.rolePermissions \cup o
          /\ rd = tables.roleDelegations \cup o
    OBVIOUS
  <2>2. /\ tables' = [tables EXCEPT !.permissions = k, !.rolePermissions = rp, !.roleDelegations = rd]
        /\ UNCHANGED <<cached, log>>
    BY <1>2, <2>1 DEF InstallPlugin
  <2>3. \A g \in o : g[1] \in DOMAIN tables.roles /\ g[2] = PluginKey
    BY <2>1
  <2>4. /\ \A g \in rp : g[1] \in DOMAIN tables.roles /\ g[2] \in k
        /\ rd \subseteq rp /\ \A g \in rd : g[2] \notin Protected
    BY <1>1, <2>1, <2>3, PluginAssumption
  <2> QED
    BY <2>2, <2>4, PermissionsKeep
<1>3. CASE UninstallPlugin
  <2>1. PICK k, rp, rd :
          /\ k = tables.permissions \ {PluginKey} /\ rp = {g \in tables.rolePermissions : g[2] # PluginKey}
          /\ rd = {g \in tables.roleDelegations : g[2] # PluginKey}
    OBVIOUS
  <2>2. /\ tables' = [tables EXCEPT !.permissions = k, !.rolePermissions = rp, !.roleDelegations = rd]
        /\ UNCHANGED <<cached, log>>
    BY <1>3, <2>1 DEF UninstallPlugin
  <2>3. /\ \A g \in rp : g[1] \in DOMAIN tables.roles /\ g[2] \in k
        /\ rd \subseteq rp /\ \A g \in rd : g[2] \notin Protected
    BY <1>1, <2>1
  <2> QED
    BY <2>2, <2>3, PermissionsKeep
<1> QED
  BY <1>2, <1>3

(* What Store does with a mutation that the service has validated.         *)
LEMMA StoreKeeps ==
    ASSUME TablesInv, NEW s \in PolicyServers, NEW m, IsMutation(m), NEW a,
           cached[s] # NoPolicyYet, Applies(cached[s], m), Store(s, m, a)
    PROVE  /\ TablesInv'
           /\ LoadPolicyWith(tables') = ApplyPolicyMutation(LoadPolicyWith(tables), m)
           /\ log'.mutation = m /\ log'.actor = a /\ tables'.revision = tables.revision + 1
           /\ Agrees(cached[s], LoadPolicyWith(tables))
<1>1. PICK t, u, p : t = tables /\ u = tables' /\ p = cached[s]
  OBVIOUS
<1>2. /\ TableRows(t) /\ Constraints(t) /\ Closed(t) /\ Undelegable(t) /\ Whole(t) /\ log.revision = t.revision
      /\ cached = [y \in PolicyServers |-> cached[y]] /\ \A y \in PolicyServers : Known(t, cached[y])
  BY <1>1, Zenon DEF TablesInv
<1>3. /\ p.revision = t.revision /\ StoreAccepts(t, m)
      /\ u = [RowsAfter(t, m) EXCEPT !.revision = t.revision + 1] /\ Constraints(u)
      /\ cached' = [cached EXCEPT ![s] = LoadPolicyWith(u)]
      /\ log' = [revision |-> u.revision, mutation |-> m, actor |-> a]
  BY <1>1, Zenon DEF Store
<1>4. IsPolicy(p) /\ Agrees(p, LoadPolicyWith(t))
  BY <1>1, <1>2, <1>3 DEF Known
<1>5. PICK q, v, w : q = LoadPolicyWith(t) /\ v = ApplyPolicyMutation(p, m) /\ w = LoadPolicyWith(u)
  OBVIOUS
<1>6. IsSnapshot(v)
  BY <1>1, <1>5 DEF Applies
<1>7. q.members = t.members /\ q.subjects = t.subjects /\ IsPolicy(q)
  BY <1>5, LoadIsPolicy
<1>8. ASSUME m.table = "subjects", m.op = "delete"
      PROVE  \A e \in DOMAIN t.members : m.id \notin {t.members[e].group, t.members[e].member}
  <2>1. m.table \in PolicyParts
    BY <1>8 DEF PolicyParts
  <2>2. PICK b : b = Edit(p.subjects, m)
    OBVIOUS
  <2>4. v.members = p.members /\ v.subjects = b
    <3>1. /\ v.subjects = IF m.table = "subjects" THEN Edit(p.subjects, m) ELSE p.subjects
          /\ v.members = IF m.table = "members" THEN Edit(p.members, m) ELSE p.members
      BY <1>4, <1>5, <2>1, AppliedHas
    <3> QED
      BY <1>8, <2>2, <3>1
  <2>5. m.id \notin DOMAIN b
    <3>1. b = [y \in DOMAIN p.subjects \ {m.id} |-> p.subjects[y]]
      BY <1>8, <2>2 DEF Edit
    <3> QED
      BY <3>1
  <2>6. \A e \in DOMAIN v.members : {v.members[e].group, v.members[e].member} \subseteq DOMAIN v.subjects
    BY <1>6 DEF IsSnapshot
  <2>7. p.members = t.members
    BY <1>4, <1>5, <1>7 DEF Agrees
  <2> QED
    BY <2>4, <2>5, <2>6, <2>7
<1>9. m.table = "roles" /\ m.op # "delete" => m.value.delegates \subseteq t.permissions \ Protected
  BY <1>3 DEF StoreAccepts
<1>10. TableRows(u) /\ Closed(u) /\ Undelegable(u) /\ u.revision = t.revision + 1
  BY <1>2, <1>3, <1>8, <1>9, StoreKeepsRows
<1>11. w = ApplyPolicyMutation(q, m)
  BY <1>2, <1>3, <1>5, <1>8, StoresDecision
<1>12. Whole(u)
  <2>1. Agrees(v, w)
    BY <1>4, <1>5, <1>7, <1>11, AppliedAgrees
  <2>2. Whole(w)
    BY <1>6, <2>1, AgreesIsWhole
  <2>3. u.members = w.members /\ u.resources = w.resources /\ u.subjects = w.subjects
    BY <1>5, LoadIsPolicy
  <2> QED
    BY <2>2, <2>3, WholeAlike
<1>13. t.revision \in Nat /\ u.revision \in Nat
  BY <1>2, <1>10 DEF TableRows
<1>14. cached' = [y \in PolicyServers |-> IF y = s THEN w ELSE cached[y]]
  BY <1>2, <1>3, <1>5
<1>15. ASSUME NEW y \in PolicyServers
       PROVE  Known(u, cached'[y])
  <2>1. CASE y = s
    BY <1>5, <1>13, <1>14, <2>1, KnowsLoaded
  <2>2. CASE y # s
    <3>1. cached'[y] = cached[y] /\ Known(t, cached[y])
      BY <1>2, <1>14, <2>2
    <3>2. PICK z : z = cached[y]
      OBVIOUS
    <3>3. z # NoPolicyYet => IsPolicy(z) /\ z.revision \in Nat /\ z.revision <= t.revision
      BY <3>1, <3>2 DEF Known
    <3>4. z # NoPolicyYet => z.revision <= u.revision /\ z.revision # u.revision
      BY <1>10, <1>13, <3>3
    <3>5. Known(u, z)
      BY <3>3, <3>4 DEF Known
    <3> QED
      BY <3>1, <3>2, <3>5
  <2> QED
    BY <2>1, <2>2
<1>16. log'.revision = u.revision /\ log'.mutation = m /\ log'.actor = a
  BY <1>3
<1>17. cached' = [y \in PolicyServers |-> cached'[y]]
  BY <1>14
<1>18. TablesInv'
  BY <1>1, <1>3, <1>10, <1>12, <1>15, <1>16, <1>17 DEF TablesInv
<1> QED
  BY <1>1, <1>4, <1>5, <1>10, <1>11, <1>16, <1>18

-----------------------------------------------------------------------------
(* The steps, and the theorems about the tables.                           *)

\* What a server asks for, reread from its copy, is a mutation again.
LEMMA AskIsMutation ==
    ASSUME NEW p, NEW ask, IsMutation(ask)
    PROVE  IsMutation(AsKnown(p, ask))
<1>1. CASE ~(ask.table = "subjects" /\ ask.op = "update" /\ ask.id \in DOMAIN p.subjects)
  <2>1. AsKnown(p, ask) = ask
    BY <1>1 DEF AsKnown
  <2> QED
    BY <2>1
<1>2. CASE ask.table = "subjects" /\ ask.op = "update" /\ ask.id \in DOMAIN p.subjects
  <2>1. PICK x, d, v : x = p.subjects[ask.id].identity /\ d = ask.id /\ v = ask.value
    OBVIOUS
  <2>2. ask = [op |-> "update", table |-> "subjects", id |-> d, value |-> v] /\ v = [type |-> v.type, identity |-> v.identity]
    BY <1>2, <2>1 DEF IsMutation, IsRow
  <2>3. PICK y : y = [type |-> v.type, identity |-> x]
    OBVIOUS
  <2>4. AsKnown(p, ask) = [ask EXCEPT !.value.identity = x]
    BY <1>2, <2>1 DEF AsKnown
  <2>5. [v EXCEPT !.identity = x] = y
    BY <2>2, <2>3
  <2>6. [ask EXCEPT !.value.identity = x] = [ask EXCEPT !.value = [v EXCEPT !.identity = x]]
    BY <2>1
  <2>7. [ask EXCEPT !.value = y] = [op |-> "update", table |-> "subjects", id |-> d, value |-> y]
    BY <2>2
  <2>8. PICK m : m = [op |-> "update", table |-> "subjects", id |-> d, value |-> y]
    OBVIOUS
  <2>9. AsKnown(p, ask) = m
    BY <2>4, <2>5, <2>6, <2>7, <2>8, Zenon
  <2>10. m.op = "update" /\ m.table = "subjects" /\ m.id = d /\ m.value = y
    BY <2>8
  <2>11. m = [op |-> m.op, table |-> m.table, id |-> m.id, value |-> m.value]
    BY <2>8, <2>10, Zenon
  <2>12. IsRow("subjects", y)
    BY <2>3 DEF IsRow
  <2>13. IsMutation(m)
    BY <2>10, <2>11, <2>12 DEF IsMutation, PolicyParts
  <2> QED
    BY <2>9, <2>13
<1> QED
  BY <1>1, <1>2

\* A commit stores the mutation that was validated on the server's copy.
LEMMA CommitKeeps ==
    ASSUME TablesInv, NEW s \in PolicyServers, NEW ask, IsMutation(ask), CommitPolicy(s, ask)
    PROVE  /\ TablesInv' /\ tables'.revision = tables.revision + 1
           /\ LoadPolicyWith(tables') = ApplyPolicyMutation(LoadPolicyWith(tables), log'.mutation)
           /\ log'.actor = "manager"
<1>1. PICK m : m = AsKnown(cached[s], ask)
  OBVIOUS
<1>2. cached[s] # NoPolicyYet /\ Applies(cached[s], m) /\ Store(s, m, "manager")
  BY <1>1, Zenon DEF CommitPolicy
<1>3. IsMutation(m)
  BY <1>1, AskIsMutation
<1>4. /\ TablesInv'
      /\ LoadPolicyWith(tables') = ApplyPolicyMutation(LoadPolicyWith(tables), m)
      /\ log'.mutation = m /\ log'.actor = "manager" /\ tables'.revision = tables.revision + 1
  BY <1>2, <1>3, StoreKeeps
<1> QED
  BY <1>4, Zenon

(* A move changes where one resource is, and nothing else of it.           *)
LEMMA MoveIsMutation ==
    ASSUME NEW p, NEW r \in DOMAIN p.resources, IsRow("resources", p.resources[r]), NEW parent, NEW m, m = MoveOf(p, r, parent)
    PROVE  /\ IsMutation(m) /\ m.table = "resources" /\ m.op = "reconcile" /\ m.deletes = {}
           /\ DOMAIN m.upserts = {r}
           /\ m.upserts[r] = [kind |-> p.resources[r].kind, parent |-> parent]
<1>1. PICK entry, v : entry = p.resources[r] /\ v = [entry EXCEPT !.parent = parent]
  OBVIOUS
<1>2. entry = [kind |-> entry.kind, parent |-> entry.parent]
  BY <1>1 DEF IsRow
<1>3. v = [kind |-> entry.kind, parent |-> parent]
  BY <1>1, <1>2
<1>4. IsRow("resources", v)
  BY <1>3 DEF IsRow
<1>5. PICK f : f = [x \in {r} |-> v]
  OBVIOUS
<1>6. m = [op |-> "reconcile", table |-> "resources", deletes |-> {}, upserts |-> f]
  BY <1>1, <1>5, Zenon DEF MoveOf
<1>7. m.op = "reconcile" /\ m.table = "resources" /\ m.deletes = {} /\ m.upserts = f
  BY <1>6
<1>8. DOMAIN f = {r} /\ f[r] = v
  BY <1>5
<1>9. IsFiniteSet({r})
  BY FS_Singleton
<1>10. m = [op |-> m.op, table |-> m.table, deletes |-> m.deletes, upserts |-> m.upserts]
  BY <1>6, <1>7, Zenon
<1>11. IsMutation(m)
  BY <1>4, <1>7, <1>8, <1>9, <1>10 DEF IsMutation
<1> QED
  BY <1>1, <1>3, <1>7, <1>8, <1>11

\* A move stores the one row it moved.
LEMMA MoveKeeps ==
    ASSUME TablesInv, NEW s \in PolicyServers, NEW r, NEW parent, NEW mover, MoveDocument(s, r, parent, mover)
    PROVE  /\ TablesInv' /\ tables'.revision = tables.revision + 1
           /\ log'.mutation = MoveOf(cached[s], r, parent) /\ IsMutation(log'.mutation)
           /\ LoadPolicyWith(tables') = ApplyPolicyMutation(LoadPolicyWith(tables), log'.mutation)
           /\ log'.actor = mover /\ Agrees(cached[s], LoadPolicyWith(tables)) /\ IsPolicy(cached[s])
<1>1. PICK m : m = MoveOf(cached[s], r, parent)
  OBVIOUS
<1>2. /\ cached[s] # NoPolicyYet /\ Applies(cached[s], m) /\ Store(s, m, mover)
      /\ r \in DOMAIN cached[s].resources
  BY <1>1 DEF MoveDocument
<1>3. cached[s].revision = tables.revision
  BY <1>2 DEF Store
<1>4. IsPolicy(cached[s]) /\ Agrees(cached[s], LoadPolicyWith(tables))
  BY <1>2, <1>3 DEF TablesInv, Known
<1>5. cached[s].resources = tables.resources
  BY <1>4, LoadIsPolicy DEF Agrees
<1>6. IsRow("resources", cached[s].resources[r])
  BY <1>2, <1>5 DEF TablesInv, TableRows
<1>7. IsMutation(m)
  BY <1>1, <1>2, <1>6, MoveIsMutation
<1>8. /\ TablesInv'
      /\ LoadPolicyWith(tables') = ApplyPolicyMutation(LoadPolicyWith(tables), m)
      /\ log'.mutation = m /\ log'.actor = mover /\ tables'.revision = tables.revision + 1
  BY <1>2, <1>7, StoreKeeps
<1> QED
  BY <1>1, <1>4, <1>7, <1>8, Zenon

\* Every step keeps the invariant, and one that counts a revision stores its mutation.
LEMMA TablesStep ==
    ASSUME TablesInv, ImpactNext(Asks)
    PROVE  /\ TablesInv'
           /\ tables'.revision # tables.revision =>
                LoadPolicyWith(tables') = ApplyPolicyMutation(LoadPolicyWith(tables), log'.mutation)
<1>1. ASSUME NEW s \in PolicyServers, LoadPolicy(s)
      PROVE  TablesInv' /\ tables'.revision = tables.revision
  BY <1>1, LoadKeeps DEF LoadPolicy
<1>2. ASSUME NEW s \in PolicyServers, NEW m \in Asks, CommitPolicy(s, m)
      PROVE  /\ TablesInv'
             /\ LoadPolicyWith(tables') = ApplyPolicyMutation(LoadPolicyWith(tables), log'.mutation)
  BY <1>2, CommitKeeps, AsksAssumption
<1>3. ASSUME NEW s \in DOMAIN tables.subjects, LinkIdentity(s, "person")
      PROVE  TablesInv' /\ tables'.revision = tables.revision
  BY <1>3, LinkKeeps
<1>4. ASSUME InstallPlugin \/ UninstallPlugin
      PROVE  TablesInv' /\ tables'.revision = tables.revision
  BY <1>4, PluginKeeps
<1>5. ASSUME NEW s \in PolicyServers, NEW r \in DOMAIN tables.resources, NEW parent \in DOMAIN tables.resources,
             NEW mover \in {"editor", "manager"}, MoveDocument(s, r, parent, mover)
      PROVE  /\ TablesInv'
             /\ LoadPolicyWith(tables') = ApplyPolicyMutation(LoadPolicyWith(tables), log'.mutation)
  BY <1>5, MoveKeeps
<1>6. CASE TablesNext(Asks)
  BY <1>1, <1>2, <1>3, <1>4, <1>6 DEF TablesNext
<1>7. CASE \E s \in PolicyServers, r, parent \in DOMAIN tables.resources, mover \in {"editor", "manager"} :
             MoveDocument(s, r, parent, mover)
  BY <1>5, <1>7
<1> QED
  BY <1>6, <1>7 DEF ImpactNext

\* The invariant contains the soundness that the runs check.
LEMMA InvIsSound ==
    TablesInv => TablesAreSound
<1> SUFFICES ASSUME TablesInv
             PROVE  TablesAreSound
  OBVIOUS
<1>1. /\ TableRows(tables) /\ Constraints(tables) /\ Closed(tables) /\ Undelegable(tables) /\ Whole(tables)
      /\ log.revision = tables.revision
  BY DEF TablesInv
<1>2. IsSnapshot(LoadPolicyWith(tables))
  BY <1>1, LoadsWell
<1>3. PICK S, R, E, F : /\ S = DOMAIN tables.subjects /\ E = GroupEdges(tables.members)
                        /\ R = DOMAIN tables.resources /\ F = TreeEdges(tables.resources)
  OBVIOUS
<1>4. IsFiniteSet(S) /\ IsFiniteSet(R) /\ E \subseteq S \X S /\ F \subseteq R \X R
  <2>1. IsFiniteSet(S) /\ IsFiniteSet(R)
    BY <1>1, <1>3 DEF TableRows
  <2>2. \A r \in DOMAIN tables.resources \ {TreeRoot} : tables.resources[r].parent \in DOMAIN tables.resources
    BY <1>1 DEF Constraints
  <2> QED
    BY <1>1, <1>3, <2>1, <2>2, EdgesJoinNodes
<1>5. /\ Chains(S, E) = {c \in S \X S : Reaches(S, E, c[1], c[2])}
      /\ Chains(R, F) = {c \in R \X R : Reaches(R, F, c[1], c[2])}
  BY <1>4, ChainsAreReached
<1>6. tables.resourceAncestors = {c \in R \X R : Reaches(R, F, c[1], c[2])}
  BY <1>1, <1>3, <1>5, Zenon DEF Closed
<1>7. tables.groupAncestors = {c \in Chains(S, E) : tables.subjects[c[1]].type = "group"}
  BY <1>1, <1>3, Zenon DEF Closed, GroupAncestors
<1>8. tables.groupAncestors = {c \in S \X S : /\ tables.subjects[c[1]].type = "group"
                                              /\ Reaches(S, E, c[1], c[2])}
  <2>1. PICK C : C = Chains(S, E)
    OBVIOUS
  <2>2. \A c : c \in C <=> c \in S \X S /\ Reaches(S, E, c[1], c[2])
    BY <1>5, <2>1
  <2>3. tables.groupAncestors = {c \in C : tables.subjects[c[1]].type = "group"}
    BY <1>7, <2>1
  <2> QED
    BY <2>2, <2>3
<1> QED
  BY <1>1, <1>2, <1>3, <1>6, <1>8, Zenon DEF TablesAreSound

\* The tables of the policy stay well formed: rows of their shape, foreign keys,
\* closures rebuilt, no protected permission delegated, and every server's copy
\* either stale by its revision or the tables' own but for identities and plugins.
THEOREM TablesInvHolds == TablesSpec => []TablesInv
<1>1. TablesInit => TablesInv
  BY TablesStart
<1>2. TablesInv /\ [ImpactNext(Asks)]_tvars => TablesInv'
  <2> SUFFICES ASSUME TablesInv, [ImpactNext(Asks)]_tvars
               PROVE  TablesInv'
    OBVIOUS
  <2>1. CASE ImpactNext(Asks)
    BY <2>1, TablesStep
  <2>2. CASE UNCHANGED tvars
    BY <2>2 DEF tvars, TablesInv
  <2> QED
    BY <2>1, <2>2
<1> QED
  BY <1>1, <1>2, PTL DEF TablesSpec

\* TablesAreSound, for any seeds, servers, mutations and plugin: what any server
\* loads next is a snapshot the authorization kernel accepts.
THEOREM TablesStaySound == TablesSpec => []TablesAreSound
  BY TablesInvHolds, InvIsSound, PTL

\* postgres-authorization-store: what the next load reads back after a commit is
\* the policy the commit's mutation was applied to, whatever copy decided it.
THEOREM StoresTheDecision == TablesSpec => StoresWhatWasDecided
<1>1. TablesInv /\ [ImpactNext(Asks)]_tvars =>
        [tables'.revision # tables.revision =>
           LoadPolicyWith(tables') = ApplyPolicyMutation(LoadPolicyWith(tables), log'.mutation)]_tvars
  BY TablesStep
<1> QED
  BY <1>1, TablesInvHolds, PTL DEF TablesSpec, StoresWhatWasDecided

-----------------------------------------------------------------------------
(* Moving a resource: rights in its subtree when the coverage is the same. *)

\* The parts of a kernel snapshot.
LEMMA KernelHas ==
    ASSUME NEW p
    PROVE  /\ KernelSnapshot(p).policy = p
           /\ \A q : q.subjects = p.subjects /\ q.members = p.members
                       => KernelSnapshot(q).principals = KernelSnapshot(p).principals
           /\ \A x, y : x \in DOMAIN p.resources =>
                (y \in KernelSnapshot(p).below[x]
                   <=> y \in DOMAIN p.resources /\ <<x, y>> \in Below(DOMAIN p.resources, TreeEdges(p.resources)))
<1> DEFINE Above(q) == Chains(DOMAIN q.subjects, GroupEdges(q.members))
           Under(q) == Below(DOMAIN q.resources, TreeEdges(q.resources))
           Principals(q) == [s \in DOMAIN q.subjects |-> {g \in DOMAIN q.subjects : <<g, s>> \in Above(q)}]
           Covers(q) == [r \in DOMAIN q.resources |-> {x \in DOMAIN q.resources : <<r, x>> \in Under(q)}]
<1>1. ASSUME NEW q
      PROVE  KernelSnapshot(q) = [policy |-> q, principals |-> Principals(q), below |-> Covers(q)]
  BY Zenon DEF KernelSnapshot
<1>2. ASSUME NEW x \in DOMAIN p.resources, NEW y
      PROVE  y \in Covers(p)[x] <=> y \in DOMAIN p.resources /\ <<x, y>> \in Under(p)
  <2> HIDE DEF Under
  <2> QED
    OBVIOUS
<1>3. ASSUME NEW q, q.subjects = p.subjects, q.members = p.members
      PROVE  Principals(q) = Principals(p)
  <2>1. Above(q) = Above(p)
    BY <1>3, Zenon
  <2> HIDE DEF Above
  <2> QED
    BY <1>3, <2>1
<1> HIDE DEF Principals, Covers
<1>4. ASSUME NEW q
      PROVE  KernelSnapshot(q).policy = q /\ KernelSnapshot(q).principals = Principals(q)
             /\ KernelSnapshot(q).below = Covers(q)
  <2>1. PICK a, b : a = Principals(q) /\ b = Covers(q)
    OBVIOUS
  <2>2. KernelSnapshot(q) = [policy |-> q, principals |-> a, below |-> b]
    BY <1>1, <2>1, Zenon
  <2> QED
    BY <2>1, <2>2
<1>5. \A q : q.subjects = p.subjects /\ q.members = p.members
                       => KernelSnapshot(q).principals = KernelSnapshot(p).principals
  <2> SUFFICES ASSUME NEW q, q.subjects = p.subjects, q.members = p.members
               PROVE  KernelSnapshot(q).principals = KernelSnapshot(p).principals
    OBVIOUS
  <2>1. Principals(q) = Principals(p)
    BY <1>3
  <2> QED
    BY <1>4, <2>1
<1>6. \A x, y : x \in DOMAIN p.resources =>
                (y \in KernelSnapshot(p).below[x] <=> y \in DOMAIN p.resources /\ <<x, y>> \in Under(p))
  BY <1>2, <1>4, Zenon
<1> QED
  BY <1>4, <1>5, <1>6, Zenon

(* Of what is outside a subtree, whatever covers its root covers all of it,*)
(* before and after its root has moved.                                    *)
LEMMA CoveredAlike ==
    ASSUME NEW N, IsFiniteSet(N), NEW old, old \subseteq N \X N, NEW new, new \subseteq N \X N, NEW r,
           \A a, x, b : <<a, b>> \in old /\ <<x, b>> \in old => a = x,
           \A a, x, b : <<a, b>> \in new /\ <<x, b>> \in new => a = x,
           \A e \in old : e[2] # r => e \in new,
           \A e \in new : e[2] # r => e \in old,
           NEW z, z # r, <<r, z>> \notin Below(N, old),
           NEW y, y = r \/ <<r, y>> \in Below(N, old)
    PROVE  /\ <<z, y>> \in Below(N, old) <=> <<z, r>> \in Below(N, old)
           /\ <<z, y>> \in Below(N, new) <=> <<z, r>> \in Below(N, new)
<1>1. <<z, y>> \in Below(N, old) <=> <<z, r>> \in Below(N, old)
  BY EntersAtTheRoot
<1>2. y = r \/ <<r, y>> \in Below(N, new)
  BY SubtreeStays
<1>3. <<r, z>> \notin Below(N, new)
  <2> SUFFICES ASSUME <<r, z>> \in Below(N, new)
               PROVE  FALSE
    OBVIOUS
  <2>1. z = r \/ <<r, z>> \in Below(N, old)
    BY SubtreeStays
  <2> QED
    BY <2>1
<1>4. <<z, y>> \in Below(N, new) <=> <<z, r>> \in Below(N, new)
  BY <1>2, <1>3, EntersAtTheRoot
<1> QED
  BY <1>1, <1>4

(* A move that the service found to change no coverage of the document     *)
(* changes, of whatever the rows hold, what covers no document below it.   *)
LEMMA MoveSparesRights ==
    ASSUME NEW p, IsPolicy(p), NEW q, IsPolicy(q), Agrees(p, q), IsSnapshot(q), IsFiniteSet(DOMAIN q.resources),
           NEW r \in DOMAIN q.resources, IsRow("resources", q.resources[r]), NEW parent \in DOMAIN q.resources,
           NEW m, m = MoveOf(p, r, parent), NEW n, n = ApplyPolicyMutation(p, m), NEW w, w = ApplyPolicyMutation(q, m),
           ~CoverageChanges(KernelSnapshot(p), KernelSnapshot(n), r)
    PROVE  /\ EffectiveChanges(KernelSnapshot(q), KernelSnapshot(w), r) = {}
           /\ EffectiveFieldChanges(KernelSnapshot(q), KernelSnapshot(w), r) = {}
<1>1. /\ p.members = q.members /\ p.resources = q.resources /\ p.bindings = q.bindings
      /\ DOMAIN p.roles = DOMAIN q.roles /\ \A x \in DOMAIN p.roles : p.roles[x].fields = q.roles[x].fields
  BY DEF Agrees
<1>2. /\ m.table = "resources" /\ m.op = "reconcile" /\ m.deletes = {} /\ DOMAIN m.upserts = {r}
      /\ m.upserts[r] = [kind |-> q.resources[r].kind, parent |-> parent]
  BY <1>1, MoveIsMutation
<1>3. PICK X, Y : X = q.resources /\ Y = Edit(X, m)
  OBVIOUS
<1>4. /\ n.resources = Y /\ n.roles = p.roles /\ n.bindings = p.bindings
      /\ w.resources = Y /\ w.roles = q.roles /\ w.bindings = q.bindings
      /\ w.subjects = q.subjects /\ w.members = q.members
  <2>1. m.table \in PolicyParts
    BY <1>2 DEF PolicyParts
  <2>2. /\ n.resources = Edit(p.resources, m) /\ n.roles = p.roles /\ n.bindings = p.bindings
    BY <1>2, <2>1, AppliedHas
  <2>3. /\ w.resources = Edit(q.resources, m) /\ w.roles = q.roles /\ w.bindings = q.bindings
        /\ w.subjects = q.subjects /\ w.members = q.members
    BY <1>2, <2>1, AppliedHas
  <2> QED
    BY <1>1, <1>3, <2>2, <2>3
<1>5. PICK N : N = DOMAIN X
  OBVIOUS
<1>6. DOMAIN Y = N /\ (\A x \in N : x # r => Y[x] = X[x]) /\ Y[r].parent = parent /\ r \in N
  <2>1. Y = [x \in (DOMAIN X \ m.deletes) \cup DOMAIN m.upserts |->
              IF x \in DOMAIN m.upserts THEN m.upserts[x] ELSE X[x]]
    BY <1>2, <1>3 DEF Edit
  <2>2. (DOMAIN X \ m.deletes) \cup DOMAIN m.upserts = N
    BY <1>2, <1>3, <1>5
  <2>3. r \in N
    BY <1>3, <1>5
  <2>4. DOMAIN Y = N /\ (\A x \in N : x # r => Y[x] = X[x]) /\ Y[r] = m.upserts[r]
    BY <1>2, <2>1, <2>2, <2>3
  <2> QED
    BY <1>2, <2>3, <2>4
<1>7. PICK old, new : old = TreeEdges(X) /\ new = TreeEdges(Y)
  OBVIOUS
<1>8. \A e : e \in old <=> e = <<e[1], e[2]>> /\ e[2] \in N /\ e[2] # TreeRoot /\ e[1] = X[e[2]].parent
  BY <1>5, <1>7 DEF TreeEdges
<1>9. \A e : e \in new <=> e = <<e[1], e[2]>> /\ e[2] \in N /\ e[2] # TreeRoot /\ e[1] = Y[e[2]].parent
  BY <1>6, <1>7 DEF TreeEdges
<1>10. old \subseteq N \X N
  <2>1. \A e \in old : e[1] \in N
    BY <1>3, <1>5, <1>7 DEF IsSnapshot
  <2> QED
    BY <1>8, <2>1
<1>11. new \subseteq N \X N
  <2> SUFFICES ASSUME NEW e \in new
               PROVE  e \in N \X N
    OBVIOUS
  <2>1. e = <<e[1], e[2]>> /\ e[2] \in N /\ e[2] # TreeRoot /\ e[1] = Y[e[2]].parent
    BY <1>9
  <2>2. e[1] \in N
    <3>1. CASE e[2] = r
      BY <1>3, <1>5, <1>6, <2>1, <3>1
    <3>2. CASE e[2] # r
      <4>1. <<e[1], e[2]>> \in old
        BY <1>6, <1>8, <2>1, <3>2
      <4> QED
        BY <1>10, <4>1
    <3> QED
      BY <3>1, <3>2
  <2> QED
    BY <2>1, <2>2
<1>12. /\ \A a, x, b : <<a, b>> \in old /\ <<x, b>> \in old => a = x
       /\ \A a, x, b : <<a, b>> \in new /\ <<x, b>> \in new => a = x
  <2>1. ASSUME NEW a, NEW x, NEW b, <<a, b>> \in old, <<x, b>> \in old
        PROVE  a = x
    BY <1>8, <2>1
  <2>2. ASSUME NEW a, NEW x, NEW b, <<a, b>> \in new, <<x, b>> \in new
        PROVE  a = x
    BY <1>9, <2>2
  <2> QED
    BY <2>1, <2>2
<1>13. /\ \A e \in old : e[2] # r => e \in new
       /\ \A e \in new : e[2] # r => e \in old
  BY <1>6, <1>8, <1>9
<1>14. IsFiniteSet(N)
  BY <1>3, <1>5
<1>15. PICK B, D : B = Below(N, old) /\ D = Below(N, new)
  OBVIOUS
<1>16. B \subseteq N \X N /\ D \subseteq N \X N
  BY <1>10, <1>11, <1>14, <1>15, BelowIsClosure
<1>17. PICK k, kn, K, W : /\ k = KernelSnapshot(p) /\ kn = KernelSnapshot(n)
                          /\ K = KernelSnapshot(q) /\ W = KernelSnapshot(w)
  OBVIOUS
<1>18. /\ k.policy = p /\ kn.policy = n /\ K.policy = q /\ W.policy = w
       /\ W.principals = K.principals
  BY <1>4, <1>17, KernelHas, Zenon
<1>19. ASSUME NEW x \in N, NEW y
       PROVE  /\ y \in k.below[x] <=> <<x, y>> \in B
              /\ y \in K.below[x] <=> <<x, y>> \in B
              /\ y \in kn.below[x] <=> <<x, y>> \in D
              /\ y \in W.below[x] <=> <<x, y>> \in D
  <2>1. /\ p.resources = X /\ q.resources = X /\ n.resources = Y /\ w.resources = Y
    BY <1>1, <1>3, <1>4
  <2>2. y \in k.below[x] <=> y \in DOMAIN p.resources /\ <<x, y>> \in Below(DOMAIN p.resources, TreeEdges(p.resources))
    BY <1>5, <1>17, <2>1, KernelHas, Zenon
  <2>3. y \in K.below[x] <=> y \in DOMAIN q.resources /\ <<x, y>> \in Below(DOMAIN q.resources, TreeEdges(q.resources))
    BY <1>5, <1>17, <2>1, KernelHas, Zenon
  <2>4. y \in kn.below[x] <=> y \in DOMAIN n.resources /\ <<x, y>> \in Below(DOMAIN n.resources, TreeEdges(n.resources))
    BY <1>6, <1>17, <2>1, KernelHas, Zenon
  <2>5. y \in W.below[x] <=> y \in DOMAIN w.resources /\ <<x, y>> \in Below(DOMAIN w.resources, TreeEdges(w.resources))
    BY <1>6, <1>17, <2>1, KernelHas, Zenon
  <2>6. (<<x, y>> \in B => y \in N) /\ (<<x, y>> \in D => y \in N)
    BY <1>16
  <2>7. /\ Below(DOMAIN p.resources, TreeEdges(p.resources)) = B /\ Below(DOMAIN q.resources, TreeEdges(q.resources)) = B
        /\ Below(DOMAIN n.resources, TreeEdges(n.resources)) = D /\ Below(DOMAIN w.resources, TreeEdges(w.resources)) = D
        /\ DOMAIN p.resources = N /\ DOMAIN q.resources = N /\ DOMAIN n.resources = N /\ DOMAIN w.resources = N
    BY <1>5, <1>6, <1>7, <1>15, <2>1, Zenon
  <2> QED
    BY <2>2, <2>3, <2>4, <2>5, <2>6, <2>7
<1>20. \A y : /\ y \in Subtree(k, r) <=> y = r \/ <<r, y>> \in B
              /\ y \in Subtree(K, r) <=> y = r \/ <<r, y>> \in B
  BY <1>6, <1>19 DEF Subtree
<1>21. ASSUME NEW z \in N, z \notin Subtree(k, r), NEW how, NEW y \in Subtree(K, r)
       PROVE  /\ AppliesTo(K, z, how, y) <=> AppliesTo(k, z, how, r)
              /\ AppliesTo(W, z, how, y) <=> AppliesTo(kn, z, how, r)
  <2>1. z # r /\ <<r, z>> \notin B /\ (y = r \/ <<r, y>> \in B) /\ z # y
    BY <1>20, <1>21
  <2>2. /\ <<z, y>> \in B <=> <<z, r>> \in B
        /\ <<z, y>> \in D <=> <<z, r>> \in D
    BY <1>10, <1>11, <1>12, <1>13, <1>14, <1>15, <2>1, CoveredAlike
  <2> QED
    BY <1>19, <2>1, <2>2 DEF AppliesTo
<1>22. /\ \A b \in DOMAIN p.bindings :
            /\ p.bindings[b].resource \notin Subtree(k, r)
            /\ BindingAppliesTo(k, b, r) = BindingAppliesTo(kn, b, r)
       /\ \A role \in DOMAIN p.roles :
            /\ RulesFor(k, role, r) = RulesFor(kn, role, r)
            /\ p.roles[role].fields # Unrestricted => DOMAIN p.roles[role].fields \cap Subtree(k, r) = {}
  BY <1>17, <1>18 DEF CoverageChanges
<1>23. ASSUME NEW b \in DOMAIN q.bindings, NEW y \in Subtree(K, r)
       PROVE  BindingAppliesTo(K, b, y) <=> BindingAppliesTo(W, b, y)
  <2>1. PICK z, how : z = q.bindings[b].resource /\ how = q.bindings[b].propagation
    OBVIOUS
  <2>2. z \in N
    BY <1>3, <1>5, <2>1 DEF IsSnapshot
  <2>3. z \notin Subtree(k, r) /\ (BindingAppliesTo(k, b, r) <=> BindingAppliesTo(kn, b, r))
    BY <1>1, <1>22, <2>1
  <2>4. /\ BindingAppliesTo(K, b, y) <=> AppliesTo(K, z, how, y)
        /\ BindingAppliesTo(W, b, y) <=> AppliesTo(W, z, how, y)
        /\ BindingAppliesTo(k, b, r) <=> AppliesTo(k, z, how, r)
        /\ BindingAppliesTo(kn, b, r) <=> AppliesTo(kn, z, how, r)
    BY <1>1, <1>4, <1>18, <2>1 DEF BindingAppliesTo
  <2>5. /\ AppliesTo(K, z, how, y) <=> AppliesTo(k, z, how, r)
        /\ AppliesTo(W, z, how, y) <=> AppliesTo(kn, z, how, r)
    BY <1>21, <2>2, <2>3
  <2> QED
    BY <2>3, <2>4, <2>5
<1>24. ASSUME NEW role \in DOMAIN q.roles, NEW y \in Subtree(K, r)
       PROVE  RulesFor(K, role, y) = RulesFor(W, role, y)
  <2>1. PICK fs : fs = q.roles[role].fields
    OBVIOUS
  <2>2. /\ K.policy.roles[role].fields = fs /\ W.policy.roles[role].fields = fs
        /\ k.policy.roles[role].fields = fs /\ kn.policy.roles[role].fields = fs
    BY <1>1, <1>4, <1>18, <2>1
  <2>3. CASE fs = Unrestricted
    BY <2>2, <2>3 DEF RulesFor
  <2>4. CASE fs # Unrestricted
    <3>1. /\ RulesFor(K, role, y) = {x \in DOMAIN fs : AppliesTo(K, x, "self-and-children", y)}
          /\ RulesFor(W, role, y) = {x \in DOMAIN fs : AppliesTo(W, x, "self-and-children", y)}
          /\ RulesFor(k, role, r) = {x \in DOMAIN fs : AppliesTo(k, x, "self-and-children", r)}
          /\ RulesFor(kn, role, r) = {x \in DOMAIN fs : AppliesTo(kn, x, "self-and-children", r)}
      BY <2>2, <2>4 DEF RulesFor
    <3>2. DOMAIN fs \subseteq N
      BY <1>3, <1>5, <2>1, <2>4 DEF IsSnapshot
    <3>3. RulesFor(k, role, r) = RulesFor(kn, role, r) /\ DOMAIN fs \cap Subtree(k, r) = {}
      BY <1>1, <1>22, <2>1, <2>4
    <3>4. ASSUME NEW x \in DOMAIN fs
          PROVE  AppliesTo(K, x, "self-and-children", y) <=> AppliesTo(W, x, "self-and-children", y)
      <4>1. x \in N /\ x \notin Subtree(k, r)
        BY <3>2, <3>3
      <4>2. /\ AppliesTo(K, x, "self-and-children", y) <=> AppliesTo(k, x, "self-and-children", r)
            /\ AppliesTo(W, x, "self-and-children", y) <=> AppliesTo(kn, x, "self-and-children", r)
        BY <1>21, <4>1
      <4> QED
        BY <3>1, <3>3, <4>2
    <3> QED
      BY <3>1, <3>4
  <2> QED
    BY <2>3, <2>4
<1>25. ASSUME NEW s, NEW action, NEW y \in Subtree(K, r)
       PROVE  RelevantBindings(K, s, action, y) = RelevantBindings(W, s, action, y)
  <2>1. ASSUME NEW b
        PROVE  b \in RelevantBindings(K, s, action, y) <=> b \in RelevantBindings(W, s, action, y)
    <3>1. b \in RelevantBindings(K, s, action, y) <=>
            /\ b \in DOMAIN q.bindings /\ q.bindings[b].subject \in K.principals[s]
            /\ action \in q.roles[q.bindings[b].role].permissions /\ BindingAppliesTo(K, b, y)
      BY <1>18 DEF RelevantBindings
    <3>2. b \in RelevantBindings(W, s, action, y) <=>
            /\ b \in DOMAIN q.bindings /\ q.bindings[b].subject \in K.principals[s]
            /\ action \in q.roles[q.bindings[b].role].permissions /\ BindingAppliesTo(W, b, y)
      BY <1>4, <1>18 DEF RelevantBindings
    <3> QED
      BY <1>23, <3>1, <3>2
  <2> QED
    BY <2>1 DEF RelevantBindings
<1>26. ASSUME NEW s, NEW y \in Subtree(K, r), NEW field
       PROVE  IsFieldAllowed(K, s, y, field) <=> IsFieldAllowed(W, s, y, field)
  <2>1. RelevantBindings(K, s, Action, y) = RelevantBindings(W, s, Action, y)
    BY <1>25
  <2>2. ASSUME NEW b \in RelevantBindings(K, s, Action, y)
        PROVE  /\ b \in DOMAIN q.bindings /\ q.bindings[b].role \in DOMAIN q.roles
    BY <1>18 DEF RelevantBindings, IsSnapshot
  <2>3. /\ K.policy.bindings = q.bindings /\ W.policy.bindings = q.bindings
        /\ K.policy.roles = q.roles /\ W.policy.roles = q.roles
    BY <1>4, <1>18
  <2>4. IsFieldAllowed(K, s, y, field) <=> \E b \in RelevantBindings(K, s, Action, y) :
           \/ RulesFor(K, q.bindings[b].role, y) = {}
           \/ \E x \in RulesFor(K, q.bindings[b].role, y) : field \in q.roles[q.bindings[b].role].fields[x]
    BY <2>3, Zenon DEF IsFieldAllowed
  <2>5. IsFieldAllowed(W, s, y, field) <=> \E b \in RelevantBindings(W, s, Action, y) :
           \/ RulesFor(W, q.bindings[b].role, y) = {}
           \/ \E x \in RulesFor(W, q.bindings[b].role, y) : field \in q.roles[q.bindings[b].role].fields[x]
    BY <2>3, Zenon DEF IsFieldAllowed
  <2>6. \A b \in RelevantBindings(K, s, Action, y) :
          RulesFor(K, q.bindings[b].role, y) = RulesFor(W, q.bindings[b].role, y)
    BY <1>24, <2>2
  <2> QED
    BY <2>1, <2>4, <2>5, <2>6
<1>27. ASSUME NEW s, NEW y \in Subtree(K, r)
       PROVE  /\ ReadableFields(K, s, y) = ReadableFields(W, s, y)
              /\ \A action : IsAllowed(K, s, action, y) <=> IsAllowed(W, s, action, y)
  <2>1. ReadableFields(K, s, y) = ReadableFields(W, s, y)
    BY <1>26 DEF ReadableFields
  <2> QED
    BY <1>25, <2>1 DEF IsAllowed
<1>28. EffectiveFieldChanges(K, W, r) = {}
  <2> SUFFICES ASSUME NEW c \in EffectiveFieldChanges(K, W, r)
               PROVE  FALSE
    OBVIOUS
  <2>1. c[2] \in Subtree(K, r) /\ ReadableFields(K, c[1], c[2]) # ReadableFields(W, c[1], c[2])
    BY DEF EffectiveFieldChanges
  <2> QED
    BY <1>27, <2>1
<1>29. EffectiveChanges(K, W, r) = {}
  <2> SUFFICES ASSUME NEW c \in EffectiveChanges(K, W, r)
               PROVE  FALSE
    OBVIOUS
  <2>1. c[3] \in Subtree(K, r) /\ (IsAllowed(K, c[1], c[2], c[3]) # IsAllowed(W, c[1], c[2], c[3]))
    BY DEF EffectiveChanges
  <2>2. IsAllowed(K, c[1], c[2], c[3]) <=> IsAllowed(W, c[1], c[2], c[3])
    BY <1>27, <2>1
  <2> QED
    BY <2>1, <2>2 DEF IsAllowed
<1> QED
  BY <1>17, <1>28, <1>29

\* The step of EditorsSpareRights: an editor's commit is a move that its own server found to change no coverage.
LEMMA EditorsSpare ==
    ASSUME TablesInv, ImpactNext(Asks), log'.revision # log.revision, log'.actor = "editor",
           NEW r \in DOMAIN log'.mutation.upserts
    PROVE  /\ EffectiveChanges(KernelSnapshot(LoadPolicyWith(tables)), KernelSnapshot(LoadPolicyWith(tables')), r) = {}
           /\ EffectiveFieldChanges(KernelSnapshot(LoadPolicyWith(tables)), KernelSnapshot(LoadPolicyWith(tables')), r) = {}
<1>1. \A s \in PolicyServers : ~LoadPolicy(s)
  BY DEF LoadPolicy
<1>2. \A s \in PolicyServers : \A m \in Asks : ~CommitPolicy(s, m)
  BY CommitKeeps, AsksAssumption
<1>3. /\ \A s \in DOMAIN tables.subjects : ~LinkIdentity(s, "person")
      /\ ~InstallPlugin /\ ~UninstallPlugin
  BY DEF LinkIdentity, InstallPlugin, UninstallPlugin
<1>4. PICK s \in PolicyServers, x \in DOMAIN tables.resources, parent \in DOMAIN tables.resources,
           mover \in {"editor", "manager"} : MoveDocument(s, x, parent, mover)
  BY <1>1, <1>2, <1>3 DEF ImpactNext, TablesNext
<1>5. /\ log'.mutation = MoveOf(cached[s], x, parent) /\ log'.actor = mover
      /\ LoadPolicyWith(tables') = ApplyPolicyMutation(LoadPolicyWith(tables), log'.mutation)
      /\ Agrees(cached[s], LoadPolicyWith(tables)) /\ IsPolicy(cached[s])
  BY <1>4, MoveKeeps
<1>6. PICK p, q, m, n, w : /\ p = cached[s] /\ q = LoadPolicyWith(tables) /\ m = MoveOf(p, x, parent)
                           /\ n = ApplyPolicyMutation(p, m) /\ w = LoadPolicyWith(tables')
  OBVIOUS
<1>7. IsPolicy(q) /\ q.resources = tables.resources
  BY <1>6, LoadIsPolicy
<1>8. IsSnapshot(q)
  BY <1>6, InvIsSound DEF TablesAreSound
<1>9. IsFiniteSet(DOMAIN q.resources) /\ IsRow("resources", q.resources[x])
  BY <1>4, <1>7 DEF TablesInv, TableRows
<1>10. ~CoverageChanges(KernelSnapshot(p), KernelSnapshot(n), x)
  <2>1. CoverageChanges(KernelSnapshot(p), KernelSnapshot(n), x) => mover = "manager"
    BY <1>4, <1>6, Zenon DEF MoveDocument
  <2> QED
    BY <1>5, <2>1
<1>11. DOMAIN m.upserts = {x}
  <2>1. PICK v : v = [p.resources[x] EXCEPT !.parent = parent]
    OBVIOUS
  <2>2. PICK f : f = [y \in {x} |-> v]
    OBVIOUS
  <2>3. m = [op |-> "reconcile", table |-> "resources", deletes |-> {}, upserts |-> f]
    BY <1>6, <2>1, <2>2, Zenon DEF MoveOf
  <2>4. m.upserts = f /\ DOMAIN f = {x}
    BY <2>2, <2>3
  <2> QED
    BY <2>4
<1>12. r = x
  BY <1>5, <1>6, <1>11
<1>13. w = ApplyPolicyMutation(q, m)
  BY <1>5, <1>6
<1>14. /\ EffectiveChanges(KernelSnapshot(q), KernelSnapshot(w), x) = {}
       /\ EffectiveFieldChanges(KernelSnapshot(q), KernelSnapshot(w), x) = {}
  BY <1>4, <1>5, <1>6, <1>7, <1>8, <1>9, <1>10, <1>13, MoveSparesRights
<1> QED
  BY <1>6, <1>12, <1>14

\* A move an editor commits without a manager changes no one's rights on what was
\* moved, in the tables themselves, although the coverage was compared on the
\* editor's server's own copy of the policy.
THEOREM EditorsSpareRights == TablesSpec => EditorsMoveNoRights
<1> DEFINE Spared ==
      log'.revision # log.revision /\ log'.actor = "editor" =>
         LET k == KernelSnapshot(LoadPolicyWith(tables))
             n == KernelSnapshot(LoadPolicyWith(tables'))
         IN \A r \in DOMAIN log'.mutation.upserts :
              EffectiveChanges(k, n, r) = {} /\ EffectiveFieldChanges(k, n, r) = {}
<1>1. TablesInv /\ [ImpactNext(Asks)]_tvars => [Spared]_tvars
  <2> SUFFICES ASSUME TablesInv, [ImpactNext(Asks)]_tvars
               PROVE  [Spared]_tvars
    OBVIOUS
  <2>1. CASE ImpactNext(Asks)
    BY <2>1, EditorsSpare, Zenon
  <2>2. CASE UNCHANGED tvars
    BY <2>2
  <2> QED
    BY <2>1, <2>2
<1> QED
  BY <1>1, TablesInvHolds, PTL DEF TablesSpec, EditorsMoveNoRights

\* StoredAsDecided, for any seeds, servers, mutations and plugin: the tables hold
\* what was decided, and an editor's move leaves every right as it was.
THEOREM StoresAsDecided == TablesSpec => StoredAsDecided
  BY StoresTheDecision, EditorsSpareRights, PTL DEF StoredAsDecided

-----------------------------------------------------------------------------
(* A walk over the documents of a collection.  The keys a client sorts by  *)
(* are in order, and ORDER BY lists rows in it.                            *)

(* What a column holds, and what a query may be sorted by.                 *)
Cells == Nat \cup {Null}
IsSort(sort) ==
  /\ sort \in Seq(SortItems)
  /\ \E i \in DOMAIN sort : sort[i].by = "id"
KeysOf(sort) == [DOMAIN sort -> Cells]

(* A row as a query returns it: one column is the id.                      *)
EntriesOf(sort) ==
  {x \in [doc : RowIds, key : KeysOf(sort)] : \A i \in DOMAIN sort : sort[i].by = "id" => x.key[i] = x.doc}

(* The items of a sort.                                                    *)
LEMMA SortIs ==
  ASSUME NEW sort, IsSort(sort)
  PROVE  /\ DOMAIN sort = 1 .. Len(sort) /\ Len(sort) \in Nat
         /\ \A i \in DOMAIN sort : sort[i].desc \in BOOLEAN /\ sort[i].by \in {"data", "updated", "id"}
         /\ \A k \in KeysOf(sort) : \A i \in DOMAIN sort : k[i] \in Cells
<1>1. (\A item \in SortItems : item.desc \in BOOLEAN) /\ \A item \in SortItems : item.by \in {"data", "updated", "id"}
  BY DEF SortItems
<1>2. sort \in Seq(SortItems)
  BY DEF IsSort
<1>3. DOMAIN sort = 1 .. Len(sort) /\ Len(sort) \in Nat /\ \A i \in DOMAIN sort : sort[i] \in SortItems
  BY <1>2
<1>4. \A k \in KeysOf(sort) : \A i \in DOMAIN sort : k[i] \in Cells
  BY DEF KeysOf
<1> QED
  BY <1>1, <1>3, <1>4

(* The values of a column are in order, whichever way and null last.       *)
LEMMA PrecedesOrders ==
  ASSUME NEW item, item.desc \in BOOLEAN, NEW u \in Cells, NEW v \in Cells, NEW w \in Cells
  PROVE  /\ ~Precedes(item, u, u)
         /\ u = v \/ Precedes(item, u, v) \/ Precedes(item, v, u)
         /\ Precedes(item, u, v) /\ Precedes(item, v, w) => Precedes(item, u, w)
<1>1. Null \notin Nat
  BY QueryAssumption
<1>2. CASE item.desc
  BY <1>1, <1>2 DEF Precedes, Cells
<1>3. CASE ~item.desc
  BY <1>1, <1>3 DEF Precedes, Cells
<1> QED
  BY <1>2, <1>3

(* Keys are in order.                                                      *)
LEMMA BeforeIsOrder ==
  ASSUME NEW sort, IsSort(sort), NEW k \in KeysOf(sort), NEW l \in KeysOf(sort), NEW m \in KeysOf(sort)
  PROVE  /\ ~IsBefore(sort, k, k)
         /\ k # l => IsBefore(sort, k, l) \/ IsBefore(sort, l, k)
         /\ IsBefore(sort, k, l) /\ IsBefore(sort, l, m) => IsBefore(sort, k, m)
<1>1. /\ DOMAIN sort = 1 .. Len(sort) /\ Len(sort) \in Nat
      /\ \A i \in DOMAIN sort : sort[i].desc \in BOOLEAN /\ k[i] \in Cells /\ l[i] \in Cells /\ m[i] \in Cells
  BY SortIs
<1>2. ~IsBefore(sort, k, k)
  <2>1. \A i \in DOMAIN sort : ~Precedes(sort[i], k[i], k[i])
    BY <1>1, PrecedesOrders
  <2> QED
    BY <2>1 DEF IsBefore
<1>3. ASSUME k # l PROVE IsBefore(sort, k, l) \/ IsBefore(sort, l, k)
  <2> DEFINE T == {i \in DOMAIN sort : k[i] # l[i]}
  <2>1. T \in SUBSET Nat
    BY <1>1
  <2>2. T # {}
    BY <1>3 DEF KeysOf
  <2> HIDE DEF T
  <2>3. PICK i \in T : \A j \in T : i <= j
    BY <2>1, <2>2, LeastElement
  <2>4. i \in DOMAIN sort /\ k[i] # l[i] /\ i \in 1 .. Len(sort)
    BY <1>1 DEF T
  <2>5. \A j \in 1 .. (i - 1) : k[j] = l[j]
    <3> SUFFICES ASSUME NEW j \in 1 .. (i - 1), k[j] # l[j] PROVE FALSE
      OBVIOUS
    <3>1. j \in DOMAIN sort /\ j < i /\ j \in Nat
      BY <1>1, <2>4
    <3>2. j \in T
      BY <3>1 DEF T
    <3> QED
      BY <2>3, <2>4, <3>1, <3>2
  <2>6. Precedes(sort[i], k[i], l[i]) \/ Precedes(sort[i], l[i], k[i])
    BY <1>1, <2>4, PrecedesOrders
  <2> QED
    BY <2>4, <2>5, <2>6 DEF IsBefore
<1>4. ASSUME IsBefore(sort, k, l), IsBefore(sort, l, m) PROVE IsBefore(sort, k, m)
  <2>1. PICK i \in DOMAIN sort : (\A j \in 1 .. (i - 1) : k[j] = l[j]) /\ Precedes(sort[i], k[i], l[i])
    BY <1>4 DEF IsBefore
  <2>2. PICK h \in DOMAIN sort : (\A j \in 1 .. (h - 1) : l[j] = m[j]) /\ Precedes(sort[h], l[h], m[h])
    BY <1>4 DEF IsBefore
  <2>3. i \in Nat /\ h \in Nat /\ i >= 1 /\ h >= 1
    BY <1>1
  <2>4. CASE i < h
    <3>1. l[i] = m[i] /\ \A j \in 1 .. (i - 1) : k[j] = m[j]
      BY <2>1, <2>2, <2>3, <2>4
    <3> QED
      BY <2>1, <3>1 DEF IsBefore
  <2>5. CASE h < i
    <3>1. k[h] = l[h] /\ \A j \in 1 .. (h - 1) : k[j] = m[j]
      BY <2>1, <2>2, <2>3, <2>5
    <3> QED
      BY <2>2, <3>1 DEF IsBefore
  <2>6. CASE i = h
    <3>1. Precedes(sort[i], k[i], m[i])
      BY <1>1, <2>1, <2>2, <2>6, PrecedesOrders
    <3>2. \A j \in 1 .. (i - 1) : k[j] = m[j]
      BY <2>1, <2>2, <2>6
    <3> QED
      BY <3>1, <3>2 DEF IsBefore
  <2> QED
    BY <2>3, <2>4, <2>5, <2>6
<1> QED
  BY <1>2, <1>3, <1>4

(* documentQueryCursorSql selects what ORDER BY puts after the cursor.     *)
LEMMA AfterIsBefore ==
  ASSUME NEW sort, IsSort(sort), NEW k \in KeysOf(sort), NEW c \in KeysOf(sort)
  PROVE  IsAfter(sort, k, c) <=> IsBefore(sort, c, k)
<1>1. /\ DOMAIN sort = 1 .. Len(sort) /\ Len(sort) \in Nat
      /\ \A i \in DOMAIN sort : sort[i].desc \in BOOLEAN /\ k[i] \in Cells /\ c[i] \in Cells
  BY SortIs
<1>2. Null \notin Nat
  BY QueryAssumption
<1>3. ASSUME NEW i \in DOMAIN sort
      PROVE  /\ (\A j \in 1 .. (i - 1) : k[j] = c[j]) <=> (\A j \in 1 .. (i - 1) : c[j] = k[j])
             /\ Precedes(sort[i], c[i], k[i]) <=>
                  c[i] # Null /\ (k[i] = Null \/ IF sort[i].desc THEN k[i] < c[i] ELSE k[i] > c[i])
  <2>1. sort[i].desc \in BOOLEAN /\ k[i] \in Cells /\ c[i] \in Cells
    BY <1>1
  <2>2. CASE sort[i].desc
    BY <1>2, <2>1, <2>2 DEF Precedes, Cells
  <2>3. CASE ~sort[i].desc
    BY <1>2, <2>1, <2>3 DEF Precedes, Cells
  <2> QED
    BY <2>2, <2>3
<1>4. ASSUME IsAfter(sort, k, c) PROVE IsBefore(sort, c, k)
  <2>1. PICK i \in DOMAIN sort :
          /\ \A j \in 1 .. (i - 1) : k[j] = c[j]
          /\ c[i] # Null
          /\ k[i] = Null \/ IF sort[i].desc THEN k[i] < c[i] ELSE k[i] > c[i]
    BY <1>4 DEF IsAfter
  <2>2. (\A j \in 1 .. (i - 1) : c[j] = k[j]) /\ Precedes(sort[i], c[i], k[i])
    BY <1>3, <2>1
  <2> QED
    BY <2>2 DEF IsBefore
<1>5. ASSUME IsBefore(sort, c, k) PROVE IsAfter(sort, k, c)
  <2>1. PICK i \in DOMAIN sort : (\A j \in 1 .. (i - 1) : c[j] = k[j]) /\ Precedes(sort[i], c[i], k[i])
    BY <1>5 DEF IsBefore
  <2>2. /\ \A j \in 1 .. (i - 1) : k[j] = c[j]
        /\ c[i] # Null
        /\ k[i] = Null \/ IF sort[i].desc THEN k[i] < c[i] ELSE k[i] > c[i]
    BY <1>3, <2>1
  <2> QED
    BY <2>2 DEF IsAfter
<1> QED
  BY <1>4, <1>5

(* Rows with the same key are the same row.                                *)
LEMMA KeysTell ==
  ASSUME NEW sort, IsSort(sort), NEW x \in EntriesOf(sort), NEW y \in EntriesOf(sort), x.key = y.key
  PROVE  x = y
<1>1. PICK i \in DOMAIN sort : sort[i].by = "id"
  BY DEF IsSort
<1>2. x.doc = y.doc
  BY <1>1 DEF EntriesOf
<1>3. x = [doc |-> x.doc, key |-> x.key] /\ y = [doc |-> y.doc, key |-> y.key]
  BY DEF EntriesOf
<1> QED
  BY <1>2, <1>3

(* A list of rows in the order asked for.                                  *)
Ascends(sort, s) == \A i, j \in DOMAIN s : i < j => IsBefore(sort, s[i].key, s[j].key)

(* ORDER BY lists all rows, in order.                                      *)
LEMMA SortedIs ==
  ASSUME NEW sort, IsSort(sort), NEW S \in SUBSET EntriesOf(sort), IsFiniteSet(S)
  PROVE  /\ InSortOrder(sort, S) \in Seq(S) /\ Ascends(sort, InSortOrder(sort, S))
         /\ \A x \in S : \E i \in DOMAIN InSortOrder(sort, S) : InSortOrder(sort, S)[i] = x
<1> DEFINE L == [x \in S |-> {y \in S : IsBefore(sort, y.key, x.key)}]
           N == Cardinality(S)
           s == InSortOrder(sort, S)
<1>1. \A x \in S : x \in EntriesOf(sort) /\ x.key \in KeysOf(sort)
  BY DEF EntriesOf
<1>2. \A x, y \in S : x \in L[y] <=> IsBefore(sort, x.key, y.key)
  OBVIOUS
<1>3. /\ N \in Nat
      /\ \A x \in S : Cardinality(L[x]) \in 0 .. (N - 1)
      /\ \A x, y \in S : x \in L[y] <=> Cardinality(L[x]) < Cardinality(L[y])
      /\ \A n \in 0 .. (N - 1) : \E x \in S : Cardinality(L[x]) = n
  <2>1. L \in [S -> SUBSET S]
    OBVIOUS
  <2> HIDE DEF L
  <2>2. \A x \in S : x \notin L[x]
    BY <1>1, <1>2, BeforeIsOrder
  <2>3. \A x, y \in S : x # y => x \in L[y] \/ y \in L[x]
    BY <1>1, <1>2, KeysTell, BeforeIsOrder
  <2>4. ASSUME NEW x \in S, NEW y \in S, x \in L[y], NEW z \in L[x] PROVE z \in L[y]
    BY <1>1, <1>2, <2>1, <2>4, BeforeIsOrder
  <2>5. \A x, y \in S : x \in L[y] => L[x] \subseteq L[y]
    BY <2>4
  <2> QED
    BY <2>1, <2>2, <2>3, <2>5, OrdersAreNumbered
<1>4. s = [n \in 1 .. N |-> CHOOSE x \in S : Cardinality({y \in S : IsBefore(sort, y.key, x.key)}) = n - 1]
  BY DEF InSortOrder
<1>5. s = [n \in 1 .. N |-> CHOOSE x \in S : Cardinality(L[x]) = n - 1]
  BY <1>4
<1> HIDE DEF L, s, N
<1>6. \A n \in 1 .. N : s[n] \in S /\ Cardinality(L[s[n]]) = n - 1
  <2> SUFFICES ASSUME NEW n \in 1 .. N PROVE s[n] \in S /\ Cardinality(L[s[n]]) = n - 1
    OBVIOUS
  <2>1. n - 1 \in 0 .. (N - 1)
    BY <1>3
  <2>2. \E x \in S : Cardinality(L[x]) = n - 1
    BY <1>3, <2>1
  <2>3. s[n] = CHOOSE x \in S : Cardinality(L[x]) = n - 1
    BY <1>5
  <2> QED
    BY <2>2, <2>3
<1>7. s \in Seq(S) /\ DOMAIN s = 1 .. N
  BY <1>3, <1>5, <1>6
<1>8. Ascends(sort, s)
  <2> SUFFICES ASSUME NEW i \in 1 .. N, NEW j \in 1 .. N, i < j
               PROVE  IsBefore(sort, s[i].key, s[j].key)
    BY <1>7 DEF Ascends
  <2>1. Cardinality(L[s[i]]) < Cardinality(L[s[j]]) /\ s[i] \in S /\ s[j] \in S
    BY <1>3, <1>6
  <2>2. s[i] \in L[s[j]]
    BY <1>3, <2>1
  <2> QED
    BY <1>2, <2>1, <2>2
<1>9. ASSUME NEW x \in S PROVE \E i \in 1 .. N : s[i] = x
  <2> DEFINE i == Cardinality(L[x]) + 1
  <2>1. i \in 1 .. N /\ Cardinality(L[x]) = i - 1
    BY <1>3
  <2>2. Cardinality(L[s[i]]) = Cardinality(L[x]) /\ s[i] \in S
    BY <1>6, <2>1
  <2>3. s[i] \notin L[x] /\ x \notin L[s[i]]
    <3>1. Cardinality(L[x]) \in Nat
      BY <1>3
    <3> QED
      BY <1>3, <2>2, <3>1
  <2>4. s[i].key = x.key
    BY <1>1, <1>2, <2>2, <2>3, BeforeIsOrder
  <2>5. s[i] = x
    BY <1>1, <2>2, <2>4, KeysTell
  <2> QED
    BY <2>1, <2>5
<1> QED
  BY <1>7, <1>8, <1>9 DEF s

-----------------------------------------------------------------------------
(* What is true of a walk, and that it is enough.                          *)

(* The key of a document in the rows R.                                    *)
ColumnIn(R, by, d) == CASE by = "data" -> R[d].data
                        [] by = "updated" -> R[d].updated
                        [] by = "id" -> d
KeyIn(R, sort, d) == [i \in DOMAIN sort |-> ColumnIn(R, sort[i].by, d)]

ContentRows == [data : Cells, updated : Nat, deleted : BOOLEAN]
ContentTables == [RowIds -> ContentRows]

WalksBy(sort) ==
  [step : {"query", "check", "page", "done", "refused", "truncated", "exceeded"}, sort : {sort},
   limit : Nat, scan : Nat, aggregate : BOOLEAN, cursor : {NoCursor} \cup KeysOf(sort),
   batch : Seq(EntriesOf(sort)), more : BOOLEAN, scanned : Nat, visible : Seq(EntriesOf(sort)),
   result : Seq(EntriesOf(sort)), touched : SUBSET RowIds]

(* What the client has come past.                                          *)
Past(w) == w.result \o w.visible
Lists(s, d) == \E i \in DOMAIN s : s[i].doc = d
(* A key the walk has not come to.                                         *)
Ahead(w, k) == w.cursor = NoCursor \/ IsBefore(w.sort, w.cursor, k)

WalkShape(w) == IsSort(w.sort) /\ w \in WalksBy(w.sort) /\ (~w.aggregate => w.limit >= 1)

(* Everything up to the cursor, in order, and nothing after it.            *)
PastInOrder(w) ==
  /\ Ascends(w.sort, Past(w))
  /\ \A i \in DOMAIN Past(w) : /\ w.cursor # NoCursor
                               /\ Past(w)[i].key = w.cursor \/ IsBefore(w.sort, Past(w)[i].key, w.cursor)

(* What comes next: rows after the cursor, in order.                       *)
BatchInOrder(w) ==
  w.step = "check" => Ascends(w.sort, w.batch) /\ \A i \in DOMAIN w.batch : Ahead(w, w.batch[i].key)

(* What nobody touched is as it was read, and readable when it was shown.  *)
AsRead(R, h, w) ==
  /\ \A i \in DOMAIN Past(w) :
        Past(w)[i].doc \notin w.touched =>
          Past(w)[i].key = KeyIn(R, w.sort, Past(w)[i].doc) /\ Past(w)[i].doc \notin h
  /\ w.step = "check" =>
        \A i \in DOMAIN w.batch :
           w.batch[i].doc \notin w.touched => w.batch[i].key = KeyIn(R, w.sort, w.batch[i].doc)

(* Where a document is that the walk has to come past.                     *)
Covers(R, w, d) ==
  /\ w.step \in {"query", "page"} => Lists(Past(w), d) \/ Ahead(w, KeyIn(R, w.sort, d))
  /\ w.step = "check" =>
        \/ Lists(Past(w), d) \/ Lists(w.batch, d)
        \/ /\ w.more /\ Ahead(w, KeyIn(R, w.sort, d))
           /\ \A i \in DOMAIN w.batch : IsBefore(w.sort, w.batch[i].key, KeyIn(R, w.sort, d))
  /\ w.step = "done" => Lists(Past(w), d)
Stays(R, h, w) == {d \in RowIds : d \notin w.touched /\ ~R[d].deleted /\ d \notin h}
CoversAll(R, h, w) == \A d \in Stays(R, h, w) : Covers(R, w, d)

(* A page is not overfull, and why a walk ended early.                     *)
PageFits(w) == ~w.aggregate /\ w.step \in {"query", "check", "page"} => Len(w.visible) <= w.limit
EndsEarly(w) ==
  /\ w.step = "refused" => \E i \in DOMAIN w.sort : w.sort[i].kind \in {"version", "date"}
  /\ w.step \in {"truncated", "exceeded"} => w.scanned >= w.scan

WalkHolds(R, h, w) ==
  /\ WalkShape(w) /\ PastInOrder(w) /\ BatchInOrder(w) /\ AsRead(R, h, w)
  /\ CoversAll(R, h, w) /\ PageFits(w) /\ EndsEarly(w)

QueryInv ==
  /\ row \in ContentTables /\ hidden \subseteq RowIds /\ writes \in Nat
  /\ walk = NoWalk \/ WalkHolds(row, hidden, walk)

(* The key of a row is what the query reads.                               *)
LEMMA KeyIsIn ==
  ASSUME NEW R \in ContentTables, NEW sort, IsSort(sort), NEW d \in RowIds
  PROVE  /\ KeyIn(R, sort, d) \in KeysOf(sort)
         /\ [doc |-> d, key |-> KeyIn(R, sort, d)] \in EntriesOf(sort)
<1>2. \A i \in DOMAIN sort : sort[i].by \in {"data", "updated", "id"}
  BY SortIs
<1>3. R[d].data \in Cells /\ R[d].updated \in Cells /\ d \in Cells
  BY QueryAssumption DEF ContentTables, ContentRows, Cells
<1>4. \A by \in {"data", "updated", "id"} : ColumnIn(R, by, d) \in Cells
  BY <1>3 DEF ColumnIn
<1>5. KeyIn(R, sort, d) \in KeysOf(sort)
  BY <1>2, <1>4 DEF KeyIn, KeysOf
<1>6. \A i \in DOMAIN sort : sort[i].by = "id" => KeyIn(R, sort, d)[i] = d
  BY DEF KeyIn, ColumnIn
<1> QED
  BY <1>5, <1>6 DEF EntriesOf

(* What a query reads is the key in the rows as they are.                  *)
LEMMA KeyIsKeyIn ==
  ASSUME NEW sort, NEW d
  PROVE  Key(sort, d) = KeyIn(row, sort, d)
BY DEF Key, KeyIn, Column, ColumnIn

(* The key of a row is the row's alone.                                    *)
LEMMA SameKeyIn ==
  ASSUME NEW R, NEW Q, NEW sort, NEW d, R[d] = Q[d]
  PROVE  KeyIn(R, sort, d) = KeyIn(Q, sort, d)
BY DEF KeyIn, ColumnIn

(* A cursor is a key or none.                                              *)
LEMMA CursorIs ==
  ASSUME NEW sort, IsSort(sort), NEW k \in KeysOf(sort)
  PROVE  k # NoCursor
<1>1. DOMAIN k = DOMAIN sort /\ DOMAIN sort # {}
  BY DEF KeysOf, IsSort
<1>2. DOMAIN NoCursor = {}
  BY DEF NoCursor
<1> QED
  BY <1>1, <1>2

(* The fields of a walk.                                                   *)
LEMMA WalkIs ==
  ASSUME NEW w, WalkShape(w)
  PROVE  /\ IsSort(w.sort)
         /\ w.step \in {"query", "check", "page", "done", "refused", "truncated", "exceeded"}
         /\ w.limit \in Nat /\ w.scan \in Nat /\ w.scanned \in Nat
         /\ w.aggregate \in BOOLEAN /\ w.more \in BOOLEAN
         /\ w.cursor = NoCursor \/ w.cursor \in KeysOf(w.sort)
         /\ w.batch \in Seq(EntriesOf(w.sort)) /\ w.visible \in Seq(EntriesOf(w.sort))
         /\ w.result \in Seq(EntriesOf(w.sort))
         /\ w.touched \in SUBSET RowIds
         /\ Past(w) \in Seq(EntriesOf(w.sort))
         /\ Len(Past(w)) = Len(w.result) + Len(w.visible)
         /\ ~w.aggregate => w.limit >= 1
<1>1. /\ IsSort(w.sort) /\ w \in WalksBy(w.sort) /\ (~w.aggregate => w.limit >= 1)
  BY DEF WalkShape
<1>2. /\ w.step \in {"query", "check", "page", "done", "refused", "truncated", "exceeded"}
      /\ w.limit \in Nat /\ w.scan \in Nat /\ w.scanned \in Nat
  BY <1>1 DEF WalksBy
<1>3. w.aggregate \in BOOLEAN
  BY <1>1 DEF WalksBy
<1>4. w.more \in BOOLEAN
  BY <1>1 DEF WalksBy
<1>5. /\ w.cursor = NoCursor \/ w.cursor \in KeysOf(w.sort)
      /\ w.batch \in Seq(EntriesOf(w.sort)) /\ w.visible \in Seq(EntriesOf(w.sort))
      /\ w.result \in Seq(EntriesOf(w.sort))
      /\ w.touched \in SUBSET RowIds
  BY <1>1 DEF WalksBy
<1>6. Past(w) \in Seq(EntriesOf(w.sort)) /\ Len(Past(w)) = Len(w.result) + Len(w.visible)
  BY <1>5 DEF Past
<1> QED
  BY <1>1, <1>2, <1>3, <1>4, <1>5, <1>6

(* The fields of a row a query returns.                                    *)
LEMMA EntryIs ==
  ASSUME NEW sort, NEW x \in EntriesOf(sort)
  PROVE  x.doc \in RowIds /\ x.key \in KeysOf(sort)
BY DEF EntriesOf

(* The members of a list of rows.                                          *)
LEMMA ListIs ==
  ASSUME NEW sort, NEW s \in Seq(EntriesOf(sort))
  PROVE  /\ DOMAIN s = 1 .. Len(s) /\ Len(s) \in Nat
         /\ \A i \in DOMAIN s : s[i] \in EntriesOf(sort) /\ s[i].doc \in RowIds /\ s[i].key \in KeysOf(sort)
<1>1. DOMAIN s = 1 .. Len(s) /\ Len(s) \in Nat /\ \A i \in DOMAIN s : s[i] \in EntriesOf(sort)
  OBVIOUS
<1> QED
  BY <1>1, EntryIs

(* The invariant says what the property says.                              *)
LEMMA HoldsMissNothing ==
  ASSUME row \in ContentTables, WalkHolds(row, hidden, walk)
  PROVE  WalksMissNothing
<1>1. /\ WalkShape(walk) /\ PastInOrder(walk) /\ AsRead(row, hidden, walk)
      /\ CoversAll(row, hidden, walk) /\ EndsEarly(walk)
  BY DEF WalkHolds
<1>2. /\ IsSort(walk.sort) /\ Past(walk) \in Seq(EntriesOf(walk.sort))
      /\ walk.cursor = NoCursor \/ walk.cursor \in KeysOf(walk.sort)
  BY <1>1, WalkIs
<1>3. Seen = Past(walk)
  BY DEF Seen, Past
<1>4. DOMAIN Seen = 1 .. Len(Seen) /\ Len(Seen) \in Nat /\ \A i \in DOMAIN Seen : Seen[i] \in EntriesOf(walk.sort)
  BY <1>2, <1>3
<1>5. /\ Ascends(walk.sort, Seen)
      /\ \A i \in DOMAIN Seen : Seen[i].doc \notin walk.touched =>
            Seen[i].key = KeyIn(row, walk.sort, Seen[i].doc) /\ Seen[i].doc \notin hidden
  BY <1>1, <1>3 DEF PastInOrder, AsRead
<1>6. \A i \in 2 .. Len(Seen) : IsBefore(walk.sort, Seen[i - 1].key, Seen[i].key)
  <2> SUFFICES ASSUME NEW i \in 2 .. Len(Seen) PROVE IsBefore(walk.sort, Seen[i - 1].key, Seen[i].key)
    OBVIOUS
  <2>1. i - 1 \in DOMAIN Seen /\ i \in DOMAIN Seen /\ i - 1 < i
    BY <1>4
  <2> QED
    BY <1>5, <2>1 DEF Ascends
<1>7. ASSUME NEW d \in RowIds, d \notin walk.touched
      PROVE  Times(d) <= 1 /\ (Times(d) = 0 \/ Times(d) = 1) /\ (Lists(Seen, d) => Times(d) = 1) /\ (d \in hidden => Times(d) = 0)
  <2> DEFINE I == {i \in DOMAIN Seen : Seen[i].doc = d}
  <2>1. Times(d) = Cardinality(I)
    BY DEF Times
  <2>2. \A i, j \in I : i = j
    <3> SUFFICES ASSUME NEW i \in I, NEW j \in I, i < j PROVE FALSE
      BY <1>4
    <3>1. Seen[i].key = Seen[j].key /\ i \in DOMAIN Seen /\ j \in DOMAIN Seen
      BY <1>5, <1>7
    <3>2. IsBefore(walk.sort, Seen[i].key, Seen[j].key) /\ Seen[i].key \in KeysOf(walk.sort)
      BY <1>4, <1>5, <3>1, EntryIs DEF Ascends
    <3> QED
      BY <1>2, <3>1, <3>2, BeforeIsOrder
  <2>3. d \in hidden => I = {}
    BY <1>5, <1>7
  <2>4. Lists(Seen, d) => I # {}
    BY DEF Lists
  <2> HIDE DEF I
  <2>5. CASE I = {}
    BY <2>1, <2>4, <2>5, FS_EmptySet
  <2>6. CASE I # {}
    <3>1. PICK i : I = {i}
      BY <2>2, <2>6
    <3>2. Cardinality(I) = 1
      BY <3>1, FS_Singleton
    <3> QED
      BY <2>1, <2>3, <2>6, <3>2
  <2> QED
    BY <2>5, <2>6
<1>8. ASSUME NEW d \in Steady
      PROVE  /\ Times(d) <= 1
             /\ \/ walk.step = "done"
                \/ walk.step \in {"query", "page"} /\ walk.cursor # NoCursor
                   /\ ~IsBefore(walk.sort, walk.cursor, Key(walk.sort, d))
                => Times(d) = 1
  <2>1. d \in RowIds /\ d \notin walk.touched /\ d \in Stays(row, hidden, walk)
    BY <1>8 DEF Steady, Stays
  <2>2. Covers(row, walk, d)
    BY <1>1, <2>1 DEF CoversAll
  <2>3. \/ walk.step = "done"
        \/ walk.step \in {"query", "page"} /\ walk.cursor # NoCursor
           /\ ~IsBefore(walk.sort, walk.cursor, Key(walk.sort, d))
        => Lists(Seen, d)
    BY <1>3, <2>2, KeyIsKeyIn DEF Covers, Ahead
  <2> QED
    BY <1>7, <2>1, <2>3
<1>9. \A d \in hidden \ walk.touched : Times(d) = 0
  <2> SUFFICES ASSUME NEW d \in hidden \ walk.touched PROVE Times(d) = 0
    OBVIOUS
  <2> DEFINE I == {i \in DOMAIN Seen : Seen[i].doc = d}
  <2>1. I = {}
    BY <1>5
  <2> QED
    BY <2>1, FS_EmptySet DEF Times
<1> QED
  BY <1>1, <1>6, <1>8, <1>9 DEF WalksMissNothing, EndsEarly

-----------------------------------------------------------------------------
(* Beginnings, and what others do around a walk.                           *)

(* A list and one more.                                                    *)
LEMMA AppendIs ==
  ASSUME NEW E, NEW s \in Seq(E), NEW x \in E
  PROVE  /\ Len(s) \in Nat /\ DOMAIN s = 1 .. Len(s) /\ DOMAIN Append(s, x) = 1 .. (Len(s) + 1)
         /\ Append(s, x)[Len(s) + 1] = x /\ \A i \in 1 .. Len(s) : Append(s, x)[i] = s[i]
         /\ Append(s, x) \in Seq(E) /\ Len(Append(s, x)) = Len(s) + 1
OBVIOUS

(* One more, after two lists.                                              *)
LEMMA ConcatAppend ==
  ASSUME NEW E, NEW r \in Seq(E), NEW s \in Seq(E), NEW x \in E
  PROVE  r \o Append(s, x) = Append(r \o s, x)
<1>1. r \o s \in Seq(E) /\ Append(s, x) \in Seq(E)
  OBVIOUS
<1>2. r \o Append(s, x) \in Seq(E) /\ Append(r \o s, x) \in Seq(E)
  BY <1>1
<1>3. Len(r \o Append(s, x)) = Len(Append(r \o s, x))
  BY <1>1
<1>4. \A i \in 1 .. Len(r \o Append(s, x)) : (r \o Append(s, x))[i] = Append(r \o s, x)[i]
  BY <1>1
<1> QED
  BY <1>2, <1>3, <1>4, SeqEqual

(* The last of two lists.                                                  *)
LEMMA LastOfConcat ==
  ASSUME NEW E, NEW r \in Seq(E), NEW s \in Seq(E), Len(s) >= 1
  PROVE  (r \o s)[Len(r \o s)] = s[Len(s)] /\ Len(r \o s) \in DOMAIN (r \o s)
<1>1. Len(r \o s) = Len(r) + Len(s) /\ DOMAIN (r \o s) = 1 .. Len(r \o s) /\ Len(r) \in Nat /\ Len(s) \in Nat
  OBVIOUS
<1>2. (r \o s)[Len(r) + Len(s)] = s[Len(s)]
  BY <1>1
<1> QED
  BY <1>1, <1>2

(* Lists that stay in order.                                               *)
LEMMA AppendAscends ==
  ASSUME NEW sort, NEW s \in Seq(EntriesOf(sort)), NEW x \in EntriesOf(sort), Ascends(sort, s),
         \A i \in DOMAIN s : IsBefore(sort, s[i].key, x.key)
  PROVE  Ascends(sort, Append(s, x))
<1>1. /\ Len(s) \in Nat /\ DOMAIN s = 1 .. Len(s) /\ DOMAIN Append(s, x) = 1 .. (Len(s) + 1)
      /\ Append(s, x)[Len(s) + 1] = x /\ \A i \in 1 .. Len(s) : Append(s, x)[i] = s[i]
  OBVIOUS
<1>2. ASSUME NEW i \in 1 .. (Len(s) + 1), NEW j \in 1 .. (Len(s) + 1), i < j
      PROVE  IsBefore(sort, Append(s, x)[i].key, Append(s, x)[j].key)
  <2>1. i \in 1 .. Len(s) /\ Append(s, x)[i] = s[i]
    BY <1>1, <1>2
  <2>2. CASE j = Len(s) + 1
    BY <1>1, <2>1, <2>2
  <2>3. CASE j # Len(s) + 1
    <3>1. j \in 1 .. Len(s) /\ Append(s, x)[j] = s[j]
      BY <1>1, <2>3
    <3> QED
      BY <1>1, <1>2, <2>1, <3>1 DEF Ascends
  <2> QED
    BY <2>2, <2>3
<1> QED
  BY <1>1, <1>2 DEF Ascends

(* The rest of a list in order comes after its head, in order.             *)
LEMMA TailAscends ==
  ASSUME NEW sort, NEW s \in Seq(EntriesOf(sort)), s # <<>>, Ascends(sort, s)
  PROVE  /\ Ascends(sort, Tail(s)) /\ Tail(s) \in Seq(EntriesOf(sort))
         /\ s[1] \in EntriesOf(sort) /\ Head(s) = s[1] /\ 1 \in DOMAIN s
         /\ \A i \in DOMAIN Tail(s) : /\ i + 1 \in DOMAIN s /\ Tail(s)[i] = s[i + 1]
                                      /\ IsBefore(sort, s[1].key, Tail(s)[i].key)
         /\ \A i \in DOMAIN s : i # 1 => i - 1 \in DOMAIN Tail(s)
<1>1. /\ Len(s) \in Nat /\ Len(s) >= 1 /\ DOMAIN s = 1 .. Len(s) /\ DOMAIN Tail(s) = 1 .. (Len(s) - 1)
      /\ \A i \in 1 .. (Len(s) - 1) : Tail(s)[i] = s[i + 1]
      /\ Tail(s) \in Seq(EntriesOf(sort)) /\ Head(s) = s[1] /\ s[1] \in EntriesOf(sort)
  BY HeadTailProperties, EmptySeq
<1>2. Ascends(sort, Tail(s))
  <2> SUFFICES ASSUME NEW i \in 1 .. (Len(s) - 1), NEW j \in 1 .. (Len(s) - 1), i < j
               PROVE  IsBefore(sort, s[i + 1].key, s[j + 1].key)
    BY <1>1 DEF Ascends
  <2>1. i + 1 \in DOMAIN s /\ j + 1 \in DOMAIN s /\ i + 1 < j + 1
    BY <1>1
  <2> QED
    BY <2>1 DEF Ascends
<1>3. ASSUME NEW i \in DOMAIN Tail(s) PROVE i + 1 \in DOMAIN s /\ IsBefore(sort, s[1].key, s[i + 1].key)
  <2>1. i + 1 \in DOMAIN s /\ 1 \in DOMAIN s /\ 1 < i + 1
    BY <1>1
  <2> QED
    BY <2>1 DEF Ascends
<1>4. \A i \in DOMAIN s : i # 1 => i - 1 \in DOMAIN Tail(s)
  BY <1>1
<1> QED
  BY <1>1, <1>2, <1>3, <1>4

(* Somebody touches a document: the walk holds for all the others.         *)
LEMMA TouchKeeps ==
  ASSUME NEW R, NEW Q, NEW h, NEW g, NEW w, NEW d0 \in RowIds, WalkHolds(R, h, w),
         w.step \in {"query", "check", "page"},
         \A d \in RowIds : d # d0 => Q[d] = R[d] /\ (d \in g <=> d \in h)
  PROVE  WalkHolds(Q, g, [w EXCEPT !.touched = @ \cup {d0}])
<1> DEFINE v == [w EXCEPT !.touched = @ \cup {d0}]
<1>1. /\ WalkShape(w) /\ PastInOrder(w) /\ BatchInOrder(w) /\ AsRead(R, h, w)
      /\ CoversAll(R, h, w) /\ PageFits(w) /\ EndsEarly(w)
  BY DEF WalkHolds
<1>2. /\ v.sort = w.sort /\ v.step = w.step /\ v.limit = w.limit /\ v.aggregate = w.aggregate
      /\ v.cursor = w.cursor /\ v.batch = w.batch /\ v.more = w.more /\ v.visible = w.visible
      /\ v.result = w.result /\ v.touched = w.touched \cup {d0}
      /\ v \in WalksBy(w.sort)
  BY <1>1 DEF WalkShape, WalksBy
<1> HIDE DEF v
<1>3. Past(v) = Past(w)
  BY <1>2 DEF Past
<1>4. /\ Past(w) \in Seq(EntriesOf(w.sort)) /\ w.batch \in Seq(EntriesOf(w.sort))
      /\ \A i \in DOMAIN Past(w) : Past(w)[i].doc \in RowIds
      /\ \A i \in DOMAIN w.batch : w.batch[i].doc \in RowIds
  BY <1>1, WalkIs, ListIs
<1>5. \A d \in RowIds : d # d0 => KeyIn(Q, w.sort, d) = KeyIn(R, w.sort, d)
  <2> SUFFICES ASSUME NEW d \in RowIds, d # d0 PROVE KeyIn(Q, w.sort, d) = KeyIn(R, w.sort, d)
    OBVIOUS
  <2>1. Q[d] = R[d]
    OBVIOUS
  <2> QED
    BY <2>1, SameKeyIn
<1>6. WalkShape(v) /\ PageFits(v)
  BY <1>1, <1>2 DEF WalkShape, PageFits
<1>7. PastInOrder(v) /\ BatchInOrder(v)
  BY <1>1, <1>2, <1>3 DEF PastInOrder, BatchInOrder, Ahead
<1>8. AsRead(Q, g, v)
  <2>1. ASSUME NEW i \in DOMAIN Past(w), Past(w)[i].doc \notin v.touched
        PROVE  Past(w)[i].key = KeyIn(Q, w.sort, Past(w)[i].doc) /\ Past(w)[i].doc \notin g
    <3>1. Past(w)[i].doc \in RowIds /\ Past(w)[i].doc # d0 /\ Past(w)[i].doc \notin w.touched
      BY <1>2, <1>4, <2>1
    <3> QED
      BY <1>1, <1>5, <2>1, <3>1 DEF AsRead
  <2>2. ASSUME w.step = "check", NEW i \in DOMAIN w.batch, w.batch[i].doc \notin v.touched
        PROVE  w.batch[i].key = KeyIn(Q, w.sort, w.batch[i].doc)
    <3>1. w.batch[i].doc \in RowIds /\ w.batch[i].doc # d0 /\ w.batch[i].doc \notin w.touched
      BY <1>2, <1>4, <2>2
    <3> QED
      BY <1>1, <1>5, <2>2, <3>1 DEF AsRead
  <2> QED
    BY <1>2, <1>3, <2>1, <2>2 DEF AsRead
<1>9. CoversAll(Q, g, v)
  <2> SUFFICES ASSUME NEW d \in Stays(Q, g, v) PROVE Covers(Q, v, d)
    BY DEF CoversAll
  <2>1. d \in RowIds /\ d # d0 /\ d \in Stays(R, h, w)
    BY <1>2 DEF Stays
  <2>2. Covers(R, w, d) /\ KeyIn(Q, w.sort, d) = KeyIn(R, w.sort, d)
    BY <1>1, <1>5, <2>1 DEF CoversAll
  <2>3. \A k : Ahead(v, k) <=> Ahead(w, k)
    BY <1>2 DEF Ahead
  <2> QED
    BY <1>2, <1>3, <2>2, <2>3 DEF Covers
<1>10. EndsEarly(v)
  BY <1>2 DEF EndsEarly
<1> QED
  BY <1>6, <1>7, <1>8, <1>9, <1>10 DEF WalkHolds, v

(* A walk begins.                                                          *)
LEMMA StartHolds ==
  ASSUME NEW R, NEW h, NEW sort, sort \in Seq(SortItems),
         NEW limit \in Nat, NEW scan \in Nat, NEW aggregate \in BOOLEAN, aggregate \/ limit >= 1
  PROVE  WalkHolds(R, h, [step |-> "query", sort |-> Normalized(sort), limit |-> limit, scan |-> scan,
                          aggregate |-> aggregate, cursor |-> NoCursor, batch |-> <<>>, more |-> FALSE,
                          scanned |-> 0, visible |-> <<>>, result |-> <<>>, touched |-> {}])
<1> DEFINE n == Normalized(sort)
           v == [step |-> "query", sort |-> n, limit |-> limit, scan |-> scan,
                 aggregate |-> aggregate, cursor |-> NoCursor, batch |-> <<>>, more |-> FALSE,
                 scanned |-> 0, visible |-> <<>>, result |-> <<>>, touched |-> {}]
<1>1. IsSort(n)
  <2>1. ById \in SortItems /\ ById.by = "id"
    BY DEF ById, SortItems, Kinds
  <2>2. CASE \E i \in DOMAIN sort : sort[i].by = "id"
    BY <2>2 DEF Normalized, IsSort
  <2>3. CASE ~\E i \in DOMAIN sort : sort[i].by = "id"
    <3>1. n = Append(sort, ById) /\ sort \in Seq(SortItems)
      BY <2>3 DEF Normalized
    <3>2. n \in Seq(SortItems) /\ n[Len(sort) + 1] = ById /\ Len(sort) + 1 \in DOMAIN n
      BY <2>1, <3>1
    <3> QED
      BY <2>1, <3>2 DEF IsSort
  <2> QED
    BY <2>2, <2>3
<1> HIDE DEF n
<1>2. /\ v.sort = n /\ v.step = "query" /\ v.limit = limit /\ v.aggregate = aggregate
      /\ v.cursor = NoCursor /\ v.batch = <<>> /\ v.visible = <<>> /\ v.result = <<>> /\ v.touched = {}
      /\ v \in WalksBy(n)
  BY DEF WalksBy
<1> HIDE DEF v
<1>3. Past(v) = <<>> /\ DOMAIN Past(v) = {} /\ Len(<<>>) = 0
  BY <1>2 DEF Past
<1>4. WalkShape(v) /\ PageFits(v)
  BY <1>1, <1>2, <1>3 DEF WalkShape, PageFits
<1>5. PastInOrder(v) /\ BatchInOrder(v) /\ AsRead(R, h, v) /\ EndsEarly(v)
  BY <1>2, <1>3 DEF PastInOrder, BatchInOrder, AsRead, EndsEarly, Ascends
<1>6. CoversAll(R, h, v)
  BY <1>2 DEF CoversAll, Covers, Ahead
<1> QED
  BY <1>4, <1>5, <1>6 DEF WalkHolds, v, n

(* The next page.                                                          *)
LEMMA NextPageHolds ==
  ASSUME NEW R, NEW h, NEW w, WalkHolds(R, h, w), w.step = "page"
  PROVE  WalkHolds(R, h, [w EXCEPT !.step = "query", !.scanned = 0])
<1> DEFINE v == [w EXCEPT !.step = "query", !.scanned = 0]
<1>1. /\ WalkShape(w) /\ PastInOrder(w) /\ BatchInOrder(w) /\ AsRead(R, h, w)
      /\ CoversAll(R, h, w) /\ PageFits(w) /\ EndsEarly(w)
  BY DEF WalkHolds
<1>2. /\ v.sort = w.sort /\ v.step = "query" /\ v.limit = w.limit /\ v.aggregate = w.aggregate
      /\ v.cursor = w.cursor /\ v.batch = w.batch /\ v.more = w.more /\ v.visible = w.visible
      /\ v.result = w.result /\ v.touched = w.touched
      /\ v \in WalksBy(w.sort)
  BY <1>1 DEF WalkShape, WalksBy
<1> HIDE DEF v
<1>3. Past(v) = Past(w)
  BY <1>2 DEF Past
<1>4. WalkShape(v) /\ PageFits(v)
  BY <1>1, <1>2 DEF WalkShape, PageFits
<1>5. PastInOrder(v) /\ BatchInOrder(v) /\ AsRead(R, h, v) /\ EndsEarly(v)
  BY <1>1, <1>2, <1>3 DEF PastInOrder, BatchInOrder, AsRead, EndsEarly
<1>6. CoversAll(R, h, v)
  <2> SUFFICES ASSUME NEW d \in Stays(R, h, v) PROVE Covers(R, v, d)
    BY DEF CoversAll
  <2>1. d \in Stays(R, h, w)
    BY <1>2 DEF Stays
  <2>2. Lists(Past(w), d) \/ Ahead(w, KeyIn(R, w.sort, d))
    BY <1>1, <2>1 DEF CoversAll, Covers
  <2> QED
    BY <1>2, <1>3, <2>2 DEF Covers, Ahead
<1> QED
  BY <1>4, <1>5, <1>6 DEF WalkHolds, v

-----------------------------------------------------------------------------
(* A batch is fetched.                                                     *)

(* ORDER BY ... LIMIT, after the cursor: the rest of the documents is      *)
(* either in the batch or after all of it.                                 *)
LEMMA BatchHolds ==
  ASSUME row \in ContentTables, NEW h, WalkHolds(row, h, walk), QueryBatch
  PROVE  WalkHolds(row, h, walk')
<1> DEFINE w == walk
           sort == w.sort
           Found == {[doc |-> d, key |-> Key(sort, d)] : d \in {e \in RowIds : ~row[e].deleted}}
           After == {x \in Found : w.cursor = NoCursor \/ IsAfter(sort, x.key, w.cursor)}
           rows == InSortOrder(sort, After)
           m == AtMost(Len(rows), BatchLimit)
<1>1. /\ WalkShape(w) /\ PastInOrder(w) /\ AsRead(row, h, w)
      /\ CoversAll(row, h, w) /\ PageFits(w) /\ EndsEarly(w)
  BY DEF WalkHolds
<1>2. /\ IsSort(sort) /\ w.limit \in Nat /\ w.aggregate \in BOOLEAN
      /\ w.cursor = NoCursor \/ w.cursor \in KeysOf(sort)
      /\ Past(w) \in Seq(EntriesOf(sort)) /\ w.touched \in SUBSET RowIds
  BY <1>1, WalkIs
<1>3. w.step = "query"
  BY DEF QueryBatch
<1>4. walk' = IF IsAccepted(sort, w.cursor)
              THEN [w EXCEPT !.step = "check", !.batch = SubSeq(rows, 1, m), !.more = Len(rows) > BatchLimit]
              ELSE [w EXCEPT !.step = "refused"]
  BY DEF QueryBatch
<1>5. BatchLimit \in Nat
  BY <1>2, QueryAssumption DEF BatchLimit, AtMost, AtLeast
<1>6. After \in SUBSET EntriesOf(sort) /\ IsFiniteSet(After)
  <2>1. \A d \in RowIds : [doc |-> d, key |-> Key(sort, d)] \in EntriesOf(sort)
    BY <1>2, KeyIsIn, KeyIsKeyIn
  <2> DEFINE E == {e \in RowIds : ~row[e].deleted}
             f == [d \in E |-> [doc |-> d, key |-> Key(sort, d)]]
  <2>2. IsFiniteSet(E)
    BY QueryAssumption, FS_Subset
  <2>3. Found = {f[d] : d \in E} /\ Found = Range(f)
    BY DEF Range
  <2>4. f \in Surjection(E, Found)
    BY DEF Surjection
  <2> HIDE DEF f, E
  <2>5. IsFiniteSet(Found)
    BY <2>2, <2>4, FS_Surjection
  <2>6. IsFiniteSet(Found) /\ After \subseteq Found
    BY <2>5
  <2> QED
    BY <2>1, <2>6, FS_Subset
<1>7. /\ \A x \in After : /\ x.key = KeyIn(row, sort, x.doc)
                          /\ Ahead(w, x.key)
      /\ \A d \in RowIds : ~row[d].deleted /\ Ahead(w, KeyIn(row, sort, d)) =>
            \E x \in After : x.doc = d /\ x.key = KeyIn(row, sort, d)
  <2>1. \A d \in RowIds : KeyIn(row, sort, d) \in KeysOf(sort) /\ Key(sort, d) = KeyIn(row, sort, d)
    BY <1>2, KeyIsIn, KeyIsKeyIn
  <2>2. \A k \in KeysOf(sort) : Ahead(w, k) <=> w.cursor = NoCursor \/ IsAfter(sort, k, w.cursor)
    BY <1>2, AfterIsBefore DEF Ahead
  <2>3. ASSUME NEW x \in After PROVE x.key = KeyIn(row, sort, x.doc) /\ Ahead(w, x.key)
    <3>1. PICK d \in RowIds : x = [doc |-> d, key |-> Key(sort, d)]
      BY <2>3
    <3>2. x.doc = d /\ x.key = Key(sort, d)
      BY <3>1
    <3> QED
      BY <2>1, <2>2, <2>3, <3>2
  <2>4. ASSUME NEW d \in RowIds, ~row[d].deleted, Ahead(w, KeyIn(row, sort, d))
        PROVE  \E x \in After : x.doc = d /\ x.key = KeyIn(row, sort, d)
    <3> DEFINE x == [doc |-> d, key |-> Key(sort, d)]
    <3>1. x \in Found /\ x.doc = d /\ x.key = KeyIn(row, sort, d)
      BY <2>1, <2>4
    <3>2. x \in After
      BY <2>1, <2>2, <2>4, <3>1
    <3> QED
      BY <3>1, <3>2
  <2> QED
    BY <2>3, <2>4
<1> HIDE DEF After
<1>8. /\ rows \in Seq(After) /\ Ascends(sort, rows)
      /\ \A x \in After : \E i \in DOMAIN rows : rows[i] = x
  BY <1>2, <1>6, SortedIs
<1> DEFINE batch == SubSeq(rows, 1, m)
<1> HIDE DEF rows
<1>9. /\ Len(rows) \in Nat /\ DOMAIN rows = 1 .. Len(rows) /\ \A i \in DOMAIN rows : rows[i] \in After
      /\ m \in Nat /\ m <= Len(rows)
  BY <1>5, <1>8 DEF AtMost
<1>13. m # Len(rows) => Len(rows) > BatchLimit
  BY <1>5, <1>9 DEF AtMost
<1> HIDE DEF m
<1>10. /\ Len(batch) = m /\ DOMAIN batch = 1 .. m /\ \A i \in 1 .. m : batch[i] = rows[i] /\ i \in DOMAIN rows
       /\ batch \in Seq(EntriesOf(sort))
  <2>1. rows \in Seq(EntriesOf(sort))
    BY <1>6, <1>8
  <2>3. batch \in Seq(EntriesOf(sort)) /\ Len(batch) = m /\ \A i \in 1 .. m : batch[i] = rows[i]
    BY <1>9, <2>1
  <2> QED
    BY <1>9, <2>3
<1> HIDE DEF batch
<1>11. CASE IsAccepted(sort, w.cursor)
  <2> DEFINE v == walk'
  <2>1. v = [w EXCEPT !.step = "check", !.batch = batch, !.more = Len(rows) > BatchLimit]
    BY <1>4, <1>11 DEF batch
  <2>2. (Len(rows) > BatchLimit) \in BOOLEAN
    OBVIOUS
  <2> HIDE DEF v
  <2>3. /\ v.sort = w.sort /\ v.step = "check" /\ v.limit = w.limit /\ v.aggregate = w.aggregate
        /\ v.cursor = w.cursor /\ v.batch = batch /\ v.visible = w.visible
        /\ v.result = w.result /\ v.touched = w.touched
    BY <1>1, <2>1 DEF WalkShape, WalksBy
  <2>4. v.more = (Len(rows) > BatchLimit)
    BY <1>1, <2>1 DEF WalkShape, WalksBy
  <2>5. v \in WalksBy(w.sort)
    BY <1>1, <1>10, <2>1, <2>2 DEF WalkShape, WalksBy
  <2>6. Past(v) = Past(w)
    BY <2>3 DEF Past
  <2>7. WalkShape(v) /\ PageFits(v) /\ EndsEarly(v)
    BY <1>1, <1>3, <2>3, <2>5 DEF WalkShape, PageFits, EndsEarly
  <2>8. PastInOrder(v)
    BY <1>1, <2>3, <2>6 DEF PastInOrder
  <2>9. BatchInOrder(v)
    <3>1. Ascends(sort, batch)
      BY <1>8, <1>9, <1>10 DEF Ascends
    <3>2. \A i \in DOMAIN batch : Ahead(w, batch[i].key)
      BY <1>7, <1>9, <1>10
    <3> QED
      BY <2>3, <3>1, <3>2 DEF BatchInOrder, Ahead
  <2>10. AsRead(row, h, v)
    <3>1. \A i \in DOMAIN batch : batch[i].key = KeyIn(row, sort, batch[i].doc)
      BY <1>7, <1>9, <1>10
    <3> QED
      BY <1>1, <2>3, <2>6, <3>1 DEF AsRead
  <2>11. CoversAll(row, h, v)
    <3> SUFFICES ASSUME NEW d \in Stays(row, h, v) PROVE Covers(row, v, d)
      BY DEF CoversAll
    <3>1. d \in Stays(row, h, w) /\ d \in RowIds /\ ~row[d].deleted
      BY <2>3 DEF Stays
    <3>2. Lists(Past(w), d) \/ Ahead(w, KeyIn(row, sort, d))
      BY <1>1, <1>3, <3>1 DEF CoversAll, Covers
    <3>3. CASE Lists(Past(w), d)
      BY <2>3, <2>6, <3>3 DEF Covers
    <3>4. CASE Ahead(w, KeyIn(row, sort, d))
      <4>1. PICK j \in DOMAIN rows : rows[j].doc = d /\ rows[j].key = KeyIn(row, sort, d)
        BY <1>7, <1>8, <3>1, <3>4
      <4>2. CASE j \in 1 .. m
        <5>1. Lists(batch, d)
          BY <1>10, <4>1, <4>2 DEF Lists
        <5> QED
          BY <2>3, <5>1 DEF Covers
      <4>3. CASE j \notin 1 .. m
        <5>1. /\ j \in Nat /\ j <= Len(rows) /\ j > m /\ m # Len(rows)
              /\ \A i \in 1 .. m : i < j
          <6>1. j \in 1 .. Len(rows) /\ Len(rows) \in Nat /\ m \in Nat
            BY <1>9
          <6>2. j > m
            BY <4>3, <6>1
          <6> QED
            BY <6>1, <6>2
        <5>2. Len(rows) > BatchLimit
          BY <1>13, <5>1
        <5>4. ASSUME NEW i \in DOMAIN batch PROVE IsBefore(sort, batch[i].key, KeyIn(row, sort, d))
          <6>1. i \in 1 .. m /\ i < j /\ batch[i] = rows[i] /\ i \in DOMAIN rows
            BY <1>10, <5>1
          <6>2. IsBefore(sort, rows[i].key, rows[j].key)
            BY <1>8, <6>1 DEF Ascends
          <6> QED
            BY <4>1, <6>1, <6>2
        <5>5. v.more
          BY <2>4, <5>2
        <5> QED
          BY <2>3, <3>4, <5>4, <5>5 DEF Covers, Ahead
      <4> QED
        BY <4>2, <4>3
    <3> QED
      BY <3>2, <3>3, <3>4
  <2> QED
    BY <2>7, <2>8, <2>9, <2>10, <2>11 DEF WalkHolds, v
<1>12. CASE ~IsAccepted(sort, w.cursor)
  <2> DEFINE v == walk'
  <2>1. v = [w EXCEPT !.step = "refused"]
    BY <1>4, <1>12
  <2> HIDE DEF v
  <2>2. /\ v.sort = w.sort /\ v.step = "refused" /\ v.limit = w.limit /\ v.aggregate = w.aggregate
        /\ v.cursor = w.cursor /\ v.visible = w.visible
        /\ v.result = w.result /\ v.touched = w.touched /\ v \in WalksBy(w.sort)
    BY <1>1, <2>1 DEF WalkShape, WalksBy
  <2>3. Past(v) = Past(w)
    BY <2>2 DEF Past
  <2>4. \E i \in DOMAIN sort : sort[i].kind \in {"version", "date"}
    <3>1. PICK i \in DOMAIN w.cursor : Written(sort[i].kind) # Wanted(sort[i].kind)
      BY <1>12 DEF IsAccepted
    <3>2. i \in DOMAIN sort
      <4>1. DOMAIN NoCursor = {}
        BY DEF NoCursor
      <4> QED
        BY <1>2, <4>1 DEF KeysOf
    <3>3. sort[i].kind \in {"version", "date"}
      BY <3>1 DEF Written, Wanted
    <3> QED
      BY <3>2, <3>3
  <2>5. WalkShape(v) /\ PageFits(v) /\ EndsEarly(v)
    BY <1>1, <2>2, <2>4 DEF WalkShape, PageFits, EndsEarly
  <2>6. PastInOrder(v) /\ BatchInOrder(v) /\ AsRead(row, h, v)
    BY <1>1, <2>2, <2>3 DEF PastInOrder, BatchInOrder, AsRead
  <2>7. CoversAll(row, h, v)
    BY <2>2 DEF CoversAll, Covers
  <2> QED
    BY <2>5, <2>6, <2>7 DEF WalkHolds, v
<1> QED
  BY <1>11, <1>12

-----------------------------------------------------------------------------
(* A batch comes to its end.                                               *)

(* The end of a batch.                                                     *)
LEMMA EndBatchHolds ==
  ASSUME NEW R, NEW h, WalkHolds(R, h, walk), EndBatch
  PROVE  WalkHolds(R, h, walk')
<1> DEFINE w == walk
           v == walk'
<1>1. /\ WalkShape(w) /\ PastInOrder(w) /\ BatchInOrder(w) /\ AsRead(R, h, w)
      /\ CoversAll(R, h, w) /\ PageFits(w) /\ EndsEarly(w)
  BY DEF WalkHolds
<1>2. /\ w.step = "check" /\ w.batch = <<>>
      /\ v = CASE ~w.more -> Over(w)
               [] w.more /\ w.scanned >= w.scan -> [w EXCEPT !.step = "exceeded"]
               [] OTHER -> [w EXCEPT !.step = "query"]
  BY DEF EndBatch
<1>3. /\ w.visible \in Seq(EntriesOf(w.sort)) /\ w.result \in Seq(EntriesOf(w.sort))
      /\ Past(w) \in Seq(EntriesOf(w.sort)) /\ w.more \in BOOLEAN
  BY <1>1, WalkIs
<1>4. \A d : ~Lists(w.batch, d)
  BY <1>2 DEF Lists
<1> HIDE DEF v
<1>5. CASE ~w.more
  <2>1. v = [w EXCEPT !.step = "done", !.result = w.result \o w.visible, !.visible = <<>>]
    BY <1>2, <1>5 DEF Over
  <2>2. w.result \o w.visible \in Seq(EntriesOf(w.sort)) /\ <<>> \in Seq(EntriesOf(w.sort))
    BY <1>3
  <2>3. /\ v.sort = w.sort /\ v.step = "done" /\ v.limit = w.limit /\ v.aggregate = w.aggregate
        /\ v.cursor = w.cursor /\ v.visible = <<>>
        /\ v.result = w.result \o w.visible /\ v.touched = w.touched /\ v \in WalksBy(w.sort)
    BY <1>1, <2>1, <2>2 DEF WalkShape, WalksBy
  <2>4. Past(v) = Past(w)
    BY <2>2, <2>3 DEF Past
  <2>5. WalkShape(v) /\ PageFits(v) /\ EndsEarly(v)
    BY <1>1, <2>3 DEF WalkShape, PageFits, EndsEarly
  <2>6. PastInOrder(v) /\ BatchInOrder(v) /\ AsRead(R, h, v)
    BY <1>1, <2>3, <2>4 DEF PastInOrder, BatchInOrder, AsRead
  <2>7. CoversAll(R, h, v)
    <3> SUFFICES ASSUME NEW d \in Stays(R, h, v) PROVE Covers(R, v, d)
      BY DEF CoversAll
    <3>1. d \in Stays(R, h, w)
      BY <2>3 DEF Stays
    <3>2. Lists(Past(w), d)
      BY <1>1, <1>2, <1>4, <1>5, <3>1 DEF CoversAll, Covers
    <3> QED
      BY <2>3, <2>4, <3>2 DEF Covers
  <2> QED
    BY <2>5, <2>6, <2>7 DEF WalkHolds, v
<1>6. CASE w.more /\ w.scanned >= w.scan
  <2>1. v = [w EXCEPT !.step = "exceeded"]
    BY <1>2, <1>6
  <2>2. /\ v.sort = w.sort /\ v.step = "exceeded" /\ v.limit = w.limit /\ v.aggregate = w.aggregate
        /\ v.cursor = w.cursor /\ v.visible = w.visible /\ v.scan = w.scan /\ v.scanned = w.scanned
        /\ v.result = w.result /\ v.touched = w.touched /\ v \in WalksBy(w.sort)
    BY <1>1, <2>1 DEF WalkShape, WalksBy
  <2>3. Past(v) = Past(w)
    BY <2>2 DEF Past
  <2>4. WalkShape(v) /\ PageFits(v) /\ EndsEarly(v)
    BY <1>1, <1>6, <2>2 DEF WalkShape, PageFits, EndsEarly
  <2>5. PastInOrder(v) /\ BatchInOrder(v) /\ AsRead(R, h, v)
    BY <1>1, <2>2, <2>3 DEF PastInOrder, BatchInOrder, AsRead
  <2>6. CoversAll(R, h, v)
    BY <2>2 DEF CoversAll, Covers
  <2> QED
    BY <2>4, <2>5, <2>6 DEF WalkHolds, v
<1>7. CASE w.more /\ ~(w.scanned >= w.scan)
  <2>1. v = [w EXCEPT !.step = "query"]
    BY <1>2, <1>7
  <2>2. /\ v.sort = w.sort /\ v.step = "query" /\ v.limit = w.limit /\ v.aggregate = w.aggregate
        /\ v.cursor = w.cursor /\ v.visible = w.visible
        /\ v.result = w.result /\ v.touched = w.touched /\ v \in WalksBy(w.sort)
    BY <1>1, <2>1 DEF WalkShape, WalksBy
  <2>3. Past(v) = Past(w)
    BY <2>2 DEF Past
  <2>4. WalkShape(v) /\ PageFits(v) /\ EndsEarly(v)
    BY <1>1, <1>2, <2>2 DEF WalkShape, PageFits, EndsEarly
  <2>5. PastInOrder(v) /\ BatchInOrder(v) /\ AsRead(R, h, v)
    BY <1>1, <2>2, <2>3 DEF PastInOrder, BatchInOrder, AsRead
  <2>6. CoversAll(R, h, v)
    <3> SUFFICES ASSUME NEW d \in Stays(R, h, v) PROVE Covers(R, v, d)
      BY DEF CoversAll
    <3>1. d \in Stays(R, h, w)
      BY <2>2 DEF Stays
    <3>2. Lists(Past(w), d) \/ Ahead(w, KeyIn(R, w.sort, d))
      BY <1>1, <1>2, <1>4, <3>1 DEF CoversAll, Covers
    <3> QED
      BY <2>2, <2>3, <3>2 DEF Covers, Ahead
  <2> QED
    BY <2>4, <2>5, <2>6 DEF WalkHolds, v
<1> QED
  BY <1>3, <1>5, <1>6, <1>7

-----------------------------------------------------------------------------
(* A row of a batch is checked.                                            *)

(* A row is checked, before a full page is put together or a limit met.    *)
Checked(h, w) ==
  [w EXCEPT !.batch = Tail(@), !.scanned = @ + 1, !.cursor = w.batch[1].key,
            !.visible = IF w.batch[1].doc \in h THEN @ ELSE Append(@, w.batch[1])]

(* Whether or not the row may be read, the walk goes on after it.          *)
LEMMA CheckedIs ==
  ASSUME NEW R, NEW h, NEW w, WalkHolds(R, h, w), w.step = "check", w.batch # <<>>
  PROVE  /\ WalkShape(Checked(h, w)) /\ PastInOrder(Checked(h, w)) /\ BatchInOrder(Checked(h, w))
         /\ AsRead(R, h, Checked(h, w)) /\ CoversAll(R, h, Checked(h, w)) /\ EndsEarly(Checked(h, w))
         /\ Checked(h, w).step = "check" /\ Checked(h, w).sort = w.sort
         /\ Checked(h, w).aggregate = w.aggregate /\ Checked(h, w).limit = w.limit
         /\ Checked(h, w).scan = w.scan /\ Checked(h, w).result = w.result
         /\ Checked(h, w).touched = w.touched
         /\ Checked(h, w).visible = IF w.batch[1].doc \in h THEN w.visible ELSE Append(w.visible, w.batch[1])
<1> DEFINE v == Checked(h, w)
           x == w.batch[1]
           visible == IF x.doc \in h THEN w.visible ELSE Append(w.visible, x)
<1>1. /\ WalkShape(w) /\ PastInOrder(w) /\ BatchInOrder(w) /\ AsRead(R, h, w)
      /\ CoversAll(R, h, w) /\ PageFits(w) /\ EndsEarly(w)
  BY DEF WalkHolds
<1>2. /\ IsSort(w.sort) /\ w.scanned \in Nat
      /\ w.cursor = NoCursor \/ w.cursor \in KeysOf(w.sort)
      /\ w.batch \in Seq(EntriesOf(w.sort)) /\ w.visible \in Seq(EntriesOf(w.sort))
      /\ w.result \in Seq(EntriesOf(w.sort)) /\ Past(w) \in Seq(EntriesOf(w.sort))
      /\ Len(Past(w)) = Len(w.result) + Len(w.visible)
  BY <1>1, WalkIs
<1>3. /\ Ascends(w.sort, w.batch) /\ \A i \in DOMAIN w.batch : Ahead(w, w.batch[i].key)
  BY <1>1 DEF BatchInOrder
<1>4. /\ Ascends(w.sort, Tail(w.batch)) /\ Tail(w.batch) \in Seq(EntriesOf(w.sort))
      /\ x \in EntriesOf(w.sort) /\ 1 \in DOMAIN w.batch
      /\ \A i \in DOMAIN Tail(w.batch) : /\ i + 1 \in DOMAIN w.batch /\ Tail(w.batch)[i] = w.batch[i + 1]
                                         /\ IsBefore(w.sort, x.key, Tail(w.batch)[i].key)
      /\ \A i \in DOMAIN w.batch : i # 1 => i - 1 \in DOMAIN Tail(w.batch)
  BY <1>2, <1>3, TailAscends
<1>5. x.doc \in RowIds /\ x.key \in KeysOf(w.sort) /\ x.key # NoCursor /\ Ahead(w, x.key)
  BY <1>2, <1>3, <1>4, EntryIs, CursorIs
<1> HIDE DEF x
<1>6. visible \in Seq(EntriesOf(w.sort))
  BY <1>2, <1>4, AppendIs
<1>7. v = [w EXCEPT !.batch = Tail(w.batch), !.scanned = w.scanned + 1, !.cursor = x.key, !.visible = visible]
  BY <1>1 DEF Checked, x, WalkShape, WalksBy
<1> HIDE DEF v, visible
<1>8. /\ v.sort = w.sort /\ v.step = "check" /\ v.limit = w.limit /\ v.scan = w.scan
      /\ v.aggregate = w.aggregate /\ v.cursor = x.key /\ v.batch = Tail(w.batch)
      /\ v.visible = visible /\ v.result = w.result /\ v.touched = w.touched
  BY <1>1, <1>7 DEF WalkShape, WalksBy
<1>9. v.more = w.more
  BY <1>1, <1>7 DEF WalkShape, WalksBy
<1>10. v \in WalksBy(w.sort)
  <2>1. /\ w \in WalksBy(w.sort) /\ Tail(w.batch) \in Seq(EntriesOf(w.sort)) /\ w.scanned + 1 \in Nat
        /\ x.key \in {NoCursor} \cup KeysOf(w.sort) /\ visible \in Seq(EntriesOf(w.sort))
    BY <1>1, <1>2, <1>4, <1>5, <1>6 DEF WalkShape
  <2> QED
    BY <1>7, <2>1 DEF WalksBy
<1>11. \A i \in DOMAIN Past(w) : IsBefore(w.sort, Past(w)[i].key, x.key)
  <2> SUFFICES ASSUME NEW i \in DOMAIN Past(w) PROVE IsBefore(w.sort, Past(w)[i].key, x.key)
    OBVIOUS
  <2>1. /\ w.cursor # NoCursor
        /\ Past(w)[i].key = w.cursor \/ IsBefore(w.sort, Past(w)[i].key, w.cursor)
    BY <1>1 DEF PastInOrder
  <2>2. IsBefore(w.sort, w.cursor, x.key) /\ w.cursor \in KeysOf(w.sort)
    BY <1>2, <1>5, <2>1 DEF Ahead
  <2>3. Past(w)[i].key \in KeysOf(w.sort)
    BY <1>2, ListIs
  <2> QED
    BY <1>2, <1>5, <2>1, <2>2, <2>3, BeforeIsOrder
<1>12. Past(v) = IF x.doc \in h THEN Past(w) ELSE Append(Past(w), x)
  <2>1. Past(v) = w.result \o visible
    BY <1>8 DEF Past
  <2>2. w.result \o Append(w.visible, x) = Append(w.result \o w.visible, x)
    <3> DEFINE E == EntriesOf(w.sort)
    <3>1. w.result \in Seq(E) /\ w.visible \in Seq(E) /\ x \in E
      BY <1>2, <1>4
    <3> DEFINE r == w.result
               s == w.visible
    <3> HIDE DEF E, r, s
    <3>2. r \in Seq(E) /\ s \in Seq(E)
      BY <3>1 DEF r, s
    <3>3. r \o Append(s, x) = Append(r \o s, x)
      BY <3>1, <3>2, ConcatAppend
    <3> QED
      BY <3>3 DEF r, s
  <2> QED
    BY <2>1, <2>2 DEF visible, Past
<1>13. /\ Ascends(w.sort, Past(v)) /\ Past(v) \in Seq(EntriesOf(w.sort))
       /\ \A i \in DOMAIN Past(v) :
             (i \in DOMAIN Past(w) /\ Past(v)[i] = Past(w)[i]) \/ (Past(v)[i] = x /\ x.doc \notin h)
       /\ \A d : Lists(Past(w), d) => Lists(Past(v), d)
       /\ x.doc \notin h => Lists(Past(v), x.doc)
  <2>1. CASE x.doc \in h
    BY <1>1, <1>2, <1>12, <2>1 DEF PastInOrder
  <2>2. CASE x.doc \notin h
    <3> DEFINE s == Past(w)
               t == Append(s, x)
    <3>1. /\ Len(s) \in Nat /\ DOMAIN s = 1 .. Len(s) /\ DOMAIN t = 1 .. (Len(s) + 1)
          /\ t[Len(s) + 1] = x /\ (\A i \in 1 .. Len(s) : t[i] = s[i]) /\ t \in Seq(EntriesOf(w.sort))
      <4> DEFINE E == EntriesOf(w.sort)
      <4>1. s \in Seq(E) /\ x \in E
        BY <1>2, <1>4
      <4> HIDE DEF E, s
      <4>2. /\ Len(s) \in Nat /\ DOMAIN s = 1 .. Len(s) /\ DOMAIN Append(s, x) = 1 .. (Len(s) + 1)
            /\ Append(s, x)[Len(s) + 1] = x /\ (\A i \in 1 .. Len(s) : Append(s, x)[i] = s[i])
            /\ Append(s, x) \in Seq(E)
        BY <4>1, AppendIs
      <4> QED
        BY <4>2 DEF E
    <3>2. Ascends(w.sort, t)
      BY <1>1, <1>2, <1>4, <1>11, AppendAscends DEF PastInOrder
    <3>3. Past(v) = t
      BY <1>12, <2>2
    <3> HIDE DEF s, t
    <3>4. \A i \in DOMAIN t : (i \in DOMAIN s /\ t[i] = s[i]) \/ t[i] = x
      BY <3>1
    <3>5. \A d : Lists(s, d) => Lists(t, d)
      BY <3>1 DEF Lists
    <3>6. Lists(t, x.doc)
      <4>1. Len(s) + 1 \in DOMAIN t
        BY <3>1
      <4> QED
        BY <3>1, <4>1 DEF Lists
    <3> QED
      BY <2>2, <3>1, <3>2, <3>3, <3>4, <3>5, <3>6 DEF s
  <2> QED
    BY <2>1, <2>2
<1>14. WalkShape(v) /\ EndsEarly(v)
  BY <1>1, <1>8, <1>10 DEF WalkShape, EndsEarly
<1>15. PastInOrder(v)
  BY <1>5, <1>8, <1>11, <1>13 DEF PastInOrder
<1>16. BatchInOrder(v)
  BY <1>4, <1>8 DEF BatchInOrder, Ahead
<1>17. AsRead(R, h, v)
  <2>1. x.doc \notin w.touched => x.key = KeyIn(R, w.sort, x.doc)
    BY <1>1, <1>4 DEF AsRead, x
  <2>2. ASSUME NEW i \in DOMAIN Past(v), Past(v)[i].doc \notin w.touched
        PROVE  Past(v)[i].key = KeyIn(R, w.sort, Past(v)[i].doc) /\ Past(v)[i].doc \notin h
    <3>1. CASE i \in DOMAIN Past(w) /\ Past(v)[i] = Past(w)[i]
      BY <1>1, <2>2, <3>1 DEF AsRead
    <3>2. CASE Past(v)[i] = x /\ x.doc \notin h
      BY <2>1, <2>2, <3>2
    <3> QED
      BY <1>13, <3>1, <3>2
  <2>3. ASSUME NEW i \in DOMAIN Tail(w.batch), Tail(w.batch)[i].doc \notin w.touched
        PROVE  Tail(w.batch)[i].key = KeyIn(R, w.sort, Tail(w.batch)[i].doc)
    <3>1. i + 1 \in DOMAIN w.batch /\ Tail(w.batch)[i] = w.batch[i + 1]
      BY <1>4
    <3> QED
      BY <1>1, <2>3, <3>1 DEF AsRead
  <2> QED
    BY <1>8, <2>2, <2>3 DEF AsRead
<1>18. CoversAll(R, h, v)
  <2> SUFFICES ASSUME NEW d \in Stays(R, h, v) PROVE Covers(R, v, d)
    BY DEF CoversAll
  <2>1. d \in Stays(R, h, w) /\ d \notin h /\ d \notin w.touched
    BY <1>8 DEF Stays
  <2>2. \/ Lists(Past(w), d) \/ Lists(w.batch, d)
        \/ /\ w.more /\ Ahead(w, KeyIn(R, w.sort, d))
           /\ \A i \in DOMAIN w.batch : IsBefore(w.sort, w.batch[i].key, KeyIn(R, w.sort, d))
    BY <1>1, <2>1 DEF CoversAll, Covers
  <2>3. CASE Lists(Past(w), d)
    <3>1. Lists(Past(v), d)
      BY <1>13, <2>3
    <3> QED
      BY <1>8, <3>1 DEF Covers
  <2>4. CASE Lists(w.batch, d)
    <3>1. PICK i \in DOMAIN w.batch : w.batch[i].doc = d
      BY <2>4 DEF Lists
    <3>2. CASE i = 1
      <4>1. Lists(Past(v), d)
        BY <1>13, <2>1, <3>1, <3>2 DEF x
      <4> QED
        BY <1>8, <4>1 DEF Covers
    <3>3. CASE i # 1
      <4>1. i - 1 \in DOMAIN Tail(w.batch) /\ i \in Int
        BY <1>2, <1>4, <3>1, <3>3
      <4>2. Tail(w.batch)[i - 1] = w.batch[(i - 1) + 1] /\ (i - 1) + 1 = i
        BY <1>4, <4>1
      <4>3. Lists(Tail(w.batch), d)
        BY <3>1, <4>1, <4>2 DEF Lists
      <4> QED
        BY <1>8, <4>3 DEF Covers
    <3> QED
      BY <3>2, <3>3
  <2>5. CASE /\ w.more /\ Ahead(w, KeyIn(R, w.sort, d))
             /\ \A i \in DOMAIN w.batch : IsBefore(w.sort, w.batch[i].key, KeyIn(R, w.sort, d))
    <3>1. IsBefore(w.sort, x.key, KeyIn(R, w.sort, d))
      BY <1>4, <2>5 DEF x
    <3>2. \A i \in DOMAIN Tail(w.batch) : IsBefore(w.sort, Tail(w.batch)[i].key, KeyIn(R, w.sort, d))
      BY <1>4, <2>5
    <3>3. v.more
      BY <1>9, <2>5
    <3> QED
      BY <1>8, <3>1, <3>2, <3>3 DEF Covers, Ahead
  <2> QED
    BY <2>2, <2>3, <2>4, <2>5
<1> QED
  BY <1>8, <1>14, <1>15, <1>16, <1>17, <1>18 DEF v, visible, x

-----------------------------------------------------------------------------
(* A page is full.                                                         *)

(* A page is full: it is what was visible before the last row.             *)
LEMMA PageHolds ==
  ASSUME NEW R \in ContentTables, NEW h, NEW w, NEW u, WalkHolds(R, h, w), w.step = "check", w.batch # <<>>,
         u = Checked(h, w), ~u.aggregate, Len(u.visible) > u.limit
  PROVE  WalkHolds(R, h, [u EXCEPT !.step = "page", !.visible = <<>>, !.batch = <<>>,
                                   !.cursor = u.visible[u.limit].key,
                                   !.result = @ \o SubSeq(u.visible, 1, u.limit)])
<1> DEFINE v == [u EXCEPT !.step = "page", !.visible = <<>>, !.batch = <<>>,
                          !.cursor = u.visible[u.limit].key,
                          !.result = @ \o SubSeq(u.visible, 1, u.limit)]
<1>1. /\ WalkShape(w) /\ PastInOrder(w) /\ BatchInOrder(w) /\ AsRead(R, h, w)
      /\ CoversAll(R, h, w) /\ PageFits(w)
  BY DEF WalkHolds
<1>2. /\ IsSort(w.sort) /\ w.limit \in Nat
      /\ w.cursor = NoCursor \/ w.cursor \in KeysOf(w.sort)
      /\ w.batch \in Seq(EntriesOf(w.sort)) /\ w.visible \in Seq(EntriesOf(w.sort))
      /\ w.result \in Seq(EntriesOf(w.sort)) /\ Past(w) \in Seq(EntriesOf(w.sort))
      /\ Len(Past(w)) = Len(w.result) + Len(w.visible)
      /\ ~w.aggregate => w.limit >= 1
  BY <1>1, WalkIs
<1>3. /\ WalkShape(u) /\ EndsEarly(u) /\ u.sort = w.sort /\ u.aggregate = w.aggregate /\ u.limit = w.limit
      /\ u.result = w.result /\ u.touched = w.touched
      /\ u.visible = IF w.batch[1].doc \in h THEN w.visible ELSE Append(w.visible, w.batch[1])
  BY CheckedIs
<1>4. Len(w.visible) <= w.limit /\ w.limit >= 1
  BY <1>1, <1>2, <1>3 DEF PageFits
<1>5. w.batch[1] \in EntriesOf(w.sort)
  BY <1>2, ListIs, TailAscends, <1>1 DEF BatchInOrder
<1>6. u.visible = Append(w.visible, w.batch[1])
  BY <1>2, <1>3, <1>4
<1>7. /\ Len(w.visible) = w.limit /\ SubSeq(u.visible, 1, u.limit) = w.visible
      /\ u.visible[u.limit] = w.visible[w.limit]
  <2> DEFINE s == w.visible
             x == w.batch[1]
             E == EntriesOf(w.sort)
             t == Append(s, x)
  <2>1. s \in Seq(E) /\ x \in E
    BY <1>2, <1>5
  <2> HIDE DEF s, x, E
  <2>2. /\ Len(s) \in Nat /\ (\A i \in 1 .. Len(s) : t[i] = s[i]) /\ t \in Seq(E) /\ Len(t) = Len(s) + 1
    BY <2>1, AppendIs
  <2> HIDE DEF t
  <2>3. Len(s) = w.limit
    BY <1>2, <1>3, <1>4, <1>6, <2>2 DEF s, t, x
  <2>4. SubSeq(t, 1, Len(s)) = s
    <3>1. SubSeq(t, 1, Len(s)) \in Seq(E) /\ Len(SubSeq(t, 1, Len(s))) = Len(s)
      BY <2>2
    <3>2. \A i \in 1 .. Len(s) : SubSeq(t, 1, Len(s))[i] = s[i]
      BY <2>2
    <3> QED
      BY <2>1, <3>1, <3>2, SeqEqual
  <2>5. t[w.limit] = s[w.limit]
    <3>1. w.limit \in 1 .. Len(s)
      BY <1>2, <1>4, <2>3
    <3> QED
      BY <2>2, <3>1
  <2> QED
    BY <1>3, <1>6, <2>3, <2>4, <2>5 DEF s, t, x
<1>8. /\ w.visible[w.limit] \in EntriesOf(w.sort) /\ w.visible[w.limit].key \in KeysOf(w.sort)
      /\ w.visible[w.limit].key # NoCursor
  <2>1. w.limit \in DOMAIN w.visible
    BY <1>2, <1>4, <1>7
  <2> QED
    BY <1>2, <2>1, ListIs, CursorIs
<1>9. Past(w)[Len(Past(w))] = w.visible[w.limit] /\ Len(Past(w)) \in DOMAIN Past(w)
  <2> DEFINE E == EntriesOf(w.sort)
             r == w.result
             s == w.visible
  <2>1. r \in Seq(E) /\ s \in Seq(E) /\ Len(s) >= 1 /\ Len(s) = w.limit /\ Past(w) = r \o s
    BY <1>2, <1>4, <1>7 DEF Past
  <2> HIDE DEF E, r, s
  <2>2. (r \o s)[Len(r \o s)] = s[Len(s)] /\ Len(r \o s) \in DOMAIN (r \o s)
    BY <2>1, LastOfConcat
  <2> QED
    BY <2>1, <2>2 DEF s
<1> DEFINE c == w.visible[w.limit].key
<1>10. v = [u EXCEPT !.step = "page", !.visible = <<>>, !.batch = <<>>, !.cursor = c,
                     !.result = w.result \o w.visible]
  BY <1>3, <1>7
<1> HIDE DEF c, v
<1>11. /\ v.sort = w.sort /\ v.step = "page" /\ v.limit = w.limit
       /\ v.aggregate = w.aggregate /\ v.cursor = c
       /\ v.visible = <<>> /\ v.result = w.result \o w.visible /\ v.touched = w.touched
  BY <1>3, <1>10 DEF WalkShape, WalksBy
<1>12. v \in WalksBy(w.sort)
  <2>1. /\ u \in WalksBy(w.sort) /\ c \in {NoCursor} \cup KeysOf(w.sort)
        /\ w.result \o w.visible \in Seq(EntriesOf(w.sort)) /\ <<>> \in Seq(EntriesOf(w.sort))
    BY <1>2, <1>3, <1>8 DEF c, WalkShape
  <2> QED
    BY <1>10, <2>1 DEF WalksBy
<1>13. Past(v) = Past(w)
  BY <1>2, <1>11 DEF Past
<1>14. c \in KeysOf(w.sort) /\ c # NoCursor /\ Past(w)[Len(Past(w))].key = c
  BY <1>8, <1>9 DEF c
<1>15. \A i \in DOMAIN Past(w) : Past(w)[i].key = c \/ IsBefore(w.sort, Past(w)[i].key, c)
  <2> SUFFICES ASSUME NEW i \in DOMAIN Past(w) PROVE Past(w)[i].key = c \/ IsBefore(w.sort, Past(w)[i].key, c)
    OBVIOUS
  <2>1. i = Len(Past(w)) \/ i < Len(Past(w))
    <3>1. DOMAIN Past(w) = 1 .. Len(Past(w)) /\ Len(Past(w)) \in Nat
      BY <1>2, ListIs
    <3>2. i \in 1 .. Len(Past(w))
      BY <3>1
    <3> QED
      BY <3>1, <3>2
  <2> QED
    BY <1>1, <1>9, <1>14, <2>1 DEF PastInOrder, Ascends
<1>16. /\ w.cursor # NoCursor /\ w.cursor \in KeysOf(w.sort)
       /\ c = w.cursor \/ IsBefore(w.sort, c, w.cursor)
  BY <1>1, <1>2, <1>9, <1>14 DEF PastInOrder
<1>17. \A k \in KeysOf(w.sort) : Ahead(w, k) => IsBefore(w.sort, c, k)
  BY <1>2, <1>14, <1>16, BeforeIsOrder DEF Ahead
<1>18. WalkShape(v) /\ PageFits(v) /\ EndsEarly(v)
  <2>1. Len(<<>>) = 0
    OBVIOUS
  <2> QED
    BY <1>2, <1>11, <1>12, <2>1 DEF WalkShape, PageFits, EndsEarly
<1>19. PastInOrder(v) /\ BatchInOrder(v)
  BY <1>1, <1>11, <1>13, <1>14, <1>15 DEF PastInOrder, BatchInOrder
<1>20. AsRead(R, h, v)
  BY <1>1, <1>11, <1>13 DEF AsRead
<1>21. CoversAll(R, h, v)
  <2> SUFFICES ASSUME NEW d \in Stays(R, h, v) PROVE Covers(R, v, d)
    BY DEF CoversAll
  <2>1. d \in Stays(R, h, w) /\ d \notin w.touched
    BY <1>11 DEF Stays
  <2>2. \/ Lists(Past(w), d) \/ Lists(w.batch, d)
        \/ /\ w.more /\ Ahead(w, KeyIn(R, w.sort, d))
           /\ \A i \in DOMAIN w.batch : IsBefore(w.sort, w.batch[i].key, KeyIn(R, w.sort, d))
    BY <1>1, <2>1 DEF CoversAll, Covers
  <2>3. CASE Lists(Past(w), d)
    BY <1>11, <1>13, <2>3 DEF Covers
  <2>4. CASE Lists(w.batch, d)
    <3>1. PICK i \in DOMAIN w.batch : w.batch[i].doc = d
      BY <2>4 DEF Lists
    <3>2. /\ w.batch[i].key = KeyIn(R, w.sort, d) /\ Ahead(w, w.batch[i].key)
          /\ w.batch[i].key \in KeysOf(w.sort)
      BY <1>1, <1>2, <2>1, <3>1, ListIs DEF AsRead, BatchInOrder
    <3>3. IsBefore(w.sort, c, KeyIn(R, w.sort, d))
      BY <1>17, <3>2
    <3> QED
      BY <1>11, <3>3 DEF Covers, Ahead
  <2>5. CASE /\ w.more /\ Ahead(w, KeyIn(R, w.sort, d))
             /\ \A i \in DOMAIN w.batch : IsBefore(w.sort, w.batch[i].key, KeyIn(R, w.sort, d))
    <3>1. KeyIn(R, w.sort, d) \in KeysOf(w.sort)
      BY <1>2, <2>1, KeyIsIn DEF Stays
    <3>2. IsBefore(w.sort, c, KeyIn(R, w.sort, d))
      BY <1>17, <2>5, <3>1
    <3> QED
      BY <1>11, <3>2 DEF Covers, Ahead
  <2> QED
    BY <2>2, <2>3, <2>4, <2>5
<1> QED
  BY <1>18, <1>19, <1>20, <1>21 DEF WalkHolds, v

(* The row of a batch that is next.                                        *)
LEMMA CheckRowHolds ==
  ASSUME row \in ContentTables, WalkHolds(row, hidden, walk), CheckRow
  PROVE  WalkHolds(row, hidden, walk')
<1> DEFINE u == Checked(hidden, walk)
<1>1. WalkShape(walk) /\ walk.step = "check" /\ walk.batch # <<>>
  BY DEF WalkHolds, CheckRow
<1>2. walk.batch \in Seq(EntriesOf(walk.sort)) /\ Head(walk.batch) = walk.batch[1]
  <2>1. walk.batch \in Seq(EntriesOf(walk.sort))
    BY <1>1, WalkIs
  <2>2. Ascends(walk.sort, walk.batch)
    BY <1>1 DEF WalkHolds, BatchInOrder
  <2> QED
    BY <1>1, <2>1, <2>2, TailAscends
<1>3. walk' = CASE ~u.aggregate /\ Len(u.visible) > u.limit ->
                     [u EXCEPT !.step = "page", !.visible = <<>>, !.batch = <<>>,
                               !.cursor = u.visible[u.limit].key,
                               !.result = @ \o SubSeq(u.visible, 1, u.limit)]
                [] u.aggregate /\ u.scanned >= walk.scan -> [u EXCEPT !.step = "truncated"]
                [] OTHER -> u
  BY <1>2 DEF CheckRow, Checked
<1>4. /\ WalkShape(u) /\ PastInOrder(u) /\ BatchInOrder(u) /\ AsRead(row, hidden, u)
      /\ CoversAll(row, hidden, u) /\ EndsEarly(u) /\ u.step = "check" /\ u.scan = walk.scan
  BY <1>1, CheckedIs
<1>5. u.aggregate \in BOOLEAN
  BY <1>4, WalkIs
<1> DEFINE v == walk'
<1>6. CASE ~u.aggregate /\ Len(u.visible) > u.limit
  <2>1. walk' = [u EXCEPT !.step = "page", !.visible = <<>>, !.batch = <<>>,
                          !.cursor = u.visible[u.limit].key,
                          !.result = @ \o SubSeq(u.visible, 1, u.limit)]
    BY <1>3, <1>5, <1>6
  <2> QED
    BY <1>1, <1>6, <2>1, PageHolds
<1> HIDE DEF u, v
<1>7. CASE u.aggregate /\ u.scanned >= walk.scan
  <2>1. v = [u EXCEPT !.step = "truncated"]
    BY <1>3, <1>7 DEF v
  <2>2. /\ v.sort = u.sort /\ v.step = "truncated" /\ v.limit = u.limit /\ v.aggregate = u.aggregate
        /\ v.cursor = u.cursor /\ v.visible = u.visible /\ v.scan = u.scan /\ v.scanned = u.scanned
        /\ v.result = u.result /\ v.touched = u.touched /\ v \in WalksBy(u.sort)
    BY <1>4, <2>1 DEF WalkShape, WalksBy
  <2>3. Past(v) = Past(u)
    BY <2>2 DEF Past
  <2>4. WalkShape(v) /\ PageFits(v) /\ EndsEarly(v)
    BY <1>4, <1>7, <2>2 DEF WalkShape, PageFits, EndsEarly
  <2>5. PastInOrder(v) /\ BatchInOrder(v) /\ AsRead(row, hidden, v)
    BY <1>4, <2>2, <2>3 DEF PastInOrder, BatchInOrder, AsRead
  <2>6. CoversAll(row, hidden, v)
    BY <2>2 DEF CoversAll, Covers
  <2> QED
    BY <2>4, <2>5, <2>6 DEF WalkHolds, v
<1>8. CASE ~(~u.aggregate /\ Len(u.visible) > u.limit) /\ ~(u.aggregate /\ u.scanned >= walk.scan)
  <2>1. v = u
    BY <1>3, <1>8 DEF v
  <2>2. Len(u.visible) \in Nat /\ u.limit \in Nat
    <3>1. u.visible \in Seq(EntriesOf(u.sort)) /\ u.limit \in Nat
      BY <1>4, WalkIs
    <3>2. Len(u.visible) \in Nat
      BY <3>1, ListIs
    <3> QED
      BY <3>1, <3>2
  <2>3. PageFits(u)
    BY <1>5, <1>8, <2>2 DEF PageFits
  <2> QED
    BY <1>4, <2>1, <2>3 DEF WalkHolds, v
<1> QED
  BY <1>6, <1>7, <1>8

-----------------------------------------------------------------------------
(* Every step, and the theorems.                                           *)

(* Before anybody walks.                                                   *)
LEMMA QueryInvInit == QueryInit => QueryInv
<1> SUFFICES ASSUME QueryInit PROVE QueryInv
  OBVIOUS
<1>1. NoRow \in ContentRows
  BY DEF NoRow, ContentRows, Cells
<1>2. \A v \in Values \cup {Null} : [data |-> v, updated |-> 0, deleted |-> FALSE] \in ContentRows
  BY QueryAssumption DEF ContentRows, Cells
<1>3. row \in ContentTables
  BY <1>1, <1>2 DEF QueryInit, ContentTables
<1> QED
  BY <1>3 DEF QueryInit, QueryInv

(* The permissions and the documents change around a walk.                 *)
LEMMA TouchInv ==
  ASSUME QueryInv, NEW d \in RowIds, Touch(d), row' \in ContentTables, hidden' \subseteq RowIds,
         \A e \in RowIds : e # d => row'[e] = row[e] /\ (e \in hidden' <=> e \in hidden)
  PROVE  QueryInv'
<1>1. writes' \in Nat
  BY DEF QueryInv, Touch
<1>2. walk # NoWalk /\ walk.step \in {"query", "check", "page"}
  BY DEF Touch, NoWalk
<1>3. WalkHolds(row, hidden, walk)
  BY <1>2 DEF QueryInv
<1>4. WalkHolds(row', hidden', walk')
  BY <1>2, <1>3, TouchKeeps DEF Touch
<1> QED
  BY <1>1, <1>4 DEF QueryInv

(* Whoever takes a step.                                                   *)
LEMMA QueryInvNext == QueryInv /\ [QueryNext]_qvars => QueryInv'
<1> SUFFICES ASSUME QueryInv, [QueryNext]_qvars PROVE QueryInv'
  OBVIOUS
<1> USE DEF QueryInv
<1>1. ASSUME NEW scan \in ScanLimits, Start(DefaultSort, MaxBatch, scan, TRUE) PROVE QueryInv'
  <2>1. DefaultSort \in Seq(SortItems)
    <3>1. [by |-> "updated", kind |-> "datetime", desc |-> TRUE] \in SortItems
      BY DEF SortItems, Kinds
    <3> QED
      BY <3>1 DEF DefaultSort
  <2>2. MaxBatch \in Nat /\ scan \in Nat
    BY QueryAssumption
  <2>3. WalkHolds(row, hidden, walk')
    BY <1>1, <2>1, <2>2, StartHolds DEF Start
  <2> QED
    BY <1>1, <2>3 DEF Start
<1>2. ASSUME NEW scan \in ScanLimits, NEW sort \in Sorts, NEW limit \in Limits, Start(sort, limit, scan, FALSE)
      PROVE  QueryInv'
  <2>1. sort \in Seq(SortItems) /\ limit \in Nat /\ limit >= 1 /\ scan \in Nat
    BY QueryAssumption
  <2>2. WalkHolds(row, hidden, walk')
    BY <1>2, <2>1, StartHolds DEF Start
  <2> QED
    BY <1>2, <2>2 DEF Start
<1>3. ASSUME QueryBatch \/ CheckRow \/ EndBatch \/ NextPage PROVE QueryInv'
  <2>1. UNCHANGED <<row, hidden, writes>> /\ walk # NoWalk
    BY <1>3 DEF QueryBatch, CheckRow, EndBatch, NextPage, NoWalk
  <2>2. WalkHolds(row, hidden, walk)
    BY <2>1
  <2>3. WalkHolds(row, hidden, walk')
    <3>1. CASE NextPage
      BY <2>2, <3>1, NextPageHolds DEF NextPage
    <3> QED
      BY <1>3, <2>2, <3>1, BatchHolds, CheckRowHolds, EndBatchHolds
  <2> QED
    BY <2>1, <2>3
<1>4. ASSUME NEW d \in RowIds, NEW v \in Values \cup {Null}, Save(d, v) PROVE QueryInv'
  <2>1. [data |-> v, updated |-> writes + 1, deleted |-> FALSE] \in ContentRows
    BY QueryAssumption DEF ContentRows, Cells
  <2>2. row' \in ContentTables /\ \A e \in RowIds : e # d => row'[e] = row[e]
    BY <1>4, <2>1 DEF Save, ContentTables
  <2> QED
    BY <1>4, <2>2, TouchInv DEF Save
<1>5. ASSUME NEW d \in RowIds, NEW flag \in BOOLEAN, SetDeleted(d, flag) PROVE QueryInv'
  <2>1. row[d] \in ContentRows
    BY DEF ContentTables
  <2>2. row' = [row EXCEPT ![d] = [row[d] EXCEPT !.deleted = flag, !.updated = writes + 1]]
    BY <1>5, <2>1 DEF SetDeleted, ContentTables, ContentRows
  <2>3. [row[d] EXCEPT !.deleted = flag, !.updated = writes + 1] \in ContentRows
    <3> DEFINE q == [row[d] EXCEPT !.deleted = flag]
    <3>1. q \in ContentRows
      BY <2>1 DEF ContentRows
    <3> HIDE DEF q
    <3>2. [q EXCEPT !.updated = writes + 1] \in ContentRows
      BY <3>1 DEF ContentRows
    <3> QED
      BY <3>2 DEF q
  <2>4. row' \in ContentTables /\ \A e \in RowIds : e # d => row'[e] = row[e]
    BY <2>2, <2>3 DEF ContentTables
  <2> QED
    BY <1>5, <2>4, TouchInv DEF SetDeleted
<1>6. ASSUME NEW d \in RowIds, NEW flag \in BOOLEAN, SetHidden(d, flag) PROVE QueryInv'
  <2>1. hidden' \subseteq RowIds /\ \A e \in RowIds : e # d => (e \in hidden' <=> e \in hidden)
    BY <1>6 DEF SetHidden
  <2> QED
    BY <1>6, <2>1, TouchInv DEF SetHidden
<1>7. ASSUME UNCHANGED qvars PROVE QueryInv'
  BY <1>7 DEF qvars
<1> QED
  BY <1>1, <1>2, <1>3, <1>4, <1>5, <1>6, <1>7 DEF QueryNext

(* Rows are typed, and while a client walks, what it has come past is in   *)
(* order and as read, and every document that stays as it is lies among    *)
(* it, in the batch, or ahead of the cursor.                               *)
THEOREM QueryInvHolds == QuerySpec => []QueryInv
<1> QED
  BY QueryInvInit, QueryInvNext, PTL DEF QuerySpec

(* However many rows, values, sorts and limits there are: no walk misses a *)
(* document that stays as it is, or comes past one twice.                  *)
THEOREM WalksNeverMiss == QuerySpec => []WalksMissNothing
<1>1. QueryInv => WalksMissNothing
  <2> SUFFICES ASSUME QueryInv, walk.step # "none" PROVE WalksMissNothing
    BY DEF WalksMissNothing
  <2>1. walk # NoWalk
    BY DEF NoWalk
  <2> QED
    BY <2>1, HoldsMissNothing DEF QueryInv
<1> QED
  BY <1>1, QueryInvHolds, PTL
=============================================================================
