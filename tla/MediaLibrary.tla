---------------------------- MODULE MediaLibrary ----------------------------
(***************************************************************************)
(* Uploaded media: the records in PostgreSQL, the files below the media    *)
(* storage root, the references documents hold, and a backup of both.      *)
(*                                                                         *)
(* An upload reserves a record, writes the file and completes the record;  *)
(* a deletion removes the record, which references veto, and then the file.*)
(* Record and file never change together, and every step of a request may  *)
(* fail or be the last one its process takes.                              *)
(*                                                                         *)
(* An id is minted for one upload, so uploads are named by their media.    *)
(* Of a document only what its working and its published revision refer    *)
(* to is kept.  Type and size checks, which precede the reservation, are   *)
(* left out, as are temporary files, which nothing ever lists.             *)
(***************************************************************************)
EXTENDS Naturals, FiniteSets

CONSTANTS
    Media,  \* media ids; the storage key is a function of the id
    Docs    \* document ids

VARIABLES
    records,    \* records[m]: status in _xecms_media, or "absent"
    files,      \* the media whose storage key names a file
    upload,     \* upload[m]: where the upload of m is
    deletion,   \* deletion[m]: where the deletion of m is
    documents,  \* documents[d]: the media d refers to
    edges,      \* rows of _xecms_document_media
    backup,     \* the backup being made
    unanswered  \* media whose completing UPDATE was sent and failed in the client

vars == <<records, files, upload, deletion, documents, edges, backup, unanswered>>

UploadSteps == {"none", "write", "complete", "empty", "discard", "mark", "over"}
DeletionSteps == {"none", "record", "bytes"}
BackupSteps == {"none", "dumped", "taken"}

Ready == {m \in Media : records[m] = "ready"}
Uploading(m, step, next) == upload[m] = step /\ upload' = [upload EXCEPT ![m] = next]
Deleting(m, step, next) == deletion[m] = step /\ deletion' = [deletion EXCEPT ![m] = next]

-----------------------------------------------------------------------------
(* upload. *)

ReserveMedia(m) ==
    /\ Uploading(m, "none", "write")
    /\ records' = [records EXCEPT ![m] = "pending"]
    /\ UNCHANGED <<files, deletion, documents, edges, backup, unanswered>>

\* The temporary file is linked to its name; a file without bytes goes again.
WriteFile(m) ==
    /\ Uploading(m, "write", "complete") \/ Uploading(m, "write", "empty")
    /\ files' = files \cup {m}
    /\ UNCHANGED <<records, deletion, documents, edges, backup, unanswered>>

\* Removing the temporary file may fail after its link was made.
WriteFails(m) ==
    /\ Uploading(m, "write", "mark")
    /\ files' \in {files, files \cup {m}}
    /\ UNCHANGED <<records, deletion, documents, edges, backup, unanswered>>

CompleteMedia(m) ==
    /\ records[m] = "pending"
    /\ Uploading(m, "complete", "over")
    /\ records' = [records EXCEPT ![m] = "ready"]
    /\ UNCHANGED <<files, deletion, documents, edges, backup, unanswered>>

\* For the upload it has failed, whatever becomes of the UPDATE.
CompleteFails(m) ==
    /\ Uploading(m, "complete", "discard")
    /\ unanswered' = unanswered \cup {m}
    /\ UNCHANGED <<records, files, deletion, documents, edges, backup>>

\* The database executes it all the same, now or later: its answer was lost, or
\* was refused by assertMediaAsset.
CommitUnanswered(m) ==
    /\ m \in unanswered
    /\ records[m] = "pending"
    /\ records' = [records EXCEPT ![m] = "ready"]
    /\ UNCHANGED <<files, upload, deletion, documents, edges, backup, unanswered>>

DiscardFile(m) ==
    /\ Uploading(m, "discard", "mark") \/ Uploading(m, "empty", "mark")
    /\ files' = files \ {m}
    /\ UNCHANGED <<records, deletion, documents, edges, backup, unanswered>>

\* Only the failure to complete marks the record all the same.
DiscardFails(m) ==
    /\ Uploading(m, "discard", "mark") \/ Uploading(m, "empty", "over")
    /\ UNCHANGED <<records, files, deletion, documents, edges, backup, unanswered>>

\* Mutant of MarkFailed: the record is marked whatever it has become.
MarkFailedAnyway(m) ==
    /\ Uploading(m, "mark", "over")
    /\ records' = [records EXCEPT ![m] = "failed"]
    /\ UNCHANGED <<files, deletion, documents, edges, backup, unanswered>>

MarkFailed(m) ==
    /\ Uploading(m, "mark", "over")
    /\ records' = [records EXCEPT ![m] = IF @ = "pending" THEN "failed" ELSE @]
    /\ UNCHANGED <<files, deletion, documents, edges, backup, unanswered>>

\* The process stops, or an error of the last step is swallowed.
AbandonUpload(m) ==
    /\ upload[m] \notin {"none", "over"}
    /\ upload' = [upload EXCEPT ![m] = "over"]
    /\ UNCHANGED <<records, files, deletion, documents, edges, backup, unanswered>>

-----------------------------------------------------------------------------
(* delete. *)

\* Mutant of RequireReady: the bytes go before the record.
RequireReadyBytesFirst(m) ==
    /\ m \in Ready
    /\ Deleting(m, "none", "record")
    /\ files' = files \ {m}
    /\ UNCHANGED <<records, upload, documents, edges, backup, unanswered>>

RequireReady(m) ==
    /\ m \in Ready
    /\ Deleting(m, "none", "record")
    /\ UNCHANGED <<records, files, upload, documents, edges, backup, unanswered>>

Unreferenced(m) == \A d \in Docs : <<d, m>> \notin edges

\* Mutant of DeleteRecord: nothing restricts the deletion of a record.
DeleteRecordUnrestricted(m) ==
    /\ m \in Ready
    /\ Deleting(m, "record", "bytes")
    /\ records' = [records EXCEPT ![m] = "absent"]
    /\ UNCHANGED <<files, upload, documents, edges, backup, unanswered>>

\* DELETE ... WHERE status = 'ready', under ON DELETE RESTRICT.
DeleteRecord(m) ==
    /\ m \in Ready
    /\ Unreferenced(m)
    /\ Deleting(m, "record", "bytes")
    /\ records' = [records EXCEPT ![m] = "absent"]
    /\ UNCHANGED <<files, upload, documents, edges, backup, unanswered>>

DeleteFile(m) ==
    /\ Deleting(m, "bytes", "none")
    /\ files' = files \ {m}
    /\ UNCHANGED <<records, upload, documents, edges, backup, unanswered>>

\* The record is in use or gone, a call fails or the process stops.
AbandonDeletion(m) ==
    /\ deletion[m] # "none"
    /\ deletion' = [deletion EXCEPT ![m] = "none"]
    /\ UNCHANGED <<records, files, upload, documents, edges, backup, unanswered>>

-----------------------------------------------------------------------------
(* Documents.  The transaction of a write locks what it refers to FOR KEY   *)
(* SHARE, which a DELETE waits for, and validates it.                       *)

Acceptable(R) == R \subseteq Ready

\* create, update, restoreRevision, and the rewriting of a purge.
SaveDraft(d, R) ==
    /\ Acceptable(R)
    /\ documents' = [documents EXCEPT ![d].working = R]
    /\ edges' = {e \in edges : e[1] # d} \cup ({d} \X R)
    /\ UNCHANGED <<records, files, upload, deletion, backup, unanswered>>

\* publish and unpublish write the document row and leave the edges alone.
Publish(d) ==
    /\ documents' = [documents EXCEPT ![d].published = documents[d].working]
    /\ UNCHANGED <<records, files, upload, deletion, edges, backup, unanswered>>

Unpublish(d) ==
    /\ documents' = [documents EXCEPT ![d].published = {}]
    /\ UNCHANGED <<records, files, upload, deletion, edges, backup, unanswered>>

Purge(d) ==
    /\ documents' = [documents EXCEPT ![d] = [working |-> {}, published |-> {}]]
    /\ edges' = {e \in edges : e[1] # d}
    /\ UNCHANGED <<records, files, upload, deletion, backup, unanswered>>

-----------------------------------------------------------------------------
(* createBackup, beside the running server: pg_dump, then tar. *)

DumpDatabase ==
    /\ backup.step = "none"
    /\ backup' = [backup EXCEPT !.step = "dumped", !.ready = Ready]
    /\ UNCHANGED <<records, files, upload, deletion, documents, edges, unanswered>>

ArchiveMedia ==
    /\ backup.step = "dumped"
    /\ backup' = [backup EXCEPT !.step = "taken", !.files = files]
    /\ UNCHANGED <<records, files, upload, deletion, documents, edges, unanswered>>

-----------------------------------------------------------------------------
Init ==
    /\ records = [m \in Media |-> "absent"]
    /\ files = {}
    /\ upload = [m \in Media |-> "none"]
    /\ deletion = [m \in Media |-> "none"]
    /\ documents = [d \in Docs |-> [working |-> {}, published |-> {}]]
    /\ edges = {}
    /\ backup = [step |-> "none", ready |-> {}, files |-> {}]
    /\ unanswered = {}

UploadStep(m) ==
    \/ ReserveMedia(m) \/ WriteFile(m) \/ WriteFails(m) \/ CompleteMedia(m)
    \/ CompleteFails(m) \/ CommitUnanswered(m) \/ DiscardFile(m) \/ DiscardFails(m)
    \/ MarkFailed(m) \/ AbandonUpload(m)

DeletionStep(m) ==
    RequireReady(m) \/ DeleteRecord(m) \/ DeleteFile(m) \/ AbandonDeletion(m)

DocumentStep(d) ==
    \/ \E R \in SUBSET Media : SaveDraft(d, R)
    \/ Publish(d) \/ Unpublish(d) \/ Purge(d)

Next ==
    \/ \E m \in Media : UploadStep(m) \/ DeletionStep(m)
    \/ \E d \in Docs : DocumentStep(d)
    \/ DumpDatabase \/ ArchiveMedia

Spec == Init /\ [][Next]_vars

-----------------------------------------------------------------------------
(* Properties. *)

\* Every variable has its type and the rows of _xecms_document_media are the
\* references of the working revisions.
TypeOK ==
    /\ records \in [Media -> {"absent", "pending", "ready", "failed"}]
    /\ files \subseteq Media
    /\ upload \in [Media -> UploadSteps]
    /\ deletion \in [Media -> DeletionSteps]
    /\ documents \in [Docs -> [working: SUBSET Media, published: SUBSET Media]]
    /\ edges = UNION {{d} \X documents[d].working : d \in Docs}
    /\ backup \in [step: BackupSteps, ready: SUBSET Media, files: SUBSET Media]
    /\ unanswered \subseteq Media

\* A record that is ready has its file, unless its completing UPDATE was executed
\* unanswered: upload writes bytes before it completes the record, delete removes
\* the record before the bytes, and an upload takes back no bytes but its own.
ReadyHasBytes == Ready \subseteq files \cup unanswered

\* What the working revision of a document refers to is a ready record, also when
\* its upload is still cleaning up, and can be served unless it is such an
\* upload's: no deletion that was under way when the document was saved takes it
\* away.
WorkingIsServed ==
    \A d \in Docs :
        /\ documents[d].working \subseteq Ready
        /\ documents[d].working \subseteq files \cup unanswered

\* The dump is made before the archive, so that media uploaded in between are
\* in neither or only in the archive: what was in the dump and is still there
\* has its bytes in the backup, unless its upload may have taken them back.
BackupHasWhatStays ==
    backup.step = "taken" =>
        backup.ready \cap Ready \subseteq backup.files \cup unanswered

\* Media records, reference rows and files agree, also in a backup, while
\* uploads, deletions, saves and backups overlap and answers are lost.
LibraryIsWhole == TypeOK /\ ReadyHasBytes /\ WorkingIsServed /\ BackupHasWhatStays

\* "deleting bytes first could create a broken live reference": also what the
\* published revision refers to can be served.
PublishedIsServed == \A d \in Docs : documents[d].published \subseteq Ready

\* The backup holds the database and the media storage together: every record
\* that would be ready after a restore has its file.
BackupIsConsistent == backup.step = "taken" => backup.ready \subseteq backup.files
=============================================================================
