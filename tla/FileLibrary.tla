------------------------------ MODULE FileLibrary ------------------------------
(***************************************************************************)
(* Stored objects, their rows in files and their preview images, under     *)
(* everything that makes or removes one of the three: the upload in one    *)
(* request (routes/upload.ts), previews made beside it or on demand        *)
(* (routes/files.ts), deletion behind a one-time token (routes/files.ts,   *)
(* routes/folderOperations.ts, fileDeletion.ts), the sweep of local files  *)
(* without a row (orphanCleanup.ts) and the import of a bucket             *)
(* (bucketImport.ts).  A stored name is new for each upload                *)
(* (getUniqueStoredName): a file is its object, and is uploaded once.      *)
(* Every request sees the files of the default account alone.              *)
(***************************************************************************)
EXTENDS Naturals, FiniteSets

CONSTANTS
  Local, Cloud, \* files of the local disk and of the one other account
  Media,        \* those that are images or films
  Handlers,     \* deletions in progress
  MaxSwitches,  \* bound on changes of the default account
  MaxMishaps    \* bound on failures and restarts

Files == Local \cup Cloud

VARIABLES
  object,   \* what is stored: "fresh" for ten minutes, "old" afterwards
  index,    \* the row: of an upload, or of an import
  upload,   \* the request that uploads the file
  preview,  \* its preview image, "late" when made behind the back of a deletion
  scope,    \* the files of the default account
  token,    \* batchDeleteConfirmationStore, webDestructiveConfirmationStore
  deletion, \* the requests that delete
  confirmed,\* files a user confirmed the deletion of
  reported, \* files a user was told are deleted
  sweep,    \* cleanupOrphanFiles: the rows it has read and whether it goes on
  page,     \* the page of objects an import has listed
  switches, mishaps

vars == <<object, index, upload, preview, scope, token, deletion, confirmed, reported, sweep, page, switches, mishaps>>
uploads   == <<upload, preview>>
deletions == <<token, deletion, confirmed, reported>>
bounds    == <<scope, switches, mishaps>>

\* rows: those of the files whose row, as it was read, is still there.
Quiet   == [at |-> "idle", files |-> {}, rows |-> {}, seen |-> {}, gone |-> {}]
NoSweep == [on |-> FALSE, known |-> {}]
Indexed == {f \in Files : index[f] # "none"}
Picked(f) == \E h \in Handlers : deletion[h].at \in {"remove", "drop"} /\ f \in deletion[h].files \cap deletion[h].rows

Init ==
  /\ object = [f \in Files |-> "none"] /\ index = [f \in Files |-> "none"]
  /\ upload = [f \in Files |-> "idle"] /\ preview = [f \in Files |-> "none"]
  /\ scope \in {Local, Cloud} /\ token = {}
  /\ deletion = [h \in Handlers |-> Quiet]
  /\ confirmed = {} /\ reported = {}
  /\ sweep = NoSweep /\ page = {} /\ switches = 0 /\ mishaps = 0

Mishap == mishaps < MaxMishaps /\ mishaps' = mishaps + 1

-----------------------------------------------------------------------------
(* Upload in one request, to the default account or to the one the browser *)
(* has chosen.                                                             *)

\* The preview of an image is made from what was received, that of a film afterwards.
Receive(f) ==
  /\ upload[f] = "idle" /\ object[f] = "none"
  /\ upload' = [upload EXCEPT ![f] = "saving"]
  /\ \/ f \in Media /\ preview' = [preview EXCEPT ![f] = "made"]
     \/ UNCHANGED preview
  /\ UNCHANGED <<object, index, deletions, sweep, page, bounds>>

Save(f) ==
  /\ upload[f] = "saving"
  /\ object' = [object EXCEPT ![f] = "fresh"]
  /\ upload' = [upload EXCEPT ![f] = "saved"]
  /\ UNCHANGED <<index, preview, deletions, sweep, page, bounds>>

SaveFails(f) ==
  /\ upload[f] = "saving" /\ Mishap
  /\ upload' = [upload EXCEPT ![f] = "failed"]
  /\ UNCHANGED <<object, index, preview, deletions, sweep, page, scope, switches>>

\* The row of a path is unique in an account: it may be there from an import.
Insert(f) ==
  /\ upload[f] = "saved"
  /\ IF index[f] = "none"
     THEN /\ index' = [index EXCEPT ![f] = "upload"]
          /\ upload' = [upload EXCEPT ![f] = "done"]
          /\ preview' = IF f \in Media /\ preview[f] = "none" THEN [preview EXCEPT ![f] = "making"] ELSE preview
     ELSE /\ upload' = [upload EXCEPT ![f] = "compensating"]
          /\ UNCHANGED <<index, preview>>
  /\ UNCHANGED <<object, deletions, sweep, page, bounds>>

\* The statement has no effect, or its answer is lost and the row stays when the object goes.
InsertFails(f) ==
  /\ upload[f] = "saved" /\ Mishap
  /\ upload' = [upload EXCEPT ![f] = "compensating"]
  /\ index' \in {index, [index EXCEPT ![f] = IF @ = "none" THEN "upload" ELSE @]}
  /\ UNCHANGED <<object, preview, deletions, sweep, page, scope, switches>>

\* saveAndIndexWithCompensation: what cannot be indexed is removed, if the provider answers.
Compensate(f) ==
  /\ upload[f] = "compensating"
  /\ upload' = [upload EXCEPT ![f] = "failed"]
  /\ \/ object' = [object EXCEPT ![f] = "none"] /\ UNCHANGED mishaps
     \/ UNCHANGED object /\ Mishap
  /\ UNCHANGED <<index, preview, deletions, sweep, page, scope, switches>>

\* Somebody else stores an object in the bucket.
Outside(f) ==
  /\ f \in Cloud /\ upload[f] = "idle" /\ object[f] = "none"
  /\ object' = [object EXCEPT ![f] = "fresh"]
  /\ upload' = [upload EXCEPT ![f] = "elsewhere"]
  /\ UNCHANGED <<index, preview, deletions, sweep, page, bounds>>

\* GET .../preview of a local file without one makes it.
AskPreview(f) ==
  /\ f \in Local \cap Media \cap scope /\ index[f] # "none" /\ object[f] # "none" /\ preview[f] = "none"
  /\ preview' = [preview EXCEPT ![f] = "making"]
  /\ UNCHANGED <<object, index, upload, deletions, sweep, page, bounds>>

\* The image is written, then its name into the row of the upload, if that is still there.
PreviewMade(f) ==
  /\ preview[f] = "making"
  /\ preview' = [preview EXCEPT ![f] = IF index[f] # "upload" \/ Picked(f) THEN "late" ELSE "made"]
  /\ UNCHANGED <<object, index, upload, deletions, sweep, page, bounds>>

-----------------------------------------------------------------------------
(* Deletion.                                                               *)

\* POST /batch-delete/preview and POST /:id/delete-confirmation freeze what is to go.
Preview ==
  /\ token = {}
  /\ \E chosen \in SUBSET (Indexed \cap scope) \ {{}} : token' = chosen
  /\ UNCHANGED <<object, index, uploads, deletion, confirmed, reported, sweep, page, bounds>>

\* consume: once, in the session and for the account it was issued for, in time.
Consume(h) ==
  /\ deletion[h].at = "idle" /\ token # {}
  /\ IF token \subseteq scope
     THEN /\ deletion' = [deletion EXCEPT ![h] = [Quiet EXCEPT !.at = "select", !.files = token]]
          /\ confirmed' = confirmed \cup token
          /\ token' = {}
     ELSE UNCHANGED <<deletion, confirmed, token>>
  /\ UNCHANGED <<object, index, uploads, reported, sweep, page, bounds>>

Expire ==
  /\ token # {}
  /\ token' = {}
  /\ UNCHANGED <<object, index, uploads, deletion, confirmed, reported, sweep, page, bounds>>

\* The rows are read again in the account that is the default by now; those that are not
\* found count as deleted.
Select(h) ==
  /\ deletion[h].at = "select"
  /\ LET found == deletion[h].files \cap Indexed \cap scope
     IN  /\ deletion' = [deletion EXCEPT ![h] = [Quiet EXCEPT !.at = "remove", !.files = found, !.rows = found,
                                                !.seen = {f \in found : index[f] = "upload" /\ preview[f] = "made"}]]
         /\ reported' = reported \cup (deletion[h].files \ found)
  /\ UNCHANGED <<object, index, uploads, token, confirmed, sweep, page, bounds>>

\* removePhysicalFile: the object, which may be gone already, then the preview of the row
\* as it was read.
Remove(h, f) ==
  /\ deletion[h].at = "remove" /\ f \in deletion[h].files
  /\ object' = [object EXCEPT ![f] = "none"]
  /\ preview' = [preview EXCEPT ![f] = IF f \in deletion[h].seen THEN "none" ELSE @]
  /\ deletion' = [deletion EXCEPT ![h].at = "drop", ![h].gone = {f}]
  /\ UNCHANGED <<index, upload, token, confirmed, reported, sweep, page, bounds>>

\* An error leaves the row; the object may be gone, or the preview still be there.
RemoveFails(h, f) ==
  /\ deletion[h].at = "remove" /\ f \in deletion[h].files /\ Mishap
  /\ \/ UNCHANGED object
     \/ object' = [object EXCEPT ![f] = "none"]
  /\ deletion' = [deletion EXCEPT ![h].files = @ \ {f}]
  /\ UNCHANGED <<index, uploads, token, confirmed, reported, sweep, page, scope, switches>>

Dropped(d) == [d EXCEPT !.at = "remove", !.files = @ \ d.gone, !.gone = {}]

\* deleteIndex, by the id of the row: one that is gone, or an error, counts as a failure.
Drop(h) ==
  LET there == deletion[h].gone \cap deletion[h].rows
  IN  /\ deletion[h].at = "drop"
      /\ deletion' = [k \in Handlers |-> IF k = h THEN Dropped(deletion[k]) ELSE [deletion[k] EXCEPT !.rows = @ \ there]]
      /\ index' = [f \in Files |-> IF f \in there THEN "none" ELSE index[f]]
      /\ reported' = reported \cup there
      /\ UNCHANGED <<object, uploads, token, confirmed, sweep, page, bounds>>

DropFails(h) ==
  /\ deletion[h].at = "drop" /\ Mishap
  /\ deletion' = [deletion EXCEPT ![h] = Dropped(@)]
  /\ UNCHANGED <<object, index, uploads, token, confirmed, reported, sweep, page, scope, switches>>

Answered(h) ==
  /\ deletion[h].at = "remove" /\ deletion[h].files = {}
  /\ deletion' = [deletion EXCEPT ![h] = Quiet]
  /\ UNCHANGED <<object, index, uploads, token, confirmed, reported, sweep, page, bounds>>

-----------------------------------------------------------------------------
(* The sweep of local files and the import of a bucket.                    *)

\* Ten minutes go by.  No upload takes as long from its last byte to its row.
Age(f) ==
  /\ f \in Local /\ object[f] = "fresh" /\ upload[f] \notin {"saved", "compensating"} /\ ~sweep.on
  /\ object' = [object EXCEPT ![f] = "old"]
  /\ UNCHANGED <<index, uploads, deletions, sweep, page, bounds>>

\* cleanupOrphanFiles reads the rows of local files first ...
StartSweep ==
  /\ ~sweep.on
  /\ sweep' = [on |-> TRUE, known |-> Local \cap Indexed]
  /\ UNCHANGED <<object, index, uploads, deletions, page, bounds>>

\* A slip: the age does not count.
OrphanOfAnyAge(f) == f \in Local \ sweep.known /\ object[f] # "none"

\* ... and takes what is on the disk, in none of them and old enough.
Orphan(f) == f \in Local \ sweep.known /\ object[f] = "old"

SweepFile(f) ==
  /\ sweep.on /\ Orphan(f)
  /\ object' = [object EXCEPT ![f] = "none"]
  /\ UNCHANGED <<index, uploads, deletions, sweep, page, bounds>>

EndSweep ==
  /\ sweep.on /\ \A f \in Local : ~Orphan(f)
  /\ sweep' = NoSweep
  /\ UNCHANGED <<object, index, uploads, deletions, page, bounds>>

\* One import at a time (advisory lock): a page is listed, then the rows that miss are
\* inserted.
ListPage ==
  /\ page = {} /\ scope = Cloud
  /\ page' = {f \in Cloud : object[f] # "none"}
  /\ UNCHANGED <<object, index, uploads, deletions, sweep, bounds>>

InsertPage ==
  /\ page # {}
  /\ index' = [f \in Files |-> IF f \in page /\ index[f] = "none" THEN "import" ELSE index[f]]
  /\ page' = {}
  /\ UNCHANGED <<object, uploads, deletions, sweep, bounds>>

-----------------------------------------------------------------------------
Switch ==
  /\ switches < MaxSwitches /\ switches' = switches + 1
  /\ scope' = IF scope = Local THEN Cloud ELSE Local
  /\ UNCHANGED <<object, index, uploads, deletions, sweep, page, mishaps>>

Crash ==
  /\ Mishap
  /\ upload' = [f \in Files |-> IF upload[f] \in {"saving", "saved", "compensating"} THEN "failed" ELSE upload[f]]
  /\ preview' = [f \in Files |-> IF preview[f] = "making" THEN "none" ELSE preview[f]]
  /\ deletion' = [h \in Handlers |-> Quiet]
  /\ token' = {} /\ sweep' = NoSweep /\ page' = {}
  /\ UNCHANGED <<object, index, scope, confirmed, reported, switches>>

Work ==
  \/ \E f \in Files : Save(f) \/ Insert(f) \/ Compensate(f) \/ PreviewMade(f)
  \/ \E h \in Handlers : Select(h) \/ Drop(h) \/ Answered(h) \/ \E f \in Files : Remove(h, f)
  \/ InsertPage

Sweeping == StartSweep \/ EndSweep \/ \E f \in Local : SweepFile(f)

Aging == \E f \in Local : Age(f)

Next ==
  \/ Work \/ Sweeping \/ Aging
  \/ \E f \in Files : Receive(f) \/ SaveFails(f) \/ InsertFails(f) \/ Outside(f) \/ AskPreview(f)
  \/ Preview \/ Expire \/ ListPage \/ Switch \/ Crash
  \/ \E h \in Handlers : Consume(h) \/ DropFails(h) \/ \E f \in Files : RemoveFails(h, f)

Spec == Init /\ [][Next]_vars /\ WF_vars(Work) /\ WF_vars(Sweeping) /\ SF_vars(Aging)

-----------------------------------------------------------------------------
TypeOK ==
  /\ \A f \in Files : /\ object[f] \in {"none", "fresh", "old"} /\ index[f] \in {"none", "upload", "import"}
                      /\ upload[f] \in {"idle", "saving", "saved", "compensating", "done", "failed", "elsewhere"}
                      /\ preview[f] \in {"none", "making", "made", "late"}
  /\ token \subseteq Files /\ reported \subseteq confirmed /\ sweep.known \subseteq Local

\* What was uploaded stays, object and row, until its deletion is confirmed: no sweep,
\* import, failure or deletion of other files takes it.
UploadIsKept ==
  \A f \in Files : (upload[f] = "done" /\ f \notin confirmed) => (object[f] # "none" /\ index[f] = "upload")

\* What a user was told is deleted takes no storage any more.  (After a change of the
\* default account between the token and the query nothing was looked at.  A row may come
\* back, from an import that listed the object before, or of an upload still in progress
\* whose object an import had indexed.)
DeletedIsGone == \A f \in reported : switches = 0 => object[f] = "none"

\* A preview goes with its file, unless it was made while the file was being deleted.
\* (That of an image whose upload fails stays for ever.)
PreviewsAreOwned ==
  \A f \in Files :
    preview[f] = "made" => (index[f] = "upload" \/ upload[f] \in {"saving", "saved", "compensating", "failed"})

Sound == UploadIsKept /\ DeletedIsGone /\ PreviewsAreOwned

\* Local files nobody knows of are swept.
Swept == \A f \in Local : ~(object[f] = "old" /\ index[f] = "none" /\ upload[f] = "failed")
=============================================================================
