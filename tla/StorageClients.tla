---------------------------- MODULE StorageClients ----------------------------
(***************************************************************************)
(* The clients of the providers of storage: how a file is written to the   *)
(* folder of an account and how it is deleted again, at Google Drive,      *)
(* OneDrive, WebDAV, S3, OSS and the local disk (storage.ts).  All uploads *)
(* go to one folder, Depth levels below the root.  Names are unique, so    *)
(* that no upload meets the file of another.                               *)
(***************************************************************************)
EXTENDS Naturals, Sequences, FiniteSets

CONSTANTS
  Uploads,
  Depth,
  MaxClients,     \* bound on the clients that init() makes for the account
  MaxDeletions,   \* bound on how often one file is deleted
  MaxTroubles     \* bound on calls that fail or are not answered

Kinds == {"google", "onedrive", "webdav", "s3", "oss", "local"}

VARIABLES
  kind,
  folders,    \* at the provider, in the order of their creation
  cache,      \* folderIdCache of each client: the child it knows of a folder
  lock,       \* folderEnsureLocks of each client: who ensures the child
  client,     \* the client in memory; an upload goes on with the one it began with
  upload,
  troubles

vars == <<kind, folders, cache, lock, client, upload, troubles>>

New == [at |-> "idle", client |-> 0, level |-> 0, folder |-> 0, chunks |-> 0, deletions |-> 0,
        object |-> "none",    \* at the provider
        into   |-> 0,         \* the folder it is in
        answer |-> "none",    \* what the caller was told
        unheard |-> FALSE]    \* history: a call had an effect, and was not answered

Init ==
  /\ kind \in Kinds /\ folders = <<>> /\ cache = {} /\ lock = {} /\ client = 1
  /\ upload = [u \in Uploads |-> New] /\ troubles = 0

At(u, a)      == upload[u].at = a
Goto(u, a)    == upload' = [upload EXCEPT ![u].at = a]
Becomes(u, r) == upload' = [upload EXCEPT ![u] = r]
Here(u)       == [client |-> upload[u].client, folder |-> upload[u].folder]
Failed(r)     == [r EXCEPT !.at = "done", !.answer = "failed"]
Trouble       == troubles < MaxTroubles /\ troubles' = troubles + 1
Quiet         == UNCHANGED troubles
Store         == UNCHANGED <<kind, folders, cache, lock, client>>

\* What the caller has awaited is answered, or its answer is lost.
Heard(heard) == IF heard THEN Quiet ELSE Trouble

\* Google Drive walks the folders, OneDrive asks for the whole path first, WebDAV makes
\* the directory and the others need none.
Begin(u) ==
  /\ At(u, "idle")
  /\ upload' = [upload EXCEPT ![u].client = client,
       ![u].at = CASE kind = "google" -> "folder" [] kind = "onedrive" -> "path"
                   [] kind = "webdav" -> "directory" [] OTHER -> "send"]
  /\ Store /\ Quiet

\* init() makes every client anew.
Replace ==
  /\ client < MaxClients /\ client' = client + 1
  /\ UNCHANGED <<kind, folders, cache, lock, upload>> /\ Quiet

-----------------------------------------------------------------------------
(* Folders of Google Drive have ids, and two of them may have one name.    *)

Known(u)   == {e \in cache : e.client = upload[u].client /\ e.folder = upload[u].folder}
Ensuring(u) == {e \in lock : e.client = upload[u].client /\ e.folder = upload[u].folder}
Sharing(u)  == {u} \cup {v \in Uploads : At(v, "wait") /\ Here(v) = Here(u)}
Children(f) == {i \in DOMAIN folders : folders[i].parent = f}

Folder(u, f) == [parent |-> f, level |-> IF f = 0 THEN 1 ELSE folders[f].level + 1,
                 by |-> u, client |-> upload[u].client]

Into(r, f) == [r EXCEPT !.at = "folder", !.folder = f, !.level = @ + 1]

\* One step down: by the cache, behind the one who ensures this folder already, or as that one.
Descend(u) ==
  /\ At(u, "folder")
  /\ IF upload[u].level = Depth THEN Goto(u, "send") /\ UNCHANGED lock
     ELSE \/ \E e \in Known(u) : Becomes(u, Into(upload[u], e.child)) /\ UNCHANGED lock
          \/ Known(u) = {} /\ Ensuring(u) # {} /\ Goto(u, "wait") /\ UNCHANGED lock
          \/ /\ Known(u) = {} /\ Ensuring(u) = {} /\ Goto(u, "list")
             /\ lock' = lock \cup {[client |-> upload[u].client, folder |-> upload[u].folder, by |-> u]}
  /\ UNCHANGED <<kind, folders, cache, client>> /\ Quiet

\* The folder is known, to the cache and to all who wait for it.
Ensured(u, f) ==
  /\ cache' = cache \cup {[client |-> upload[u].client, folder |-> upload[u].folder, child |-> f]}
  /\ lock' = lock \ Ensuring(u)
  /\ upload' = [v \in Uploads |-> IF v \in Sharing(u) THEN Into(upload[v], f) ELSE upload[v]]

\* Whoever waits shares the failure.
NotEnsured(u) ==
  /\ lock' = lock \ Ensuring(u) /\ UNCHANGED cache
  /\ upload' = [v \in Uploads |-> IF v \in Sharing(u) THEN Failed(upload[v]) ELSE upload[v]]

\* The oldest child of that name.
FindFolder(u) ==
  /\ At(u, "list")
  /\ LET found == Children(upload[u].folder) IN
     IF found = {} THEN Goto(u, "create") /\ UNCHANGED <<cache, lock>>
     ELSE Ensured(u, CHOOSE i \in found : \A j \in found : i <= j)
  /\ UNCHANGED <<kind, folders, client>> /\ Quiet

CreateFolder(u, heard) ==
  /\ At(u, "create")
  /\ folders' = Append(folders, Folder(u, upload[u].folder))
  /\ IF heard THEN Ensured(u, Len(folders')) ELSE NotEnsured(u)
  /\ Heard(heard) /\ UNCHANGED <<kind, client>>

-----------------------------------------------------------------------------
(* Folders of OneDrive have paths: the first n levels exist.               *)

Path(u) ==
  /\ At(u, "path")
  /\ Goto(u, IF Len(folders) = Depth THEN "prepare" ELSE "level")
  /\ Store /\ Quiet

Level(u) ==
  /\ At(u, "level")
  /\ LET r == upload[u] IN
     Becomes(u, IF r.level = Depth THEN [r EXCEPT !.at = "prepare"]
                ELSE IF r.level < Len(folders) THEN [r EXCEPT !.level = @ + 1]
                ELSE [r EXCEPT !.at = "post"])
  /\ Store /\ Quiet

\* conflictBehavior is "fail": one of two who create the folder fails.
PostFolder(u, heard) ==
  /\ At(u, "post")
  /\ IF upload[u].level < Len(folders)
     THEN heard /\ Becomes(u, Failed(upload[u])) /\ UNCHANGED folders
     ELSE /\ folders' = Append(folders, Folder(u, Len(folders)))
          /\ Becomes(u, IF heard THEN [upload[u] EXCEPT !.at = "level", !.level = @ + 1] ELSE Failed(upload[u]))
  /\ Heard(heard) /\ UNCHANGED <<kind, cache, lock, client>>

\* A small file is sent at once, a large one in two chunks of an upload session.
Prepare(u) ==
  /\ At(u, "prepare")
  /\ \E at \in {"send", "chunk"} : Goto(u, at)
  /\ Store /\ Quiet

Stored(r) == [r EXCEPT !.object = "whole", !.into = IF kind = "google" THEN r.folder ELSE Len(folders)]
Saved(r)  == [r EXCEPT !.at = "done", !.answer = "saved"]

\* The file appears with its last chunk.
PutChunk(u, heard) ==
  /\ At(u, "chunk")
  /\ LET r == IF upload[u].chunks = 0 THEN [upload[u] EXCEPT !.object = "part"] ELSE Stored(upload[u]) IN
     \E named \in BOOLEAN :
       upload' = [upload EXCEPT ![u] =
         IF ~heard THEN [r EXCEPT !.at = "cancel", !.unheard = r.object = "whole"]
         ELSE IF r.object = "part" THEN [r EXCEPT !.chunks = 1]
         ELSE IF named THEN Saved(r) ELSE [r EXCEPT !.at = "query"]]
  /\ Heard(heard) /\ Store

\* An open session, and what it has, is gone; a file that is complete stays.  Errors are ignored.
CancelSession(u, heard) ==
  /\ At(u, "cancel")
  /\ Becomes(u, Failed([upload[u] EXCEPT
       !.object = IF @ = "part" /\ heard THEN "none" ELSE @, !.unheard = @ \/ ~heard]))
  /\ Heard(heard) /\ Store

\* Without an id in the last answer the file is asked for by its path.
QueryItem(u) ==
  /\ At(u, "query")
  /\ upload' = [upload EXCEPT ![u] = Saved(@)]
  /\ Store /\ Quiet

-----------------------------------------------------------------------------
(* The other calls.                                                        *)

\* Directories that exist already are no error.
MakeDirectory(u, heard) ==
  /\ At(u, "directory")
  /\ folders' = [i \in 1 .. Depth |-> IF i \in DOMAIN folders THEN folders[i]
                                      ELSE [Folder(u, 0) EXCEPT !.parent = i - 1, !.level = i]]
  /\ upload' = [upload EXCEPT ![u] = IF heard THEN [@ EXCEPT !.at = "send"] ELSE Failed(@)]
  /\ Heard(heard) /\ UNCHANGED <<kind, cache, lock, client>>

\* One call stores the whole file.
SendWhole(u, heard) ==
  /\ At(u, "send")
  /\ upload' = [upload EXCEPT ![u] = IF heard THEN Saved(Stored(@)) ELSE Failed([Stored(@) EXCEPT !.unheard = TRUE])]
  /\ Heard(heard) /\ Store

SendGoogle(u, heard)   == kind = "google" /\ SendWhole(u, heard)
SendOneDrive(u, heard) == kind = "onedrive" /\ SendWhole(u, heard)
SendOSS(u, heard)      == kind = "oss" /\ SendWhole(u, heard)
SendS3(u, heard)       == kind = "s3" /\ SendWhole(u, heard)

\* A stream that is cut may leave what had arrived.
SendStream(u, heard) ==
  /\ At(u, "send") /\ kind = "webdav"
  /\ \E some \in {"part", "whole"} :
       upload' = [upload EXCEPT ![u] = IF heard THEN Saved(Stored(@))
                                       ELSE Failed([Stored(@) EXCEPT !.object = some, !.unheard = TRUE])]
  /\ Heard(heard) /\ Store

\* A rename; to another device a copy, which may stop half way, and an unlink.
MoveLocal(u, done) ==
  /\ At(u, "send") /\ kind = "local"
  /\ \E some \in {"part", "whole"} :
       upload' = [upload EXCEPT ![u] = IF done THEN Saved(Stored(@))
                                       ELSE Failed([Stored(@) EXCEPT !.object = some, !.unheard = TRUE])]
  /\ Heard(done) /\ Store

\* A call fails without effect.
Fail(u) ==
  /\ Trouble /\ UNCHANGED <<kind, folders, client>>
  /\ \/ upload[u].at \in {"list", "create"} /\ NotEnsured(u)
     \/ /\ upload[u].at \in {"path", "level", "post", "prepare", "directory", "send", "query"}
        /\ Becomes(u, Failed([upload[u] EXCEPT !.unheard = @ \/ At(u, "query")]))
        /\ UNCHANGED <<cache, lock>>
     \/ /\ At(u, "folder") /\ upload[u].level = 0
        /\ Becomes(u, Failed(upload[u])) /\ UNCHANGED <<cache, lock>>
     \/ At(u, "chunk") /\ Goto(u, "cancel") /\ UNCHANGED <<cache, lock>>
     \/ At(u, "delete") /\ Goto(u, "done") /\ UNCHANGED <<cache, lock>>

-----------------------------------------------------------------------------
(* Deletion of what was saved.                                             *)

AskDelete(u) ==
  /\ At(u, "done") /\ upload[u].answer = "saved" /\ upload[u].deletions < MaxDeletions
  /\ upload' = [upload EXCEPT ![u].at = "delete", ![u].deletions = @ + 1]
  /\ Store /\ Quiet

Deleted(r) == [r EXCEPT !.at = "done", !.object = "none", !.answer = "deleted"]

\* A file that is gone already is deleted; not so for WebDAV.
DeleteById(u, heard) ==
  /\ At(u, "delete")
  /\ upload' = [upload EXCEPT ![u] =
       IF heard THEN Deleted(@) ELSE [@ EXCEPT !.at = "done", !.object = "none", !.unheard = TRUE]]
  /\ Heard(heard) /\ Store

DeleteGoogle(u, heard)   == kind = "google" /\ DeleteById(u, heard)
DeleteOneDrive(u, heard) == kind = "onedrive" /\ DeleteById(u, heard)
DeleteOSS(u, heard)      == kind = "oss" /\ DeleteById(u, heard)
DeleteS3(u, heard)       == kind = "s3" /\ DeleteById(u, heard)
DeleteLocal(u, heard)    == kind = "local" /\ DeleteById(u, heard)

DeleteWebDAV(u, heard) ==
  /\ At(u, "delete") /\ kind = "webdav"
  /\ upload' = [upload EXCEPT ![u] =
       IF @.object = "none" THEN [@ EXCEPT !.at = "done"]
       ELSE IF heard THEN Deleted(@) ELSE [@ EXCEPT !.at = "done", !.object = "none", !.unheard = TRUE]]
  /\ Heard(heard) /\ Store

-----------------------------------------------------------------------------
Work == \E u \in Uploads :
  \/ Descend(u) \/ FindFolder(u) \/ Path(u) \/ Level(u) \/ Prepare(u) \/ QueryItem(u)
  \/ \E heard \in BOOLEAN :
       \/ CreateFolder(u, heard) \/ PostFolder(u, heard) \/ PutChunk(u, heard) \/ CancelSession(u, heard)
       \/ SendGoogle(u, heard) \/ SendOneDrive(u, heard) \/ SendOSS(u, heard) \/ SendS3(u, heard)
       \/ MakeDirectory(u, heard) \/ SendStream(u, heard) \/ MoveLocal(u, heard)
       \/ DeleteGoogle(u, heard) \/ DeleteOneDrive(u, heard) \/ DeleteOSS(u, heard) \/ DeleteS3(u, heard)
       \/ DeleteLocal(u, heard) \/ DeleteWebDAV(u, heard)

Next ==
  \/ Work \/ Replace
  \/ \E u \in Uploads : Begin(u) \/ AskDelete(u) \/ Fail(u)

Spec == Init /\ [][Next]_vars /\ WF_vars(Work)

-----------------------------------------------------------------------------
TypeOK ==
  /\ kind \in Kinds /\ client \in 1 .. MaxClients /\ troubles \in 0 .. MaxTroubles
  /\ \A i \in DOMAIN folders : folders[i].parent \in 0 .. Len(folders) /\ folders[i].by \in Uploads
  /\ \A u \in Uploads : /\ upload[u].object \in {"none", "part", "whole"}
                        /\ upload[u].answer \in {"none", "saved", "failed", "deleted"}
                        /\ upload[u].folder \in 0 .. Len(folders) /\ upload[u].level \in 0 .. Depth

\* A file that was reported saved is whole, and under the last folder of the path, until a
\* deletion of it was attempted; what was reported deleted is gone.
SavedIsWhole == \A u \in Uploads :
  /\ upload[u].answer = "saved" =>
       \/ upload[u].object = "whole"
       \/ upload[u].object = "none" /\ upload[u].unheard
  /\ upload[u].answer = "deleted" => upload[u].object = "none"

\* The folder of a file is as deep as its path.
InItsFolder == \A u \in Uploads :
  upload[u].object = "whole" /\ kind \in {"google", "onedrive", "webdav"}
    => upload[u].into # 0 /\ folders[upload[u].into].level = Depth

\* A failed upload leaves nothing behind, unless a call was cut or not answered.
NothingLeft == \A u \in Uploads :
  upload[u].answer = "failed" => upload[u].object = "none" \/ upload[u].unheard

\* Two folders of one name are made by different clients.
OneFolder == \A i, j \in DOMAIN folders :
  i # j /\ folders[i].parent = folders[j].parent => folders[i].client # folders[j].client

\* Nobody waits for a folder that nobody ensures.
WaitsForSomebody == \A u \in Uploads :
  At(u, "wait") => \E e \in Ensuring(u) : At(e.by, "list") \/ At(e.by, "create")

\* Without a failing call an upload fails only at OneDrive, when another made the folder.
FailsForACause == \A u \in Uploads :
  upload[u].answer = "failed" =>
    \/ troubles > 0
    \/ kind = "onedrive" /\ \E i \in DOMAIN folders : folders[i].by # u

Sound == /\ SavedIsWhole /\ InItsFolder /\ NothingLeft
         /\ OneFolder /\ WaitsForSomebody /\ FailsForACause

Answered == \A u \in Uploads : upload[u].at \in {"idle", "done"}
=============================================================================
