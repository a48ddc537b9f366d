------------------------------- MODULE FileList -------------------------------
(***************************************************************************)
(* The list of files of the web interface: pages by keyset on the server   *)
(* (fileQuery.ts, routes/files.ts) and the list the browser builds of them *)
(* (App.tsx, latestRequest.ts) while files come, go and are renamed, the   *)
(* view changes and answers arrive late or not at all.  A row is ordered   *)
(* by its key, a name or a time, and its id; a view is a choice of folder, *)
(* type and search, which shows some of the rows.                          *)
(***************************************************************************)
EXTENDS Naturals, FiniteSets

CONSTANTS
  Rows,        \* ids of rows, in order
  MaxKey,      \* keys are 1 .. MaxKey, 0 stands for no row
  Precision,   \* keys a cursor cannot tell apart: 1 for names, the ticks of a second for times
  Limit,       \* rows of a page
  MaxRequests, \* bound on requests
  MaxChanges   \* bound on rows that come, go or change

VARIABLES
  key,         \* the rows
  view,        \* what the user looks at
  files,       \* the rows in the list
  cursor,      \* fileCursor, NoCursor for null
  loading, loadingMore, stale,
  failed,      \* the last request for a list failed
  requests,    \* requests in flight
  generation,  \* of LatestRequest
  since,       \* rows of the view that were there, unchanged, since the list was asked for
  changes

vars == <<key, view, files, cursor, loading, loadingMore, stale, failed, requests, generation, since, changes>>
flags == <<loading, loadingMore, stale, failed>>

\* normalizeFileListQuery asks for a row at least.
Sized == /\ IsFiniteSet(Rows) /\ Rows \subseteq Nat \ {0}
         /\ MaxKey \in Nat /\ Limit \in Nat \ {0}

\* The key of a row is carried by a cursor as it is.
Exact == Precision = 1

Views   == {1, 2}
Shown(v) == {r \in Rows : key[r] # 0 /\ (v = 1 \/ r > 1)}
NoCursor == [key |-> 0, id |-> 0]

Init ==
  /\ key \in [Rows -> 0 .. MaxKey] /\ view = 1 /\ files = {} /\ cursor = NoCursor
  /\ loading = FALSE /\ loadingMore = FALSE /\ stale = FALSE /\ failed = TRUE
  /\ requests = {} /\ generation = 0 /\ since = {} /\ changes = 0

-----------------------------------------------------------------------------
(* The server.                                                             *)

\* ORDER BY key DESC, id DESC
Before(r, s) == key[r] > key[s] \/ (key[r] = key[s] /\ r > s)

\* cursorForFile: String(Date) cuts a time off at its second.
CursorOf(r) == [key |-> key[r] - (key[r] % Precision), id |-> r]

\* (key, id) < (cursor.key, cursor.id)
After(r, c) == c = NoCursor \/ key[r] < c.key \/ (key[r] = c.key /\ r < c.id)

\* buildFilePageQuery and queryFilesPage: one row more than the limit tells of a next page.
Page(v, c) ==
  LET rest == {r \in Shown(v) : After(r, c)}
      page == {r \in rest : Cardinality({s \in rest : Before(s, r)}) < Limit}
      last == CHOOSE r \in page : \A s \in page : s = r \/ Before(s, r)
  IN  [rows |-> page, next |-> IF page # rest THEN CursorOf(last) ELSE NoCursor]

Serve(q) ==
  /\ ~q.served
  /\ requests' = (requests \ {q}) \cup {[q EXCEPT !.served = TRUE, !.page = Page(q.view, q.cursor)]}
  /\ UNCHANGED <<key, view, files, cursor, flags, generation, since, changes>>

Changed(r) ==
  /\ changes < MaxChanges /\ changes' = changes + 1
  /\ since' = since \ {r}
  /\ UNCHANGED <<view, cursor, flags, requests, generation>>

Insert(r) == /\ key[r] = 0 /\ Changed(r) /\ UNCHANGED files
             /\ \E k \in 1 .. MaxKey : key' = [key EXCEPT ![r] = k]

\* A name is changed, here or by somebody else.
Rename(r) == /\ key[r] # 0 /\ Changed(r) /\ UNCHANGED files
             /\ \E k \in 1 .. MaxKey : key' = [key EXCEPT ![r] = k]

\* Deleted by somebody else, or here, with the row taken out of the list.
Delete(r) == /\ key[r] # 0 /\ Changed(r)
             /\ key' = [key EXCEPT ![r] = 0]
             /\ files' \in {files, files \ {r}}

-----------------------------------------------------------------------------
(* The browser.                                                            *)

\* LatestRequest.begin: the one in flight is aborted.
Begin(more, v, c) ==
  /\ generation < MaxRequests
  /\ generation' = generation + 1
  /\ requests' = requests \cup {[generation |-> generation + 1, more |-> more, view |-> v, cursor |-> c,
                                 served |-> FALSE, page |-> [rows |-> {}, next |-> NoCursor]]}

\* LatestRequest.isCurrent
IsCurrent(q) == q.generation = generation

\* loadFiles, for another view or again.
LoadFiles(v) ==
  /\ Begin(FALSE, v, NoCursor)
  /\ view' = v /\ loading' = TRUE /\ failed' = FALSE
  /\ since' = Shown(v)
  /\ UNCHANGED <<key, files, cursor, loadingMore, stale, changes>>

\* loadMoreFiles
LoadMore ==
  /\ ~loading /\ ~loadingMore /\ cursor # NoCursor
  /\ Begin(TRUE, view, cursor)
  /\ loadingMore' = TRUE
  /\ UNCHANGED <<key, view, files, cursor, loading, stale, failed, since, changes>>

\* An answer arrives; only the latest request commits, and only it ends its own waiting.
Deliver(q) ==
  /\ q.served
  /\ requests' = requests \ {q}
  /\ IF ~IsCurrent(q)
     THEN UNCHANGED <<files, cursor, loading, loadingMore, stale>>
     ELSE /\ files' = IF q.more THEN files \cup q.page.rows ELSE q.page.rows
          /\ cursor' = q.page.next
          /\ stale' = FALSE
          /\ loading' = (loading /\ q.more)
          /\ loadingMore' = (loadingMore /\ ~q.more)
  /\ UNCHANGED <<key, view, failed, generation, since, changes>>

\* An error, or the abort of a request that is no longer the latest.
Fail(q) ==
  /\ requests' = requests \ {q}
  /\ IF ~IsCurrent(q)
     THEN UNCHANGED <<loading, loadingMore, stale, failed>>
     ELSE /\ stale' = (q.more \/ files # {})
          /\ failed' = (failed \/ ~q.more)
          /\ loading' = (loading /\ q.more)
          /\ loadingMore' = (loadingMore /\ ~q.more)
  /\ UNCHANGED <<key, view, files, cursor, generation, since, changes>>

-----------------------------------------------------------------------------
Next ==
  \/ \E r \in Rows : Insert(r) \/ Rename(r) \/ Delete(r)
  \/ \E v \in Views : LoadFiles(v)
  \/ LoadMore
  \/ \E q \in requests : Serve(q) \/ Deliver(q) \/ Fail(q)

Spec == Init /\ [][Next]_vars

-----------------------------------------------------------------------------
TypeOK ==
  /\ key \in [Rows -> 0 .. MaxKey] /\ view \in Views /\ files \subseteq Rows /\ since \subseteq Rows
  /\ loading \in BOOLEAN /\ loadingMore \in BOOLEAN /\ stale \in BOOLEAN /\ failed \in BOOLEAN
  /\ \A q \in requests : q.generation <= generation

Settled == ~loading /\ ~stale /\ ~failed

\* What is shown belongs to what the user looks at, however late the answers of other
\* views arrive.  (Not after a list could not be loaded: the rows of the view before are
\* then kept, and loading more adds to them.)
ShowsTheView == Settled => \A r \in files : view = 1 \/ r > 1

\* Page after page, a list that has come to its end shows every row that was there all
\* along, whatever comes, goes and moves meanwhile.
ListIsComplete == (Settled /\ cursor = NoCursor) => since \subseteq files

Sound == ShowsTheView /\ ListIsComplete
=============================================================================
