------------------------------ MODULE FolderTree ------------------------------
(***************************************************************************)
(* Folders of the library (routes/folderOperations.ts, routes/files.ts).   *)
(* A folder is nothing but the path that rows of files carry, and an empty *)
(* one a row named ".folder".  Every operation is a query that checks and  *)
(* an update that relies on it, each a statement of its own that sees what *)
(* is committed by then (renaming and moving run in a transaction of READ  *)
(* COMMITTED), and most of them read the default account again for the     *)
(* update.                                                                 *)
(***************************************************************************)
EXTENDS Naturals, Sequences, FiniteSets

CONSTANTS
  Files,        \* rows of files
  Holders,      \* rows of empty folders
  Accounts,     \* accounts of storage, and the local disk
  Clouds,       \* those that are accounts
  Names,        \* segments of a path
  Paths,        \* the paths that are short enough for the column, <<>> for no folder
  Admins,       \* requests in progress
  MaxBegun,     \* bound on requests: one that finds others in progress counts for more
  MaxEvents     \* bound on deletions, changes of the default account and errors

Rows == Files \cup Holders

\* folderParent.
Parent(path) == SubSeq(path, 1, Len(path) - 1)

\* What is above a folder is shorter than its path.
Shaped == /\ Files \cap Holders = {} /\ 0 \notin Rows
          /\ Paths \subseteq Seq(Names) /\ <<>> \in Paths
          /\ \A path \in Paths \ {<<>>} : Parent(path) \in Paths

VARIABLES
  rows,     \* the rows that are there
  used,     \* those that have been: an id is given once
  place,    \* the account and the folder of a row, <<>> for none
  stars,    \* is_favorite
  scope,    \* the default account
  request,  \* what each request is about to do
  crossed,  \* whether folders were changed between a check and its update
  told,     \* the last answer about the star of a folder, until something else is written
  begun, events

vars == <<rows, used, place, stars, scope, request, crossed, told, begun, events>>

\* since: what others wrote since the first check.
Quiet == [at |-> "idle", row |-> 0, account |-> 0, from |-> <<>>, to |-> <<>>,
          parent |-> <<>>, value |-> FALSE, since |-> {}]

\* isFolderWithin, and the clause "folder = p OR folder starts with p/" of every query.
Within(path, top) == Len(top) <= Len(path) /\ SubSeq(path, 1, Len(top)) = top

Exactly(a, path) == {r \in rows : place[r] = [account |-> a, folder |-> path]}
Under(a, path)   == {r \in rows : place[r].account = a /\ Within(place[r].folder, path)}

\* The list of folders (GET /folders/aggregation): those with a row, and whether all in
\* them are stars.
Listed(a)        == {place[r].folder : r \in {s \in rows : place[s].account = a}} \ {<<>>}
Starred(a, path) == Exactly(a, path) \subseteq stars

\* getScopedFileById
Seen(r) == r \in rows /\ place[r].account = scope

\* The path below to of what is below from.
Graft(path, from, to) == to \o SubSeq(path, Len(from) + 1, Len(path))

Init ==
  /\ rows = {} /\ used = {} /\ stars = {} /\ crossed = FALSE /\ told = {}
  /\ scope \in Accounts
  /\ place = [r \in Rows |-> [account |-> scope, folder |-> <<>>]]
  /\ request = [h \in Admins |-> Quiet]
  /\ begun = 0 /\ events = 0

Begin(h, q) ==
  /\ request[h] = Quiet
  /\ begun' = begun + 1 + Cardinality({g \in Admins : request[g] # Quiet}) /\ begun' <= MaxBegun
  /\ request' = [request EXCEPT ![h] = q]
  /\ UNCHANGED <<rows, used, place, stars, scope, crossed, told, events>>

Goes(h, stage) ==
  /\ request' = [request EXCEPT ![h].at = stage]
  /\ UNCHANGED <<rows, used, place, stars, scope, crossed, told, begun, events>>

Ends(h) ==
  /\ request' = [request EXCEPT ![h] = Quiet]
  /\ UNCHANGED <<rows, used, place, stars, scope, crossed, told, begun, events>>

\* Everybody but those in done learns of a write of kind k.
Overtaken(k, done) == [g \in Admins |-> IF g \in done \/ request[g] = Quiet THEN Quiet
                                        ELSE [request[g] EXCEPT !.since = @ \cup {k}]]

\* The update of h ends it, and the others did not count with it.
Writes(h, k, answer) ==
  /\ request' = Overtaken(k, {h}) /\ told' = answer
  /\ crossed' = (crossed \/ (k = "folder" /\ k \in request[h].since))
  /\ UNCHANGED <<scope, begun, events>>

-----------------------------------------------------------------------------
(* POST /folders: an empty folder.  The account is read once.              *)

\* idx_files_account_path_unique: the path of every row that stands for an empty folder is
\* ".folder", and a path is unique in an account.
Refused(a) == a \in Clouds /\ \E r \in Holders \cap rows : place[r].account = a

Inserting == {g \in Admins : request[g].at = "insert"}

AskCreate(h, path) ==
  /\ Cardinality(Holders \ used) > Cardinality(Inserting)
  /\ path # <<>> /\ Exactly(scope, path) = {}
  /\ Begin(h, [Quiet EXCEPT !.at = "insert", !.account = scope, !.to = path])

Insert(h) ==
  LET q == request[h]
      new == CHOOSE r \in Holders : r \notin used
  IN  /\ q.at = "insert" /\ new \in Holders \ used
      /\ IF Refused(q.account) THEN Ends(h)
         ELSE /\ rows' = rows \cup {new} /\ used' = used \cup {new}
              /\ place' = [place EXCEPT ![new] = [account |-> q.account, folder |-> q.to]]
              /\ Writes(h, "folder", {})
              /\ UNCHANGED stars

-----------------------------------------------------------------------------
(* POST /folders/favorite turns the whole folder over, in the account that *)
(* was the default when it began; POST /:id/favorite turns a file over.    *)

AskStarFolder(h, path) ==
  /\ path # <<>> /\ Under(scope, path) # {}
  /\ Begin(h, [Quiet EXCEPT !.at = "star", !.account = scope, !.to = path,
                            !.value = ~(Under(scope, path) \subseteq stars)])

StarFolder(h) ==
  LET q == request[h]
      tree == Under(q.account, q.to)
  IN  /\ q.at = "star"
      /\ stars' = IF q.value THEN stars \cup tree ELSE stars \ tree
      /\ Writes(h, "star", {[account |-> q.account, folder |-> q.to, value |-> q.value]})
      /\ UNCHANGED <<rows, used, place>>

AskStarFile(h, f) ==
  /\ Seen(f)
  /\ Begin(h, [Quiet EXCEPT !.at = "mark", !.row = f, !.value = f \notin stars])

\* An update that finds no row counts as done.
StarFile(h) ==
  LET q == request[h]
  IN  /\ q.at = "mark"
      /\ stars' = IF ~Seen(q.row) THEN stars ELSE IF q.value THEN stars \cup {q.row} ELSE stars \ {q.row}
      /\ Writes(h, "star", {})
      /\ UNCHANGED <<rows, used, place>>

-----------------------------------------------------------------------------
(* PATCH /:id/move: a file goes to a folder that is there, or to none.     *)

AskPut(h, f, path) ==
  /\ path = <<>> \/ Under(scope, path) # {}
  /\ Begin(h, [Quiet EXCEPT !.at = "find", !.row = f, !.to = path])

FindFile(h) ==
  /\ request[h].at = "find"
  /\ IF Seen(request[h].row) THEN Goes(h, "put") ELSE Ends(h)

\* updateScopedFileById: a file of what is another account by now stays where it is.
Refiled(f, path) == IF Seen(f) THEN [place EXCEPT ![f].folder = path] ELSE place

Put(h) ==
  LET q == request[h]
  IN  /\ q.at = "put"
      /\ place' = Refiled(q.row, q.to)
      /\ Writes(h, "file", {})
      /\ UNCHANGED <<rows, used, stars>>

-----------------------------------------------------------------------------
(* PATCH /move-folder and PATCH /rename-folder: buildFolderMovePreview,    *)
(* whose queries share one reading of the account, then updateFolderTree.  *)

\* A folder that is there goes neither into itself nor where it is, nor too deep.
Movable(from, parent, to) ==
  /\ Under(scope, from) # {}
  /\ ~(parent # <<>> /\ Within(parent, from)) /\ to # from
  /\ \A r \in Under(scope, from) : Graft(place[r].folder, from, to) \in Paths

\* What a preview finds, the one before a move and that of POST /move-folder/preview.
Moving(stage, from, parent, to) ==
  [Quiet EXCEPT !.at = stage, !.account = scope, !.from = from, !.parent = parent, !.to = to]

AskMove(h, from, parent) ==
  LET to == Append(parent, from[Len(from)])
  IN  /\ from # <<>> /\ Movable(from, parent, to)
      /\ Begin(h, Moving(IF parent = <<>> THEN "target" ELSE "parent", from, parent, to))

AskRename(h, from, name) ==
  LET to == Append(Parent(from), name)
  IN  /\ from # <<>> /\ Movable(from, Parent(from), to)
      /\ Begin(h, Moving("target", from, Parent(from), to))

FindParent(h) ==
  LET q == request[h]
  IN  /\ q.at = "parent"
      /\ IF Under(q.account, q.parent) # {} THEN Goes(h, "target") ELSE Ends(h)

\* A slip: what is below the target does not count.
ExactlyFree(a, from, to) == Exactly(a, to) \ Under(a, from) = {}

Free(a, from, to) == Under(a, to) \ Under(a, from) = {}

FindTarget(h) ==
  LET q == request[h]
  IN  /\ q.at = "target"
      /\ IF Free(q.account, q.from, q.to) THEN Goes(h, "rewrite") ELSE Ends(h)

\* updateFolderTree, in the account that is the default by now; one path that is too long
\* fails the statement.
Rewrite(h) ==
  LET q == request[h]
      tree == Under(scope, q.from)
      moved == [r \in Rows |-> IF r \in tree THEN [place[r] EXCEPT !.folder = Graft(@, q.from, q.to)] ELSE place[r]]
  IN  /\ q.at = "rewrite"
      /\ IF \A r \in tree : moved[r].folder \in Paths
         THEN place' = moved /\ Writes(h, "folder", {}) /\ UNCHANGED <<rows, used, stars>>
         ELSE Ends(h)

-----------------------------------------------------------------------------
(* The rest of the service: files come and go, the default account changes *)
(* and the database fails.                                                 *)

Arrive(f, a, path) ==
  /\ f \in Files \ used
  /\ rows' = rows \cup {f} /\ used' = used \cup {f}
  /\ place' = [place EXCEPT ![f] = [account |-> a, folder |-> path]]
  /\ request' = Overtaken("file", {}) /\ told' = {}
  /\ UNCHANGED <<stars, scope, crossed, begun, events>>

Depart(r) ==
  /\ r \in rows /\ events < MaxEvents
  /\ events' = events + 1
  /\ rows' = rows \ {r} /\ stars' = stars \ {r}
  /\ request' = Overtaken("file", {}) /\ told' = {}
  /\ UNCHANGED <<used, place, scope, crossed, begun>>

Switch(a) ==
  /\ a # scope /\ events < MaxEvents
  /\ scope' = a /\ events' = events + 1
  /\ request' = Overtaken("folder", {})
  /\ UNCHANGED <<rows, used, place, stars, crossed, told, begun>>

Fail(h) ==
  /\ request[h] # Quiet /\ events < MaxEvents
  /\ events' = events + 1
  /\ request' = [request EXCEPT ![h] = Quiet]
  /\ UNCHANGED <<rows, used, place, stars, scope, crossed, told, begun>>

Work == \E h \in Admins : \/ Insert(h) \/ StarFolder(h) \/ StarFile(h) \/ FindFile(h) \/ Put(h)
                          \/ FindParent(h) \/ FindTarget(h) \/ Rewrite(h)

Next ==
  \/ Work
  \/ \E h \in Admins : \/ \E path \in Paths : AskCreate(h, path) \/ AskStarFolder(h, path)
                       \/ \E f \in Files : AskStarFile(h, f)
                       \/ \E f \in Files, path \in Paths : AskPut(h, f, path)
                       \/ \E from, parent \in Paths : AskMove(h, from, parent)
                       \/ \E from \in Paths, name \in Names : AskRename(h, from, name)
                       \/ Fail(h)
  \/ \E f \in Files, a \in Accounts, path \in Paths : Arrive(f, a, path)
  \/ \E r \in Rows : Depart(r)
  \/ \E a \in Accounts : Switch(a)

-----------------------------------------------------------------------------
TypeOK ==
  /\ rows \subseteq used /\ used \subseteq Rows /\ stars \subseteq rows
  /\ place \in [Rows -> [account : Accounts, folder : Paths]]
  /\ scope \in Accounts /\ crossed \in BOOLEAN
  /\ \A h \in Admins : /\ request[h].since \subseteq {"folder", "file", "star"}
                       /\ request[h].row \in Rows \cup {0} /\ request[h].to \in Paths

\* An empty folder is created once: whatever is renamed and moved about, no two rows stand
\* for one folder of an account, unless folders changed between a check and its update.
OneHolder == crossed \/ \A r, s \in Holders \cap rows : place[r] = place[s] => r = s

Steady(q, kinds) == q.since \cap kinds = {}

\* What a request is about to write it may still write, unless another write came between:
\* a folder created is new, a file put away goes to a folder that is there, a folder moved
\* goes to where nothing is but itself, and what is turned over is what was seen.
ChecksHold ==
  \A h \in Admins :
    LET q == request[h] IN
    /\ (q.at = "insert" /\ Steady(q, {"folder", "file"})) => Exactly(scope, q.to) = {}
    /\ (q.at = "put" /\ Steady(q, {"folder", "file"})) =>
         Seen(q.row) /\ (q.to = <<>> \/ Under(scope, q.to) # {})
    /\ (q.at = "rewrite" /\ Steady(q, {"folder", "file"})) =>
         /\ Under(scope, q.from) # {} /\ Under(scope, q.parent) # {}
         /\ Under(scope, q.to) \subseteq Under(scope, q.from) /\ ~Within(q.to, q.from)
    /\ (q.at = "star" /\ q.since = {}) => q.value = ~(Under(scope, q.to) \subseteq stars)
    /\ (q.at = "mark" /\ q.since = {}) => Seen(q.row) /\ q.value = (q.row \notin stars)

\* What a user was told of the stars of a folder is what the list shows, of it and of all
\* folders below it.
StarsShow ==
  \A t \in told : \A path \in Listed(t.account) :
    Within(path, t.folder) => Starred(t.account, path) = t.value

Sound == StarsShow /\ OneHolder /\ ChecksHold

Answered == \A h \in Admins : request[h] = Quiet
=============================================================================
