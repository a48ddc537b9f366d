------------------------------- MODULE WebUpload -------------------------------
(***************************************************************************)
(* A large file from the web interface to the chunk directory: the upload  *)
(* queue of the browser (boundedUploadQueue.ts), the client of the protocol*)
(* (chunkedUpload of api.ts, chunkUploadProtocol.ts) and the handlers that *)
(* reserve a session and write its chunks (routes/chunkedUpload.ts,        *)
(* chunkUploadSessions.ts).  What a completion does after the merge is in  *)
(* ChunkCompletion; here it succeeds or fails.                             *)
(*                                                                         *)
(* The browser aborts requests whose handlers go on; handlers of one chunk *)
(* queue up behind each other; a commit may be heard of or not.            *)
(***************************************************************************)
EXTENDS Naturals, Sequences, FiniteSets

CONSTANTS
  Scenes,       \* what is looked at: entries of the upload queue, and chunks an upload sends at a time
  Chunks,       \* 1..n, the chunks of every file, all of one size
  Writers,      \* 1..n, POST /chunk requests under way at a time
  Concurrency,  \* places of the upload queue
  Budget,       \* chunks that open sessions may reserve together
  MaxSessions,  \* bound on sessions
  MaxSteps,     \* bound on commands of the user
  MaxMishaps,   \* bound on failures, each of a different kind
  Mishaps       \* the kinds: "crash", "error", "unheard", "expiry"

VARIABLES
  scene,     \* the scene, a record [tasks, workers]
  line,      \* BoundedUploadQueue.pending
  paused,    \* BoundedUploadQueue.paused
  task,      \* an entry of the queue and the run of chunkedUpload for it
  row,       \* chunk_upload_sessions with its chunk_upload_chunks
  writer,    \* handlers of POST /chunk
  completer, \* the handler of POST /complete of a session
  disk,      \* files under the chunk directories
  locks,     \* lock files of chunks
  doomed,    \* sessions whose directory is about to be removed
  journal,   \* sessions of which an earlier completion left its journal pending
  steps, mishaps

vars == <<scene, line, paused, task, row, writer, completer, disk, locks, doomed, journal, steps, mishaps>>
clientVars == <<line, paused, task>>
serverVars == <<row, writer, completer, disk, locks, doomed, journal>>
counts     == <<steps, mishaps>>
Tasks      == UNION {sc.tasks : sc \in Scenes}

\* What the constants have to be: 0 is nobody, and BoundedUploadQueue refuses to have no place.
Sized == /\ IsFiniteSet(Tasks) /\ 0 \notin Tasks
         /\ IsFiniteSet(Chunks) /\ 0 \notin Chunks /\ 0 \notin Writers
         /\ Concurrency \in Nat \ {0} /\ Budget \in Nat /\ MaxSessions \in Nat

Sessions == 1..MaxSessions
NewTask == [state |-> "new", pc |-> "off", aborted |-> FALSE, failed |-> FALSE, session |-> 0,
            asked |-> {}, seen |-> {}, told |-> "none"]
Idle    == [pc |-> "idle", session |-> 0, chunk |-> 0, after |-> 0, for |-> 0]

Init ==
  /\ scene \in Scenes
  /\ line = <<>> /\ paused = FALSE
  /\ task = [t \in Tasks |-> NewTask]
  /\ row = [s \in Sessions |-> [status |-> "none", expired |-> FALSE, chunk |-> [c \in Chunks |-> 0]]]
  /\ writer = [w \in Writers |-> Idle]
  /\ completer = [s \in Sessions |-> [pc |-> "off", for |-> 0]]
  /\ disk = {} /\ locks = {} /\ doomed = {} /\ journal = {}
  /\ steps = 0 /\ mishaps = {}

Mishap(kind) == /\ kind \in Mishaps \ mishaps
                /\ Cardinality(mishaps) < MaxMishaps
                /\ mishaps' = mishaps \cup {kind}

-----------------------------------------------------------------------------
(* The queue of the browser.                                               *)

Active(ts) == {t \in Tasks : ts[t].state = "active"}
Begun(r) == [r EXCEPT !.state = "active", !.aborted = FALSE, !.failed = FALSE, !.asked = {}, !.seen = {},
                      !.told = "none", !.pc = IF r.session = 0 THEN "init" ELSE "list"]

\* pump: waiting entries take the free places in their order.
Pump(ts, q, p) ==
  LET free == IF p THEN 0 ELSE Concurrency - Cardinality(Active(ts))
      n    == IF free < Len(q) THEN free ELSE Len(q)
      next == {q[i] : i \in 1..n}
  IN  /\ task' = [t \in Tasks |-> IF t \in next THEN Begun(ts[t]) ELSE ts[t]]
      /\ line' = SubSeq(q, n + 1, Len(q))
      /\ paused' = p

Command == /\ steps < MaxSteps
           /\ steps' = steps + 1
           /\ UNCHANGED <<serverVars, mishaps>>

Waiting(t, session) ==
  Pump([task EXCEPT ![t] = [NewTask EXCEPT !.state = "pending", !.session = session]], Append(line, t), paused)

Live(s) == row[s].status \in {"open", "completing", "failed"} /\ ~row[s].expired

\* startUpload and handleResumeUpload: the entry of a new file, or of a session the list shows.
Enqueue(t) ==
  /\ task[t].state = "new" /\ t \in scene.tasks
  /\ \/ Waiting(t, 0)
     \/ \E s \in Sessions : Live(s) /\ Waiting(t, s)
  /\ Command

\* handleRetryUpload: the input keeps the session the first run attached.
Retry(t) ==
  /\ task[t].state = "settled" /\ task[t].told # "ok"
  /\ Waiting(t, task[t].session)
  /\ Command

Cancelled(r) == CASE r.state = "pending" -> [r EXCEPT !.state = "settled", !.told = "cancelled"]
                  [] r.state = "active"  -> [r EXCEPT !.aborted = TRUE]
                  [] OTHER               -> r

\* The requests of an aborted upload are no longer waited for.
Unheard(ts) == writer' = [w \in Writers |-> IF writer[w].for \in ts THEN [writer[w] EXCEPT !.for = 0] ELSE writer[w]]

\* indexOf and splice.
Spliced(q, t) ==
  LET places == {i \in 1..Len(q) : q[i] = t}
      i      == CHOOSE i \in places : \A j \in places : i <= j
  IN  IF places = {} THEN q ELSE SubSeq(q, 1, i - 1) \o SubSeq(q, i + 1, Len(q))

\* A slip: a cancelled entry keeps its place in the line.
CancelTasksInLine(ts, q, p) ==
  /\ task' = [t \in Tasks |-> IF t \in ts THEN Cancelled(task[t]) ELSE task[t]]
  /\ line' = line /\ paused' = p
  /\ Unheard(ts)
  /\ steps < MaxSteps /\ steps' = steps + 1
  /\ UNCHANGED <<row, completer, disk, locks, doomed, mishaps, journal>>

CancelTasks(ts, q, p) ==
  /\ task' = [t \in Tasks |-> IF t \in ts THEN Cancelled(task[t]) ELSE task[t]]
  /\ line' = q /\ paused' = p
  /\ Unheard(ts)
  /\ steps < MaxSteps /\ steps' = steps + 1
  /\ UNCHANGED <<row, completer, disk, locks, doomed, mishaps, journal>>

\* An entry that waits leaves the line, one that is sent is aborted.
Cancel(t) ==
  /\ task[t].state \in {"pending", "active"} /\ ~task[t].aborted
  /\ CancelTasks({t}, IF task[t].state = "pending" THEN Spliced(line, t) ELSE line, paused)

\* reset, when the user signs out: everything is cancelled and the pause lifted.
Reset == Active(task) # {} /\ CancelTasks(Tasks, <<>>, FALSE)

Pause  == ~paused /\ Pump(task, line, TRUE) /\ Command
Resume == paused /\ Pump(task, line, FALSE) /\ Command

\* confirmCancelRecoveredUpload: a session of the list is cancelled, whoever is sending to it.
CancelRecovered(s) ==
  /\ Live(s) /\ row[s].status # "completing"
  /\ steps < MaxSteps /\ steps' = steps + 1
  /\ row' = [row EXCEPT ![s].status = "cancelled"]
  /\ doomed' = doomed \cup {s}
  /\ UNCHANGED <<clientVars, writer, completer, disk, locks, mishaps, journal>>

\* The promise of an entry is settled; an AbortError detaches its session.
Over(r, how) == [r EXCEPT !.state = "settled", !.pc = "off", !.told = how, !.asked = {}, !.seen = {},
                          !.session = IF how = "cancelled" THEN 0 ELSE @]

\* A slip: whoever ends does not call the next.
SettleQuietly(t, how) ==
  /\ task' = [task EXCEPT ![t] = Over(@, how)]
  /\ UNCHANGED <<line, paused>>

Settle(t, how) == Pump([task EXCEPT ![t] = Over(@, how)], line, paused)

At(t, pc)   == task[t].pc = pc /\ ~task[t].aborted
Goto(t, pc) == task' = [task EXCEPT ![t].pc = pc] /\ UNCHANGED <<line, paused>>

-----------------------------------------------------------------------------
(* The client: open or reopen a session, send the chunks, complete.        *)

Fresh == {s \in Sessions : row[s].status = "none" /\ \A k \in 1..(s - 1) : row[k].status # "none"}

\* A slip: a session that failed to complete gives its reservation back.
CountedOpen == {s \in Sessions : row[s].status \in {"open", "completing"} /\ ~row[s].expired}

Counted == {s \in Sessions : Live(s)}

\* reserveSession, under its advisory lock.
Affordable == (Cardinality(Counted) + 1) * Cardinality(Chunks) <= Budget
Opened(s) == row' = [row EXCEPT ![s].status = "open"]

InitSession(t) ==
  /\ At(t, "init")
  /\ \E s \in Fresh :
       /\ Affordable
       /\ Opened(s)
       /\ task' = [task EXCEPT ![t].session = s, ![t].pc = "chunks"]
  /\ UNCHANGED <<line, paused, writer, completer, disk, locks, doomed, counts, journal>>

\* The budget is used up (so are the sessions of the model).
InitRefused(t) ==
  /\ At(t, "init")
  /\ ~Affordable \/ Fresh = {}
  /\ Settle(t, "error")
  /\ UNCHANGED <<serverVars, counts>>

\* The row is there, but the answer was lost, or the handler saw an error and removed the directory.
InitUnheard(t) ==
  /\ At(t, "init") /\ Mishap("unheard")
  /\ \E s \in Fresh : Affordable /\ Opened(s)
  /\ Settle(t, "error")
  /\ UNCHANGED <<writer, completer, disk, locks, doomed, steps, journal>>

\* Aborted before the session is known, or while it is looked up: nobody tells the server.
AbortEarly(t) ==
  /\ task[t].aborted /\ task[t].pc \in {"init", "list", "reopen"}
  /\ \/ task[t].pc = "init" /\ (\E s \in Fresh : Affordable /\ Opened(s))
     \/ UNCHANGED row
  /\ Settle(t, "cancelled")
  /\ UNCHANGED <<writer, completer, disk, locks, doomed, counts, journal>>

Recorded(s) == {c \in Chunks : row[s].chunk[c] # 0}

\* resumeChunkedUpload: the list of sessions says what is there already.
ListSessions(t) ==
  LET s == task[t].session
  IN  /\ At(t, "list")
      /\ IF Live(s) /\ row[s].status # "completing"
         THEN /\ task' = [task EXCEPT ![t].pc = IF row[s].status = "failed" THEN "reopen" ELSE "chunks",
                                      ![t].asked = Recorded(s), ![t].seen = Recorded(s)]
              /\ UNCHANGED <<line, paused>>
         ELSE Settle(t, "error")
      /\ UNCHANGED <<serverVars, counts>>

Reopen(t) ==
  LET s == task[t].session
  IN  /\ At(t, "reopen")
      /\ IF row[s].status = "failed" /\ ~row[s].expired /\ s \notin journal
         THEN row' = [row EXCEPT ![s].status = "open"] /\ Goto(t, "chunks")
         ELSE UNCHANGED row /\ Settle(t, "error")
      /\ UNCHANGED <<writer, completer, disk, locks, doomed, counts, journal>>

Same(w, s, c) == writer[w].pc # "idle" /\ writer[w].session = s /\ writer[w].chunk = c
\* The entry of chunkWriteLocks: the last handler that came for the chunk.
Last(s, c) == {w \in Writers : Same(w, s, c) /\ \A v \in Writers : writer[v].after # w}

Outstanding(t) == {w \in Writers : writer[w].for = t}

\* A worker of runChunkUploadWorkers takes the next index and sends the chunk.
Ask(t) ==
  LET s == task[t].session
  IN  /\ At(t, "chunks") /\ ~task[t].failed
      /\ Cardinality(Outstanding(t)) < scene.workers
      /\ \E next \in Chunks \ task[t].asked, w \in Writers :
           /\ \A k \in Chunks \ task[t].asked : next <= k
           /\ writer[w].pc = "idle" /\ \A k \in 1..(w - 1) : writer[k].pc # "idle"
           /\ writer' = [writer EXCEPT ![w] =
                [pc |-> "queue", session |-> s, chunk |-> next, for |-> t,
                 after |-> IF Last(s, next) = {} THEN 0 ELSE CHOOSE v \in Last(s, next) : TRUE]]
           /\ task' = [task EXCEPT ![t].asked = @ \cup {next}]
      /\ UNCHANGED <<line, paused, row, completer, disk, locks, doomed, counts, journal>>

\* POST /complete: an upload that is complete already is answered, one that is all there is claimed.
Complete(t) ==
  LET s == task[t].session
  IN  /\ At(t, "chunks") /\ ~task[t].failed
      /\ task[t].asked = Chunks /\ Outstanding(t) = {}
      /\ IF row[s].status = "open" /\ Recorded(s) = Chunks
         THEN /\ row' = [row EXCEPT ![s].status = "completing"]
              /\ completer' = [completer EXCEPT ![s] = [pc |-> "merge", for |-> t]]
              /\ Goto(t, "await")
         ELSE /\ Settle(t, IF row[s].status = "completed" THEN "ok" ELSE "error")
              /\ UNCHANGED <<row, completer>>
      /\ UNCHANGED <<writer, disk, locks, doomed, counts, journal>>

\* All workers have stopped after the first failure.
GiveUp(t) ==
  /\ At(t, "chunks") /\ task[t].failed /\ Outstanding(t) = {}
  /\ Settle(t, "error")
  /\ UNCHANGED <<serverVars, counts>>

\* The catch of an aborted upload asks the server to cancel the session.
AskCancel(t) ==
  LET s == task[t].session
  IN  /\ task[t].aborted /\ task[t].pc \in {"chunks", "await"}
      /\ IF row[s].status \in {"open", "failed"}
         THEN /\ row' = [row EXCEPT ![s].status = "cancelled"]
              /\ doomed' = doomed \cup {s}
              /\ Goto(t, "wiped")
         ELSE /\ Settle(t, IF row[s].status = "completing" THEN "error" ELSE "cancelled")
              /\ UNCHANGED <<row, doomed>>
      /\ UNCHANGED <<writer, completer, disk, locks, counts, journal>>

AskCancelFails(t) ==
  /\ task[t].aborted /\ task[t].pc \in {"chunks", "await"}
  /\ Mishap("error")
  /\ Settle(t, "error")
  /\ UNCHANGED <<serverVars, steps>>

CancelAnswered(t) ==
  /\ task[t].pc = "wiped" /\ task[t].session \notin doomed
  /\ Settle(t, "cancelled")
  /\ UNCHANGED <<serverVars, counts>>

-----------------------------------------------------------------------------
(* The server: writing a chunk.                                            *)

Turn(w, pc) == writer[w].pc = pc /\ writer[w].after = 0
Step(w, pc) == writer' = [writer EXCEPT ![w].pc = pc] /\ UNCHANGED clientVars
Lock(w) == <<writer[w].session, writer[w].chunk>>
File(w) == <<writer[w].session, writer[w].chunk, w>>
Part(w) == <<writer[w].session, writer[w].chunk, w, "part">>

\* The handler answers and lets the next one of its chunk begin.  A failure makes the
\* client abort the other chunks of the upload; an answer to nobody is lost.
Answer(w, ok) ==
  LET t == writer[w].for
  IN  /\ writer' = [v \in Writers |->
           IF v = w THEN Idle
           ELSE [writer[v] EXCEPT !.after = IF @ = w THEN 0 ELSE @,
                                  !.for = IF ~ok /\ t # 0 /\ @ = t THEN 0 ELSE @]]
      /\ task' = IF t = 0 THEN task
                 ELSE IF ok THEN [task EXCEPT ![t].seen = @ \cup {writer[w].chunk}]
                 ELSE [task EXCEPT ![t].failed = TRUE]
      /\ UNCHANGED <<line, paused>>

\* writeChunkUnlocked reads the session and the chunk.
Check(w) ==
  LET s == writer[w].session  c == writer[w].chunk
  IN  /\ Turn(w, "queue")
      /\ IF row[s].status # "open" THEN Answer(w, FALSE)
         ELSE IF row[s].chunk[c] # 0 THEN Answer(w, TRUE)
         ELSE Step(w, "open")
      /\ UNCHANGED <<row, completer, disk, locks, doomed, counts, journal>>

\* openChunkLock: a lock left by a crash is honoured until it is old.
OpenLock(w) ==
  /\ Turn(w, "open")
  /\ IF \E l \in locks : l[1] = Lock(w) /\ l[2] # "old"
     THEN Answer(w, FALSE) /\ UNCHANGED <<disk, locks>>
     ELSE /\ locks' = {l \in locks : l[1] # Lock(w)} \cup {<<Lock(w), "new">>}
          /\ disk' = disk \cup {Part(w)}
          /\ Step(w, "write")
  /\ UNCHANGED <<row, completer, doomed, counts, journal>>

Unlocked(w) == {l \in locks : l[1] # Lock(w)}

\* writeChunkAtomically: the part is written and renamed, unless the directory went away.
WritePart(w) ==
  /\ Turn(w, "write")
  /\ locks' = Unlocked(w)
  /\ IF Part(w) \in disk
     THEN disk' = (disk \ {Part(w)}) \cup {File(w)} /\ Step(w, "record")
     ELSE UNCHANGED disk /\ Answer(w, FALSE)
  /\ UNCHANGED <<row, completer, doomed, counts, journal>>

\* The browser broke the stream off, or the disk failed.
WriteBreaks(w) ==
  /\ Turn(w, "write")
  /\ IF writer[w].for = 0 THEN UNCHANGED mishaps ELSE Mishap("error")
  /\ locks' = Unlocked(w)
  /\ disk' = disk \ {Part(w)}
  /\ Answer(w, FALSE)
  /\ UNCHANGED <<row, completer, doomed, steps, journal>>

\* recordChunk: an open session takes the chunk unless it has one.
Accepts(s) == row[s].status = "open" /\ ~row[s].expired

Record(w) ==
  LET s == writer[w].session  c == writer[w].chunk
  IN  /\ Turn(w, "record")
      /\ IF ~Accepts(s) THEN Step(w, "drop") /\ UNCHANGED row
         ELSE IF row[s].chunk[c] = 0
         THEN row' = [row EXCEPT ![s].chunk[c] = w] /\ Answer(w, TRUE)
         ELSE Step(w, "same") /\ UNCHANGED row
      /\ UNCHANGED <<completer, disk, locks, doomed, counts, journal>>

\* The commit took effect, and the handler sees an error.
RecordUnheard(w) ==
  LET s == writer[w].session  c == writer[w].chunk
  IN  /\ Turn(w, "record") /\ Mishap("unheard")
      /\ Accepts(s) /\ row[s].chunk[c] = 0
      /\ row' = [row EXCEPT ![s].chunk[c] = w]
      /\ Step(w, "drop")
      /\ UNCHANGED <<completer, disk, locks, doomed, steps, journal>>

RecordFails(w) ==
  /\ Turn(w, "record") /\ Mishap("error")
  /\ Step(w, "drop")
  /\ UNCHANGED <<row, completer, disk, locks, doomed, steps, journal>>

\* The candidate that was not recorded is removed.
Drop(w) ==
  /\ \/ Turn(w, "drop") /\ Answer(w, FALSE)
     \/ Turn(w, "same") /\ Answer(w, TRUE)
  /\ disk' = disk \ {File(w)}
  /\ UNCHANGED <<row, completer, locks, doomed, counts, journal>>

-----------------------------------------------------------------------------
(* The server: completion in outline, maintenance, failures.               *)

\* A completion ends: the request that waits for it hears of it.
Completed(s, status, pc) ==
  /\ row' = [row EXCEPT ![s].status = status]
  /\ completer' = [completer EXCEPT ![s] = [pc |-> "off", for |-> 0]]
  /\ IF completer[s].for # 0 /\ At(completer[s].for, "await")
     THEN Settle(completer[s].for, pc)
     ELSE UNCHANGED clientVars

\* mergeChunks reads every recorded file.
Merge(s) ==
  /\ completer[s].pc = "merge"
  /\ IF \A c \in Chunks : <<s, c, row[s].chunk[c]>> \in disk
     THEN /\ completer' = [completer EXCEPT ![s].pc = "commit"]
          /\ UNCHANGED <<row, clientVars>>
     ELSE Completed(s, "failed", "error")
  /\ UNCHANGED <<writer, disk, locks, doomed, counts, journal>>

Commit(s) ==
  /\ completer[s].pc = "commit"
  /\ Completed(s, "completed", "ok")
  /\ doomed' = doomed \cup {s}
  /\ UNCHANGED <<writer, disk, locks, counts, journal>>

\* What was done is undone, or the journal stays; to mark the session may fail as well.
CommitFails(s) ==
  /\ completer[s].pc = "commit" /\ Mishap("error")
  /\ \E status \in {"failed", "completing"} : Completed(s, status, "error")
  /\ journal' \in {journal, journal \cup {s}}
  /\ UNCHANGED <<writer, disk, locks, doomed, steps>>

\* rm of the directory, with whatever handlers are writing there.
Wipe(s) ==
  /\ s \in doomed
  /\ doomed' = doomed \ {s}
  /\ disk' = {f \in disk : f[1] # s}
  /\ locks' = {l \in locks : l[1][1] # s}
  /\ UNCHANGED <<row, writer, completer, clientVars, counts, journal>>

Expire(s) ==
  /\ Live(s) /\ Mishap("expiry")
  /\ row' = [row EXCEPT ![s].expired = TRUE]
  /\ UNCHANGED <<clientVars, writer, completer, disk, locks, doomed, steps, journal>>

\* The maintenance: journals first, an object or a row of which may stop it every time ...
Reconcile(s) ==
  /\ s \in journal
  /\ journal' = journal \ {s}
  /\ UNCHANGED <<clientVars, row, writer, completer, disk, locks, doomed, counts>>

\* ... then deleteExpiredSessions; the rows of the chunks go with the session.
DeleteExpired(s) ==
  /\ row[s].status \in {"open", "failed", "cancelled"} /\ row[s].expired /\ s \notin journal
  /\ row' = [row EXCEPT ![s].status = "deleted", ![s].chunk = [c \in Chunks |-> 0]]
  /\ doomed' = doomed \cup {s}
  /\ UNCHANGED <<clientVars, writer, completer, disk, locks, counts, journal>>

\* recoverExpiredCompletions: a completion that nobody works on.
Recover(s) ==
  /\ row[s].status = "completing" /\ completer[s].pc = "off" /\ s \notin journal
  /\ row' = [row EXCEPT ![s].status = "failed"]
  /\ UNCHANGED <<clientVars, writer, completer, disk, locks, doomed, counts, journal>>

LockAges ==
  /\ \E l \in locks : /\ l[2] = "new"
                      /\ \A w \in Writers : ~(writer[w].pc = "write" /\ Lock(w) = l[1])
                      /\ locks' = (locks \ {l}) \cup {<<l[1], "old">>}
  /\ UNCHANGED <<clientVars, row, writer, completer, disk, doomed, counts, journal>>

\* The backend dies; every request under way fails, the directories stay as they are.  A
\* completion that has begun its journal leaves it.
Crash ==
  /\ Mishap("crash")
  /\ writer' = [w \in Writers |-> Idle]
  /\ completer' = [s \in Sessions |-> [pc |-> "off", for |-> 0]]
  /\ doomed' = {}
  /\ \E left \in SUBSET {s \in Sessions : completer[s].pc = "commit"} : journal' = journal \cup left
  /\ task' = [t \in Tasks |-> IF Outstanding(t) # {} \/ At(t, "await")
                              THEN [task[t] EXCEPT !.failed = TRUE, !.pc = "chunks"] ELSE task[t]]
  /\ UNCHANGED <<line, paused, row, disk, locks, steps>>

-----------------------------------------------------------------------------
Client(t) == \/ InitSession(t) \/ InitRefused(t) \/ AbortEarly(t) \/ ListSessions(t) \/ Reopen(t)
             \/ Ask(t) \/ Complete(t) \/ GiveUp(t) \/ AskCancel(t) \/ CancelAnswered(t)
Handler(w) == Check(w) \/ OpenLock(w) \/ WritePart(w) \/ WriteBreaks(w) \/ Record(w) \/ Drop(w)
Session(s) == Merge(s) \/ Commit(s) \/ Wipe(s)
Maintenance(s) == Reconcile(s) \/ DeleteExpired(s) \/ Recover(s)

\* What goes on without the user.
Progress == \/ \E t \in Tasks : Client(t)
            \/ \E w \in Writers : Handler(w)
            \/ \E s \in Sessions : Session(s)
            \/ LockAges

Next ==
  /\ \/ Progress
     \/ \E t \in Tasks : Enqueue(t) \/ Retry(t) \/ Cancel(t) \/ InitUnheard(t) \/ AskCancelFails(t)
     \/ \E w \in Writers : RecordUnheard(w) \/ RecordFails(w)
     \/ \E s \in Sessions : CancelRecovered(s) \/ CommitFails(s) \/ Expire(s) \/ Maintenance(s)
     \/ Reset \/ Pause \/ Resume \/ Crash
  /\ UNCHANGED scene

Spec == Init /\ [][Next]_vars /\ WF_vars(Progress /\ UNCHANGED scene)

-----------------------------------------------------------------------------
TypeOK ==
  /\ \A i \in 1..Len(line) : line[i] \in Tasks /\ task[line[i]].state = "pending"
  /\ \A t \in Tasks : /\ task[t].state \in {"new", "pending", "active", "settled"}
                       /\ task[t].told \in {"none", "ok", "error", "cancelled"}
                       /\ task[t].session \in 0..MaxSessions /\ task[t].asked \subseteq Chunks
                       /\ (task[t].state = "active") <=> (task[t].pc # "off")
  /\ \A s \in Sessions : row[s].chunk \in [Chunks -> Writers \cup {0}]
  /\ \A w \in Writers : writer[w].after \in Writers \cup {0}

\* The chunks the table lists are in the directory as long as the session can be completed,
\* unless the answer to the commit of one was lost: its file is removed and its row stays.
ChunksAreThere ==
  "unheard" \notin mishaps =>
    \A s \in Sessions, c \in Chunks :
      (Live(s) /\ row[s].chunk[c] # 0) => <<s, c, row[s].chunk[c]>> \in disk

\* Live sessions never reserve more than the budget.
WithinBudget == Cardinality({s \in Sessions : Live(s)}) * Cardinality(Chunks) <= Budget

\* A chunk the client counts as sent is recorded as long as the session is there.
AcknowledgedIsRecorded ==
  \A t \in Tasks : \A c \in task[t].seen :
    row[task[t].session].status # "deleted" => row[task[t].session].chunk[c] # 0

\* What is in the directory of a session that is over belongs to a handler at work, or
\* is about to be removed; only a crash leaves anything else behind.
NothingLeftOver ==
  "crash" \notin mishaps => \A f \in disk :
     \/ Live(f[1]) \/ f[1] \in doomed
     \/ row[f[1]].expired /\ row[f[1]].status # "deleted"
     \/ \E w \in Writers : writer[w].pc \in {"write", "record", "drop", "same"} /\ f \in {File(w), Part(w)}

\* No entry waits beside a free place, and places are not overrun.
PlacesAreUsed ==
  /\ Cardinality(Active(task)) <= Concurrency
  /\ (line # <<>> /\ ~paused) => Cardinality(Active(task)) = Concurrency

Sound == ChunksAreThere /\ WithinBudget /\ AcknowledgedIsRecorded /\ NothingLeftOver /\ PlacesAreUsed

\* Again and again nothing is under way.  A session that a crash or an error left
\* "completing" is handed back by the maintenance, if nothing stops that.
Rested == /\ \A t \in Tasks : task[t].state \in {"active", "pending"} => paused /\ task[t].state = "pending"
          /\ \A w \in Writers : writer[w].pc = "idle"
          /\ \A s \in Sessions : completer[s].pc = "off" /\ s \notin doomed
          /\ \A s \in Sessions : row[s].status = "completing" => mishaps \cap {"crash", "error"} # {}
=============================================================================
