------------------------------ MODULE TelegramChat ------------------------------
(***************************************************************************)
(* Files sent to the bot in one chat (telegramUpload.ts): the deliveries of*)
(* an album are collected behind a debounced timer and handed to the       *)
(* download queue by a processor; while much is under way the chat is in   *)
(* silent mode, one session with one card whose buttons control the tasks. *)
(*                                                                         *)
(* Every delivery has its own asynchronous handler.  The download queue    *)
(* itself is DownloadTaskQueue: here a queued file ends in one step.       *)
(***************************************************************************)
EXTENDS Naturals, FiniteSets

CONSTANTS
  Items,        \* deliveries of messages of the album
  Duplicates,   \* deliveries whose message was delivered before, a subset of Items
  Loud,         \* files under way that do not make the chat silent
  MaxSessions,  \* bound on silent sessions
  MaxTroubles   \* bound on failed runs of the processor and on cancellations

VARIABLES
  album,     \* the entry of mediaGroupQueues and its debouncer
  file,      \* status of each delivery in the queue of the album
  processor, \* processBatchUploadSnapshot
  batch,     \* the entry of chatActiveBatches
  session,   \* the silent session of the chat: its task id, or 0
  scopes,    \* task ids in taskIdControlScopes
  handler,   \* per delivery: its handler, and later the end of its download
  canceller, \* cancelSilentTask
  started,   \* sessions so far
  troubles

vars == <<album, file, processor, batch, session, scopes, handler, canceller, started, troubles>>

NoAlbum == [exists |-> FALSE, started |-> FALSE, armed |-> FALSE, late |-> FALSE, files |-> {}]
\* timed: the timer that removes the entry after a run is pending.
NoBatch == [exists |-> FALSE, total |-> 0, completed |-> 0, timed |-> FALSE]
Emptied == [NoBatch EXCEPT !.timed = batch.timed]
Entry(total) == [Emptied EXCEPT !.exists = TRUE, !.total = total]
Asleep  == [pc |-> "off", snapshot |-> {}]

Init ==
  /\ album = NoAlbum
  /\ file = [i \in Items |-> "none"]
  /\ processor = Asleep
  /\ batch = NoBatch
  /\ session = 0 /\ scopes = {}
  /\ handler = [i \in Items |-> [pc |-> "sent", seen |-> 0]]
  /\ canceller = [pc |-> "off", task |-> 0, seen |-> 0]
  /\ started = 0 /\ troubles = 0

Ended == {"success", "failed"}
Goto(i, pc) == handler' = [handler EXCEPT ![i].pc = pc]

\* getOutstandingTaskCount and isAllConsolidatedTasksDone: as
\* the entry of the batch says.
Outstanding == batch.exists /\ batch.completed < batch.total
AllDone     == ~batch.exists \/ batch.completed = batch.total

-----------------------------------------------------------------------------
(* A delivery (handleFileUpload).                                          *)

\* checkAndResetSession, up to the deletion of the old status message: a session
\* with nothing outstanding is dropped; without one the tracker is cleared, but
\* only after the message is gone.
EndSession(task) == /\ session' = 0
                    /\ scopes' = scopes \ {task}

Arrive(i) ==
  /\ handler[i].pc = "sent"
  /\ i \in Duplicates => \E k \in Items \ Duplicates : handler[k].pc # "sent"
  /\ IF session # 0 /\ ~Outstanding
     THEN EndSession(session) /\ Goto(i, "join")
     ELSE /\ Goto(i, IF session = 0 /\ AllDone THEN "clear" ELSE "join")
          /\ UNCHANGED <<session, scopes>>
  /\ UNCHANGED <<album, file, processor, batch, canceller, started, troubles>>

Clear(i) ==
  /\ handler[i].pc = "clear"
  /\ batch' = Emptied
  /\ Goto(i, "join")
  /\ UNCHANGED <<album, file, processor, session, scopes, canceller, started, troubles>>

\* The delivery joins the queue of its album, arms the timers and the tracker; many
\* files under way, or a session, lead to trySilentMode.
Join(i) ==
  LET files == album.files \cup {i}
      total == Cardinality(files)
      way   == IF batch.exists THEN [batch EXCEPT !.total = total]
               ELSE Entry(total)
      many  == way.completed < way.total /\ way.total - way.completed > Loud
  IN  /\ handler[i].pc = "join"
      /\ album' = [album EXCEPT !.exists = TRUE, !.armed = TRUE, !.files = files,
                                !.late = @ \/ ~album.exists]
      /\ file' = [file EXCEPT ![i] = "pending"]
      /\ batch' = way
      /\ Goto(i, IF session # 0 THEN "notice" ELSE IF many THEN "silence" ELSE "rest")
      /\ UNCHANGED <<processor, session, scopes, canceller, started, troubles>>

\* A slip: the new session has no control scope until its card is sent.
SilenceUnscoped(i) ==
  /\ handler[i].pc = "silence"
  /\ started < MaxSessions
  /\ started' = started + 1
  /\ session' = started + 1
  /\ Goto(i, "notice")
  /\ UNCHANGED <<album, file, processor, batch, scopes, canceller, troubles>>

\* trySilentMode after the old status message is deleted (startSilentSession).
Silence(i) ==
  /\ handler[i].pc = "silence"
  /\ started < MaxSessions
  /\ started' = started + 1
  /\ session' = started + 1
  /\ scopes' = scopes \cup {started + 1}
  /\ Goto(i, "notice")
  /\ UNCHANGED <<album, file, processor, batch, canceller, troubles>>

\* The card is sent; then the sender becomes the owner of the live task.
Notice(i) ==
  /\ handler[i].pc = "notice"
  /\ scopes' = IF session = 0 THEN scopes ELSE scopes \cup {session}
  /\ Goto(i, "rest")
  /\ UNCHANGED <<album, file, processor, batch, session, canceller, started, troubles>>

-----------------------------------------------------------------------------
(* The processor of the album.                                             *)

\* A timer of the debouncer, or the one of the longest wait, which only brings the
\* first forward, fires: processBatchUpload.
Fire ==
  /\ album.armed
  /\ IF album.exists /\ ~album.started
     THEN /\ album' = [album EXCEPT !.armed = FALSE, !.started = TRUE]
          /\ processor' = [pc |-> "take", snapshot |-> {}]
     ELSE /\ album' = [album EXCEPT !.armed = FALSE]
          /\ UNCHANGED processor
  /\ UNCHANGED <<file, batch, session, scopes, handler, canceller, started, troubles>>

Flush ==
  /\ album.late /\ ~album.started
  /\ album' = [album EXCEPT !.late = FALSE, !.armed = FALSE, !.started = album.armed]
  /\ processor' = IF album.armed THEN [pc |-> "take", snapshot |-> {}] ELSE processor
  /\ UNCHANGED <<file, batch, session, scopes, handler, canceller, started, troubles>>

\* A slip: whatever is not queued is taken again.
WaitingAgain == {i \in album.files : file[i] # "queued"}

\* takePendingMediaGroupSnapshot: the pending files, one delivery of each message.
Waiting == {i \in album.files : file[i] = "pending"}
Snapshot == IF Waiting \subseteq Duplicates THEN Waiting ELSE Waiting \ Duplicates

Take ==
  /\ processor.pc = "take"
  /\ IF Waiting = {}
     THEN album' = NoAlbum /\ processor' = Asleep
     ELSE processor' = [pc |-> "admit", snapshot |-> Snapshot] /\ UNCHANGED album
  /\ UNCHANGED <<file, batch, session, scopes, handler, canceller, started, troubles>>

\* A slip: the processor gives up for good.
RefusedQuietly ==
  /\ processor.pc = "admit" /\ troubles < MaxTroubles
  /\ troubles' = troubles + 1
  /\ album' = [album EXCEPT !.started = FALSE]
  /\ processor' = Asleep
  /\ UNCHANGED <<file, batch, session, scopes, handler, canceller, started>>

\* admitOrdinaryTransferTask, or a later step of the preparation, throws: the
\* processor gives up and arms the timer again.
Refused ==
  /\ processor.pc = "admit" /\ troubles < MaxTroubles
  /\ troubles' = troubles + 1
  /\ album' = [album EXCEPT !.started = FALSE, !.armed = TRUE]
  /\ processor' = Asleep
  /\ UNCHANGED <<file, batch, session, scopes, handler, canceller, started>>

\* The preparation, with the reset of the session it shares with a delivery, the
\* entry of the batch, and one entry of the queue per file.
Admit ==
  /\ processor.pc = "admit"
  /\ IF session # 0 /\ ~Outstanding THEN EndSession(session) ELSE UNCHANGED <<session, scopes>>
  /\ batch' = Entry(Cardinality(processor.snapshot))
  /\ processor' = [processor EXCEPT !.pc = "enqueue"]
  /\ UNCHANGED <<album, file, handler, canceller, started, troubles>>

Enqueue ==
  /\ processor.pc = "enqueue"
  /\ file' = [i \in Items |-> IF i \in processor.snapshot THEN "queued" ELSE file[i]]
  /\ processor' = [processor EXCEPT !.pc = "wait"]
  /\ batch' = IF batch.exists THEN [batch EXCEPT !.total = Cardinality(processor.snapshot)] ELSE batch
  /\ UNCHANGED <<album, session, scopes, handler, canceller, started, troubles>>

Completed == Cardinality({i \in album.files : file'[i] \in Ended})

\* A file ends; onBatchProgress counts the ended files of all runs for the album.
Finish(i) ==
  /\ file[i] = "queued" /\ handler[i].pc = "rest"
  /\ \E st \in Ended : file' = [file EXCEPT ![i] = st]
  /\ batch' = IF batch.exists THEN [batch EXCEPT !.completed = Completed] ELSE batch
  /\ Goto(i, IF session = 0 THEN "done" ELSE "finalize")
  /\ UNCHANGED <<album, processor, session, scopes, canceller, started, troubles>>

\* finalizeSilentSessionIfDone: nothing outstanding; the card is edited, and what
\* is the session afterwards ends.
Finalize(i) ==
  /\ handler[i].pc = "finalize"
  /\ handler' = [handler EXCEPT ![i].pc = IF session # 0 /\ ~Outstanding THEN "conclude" ELSE "done",
                                ![i].seen = session]
  /\ UNCHANGED <<album, file, processor, batch, session, scopes, canceller, started, troubles>>

Conclude(i) ==
  /\ handler[i].pc = "conclude"
  /\ EndSession(handler[i].seen)
  /\ Goto(i, "done")
  /\ UNCHANGED <<album, file, processor, batch, canceller, started, troubles>>

\* All files of the snapshot have ended: what came meanwhile is processed again.
Settled ==
  /\ processor.pc = "wait"
  /\ \A i \in processor.snapshot : file[i] \in Ended
  /\ album' = IF Waiting = {} THEN NoAlbum ELSE [album EXCEPT !.started = FALSE, !.armed = TRUE]
  /\ processor' = Asleep
  /\ batch' = [batch EXCEPT !.timed = TRUE]
  /\ UNCHANGED <<file, session, scopes, handler, canceller, started, troubles>>

\* Eight seconds later the entry leaves the tracker, whichever run it is of.
RemoveBatch ==
  /\ batch.timed
  /\ batch' = NoBatch
  /\ UNCHANGED <<album, file, processor, session, scopes, handler, canceller, started, troubles>>

-----------------------------------------------------------------------------
(* The cancellation of a card (cancelSilentTask).                          *)

\* canControlTask, and cancelScope of the queue: what waits ends as failed.
CancelCard(task) ==
  /\ canceller.pc = "off" /\ task \in scopes /\ troubles < MaxTroubles
  /\ troubles' = troubles + 1
  /\ canceller' = [pc |-> "edit", task |-> task, seen |-> session]
  /\ UNCHANGED <<album, file, processor, batch, session, scopes, handler, started>>

CardCancelled ==
  /\ canceller.pc = "edit"
  /\ session' = 0
  /\ scopes' = scopes \ {canceller.seen, canceller.task}
  /\ batch' = Emptied
  /\ canceller' = [pc |-> "off", task |-> 0, seen |-> 0]
  /\ UNCHANGED <<album, file, processor, handler, started, troubles>>

-----------------------------------------------------------------------------
Receive(i) == Arrive(i) \/ Clear(i) \/ Join(i) \/ Silence(i) \/ Notice(i)
Conclusion(i) == Finalize(i) \/ Conclude(i)
Process == Fire \/ Take \/ Admit \/ Enqueue \/ Settled

Next == \/ \E i \in Items : Receive(i) \/ Finish(i) \/ Conclusion(i)
        \/ Process \/ Flush \/ Refused \/ RemoveBatch \/ CardCancelled
        \/ \E task \in scopes : CancelCard(task)

Spec == Init /\ [][Next]_vars

\* Handlers, timers and downloads go on.
Fairness == /\ \A i \in Items : WF_vars(Receive(i)) /\ WF_vars(Finish(i)) /\ WF_vars(Conclusion(i))
            /\ WF_vars(Process) /\ WF_vars(CardCancelled)

FairSpec == Spec /\ Fairness

-----------------------------------------------------------------------------
TypeOK ==
  /\ file \in [Items -> {"none", "pending", "queued"} \cup Ended]
  /\ album.files \subseteq Items /\ processor.snapshot \subseteq album.files
  /\ session \in 0 .. MaxSessions /\ scopes \subseteq 1 .. MaxSessions

\* A file that waits has somebody who will look: its album is known, and a timer is
\* armed or the processor at work.
Attended == \A i \in Items : file[i] = "pending" =>
              /\ i \in album.files
              /\ album.armed \/ processor.pc # "off"

\* The card of the live session can be used: its task id has a control scope.
CardWorks == session # 0 => session \in scopes

\* Every delivery is downloaded, once.
Handed == \A i \in Items : file[i] \in {"none"} \cup Ended
OnceStep == \A i \in Items : file[i] \in Ended => file'[i] = file[i]
Once == [][OnceStep]_vars

\* The files of a chat are seen to, and its card can be used.
ChatAttended == Attended /\ CardWorks
=============================================================================
