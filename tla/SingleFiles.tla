------------------------------ MODULE SingleFiles ------------------------------
(***************************************************************************)
(* Single files sent to the bot in one chat (telegramUpload.ts, the second *)
(* half of handleFileUpload): a delivery is admitted, enters the tracker   *)
(* of the chat, may start its silent session and is queued; its task tries *)
(* twice to download and store the file, may be put back by a cooldown,    *)
(* and can be cancelled at any moment.  Nothing of it is in a journal.     *)
(*                                                                         *)
(* The queue is DownloadTaskQueue, albums and the card are TelegramChat.   *)
(* Every try stores under a name of its own, so a try names its write.     *)
(***************************************************************************)
EXTENDS Naturals, FiniteSets

CONSTANTS
  Messages,
  Loud,        \* files under way that do not make the chat silent
  MaxSessions, \* bound on silent sessions
  MaxTries,    \* bound on tries of one file
  MaxMishaps,  \* bound on failures, cancellations, repetitions and crashes
  Mishaps      \* subset of {"admission", "download", "quota", "mark", "provider", "lostObject",
               \*   "statement", "lostInsert", "cancel", "retry", "crash"}

VARIABLES
  handler,   \* the handler of each delivery
  entry,     \* its entry in chatActiveUploads
  group,     \* its group in the queue
  task,      \* its task in the queue
  worker,    \* the run of its task
  objects,   \* tries whose object is at the provider
  indexed,   \* tries whose row is in files
  excused,   \* tries that may have left something: a failure said nothing, or undoing failed
  session,   \* the silent session of the chat: its task id, or 0
  scopes,    \* task ids in taskIdControlScopes
  canceller, \* cancelSilentTask
  started,   \* sessions so far
  mishaps

queued == <<group, task, worker>>
stored == <<objects, indexed, excused>>
silent == <<session, scopes, started>>
vars == <<handler, entry, queued, stored, silent, canceller, mishaps>>

NoTask   == [status |-> "none", aborted |-> FALSE, late |-> FALSE, again |-> FALSE, cooling |-> FALSE]
NoWorker == [pc |-> "off", try |-> 0, retried |-> FALSE, cooldown |-> FALSE, seen |-> 0]
NoCard   == [pc |-> "off", task |-> 0, seen |-> 0]

Init ==
  /\ handler = [i \in Messages |-> "sent"]
  /\ entry = [i \in Messages |-> "none"]
  /\ group = [i \in Messages |-> "none"]
  /\ task = [i \in Messages |-> NoTask]
  /\ worker = [i \in Messages |-> NoWorker]
  /\ objects = {} /\ indexed = {} /\ excused = {}
  /\ session = 0 /\ scopes = {} /\ started = 0
  /\ canceller = NoCard
  /\ mishaps = 0

Happens(kind) == /\ kind \in Mishaps /\ mishaps < MaxMishaps
                 /\ mishaps' = mishaps + 1

UnderWay == {i \in Messages : entry[i] = "busy"}
Ended    == {"success", "failed"}
Live     == {"pending", "active"}
Write(i) == <<i, worker[i].try>>

Goto(i, pc) == worker' = [worker EXCEPT ![i].pc = pc]

-----------------------------------------------------------------------------
(* The delivery.                                                           *)

EndSession(id) == /\ session' = 0
                  /\ scopes' = scopes \ {id}

\* admitOrdinaryTransferTask, ensureGroup and checkAndResetSession up to the deletion of the
\* old status message.
Admit(i) ==
  /\ handler[i] = "sent"
  /\ group' = [group EXCEPT ![i] = "open"]
  /\ IF session # 0 /\ UnderWay = {}
     THEN EndSession(session) ELSE UNCHANGED <<session, scopes>>
  /\ handler' = [handler EXCEPT ![i] = IF session = 0 /\ UnderWay = {} THEN "clear" ELSE "register"]
  /\ UNCHANGED <<entry, task, worker, stored, started, canceller, mishaps>>

\* The statement of the admission fails: the handler gives up, and the file is not stored.
AdmitFails(i) ==
  /\ handler[i] = "sent" /\ Happens("admission")
  /\ handler' = [handler EXCEPT ![i] = "over"]
  /\ UNCHANGED <<entry, queued, stored, silent, canceller>>

Clear(i) ==
  /\ handler[i] = "clear"
  /\ entry' = [j \in Messages |-> "none"]
  /\ handler' = [handler EXCEPT ![i] = "register"]
  /\ UNCHANGED <<queued, stored, silent, canceller, mishaps>>

\* registerUpload, and trySilentMode up to its first answer.
Register(i) ==
  /\ handler[i] = "register"
  /\ entry' = [entry EXCEPT ![i] = "busy"]
  /\ handler' = [handler EXCEPT ![i] = IF session # 0 THEN "notice"
                                       ELSE IF Cardinality(UnderWay \cup {i}) > Loud THEN "silence"
                                       ELSE "add"]
  /\ UNCHANGED <<queued, stored, silent, canceller, mishaps>>

Silence(i) ==
  /\ handler[i] = "silence" /\ started < MaxSessions
  /\ started' = started + 1
  /\ session' = started + 1
  /\ scopes' = scopes \cup {started + 1}
  /\ handler' = [handler EXCEPT ![i] = "notice"]
  /\ UNCHANGED <<entry, queued, stored, canceller, mishaps>>

Notice(i) ==
  /\ handler[i] = "notice"
  /\ scopes' = IF session = 0 THEN scopes ELSE scopes \cup {session}
  /\ handler' = [handler EXCEPT ![i] = "add"]
  /\ UNCHANGED <<entry, queued, stored, session, started, canceller, mishaps>>

\* What happens to the entry and the session when a waiting task is cancelled
\* (onSinglePendingCancelled): finalizeSilentSessionIfDone runs by itself.
GivenUp(set) ==
  /\ entry' = [i \in Messages |-> IF i \in set /\ entry[i] # "none" THEN "failed" ELSE entry[i]]
  /\ worker' = [i \in Messages |-> IF i \in set /\ session # 0 THEN [worker[i] EXCEPT !.pc = "finalize"]
                                   ELSE worker[i]]

\* downloadQueue.add: a group that was cancelled meanwhile takes no task.
Add(i) ==
  /\ handler[i] = "add"
  /\ handler' = [handler EXCEPT ![i] = "over"]
  /\ \/ /\ group[i] = "open"
        /\ task' = [task EXCEPT ![i].status = "pending"]
        /\ UNCHANGED <<entry, worker>>
     \/ /\ group[i] = "cancelled"
        /\ task' = [task EXCEPT ![i].status = "cancelled"]
        /\ GivenUp({i})
  /\ UNCHANGED <<group, stored, silent, canceller, mishaps>>

-----------------------------------------------------------------------------
(* The task (singleUploadTask and attemptSingleUpload).                    *)

Try(i, w) == worker' = [worker EXCEPT ![i] = [w EXCEPT !.pc = "download", !.try = @ + 1, !.cooldown = FALSE]]

Start(i) ==
  /\ task[i].status = "pending" /\ ~task[i].cooling
  /\ worker[i].pc = "off" /\ worker[i].try < MaxTries
  /\ task' = [task EXCEPT ![i].status = "active"]
  /\ Try(i, worker[i])
  /\ UNCHANGED <<handler, entry, group, stored, silent, canceller, mishaps>>

\* downloadAndSaveFile, after assertStorageTargetWritable.
Download(i) ==
  /\ worker[i].pc = "download"
  /\ \/ ~task[i].aborted /\ Goto(i, "save") /\ UNCHANGED mishaps
     \/ task[i].aborted /\ Goto(i, "failed") /\ UNCHANGED mishaps
     \/ Happens("download") /\ Goto(i, "failed")
     \/ Happens("quota") /\ worker' = [worker EXCEPT ![i].pc = "mark", ![i].cooldown = TRUE]
  /\ UNCHANGED <<handler, entry, group, task, stored, silent, canceller>>

\* saveAndIndexWithCompensation under a lease of the account.
Save(i) ==
  /\ worker[i].pc = "save"
  /\ \/ /\ ~task[i].aborted
        /\ objects' = objects \cup {Write(i)}
        /\ Goto(i, "index")
        /\ UNCHANGED <<excused, mishaps>>
     \/ /\ task[i].aborted
        /\ Goto(i, "failed")
        /\ UNCHANGED <<objects, excused, mishaps>>
     \/ /\ Happens("statement") \/ Happens("provider")
        /\ Goto(i, "failed")
        /\ UNCHANGED <<objects, excused>>
     \/ /\ Happens("lostObject")
        /\ objects' = objects \cup {Write(i)}
        /\ excused' = excused \cup {Write(i)}
        /\ Goto(i, "failed")
  /\ UNCHANGED <<handler, entry, group, task, indexed, silent, canceller>>

Index(i) ==
  /\ worker[i].pc = "index"
  /\ \/ /\ indexed' = indexed \cup {Write(i)}
        /\ Goto(i, "check")
        /\ UNCHANGED <<excused, mishaps>>
     \/ /\ Happens("statement")
        /\ Goto(i, "undo")
        /\ UNCHANGED <<indexed, excused>>
     \/ /\ Happens("lostInsert")
        /\ indexed' = indexed \cup {Write(i)}
        /\ excused' = excused \cup {Write(i)}
        /\ Goto(i, "undo")
  /\ UNCHANGED <<handler, entry, group, task, objects, silent, canceller>>

Undo(i) ==
  /\ worker[i].pc = "undo"
  /\ \/ objects' = objects \ {Write(i)} /\ UNCHANGED <<excused, mishaps>>
     \/ excused' = excused \cup {Write(i)} /\ Happens("provider") /\ UNCHANGED objects
  /\ Goto(i, "failed")
  /\ UNCHANGED <<handler, entry, group, task, indexed, silent, canceller>>

\* The last look at the signal: later cancellations leave the file where it is.
Check(i) ==
  /\ worker[i].pc = "check"
  /\ IF task[i].aborted
     THEN Goto(i, "compensate") /\ UNCHANGED entry
     ELSE /\ Goto(i, "report")
          /\ entry' = [entry EXCEPT ![i] = IF @ = "none" THEN @ ELSE "success"]
  /\ UNCHANGED <<handler, group, task, stored, silent, canceller, mishaps>>

\* compensateIndexedWriteAfterCancel
Compensate(i) ==
  /\ worker[i].pc = "compensate"
  /\ \/ /\ objects' = objects \ {Write(i)}
        /\ Goto(i, "compensateIndex")
        /\ UNCHANGED <<excused, mishaps>>
     \/ /\ Happens("provider")
        /\ excused' = excused \cup {Write(i)}
        /\ Goto(i, "failed")
        /\ UNCHANGED objects
  /\ UNCHANGED <<handler, entry, group, task, indexed, silent, canceller>>

CompensateIndex(i) ==
  /\ worker[i].pc = "compensateIndex"
  /\ \/ indexed' = indexed \ {Write(i)} /\ UNCHANGED <<excused, mishaps>>
     \/ excused' = excused \cup {Write(i)} /\ Happens("statement") /\ UNCHANGED indexed
  /\ Goto(i, "failed")
  /\ UNCHANGED <<handler, entry, group, task, objects, silent, canceller>>

\* markStorageAccountCooldown; if it throws, so does the task, and only the first
\* call of add() removes the entry then.
Mark(i) ==
  /\ worker[i].pc = "mark"
  /\ \/ /\ Goto(i, "failed")
        /\ UNCHANGED <<entry, task, mishaps>>
     \/ /\ Happens("mark")
        /\ Goto(i, IF task[i].again THEN "thrown" ELSE "off")
        /\ entry' = IF task[i].again THEN entry ELSE [entry EXCEPT ![i] = "none"]
        /\ task' = [task EXCEPT ![i].status = IF task[i].aborted THEN "cancelled" ELSE "failed"]
  /\ UNCHANGED <<handler, group, stored, silent, canceller>>

\* A try failed: the second try, unless there was one, or a repetition after the cooldown.
Failed(i) ==
  /\ worker[i].pc = "failed" /\ ~worker[i].retried /\ ~worker[i].cooldown /\ ~task[i].aborted
  /\ worker[i].try < MaxTries
  /\ Try(i, [worker[i] EXCEPT !.retried = TRUE])
  /\ UNCHANGED <<handler, entry, group, task, stored, silent, canceller, mishaps>>

CoolDown(i) ==
  /\ worker[i].pc = "failed" /\ worker[i].cooldown /\ ~task[i].aborted
  /\ task' = [task EXCEPT ![i] = [NoTask EXCEPT !.status = "pending", !.again = TRUE, !.cooling = TRUE]]
  /\ entry' = [entry EXCEPT ![i] = IF @ = "none" THEN @ ELSE "busy"]
  /\ Goto(i, "off")
  /\ UNCHANGED <<handler, group, stored, silent, canceller, mishaps>>

\* The end of the task.  An abort, however late, makes it a cancelled one, whose session nobody ends.
Return(i) ==
  /\ \/ worker[i].pc = "report"
     \/ /\ worker[i].pc = "failed"
        /\ \/ task[i].aborted
           \/ ~worker[i].cooldown /\ (worker[i].retried \/ worker[i].try = MaxTries)
  /\ entry' = [entry EXCEPT ![i] = IF @ = "none" \/ (worker[i].pc = "report" /\ ~task[i].aborted)
                                   THEN @ ELSE "failed"]
  /\ task' = [task EXCEPT ![i].status = IF task[i].aborted THEN "cancelled"
                                        ELSE IF worker[i].pc = "report" THEN "success" ELSE "failed"]
  /\ Goto(i, IF session # 0 /\ ~task[i].aborted THEN "finalize" ELSE "off")
  /\ UNCHANGED <<handler, group, stored, silent, canceller, mishaps>>

\* finalizeSilentSessionIfDone: the card is edited in between.
Finalize(i) ==
  /\ worker[i].pc = "finalize"
  /\ worker' = [worker EXCEPT ![i].pc = IF session # 0 /\ UnderWay = {} THEN "conclude" ELSE "off",
                              ![i].seen = session]
  /\ UNCHANGED <<handler, entry, group, task, stored, silent, canceller, mishaps>>

Conclude(i) ==
  /\ worker[i].pc = "conclude"
  /\ EndSession(worker[i].seen)
  /\ worker' = [worker EXCEPT ![i].pc = "off", ![i].seen = 0]
  /\ UNCHANGED <<handler, entry, group, task, stored, started, canceller, mishaps>>

\* The timer of scheduleStorageCooldownRequeue resumes the group.
CooldownEnds(i) ==
  /\ task[i].cooling
  /\ task' = [task EXCEPT ![i].cooling = FALSE]
  /\ UNCHANGED <<handler, entry, group, worker, stored, silent, canceller, mishaps>>

\* Eight seconds later.
RemoveEntry(i) ==
  /\ entry[i] \in Ended /\ task[i].status \notin Live
  /\ entry' = [entry EXCEPT ![i] = "none"]
  /\ UNCHANGED <<handler, queued, stored, silent, canceller, mishaps>>

-----------------------------------------------------------------------------
(* What users and mishaps do.                                              *)

\* retryFailed of the queue: the second try is spent, the entry perhaps gone.
Retry(i) ==
  /\ task[i].status = "failed" /\ group[i] = "open" /\ worker[i].pc \in {"off", "thrown"}
  /\ Happens("retry")
  /\ task' = [task EXCEPT ![i] = [NoTask EXCEPT !.status = "pending", !.again = TRUE]]
  /\ Goto(i, "off")
  /\ UNCHANGED <<handler, entry, group, stored, silent, canceller>>

Cancellable == {i \in Messages : group[i] = "open" /\ task[i].status # "success"}

CancelGroups(set) ==
  LET waiting == {i \in set : task[i].status = "pending"} IN
  /\ group' = [i \in Messages |-> IF i \in set THEN "cancelled" ELSE group[i]]
  /\ task' = [i \in Messages |->
                IF i \in waiting THEN [NoTask EXCEPT !.status = "cancelled"]
                ELSE IF i \in set /\ task[i].status = "active"
                     THEN [task[i] EXCEPT !.aborted = TRUE, !.late = (worker[i].pc = "report")]
                ELSE task[i]]
  /\ GivenUp(waiting)

CancelGroup(i) ==
  /\ i \in Cancellable /\ Happens("cancel")
  /\ CancelGroups({i})
  /\ UNCHANGED <<handler, stored, silent, canceller>>

CancelCard(id) ==
  /\ canceller.pc = "off" /\ id \in scopes /\ Happens("cancel")
  /\ CancelGroups(Cancellable)
  /\ canceller' = [pc |-> "edit", task |-> id, seen |-> session]
  /\ UNCHANGED <<handler, stored, silent>>

CardCancelled ==
  /\ canceller.pc = "edit"
  /\ session' = 0
  /\ scopes' = scopes \ {canceller.seen, canceller.task}
  /\ entry' = [i \in Messages |-> "none"]
  /\ canceller' = NoCard
  /\ UNCHANGED <<handler, queued, stored, started, mishaps>>

\* Memory is lost, and with it what was under way: there is no journal of it.
Midway == {"index", "check", "undo", "compensate", "compensateIndex"}
Crash ==
  /\ Happens("crash")
  /\ handler' = [i \in Messages |-> IF handler[i] = "sent" THEN "sent" ELSE "over"]
  /\ entry' = [i \in Messages |-> "none"]
  /\ group' = [i \in Messages |-> "none"]
  /\ task' = [i \in Messages |-> NoTask]
  /\ excused' = excused \cup {Write(i) : i \in {j \in Messages : worker[j].pc \in Midway}}
  /\ worker' = [i \in Messages |-> [NoWorker EXCEPT !.try = worker[i].try]]
  /\ session' = 0 /\ scopes' = {} /\ canceller' = NoCard
  /\ UNCHANGED <<objects, indexed, started>>

-----------------------------------------------------------------------------
Receive(i) == Admit(i) \/ Clear(i) \/ Register(i) \/ Silence(i) \/ Notice(i) \/ Add(i)
Run(i) == \/ Start(i) \/ Download(i) \/ Save(i) \/ Index(i) \/ Undo(i) \/ Check(i)
          \/ Compensate(i) \/ CompensateIndex(i) \/ Mark(i)
          \/ Failed(i) \/ CoolDown(i) \/ Return(i) \/ Finalize(i) \/ Conclude(i)
Work == CardCancelled \/ \E i \in Messages : Receive(i) \/ Run(i) \/ CooldownEnds(i)

Next == \/ Work \/ Crash
        \/ \E i \in Messages : AdmitFails(i) \/ RemoveEntry(i) \/ Retry(i) \/ CancelGroup(i)
        \/ \E id \in scopes : CancelCard(id)

Spec == Init /\ [][Next]_vars /\ WF_vars(Work)

-----------------------------------------------------------------------------
TypeOK ==
  /\ entry \in [Messages -> {"none", "busy"} \cup Ended]
  /\ group \in [Messages -> {"none", "open", "cancelled"}]
  /\ \A i \in Messages : task[i].status \in {"none", "cancelled"} \cup Live \cup Ended
  /\ objects \cup indexed \cup excused \subseteq Messages \X (1 .. MaxTries)
  /\ session \in 0 .. MaxSessions /\ scopes \subseteq 1 .. MaxSessions

\* A file that counts as stored is stored, and nothing is left of a try that failed or was
\* cancelled before its last look at the signal, unless its undoing failed, its answer was lost
\* or the process died.
Stored ==
  /\ \A i \in Messages : task[i].status = "success" => Write(i) \in objects \cap indexed
  /\ \A w \in (objects \cup indexed) \ excused :
       LET i == w[1] IN
       /\ w = Write(i)
       /\ \/ worker[i].pc \in Midway
          \/ /\ w \in objects \cap indexed
             /\ task[i].status # "failed"
             /\ task[i].aborted => task[i].late

\* An entry under way has somebody to end it, or the task threw on a repetition.
Tracked == \A i \in Messages : entry[i] = "busy" =>
             \/ handler[i] \in {"silence", "notice", "add"}
             \/ task[i].status \in Live
             \/ worker[i].pc = "thrown"

CardWorks == session # 0 => session \in scopes

\* Every delivery has been answered, and no task waits or runs.
Answered == \A i \in Messages : handler[i] = "over" /\ task[i].status \notin Live
=============================================================================
