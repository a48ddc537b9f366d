----------------------------- MODULE YtDlpTasks -----------------------------
(***************************************************************************)
(* The execution of yt-dlp tasks (ytDlpDownload.ts): commands submit,      *)
(* cancel and retry tasks; PersistentYtDlpQueue hands them to workers; a   *)
(* worker claims the task, downloads the file, uploads it under a          *)
(* write-ahead journal and settles the task, and compensates the upload if *)
(* it may not.  A crash loses everything in memory; at startup the tasks   *)
(* that were running are reconciled with their journal.                    *)
(*                                                                         *)
(* Every await of the code is a step of its own.  A statement that fails   *)
(* with or without having taken effect, and three heartbeats that fail in  *)
(* a row, each count as one fault.  What the work directories hold, the    *)
(* names of files and the messages to the chat are left out.               *)
(***************************************************************************)
EXTENDS YtDlpExecution, Sequences, FiniteSets

CONSTANTS
  NoTask,          \* the task of an idle place
  MaxConcurrent,   \* YTDLP_MAX_CONCURRENT
  MaxEvents        \* bound: commands, faults and crashes together

ASSUME BoundsOK == /\ NoTask \notin Tasks
                   /\ MaxConcurrent \in Nat \ {0}
                   /\ MaxEvents \in Nat

VARIABLES
  worker,       \* the calls of executeYtDlpTask, one for each place
  waiting,      \* PersistentYtDlpQueue.pending
  known,        \* PersistentYtDlpQueue.known
  controllers,  \* activeControllers: the place of the task's worker, 0 if none
  calls,        \* continuations that wait for the answer of a statement
  objects,      \* at the provider; "inDoubt" if saveFile threw
  files,        \* executions whose files row exists
  phase,        \* of the process
  events,       \* commands, faults and crashes so far
  faulty        \* a statement or mkdir failed, or an answer came too late

vars == <<tables, worker, waiting, known, controllers, calls, objects, files,
          phase, events, faulty>>

queue  == <<waiting, known>>
store  == <<objects, files>>
memory == <<worker, waiting, known, controllers, calls>>
budget == <<events, faulty>>

Places == 1..MaxConcurrent
Leaked == MaxConcurrent + 1   \* the controller of a worker that has ended

Uploading == {"begin", "renew", "save", "markObject", "recheck", "index"}
Undoing   == {"undoObject", "undoIndex", "undoRecord"}
\* from the registration of the controller to the last read of its signal
InTry     == {"download", "advance", "prepare", "settle", "failing"}
             \cup Uploading \cup Undoing
Settling  == InTry \cup {"register", "journalCheck", "fail"}

Worker ==
  [pc            : Settling \cup {"idle", "claim", "ending", "ended"},
   task          : Tasks \cup {NoTask},
   execution     : Executions \cup {0},
   abort         : {"no", "ownership", "persistence"},
   wrote         : BOOLEAN,    \* operationId is known
   finalPath     : BOOLEAN,    \* finalPath is set
   fileId        : BOOLEAN,    \* fileId is set
   objectDeleted : BOOLEAN,
   indexDeleted  : BOOLEAN,
   journalled    : BOOLEAN]    \* pendingJournal was found

\* Fresh(t) is the worker that process() starts, Idle a place with none.
Fresh(t) ==
  [pc |-> "claim", task |-> t, execution |-> 0, abort |-> "no",
   wrote |-> FALSE, finalPath |-> FALSE, fileId |-> FALSE,
   objectDeleted |-> FALSE, indexDeleted |-> FALSE, journalled |-> FALSE]
Idle == [Fresh(NoTask) EXCEPT !.pc = "idle"]

ProcessCall == <<"process", NoTask>>
Calls == {"enqueue", "abort", "read", "again"} \X Tasks \cup {ProcessCall}

TypeOK ==
  /\ TablesTypeOK
  /\ worker \in [Places -> Worker]
  /\ waiting \in Seq(Tasks)
  /\ known \subseteq Tasks
  /\ controllers \in [Tasks -> Places \cup {0, Leaked}]
  /\ calls \subseteq Calls
  /\ objects \in [Tasks \X Executions -> {"none", "stored", "inDoubt"}]
  /\ files \subseteq Tasks \X Executions
  /\ phase \in {"down", "reconciled", "marked", "up"}
  /\ events \in 0..MaxEvents
  /\ faulty \in BOOLEAN

Init ==
  /\ TablesInit
  /\ worker = [s \in Places |-> Idle]
  /\ waiting = << >>
  /\ known = {}
  /\ controllers = [t \in Tasks |-> 0]
  /\ calls = {}
  /\ objects = [e \in Tasks \X Executions |-> "none"]
  /\ files = {}
  /\ phase = "up"
  /\ events = 0
  /\ faulty = FALSE

-----------------------------------------------------------------------------
Event       == events < MaxEvents /\ events' = events + 1
Fault       == Event /\ faulty' = TRUE
Disturbance == Event /\ UNCHANGED faulty
NoFault     == UNCHANGED budget

At(s, l)      == worker[s].pc = l
Goto(s, l)    == worker' = [worker EXCEPT ![s].pc = l]
Become(s, w)  == worker' = [worker EXCEPT ![s] = w]
\* What is still read of a worker in its catch block, and in its finally block.
Left(w, l) ==
  IF l \in {"ending", "ended"} THEN [Fresh(w.task) EXCEPT !.pc = l]
  ELSE [Fresh(w.task) EXCEPT !.pc = l, !.execution = w.execution, !.abort = w.abort]
Leave(s, l)   == worker' = [worker EXCEPT ![s] = Left(@, l)]
TaskOf(s)     == worker[s].task
Execution(s)  == <<worker[s].task, worker[s].execution>>
IsOwner(s)    == Owns(worker[s].task, worker[s].execution)

\* A statement with its effect, or an error that leaves the effect open.
Happens(effect)   == effect /\ NoFault
Requested(effect) == effect /\ Disturbance
MayHappen(effect) == Fault /\ (effect \/ UNCHANGED tables)

(* PersistentYtDlpQueue *)

\* process(): the waiting tasks move into the idle places, first come first
\* served, as long as there are both.
Process(ws, q) ==
  LET idle    == {s \in Places : ws[s].pc = "idle"}
      rank(s) == Cardinality({r \in idle : r <= s})
      n       == IF Cardinality(idle) < Len(q) THEN Cardinality(idle) ELSE Len(q)
  IN /\ worker' = [s \in Places |-> IF s \in idle /\ rank(s) <= n
                                    THEN Fresh(q[rank(s)]) ELSE ws[s]]
     /\ waiting' = SubSeq(q, n + 1, Len(q))

\* Slip: forgets which tasks are known.
EnqueueAgain(t) ==
  /\ known' = known \cup {t}
  /\ Process(worker, Append(waiting, t))

\* enqueue(id), and the process() that follows it
Enqueue(t) ==
  IF t \in known \/ controllers[t] # 0
  THEN UNCHANGED <<worker, waiting, known>>
  ELSE /\ known' = known \cup {t}
       /\ Process(worker, Append(waiting, t))

(* Commands: /ytdlp, and cancel and retry from the chat or the web. *)

Serving == phase \in {"marked", "up"}

Submit(t) ==
  /\ Serving
  /\ \/ Requested(CreateTask(t)) /\ calls' = calls \cup {<<"enqueue", t>>}
     \/ MayHappen(CreateTask(t)) /\ UNCHANGED calls
  /\ UNCHANGED <<worker, queue, controllers, store, phase>>

Cancel(t) ==
  /\ Serving
  /\ \/ Requested(CancelTask(t)) /\ calls' = calls \cup {<<"abort", t>>}
     \/ MayHappen(CancelTask(t)) /\ UNCHANGED calls
  /\ UNCHANGED <<worker, queue, controllers, store, phase>>

Retry(t) ==
  /\ Serving
  /\ \/ Requested(RetryTask(t)) /\ calls' = calls \cup {<<"enqueue", t>>}
     \/ MayHappen(RetryTask(t)) /\ UNCHANGED calls
  /\ UNCHANGED <<worker, queue, controllers, store, phase>>

Answered(c) == c \in calls /\ calls' = calls \ {c}

EnqueueCall(t) ==
  /\ Answered(<<"enqueue", t>>)
  /\ Enqueue(t)
  /\ NoFault
  /\ UNCHANGED <<tables, controllers, store, phase>>

Aborted(w, reason) == IF w.abort = "no" THEN [w EXCEPT !.abort = reason] ELSE w

\* The answer to a cancellation comes later than a retry and the next claim:
\* the abort hits the wrong execution.
TooLate(t) == controllers[t] \in Places /\ IsOwner(controllers[t])

AbortCall(t) ==
  /\ Answered(<<"abort", t>>)
  /\ IF controllers[t] \in Places
     THEN Become(controllers[t], Aborted(worker[controllers[t]], "ownership"))
     ELSE UNCHANGED worker
  /\ IF TooLate(t) THEN Fault ELSE NoFault
  /\ UNCHANGED <<tables, queue, controllers, store, phase>>

(* executeYtDlpTask: from the claim to the upload *)

ClaimWon(s) ==
  /\ At(s, "claim")
  /\ row[TaskOf(s)].generation < MaxGeneration
  /\ Happens(Claim(TaskOf(s)))
  /\ Become(s, [worker[s] EXCEPT !.pc = "register",
                  !.execution = row[TaskOf(s)].generation + 1])
  /\ UNCHANGED <<queue, controllers, calls, store, phase>>

ClaimRefused(s) ==
  /\ At(s, "claim")
  /\ \/ ~Claimable(TaskOf(s)) /\ NoFault /\ UNCHANGED tables
     \/ /\ row[TaskOf(s)].generation < MaxGeneration
        /\ MayHappen(Claim(TaskOf(s)))
  /\ Leave(s, "ended")
  /\ UNCHANGED <<queue, controllers, calls, store, phase>>

\* Reads the task, registers the controller and makes the work directory; if
\* that fails, no finally block removes the controller.
Register(s) ==
  /\ At(s, "register")
  /\ \/ /\ NoFault
        /\ controllers' = [controllers EXCEPT ![TaskOf(s)] = s]
        /\ Goto(s, "download")
     \/ /\ Fault
        /\ controllers' \in {controllers, [controllers EXCEPT ![TaskOf(s)] = Leaked]}
        /\ Leave(s, "ended")
  /\ UNCHANGED <<tables, queue, calls, store, phase>>

\* The heartbeat, or the report of progress, finds the execution lost.
HeartbeatLost(s) ==
  /\ worker[s].pc \in InTry
  /\ worker[s].abort = "no"
  /\ ~IsOwner(s)
  /\ Become(s, Aborted(worker[s], "ownership"))
  /\ NoFault
  /\ UNCHANGED <<tables, queue, controllers, calls, store, phase>>

HeartbeatFails(s) ==
  /\ worker[s].pc \in InTry
  /\ worker[s].abort = "no"
  /\ Become(s, Aborted(worker[s], "persistence"))
  /\ Fault
  /\ UNCHANGED <<tables, queue, controllers, calls, store, phase>>

\* A step of a worker that asks the database and writes nothing to it.
Reads(s, next) ==
  /\ IF next \in {"failing", "ending"} THEN Leave(s, next) ELSE Goto(s, next)
  /\ UNCHANGED <<tables, queue, controllers, calls, store, phase>>

Download(s) ==
  /\ At(s, "download")
  /\ NoFault
  /\ Reads(s, "advance") \/ Reads(s, "failing")

Advance(s) ==
  /\ At(s, "advance")
  /\ \/ IsOwner(s) /\ NoFault /\ Reads(s, "prepare")
     \/ ~IsOwner(s) /\ NoFault /\ Reads(s, "failing")
     \/ Fault /\ Reads(s, "failing")

\* The target may be in cooldown, and a duplicate may be skipped.
Prepare(s) ==
  /\ At(s, "prepare")
  /\ NoFault
  /\ \/ Reads(s, "failing")
     \/ /\ worker[s].abort = "no"
        /\ Reads(s, "begin") \/ Reads(s, "settle")

(* uploadDownloadedFile *)

Begin(s) ==
  /\ At(s, "begin")
  /\ \/ /\ Happens(BeginWrite(TaskOf(s), worker[s].execution))
        /\ Become(s, [worker[s] EXCEPT !.pc = "renew", !.wrote = TRUE])
     \/ /\ ~CanBegin(TaskOf(s), worker[s].execution)
        /\ NoFault /\ UNCHANGED tables
        /\ Leave(s, "failing")
     \/ /\ MayHappen(BeginWrite(TaskOf(s), worker[s].execution))
        /\ Leave(s, "failing")
  /\ UNCHANGED <<queue, controllers, calls, store, phase>>

\* The lease of the account, then the renewal of the execution.
Renew(s) ==
  /\ At(s, "renew")
  /\ NoFault
  /\ \/ IsOwner(s) /\ Reads(s, "save")
     \/ Reads(s, "undoObject")

SaveFile(s) ==
  /\ At(s, "save")
  /\ \/ /\ objects' = [objects EXCEPT ![Execution(s)] = "stored"]
        /\ Become(s, [worker[s] EXCEPT !.pc = "markObject", !.finalPath = TRUE])
        /\ NoFault
     \/ /\ objects' = [objects EXCEPT ![Execution(s)] = "inDoubt"]
        /\ Goto(s, "undoObject")
        /\ Disturbance
  /\ UNCHANGED <<tables, queue, controllers, calls, files, phase>>

MarkObject(s) ==
  /\ At(s, "markObject")
  /\ \/ /\ Happens(MarkObjectPresent(TaskOf(s), worker[s].execution))
        /\ Goto(s, "recheck")
     \/ /\ MayHappen(MarkObjectPresent(TaskOf(s), worker[s].execution))
        /\ Goto(s, "undoObject")
  /\ UNCHANGED <<queue, controllers, calls, store, phase>>

Recheck(s) ==
  /\ At(s, "recheck")
  /\ \/ worker[s].abort = "no" /\ IsOwner(s) /\ NoFault /\ Reads(s, "index")
     \/ worker[s].abort # "no" /\ NoFault /\ Reads(s, "undoObject")
     \/ ~IsOwner(s) /\ NoFault /\ Reads(s, "undoObject")
     \/ Fault /\ Reads(s, "undoObject")

\* One transaction inserts the files row and marks it in the journal.
InsertFile(s) ==
  /\ MarkIndexPresent(TaskOf(s), worker[s].execution)
  /\ files' = files \cup {Execution(s)}

Index(s) ==
  /\ At(s, "index")
  /\ \/ /\ NoFault
        /\ InsertFile(s)
        /\ Become(s, [worker[s] EXCEPT !.pc = "settle", !.fileId = TRUE])
     \/ /\ Fault
        /\ \/ UNCHANGED <<tables, files>> /\ Goto(s, "undoObject")
           \/ /\ InsertFile(s) \/ UNCHANGED <<tables, files>>
              /\ Become(s, [worker[s] EXCEPT !.pc = "undoObject", !.fileId = TRUE])
  /\ UNCHANGED <<queue, controllers, calls, objects, phase>>

(* The compensation, of a failed upload or of a lost completion *)

UndoObject(s) ==
  /\ At(s, "undoObject")
  /\ LET answer(deleted) == Become(s, [worker[s] EXCEPT !.pc = "undoIndex",
                                         !.objectDeleted = deleted])
         gone == [objects EXCEPT ![Execution(s)] = "none"]
     IN \/ answer(TRUE) /\ NoFault
           /\ objects' = IF worker[s].finalPath THEN gone ELSE objects
        \/ answer(FALSE) /\ Disturbance
           /\ worker[s].finalPath
           /\ objects' \in {objects, gone}
  /\ UNCHANGED <<tables, queue, controllers, calls, files, phase>>

UndoIndex(s) ==
  /\ At(s, "undoIndex")
  /\ LET answer(deleted) == Become(s, [worker[s] EXCEPT !.pc = "undoRecord",
                                         !.indexDeleted = deleted])
         gone == files \ {Execution(s)}
     IN \/ /\ NoFault
           /\ IF worker[s].fileId
              THEN answer(Execution(s) \in files) /\ files' = gone
              ELSE answer(TRUE) /\ UNCHANGED files
        \/ worker[s].fileId /\ Fault /\ answer(FALSE) /\ files' \in {files, gone}
  /\ UNCHANGED <<tables, queue, controllers, calls, objects, phase>>

UndoRecord(s) ==
  /\ At(s, "undoRecord")
  /\ LET effect == UpdateCompensation(TaskOf(s), worker[s].execution,
                     worker[s].objectDeleted, worker[s].indexDeleted)
     IN Happens(effect) \/ MayHappen(effect)
  /\ Leave(s, "failing")
  /\ UNCHANGED <<queue, controllers, calls, store, phase>>

(* The end of executeYtDlpTask *)

\* Slip: takes an error of the statement for the loss of the execution.
SettleOrUndo(s) ==
  /\ At(s, "settle")
  /\ LET t == TaskOf(s)  g == worker[s].execution  wrote == worker[s].wrote
     IN \/ Happens(SettleCompleted(t, g, wrote)) /\ Leave(s, "ending")
        \/ /\ ~CanComplete(t, g, wrote) /\ NoFault /\ UNCHANGED tables
           /\ IF wrote THEN Goto(s, "undoObject") ELSE Leave(s, "failing")
        \/ /\ MayHappen(SettleCompleted(t, g, wrote))
           /\ IF wrote THEN Goto(s, "undoObject") ELSE Leave(s, "failing")
  /\ UNCHANGED <<queue, controllers, calls, store, phase>>

Settle(s) ==
  /\ At(s, "settle")
  /\ LET t == TaskOf(s)  g == worker[s].execution  wrote == worker[s].wrote
     IN \/ Happens(SettleCompleted(t, g, wrote)) /\ Leave(s, "ending")
        \/ /\ ~CanComplete(t, g, wrote) /\ NoFault /\ UNCHANGED tables
           /\ IF wrote THEN Goto(s, "undoObject") ELSE Leave(s, "failing")
        \/ MayHappen(SettleCompleted(t, g, wrote)) /\ Leave(s, "failing")
  /\ UNCHANGED <<queue, controllers, calls, store, phase>>

\* A task that is cancelled, or retried already, is left alone; so is one whose
\* worker was aborted, except by failures to persist.  A read that fails finds
\* no task.
Failing(s) ==
  /\ At(s, "failing")
  /\ LET aborted == worker[s].abort = "ownership"
         over    == Status(TaskOf(s)) \in {"cancelled", "pending"}
     IN \/ (over \/ aborted) /\ NoFault /\ Reads(s, "ending")
        \/ ~over /\ ~aborted /\ NoFault /\ Reads(s, "journalCheck")
        \/ ~aborted /\ Fault /\ Reads(s, "journalCheck")

JournalCheck(s) ==
  /\ At(s, "journalCheck")
  /\ \/ /\ NoFault
        /\ Become(s, [worker[s] EXCEPT !.pc = "fail",
                                       !.journalled = HasPending(TaskOf(s))])
     \/ Fault /\ Leave(s, "ending")
  /\ UNCHANGED <<tables, queue, controllers, calls, store, phase>>

Fail(s) ==
  /\ At(s, "fail")
  /\ LET effect == SettleFailed(TaskOf(s), worker[s].execution,
                                ~worker[s].journalled)
     IN \/ Happens(effect)
        \/ ~IsOwner(s) /\ NoFault /\ UNCHANGED tables
        \/ MayHappen(effect)
  /\ Leave(s, "ending")
  /\ UNCHANGED <<queue, controllers, calls, store, phase>>

Ending(s) ==
  /\ At(s, "ending")
  /\ controllers' = [controllers EXCEPT ![TaskOf(s)] = 0]
  /\ Goto(s, "ended")
  /\ NoFault
  /\ UNCHANGED <<tables, queue, calls, store, phase>>

\* The finally block has read the task; the enqueue of a pending one returns at
\* once, as the task is still known.  The worker's promise settles: its place is
\* free, but process() waits for the answer of shouldRequeue.
WorkerEnds(s) ==
  /\ At(s, "ended")
  /\ known' = known \ {TaskOf(s)}
  /\ Become(s, Idle)
  /\ calls' = calls \cup {<<"read", TaskOf(s)>>}
  /\ NoFault
  /\ UNCHANGED <<tables, waiting, controllers, store, phase>>

\* shouldRequeue is evaluated by the database; its answer is still to come.
ShouldRequeue(t) ==
  /\ <<"read", t>> \in calls
  /\ \/ /\ NoFault
        /\ calls' = (calls \ {<<"read", t>>})
             \cup {IF Status(t) = "pending" THEN <<"again", t>> ELSE ProcessCall}
     \/ Fault /\ calls' = (calls \ {<<"read", t>>}) \cup {ProcessCall}
  /\ UNCHANGED <<tables, worker, queue, controllers, store, phase>>

\* Slip: goes on only when the task itself is queued again.
RequeueOnly(t) ==
  /\ \/ Answered(<<"again", t>>) /\ Enqueue(t)
     \/ Answered(ProcessCall) /\ UNCHANGED <<worker, queue>>
  /\ NoFault
  /\ UNCHANGED <<tables, controllers, store, phase>>

Requeue(t) ==
  /\ \/ /\ Answered(<<"again", t>>)
        /\ IF t \in known \/ controllers[t] # 0
           THEN Process(worker, waiting) /\ UNCHANGED known
           ELSE Enqueue(t)
     \/ /\ Answered(ProcessCall)
        /\ Process(worker, waiting)
        /\ UNCHANGED known
  /\ NoFault
  /\ UNCHANGED <<tables, controllers, store, phase>>

(* The process *)

Crash ==
  /\ phase # "down"
  /\ Disturbance
  /\ phase' = "down"
  /\ worker' = [s \in Places |-> Idle]
  /\ waiting' = << >>
  /\ known' = {}
  /\ controllers' = [t \in Tasks |-> 0]
  /\ calls' = {}
  /\ UNCHANGED <<tables, store>>

Reconcile ==
  /\ phase = "down"
  /\ phase' = "reconciled"
  /\ ReconcileCommitted(files)
  /\ NoFault
  /\ UNCHANGED <<memory, store>>

MarkInterrupted ==
  /\ phase = "reconciled"
  /\ phase' = "marked"
  /\ MarkAfterRestart
  /\ NoFault
  /\ UNCHANGED <<memory, store>>

\* initializeYtDlpQueue enqueues the pending tasks among the latest 500; their
\* order is left open, the bound on tasks is below 500.
InitializeQueue ==
  /\ phase = "marked"
  /\ phase' = "up"
  /\ calls' = calls \cup {<<"enqueue", t>> : t \in {u \in Tasks : Status(u) = "pending"}}
  /\ NoFault
  /\ UNCHANGED <<tables, worker, queue, controllers, store>>

Execute(s) ==
  \/ ClaimWon(s) \/ ClaimRefused(s) \/ Register(s)
  \/ HeartbeatLost(s) \/ HeartbeatFails(s)
  \/ Download(s) \/ Advance(s) \/ Prepare(s)
  \/ Begin(s) \/ Renew(s) \/ SaveFile(s) \/ MarkObject(s) \/ Recheck(s) \/ Index(s)
  \/ UndoObject(s) \/ UndoIndex(s) \/ UndoRecord(s)
  \/ Settle(s) \/ Failing(s) \/ JournalCheck(s) \/ Fail(s)
  \/ Ending(s) \/ WorkerEnds(s)

Command(t) ==
  \/ Submit(t) \/ Cancel(t) \/ Retry(t)
  \/ EnqueueCall(t) \/ AbortCall(t) \/ ShouldRequeue(t) \/ Requeue(t)

Startup == Crash \/ Reconcile \/ MarkInterrupted \/ InitializeQueue

Next ==
  \/ \E s \in Places : Execute(s)
  \/ \E t \in Tasks : Command(t)
  \/ Startup

Spec == Init /\ [][Next]_vars

-----------------------------------------------------------------------------
(* A lease is held exactly while the task runs: the claim, which accepts   *)
(* no running task, never waits for one to lapse, and a late statement of  *)
(* an earlier execution can never match (ytDlpExecution.ts:18-22).         *)
LeaseWhileRunning ==
  \A t \in Tasks :
    /\ (row[t].token # NoToken) <=> (Status(t) = "running")
    /\ Status(t) = "running" => row[t].token = row[t].generation

(* Whatever fails, is cancelled or crashes, an object that was saved and a *)
(* files row are those of a completed task or stand in a pending journal   *)
(* operation: none is forgotten (ytDlpDownload.ts:258-279, 373-391).       *)
SideEffectsAccounted ==
  \A t \in Tasks : \A g \in Executions :
    objects[<<t, g>>] = "stored" \/ <<t, g>> \in files =>
      \/ Pending(t, g)
      \/ journal[t][g].resolution = "committed"

(* An operation is committed exactly for the last execution of a completed *)
(* task, its files row is there, and a completed task leaves no operation  *)
(* open: retries never store a second file (ytDlpExecution.ts:63-110).     *)
CommitMatchesTask ==
  \A t \in Tasks :
    /\ \A g \in Executions : journal[t][g].resolution = "committed" =>
         /\ Status(t) = "completed"
         /\ row[t].generation = g
         /\ <<t, g>> \in files
    /\ Status(t) = "completed" => ~HasPending(t)

(* A pending task can be claimed at once: if an operation refused it, the  *)
(* queue would take it up and put it back for ever                         *)
(* (ytDlpDownload.ts:466-484).                                             *)
PendingIsClaimable ==
  \A t \in Tasks : Status(t) = "pending" => ~HasPending(t)

(* At most one worker at a time executes a task in this process, however   *)
(* cancellations, retries and the checks at the end of workers interleave  *)
(* (ytDlpDownload.ts:459-461).                                             *)
OneWorkerPerTask ==
  /\ \A r, s \in Places :
       r # s /\ ~At(r, "idle") /\ ~At(s, "idle") => TaskOf(r) # TaskOf(s)
  /\ \A s \in Places : \A i \in DOMAIN waiting :
       ~At(s, "idle") => TaskOf(s) # waiting[i]

(* As long as the database does not fail, no task is left behind: one that *)
(* is pending waits for a place or is about to be queued, and one that is  *)
(* running has a worker that will settle it (ytDlpDownload.ts:439-485).    *)
IsQueued(t) ==
  \/ \E i \in DOMAIN waiting : waiting[i] = t
  \/ \E s \in Places : TaskOf(s) = t /\ ~At(s, "idle")
  \/ {<<"enqueue", t>>, <<"read", t>>, <<"again", t>>} \cap calls # {}

HasWorker(t) ==
  \E s \in Places :
    /\ Execution(s) = <<t, row[t].generation>>
    /\ worker[s].pc \in Settling

NothingStranded ==
  phase = "up" /\ ~faulty =>
    \A t \in Tasks :
      /\ Status(t) = "pending" => IsQueued(t)
      /\ Status(t) = "running" => HasWorker(t)

(* A waiting task and a free place do not stay side by side: some answer   *)
(* is under way that calls process() (ytDlpDownload.ts:466-484).           *)
PlacesAreFilled ==
  waiting # << >> /\ (\E s \in Places : At(s, "idle")) =>
    \E t \in Tasks : {<<"read", t>>, <<"again", t>>, ProcessCall} \cap calls # {}

(* No task is left without somebody who goes on with it, and none waits    *)
(* beside a free place.                                                    *)
TasksAreServed == NothingStranded /\ PlacesAreFilled

(* No step takes the file of a completed task away again, not even the     *)
(* compensation of the worker that completed it without learning of it     *)
(* (ytDlpDownload.ts:357-391).                                             *)
CompletionKept ==
  [][\A t \in Tasks : \A g \in Executions :
       Status(t) = "completed" /\ row[t].generation = g =>
         /\ Status(t)' = "completed"
         /\ <<t, g>> \in files => <<t, g>> \in files'
         /\ objects[<<t, g>>] # "none" => objects'[<<t, g>>] # "none"]_vars

(* "restart reconciliation completes only an exact object and index match" *)
(* (ytDlpExecution.test.ts:61): a committed operation has its object.      *)
CommittedIsStored ==
  \A t \in Tasks : \A g \in Executions :
    journal[t][g].resolution = "committed" => objects[<<t, g>>] # "none"
=============================================================================
