--------------------------- MODULE ChunkCompletion ---------------------------
(***************************************************************************)
(* Completing a chunked upload: POST /complete (routes/chunkedUpload.ts)   *)
(* merges the chunks, writes a permanent object, inserts the files row and *)
(* commits the session, journalling each side effect first; the periodic   *)
(* maintenance (runChunkMaintenance) repairs what a crash or an error left *)
(* behind, concurrently with the handlers of the same process.             *)
(*                                                                         *)
(* Sessions start where this protocol starts: open, with all their chunks  *)
(* recorded (ChunkWriting is about how they get there).  A sweep works on  *)
(* one operation of its batch at a time, from the snapshot its claim       *)
(* returned; several operations of a batch are several sweeps.  A statement *)
(* that fails may have taken effect all the same, its answer lost.         *)
(***************************************************************************)
EXTENDS ChunkSessions

CONSTANTS Faults          \* subset of {"db", "store", "crash"}

ASSUME FaultsOK == Faults \subseteq {"db", "store", "crash"}

VARIABLES
  handler,     \* the /complete handlers: program counter and local variables
  sweep,       \* the maintenance runs: program counter and claimed snapshot
  objects,     \* attempts whose object exists at the storage provider
  files,       \* attempts whose files row exists
  unanswered,  \* attempts whose INSERT INTO files took effect, its answer lost
  chunkDir,    \* uploads whose chunk directory still holds the chunks
  removals     \* chunk directories a request or a sweep is about to remove

vars == <<session, journal, handler, sweep, objects, files, unanswered, chunkDir,
          removals>>

rows  == <<files, unanswered>>
store == <<objects, rows>>
disk  == <<chunkDir, removals>>

InFlight == {"claimed", "prepared", "begun", "uncertain", "saved", "marked",
             "indexed", "ready", "undoObject", "undoIndex", "undoPersist",
             "failing", "cleanup"}

BeforeCommit == {"claimed", "prepared", "begun", "saved", "marked", "indexed",
                 "ready"}

Handler ==
  [pc        : InFlight \cup {"idle", "done"},
   leaseLost : BOOLEAN,       \* completionLeaseError is set
   inserted  : BOOLEAN,       \* file is known: INSERT INTO files returned
   object    : Evidence,      \* evidence gathered by the compensation
   index     : Evidence]

Sweep ==
  [pc      : {"idle", "claimed", "object", "confirm", "index", "persist",
              "expiry", "recovery", "cutShort"},
   op      : Attempts \cup {NoAttempt},
   object  : Evidence,
   index   : Evidence,
   path    : BOOLEAN,
   fileId  : BOOLEAN,
   isFinal : BOOLEAN]         \* session completed with this operation's file

IdleHandler ==
  [pc |-> "idle", leaseLost |-> FALSE, inserted |-> FALSE,
   object |-> "present", index |-> "present"]

DoneHandler == [IdleHandler EXCEPT !.pc = "done"]

IdleSweep ==
  [pc |-> "idle", op |-> NoAttempt, object |-> "unknown", index |-> "unknown",
   path |-> FALSE, fileId |-> FALSE, isFinal |-> FALSE]

TypeOK ==
  /\ SessionTypeOK
  /\ handler \in [Attempts -> Handler]
  /\ sweep \in [Sweeps -> Sweep]
  /\ objects \subseteq Attempts
  /\ files \subseteq Attempts
  /\ unanswered \subseteq Attempts
  /\ chunkDir \subseteq Uploads
  /\ removals \subseteq Uploads

Init ==
  /\ session = [u \in Uploads |-> OpenSession]
  /\ journal = [t \in Attempts |-> NoJournal]
  /\ handler = [t \in Attempts |-> IdleHandler]
  /\ sweep = [s \in Sweeps |-> IdleSweep]
  /\ objects = {}
  /\ files = {}
  /\ unanswered = {}
  /\ chunkDir = Uploads
  /\ removals = {}

-----------------------------------------------------------------------------
DbError    == "db" \in Faults       \* a statement fails
StoreError == "store" \in Faults    \* a provider call fails

At(t, l)   == handler[t].pc = l
Goto(t, l) == handler' = [handler EXCEPT ![t].pc = l]

Tables == <<session, journal>>

\* The statement fails, without effect or after it: the answer was lost.
Failing(statement) == DbError /\ (statement \/ UNCHANGED Tables)

(***************************************************************************)
(* provider.deleteFile: confirmed, or an error that says nothing about     *)
(* whether the object went.                                                *)
(***************************************************************************)
DeleteObject(t, evidence) ==
  \/ /\ evidence = "deleted"
     /\ objects' = objects \ {t}
  \/ /\ StoreError
     /\ evidence = "unknown"
     /\ objects' \in {objects, objects \ {t}}

\* completed_file_id REFERENCES files(id) ON DELETE SET NULL
DeleteRow(t) ==
  /\ files' = files \ {t}
  /\ session' = [session EXCEPT ![UploadOf[t]].file =
                   IF @ = t THEN NoFile ELSE @]
  /\ UNCHANGED unanswered

(* The handler of POST /complete. *)

Claim(t) ==
  /\ At(t, "idle")
  /\ ClaimCompletion(t, TRUE)
  /\ Goto(t, "claimed")
  /\ UNCHANGED <<sweep, store, disk>>

\* The outer catch knows the token and gives a claim it holds back.
ClaimFails(t) ==
  /\ At(t, "idle")
  /\ Failing(ClaimCompletion(t, TRUE))
  /\ Goto(t, "failing")
  /\ UNCHANGED <<sweep, store, disk>>

\* The heartbeat runs until the handler returns; nothing reads its flag after
\* the commit was decided.
HeartbeatRenews(t) ==
  /\ handler[t].pc \in BeforeCommit
  /\ RenewCompletion(t)
  /\ UNCHANGED <<handler, sweep, store, disk>>

HeartbeatLoses(t) ==
  /\ handler[t].pc \in BeforeCommit
  /\ \/ ~Holds(t) /\ UNCHANGED Tables
     \/ Failing(RenewCompletion(t))
  /\ handler' = [handler EXCEPT ![t].leaseLost = TRUE]
  /\ UNCHANGED <<sweep, store, disk>>

\* Account lease, writability check and merge of the verified chunks.
Prepare(t) ==
  /\ At(t, "claimed")
  /\ UploadOf[t] \in chunkDir
  /\ Goto(t, "prepared")
  /\ UNCHANGED <<Tables, sweep, store, disk>>

PrepareFails(t) ==
  /\ At(t, "claimed")
  /\ UploadOf[t] \notin chunkDir \/ StoreError \/ DbError
  /\ Goto(t, "failing")
  /\ UNCHANGED <<Tables, sweep, store, disk>>

SkipDuplicate(t) ==
  /\ At(t, "prepared")
  /\ MarkCompleted(t, OtherFile)
  /\ Goto(t, "cleanup")
  /\ UNCHANGED <<sweep, store, disk>>

SkipDuplicateFails(t) ==
  /\ At(t, "prepared")
  /\ \/ ~Holds(t) /\ UNCHANGED Tables
     \/ Failing(MarkCompleted(t, OtherFile))
  /\ Goto(t, "failing")
  /\ UNCHANGED <<sweep, store, disk>>

Begin(t) ==
  /\ At(t, "prepared")
  /\ BeginReconciliation(t)
  /\ Goto(t, "begun")
  /\ UNCHANGED <<sweep, store, disk>>

BeginFails(t) ==
  /\ At(t, "prepared")
  /\ \/ ~RowExists(UploadOf[t]) /\ UNCHANGED Tables
     \/ Failing(BeginReconciliation(t))
  /\ Goto(t, "failing")
  /\ UNCHANGED <<sweep, store, disk>>

SaveFile(t) ==
  /\ At(t, "begun")
  /\ objects' = objects \cup {t}
  /\ Goto(t, "saved")
  /\ UNCHANGED <<Tables, sweep, rows, disk>>

\* saveFile throws: nobody knows whether the object was written.
SaveFileFails(t) ==
  /\ At(t, "begun")
  /\ StoreError
  /\ objects' \in {objects, objects \cup {t}}
  /\ Goto(t, "uncertain")
  /\ UNCHANGED <<Tables, sweep, rows, disk>>

\* compensateAfterSideEffectFailure without a stored path.
RecordUncertain(t) ==
  /\ At(t, "uncertain")
  /\ \/ UpdateAfterCompensation(t, "unknown", "deleted")
     \/ /\ ~Pending(t) \/ DbError
        /\ UNCHANGED Tables
  /\ Goto(t, "failing")
  /\ UNCHANGED <<sweep, store, disk>>

MarkObject(t) ==
  /\ At(t, "saved")
  /\ MarkObjectPresent(t)
  /\ Goto(t, "marked")
  /\ UNCHANGED <<sweep, store, disk>>

InsertFile(t) ==
  /\ At(t, "marked")
  /\ files' = files \cup {t}
  /\ handler' = [handler EXCEPT ![t].pc = "indexed", ![t].inserted = TRUE]
  /\ UNCHANGED <<Tables, sweep, objects, unanswered, disk>>

\* The row is committed by its statement alone: a lost answer leaves it, and the
\* compensation takes it for never inserted (initialIndexState: 'deleted').
InsertFileFails(t) ==
  /\ At(t, "marked")
  /\ DbError
  /\ \/ files' = files \cup {t} /\ unanswered' = unanswered \cup {t}
     \/ UNCHANGED rows
  /\ Goto(t, "undoObject")
  /\ UNCHANGED <<Tables, sweep, objects, disk>>

MarkIndex(t) ==
  /\ At(t, "indexed")
  /\ MarkIndexPresent(t)
  /\ Goto(t, "ready")
  /\ UNCHANGED <<sweep, store, disk>>

\* A journal statement failed after the object was saved.
JournalFails(t) ==
  /\ \/ At(t, "saved") /\ Failing(MarkObjectPresent(t))
     \/ At(t, "indexed") /\ Failing(MarkIndexPresent(t))
     \/ (At(t, "saved") \/ At(t, "indexed")) /\ ~Pending(t) /\ UNCHANGED Tables
  /\ Goto(t, "undoObject")
  /\ UNCHANGED <<sweep, store, disk>>

Commit(t) ==
  /\ At(t, "ready")
  /\ ~handler[t].leaseLost
  /\ CompleteWithReconciliation(t)
  /\ Goto(t, "cleanup")
  /\ UNCHANGED <<sweep, store, disk>>

CommitFails(t) ==
  /\ At(t, "ready")
  /\ \/ /\ handler[t].leaseLost \/ ~Holds(t) \/ ~Pending(t)
        /\ UNCHANGED Tables
     \/ ~handler[t].leaseLost /\ Failing(CompleteWithReconciliation(t))
  /\ Goto(t, "undoObject")
  /\ UNCHANGED <<sweep, store, disk>>

(* compensateChunkCompletionFailure: object, then row, then evidence. *)

UndoObject(t) ==
  /\ At(t, "undoObject")
  /\ \E evidence \in Evidence :
       /\ DeleteObject(t, evidence)
       /\ handler' = [handler EXCEPT ![t].pc = "undoIndex",
                                     ![t].object = evidence]
  /\ UNCHANGED <<Tables, sweep, rows, disk>>

UndoIndex(t) ==
  /\ At(t, "undoIndex")
  /\ \/ /\ ~handler[t].inserted
        /\ handler' = [handler EXCEPT ![t].pc = "undoPersist",
                                      ![t].index = "deleted"]
        /\ UNCHANGED <<session, rows>>
     \/ /\ handler[t].inserted
        /\ t \in files
        /\ handler' = [handler EXCEPT ![t].pc = "undoPersist",
                                      ![t].index = "deleted"]
        /\ DeleteRow(t)
     \/ /\ handler[t].inserted
        /\ t \notin files \/ DbError
        /\ handler' = [handler EXCEPT ![t].pc = "undoPersist",
                                      ![t].index = "unknown"]
        /\ UNCHANGED <<session, rows>> \/ (DbError /\ DeleteRow(t))
  /\ UNCHANGED <<journal, sweep, objects, disk>>

UndoPersist(t) ==
  /\ At(t, "undoPersist")
  /\ \/ UpdateAfterCompensation(t, handler[t].object, handler[t].index)
     \/ /\ ~Pending(t) \/ DbError
        /\ UNCHANGED Tables
  /\ Goto(t, "failing")
  /\ UNCHANGED <<sweep, store, disk>>

\* Slip: the error path cleans the chunks up, too.
FailAndCleanUp(t) ==
  /\ At(t, "failing")
  /\ \/ MarkCompletionFailed(t)
     \/ /\ ~Holds(t) \/ DbError
        /\ UNCHANGED Tables
  /\ handler' = [handler EXCEPT ![t] = DoneHandler]
  /\ chunkDir' = chunkDir \ {UploadOf[t]}
  /\ UNCHANGED <<sweep, store, removals>>

\* The outer catch: failCompletion(...).catch(() => undefined).
Fail(t) ==
  /\ At(t, "failing")
  /\ \/ MarkCompletionFailed(t)
     \/ /\ ~Holds(t) \/ DbError
        /\ UNCHANGED Tables
  /\ handler' = [handler EXCEPT ![t] = DoneHandler]
  /\ UNCHANGED <<sweep, store, disk>>

Cleanup(t) ==
  /\ At(t, "cleanup")
  /\ chunkDir' = chunkDir \ {UploadOf[t]}
  /\ handler' = [handler EXCEPT ![t] = DoneHandler]
  /\ UNCHANGED <<Tables, sweep, store, removals>>

-----------------------------------------------------------------------------
(* runChunkMaintenance: resolveClaimedChunkReconciliation on one operation.*)

SweepAt(s, l) == sweep[s].pc = l
SweepTo(s, l) == sweep' = [sweep EXCEPT ![s].pc = l]

\* The operation is done with: the run goes on to the expired sessions, or an
\* exception ends it before them.
SweepEnds(s, l) == sweep' = [sweep EXCEPT ![s] = [IdleSweep EXCEPT !.pc = l]]
SweepGoesOn(s)  == SweepEnds(s, "expiry")
SweepCutShort(s) == SweepEnds(s, "cutShort")

SweepFindsNothing(s) ==
  /\ SweepAt(s, "idle")
  /\ \A t \in Attempts : ~Claimable(t)
  /\ SweepGoesOn(s)
  /\ UNCHANGED <<Tables, handler, store, disk>>

SweepCannotClaim(s) ==
  /\ SweepAt(s, "idle")
  /\ Failing(\E t \in Attempts : ClaimReconciliation(s, t))
  /\ SweepCutShort(s)
  /\ UNCHANGED <<handler, store, disk>>

SweepClaims(s, t) ==
  /\ SweepAt(s, "idle")
  /\ ClaimReconciliation(s, t)
  /\ sweep' = [sweep EXCEPT ![s] =
       [pc |-> "claimed", op |-> t,
        object |-> journal[t].object, index  |-> journal[t].index,
        path   |-> journal[t].path,   fileId |-> journal[t].fileId,
        isFinal |-> /\ session[UploadOf[t]].status = "completed"
                    /\ session[UploadOf[t]].file = t]]
  /\ UNCHANGED <<handler, store, disk>>

ConfirmedCommit(s) ==
  /\ sweep[s].isFinal
  /\ sweep[s].fileId
  /\ sweep[s].object = "present"
  /\ sweep[s].index = "present"

BlindOperation(s) == sweep[s].object = "unknown" /\ ~sweep[s].path

\* Both early exits of the resolver.  The first repeats a commit that already
\* resolved its operation in the same transaction.
SweepSettlesAtOnce(s) ==
  /\ SweepAt(s, "claimed")
  /\ ConfirmedCommit(s) \/ BlindOperation(s)
  /\ \/ IF ConfirmedCommit(s) THEN ConfirmCommitted(s, sweep[s].op)
                              ELSE RequireOperator(s, sweep[s].op)
     \/ /\ ~OwnsReconciliation(s, sweep[s].op) \/ DbError
        /\ UNCHANGED Tables
  /\ SweepGoesOn(s)
  /\ UNCHANGED <<handler, store, disk>>

\* storageManager.getTarget throws, for this operation or for an earlier one of
\* the batch: the run ends, its leases stay.
SweepHasNoTarget(s) ==
  /\ SweepAt(s, "claimed")
  /\ StoreError
  /\ SweepCutShort(s)
  /\ UNCHANGED <<Tables, handler, store, disk>>

SweepChecksLease(s, from, to) ==
  /\ SweepAt(s, from)
  /\ RenewReconciliation(s, sweep[s].op)
  /\ SweepTo(s, to)
  /\ UNCHANGED <<handler, store, disk>>

SweepStarts(s) ==
  /\ ~ConfirmedCommit(s)
  /\ ~BlindOperation(s)
  /\ SweepChecksLease(s, "claimed", "object")

SweepDeletesObject(s) ==
  /\ SweepAt(s, "object")
  /\ IF sweep[s].path /\ sweep[s].object # "deleted"
     THEN \E evidence \in Evidence :
            /\ DeleteObject(sweep[s].op, evidence)
            /\ sweep' = [sweep EXCEPT ![s].pc = "confirm",
                                      ![s].object = evidence]
     ELSE SweepTo(s, "confirm") /\ UNCHANGED objects
  /\ UNCHANGED <<Tables, handler, rows, disk>>

SweepConfirms(s) == SweepChecksLease(s, "confirm", "index")

SweepLosesLease(s) ==
  /\ \/ SweepAt(s, "claimed") /\ ~ConfirmedCommit(s) /\ ~BlindOperation(s)
     \/ SweepAt(s, "confirm")
  /\ \/ ~OwnsReconciliation(s, sweep[s].op) /\ UNCHANGED Tables
     \/ Failing(RenewReconciliation(s, sweep[s].op))
  /\ SweepGoesOn(s)
  /\ UNCHANGED <<handler, store, disk>>

SweepDeletesRow(s) ==
  /\ SweepAt(s, "index")
  /\ \/ /\ sweep[s].fileId
        /\ sweep[s].index # "deleted"
        /\ \/ /\ DeleteRow(sweep[s].op)
              /\ sweep' = [sweep EXCEPT ![s].pc = "persist",
                                        ![s].index = "deleted"]
           \/ /\ DbError
              /\ sweep' = [sweep EXCEPT ![s].pc = "persist",
                                        ![s].index = "unknown"]
              /\ UNCHANGED <<session, rows>> \/ DeleteRow(sweep[s].op)
     \/ /\ ~sweep[s].fileId \/ sweep[s].index = "deleted"
        /\ SweepTo(s, "persist")
        /\ UNCHANGED <<session, rows>>
  /\ UNCHANGED <<journal, handler, objects, disk>>

SweepPersists(s) ==
  /\ SweepAt(s, "persist")
  /\ \/ ResolveReconciliation(s, sweep[s].op, sweep[s].object, sweep[s].index)
     \/ /\ ~OwnsReconciliation(s, sweep[s].op) \/ DbError
        /\ UNCHANGED Tables
  /\ SweepGoesOn(s)
  /\ UNCHANGED <<handler, store, disk>>

\* The rest of a run that nothing cut short.  Its directories are removed one by
\* one (RemoveDir); nothing depends on whether the recovery waits for them.
RunDeletes(s) ==
  /\ SweepAt(s, "expiry")
  /\ \E batch \in SUBSET Uploads :
       DeleteExpiredSessions(batch) /\ removals' = removals \cup batch
  /\ SweepTo(s, "recovery")
  /\ UNCHANGED <<handler, store, chunkDir>>

RunRecovers(s) ==
  /\ SweepAt(s, "recovery")
  /\ \E batch \in SUBSET Uploads : RecoverExpiredCompletions(batch)
  /\ SweepTo(s, "idle")
  /\ UNCHANGED <<handler, store, disk>>

RunFails(s) ==
  /\ \/ /\ SweepAt(s, "expiry")
        /\ Failing(\E batch \in SUBSET Uploads : DeleteExpiredSessions(batch))
     \/ /\ SweepAt(s, "recovery")
        /\ Failing(\E batch \in SUBSET Uploads : RecoverExpiredCompletions(batch))
  /\ SweepCutShort(s)
  /\ UNCHANGED <<handler, store, disk>>

\* The timer fires again.
NextRun(s) ==
  /\ SweepAt(s, "cutShort")
  /\ SweepTo(s, "idle")
  /\ UNCHANGED <<Tables, handler, store, disk>>

-----------------------------------------------------------------------------
(* The other requests on a session, the clock and the process. *)

Retry(u) ==
  /\ ReopenFailed(u)
  /\ UNCHANGED <<handler, sweep, store, disk>>

\* The owner (DELETE /:uploadId) or an administrator (routes/tasks.ts): the same
\* condition on the row, then the directory.
CancelUpload(u) ==
  /\ Cancel(u)
  /\ removals' = removals \cup {u} \/ (DbError /\ UNCHANGED removals)
  /\ UNCHANGED <<handler, sweep, store, chunkDir>>

RemoveDir(u) ==
  /\ u \in removals
  /\ removals' = removals \ {u}
  /\ chunkDir' = chunkDir \ {u}
  /\ UNCHANGED <<Tables, handler, sweep, store>>

Expire(u) ==
  /\ SessionExpires(u)
  /\ UNCHANGED <<handler, sweep, store, disk>>

LeaseLapse(u) ==
  /\ CompletionLeaseLapses(u)
  /\ UNCHANGED <<handler, sweep, store, disk>>

JournalLapse(t) ==
  /\ ReconciliationLeaseLapses(t)
  /\ UNCHANGED <<handler, sweep, store, disk>>

\* The process dies: every handler and every sweep stops where it is.
Crash ==
  /\ "crash" \in Faults
  /\ handler' = [t \in Attempts |->
       IF handler[t].pc \in InFlight THEN DoneHandler
       ELSE handler[t]]
  /\ sweep' = [s \in Sweeps |->
       IF SweepAt(s, "idle") THEN IdleSweep
       ELSE [IdleSweep EXCEPT !.pc = "cutShort"]]
  /\ removals' = {}
  /\ UNCHANGED <<Tables, store, chunkDir>>

\* The steps a running handler takes by itself: every call it awaits returns.
Proceed(t) ==
  \/ Prepare(t) \/ PrepareFails(t) \/ SkipDuplicate(t) \/ SkipDuplicateFails(t)
  \/ Begin(t) \/ BeginFails(t) \/ SaveFile(t) \/ SaveFileFails(t)
  \/ RecordUncertain(t) \/ MarkObject(t) \/ InsertFile(t) \/ InsertFileFails(t)
  \/ MarkIndex(t) \/ JournalFails(t) \/ Commit(t) \/ CommitFails(t)
  \/ UndoObject(t) \/ UndoIndex(t) \/ UndoPersist(t) \/ Fail(t) \/ Cleanup(t)

Complete(t) ==
  \/ Claim(t) \/ ClaimFails(t)
  \/ HeartbeatRenews(t) \/ HeartbeatLoses(t)
  \/ Proceed(t)

Maintain(s) ==
  \/ \E t \in Attempts : SweepClaims(s, t)
  \/ SweepFindsNothing(s) \/ SweepCannotClaim(s)
  \/ SweepHasNoTarget(s) \/ SweepSettlesAtOnce(s) \/ SweepStarts(s)
  \/ SweepDeletesObject(s) \/ SweepConfirms(s) \/ SweepLosesLease(s)
  \/ SweepDeletesRow(s) \/ SweepPersists(s)
  \/ RunDeletes(s) \/ RunRecovers(s) \/ RunFails(s) \/ NextRun(s)

Manage(u) == Retry(u) \/ CancelUpload(u) \/ RemoveDir(u)

Next ==
  \/ \E t \in Attempts : Complete(t) \/ JournalLapse(t)
  \/ \E s \in Sweeps : Maintain(s)
  \/ \E u \in Uploads : Manage(u) \/ Expire(u) \/ LeaseLapse(u)
  \/ Crash

Spec == Init /\ [][Next]_vars

\* Handlers run on, the maintenance timer keeps firing, leases run out.
Fairness ==
  /\ \A t \in Attempts : WF_vars(Proceed(t)) /\ WF_vars(JournalLapse(t))
  /\ \A s \in Sweeps : WF_vars(Maintain(s))
  /\ \A u \in Uploads : WF_vars(LeaseLapse(u))

FairSpec == Spec /\ Fairness
-----------------------------------------------------------------------------
(* Properties. *)

Committed(t) == journal[t].status = "resolved" /\ journal[t].reason = "committed"

\* The rows of the files table that some answer told of.
KnownRows == files \ unanswered

\* Whatever a completion left at the provider or in the files table is known to
\* the journal: the operation is still pending, or it was committed with its
\* session.  No crash, error or race leaves an object or a row that nobody will
\* look at again (the journal of chunkUploadReconciliation.ts), with one
\* exception: the row of an INSERT whose answer was lost.  The compensation
\* records it as never inserted, removes the object and resolves the operation.
SideEffectsAccounted ==
  \A t \in Attempts : t \in objects \cup KnownRows => Pending(t) \/ Committed(t)

\* Of all the attempts to complete one upload at most one is committed, however
\* leases lapse, sessions are reopened and stale handlers go on
\* (completion_token in claimCompletion and completeWithReconciliation).
OneCommitPerUpload ==
  \A t1, t2 \in Attempts :
    /\ UploadOf[t1] = UploadOf[t2]
    /\ Committed(t1)
    /\ Committed(t2)
    => t1 = t2

\* A committed operation belongs to a completed session, and that session never
\* also points at a duplicate: commit and journal change in one transaction.
CommitMatchesSession ==
  \A t \in Attempts :
    Committed(t) =>
      /\ session[UploadOf[t]].status = "completed"
      /\ session[UploadOf[t]].file \in {t, NoFile}

\* The chunks stay on disk as long as the upload can still be completed: open,
\* being completed, or failed and waiting for a retry.
ChunksKept ==
  \A u \in Uploads :
    session[u].status \in {"open", "completing", "failed"} => u \in chunkDir

\* What a finished upload became is never revised: a completed session stays
\* completed and a cancelled one can only disappear (cancel, reopenFailed,
\* markCompletionFailed and the maintenance all race for the same row).
FinalStatus(u) ==
  /\ session[u].status = "completed" => session'[u].status = "completed"
  /\ session[u].status = "cancelled" =>
       session'[u].status \in {"cancelled", "deleted"}

OutcomeIsFinal == [][\A u \in Uploads : FinalStatus(u)]_vars

\* The first early exit of resolveClaimedChunkReconciliation is never taken: the
\* transaction that completes a session leaves no pending operation behind.
NoUnresolvedCommit == \A s \in Sweeps : ~ConfirmedCommit(s)

\* A completion that nobody works on any more, and that left no operation to
\* reconcile, is handed back for a retry (recoverExpiredCompletions), unless the
\* maintenance runs are cut short again and again: the recovery comes last in a
\* run, after an operation whose target may be missing at every run.
Abandoned(u) ==
  /\ session[u].status = "completing"
  /\ NoPending(u)
  /\ \A t \in Attempts : UploadOf[t] = u => handler[t].pc \notin InFlight

CutShort == \E s \in Sweeps : SweepAt(s, "cutShort")

AbandonedRecovered ==
  <>[]~CutShort =>
    \A u \in Uploads : Abandoned(u) ~> session[u].status # "completing"

\* A completed upload has both its object and its row.
CompletedIsStored ==
  \A t \in Attempts : Committed(t) => t \in objects /\ t \in files

\* Completing implements the ledger: the promise of a completion, as steps.
Outcome(s) ==
  CASE s.status = "completed" -> "completed"
    [] s.status \in {"cancelled", "deleted"} -> "abandoned"
    [] OTHER -> "undecided"

Standing(t) ==
  CASE Pending(t) -> "running"
    [] Committed(t) -> "committed"
    [] OTHER -> "none"

Ledger == INSTANCE UploadLedger WITH
  outcome <- [u \in Uploads |-> Outcome(session[u])],
  effect  <- [t \in Attempts |-> Standing(t)],
  visible <- objects \cup KnownRows,
  stray   <- unanswered

\* Every behaviour of the handlers, the sweeps and the crashes is a behaviour of
\* UploadLedger: effects are visible only while running or committed, a row
\* strays only from a running attempt, an upload is decided once.
ImplementsLedger == Ledger!LedgerSpec
=============================================================================
