------------------------ MODULE ChunkCompletionProofs ------------------------
(***************************************************************************)
(* Proofs about ChunkCompletion, for every set of uploads, attempts and    *)
(* sweeps and every set of faults.                                         *)
(*                                                                         *)
(* Most of the argument needs only the statement a step executes, not the  *)
(* step: the first part gives the statements of the handlers, the sweeps   *)
(* and the other requests a name, and shows that a step executes one.      *)
(***************************************************************************)
EXTENDS ChunkCompletion, TLAPS

-----------------------------------------------------------------------------
(* The statements, by who executes them. *)

HandlerStatement(t) ==
  \/ ClaimCompletion(t, TRUE)
  \/ RenewCompletion(t)
  \/ MarkCompletionFailed(t)
  \/ MarkCompleted(t, OtherFile)
  \/ BeginReconciliation(t)
  \/ MarkObjectPresent(t)
  \/ MarkIndexPresent(t)
  \/ CompleteWithReconciliation(t)
  \/ \E obj, idx \in Evidence : UpdateAfterCompensation(t, obj, idx)

SweepStatement(s, t) ==
  \/ ClaimReconciliation(s, t)
  \/ RequireOperator(s, t)
  \/ sweep[s].isFinal /\ ConfirmCommitted(s, t)
  \/ RenewReconciliation(s, t)
  \/ \E obj, idx \in Evidence : ResolveReconciliation(s, t, obj, idx)

SessionStatement(u) ==
  \/ ReopenFailed(u) \/ Cancel(u)
  \/ SessionExpires(u) \/ CompletionLeaseLapses(u)

BatchStatement ==
  \E batch \in SUBSET Uploads :
    DeleteExpiredSessions(batch) \/ RecoverExpiredCompletions(batch)

RowDeleted(t) == DeleteRow(t) /\ UNCHANGED journal

\* A run that has claimed an operation and is not done with it.
Working(s) ==
  sweep[s].pc \in {"claimed", "object", "confirm", "index", "persist"}

(* What a step may do to the tables. *)

LEMMA HandlerSteps ==
  ASSUME NEW t \in Attempts, handler \in [Attempts -> Handler], Complete(t)
  PROVE  HandlerStatement(t) \/ RowDeleted(t) \/ UNCHANGED Tables
<1>1. handler[t].object \in Evidence /\ handler[t].index \in Evidence
  BY DEF Handler
<1>2. "unknown" \in Evidence /\ "deleted" \in Evidence
  BY DEF Evidence
<1>3. CASE Claim(t) \/ ClaimFails(t) \/ HeartbeatRenews(t) \/ HeartbeatLoses(t)
           \/ Prepare(t) \/ PrepareFails(t) \/ SkipDuplicate(t) \/ SkipDuplicateFails(t)
           \/ Begin(t) \/ BeginFails(t) \/ SaveFile(t) \/ SaveFileFails(t)
  BY <1>3 DEF HandlerStatement, Failing, ClaimFails, Claim, HeartbeatRenews,
     HeartbeatLoses, Prepare,
     PrepareFails, SkipDuplicate, SkipDuplicateFails, Begin, BeginFails,
     SaveFile, SaveFileFails
<1>4. CASE RecordUncertain(t) \/ UndoPersist(t)
  BY <1>1, <1>2, <1>4 DEF HandlerStatement, RecordUncertain, UndoPersist
<1>5. CASE MarkObject(t) \/ InsertFile(t) \/ InsertFileFails(t) \/ MarkIndex(t)
           \/ JournalFails(t) \/ Commit(t) \/ CommitFails(t) \/ UndoObject(t) \/ Fail(t) \/ Cleanup(t)
  BY <1>5 DEF HandlerStatement, MarkObject, InsertFile, MarkIndex,
     InsertFileFails, JournalFails, ClaimFails, Failing, Commit, CommitFails,
     UndoObject, Fail, Cleanup
<1>6. CASE UndoIndex(t)
  BY <1>6 DEF UndoIndex, RowDeleted, Tables
<1>7. QED
  BY <1>3, <1>4, <1>5, <1>6 DEF Complete, Proceed

LEMMA SweepSteps ==
  ASSUME NEW s \in Sweeps, sweep[s] \in Sweep, Maintain(s),
         Working(s) => sweep[s].op \in Attempts
  PROVE  \/ \E t \in Attempts : SweepStatement(s, t) \/ RowDeleted(t)
         \/ BatchStatement
         \/ UNCHANGED Tables
<1>1. sweep[s].object \in Evidence /\ sweep[s].index \in Evidence
  BY DEF Sweep
<1>2. CASE (\E t \in Attempts : SweepClaims(s, t)) \/ SweepCannotClaim(s)
  BY <1>2 DEF SweepClaims, SweepCannotClaim, Failing, SweepStatement
<1>3. CASE SweepSettlesAtOnce(s)
  BY <1>3 DEF SweepSettlesAtOnce, ConfirmedCommit, SweepStatement, SweepAt, Working
<1>4. CASE SweepStarts(s) \/ SweepConfirms(s) \/ SweepLosesLease(s)
  BY <1>4 DEF SweepStarts, SweepConfirms, SweepChecksLease, SweepLosesLease, Failing,
     SweepStatement, SweepAt, Working
<1>5. CASE SweepFindsNothing(s) \/ SweepHasNoTarget(s) \/ SweepDeletesObject(s)
           \/ NextRun(s)
  BY <1>5 DEF SweepFindsNothing, SweepHasNoTarget, SweepDeletesObject, NextRun
<1>6. CASE SweepDeletesRow(s)
  BY <1>6 DEF SweepDeletesRow, RowDeleted, Tables, SweepAt, Working
<1>7. CASE SweepPersists(s)
  BY <1>1, <1>7 DEF SweepPersists, SweepStatement, SweepAt, Working
<1>8. CASE RunDeletes(s) \/ RunRecovers(s) \/ RunFails(s)
  BY <1>8 DEF RunDeletes, RunRecovers, RunFails, Failing, BatchStatement
<1>9. QED
  BY <1>2, <1>3, <1>4, <1>5, <1>6, <1>7, <1>8 DEF Maintain

LEMMA ManageSteps ==
  ASSUME NEW u \in Uploads, Manage(u) \/ Expire(u) \/ LeaseLapse(u)
  PROVE  SessionStatement(u) \/ UNCHANGED Tables
BY DEF SessionStatement, Manage, Expire, LeaseLapse, Retry, CancelUpload, RemoveDir

-----------------------------------------------------------------------------
(* Type correctness. *)

LEMMA InitType == Init => TypeOK
BY ConstantsOK DEF Init, TypeOK, SessionTypeOK, Session, Journal, OpenSession,
   NoJournal, Handler, IdleHandler, Sweep, IdleSweep, Evidence, Lease

LEMMA WriteType ==
  ASSUME NEW t \in Attempts, NEW rec \in Journal, SessionTypeOK, Write(t, rec)
  PROVE  journal' \in [Attempts -> Journal]
BY DEF Write, SessionTypeOK

LEMMA RecordType ==
  ASSUME NEW u \in Uploads, NEW r \in Session, session \in [Uploads -> Session],
         session' = [session EXCEPT ![u] = r]
  PROVE  session' \in [Uploads -> Session]
OBVIOUS

LEMMA LeaseType ==
  ASSUME NEW u \in Uploads, NEW l \in Lease, session \in [Uploads -> Session],
         session' = [session EXCEPT ![u].lease = l]
  PROVE  session' \in [Uploads -> Session]
BY DEF Session

LEMMA ChangedRecord ==
  ASSUME NEW r \in Session, NEW token \in Attempts \cup {NoAttempt}, NEW l \in Lease,
         NEW status \in {"completing", "cancelled", "deleted"}
  PROVE  [r EXCEPT !.status = status, !.token = token, !.lease = l] \in Session
BY DEF Session

LEMMA ChangeType ==
  ASSUME NEW u \in Uploads, NEW token \in Attempts \cup {NoAttempt}, NEW l \in Lease,
         NEW status \in {"completing", "cancelled", "deleted"},
         session \in [Uploads -> Session],
         session' = [session EXCEPT ![u].status = status,
                                    ![u].token  = token,
                                    ![u].lease  = l]
  PROVE  session' \in [Uploads -> Session]
BY ChangedRecord

LEMMA FailedRecord ==
  ASSUME NEW r \in Session
  PROVE  FailedSession(r) \in Session
BY DEF FailedSession, Session, Lease

LEMMA CompletedRecord ==
  ASSUME NEW r \in Session, NEW f \in Attempts \cup {NoFile, OtherFile}
  PROVE  CompletedSession(r, f) \in Session
BY DEF CompletedSession, Session, Lease

\* The evidence a compensation records, by the handler or by a sweep.
LEMMA CompensatedRecord ==
  ASSUME NEW r \in Journal, NEW obj \in Evidence, NEW idx \in Evidence
  PROVE  [r EXCEPT
            !.object = obj,
            !.index  = idx,
            !.status = IF Settled(obj, idx) THEN "resolved" ELSE "pending",
            !.reason = IF Settled(obj, idx) THEN "compensated" ELSE "uncertain"]
         \in Journal
<1>1. PICK status \in {"resolved", "pending"} :
        status = IF Settled(obj, idx) THEN "resolved" ELSE "pending"
  OBVIOUS
<1>2. PICK reason \in {"compensated", "uncertain"} :
        reason = IF Settled(obj, idx) THEN "compensated" ELSE "uncertain"
  OBVIOUS
<1>3. [r EXCEPT !.object = obj, !.index = idx, !.status = status, !.reason = reason]
      \in Journal
  BY DEF Journal
<1>4. QED
  BY <1>1, <1>2, <1>3

LEMMA HandlerStatementType ==
  ASSUME SessionTypeOK, NEW t \in Attempts, HandlerStatement(t)
  PROVE  SessionTypeOK'
<1> USE ConstantsOK
<1>0. UploadOf[t] \in Uploads /\ journal[t] \in Journal
  BY DEF SessionTypeOK
<1>1. CASE ClaimCompletion(t, TRUE)
  <2>1. session' \in [Uploads -> Session]
    BY <1>0, <1>1, ChangeType DEF ClaimCompletion, SessionTypeOK, Lease
  <2>2. QED
    BY <1>1, <2>1 DEF ClaimCompletion, SessionTypeOK
<1>2. CASE RenewCompletion(t)
  <2>1. session' \in [Uploads -> Session]
    BY <1>0, <1>2, LeaseType DEF RenewCompletion, SessionTypeOK, Lease
  <2>2. QED
    BY <1>2, <2>1 DEF RenewCompletion, SessionTypeOK
<1>3. CASE MarkCompletionFailed(t)
  <2>1. session' \in [Uploads -> Session]
    BY <1>0, <1>3, FailedRecord, RecordType DEF MarkCompletionFailed, SessionTypeOK
  <2>2. QED
    BY <1>3, <2>1 DEF MarkCompletionFailed, SessionTypeOK
<1>4. CASE MarkCompleted(t, OtherFile)
  <2>1. session' \in [Uploads -> Session]
    BY <1>0, <1>4, CompletedRecord, RecordType DEF MarkCompleted, SessionTypeOK
  <2>2. QED
    BY <1>4, <2>1 DEF MarkCompleted, SessionTypeOK
<1>5. CASE BeginReconciliation(t)
  <2>1. [NoJournal EXCEPT !.status = "pending"] \in Journal
    BY DEF NoJournal, Journal, Evidence, Lease
  <2>2. QED
    BY <1>5, <2>1, WriteType DEF BeginReconciliation, SessionTypeOK
<1>6. CASE MarkObjectPresent(t)
  <2>1. [journal[t] EXCEPT !.object = "present", !.path = TRUE] \in Journal
    BY <1>0 DEF Journal, Evidence
  <2>2. QED
    BY <1>6, <2>1, WriteType DEF MarkObjectPresent, SessionTypeOK
<1>7. CASE MarkIndexPresent(t)
  <2>1. [journal[t] EXCEPT !.index = "present", !.fileId = TRUE] \in Journal
    BY <1>0 DEF Journal, Evidence
  <2>2. QED
    BY <1>7, <2>1, WriteType DEF MarkIndexPresent, SessionTypeOK
<1>8. CASE CompleteWithReconciliation(t)
  <2>1. [journal[t] EXCEPT !.status = "resolved", !.reason = "committed"] \in Journal
    BY <1>0 DEF Journal
  <2>2. journal' \in [Attempts -> Journal]
    BY <1>8, <2>1, WriteType DEF CompleteWithReconciliation
  <2>3. session' \in [Uploads -> Session]
    BY <1>0, <1>8, CompletedRecord, RecordType
       DEF CompleteWithReconciliation, SessionTypeOK
  <2>4. QED
    BY <2>2, <2>3 DEF SessionTypeOK
<1>9. CASE \E obj, idx \in Evidence : UpdateAfterCompensation(t, obj, idx)
  <2>1. PICK obj \in Evidence, idx \in Evidence : UpdateAfterCompensation(t, obj, idx)
    BY <1>9
  <2>2. [journal[t] EXCEPT
           !.object = obj,
           !.index  = idx,
           !.status = IF Settled(obj, idx) THEN "resolved" ELSE "pending",
           !.reason = IF Settled(obj, idx) THEN "compensated" ELSE "uncertain"]
        \in Journal
    BY <1>0, CompensatedRecord
  <2>3. QED
    BY <2>1, <2>2, WriteType DEF UpdateAfterCompensation, SessionTypeOK
<1>10. QED
  BY <1>1, <1>2, <1>3, <1>4, <1>5, <1>6, <1>7, <1>8, <1>9 DEF HandlerStatement

LEMMA SweepStatementType ==
  ASSUME SessionTypeOK, NEW s \in Sweeps, NEW t \in Attempts, SweepStatement(s, t)
  PROVE  SessionTypeOK'
<1>0. journal[t] \in Journal
  BY DEF SessionTypeOK
<1>1. CASE ClaimReconciliation(s, t)
  <2>1. [journal[t] EXCEPT !.owner = s, !.lease = "live"] \in Journal
    BY <1>0 DEF Journal, Lease
  <2>2. QED
    BY <1>1, <2>1, WriteType DEF ClaimReconciliation, SessionTypeOK
<1>2. CASE RequireOperator(s, t)
  <2>1. [Released(journal[t]) EXCEPT !.operator = TRUE] \in Journal
    BY <1>0 DEF Released, Journal, Lease
  <2>2. QED
    BY <1>2, <2>1, WriteType DEF RequireOperator, SessionTypeOK
<1>3. CASE sweep[s].isFinal /\ ConfirmCommitted(s, t)
  <2>1. [Released(journal[t]) EXCEPT !.status = "resolved", !.reason = "committed"]
        \in Journal
    BY <1>0 DEF Released, Journal, Lease
  <2>2. QED
    BY <1>3, <2>1, WriteType DEF ConfirmCommitted, SessionTypeOK
<1>4. CASE RenewReconciliation(s, t)
  <2>1. [journal[t] EXCEPT !.lease = "live"] \in Journal
    BY <1>0 DEF Journal, Lease
  <2>2. QED
    BY <1>4, <2>1, WriteType DEF RenewReconciliation, SessionTypeOK
<1>5. CASE \E obj, idx \in Evidence : ResolveReconciliation(s, t, obj, idx)
  <2>1. PICK obj \in Evidence, idx \in Evidence : ResolveReconciliation(s, t, obj, idx)
    BY <1>5
  <2>0. Released(journal[t]) \in Journal
    BY <1>0 DEF Released, Journal, Lease
  <2>2. [Released(journal[t]) EXCEPT
           !.object = obj,
           !.index  = idx,
           !.status = IF Settled(obj, idx) THEN "resolved" ELSE "pending",
           !.reason = IF Settled(obj, idx) THEN "compensated" ELSE "uncertain"]
        \in Journal
    BY <2>0, CompensatedRecord
  <2>3. QED
    BY <2>1, <2>2, WriteType DEF ResolveReconciliation, SessionTypeOK
<1>6. QED
  BY <1>1, <1>2, <1>3, <1>4, <1>5 DEF SweepStatement

LEMMA SessionStatementType ==
  ASSUME SessionTypeOK, NEW u \in Uploads, SessionStatement(u)
  PROVE  SessionTypeOK'
<1>1. CASE ReopenFailed(u)
  BY <1>1 DEF ReopenFailed, SessionTypeOK, Session
<1>2. CASE Cancel(u)
  <2>1. session' \in [Uploads -> Session]
    BY <1>2, ChangeType DEF Cancel, SessionTypeOK, Lease
  <2>2. QED
    BY <1>2, <2>1 DEF Cancel, SessionTypeOK
<1>4. CASE SessionExpires(u)
  BY <1>4 DEF SessionExpires, SessionTypeOK, Session
<1>5. CASE CompletionLeaseLapses(u)
  <2>1. session' \in [Uploads -> Session]
    BY <1>5, LeaseType DEF CompletionLeaseLapses, SessionTypeOK, Lease
  <2>2. QED
    BY <1>5, <2>1 DEF CompletionLeaseLapses, SessionTypeOK
<1>6. QED
  BY <1>1, <1>2, <1>4, <1>5 DEF SessionStatement

LEMMA BatchStatementType ==
  ASSUME SessionTypeOK, BatchStatement
  PROVE  SessionTypeOK'
<1>1. PICK batch \in SUBSET Uploads :
        DeleteExpiredSessions(batch) \/ RecoverExpiredCompletions(batch)
  BY DEF BatchStatement
<1>2. \A u \in Uploads : session[u] \in Session
  BY DEF SessionTypeOK
<1>3. CASE DeleteExpiredSessions(batch)
  <2>1. NoJournal \in Journal
    BY DEF NoJournal, Journal, Evidence, Lease
  <2>2. journal' \in [Attempts -> Journal]
    BY <1>3, <2>1 DEF DeleteExpiredSessions, SessionTypeOK
  <2>3. \A u \in Uploads : DeletedSession(session[u]) \in Session
    <3> TAKE u \in Uploads
    <3> QED BY <1>2, ChangedRecord DEF DeletedSession, Lease
  <2>4. session' \in [Uploads -> Session]
    BY <1>2, <1>3, <2>3 DEF DeleteExpiredSessions
  <2> QED BY <2>2, <2>4 DEF SessionTypeOK
<1>4. CASE RecoverExpiredCompletions(batch)
  <2>1. \A u \in Uploads : FailedSession(session[u]) \in Session
    BY <1>2, FailedRecord
  <2>2. session' \in [Uploads -> Session]
    BY <1>2, <1>4, <2>1 DEF RecoverExpiredCompletions
  <2> QED BY <1>4, <2>2 DEF RecoverExpiredCompletions, SessionTypeOK
<1> QED BY <1>1, <1>3, <1>4

LEMMA RowDeletedType ==
  ASSUME SessionTypeOK, NEW t \in Attempts, RowDeleted(t)
  PROVE  SessionTypeOK'
<1>1. UploadOf[t] \in Uploads
  BY ConstantsOK
<1>2. session' \in [Uploads -> Session]
  <2>1. [session[UploadOf[t]] EXCEPT !.file = IF @ = t THEN NoFile ELSE @] \in Session
    BY <1>1 DEF SessionTypeOK, Session
  <2>2. QED
    BY <1>1, <2>1, RecordType DEF RowDeleted, DeleteRow, SessionTypeOK
<1>3. QED
  BY <1>2 DEF RowDeleted, SessionTypeOK

LEMMA LapseType ==
  ASSUME SessionTypeOK, NEW t \in Attempts, ReconciliationLeaseLapses(t)
  PROVE  SessionTypeOK'
<1>1. [journal[t] EXCEPT !.lease = "lapsed"] \in Journal
  BY DEF SessionTypeOK, Journal, Lease
<1>2. QED
  BY <1>1, WriteType DEF ReconciliationLeaseLapses, SessionTypeOK

LEMMA GotoType ==
  ASSUME NEW t \in Attempts, NEW l \in InFlight \cup {"idle", "done"},
         handler \in [Attempts -> Handler], Goto(t, l)
  PROVE  handler' \in [Attempts -> Handler]
BY DEF Goto, Handler

LEMMA DoneType == DoneHandler \in Handler
BY DEF DoneHandler, IdleHandler, Handler, Evidence

LEMMA HandlerType ==
  ASSUME NEW t \in Attempts, handler \in [Attempts -> Handler], Complete(t)
  PROVE  handler' \in [Attempts -> Handler]
<1>1. CASE \E l \in InFlight : Goto(t, l)
  BY <1>1, GotoType
<1>2. CASE HeartbeatLoses(t)
  BY <1>2 DEF HeartbeatLoses, Handler
<1>3. CASE InsertFile(t)
  BY <1>3, ZenonT(60) DEF InsertFile, Handler, InFlight
<1>4. CASE UndoObject(t)
  <2>1. PICK e \in Evidence :
          handler' = [handler EXCEPT ![t].pc = "undoIndex", ![t].object = e]
    BY <1>4 DEF UndoObject
  <2>2. QED
    BY <2>1, ZenonT(60) DEF Handler, InFlight
<1>5. CASE UndoIndex(t)
  <2>1. PICK e \in Evidence :
          handler' = [handler EXCEPT ![t].pc = "undoPersist", ![t].index = e]
    BY <1>5 DEF UndoIndex, Evidence
  <2>2. QED
    BY <2>1, ZenonT(60) DEF Handler, InFlight
<1>6. CASE Fail(t) \/ Cleanup(t)
  BY <1>6, DoneType DEF Fail, Cleanup
<1>7. CASE UNCHANGED handler
  BY <1>7
<1>8. QED
  <2>1. CASE Claim(t) \/ ClaimFails(t) \/ Prepare(t) \/ PrepareFails(t) \/ SkipDuplicate(t)
             \/ SkipDuplicateFails(t) \/ Begin(t) \/ BeginFails(t) \/ SaveFile(t)
             \/ SaveFileFails(t) \/ RecordUncertain(t) \/ MarkObject(t) \/ MarkIndex(t)
             \/ InsertFileFails(t) \/ JournalFails(t) \/ Commit(t) \/ CommitFails(t) \/ UndoPersist(t)
    BY <1>1, <2>1 DEF InFlight, Claim, Prepare, PrepareFails, SkipDuplicate,
       SkipDuplicateFails, Begin, BeginFails, SaveFile, SaveFileFails,
       RecordUncertain, MarkObject, MarkIndex, InsertFileFails, JournalFails,
       ClaimFails, Failing, Commit, CommitFails,
       UndoPersist
  <2>2. CASE HeartbeatRenews(t)
    BY <1>7, <2>2 DEF HeartbeatRenews
  <2>3. QED
    BY <1>2, <1>3, <1>4, <1>5, <1>6, <2>1, <2>2 DEF Complete, Proceed

LEMMA SweepToType ==
  ASSUME NEW s \in Sweeps,
         NEW l \in {"idle", "object", "confirm", "index", "persist", "recovery"},
         sweep \in [Sweeps -> Sweep], SweepTo(s, l)
  PROVE  sweep' \in [Sweeps -> Sweep]
BY DEF SweepTo, Sweep

LEMMA IdleSweepType ==
  /\ IdleSweep \in Sweep
  /\ \A l \in {"expiry", "cutShort"} : [IdleSweep EXCEPT !.pc = l] \in Sweep
BY DEF IdleSweep, Sweep, Evidence

LEMMA SweepType ==
  ASSUME NEW s \in Sweeps, TypeOK, Maintain(s)
  PROVE  sweep' \in [Sweeps -> Sweep]
<1>0. sweep \in [Sweeps -> Sweep]
  BY DEF TypeOK
<1>1. CASE \E t \in Attempts : SweepClaims(s, t)
  <2>1. PICK t \in Attempts : SweepClaims(s, t)
    BY <1>1
  <2>2. journal[t] \in Journal
    BY DEF TypeOK, SessionTypeOK
  <2>3. /\ journal[t].object \in Evidence /\ journal[t].index \in Evidence
        /\ journal[t].path \in BOOLEAN /\ journal[t].fileId \in BOOLEAN
    BY <2>2 DEF Journal
  <2>4. [pc |-> "claimed", op |-> t, object |-> journal[t].object,
         index |-> journal[t].index, path |-> journal[t].path,
         fileId |-> journal[t].fileId,
         isFinal |-> /\ session[UploadOf[t]].status = "completed"
                     /\ session[UploadOf[t]].file = t] \in Sweep
    BY <2>3 DEF Sweep
  <2>5. QED
    BY <1>0, <2>1, <2>4 DEF SweepClaims
<1>2. CASE SweepGoesOn(s) \/ SweepCutShort(s)
  BY <1>0, <1>2, IdleSweepType DEF SweepGoesOn, SweepCutShort, SweepEnds
<1>3. CASE \E l \in {"idle", "object", "confirm", "index", "persist", "recovery"} :
             SweepTo(s, l)
  BY <1>0, <1>3, SweepToType
<1>4. CASE SweepDeletesObject(s)
  BY <1>0, <1>3, <1>4 DEF SweepDeletesObject, Sweep
<1>5. CASE SweepDeletesRow(s)
  BY <1>0, <1>3, <1>5 DEF SweepDeletesRow, Sweep, Evidence
<1>6. QED
  <2>1. CASE \/ SweepFindsNothing(s) \/ SweepCannotClaim(s) \/ SweepHasNoTarget(s)
             \/ SweepSettlesAtOnce(s) \/ SweepLosesLease(s) \/ SweepPersists(s)
             \/ RunFails(s)
    BY <1>2, <2>1 DEF SweepFindsNothing, SweepCannotClaim, SweepHasNoTarget,
       SweepSettlesAtOnce, SweepLosesLease, SweepPersists, RunFails
  <2>2. CASE SweepStarts(s) \/ SweepConfirms(s) \/ RunDeletes(s) \/ RunRecovers(s)
             \/ NextRun(s)
    BY <1>3, <2>2 DEF SweepStarts, SweepConfirms, SweepChecksLease, RunDeletes,
       RunRecovers, NextRun
  <2>3. QED
    BY <1>1, <1>4, <1>5, <2>1, <2>2 DEF Maintain

LEMMA HandlerStore ==
  ASSUME NEW t \in Attempts, Complete(t)
  PROVE  /\ objects' \in {objects, objects \cup {t}, objects \ {t}}
         /\ files' \in {files, files \cup {t}, files \ {t}}
         /\ unanswered' \in {unanswered, unanswered \cup {t}}
         /\ chunkDir' \in {chunkDir, chunkDir \ {UploadOf[t]}}
         /\ removals' = removals
<1> USE DEF store, rows, disk
<1>1. CASE \/ Claim(t) \/ ClaimFails(t) \/ HeartbeatRenews(t) \/ HeartbeatLoses(t)
           \/ Prepare(t) \/ PrepareFails(t) \/ SkipDuplicate(t)
           \/ SkipDuplicateFails(t) \/ Begin(t) \/ BeginFails(t)
           \/ RecordUncertain(t) \/ MarkObject(t) \/ MarkIndex(t) \/ JournalFails(t)
           \/ Commit(t) \/ CommitFails(t) \/ UndoPersist(t) \/ Fail(t)
  BY <1>1 DEF Claim, ClaimFails, HeartbeatRenews, HeartbeatLoses, Prepare,
     PrepareFails, SkipDuplicate, SkipDuplicateFails, Begin, BeginFails,
     RecordUncertain, MarkObject, MarkIndex, JournalFails, Commit, CommitFails,
     UndoPersist, Fail
<1>2. CASE SaveFile(t) \/ SaveFileFails(t) \/ InsertFile(t) \/ InsertFileFails(t)
           \/ Cleanup(t)
  BY <1>2 DEF SaveFile, SaveFileFails, InsertFile, InsertFileFails, Cleanup
<1>3. CASE UndoObject(t)
  BY <1>3 DEF UndoObject, DeleteObject
<1>4. CASE UndoIndex(t)
  BY <1>4 DEF UndoIndex, DeleteRow
<1>5. QED
  BY <1>1, <1>2, <1>3, <1>4 DEF Complete, Proceed

LEMMA SweepStore ==
  ASSUME NEW s \in Sweeps, Maintain(s)
  PROVE  /\ objects' \in {objects, objects \ {sweep[s].op}}
         /\ files' \in {files, files \ {sweep[s].op}}
         /\ UNCHANGED <<handler, unanswered, chunkDir>>
         /\ \/ UNCHANGED removals
            \/ \E batch \in SUBSET Uploads :
                 DeleteExpiredSessions(batch) /\ removals' = removals \cup batch
<1> USE DEF store, rows, disk
<1>1. CASE \/ \E t \in Attempts : SweepClaims(s, t)
           \/ SweepFindsNothing(s) \/ SweepCannotClaim(s) \/ SweepHasNoTarget(s)
           \/ SweepSettlesAtOnce(s) \/ SweepStarts(s) \/ SweepConfirms(s)
           \/ SweepLosesLease(s) \/ SweepPersists(s)
  BY <1>1 DEF SweepClaims, SweepFindsNothing, SweepCannotClaim, SweepHasNoTarget,
     SweepSettlesAtOnce, SweepStarts, SweepConfirms, SweepChecksLease, SweepLosesLease,
     SweepPersists
<1>2. CASE SweepDeletesObject(s) \/ SweepDeletesRow(s)
  BY <1>2 DEF SweepDeletesObject, DeleteObject, SweepDeletesRow, DeleteRow
<1>3. CASE RunDeletes(s) \/ RunRecovers(s) \/ RunFails(s) \/ NextRun(s)
  BY <1>3 DEF RunDeletes, RunRecovers, RunFails, NextRun
<1> QED BY <1>1, <1>2, <1>3 DEF Maintain

(* A sweep at work knows its operation. *)
SweepHasOp(s) == Working(s) => sweep[s].op \in Attempts

LEMMA SweepHasOpStep ==
  ASSUME TypeOK, Next, \A s \in Sweeps : SweepHasOp(s)
  PROVE  \A s \in Sweeps : SweepHasOp(s)'
<1> SUFFICES ASSUME NEW x \in Sweeps PROVE SweepHasOp(x)'
  OBVIOUS
<1> USE DEF SweepHasOp, Working
<1>0. sweep \in [Sweeps -> Sweep]
  BY DEF TypeOK
<1>1. ASSUME NEW t \in Attempts, Complete(t) \/ JournalLapse(t)
      PROVE  SweepHasOp(x)'
  <2>1. UNCHANGED sweep
    BY <1>1 DEF Complete, Proceed, JournalLapse, Claim, HeartbeatRenews,
       HeartbeatLoses, Prepare, PrepareFails, SkipDuplicate, SkipDuplicateFails, Begin,
       BeginFails, SaveFile, SaveFileFails, RecordUncertain, MarkObject, InsertFile,
       MarkIndex, InsertFileFails, JournalFails, ClaimFails, Commit, CommitFails,
       UndoObject, UndoIndex, UndoPersist, Fail, Cleanup
  <2>2. QED
    BY <2>1
<1>2. ASSUME NEW s \in Sweeps, Maintain(s)
      PROVE  SweepHasOp(x)'
  <2>1. ASSUME SweepGoesOn(s) \/ SweepCutShort(s) PROVE SweepHasOp(x)'
    <3>1. sweep'[s].pc \in {"expiry", "cutShort"}
          /\ \A y \in Sweeps \ {s} : sweep'[y] = sweep[y]
      BY <1>0, <2>1 DEF SweepGoesOn, SweepCutShort, SweepEnds, IdleSweep
    <3> QED BY <3>1
  <2>2. CASE \E t \in Attempts : SweepClaims(s, t)
    BY <1>0, <2>2 DEF SweepClaims
  <2>3. ASSUME \/ sweep'[s].op = sweep[s].op /\ Working(s)
               \/ sweep'[s].pc \in {"idle", "recovery"},
               \A y \in Sweeps \ {s} : sweep'[y] = sweep[y]
        PROVE  SweepHasOp(x)'
    BY <2>3
  <2>4. ASSUME NEW l, SweepTo(s, l)
        PROVE  /\ sweep'[s].op = sweep[s].op /\ sweep'[s].pc = l
               /\ \A y \in Sweeps \ {s} : sweep'[y] = sweep[y]
    BY <1>0, <2>4 DEF SweepTo, Sweep
  <2>5. CASE SweepStarts(s) \/ SweepConfirms(s)
    BY <2>3, <2>4, <2>5 DEF SweepStarts, SweepConfirms, SweepChecksLease, SweepAt
  <2>6. CASE SweepDeletesObject(s)
    <3>1. Working(s)
      BY <2>6 DEF SweepDeletesObject, SweepAt
    <3>2. CASE SweepTo(s, "confirm")
      BY <2>3, <2>4, <3>1, <3>2
    <3>3. CASE \E e \in Evidence :
                 sweep' = [sweep EXCEPT ![s].pc = "confirm", ![s].object = e]
      <4>1. sweep'[s].op = sweep[s].op /\ \A y \in Sweeps \ {s} : sweep'[y] = sweep[y]
        BY <1>0, <3>3 DEF Sweep
      <4> QED BY <2>3, <3>1, <4>1
    <3> QED BY <2>6, <3>2, <3>3 DEF SweepDeletesObject
  <2>7. CASE SweepDeletesRow(s)
    <3>1. Working(s)
      BY <2>7 DEF SweepDeletesRow, SweepAt
    <3>2. CASE SweepTo(s, "persist")
      BY <2>3, <2>4, <3>1, <3>2
    <3>3. CASE \E e \in Evidence :
                 sweep' = [sweep EXCEPT ![s].pc = "persist", ![s].index = e]
      <4>1. sweep'[s].op = sweep[s].op /\ \A y \in Sweeps \ {s} : sweep'[y] = sweep[y]
        BY <1>0, <3>3 DEF Sweep
      <4> QED BY <2>3, <3>1, <4>1
    <3> QED BY <2>7, <3>2, <3>3 DEF SweepDeletesRow, Evidence
  <2>8. CASE \/ SweepFindsNothing(s) \/ SweepCannotClaim(s) \/ SweepHasNoTarget(s)
             \/ SweepSettlesAtOnce(s) \/ SweepLosesLease(s) \/ SweepPersists(s)
             \/ RunFails(s)
    BY <2>1, <2>8 DEF SweepFindsNothing, SweepCannotClaim, SweepHasNoTarget,
       SweepSettlesAtOnce, SweepLosesLease, SweepPersists, RunFails
  <2>9. CASE RunDeletes(s) \/ RunRecovers(s) \/ NextRun(s)
    BY <2>3, <2>4, <2>9 DEF RunDeletes, RunRecovers, NextRun
  <2>10. QED
    BY <1>2, <2>2, <2>5, <2>6, <2>7, <2>8, <2>9 DEF Maintain
<1>3. ASSUME NEW u \in Uploads, Manage(u) \/ Expire(u) \/ LeaseLapse(u)
      PROVE  SweepHasOp(x)'
  BY <1>3 DEF Manage, Expire, LeaseLapse, Retry, CancelUpload, RemoveDir
<1>4. CASE Crash
  BY <1>4 DEF Crash, IdleSweep
<1>5. QED
  BY <1>1, <1>2, <1>3, <1>4 DEF Next

LEMMA TypeStep ==
  ASSUME TypeOK, Next, \A s \in Sweeps : SweepHasOp(s)
  PROVE  TypeOK'
<1>0. /\ SessionTypeOK
      /\ handler \in [Attempts -> Handler]
      /\ sweep \in [Sweeps -> Sweep]
      /\ objects \subseteq Attempts
      /\ files \subseteq Attempts
      /\ unanswered \subseteq Attempts
      /\ chunkDir \subseteq Uploads
      /\ removals \subseteq Uploads
  BY DEF TypeOK
<1>s. ASSUME UNCHANGED Tables PROVE SessionTypeOK'
  BY <1>0, <1>s DEF Tables, SessionTypeOK
<1>1. ASSUME NEW t \in Attempts, Complete(t)
      PROVE  TypeOK'
  <2>1. SessionTypeOK'
    BY <1>0, <1>1, <1>s, HandlerSteps, HandlerStatementType, RowDeletedType
  <2>2. handler' \in [Attempts -> Handler]
    BY <1>0, <1>1, HandlerType
  <2>3. UNCHANGED sweep
    BY <1>1 DEF Complete, Proceed, Claim, HeartbeatRenews, HeartbeatLoses, Prepare,
       PrepareFails, SkipDuplicate, SkipDuplicateFails, Begin, BeginFails, SaveFile,
       SaveFileFails, RecordUncertain, MarkObject, InsertFile, MarkIndex,
       InsertFileFails, JournalFails, ClaimFails, Failing, Commit, CommitFails,
       UndoObject, UndoIndex, UndoPersist, Fail,
       Cleanup
  <2>4. /\ objects' \subseteq Attempts
        /\ files' \subseteq Attempts
        /\ unanswered' \subseteq Attempts
        /\ chunkDir' \subseteq Uploads
        /\ removals' \subseteq Uploads
    BY <1>0, <1>1, HandlerStore
  <2>5. QED
    BY <1>0, <2>1, <2>2, <2>3, <2>4 DEF TypeOK
<1>2. ASSUME NEW s \in Sweeps, Maintain(s)
      PROVE  TypeOK'
  <2>1. SessionTypeOK'
    <3>1. sweep[s] \in Sweep
      BY <1>0
    <3>2. Working(s) => sweep[s].op \in Attempts
      BY DEF SweepHasOp
    <3>3. QED
      BY <1>0, <1>2, <1>s, <3>1, <3>2, SweepSteps, SweepStatementType,
         BatchStatementType, RowDeletedType
  <2>2. sweep' \in [Sweeps -> Sweep]
    BY <1>2, SweepType
  <2>4. /\ objects' \subseteq Attempts
        /\ files' \subseteq Attempts
        /\ unanswered' \subseteq Attempts
        /\ chunkDir' \subseteq Uploads
        /\ removals' \subseteq Uploads
    BY <1>0, <1>2, SweepStore
  <2>5. QED
    BY <1>0, <1>2, <2>1, <2>2, <2>4, SweepStore DEF TypeOK
<1>3. ASSUME NEW u \in Uploads, Manage(u) \/ Expire(u) \/ LeaseLapse(u)
      PROVE  TypeOK'
  <2>1. SessionTypeOK'
    BY <1>0, <1>3, <1>s, ManageSteps, SessionStatementType
  <2>2. /\ UNCHANGED <<handler, sweep, store>>
        /\ chunkDir' \in {chunkDir, chunkDir \ {u}}
        /\ removals' \in {removals, removals \cup {u}, removals \ {u}}
    BY <1>3 DEF Manage, Expire, LeaseLapse, Retry, CancelUpload, RemoveDir, disk
  <2>3. QED
    BY <1>0, <2>1, <2>2 DEF TypeOK, store, rows
<1>4. ASSUME NEW t \in Attempts, JournalLapse(t)
      PROVE  TypeOK'
  <2>1. SessionTypeOK'
    BY <1>0, <1>4, LapseType DEF JournalLapse
  <2>2. QED
    BY <1>0, <1>4, <2>1 DEF JournalLapse, TypeOK, store, rows, disk
<1>5. CASE Crash
  <2>1. SessionTypeOK'
    BY <1>s, <1>5 DEF Crash
  <2>2. handler' \in [Attempts -> Handler] /\ sweep' \in [Sweeps -> Sweep]
    BY <1>0, <1>5, DoneType, IdleSweepType DEF Crash
  <2>3. QED
    BY <1>0, <1>5, <2>1, <2>2 DEF Crash, TypeOK, store, rows
<1>6. QED
  BY <1>1, <1>2, <1>3, <1>4, <1>5 DEF Next

\* Every table keeps the values its CHECK constraints allow and every local
\* variable of a handler or a sweep keeps its type (db/schema.sql:174-243).
THEOREM TypeCorrect == Spec => []TypeOK
<1> DEFINE Typed == TypeOK /\ \A s \in Sweeps : SweepHasOp(s)
<1>1. Init => Typed
  BY InitType DEF Init, SweepHasOp, Working, IdleSweep
<1>2. Typed /\ [Next]_vars => Typed'
  <2>1. ASSUME Typed, Next PROVE Typed'
    BY <2>1, TypeStep, SweepHasOpStep
  <2>2. ASSUME Typed, UNCHANGED vars PROVE Typed'
    BY <2>2 DEF vars, TypeOK, SessionTypeOK, SweepHasOp, Working
  <2>3. QED
    BY <2>1, <2>2
<1>3. QED
  BY <1>1, <1>2, PTL DEF Spec

-----------------------------------------------------------------------------
(* The inductive invariant: what is known of one attempt, ... *)

Undoing(t) == handler[t].pc \in {"undoObject", "undoIndex", "undoPersist"}

\* The handler has not inserted the files row (yet, or ever).
RowNotInserted(t) ==
  \/ handler[t].pc \in {"begun", "uncertain", "saved", "marked"}
  \/ Undoing(t) /\ ~handler[t].inserted

\* The operation carries no evidence about a row.
RowNotJournalled(t) == RowNotInserted(t) \/ At(t, "indexed")

\* Before the journal operation begins, the attempt has done nothing.
Quiet(t) ==
  handler[t].pc \in {"idle", "claimed", "prepared"} =>
    /\ t \notin objects
    /\ t \notin KnownRows
    /\ journal[t].status = "none"
    /\ \A s \in Sweeps : sweep[s].op # t

\* While the object is being saved the journal and every snapshot of it are blank.
ObjectUnjournalled(t) ==
  At(t, "begun") =>
    /\ Pending(t)
    /\ journal[t].object = "unknown"
    /\ ~journal[t].path
    /\ \A s \in Sweeps : sweep[s].op = t =>
         sweep[s].object = "unknown" /\ ~sweep[s].path

\* Until the row is journalled nobody holds evidence about it.
RowUnjournalled(t) ==
  RowNotJournalled(t) =>
    /\ Pending(t)
    /\ journal[t].index = "unknown"
    /\ ~journal[t].fileId
    /\ \A s \in Sweeps : sweep[s].op = t =>
         sweep[s].index = "unknown" /\ ~sweep[s].fileId

NoRowYet(t) == RowNotInserted(t) => t \notin KnownRows

InsertedKnown(t) == handler[t].pc \in {"indexed", "ready"} => handler[t].inserted

\* Evidence of a deletion, wherever it is kept, is true.
JournalEvidence(t) ==
  /\ journal[t].object = "deleted" => t \notin objects
  /\ journal[t].index = "deleted" => t \notin KnownRows

HandlerEvidence(t) ==
  /\ handler[t].pc \in {"undoIndex", "undoPersist"} /\ handler[t].object = "deleted"
       => t \notin objects
  /\ At(t, "undoPersist") /\ handler[t].index = "deleted" => t \notin KnownRows

Accounted(t) == t \in objects \cup KnownRows => Pending(t) \/ Committed(t)

Local(t) ==
  /\ Quiet(t)
  /\ ObjectUnjournalled(t)
  /\ RowUnjournalled(t)
  /\ NoRowYet(t)
  /\ InsertedKnown(t)
  /\ JournalEvidence(t)
  /\ HandlerEvidence(t)
  /\ Accounted(t)

(* ... of one sweep, ... *)

SweepEvidence(s) ==
  /\ sweep[s].object = "deleted" => sweep[s].op \notin objects
  /\ sweep[s].index = "deleted" => sweep[s].op \notin KnownRows

Sweeping(s) ==
  /\ SweepHasOp(s)
  /\ SweepEvidence(s)
  /\ ~sweep[s].isFinal

(* ... of the sessions and their commits, and of the disk. *)

FileCommitted(t) == session[UploadOf[t]].file = t => Committed(t)

Commits ==
  /\ CommitMatchesSession
  /\ OneCommitPerUpload
  /\ \A t \in Attempts : FileCommitted(t)

Removable(u) == session[u].status \in {"cancelled", "deleted"}

Disk ==
  /\ ChunksKept
  /\ \A u \in removals : Removable(u)
  /\ \A t \in Attempts : At(t, "cleanup") => session[UploadOf[t]].status = "completed"

Inv ==
  /\ TypeOK
  /\ \A t \in Attempts : Local(t)
  /\ \A s \in Sweeps : Sweeping(s)
  /\ Commits
  /\ Disk

-----------------------------------------------------------------------------
(* One attempt: Local(x) says nothing against an object or a row that goes *)
(* away, so it survives every step that leaves its handler and its evidence. *)

EvidenceKept(x) ==
  /\ journal'[x].status = journal[x].status
  /\ journal'[x].reason = journal[x].reason
  /\ journal'[x].object = journal[x].object
  /\ journal'[x].index = journal[x].index
  /\ journal'[x].path = journal[x].path
  /\ journal'[x].fileId = journal[x].fileId

SnapshotKept(s) ==
  /\ sweep'[s].op = sweep[s].op
  /\ sweep'[s].object = sweep[s].object
  /\ sweep'[s].index = sweep[s].index
  /\ sweep'[s].path = sweep[s].path
  /\ sweep'[s].fileId = sweep[s].fileId

NothingAdded(x) ==
  /\ x \in objects' => x \in objects
  /\ x \in KnownRows' => x \in KnownRows

LEMMA LocalFrame ==
  ASSUME NEW x \in Attempts, Local(x), handler'[x] = handler[x],
         EvidenceKept(x), NothingAdded(x),
         \A s \in Sweeps : sweep'[s].op = x => SnapshotKept(s)
  PROVE  Local(x)'
<1> USE DEF EvidenceKept, NothingAdded, SnapshotKept, Local
<1>1. Quiet(x)'
  BY DEF Quiet
<1>2. ObjectUnjournalled(x)'
  BY DEF ObjectUnjournalled, At, Pending
<1>3. RowUnjournalled(x)' /\ NoRowYet(x)' /\ InsertedKnown(x)'
  BY DEF RowUnjournalled, NoRowYet, InsertedKnown, RowNotJournalled, RowNotInserted,
     Undoing, At, Pending
<1>4. JournalEvidence(x)' /\ HandlerEvidence(x)' /\ Accounted(x)'
  BY DEF JournalEvidence, HandlerEvidence, Accounted, At, Pending, Committed
<1>5. QED
  BY <1>1, <1>2, <1>3, <1>4

LEMMA HandlerLeavesSweeps ==
  ASSUME NEW t \in Attempts, Complete(t)
  PROVE  UNCHANGED sweep
BY DEF Complete, Proceed, Claim, HeartbeatRenews, HeartbeatLoses, Prepare,
   PrepareFails, SkipDuplicate, SkipDuplicateFails, Begin, BeginFails, SaveFile,
   SaveFileFails, RecordUncertain, MarkObject, InsertFile, MarkIndex,
   InsertFileFails, JournalFails, ClaimFails, Failing, Commit, CommitFails, UndoObject,
   UndoIndex, UndoPersist, Fail,
   Cleanup

LEMMA HandlerMinds ==
  ASSUME NEW t \in Attempts, NEW x \in Attempts, x # t,
         handler \in [Attempts -> Handler], Complete(t)
  PROVE  handler'[x] = handler[x]
BY DEF Complete, Proceed, Claim, HeartbeatRenews, HeartbeatLoses, Prepare,
   PrepareFails, SkipDuplicate, SkipDuplicateFails, Begin, BeginFails, SaveFile,
   SaveFileFails, RecordUncertain, MarkObject, InsertFile, MarkIndex,
   InsertFileFails, JournalFails, ClaimFails, Failing, Commit, CommitFails, UndoObject,
   UndoIndex, UndoPersist, Fail,
   Cleanup, Goto

LEMMA StatementMinds ==
  ASSUME SessionTypeOK, NEW t \in Attempts, NEW x \in Attempts, x # t,
         \/ HandlerStatement(t) \/ RowDeleted(t) \/ UNCHANGED Tables
         \/ \E s \in Sweeps : SweepStatement(s, t)
  PROVE  journal'[x] = journal[x]
BY DEF HandlerStatement, ClaimCompletion, RenewCompletion, MarkCompletionFailed,
   MarkCompleted, BeginReconciliation, MarkObjectPresent, MarkIndexPresent,
   CompleteWithReconciliation, UpdateAfterCompensation, RowDeleted, Tables, Write,
   SweepStatement, ClaimReconciliation, RequireOperator, ConfirmCommitted,
   RenewReconciliation, ResolveReconciliation, SessionTypeOK

LEMMA HandlerLeavesOthers ==
  ASSUME Inv, NEW t \in Attempts, NEW x \in Attempts, x # t, Complete(t)
  PROVE  Local(x)'
<1>1. handler'[x] = handler[x]
  BY HandlerMinds DEF Inv, TypeOK
<1>2. journal'[x] = journal[x]
  BY HandlerSteps, StatementMinds DEF Inv, TypeOK
<1>3. NothingAdded(x)
  BY HandlerStore DEF NothingAdded, KnownRows
<1>4. UNCHANGED sweep
  BY HandlerLeavesSweeps
<1>5. Local(x)
  BY DEF Inv
<1>6. QED
  BY <1>1, <1>2, <1>3, <1>4, <1>5, LocalFrame DEF EvidenceKept, SnapshotKept

LEMMA GotoEffect ==
  ASSUME NEW t \in Attempts, NEW l, handler \in [Attempts -> Handler], Goto(t, l)
  PROVE  /\ handler'[t].pc = l
         /\ handler'[t].inserted = handler[t].inserted
         /\ handler'[t].object = handler[t].object
         /\ handler'[t].index = handler[t].index
BY DEF Goto, Handler

LEMMA CompensationEffect ==
  ASSUME SessionTypeOK, NEW t \in Attempts, NEW obj \in Evidence, NEW idx \in Evidence,
         UpdateAfterCompensation(t, obj, idx)
  PROVE  /\ journal'[t].object = obj
         /\ journal'[t].index = idx
         /\ ~Settled(obj, idx) => Pending(t)'
BY DEF UpdateAfterCompensation, Write, SessionTypeOK, Journal, Pending

LEMMA HandlerLocal ==
  ASSUME Inv, NEW t \in Attempts, Complete(t)
  PROVE  Local(t)'
<1>0. /\ SessionTypeOK /\ handler \in [Attempts -> Handler]
      /\ journal \in [Attempts -> Journal] /\ handler[t] \in Handler
      /\ Local(t)
  BY DEF Inv, TypeOK, SessionTypeOK
<1>s. UNCHANGED sweep
  BY HandlerLeavesSweeps
<1>1. CASE Claim(t) \/ Prepare(t)
  <2>1. handler'[t].pc \in {"claimed", "prepared"} /\ UNCHANGED <<journal, store>>
    BY <1>0, <1>1, GotoEffect DEF Claim, Prepare, ClaimCompletion, Tables
  <2>2. handler[t].pc \in {"idle", "claimed"}
    BY <1>1 DEF Claim, Prepare, At
  <2>3. QED
    BY <1>0, <1>s, <2>1, <2>2 DEF store, rows, KnownRows, Local, Quiet, ObjectUnjournalled,
       RowUnjournalled, NoRowYet, InsertedKnown, RowNotJournalled, RowNotInserted,
       Undoing, At, JournalEvidence, HandlerEvidence, Accounted, Pending, Committed
<1>2. CASE HeartbeatRenews(t)
  <2>1. UNCHANGED <<handler, journal, store>>
    BY <1>2 DEF HeartbeatRenews, RenewCompletion
  <2>2. QED
    BY <1>0, <1>s, <2>1, LocalFrame DEF store, rows, KnownRows, EvidenceKept,
       NothingAdded, SnapshotKept
<1>3. CASE HeartbeatLoses(t)
  <2>1. /\ handler'[t].pc = handler[t].pc
        /\ handler'[t].inserted = handler[t].inserted
        /\ handler'[t].object = handler[t].object
        /\ handler'[t].index = handler[t].index
        /\ UNCHANGED <<journal, store>>
    BY <1>0, <1>3 DEF HeartbeatLoses, Handler, Tables, Failing, RenewCompletion
  <2>2. QED
    BY <1>0, <1>s, <2>1 DEF store, rows, KnownRows, Local, Quiet, ObjectUnjournalled,
       RowUnjournalled,
       NoRowYet, InsertedKnown, RowNotJournalled, RowNotInserted, Undoing, At,
       JournalEvidence, HandlerEvidence, Accounted, Pending, Committed
<1>4. CASE Begin(t)
  <2>1. handler'[t].pc = "begun" /\ handler[t].pc = "prepared" /\ UNCHANGED store
    BY <1>0, <1>4, GotoEffect DEF Begin, At
  <2>2. /\ Pending(t)'
        /\ journal'[t].object = "unknown" /\ ~journal'[t].path
        /\ journal'[t].index = "unknown" /\ ~journal'[t].fileId
    BY <1>0, <1>4 DEF Begin, BeginReconciliation, Write, NoJournal, Pending
  <2>3. Quiet(t)
    BY <1>0 DEF Local
  <2>4. QED
    BY <1>s, <2>1, <2>2, <2>3 DEF store, rows, KnownRows, Local, Quiet, ObjectUnjournalled,
       RowUnjournalled, NoRowYet, InsertedKnown, RowNotJournalled, RowNotInserted,
       Undoing, At, JournalEvidence, HandlerEvidence, Accounted, Pending, Committed
<1>5. CASE SaveFile(t) \/ SaveFileFails(t)
  <2>1. /\ handler'[t].pc \in {"saved", "uncertain"} /\ handler[t].pc = "begun"
        /\ UNCHANGED <<journal, KnownRows>>
    BY <1>0, <1>5, GotoEffect DEF SaveFile, SaveFileFails, At, Tables, rows, KnownRows
  <2>2. QED
    BY <1>0, <1>s, <2>1 DEF Local, Quiet, ObjectUnjournalled, RowUnjournalled,
       NoRowYet, InsertedKnown, RowNotJournalled, RowNotInserted, Undoing, At,
       JournalEvidence, HandlerEvidence, Accounted, Pending, Committed
<1>6. CASE RecordUncertain(t)
  <2>1. handler'[t].pc = "failing" /\ handler[t].pc = "uncertain" /\ UNCHANGED store
    BY <1>0, <1>6, GotoEffect DEF RecordUncertain, At
  <2>2. \/ /\ journal'[t].object = "unknown" /\ journal'[t].index = "deleted"
           /\ Pending(t)'
        \/ UNCHANGED journal
    BY <1>0, <1>6, CompensationEffect DEF RecordUncertain, Evidence, Settled, Tables
  <2>3. t \notin KnownRows
    BY <1>0, <2>1 DEF Local, NoRowYet, RowNotInserted
  <2>4. JournalEvidence(t)' /\ Accounted(t)'
    BY <1>0, <2>1, <2>2, <2>3 DEF store, rows, KnownRows, Local, JournalEvidence,
       Accounted, Pending,
       Committed
  <2>5. QED
    BY <2>1, <2>4 DEF Local, Quiet, ObjectUnjournalled, RowUnjournalled, NoRowYet,
       InsertedKnown, HandlerEvidence, RowNotJournalled, RowNotInserted, Undoing, At
<1>7. CASE MarkObject(t)
  <2>1. handler'[t].pc = "marked" /\ handler[t].pc = "saved" /\ UNCHANGED store
    BY <1>0, <1>7, GotoEffect DEF MarkObject, At
  <2>2. /\ Pending(t)' /\ journal'[t].object = "present"
        /\ journal'[t].index = journal[t].index
        /\ journal'[t].fileId = journal[t].fileId
    BY <1>0, <1>7 DEF MarkObject, MarkObjectPresent, Write, Pending, Journal
  <2>3. QED
    BY <1>0, <1>s, <2>1, <2>2 DEF store, rows, KnownRows, Local, Quiet, ObjectUnjournalled,
       RowUnjournalled, NoRowYet, InsertedKnown, RowNotJournalled, RowNotInserted,
       Undoing, At, JournalEvidence, HandlerEvidence, Accounted, Pending, Committed
<1>8. CASE InsertFile(t)
  <2>1. /\ handler'[t].pc = "indexed" /\ handler[t].pc = "marked"
        /\ handler'[t].inserted
        /\ UNCHANGED <<journal, objects>>
    BY <1>0, <1>8 DEF InsertFile, At, Handler, Tables
  <2>2. QED
    BY <1>0, <1>s, <2>1 DEF Local, Quiet, ObjectUnjournalled, RowUnjournalled,
       NoRowYet, InsertedKnown, RowNotJournalled, RowNotInserted, Undoing, At,
       JournalEvidence, HandlerEvidence, Accounted, Pending, Committed
<1>9. CASE MarkIndex(t)
  <2>1. /\ handler'[t].pc = "ready" /\ handler[t].pc = "indexed"
        /\ handler'[t].inserted = handler[t].inserted
        /\ UNCHANGED store
    BY <1>0, <1>9, GotoEffect DEF MarkIndex, At
  <2>2. /\ Pending(t)' /\ journal'[t].index = "present"
        /\ journal'[t].object = journal[t].object
    BY <1>0, <1>9 DEF MarkIndex, MarkIndexPresent, Write, Pending, Journal
  <2>3. QED
    BY <1>0, <1>s, <2>1, <2>2 DEF store, rows, KnownRows, Local, Quiet, ObjectUnjournalled,
       RowUnjournalled, NoRowYet, InsertedKnown, RowNotJournalled, RowNotInserted,
       Undoing, At, JournalEvidence, HandlerEvidence, Accounted, Pending, Committed
<1>10. CASE JournalFails(t) \/ CommitFails(t)
  <2>1. /\ handler'[t].pc = "undoObject"
        /\ handler[t].pc \in {"saved", "indexed", "ready"}
        /\ handler'[t].inserted = handler[t].inserted
        /\ UNCHANGED <<objects, KnownRows>>
    BY <1>0, <1>10, GotoEffect DEF JournalFails, CommitFails, At, store, rows, KnownRows
  <2>2. \/ UNCHANGED journal
        \/ handler[t].pc = "saved" /\ MarkObjectPresent(t)
        \/ handler[t].pc = "indexed" /\ MarkIndexPresent(t)
        \/ handler[t].pc = "ready" /\ CompleteWithReconciliation(t)
    BY <1>10 DEF JournalFails, CommitFails, Failing, Tables, At
  <2>3. CASE UNCHANGED journal
    BY <1>0, <1>s, <2>1, <2>3 DEF Local, Quiet, ObjectUnjournalled, RowUnjournalled,
       NoRowYet, InsertedKnown, RowNotJournalled, RowNotInserted, Undoing, At,
       JournalEvidence, HandlerEvidence, Accounted, Pending, Committed
  <2>4. CASE handler[t].pc = "saved" /\ MarkObjectPresent(t)
    <3>1. /\ Pending(t)' /\ journal'[t].object = "present"
          /\ journal'[t].index = journal[t].index
          /\ journal'[t].fileId = journal[t].fileId
      BY <1>0, <2>4 DEF MarkObjectPresent, Write, Pending, Journal
    <3>2. QED
      BY <1>0, <1>s, <2>1, <2>4, <3>1 DEF Local, Quiet, ObjectUnjournalled,
         RowUnjournalled, NoRowYet, InsertedKnown, RowNotJournalled, RowNotInserted,
         Undoing, At, JournalEvidence, HandlerEvidence, Accounted, Pending, Committed
  <2>5. CASE handler[t].pc \in {"indexed", "ready"} /\ ~UNCHANGED journal
    <3>1. /\ Pending(t)' \/ Committed(t)'
          /\ journal'[t].object = journal[t].object
          /\ journal'[t].index = "deleted" => journal[t].index = "deleted"
      <4>1. CASE MarkIndexPresent(t)
        BY <1>0, <4>1 DEF MarkIndexPresent, Write, Pending, Journal
      <4>2. CASE CompleteWithReconciliation(t)
        BY <1>0, <4>2 DEF CompleteWithReconciliation, Write, Committed, Journal
      <4> QED BY <2>2, <2>5, <4>1, <4>2
    <3>2. handler[t].inserted
      BY <1>0, <2>5 DEF Local, InsertedKnown
    <3>3. JournalEvidence(t)' /\ Accounted(t)'
      BY <1>0, <2>1, <3>1 DEF Local, JournalEvidence, Accounted
    <3>4. QED
      BY <2>1, <3>2, <3>3 DEF Local, Quiet, ObjectUnjournalled, RowUnjournalled, NoRowYet,
         InsertedKnown, HandlerEvidence, RowNotJournalled, RowNotInserted, Undoing, At
  <2>6. QED
    BY <2>2, <2>3, <2>4, <2>5
<1>11. CASE UndoObject(t)
  <2>1. PICK e \in Evidence :
          /\ DeleteObject(t, e)
          /\ handler' = [handler EXCEPT ![t].pc = "undoIndex", ![t].object = e]
    BY <1>11 DEF UndoObject
  <2>2. /\ handler'[t].pc = "undoIndex" /\ handler[t].pc = "undoObject"
        /\ handler'[t].inserted = handler[t].inserted
        /\ handler'[t].object = e
        /\ UNCHANGED <<journal, KnownRows>>
    BY <1>0, <1>11, <2>1 DEF UndoObject, At, Handler, Tables, rows, KnownRows
  <2>3. /\ e = "deleted" => t \notin objects'
        /\ t \in objects' => t \in objects
    BY <2>1 DEF DeleteObject
  <2>4. QED
    BY <1>0, <1>s, <2>2, <2>3 DEF Local, Quiet, ObjectUnjournalled, RowUnjournalled,
       NoRowYet, InsertedKnown, RowNotJournalled, RowNotInserted, Undoing, At,
       JournalEvidence, HandlerEvidence, Accounted, Pending, Committed
<1>12. CASE UndoIndex(t)
  <2>1. /\ handler'[t].pc = "undoPersist" /\ handler[t].pc = "undoIndex"
        /\ handler'[t].inserted = handler[t].inserted
        /\ handler'[t].object = handler[t].object
        /\ UNCHANGED <<journal, objects>>
    BY <1>0, <1>12 DEF UndoIndex, At, Handler
  <2>2. /\ handler'[t].index = "deleted" /\ handler[t].inserted => t \notin KnownRows'
        /\ t \in KnownRows' => t \in KnownRows
    BY <1>0, <1>12 DEF UndoIndex, DeleteRow, Handler, rows, KnownRows
  <2>3. QED
    BY <1>0, <1>s, <2>1, <2>2 DEF Local, Quiet, ObjectUnjournalled, RowUnjournalled,
       NoRowYet, InsertedKnown, RowNotJournalled, RowNotInserted, Undoing, At,
       JournalEvidence, HandlerEvidence, Accounted, Pending, Committed
<1>13. CASE UndoPersist(t)
  <2>1. handler'[t].pc = "failing" /\ handler[t].pc = "undoPersist" /\ UNCHANGED store
    BY <1>0, <1>13, GotoEffect DEF UndoPersist, At
  <2>2. handler[t].object \in Evidence /\ handler[t].index \in Evidence
    BY <1>0 DEF Handler
  <2>3. \/ /\ journal'[t].object = handler[t].object
           /\ journal'[t].index = handler[t].index
           /\ ~Settled(handler[t].object, handler[t].index) => Pending(t)'
        \/ UNCHANGED journal
    BY <1>0, <1>13, <2>2, CompensationEffect DEF UndoPersist, Tables
  <2>4. JournalEvidence(t)' /\ Accounted(t)'
    BY <1>0, <2>1, <2>3 DEF store, rows, KnownRows, Local, JournalEvidence,
       HandlerEvidence, Accounted,
       At, Settled, Pending, Committed
  <2>5. QED
    BY <2>1, <2>4 DEF Local, Quiet, ObjectUnjournalled, RowUnjournalled, NoRowYet,
       InsertedKnown, HandlerEvidence, RowNotJournalled, RowNotInserted, Undoing, At
<1>14. CASE ClaimFails(t) \/ PrepareFails(t) \/ SkipDuplicate(t)
            \/ SkipDuplicateFails(t) \/ Commit(t) \/ Fail(t) \/ Cleanup(t)
  <2>1. /\ handler'[t].pc \in {"failing", "cleanup", "done"}
        /\ UNCHANGED <<objects, KnownRows>>
    BY <1>0, <1>14, GotoEffect DEF ClaimFails, PrepareFails, SkipDuplicate,
       SkipDuplicateFails, Commit, Fail, Cleanup, DoneHandler, IdleHandler, store, rows,
       KnownRows
  <2>2. /\ journal'[t].object = journal[t].object
        /\ journal'[t].index = journal[t].index
        /\ Pending(t) \/ Committed(t) => Pending(t)' \/ Committed(t)'
    <3>1. UNCHANGED journal \/ CompleteWithReconciliation(t)
      BY <1>14 DEF ClaimFails, ClaimCompletion, PrepareFails, SkipDuplicate, MarkCompleted,
         SkipDuplicateFails, Failing, Commit, Fail, MarkCompletionFailed, Cleanup, Tables
    <3>2. CASE UNCHANGED journal
      BY <3>2 DEF Pending, Committed
    <3>3. CASE CompleteWithReconciliation(t)
      BY <1>0, <3>3 DEF CompleteWithReconciliation, Write, Journal, Committed
    <3> QED BY <3>1, <3>2, <3>3
  <2>3. JournalEvidence(t)' /\ Accounted(t)'
    BY <1>0, <2>1, <2>2 DEF Local, JournalEvidence, Accounted
  <2>4. QED
    BY <2>1, <2>3 DEF Local, Quiet, ObjectUnjournalled, RowUnjournalled, NoRowYet,
       InsertedKnown, HandlerEvidence, RowNotJournalled, RowNotInserted, Undoing, At
<1>16. CASE BeginFails(t)
  <2>1. handler'[t].pc = "failing" /\ handler[t].pc = "prepared"
        /\ UNCHANGED <<objects, KnownRows>>
    BY <1>0, <1>16, GotoEffect DEF BeginFails, At, store, rows, KnownRows
  <2>2. t \notin objects /\ t \notin KnownRows
    BY <1>0, <2>1 DEF Local, Quiet
  <2>3. QED
    BY <2>1, <2>2 DEF Local, Quiet, ObjectUnjournalled, RowUnjournalled, NoRowYet,
       InsertedKnown, JournalEvidence, HandlerEvidence, Accounted, RowNotJournalled,
       RowNotInserted, Undoing, At
<1>17. CASE InsertFileFails(t)
  <2>1. /\ handler'[t].pc = "undoObject" /\ handler[t].pc = "marked"
        /\ handler'[t].inserted = handler[t].inserted
        /\ UNCHANGED <<journal, objects>>
    BY <1>0, <1>17, GotoEffect DEF InsertFileFails, At, Tables
  <2>2. t \notin KnownRows
    BY <1>0, <2>1 DEF Local, NoRowYet, RowNotInserted
  <2>3. t \notin KnownRows'
    BY <1>17, <2>2 DEF InsertFileFails, rows, KnownRows
  <2>4. QED
    BY <1>0, <1>s, <2>1, <2>2, <2>3 DEF Local, Quiet, ObjectUnjournalled,
       RowUnjournalled, NoRowYet, InsertedKnown, RowNotJournalled, RowNotInserted, Undoing,
       At, JournalEvidence, HandlerEvidence, Accounted, Pending, Committed
<1>15. QED
  BY <1>1, <1>2, <1>3, <1>4, <1>5, <1>6, <1>7, <1>8, <1>9, <1>10, <1>11, <1>12, <1>13,
     <1>14, <1>16, <1>17 DEF Complete, Proceed

-----------------------------------------------------------------------------
(* The sweeps. *)

LEMMA SweepEndsEffect ==
  ASSUME NEW s \in Sweeps, sweep \in [Sweeps -> Sweep],
         SweepGoesOn(s) \/ SweepCutShort(s), NEW y \in Sweeps
  PROVE  \/ sweep'[y] = sweep[y]
         \/ /\ sweep'[y].op = NoAttempt
            /\ sweep'[y].pc \in {"expiry", "cutShort"}
            /\ sweep'[y].object = "unknown"
            /\ sweep'[y].index = "unknown"
            /\ ~sweep'[y].isFinal
BY DEF SweepGoesOn, SweepCutShort, SweepEnds, IdleSweep

\* A run that ends its work on an operation leaves the other runs theirs.
LEMMA SweepEndsKeeps ==
  ASSUME Inv, NEW s \in Sweeps, SweepGoesOn(s) \/ SweepCutShort(s),
         UNCHANGED <<objects, KnownRows>>
  PROVE  /\ \A x \in Attempts, y \in Sweeps : sweep'[y].op = x => SnapshotKept(y)
         /\ \A y \in Sweeps : Sweeping(y)'
<1>0. sweep \in [Sweeps -> Sweep] /\ \A y \in Sweeps : Sweeping(y)
  BY DEF Inv, TypeOK
<1>1. ASSUME NEW x \in Attempts, NEW y \in Sweeps, sweep'[y].op = x
      PROVE  SnapshotKept(y)
  BY <1>0, <1>1, SweepEndsEffect, ConstantsOK DEF SnapshotKept
<1>2. ASSUME NEW y \in Sweeps
      PROVE  Sweeping(y)'
  <2>1. CASE sweep'[y] = sweep[y]
    BY <1>0, <2>1 DEF Sweeping, SweepHasOp, Working, SweepEvidence
  <2>2. CASE /\ sweep'[y].pc \in {"expiry", "cutShort"}
             /\ sweep'[y].object = "unknown" /\ sweep'[y].index = "unknown"
             /\ ~sweep'[y].isFinal
    BY <2>2 DEF Sweeping, SweepHasOp, Working, SweepEvidence
  <2> QED BY <1>0, <2>1, <2>2, SweepEndsEffect
<1> QED BY <1>1, <1>2

LEMMA SweepToEffect ==
  ASSUME NEW s \in Sweeps, NEW l, sweep \in [Sweeps -> Sweep], SweepTo(s, l),
         NEW y \in Sweeps
  PROVE  SnapshotKept(y) /\ sweep'[y].isFinal = sweep[y].isFinal
         /\ (sweep'[y].pc = sweep[y].pc \/ y = s)
BY DEF SweepTo, SnapshotKept, Sweep

LEMMA ClaimStep ==
  ASSUME Inv, NEW s \in Sweeps, NEW t \in Attempts, SweepClaims(s, t)
  PROVE  /\ \A x \in Attempts : Local(x)'
         /\ \A y \in Sweeps : Sweeping(y)'
<1>0. /\ sweep \in [Sweeps -> Sweep] /\ journal[t] \in Journal
      /\ \A x \in Attempts : Local(x)
      /\ \A y \in Sweeps : Sweeping(y)
      /\ SessionTypeOK
  BY DEF Inv, TypeOK, SessionTypeOK
<1>1. UNCHANGED <<handler, objects, KnownRows>>
  BY DEF SweepClaims, store, rows, KnownRows
<1>2. Pending(t)
  BY DEF SweepClaims, ClaimReconciliation, Claimable
<1>3. \A x \in Attempts : EvidenceKept(x)
  BY <1>0 DEF SweepClaims, ClaimReconciliation, Write, EvidenceKept, SessionTypeOK,
     Journal
<1>4. /\ sweep'[s].op = t
      /\ sweep'[s].object = journal[t].object
      /\ sweep'[s].index = journal[t].index
      /\ sweep'[s].path = journal[t].path
      /\ sweep'[s].fileId = journal[t].fileId
      /\ sweep'[s].isFinal =
           (session[UploadOf[t]].status = "completed" /\ session[UploadOf[t]].file = t)
      /\ \A y \in Sweeps \ {s} : sweep'[y] = sweep[y]
  BY <1>0 DEF SweepClaims
<1>5. ASSUME NEW x \in Attempts, x # t PROVE Local(x)'
  <2>1. \A y \in Sweeps : sweep'[y].op = x => SnapshotKept(y)
    BY <1>4, <1>5 DEF SnapshotKept
  <2>2. QED
    BY <1>0, <1>1, <1>3, <2>1, LocalFrame DEF NothingAdded
<1>6. Local(t)'
  BY <1>0, <1>1, <1>2, <1>3, <1>4 DEF EvidenceKept, Local, Quiet, ObjectUnjournalled,
     RowUnjournalled, NoRowYet, InsertedKnown, RowNotJournalled, RowNotInserted, Undoing,
     At, JournalEvidence, HandlerEvidence, Accounted, Pending, Committed
<1>7. ~sweep'[s].isFinal
  BY <1>2, <1>4 DEF Inv, Commits, FileCommitted, Pending, Committed
<1>8. Sweeping(s)'
  BY <1>0, <1>1, <1>4, <1>7 DEF Sweeping, SweepHasOp, SweepEvidence, Local, JournalEvidence
<1>9. \A y \in Sweeps \ {s} : Sweeping(y)'
  BY <1>0, <1>1, <1>4 DEF Sweeping, SweepHasOp, Working, SweepEvidence
<1>10. QED
  BY <1>5, <1>6, <1>8, <1>9

\* Claiming, renewing or giving up an operation leaves its evidence.
LEMMA EvidenceIsKept ==
  ASSUME SessionTypeOK, NEW s \in Sweeps, NEW t \in Attempts, NEW x \in Attempts,
         \/ ClaimReconciliation(s, t) \/ RequireOperator(s, t)
         \/ RenewReconciliation(s, t) \/ UNCHANGED journal
  PROVE  EvidenceKept(x)
<1>0. journal \in [Attempts -> Journal] /\ journal[t] \in Journal
  BY DEF SessionTypeOK
<1>1. CASE ClaimReconciliation(s, t)
  BY <1>0, <1>1 DEF ClaimReconciliation, Write, EvidenceKept, Journal
<1>2. CASE RequireOperator(s, t)
  BY <1>0, <1>2 DEF RequireOperator, Released, Write, EvidenceKept, Journal
<1>3. CASE RenewReconciliation(s, t)
  BY <1>0, <1>3 DEF RenewReconciliation, Write, EvidenceKept, Journal
<1> QED BY <1>1, <1>2, <1>3 DEF EvidenceKept

LEMMA StopStep ==
  ASSUME Inv, NEW s \in Sweeps,
         \/ SweepFindsNothing(s) \/ SweepCannotClaim(s) \/ SweepHasNoTarget(s)
         \/ SweepSettlesAtOnce(s) \/ SweepLosesLease(s)
  PROVE  /\ \A x \in Attempts : Local(x)'
         /\ \A y \in Sweeps : Sweeping(y)'
<1>0. /\ SessionTypeOK
      /\ \A x \in Attempts : Local(x)
      /\ ~sweep[s].isFinal
      /\ Working(s) => sweep[s].op \in Attempts
  BY DEF Inv, TypeOK, Sweeping, SweepHasOp
<1>1. UNCHANGED <<handler, objects, KnownRows>> /\ (SweepGoesOn(s) \/ SweepCutShort(s))
  BY DEF SweepFindsNothing, SweepCannotClaim, SweepHasNoTarget, SweepSettlesAtOnce,
     SweepLosesLease, store, rows, KnownRows
<1>2. \/ UNCHANGED journal
      \/ \E t \in Attempts : \/ ClaimReconciliation(s, t) \/ RequireOperator(s, t)
                             \/ RenewReconciliation(s, t)
  <2>1. CASE SweepFindsNothing(s) \/ SweepCannotClaim(s) \/ SweepHasNoTarget(s)
    BY <2>1 DEF SweepFindsNothing, SweepCannotClaim, SweepHasNoTarget, Failing, Tables
  <2>2. CASE SweepSettlesAtOnce(s)
    BY <1>0, <2>2 DEF SweepSettlesAtOnce, ConfirmedCommit, SweepAt, Working, Tables
  <2>3. CASE SweepLosesLease(s)
    BY <1>0, <2>3 DEF SweepLosesLease, SweepAt, Working, Failing, Tables
  <2> QED BY <2>1, <2>2, <2>3
<1>3. \A x \in Attempts : EvidenceKept(x)
  BY <1>0, <1>2, EvidenceIsKept DEF EvidenceKept
<1>4. \A x \in Attempts : Local(x)'
  BY <1>0, <1>1, <1>3, LocalFrame, SweepEndsKeeps DEF NothingAdded
<1>5. QED
  BY <1>1, <1>4, SweepEndsKeeps

LEMMA CheckStep ==
  ASSUME Inv, NEW s \in Sweeps, SweepStarts(s) \/ SweepConfirms(s)
  PROVE  /\ \A x \in Attempts : Local(x)'
         /\ \A y \in Sweeps : Sweeping(y)'
<1>0. /\ sweep \in [Sweeps -> Sweep] /\ SessionTypeOK
      /\ \A x \in Attempts : Local(x)
      /\ \A y \in Sweeps : Sweeping(y)
      /\ sweep[s].op \in Attempts
  BY DEF Inv, TypeOK, Sweeping, SweepHasOp, SweepAt, Working, SweepStarts, SweepConfirms,
     SweepChecksLease
<1>1. UNCHANGED <<handler, objects, KnownRows>>
  BY DEF SweepStarts, SweepConfirms, SweepChecksLease, store, rows, KnownRows
<1>2. \A x \in Attempts : EvidenceKept(x)
  BY <1>0, EvidenceIsKept DEF SweepStarts, SweepConfirms, SweepChecksLease
<1>3. \A y \in Sweeps : SnapshotKept(y) /\ sweep'[y].isFinal = sweep[y].isFinal
                        /\ (sweep'[y].pc = sweep[y].pc \/ y = s)
  BY <1>0, SweepToEffect DEF SweepStarts, SweepConfirms, SweepChecksLease
<1>4. \A x \in Attempts : Local(x)'
  BY <1>0, <1>1, <1>2, <1>3, LocalFrame DEF NothingAdded
<1>5. \A y \in Sweeps : Sweeping(y)'
  BY <1>0, <1>1, <1>3 DEF Sweeping, SweepHasOp, Working, SweepEvidence, SnapshotKept
<1>6. QED
  BY <1>4, <1>5

LEMMA DeleteObjectStep ==
  ASSUME Inv, NEW s \in Sweeps, SweepDeletesObject(s)
  PROVE  /\ \A x \in Attempts : Local(x)'
         /\ \A y \in Sweeps : Sweeping(y)'
<1>0. /\ sweep \in [Sweeps -> Sweep] /\ SessionTypeOK
      /\ \A x \in Attempts : Local(x)
      /\ \A y \in Sweeps : Sweeping(y)
      /\ sweep[s].op \in Attempts
  BY DEF Inv, TypeOK, Sweeping, SweepHasOp, SweepAt, Working, SweepDeletesObject
<1>t. PICK t \in Attempts : t = sweep[s].op
  BY <1>0
<1>1. UNCHANGED <<handler, journal, KnownRows>> /\ objects' \subseteq objects
  BY DEF SweepDeletesObject, DeleteObject, Tables, rows, KnownRows
<1>2. CASE SweepTo(s, "confirm")
  <2>1. \A y \in Sweeps : SnapshotKept(y) /\ sweep'[y].isFinal = sweep[y].isFinal
                          /\ (sweep'[y].pc = sweep[y].pc \/ y = s)
    BY <1>0, <1>2, SweepToEffect
  <2>2. \A x \in Attempts : Local(x)'
    BY <1>0, <1>1, <2>1, LocalFrame DEF NothingAdded, EvidenceKept
  <2>3. \A y \in Sweeps : Sweeping(y)'
    BY <1>0, <1>1, <2>1 DEF Sweeping, SweepHasOp, Working, SweepEvidence, SnapshotKept
  <2>4. QED
    BY <2>2, <2>3
<1>3. ASSUME sweep[s].path, NEW e \in Evidence, DeleteObject(t, e),
             sweep' = [sweep EXCEPT ![s].pc = "confirm", ![s].object = e]
      PROVE  /\ \A x \in Attempts : Local(x)'
             /\ \A y \in Sweeps : Sweeping(y)'
  <2>1. /\ sweep'[s].op = t /\ sweep'[s].object = e
        /\ sweep'[s].index = sweep[s].index /\ sweep'[s].fileId = sweep[s].fileId
        /\ sweep'[s].isFinal = sweep[s].isFinal
        /\ \A y \in Sweeps \ {s} : sweep'[y] = sweep[y]
    BY <1>0, <1>t, <1>3 DEF Sweep
  <2>2. ASSUME NEW x \in Attempts, x # t PROVE Local(x)'
    <3>1. \A y \in Sweeps : sweep'[y].op = x => SnapshotKept(y)
      BY <1>t, <2>1, <2>2 DEF SnapshotKept
    <3>2. QED
      BY <1>0, <1>1, <3>1, LocalFrame DEF NothingAdded, EvidenceKept
  <2>3. Local(t)'
    BY <1>0, <1>t, <1>1, <1>3, <2>1 DEF Local, Quiet, ObjectUnjournalled, RowUnjournalled,
       NoRowYet, InsertedKnown, RowNotJournalled, RowNotInserted, Undoing, At,
       JournalEvidence, HandlerEvidence, Accounted, Pending, Committed
  <2>4. e = "deleted" => t \notin objects'
    BY <1>3 DEF DeleteObject
  <2>5. \A y \in Sweeps : Sweeping(y)'
    BY <1>0, <1>t, <1>1, <2>1, <2>4 DEF Sweeping, SweepHasOp, Working, SweepEvidence
  <2>6. QED
    BY <2>2, <2>3, <2>5
<1>4. QED
  BY <1>t, <1>2, <1>3 DEF SweepDeletesObject

LEMMA DeleteRowStep ==
  ASSUME Inv, NEW s \in Sweeps, SweepDeletesRow(s)
  PROVE  /\ \A x \in Attempts : Local(x)'
         /\ \A y \in Sweeps : Sweeping(y)'
<1>0. /\ sweep \in [Sweeps -> Sweep] /\ SessionTypeOK
      /\ \A x \in Attempts : Local(x)
      /\ \A y \in Sweeps : Sweeping(y)
      /\ sweep[s].op \in Attempts
  BY DEF Inv, TypeOK, Sweeping, SweepHasOp, SweepAt, Working, SweepDeletesRow
<1>t. PICK t \in Attempts : t = sweep[s].op
  BY <1>0
<1>1. UNCHANGED <<handler, journal, objects>> /\ KnownRows' \subseteq KnownRows
  BY DEF SweepDeletesRow, DeleteRow, rows, KnownRows
<1>2. CASE SweepTo(s, "persist")
  <2>1. \A y \in Sweeps : SnapshotKept(y) /\ sweep'[y].isFinal = sweep[y].isFinal
                          /\ (sweep'[y].pc = sweep[y].pc \/ y = s)
    BY <1>0, <1>2, SweepToEffect
  <2>2. \A x \in Attempts : Local(x)'
    BY <1>0, <1>1, <2>1, LocalFrame DEF NothingAdded, EvidenceKept
  <2>3. \A y \in Sweeps : Sweeping(y)'
    BY <1>0, <1>1, <2>1 DEF Sweeping, SweepHasOp, Working, SweepEvidence, SnapshotKept
  <2>4. QED
    BY <2>2, <2>3
<1>3. ASSUME sweep[s].fileId, NEW e \in Evidence,
             e = "deleted" => t \notin KnownRows',
             sweep' = [sweep EXCEPT ![s].pc = "persist", ![s].index = e]
      PROVE  /\ \A x \in Attempts : Local(x)'
             /\ \A y \in Sweeps : Sweeping(y)'
  <2>1. /\ sweep'[s].op = t /\ sweep'[s].index = e
        /\ sweep'[s].object = sweep[s].object /\ sweep'[s].path = sweep[s].path
        /\ sweep'[s].isFinal = sweep[s].isFinal
        /\ \A y \in Sweeps \ {s} : sweep'[y] = sweep[y]
    BY <1>0, <1>t, <1>3 DEF Sweep
  <2>2. ASSUME NEW x \in Attempts, x # t PROVE Local(x)'
    <3>1. \A y \in Sweeps : sweep'[y].op = x => SnapshotKept(y)
      BY <1>t, <2>1, <2>2 DEF SnapshotKept
    <3>2. QED
      BY <1>0, <1>1, <3>1, LocalFrame DEF NothingAdded, EvidenceKept
  <2>3. Local(t)'
    BY <1>0, <1>t, <1>1, <1>3, <2>1 DEF Local, Quiet, ObjectUnjournalled, RowUnjournalled,
       NoRowYet, InsertedKnown, RowNotJournalled, RowNotInserted, Undoing, At,
       JournalEvidence, HandlerEvidence, Accounted, Pending, Committed
  <2>4. \A y \in Sweeps : Sweeping(y)'
    BY <1>0, <1>t, <1>1, <1>3, <2>1 DEF Sweeping, SweepHasOp, Working, SweepEvidence
  <2>5. QED
    BY <2>2, <2>3, <2>4
<1>4. QED
  BY <1>t, <1>2, <1>3 DEF SweepDeletesRow, DeleteRow, Evidence, KnownRows

LEMMA PersistStep ==
  ASSUME Inv, NEW s \in Sweeps, SweepPersists(s)
  PROVE  /\ \A x \in Attempts : Local(x)'
         /\ \A y \in Sweeps : Sweeping(y)'
<1>0. /\ sweep \in [Sweeps -> Sweep] /\ SessionTypeOK
      /\ \A x \in Attempts : Local(x)
      /\ \A y \in Sweeps : Sweeping(y)
      /\ sweep[s].op \in Attempts
      /\ sweep[s].object \in Evidence /\ sweep[s].index \in Evidence
  BY DEF Inv, TypeOK, Sweeping, SweepHasOp, SweepAt, Working, SweepPersists, Sweep
<1>t. PICK t \in Attempts, obj \in Evidence, idx \in Evidence :
        t = sweep[s].op /\ obj = sweep[s].object /\ idx = sweep[s].index
  BY <1>0
<1>1. UNCHANGED <<handler, objects, KnownRows>> /\ SweepGoesOn(s)
  BY DEF SweepPersists, store, rows, KnownRows
<1>2. CASE UNCHANGED Tables
  <2>1. \A x \in Attempts : Local(x)'
    BY <1>0, <1>1, <1>2, LocalFrame, SweepEndsKeeps DEF NothingAdded, EvidenceKept, Tables
  <2>2. QED
    BY <1>1, <2>1, SweepEndsKeeps
<1>3. CASE ResolveReconciliation(s, t, obj, idx)
  <2>1. Pending(t)
    BY <1>3 DEF ResolveReconciliation, OwnsReconciliation
  <2>2. /\ journal'[t].object = obj
        /\ journal'[t].index = idx
        /\ journal'[t].path = journal[t].path
        /\ journal'[t].fileId = journal[t].fileId
        /\ ~Settled(obj, idx) => Pending(t)'
    BY <1>0, <1>3 DEF ResolveReconciliation, Released, Write, SessionTypeOK, Journal,
       Pending
  <2>3. \A x \in Attempts \ {t} : EvidenceKept(x)
    BY <1>0, <1>3 DEF ResolveReconciliation, Write, SessionTypeOK, EvidenceKept
  <2>4. \A x \in Attempts, y \in Sweeps : sweep'[y].op = x => SnapshotKept(y)
    BY <1>1, SweepEndsKeeps
  <2>5. ASSUME NEW x \in Attempts, x # t PROVE Local(x)'
    BY <1>0, <1>1, <2>3, <2>4, <2>5, LocalFrame DEF NothingAdded
  <2>6. Local(t) /\ Sweeping(s)
    BY <1>0
  <2>7. Quiet(t)' /\ ObjectUnjournalled(t)'
    BY <1>0, <1>t, <1>1, <2>1, <2>2, <2>4, <2>6 DEF Local, Quiet, ObjectUnjournalled,
       Sweeping,
       SnapshotKept, Settled, At, Pending
  <2>8. RowUnjournalled(t)' /\ NoRowYet(t)' /\ InsertedKnown(t)'
    BY <1>0, <1>t, <1>1, <2>1, <2>2, <2>4, <2>6 DEF Local, RowUnjournalled, NoRowYet,
       InsertedKnown, RowNotJournalled, RowNotInserted, Undoing, Sweeping, SnapshotKept,
       Settled, At
  <2>9. JournalEvidence(t)' /\ HandlerEvidence(t)' /\ Accounted(t)'
    BY <1>0, <1>t, <1>1, <2>2, <2>6 DEF Local, JournalEvidence, HandlerEvidence, Accounted,
       Sweeping, SweepEvidence, Settled, At
  <2>10. Local(t)'
    BY <2>7, <2>8, <2>9 DEF Local
  <2>11. \A y \in Sweeps : Sweeping(y)'
    BY <1>1, SweepEndsKeeps
  <2>12. QED
    BY <2>5, <2>10, <2>11
<1>4. QED
  BY <1>t, <1>2, <1>3 DEF SweepPersists

\* The sessions a run deletes have no object, no known row and no operation left.
LEMMA BatchLocal ==
  ASSUME Inv, BatchStatement, NEW x \in Attempts,
         UNCHANGED <<handler, objects, KnownRows>>,
         \A y \in Sweeps : sweep'[y].op = x => SnapshotKept(y)
  PROVE  Local(x)'
<1>0. Local(x) /\ Commits /\ UploadOf[x] \in Uploads
  BY ConstantsOK DEF Inv
<1>1. CASE journal'[x] = journal[x]
  BY <1>0, <1>1, LocalFrame DEF NothingAdded, EvidenceKept
<1>2. CASE journal'[x] # journal[x]
  <2>1. PICK batch \in SUBSET Uploads :
          DeleteExpiredSessions(batch) \/ RecoverExpiredCompletions(batch)
    BY DEF BatchStatement
  <2>2. DeleteExpiredSessions(batch) /\ UploadOf[x] \in batch
    BY <1>2, <2>1 DEF DeleteExpiredSessions, RecoverExpiredCompletions
  <2>3. ToDelete(UploadOf[x]) /\ journal'[x] = NoJournal
    BY <1>0, <2>2 DEF DeleteExpiredSessions, Batches
  <2>4. ~Pending(x) /\ ~Committed(x)
    BY <1>0, <2>3 DEF ToDelete, NoPending, Commits, CommitMatchesSession
  <2>5. x \notin objects /\ x \notin KnownRows
    BY <1>0, <2>4 DEF Local, Accounted
  <2>6. /\ journal'[x].status = "none" /\ journal'[x].object = "unknown"
        /\ journal'[x].index = "unknown"
    BY <2>3 DEF NoJournal
  <2>7. QED
    BY <1>0, <2>4, <2>5, <2>6 DEF Local, Quiet, ObjectUnjournalled, RowUnjournalled,
       NoRowYet, InsertedKnown, RowNotJournalled, RowNotInserted, Undoing, At,
       JournalEvidence, HandlerEvidence, Accounted, SnapshotKept
<1> QED BY <1>1, <1>2

LEMMA RunStep ==
  ASSUME Inv, NEW s \in Sweeps,
         RunDeletes(s) \/ RunRecovers(s) \/ RunFails(s) \/ NextRun(s)
  PROVE  /\ \A x \in Attempts : Local(x)'
         /\ \A y \in Sweeps : Sweeping(y)'
<1>0. /\ sweep \in [Sweeps -> Sweep]
      /\ \A x \in Attempts : Local(x)
      /\ \A y \in Sweeps : Sweeping(y)
  BY DEF Inv, TypeOK
<1>1. UNCHANGED <<handler, objects, KnownRows>> /\ (BatchStatement \/ UNCHANGED Tables)
  BY DEF RunDeletes, RunRecovers, RunFails, NextRun, Failing, BatchStatement, store, rows,
     KnownRows
<1>2. SweepCutShort(s) \/ \E l \in {"recovery", "idle"} : SweepTo(s, l)
  BY DEF RunDeletes, RunRecovers, RunFails, NextRun
<1>3. /\ \A x \in Attempts, y \in Sweeps : sweep'[y].op = x => SnapshotKept(y)
      /\ \A y \in Sweeps : Sweeping(y)'
  <2>1. CASE SweepCutShort(s)
    BY <1>1, <2>1, SweepEndsKeeps
  <2>2. CASE \E l \in {"recovery", "idle"} : SweepTo(s, l)
    <3>1. PICK l \in {"recovery", "idle"} : SweepTo(s, l)
      BY <2>2
    <3>2. sweep'[s].pc = l
      BY <1>0, <3>1 DEF SweepTo, Sweep
    <3>3. \A y \in Sweeps : SnapshotKept(y) /\ sweep'[y].isFinal = sweep[y].isFinal
                            /\ (sweep'[y].pc = sweep[y].pc \/ y = s)
      BY <1>0, <3>1, SweepToEffect
    <3>4. \A y \in Sweeps : Sweeping(y)'
      BY <1>0, <1>1, <3>2, <3>3 DEF Sweeping, SweepHasOp, Working, SweepEvidence,
         SnapshotKept
    <3> QED BY <3>3, <3>4
  <2> QED BY <1>2, <2>1, <2>2
<1>4. ASSUME NEW x \in Attempts PROVE Local(x)'
  <2>1. CASE BatchStatement
    BY <1>1, <1>3, <2>1, BatchLocal
  <2>2. CASE UNCHANGED Tables
    BY <1>0, <1>1, <1>3, <2>2, LocalFrame DEF NothingAdded, EvidenceKept, Tables
  <2> QED BY <1>1, <2>1, <2>2
<1> QED BY <1>3, <1>4

LEMMA SweepLocal ==
  ASSUME Inv, NEW s \in Sweeps, Maintain(s)
  PROVE  /\ \A x \in Attempts : Local(x)'
         /\ \A y \in Sweeps : Sweeping(y)'
BY ClaimStep, StopStep, CheckStep, DeleteObjectStep, DeleteRowStep, PersistStep, RunStep
   DEF Maintain

-----------------------------------------------------------------------------
(* Sessions and their commits. *)

\* What a step may make of a session: a decision is never revised, and nothing
\* is revived once it can no longer be completed.
Live(u) == session[u].status \in {"open", "completing", "failed"}

StatusMoves(u) ==
  /\ session[u].status = "completed" => session'[u].status = "completed"
  /\ Removable(u) => Removable(u)'
  /\ session[u].status # "completed" /\ ~Removable(u) /\ ~Live(u) =>
       session'[u].status = session[u].status
  /\ Live(u)' => Live(u)

FileMoves(u) ==
  \/ session'[u].file = session[u].file
  \/ session'[u].file = NoFile
  \/ session[u].status # "completed" /\ session'[u].file = OtherFile

LEMMA HandlerStatementMoves ==
  ASSUME SessionTypeOK, NEW t \in Attempts, NEW u \in Uploads, HandlerStatement(t)
  PROVE  StatusMoves(u) /\ (FileMoves(u) \/ CompleteWithReconciliation(t))
<1>0. /\ UploadOf[t] \in Uploads /\ session \in [Uploads -> Session]
      /\ session[u] \in Session /\ session[UploadOf[t]] \in Session
  BY ConstantsOK DEF SessionTypeOK
<1> USE <1>0 DEF StatusMoves, FileMoves, Live, Removable
<1>1. CASE UNCHANGED session
  BY <1>1
<1>2. CASE ClaimCompletion(t, TRUE)
  BY <1>2 DEF ClaimCompletion, Session
<1>3. CASE RenewCompletion(t)
  BY <1>3 DEF RenewCompletion, Session
<1>4. CASE MarkCompletionFailed(t)
  BY <1>4 DEF MarkCompletionFailed, FailedSession, Holds, Session
<1>5. CASE MarkCompleted(t, OtherFile)
  BY <1>5 DEF MarkCompleted, CompletedSession, Holds, Session
<1>6. CASE CompleteWithReconciliation(t)
  BY <1>6 DEF CompleteWithReconciliation, CompletedSession, Holds, Session
<1>7. QED
  BY <1>1, <1>2, <1>3, <1>4, <1>5, <1>6 DEF HandlerStatement, BeginReconciliation,
     MarkObjectPresent, MarkIndexPresent, UpdateAfterCompensation

LEMMA SessionStatementMoves ==
  ASSUME SessionTypeOK, NEW v \in Uploads, NEW u \in Uploads,
         SessionStatement(v)
  PROVE  StatusMoves(u) /\ session'[u].file = session[u].file
<1>0. session \in [Uploads -> Session] /\ session[u] \in Session /\ session[v] \in Session
  BY DEF SessionTypeOK
<1> USE <1>0 DEF StatusMoves, Live, Removable
<1>1. CASE ReopenFailed(v)
  BY <1>1 DEF ReopenFailed, Session
<1>2. CASE Cancel(v)
  BY <1>2 DEF Cancel, Session
<1>4. CASE SessionExpires(v) \/ CompletionLeaseLapses(v)
  BY <1>4 DEF SessionExpires, CompletionLeaseLapses, Session
<1>6. QED
  BY <1>1, <1>2, <1>4 DEF SessionStatement

LEMMA BatchMoves ==
  ASSUME SessionTypeOK, BatchStatement, NEW u \in Uploads
  PROVE  StatusMoves(u) /\ session'[u].file = session[u].file
<1>0. session[u] \in Session
  BY DEF SessionTypeOK
<1>1. \/ session'[u] = session[u]
      \/ ToDelete(u) /\ session'[u] = DeletedSession(session[u])
      \/ ToRecover(u) /\ session'[u] = FailedSession(session[u])
  BY DEF BatchStatement, DeleteExpiredSessions, RecoverExpiredCompletions, Batches
<1>2. CASE session'[u] = session[u]
  BY <1>2 DEF StatusMoves, Live, Removable
<1>3. CASE ToDelete(u) /\ session'[u] = DeletedSession(session[u])
  <2>1. /\ session'[u].status = "deleted" /\ session'[u].file = session[u].file
        /\ session[u].status \in {"open", "failed", "cancelled"}
    BY <1>0, <1>3 DEF ToDelete, DeletedSession, Session
  <2> QED BY <2>1 DEF StatusMoves, Live, Removable
<1>4. CASE ToRecover(u) /\ session'[u] = FailedSession(session[u])
  <2>1. /\ session'[u].status = "failed" /\ session'[u].file = session[u].file
        /\ session[u].status = "completing"
    BY <1>0, <1>4 DEF ToRecover, FailedSession, Session
  <2> QED BY <2>1 DEF StatusMoves, Live, Removable
<1> QED BY <1>1, <1>2, <1>3, <1>4

LEMMA RowDeletedMoves ==
  ASSUME SessionTypeOK, NEW t \in Attempts, NEW u \in Uploads, RowDeleted(t)
  PROVE  StatusMoves(u) /\ FileMoves(u)
<1>0. /\ UploadOf[t] \in Uploads /\ session \in [Uploads -> Session]
      /\ session[u] \in Session /\ session[UploadOf[t]] \in Session
  BY ConstantsOK DEF SessionTypeOK
<1>1. QED
  BY <1>0 DEF RowDeleted, DeleteRow, StatusMoves, FileMoves, Live, Removable, Session

LEMMA CommitsFrame ==
  ASSUME Commits, SessionTypeOK,
         \A u \in Uploads : StatusMoves(u) /\ FileMoves(u),
         \A x \in Attempts : Committed(x)' <=> Committed(x)
  PROVE  Commits'
<1>0. \A x \in Attempts : UploadOf[x] \in Uploads /\ x # NoFile /\ x # OtherFile
  BY ConstantsOK
<1>1. CommitMatchesSession'
  BY <1>0 DEF Commits, CommitMatchesSession, StatusMoves, FileMoves
<1>2. OneCommitPerUpload'
  BY DEF Commits, OneCommitPerUpload
<1>3. ASSUME NEW x \in Attempts PROVE FileCommitted(x)'
  BY <1>0 DEF Commits, FileCommitted, FileMoves
<1>4. QED
  BY <1>1, <1>2, <1>3 DEF Commits

LEMMA UncommittedStatement ==
  ASSUME SessionTypeOK, NEW t \in Attempts, NEW x \in Attempts,
         \/ HandlerStatement(t) /\ ~CompleteWithReconciliation(t)
              /\ (BeginReconciliation(t) => journal[t].status = "none")
         \/ \E s \in Sweeps : ~sweep[s].isFinal /\ SweepStatement(s, t)
         \/ RowDeleted(t)
         \/ UNCHANGED Tables
  PROVE  Committed(x)' <=> Committed(x)
<1>0. journal \in [Attempts -> Journal] /\ journal[t] \in Journal
  BY DEF SessionTypeOK
<1>1. CASE x # t
  BY <1>1, StatementMinds DEF Committed
<1>2. CASE UNCHANGED journal
  BY <1>2 DEF Committed
<1>3. CASE x = t /\ ~UNCHANGED journal
  <2>1. CASE BeginReconciliation(t) /\ journal[t].status = "none"
    <3>1. journal'[t].status = "pending"
      BY <1>0, <2>1 DEF BeginReconciliation, Write, NoJournal
    <3>2. QED
      BY <1>3, <2>1, <3>1 DEF Committed
  <2>2. CASE MarkObjectPresent(t) \/ MarkIndexPresent(t)
    BY <1>0, <1>3, <2>2, ZenonT(60) DEF MarkObjectPresent, MarkIndexPresent, Write,
       Committed,
       Pending, Journal
  <2>3. CASE \E obj, idx \in Evidence : UpdateAfterCompensation(t, obj, idx)
    <3>1. PICK obj \in Evidence, idx \in Evidence : UpdateAfterCompensation(t, obj, idx)
      BY <2>3
    <3>2. Pending(t) /\ journal'[t].reason \in {"compensated", "uncertain"}
      BY <1>0, <3>1 DEF UpdateAfterCompensation, Write, Journal
    <3>3. QED
      BY <1>3, <3>2 DEF Committed, Pending
  <2>4. CASE \E s \in Sweeps : ClaimReconciliation(s, t) \/ RequireOperator(s, t)
    <3>1. PICK s \in Sweeps : ClaimReconciliation(s, t) \/ RequireOperator(s, t)
      BY <2>4
    <3>2. Pending(t)
      BY <3>1 DEF ClaimReconciliation, Claimable, RequireOperator, OwnsReconciliation
    <3>3. journal'[t].status = journal[t].status
      <4>1. CASE ClaimReconciliation(s, t)
        BY <1>0, <4>1 DEF ClaimReconciliation, Write, Journal
      <4>2. CASE RequireOperator(s, t)
        BY <1>0, <4>2 DEF RequireOperator, Released, Write, Journal
      <4>3. QED
        BY <3>1, <4>1, <4>2
    <3>4. QED
      BY <1>3, <3>2, <3>3 DEF Committed, Pending
  <2>5. CASE \E s \in Sweeps : RenewReconciliation(s, t)
    <3>1. journal'[t].status = journal[t].status /\ Pending(t)
      BY <1>0, <2>5 DEF RenewReconciliation, OwnsReconciliation, Write, Journal
    <3> QED BY <1>3, <3>1 DEF Committed, Pending
  <2>6. CASE \E s \in Sweeps, obj, idx \in Evidence : ResolveReconciliation(s, t, obj, idx)
    <3>1. PICK s \in Sweeps, obj \in Evidence, idx \in Evidence :
            ResolveReconciliation(s, t, obj, idx)
      BY <2>6
    <3>2. Pending(t) /\ journal'[t].reason \in {"compensated", "uncertain"}
      BY <1>0, <3>1 DEF ResolveReconciliation, OwnsReconciliation, Released, Write, Journal
    <3>3. QED
      BY <1>3, <3>2 DEF Committed, Pending
  <2>7. QED
    BY <1>3, <2>1, <2>2, <2>3, <2>4, <2>5, <2>6 DEF HandlerStatement, SweepStatement,
       ClaimCompletion, RenewCompletion, MarkCompletionFailed, MarkCompleted, RowDeleted,
       Tables
<1>4. QED
  BY <1>1, <1>2, <1>3

\* A statement that begins an operation belongs to a handler that has none.
LEMMA BeginIsFresh ==
  ASSUME Inv, NEW t \in Attempts, Complete(t)
  PROVE  \/ UNCHANGED journal
         \/ Pending(t)
         \/ journal[t].status = "none"
BY DEF Inv, Local, Quiet, Complete, Proceed, At, Tables, Claim, ClaimCompletion,
   HeartbeatRenews, RenewCompletion, HeartbeatLoses, Prepare, PrepareFails,
   SkipDuplicate, MarkCompleted, SkipDuplicateFails, Begin, BeginFails, SaveFile,
   SaveFileFails, RecordUncertain, UpdateAfterCompensation, MarkObject,
   MarkObjectPresent, InsertFile, MarkIndex, MarkIndexPresent, InsertFileFails,
   JournalFails, ClaimFails, Failing, Commit,
   CompleteWithReconciliation, CommitFails, UndoObject, UndoIndex, UndoPersist, Fail,
   MarkCompletionFailed, Cleanup

LEMMA CommitStatement ==
  ASSUME Inv, NEW t \in Attempts, CompleteWithReconciliation(t)
  PROVE  Commits'
<1>0. /\ SessionTypeOK /\ session \in [Uploads -> Session] /\ UploadOf[t] \in Uploads
      /\ journal \in [Attempts -> Journal] /\ journal[t] \in Journal
      /\ session[UploadOf[t]] \in Session /\ Commits
      /\ \A x \in Attempts : UploadOf[x] \in Uploads /\ x # NoFile
  BY ConstantsOK DEF Inv, TypeOK, SessionTypeOK
<1>1. /\ session'[UploadOf[t]].status = "completed"
      /\ session'[UploadOf[t]].file = t
      /\ \A u \in Uploads \ {UploadOf[t]} : session'[u] = session[u]
  BY <1>0 DEF CompleteWithReconciliation, CompletedSession, Session
<1>2. /\ Committed(t)'
      /\ \A x \in Attempts \ {t} : Committed(x)' <=> Committed(x)
  BY <1>0 DEF CompleteWithReconciliation, Write, Committed, Journal
<1>3. \A x \in Attempts : UploadOf[x] = UploadOf[t] => ~Committed(x)
  BY <1>0 DEF CompleteWithReconciliation, Holds, Commits, CommitMatchesSession
<1>4. CommitMatchesSession'
  BY <1>0, <1>1, <1>2, <1>3 DEF Commits, CommitMatchesSession
<1>5. OneCommitPerUpload'
  BY <1>0, <1>2, <1>3 DEF Commits, OneCommitPerUpload
<1>6. \A x \in Attempts : FileCommitted(x)'
  BY <1>0, <1>1, <1>2 DEF Commits, FileCommitted
<1>7. QED
  BY <1>4, <1>5, <1>6 DEF Commits

LEMMA BatchCommits ==
  ASSUME Inv, BatchStatement, NEW x \in Attempts
  PROVE  Committed(x)' <=> Committed(x)
<1>0. Commits /\ UploadOf[x] \in Uploads
  BY ConstantsOK DEF Inv
<1>1. CASE journal'[x] = journal[x]
  BY <1>1 DEF Committed
<1>2. CASE journal'[x] # journal[x]
  <2>1. PICK batch \in SUBSET Uploads : DeleteExpiredSessions(batch) /\ UploadOf[x] \in batch
    BY <1>2 DEF BatchStatement, DeleteExpiredSessions, RecoverExpiredCompletions
  <2>2. ToDelete(UploadOf[x]) /\ journal'[x] = NoJournal
    BY <1>0, <2>1 DEF DeleteExpiredSessions, Batches
  <2>3. ~Committed(x)
    BY <1>0, <2>2 DEF ToDelete, Commits, CommitMatchesSession
  <2> QED BY <2>2, <2>3 DEF Committed, NoJournal
<1> QED BY <1>1, <1>2

LEMMA HandlerCommits ==
  ASSUME Inv, NEW t \in Attempts, Complete(t)
  PROVE  /\ Commits'
         /\ \A u \in Uploads : StatusMoves(u)
<1>0. SessionTypeOK /\ handler \in [Attempts -> Handler] /\ Commits
  BY DEF Inv, TypeOK
<1>1. HandlerStatement(t) \/ RowDeleted(t) \/ UNCHANGED Tables
  BY <1>0, HandlerSteps
<1>2. \A u \in Uploads :
        StatusMoves(u) /\ (FileMoves(u) \/ CompleteWithReconciliation(t))
  BY <1>0, <1>1, HandlerStatementMoves, RowDeletedMoves
     DEF StatusMoves, FileMoves, Tables, Removable, Live
<1>3. CASE CompleteWithReconciliation(t)
  BY <1>2, <1>3, CommitStatement
<1>4. CASE ~CompleteWithReconciliation(t)
  <2>1. ASSUME BeginReconciliation(t) PROVE journal[t].status = "none" \/ UNCHANGED journal \/ Pending(t)
    BY BeginIsFresh
  <2>2. \A x \in Attempts : Committed(x)' <=> Committed(x)
    <3>1. CASE BeginReconciliation(t) /\ journal[t].status # "none"
      <4>1. journal'[t].status = "pending"
        BY <1>0, <3>1 DEF BeginReconciliation, Write, NoJournal, SessionTypeOK
      <4>2. Pending(t)
        BY <2>1, <3>1, <4>1 DEF Pending
      <4>3. \A x \in Attempts \ {t} : journal'[x] = journal[x]
        BY <1>0, <3>1 DEF BeginReconciliation, Write, SessionTypeOK
      <4>4. QED
        BY <4>1, <4>2, <4>3 DEF Committed, Pending
    <3>2. CASE ~BeginReconciliation(t) \/ journal[t].status = "none"
      BY <1>0, <1>1, <1>4, <3>2, UncommittedStatement
    <3>3. QED
      BY <3>1, <3>2
  <2>3. QED
    BY <1>0, <1>2, <1>4, <2>2, CommitsFrame
<1>5. QED
  BY <1>3, <1>4

LEMMA SweepCommits ==
  ASSUME Inv, NEW s \in Sweeps, Maintain(s)
  PROVE  /\ Commits'
         /\ \A u \in Uploads : StatusMoves(u)
<1>0. /\ SessionTypeOK /\ Commits /\ sweep[s] \in Sweep /\ ~sweep[s].isFinal
      /\ Working(s) => sweep[s].op \in Attempts
  BY DEF Inv, TypeOK, Sweeping, SweepHasOp
<1>1. \/ \E t \in Attempts : SweepStatement(s, t) \/ RowDeleted(t)
      \/ BatchStatement
      \/ UNCHANGED Tables
  BY <1>0, SweepSteps
<1>2. \A u \in Uploads : StatusMoves(u) /\ FileMoves(u)
  <2>1. CASE UNCHANGED session
    BY <2>1 DEF StatusMoves, FileMoves, Removable, Live
  <2>2. CASE \E t \in Attempts : RowDeleted(t)
    BY <1>0, <2>2, RowDeletedMoves
  <2>3. CASE BatchStatement
    BY <1>0, <2>3, BatchMoves DEF FileMoves
  <2>4. QED
    BY <1>1, <2>1, <2>2, <2>3 DEF SweepStatement, ClaimReconciliation, RequireOperator,
       ConfirmCommitted, RenewReconciliation, ResolveReconciliation, Tables
<1>3. \A x \in Attempts : Committed(x)' <=> Committed(x)
  <2>1. CASE UNCHANGED Tables
    BY <2>1 DEF Tables, Committed
  <2>2. CASE \E t \in Attempts : SweepStatement(s, t) \/ RowDeleted(t)
    BY <1>0, <2>2, UncommittedStatement
  <2>3. CASE BatchStatement
    BY <2>3, BatchCommits
  <2>4. QED
    BY <1>1, <2>1, <2>2, <2>3
<1>4. QED
  BY <1>0, <1>2, <1>3, CommitsFrame

-----------------------------------------------------------------------------
(* The chunk directories, and the requests on a session. *)

LEMMA DiskFrame ==
  ASSUME Inv, \A u \in Uploads : StatusMoves(u),
         \A u \in chunkDir \ chunkDir' : u \in Uploads => ~Live(u)',
         \A u \in removals' : u \in removals \/ Removable(u)',
         \A t \in Attempts : At(t, "cleanup")' =>
           At(t, "cleanup") \/ session'[UploadOf[t]].status = "completed"
  PROVE  Disk'
<1>1. ChunksKept'
  BY DEF Inv, Disk, ChunksKept, StatusMoves, Live
<1>2. \A u \in removals' : Removable(u)'
  BY DEF Inv, TypeOK, Disk, StatusMoves
<1>3. \A t \in Attempts : At(t, "cleanup")' => session'[UploadOf[t]].status = "completed"
  BY ConstantsOK DEF Inv, Disk, StatusMoves
<1>4. QED
  BY <1>1, <1>2, <1>3 DEF Disk

LEMMA HandlerDisk ==
  ASSUME Inv, NEW t \in Attempts, Complete(t)
  PROVE  Disk'
<1>0. /\ handler \in [Attempts -> Handler] /\ SessionTypeOK /\ UploadOf[t] \in Uploads
      /\ session[UploadOf[t]] \in Session
      /\ \A u \in Uploads : StatusMoves(u)
  BY HandlerCommits, ConstantsOK DEF Inv, TypeOK, SessionTypeOK
<1>1. \A x \in Attempts \ {t} : handler'[x] = handler[x]
  BY <1>0, HandlerMinds
<1>2. UNCHANGED removals
  BY HandlerStore
<1>3. CASE Cleanup(t)
  <2>1. handler'[t].pc = "done" /\ chunkDir' = chunkDir \ {UploadOf[t]}
        /\ session[UploadOf[t]].status = "completed" /\ UNCHANGED session
    BY <1>0, <1>3 DEF Cleanup, DoneHandler, IdleHandler, Inv, Disk, Tables
  <2>2. QED
    BY <1>0, <1>1, <1>2, <2>1, DiskFrame DEF Live, At
<1>4. CASE SkipDuplicate(t) \/ Commit(t)
  <2>1. session'[UploadOf[t]].status = "completed"
    <3>1. PICK f \in Attempts \cup {OtherFile} :
            session' = [session EXCEPT ![UploadOf[t]] = CompletedSession(@, f)]
      BY <1>4 DEF SkipDuplicate, MarkCompleted, Commit, CompleteWithReconciliation
    <3>2. CompletedSession(session[UploadOf[t]], f).status = "completed"
      BY <1>0 DEF CompletedSession, Session
    <3>3. QED
      BY <1>0, <3>1, <3>2 DEF SessionTypeOK
  <2>2. UNCHANGED chunkDir
    BY <1>4 DEF SkipDuplicate, Commit, disk
  <2>3. QED
    BY <1>0, <1>1, <1>2, <2>1, <2>2, DiskFrame DEF At
<1>5. CASE ~Cleanup(t) /\ ~SkipDuplicate(t) /\ ~Commit(t)
  <2>1. UNCHANGED chunkDir
    BY <1>5 DEF disk, Complete, Proceed, Claim, HeartbeatRenews, HeartbeatLoses, Prepare,
       PrepareFails, SkipDuplicateFails, Begin, BeginFails, SaveFile, SaveFileFails,
       RecordUncertain, MarkObject, InsertFile, MarkIndex, InsertFileFails,
       JournalFails, ClaimFails, Failing, CommitFails,
       UndoObject, UndoIndex, UndoPersist, Fail
  <2>2. handler'[t].pc = handler[t].pc \/ handler'[t].pc # "cleanup"
    <3>1. CASE HeartbeatRenews(t)
      BY <3>1 DEF HeartbeatRenews
    <3>2. CASE HeartbeatLoses(t)
      BY <1>0, <3>2 DEF HeartbeatLoses, Handler
    <3>3. CASE \E l \in InFlight \ {"cleanup"} : Goto(t, l)
      BY <1>0, <3>3, GotoEffect
    <3>4. CASE InsertFile(t) \/ UndoObject(t) \/ UndoIndex(t) \/ Fail(t)
      BY <1>0, <3>4 DEF InsertFile, UndoObject, UndoIndex, Fail, DoneHandler, IdleHandler,
         Handler
    <3>5. QED
      BY <1>5, <3>1, <3>2, <3>3, <3>4 DEF Complete, Proceed, InFlight, Claim, Prepare,
         PrepareFails, SkipDuplicateFails, Begin, BeginFails, SaveFile, SaveFileFails,
         RecordUncertain, MarkObject, MarkIndex, InsertFileFails, JournalFails,
         ClaimFails, Failing, CommitFails, UndoPersist
  <2>3. QED
    BY <1>0, <1>1, <1>2, <2>1, <2>2, DiskFrame DEF At
<1>6. QED
  BY <1>3, <1>4, <1>5

\* A run removes the directories of the sessions it deleted.
LEMMA SweepDisk ==
  ASSUME Inv, NEW s \in Sweeps, Maintain(s)
  PROVE  Disk'
<1>1. UNCHANGED <<handler, chunkDir>> /\ \A u \in Uploads : StatusMoves(u)
  BY SweepStore, SweepCommits
<1>2. \A u \in removals' : u \in removals \/ Removable(u)'
  <2>1. CASE UNCHANGED removals
    BY <2>1
  <2>2. ASSUME NEW batch \in SUBSET Uploads, DeleteExpiredSessions(batch),
               removals' = removals \cup batch, NEW u \in batch
        PROVE  Removable(u)'
    <3>1. session[u] \in Session /\ session'[u] = DeletedSession(session[u])
      BY <2>2 DEF DeleteExpiredSessions, Inv, TypeOK, SessionTypeOK
    <3>2. session'[u].status = "deleted"
      BY <3>1 DEF DeletedSession, Session
    <3> QED BY <3>2 DEF Removable
  <2> QED BY <2>1, <2>2, SweepStore
<1> QED BY <1>1, <1>2, DiskFrame DEF At

LEMMA ManageStep ==
  ASSUME Inv, NEW u \in Uploads, Manage(u) \/ Expire(u) \/ LeaseLapse(u)
  PROVE  /\ \A x \in Attempts : Local(x)'
         /\ \A y \in Sweeps : Sweeping(y)'
         /\ Commits' /\ Disk'
         /\ \A v \in Uploads : StatusMoves(v)
<1>0. /\ SessionTypeOK /\ Commits
      /\ \A x \in Attempts : Local(x)
      /\ \A y \in Sweeps : Sweeping(y)
  BY DEF Inv, TypeOK
<1>1. UNCHANGED <<handler, sweep, objects, KnownRows>>
  BY DEF Manage, Expire, LeaseLapse, Retry, CancelUpload, RemoveDir, store, rows, KnownRows
<1>2. SessionStatement(u) \/ UNCHANGED Tables
  BY ManageSteps
<1>3. \A y \in Sweeps : Sweeping(y)'
  BY <1>0, <1>1 DEF Sweeping, SweepHasOp, Working, SweepEvidence
<1>4. \A v \in Uploads : StatusMoves(v) /\ FileMoves(v)
  BY <1>0, <1>2, SessionStatementMoves DEF StatusMoves, FileMoves, Tables, Removable, Live
<1>5. UNCHANGED journal
  BY <1>2 DEF SessionStatement, ReopenFailed, Cancel, SessionExpires,
     CompletionLeaseLapses, Tables
<1>6. \A x \in Attempts : Local(x)'
  BY <1>0, <1>1, <1>5, LocalFrame DEF NothingAdded, EvidenceKept, SnapshotKept
<1>7. Commits'
  BY <1>0, <1>4, <1>5, CommitsFrame DEF Committed
<1>8. Disk'
  <2>1. CASE RemoveDir(u)
    <3>1. Removable(u) /\ UNCHANGED session
      BY <2>1 DEF RemoveDir, Inv, Disk, Tables
    <3>2. Removable(u)' /\ ~Live(u)'
      BY <3>1 DEF Removable, Live
    <3>3. QED
      BY <1>1, <1>4, <2>1, <3>2, DiskFrame DEF RemoveDir, At
  <2>2. CASE CancelUpload(u)
    <3>1. Removable(u)'
      BY <1>0, <2>2 DEF CancelUpload, Cancel, SessionTypeOK, Session, Removable
    <3>2. QED
      BY <1>1, <1>4, <2>2, <3>1, DiskFrame DEF CancelUpload, At
  <2>3. CASE UNCHANGED disk
    BY <1>1, <1>4, <2>3, DiskFrame DEF disk, At
  <2>4. QED
    BY <2>1, <2>2, <2>3 DEF Manage, Expire, LeaseLapse, Retry
<1>9. QED
  BY <1>3, <1>4, <1>6, <1>7, <1>8

LEMMA LapseStep ==
  ASSUME Inv, NEW t \in Attempts, JournalLapse(t)
  PROVE  /\ \A x \in Attempts : Local(x)'
         /\ \A y \in Sweeps : Sweeping(y)'
         /\ Commits' /\ Disk'
         /\ \A v \in Uploads : StatusMoves(v)
<1>0. /\ SessionTypeOK /\ Commits
      /\ \A x \in Attempts : Local(x)
      /\ \A y \in Sweeps : Sweeping(y)
  BY DEF Inv, TypeOK
<1>1. UNCHANGED <<session, handler, sweep, objects, KnownRows, chunkDir, removals>>
  BY DEF JournalLapse, ReconciliationLeaseLapses, store, rows, KnownRows, disk
<1>2. \A x \in Attempts : EvidenceKept(x)
  BY <1>0 DEF JournalLapse, ReconciliationLeaseLapses, Write, EvidenceKept,
     SessionTypeOK, Journal
<1>3. \A v \in Uploads : StatusMoves(v) /\ FileMoves(v)
  BY <1>1 DEF StatusMoves, FileMoves, Removable, Live
<1>4. \A x \in Attempts : Local(x)'
  BY <1>0, <1>1, <1>2, LocalFrame DEF NothingAdded, SnapshotKept
<1>5. \A y \in Sweeps : Sweeping(y)'
  BY <1>0, <1>1 DEF Sweeping, SweepHasOp, Working, SweepEvidence
<1>6. Commits'
  BY <1>0, <1>2, <1>3, CommitsFrame DEF EvidenceKept, Committed
<1>7. Disk'
  BY <1>1, <1>3, DiskFrame DEF At
<1>8. QED
  BY <1>3, <1>4, <1>5, <1>6, <1>7

LEMMA CrashStep ==
  ASSUME Inv, Crash
  PROVE  /\ \A x \in Attempts : Local(x)'
         /\ \A y \in Sweeps : Sweeping(y)'
         /\ Commits' /\ Disk'
         /\ \A v \in Uploads : StatusMoves(v)
<1>0. /\ SessionTypeOK /\ Commits /\ handler \in [Attempts -> Handler]
      /\ \A x \in Attempts : Local(x)
      /\ \A y \in Sweeps : Sweeping(y)
  BY DEF Inv, TypeOK
<1>1. UNCHANGED <<session, journal, objects, KnownRows, chunkDir>> /\ removals' = {}
  BY DEF Crash, Tables, store, rows, KnownRows
<1>2. \A y \in Sweeps : /\ sweep'[y].op = NoAttempt /\ ~Working(y)'
                        /\ sweep'[y].object = "unknown" /\ sweep'[y].index = "unknown"
                        /\ ~sweep'[y].isFinal
  BY DEF Crash, IdleSweep, Working
<1>3. \A x \in Attempts : handler'[x] = handler[x] \/ handler'[x].pc = "done"
  BY DEF Crash, DoneHandler, IdleHandler
<1>4. \A v \in Uploads : StatusMoves(v) /\ FileMoves(v)
  BY <1>1 DEF StatusMoves, FileMoves, Removable, Live
<1>5. ASSUME NEW x \in Attempts PROVE Local(x)'
  <2>1. \A y \in Sweeps : sweep'[y].op # x
    BY <1>2, ConstantsOK
  <2>2. CASE handler'[x] = handler[x]
    BY <1>0, <1>1, <2>1, <2>2, LocalFrame DEF NothingAdded, EvidenceKept
  <2>3. CASE handler'[x].pc = "done"
    BY <1>0, <1>1, <2>3 DEF Local, Quiet, ObjectUnjournalled, RowUnjournalled, NoRowYet,
       InsertedKnown, RowNotJournalled, RowNotInserted, Undoing, At, JournalEvidence,
       HandlerEvidence, Accounted, Pending, Committed
  <2>4. QED
    BY <1>3, <2>2, <2>3
<1>6. \A y \in Sweeps : Sweeping(y)'
  BY <1>2 DEF Sweeping, SweepHasOp, SweepEvidence
<1>7. Commits'
  BY <1>0, <1>1, <1>4, CommitsFrame DEF Committed
<1>8. Disk'
  BY <1>1, <1>3, <1>4, DiskFrame DEF At
<1>9. QED
  BY <1>4, <1>5, <1>6, <1>7, <1>8

-----------------------------------------------------------------------------
(* The theorems. *)

LEMMA InitInv == Init => Inv
<1> SUFFICES ASSUME Init PROVE Inv
  OBVIOUS
<1>1. TypeOK
  BY InitType
<1>2. \A t \in Attempts : Local(t)
  BY ConstantsOK DEF Init, Local, Quiet, ObjectUnjournalled, RowUnjournalled, NoRowYet,
     InsertedKnown, RowNotJournalled, RowNotInserted, Undoing, At, JournalEvidence,
     HandlerEvidence, Accounted, NoJournal, IdleHandler, IdleSweep, KnownRows
<1>3. \A s \in Sweeps : Sweeping(s)
  BY DEF Init, Sweeping, SweepHasOp, Working, SweepEvidence, IdleSweep
<1>4. \A t \in Attempts : ~Committed(t) /\ session[UploadOf[t]].file # t
  BY ConstantsOK DEF Init, Committed, NoJournal, OpenSession
<1>5. Commits
  BY <1>4 DEF Commits, CommitMatchesSession, OneCommitPerUpload, FileCommitted
<1>6. Disk
  BY DEF Init, Disk, ChunksKept, At, IdleHandler
<1>7. QED
  BY <1>1, <1>2, <1>3, <1>5, <1>6 DEF Inv

\* Only the handler that saves the object adds it, and only the one that inserts
\* the row.
LEMMA HandlerAdds ==
  ASSUME NEW t \in Attempts, Complete(t)
  PROVE  /\ t \in objects' /\ t \notin objects => At(t, "begun")
         /\ t \in KnownRows' /\ t \notin KnownRows => At(t, "marked")
<1> USE DEF store, rows, KnownRows
<1>1. CASE SaveFile(t) \/ SaveFileFails(t) \/ InsertFile(t) \/ InsertFileFails(t)
  BY <1>1 DEF SaveFile, SaveFileFails, InsertFile, InsertFileFails
<1>2. CASE UndoObject(t) \/ UndoIndex(t)
  BY <1>2 DEF UndoObject, DeleteObject, UndoIndex, DeleteRow
<1>3. CASE ~SaveFile(t) /\ ~SaveFileFails(t) /\ ~InsertFile(t) /\ ~InsertFileFails(t)
           /\ ~UndoObject(t) /\ ~UndoIndex(t)
  BY <1>3 DEF Complete, Proceed, Claim, ClaimFails, HeartbeatRenews, HeartbeatLoses,
     Prepare, PrepareFails, SkipDuplicate, SkipDuplicateFails, Begin, BeginFails,
     RecordUncertain, MarkObject, MarkIndex, JournalFails, Commit, CommitFails,
     UndoPersist, Fail, Cleanup
<1> QED BY <1>1, <1>2, <1>3

LEMMA NextInv ==
  ASSUME Inv, Next
  PROVE  Inv' /\ \A u \in Uploads : StatusMoves(u)
<1>0. TypeOK'
  BY TypeStep DEF Inv, Sweeping
<1>1. ASSUME NEW t \in Attempts, Complete(t)
      PROVE  Inv' /\ \A u \in Uploads : StatusMoves(u)
  <2>1. \A x \in Attempts : Local(x)'
    BY <1>1, HandlerLocal, HandlerLeavesOthers
  <2>2. Commits' /\ Disk' /\ \A u \in Uploads : StatusMoves(u)
    BY <1>1, HandlerCommits, HandlerDisk
  <2>3. objects' \cup KnownRows' \subseteq objects \cup KnownRows \cup {t}
    BY <1>1, HandlerStore DEF KnownRows
  <2>4. UNCHANGED sweep
    BY <1>1, HandlerLeavesSweeps
  <2>5. \A y \in Sweeps : Sweeping(y)'
    <3> TAKE y \in Sweeps
    <3>0. Sweeping(y) /\ Local(t) /\ handler \in [Attempts -> Handler]
      BY DEF Inv, TypeOK
    <3>1. /\ t \in objects' /\ t \notin objects => At(t, "begun")
          /\ t \in KnownRows' /\ t \notin KnownRows => At(t, "marked")
      BY <1>1, HandlerAdds
    <3>2. /\ sweep[y].object = "deleted" => sweep[y].op \notin objects'
          /\ sweep[y].index = "deleted" => sweep[y].op \notin KnownRows'
      <4>1. CASE sweep[y].op = t
        BY <3>0, <3>1, <4>1 DEF Sweeping, SweepEvidence, Local, ObjectUnjournalled,
           RowUnjournalled, RowNotJournalled, RowNotInserted, At
      <4>2. CASE sweep[y].op # t
        BY <1>1, <3>0, <4>2, HandlerStore DEF Sweeping, SweepEvidence, KnownRows
      <4>3. QED
        BY <4>1, <4>2
    <3>3. QED
      BY <2>4, <3>0, <3>2 DEF Sweeping, SweepHasOp, Working, SweepEvidence
  <2>6. QED
    BY <1>0, <2>1, <2>2, <2>5 DEF Inv
<1>2. ASSUME NEW s \in Sweeps, Maintain(s)
      PROVE  Inv' /\ \A u \in Uploads : StatusMoves(u)
  <2>1. Commits' /\ \A u \in Uploads : StatusMoves(u)
    BY <1>2, SweepCommits
  <2>2. Disk'
    BY <1>2, SweepDisk
  <2>3. QED
    BY <1>0, <1>2, <2>1, <2>2, SweepLocal DEF Inv
<1>3. ASSUME NEW u \in Uploads, Manage(u) \/ Expire(u) \/ LeaseLapse(u)
      PROVE  Inv' /\ \A v \in Uploads : StatusMoves(v)
  BY <1>0, <1>3, ManageStep DEF Inv
<1>4. ASSUME NEW t \in Attempts, JournalLapse(t)
      PROVE  Inv' /\ \A u \in Uploads : StatusMoves(u)
  BY <1>0, <1>4, LapseStep DEF Inv
<1>5. CASE Crash
  BY <1>0, <1>5, CrashStep DEF Inv
<1>6. QED
  BY <1>1, <1>2, <1>3, <1>4, <1>5 DEF Next

LEMMA StutterInv ==
  ASSUME Inv, UNCHANGED vars
  PROVE  Inv'
<1>1. TypeOK'
  BY DEF Inv, vars, TypeOK, SessionTypeOK
<1>2. \A t \in Attempts : Local(t)'
  BY LocalFrame DEF Inv, vars, EvidenceKept, NothingAdded, SnapshotKept, KnownRows
<1>3. \A s \in Sweeps : Sweeping(s)'
  BY DEF Inv, vars, Sweeping, SweepHasOp, Working, SweepEvidence, KnownRows
<1>4. Commits'
  BY CommitsFrame DEF Inv, TypeOK, vars, StatusMoves, FileMoves, Removable, Live, Committed
<1>5. Disk'
  BY DiskFrame DEF Inv, vars, StatusMoves, Removable, Live, At
<1>6. QED
  BY <1>1, <1>2, <1>3, <1>4, <1>5 DEF Inv

LEMMA InvHolds == Spec => []Inv
<1>1. Inv /\ [Next]_vars => Inv'
  BY NextInv, StutterInv
<1>2. QED
  BY InitInv, <1>1, PTL DEF Spec

\* Whatever any number of racing attempts, sweeps and crashes leave at the
\* provider or in the files table is known to the journal (the design of
\* chunk_upload_reconciliations, chunkUploadReconciliation.ts:121-231), but for
\* the row of an INSERT INTO files whose answer was lost.
THEOREM EffectsAreAccounted == Spec => []SideEffectsAccounted
<1>1. Inv => SideEffectsAccounted
  BY DEF Inv, Local, Accounted, SideEffectsAccounted
<1>2. QED
  BY <1>1, InvHolds, PTL

\* No two attempts at one upload are ever both committed (the completion token
\* of claimCompletion and completeWithReconciliation).
THEOREM AtMostOneCommit == Spec => []OneCommitPerUpload
<1>1. Inv => OneCommitPerUpload
  BY DEF Inv, Commits
<1>2. QED
  BY <1>1, InvHolds, PTL

\* A committed operation belongs to a completed session, which points at no
\* other file (the transaction of completeWithReconciliation).
THEOREM CommitsMatch == Spec => []CommitMatchesSession
<1>1. Inv => CommitMatchesSession
  BY DEF Inv, Commits
<1>2. QED
  BY <1>1, InvHolds, PTL

\* The chunks of an upload that can still be completed are never removed
\* (cancel, deleteExpiredSessions and the cleanup after a commit).
THEOREM ChunksAreKept == Spec => []ChunksKept
<1>1. Inv => ChunksKept
  BY DEF Inv, Disk
<1>2. QED
  BY <1>1, InvHolds, PTL

\* A sweep never meets an operation whose session was completed with its file:
\* the first early exit of resolveClaimedChunkReconciliation is dead code.
THEOREM CommitsAreResolved == Spec => []NoUnresolvedCommit
<1>1. Inv => NoUnresolvedCommit
  BY DEF Inv, Sweeping, NoUnresolvedCommit, ConfirmedCommit
<1>2. QED
  BY <1>1, InvHolds, PTL

\* No step of anyone takes a completed session out of that status or revives a
\* cancelled one (the WHERE status clauses of chunkUploadSessions.ts).
THEOREM OutcomesAreFinal == Spec => OutcomeIsFinal
<1>1. Inv /\ [Next]_vars => [\A u \in Uploads : FinalStatus(u)]_vars
  <2>1. ASSUME Inv, Next PROVE \A u \in Uploads : FinalStatus(u)
    BY <2>1, NextInv DEF StatusMoves, FinalStatus, Removable
  <2>2. QED
    BY <2>1
<1>2. QED
  BY <1>1, InvHolds, PTL DEF Spec, OutcomeIsFinal

-----------------------------------------------------------------------------
(* The ledger: how a step moves what UploadLedger sees. *)

Visible == objects \cup KnownRows

Seen == <<Visible, unanswered>>

OutcomeKept(u) == Outcome(session[u])' = Outcome(session[u])

StandingKept(t) == Standing(t)' = Standing(t)

LedgerStep == [Ledger!LedgerNext]_(Ledger!ledger)

LEMMA Outcomes ==
  ASSUME NEW s
  PROVE  /\ Outcome(s) = "completed" <=> s.status = "completed"
         /\ Outcome(s) = "abandoned" <=> s.status \in {"cancelled", "deleted"}
         /\ Outcome(s) \in {"completed", "abandoned", "undecided"}
BY DEF Outcome

LEMMA Standings ==
  ASSUME NEW t \in Attempts
  PROVE  /\ Standing(t) = "running" <=> Pending(t)
         /\ Standing(t) = "committed" <=> Committed(t)
         /\ Standing(t) \in {"running", "committed", "none"}
BY DEF Standing, Pending, Committed

LEMMA StutterMaps ==
  ASSUME \A u \in Uploads : OutcomeKept(u), \A t \in Attempts : StandingKept(t),
         UNCHANGED Seen
  PROVE  LedgerStep
BY DEF LedgerStep, Ledger!ledger, OutcomeKept, StandingKept, Visible, Seen

LEMMA DecideMaps ==
  ASSUME \A u \in Uploads : OutcomeKept(u) \/ Outcome(session[u]) = "undecided",
         \A t \in Attempts : StandingKept(t), UNCHANGED Seen
  PROVE  LedgerStep
<1>1. \A u \in Uploads : Outcome(session[u])' \in {"undecided", "completed", "abandoned"}
  BY DEF Outcome
<1>2. /\ [u \in Uploads |-> Outcome(session[u])]'
           \in [Uploads -> {"undecided", "completed", "abandoned"}]
      /\ \A u \in Uploads :
           [v \in Uploads |-> Outcome(session[v])][u] # "undecided" =>
             [v \in Uploads |-> Outcome(session[v])]'[u]
               = [v \in Uploads |-> Outcome(session[v])][u]
  BY <1>1 DEF OutcomeKept
<1>3. [x \in Attempts |-> Standing(x)]' = [x \in Attempts |-> Standing(x)]
  BY DEF StandingKept
<1>4. Ledger!Decide
  BY <1>2, <1>3 DEF Ledger!Decide, Visible, Seen
<1> QED BY <1>4 DEF LedgerStep, Ledger!LedgerNext

\* The step of an attempt that leaves the sessions as they are.
LEMMA StandingMaps ==
  ASSUME NEW t \in Attempts, NEW e,
         \A u \in Uploads : OutcomeKept(u),
         Standing(t)' = e,
         \A x \in Attempts \ {t} : StandingKept(x)
  PROVE  /\ [x \in Attempts |-> Standing(x)]'
              = [[x \in Attempts |-> Standing(x)] EXCEPT ![t] = e]
         /\ [u \in Uploads |-> Outcome(session[u])]'
              = [u \in Uploads |-> Outcome(session[u])]
BY DEF OutcomeKept, StandingKept

LEMMA StartMaps ==
  ASSUME NEW t \in Attempts, Standing(t) = "none", Standing(t)' = "running",
         \A u \in Uploads : OutcomeKept(u),
         \A x \in Attempts \ {t} : StandingKept(x), UNCHANGED Seen
  PROVE  LedgerStep
<1>1. Ledger!Start(t)
  BY StandingMaps DEF Ledger!Start, Visible, Seen
<1> QED BY <1>1 DEF LedgerStep, Ledger!LedgerNext

LEMMA UndoMaps ==
  ASSUME NEW t \in Attempts, Standing(t) = "running", Standing(t)' = "none",
         t \notin Visible,
         \A u \in Uploads : OutcomeKept(u),
         \A x \in Attempts \ {t} : StandingKept(x), UNCHANGED Seen
  PROVE  LedgerStep
<1>1. Ledger!Undo(t)
  BY StandingMaps DEF Ledger!Undo, Visible, Seen
<1> QED BY <1>1 DEF LedgerStep, Ledger!LedgerNext

LEMMA CommitMaps ==
  ASSUME NEW t \in Attempts, Standing(t) = "running", Standing(t)' = "committed",
         Outcome(session[UploadOf[t]]) = "undecided",
         Outcome(session[UploadOf[t]])' = "completed",
         \A u \in Uploads \ {UploadOf[t]} : OutcomeKept(u),
         \A x \in Attempts \ {t} : StandingKept(x), UNCHANGED Seen
  PROVE  LedgerStep
<1>1. UploadOf[t] \in Uploads
  BY ConstantsOK
<1>2. [x \in Attempts |-> Standing(x)]'
        = [[x \in Attempts |-> Standing(x)] EXCEPT ![t] = "committed"]
  BY DEF StandingKept
<1>3. [u \in Uploads |-> Outcome(session[u])]'
        = [[u \in Uploads |-> Outcome(session[u])] EXCEPT ![UploadOf[t]] = "completed"]
  BY <1>1 DEF OutcomeKept
<1>4. Ledger!Commit(t)
  BY <1>1, <1>2, <1>3 DEF Ledger!Commit, Visible, Seen
<1> QED BY <1>4 DEF LedgerStep, Ledger!LedgerNext

\* A call to the provider or a statement on the files table: only a running
\* attempt adds something.
LEMMA StoreMaps ==
  ASSUME Inv, NEW t \in Attempts,
         \A u \in Uploads : OutcomeKept(u), UNCHANGED <<journal, unanswered>>,
         Visible' \in {Visible, Visible \cup {t}, Visible \ {t}},
         Visible' \subseteq Visible \/ Pending(t)
  PROVE  LedgerStep
<1>1. \A x \in Attempts : StandingKept(x)
  BY DEF StandingKept, Standing, Pending, Committed
<1>2. /\ [x \in Attempts |-> Standing(x)]' = [x \in Attempts |-> Standing(x)]
      /\ [u \in Uploads |-> Outcome(session[u])]'
           = [u \in Uploads |-> Outcome(session[u])]
  BY <1>1 DEF OutcomeKept, StandingKept
<1>3. CASE Visible' = Visible
  BY <1>1, <1>3, StutterMaps DEF Seen
<1>4. CASE Visible' # Visible /\ Pending(t)
  <2>1. Standing(t) = "running"
    BY <1>4, Standings
  <2>2. Ledger!Touch(t)
    BY <1>2, <2>1 DEF Ledger!Touch, Visible
  <2> QED BY <2>2 DEF LedgerStep, Ledger!LedgerNext
<1>5. CASE Visible' # Visible /\ ~Pending(t)
  <2>1. t \in Visible /\ Visible' = Visible \ {t}
    BY <1>5
  <2>2. Committed(t)
    BY <1>5, <2>1 DEF Inv, Local, Accounted, Visible
  <2>3. Standing(t) = "committed"
    BY <2>2, Standings
  <2>4. Ledger!Lose(t)
    BY <1>2, <2>1, <2>3 DEF Ledger!Lose, Visible
  <2> QED BY <2>4 DEF LedgerStep, Ledger!LedgerNext
<1> QED BY <1>3, <1>4, <1>5

\* The insertion of a row whose answer is lost.
LEMMA StrayMaps ==
  ASSUME NEW t \in Attempts, Pending(t), UNCHANGED Tables, Visible' = Visible,
         unanswered' = unanswered \cup {t}
  PROVE  LedgerStep
<1>1. Standing(t) = "running"
  BY Standings
<1>2. /\ [x \in Attempts |-> Standing(x)]' = [x \in Attempts |-> Standing(x)]
      /\ [u \in Uploads |-> Outcome(session[u])]'
           = [u \in Uploads |-> Outcome(session[u])]
  BY DEF Tables, Standing, Pending, Committed
<1>3. Ledger!LoseAnswer(t)
  BY <1>1, <1>2 DEF Ledger!LoseAnswer, Visible
<1> QED BY <1>3 DEF LedgerStep, Ledger!LedgerNext

-----------------------------------------------------------------------------
(* Which step of the ledger each statement is. *)

LEMMA OtherStandings ==
  ASSUME SessionTypeOK, NEW t \in Attempts, HandlerStatement(t)
  PROVE  /\ \A x \in Attempts \ {t} : StandingKept(x)
         /\ UNCHANGED session => \A u \in Uploads : OutcomeKept(u)
BY StatementMinds DEF StandingKept, Standing, Pending, Committed, OutcomeKept

LEMMA BeginMaps ==
  ASSUME Inv, NEW t \in Attempts, BeginReconciliation(t), journal[t].status = "none",
         UNCHANGED Seen
  PROVE  LedgerStep
<1>0. journal \in [Attempts -> Journal] /\ SessionTypeOK
  BY DEF Inv, TypeOK, SessionTypeOK
<1>1. journal'[t].status = "pending" /\ UNCHANGED session
  BY <1>0 DEF BeginReconciliation, Write, NoJournal
<1>2. Standing(t) = "none" /\ Standing(t)' = "running"
  BY <1>1 DEF Standing, Pending, Committed
<1>3. HandlerStatement(t)
  BY DEF HandlerStatement
<1> QED BY <1>0, <1>1, <1>2, <1>3, OtherStandings, StartMaps

LEMMA CompensationMaps ==
  ASSUME Inv, NEW t \in Attempts, NEW obj \in Evidence, NEW idx \in Evidence,
         UpdateAfterCompensation(t, obj, idx),
         Settled(obj, idx) => t \notin Visible, UNCHANGED Seen
  PROVE  LedgerStep
<1>0. journal \in [Attempts -> Journal] /\ journal[t] \in Journal /\ SessionTypeOK
  BY DEF Inv, TypeOK, SessionTypeOK
<1>1. /\ Pending(t) /\ UNCHANGED session
      /\ journal'[t].status = IF Settled(obj, idx) THEN "resolved" ELSE "pending"
      /\ journal'[t].reason # "committed"
  BY <1>0 DEF UpdateAfterCompensation, Write, Journal
<1>2. HandlerStatement(t)
  BY DEF HandlerStatement
<1>3. CASE Settled(obj, idx)
  <2>1. Standing(t) = "running" /\ Standing(t)' = "none"
    BY <1>1, <1>3 DEF Standing, Pending, Committed
  <2> QED BY <1>0, <1>1, <1>2, <1>3, <2>1, OtherStandings, UndoMaps
<1>4. CASE ~Settled(obj, idx)
  <2>1. Pending(t) /\ Pending(t)'
    BY <1>1, <1>4 DEF Pending
  <2>2. StandingKept(t)
    BY <2>1 DEF StandingKept, Standing
  <2> QED BY <1>0, <1>1, <1>2, <2>2, OtherStandings, StutterMaps
<1> QED BY <1>3, <1>4

PlainStatement(t) ==
  \/ ClaimCompletion(t, TRUE) \/ RenewCompletion(t) \/ MarkCompletionFailed(t)
  \/ MarkCompleted(t, OtherFile)
  \/ MarkObjectPresent(t) \/ MarkIndexPresent(t)
  \/ CompleteWithReconciliation(t)

LEMMA PlainStatementMaps ==
  ASSUME Inv, NEW t \in Attempts, PlainStatement(t), UNCHANGED Seen
  PROVE  LedgerStep
<1>0. /\ UploadOf[t] \in Uploads /\ session \in [Uploads -> Session]
      /\ \A u \in Uploads : session[u] \in Session
      /\ journal \in [Attempts -> Journal] /\ journal[t] \in Journal
      /\ SessionTypeOK
  BY ConstantsOK DEF Inv, TypeOK, SessionTypeOK
<1>1. \A x \in Attempts \ {t} : StandingKept(x)
  BY <1>0, OtherStandings DEF PlainStatement, HandlerStatement
<1>2. ASSUME UNCHANGED session
      PROVE  \A u \in Uploads : OutcomeKept(u)
  BY <1>2 DEF OutcomeKept
<1>3. ASSUME UNCHANGED journal
      PROVE  \A x \in Attempts : StandingKept(x)
  BY <1>3 DEF StandingKept, Standing, Pending, Committed
<1>4. CASE ClaimCompletion(t, TRUE) \/ RenewCompletion(t) \/ MarkCompletionFailed(t)
  <2>1. \A u \in Uploads : OutcomeKept(u)
    <3> TAKE u \in Uploads
    <3>1. \/ session'[u] = session[u]
          \/ /\ session[u].status \in {"open", "completing"}
             /\ session'[u].status \in {"completing", "failed"}
      <4>1. CASE ClaimCompletion(t, TRUE)
        BY <1>0, <4>1 DEF ClaimCompletion, Session
      <4>2. CASE RenewCompletion(t)
        BY <1>0, <4>2 DEF RenewCompletion, Holds, Session
      <4>3. CASE MarkCompletionFailed(t)
        BY <1>0, <4>3 DEF MarkCompletionFailed, FailedSession, Holds, Session
      <4> QED BY <1>4, <4>1, <4>2, <4>3
    <3> QED BY <3>1 DEF OutcomeKept, Outcome
  <2> QED BY <1>3, <1>4, <2>1, StutterMaps
          DEF ClaimCompletion, RenewCompletion, MarkCompletionFailed
<1>5. CASE MarkCompleted(t, OtherFile)
  <2>1. /\ session[UploadOf[t]].status = "completing"
        /\ session'[UploadOf[t]].status = "completed"
        /\ \A u \in Uploads \ {UploadOf[t]} : session'[u] = session[u]
        /\ UNCHANGED journal
    BY <1>0, <1>5 DEF MarkCompleted, CompletedSession, Holds, Session
  <2>2. /\ Outcome(session[UploadOf[t]]) = "undecided"
        /\ Outcome(session[UploadOf[t]])' # "undecided"
        /\ \A u \in Uploads \ {UploadOf[t]} : OutcomeKept(u)
    BY <2>1 DEF Outcome, OutcomeKept
  <2> QED BY <1>3, <2>1, <2>2, DecideMaps
<1>7. CASE MarkObjectPresent(t) \/ MarkIndexPresent(t)
  <2>1. Pending(t) /\ Pending(t)' /\ UNCHANGED session
    <3>1. CASE MarkObjectPresent(t)
      BY <1>0, <3>1 DEF MarkObjectPresent, Write, Pending, Journal
    <3>2. CASE MarkIndexPresent(t)
      BY <1>0, <3>2 DEF MarkIndexPresent, Write, Pending, Journal
    <3> QED BY <1>7, <3>1, <3>2
  <2>2. StandingKept(t)
    BY <2>1 DEF StandingKept, Standing
  <2> QED BY <1>1, <1>2, <2>1, <2>2, StutterMaps
<1>8. CASE CompleteWithReconciliation(t)
  <2>1. /\ session[UploadOf[t]].status = "completing"
        /\ session'[UploadOf[t]].status = "completed"
        /\ \A u \in Uploads \ {UploadOf[t]} : session'[u] = session[u]
    BY <1>0, <1>8 DEF CompleteWithReconciliation, CompletedSession, Holds, Session
  <2>2. Pending(t) /\ Committed(t)'
    BY <1>0, <1>8 DEF CompleteWithReconciliation, Write, Committed, Journal
  <2>3. Standing(t) = "running" /\ Standing(t)' = "committed"
    BY <2>2 DEF Standing, Pending, Committed
  <2>4. /\ Outcome(session[UploadOf[t]]) = "undecided"
        /\ Outcome(session[UploadOf[t]])' = "completed"
        /\ \A u \in Uploads \ {UploadOf[t]} : OutcomeKept(u)
    BY <2>1 DEF Outcome, OutcomeKept
  <2> QED BY <1>1, <2>3, <2>4, CommitMaps
<1> QED BY <1>4, <1>5, <1>7, <1>8 DEF PlainStatement

\* A sweep that claims, renews or gives up an operation leaves it pending.
LEMMA OperationKeptMaps ==
  ASSUME Inv, NEW s \in Sweeps, NEW t \in Attempts, UNCHANGED Seen,
         ClaimReconciliation(s, t) \/ RequireOperator(s, t) \/ RenewReconciliation(s, t)
  PROVE  LedgerStep
<1>0. /\ journal \in [Attempts -> Journal] /\ journal[t] \in Journal
      /\ SessionTypeOK
  BY DEF Inv, TypeOK, SessionTypeOK
<1>1. \A x \in Attempts \ {t} : StandingKept(x)
  BY <1>0, StatementMinds DEF SweepStatement, StandingKept, Standing, Pending, Committed
<1>2. \A u \in Uploads : OutcomeKept(u)
  BY DEF ClaimReconciliation, RequireOperator, RenewReconciliation, OutcomeKept
<1>3. Pending(t) /\ Pending(t)'
  <2>1. CASE ClaimReconciliation(s, t)
    BY <1>0, <2>1 DEF ClaimReconciliation, Claimable, Write, Pending, Journal
  <2>2. CASE RequireOperator(s, t)
    BY <1>0, <2>2 DEF RequireOperator, OwnsReconciliation, Released, Write, Pending,
       Journal
  <2>3. CASE RenewReconciliation(s, t)
    BY <1>0, <2>3 DEF RenewReconciliation, OwnsReconciliation, Write, Pending, Journal
  <2> QED BY <2>1, <2>2, <2>3
<1>4. StandingKept(t)
  BY <1>3 DEF StandingKept, Standing
<1> QED BY <1>1, <1>2, <1>4, StutterMaps

LEMMA ResolveMaps ==
  ASSUME Inv, NEW s \in Sweeps, NEW t \in Attempts, UNCHANGED Seen,
         NEW obj \in Evidence, NEW idx \in Evidence,
         ResolveReconciliation(s, t, obj, idx),
         Settled(obj, idx) => t \notin Visible
  PROVE  LedgerStep
<1>0. /\ journal \in [Attempts -> Journal] /\ journal[t] \in Journal
      /\ SessionTypeOK
  BY DEF Inv, TypeOK, SessionTypeOK
<1>1. \A x \in Attempts \ {t} : StandingKept(x)
  BY <1>0, StatementMinds DEF SweepStatement, StandingKept, Standing, Pending, Committed
<1>2. \A u \in Uploads : OutcomeKept(u)
  BY DEF ResolveReconciliation, OutcomeKept
<1>3. /\ Pending(t)
      /\ journal'[t].status = IF Settled(obj, idx) THEN "resolved" ELSE "pending"
      /\ journal'[t].reason # "committed"
  BY <1>0 DEF ResolveReconciliation, OwnsReconciliation, Released, Write, Journal
<1>4. CASE Settled(obj, idx)
  <2>1. Standing(t) = "running" /\ Standing(t)' = "none"
    BY <1>3, <1>4 DEF Standing, Pending, Committed
  <2> QED BY <1>1, <1>2, <1>4, <2>1, UndoMaps
<1>5. CASE ~Settled(obj, idx)
  <2>1. Pending(t) /\ Pending(t)'
    BY <1>3, <1>5 DEF Pending
  <2>2. StandingKept(t)
    BY <2>1 DEF StandingKept, Standing
  <2> QED BY <1>1, <1>2, <2>2, StutterMaps
<1> QED BY <1>4, <1>5

\* Statements that decide sessions or leave their outcome: all that touch no
\* operation with a standing.
LEMMA MovesMap ==
  ASSUME \A t \in Attempts : StandingKept(t), UNCHANGED Seen,
         \A u \in Uploads :
           \/ session'[u].status = session[u].status
           \/ session[u].status \in {"open", "completing", "failed"}
           \/ session[u].status = "cancelled" /\ session'[u].status = "deleted"
  PROVE  LedgerStep
<1>1. \A u \in Uploads : OutcomeKept(u) \/ Outcome(session[u]) = "undecided"
  BY DEF OutcomeKept, Outcome
<1> QED BY <1>1, DecideMaps

LEMMA SessionStatementMaps ==
  ASSUME Inv, NEW u \in Uploads, SessionStatement(u), UNCHANGED Seen
  PROVE  LedgerStep
<1>0. session \in [Uploads -> Session] /\ session[u] \in Session
  BY DEF Inv, TypeOK, SessionTypeOK
<1>1. UNCHANGED journal /\ \A v \in Uploads \ {u} : session'[v] = session[v]
  BY <1>0 DEF SessionStatement, ReopenFailed, Cancel, SessionExpires,
     CompletionLeaseLapses
<1>2. \A t \in Attempts : StandingKept(t)
  BY <1>1 DEF StandingKept, Standing, Pending, Committed
<1>3. \/ session'[u].status = session[u].status
      \/ session[u].status \in {"open", "completing", "failed"}
  <2>1. CASE ReopenFailed(u)
    BY <2>1 DEF ReopenFailed
  <2>2. CASE Cancel(u)
    BY <2>2 DEF Cancel
  <2>3. CASE SessionExpires(u) \/ CompletionLeaseLapses(u)
    BY <1>0, <2>3 DEF SessionExpires, CompletionLeaseLapses, Session
  <2> QED BY <2>1, <2>2, <2>3 DEF SessionStatement
<1> QED BY <1>1, <1>2, <1>3, MovesMap

LEMMA BatchMaps ==
  ASSUME Inv, BatchStatement, UNCHANGED Seen
  PROVE  LedgerStep
<1>0. /\ session \in [Uploads -> Session] /\ Commits
      /\ \A x \in Attempts : UploadOf[x] \in Uploads
  BY ConstantsOK DEF Inv, TypeOK, SessionTypeOK
<1>1. PICK batch \in SUBSET Uploads :
        DeleteExpiredSessions(batch) \/ RecoverExpiredCompletions(batch)
  BY DEF BatchStatement
<1>2. ASSUME NEW x \in Attempts
      PROVE  StandingKept(x)
  <2>1. CASE journal'[x] = journal[x]
    BY <2>1 DEF StandingKept, Standing, Pending, Committed
  <2>2. CASE journal'[x] # journal[x]
    <3>1. DeleteExpiredSessions(batch) /\ UploadOf[x] \in batch
      BY <1>1, <2>2 DEF DeleteExpiredSessions, RecoverExpiredCompletions
    <3>2. ToDelete(UploadOf[x]) /\ journal'[x] = NoJournal
      BY <1>0, <3>1 DEF DeleteExpiredSessions, Batches
    <3>3. ~Pending(x) /\ ~Committed(x) /\ journal'[x].status = "none"
      BY <1>0, <3>2 DEF ToDelete, NoPending, Commits, CommitMatchesSession, NoJournal
    <3> QED BY <3>3 DEF StandingKept, Standing, Pending, Committed
  <2> QED BY <2>1, <2>2
<1>3. ASSUME NEW u \in Uploads
      PROVE  \/ session'[u].status = session[u].status
             \/ session[u].status \in {"open", "completing", "failed"}
             \/ session[u].status = "cancelled" /\ session'[u].status = "deleted"
  <2>1. CASE session'[u] = session[u]
    BY <2>1
  <2>2. CASE u \in batch /\ DeleteExpiredSessions(batch)
    <3>1. session[u] \in Session /\ ToDelete(u) /\ session'[u] = DeletedSession(session[u])
      BY <1>0, <2>2 DEF DeleteExpiredSessions, Batches
    <3>2. session'[u].status = "deleted"
      BY <3>1 DEF DeletedSession, Session
    <3> QED BY <3>1, <3>2 DEF ToDelete
  <2>3. CASE u \in batch /\ RecoverExpiredCompletions(batch)
    BY <2>3 DEF RecoverExpiredCompletions, Batches, ToRecover
  <2> QED BY <1>1, <2>1, <2>2, <2>3 DEF DeleteExpiredSessions, RecoverExpiredCompletions
<1> QED BY <1>2, <1>3, MovesMap

LEMMA RowDeletedKeeps ==
  ASSUME SessionTypeOK, NEW t \in Attempts, RowDeleted(t)
  PROVE  /\ \A u \in Uploads : OutcomeKept(u)
         /\ UNCHANGED journal
<1>1. /\ UploadOf[t] \in Uploads /\ session \in [Uploads -> Session]
      /\ \A u \in Uploads : session[u] \in Session
  BY ConstantsOK DEF SessionTypeOK
<1>2. \A u \in Uploads : session'[u].status = session[u].status
  BY <1>1 DEF RowDeleted, DeleteRow, Session
<1> QED BY <1>2 DEF OutcomeKept, Outcome, RowDeleted

-----------------------------------------------------------------------------
(* Every step is a step of the ledger. *)

LEMMA HandlerMaps ==
  ASSUME Inv, NEW t \in Attempts, Complete(t)
  PROVE  LedgerStep
<1>0. /\ SessionTypeOK /\ handler \in [Attempts -> Handler] /\ Local(t)
      /\ handler[t] \in Handler
  BY DEF Inv, TypeOK
<1>1. CASE SaveFile(t) \/ SaveFileFails(t) \/ InsertFile(t)
  <2>1. UNCHANGED <<Tables, unanswered>> /\ Visible' \in {Visible, Visible \cup {t}}
    BY <1>1 DEF SaveFile, SaveFileFails, InsertFile, Visible, rows, KnownRows
  <2>2. Pending(t)
    BY <1>0, <1>1 DEF SaveFile, SaveFileFails, InsertFile, Local, ObjectUnjournalled,
       RowUnjournalled, RowNotJournalled, RowNotInserted, At
  <2> QED BY <2>1, <2>2, StoreMaps DEF Tables, OutcomeKept
<1>5. CASE InsertFileFails(t)
  <2>1. Pending(t) /\ t \notin KnownRows
    BY <1>0, <1>5 DEF InsertFileFails, Local, RowUnjournalled, NoRowYet, RowNotJournalled,
       RowNotInserted, At
  <2>2. UNCHANGED Tables /\ Visible' = Visible
    BY <1>5, <2>1 DEF InsertFileFails, Visible, rows, KnownRows
  <2>3. CASE unanswered' = unanswered \cup {t}
    BY <2>1, <2>2, <2>3, StrayMaps
  <2>4. CASE UNCHANGED unanswered
    BY <2>2, <2>4, StutterMaps DEF Tables, OutcomeKept, StandingKept, Standing, Pending,
       Committed, Seen
  <2> QED BY <1>5, <2>3, <2>4 DEF InsertFileFails, rows
<1>2. CASE UndoObject(t)
  <2>1. UNCHANGED <<Tables, unanswered>> /\ Visible' \subseteq Visible
        /\ Visible' \in {Visible, Visible \ {t}}
    BY <1>2 DEF UndoObject, DeleteObject, Visible, rows, KnownRows
  <2> QED BY <2>1, StoreMaps DEF Tables, OutcomeKept
<1>3. CASE UndoIndex(t)
  <2>1. RowDeleted(t) \/ UNCHANGED Tables
    BY <1>3 DEF UndoIndex, RowDeleted, Tables
  <2>2. UNCHANGED unanswered /\ Visible' \in {Visible, Visible \ {t}}
    BY <1>3 DEF UndoIndex, DeleteRow, Visible, rows, KnownRows
  <2>3. UNCHANGED journal /\ \A u \in Uploads : OutcomeKept(u)
    BY <1>0, <2>1, RowDeletedKeeps DEF Tables, OutcomeKept
  <2> QED BY <2>2, <2>3, StoreMaps
<1>4. CASE ~SaveFile(t) /\ ~SaveFileFails(t) /\ ~InsertFile(t) /\ ~UndoObject(t)
           /\ ~UndoIndex(t) /\ ~InsertFileFails(t)
  <2>1. UNCHANGED Seen
    BY <1>4 DEF Seen, Visible, store, rows, KnownRows, Complete, Proceed, Claim,
       HeartbeatRenews, HeartbeatLoses,
       Prepare, PrepareFails, SkipDuplicate, SkipDuplicateFails, Begin, BeginFails,
       RecordUncertain, MarkObject, MarkIndex, JournalFails, ClaimFails, Failing,
       Commit, CommitFails,
       UndoPersist, Fail, Cleanup
  <2>2. \/ PlainStatement(t) \/ Begin(t) \/ BeginFails(t)
        \/ RecordUncertain(t) \/ UndoPersist(t) \/ UNCHANGED Tables
    BY <1>4 DEF PlainStatement, Complete, Proceed, Claim, ClaimFails, HeartbeatRenews,
       HeartbeatLoses, Prepare, PrepareFails, SkipDuplicate, SkipDuplicateFails,
       MarkObject, MarkIndex, JournalFails, Failing, Commit, CommitFails, Fail, Cleanup
  <2>3. CASE UNCHANGED Tables
    BY <2>1, <2>3, StutterMaps DEF Tables, OutcomeKept, StandingKept, Standing, Pending,
       Committed
  <2>4. CASE Begin(t) \/ BeginFails(t)
    <3>1. journal[t].status = "none"
      BY <1>0, <2>4 DEF Begin, BeginFails, Local, Quiet, At
    <3> QED BY <2>1, <2>3, <2>4, <3>1, BeginMaps DEF Begin, BeginFails, Failing
  <2>5. CASE RecordUncertain(t)
    <3>1. "unknown" \in Evidence /\ "deleted" \in Evidence
      BY DEF Evidence
    <3> QED BY <2>1, <2>3, <2>5, <3>1, CompensationMaps DEF RecordUncertain, Settled
  <2>6. CASE UndoPersist(t)
    <3>1. handler[t].object \in Evidence /\ handler[t].index \in Evidence
      BY <1>0 DEF Handler
    <3>2. Settled(handler[t].object, handler[t].index) => t \notin Visible
      BY <1>0, <2>6 DEF UndoPersist, Settled, Local, HandlerEvidence, At, Visible
    <3> QED BY <2>1, <2>3, <2>6, <3>1, <3>2, CompensationMaps DEF UndoPersist
  <2> QED BY <2>1, <2>2, <2>3, <2>4, <2>5, <2>6, PlainStatementMaps
<1> QED BY <1>1, <1>2, <1>3, <1>4, <1>5

LEMMA SweepMaps ==
  ASSUME Inv, NEW s \in Sweeps, Maintain(s)
  PROVE  LedgerStep
<1>0. /\ SessionTypeOK /\ sweep[s] \in Sweep /\ ~sweep[s].isFinal
      /\ Working(s) => sweep[s].op \in Attempts
      /\ SweepEvidence(s)
  BY DEF Inv, TypeOK, Sweeping, SweepHasOp
<1>1. ASSUME UNCHANGED Tables, UNCHANGED store
      PROVE  LedgerStep
  BY <1>1, StutterMaps DEF Tables, store, rows, KnownRows, Visible, Seen, OutcomeKept,
     StandingKept, Standing,
     Pending, Committed
<1>2. ASSUME NEW t \in Attempts, UNCHANGED store,
             \/ ClaimReconciliation(s, t) \/ RequireOperator(s, t)
             \/ RenewReconciliation(s, t)
      PROVE  LedgerStep
  BY <1>0, <1>2, OperationKeptMaps DEF store, rows, KnownRows, Visible, Seen
<1>3. CASE (\E t \in Attempts : SweepClaims(s, t)) \/ SweepCannotClaim(s)
  BY <1>1, <1>2, <1>3 DEF SweepClaims, SweepCannotClaim, Failing
<1>4. CASE SweepSettlesAtOnce(s)
  BY <1>0, <1>1, <1>2, <1>4 DEF SweepSettlesAtOnce, ConfirmedCommit, SweepAt, Working
<1>5. CASE SweepStarts(s) \/ SweepConfirms(s)
  BY <1>0, <1>2, <1>5 DEF SweepStarts, SweepConfirms, SweepChecksLease, SweepAt,
     Working
<1>6. CASE SweepFindsNothing(s) \/ SweepHasNoTarget(s) \/ SweepLosesLease(s) \/ NextRun(s)
  BY <1>0, <1>1, <1>2, <1>6 DEF SweepFindsNothing, SweepHasNoTarget, SweepLosesLease,
     NextRun, Failing, SweepAt, Working
<1>11. CASE RunDeletes(s) \/ RunRecovers(s) \/ RunFails(s)
  <2>1. UNCHANGED store /\ (BatchStatement \/ UNCHANGED Tables)
    BY <1>11 DEF RunDeletes, RunRecovers, RunFails, Failing, BatchStatement
  <2> QED BY <1>1, <2>1, BatchMaps DEF store, rows, KnownRows, Visible, Seen
<1>7. CASE SweepDeletesObject(s)
  <2>1. PICK t \in Attempts : t = sweep[s].op
    BY <1>0, <1>7 DEF SweepDeletesObject, SweepAt, Working
  <2>2. UNCHANGED <<Tables, unanswered>> /\ Visible' \in {Visible, Visible \ {t}}
    BY <1>7, <2>1 DEF SweepDeletesObject, DeleteObject, Visible, rows, KnownRows
  <2> QED BY <2>2, StoreMaps DEF Tables, OutcomeKept
<1>8. CASE SweepDeletesRow(s)
  <2>1. PICK t \in Attempts : t = sweep[s].op
    BY <1>0, <1>8 DEF SweepDeletesRow, SweepAt, Working
  <2>2. RowDeleted(t) \/ UNCHANGED Tables
    BY <1>8, <2>1 DEF SweepDeletesRow, RowDeleted, Tables
  <2>3. UNCHANGED unanswered /\ Visible' \in {Visible, Visible \ {t}}
    BY <1>8, <2>1 DEF SweepDeletesRow, DeleteRow, Visible, rows, KnownRows
  <2>4. UNCHANGED journal /\ \A u \in Uploads : OutcomeKept(u)
    BY <1>0, <2>2, RowDeletedKeeps DEF Tables, OutcomeKept
  <2> QED BY <2>3, <2>4, StoreMaps
<1>9. CASE SweepPersists(s) /\ ~UNCHANGED Tables
  <2>1. PICK t \in Attempts : t = sweep[s].op
    BY <1>0, <1>9 DEF SweepPersists, SweepAt, Working
  <2>2. /\ ResolveReconciliation(s, t, sweep[s].object, sweep[s].index)
        /\ UNCHANGED Seen
    BY <1>9, <2>1 DEF SweepPersists, store, rows, KnownRows, Visible, Seen
  <2>3. sweep[s].object \in Evidence /\ sweep[s].index \in Evidence
    BY <1>0 DEF Sweep
  <2>4. Settled(sweep[s].object, sweep[s].index) => t \notin Visible
    BY <1>0, <2>1 DEF Settled, SweepEvidence, Visible
  <2> QED BY <2>2, <2>3, <2>4, ResolveMaps
<1>10. CASE SweepPersists(s) /\ UNCHANGED Tables
  BY <1>1, <1>10 DEF SweepPersists
<1> QED BY <1>3, <1>4, <1>5, <1>6, <1>7, <1>8, <1>9, <1>10, <1>11
        DEF Maintain

LEMMA NextMaps ==
  ASSUME Inv, [Next]_vars
  PROVE  LedgerStep
<1>1. ASSUME NEW u \in Uploads, Manage(u) \/ Expire(u) \/ LeaseLapse(u)
      PROVE  LedgerStep
  <2>1. UNCHANGED Seen
    BY <1>1 DEF Manage, Expire, LeaseLapse, Retry, CancelUpload, RemoveDir, store, rows,
       KnownRows, Visible, Seen
  <2>2. CASE UNCHANGED Tables
    BY <2>1, <2>2, StutterMaps DEF Tables, OutcomeKept, StandingKept, Standing, Pending,
       Committed
  <2> QED BY <1>1, <2>1, <2>2, ManageSteps, SessionStatementMaps
<1>2. ASSUME NEW t \in Attempts, JournalLapse(t)
      PROVE  LedgerStep
  <2>1. /\ UNCHANGED <<session, objects, KnownRows, unanswered>>
        /\ \A x \in Attempts : EvidenceKept(x)
    BY <1>2 DEF JournalLapse, ReconciliationLeaseLapses, Write, EvidenceKept, store,
       rows, KnownRows,
       Inv, TypeOK, SessionTypeOK, Journal
  <2> QED BY <2>1, StutterMaps DEF EvidenceKept, Visible, Seen, OutcomeKept, StandingKept,
          Standing, Pending, Committed
<1>3. CASE Crash \/ UNCHANGED vars
  <2>1. UNCHANGED <<session, journal, objects, KnownRows, unanswered>>
    BY <1>3 DEF Crash, vars, Tables, store, rows, KnownRows
  <2> QED BY <2>1, StutterMaps DEF Visible, Seen, OutcomeKept, StandingKept, Standing, Pending,
          Committed
<1> QED BY <1>1, <1>2, <1>3, HandlerMaps, SweepMaps DEF Next

LEMMA InitMaps == Init => Ledger!LedgerInit
<1> SUFFICES ASSUME Init PROVE Ledger!LedgerInit
  OBVIOUS
<1>1. \A u \in Uploads : Outcome(session[u]) = "undecided"
  BY DEF Init, OpenSession, Outcome
<1>2. \A t \in Attempts : Standing(t) = "none"
  BY DEF Init, NoJournal, Standing, Pending, Committed
<1> QED BY <1>1, <1>2 DEF Init, KnownRows, Ledger!LedgerInit

\* Completing an upload does what UploadLedger promises: whatever handlers,
\* sweeps, requests and crashes interleave, an upload is decided once, an object
\* or a row is seen only of an attempt that runs or was committed, and a row
\* strays only by an INSERT whose answer was lost while its attempt ran.
THEOREM CompletionImplementsLedger == Spec => ImplementsLedger
<1>1. Inv /\ [Next]_vars => [Ledger!LedgerNext]_(Ledger!ledger)
  BY NextMaps DEF LedgerStep
<1> QED BY <1>1, InitMaps, InvHolds, PTL DEF Spec, ImplementsLedger, Ledger!LedgerSpec
=============================================================================
