---------------------------- MODULE ChunkSessions ----------------------------
(***************************************************************************)
(* The two database tables behind the chunked upload protocol and the SQL  *)
(* statements (or transactions) that change them:                          *)
(*                                                                         *)
(*   session : chunk_upload_sessions         (chunkUploadSessions.ts)      *)
(*   journal : chunk_upload_reconciliations  (chunkUploadReconciliation.ts)*)
(*                                                                         *)
(* One POST /complete request is an ATTEMPT.  It draws one fresh           *)
(* completion token and, later, at most one journal operation, one stored  *)
(* object (its name ends in a fresh UUID) and one files row; all four are  *)
(* identified here by the attempt itself.                                  *)
(*                                                                         *)
(* Clocks are abstracted to what the statements ask of them: a session is  *)
(* expired or not, a lease is live or lapsed.                              *)
(***************************************************************************)
EXTENDS Naturals, FiniteSets

CONSTANTS
  Uploads,      \* upload ids
  Attempts,     \* POST /complete requests, one completion token each
  UploadOf,     \* the upload each attempt is about
  Sweeps,       \* maintenance runs, one reconciliation lease token each
  NoAttempt,    \* completion_token IS NULL
  NoSweep,      \* lease_token IS NULL
  NoFile,       \* completed_file_id IS NULL
  OtherFile     \* a files row written by somebody else (duplicate skip)

ASSUME ConstantsOK ==
  /\ UploadOf \in [Attempts -> Uploads]
  /\ NoAttempt \notin Attempts
  /\ NoSweep \notin Sweeps
  /\ NoFile \notin Attempts
  /\ OtherFile \notin Attempts
  /\ NoFile # OtherFile

VARIABLES session, journal

Evidence == {"unknown", "present", "deleted"}
Lease    == {"none", "live", "lapsed"}

\* "absent" and "deleted" both mean that the table has no row: an upload id is
\* a UUID and is never used again.
Session ==
  [status  : {"absent", "open", "completing", "completed", "cancelled",
              "failed", "deleted"},
   token   : Attempts \cup {NoAttempt},
   lease   : Lease,
   expired : BOOLEAN,
   file    : Attempts \cup {NoFile, OtherFile}]

Journal ==
  [status   : {"none", "pending", "resolved"},
   reason   : {"running", "committed", "compensated", "uncertain"},
   object   : Evidence,
   index    : Evidence,
   path     : BOOLEAN,      \* stored_path is recorded
   fileId   : BOOLEAN,      \* file_id is recorded
   operator : BOOLEAN,      \* resolution = 'operator_required'
   owner    : Sweeps \cup {NoSweep},
   lease    : Lease]

OpenSession ==
  [status |-> "open", token |-> NoAttempt, lease |-> "none",
   expired |-> FALSE, file |-> NoFile]

NoJournal ==
  [status |-> "none", reason |-> "running", object |-> "unknown",
   index |-> "unknown", path |-> FALSE, fileId |-> FALSE, operator |-> FALSE,
   owner |-> NoSweep, lease |-> "none"]

SessionTypeOK ==
  /\ session \in [Uploads -> Session]
  /\ journal \in [Attempts -> Journal]

-----------------------------------------------------------------------------
RowExists(u) == session[u].status \notin {"absent", "deleted"}

\* WHERE status = 'completing' AND completion_token = $token
Holds(t) ==
  /\ session[UploadOf[t]].status = "completing"
  /\ session[UploadOf[t]].token = t

Pending(t)   == journal[t].status = "pending"
NoPending(u) == \A t \in Attempts : UploadOf[t] = u => ~Pending(t)

(* Statements on chunk_upload_sessions. *)

\* complete: every chunk is recorded and received_bytes = total_size.
ClaimCompletion(t, complete) ==
  LET u == UploadOf[t] IN
  /\ session[u].status = "open"
  /\ session[u].token = NoAttempt
  /\ complete
  /\ session' = [session EXCEPT ![u].status = "completing",
                                ![u].token  = t,
                                ![u].lease  = "live"]
  /\ UNCHANGED journal

RenewCompletion(t) ==
  /\ Holds(t)
  /\ session' = [session EXCEPT ![UploadOf[t]].lease = "live"]
  /\ UNCHANGED journal

\* Slip: writes a status the table does not know.
LapsedSession(s) ==
  [s EXCEPT !.status = "lapsed", !.token = NoAttempt, !.lease = "none"]

FailedSession(s) ==
  [s EXCEPT !.status = "failed", !.token = NoAttempt, !.lease = "none"]

MarkCompletionFailed(t) ==
  /\ Holds(t)
  /\ session' = [session EXCEPT ![UploadOf[t]] = FailedSession(@)]
  /\ UNCHANGED journal

CompletedSession(s, f) ==
  [s EXCEPT !.status = "completed", !.file = f, !.lease = "none"]

\* Slip: completes whatever the row says by now.
MarkCompletedBlindly(t, f) ==
  /\ RowExists(UploadOf[t])
  /\ session' = [session EXCEPT ![UploadOf[t]] = CompletedSession(@, f)]
  /\ UNCHANGED journal

MarkCompleted(t, f) ==
  /\ Holds(t)
  /\ session' = [session EXCEPT ![UploadOf[t]] = CompletedSession(@, f)]
  /\ UNCHANGED journal

ReopenFailed(u) ==
  /\ session[u].status = "failed"
  /\ ~session[u].expired
  /\ NoPending(u)
  /\ session' = [session EXCEPT ![u].status = "open"]
  /\ UNCHANGED journal

\* Slip: a completed upload can be cancelled, too.
CancelAnything(u) ==
  /\ session[u].status \in {"open", "failed", "completed"}
  /\ session' = [session EXCEPT ![u].status = "cancelled",
                                ![u].token  = NoAttempt,
                                ![u].lease  = "none"]
  /\ UNCHANGED journal

Cancel(u) ==
  /\ session[u].status \in {"open", "failed"}
  /\ session' = [session EXCEPT ![u].status = "cancelled",
                                ![u].token  = NoAttempt,
                                ![u].lease  = "none"]
  /\ UNCHANGED journal

\* ORDER BY ... LIMIT 100: one statement takes the oldest, so some of them and,
\* unless there are none, at least one.
Batches(candidates) == {b \in SUBSET candidates : b = {} => candidates = {}}

ToDelete(u) ==
  /\ session[u].status \in {"open", "failed", "cancelled"}
  /\ session[u].expired
  /\ NoPending(u)

DeletedSession(s) ==
  [s EXCEPT !.status = "deleted", !.token = NoAttempt, !.lease = "none"]

\* The journal rows go with the session (ON DELETE CASCADE).
DeleteExpiredSessions(batch) ==
  /\ batch \in Batches({u \in Uploads : ToDelete(u)})
  /\ session' = [u \in Uploads |->
                   IF u \in batch THEN DeletedSession(session[u]) ELSE session[u]]
  /\ journal' = [t \in Attempts |->
                   IF UploadOf[t] \in batch THEN NoJournal ELSE journal[t]]

\* Slip: only sessions that may still be retried are recovered.
ToRecoverUnexpired(u) ==
  /\ session[u].status = "completing"
  /\ session[u].lease = "lapsed"
  /\ ~session[u].expired
  /\ NoPending(u)

ToRecover(u) ==
  /\ session[u].status = "completing"
  /\ session[u].lease = "lapsed"
  /\ NoPending(u)

RecoverExpiredCompletions(batch) ==
  /\ batch \in Batches({u \in Uploads : ToRecover(u)})
  /\ session' = [u \in Uploads |->
                   IF u \in batch THEN FailedSession(session[u]) ELSE session[u]]
  /\ UNCHANGED journal

-----------------------------------------------------------------------------
(* Statements on chunk_upload_reconciliations. *)

Write(t, rec) == journal' = [journal EXCEPT ![t] = rec]

\* The foreign key rejects an operation of a deleted session.
BeginReconciliation(t) ==
  /\ RowExists(UploadOf[t])
  /\ Write(t, [NoJournal EXCEPT !.status = "pending"])
  /\ UNCHANGED session

MarkObjectPresent(t) ==
  /\ Pending(t)
  /\ Write(t, [journal[t] EXCEPT !.object = "present", !.path = TRUE])
  /\ UNCHANGED session

MarkIndexPresent(t) ==
  /\ Pending(t)
  /\ Write(t, [journal[t] EXCEPT !.index = "present", !.fileId = TRUE])
  /\ UNCHANGED session

\* Slip: one deletion is taken for both.
EitherSettled(obj, idx) == obj = "deleted" \/ idx = "deleted"

Settled(obj, idx) == obj = "deleted" /\ idx = "deleted"

\* updateChunkReconciliationAfterCompensation, the handler's own evidence.
UpdateAfterCompensation(t, obj, idx) ==
  /\ Pending(t)
  /\ Write(t, [journal[t] EXCEPT
                 !.object = obj,
                 !.index  = idx,
                 !.status = IF Settled(obj, idx) THEN "resolved" ELSE "pending",
                 !.reason = IF Settled(obj, idx) THEN "compensated" ELSE "uncertain"])
  /\ UNCHANGED session

\* Slip: the session update that matched no row does not roll back.
CompleteWithoutSession(t) ==
  /\ Pending(t)
  /\ session' = IF Holds(t)
                THEN [session EXCEPT ![UploadOf[t]] = CompletedSession(@, t)]
                ELSE session
  /\ Write(t, [journal[t] EXCEPT !.status = "resolved", !.reason = "committed"])

\* Slip: the operation is left for the maintenance to resolve.
CompleteSessionOnly(t) ==
  /\ Holds(t)
  /\ Pending(t)
  /\ session' = [session EXCEPT ![UploadOf[t]] = CompletedSession(@, t)]
  /\ UNCHANGED journal

\* One transaction: the session commits and its journal operation resolves.
CompleteWithReconciliation(t) ==
  /\ Holds(t)
  /\ Pending(t)
  /\ session' = [session EXCEPT ![UploadOf[t]] = CompletedSession(@, t)]
  /\ Write(t, [journal[t] EXCEPT !.status = "resolved", !.reason = "committed"])

Claimable(t) ==
  /\ Pending(t)
  /\ ~journal[t].operator
  /\ journal[t].lease # "live"

ClaimReconciliation(s, t) ==
  /\ Claimable(t)
  /\ Write(t, [journal[t] EXCEPT !.owner = s, !.lease = "live"])
  /\ UNCHANGED session

OwnsReconciliation(s, t) == Pending(t) /\ journal[t].owner = s

\* ownsChunkReconciliationLease: asks, and renews the lease by asking.
RenewReconciliation(s, t) ==
  /\ OwnsReconciliation(s, t)
  /\ Write(t, [journal[t] EXCEPT !.lease = "live"])
  /\ UNCHANGED session

Released(rec) == [rec EXCEPT !.owner = NoSweep, !.lease = "none"]

RequireOperator(s, t) ==
  /\ OwnsReconciliation(s, t)
  /\ Write(t, [Released(journal[t]) EXCEPT !.operator = TRUE])
  /\ UNCHANGED session

ConfirmCommitted(s, t) ==
  /\ OwnsReconciliation(s, t)
  /\ Write(t, [Released(journal[t]) EXCEPT !.status = "resolved",
                                          !.reason = "committed"])
  /\ UNCHANGED session

ResolveReconciliation(s, t, obj, idx) ==
  /\ OwnsReconciliation(s, t)
  /\ Write(t, [Released(journal[t]) EXCEPT
                 !.object = obj,
                 !.index  = idx,
                 !.status = IF Settled(obj, idx) THEN "resolved" ELSE "pending",
                 !.reason = IF Settled(obj, idx) THEN "compensated" ELSE "uncertain"])
  /\ UNCHANGED session

-----------------------------------------------------------------------------
(* Time. *)

SessionExpires(u) ==
  /\ RowExists(u)
  /\ ~session[u].expired
  /\ session' = [session EXCEPT ![u].expired = TRUE]
  /\ UNCHANGED journal

CompletionLeaseLapses(u) ==
  /\ session[u].status = "completing"
  /\ session[u].lease = "live"
  /\ session' = [session EXCEPT ![u].lease = "lapsed"]
  /\ UNCHANGED journal

ReconciliationLeaseLapses(t) ==
  /\ Pending(t)
  /\ journal[t].lease = "live"
  /\ Write(t, [journal[t] EXCEPT !.lease = "lapsed"])
  /\ UNCHANGED session
=============================================================================
