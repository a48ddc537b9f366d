--------------------------- MODULE YtDlpExecution ---------------------------
(***************************************************************************)
(* The two tables behind the yt-dlp tasks and the SQL statements that      *)
(* change them (ytDlpExecution.ts, and transferTasks.ts at startup):       *)
(*                                                                         *)
(*   row     : transfer_tasks, source_type = 'ytdlp'                       *)
(*   journal : ytdlp_write_reconciliations                                 *)
(*                                                                         *)
(* Every claim of a task begins a new EXECUTION, numbered by               *)
(* execution_generation.  The lease token of a claim is fresh, so it is    *)
(* named by that number, 0 standing for NULL.  An execution writes at most *)
(* one object, so its journal operation and its files row are named by the *)
(* task and the number, too.                                               *)
(*                                                                         *)
(* lease_expires_at is set and cleared together with lease_token, and the  *)
(* only statement that asks for it (the claim) does so in statuses that    *)
(* have cleared it (LeaseWhileRunning): no clock is needed.                *)
(***************************************************************************)
EXTENDS Naturals

CONSTANTS
  Tasks,           \* yt-dlp tasks, whether submitted already or not
  MaxGeneration    \* bound: executions of one task

ASSUME MaxGenerationOK == MaxGeneration \in Nat

VARIABLES row, journal

tables == <<row, journal>>

Executions == 1..MaxGeneration
NoToken    == 0

\* 'paused' is the status of other task types only.  No statement that is
\* called writes 'interrupted'; those that ask for it are modelled without it.
Row ==
  [status          : {"absent", "pending", "running", "completed", "failed",
                      "cancelled", "retry_required"},
   retryable       : BOOLEAN,
   cancelRequested : BOOLEAN,
   generation      : Executions \cup {0},
   token           : Executions \cup {NoToken}]

Evidence == {"unknown", "present", "deleted"}

Journal ==
  [status     : {"none", "pending", "resolved"},
   object     : Evidence,
   index      : Evidence,
   resolution : {"none", "committed", "compensated", "operator_required"}]

AbsentRow ==
  [status |-> "absent", retryable |-> FALSE, cancelRequested |-> FALSE,
   generation |-> 0, token |-> NoToken]

NoJournal ==
  [status |-> "none", object |-> "unknown", index |-> "unknown",
   resolution |-> "none"]

TablesTypeOK ==
  /\ row \in [Tasks -> Row]
  /\ journal \in [Tasks -> [Executions -> Journal]]

TablesInit ==
  /\ row = [t \in Tasks |-> AbsentRow]
  /\ journal = [t \in Tasks |-> [g \in Executions |-> NoJournal]]

-----------------------------------------------------------------------------
Status(t)     == row[t].status
Pending(t, g) == journal[t][g].status = "pending"

HasPending(t) == \E g \in Executions : Pending(t, g)

\* WHERE status = 'running' AND execution_generation = $3
\*   AND lease_token = $4 AND cancel_requested = false
Owns(t, g) ==
  /\ Status(t) = "running"
  /\ row[t].generation = g
  /\ row[t].token = g
  /\ ~row[t].cancelRequested

(* Statements on transfer_tasks. *)

CreateTask(t) ==
  /\ Status(t) = "absent"
  /\ row' = [row EXCEPT ![t].status = "pending"]
  /\ UNCHANGED journal

Claimable(t) ==
  /\ Status(t) \in {"pending", "failed", "retry_required"}
  /\ row[t].token = NoToken
  /\ ~HasPending(t)

Claim(t) ==
  /\ Claimable(t)
  /\ row' = [row EXCEPT ![t] =
               [status |-> "running", retryable |-> FALSE,
                cancelRequested |-> FALSE,
                generation |-> row[t].generation + 1,
                token |-> row[t].generation + 1]]
  /\ UNCHANGED journal

\* Slip: a completed task can be cancelled, too.
CancelAnything(t) ==
  /\ Status(t) # "absent"
  /\ row' = [row EXCEPT ![t].status = "cancelled",
                        ![t].retryable = TRUE,
                        ![t].cancelRequested = TRUE,
                        ![t].token = NoToken]
  /\ UNCHANGED journal

\* Slip: the lease of a cancelled task is left to lapse.
CancelKeepsLease(t) ==
  /\ Status(t) \in {"pending", "running", "failed", "retry_required"}
  /\ row' = [row EXCEPT ![t].status = "cancelled",
                        ![t].retryable = TRUE,
                        ![t].cancelRequested = TRUE]
  /\ UNCHANGED journal

CancelTask(t) ==
  /\ Status(t) \in {"pending", "running", "failed", "retry_required"}
  /\ row' = [row EXCEPT ![t].status = "cancelled",
                        ![t].retryable = TRUE,
                        ![t].cancelRequested = TRUE,
                        ![t].token = NoToken]
  /\ UNCHANGED journal

\* Slip: a write that is still unresolved does not refuse the retry.
RetryWhilePending(t) ==
  /\ Status(t) \in {"failed", "retry_required", "cancelled"}
  /\ row[t].retryable
  /\ row' = [row EXCEPT ![t].status = "pending",
                        ![t].retryable = FALSE,
                        ![t].cancelRequested = FALSE,
                        ![t].token = NoToken]
  /\ UNCHANGED journal

RetryTask(t) ==
  /\ Status(t) \in {"failed", "retry_required", "cancelled"}
  /\ row[t].retryable
  /\ ~HasPending(t)
  /\ row' = [row EXCEPT ![t].status = "pending",
                        ![t].retryable = FALSE,
                        ![t].cancelRequested = FALSE,
                        ![t].token = NoToken]
  /\ UNCHANGED journal

SettleFailed(t, g, retryable) ==
  /\ Owns(t, g)
  /\ row' = [row EXCEPT ![t].status = "failed",
                        ![t].retryable = retryable,
                        ![t].token = NoToken]
  /\ UNCHANGED journal

CompletedRow(r) ==
  [r EXCEPT !.status = "completed", !.retryable = FALSE, !.token = NoToken]

Committed(j) == [j EXCEPT !.status = "resolved", !.resolution = "committed"]

BothPresent(t, g) ==
  /\ Pending(t, g)
  /\ journal[t][g].object = "present"
  /\ journal[t][g].index = "present"

\* One statement settles the task and resolves the operation; a duplicate that
\* was skipped has no operation.
CanComplete(t, g, wrote) == Owns(t, g) /\ (wrote => BothPresent(t, g))

SettleCompleted(t, g, wrote) ==
  /\ CanComplete(t, g, wrote)
  /\ row' = [row EXCEPT ![t] = CompletedRow(@)]
  /\ journal' = IF wrote THEN [journal EXCEPT ![t][g] = Committed(@)]
                ELSE journal

(* Statements on ytdlp_write_reconciliations. *)

\* The partial unique index allows one pending operation for a task.
CanBegin(t, g) == Owns(t, g) /\ ~HasPending(t)

BeginWrite(t, g) ==
  /\ CanBegin(t, g)
  /\ journal' = [journal EXCEPT ![t][g] = [NoJournal EXCEPT !.status = "pending"]]
  /\ UNCHANGED row

MarkObjectPresent(t, g) ==
  /\ Pending(t, g)
  /\ journal' = [journal EXCEPT ![t][g].object = "present"]
  /\ UNCHANGED row

MarkIndexPresent(t, g) ==
  /\ Pending(t, g)
  /\ journal' = [journal EXCEPT ![t][g].index = "present"]
  /\ UNCHANGED row

\* Slip: one of the two deletions is enough to resolve the operation.
CompensatedByEither(j, objectDeleted, indexDeleted) ==
  [j EXCEPT !.status = IF objectDeleted \/ indexDeleted THEN "resolved" ELSE "pending",
            !.resolution = "compensated"]

Compensated(j, objectDeleted, indexDeleted) ==
  [j EXCEPT
     !.object = IF objectDeleted THEN "deleted" ELSE @,
     !.index  = IF indexDeleted THEN "deleted" ELSE @,
     !.status = IF objectDeleted /\ indexDeleted THEN "resolved" ELSE "pending",
     !.resolution = IF objectDeleted /\ indexDeleted THEN "compensated"
                    ELSE "operator_required"]

UpdateCompensation(t, g, objectDeleted, indexDeleted) ==
  /\ journal' = IF Pending(t, g)
                THEN [journal EXCEPT ![t][g] =
                        Compensated(@, objectDeleted, indexDeleted)]
                ELSE journal
  /\ UNCHANGED row

(* Startup: first the operations whose two sides are recorded, then the    *)
(* tasks that were running.                                                *)

\* files: the executions <<t, g>> whose files row exists.
Recovered(t, g, files) ==
  /\ BothPresent(t, g)
  /\ <<t, g>> \in files
  /\ row[t].generation = g
  /\ Status(t) \in {"running", "retry_required"}

ReconcileCommitted(files) ==
  /\ row' = [t \in Tasks |->
               IF \E g \in Executions : Recovered(t, g, files)
               THEN [CompletedRow(row[t]) EXCEPT !.cancelRequested = FALSE]
               ELSE row[t]]
  /\ journal' = [t \in Tasks |-> [g \in Executions |->
                   IF Recovered(t, g, files) THEN Committed(journal[t][g])
                   ELSE journal[t][g]]]

\* Slip: treats the tasks as those of the bot are treated.
MarkInterruptedAll ==
  /\ row' = [t \in Tasks |->
               IF Status(t) # "running" THEN row[t]
               ELSE [row[t] EXCEPT !.status = "interrupted", !.retryable = TRUE,
                                   !.token = NoToken]]
  /\ UNCHANGED journal

MarkAfterRestart ==
  /\ row' = [t \in Tasks |->
               IF Status(t) # "running" THEN row[t]
               ELSE [row[t] EXCEPT
                       !.status = IF HasPending(t) THEN "retry_required"
                                  ELSE "pending",
                       !.retryable = ~HasPending(t),
                       !.cancelRequested = FALSE,
                       !.token = NoToken]]
  /\ UNCHANGED journal
=============================================================================
