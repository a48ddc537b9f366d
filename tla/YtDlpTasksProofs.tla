-------------------------- MODULE YtDlpTasksProofs --------------------------
(***************************************************************************)
(* Proofs about YtDlpTasks: for any tasks, places and bounds, nothing that *)
(* an execution saved is forgotten, a task is completed by one execution   *)
(* only and keeps its file, a pending task can be claimed, no task has two *)
(* workers, and while the database answers none is left behind.            *)
(*                                                                         *)
(* The invariant has two sides.  TaskInv speaks of the tables and of what  *)
(* is stored; WorkerInv(s) says, for each await a worker may stand at,     *)
(* what its local variables know of its own execution.  No two workers     *)
(* have the same execution, so a step of one leaves what the others know   *)
(* alone (lemma Elsewhere).                                                *)
(*                                                                         *)
(* On it rests a second one, ServiceInv, about the memory of the process:  *)
(* the queue and the places hold a task once (QueueInv), the controller of *)
(* a task is that of the worker which has it (ControllersInv), and, until  *)
(* a statement fails, every row and every answer under way has its place   *)
(* in the queue (UnharmedInv).                                             *)
(***************************************************************************)
EXTENDS YtDlpTasks, TLAPS, FiniteSetTheorems, SequenceTheorems

USE DEF NoToken, tables, queue, store, memory, budget

-----------------------------------------------------------------------------
(* The invariant *)

\* At most one operation of a task is open.
OnePending ==
  \A t \in Tasks : \A g, h \in Executions : Pending(t, g) /\ Pending(t, h) => g = h

\* Nothing is known of an execution that has not begun.
FutureClean ==
  \A t \in Tasks : \A g \in Executions :
    g > row[t].generation => /\ ~Pending(t, g)
                             /\ journal[t][g].resolution # "committed"
                             /\ objects[<<t, g>>] # "stored"
                             /\ <<t, g>> \notin files

\* The open operation of a running task is that of its last execution.
OpenIsLast ==
  \A t \in Tasks : \A g \in Executions :
    Status(t) = "running" /\ Pending(t, g) => g = row[t].generation

CommittedIsResolved ==
  \A t \in Tasks : \A g \in Executions :
    journal[t][g].resolution = "committed" => ~Pending(t, g)

AbsentIsNew == \A t \in Tasks : Status(t) = "absent" => row[t].generation = 0

TaskInv ==
  /\ LeaseWhileRunning
  /\ SideEffectsAccounted
  /\ CommitMatchesTask
  /\ PendingIsClaimable
  /\ OnePending
  /\ FutureClean
  /\ OpenIsLast
  /\ CommittedIsResolved
  /\ AbsentIsNew

\* The execution has written nothing: it is before beginWrite, or skipped.
Unwritten(w) ==
  /\ ~Pending(w.task, w.execution)
  /\ objects[<<w.task, w.execution>>] # "stored"
  /\ <<w.task, w.execution>> \notin files

BeforeWrite(w) ==
  \/ w.pc \in {"register", "download", "advance", "prepare", "begin"}
  \/ w.pc = "settle" /\ ~w.wrote

\* Between beginWrite and the end of its operation.
Writing(w) ==
  \/ w.pc \in (Uploading \ {"begin"}) \cup Undoing
  \/ w.pc = "settle" /\ w.wrote

WritingInv(w) ==
  LET e == <<w.task, w.execution>>
  IN /\ w.wrote
     /\ Pending(w.task, w.execution)
     /\ ~w.finalPath => objects[e] # "stored"
     /\ ~w.fileId => e \notin files
     /\ w.pc \in {"renew", "save"} => ~w.finalPath
     /\ w.pc \in Uploading => ~w.fileId
     /\ w.pc = "settle" => e \in files
     /\ w.pc \in {"undoIndex", "undoRecord"} /\ w.objectDeleted => objects[e] # "stored"
     /\ w.pc = "undoRecord" /\ w.indexDeleted => e \notin files

WorkerInv(s) ==
  /\ ~At(s, "idle") => TaskOf(s) \in Tasks
  /\ At(s, "claim") => ~worker[s].wrote /\ ~worker[s].finalPath /\ ~worker[s].fileId
  /\ worker[s].pc \in Settling =>
       worker[s].execution \in 1..row[TaskOf(s)].generation
  /\ BeforeWrite(worker[s]) => ~worker[s].wrote /\ ~worker[s].finalPath
                               /\ ~worker[s].fileId /\ Unwritten(worker[s])
  /\ Writing(worker[s]) => WritingInv(worker[s])

OwnExecution ==
  \A r, s \in Places :
    r # s /\ worker[r].pc \in Settling /\ worker[s].pc \in Settling =>
      Execution(r) # Execution(s)

\* Nothing runs while the tables are reconciled.
DownIsEmpty ==
  phase \in {"down", "reconciled"} =>
    /\ \A s \in Places : At(s, "idle")
    /\ calls = {}

IInv ==
  /\ TypeOK
  /\ TaskInv
  /\ \A s \in Places : WorkerInv(s)
  /\ OwnExecution
  /\ DownIsEmpty

-----------------------------------------------------------------------------
(* Three kinds of steps on the tables *)

\* The row of u moves on; the journal and what is stored stay.
RowMove(u) ==
  \/ row'[u] = row[u]
  \/ /\ Status(u) # "completed"
     /\ row'[u].status # "absent"
     /\ row'[u].generation >= row[u].generation
     /\ (row'[u].token # NoToken) <=> (row'[u].status = "running")
     /\ row'[u].status = "running" =>
          row'[u].token = row'[u].generation /\ ~HasPending(u)
     /\ row'[u].status \in {"pending", "completed"} => ~HasPending(u)

LEMMA RowsMove ==
  ASSUME TablesTypeOK, TablesTypeOK', TaskInv, UNCHANGED <<journal, store>>,
         \A u \in Tasks : RowMove(u)
  PROVE  TaskInv'
<1>1. \A u \in Tasks : row[u] \in Row /\ row'[u] \in Row
  BY DEF TablesTypeOK
<1>2. \A u \in Tasks : row'[u].generation \in Nat /\ row[u].generation \in Nat
  BY <1>1, MaxGenerationOK DEF Row, Executions
<1>3. LeaseWhileRunning'
  BY DEF TaskInv, LeaseWhileRunning, RowMove, Status
<1>4. SideEffectsAccounted'
  BY DEF TaskInv, SideEffectsAccounted, Pending
<1>5. CommitMatchesTask'
  BY DEF TaskInv, CommitMatchesTask, RowMove, Status, HasPending, Pending
<1>6. PendingIsClaimable'
  BY DEF TaskInv, PendingIsClaimable, RowMove, Status, HasPending, Pending
<1>7. OnePending' /\ CommittedIsResolved'
  BY DEF TaskInv, OnePending, CommittedIsResolved, Pending
<1>8. FutureClean'
  <2> SUFFICES ASSUME NEW t \in Tasks, NEW g \in Executions, g > row'[t].generation
               PROVE  g > row[t].generation
    BY DEF TaskInv, FutureClean, Pending
  <2> QED BY <1>2 DEF RowMove, Executions
<1>9. OpenIsLast'
  BY DEF TaskInv, OpenIsLast, RowMove, Status, HasPending, Pending
<1>10. AbsentIsNew'
  BY DEF TaskInv, AbsentIsNew, RowMove, Status
<1> QED BY <1>3, <1>4, <1>5, <1>6, <1>7, <1>8, <1>9, <1>10 DEF TaskInv

\* Only the operation, the object and the files row of one execution change.
OnlyAt(t, g) ==
  /\ \A u \in Tasks : \A h \in Executions : <<u, h>> # <<t, g>> =>
       /\ journal'[u][h] = journal[u][h]
       /\ objects'[<<u, h>>] = objects[<<u, h>>]
       /\ <<u, h>> \in files' <=> <<u, h>> \in files

LEMMA OperationMoves ==
  ASSUME TablesTypeOK, TablesTypeOK', TaskInv, row' = row,
         NEW t \in Tasks, NEW g \in Executions, OnlyAt(t, g),
         g <= row[t].generation,
         Pending(t, g)' => \/ Pending(t, g)
                           \/ /\ Status(t) = "running"
                              /\ row[t].generation = g
                              /\ ~HasPending(t),
         journal[t][g].resolution # "committed",
         journal'[t][g].resolution # "committed",
         objects'[<<t, g>>] = "stored" \/ <<t, g>> \in files' => Pending(t, g)'
  PROVE  TaskInv'
<1>1. \A u \in Tasks : row[u].generation \in Nat
  BY MaxGenerationOK DEF Row, Executions, TablesTypeOK
<1>2. \A u \in Tasks : \A h \in Executions :
        /\ <<u, h>> # <<t, g>> => (Pending(u, h)' <=> Pending(u, h))
        /\ journal'[u][h].resolution = "committed" <=> journal[u][h].resolution = "committed"
        /\ journal[u][h].resolution = "committed" => <<u, h>> # <<t, g>>
  BY DEF OnlyAt, Pending
<1>3. LeaseWhileRunning' /\ AbsentIsNew'
  BY DEF TaskInv, LeaseWhileRunning, AbsentIsNew, Status
<1>4. SideEffectsAccounted'
  BY <1>2 DEF TaskInv, SideEffectsAccounted, OnlyAt
<1>5. CommitMatchesTask'
  BY <1>2 DEF TaskInv, CommitMatchesTask, OnlyAt, Status, HasPending
<1>6. PendingIsClaimable'
  BY <1>2 DEF TaskInv, PendingIsClaimable, Status, HasPending
<1>7. OnePending'
  BY <1>2 DEF TaskInv, OnePending, HasPending
<1>8. CommittedIsResolved'
  BY <1>2 DEF TaskInv, CommittedIsResolved
<1>9. FutureClean'
  BY <1>1, <1>2 DEF TaskInv, FutureClean, OnlyAt, Executions
<1>10. OpenIsLast'
  BY <1>2 DEF TaskInv, OpenIsLast, Status, HasPending
<1> QED BY <1>3, <1>4, <1>5, <1>6, <1>7, <1>8, <1>9, <1>10 DEF TaskInv

\* The last execution of u commits: its operation and the task together.
Commits(u) ==
  LET g == row[u].generation
  IN /\ Status(u) \in {"running", "retry_required"}
     /\ g \in Executions
     /\ Pending(u, g)
     /\ <<u, g>> \in files
     /\ row'[u].status = "completed"
     /\ row'[u].generation = g
     /\ row'[u].token = NoToken
     /\ journal'[u][g].status = "resolved"
     /\ journal'[u][g].resolution = "committed"
     /\ \A h \in Executions \ {g} : journal'[u][h] = journal[u][h]

LEMMA TasksCommit ==
  ASSUME TablesTypeOK, TablesTypeOK', TaskInv, UNCHANGED store,
         \A u \in Tasks : \/ row'[u] = row[u] /\ journal'[u] = journal[u]
                          \/ Commits(u)
  PROVE  TaskInv'
<1>1. \A u \in Tasks : row[u].generation \in Nat
  BY MaxGenerationOK DEF Row, Executions, TablesTypeOK
<1>2. ASSUME NEW u \in Tasks, Commits(u)
      PROVE  /\ ~HasPending(u)'
             /\ \A h \in Executions :
                  journal'[u][h].resolution = "committed" <=> h = row[u].generation
  <2>1. \A h \in Executions : Pending(u, h) => h = row[u].generation
    BY <1>2 DEF Commits, TaskInv, OnePending
  <2>2. \A h \in Executions : journal[u][h].resolution # "committed"
    <3>1. Status(u) # "completed"
      BY <1>2 DEF Commits
    <3>2. CommitMatchesTask!(u)
      BY DEF TaskInv, CommitMatchesTask
    <3> QED BY <3>1, <3>2
  <2>3. ASSUME NEW h \in Executions
        PROVE  /\ ~Pending(u, h)'
               /\ journal'[u][h].resolution = "committed" <=> h = row[u].generation
    <3>1. CASE h = row[u].generation
      BY <1>2, <3>1 DEF Commits, Pending
    <3>2. CASE h # row[u].generation
      <4>1. journal'[u][h] = journal[u][h]
        BY <1>2, <3>2 DEF Commits
      <4> QED BY <2>1, <2>2, <3>2, <4>1 DEF Pending
    <3> QED BY <3>1, <3>2
  <2> QED BY <2>3 DEF HasPending
<1>3. LeaseWhileRunning' /\ AbsentIsNew'
  <2> SUFFICES ASSUME NEW u \in Tasks
               PROVE  LeaseWhileRunning!(u)' /\ AbsentIsNew!(u)'
    BY DEF LeaseWhileRunning, AbsentIsNew
  <2> CASE row'[u] = row[u]
    BY DEF TaskInv, LeaseWhileRunning, AbsentIsNew, Status
  <2> CASE Commits(u)
    BY DEF LeaseWhileRunning, AbsentIsNew, Status, Commits
  <2> QED OBVIOUS
<1> SUFFICES ASSUME NEW t \in Tasks
             PROVE  /\ SideEffectsAccounted!(t)'
                    /\ CommitMatchesTask!(t)'
                    /\ PendingIsClaimable!(t)'
                    /\ OnePending!(t)'
                    /\ CommittedIsResolved!(t)'
                    /\ FutureClean!(t)'
                    /\ OpenIsLast!(t)'
  BY <1>3 DEF TaskInv, SideEffectsAccounted, CommitMatchesTask, PendingIsClaimable,
     OnePending, CommittedIsResolved, FutureClean, OpenIsLast
<1>4. CASE row'[t] = row[t] /\ journal'[t] = journal[t]
  BY <1>4 DEF TaskInv, SideEffectsAccounted, CommitMatchesTask, PendingIsClaimable,
     OnePending, CommittedIsResolved, FutureClean, OpenIsLast, Status, Pending, HasPending
<1>5. CASE Commits(t)
  <2>1. \A g \in Executions : ~Pending(t, g)'
    BY <1>2, <1>5 DEF HasPending
  <2>2. SideEffectsAccounted!(t)'
    BY <1>2, <1>5 DEF TaskInv, SideEffectsAccounted, Pending, Commits
  <2>3. CommitMatchesTask!(t)'
    BY <1>2, <1>5, <2>1 DEF CommitMatchesTask, Status, HasPending, Commits
  <2>4. FutureClean!(t)'
    <3> SUFFICES ASSUME NEW g \in Executions, g > row[t].generation
                 PROVE  /\ journal'[t][g].resolution # "committed"
                        /\ objects[<<t, g>>] # "stored"
                        /\ <<t, g>> \notin files
      BY <1>5, <2>1 DEF FutureClean, Commits
    <3>1. g # row[t].generation
      BY <1>1 DEF Executions
    <3> QED BY <1>2, <1>5, <3>1 DEF TaskInv, FutureClean
  <2> QED BY <2>1, <2>2, <2>3, <2>4, <1>5
          DEF PendingIsClaimable, OnePending, CommittedIsResolved, OpenIsLast, HasPending
<1> QED BY <1>4, <1>5

-----------------------------------------------------------------------------
(* The statements make such steps. *)

RowsMoved ==
  /\ TablesTypeOK'
  /\ journal' = journal
  /\ \A u \in Tasks : RowMove(u)

LEMMA RowsMovedGrow ==
  ASSUME TablesTypeOK, RowsMoved
  PROVE  \A u \in Tasks : row'[u].generation >= row[u].generation
<1>1. \A u \in Tasks : row[u].generation \in Nat
  BY MaxGenerationOK DEF Row, Executions, TablesTypeOK
<1> QED BY <1>1 DEF RowsMoved, RowMove

\* How the row of one task is replaced.
LEMMA RowReplaced ==
  ASSUME TablesTypeOK, NEW t \in Tasks, NEW r \in Row,
         row' = [row EXCEPT ![t] = r], journal' = journal
  PROVE  /\ TablesTypeOK'
         /\ row'[t] = r
         /\ \A u \in Tasks \ {t} : row'[u] = row[u]
BY DEF TablesTypeOK

LEMMA CreateMoves ==
  ASSUME TablesTypeOK, TaskInv, NEW t \in Tasks, CreateTask(t)
  PROVE  RowsMoved
<1> DEFINE r == [row[t] EXCEPT !.status = "pending"]
<1>1. row[t] \in Row
  BY DEF TablesTypeOK
<1>2. r \in Row
  BY <1>1 DEF Row
<1>3. row' = [row EXCEPT ![t] = r] /\ journal' = journal
  BY DEF CreateTask
<1> HIDE DEF r
<1>4. /\ TablesTypeOK'
      /\ row'[t] = r
      /\ \A u \in Tasks \ {t} : row'[u] = row[u]
  BY <1>2, <1>3, RowReplaced
<1>5. r.status = "pending" /\ r.generation = row[t].generation /\ r.token = row[t].token
  BY <1>1 DEF r, Row
<1>6. Status(t) = "absent" /\ row[t].generation = 0 /\ row[t].token = NoToken
  BY DEF CreateTask, TaskInv, AbsentIsNew, LeaseWhileRunning
<1>7. ~HasPending(t)
  <2>1. \A g \in Executions : g > row[t].generation
    BY <1>6, MaxGenerationOK DEF Executions
  <2>2. FutureClean!(t)
    BY DEF TaskInv, FutureClean
  <2> QED BY <2>1, <2>2 DEF HasPending
<1>8. RowMove(t)
  BY <1>4, <1>5, <1>6, <1>7 DEF RowMove
<1> QED BY <1>3, <1>4, <1>8 DEF RowsMoved, RowMove

LEMMA ClaimMoves ==
  ASSUME TablesTypeOK, TaskInv, NEW t \in Tasks, Claim(t),
         row[t].generation < MaxGeneration
  PROVE  /\ RowsMoved
         /\ row'[t].generation = row[t].generation + 1
         /\ row'[t].generation \in Executions
<1> DEFINE g == row[t].generation + 1
           r == [status |-> "running", retryable |-> FALSE,
                 cancelRequested |-> FALSE, generation |-> g, token |-> g]
<1>1. row[t] \in Row
  BY DEF TablesTypeOK
<1>2. row[t].generation \in Nat /\ g \in Executions
  BY <1>1, MaxGenerationOK DEF Row, Executions
<1>3. r \in Row
  BY <1>2 DEF Row
<1>4. row' = [row EXCEPT ![t] = r] /\ journal' = journal
  BY DEF Claim
<1>5. /\ r.status = "running" /\ r.generation = g /\ r.token = g
  OBVIOUS
<1>6. g >= row[t].generation /\ g # NoToken
  BY <1>2 DEF Executions
<1> HIDE DEF r, g
<1>7. /\ TablesTypeOK'
      /\ row'[t] = r
      /\ \A u \in Tasks \ {t} : row'[u] = row[u]
  BY <1>3, <1>4, RowReplaced
<1>8. Status(t) # "completed" /\ ~HasPending(t)
  BY DEF Claim, Claimable
<1>9. RowMove(t)
  BY <1>5, <1>6, <1>7, <1>8 DEF RowMove
<1> QED BY <1>2, <1>4, <1>5, <1>7, <1>9 DEF RowsMoved, RowMove, g

LEMMA CancelMoves ==
  ASSUME TablesTypeOK, NEW t \in Tasks, CancelTask(t)
  PROVE  RowsMoved
<1> DEFINE r == [row[t] EXCEPT !.status = "cancelled", !.retryable = TRUE,
                               !.cancelRequested = TRUE, !.token = NoToken]
<1>1. row[t] \in Row
  BY DEF TablesTypeOK
<1>2. r \in Row /\ r.status = "cancelled" /\ r.generation = row[t].generation
      /\ r.token = NoToken
  BY <1>1 DEF Row
<1>3. row' = [row EXCEPT ![t] = r] /\ journal' = journal
  BY DEF CancelTask
<1> HIDE DEF r
<1>4. /\ TablesTypeOK'
      /\ row'[t] = r
      /\ \A u \in Tasks \ {t} : row'[u] = row[u]
  BY <1>2, <1>3, RowReplaced
<1>5. Status(t) # "completed" /\ row[t].generation \in Nat
  BY <1>1, MaxGenerationOK DEF CancelTask, Row, Executions
<1>6. RowMove(t)
  BY <1>2, <1>4, <1>5 DEF RowMove
<1> QED BY <1>3, <1>4, <1>6 DEF RowsMoved, RowMove

LEMMA RetryMoves ==
  ASSUME TablesTypeOK, NEW t \in Tasks, RetryTask(t)
  PROVE  RowsMoved
<1> DEFINE r == [row[t] EXCEPT !.status = "pending", !.retryable = FALSE,
                               !.cancelRequested = FALSE, !.token = NoToken]
<1>1. row[t] \in Row
  BY DEF TablesTypeOK
<1>2. r \in Row /\ r.status = "pending" /\ r.generation = row[t].generation
      /\ r.token = NoToken
  BY <1>1 DEF Row
<1>3. row' = [row EXCEPT ![t] = r] /\ journal' = journal
  BY DEF RetryTask
<1> HIDE DEF r
<1>4. /\ TablesTypeOK'
      /\ row'[t] = r
      /\ \A u \in Tasks \ {t} : row'[u] = row[u]
  BY <1>2, <1>3, RowReplaced
<1>5. Status(t) # "completed" /\ row[t].generation \in Nat /\ ~HasPending(t)
  BY <1>1, MaxGenerationOK DEF RetryTask, Row, Executions
<1>6. RowMove(t)
  BY <1>2, <1>4, <1>5 DEF RowMove
<1> QED BY <1>3, <1>4, <1>6 DEF RowsMoved, RowMove

LEMMA FailedMoves ==
  ASSUME TablesTypeOK, NEW t \in Tasks, NEW g, NEW again \in BOOLEAN,
         SettleFailed(t, g, again)
  PROVE  RowsMoved
<1> DEFINE r == [row[t] EXCEPT !.status = "failed", !.retryable = again,
                               !.token = NoToken]
<1>1. row[t] \in Row
  BY DEF TablesTypeOK
<1>2. r \in Row /\ r.status = "failed" /\ r.generation = row[t].generation
      /\ r.token = NoToken
  BY <1>1 DEF Row
<1>3. row' = [row EXCEPT ![t] = r] /\ journal' = journal
  BY DEF SettleFailed
<1> HIDE DEF r
<1>4. /\ TablesTypeOK'
      /\ row'[t] = r
      /\ \A u \in Tasks \ {t} : row'[u] = row[u]
  BY <1>2, <1>3, RowReplaced
<1>5. Status(t) # "completed" /\ row[t].generation \in Nat
  BY <1>1, MaxGenerationOK DEF SettleFailed, Owns, Row, Executions
<1>6. RowMove(t)
  BY <1>2, <1>4, <1>5 DEF RowMove
<1> QED BY <1>3, <1>4, <1>6 DEF RowsMoved, RowMove

LEMMA InterruptedMoves ==
  ASSUME TablesTypeOK, MarkAfterRestart
  PROVE  RowsMoved
<1> SUFFICES ASSUME NEW t \in Tasks
             PROVE  row'[t] \in Row /\ RowMove(t)
  BY DEF RowsMoved, TablesTypeOK, MarkAfterRestart
<1> DEFINE r == [row[t] EXCEPT
                   !.status = IF HasPending(t) THEN "retry_required" ELSE "pending",
                   !.retryable = ~HasPending(t),
                   !.cancelRequested = FALSE,
                   !.token = NoToken]
<1>1. row[t] \in Row
  BY DEF TablesTypeOK
<1>2. HasPending(t) \in BOOLEAN
  BY DEF HasPending
<1>3. /\ r.status = IF HasPending(t) THEN "retry_required" ELSE "pending"
      /\ r.generation = row[t].generation
      /\ r.token = NoToken
  BY <1>1 DEF Row
<1>4. r \in Row
  BY <1>1, <1>2 DEF Row
<1>5. row'[t] = IF Status(t) # "running" THEN row[t] ELSE r
  BY DEF MarkAfterRestart
<1> HIDE DEF r
<1>6. row[t].generation \in Nat
  BY <1>1, MaxGenerationOK DEF Row, Executions
<1> QED BY <1>1, <1>3, <1>4, <1>5, <1>6 DEF RowMove

LEMMA OperationReplaced ==
  ASSUME TablesTypeOK, NEW t \in Tasks, NEW g \in Executions, NEW j \in Journal,
         row' = row, journal' = [journal EXCEPT ![t][g] = j]
  PROVE  /\ TablesTypeOK'
         /\ journal'[t][g] = j
         /\ \A u \in Tasks : \A h \in Executions :
              <<u, h>> # <<t, g>> => journal'[u][h] = journal[u][h]
BY DEF TablesTypeOK

\* An open operation is of an execution that has begun, and is not committed.
LEMMA OpenOperation ==
  ASSUME TablesTypeOK, TaskInv, NEW t \in Tasks, NEW g \in Executions, Pending(t, g)
  PROVE  g <= row[t].generation /\ journal[t][g].resolution # "committed"
<1>1. ~(g > row[t].generation)
  BY DEF TaskInv, FutureClean
<1>2. row[t].generation \in Nat /\ g \in Nat
  BY MaxGenerationOK DEF TablesTypeOK, Row, Executions
<1>3. journal[t][g].resolution # "committed"
  BY DEF TaskInv, CommittedIsResolved
<1> QED BY <1>1, <1>2, <1>3

\* An operation that stays open.
LEMMA OpenMoves ==
  ASSUME TablesTypeOK, TaskInv, NEW t \in Tasks, NEW g \in Executions, Pending(t, g),
         NEW j \in Journal, j.status = "pending", j.resolution # "committed",
         row' = row, journal' = [journal EXCEPT ![t][g] = j],
         \A u \in Tasks : \A h \in Executions : <<u, h>> # <<t, g>> =>
           /\ objects'[<<u, h>>] = objects[<<u, h>>]
           /\ <<u, h>> \in files' <=> <<u, h>> \in files
  PROVE  TablesTypeOK' /\ TaskInv' /\ Pending(t, g)' /\ OnlyAt(t, g)
<1>1. /\ TablesTypeOK'
      /\ journal'[t][g] = j
      /\ \A u \in Tasks : \A h \in Executions :
           <<u, h>> # <<t, g>> => journal'[u][h] = journal[u][h]
  BY DEF TablesTypeOK
<1>2. Pending(t, g)'
  BY <1>1 DEF Pending
<1>3. OnlyAt(t, g)
  BY <1>1 DEF OnlyAt
<1> QED BY <1>1, <1>2, <1>3, OpenOperation, OperationMoves

LEMMA MarkMoves ==
  ASSUME TablesTypeOK, TaskInv, NEW t \in Tasks, NEW g \in Executions, Pending(t, g),
         \/ MarkObjectPresent(t, g) /\ files' = files
         \/ MarkIndexPresent(t, g) /\ files' = files \cup {<<t, g>>},
         objects' = objects
  PROVE  TablesTypeOK' /\ TaskInv' /\ Pending(t, g)' /\ OnlyAt(t, g)
<1>1. journal[t][g] \in Journal
  BY DEF TablesTypeOK
<1>2. journal[t][g].resolution # "committed" /\ journal[t][g].status = "pending"
  BY OpenOperation DEF Pending
<1> DEFINE o == [journal[t][g] EXCEPT !.object = "present"]
           i == [journal[t][g] EXCEPT !.index = "present"]
<1>3. /\ o \in Journal /\ o.status = "pending" /\ o.resolution # "committed"
      /\ i \in Journal /\ i.status = "pending" /\ i.resolution # "committed"
  BY <1>1, <1>2 DEF Journal, Evidence
<1>4. CASE MarkObjectPresent(t, g) /\ files' = files
  <2>1. journal' = [journal EXCEPT ![t][g] = o] /\ row' = row
    BY <1>4 DEF MarkObjectPresent
  <2> QED BY <1>3, <1>4, <2>1, OpenMoves
<1>5. CASE MarkIndexPresent(t, g) /\ files' = files \cup {<<t, g>>}
  <2>1. journal' = [journal EXCEPT ![t][g] = i] /\ row' = row
    BY <1>5 DEF MarkIndexPresent
  <2> QED BY <1>3, <1>5, <2>1, OpenMoves
<1> QED BY <1>4, <1>5

LEMMA BeginMoves ==
  ASSUME TablesTypeOK, TaskInv, NEW t \in Tasks, NEW g \in Executions,
         BeginWrite(t, g), UNCHANGED store
  PROVE  TablesTypeOK' /\ TaskInv' /\ Pending(t, g)' /\ OnlyAt(t, g)
<1> DEFINE j == [NoJournal EXCEPT !.status = "pending"]
<1>1. j \in Journal /\ j.status = "pending" /\ j.resolution = "none"
  BY DEF NoJournal, Journal, Evidence
<1>2. row' = row /\ journal' = [journal EXCEPT ![t][g] = j]
  BY DEF BeginWrite
<1> HIDE DEF j
<1>3. /\ TablesTypeOK'
      /\ journal'[t][g] = j
      /\ \A u \in Tasks : \A h \in Executions :
           <<u, h>> # <<t, g>> => journal'[u][h] = journal[u][h]
  BY <1>1, <1>2, OperationReplaced
<1>4. Pending(t, g)' /\ OnlyAt(t, g)
  BY <1>1, <1>3 DEF Pending, OnlyAt
<1>5. Status(t) = "running" /\ row[t].generation = g /\ ~HasPending(t)
  BY DEF BeginWrite, CanBegin, Owns
<1>6. journal[t][g].resolution # "committed"
  <2>1. CommitMatchesTask!(t)
    BY DEF TaskInv, CommitMatchesTask
  <2> QED BY <1>5, <2>1
<1>7. g <= row[t].generation
  BY <1>5 DEF Executions
<1> QED BY <1>1, <1>2, <1>3, <1>4, <1>5, <1>6, <1>7, OperationMoves

LEMMA CompensationMoves ==
  ASSUME TablesTypeOK, TaskInv, NEW t \in Tasks, NEW g \in Executions, Pending(t, g),
         NEW objectDeleted \in BOOLEAN, NEW indexDeleted \in BOOLEAN,
         UpdateCompensation(t, g, objectDeleted, indexDeleted), UNCHANGED store,
         objectDeleted => objects[<<t, g>>] # "stored",
         indexDeleted => <<t, g>> \notin files
  PROVE  TablesTypeOK' /\ TaskInv' /\ OnlyAt(t, g)
<1> DEFINE j == Compensated(journal[t][g], objectDeleted, indexDeleted)
<1>1. journal[t][g] \in Journal
  BY DEF TablesTypeOK
<1>2. /\ j \in Journal
      /\ j.resolution \in {"compensated", "operator_required"}
      /\ ~objectDeleted \/ ~indexDeleted => j.status = "pending"
  BY <1>1 DEF Compensated, Journal, Evidence
<1>3. row' = row /\ journal' = [journal EXCEPT ![t][g] = j]
  BY DEF UpdateCompensation
<1> HIDE DEF j
<1>4. /\ TablesTypeOK'
      /\ journal'[t][g] = j
      /\ \A u \in Tasks : \A h \in Executions :
           <<u, h>> # <<t, g>> => journal'[u][h] = journal[u][h]
  BY <1>2, <1>3, OperationReplaced
<1>5. OnlyAt(t, g)
  BY <1>4 DEF OnlyAt
<1>6. objects'[<<t, g>>] = "stored" \/ <<t, g>> \in files' => Pending(t, g)'
  BY <1>2, <1>4 DEF Pending
<1>7. j.resolution # "committed"
  BY <1>2
<1> QED BY <1>3, <1>4, <1>5, <1>6, <1>7, OpenOperation, OperationMoves

\* Only what is stored changes, for an open operation.
LEMMA StoreMoves ==
  ASSUME TablesTypeOK, TaskInv, NEW t \in Tasks, NEW g \in Executions, Pending(t, g),
         UNCHANGED tables,
         \A u \in Tasks : \A h \in Executions : <<u, h>> # <<t, g>> =>
           /\ objects'[<<u, h>>] = objects[<<u, h>>]
           /\ <<u, h>> \in files' <=> <<u, h>> \in files
  PROVE  TablesTypeOK' /\ TaskInv' /\ Pending(t, g)' /\ OnlyAt(t, g)
<1>1. TablesTypeOK' /\ Pending(t, g)'
  BY DEF TablesTypeOK, Pending
<1>2. OnlyAt(t, g)
  BY DEF OnlyAt
<1>3. journal'[t][g] = journal[t][g]
  OBVIOUS
<1> QED BY <1>1, <1>2, <1>3, OpenOperation, OperationMoves

LEMMA CompletedFields ==
  ASSUME NEW r \in Row
  PROVE  /\ CompletedRow(r) \in Row
         /\ CompletedRow(r).status = "completed"
         /\ CompletedRow(r).generation = r.generation
         /\ CompletedRow(r).token = NoToken
BY DEF CompletedRow, Row

LEMMA CommittedFields ==
  ASSUME NEW j \in Journal
  PROVE  /\ Committed(j) \in Journal
         /\ Committed(j).status = "resolved"
         /\ Committed(j).resolution = "committed"
BY DEF Committed, Journal

LEMMA SettleMoves ==
  ASSUME TablesTypeOK, TaskInv, NEW t \in Tasks, NEW g \in Executions,
         NEW wrote \in BOOLEAN, SettleCompleted(t, g, wrote), UNCHANGED store,
         wrote => <<t, g>> \in files,
         ~wrote => ~Pending(t, g)
  PROVE  /\ TablesTypeOK' /\ TaskInv' /\ OnlyAt(t, g)
         /\ \A u \in Tasks : row'[u].generation = row[u].generation
<1>1. row[t] \in Row /\ journal[t][g] \in Journal
  BY DEF TablesTypeOK
<1>2. Status(t) = "running" /\ row[t].generation = g
  BY DEF SettleCompleted, CanComplete, Owns
<1> DEFINE r == CompletedRow(row[t])
           j == Committed(journal[t][g])
<1>3. /\ r \in Row /\ r.status = "completed" /\ r.generation = g /\ r.token = NoToken
  BY <1>1, <1>2, CompletedFields
<1>4. j \in Journal /\ j.status = "resolved" /\ j.resolution = "committed"
  BY <1>1, CommittedFields
<1>5. row' = [row EXCEPT ![t] = r]
  BY DEF SettleCompleted
<1>6. journal' = IF wrote THEN [journal EXCEPT ![t][g] = j] ELSE journal
  BY DEF SettleCompleted
<1> HIDE DEF r, j
<1>7. /\ row' \in [Tasks -> Row]
      /\ row'[t] = r
      /\ \A u \in Tasks \ {t} : row'[u] = row[u]
  BY <1>3, <1>5 DEF TablesTypeOK
<1>8. \A u \in Tasks : row'[u].generation = row[u].generation
  BY <1>2, <1>3, <1>7
<1>9. CASE wrote
  <2>1. /\ journal' \in [Tasks -> [Executions -> Journal]]
        /\ journal'[t][g] = j
        /\ \A u \in Tasks : \A h \in Executions :
             <<u, h>> # <<t, g>> => journal'[u][h] = journal[u][h]
    BY <1>4, <1>6, <1>9 DEF TablesTypeOK
  <2>2. TablesTypeOK' /\ OnlyAt(t, g)
    BY <1>7, <2>1 DEF TablesTypeOK, OnlyAt
  <2>3. Pending(t, g)
    BY <1>9 DEF SettleCompleted, CanComplete, BothPresent
  <2>4. Commits(t)
    BY <1>2, <1>3, <1>4, <1>7, <1>9, <2>1, <2>3 DEF Commits
  <2>5. \A u \in Tasks \ {t} : row'[u] = row[u] /\ journal'[u] = journal[u]
    BY <1>6, <1>7, <1>9 DEF TablesTypeOK
  <2> QED BY <1>8, <2>2, <2>4, <2>5, TasksCommit
<1>10. CASE ~wrote
  <2>1. journal' = journal
    BY <1>6, <1>10
  <2>2. TablesTypeOK' /\ OnlyAt(t, g)
    BY <1>7, <2>1 DEF TablesTypeOK, OnlyAt
  <2>3. ~HasPending(t)
    <3>1. OpenIsLast!(t)
      BY DEF TaskInv, OpenIsLast
    <3> QED BY <1>2, <1>10, <3>1 DEF HasPending
  <2>4. row[t].generation \in Nat
    BY <1>2 DEF Executions
  <2>5. RowMove(t)
    BY <1>2, <1>3, <1>7, <2>3, <2>4 DEF RowMove
  <2>6. \A u \in Tasks : RowMove(u)
    BY <1>7, <2>5 DEF RowMove
  <2> QED BY <1>8, <2>1, <2>2, <2>6, RowsMove
<1> QED BY <1>9, <1>10

LEMMA ReconcileMoves ==
  ASSUME TablesTypeOK, TaskInv, ReconcileCommitted(files), UNCHANGED store
  PROVE  /\ TablesTypeOK' /\ TaskInv'
         /\ \A u \in Tasks : row'[u].generation = row[u].generation
<1>1. ASSUME NEW t \in Tasks
      PROVE  /\ row'[t] \in Row
             /\ journal'[t] \in [Executions -> Journal]
             /\ row'[t].generation = row[t].generation
             /\ \/ row'[t] = row[t] /\ journal'[t] = journal[t]
                \/ Commits(t)
  <2>1. row[t] \in Row /\ journal[t] \in [Executions -> Journal]
    BY DEF TablesTypeOK
  <2> DEFINE r == [CompletedRow(row[t]) EXCEPT !.cancelRequested = FALSE]
  <2>2. /\ r \in Row /\ r.status = "completed" /\ r.token = NoToken
        /\ r.generation = row[t].generation
    <3>1. CompletedRow(row[t]) \in Row
      BY <2>1, CompletedFields
    <3>2. ASSUME NEW c \in Row
          PROVE  LET d == [c EXCEPT !.cancelRequested = FALSE]
                 IN d \in Row /\ d.status = c.status /\ d.token = c.token
                    /\ d.generation = c.generation
      BY DEF Row
    <3> QED BY <2>1, <3>1, <3>2, CompletedFields
  <2>3. row'[t] = IF \E g \in Executions : Recovered(t, g, files) THEN r ELSE row[t]
    BY DEF ReconcileCommitted
  <2>4. journal'[t] = [g \in Executions |->
                         IF Recovered(t, g, files) THEN Committed(journal[t][g])
                         ELSE journal[t][g]]
    BY DEF ReconcileCommitted
  <2> HIDE DEF r
  <2>5. ASSUME NEW g \in Executions
        PROVE  /\ Committed(journal[t][g]) \in Journal
               /\ Committed(journal[t][g]).status = "resolved"
               /\ Committed(journal[t][g]).resolution = "committed"
    BY <2>1, CommittedFields
  <2>6. journal'[t] \in [Executions -> Journal]
    BY <2>1, <2>4, <2>5
  <2>7. CASE ~\E g \in Executions : Recovered(t, g, files)
    <3>1. \A g \in Executions : journal'[t][g] = journal[t][g]
      BY <2>4, <2>7
    <3>2. journal'[t] = journal[t]
      BY <2>1, <2>6, <3>1
    <3> QED BY <2>1, <2>3, <2>6, <2>7, <3>2
  <2>8. ASSUME NEW g \in Executions, Recovered(t, g, files)
        PROVE  row'[t] = r /\ Commits(t)
    <3>1. /\ row[t].generation = g
          /\ Status(t) \in {"running", "retry_required"}
          /\ Pending(t, g)
          /\ <<t, g>> \in files
      BY <2>8 DEF Recovered, BothPresent
    <3>2. row'[t] = r
      BY <2>3, <2>8
    <3>3. journal'[t][g] = Committed(journal[t][g])
      BY <2>4, <2>8
    <3>4. \A h \in Executions \ {g} : journal'[t][h] = journal[t][h]
      BY <2>4, <3>1 DEF Recovered
    <3> QED BY <2>2, <2>5, <3>1, <3>2, <3>3, <3>4 DEF Commits
  <2> QED BY <2>1, <2>2, <2>6, <2>7, <2>8
<1>2. TablesTypeOK'
  BY <1>1 DEF TablesTypeOK, ReconcileCommitted
<1> QED BY <1>1, <1>2, TasksCommit

-----------------------------------------------------------------------------
(* Steps of the workers *)

Grows == \A u \in Tasks : row'[u].generation >= row[u].generation

Same(t, g) ==
  /\ journal'[t][g] = journal[t][g]
  /\ objects'[<<t, g>>] = objects[<<t, g>>]
  /\ <<t, g>> \in files' <=> <<t, g>> \in files

LEMMA Generations ==
  ASSUME TablesTypeOK
  PROVE  \A u \in Tasks : row[u].generation \in Nat
BY MaxGenerationOK DEF TablesTypeOK, Row, Executions

LEMMA NextGenerations ==
  ASSUME TablesTypeOK'
  PROVE  \A u \in Tasks : row'[u].generation \in Nat
BY MaxGenerationOK DEF TablesTypeOK, Row, Executions

\* A worker that stays where it is knows what it knew.
LEMMA Elsewhere ==
  ASSUME TablesTypeOK, TablesTypeOK', Grows, NEW s \in Places, WorkerInv(s),
         worker'[s] = worker[s],
         worker[s].pc \in Settling => Same(worker[s].task, worker[s].execution)
  PROVE  WorkerInv(s)'
<1>1. \A u \in Tasks : row[u].generation \in Nat /\ row'[u].generation \in Nat
  BY Generations, NextGenerations
<1>2. ~At(s, "idle") => TaskOf(s) \in Tasks
  BY DEF WorkerInv
<1>3. worker[s].pc \in Settling =>
        worker[s].execution \in 1..row'[TaskOf(s)].generation
  <2> SUFFICES ASSUME worker[s].pc \in Settling
               PROVE  worker[s].execution \in 1..row'[TaskOf(s)].generation
    OBVIOUS
  <2>1. TaskOf(s) \in Tasks
    BY <1>2 DEF At, Settling, InTry, Uploading, Undoing
  <2>2. worker[s].execution \in 1..row[TaskOf(s)].generation
    BY DEF WorkerInv
  <2>3. row'[TaskOf(s)].generation >= row[TaskOf(s)].generation
    BY <2>1 DEF Grows
  <2> QED BY <1>1, <2>1, <2>2, <2>3
<1>4. BeforeWrite(worker[s]) \/ Writing(worker[s]) => worker[s].pc \in Settling
  BY DEF BeforeWrite, Writing, Settling, InTry, Uploading, Undoing
<1>5. BeforeWrite(worker[s]) => ~worker[s].wrote /\ ~worker[s].finalPath
                               /\ ~worker[s].fileId /\ Unwritten(worker[s])'
  BY <1>4 DEF WorkerInv, Unwritten, Same, Pending
<1>6. Writing(worker[s]) => WritingInv(worker[s])'
  BY <1>4 DEF WorkerInv, WritingInv, Same, Pending
<1>7. (~At(s, "idle") => TaskOf(s) \in Tasks)'
  BY <1>2 DEF At, TaskOf
<1>8. (At(s, "claim") => ~worker[s].wrote /\ ~worker[s].finalPath
                          /\ ~worker[s].fileId)'
  BY DEF WorkerInv, At
<1>9. (worker[s].pc \in Settling =>
         worker[s].execution \in 1..row[TaskOf(s)].generation)'
  BY <1>3 DEF TaskOf
<1>10. (BeforeWrite(worker[s]) => ~worker[s].wrote /\ ~worker[s].finalPath
                                 /\ ~worker[s].fileId /\ Unwritten(worker[s]))'
  BY <1>5 DEF BeforeWrite
<1>11. (Writing(worker[s]) => WritingInv(worker[s]))'
  BY <1>6 DEF Writing
<1> QED BY <1>7, <1>8, <1>9, <1>10, <1>11 DEF WorkerInv

RestTypeOK ==
  /\ waiting \in Seq(Tasks)
  /\ known \subseteq Tasks
  /\ controllers \in [Tasks -> Places \cup {0, Leaked}]
  /\ calls \subseteq Calls
  /\ objects \in [Tasks \X Executions -> {"none", "stored", "inDoubt"}]
  /\ files \subseteq Tasks \X Executions
  /\ phase \in {"down", "reconciled", "marked", "up"}
  /\ events \in 0..MaxEvents
  /\ faulty \in BOOLEAN

LEMMA TypeParts == TypeOK <=> TablesTypeOK /\ worker \in [Places -> Worker] /\ RestTypeOK
BY DEF TypeOK, RestTypeOK

LEMMA BudgetTypeOK ==
  ASSUME TypeOK, NoFault \/ Fault \/ Disturbance
  PROVE  events' \in 0..MaxEvents /\ faulty' \in BOOLEAN
<1>1. events \in 0..MaxEvents /\ faulty \in BOOLEAN /\ MaxEvents \in Nat
  BY BoundsOK DEF TypeOK
<1>2. UNCHANGED events \/ Event
  BY DEF NoFault, Fault, Disturbance
<1>3. events' \in 0..MaxEvents
  BY <1>1, <1>2 DEF Event
<1>4. faulty' = faulty \/ faulty' = TRUE
  BY DEF NoFault, Fault, Disturbance
<1> QED BY <1>1, <1>3, <1>4

\* The worker in place s moves; the others stay.
LEMMA OthersStay ==
  ASSUME IInv, TablesTypeOK', Grows, NEW s \in Places, NEW w \in Worker,
         worker' = [worker EXCEPT ![s] = w],
         w.pc \in Settling => /\ worker[s].pc \in Settling
                              /\ w.task = worker[s].task
                              /\ w.execution = worker[s].execution,
         \A r \in Places \ {s} : worker[r].pc \in Settling =>
            Same(worker[r].task, worker[r].execution)
  PROVE  /\ worker' \in [Places -> Worker]
         /\ OwnExecution'
         /\ \A r \in Places \ {s} : WorkerInv(r)'
<1>1. worker \in [Places -> Worker] /\ TablesTypeOK
  BY DEF IInv, TypeOK
<1>2. /\ worker' \in [Places -> Worker]
      /\ worker'[s] = w
      /\ \A r \in Places \ {s} : worker'[r] = worker[r]
  BY <1>1
<1>3. OwnExecution'
  BY <1>2 DEF IInv, OwnExecution, Execution
<1>4. \A r \in Places \ {s} : WorkerInv(r)'
  BY <1>1, <1>2, Elsewhere DEF IInv
<1> QED BY <1>2, <1>3, <1>4

LEMMA AwakeIsUp ==
  ASSUME IInv, NEW s \in Places, ~At(s, "idle")
  PROVE  phase \notin {"down", "reconciled"}
BY DEF IInv, DownIsEmpty

\* A worker of an execution makes a step for this execution.
LEMMA WorkerStep ==
  ASSUME IInv, NEW s \in Places, worker[s].pc \in Settling,
         TablesTypeOK', TaskInv', RestTypeOK', Grows, phase' = phase,
         OnlyAt(worker[s].task, worker[s].execution),
         NEW w \in Worker, worker' = [worker EXCEPT ![s] = w],
         w.task = worker[s].task, w.pc \notin {"idle", "claim"},
         w.pc \in Settling => w.execution = worker[s].execution,
         BeforeWrite(w) => ~w.wrote /\ ~w.finalPath /\ ~w.fileId /\ Unwritten(w)',
         Writing(w) => WritingInv(w)'
  PROVE  IInv'
<1>1. /\ ~At(s, "idle")
      /\ \A r \in Places : WorkerInv(r)
      /\ worker \in [Places -> Worker]
      /\ TablesTypeOK
  BY DEF At, Settling, InTry, Uploading, Undoing, IInv, TypeOK
<1>2. worker[s].task \in Tasks /\ worker[s].execution \in 1..row[worker[s].task].generation
  BY <1>1 DEF WorkerInv, TaskOf
<1>3. ASSUME NEW r \in Places \ {s}, worker[r].pc \in Settling
      PROVE  Same(worker[r].task, worker[r].execution)
  <2>1. <<worker[r].task, worker[r].execution>> # <<worker[s].task, worker[s].execution>>
    BY <1>3 DEF IInv, OwnExecution, Execution
  <2>2. worker[r].task \in Tasks
    BY <1>1, <1>3 DEF WorkerInv, TaskOf, At, Settling, InTry, Uploading, Undoing
  <2>3. worker[r].execution \in 1..row[worker[r].task].generation
    BY <1>1, <1>3 DEF WorkerInv, TaskOf
  <2>4. row[worker[r].task].generation \in Executions \cup {0}
    <3>1. row[worker[r].task] \in Row
      BY <1>1, <2>2 DEF TablesTypeOK
    <3> QED BY <3>1 DEF Row
  <2>5. worker[r].execution \in Executions
    BY <2>3, <2>4, MaxGenerationOK DEF Executions
  <2> QED BY <2>1, <2>2, <2>5 DEF OnlyAt, Same
<1>4. /\ worker' \in [Places -> Worker]
      /\ OwnExecution'
      /\ \A r \in Places \ {s} : WorkerInv(r)'
  BY <1>3, OthersStay
<1>5. worker'[s] = w
  BY <1>1
<1>6. worker[s].execution \in 1..row'[worker[s].task].generation
  <2>1. /\ row[worker[s].task].generation \in Nat
        /\ row'[worker[s].task].generation \in Nat
    BY <1>1, <1>2, Generations, NextGenerations
  <2>2. row'[worker[s].task].generation >= row[worker[s].task].generation
    BY <1>2 DEF Grows
  <2> QED BY <1>2, <2>1, <2>2
<1>7. WorkerInv(s)'
  BY <1>2, <1>5, <1>6 DEF WorkerInv, At, TaskOf, BeforeWrite, Writing, Unwritten, WritingInv
<1>8. DownIsEmpty'
  BY <1>1, AwakeIsUp DEF DownIsEmpty
<1>9. TypeOK'
  BY <1>4 DEF TypeOK, RestTypeOK
<1> QED BY <1>4, <1>7, <1>8, <1>9 DEF IInv

LEMMA WorkerFacts ==
  ASSUME IInv, NEW s \in Places
  PROVE  /\ worker \in [Places -> Worker]
         /\ worker[s] \in Worker
         /\ TablesTypeOK /\ TaskInv /\ RestTypeOK
         /\ WorkerInv(s)
         /\ worker[s].pc # "idle" => worker[s].task \in Tasks
         /\ worker[s].pc \in Settling => /\ worker[s].task \in Tasks
                                         /\ worker[s].execution \in Executions
<1>1. /\ worker \in [Places -> Worker]
      /\ TablesTypeOK /\ TaskInv /\ RestTypeOK
      /\ WorkerInv(s)
  BY TypeParts DEF IInv
<1>2. worker[s].pc # "idle" => worker[s].task \in Tasks
  BY <1>1 DEF WorkerInv, At, TaskOf
<1>3. ASSUME worker[s].pc \in Settling
      PROVE  worker[s].task \in Tasks /\ worker[s].execution \in Executions
  <2>1. worker[s].task \in Tasks
    BY <1>2, <1>3 DEF Settling, InTry, Uploading, Undoing
  <2>2. row[worker[s].task] \in Row
    BY <1>1, <2>1 DEF TablesTypeOK
  <2>3. row[worker[s].task].generation \in Executions \cup {0}
    BY <2>2 DEF Row
  <2>4. worker[s].execution \in 1..row[worker[s].task].generation
    BY <1>1, <1>3 DEF WorkerInv, TaskOf
  <2> QED BY <2>1, <2>3, <2>4, MaxGenerationOK DEF Executions
<1> QED BY <1>1, <1>2, <1>3

LEMMA GotoFields ==
  ASSUME NEW w \in Worker, NEW l \in Settling \cup {"idle", "claim", "ending", "ended"}
  PROVE  LET v == [w EXCEPT !.pc = l]
         IN /\ v \in Worker
            /\ v.pc = l /\ v.task = w.task /\ v.execution = w.execution
            /\ v.wrote = w.wrote /\ v.finalPath = w.finalPath /\ v.fileId = w.fileId
            /\ v.objectDeleted = w.objectDeleted /\ v.indexDeleted = w.indexDeleted
BY DEF Worker

LEMMA LeftFields ==
  ASSUME NEW w \in Worker, NEW l \in {"failing", "ending", "ended"}
  PROVE  /\ Left(w, l) \in Worker
         /\ Left(w, l).pc = l /\ Left(w, l).task = w.task
         /\ l = "failing" => Left(w, l).execution = w.execution
BY ZenonT(60) DEF Worker, Left, Fresh, Settling, InTry

LEMMA AbortedFields ==
  ASSUME NEW w \in Worker, NEW reason \in {"ownership", "persistence"}
  PROVE  LET v == Aborted(w, reason)
         IN /\ v \in Worker
            /\ v.pc = w.pc /\ v.task = w.task /\ v.execution = w.execution
            /\ v.wrote = w.wrote /\ v.finalPath = w.finalPath /\ v.fileId = w.fileId
            /\ v.objectDeleted = w.objectDeleted /\ v.indexDeleted = w.indexDeleted
BY DEF Worker, Aborted

LEMMA TablesUnchanged ==
  ASSUME TablesTypeOK, TaskInv, UNCHANGED <<tables, store>>
  PROVE  /\ TablesTypeOK' /\ TaskInv' /\ Grows
         /\ \A t \in Tasks : \A g \in Executions : OnlyAt(t, g) /\ Same(t, g)
<1>1. TablesTypeOK'
  BY DEF TablesTypeOK
<1>2. TaskInv'
  BY <1>1, RowsMove DEF RowMove
<1>3. Grows
  BY Generations DEF Grows
<1>4. \A t \in Tasks : \A g \in Executions : OnlyAt(t, g) /\ Same(t, g)
  BY DEF OnlyAt, Same
<1> QED BY <1>1, <1>2, <1>3, <1>4

LEMMA RestUnchanged ==
  ASSUME IInv, UNCHANGED <<queue, controllers, calls, store, phase>>,
         NoFault \/ Fault \/ Disturbance
  PROVE  RestTypeOK'
<1>1. TypeOK /\ RestTypeOK
  BY TypeParts DEF IInv
<1>2. events' \in 0..MaxEvents /\ faulty' \in BOOLEAN
  BY <1>1, BudgetTypeOK
<1> QED BY <1>1, <1>2 DEF RestTypeOK

\* Nothing but the worker moves.
LEMMA QuietStep ==
  ASSUME IInv, NEW s \in Places, worker[s].pc \in Settling,
         UNCHANGED <<tables, queue, controllers, calls, store, phase>>,
         NoFault \/ Fault \/ Disturbance,
         NEW w \in Worker, worker' = [worker EXCEPT ![s] = w],
         w.task = worker[s].task, w.pc \notin {"idle", "claim"},
         w.pc \in Settling => w.execution = worker[s].execution,
         BeforeWrite(w) => ~w.wrote /\ ~w.finalPath /\ ~w.fileId /\ Unwritten(w),
         Writing(w) => WritingInv(w)
  PROVE  IInv'
<1>1. /\ TablesTypeOK /\ TaskInv
      /\ worker[s].task \in Tasks /\ worker[s].execution \in Executions
  BY WorkerFacts
<1>2. /\ TablesTypeOK' /\ TaskInv' /\ Grows
      /\ OnlyAt(worker[s].task, worker[s].execution)
  BY <1>1, TablesUnchanged
<1>3. RestTypeOK' /\ phase' = phase
  BY RestUnchanged
<1>4. Unwritten(w) => Unwritten(w)'
  BY DEF Unwritten, Pending
<1>5. WritingInv(w) => WritingInv(w)'
  BY DEF WritingInv, Pending
<1> QED BY <1>2, <1>3, <1>4, <1>5, WorkerStep

LEMMA LeaveStep ==
  ASSUME IInv, NEW s \in Places, worker[s].pc \in Settling,
         TablesTypeOK', TaskInv', Grows, OnlyAt(worker[s].task, worker[s].execution),
         RestTypeOK', phase' = phase,
         NEW l \in {"failing", "ending", "ended"}, Leave(s, l)
  PROVE  IInv'
<1> DEFINE w == Left(worker[s], l)
<1>1. worker[s] \in Worker
  BY WorkerFacts
<1>2. /\ w \in Worker
      /\ w.pc = l /\ w.task = worker[s].task
      /\ l = "failing" => w.execution = worker[s].execution
  BY <1>1, LeftFields
<1>3. worker' = [worker EXCEPT ![s] = w]
  BY DEF Leave
<1> HIDE DEF w
<1>4. l \in Settling => l = "failing"
  BY DEF Settling, InTry, Uploading, Undoing
<1>5. ~BeforeWrite(w) /\ ~Writing(w)
  BY <1>2 DEF BeforeWrite, Writing, Uploading, Undoing
<1>6. w.pc \notin {"idle", "claim"}
  BY <1>2
<1> QED BY <1>2, <1>3, <1>4, <1>5, <1>6, WorkerStep

LEMMA QuietLeaveStep ==
  ASSUME IInv, NEW s \in Places, worker[s].pc \in Settling,
         UNCHANGED <<tables, queue, controllers, calls, store, phase>>,
         NoFault \/ Fault \/ Disturbance,
         NEW l \in {"failing", "ending", "ended"}, Leave(s, l)
  PROVE  IInv'
<1>1. /\ TablesTypeOK /\ TaskInv
      /\ worker[s].task \in Tasks /\ worker[s].execution \in Executions
  BY WorkerFacts
<1>2. /\ TablesTypeOK' /\ TaskInv' /\ Grows
      /\ OnlyAt(worker[s].task, worker[s].execution)
  BY <1>1, TablesUnchanged
<1>3. RestTypeOK' /\ phase' = phase
  BY RestUnchanged
<1> QED BY <1>2, <1>3, LeaveStep

\* What a worker may go on to without writing.
GoesOn(w, l) ==
  \/ BeforeWrite(w) /\ l \in {"advance", "prepare", "begin", "settle"}
  \/ Writing(w) /\ \/ w.pc = "renew" /\ l = "save"
                   \/ w.pc = "recheck" /\ l = "index"
                   \/ l = "undoObject"
  \/ l \in {"journalCheck", "fail"}

LEMMA QuietGotoStep ==
  ASSUME IInv, NEW s \in Places, worker[s].pc \in Settling,
         UNCHANGED <<tables, queue, controllers, calls, store, phase>>,
         NoFault \/ Fault \/ Disturbance,
         NEW l \in Settling, Goto(s, l), GoesOn(worker[s], l)
  PROVE  IInv'
<1> DEFINE w == [worker[s] EXCEPT !.pc = l]
<1>1. worker[s] \in Worker /\ WorkerInv(s) /\ worker \in [Places -> Worker]
  BY WorkerFacts
<1>2. /\ w \in Worker
      /\ w.pc = l /\ w.task = worker[s].task /\ w.execution = worker[s].execution
      /\ w.wrote = worker[s].wrote /\ w.finalPath = worker[s].finalPath
      /\ w.fileId = worker[s].fileId
      /\ w.objectDeleted = worker[s].objectDeleted
      /\ w.indexDeleted = worker[s].indexDeleted
  BY <1>1, GotoFields
<1>3. worker' = [worker EXCEPT ![s] = w]
  BY DEF Goto
<1> HIDE DEF w
<1>4. l \notin {"idle", "claim"}
  BY DEF Settling, InTry, Uploading, Undoing
<1>5. CASE BeforeWrite(worker[s]) /\ l \in {"advance", "prepare", "begin", "settle"}
  <2>1. ~w.wrote /\ ~w.finalPath /\ ~w.fileId /\ Unwritten(w)
    BY <1>1, <1>2, <1>5 DEF WorkerInv, Unwritten
  <2>2. ~Writing(w)
    BY <1>2, <1>5, <2>1 DEF Writing, Uploading, Undoing
  <2> QED BY <1>2, <1>3, <1>4, <2>1, <2>2, QuietStep
<1>6. CASE /\ Writing(worker[s])
           /\ \/ worker[s].pc = "renew" /\ l = "save"
              \/ worker[s].pc = "recheck" /\ l = "index"
              \/ l = "undoObject"
  <2>1. WritingInv(worker[s])
    BY <1>1, <1>6 DEF WorkerInv
  <2>2. WritingInv(w)
    BY <1>2, <1>6, <2>1 DEF WritingInv, Uploading
  <2>3. ~BeforeWrite(w)
    BY <1>2, <1>6 DEF BeforeWrite
  <2> QED BY <1>2, <1>3, <1>4, <2>2, <2>3, QuietStep
<1>7. CASE l \in {"journalCheck", "fail"}
  <2>1. ~BeforeWrite(w) /\ ~Writing(w)
    BY <1>2, <1>7 DEF BeforeWrite, Writing, Uploading, Undoing
  <2> QED BY <1>2, <1>3, <1>4, <2>1, QuietStep
<1> QED BY <1>5, <1>6, <1>7 DEF GoesOn

LEMMA ReadsStep ==
  ASSUME IInv, NEW s \in Places, worker[s].pc \in Settling,
         NoFault \/ Fault \/ Disturbance,
         NEW l \in Settling \cup {"ending"}, Reads(s, l),
         l \in {"failing", "ending"} \/ GoesOn(worker[s], l)
  PROVE  IInv'
<1>1. CASE l \in {"failing", "ending"}
  <2>1. Leave(s, l)
    BY <1>1 DEF Reads
  <2> QED BY <1>1, <2>1, QuietLeaveStep DEF Reads
<1>2. CASE l \notin {"failing", "ending"}
  <2>1. Goto(s, l) /\ l \in Settling /\ GoesOn(worker[s], l)
    BY <1>2 DEF Reads
  <2> QED BY <2>1, QuietGotoStep DEF Reads
<1> QED BY <1>1, <1>2

LEMMA Points ==
  /\ {"register", "download", "advance", "prepare", "begin", "renew", "save", "markObject",
      "recheck", "index", "undoObject", "undoIndex", "undoRecord", "settle", "failing",
      "journalCheck", "fail"} = Settling
  /\ Uploading \ {"begin"} = {"renew", "save", "markObject", "recheck", "index"}
  /\ Undoing = {"undoObject", "undoIndex", "undoRecord"}
  /\ InTry \subseteq Settling
BY DEF Settling, InTry, Uploading, Undoing

LEMMA HeartbeatStep ==
  ASSUME IInv, NEW s \in Places, HeartbeatLost(s) \/ HeartbeatFails(s)
  PROVE  IInv'
<1>1. PICK reason \in {"ownership", "persistence"} :
        Become(s, Aborted(worker[s], reason))
  BY DEF HeartbeatLost, HeartbeatFails
<1> DEFINE w == Aborted(worker[s], reason)
<1>2. worker[s] \in Worker /\ WorkerInv(s)
  BY WorkerFacts
<1>3. /\ w \in Worker
      /\ w.pc = worker[s].pc /\ w.task = worker[s].task
      /\ w.execution = worker[s].execution
      /\ w.wrote = worker[s].wrote /\ w.finalPath = worker[s].finalPath
      /\ w.fileId = worker[s].fileId
      /\ w.objectDeleted = worker[s].objectDeleted
      /\ w.indexDeleted = worker[s].indexDeleted
  BY <1>2, AbortedFields
<1>4. worker' = [worker EXCEPT ![s] = w]
  BY <1>1 DEF Become
<1> HIDE DEF w
<1>5. worker[s].pc \in Settling /\ worker[s].pc \notin {"idle", "claim"}
  BY DEF HeartbeatLost, HeartbeatFails, Settling, InTry, Uploading, Undoing
<1>6. BeforeWrite(w) => ~w.wrote /\ ~w.finalPath /\ ~w.fileId /\ Unwritten(w)
  BY <1>2, <1>3 DEF WorkerInv, BeforeWrite, Unwritten
<1>7. Writing(w) => WritingInv(w)
  BY <1>2, <1>3 DEF WorkerInv, Writing, WritingInv
<1>8. /\ UNCHANGED <<tables, queue, controllers, calls, store, phase>>
      /\ NoFault \/ Fault
  BY DEF HeartbeatLost, HeartbeatFails
<1> QED BY <1>3, <1>4, <1>5, <1>6, <1>7, <1>8, QuietStep

LEMMA RegisterStep ==
  ASSUME IInv, NEW s \in Places, Register(s)
  PROVE  IInv'
<1>1. /\ worker[s].pc = "register" /\ worker[s] \in Worker /\ WorkerInv(s)
      /\ TablesTypeOK /\ TaskInv /\ RestTypeOK /\ TypeOK
      /\ worker[s].task \in Tasks /\ worker[s].execution \in Executions
  BY WorkerFacts, Points DEF Register, At, IInv
<1>2. worker[s].pc \in Settling
  BY <1>1, Points
<1>3. /\ TablesTypeOK' /\ TaskInv' /\ Grows
      /\ OnlyAt(worker[s].task, worker[s].execution)
  BY <1>1, TablesUnchanged DEF Register
<1>4. events' \in 0..MaxEvents /\ faulty' \in BOOLEAN
  BY <1>1, BudgetTypeOK DEF Register
<1>5. controllers' \in [Tasks -> Places \cup {0, Leaked}]
  BY <1>1 DEF Register, RestTypeOK, TaskOf
<1>6. RestTypeOK' /\ phase' = phase
  BY <1>1, <1>4, <1>5 DEF Register, RestTypeOK
<1>7. CASE Leave(s, "ended")
  BY <1>2, <1>3, <1>6, <1>7, LeaveStep
<1>8. CASE Goto(s, "download")
  <2>0. PICK w \in Worker : w = [worker[s] EXCEPT !.pc = "download"]
    BY <1>1, Points, GotoFields
  <2>1. /\ w \in Worker
        /\ w.pc = "download" /\ w.task = worker[s].task /\ w.execution = worker[s].execution
        /\ w.wrote = worker[s].wrote /\ w.finalPath = worker[s].finalPath
        /\ w.fileId = worker[s].fileId
    BY <1>1, <2>0, Points, GotoFields
  <2>2. worker' = [worker EXCEPT ![s] = w]
    BY <1>8, <2>0 DEF Goto
  <2>3. BeforeWrite(worker[s])
    BY <1>1 DEF BeforeWrite
  <2>4. ~w.wrote /\ ~w.finalPath /\ ~w.fileId /\ Unwritten(w)
    BY <1>1, <2>1, <2>3 DEF WorkerInv, Unwritten
  <2>5. Unwritten(w)'
    BY <2>4 DEF Unwritten, Pending, Register
  <2>6. ~Writing(w) /\ w.pc \notin {"idle", "claim"}
    BY <2>1, Points DEF Writing
  <2> QED BY <1>2, <1>3, <1>6, <2>1, <2>2, <2>4, <2>5, <2>6, WorkerStep
<1> QED BY <1>7, <1>8 DEF Register

LEMMA DownloadStep ==
  ASSUME IInv, NEW s \in Places, Download(s) \/ Advance(s) \/ Prepare(s)
  PROVE  IInv'
<1>1. worker[s].pc \in Settling /\ worker[s].pc \in {"download", "advance", "prepare"}
  BY Points DEF Download, Advance, Prepare, At
<1>2. BeforeWrite(worker[s])
  BY <1>1 DEF BeforeWrite
<1>3. PICK l \in {"failing", "advance", "prepare", "begin", "settle"} : Reads(s, l)
  BY DEF Download, Advance, Prepare
<1>4. NoFault \/ Fault
  BY DEF Download, Advance, Prepare
<1>5. l \in {"failing", "ending"} \/ GoesOn(worker[s], l)
  BY <1>2 DEF GoesOn
<1> QED BY <1>1, <1>3, <1>4, <1>5, Points, ReadsStep

LEMMA UploadReadsStep ==
  ASSUME IInv, NEW s \in Places, Renew(s) \/ Recheck(s)
  PROVE  IInv'
<1>1. worker[s].pc \in Settling
  BY Points DEF Renew, Recheck, At
<1>2. Writing(worker[s])
  BY Points DEF Writing, Renew, Recheck, At
<1>3. PICK l \in {"save", "index", "undoObject"} :
        Reads(s, l) /\ GoesOn(worker[s], l)
  BY <1>2 DEF Renew, Recheck, GoesOn, At
<1>4. NoFault \/ Fault
  BY DEF Renew, Recheck
<1> QED BY <1>1, <1>3, <1>4, Points, ReadsStep

LEMMA FailingStep ==
  ASSUME IInv, NEW s \in Places, Failing(s)
  PROVE  IInv'
<1>1. worker[s].pc \in Settling
  BY Points DEF Failing, At
<1>2. PICK l \in {"ending", "journalCheck"} : Reads(s, l)
  BY DEF Failing
<1>3. NoFault \/ Fault
  BY DEF Failing
<1>4. l \in {"failing", "ending"} \/ GoesOn(worker[s], l)
  BY DEF GoesOn
<1> QED BY <1>1, <1>2, <1>3, <1>4, Points, ReadsStep

LEMMA JournalCheckStep ==
  ASSUME IInv, NEW s \in Places, JournalCheck(s)
  PROVE  IInv'
<1>1. worker[s].pc \in Settling /\ worker[s] \in Worker
  BY Points, WorkerFacts DEF JournalCheck, At
<1>2. UNCHANGED <<tables, queue, controllers, calls, store, phase>>
  BY DEF JournalCheck
<1>3. CASE Fault /\ Leave(s, "ending")
  BY <1>1, <1>2, <1>3, QuietLeaveStep
<1>4. CASE /\ NoFault
           /\ Become(s, [worker[s] EXCEPT !.pc = "fail",
                                          !.journalled = HasPending(TaskOf(s))])
  <2> DEFINE w == [worker[s] EXCEPT !.pc = "fail", !.journalled = HasPending(TaskOf(s))]
  <2>1. HasPending(TaskOf(s)) \in BOOLEAN
    BY DEF HasPending
  <2>2. /\ w \in Worker
        /\ w.pc = "fail" /\ w.task = worker[s].task /\ w.execution = worker[s].execution
    BY <1>1, <2>1, Points DEF Worker
  <2>3. worker' = [worker EXCEPT ![s] = w]
    BY <1>4 DEF Become
  <2> HIDE DEF w
  <2>4. ~BeforeWrite(w) /\ ~Writing(w) /\ w.pc \notin {"idle", "claim"}
    BY <2>2, Points DEF BeforeWrite, Writing
  <2> QED BY <1>1, <1>2, <1>4, <2>2, <2>3, <2>4, QuietStep
<1> QED BY <1>2, <1>3, <1>4 DEF JournalCheck

LEMMA FailStep ==
  ASSUME IInv, NEW s \in Places, Fail(s)
  PROVE  IInv'
<1>1. /\ worker[s].pc \in Settling /\ worker[s] \in Worker
      /\ TablesTypeOK /\ TaskInv
      /\ worker[s].task \in Tasks /\ worker[s].execution \in Executions
  BY Points, WorkerFacts DEF Fail, At
<1>2. /\ UNCHANGED <<queue, controllers, calls, store, phase>>
      /\ NoFault \/ Fault
      /\ Leave(s, "ending")
  BY DEF Fail, Happens, MayHappen
<1>3. CASE UNCHANGED tables
  BY <1>1, <1>2, <1>3, QuietLeaveStep
<1>4. CASE SettleFailed(TaskOf(s), worker[s].execution, ~worker[s].journalled)
  <2>1. worker[s].journalled \in BOOLEAN
    BY <1>1 DEF Worker
  <2>2. RowsMoved
    <3>1. PICK again \in BOOLEAN :
            SettleFailed(TaskOf(s), worker[s].execution, again)
      <4>1. CASE worker[s].journalled = TRUE
        BY <1>4, <4>1, ~TRUE = FALSE
      <4>2. CASE worker[s].journalled = FALSE
        BY <1>4, <4>2, ~FALSE = TRUE
      <4> QED BY <2>1, <4>1, <4>2
    <3> QED BY <1>1, <3>1, FailedMoves DEF TaskOf
  <2>3. TablesTypeOK' /\ TaskInv'
    BY <1>1, <1>2, <2>2, RowsMove DEF RowsMoved
  <2>4. Grows /\ OnlyAt(worker[s].task, worker[s].execution)
    BY <1>1, <1>2, <2>2, RowsMovedGrow DEF Grows, OnlyAt, RowsMoved
  <2>5. RestTypeOK' /\ phase' = phase
    BY <1>2, RestUnchanged
  <2> QED BY <1>1, <1>2, <2>3, <2>4, <2>5, LeaveStep
<1> QED BY <1>3, <1>4 DEF Fail, Happens, MayHappen

\* The execution that a worker works on.
LEMMA ExecutionOf ==
  ASSUME IInv, NEW s \in Places, worker[s].pc \in Settling
  PROVE  \E t \in Tasks : \E g \in Executions :
           worker[s].task = t /\ worker[s].execution = g
BY WorkerFacts

LEMMA BeginStep ==
  ASSUME IInv, NEW s \in Places, Begin(s)
  PROVE  IInv'
<1>1. /\ worker[s].pc = "begin" /\ worker[s].pc \in Settling
      /\ worker[s] \in Worker /\ WorkerInv(s)
      /\ TablesTypeOK /\ TaskInv
  BY Points, WorkerFacts DEF Begin, At
<1>2. PICK t \in Tasks : \E g \in Executions :
        worker[s].task = t /\ worker[s].execution = g
  BY <1>1, ExecutionOf
<1>3. PICK g \in Executions : worker[s].task = t /\ worker[s].execution = g
  BY <1>2
<1>4. /\ UNCHANGED <<queue, controllers, calls, store, phase>>
      /\ NoFault \/ Fault
  BY DEF Begin, Happens, MayHappen
<1>5. RestTypeOK' /\ phase' = phase
  BY <1>4, RestUnchanged
<1>6. CASE UNCHANGED tables /\ Leave(s, "failing")
  BY <1>1, <1>4, <1>6, QuietLeaveStep
<1>7. ASSUME BeginWrite(t, g)
      PROVE  TablesTypeOK' /\ TaskInv' /\ Grows /\ Pending(t, g)' /\ OnlyAt(t, g)
  <2>1. Grows
    BY <1>1, <1>7, Generations DEF Grows, BeginWrite
  <2> QED BY <1>1, <1>4, <1>7, <2>1, BeginMoves
<1>8. CASE BeginWrite(t, g) /\ Leave(s, "failing")
  BY <1>1, <1>3, <1>5, <1>7, <1>8, LeaveStep
<1>9. CASE /\ BeginWrite(t, g)
           /\ Become(s, [worker[s] EXCEPT !.pc = "renew", !.wrote = TRUE])
  <2>1. PICK w \in Worker : w = [worker[s] EXCEPT !.pc = "renew", !.wrote = TRUE]
    BY <1>1, Points DEF Worker
  <2>2. /\ w.pc = "renew" /\ w.task = t /\ w.execution = g /\ w.wrote
        /\ w.finalPath = worker[s].finalPath /\ w.fileId = worker[s].fileId
    BY <1>1, <1>3, <2>1 DEF Worker
  <2>3. worker' = [worker EXCEPT ![s] = w]
    BY <1>9, <2>1 DEF Become
  <2>4. BeforeWrite(worker[s])
    BY <1>1 DEF BeforeWrite
  <2>5. ~w.finalPath /\ ~w.fileId /\ objects[<<t, g>>] # "stored" /\ <<t, g>> \notin files
    BY <1>1, <1>3, <2>2, <2>4 DEF WorkerInv, Unwritten
  <2>6. WritingInv(w)'
    BY <1>4, <1>7, <1>9, <2>2, <2>5 DEF WritingInv
  <2>7. ~BeforeWrite(w) /\ w.pc \notin {"idle", "claim"}
    BY <2>2 DEF BeforeWrite
  <2> QED BY <1>1, <1>3, <1>5, <1>7, <1>9, <2>2, <2>3, <2>6, <2>7, WorkerStep
<1> QED BY <1>3, <1>6, <1>8, <1>9 DEF Begin, Happens, MayHappen, TaskOf

\* A worker at its operation, which a step keeps open.
LEMMA WritingFacts ==
  ASSUME IInv, NEW s \in Places, Writing(worker[s])
  PROVE  /\ worker[s].pc \in Settling
         /\ WritingInv(worker[s])
         /\ worker[s] \in Worker
         /\ TablesTypeOK /\ TaskInv /\ RestTypeOK
BY WorkerFacts DEF WorkerInv, Writing, Settling, InTry, Uploading, Undoing

LEMMA WritingStep ==
  ASSUME IInv, NEW s \in Places, Writing(worker[s]),
         NEW t \in Tasks, NEW g \in Executions,
         worker[s].task = t, worker[s].execution = g,
         TablesTypeOK', TaskInv', OnlyAt(t, g), RestTypeOK', row' = row, phase' = phase,
         NEW w \in Worker, worker' = [worker EXCEPT ![s] = w],
         w.task = t, w.execution = g,
         Writing(w), WritingInv(w)'
  PROVE  IInv'
<1>1. worker[s].pc \in Settling /\ TablesTypeOK
  BY WritingFacts
<1>2. Grows
  BY <1>1, Generations DEF Grows
<1>3. ~BeforeWrite(w) /\ w.pc \notin {"idle", "claim"}
  BY DEF Writing, BeforeWrite, Uploading, Undoing
<1> QED BY <1>1, <1>2, <1>3, WorkerStep

LEMMA SaveFileStep ==
  ASSUME IInv, NEW s \in Places, SaveFile(s)
  PROVE  IInv'
<1>1. worker[s].pc = "save" /\ Writing(worker[s])
  BY Points DEF SaveFile, At, Writing
<1>2. /\ WritingInv(worker[s]) /\ worker[s] \in Worker /\ worker[s].pc \in Settling
      /\ TablesTypeOK /\ TaskInv /\ RestTypeOK /\ TypeOK
  BY <1>1, WritingFacts DEF IInv
<1>3. PICK t \in Tasks : \E g \in Executions :
        worker[s].task = t /\ worker[s].execution = g
  BY <1>2, ExecutionOf
<1>4. PICK g \in Executions : worker[s].task = t /\ worker[s].execution = g
  BY <1>3
<1>5. /\ UNCHANGED <<tables, queue, controllers, calls, files, phase>>
      /\ NoFault \/ Disturbance
  BY DEF SaveFile
<1>6. PICK o \in {"stored", "inDoubt"} :
        /\ objects' = [objects EXCEPT ![<<t, g>>] = o]
        /\ o = "stored" => Become(s, [worker[s] EXCEPT !.pc = "markObject", !.finalPath = TRUE])
        /\ o = "inDoubt" => Goto(s, "undoObject")
  BY <1>4 DEF SaveFile, Execution
<1>7. objects' \in [Tasks \X Executions -> {"none", "stored", "inDoubt"}]
  BY <1>2, <1>6 DEF RestTypeOK
<1>8. RestTypeOK'
  BY <1>2, <1>5, <1>7, BudgetTypeOK DEF RestTypeOK
<1>9. /\ objects'[<<t, g>>] = o
      /\ \A u \in Tasks : \A h \in Executions : <<u, h>> # <<t, g>> =>
           objects'[<<u, h>>] = objects[<<u, h>>]
  BY <1>2, <1>6 DEF RestTypeOK
<1>10. Pending(t, g)
  BY <1>2, <1>4 DEF WritingInv
<1>11. TablesTypeOK' /\ TaskInv' /\ Pending(t, g)' /\ OnlyAt(t, g)
  BY <1>2, <1>5, <1>9, <1>10, StoreMoves
<1>12. <<t, g>> \notin files
  BY <1>1, <1>2, <1>4 DEF WritingInv, Uploading
<1>13. CASE o = "stored"
  <2>1. PICK w \in Worker : w = [worker[s] EXCEPT !.pc = "markObject", !.finalPath = TRUE]
    BY <1>2, Points DEF Worker
  <2>2. /\ w.pc = "markObject" /\ w.task = t /\ w.execution = g
        /\ w.finalPath = TRUE /\ w.fileId = worker[s].fileId /\ w.wrote
    BY <1>2, <1>4, <2>1 DEF Worker, WritingInv
  <2>3. worker' = [worker EXCEPT ![s] = w]
    BY <1>6, <1>13, <2>1 DEF Become
  <2>4. ~worker[s].fileId
    BY <1>1, <1>2 DEF WritingInv, Uploading
  <2>5. WritingInv(w)' /\ Writing(w)
    BY <1>5, <1>11, <1>12, <2>2, <2>4, Points DEF WritingInv, Writing
  <2> QED BY <1>1, <1>4, <1>5, <1>8, <1>11, <2>2, <2>3, <2>5, WritingStep
<1>14. CASE o = "inDoubt"
  <2>1. PICK w \in Worker : w = [worker[s] EXCEPT !.pc = "undoObject"]
    BY <1>2, Points DEF Worker
  <2>2. w.pc = "undoObject" /\ w.task = t /\ w.execution = g /\ w.wrote
    BY <1>2, <1>4, <2>1 DEF Worker, WritingInv
  <2>3. worker' = [worker EXCEPT ![s] = w]
    BY <1>6, <1>14, <2>1 DEF Goto
  <2>4. WritingInv(w)' /\ Writing(w)
    BY <1>5, <1>9, <1>11, <1>12, <1>14, <2>2, Points DEF WritingInv, Writing
  <2> QED BY <1>1, <1>4, <1>5, <1>8, <1>11, <2>2, <2>3, <2>4, WritingStep
<1> QED BY <1>13, <1>14

LEMMA MarkObjectStep ==
  ASSUME IInv, NEW s \in Places, MarkObject(s)
  PROVE  IInv'
<1>1. worker[s].pc = "markObject" /\ Writing(worker[s])
  BY Points DEF MarkObject, At, Writing
<1>2. /\ WritingInv(worker[s]) /\ worker[s] \in Worker /\ worker[s].pc \in Settling
      /\ TablesTypeOK /\ TaskInv /\ RestTypeOK /\ TypeOK
  BY <1>1, WritingFacts DEF IInv
<1>3. PICK t \in Tasks : \E g \in Executions :
        worker[s].task = t /\ worker[s].execution = g
  BY <1>2, ExecutionOf
<1>4. PICK g \in Executions : worker[s].task = t /\ worker[s].execution = g
  BY <1>3
<1>5. Pending(t, g)
  BY <1>2, <1>4 DEF WritingInv
<1>6. /\ UNCHANGED <<queue, controllers, calls, store, phase>>
      /\ NoFault \/ Fault
  BY DEF MarkObject, Happens, MayHappen
<1>7. RestTypeOK' /\ phase' = phase
  BY <1>6, RestUnchanged
<1>8. PICK l \in {"recheck", "undoObject"} : Goto(s, l)
  BY DEF MarkObject
<1>9. row' = row /\ TablesTypeOK' /\ TaskInv' /\ Pending(t, g)' /\ OnlyAt(t, g)
  <2>1. CASE MarkObjectPresent(t, g)
    <3>1. row' = row
      BY <2>1 DEF MarkObjectPresent
    <3> QED BY <1>2, <1>5, <1>6, <2>1, <3>1, MarkMoves
  <2>2. CASE UNCHANGED tables
    BY <1>2, <1>5, <1>6, <2>2, StoreMoves
  <2> QED BY <1>4, <2>1, <2>2 DEF MarkObject, Happens, MayHappen, TaskOf
<1>10. PICK w \in Worker : w = [worker[s] EXCEPT !.pc = l]
  BY <1>2, Points, GotoFields
<1>11. /\ w.pc = l /\ w.task = t /\ w.execution = g
       /\ w.finalPath = worker[s].finalPath /\ w.fileId = worker[s].fileId
       /\ w.wrote
  BY <1>2, <1>4, <1>10 DEF Worker, WritingInv
<1>12. worker' = [worker EXCEPT ![s] = w]
  BY <1>8, <1>10 DEF Goto
<1>13. WritingInv(w)' /\ Writing(w)
  BY <1>1, <1>2, <1>4, <1>6, <1>9, <1>11, Points DEF WritingInv, Writing
<1> QED BY <1>1, <1>4, <1>7, <1>9, <1>11, <1>12, <1>13, WritingStep

LEMMA IndexStep ==
  ASSUME IInv, NEW s \in Places, Index(s)
  PROVE  IInv'
<1>1. worker[s].pc = "index" /\ Writing(worker[s])
  BY Points DEF Index, At, Writing
<1>2. /\ WritingInv(worker[s]) /\ worker[s] \in Worker /\ worker[s].pc \in Settling
      /\ TablesTypeOK /\ TaskInv /\ RestTypeOK /\ TypeOK
  BY <1>1, WritingFacts DEF IInv
<1>3. PICK t \in Tasks : \E g \in Executions :
        worker[s].task = t /\ worker[s].execution = g
  BY <1>2, ExecutionOf
<1>4. PICK g \in Executions : worker[s].task = t /\ worker[s].execution = g
  BY <1>3
<1>5. Pending(t, g)
  BY <1>2, <1>4 DEF WritingInv
<1>6. /\ UNCHANGED <<queue, controllers, calls, objects, phase>>
      /\ NoFault \/ Fault
  BY DEF Index
<1>7. ~worker[s].fileId /\ <<t, g>> \notin files
      /\ (~worker[s].finalPath => objects[<<t, g>>] # "stored")
  BY <1>1, <1>2, <1>4 DEF WritingInv, Uploading
<1>8. CASE UNCHANGED <<tables, files>>
  <2>1. PICK w \in Worker : /\ worker' = [worker EXCEPT ![s] = w]
                            /\ w.pc = "undoObject" /\ w.task = t /\ w.execution = g
                            /\ w.finalPath = worker[s].finalPath /\ w.wrote
    <3>1. CASE Goto(s, "undoObject")
      <4>1. PICK w \in Worker : w = [worker[s] EXCEPT !.pc = "undoObject"]
        BY <1>2, Points, GotoFields
      <4> QED BY <1>2, <1>4, <3>1, <4>1 DEF Goto, Worker, WritingInv
    <3>2. CASE Become(s, [worker[s] EXCEPT !.pc = "undoObject", !.fileId = TRUE])
      <4>1. PICK w \in Worker : w = [worker[s] EXCEPT !.pc = "undoObject", !.fileId = TRUE]
        BY <1>2, Points DEF Worker
      <4> QED BY <1>2, <1>4, <3>2, <4>1 DEF Become, Worker, WritingInv
    <3>3. CASE InsertFile(s)
      <4>1. <<t, g>> \in files'
        BY <1>4, <3>3 DEF InsertFile, Execution
      <4> QED BY <1>7, <1>8, <4>1
    <3> QED BY <3>1, <3>2, <3>3 DEF Index
  <2>2. row' = row /\ TablesTypeOK' /\ TaskInv' /\ Pending(t, g)' /\ OnlyAt(t, g)
    BY <1>2, <1>5, <1>6, <1>8, StoreMoves
  <2>3. WritingInv(w)' /\ Writing(w)
    BY <1>6, <1>7, <1>8, <2>1, <2>2, Points DEF WritingInv, Writing
  <2>4. RestTypeOK' /\ phase' = phase
    BY <1>6, <1>8, RestUnchanged
  <2> QED BY <1>1, <1>4, <2>1, <2>2, <2>3, <2>4, WritingStep
<1>9. CASE InsertFile(s)
  <2>1. /\ MarkIndexPresent(t, g) /\ files' = files \cup {<<t, g>>}
        /\ row' = row
    BY <1>4, <1>9 DEF InsertFile, TaskOf, Execution, MarkIndexPresent
  <2>2. TablesTypeOK' /\ TaskInv' /\ Pending(t, g)' /\ OnlyAt(t, g)
    BY <1>2, <1>5, <1>6, <2>1, MarkMoves
  <2>3. RestTypeOK'
    BY <1>2, <1>6, <2>1, BudgetTypeOK DEF RestTypeOK
  <2>4. PICK l \in {"settle", "undoObject"} :
          Become(s, [worker[s] EXCEPT !.pc = l, !.fileId = TRUE])
    <3>1. ~UNCHANGED <<tables, files>>
      BY <1>7, <2>1
    <3> QED BY <3>1 DEF Index
  <2>5. PICK w \in Worker : w = [worker[s] EXCEPT !.pc = l, !.fileId = TRUE]
    BY <1>2, Points DEF Worker
  <2>6. /\ w.pc = l /\ w.task = t /\ w.execution = g /\ w.fileId = TRUE
        /\ w.finalPath = worker[s].finalPath
        /\ w.wrote = worker[s].wrote
    BY <1>2, <1>4, <2>5 DEF Worker
  <2>7. worker' = [worker EXCEPT ![s] = w]
    BY <2>4, <2>5 DEF Become
  <2>8. worker[s].wrote
    BY <1>2 DEF WritingInv
  <2>9. WritingInv(w)' /\ Writing(w)
    BY <1>6, <1>7, <2>1, <2>2, <2>6, <2>8, Points DEF WritingInv, Writing
  <2> QED BY <1>1, <1>4, <1>6, <2>1, <2>2, <2>3, <2>6, <2>7, <2>9, WritingStep
<1> QED BY <1>8, <1>9 DEF Index

LEMMA UndoObjectStep ==
  ASSUME IInv, NEW s \in Places, UndoObject(s)
  PROVE  IInv'
<1>1. worker[s].pc = "undoObject" /\ Writing(worker[s])
  BY Points DEF UndoObject, At, Writing
<1>2. /\ WritingInv(worker[s]) /\ worker[s] \in Worker /\ worker[s].pc \in Settling
      /\ TablesTypeOK /\ TaskInv /\ RestTypeOK /\ TypeOK
  BY <1>1, WritingFacts DEF IInv
<1>3. PICK t \in Tasks : \E g \in Executions :
        worker[s].task = t /\ worker[s].execution = g
  BY <1>2, ExecutionOf
<1>4. PICK g \in Executions : worker[s].task = t /\ worker[s].execution = g
  BY <1>3
<1>5. Pending(t, g)
  BY <1>2, <1>4 DEF WritingInv
<1>6. /\ UNCHANGED <<tables, queue, controllers, calls, files, phase>>
      /\ NoFault \/ Disturbance
      /\ objects' \in {objects, [objects EXCEPT ![<<t, g>>] = "none"]}
  BY <1>4 DEF UndoObject, Execution
<1>7. PICK deleted \in BOOLEAN :
        /\ Become(s, [worker[s] EXCEPT !.pc = "undoIndex", !.objectDeleted = deleted])
        /\ deleted => objects' = IF worker[s].finalPath
                                 THEN [objects EXCEPT ![<<t, g>>] = "none"] ELSE objects
  BY <1>4 DEF UndoObject, Execution
<1>8. /\ objects' \in [Tasks \X Executions -> {"none", "stored", "inDoubt"}]
      /\ \A u \in Tasks : \A h \in Executions : <<u, h>> # <<t, g>> =>
           objects'[<<u, h>>] = objects[<<u, h>>]
      /\ objects'[<<t, g>>] = "stored" => objects[<<t, g>>] = "stored"
      /\ objects' = [objects EXCEPT ![<<t, g>>] = "none"] => objects'[<<t, g>>] = "none"
  BY <1>2, <1>6 DEF RestTypeOK
<1>9. RestTypeOK'
  BY <1>2, <1>6, <1>8, BudgetTypeOK DEF RestTypeOK
<1>10. TablesTypeOK' /\ TaskInv' /\ Pending(t, g)' /\ OnlyAt(t, g)
  BY <1>2, <1>5, <1>6, <1>8, StoreMoves
<1>11. PICK w \in Worker :
         w = [worker[s] EXCEPT !.pc = "undoIndex", !.objectDeleted = deleted]
  BY <1>2, Points DEF Worker
<1>12. /\ w.pc = "undoIndex" /\ w.task = t /\ w.execution = g
       /\ w.finalPath = worker[s].finalPath /\ w.fileId = worker[s].fileId
       /\ w.wrote
       /\ w.objectDeleted = deleted
  BY <1>2, <1>4, <1>11 DEF Worker, WritingInv
<1>13. worker' = [worker EXCEPT ![s] = w]
  BY <1>7, <1>11 DEF Become
<1>14. /\ ~worker[s].finalPath => objects[<<t, g>>] # "stored"
       /\ ~worker[s].fileId => <<t, g>> \notin files
  BY <1>2, <1>4 DEF WritingInv
<1>15. deleted => objects'[<<t, g>>] # "stored"
  BY <1>7, <1>8, <1>14
<1>16. WritingInv(w)' /\ Writing(w)
  BY <1>6, <1>8, <1>10, <1>12, <1>14, <1>15, Points DEF WritingInv, Writing
<1> QED BY <1>1, <1>4, <1>6, <1>9, <1>10, <1>12, <1>13, <1>16, WritingStep

LEMMA UndoIndexStep ==
  ASSUME IInv, NEW s \in Places, UndoIndex(s)
  PROVE  IInv'
<1>1. worker[s].pc = "undoIndex" /\ Writing(worker[s])
  BY Points DEF UndoIndex, At, Writing
<1>2. /\ WritingInv(worker[s]) /\ worker[s] \in Worker /\ worker[s].pc \in Settling
      /\ TablesTypeOK /\ TaskInv /\ RestTypeOK /\ TypeOK
  BY <1>1, WritingFacts DEF IInv
<1>3. PICK t \in Tasks : \E g \in Executions :
        worker[s].task = t /\ worker[s].execution = g
  BY <1>2, ExecutionOf
<1>4. PICK g \in Executions : worker[s].task = t /\ worker[s].execution = g
  BY <1>3
<1>5. Pending(t, g)
  BY <1>2, <1>4 DEF WritingInv
<1>6. /\ UNCHANGED <<tables, queue, controllers, calls, objects, phase>>
      /\ NoFault \/ Fault
      /\ files' \in {files, files \ {<<t, g>>}}
  BY <1>4 DEF UndoIndex, Execution
<1>7. /\ ~worker[s].finalPath => objects[<<t, g>>] # "stored"
      /\ ~worker[s].fileId => <<t, g>> \notin files
      /\ worker[s].objectDeleted => objects[<<t, g>>] # "stored"
  BY <1>1, <1>2, <1>4 DEF WritingInv
<1>8. PICK deleted \in BOOLEAN :
        /\ Become(s, [worker[s] EXCEPT !.pc = "undoRecord", !.indexDeleted = deleted])
        /\ deleted => <<t, g>> \notin files'
  <2>1. CASE worker[s].fileId /\ files' = files \ {<<t, g>>}
             /\ Become(s, [worker[s] EXCEPT !.pc = "undoRecord",
                                           !.indexDeleted = <<t, g>> \in files])
    <3>1. (<<t, g>> \in files) \in BOOLEAN /\ <<t, g>> \notin files'
      BY <2>1
    <3> QED BY <2>1, <3>1
  <2>2. CASE ~worker[s].fileId /\ UNCHANGED files
             /\ Become(s, [worker[s] EXCEPT !.pc = "undoRecord", !.indexDeleted = TRUE])
    BY <1>7, <2>2
  <2>3. CASE Become(s, [worker[s] EXCEPT !.pc = "undoRecord", !.indexDeleted = FALSE])
    BY <2>3
  <2> QED BY <1>4, <2>1, <2>2, <2>3 DEF UndoIndex, Execution
<1>9. RestTypeOK'
  BY <1>2, <1>6, BudgetTypeOK DEF RestTypeOK
<1>10. TablesTypeOK' /\ TaskInv' /\ Pending(t, g)' /\ OnlyAt(t, g)
  BY <1>2, <1>5, <1>6, StoreMoves
<1>11. PICK w \in Worker :
         w = [worker[s] EXCEPT !.pc = "undoRecord", !.indexDeleted = deleted]
  BY <1>2, Points DEF Worker
<1>12. /\ w.pc = "undoRecord" /\ w.task = t /\ w.execution = g
       /\ w.finalPath = worker[s].finalPath /\ w.fileId = worker[s].fileId
       /\ w.wrote
       /\ w.objectDeleted = worker[s].objectDeleted /\ w.indexDeleted = deleted
  BY <1>2, <1>4, <1>11 DEF Worker, WritingInv
<1>13. worker' = [worker EXCEPT ![s] = w]
  BY <1>8, <1>11 DEF Become
<1>14. WritingInv(w)' /\ Writing(w)
  BY <1>6, <1>7, <1>8, <1>10, <1>12, Points DEF WritingInv, Writing
<1> QED BY <1>1, <1>4, <1>6, <1>9, <1>10, <1>12, <1>13, <1>14, WritingStep

LEMMA UndoRecordStep ==
  ASSUME IInv, NEW s \in Places, UndoRecord(s)
  PROVE  IInv'
<1>1. worker[s].pc = "undoRecord" /\ Writing(worker[s])
  BY Points DEF UndoRecord, At, Writing
<1>2. /\ WritingInv(worker[s]) /\ worker[s] \in Worker /\ worker[s].pc \in Settling
      /\ TablesTypeOK /\ TaskInv /\ RestTypeOK /\ TypeOK
  BY <1>1, WritingFacts DEF IInv
<1>3. PICK t \in Tasks : \E g \in Executions :
        worker[s].task = t /\ worker[s].execution = g
  BY <1>2, ExecutionOf
<1>4. PICK g \in Executions : worker[s].task = t /\ worker[s].execution = g
  BY <1>3
<1>5. Pending(t, g)
  BY <1>2, <1>4 DEF WritingInv
<1>6. /\ UNCHANGED <<queue, controllers, calls, store, phase>>
      /\ NoFault \/ Fault
      /\ Leave(s, "failing")
  BY DEF UndoRecord, Happens, MayHappen
<1>7. CASE UNCHANGED tables
  BY <1>2, <1>6, <1>7, QuietLeaveStep
<1>8. PICK o \in BOOLEAN : o = worker[s].objectDeleted
  BY <1>2 DEF Worker
<1>9. PICK i \in BOOLEAN : i = worker[s].indexDeleted
  BY <1>2 DEF Worker
<1>10. CASE UpdateCompensation(t, g, o, i)
  <2>1. /\ o => objects[<<t, g>>] # "stored"
        /\ i => <<t, g>> \notin files
    BY <1>1, <1>2, <1>4, <1>8, <1>9 DEF WritingInv
  <2>2. TablesTypeOK' /\ TaskInv' /\ OnlyAt(t, g)
    BY <1>2, <1>5, <1>6, <1>10, <2>1, CompensationMoves
  <2>3. Grows
    BY <1>2, <1>10, Generations DEF Grows, UpdateCompensation
  <2>4. RestTypeOK' /\ phase' = phase
    BY <1>6, RestUnchanged
  <2> QED BY <1>2, <1>4, <1>6, <2>2, <2>3, <2>4, LeaveStep
<1> QED BY <1>4, <1>7, <1>8, <1>9, <1>10 DEF UndoRecord, Happens, MayHappen, TaskOf

LEMMA SettleStep ==
  ASSUME IInv, NEW s \in Places, Settle(s)
  PROVE  IInv'
<1>1. /\ worker[s].pc = "settle" /\ worker[s].pc \in Settling
      /\ worker[s] \in Worker /\ WorkerInv(s)
      /\ TablesTypeOK /\ TaskInv
  BY Points, WorkerFacts DEF Settle, At
<1>2. PICK t \in Tasks : \E g \in Executions :
        worker[s].task = t /\ worker[s].execution = g
  BY <1>1, ExecutionOf
<1>3. PICK g \in Executions : worker[s].task = t /\ worker[s].execution = g
  BY <1>2
<1>4. PICK wrote \in BOOLEAN : wrote = worker[s].wrote
  BY <1>1 DEF Worker
<1>5. /\ UNCHANGED <<queue, controllers, calls, store, phase>>
      /\ NoFault \/ Fault
  BY DEF Settle, Happens, MayHappen
<1>6. RestTypeOK' /\ phase' = phase
  BY <1>5, RestUnchanged
<1>7. CASE UNCHANGED tables /\ \E l \in {"failing", "ending"} : Leave(s, l)
  BY <1>1, <1>5, <1>7, QuietLeaveStep
<1>8. CASE UNCHANGED tables /\ wrote /\ Goto(s, "undoObject")
  <2>1. GoesOn(worker[s], "undoObject")
    BY <1>1, <1>4, <1>8 DEF GoesOn, Writing
  <2> QED BY <1>1, <1>5, <1>8, <2>1, Points, QuietGotoStep
<1>9. CASE SettleCompleted(t, g, wrote) /\ \E l \in {"failing", "ending"} : Leave(s, l)
  <2>1. wrote => <<t, g>> \in files
    BY <1>1, <1>3, <1>4 DEF WorkerInv, Writing, WritingInv
  <2>2. ~wrote => ~Pending(t, g)
    BY <1>1, <1>3, <1>4 DEF WorkerInv, BeforeWrite, Unwritten
  <2>3. /\ TablesTypeOK' /\ TaskInv' /\ OnlyAt(t, g)
        /\ \A u \in Tasks : row'[u].generation = row[u].generation
    BY <1>1, <1>5, <1>9, <2>1, <2>2, SettleMoves
  <2>4. Grows
    BY <1>1, <2>3, Generations DEF Grows
  <2> QED BY <1>1, <1>3, <1>6, <1>9, <2>3, <2>4, LeaveStep
<1> QED BY <1>3, <1>4, <1>7, <1>8, <1>9 DEF Settle, Happens, MayHappen, TaskOf

\* A worker that has no execution any more.
LEMMA EndingStep ==
  ASSUME IInv, NEW s \in Places, Ending(s)
  PROVE  IInv'
<1>1. /\ worker[s].pc = "ending" /\ worker[s] \in Worker /\ WorkerInv(s)
      /\ worker \in [Places -> Worker]
      /\ TablesTypeOK /\ TaskInv /\ RestTypeOK /\ TypeOK
      /\ worker[s].task \in Tasks
  BY WorkerFacts DEF Ending, At, IInv
<1>2. /\ TablesTypeOK' /\ TaskInv' /\ Grows
      /\ \A t \in Tasks : \A g \in Executions : Same(t, g)
  BY <1>1, TablesUnchanged DEF Ending
<1>3. controllers' \in [Tasks -> Places \cup {0, Leaked}]
  BY <1>1 DEF Ending, RestTypeOK
<1>4. RestTypeOK'
  BY <1>1, <1>3, BudgetTypeOK DEF Ending, RestTypeOK
<1>5. PICK w \in Worker : w = [worker[s] EXCEPT !.pc = "ended"]
  BY <1>1, GotoFields
<1>6. w.pc = "ended" /\ w.task = worker[s].task
  BY <1>1, <1>5 DEF Worker
<1>7. worker' = [worker EXCEPT ![s] = w]
  BY <1>5 DEF Ending, Goto
<1>8. w.pc \notin Settling
  BY <1>6, Points
<1>9. \A r \in Places : worker[r].pc \in Settling =>
         Same(worker[r].task, worker[r].execution)
  BY <1>2, WorkerFacts
<1>10. /\ worker' \in [Places -> Worker]
       /\ OwnExecution'
       /\ \A r \in Places \ {s} : WorkerInv(r)'
  BY <1>2, <1>7, <1>8, <1>9, OthersStay
<1>11. worker'[s] = w
  BY <1>1, <1>7
<1>12. WorkerInv(s)'
  BY <1>1, <1>6, <1>8, <1>11, Points
     DEF WorkerInv, At, TaskOf, BeforeWrite, Writing
<1>13. DownIsEmpty'
  BY <1>1, AwakeIsUp DEF DownIsEmpty, Ending, At
<1>14. TypeOK'
  BY <1>2, <1>4, <1>10 DEF TypeOK, RestTypeOK
<1> QED BY <1>2, <1>10, <1>12, <1>13, <1>14 DEF IInv

LEMMA WorkerEndsStep ==
  ASSUME IInv, NEW s \in Places, WorkerEnds(s)
  PROVE  IInv'
<1>1. /\ worker[s].pc = "ended"
      /\ worker \in [Places -> Worker]
      /\ TablesTypeOK /\ TaskInv /\ RestTypeOK /\ TypeOK
      /\ worker[s].task \in Tasks
  BY WorkerFacts DEF WorkerEnds, At, IInv
<1>2. /\ TablesTypeOK' /\ TaskInv' /\ Grows
      /\ \A t \in Tasks : \A g \in Executions : Same(t, g)
  BY <1>1, TablesUnchanged DEF WorkerEnds
<1>3. RestTypeOK'
  <2>1. known' \subseteq Tasks /\ calls' \subseteq Calls
    BY <1>1 DEF WorkerEnds, RestTypeOK, TaskOf, Calls
  <2> QED BY <1>1, <2>1, BudgetTypeOK DEF WorkerEnds, RestTypeOK
<1>4. Idle \in Worker /\ Idle.pc = "idle"
  BY DEF Idle, Fresh, Worker
<1>5. worker' = [worker EXCEPT ![s] = Idle]
  BY DEF WorkerEnds, Become
<1>6. Idle.pc \notin Settling
  BY <1>4, Points
<1>7. \A r \in Places : worker[r].pc \in Settling =>
         Same(worker[r].task, worker[r].execution)
  BY <1>2, WorkerFacts
<1>8. /\ worker' \in [Places -> Worker]
      /\ OwnExecution'
      /\ \A r \in Places \ {s} : WorkerInv(r)'
  BY <1>2, <1>4, <1>5, <1>6, <1>7, OthersStay
<1>9. worker'[s] = Idle
  BY <1>1, <1>5
<1>10. WorkerInv(s)'
  BY <1>4, <1>6, <1>9, Points
     DEF WorkerInv, At, BeforeWrite, Writing
<1>11. DownIsEmpty'
  BY <1>1, AwakeIsUp DEF DownIsEmpty, WorkerEnds, At
<1>12. TypeOK'
  BY <1>2, <1>3, <1>8 DEF TypeOK, RestTypeOK
<1> QED BY <1>2, <1>8, <1>10, <1>11, <1>12 DEF IInv

LEMMA ClaimStep ==
  ASSUME IInv, NEW s \in Places, ClaimWon(s) \/ ClaimRefused(s)
  PROVE  IInv'
<1>1. /\ worker[s].pc = "claim" /\ worker[s] \in Worker /\ WorkerInv(s)
      /\ worker \in [Places -> Worker]
      /\ TablesTypeOK /\ TaskInv
      /\ worker[s].task \in Tasks
  BY WorkerFacts DEF ClaimWon, ClaimRefused, At
<1>2. PICK t \in Tasks : worker[s].task = t
  BY <1>1
<1>3. ~worker[s].wrote /\ ~worker[s].finalPath /\ ~worker[s].fileId
  BY <1>1 DEF WorkerInv, At
<1>4. /\ UNCHANGED <<queue, controllers, calls, store, phase>>
      /\ NoFault \/ Fault
  BY DEF ClaimWon, ClaimRefused, Happens, MayHappen
<1>5. RestTypeOK' /\ phase' = phase
  BY <1>4, RestUnchanged
<1>6. DownIsEmpty'
  BY <1>1, <1>5, AwakeIsUp DEF DownIsEmpty, At
<1>7. ASSUME Claim(t), row[t].generation < MaxGeneration
      PROVE  /\ TablesTypeOK' /\ TaskInv' /\ Grows
             /\ \A u \in Tasks : \A g \in Executions : Same(u, g)
             /\ row'[t].generation = row[t].generation + 1
             /\ row'[t].generation \in Executions
  <2>1. /\ RowsMoved
        /\ row'[t].generation = row[t].generation + 1
        /\ row'[t].generation \in Executions
    BY <1>1, <1>7, ClaimMoves
  <2>2. TablesTypeOK' /\ TaskInv'
    BY <1>1, <1>4, <2>1, RowsMove DEF RowsMoved
  <2>3. Grows /\ \A u \in Tasks : \A g \in Executions : Same(u, g)
    BY <1>1, <1>4, <2>1, RowsMovedGrow DEF Grows, Same, RowsMoved
  <2> QED BY <2>1, <2>2, <2>3
<1>8. CASE Leave(s, "ended") /\ (UNCHANGED tables \/ (ClaimRefused(s) /\ Claim(t)))
  <2>1. /\ TablesTypeOK' /\ TaskInv' /\ Grows
        /\ \A u \in Tasks : \A g \in Executions : Same(u, g)
    <3>1. CASE UNCHANGED tables
      BY <1>1, <1>4, <3>1, TablesUnchanged
    <3>2. CASE ClaimRefused(s) /\ Claim(t)
      <4>1. CASE row[t].generation < MaxGeneration
        BY <1>7, <3>2, <4>1
      <4>2. CASE ~(row[t].generation < MaxGeneration)
        <5>1. UNCHANGED tables
          BY <1>2, <3>2, <4>2 DEF ClaimRefused, TaskOf
        <5> QED BY <3>1, <5>1
      <4> QED BY <4>1, <4>2
    <3> QED BY <1>8, <3>1, <3>2
  <2>2. PICK w \in Worker : /\ worker' = [worker EXCEPT ![s] = w]
                            /\ w.pc = "ended" /\ w.task = t
    BY <1>1, <1>2, <1>8, LeftFields DEF Leave
  <2>3. w.pc \notin Settling
    BY <2>2, Points
  <2>4. \A r \in Places : worker[r].pc \in Settling =>
           Same(worker[r].task, worker[r].execution)
    BY <2>1, WorkerFacts
  <2>5. /\ worker' \in [Places -> Worker]
        /\ OwnExecution'
        /\ \A r \in Places \ {s} : WorkerInv(r)'
    BY <2>1, <2>2, <2>3, <2>4, OthersStay
  <2>6. worker'[s] = w
    BY <1>1, <2>2
  <2>7. WorkerInv(s)'
    BY <2>2, <2>3, <2>6, Points DEF WorkerInv, At, TaskOf, BeforeWrite, Writing
  <2>8. TypeOK'
    BY <1>5, <2>1, <2>5 DEF TypeOK, RestTypeOK
  <2> QED BY <1>6, <2>1, <2>5, <2>7, <2>8 DEF IInv
<1>9. CASE ClaimWon(s)
  <2>1. Claim(t) /\ row[t].generation < MaxGeneration
    BY <1>2, <1>9 DEF ClaimWon, Happens, TaskOf
  <2>2. /\ TablesTypeOK' /\ TaskInv' /\ Grows
        /\ \A u \in Tasks : \A g \in Executions : Same(u, g)
        /\ row'[t].generation = row[t].generation + 1
        /\ row'[t].generation \in Executions
    BY <1>7, <2>1
  <2>3. PICK g \in Executions : g = row[t].generation + 1
    BY <2>2
  <2>4. PICK w \in Worker : w = [worker[s] EXCEPT !.pc = "register", !.execution = g]
    <3>1. "register" \in Settling
      BY Points
    <3> QED BY <1>1, <3>1 DEF Worker
  <2>5. /\ w.pc = "register" /\ w.task = t /\ w.execution = g
        /\ ~w.wrote /\ ~w.finalPath /\ ~w.fileId
    BY <1>1, <1>2, <1>3, <2>4 DEF Worker
  <2>6. worker' = [worker EXCEPT ![s] = w]
    BY <1>2, <1>9, <2>3, <2>4 DEF ClaimWon, Become, TaskOf
  <2>7. /\ worker' \in [Places -> Worker]
        /\ worker'[s] = w
        /\ \A r \in Places \ {s} : worker'[r] = worker[r]
    BY <1>1, <2>6
  <2>8. row[t].generation \in Nat /\ g > row[t].generation
    BY <1>1, <2>3, Generations
  <2>9. ASSUME NEW r \in Places \ {s}
        PROVE  /\ WorkerInv(r)'
               /\ worker[r].pc \in Settling => Execution(r) # <<t, g>>
    <3>1. worker[r].pc \in Settling => Same(worker[r].task, worker[r].execution)
      BY <2>2, WorkerFacts
    <3>2. WorkerInv(r)
      BY DEF IInv
    <3>3. WorkerInv(r)'
      BY <1>1, <2>2, <2>7, <3>1, <3>2, Elsewhere
    <3>4. ASSUME worker[r].pc \in Settling, worker[r].task = t
          PROVE  worker[r].execution # g
      <4>1. worker[r].execution \in 1..row[t].generation
        BY <3>2, <3>4 DEF WorkerInv, TaskOf
      <4> QED BY <2>8, <4>1
    <3> QED BY <3>3, <3>4 DEF Execution
  <2>10. OwnExecution'
    <3> SUFFICES ASSUME NEW p \in Places, NEW q \in Places, p # q,
                        worker'[p].pc \in Settling, worker'[q].pc \in Settling
                 PROVE  <<worker'[p].task, worker'[p].execution>>
                          # <<worker'[q].task, worker'[q].execution>>
      BY DEF OwnExecution, Execution
    <3>1. CASE p = s
      BY <2>5, <2>7, <2>9, <3>1 DEF Execution
    <3>2. CASE q = s
      BY <2>5, <2>7, <2>9, <3>2 DEF Execution
    <3>3. CASE p # s /\ q # s
      BY <2>7, <3>3 DEF IInv, OwnExecution, Execution
    <3> QED BY <3>1, <3>2, <3>3
  <2>11. FutureClean!(t)
    BY <1>1 DEF TaskInv, FutureClean
  <2>12. ~Pending(t, g)' /\ objects'[<<t, g>>] # "stored" /\ <<t, g>> \notin files'
    BY <2>2, <2>8, <2>11 DEF Same, Pending
  <2>13. WorkerInv(s)'
    <3>1. g \in 1..row'[t].generation
      BY <2>2, <2>3, <2>8 DEF Executions
    <3>2. ~Writing(w)
      BY <2>5, Points DEF Writing
    <3> QED BY <2>5, <2>7, <2>12, <3>1, <3>2
            DEF WorkerInv, At, TaskOf, BeforeWrite, Writing, Unwritten
  <2>14. TypeOK'
    BY <1>5, <2>2, <2>7 DEF TypeOK, RestTypeOK
  <2> QED BY <1>6, <2>2, <2>7, <2>9, <2>10, <2>13, <2>14 DEF IInv
<1>10. CASE ClaimRefused(s)
  <2>1. Leave(s, "ended")
    BY <1>10 DEF ClaimRefused
  <2>2. CASE UNCHANGED tables
    BY <1>8, <2>1, <2>2
  <2>3. CASE Claim(t)
    BY <1>8, <1>10, <2>1, <2>3
  <2> QED BY <1>2, <1>10, <2>2, <2>3 DEF ClaimRefused, MayHappen, TaskOf
<1> QED BY <1>9, <1>10

-----------------------------------------------------------------------------
(* The queue and the commands *)

LEMMA FreshIsWorker ==
  /\ \A t \in Tasks : Fresh(t) \in Worker
  /\ Idle \in Worker
BY DEF Fresh, Idle, Worker

\* process() starts workers in idle places only.
LEMMA ProcessStarts ==
  ASSUME NEW ws \in [Places -> Worker], NEW q \in Seq(Tasks), Process(ws, q)
  PROVE  /\ waiting' \in Seq(Tasks)
         /\ worker' \in [Places -> Worker]
         /\ \A s \in Places :
              \/ worker'[s] = ws[s]
              \/ ws[s].pc = "idle" /\ \E t \in Tasks : worker'[s] = Fresh(t)
<1> DEFINE idle    == {s \in Places : ws[s].pc = "idle"}
           rank(s) == Cardinality({r \in idle : r <= s})
           n       == IF Cardinality(idle) < Len(q) THEN Cardinality(idle) ELSE Len(q)
<1>1. /\ worker' = [s \in Places |-> IF s \in idle /\ rank(s) <= n
                                     THEN Fresh(q[rank(s)]) ELSE ws[s]]
      /\ waiting' = SubSeq(q, n + 1, Len(q))
  BY DEF Process
<1>2. IsFiniteSet(Places)
  BY BoundsOK, FS_Interval DEF Places
<1>3. Cardinality(idle) \in Nat
  <2>1. idle \in SUBSET Places
    OBVIOUS
  <2> HIDE DEF idle
  <2> QED BY <1>2, <2>1, FS_Subset, FS_CardinalityType
<1>4. n \in Nat /\ n <= Len(q) /\ Len(q) \in Nat
  <2> HIDE DEF idle
  <2> QED BY <1>3, LenProperties
<1>5. ASSUME NEW s \in idle
      PROVE  rank(s) \in Nat \ {0}
  <2> DEFINE upTo == {r \in idle : r <= s}
  <2>1. upTo \in SUBSET Places /\ s \in upTo
    BY BoundsOK DEF Places
  <2> HIDE DEF upTo
  <2>2. IsFiniteSet(upTo)
    BY <1>2, <2>1, FS_Subset
  <2>3. Cardinality(upTo) \in Nat /\ Cardinality(upTo) # 0
    BY <2>1, <2>2, FS_CardinalityType, FS_EmptySet
  <2> QED BY <2>3 DEF upTo
<1>6. waiting' \in Seq(Tasks)
  <2> HIDE DEF n
  <2>1. \A i \in (n + 1)..Len(q) : q[i] \in Tasks
    BY <1>4
  <2> QED BY <1>1, <1>4, <2>1, SubSeqProperties
<1>7. ASSUME NEW s \in Places
      PROVE  \/ worker'[s] = ws[s]
             \/ ws[s].pc = "idle" /\ \E t \in Tasks : worker'[s] = Fresh(t)
  <2>1. CASE s \in idle /\ rank(s) <= n
    <3> DEFINE i == rank(s)
    <3>1. i \in Nat \ {0} /\ i <= n /\ worker'[s] = Fresh(q[i])
      BY <1>1, <1>5, <2>1
    <3>2. ws[s].pc = "idle"
      BY <2>1
    <3> HIDE DEF i, n, idle
    <3>3. q[i] \in Tasks
      BY <1>4, <3>1
    <3> QED BY <3>1, <3>2, <3>3
  <2>2. CASE ~(s \in idle /\ rank(s) <= n)
    <3>1. worker'[s] = ws[s]
      BY <1>1, <2>2
    <3> QED BY <3>1
  <2> QED BY <2>1, <2>2
<1>8. worker' \in [Places -> Worker]
  <2>1. \A s \in Places : worker'[s] \in Worker
    BY <1>7, FreshIsWorker
  <2>2. worker' = [s \in Places |-> worker'[s]]
    BY <1>1
  <2> QED BY <2>1, <2>2
<1> QED BY <1>6, <1>7, <1>8

\* The tables move as a command moves them; workers stay, start in idle places,
\* or are aborted.
LEMMA CommandStep ==
  ASSUME IInv, TablesTypeOK', TaskInv', RestTypeOK', Grows, DownIsEmpty',
         \A t \in Tasks : \A g \in Executions : Same(t, g),
         worker' \in [Places -> Worker],
         \A s \in Places :
           \/ worker'[s] = worker[s]
           \/ worker[s].pc = "idle" /\ \E t \in Tasks : worker'[s] = Fresh(t)
           \/ \E reason \in {"ownership", "persistence"} :
                worker'[s] = Aborted(worker[s], reason)
  PROVE  IInv'
<1>1. TablesTypeOK /\ worker \in [Places -> Worker]
  BY TypeParts DEF IInv
<1>2. ASSUME NEW s \in Places
      PROVE  /\ WorkerInv(s)'
             /\ worker'[s].pc \in Settling =>
                  /\ worker[s].pc \in Settling
                  /\ worker'[s].task = worker[s].task
                  /\ worker'[s].execution = worker[s].execution
  <2>1. /\ WorkerInv(s) /\ worker[s] \in Worker
        /\ worker[s].pc \in Settling => Same(worker[s].task, worker[s].execution)
    BY WorkerFacts
  <2>2. CASE worker'[s] = worker[s]
    BY <1>1, <2>1, <2>2, Elsewhere
  <2>3. CASE worker[s].pc = "idle" /\ \E t \in Tasks : worker'[s] = Fresh(t)
    <3>1. PICK t \in Tasks : worker'[s] = Fresh(t)
      BY <2>3
    <3>2. worker'[s].pc = "claim" /\ worker'[s].task \in Tasks
          /\ ~worker'[s].wrote /\ ~worker'[s].finalPath /\ ~worker'[s].fileId
      BY <3>1 DEF Fresh
    <3>3. "claim" \notin Settling /\ ~BeforeWrite(worker[s])' /\ ~Writing(worker[s])'
      BY <3>2, Points DEF BeforeWrite, Writing
    <3> QED BY <3>2, <3>3 DEF WorkerInv, At, TaskOf
  <2>4. CASE \E reason \in {"ownership", "persistence"} :
               worker'[s] = Aborted(worker[s], reason)
    <3>1. PICK reason \in {"ownership", "persistence"} :
            worker'[s] = Aborted(worker[s], reason)
      BY <2>4
    <3> DEFINE v == Aborted(worker[s], reason)
    <3>2. /\ v.pc = worker[s].pc /\ v.task = worker[s].task
          /\ v.execution = worker[s].execution
          /\ v.wrote = worker[s].wrote /\ v.finalPath = worker[s].finalPath
          /\ v.fileId = worker[s].fileId
          /\ v.objectDeleted = worker[s].objectDeleted
          /\ v.indexDeleted = worker[s].indexDeleted
      BY <2>1, AbortedFields
    <3> HIDE DEF v
    <3>3. worker'[s] = v
      BY <3>1 DEF v
    <3>4. worker[s].pc # "idle" => worker[s].task \in Tasks
      BY <2>1 DEF WorkerInv, At, TaskOf
    <3>5. worker[s].pc \in Settling =>
            worker[s].execution \in 1..row'[worker[s].task].generation
      <4> SUFFICES ASSUME worker[s].pc \in Settling
                   PROVE  worker[s].execution \in 1..row'[worker[s].task].generation
        OBVIOUS
      <4>1. worker[s].task \in Tasks
        BY <3>4, Points
      <4>2. worker[s].execution \in 1..row[worker[s].task].generation
        BY <2>1 DEF WorkerInv, TaskOf
      <4>3. /\ row[worker[s].task].generation \in Nat
            /\ row'[worker[s].task].generation \in Nat
            /\ row'[worker[s].task].generation >= row[worker[s].task].generation
        BY <1>1, <4>1, Generations, NextGenerations DEF Grows
      <4> QED BY <4>2, <4>3
    <3>6. BeforeWrite(worker[s]) \/ Writing(worker[s]) => worker[s].pc \in Settling
      BY Points DEF BeforeWrite, Writing
    <3>7. BeforeWrite(v) => ~v.wrote /\ ~v.finalPath /\ ~v.fileId
      BY <2>1, <3>2 DEF WorkerInv, BeforeWrite
    <3>8. BeforeWrite(worker[s]) => Unwritten(worker[s])'
      <4> SUFFICES ASSUME BeforeWrite(worker[s])
                   PROVE  Unwritten(worker[s])'
        OBVIOUS
      <4>1. Unwritten(worker[s]) /\ Same(worker[s].task, worker[s].execution)
        BY <2>1, <3>6 DEF WorkerInv
      <4> QED BY <3>2, <3>3, <4>1 DEF Unwritten, Same, Pending
    <3>9. BeforeWrite(worker[s])' => BeforeWrite(v)
      BY <3>3 DEF BeforeWrite
    <3>10. BeforeWrite(v) => BeforeWrite(worker[s])
      BY <3>2 DEF BeforeWrite
    <3>11. Writing(worker[s])' => Writing(worker[s])
      BY <3>2, <3>3 DEF Writing
    <3>12. Writing(worker[s]) => WritingInv(worker[s])'
      <4> SUFFICES ASSUME Writing(worker[s])
                   PROVE  WritingInv(worker[s])'
        OBVIOUS
      <4>1. WritingInv(worker[s]) /\ Same(worker[s].task, worker[s].execution)
        BY <2>1, <3>6 DEF WorkerInv
      <4>2. Pending(worker[s].task, worker[s].execution)'
        BY <3>2, <3>3, <4>1 DEF WritingInv, Same, Pending
      <4>3. LET e == <<worker[s].task, worker[s].execution>>
                f == <<worker'[s].task, worker'[s].execution>>
            IN objects'[f] = objects[e] /\ (f \in files' <=> e \in files)
        BY <3>2, <3>3, <4>1 DEF Same
      <4> QED BY <3>2, <3>3, <4>1, <4>2, <4>3 DEF WritingInv
    <3>13. /\ (~At(s, "idle") => TaskOf(s) \in Tasks)'
           /\ (At(s, "claim") => ~worker[s].wrote /\ ~worker[s].finalPath
                                 /\ ~worker[s].fileId)'
      BY <2>1, <3>2, <3>3, <3>4 DEF WorkerInv, At, TaskOf
    <3>14. (worker[s].pc \in Settling =>
              worker[s].execution \in 1..row[TaskOf(s)].generation)'
      BY <3>2, <3>3, <3>5 DEF TaskOf
    <3>15. (BeforeWrite(worker[s]) => ~worker[s].wrote /\ ~worker[s].finalPath
                                     /\ ~worker[s].fileId /\ Unwritten(worker[s]))'
      BY <3>3, <3>7, <3>8, <3>9, <3>10
    <3>16. (Writing(worker[s]) => WritingInv(worker[s]))'
      BY <3>11, <3>12
    <3>17. WorkerInv(s)'
      BY <3>13, <3>14, <3>15, <3>16 DEF WorkerInv
    <3> QED BY <3>2, <3>3, <3>17
  <2> QED BY <2>2, <2>3, <2>4
<1>3. OwnExecution'
  BY <1>2 DEF IInv, OwnExecution, Execution
<1>4. TypeOK'
  BY DEF TypeOK, RestTypeOK
<1> QED BY <1>2, <1>3, <1>4 DEF IInv

\* The statement of a command, and the answer that comes later.
LEMMA StatementStep ==
  ASSUME IInv, NEW t \in Tasks, Submit(t) \/ Cancel(t) \/ Retry(t)
  PROVE  IInv'
<1>1. /\ TypeOK /\ TablesTypeOK /\ TaskInv /\ RestTypeOK /\ DownIsEmpty
      /\ worker \in [Places -> Worker]
  BY TypeParts DEF IInv
<1>2. /\ UNCHANGED <<worker, queue, controllers, store, phase>>
      /\ Fault \/ Disturbance
      /\ phase \in {"marked", "up"}
      /\ \/ UNCHANGED tables
         \/ CreateTask(t) \/ CancelTask(t) \/ RetryTask(t)
  BY DEF Submit, Cancel, Retry, Requested, MayHappen, Serving
<1>3. calls' \subseteq Calls
  <2>1. calls \subseteq Calls /\ {<<"enqueue", t>>, <<"abort", t>>} \subseteq Calls
    BY <1>1 DEF RestTypeOK, Calls
  <2>2. calls' \subseteq calls \cup {<<"enqueue", t>>, <<"abort", t>>}
    BY DEF Submit, Cancel, Retry
  <2> QED BY <2>1, <2>2
<1>4. RestTypeOK'
  BY <1>1, <1>2, <1>3, BudgetTypeOK DEF RestTypeOK
<1>5. DownIsEmpty'
  BY <1>2 DEF DownIsEmpty
<1>6. /\ TablesTypeOK' /\ TaskInv' /\ Grows
      /\ \A u \in Tasks : \A g \in Executions : Same(u, g)
  <2>1. CASE UNCHANGED tables
    BY <1>1, <1>2, <2>1, TablesUnchanged
  <2>2. CASE CreateTask(t) \/ CancelTask(t) \/ RetryTask(t)
    <3>1. RowsMoved
      BY <1>1, <2>2, CreateMoves, CancelMoves, RetryMoves
    <3>2. TablesTypeOK' /\ TaskInv'
      BY <1>1, <1>2, <3>1, RowsMove DEF RowsMoved
    <3>3. Grows /\ \A u \in Tasks : \A g \in Executions : Same(u, g)
      BY <1>1, <1>2, <3>1, RowsMovedGrow DEF Grows, Same, RowsMoved
    <3> QED BY <3>2, <3>3
  <2> QED BY <1>2, <2>1, <2>2
<1>7. /\ worker' \in [Places -> Worker]
      /\ \A s \in Places : worker'[s] = worker[s]
  BY <1>1, <1>2
<1> QED BY <1>4, <1>5, <1>6, <1>7, CommandStep

\* An answer arrives while no table and nothing stored moves.
LEMMA AnswerStep ==
  ASSUME IInv, NEW c \in calls,
         UNCHANGED <<tables, store, phase, controllers>>, NoFault \/ Fault,
         calls' \subseteq Calls,
         waiting' \in Seq(Tasks), known' \subseteq Tasks,
         worker' \in [Places -> Worker],
         \A s \in Places :
           \/ worker'[s] = worker[s]
           \/ worker[s].pc = "idle" /\ \E t \in Tasks : worker'[s] = Fresh(t)
           \/ \E reason \in {"ownership", "persistence"} :
                worker'[s] = Aborted(worker[s], reason)
  PROVE  IInv'
<1>1. TypeOK /\ TablesTypeOK /\ TaskInv /\ RestTypeOK
  BY TypeParts DEF IInv
<1>2. phase \notin {"down", "reconciled"}
  BY DEF IInv, DownIsEmpty
<1>3. DownIsEmpty'
  BY <1>2 DEF DownIsEmpty
<1>4. RestTypeOK'
  BY <1>1, BudgetTypeOK DEF RestTypeOK
<1>5. /\ TablesTypeOK' /\ TaskInv' /\ Grows
      /\ \A u \in Tasks : \A g \in Executions : Same(u, g)
  BY <1>1, TablesUnchanged
<1> QED BY <1>3, <1>4, <1>5, CommandStep

LEMMA AbortCallStep ==
  ASSUME IInv, NEW t \in Tasks, AbortCall(t)
  PROVE  IInv'
<1>1. /\ RestTypeOK /\ worker \in [Places -> Worker]
      /\ calls \subseteq Calls /\ waiting \in Seq(Tasks) /\ known \subseteq Tasks
  BY TypeParts DEF IInv, RestTypeOK
<1>2. /\ UNCHANGED <<tables, store, phase, controllers, queue>>
      /\ NoFault \/ Fault
      /\ <<"abort", t>> \in calls /\ calls' \subseteq calls
  BY DEF AbortCall, Answered
<1>3. /\ worker' \in [Places -> Worker]
      /\ \A s \in Places :
           \/ worker'[s] = worker[s]
           \/ worker'[s] = Aborted(worker[s], "ownership")
  <2>1. CASE controllers[t] \in Places
    <3>1. PICK p \in Places : p = controllers[t]
      BY <2>1
    <3>2. Aborted(worker[p], "ownership") \in Worker
      BY <1>1, AbortedFields
    <3>3. worker' = [worker EXCEPT ![p] = Aborted(worker[p], "ownership")]
      BY <2>1, <3>1 DEF AbortCall, Become
    <3> QED BY <1>1, <3>2, <3>3
  <2>2. CASE controllers[t] \notin Places
    BY <1>1, <2>2 DEF AbortCall
  <2> QED BY <2>1, <2>2
<1>4. waiting' \in Seq(Tasks) /\ known' \subseteq Tasks /\ calls' \subseteq Calls
  BY <1>1, <1>2
<1> QED BY <1>2, <1>3, <1>4, AnswerStep

LEMMA EnqueueTypeOK ==
  ASSUME IInv, NEW t \in Tasks,
         Enqueue(t) \/ (Process(worker, waiting) /\ UNCHANGED known)
  PROVE  /\ waiting' \in Seq(Tasks) /\ known' \subseteq Tasks
         /\ worker' \in [Places -> Worker]
         /\ \A s \in Places :
              \/ worker'[s] = worker[s]
              \/ worker[s].pc = "idle" /\ \E u \in Tasks : worker'[s] = Fresh(u)
<1>1. /\ worker \in [Places -> Worker]
      /\ waiting \in Seq(Tasks) /\ known \subseteq Tasks
  BY TypeParts DEF IInv, RestTypeOK
<1>2. Append(waiting, t) \in Seq(Tasks)
  BY <1>1
<1>3. CASE Process(worker, waiting) /\ UNCHANGED known
  BY <1>1, <1>3, ProcessStarts
<1>4. CASE Process(worker, Append(waiting, t)) /\ known' = known \cup {t}
  BY <1>1, <1>2, <1>4, ProcessStarts
<1>5. CASE UNCHANGED <<worker, waiting, known>>
  BY <1>1, <1>5
<1> QED BY <1>3, <1>4, <1>5 DEF Enqueue

LEMMA QueueStep ==
  ASSUME IInv, NEW t \in Tasks, EnqueueCall(t) \/ Requeue(t)
  PROVE  IInv'
<1>1. calls \subseteq Calls
  BY TypeParts DEF IInv, RestTypeOK
<1>2. /\ UNCHANGED <<tables, store, phase, controllers>> /\ NoFault
      /\ Enqueue(t) \/ (Process(worker, waiting) /\ UNCHANGED known)
      /\ \E c \in calls : calls' = calls \ {c}
  BY DEF EnqueueCall, Requeue, Answered
<1>3. PICK c \in calls : calls' = calls \ {c}
  BY <1>2
<1>4. calls' \subseteq Calls
  BY <1>1, <1>3
<1> QED BY <1>2, <1>4, EnqueueTypeOK, AnswerStep

LEMMA ShouldRequeueStep ==
  ASSUME IInv, NEW t \in Tasks, ShouldRequeue(t)
  PROVE  IInv'
<1>1. /\ worker \in [Places -> Worker]
      /\ calls \subseteq Calls /\ waiting \in Seq(Tasks) /\ known \subseteq Tasks
  BY TypeParts DEF IInv, RestTypeOK
<1>2. /\ UNCHANGED <<tables, worker, queue, controllers, store, phase>>
      /\ NoFault \/ Fault
      /\ <<"read", t>> \in calls
      /\ calls' \subseteq calls \cup {<<"again", t>>, ProcessCall}
  BY DEF ShouldRequeue
<1>3. {<<"again", t>>, ProcessCall} \subseteq Calls
  BY DEF Calls
<1>4. /\ calls' \subseteq Calls /\ waiting' \in Seq(Tasks) /\ known' \subseteq Tasks
      /\ worker' \in [Places -> Worker]
      /\ \A s \in Places : worker'[s] = worker[s]
  BY <1>1, <1>2, <1>3
<1> QED BY <1>2, <1>4, AnswerStep

-----------------------------------------------------------------------------
(* The process *)

LEMMA EmptyStep ==
  ASSUME TablesTypeOK', TaskInv', RestTypeOK', DownIsEmpty',
         worker' \in [Places -> Worker], \A s \in Places : worker'[s].pc = "idle"
  PROVE  IInv'
<1>1. \A s \in Places : WorkerInv(s)'
  BY Points DEF WorkerInv, At, BeforeWrite, Writing
<1>2. OwnExecution'
  BY Points DEF OwnExecution
<1>3. TypeOK'
  BY DEF TypeOK, RestTypeOK
<1> QED BY <1>1, <1>2, <1>3 DEF IInv

LEMMA CrashStep ==
  ASSUME IInv, Crash
  PROVE  IInv'
<1>1. TypeOK /\ TablesTypeOK /\ TaskInv /\ RestTypeOK
  BY TypeParts DEF IInv
<1>2. TablesTypeOK' /\ TaskInv'
  BY <1>1, TablesUnchanged DEF Crash
<1>3. /\ worker' = [s \in Places |-> Idle]
      /\ Idle \in Worker /\ Idle.pc = "idle"
  BY FreshIsWorker DEF Crash, Idle, Fresh
<1>4. worker' \in [Places -> Worker] /\ \A s \in Places : worker'[s].pc = "idle"
  BY <1>3
<1>5. << >> \in Seq(Tasks) /\ [t \in Tasks |-> 0] \in [Tasks -> Places \cup {0, Leaked}]
  OBVIOUS
<1>6. RestTypeOK'
  BY <1>1, <1>5, BudgetTypeOK DEF Crash, RestTypeOK
<1>7. DownIsEmpty'
  BY <1>4 DEF Crash, DownIsEmpty, At
<1> QED BY <1>2, <1>4, <1>6, <1>7, EmptyStep

LEMMA RestartStep ==
  ASSUME IInv, Reconcile \/ MarkInterrupted
  PROVE  IInv'
<1>1. /\ TypeOK /\ TablesTypeOK /\ TaskInv /\ RestTypeOK
      /\ worker \in [Places -> Worker]
      /\ \A s \in Places : worker[s].pc = "idle"
      /\ calls = {}
  BY TypeParts DEF IInv, DownIsEmpty, At, Reconcile, MarkInterrupted
<1>2. /\ UNCHANGED <<memory, store>> /\ NoFault
      /\ phase' \in {"reconciled", "marked"}
  BY DEF Reconcile, MarkInterrupted
<1>3. RestTypeOK' /\ DownIsEmpty'
  <2>1. RestTypeOK'
    BY <1>1, <1>2, BudgetTypeOK DEF RestTypeOK
  <2>2. DownIsEmpty'
    BY <1>1, <1>2 DEF DownIsEmpty, At
  <2> QED BY <2>1, <2>2
<1>4. TablesTypeOK' /\ TaskInv'
  <2>1. CASE Reconcile
    BY <1>1, <1>2, <2>1, ReconcileMoves DEF Reconcile
  <2>2. CASE MarkInterrupted
    BY <1>1, <1>2, <2>2, InterruptedMoves, RowsMove DEF MarkInterrupted, RowsMoved
  <2> QED BY <2>1, <2>2
<1>5. worker' \in [Places -> Worker] /\ \A s \in Places : worker'[s].pc = "idle"
  BY <1>1, <1>2
<1> QED BY <1>3, <1>4, <1>5, EmptyStep

LEMMA InitializeQueueStep ==
  ASSUME IInv, InitializeQueue
  PROVE  IInv'
<1>1. /\ TypeOK /\ TablesTypeOK /\ TaskInv /\ RestTypeOK
      /\ worker \in [Places -> Worker]
  BY TypeParts DEF IInv
<1>2. calls' \subseteq Calls
  <2>1. calls \subseteq Calls /\ \A t \in Tasks : <<"enqueue", t>> \in Calls
    BY <1>1 DEF RestTypeOK, Calls
  <2> QED BY <2>1 DEF InitializeQueue
<1>3. /\ UNCHANGED <<tables, worker, queue, controllers, store>> /\ NoFault
      /\ phase' = "up"
  BY DEF InitializeQueue
<1>4. RestTypeOK'
  BY <1>1, <1>2, <1>3, BudgetTypeOK DEF RestTypeOK
<1>5. DownIsEmpty'
  BY <1>3 DEF DownIsEmpty
<1>6. /\ TablesTypeOK' /\ TaskInv' /\ Grows
      /\ \A t \in Tasks : \A g \in Executions : Same(t, g)
  BY <1>1, <1>3, TablesUnchanged
<1>7. worker' \in [Places -> Worker] /\ \A s \in Places : worker'[s] = worker[s]
  BY <1>1, <1>3
<1> QED BY <1>4, <1>5, <1>6, <1>7, CommandStep

-----------------------------------------------------------------------------
(* The invariant holds *)

LEMMA ExecuteKeeps ==
  ASSUME IInv, NEW s \in Places, Execute(s)
  PROVE  IInv'
<1>1. CASE ClaimWon(s) \/ ClaimRefused(s) \/ Register(s)
  BY <1>1, ClaimStep, RegisterStep
<1>2. CASE HeartbeatLost(s) \/ HeartbeatFails(s)
  BY <1>2, HeartbeatStep
<1>3. CASE Download(s) \/ Advance(s) \/ Prepare(s) \/ Begin(s)
  BY <1>3, DownloadStep, BeginStep
<1>4. CASE Renew(s) \/ Recheck(s)
  BY <1>4, UploadReadsStep
<1>5. CASE SaveFile(s) \/ MarkObject(s) \/ Index(s)
  BY <1>5, SaveFileStep, MarkObjectStep, IndexStep
<1>6. CASE UndoObject(s) \/ UndoIndex(s) \/ UndoRecord(s)
  BY <1>6, UndoObjectStep, UndoIndexStep, UndoRecordStep
<1>7. CASE Settle(s) \/ Failing(s) \/ JournalCheck(s) \/ Fail(s)
  BY <1>7, SettleStep, FailingStep, JournalCheckStep, FailStep
<1>8. CASE Ending(s) \/ WorkerEnds(s)
  BY <1>8, EndingStep, WorkerEndsStep
<1> QED BY <1>1, <1>2, <1>3, <1>4, <1>5, <1>6, <1>7, <1>8 DEF Execute

LEMMA NextKeeps ==
  ASSUME IInv, Next
  PROVE  IInv'
<1>1. ASSUME NEW s \in Places, Execute(s)
      PROVE  IInv'
  BY <1>1, ExecuteKeeps
<1>2. ASSUME NEW t \in Tasks, Command(t)
      PROVE  IInv'
  BY <1>2, StatementStep, QueueStep, AbortCallStep, ShouldRequeueStep DEF Command
<1>3. CASE Startup
  BY <1>3, CrashStep, RestartStep, InitializeQueueStep DEF Startup
<1> QED BY <1>1, <1>2, <1>3 DEF Next

LEMMA StutterKeeps ==
  ASSUME IInv, UNCHANGED vars
  PROVE  IInv'
<1>1. /\ TablesTypeOK /\ TaskInv /\ RestTypeOK
      /\ worker \in [Places -> Worker]
  BY TypeParts DEF IInv
<1>2. /\ UNCHANGED <<tables, worker, queue, controllers, calls, store, phase>>
      /\ NoFault
  BY DEF vars, NoFault
<1>3. RestTypeOK'
  BY <1>2, RestUnchanged
<1>4. /\ TablesTypeOK' /\ TaskInv' /\ Grows
      /\ \A t \in Tasks : \A g \in Executions : Same(t, g)
  BY <1>1, <1>2, TablesUnchanged
<1>5. DownIsEmpty'
  BY <1>2 DEF IInv, DownIsEmpty, At
<1>6. /\ worker' \in [Places -> Worker]
      /\ \A s \in Places : worker'[s] = worker[s]
  BY <1>1, <1>2
<1> QED BY <1>3, <1>4, <1>5, <1>6, CommandStep

LEMMA InitHolds == Init => IInv
<1> SUFFICES ASSUME Init
             PROVE  IInv
  OBVIOUS
<1>1. /\ AbsentRow \in Row /\ AbsentRow.status = "absent"
      /\ AbsentRow.generation = 0 /\ AbsentRow.token = 0
  BY DEF AbsentRow, Row
<1>2. /\ NoJournal \in Journal /\ NoJournal.status = "none"
      /\ NoJournal.resolution = "none"
  BY DEF NoJournal, Journal, Evidence
<1>3. TablesTypeOK
  BY <1>1, <1>2 DEF Init, TablesInit, TablesTypeOK
<1>4. Idle \in Worker /\ Idle.pc = "idle"
  BY FreshIsWorker DEF Idle, Fresh
<1>5. TypeOK
  <2>1. << >> \in Seq(Tasks) /\ 0 \in 0..MaxEvents
    BY BoundsOK
  <2>2. worker \in [Places -> Worker]
    BY <1>4 DEF Init
  <2> QED BY <1>3, <2>1, <2>2 DEF Init, TypeOK
<1>6. /\ \A t \in Tasks : row[t] = AbsentRow
      /\ \A t \in Tasks : \A g \in Executions :
           /\ journal[t][g] = NoJournal
           /\ objects[<<t, g>>] = "none"
           /\ <<t, g>> \notin files
  BY DEF Init, TablesInit
<1>7. LeaseWhileRunning /\ SideEffectsAccounted /\ CommitMatchesTask
  BY <1>1, <1>2, <1>6
     DEF LeaseWhileRunning, SideEffectsAccounted, CommitMatchesTask, Status
<1>8. PendingIsClaimable /\ OnePending /\ FutureClean /\ OpenIsLast
  BY <1>1, <1>2, <1>6
     DEF PendingIsClaimable, OnePending, FutureClean, OpenIsLast, Status, Pending
<1>9. CommittedIsResolved /\ AbsentIsNew
  BY <1>1, <1>2, <1>6 DEF CommittedIsResolved, AbsentIsNew, Pending, Status
<1>10. \A s \in Places : worker[s].pc = "idle"
  BY <1>4 DEF Init
<1>11. (\A s \in Places : WorkerInv(s)) /\ OwnExecution /\ DownIsEmpty
  BY <1>10, Points
     DEF Init, WorkerInv, OwnExecution, DownIsEmpty, At, BeforeWrite, Writing
<1> QED BY <1>5, <1>7, <1>8, <1>9, <1>11 DEF IInv, TaskInv

\* In every reachable state the tables, the store and the workers fit together.
THEOREM InvariantHolds == Spec => []IInv
<1>1. IInv /\ [Next]_vars => IInv'
  BY NextKeeps, StutterKeeps
<1> QED BY <1>1, InitHolds, PTL DEF Spec

\* The tables keep the values of their columns, and every local variable of a
\* worker, the queue and the controllers keep theirs (executeYtDlpTask and
\* PersistentYtDlpQueue).
THEOREM TypeCorrect == Spec => []TypeOK
<1>1. IInv => TypeOK
  BY DEF IInv
<1> QED BY <1>1, InvariantHolds, PTL

\* However many executions a task has had, a lease is held exactly while it
\* runs, and by its last execution (the claim and the settling statements of
\* ytDlpExecution.ts).
THEOREM LeasesAreHeld == Spec => []LeaseWhileRunning
<1>1. IInv => LeaseWhileRunning
  BY DEF IInv, TaskInv
<1> QED BY <1>1, InvariantHolds, PTL

\* Nothing that any execution stored is forgotten: it belongs to a completed
\* task or stands in an operation that is still open, whatever fails, crashes
\* or is cancelled (the write-ahead journal of uploadDownloadedFile).
THEOREM EffectsAreAccounted == Spec => []SideEffectsAccounted
<1>1. IInv => SideEffectsAccounted
  BY DEF IInv, TaskInv
<1> QED BY <1>1, InvariantHolds, PTL

\* Only the last execution of a task that is completed has a committed operation,
\* its files row exists, and no operation of the task is left open
\* (settleYtDlpCompleted, reconcileCommittedYtDlpWrites).
THEOREM CommitsMatch == Spec => []CommitMatchesTask
<1>1. IInv => CommitMatchesTask
  BY DEF IInv, TaskInv
<1> QED BY <1>1, InvariantHolds, PTL

\* A task that is pending is never refused by the claim: no operation of it is
\* open (retryYtDlpTask, markRunningTransferTasksInterrupted).
THEOREM PendingCanBeClaimed == Spec => []PendingIsClaimable
<1>1. IInv => PendingIsClaimable
  BY DEF IInv, TaskInv
<1> QED BY <1>1, InvariantHolds, PTL

-----------------------------------------------------------------------------
(* What is completed stays *)

\* No statement takes a task out of that status.
LEMMA RowKept ==
  ASSUME TablesTypeOK, NEW t \in Tasks, Status(t) = "completed", NEW u \in Tasks,
         \/ UNCHANGED row
         \/ CreateTask(u) \/ CancelTask(u) \/ RetryTask(u) \/ Claim(u)
         \/ \E g, wrote : SettleCompleted(u, g, wrote)
         \/ \E g, again : SettleFailed(u, g, again)
         \/ MarkAfterRestart
         \/ ReconcileCommitted(files)
  PROVE  Status(t)' = "completed"
<1>1. CASE CreateTask(u) \/ CancelTask(u) \/ RetryTask(u) \/ Claim(u)
  BY <1>1 DEF CreateTask, CancelTask, RetryTask, Claim, Claimable, Status, TablesTypeOK
<1>2. CASE \E g, wrote : SettleCompleted(u, g, wrote)
  BY <1>2 DEF SettleCompleted, CanComplete, Owns, Status, TablesTypeOK
<1>3. CASE \E g, again : SettleFailed(u, g, again)
  BY <1>3 DEF SettleFailed, Owns, Status, TablesTypeOK
<1>4. CASE MarkAfterRestart
  BY <1>4 DEF MarkAfterRestart, Status
<1>5. CASE ReconcileCommitted(files)
  <2>1. row[t] \in Row
    BY DEF TablesTypeOK
  <2>2. CompletedRow(row[t]) \in Row /\ CompletedRow(row[t]).status = "completed"
    BY <2>1, CompletedFields
  <2>3. ASSUME NEW c \in Row
        PROVE  [c EXCEPT !.cancelRequested = FALSE].status = c.status
    BY DEF Row
  <2>4. [CompletedRow(row[t]) EXCEPT !.cancelRequested = FALSE].status = "completed"
    BY <2>2, <2>3
  <2> QED BY <1>5, <2>4 DEF ReconcileCommitted, Status
<1>6. CASE UNCHANGED row
  BY <1>6 DEF Status
<1> QED BY <1>1, <1>2, <1>3, <1>4, <1>5, <1>6

\* A worker that is writing has an open operation, which a completed task has not.
LEMMA WritersAreElsewhere ==
  ASSUME IInv, NEW t \in Tasks, Status(t) = "completed",
         NEW s \in Places, Writing(worker[s])
  PROVE  worker[s].task # t
<1>1. /\ WritingInv(worker[s]) /\ TaskInv
      /\ worker[s].pc \in Settling
      /\ worker[s].execution \in Executions
  BY WritingFacts, WorkerFacts
<1>2. Pending(worker[s].task, worker[s].execution)
  BY <1>1 DEF WritingInv
<1> QED BY <1>1, <1>2 DEF TaskInv, CommitMatchesTask, HasPending

LEMMA ExecuteKeepsRow ==
  ASSUME IInv, NEW t \in Tasks, Status(t) = "completed", NEW s \in Places, Execute(s)
  PROVE  Status(t)' = "completed"
<1>1. TablesTypeOK /\ (worker[s].pc # "idle" => TaskOf(s) \in Tasks)
  BY WorkerFacts DEF TaskOf
<1>2. CASE \/ Register(s) \/ HeartbeatLost(s) \/ HeartbeatFails(s) \/ Download(s)
           \/ Advance(s) \/ Prepare(s) \/ Renew(s) \/ SaveFile(s) \/ Recheck(s)
  BY <1>2 DEF Register, HeartbeatLost, HeartbeatFails, Download, Advance, Prepare,
              Renew, SaveFile, Recheck, Reads, Status
<1>3. CASE \/ UndoObject(s) \/ UndoIndex(s) \/ Failing(s) \/ JournalCheck(s)
           \/ Ending(s) \/ WorkerEnds(s)
  BY <1>3 DEF UndoObject, UndoIndex, Failing, JournalCheck, Ending, WorkerEnds,
              Reads, Status
<1>4. CASE Begin(s) \/ MarkObject(s) \/ Index(s) \/ UndoRecord(s)
  BY <1>4 DEF Begin, MarkObject, Index, UndoRecord, InsertFile, Happens, MayHappen,
              BeginWrite, MarkObjectPresent, MarkIndexPresent, UpdateCompensation,
              Status
<1>5. CASE ClaimWon(s) \/ ClaimRefused(s)
  <2>1. TaskOf(s) \in Tasks
    BY <1>1, <1>5 DEF ClaimWon, ClaimRefused, At
  <2>2. UNCHANGED row \/ Claim(TaskOf(s))
    BY <1>5 DEF ClaimWon, ClaimRefused, Happens, MayHappen
  <2> QED BY <1>1, <2>1, <2>2, RowKept
<1>6. CASE Settle(s)
  <2>1. TaskOf(s) \in Tasks
    BY <1>1, <1>6 DEF Settle, At
  <2>2. \/ UNCHANGED row
        \/ SettleCompleted(TaskOf(s), worker[s].execution, worker[s].wrote)
    BY <1>6 DEF Settle, Happens, MayHappen
  <2> QED BY <1>1, <2>1, <2>2, RowKept
<1>7. CASE Fail(s)
  <2>1. TaskOf(s) \in Tasks
    BY <1>1, <1>7 DEF Fail, At
  <2>2. \/ UNCHANGED row
        \/ SettleFailed(TaskOf(s), worker[s].execution, ~worker[s].journalled)
    BY <1>7 DEF Fail, Happens, MayHappen
  <2> QED BY <1>1, <2>1, <2>2, RowKept
<1> QED BY <1>2, <1>3, <1>4, <1>5, <1>6, <1>7 DEF Execute

\* What is stored of an execution changes in a step of its own worker only.
LEMMA ExecuteKeepsStore ==
  ASSUME IInv, NEW t \in Tasks, NEW g \in Executions, Status(t) = "completed",
         NEW s \in Places, Execute(s)
  PROVE  /\ <<t, g>> \in files => <<t, g>> \in files'
         /\ objects'[<<t, g>>] = objects[<<t, g>>]
<1>1. CASE UNCHANGED store
  BY <1>1
<1>2. CASE SaveFile(s) \/ Index(s) \/ UndoObject(s) \/ UndoIndex(s)
  <2>1. Writing(worker[s])
    BY <1>2, Points DEF SaveFile, Index, UndoObject, UndoIndex, At, Writing
  <2>2. Execution(s) # <<t, g>>
    BY <2>1, WritersAreElsewhere DEF Execution
  <2>3. objects \in [Tasks \X Executions -> {"none", "stored", "inDoubt"}]
    BY DEF IInv, TypeOK
  <2>4. \A o : [objects EXCEPT ![Execution(s)] = o][<<t, g>>] = objects[<<t, g>>]
    BY <2>2, <2>3
  <2>5. CASE SaveFile(s) \/ UndoObject(s)
    BY <2>4, <2>5 DEF SaveFile, UndoObject
  <2>6. CASE Index(s) \/ UndoIndex(s)
    BY <2>2, <2>6 DEF Index, UndoIndex, InsertFile
  <2> QED BY <1>2, <2>5, <2>6
<1>3. CASE \/ Register(s) \/ HeartbeatLost(s) \/ HeartbeatFails(s) \/ Download(s)
           \/ Advance(s) \/ Prepare(s) \/ Renew(s) \/ Recheck(s)
  BY <1>1, <1>3 DEF Register, HeartbeatLost, HeartbeatFails, Download, Advance,
                    Prepare, Renew, Recheck, Reads
<1>4. CASE \/ ClaimWon(s) \/ ClaimRefused(s) \/ Begin(s) \/ MarkObject(s)
           \/ UndoRecord(s) \/ Settle(s) \/ Failing(s) \/ JournalCheck(s) \/ Fail(s)
           \/ Ending(s) \/ WorkerEnds(s)
  BY <1>1, <1>4 DEF ClaimWon, ClaimRefused, Begin, MarkObject, UndoRecord, Settle,
                    Failing, JournalCheck, Fail, Ending, WorkerEnds, Reads
<1> QED BY <1>2, <1>3, <1>4 DEF Execute

LEMMA CommandKeepsRow ==
  ASSUME TablesTypeOK, NEW t \in Tasks, Status(t) = "completed",
         (\E u \in Tasks : Command(u)) \/ Startup
  PROVE  Status(t)' = "completed" /\ UNCHANGED store
<1>1. ASSUME NEW u \in Tasks, Command(u)
      PROVE  Status(t)' = "completed" /\ UNCHANGED store
  <2>1. CASE Submit(u) \/ Cancel(u) \/ Retry(u)
    <3>1. /\ UNCHANGED store
          /\ UNCHANGED row \/ CreateTask(u) \/ CancelTask(u) \/ RetryTask(u)
      BY <2>1 DEF Submit, Cancel, Retry, Requested, MayHappen
    <3> QED BY <3>1, RowKept
  <2>2. CASE EnqueueCall(u) \/ AbortCall(u) \/ ShouldRequeue(u) \/ Requeue(u)
    BY <2>2 DEF EnqueueCall, AbortCall, ShouldRequeue, Requeue, Status
  <2> QED BY <1>1, <2>1, <2>2 DEF Command
<1>2. ASSUME Startup
      PROVE  Status(t)' = "completed" /\ UNCHANGED store
  <2>1. UNCHANGED store /\ (UNCHANGED row \/ MarkAfterRestart \/ ReconcileCommitted(files))
    BY <1>2 DEF Startup, Crash, Reconcile, MarkInterrupted, InitializeQueue
  <2> QED BY <2>1, RowKept
<1> QED BY <1>1, <1>2

\* A task that is completed stays so, and its file stays at the provider and in
\* the files table: no worker that is still compensating an earlier execution,
\* no command and no restart takes it away.
THEOREM CompletionsAreKept == Spec => CompletionKept
<1> DEFINE Kept(t, g) ==
       /\ Status(t)' = "completed"
       /\ <<t, g>> \in files => <<t, g>> \in files'
       /\ objects[<<t, g>>] # "none" => objects'[<<t, g>>] # "none"
<1>1. ASSUME IInv, Next, NEW t \in Tasks, NEW g \in Executions, Status(t) = "completed"
      PROVE  Kept(t, g)
  <2>1. TablesTypeOK
    BY <1>1 DEF IInv, TypeOK
  <2>2. CASE \E s \in Places : Execute(s)
    BY <1>1, <2>2, ExecuteKeepsRow, ExecuteKeepsStore
  <2>3. CASE (\E u \in Tasks : Command(u)) \/ Startup
    BY <1>1, <2>1, <2>3, CommandKeepsRow
  <2> QED BY <1>1, <2>2, <2>3 DEF Next
<1>2. IInv /\ [Next]_vars =>
        [\A t \in Tasks : \A g \in Executions :
           Status(t) = "completed" /\ row[t].generation = g => Kept(t, g)]_vars
  BY <1>1
<1> QED BY <1>2, InvariantHolds, PTL DEF Spec, CompletionKept

-----------------------------------------------------------------------------
(* process(): the k-th idle place takes the k-th waiting task *)

LEMMA Ranks ==
  ASSUME NEW idle \in SUBSET Places
  PROVE  LET rank == [s \in idle |-> Cardinality({r \in idle : r <= s})]
             c    == Cardinality(idle)
         IN /\ c \in Nat
            /\ \A s \in idle : rank[s] \in 1..c
            /\ \A r, s \in idle : r # s => rank[r] # rank[s]
            /\ \A k \in 1..c : \E s \in idle : rank[s] = k
<1> DEFINE upTo(s) == {r \in idle : r <= s}
           rank    == [s \in idle |-> Cardinality(upTo(s))]
           c       == Cardinality(idle)
<1>1. IsFiniteSet(Places)
  BY BoundsOK, FS_Interval DEF Places
<1>2. IsFiniteSet(idle) /\ c \in Nat
  BY <1>1, FS_Subset, FS_CardinalityType
<1>3. \A s \in idle : s \in Nat
  BY BoundsOK DEF Places
<1>4. ASSUME NEW s \in idle
      PROVE  /\ upTo(s) \in SUBSET idle /\ s \in upTo(s)
             /\ IsFiniteSet(upTo(s))
             /\ Cardinality(upTo(s)) \in 1..c
  <2> DEFINE u == upTo(s)
  <2>1. u \in SUBSET idle /\ s \in u
    BY <1>3
  <2> HIDE DEF u
  <2>2. IsFiniteSet(u) /\ Cardinality(u) <= c
    BY <1>2, <2>1, FS_Subset
  <2>3. Cardinality(u) \in Nat /\ Cardinality(u) # 0
    BY <2>1, <2>2, FS_CardinalityType, FS_EmptySet
  <2>4. IsFiniteSet(u) /\ Cardinality(u) \in 1..c
    BY <1>2, <2>2, <2>3
  <2> QED BY <2>1, <2>4 DEF u
<1>5. ASSUME NEW r \in idle, NEW s \in idle, r < s
      PROVE  Cardinality(upTo(r)) # Cardinality(upTo(s))
  <2> DEFINE u == upTo(r)  v == upTo(s)
  <2>1. u \in SUBSET v /\ s \in v /\ s \notin u
    BY <1>3, <1>5
  <2>2. IsFiniteSet(v)
    BY <1>4
  <2> HIDE DEF u, v
  <2>3. Cardinality(v) # Cardinality(u)
    BY <2>1, <2>2, FS_Subset
  <2> QED BY <2>3 DEF u, v
<1>6. \A s \in idle : rank[s] = Cardinality(upTo(s)) /\ rank[s] \in 1..c
  BY <1>4
<1> HIDE DEF rank, upTo
<1>7. ASSUME NEW r \in idle, NEW s \in idle, r # s
      PROVE  rank[r] # rank[s]
  <2>1. r < s \/ s < r
    BY <1>3, <1>7
  <2> QED BY <1>5, <1>6, <2>1
<1>8. rank \in Injection(idle, 1..c)
  <2>1. rank \in [idle -> 1..c]
    BY <1>6 DEF rank
  <2> QED BY <1>7, <2>1 DEF Injection, IsInjective
<1>9. IsFiniteSet(1..c) /\ Cardinality(1..c) = c
  BY <1>2, FS_Interval
<1>10. rank \in Surjection(idle, 1..c)
  BY <1>8, <1>9, FS_Injection
<1>11. \A k \in 1..c : \E s \in idle : rank[s] = k
  BY <1>10 DEF Surjection
<1> QED BY <1>2, <1>6, <1>7, <1>11 DEF rank, upTo

\* taker names the place of each of the first n tasks of q, 0 if there is none.
Hands(q, n, taker) ==
  /\ n \in 0..Len(q)
  /\ taker \in [Places -> 0..Len(q)]
  /\ waiting' = SubSeq(q, n + 1, Len(q))
  /\ \A s \in Places : taker[s] = 0 => worker'[s] = worker[s]
  /\ \A s \in Places : taker[s] # 0 =>
       /\ At(s, "idle")
       /\ taker[s] \in 1..n
       /\ worker'[s] = Fresh(q[taker[s]])
  /\ \A r, s \in Places : taker[r] = taker[s] /\ taker[r] # 0 => r = s
  /\ \A i \in 1..n : \E s \in Places : taker[s] = i
  /\ n = Len(q) \/ \A s \in Places : At(s, "idle") => taker[s] # 0

LEMMA ProcessHands ==
  ASSUME worker \in [Places -> Worker], NEW q \in Seq(Tasks), Process(worker, q)
  PROVE  \E n, taker : Hands(q, n, taker)
<1> DEFINE idle == {s \in Places : worker[s].pc = "idle"}
           c    == Cardinality(idle)
           rank == [s \in idle |-> Cardinality({r \in idle : r <= s})]
           n    == IF c < Len(q) THEN c ELSE Len(q)
           taker == [s \in Places |-> IF s \in idle /\ rank[s] <= n THEN rank[s] ELSE 0]
<1>1. /\ worker' = [s \in Places |-> IF s \in idle /\ rank[s] <= n
                                     THEN Fresh(q[rank[s]]) ELSE worker[s]]
      /\ waiting' = SubSeq(q, n + 1, Len(q))
  BY DEF Process
<1>2. idle \in SUBSET Places
  OBVIOUS
<1>3. /\ c \in Nat
      /\ \A s \in idle : rank[s] \in 1..c
      /\ \A r, s \in idle : r # s => rank[r] # rank[s]
      /\ \A k \in 1..c : \E s \in idle : rank[s] = k
  <2> HIDE DEF idle
  <2> QED BY <1>2, Ranks
<1>4. \A s \in Places : s \in idle <=> At(s, "idle")
  BY DEF At
<1> HIDE DEF idle, c, rank
<1>5. Len(q) \in Nat /\ n \in 0..Len(q) /\ n <= c
  BY <1>3, LenProperties
<1>6. n = Len(q) \/ n = c
  OBVIOUS
<1> HIDE DEF n
<1>7. taker \in [Places -> 0..Len(q)]
  BY <1>3, <1>5
<1>8. \A s \in Places : taker[s] = 0 => worker'[s] = worker[s]
  BY <1>1, <1>3
<1>9. \A s \in Places : taker[s] # 0 =>
         s \in idle /\ taker[s] = rank[s] /\ taker[s] \in 1..n
         /\ worker'[s] = Fresh(q[taker[s]])
  BY <1>1, <1>3, <1>5
<1>10. \A i \in 1..n : \E s \in Places : taker[s] = i
  <2> SUFFICES ASSUME NEW i \in 1..n
               PROVE  \E s \in Places : taker[s] = i
    OBVIOUS
  <2>1. i \in 1..c /\ i <= n
    BY <1>3, <1>5
  <2>2. PICK s \in idle : rank[s] = i
    BY <1>3, <2>1
  <2> QED BY <1>2, <2>1, <2>2
<1>11. n = Len(q) \/ \A s \in idle : taker[s] # 0
  BY <1>2, <1>3, <1>5, <1>6
<1>12. \A r, s \in Places : taker[r] = taker[s] /\ taker[r] # 0 => r = s
  BY <1>3, <1>9
<1> HIDE DEF taker
<1>13. Hands(q, n, taker)
  BY <1>1, <1>4, <1>5, <1>7, <1>8, <1>9, <1>10, <1>11, <1>12 DEF Hands
<1> QED BY <1>13
-----------------------------------------------------------------------------
(* The invariant of the queue and its places *)

Occupied(s) == ~At(s, "idle")

Listed(q, t) == \/ \E i \in DOMAIN q : q[i] = t
                \/ \E s \in Places : TaskOf(s) = t /\ Occupied(s)

\* No task is worked on twice, or waits twice, or waits while it is worked on.
Apart(q) ==
  /\ \A r, s \in Places : r # s /\ Occupied(r) /\ Occupied(s) => TaskOf(r) # TaskOf(s)
  /\ \A s \in Places : \A i \in DOMAIN q : Occupied(s) => TaskOf(s) # q[i]
  /\ \A i, j \in DOMAIN q : q[i] = q[j] => i = j

\* The queue knows the tasks that wait or are worked on, and no others.
QueueInv ==
  /\ Apart(waiting)
  /\ \A t \in Tasks : t \in known <=> Listed(waiting, t)
  /\ PlacesAreFilled

LEMMA ProcessServes ==
  ASSUME worker \in [Places -> Worker], known' \subseteq Tasks,
         NEW q \in Seq(Tasks), Process(worker, q), Apart(q),
         \A s \in Places : Occupied(s) => TaskOf(s) \in Tasks,
         \A t \in Tasks : t \in known' <=> Listed(q, t)
  PROVE  /\ QueueInv'
         /\ \A t \in Tasks : Listed(q, t) => Listed(waiting, t)'
<1>1. PICK n, taker : Hands(q, n, taker)
  BY ProcessHands
<1>2. /\ n \in 0..Len(q) /\ Len(q) \in Nat /\ DOMAIN q = 1..Len(q)
      /\ waiting' = SubSeq(q, n + 1, Len(q))
      /\ \A s \in Places : taker[s] \in 0..Len(q)
  BY <1>1, LenProperties DEF Hands
<1>3. /\ DOMAIN waiting' = 1..(Len(q) - n)
      /\ \A i \in 1..(Len(q) - n) : waiting'[i] = q[n + i]
  <2>1. \A i \in (n + 1)..Len(q) : q[i] \in Tasks
    BY <1>2
  <2> DEFINE rest == SubSeq(q, n + 1, Len(q))
  <2>2. rest \in Seq(Tasks) /\ Len(rest) = Len(q) - n
    <3>1. n + 1 \in Int /\ Len(q) \in Int
      BY <1>2
    <3>2. /\ rest \in Seq(Tasks)
          /\ Len(rest) = IF n + 1 <= Len(q) THEN Len(q) - (n + 1) + 1 ELSE 0
      BY <2>1, <3>1, SubSeqProperties
    <3> HIDE DEF rest
    <3>3. ASSUME NEW k \in Nat, NEW m \in 0..k
          PROVE  (IF m + 1 <= k THEN k - (m + 1) + 1 ELSE 0) = k - m
      OBVIOUS
    <3>4. n \in 0..Len(q) /\ Len(q) \in Nat
      BY <1>2
    <3>5. (IF n + 1 <= Len(q) THEN Len(q) - (n + 1) + 1 ELSE 0) = Len(q) - n
      BY <3>3, <3>4
    <3> QED BY <3>2, <3>5
  <2>4. ASSUME NEW i \in 1..(Len(q) - n)
        PROVE  rest[i] = q[n + i]
    <3>1. i \in 1..Len(q) - (n + 1) + 1 /\ n + 1 + i - 1 = n + i
      BY <1>2
    <3> QED BY <1>2, <2>1, <3>1, SubSeqProperties
  <2> HIDE DEF rest
  <2>3. DOMAIN rest = 1..Len(rest)
    BY <2>2
  <2> QED BY <1>2, <2>2, <2>3, <2>4 DEF rest
<1>4. ASSUME NEW s \in Places, taker[s] # 0
      PROVE  /\ At(s, "idle") /\ ~At(s, "idle")'
             /\ taker[s] \in 1..n
             /\ TaskOf(s)' = q[taker[s]]
             /\ q[taker[s]] \in Tasks
  <2>1. At(s, "idle") /\ taker[s] \in 1..n /\ worker'[s] = Fresh(q[taker[s]])
    BY <1>1, <1>4 DEF Hands
  <2>2. worker'[s].pc = "claim" /\ worker'[s].task = q[taker[s]]
    BY <2>1 DEF Fresh
  <2>3. q[taker[s]] \in Tasks
    BY <1>2, <2>1
  <2> QED BY <2>1, <2>2, <2>3 DEF At, TaskOf
<1>5. ASSUME NEW s \in Places, taker[s] = 0
      PROVE  /\ Occupied(s)' <=> Occupied(s)
             /\ TaskOf(s)' = TaskOf(s)
  BY <1>1, <1>5 DEF Hands, Occupied, At, TaskOf
<1>6. Apart(waiting)'
  <2>1. ASSUME NEW r \in Places, NEW s \in Places, r # s, Occupied(r)', Occupied(s)'
        PROVE  TaskOf(r)' # TaskOf(s)'
    <3>1. CASE taker[r] = 0 /\ taker[s] = 0
      BY <1>5, <2>1, <3>1 DEF Apart
    <3>2. CASE taker[r] = 0 /\ taker[s] # 0
      BY <1>2, <1>4, <1>5, <2>1, <3>2 DEF Apart
    <3>3. CASE taker[r] # 0 /\ taker[s] = 0
      BY <1>2, <1>4, <1>5, <2>1, <3>3 DEF Apart
    <3>4. CASE taker[r] # 0 /\ taker[s] # 0
      <4>1. taker[r] # taker[s]
        BY <1>1, <2>1, <3>4 DEF Hands
      <4> QED BY <1>2, <1>4, <3>4, <4>1 DEF Apart
    <3> QED BY <3>1, <3>2, <3>3, <3>4
  <2>2. ASSUME NEW s \in Places, NEW i \in 1..(Len(q) - n), Occupied(s)'
        PROVE  TaskOf(s)' # waiting'[i]
    <3>1. waiting'[i] = q[n + i] /\ n + i \in DOMAIN q /\ n + i \notin 1..n
      BY <1>2, <1>3
    <3>2. CASE taker[s] = 0
      BY <1>5, <2>2, <3>1, <3>2 DEF Apart
    <3>3. CASE taker[s] # 0
      BY <1>2, <1>4, <3>1, <3>3, SMTT(40) DEF Apart
    <3> QED BY <3>2, <3>3
  <2>3. ASSUME NEW i \in 1..(Len(q) - n), NEW j \in 1..(Len(q) - n),
               waiting'[i] = waiting'[j]
        PROVE  i = j
    BY <1>2, <1>3, <2>3 DEF Apart
  <2> QED BY <1>3, <2>1, <2>2, <2>3 DEF Apart
<1>7. ASSUME NEW t \in Tasks
      PROVE  Listed(q, t) <=> Listed(waiting, t)'
  <2>1. ASSUME NEW i \in DOMAIN q, q[i] = t
        PROVE  Listed(waiting, t)'
    <3>1. CASE i <= n
      <4>1. i \in 1..n
        BY <1>2, <3>1
      <4>2. PICK s \in Places : taker[s] = i
        BY <1>1, <4>1 DEF Hands
      <4> QED BY <1>4, <2>1, <4>1, <4>2 DEF Listed, Occupied
    <3>2. CASE ~(i <= n)
      <4>1. i - n \in 1..(Len(q) - n) /\ n + (i - n) = i
        BY <1>2, <3>2
      <4> QED BY <1>3, <2>1, <4>1 DEF Listed
    <3> QED BY <3>1, <3>2
  <2>2. ASSUME NEW s \in Places, TaskOf(s) = t, Occupied(s)
        PROVE  Listed(waiting, t)'
    <3>1. taker[s] = 0
      BY <1>4, <2>2 DEF Occupied
    <3> QED BY <1>5, <2>2, <3>1 DEF Listed
  <2>3. ASSUME NEW i \in DOMAIN waiting', waiting'[i] = t
        PROVE  Listed(q, t)
    BY <1>2, <1>3, <2>3 DEF Listed
  <2>4. ASSUME NEW s \in Places, TaskOf(s)' = t, Occupied(s)'
        PROVE  Listed(q, t)
    <3>1. CASE taker[s] = 0
      BY <1>5, <2>4, <3>1 DEF Listed
    <3>2. CASE taker[s] # 0
      BY <1>2, <1>4, <2>4, <3>2 DEF Listed
    <3> QED BY <3>1, <3>2
  <2> QED BY <2>1, <2>2, <2>3, <2>4 DEF Listed
<1>8. PlacesAreFilled'
  <2>1. CASE n = Len(q)
    <3>1. waiting' = << >>
      BY <1>2, <1>3, <2>1
    <3> QED BY <3>1 DEF PlacesAreFilled
  <2>2. CASE \A s \in Places : At(s, "idle") => taker[s] # 0
    <3>1. \A s \in Places : ~At(s, "idle")'
      BY <1>4, <1>5, <2>2 DEF Occupied
    <3> QED BY <3>1 DEF PlacesAreFilled
  <2> QED BY <1>1, <2>1, <2>2 DEF Hands
<1>9. (\A t \in Tasks : t \in known <=> Listed(waiting, t))'
  BY <1>7
<1> QED BY <1>6, <1>7, <1>8, <1>9 DEF QueueInv
-----------------------------------------------------------------------------
(* What a step of a worker may be *)

\* From the registration of the controller to its removal.
Controlled == InTry \cup {"journalCheck", "fail", "ending"}

\* The worker goes on with its execution, is aborted or leaves it.
GoesOnWith(s) ==
  /\ worker[s].pc \in Settling /\ worker'[s].pc \in Settling
  /\ worker[s].pc \in Controlled => worker'[s].pc \in Controlled
  /\ worker'[s].execution = worker[s].execution
  /\ worker'[s].abort = worker[s].abort

IsAborted(s) ==
  /\ worker[s].pc \in InTry /\ worker'[s].pc = worker[s].pc
  /\ worker'[s].execution = worker[s].execution
  /\ (HeartbeatLost(s) /\ worker'[s].abort = "ownership") \/ Fault

\* The actions in which it may leave its execution.
Finishes(s) ==
  ClaimRefused(s) \/ Register(s) \/ Settle(s) \/ Failing(s) \/ JournalCheck(s) \/ Fail(s)

LeavesIt(s) ==
  /\ Finishes(s)
  /\ worker[s].pc \in Settling \cup {"claim"}
  /\ worker'[s].pc \in {"ending", "ended"}
  /\ worker[s].pc \in Controlled => worker'[s].pc \in Controlled
  /\ worker'[s].execution = 0
  /\ worker'[s].abort = "no"

Claims(s) ==
  /\ ClaimWon(s)
  /\ worker'[s].pc = "register"
  /\ worker'[s].execution = row[TaskOf(s)].generation + 1
  /\ worker'[s].abort = worker[s].abort

Closes(s) ==
  /\ Ending(s)
  /\ worker'[s].pc = "ended"
  /\ worker'[s].execution = worker[s].execution
  /\ worker'[s].abort = worker[s].abort

OwnStep(s) ==
  /\ UNCHANGED <<waiting, known, calls, phase>>
  /\ \A r \in Places \ {s} : worker'[r] = worker[r]
  /\ worker'[s].task = worker[s].task
  /\ GoesOnWith(s) \/ IsAborted(s) \/ LeavesIt(s) \/ Claims(s) \/ Closes(s)

LEMMA BecomeFields ==
  ASSUME IInv, NEW s \in Places, NEW w, Become(s, w)
  PROVE  worker'[s] = w /\ \A r \in Places \ {s} : worker'[r] = worker[r]
BY WorkerFacts DEF Become

LEMMA GotoMoves ==
  ASSUME IInv, NEW s \in Places, NEW l \in Settling, Goto(s, l),
         worker[s].pc \in Settling, worker[s].pc \in Controlled => l \in Controlled
  PROVE  GoesOnWith(s) /\ worker'[s].task = worker[s].task
         /\ \A r \in Places \ {s} : worker'[r] = worker[r]
<1> DEFINE w == [worker[s] EXCEPT !.pc = l]
<1>1. worker[s] \in Worker /\ worker \in [Places -> Worker]
  BY WorkerFacts
<1>2. w.pc = l /\ w.task = worker[s].task /\ w.execution = worker[s].execution
      /\ w.abort = worker[s].abort
  BY <1>1 DEF Worker
<1>3. worker' = [worker EXCEPT ![s] = w]
  BY DEF Goto
<1> HIDE DEF w
<1>4. worker'[s] = w /\ \A r \in Places \ {s} : worker'[r] = worker[r]
  BY <1>1, <1>3
<1> QED BY <1>2, <1>4 DEF GoesOnWith

LEMMA LeaveMoves ==
  ASSUME IInv, NEW s \in Places, NEW l \in {"failing", "ending", "ended"}, Leave(s, l),
         worker[s].pc \in Settling \/ (worker[s].pc = "claim" /\ l = "ended"),
         worker[s].pc \in Controlled => l # "ended",
         l # "failing" => Finishes(s)
  PROVE  /\ l = "failing" => GoesOnWith(s)
         /\ l # "failing" => LeavesIt(s)
         /\ worker'[s].task = worker[s].task
         /\ \A r \in Places \ {s} : worker'[r] = worker[r]
<1> DEFINE w == Left(worker[s], l)
<1>1. worker[s] \in Worker /\ worker \in [Places -> Worker]
  BY WorkerFacts
<1>2. /\ w.pc = l /\ w.task = worker[s].task
      /\ l = "failing" => w.execution = worker[s].execution /\ w.abort = worker[s].abort
      /\ l # "failing" => w.execution = 0 /\ w.abort = "no"
  BY <1>1 DEF Worker, Left, Fresh
<1>3. worker' = [worker EXCEPT ![s] = w]
  BY DEF Leave
<1> HIDE DEF w
<1>4. worker'[s] = w /\ \A r \in Places \ {s} : worker'[r] = worker[r]
  BY <1>1, <1>3
<1>5. {"failing", "ending"} \subseteq Controlled /\ "failing" \in Settling
  BY DEF Controlled, InTry, Settling
<1> QED BY <1>2, <1>4, <1>5, Points DEF GoesOnWith, LeavesIt

LEMMA ControlledPoints ==
  Controlled = (Settling \ {"register"}) \cup {"ending"}
BY DEF Controlled, Settling, InTry, Uploading, Undoing

\* A step that only goes on or leaves.
Advances(s) ==
  /\ worker[s].pc \in Settling \ {"register"}
  /\ UNCHANGED <<queue, calls, phase>>
  /\ \/ \E l \in Settling \ {"register"} : Goto(s, l)
     \/ \E l \in {"failing", "ending"} : Leave(s, l) /\ (l = "ending" => Finishes(s))

LEMMA AdvanceMoves ==
  ASSUME IInv, NEW s \in Places, Advances(s)
  PROVE  OwnStep(s)
<1>1. CASE \E l \in Settling \ {"register"} : Goto(s, l)
  <2>1. PICK l \in Settling \ {"register"} : Goto(s, l)
    BY <1>1
  <2>2. worker[s].pc \in Settling /\ l \in Controlled
    BY ControlledPoints DEF Advances
  <2> QED BY <2>1, <2>2, GotoMoves DEF OwnStep, Advances
<1>2. CASE \E l \in {"failing", "ending"} : Leave(s, l) /\ (l = "ending" => Finishes(s))
  <2>1. PICK l \in {"failing", "ending"} : Leave(s, l) /\ (l = "ending" => Finishes(s))
    BY <1>2
  <2>2. worker[s].pc \in Settling
    BY DEF Advances
  <2> QED BY <2>1, <2>2, LeaveMoves DEF OwnStep, Advances
<1> QED BY <1>1, <1>2 DEF Advances

\* A step that writes down what it learnt.
LEMMA BecomeMoves ==
  ASSUME IInv, NEW s \in Places, worker[s].pc \in Settling \ {"register"},
         UNCHANGED <<queue, calls, phase>>,
         NEW w, Become(s, w), w.pc \in Settling \ {"register"},
         w.task = worker[s].task, w.execution = worker[s].execution,
         w.abort = worker[s].abort
  PROVE  OwnStep(s)
<1>1. worker'[s] = w /\ \A r \in Places \ {s} : worker'[r] = worker[r]
  BY BecomeFields
<1> QED BY <1>1, ControlledPoints DEF OwnStep, GoesOnWith

LEMMA ReadsAdvance ==
  ASSUME NEW s \in Places, worker[s].pc \in Settling \ {"register"},
         NEW l \in (Settling \ {"register"}) \cup {"ending"}, Reads(s, l),
         l = "ending" => Finishes(s)
  PROVE  Advances(s)
BY DEF Reads, Advances

LEMMA ReadingSteps ==
  ASSUME IInv, NEW s \in Places,
         Download(s) \/ Advance(s) \/ Prepare(s) \/ Renew(s) \/ Recheck(s) \/ Failing(s)
  PROVE  OwnStep(s)
<1>1. worker[s].pc \in Settling \ {"register"}
  BY Points DEF Download, Advance, Prepare, Renew, Recheck, Failing, At
<1>2. \E l \in (Settling \ {"register"}) \cup {"ending"} :
        Reads(s, l) /\ (l = "ending" => Failing(s))
  BY Points DEF Download, Advance, Prepare, Renew, Recheck, Failing
<1> QED BY <1>1, <1>2, ReadsAdvance, AdvanceMoves DEF Finishes

LEMMA WritingSteps ==
  ASSUME IInv, NEW s \in Places,
         \/ Begin(s) \/ SaveFile(s) \/ MarkObject(s) \/ Index(s)
         \/ UndoObject(s) \/ UndoIndex(s) \/ UndoRecord(s)
         \/ Settle(s) \/ JournalCheck(s) \/ Fail(s)
  PROVE  OwnStep(s)
<1> DEFINE w == worker[s]
<1>1. w \in Worker
  BY WorkerFacts
<1>2. w.pc \in Settling \ {"register"} /\ UNCHANGED <<queue, calls, phase>>
  BY Points DEF Begin, SaveFile, MarkObject, Index, UndoObject, UndoIndex, UndoRecord,
                Settle, JournalCheck, Fail, At
<1>3. ASSUME NEW v, Become(s, v), v.pc \in Settling \ {"register"}, v.task = w.task,
             v.execution = w.execution, v.abort = w.abort
      PROVE  OwnStep(s)
  BY <1>2, <1>3, BecomeMoves
<1>4. ASSUME \/ Leave(s, "failing") \/ (Leave(s, "ending") /\ Finishes(s))
             \/ \E l \in {"recheck", "undoObject"} : Goto(s, l)
      PROVE  OwnStep(s)
  <2>1. {"recheck", "undoObject"} \subseteq Settling \ {"register"}
    BY Points
  <2> QED BY <1>2, <1>4, <2>1, AdvanceMoves DEF Advances
<1>5. {"renew", "markObject", "settle", "undoObject", "undoIndex", "undoRecord", "fail"}
        \subseteq Settling \ {"register"}
  BY Points
<1>6. CASE Begin(s)
  <2> DEFINE v == [w EXCEPT !.pc = "renew", !.wrote = TRUE]
  <2>1. v.pc = "renew" /\ v.task = w.task /\ v.execution = w.execution /\ v.abort = w.abort
    BY <1>1 DEF Worker
  <2>2. Become(s, v) \/ Leave(s, "failing")
    BY <1>6 DEF Begin
  <2> HIDE DEF v
  <2> QED BY <1>3, <1>4, <1>5, <2>1, <2>2
<1>7. CASE SaveFile(s)
  <2> DEFINE v == [w EXCEPT !.pc = "markObject", !.finalPath = TRUE]
  <2>1. v.pc = "markObject" /\ v.task = w.task /\ v.execution = w.execution
        /\ v.abort = w.abort
    BY <1>1 DEF Worker
  <2>2. Become(s, v) \/ Goto(s, "undoObject")
    BY <1>7 DEF SaveFile
  <2> HIDE DEF v
  <2> QED BY <1>3, <1>4, <1>5, <2>1, <2>2
<1>8. CASE MarkObject(s)
  BY <1>4, <1>8 DEF MarkObject
<1>9. CASE Index(s)
  <2>1. Goto(s, "undoObject") \/ \E l \in {"settle", "undoObject"} :
          Become(s, [w EXCEPT !.pc = l, !.fileId = TRUE])
    BY <1>9 DEF Index
  <2>2. ASSUME NEW l \in {"settle", "undoObject"},
               Become(s, [w EXCEPT !.pc = l, !.fileId = TRUE])
        PROVE  OwnStep(s)
    <3> DEFINE v == [w EXCEPT !.pc = l, !.fileId = TRUE]
    <3>1. v.pc = l /\ v.task = w.task /\ v.execution = w.execution /\ v.abort = w.abort
      BY <1>1 DEF Worker
    <3>2. Become(s, v)
      BY <2>2
    <3> HIDE DEF v
    <3> QED BY <1>3, <1>5, <3>1, <3>2
  <2> QED BY <1>4, <2>1, <2>2
<1>10. CASE UndoObject(s)
  <2>1. PICK deleted \in BOOLEAN :
          Become(s, [w EXCEPT !.pc = "undoIndex", !.objectDeleted = deleted])
    BY <1>10 DEF UndoObject
  <2> DEFINE v == [w EXCEPT !.pc = "undoIndex", !.objectDeleted = deleted]
  <2>2. v.pc = "undoIndex" /\ v.task = w.task /\ v.execution = w.execution
        /\ v.abort = w.abort
    BY <1>1 DEF Worker
  <2>3. Become(s, v)
    BY <2>1
  <2> HIDE DEF v
  <2> QED BY <1>3, <1>5, <2>2, <2>3
<1>11. CASE UndoIndex(s)
  <2>1. PICK deleted \in {TRUE, FALSE, Execution(s) \in files} :
          Become(s, [w EXCEPT !.pc = "undoRecord", !.indexDeleted = deleted])
    BY <1>11, Zenon DEF UndoIndex
  <2> DEFINE v == [w EXCEPT !.pc = "undoRecord", !.indexDeleted = deleted]
  <2>2. v.pc = "undoRecord" /\ v.task = w.task /\ v.execution = w.execution
        /\ v.abort = w.abort
    BY <1>1 DEF Worker
  <2>3. Become(s, v)
    BY <2>1
  <2> HIDE DEF v
  <2> QED BY <1>3, <1>5, <2>2, <2>3
<1>12. CASE UndoRecord(s) \/ Fail(s)
  BY <1>4, <1>12 DEF UndoRecord, Fail, Finishes
<1>13. CASE Settle(s)
  BY <1>4, <1>13 DEF Settle, Finishes
<1>14. CASE JournalCheck(s)
  <2> DEFINE v == [w EXCEPT !.pc = "fail", !.journalled = HasPending(TaskOf(s))]
  <2>1. v.pc = "fail" /\ v.task = w.task /\ v.execution = w.execution /\ v.abort = w.abort
    BY <1>1 DEF Worker
  <2>2. Become(s, v) \/ Leave(s, "ending")
    BY <1>14 DEF JournalCheck
  <2> HIDE DEF v
  <2> QED BY <1>3, <1>4, <1>5, <1>14, <2>1, <2>2 DEF Finishes
<1> QED BY <1>6, <1>7, <1>8, <1>9, <1>10, <1>11, <1>12, <1>13, <1>14

LEMMA EdgeSteps ==
  ASSUME IInv, NEW s \in Places,
         \/ ClaimWon(s) \/ ClaimRefused(s) \/ Register(s)
         \/ HeartbeatLost(s) \/ HeartbeatFails(s) \/ Ending(s)
  PROVE  OwnStep(s)
<1> DEFINE w == worker[s]
<1>1. w \in Worker /\ worker \in [Places -> Worker]
  BY WorkerFacts
<1>2. UNCHANGED <<queue, calls, phase>>
  BY DEF ClaimWon, ClaimRefused, Register, HeartbeatLost, HeartbeatFails, Ending
<1>3. CASE ClaimWon(s)
  <2> DEFINE g == row[TaskOf(s)].generation + 1
             v == [w EXCEPT !.pc = "register", !.execution = g]
  <2>1. v.pc = "register" /\ v.task = w.task /\ v.execution = g /\ v.abort = w.abort
    <3> HIDE DEF g
    <3> QED BY <1>1 DEF Worker
  <2>2. Become(s, v)
    BY <1>3 DEF ClaimWon
  <2> HIDE DEF v
  <2>3. worker'[s] = v /\ \A r \in Places \ {s} : worker'[r] = worker[r]
    BY <2>2, BecomeFields
  <2> QED BY <1>2, <1>3, <2>1, <2>3 DEF OwnStep, Claims
<1>4. CASE ClaimRefused(s)
  <2>1. w.pc = "claim" /\ Leave(s, "ended")
    BY <1>4 DEF ClaimRefused, At
  <2>2. w.pc \notin Controlled
    BY <2>1, Points, ControlledPoints
  <2> QED BY <1>2, <1>4, <2>1, <2>2, LeaveMoves DEF OwnStep, Finishes
<1>5. CASE Register(s)
  <2>1. w.pc = "register" /\ w.pc \in Settling /\ w.pc \notin Controlled
        /\ "download" \in Settling
    BY <1>5, Points, ControlledPoints DEF Register, At
  <2>2. CASE Goto(s, "download")
    BY <1>2, <2>1, <2>2, GotoMoves DEF OwnStep
  <2>3. CASE Leave(s, "ended")
    BY <1>2, <1>5, <2>1, <2>3, LeaveMoves DEF OwnStep, Finishes
  <2> QED BY <1>5, <2>2, <2>3 DEF Register
<1>6. CASE HeartbeatLost(s) \/ HeartbeatFails(s)
  <2>1. PICK reason \in {"ownership", "persistence"} :
          /\ Become(s, Aborted(w, reason))
          /\ (HeartbeatLost(s) /\ reason = "ownership") \/ Fault
    BY <1>6 DEF HeartbeatLost, HeartbeatFails
  <2> DEFINE v == Aborted(w, reason)
  <2>2. v.pc = w.pc /\ v.task = w.task /\ v.execution = w.execution
    BY <1>1, AbortedFields
  <2>3. w.abort = "no" /\ w.pc \in InTry
    BY <1>6 DEF HeartbeatLost, HeartbeatFails
  <2>4. v.abort = reason
    BY <1>1, <2>3 DEF Aborted, Worker
  <2>5. Become(s, v)
    BY <2>1
  <2> HIDE DEF v
  <2>6. worker'[s] = v /\ \A r \in Places \ {s} : worker'[r] = worker[r]
    BY <2>5, BecomeFields
  <2>7. IsAborted(s)
    BY <2>1, <2>2, <2>3, <2>4, <2>6 DEF IsAborted
  <2> QED BY <1>2, <2>2, <2>6, <2>7 DEF OwnStep
<1>7. CASE Ending(s)
  <2> DEFINE v == [w EXCEPT !.pc = "ended"]
  <2>1. v.pc = "ended" /\ v.task = w.task /\ v.execution = w.execution /\ v.abort = w.abort
    BY <1>1 DEF Worker
  <2>2. worker' = [worker EXCEPT ![s] = v]
    BY <1>7 DEF Ending, Goto
  <2> HIDE DEF v
  <2>3. worker'[s] = v /\ \A r \in Places \ {s} : worker'[r] = worker[r]
    BY <1>1, <2>2
  <2>4. Closes(s)
    BY <1>7, <2>1, <2>3 DEF Closes
  <2> QED BY <1>2, <2>1, <2>3, <2>4 DEF OwnStep
<1> QED BY <1>3, <1>4, <1>5, <1>6, <1>7

LEMMA ExecuteMoves ==
  ASSUME IInv, NEW s \in Places, Execute(s)
  PROVE  OwnStep(s) \/ WorkerEnds(s)
BY ReadingSteps, WritingSteps, EdgeSteps DEF Execute

\* A worker that makes a step of its own keeps its place and its task.
LEMMA OwnStepStays ==
  ASSUME NEW s \in Places, OwnStep(s)
  PROVE  /\ \A r \in Places : /\ TaskOf(r)' = TaskOf(r)
                              /\ At(r, "idle")' <=> At(r, "idle")
         /\ Occupied(s)
<1>1. worker[s].pc # "idle" /\ worker'[s].pc # "idle"
  BY Points DEF OwnStep, GoesOnWith, IsAborted, LeavesIt, Claims, Closes, ClaimWon, Ending, At
<1> QED BY <1>1 DEF OwnStep, TaskOf, At, Occupied
-----------------------------------------------------------------------------
(* The invariant of the queue is kept *)

\* Some answer is under way that calls process().
Refill == \E t \in Tasks : {<<"read", t>>, <<"again", t>>, ProcessCall} \cap calls # {}

SamePlaces ==
  /\ UNCHANGED queue
  /\ \A s \in Places : TaskOf(s)' = TaskOf(s) /\ (At(s, "idle")' <=> At(s, "idle"))

LEMMA PlacesStay ==
  ASSUME QueueInv, SamePlaces, Refill => Refill'
  PROVE  /\ QueueInv'
         /\ \A t \in Tasks : Listed(waiting, t)' <=> Listed(waiting, t)
<1>1. \A s \in Places : Occupied(s)' <=> Occupied(s)
  BY DEF SamePlaces, Occupied
<1>2. Apart(waiting)'
  BY <1>1 DEF QueueInv, Apart, SamePlaces
<1>3. \A t \in Tasks : Listed(waiting, t)' <=> Listed(waiting, t)
  BY <1>1 DEF SamePlaces, Listed
<1>4. PlacesAreFilled'
  BY DEF QueueInv, PlacesAreFilled, Refill, SamePlaces
<1>5. (\A t \in Tasks : t \in known <=> Listed(waiting, t))'
  BY <1>3 DEF QueueInv, SamePlaces
<1> QED BY <1>2, <1>3, <1>4, <1>5 DEF QueueInv

LEMMA WorkerEndsServes ==
  ASSUME IInv, QueueInv, NEW s \in Places, WorkerEnds(s)
  PROVE  /\ QueueInv'
         /\ TaskOf(s) \in Tasks
         /\ \A t \in Tasks : Listed(waiting, t) => Listed(waiting, t)' \/ t = TaskOf(s)
<1>1. /\ worker[s].pc = "ended" /\ known' = known \ {TaskOf(s)}
      /\ Become(s, Idle) /\ calls' = calls \cup {<<"read", TaskOf(s)>>}
      /\ waiting' = waiting
  BY DEF WorkerEnds, At
<1>2. worker'[s] = Idle /\ \A r \in Places \ {s} : worker'[r] = worker[r]
  BY <1>1, BecomeFields
<1>3. Idle.pc = "idle"
  BY DEF Idle, Fresh
<1>4. TaskOf(s) \in Tasks /\ Occupied(s)
  BY <1>1, WorkerFacts DEF TaskOf, Occupied, At
<1>5. /\ ~Occupied(s)'
      /\ \A r \in Places \ {s} : (Occupied(r)' <=> Occupied(r)) /\ TaskOf(r)' = TaskOf(r)
  BY <1>2, <1>3 DEF Occupied, At, TaskOf
<1>6. Apart(waiting)'
  BY <1>1, <1>5 DEF QueueInv, Apart
<1>7. \A t \in Tasks : Listed(waiting, t)' <=> Listed(waiting, t) /\ t # TaskOf(s)
  BY <1>1, <1>4, <1>5 DEF QueueInv, Apart, Listed
<1>8. (\A t \in Tasks : t \in known <=> Listed(waiting, t))'
  BY <1>1, <1>7 DEF QueueInv
<1>9. PlacesAreFilled'
  BY <1>1, <1>4 DEF PlacesAreFilled
<1> QED BY <1>4, <1>6, <1>7, <1>8, <1>9 DEF QueueInv

\* enqueue, and the process() that follows it
LEMMA EnqueueServes ==
  ASSUME IInv, QueueInv, NEW t \in Tasks, t \notin known,
         known' = known \cup {t}, Process(worker, Append(waiting, t))
  PROVE  /\ QueueInv' /\ Listed(waiting, t)'
         /\ \A u \in Tasks : Listed(waiting, u) => Listed(waiting, u)'
<1> DEFINE q == Append(waiting, t)
<1>1. /\ worker \in [Places -> Worker] /\ waiting \in Seq(Tasks) /\ known \subseteq Tasks
      /\ \A s \in Places : Occupied(s) => TaskOf(s) \in Tasks
  BY TypeParts, WorkerFacts DEF IInv, RestTypeOK, Occupied, At, TaskOf
<1>2. /\ q \in Seq(Tasks)
      /\ DOMAIN q = 1..(Len(waiting) + 1) /\ DOMAIN waiting = 1..Len(waiting)
      /\ Len(waiting) \in Nat
      /\ \A i \in 1..Len(waiting) : q[i] = waiting[i]
      /\ q[Len(waiting) + 1] = t
  BY <1>1
<1> HIDE DEF q
<1>3. \A u \in Tasks : Listed(q, u) <=> Listed(waiting, u) \/ u = t
  BY <1>2 DEF Listed
<1>4. ~Listed(waiting, t)
  BY DEF QueueInv
<1>5. Apart(q)
  <2>1. \A s \in Places : \A i \in DOMAIN q : Occupied(s) => TaskOf(s) # q[i]
    BY <1>2, <1>4 DEF QueueInv, Apart, Listed
  <2>2. \A i, j \in DOMAIN q : q[i] = q[j] => i = j
    BY <1>2, <1>4 DEF QueueInv, Apart, Listed
  <2> QED BY <2>1, <2>2 DEF QueueInv, Apart
<1>6. \A u \in Tasks : u \in known' <=> Listed(q, u)
  BY <1>3 DEF QueueInv
<1>7. Process(worker, q) /\ known' \subseteq Tasks
  BY <1>1 DEF q
<1>8. /\ QueueInv'
      /\ \A u \in Tasks : Listed(q, u) => Listed(waiting, u)'
  BY <1>1, <1>2, <1>5, <1>6, <1>7, ProcessServes
<1> QED BY <1>3, <1>8

LEMMA RefillServes ==
  ASSUME IInv, QueueInv, UNCHANGED known, Process(worker, waiting)
  PROVE  /\ QueueInv'
         /\ \A u \in Tasks : Listed(waiting, u) => Listed(waiting, u)'
<1>1. /\ worker \in [Places -> Worker] /\ waiting \in Seq(Tasks) /\ known' \subseteq Tasks
      /\ \A s \in Places : Occupied(s) => TaskOf(s) \in Tasks
  BY TypeParts, WorkerFacts DEF IInv, RestTypeOK, Occupied, At, TaskOf
<1> QED BY <1>1, ProcessServes DEF QueueInv

LEMMA QueueAnswerServes ==
  ASSUME IInv, QueueInv, NEW t \in Tasks, EnqueueCall(t) \/ Requeue(t)
  PROVE  /\ QueueInv'
         /\ \A u \in Tasks : Listed(waiting, u) => Listed(waiting, u)'
         /\ EnqueueCall(t) \/ Answered(<<"again", t>>) =>
              Listed(waiting, t)' \/ controllers[t] # 0
<1>1. t \in known <=> Listed(waiting, t)
  BY DEF QueueInv
<1>2. CASE t \notin known /\ known' = known \cup {t} /\ Process(worker, Append(waiting, t))
  BY <1>2, EnqueueServes
<1>3. CASE (t \in known \/ controllers[t] # 0) /\ UNCHANGED known
           /\ Process(worker, waiting)
  BY <1>1, <1>3, RefillServes
<1>4. CASE /\ t \in known \/ controllers[t] # 0
           /\ UNCHANGED <<worker, waiting, known>>
           /\ EnqueueCall(t)
  <2>1. SamePlaces
    BY <1>4 DEF SamePlaces, TaskOf, At
  <2>2. Refill => Refill'
    <3>1. calls' = calls \ {<<"enqueue", t>>}
      BY <1>4 DEF EnqueueCall, Answered
    <3>2. \A c \in calls : c # <<"enqueue", t>> => c \in calls'
      BY <3>1
    <3>3. \A u \in Tasks : /\ <<"read", u>> # <<"enqueue", t>>
                           /\ <<"again", u>> # <<"enqueue", t>>
      OBVIOUS
    <3>4. ProcessCall # <<"enqueue", t>>
      BY DEF ProcessCall
    <3> QED BY <3>2, <3>3, <3>4 DEF Refill
  <2> QED BY <1>1, <1>4, <2>1, <2>2, PlacesStay
<1>5. CASE UNCHANGED known /\ Process(worker, waiting) /\ Answered(ProcessCall)
           /\ ~EnqueueCall(t)
  <2>1. ~Answered(<<"again", t>>)
    <3>1. ProcessCall # <<"again", t>>
      BY DEF ProcessCall
    <3> QED BY <1>5, <3>1 DEF Answered
  <2> QED BY <1>5, <2>1, RefillServes
<1>6. CASE EnqueueCall(t)
  BY <1>2, <1>4, <1>6 DEF EnqueueCall, Enqueue
<1>7. CASE Requeue(t) /\ ~EnqueueCall(t)
  BY <1>2, <1>3, <1>5, <1>7 DEF Requeue, Enqueue
<1> QED BY <1>6, <1>7

\* The steps that leave the queue and its places alone.
LEMMA OtherStepsStay ==
  ASSUME IInv, NEW t \in Tasks,
         \/ Submit(t) \/ Cancel(t) \/ Retry(t) \/ AbortCall(t) \/ ShouldRequeue(t)
         \/ Reconcile \/ MarkInterrupted \/ InitializeQueue
         \/ UNCHANGED vars
  PROVE  /\ SamePlaces /\ (Refill => Refill')
         /\ \A s \in Places : worker'[s] = worker[s] \/ AbortCall(t)
<1>1. CASE \/ Submit(t) \/ Cancel(t) \/ Retry(t)
           \/ Reconcile \/ MarkInterrupted \/ InitializeQueue \/ UNCHANGED vars
  <2>1. UNCHANGED <<worker, waiting, known>> /\ calls \subseteq calls'
    BY <1>1 DEF Submit, Cancel, Retry, Reconcile, MarkInterrupted, InitializeQueue, vars
  <2> QED BY <2>1 DEF SamePlaces, TaskOf, At, Refill
<1>2. CASE ShouldRequeue(t)
  <2>1. UNCHANGED <<worker, waiting, known>>
    BY <1>2 DEF ShouldRequeue
  <2>2. <<"again", t>> \in calls' \/ ProcessCall \in calls'
    BY <1>2 DEF ShouldRequeue
  <2> QED BY <2>1, <2>2 DEF SamePlaces, TaskOf, At, Refill
<1>3. CASE AbortCall(t)
  <2>1. UNCHANGED <<waiting, known>> /\ calls' = calls \ {<<"abort", t>>}
    BY <1>3 DEF AbortCall, Answered
  <2>2. \A s \in Places : worker'[s].task = worker[s].task /\ worker'[s].pc = worker[s].pc
    <3>1. CASE controllers[t] \in Places
      <4>1. PICK p \in Places : p = controllers[t]
        BY <3>1
      <4> DEFINE v == Aborted(worker[p], "ownership")
      <4>2. Become(p, v)
        BY <1>3, <4>1 DEF AbortCall
      <4>3. v.pc = worker[p].pc /\ v.task = worker[p].task
        BY WorkerFacts, AbortedFields
      <4> HIDE DEF v
      <4>4. worker'[p] = v /\ \A r \in Places \ {p} : worker'[r] = worker[r]
        BY <4>2, BecomeFields
      <4> QED BY <4>3, <4>4
    <3>2. CASE controllers[t] \notin Places
      BY <1>3, <3>2 DEF AbortCall
    <3> QED BY <3>1, <3>2
  <2>3. Refill => Refill'
    <3>1. \A c \in calls : c # <<"abort", t>> => c \in calls'
      BY <2>1
    <3>2. \A u \in Tasks : /\ <<"read", u>> # <<"abort", t>>
                           /\ <<"again", u>> # <<"abort", t>>
      OBVIOUS
    <3>3. ProcessCall # <<"abort", t>>
      BY DEF ProcessCall
    <3> QED BY <3>1, <3>2, <3>3 DEF Refill
  <2> QED BY <1>3, <2>1, <2>2, <2>3 DEF SamePlaces, TaskOf, At
<1> QED BY <1>1, <1>2, <1>3

LEMMA CrashEmpties ==
  ASSUME Crash
  PROVE  QueueInv'
<1>1. waiting' = << >> /\ known' = {} /\ \A s \in Places : worker'[s].pc = "idle"
  BY DEF Crash, Idle, Fresh
<1>2. \A s \in Places : ~Occupied(s)'
  BY <1>1 DEF Occupied, At
<1>3. DOMAIN waiting' = {}
  BY <1>1
<1> QED BY <1>1, <1>2, <1>3 DEF QueueInv, Apart, Listed, PlacesAreFilled

LEMMA QueueKept ==
  ASSUME IInv, QueueInv, [Next]_vars
  PROVE  QueueInv'
<1>1. ASSUME NEW s \in Places, Execute(s)
      PROVE  QueueInv'
  <2>1. CASE OwnStep(s)
    <3>1. SamePlaces /\ (Refill => Refill')
      BY <2>1, OwnStepStays DEF OwnStep, SamePlaces, Refill
    <3> QED BY <3>1, PlacesStay
  <2> QED BY <1>1, <2>1, ExecuteMoves, WorkerEndsServes
<1>2. ASSUME NEW t \in Tasks, Command(t)
      PROVE  QueueInv'
  BY <1>2, OtherStepsStay, PlacesStay, QueueAnswerServes DEF Command
<1>3. CASE Reconcile \/ MarkInterrupted \/ InitializeQueue \/ UNCHANGED vars
  <2>1. CASE Tasks = {}
    <3>1. UNCHANGED <<worker, waiting, known>>
      BY <1>3 DEF Reconcile, MarkInterrupted, InitializeQueue, vars
    <3>2. SamePlaces /\ ~Refill
      BY <2>1, <3>1 DEF SamePlaces, TaskOf, At, Refill
    <3> QED BY <3>2, PlacesStay
  <2>2. CASE Tasks # {}
    BY <1>3, <2>2, OtherStepsStay, PlacesStay
  <2> QED BY <2>1, <2>2
<1> QED BY <1>1, <1>2, <1>3, CrashEmpties DEF Next, Startup

-----------------------------------------------------------------------------
(* The controllers *)

\* A controller is that of the worker of its task.
ControllersInv ==
  \A t \in Tasks : controllers[t] \in Places =>
    /\ TaskOf(controllers[t]) = t
    /\ worker[controllers[t]].pc \in Controlled

LEMMA ControllersStay ==
  ASSUME ControllersInv, UNCHANGED controllers,
         \A s \in Places : worker[s].pc \in Controlled =>
           worker'[s].task = worker[s].task /\ worker'[s].pc \in Controlled
  PROVE  ControllersInv'
BY DEF ControllersInv, TaskOf

LEMMA OwnControllers ==
  ASSUME IInv, ControllersInv, NEW s \in Places, Execute(s)
  PROVE  ControllersInv'
<1>1. controllers \in [Tasks -> Places \cup {0, Leaked}] /\ Leaked \notin Places
      /\ 0 \notin Places
  BY BoundsOK, TypeParts DEF IInv, RestTypeOK, Leaked, Places
<1>2. {"idle", "claim", "register", "ended"} \cap Controlled = {}
  BY Points, ControlledPoints
<1>3. CASE WorkerEnds(s)
  <2>1. /\ worker[s].pc = "ended" /\ Become(s, Idle) /\ UNCHANGED controllers
    BY <1>3 DEF WorkerEnds, At
  <2>2. \A r \in Places \ {s} : worker'[r] = worker[r]
    BY <2>1, BecomeFields
  <2> QED BY <1>2, <2>1, <2>2, ControllersStay
<1>4. CASE Register(s) /\ OwnStep(s)
  <2>1. worker[s].pc = "register"
    BY <1>4 DEF Register, At
  <2>2. /\ worker'[s].task = worker[s].task
        /\ \A r \in Places \ {s} : worker'[r] = worker[r]
    BY <1>4 DEF OwnStep
  <2>3. TaskOf(s) \in Tasks
    BY <2>1, WorkerFacts DEF TaskOf
  <2>4. CASE Goto(s, "download") /\ controllers' = [controllers EXCEPT ![TaskOf(s)] = s]
    <3>1. "download" \in Settling /\ "download" \in Controlled /\ worker[s].pc \in Settling
          /\ worker[s].pc \notin Controlled
      BY <1>2, <2>1, Points, ControlledPoints
    <3>2. worker'[s].pc = "download"
      BY <2>4, WorkerFacts DEF Goto, Worker
    <3>3. \A t \in Tasks : controllers'[t] = IF t = TaskOf(s) THEN s ELSE controllers[t]
      BY <1>1, <2>3, <2>4
    <3>4. ASSUME NEW t \in Tasks, t # TaskOf(s), controllers[t] \in Places
          PROVE  controllers[t] # s
      BY <1>2, <2>1, <3>4 DEF ControllersInv
    <3> QED BY <2>2, <3>1, <3>2, <3>3, <3>4 DEF ControllersInv, TaskOf
  <2>5. CASE controllers' \in {controllers, [controllers EXCEPT ![TaskOf(s)] = Leaked]}
    <3>1. \A t \in Tasks : controllers'[t] \in {controllers[t], Leaked}
      BY <1>1, <2>3, <2>5
    <3>2. \A t \in Tasks : controllers[t] \in Places => controllers[t] # s
      BY <1>2, <2>1 DEF ControllersInv
    <3> QED BY <1>1, <2>2, <3>1, <3>2 DEF ControllersInv, TaskOf
  <2> QED BY <1>4, <2>4, <2>5 DEF Register
<1>5. CASE Ending(s) /\ OwnStep(s)
  <2>1. worker[s].pc = "ending" /\ controllers' = [controllers EXCEPT ![TaskOf(s)] = 0]
    BY <1>5 DEF Ending, At
  <2>2. \A r \in Places \ {s} : worker'[r] = worker[r]
    BY <1>5 DEF OwnStep
  <2>3. TaskOf(s) \in Tasks
    BY <2>1, WorkerFacts DEF TaskOf
  <2>4. \A t \in Tasks : controllers'[t] = IF t = TaskOf(s) THEN 0 ELSE controllers[t]
    BY <1>1, <2>1, <2>3
  <2> QED BY <1>1, <2>2, <2>4 DEF ControllersInv, TaskOf
<1>6. CASE OwnStep(s) /\ ~Register(s) /\ ~Ending(s) /\ ~WorkerEnds(s)
  <2>1. UNCHANGED controllers
    <3>1. CASE \/ ClaimWon(s) \/ ClaimRefused(s) \/ HeartbeatLost(s) \/ HeartbeatFails(s)
               \/ Download(s) \/ Advance(s) \/ Prepare(s) \/ Renew(s) \/ Recheck(s)
               \/ Failing(s)
      BY <3>1 DEF ClaimWon, ClaimRefused, HeartbeatLost, HeartbeatFails, Download,
                  Advance, Prepare, Renew, Recheck, Failing, Reads
    <3>2. CASE \/ Begin(s) \/ SaveFile(s) \/ MarkObject(s) \/ Index(s)
               \/ UndoObject(s) \/ UndoIndex(s) \/ UndoRecord(s)
               \/ Settle(s) \/ JournalCheck(s) \/ Fail(s)
      BY <3>2 DEF Begin, SaveFile, MarkObject, Index, UndoObject, UndoIndex, UndoRecord,
                  Settle, JournalCheck, Fail
    <3> QED BY <1>6, <3>1, <3>2 DEF Execute
  <2>2. \A r \in Places \ {s} : worker'[r] = worker[r]
    BY <1>6 DEF OwnStep
  <2>3. worker[s].pc \in Controlled =>
          worker'[s].task = worker[s].task /\ worker'[s].pc \in Controlled
    BY <1>2, <1>6 DEF OwnStep, GoesOnWith, IsAborted, LeavesIt, Claims, Closes, ClaimWon, At
  <2> QED BY <2>1, <2>2, <2>3, ControllersStay
<1> QED BY <1>3, <1>4, <1>5, <1>6, ExecuteMoves

LEMMA ControllersKept ==
  ASSUME IInv, ControllersInv, [Next]_vars
  PROVE  ControllersInv'
<1>1. "idle" \notin Controlled
  BY Points, ControlledPoints
<1>2. ASSUME NEW t \in Tasks, Command(t)
      PROVE  ControllersInv'
  <2>1. UNCHANGED controllers
    BY <1>2 DEF Command, Submit, Cancel, Retry, EnqueueCall, AbortCall, ShouldRequeue,
                Requeue
  <2>2. CASE EnqueueCall(t) \/ Requeue(t)
    <3>1. Enqueue(t) \/ (Process(worker, waiting) /\ UNCHANGED known)
      BY <2>2 DEF EnqueueCall, Requeue
    <3>2. \A s \in Places : worker'[s] = worker[s] \/ worker[s].pc = "idle"
      BY <3>1, EnqueueTypeOK
    <3> QED BY <1>1, <2>1, <3>2, ControllersStay
  <2>3. CASE Submit(t) \/ Cancel(t) \/ Retry(t) \/ ShouldRequeue(t)
    <3>1. UNCHANGED worker
      BY <2>3 DEF Submit, Cancel, Retry, ShouldRequeue
    <3> QED BY <2>1, <3>1, ControllersStay
  <2>4. CASE AbortCall(t)
    <3>1. /\ \A r \in Places \ {controllers[t]} : worker'[r] = worker[r]
          /\ controllers[t] \in Places =>
               /\ worker'[controllers[t]].pc = worker[controllers[t]].pc
               /\ worker'[controllers[t]].task = worker[controllers[t]].task
      <4>1. CASE controllers[t] \in Places
        <5>1. PICK p \in Places : p = controllers[t]
          BY <4>1
        <5> DEFINE v == Aborted(worker[p], "ownership")
        <5>2. Become(p, v)
          BY <2>4, <5>1 DEF AbortCall
        <5>3. v.pc = worker[p].pc /\ v.task = worker[p].task
          BY WorkerFacts, AbortedFields
        <5> HIDE DEF v
        <5>4. worker'[p] = v /\ \A r \in Places \ {p} : worker'[r] = worker[r]
          BY <5>2, BecomeFields
        <5> QED BY <5>1, <5>3, <5>4
      <4>2. CASE controllers[t] \notin Places
        BY <2>4, <4>2 DEF AbortCall
      <4> QED BY <4>1, <4>2
    <3>2. \A s \in Places : worker[s].pc \in Controlled =>
            worker'[s].task = worker[s].task /\ worker'[s].pc \in Controlled
      BY <3>1
    <3> QED BY <2>1, <3>2, ControllersStay
  <2> QED BY <1>2, <2>2, <2>3, <2>4 DEF Command
<1>3. CASE Reconcile \/ MarkInterrupted \/ InitializeQueue \/ UNCHANGED vars
  <2>1. UNCHANGED <<worker, controllers>>
    BY <1>3 DEF Reconcile, MarkInterrupted, InitializeQueue, vars
  <2> QED BY <2>1, ControllersStay
<1>4. CASE Crash
  BY <1>4, BoundsOK DEF Crash, ControllersInv, Places
<1> QED BY <1>2, <1>3, <1>4, OwnControllers DEF Next, Startup
-----------------------------------------------------------------------------
(* While nothing has failed *)

\* A worker without an execution knows none and is not aborted when it gets one.
UnboundInv ==
  \A s \in Places :
    /\ worker[s].pc \notin Settling => worker[s].execution = 0
    /\ worker[s].pc \in {"idle", "claim"} => worker[s].abort = "no"

LEMMA UnboundKept ==
  ASSUME IInv, UnboundInv, ControllersInv, [Next]_vars
  PROVE  UnboundInv'
<1>1. /\ {"idle", "claim", "ending", "ended"} \cap Settling = {}
      /\ {"register"} \cup InTry \subseteq Settling
  BY Points
<1>2. \A t \in Tasks \cup {NoTask} : Fresh(t).execution = 0 /\ Fresh(t).abort = "no"
  BY DEF Fresh
<1>3. Idle.execution = 0 /\ Idle.abort = "no" /\ Idle.pc = "idle"
  BY DEF Idle, Fresh
<1>4. ASSUME NEW s \in Places, Execute(s)
      PROVE  UnboundInv'
  <2>1. CASE WorkerEnds(s)
    <3>1. worker'[s] = Idle /\ \A r \in Places \ {s} : worker'[r] = worker[r]
      BY <2>1, BecomeFields DEF WorkerEnds
    <3> QED BY <1>1, <1>3, <3>1 DEF UnboundInv
  <2>2. CASE OwnStep(s)
    <3>1. /\ worker'[s].pc \notin Settling => worker'[s].execution = 0
          /\ worker'[s].pc \in {"idle", "claim"} => worker'[s].abort = "no"
      BY <1>1, <2>2
         DEF OwnStep, GoesOnWith, IsAborted, LeavesIt, Claims, Closes, Ending, At, UnboundInv
    <3> QED BY <2>2, <3>1 DEF OwnStep, UnboundInv
  <2> QED BY <1>4, <2>1, <2>2, ExecuteMoves
<1>5. ASSUME NEW t \in Tasks, Command(t)
      PROVE  UnboundInv'
  <2>1. CASE EnqueueCall(t) \/ Requeue(t)
    <3>1. Enqueue(t) \/ (Process(worker, waiting) /\ UNCHANGED known)
      BY <2>1 DEF EnqueueCall, Requeue
    <3>2. \A s \in Places : \/ worker'[s] = worker[s]
                            \/ \E u \in Tasks : worker'[s] = Fresh(u)
      BY <3>1, EnqueueTypeOK
    <3> QED BY <1>1, <1>2, <3>2 DEF UnboundInv
  <2>2. CASE Submit(t) \/ Cancel(t) \/ Retry(t) \/ ShouldRequeue(t)
    BY <2>2 DEF Submit, Cancel, Retry, ShouldRequeue, UnboundInv
  <2>3. CASE AbortCall(t)
    <3>1. CASE controllers[t] \in Places
      <4>1. PICK p \in Places : p = controllers[t]
        BY <3>1
      <4> DEFINE v == Aborted(worker[p], "ownership")
      <4>2. Become(p, v)
        BY <2>3, <4>1 DEF AbortCall
      <4>3. v.pc = worker[p].pc /\ v.execution = worker[p].execution
        BY WorkerFacts, AbortedFields
      <4> HIDE DEF v
      <4>4. worker'[p] = v /\ \A r \in Places \ {p} : worker'[r] = worker[r]
        BY <4>2, BecomeFields
      <4>5. worker[p].pc \notin {"idle", "claim"}
        BY <4>1, Points, ControlledPoints DEF ControllersInv
      <4> QED BY <4>3, <4>4, <4>5 DEF UnboundInv
    <3>2. CASE controllers[t] \notin Places
      BY <2>3, <3>2 DEF AbortCall, UnboundInv
    <3> QED BY <3>1, <3>2
  <2> QED BY <1>5, <2>1, <2>2, <2>3 DEF Command
<1>6. CASE Reconcile \/ MarkInterrupted \/ InitializeQueue \/ UNCHANGED vars
  <2>1. UNCHANGED worker
    BY <1>6 DEF Reconcile, MarkInterrupted, InitializeQueue, vars
  <2> QED BY <2>1 DEF UnboundInv
<1>7. CASE Crash
  BY <1>3, <1>7 DEF Crash, UnboundInv
<1> QED BY <1>4, <1>5, <1>6, <1>7 DEF Next, Startup

NeverLeaked == \A t \in Tasks : controllers[t] # Leaked

\* Only a worker that has lost its task is aborted.
AbortedHaveLost ==
  \A s \in Places : worker[s].abort # "no" => worker[s].abort = "ownership" /\ ~IsOwner(s)

RunningIsWanted == \A t \in Tasks : Status(t) = "running" => ~row[t].cancelRequested

RunningHasWorker == Serving => \A t \in Tasks : Status(t) = "running" => HasWorker(t)

PendingIsQueued == phase = "up" => \A t \in Tasks : Status(t) = "pending" => IsQueued(t)

UnharmedInv ==
  ~faulty => /\ NeverLeaked
             /\ AbortedHaveLost
             /\ RunningIsWanted
             /\ RunningHasWorker
             /\ PendingIsQueued

\* What a step may do to a row while nothing fails.
RowKeeps(t) ==
  \/ row'[t] = row[t]
  \/ row'[t].status \notin {"running", "pending"}
  \/ row'[t].status = "pending" /\ (phase' = "up" => IsQueued(t)')
  \/ /\ row'[t].status = "running"
     /\ row'[t].generation = row[t].generation + 1
     /\ ~row'[t].cancelRequested
     /\ HasWorker(t)'

\* What a step may do to a worker while nothing fails.
AbortKeeps(s) ==
  worker'[s].abort # "no" =>
    /\ worker'[s].task = worker[s].task
    /\ \/ worker'[s].abort = worker[s].abort
       \/ worker'[s].abort = "ownership" /\ ~IsOwner(s)
    /\ worker'[s].execution = worker[s].execution

WorkKeeps(s) ==
  worker[s].pc \in Settling =>
    \/ /\ worker'[s].pc \in Settling
       /\ worker'[s].task = worker[s].task
       /\ worker'[s].execution = worker[s].execution
    \/ ~IsOwner(s)
    \/ row'[TaskOf(s)].status # "running"

LEMMA LostStaysLost ==
  ASSUME IInv, IInv', UnboundInv, UnboundInv', \A t \in Tasks : RowKeeps(t),
         NEW s \in Places, ~IsOwner(s), worker'[s].abort # "no", TaskOf(s)' = TaskOf(s),
         worker'[s].execution = worker[s].execution
  PROVE  ~IsOwner(s)'
<1> DEFINE t == worker[s].task  g == worker[s].execution
<1> SUFFICES ASSUME IsOwner(s)'
             PROVE  FALSE
  OBVIOUS
<1>3. row'[t].status = "running" /\ row'[t].generation = g /\ row'[t].token = g
      /\ ~row'[t].cancelRequested
  BY DEF IsOwner, Owns, Status, TaskOf
<1>4. t \in Tasks
  <2>1. worker'[s].pc # "idle" => worker'[s].task \in Tasks
    BY DEF IInv, WorkerInv, At, TaskOf
  <2>2. worker'[s].pc # "idle"
    BY DEF UnboundInv
  <2> QED BY <2>1, <2>2 DEF TaskOf
<1>1. CASE g = 0
  BY <1>1, <1>3, <1>4 DEF IInv, TaskInv, LeaseWhileRunning, Status
<1>2. CASE g # 0
  <2>1. worker[s].pc \in Settling
    BY <1>2 DEF UnboundInv
  <2>2. t \in Tasks /\ g \in 1..row[t].generation /\ row[t].generation \in Nat
    BY <2>1, WorkerFacts, Generations DEF WorkerInv, TaskOf
  <2>3. CASE row'[t] = row[t]
    BY <1>3, <2>3 DEF Owns, IsOwner, Status
  <2>4. CASE row'[t].status = "running" /\ row'[t].generation = row[t].generation + 1
    BY <1>3, <2>2, <2>4
  <2> QED BY <1>3, <2>2, <2>3, <2>4 DEF RowKeeps
<1> QED BY <1>1, <1>2

LEMMA UnharmedKept ==
  ASSUME IInv, IInv', UnboundInv, UnboundInv', UnharmedInv, ~faulty, NeverLeaked',
         Serving' => Serving \/ \A t \in Tasks : Status(t)' # "running",
         phase' = "up" => phase = "up" \/ \A t \in Tasks : Status(t)' = "pending" => IsQueued(t)',
         \A t \in Tasks : RowKeeps(t),
         \A s \in Places : AbortKeeps(s) /\ WorkKeeps(s),
         phase' = "up" => \A t \in Tasks : IsQueued(t) => IsQueued(t)' \/ Status(t) # "pending"
  PROVE  UnharmedInv'
<1>1. NeverLeaked /\ AbortedHaveLost /\ RunningIsWanted /\ RunningHasWorker /\ PendingIsQueued
  BY DEF UnharmedInv
<1>2. AbortedHaveLost'
  <2> SUFFICES ASSUME NEW s \in Places, worker'[s].abort # "no"
               PROVE  worker'[s].abort = "ownership" /\ ~IsOwner(s)'
    BY DEF AbortedHaveLost
  <2>1. /\ worker'[s].task = worker[s].task
        /\ worker'[s].execution = worker[s].execution
        /\ worker'[s].abort = "ownership" /\ ~IsOwner(s)
    BY <1>1 DEF AbortKeeps, AbortedHaveLost
  <2> QED BY <2>1, LostStaysLost DEF TaskOf
<1>3. RunningIsWanted'
  BY <1>1 DEF RunningIsWanted, RowKeeps, Status
<1>4. RunningHasWorker'
  <2> SUFFICES ASSUME Serving', NEW t \in Tasks, Status(t)' = "running"
               PROVE  HasWorker(t)'
    BY DEF RunningHasWorker
  <2>1. row'[t] = row[t] \/ HasWorker(t)'
    BY DEF RowKeeps, Status
  <2>2. CASE row'[t] = row[t]
    <3>1. Status(t) = "running" /\ Serving
      BY <2>2 DEF Status
    <3>2. PICK s \in Places : /\ Execution(s) = <<t, row[t].generation>>
                              /\ worker[s].pc \in Settling
      BY <1>1, <3>1 DEF RunningHasWorker, HasWorker
    <3>3. worker[s].task = t /\ worker[s].execution = row[t].generation
      BY <3>2 DEF Execution
    <3>4. IsOwner(s)
      BY <1>1, <3>1, <3>3 DEF IsOwner, Owns, IInv, TaskInv, LeaseWhileRunning, RunningIsWanted
    <3>5. /\ worker'[s].pc \in Settling
          /\ worker'[s].task = t
          /\ worker'[s].execution = row'[t].generation
      BY <2>2, <3>1, <3>2, <3>3, <3>4 DEF WorkKeeps, TaskOf, Status
    <3> QED BY <3>5 DEF HasWorker, Execution
  <2> QED BY <2>1, <2>2
<1>5. PendingIsQueued'
  <2> SUFFICES ASSUME phase' = "up", NEW t \in Tasks, Status(t)' = "pending"
               PROVE  IsQueued(t)'
    BY DEF PendingIsQueued
  <2>1. row'[t] = row[t] \/ IsQueued(t)'
    BY DEF RowKeeps, Status
  <2>2. CASE row'[t] = row[t] /\ phase = "up"
    BY <1>1, <2>2 DEF Status, PendingIsQueued
  <2> QED BY <2>1, <2>2
<1> QED BY <1>2, <1>3, <1>4, <1>5 DEF UnharmedInv

\* A step that is no fault happens before anything has failed.
LEMMA FaultyGrows ==
  ASSUME IInv, ~faulty', [Next]_vars
  PROVE  ~faulty
BY ZenonT(60) DEF Next, Execute, Command, Startup, vars, NoFault, Fault, Disturbance, Happens,
       Requested, MayHappen,
       ClaimWon, ClaimRefused, Register, HeartbeatLost, HeartbeatFails, Download, Advance,
       Prepare, Begin, Renew, SaveFile, MarkObject, Recheck, Index, UndoObject, UndoIndex,
       UndoRecord, Settle, Failing, JournalCheck, Fail, Ending, WorkerEnds,
       Submit, Cancel, Retry, EnqueueCall, AbortCall, ShouldRequeue, Requeue,
       Crash, Reconcile, MarkInterrupted, InitializeQueue

\* A worker that leaves its execution has lost it, or has settled its task.
LEMMA FinishesRight ==
  ASSUME IInv, UnharmedInv, ~faulty, ~faulty', NEW s \in Places,
         LeavesIt(s), worker[s].pc \in Settling
  PROVE  ~IsOwner(s) \/ row'[TaskOf(s)].status # "running"
<1> DEFINE t == TaskOf(s)
<1>1. worker[s] \in Worker /\ worker \in [Places -> Worker] /\ t \in Tasks
      /\ TablesTypeOK
  BY WorkerFacts DEF TaskOf
<1>2. ~Fault /\ worker'[s].pc \in {"ending", "ended"}
  BY DEF Fault, LeavesIt
<1>3. \A l : Goto(s, l) => worker'[s].pc = l
  BY <1>1 DEF Goto, Worker
<1>4. \A l \in {"failing", "ending", "ended"} : Leave(s, l) => worker'[s].pc = l
  BY <1>1, LeftFields DEF Leave
<1>5. CASE ClaimRefused(s)
  BY <1>5, Points DEF ClaimRefused, At
<1>6. CASE Register(s)
  BY <1>2, <1>3, <1>6 DEF Register
<1>7. CASE Settle(s)
  <2>1. Happens(SettleCompleted(t, worker[s].execution, worker[s].wrote))
    BY <1>2, <1>3, <1>4, <1>7 DEF Settle, MayHappen
  <2>2. row' = [row EXCEPT ![t] = CompletedRow(@)]
    BY <2>1 DEF Happens, SettleCompleted
  <2>3. row'[t].status = "completed"
    BY <1>1, <2>2, CompletedFields DEF TablesTypeOK
  <2> QED BY <2>3
<1>8. CASE Failing(s)
  <2>1. /\ \/ Status(t) \in {"cancelled", "pending"}
           \/ worker[s].abort = "ownership"
        /\ row' = row
    BY <1>2, <1>3, <1>8 DEF Failing, Reads
  <2> QED BY <2>1 DEF UnharmedInv, AbortedHaveLost, Status
<1>9. CASE JournalCheck(s)
  <2>1. Become(s, [worker[s] EXCEPT !.pc = "fail", !.journalled = HasPending(TaskOf(s))])
    BY <1>2, <1>9 DEF JournalCheck
  <2>2. worker'[s].pc = "fail"
    BY <1>1, <2>1 DEF Become, Worker
  <2> QED BY <1>2, <2>2
<1>10. CASE Fail(s)
  <2>1. \/ ~IsOwner(s)
        \/ SettleFailed(t, worker[s].execution, ~worker[s].journalled)
    BY <1>2, <1>10 DEF Fail, Happens, MayHappen
  <2>2. ASSUME SettleFailed(t, worker[s].execution, ~worker[s].journalled)
        PROVE  row'[t].status # "running"
    BY <1>1, <2>2 DEF SettleFailed, TablesTypeOK, Row
  <2> QED BY <2>1, <2>2
<1> QED BY <1>5, <1>6, <1>7, <1>8, <1>9, <1>10 DEF LeavesIt, Finishes

\* The rows, in a step of a worker that is no fault.
LEMMA OwnRows ==
  ASSUME IInv, ~faulty', NEW s \in Places, Execute(s), OwnStep(s)
  PROVE  \A t \in Tasks : RowKeeps(t)
<1>0. PICK u : u = TaskOf(s)
  OBVIOUS
<1>1. /\ TablesTypeOK /\ worker \in [Places -> Worker] /\ row \in [Tasks -> Row]
      /\ worker[s].pc # "idle" => u \in Tasks
      /\ ~Fault
  BY <1>0, WorkerFacts DEF TaskOf, Fault, TablesTypeOK
<1>2. CASE UNCHANGED row
  BY <1>2 DEF RowKeeps
<1>3. CASE ClaimWon(s)
  <2>1. Claim(u) /\ u \in Tasks
    <3>1. worker[s].pc = "claim"
      BY <1>3 DEF ClaimWon, At
    <3>2. Claim(u)
      BY <1>0, <1>3, Zenon DEF ClaimWon, Happens
    <3> QED BY <1>1, <3>1, <3>2
  <2>2. /\ worker'[s].task = u /\ worker'[s].pc = "register"
        /\ worker'[s].execution = row[u].generation + 1
    <3> DEFINE g == row[u].generation + 1
               v == [worker[s] EXCEPT !.pc = "register", !.execution = g]
    <3>1. v.pc = "register" /\ v.task = worker[s].task /\ v.execution = g
      <4>1. worker[s] \in Worker
        BY <1>1
      <4> HIDE DEF g
      <4> QED BY <4>1 DEF Worker
    <3>2. Become(s, v)
      BY <1>0, <1>3, Zenon DEF ClaimWon
    <3> HIDE DEF v
    <3>3. worker'[s] = v
      BY <3>2, BecomeFields
    <3> QED BY <1>0, <3>1, <3>3 DEF TaskOf
  <2>3. /\ row'[u].status = "running" /\ ~row'[u].cancelRequested
        /\ row'[u].generation = row[u].generation + 1
    BY <1>1, <2>1 DEF Claim
  <2>4. HasWorker(u)'
    BY <2>2, <2>3, Points DEF HasWorker, Execution
  <2>5. \A t \in Tasks \ {u} : row'[t] = row[t]
    BY <1>1, <2>1 DEF Claim
  <2> QED BY <2>3, <2>4, <2>5 DEF RowKeeps
<1>4. CASE Settle(s)
  <2>1. u \in Tasks
    BY <1>0, <1>1, <1>4 DEF Settle, At
  <2>2. UNCHANGED row \/ row' = [row EXCEPT ![u] = CompletedRow(@)]
    BY <1>0, <1>1, <1>4 DEF Settle, Happens, MayHappen, SettleCompleted
  <2>3. CompletedRow(row[u]).status = "completed"
    BY <1>1, <2>1, CompletedFields DEF TablesTypeOK
  <2>4. \A t \in Tasks : row'[t] = row[t] \/ row'[t].status = "completed"
    BY <1>1, <2>1, <2>2, <2>3 DEF TablesTypeOK
  <2> QED BY <2>4 DEF RowKeeps
<1>5. CASE Fail(s)
  <2>1. u \in Tasks
    BY <1>0, <1>1, <1>5 DEF Fail, At
  <2>2. UNCHANGED row \/ SettleFailed(u, worker[s].execution, ~worker[s].journalled)
    BY <1>0, <1>1, <1>5 DEF Fail, Happens, MayHappen
  <2>3. \A t \in Tasks : row'[t] = row[t] \/ row'[t].status = "failed"
    BY <1>1, <2>1, <2>2 DEF SettleFailed, TablesTypeOK, Row
  <2> QED BY <2>3 DEF RowKeeps
<1>6. CASE ClaimRefused(s)
  BY <1>1, <1>2, <1>6 DEF ClaimRefused, MayHappen
<1>7. CASE \/ Register(s) \/ HeartbeatLost(s) \/ HeartbeatFails(s) \/ Download(s)
           \/ Advance(s) \/ Prepare(s) \/ Renew(s) \/ SaveFile(s) \/ Recheck(s)
  BY <1>2, <1>7 DEF Register, HeartbeatLost, HeartbeatFails, Download, Advance, Prepare,
                    Renew, SaveFile, Recheck, Reads
<1>8. CASE \/ UndoObject(s) \/ UndoIndex(s) \/ Failing(s) \/ JournalCheck(s)
           \/ Ending(s) \/ WorkerEnds(s)
  BY <1>2, <1>8 DEF UndoObject, UndoIndex, Failing, JournalCheck, Ending, WorkerEnds, Reads
<1>9. CASE Begin(s) \/ MarkObject(s) \/ Index(s) \/ UndoRecord(s)
  BY <1>2, <1>9 DEF Begin, MarkObject, Index, UndoRecord, InsertFile, Happens, MayHappen,
                    BeginWrite, MarkObjectPresent, MarkIndexPresent, UpdateCompensation
<1> QED BY <1>3, <1>4, <1>5, <1>6, <1>7, <1>8, <1>9 DEF Execute

LEMMA OwnStepUnharmed ==
  ASSUME IInv, IInv', UnboundInv, UnboundInv', UnharmedInv, ~faulty, ~faulty',
         NEW s \in Places, Execute(s), OwnStep(s)
  PROVE  UnharmedInv'
<1>1. \A t \in Tasks : RowKeeps(t)
  BY OwnRows
<1>2. ~Fault
  BY DEF Fault
<1>3. ASSUME NEW r \in Places
      PROVE  AbortKeeps(r) /\ WorkKeeps(r)
  <2>1. CASE r # s
    BY <2>1 DEF OwnStep, AbortKeeps, WorkKeeps
  <2>2. CASE r = s
    <3>1. AbortKeeps(s)
      BY <1>2 DEF OwnStep, GoesOnWith, IsAborted, HeartbeatLost, LeavesIt, Claims, Closes,
                  ClaimWon, At, AbortKeeps, UnboundInv
    <3>2. WorkKeeps(s)
      BY Points, FinishesRight DEF OwnStep, GoesOnWith, IsAborted, Claims, Closes,
                  ClaimWon, Ending, At, WorkKeeps, LeavesIt
    <3> QED BY <2>2, <3>1, <3>2
  <2> QED BY <2>1, <2>2
<1>4. NeverLeaked'
  <2>1. NeverLeaked /\ Leaked \notin Places \cup {0}
        /\ controllers \in [Tasks -> Places \cup {0, Leaked}]
    BY BoundsOK, TypeParts DEF UnharmedInv, Leaked, Places, IInv, RestTypeOK
  <2>2. \/ UNCHANGED controllers
        \/ \E c \in {0, s} : controllers' = [controllers EXCEPT ![TaskOf(s)] = c]
    <3>1. CASE Register(s) \/ Ending(s)
      BY <1>2, <3>1 DEF Register, Ending
    <3>2. CASE \/ ClaimWon(s) \/ ClaimRefused(s) \/ HeartbeatLost(s) \/ HeartbeatFails(s)
               \/ Download(s) \/ Advance(s) \/ Prepare(s) \/ Renew(s) \/ Recheck(s)
               \/ Failing(s) \/ WorkerEnds(s)
      BY <3>2 DEF ClaimWon, ClaimRefused, HeartbeatLost, HeartbeatFails, Download,
                  Advance, Prepare, Renew, Recheck, Failing, Reads, WorkerEnds
    <3>3. CASE \/ Begin(s) \/ SaveFile(s) \/ MarkObject(s) \/ Index(s)
               \/ UndoObject(s) \/ UndoIndex(s) \/ UndoRecord(s)
               \/ Settle(s) \/ JournalCheck(s) \/ Fail(s)
      BY <3>3 DEF Begin, SaveFile, MarkObject, Index, UndoObject, UndoIndex, UndoRecord,
                  Settle, JournalCheck, Fail
    <3> QED BY <3>1, <3>2, <3>3 DEF Execute
  <2> QED BY <2>1, <2>2 DEF NeverLeaked
<1>5. \A t \in Tasks : IsQueued(t) => IsQueued(t)'
  BY OwnStepStays DEF OwnStep, IsQueued
<1>6. phase' = phase /\ (Serving' => Serving)
  BY DEF OwnStep, Serving
<1> QED BY <1>1, <1>3, <1>4, <1>5, <1>6, UnharmedKept

\* A step of the queue or of an answer: no row moves.
LEMMA RestingRows ==
  ASSUME IInv, IInv', UnboundInv, UnboundInv', UnharmedInv, ~faulty,
         UNCHANGED <<row, controllers, phase>>,
         \A s \in Places : AbortKeeps(s) /\ WorkKeeps(s),
         \A t \in Tasks : IsQueued(t) => IsQueued(t)' \/ Status(t) # "pending"
  PROVE  UnharmedInv'
<1>1. \A t \in Tasks : RowKeeps(t)
  BY DEF RowKeeps
<1>2. NeverLeaked'
  BY DEF UnharmedInv, NeverLeaked
<1>3. phase' = phase /\ (Serving' => Serving)
  BY DEF Serving
<1> QED BY <1>1, <1>2, <1>3, UnharmedKept

LEMMA SameWorkerKeeps ==
  ASSUME NEW s \in Places, worker'[s] = worker[s]
  PROVE  AbortKeeps(s) /\ WorkKeeps(s)
BY DEF AbortKeeps, WorkKeeps

LEMMA QueuedIsListed ==
  /\ \A t \in Tasks : IsQueued(t) <=>
       \/ Listed(waiting, t)
       \/ {<<"enqueue", t>>, <<"read", t>>, <<"again", t>>} \cap calls # {}
  /\ \A t \in Tasks : IsQueued(t)' <=>
       \/ Listed(waiting, t)'
       \/ {<<"enqueue", t>>, <<"read", t>>, <<"again", t>>} \cap calls' # {}
BY DEF IsQueued, Listed, Occupied

LEMMA WorkerEndsUnharmed ==
  ASSUME IInv, IInv', UnboundInv, UnboundInv', QueueInv, UnharmedInv, ~faulty,
         NEW s \in Places, WorkerEnds(s)
  PROVE  UnharmedInv'
<1>1. /\ worker[s].pc = "ended" /\ Become(s, Idle) /\ UNCHANGED <<row, controllers, phase>>
      /\ calls' = calls \cup {<<"read", TaskOf(s)>>}
  BY DEF WorkerEnds, At
<1>2. worker'[s] = Idle /\ \A r \in Places \ {s} : worker'[r] = worker[r]
  BY <1>1, BecomeFields
<1>3. AbortKeeps(s) /\ WorkKeeps(s)
  BY <1>1, <1>2, Points DEF AbortKeeps, WorkKeeps, Idle, Fresh
<1>4. \A t \in Tasks : IsQueued(t) => IsQueued(t)'
  BY <1>1, WorkerEndsServes, QueuedIsListed
<1> QED BY <1>1, <1>2, <1>3, <1>4, SameWorkerKeeps, RestingRows

LEMMA StatementUnharmed ==
  ASSUME IInv, IInv', UnboundInv, UnboundInv', UnharmedInv, ~faulty, ~faulty',
         NEW t \in Tasks, Submit(t) \/ Cancel(t) \/ Retry(t)
  PROVE  UnharmedInv'
<1>1. /\ UNCHANGED <<worker, waiting, controllers, phase>> /\ ~Fault
      /\ row \in [Tasks -> Row] /\ calls \subseteq calls'
  BY WorkerFacts DEF Submit, Cancel, Retry, IInv, TypeOK, TablesTypeOK, Fault
<1>2. \/ CreateTask(t) /\ <<"enqueue", t>> \in calls'
      \/ CancelTask(t)
      \/ RetryTask(t) /\ <<"enqueue", t>> \in calls'
  BY <1>1 DEF Submit, Cancel, Retry, Requested, MayHappen
<1>3. \A u \in Tasks \ {t} : row'[u] = row[u]
  BY <1>1, <1>2 DEF CreateTask, CancelTask, RetryTask
<1>4. \/ row'[t].status = "cancelled"
      \/ row'[t].status = "pending" /\ <<"enqueue", t>> \in calls'
  BY <1>1, <1>2 DEF CreateTask, CancelTask, RetryTask, Row
<1>5. <<"enqueue", t>> \in calls' => IsQueued(t)'
  BY DEF IsQueued
<1>6. \A u \in Tasks : RowKeeps(u)
  BY <1>3, <1>4, <1>5 DEF RowKeeps
<1>7. \A s \in Places : AbortKeeps(s) /\ WorkKeeps(s)
  BY <1>1, SameWorkerKeeps
<1>8. \A u \in Tasks : IsQueued(u) => IsQueued(u)'
  BY <1>1 DEF IsQueued, TaskOf, At
<1>9. NeverLeaked'
  BY <1>1 DEF UnharmedInv, NeverLeaked
<1>10. phase' = phase /\ (Serving' => Serving)
  BY <1>1 DEF Serving
<1> QED BY <1>6, <1>7, <1>8, <1>9, <1>10, UnharmedKept

LEMMA AbortUnharmed ==
  ASSUME IInv, IInv', UnboundInv, UnboundInv', UnharmedInv, ~faulty, ~faulty',
         NEW t \in Tasks, AbortCall(t)
  PROVE  UnharmedInv'
<1>1. /\ UNCHANGED <<row, waiting, controllers, phase>> /\ ~TooLate(t)
      /\ calls' = calls \ {<<"abort", t>>}
  BY DEF AbortCall, Answered, Fault
<1>2. ASSUME controllers[t] \in Places
      PROVE  \A s \in Places : AbortKeeps(s) /\ WorkKeeps(s)
  <2>1. PICK p \in Places : p = controllers[t]
    BY <1>2
  <2> DEFINE v == Aborted(worker[p], "ownership")
  <2>2. Become(p, v)
    BY <2>1 DEF AbortCall
  <2>3. /\ v.pc = worker[p].pc /\ v.task = worker[p].task
        /\ v.execution = worker[p].execution
        /\ v.abort \in {worker[p].abort, "ownership"}
    <3>1. worker[p] \in Worker
      BY WorkerFacts
    <3>2. v.abort \in {worker[p].abort, "ownership"}
      BY <3>1 DEF Aborted, Worker
    <3> QED BY <3>1, <3>2, AbortedFields
  <2> HIDE DEF v
  <2>4. worker'[p] = v /\ \A r \in Places \ {p} : worker'[r] = worker[r]
    BY <2>2, BecomeFields
  <2>5. ~IsOwner(p)
    BY <1>1, <2>1 DEF TooLate
  <2>6. AbortKeeps(p) /\ WorkKeeps(p)
    BY <2>3, <2>4, <2>5 DEF AbortKeeps, WorkKeeps
  <2> QED BY <2>4, <2>6, SameWorkerKeeps
<1>3. ASSUME controllers[t] \notin Places
      PROVE  \A s \in Places : AbortKeeps(s) /\ WorkKeeps(s)
  BY <1>3, SameWorkerKeeps DEF AbortCall
<1>4. \A u \in Tasks : IsQueued(u) => IsQueued(u)'
  <2>1. \A s \in Places : TaskOf(s)' = TaskOf(s) /\ (At(s, "idle")' <=> At(s, "idle"))
    BY OtherStepsStay DEF SamePlaces
  <2>2. \A c \in calls : c # <<"abort", t>> => c \in calls'
    BY <1>1
  <2>3. \A u \in Tasks :
          <<"abort", t>> \notin {<<"enqueue", u>>, <<"read", u>>, <<"again", u>>}
    OBVIOUS
  <2> QED BY <1>1, <2>1, <2>2, <2>3 DEF IsQueued
<1> QED BY <1>1, <1>2, <1>3, <1>4, RestingRows

LEMMA RequeueUnharmed ==
  ASSUME IInv, IInv', UnboundInv, UnboundInv', UnharmedInv, ~faulty, ~faulty',
         NEW t \in Tasks, ShouldRequeue(t)
  PROVE  UnharmedInv'
<1>1. /\ UNCHANGED <<row, worker, waiting, controllers, phase>>
      /\ calls' = (calls \ {<<"read", t>>})
           \cup {IF Status(t) = "pending" THEN <<"again", t>> ELSE ProcessCall}
  BY DEF ShouldRequeue, Fault
<1>2. \A s \in Places : AbortKeeps(s) /\ WorkKeeps(s)
  BY <1>1, SameWorkerKeeps
<1>3. ASSUME NEW u \in Tasks, IsQueued(u), Status(u) = "pending"
      PROVE  IsQueued(u)'
  <2>1. \A c \in calls : c # <<"read", t>> => c \in calls'
    BY <1>1
  <2>2. Status(t) = "pending" => <<"again", t>> \in calls'
    BY <1>1
  <2>3. /\ <<"read", t>> \notin {<<"enqueue", u>>, <<"again", u>>}
        /\ <<"read", t>> = <<"read", u>> => t = u
    OBVIOUS
  <2> QED BY <1>1, <1>3, <2>1, <2>2, <2>3 DEF IsQueued, TaskOf, At
<1> QED BY <1>1, <1>2, <1>3, RestingRows

LEMMA QueueAnswerUnharmed ==
  ASSUME IInv, IInv', UnboundInv, UnboundInv', QueueInv, ControllersInv, UnharmedInv,
         ~faulty, NEW t \in Tasks, EnqueueCall(t) \/ Requeue(t)
  PROVE  UnharmedInv'
<1>1. UNCHANGED <<row, controllers, phase>>
  BY DEF EnqueueCall, Requeue
<1>2. \A s \in Places : AbortKeeps(s) /\ WorkKeeps(s)
  <2>1. Enqueue(t) \/ (Process(worker, waiting) /\ UNCHANGED known)
    BY DEF EnqueueCall, Requeue
  <2>2. ASSUME NEW s \in Places
        PROVE  \/ worker'[s] = worker[s]
               \/ worker[s].pc = "idle" /\ worker'[s].abort = "no"
    <3>1. \/ worker'[s] = worker[s]
          \/ worker[s].pc = "idle" /\ \E u \in Tasks : worker'[s] = Fresh(u)
      BY <2>1, EnqueueTypeOK
    <3>2. \A u \in Tasks : Fresh(u).abort = "no"
      BY DEF Fresh
    <3> QED BY <3>1, <3>2
  <2> QED BY <2>2, SameWorkerKeeps, Points DEF AbortKeeps, WorkKeeps
<1>3. /\ \A u \in Tasks : Listed(waiting, u) => Listed(waiting, u)'
      /\ EnqueueCall(t) \/ Answered(<<"again", t>>) =>
           Listed(waiting, t)' \/ controllers[t] # 0
  BY QueueAnswerServes
<1>4. controllers[t] # 0 => Listed(waiting, t)
  <2>1. controllers[t] \in Places \cup {0}
    BY TypeParts DEF UnharmedInv, NeverLeaked, IInv, RestTypeOK
  <2>2. "idle" \notin Controlled
    BY Points, ControlledPoints
  <2> QED BY <2>1, <2>2 DEF ControllersInv, Listed, Occupied, At
<1>5. EnqueueCall(t) \/ Answered(<<"again", t>>) => Listed(waiting, t)'
  BY <1>3, <1>4
<1>6. \/ EnqueueCall(t) /\ calls' = calls \ {<<"enqueue", t>>}
      \/ Answered(<<"again", t>>) /\ calls' = calls \ {<<"again", t>>}
      \/ calls' = calls \ {ProcessCall}
  BY DEF EnqueueCall, Requeue, Answered
<1>7. ASSUME NEW u \in Tasks, IsQueued(u)
      PROVE  IsQueued(u)'
  <2> DEFINE mine == {<<"enqueue", u>>, <<"read", u>>, <<"again", u>>}
  <2>1. CASE Listed(waiting, u)
    BY <1>3, <2>1, QueuedIsListed
  <2>2. CASE u = t /\ (EnqueueCall(t) \/ Answered(<<"again", t>>))
    <3>1. IsQueued(t)'
      BY <1>5, <2>2, QueuedIsListed
    <3> QED BY <2>2, <3>1 DEF IsQueued
  <2>3. CASE /\ mine \cap calls # {}
             /\ ~(u = t /\ (EnqueueCall(t) \/ Answered(<<"again", t>>)))
    <3>1. ProcessCall \notin mine
      BY DEF ProcessCall
    <3>2. u # t => <<"enqueue", t>> \notin mine /\ <<"again", t>> \notin mine
      OBVIOUS
    <3>3. mine \cap calls' # {}
      BY <1>6, <2>3, <3>1, <3>2
    <3> QED BY <3>3, QueuedIsListed
  <2> QED BY <1>7, <2>1, <2>2, <2>3, QueuedIsListed
<1> QED BY <1>1, <1>2, <1>7, RestingRows

LEMMA StartupUnharmed ==
  ASSUME IInv, IInv', UnboundInv, UnboundInv', UnharmedInv, ~faulty,
         Reconcile \/ MarkInterrupted \/ InitializeQueue
  PROVE  UnharmedInv'
<1>1. /\ UNCHANGED <<worker, waiting, controllers>> /\ calls \subseteq calls'
      /\ row \in [Tasks -> Row]
  BY TypeParts DEF Reconcile, MarkInterrupted, InitializeQueue, IInv, TablesTypeOK
<1>2. \A s \in Places : AbortKeeps(s) /\ WorkKeeps(s)
  BY <1>1, SameWorkerKeeps
<1>3. NeverLeaked'
  BY <1>1 DEF UnharmedInv, NeverLeaked
<1>4. \A t \in Tasks : IsQueued(t) => IsQueued(t)'
  BY <1>1 DEF IsQueued, TaskOf, At
<1>5. CASE Reconcile
  <2>1. phase' = "reconciled"
    BY <1>5 DEF Reconcile
  <2>2. ASSUME NEW t \in Tasks
        PROVE  row'[t] = row[t] \/ row'[t].status = "completed"
    <3>1. CompletedRow(row[t]) \in Row /\ CompletedRow(row[t]).status = "completed"
      BY <1>1, CompletedFields
    <3>2. ASSUME NEW c \in Row
          PROVE  [c EXCEPT !.cancelRequested = FALSE].status = c.status
      BY DEF Row
    <3>3. [CompletedRow(row[t]) EXCEPT !.cancelRequested = FALSE].status = "completed"
      BY <3>1, <3>2
    <3> QED BY <1>5, <3>3 DEF Reconcile, ReconcileCommitted
  <2>3. \A t \in Tasks : RowKeeps(t)
    BY <2>2 DEF RowKeeps
  <2>4. ~Serving' /\ phase' # "up"
    BY <2>1 DEF Serving
  <2> QED BY <1>2, <1>3, <2>3, <2>4, UnharmedKept
<1>6. CASE MarkInterrupted
  <2>1. phase' = "marked"
    BY <1>6 DEF MarkInterrupted
  <2>2. ASSUME NEW t \in Tasks
        PROVE  /\ \/ row'[t] = row[t]
                  \/ row'[t].status \in {"pending", "retry_required"}
               /\ row'[t].status # "running"
    <3>1. row' = [u \in Tasks |->
                    IF Status(u) # "running" THEN row[u]
                    ELSE [row[u] EXCEPT
                            !.status = IF HasPending(u) THEN "retry_required"
                                       ELSE "pending",
                            !.retryable = ~HasPending(u),
                            !.cancelRequested = FALSE,
                            !.token = NoToken]]
      BY <1>6 DEF MarkInterrupted, MarkAfterRestart
    <3> QED BY <1>1, <3>1 DEF Status, Row
  <2>3. \A t \in Tasks : RowKeeps(t)
    BY <2>1, <2>2 DEF RowKeeps
  <2>4. \A t \in Tasks : Status(t)' # "running"
    BY <2>2 DEF Status
  <2> QED BY <1>2, <1>3, <2>1, <2>3, <2>4, UnharmedKept
<1>7. CASE InitializeQueue
  <2>1. /\ phase' = "up" /\ phase = "marked" /\ row' = row
        /\ \A t \in Tasks : Status(t) = "pending" => <<"enqueue", t>> \in calls'
    BY <1>7 DEF InitializeQueue
  <2>2. \A t \in Tasks : Status(t)' = "pending" => IsQueued(t)'
    BY <2>1 DEF IsQueued, Status
  <2>3. \A t \in Tasks : RowKeeps(t)
    BY <2>1 DEF RowKeeps
  <2>4. Serving
    BY <2>1 DEF Serving
  <2> QED BY <1>2, <1>3, <1>4, <2>1, <2>2, <2>3, <2>4, UnharmedKept
<1> QED BY <1>5, <1>6, <1>7

LEMMA CrashUnharmed ==
  ASSUME UnharmedInv, ~faulty, Crash
  PROVE  UnharmedInv'
<1>1. /\ phase' = "down" /\ row' = row
      /\ \A s \in Places : worker'[s].abort = "no"
      /\ \A t \in Tasks : controllers'[t] = 0
  BY DEF Crash, Idle, Fresh
<1>2. Leaked # 0
  BY BoundsOK DEF Leaked
<1> QED BY <1>1, <1>2 DEF UnharmedInv, NeverLeaked, AbortedHaveLost, RunningIsWanted,
                         RunningHasWorker, PendingIsQueued, Serving, Status

LEMMA StutterUnharmed ==
  ASSUME IInv, IInv', UnboundInv, UnboundInv', UnharmedInv, ~faulty, UNCHANGED vars
  PROVE  UnharmedInv'
<1>1. UNCHANGED <<row, worker, waiting, calls, controllers, phase>>
  BY DEF vars
<1>2. \A s \in Places : AbortKeeps(s) /\ WorkKeeps(s)
  BY <1>1, SameWorkerKeeps
<1>3. \A t \in Tasks : IsQueued(t) => IsQueued(t)'
  BY <1>1 DEF IsQueued, TaskOf, At
<1> QED BY <1>1, <1>2, <1>3, RestingRows

-----------------------------------------------------------------------------
(* Nobody is left behind *)

ServiceInv == QueueInv /\ ControllersInv /\ UnboundInv /\ UnharmedInv

LEMMA ServiceKept ==
  ASSUME IInv, IInv', ServiceInv, [Next]_vars
  PROVE  ServiceInv'
<1>1. QueueInv' /\ ControllersInv' /\ UnboundInv'
  BY QueueKept, ControllersKept, UnboundKept DEF ServiceInv
<1>2. ASSUME ~faulty'
      PROVE  UnharmedInv'
  <2>1. ~faulty
    BY <1>2, FaultyGrows
  <2>2. ASSUME NEW s \in Places, Execute(s)
        PROVE  UnharmedInv'
    BY <1>1, <1>2, <2>1, <2>2, ExecuteMoves, OwnStepUnharmed, WorkerEndsUnharmed
       DEF ServiceInv
  <2>3. ASSUME NEW t \in Tasks, Command(t)
        PROVE  UnharmedInv'
    BY <1>1, <1>2, <2>1, <2>3, StatementUnharmed, AbortUnharmed, RequeueUnharmed,
       QueueAnswerUnharmed DEF ServiceInv, Command
  <2>4. CASE Startup
    BY <1>1, <2>1, <2>4, StartupUnharmed, CrashUnharmed DEF ServiceInv, Startup
  <2>5. CASE UNCHANGED vars
    BY <1>1, <2>1, <2>5, StutterUnharmed DEF ServiceInv
  <2> QED BY <2>2, <2>3, <2>4, <2>5 DEF Next
<1>3. faulty' => UnharmedInv'
  BY DEF UnharmedInv
<1> QED BY <1>1, <1>2, <1>3 DEF ServiceInv

LEMMA ServiceStarts == Init => ServiceInv
<1> SUFFICES ASSUME Init
             PROVE  ServiceInv
  OBVIOUS
<1>1. /\ \A s \in Places : worker[s].pc = "idle" /\ worker[s].execution = 0
                           /\ worker[s].abort = "no"
      /\ waiting = << >> /\ known = {} /\ calls = {}
      /\ \A t \in Tasks : controllers[t] = 0 /\ Status(t) = "absent"
  BY DEF Init, Idle, Fresh, TablesInit, AbsentRow, Status
<1>2. QueueInv
  BY <1>1 DEF QueueInv, Apart, Listed, Occupied, At, PlacesAreFilled
<1>3. ControllersInv /\ UnboundInv /\ NeverLeaked
  BY <1>1, BoundsOK DEF ControllersInv, UnboundInv, NeverLeaked, Places, Leaked
<1>4. AbortedHaveLost /\ RunningIsWanted /\ RunningHasWorker /\ PendingIsQueued
  BY <1>1 DEF AbortedHaveLost, RunningIsWanted, RunningHasWorker, PendingIsQueued
<1> QED BY <1>2, <1>3, <1>4 DEF ServiceInv, UnharmedInv

\* The queue, the places, the controllers and the answers under way fit together.
THEOREM ServiceHolds == Spec => []ServiceInv
<1>1. Init => ServiceInv
  BY ServiceStarts
<1>2. IInv /\ IInv' /\ ServiceInv /\ [Next]_vars => ServiceInv'
  BY ServiceKept
<1> QED BY <1>1, <1>2, InvariantHolds, PTL DEF Spec

\* No task is executed by two workers of the process, and none waits while it is
\* executed.
THEOREM WorkersAreAlone == Spec => []OneWorkerPerTask
<1>1. ServiceInv => OneWorkerPerTask
  BY DEF ServiceInv, QueueInv, Apart, Occupied, OneWorkerPerTask
<1> QED BY <1>1, ServiceHolds, PTL

\* As long as the database does not fail, a pending task waits or is about to be
\* queued and a running one has its worker; and no place stays empty beside a
\* waiting task.
THEOREM TasksStayServed == Spec => []TasksAreServed
<1>1. ServiceInv => TasksAreServed
  BY DEF ServiceInv, QueueInv, UnharmedInv, RunningHasWorker, PendingIsQueued, Serving,
         TasksAreServed, NothingStranded
<1> QED BY <1>1, ServiceHolds, PTL
=============================================================================
