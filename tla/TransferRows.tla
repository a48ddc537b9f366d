------------------------------ MODULE TransferRows ------------------------------
(***************************************************************************)
(* What the table transfer_tasks and the task list of the web interface say*)
(* of a group of the download queue: snapshots handed over in a chain per  *)
(* group (notifyGroup of downloadTaskQueue.ts), thinned out to one a second*)
(* (telegramUpload.ts), written by version (transferTasks.ts), listed,     *)
(* cancelled and dismissed (routes/tasks.ts, taskCenterDismissals.ts).     *)
(* The groups themselves are those of DownloadTaskQueue; here only their   *)
(* state and whether a file failed count.                                  *)
(***************************************************************************)
EXTENDS Naturals, Sequences, FiniteSets

CONSTANTS
  Groups,     \* groups of the queue
  MaxVersion, \* bound on the versions of a group, and of a row that is cancelled again
  MaxChain,   \* bound on the snapshots that wait
  MaxTrouble  \* bound on lost snapshots and restarts

VARIABLES
  group,     \* state of the group in memory, "none" when there is none
  failed,    \* whether a file of its present life has failed
  version,   \* updatedAt of the group
  chain,     \* its snapshots still to be persisted
  recent,    \* ordinaryTaskPersistedAt is less than a second old
  row,       \* transfer_tasks
  admitting, \* admitOrdinaryTransferTask returned, ensureGroup not yet called
  canceller, \* the web request that cancels a group
  dismissal, \* the preview, the request and the row of a dismissal
  reached,   \* the ends the group really came to, and "undone" if a pause undid a cancellation
  lost,      \* a snapshot could not be written
  trouble

vars == <<group, failed, version, chain, recent, row, admitting, canceller, dismissal, reached, lost, trouble>>
memory == <<group, failed, version, chain, reached>>
web    == <<canceller, dismissal>>

Ended   == {"completed", "cancelled"}
Final   == {"completed", "failed", "cancelled"}
NoRow   == [status |-> "none", version |-> 0, updated |-> 0]
\* at: the version of the row that is hidden, frozen in a preview, found again by its confirmation.
NoDismissal == [hidden |-> 0, frozen |-> 0, found |-> 0]

Init ==
  /\ group = [g \in Groups |-> "none"] /\ failed = [g \in Groups |-> FALSE]
  /\ version = [g \in Groups |-> 0] /\ chain = [g \in Groups |-> <<>>]
  /\ recent = [g \in Groups |-> FALSE] /\ row = [g \in Groups |-> NoRow]
  /\ admitting = {} /\ canceller = {}
  /\ dismissal = [g \in Groups |-> NoDismissal]
  /\ reached = [g \in Groups |-> {}] /\ lost = {} /\ trouble = 0

-----------------------------------------------------------------------------
(* The queue in memory.                                                    *)

\* What may become of a group: its files start, end and fail, it is paused, resumed and
\* cancelled.  A pause takes the place of a cancellation whose files have not ended yet,
\* and a file added late reopens a group that had ended its files.
Follows(state) == CASE state = "waiting"    -> {"running", "paused", "cancelled"}
                    [] state = "running"    -> {"waiting", "running", "pausing", "cancelling", "completed"}
                    [] state = "pausing"    -> {"paused", "running", "waiting", "cancelling", "completed"}
                    [] state = "paused"     -> {"waiting", "running", "cancelled"}
                    [] state = "cancelling" -> {"pausing", "cancelled"}
                    [] state = "completed"  -> {"waiting", "paused"}
                    [] OTHER                -> {}

\* nextGroupVersion, and the snapshot notifyGroup appends.
Become(g, state, bad) ==
  /\ version[g] < MaxVersion /\ Len(chain[g]) < MaxChain
  /\ version' = [version EXCEPT ![g] = @ + 1]
  /\ group' = [group EXCEPT ![g] = state]
  /\ failed' = [failed EXCEPT ![g] = bad]
  /\ chain' = [chain EXCEPT ![g] = Append(@, [state |-> state, failed |-> bad, version |-> version[g] + 1])]
  /\ reached' = [reached EXCEPT ![g] = @ \cup
       (CASE state = "completed" -> {IF bad THEN "failed" ELSE "completed"}
          [] state = "cancelled" -> {"cancelled"}
          [] state = "pausing" /\ group[g] = "cancelling" -> {"undone"}
          [] OTHER -> {})]

Change(g) ==
  /\ \E state \in Follows(group[g]) :
     \E bad \in IF group[g] \in {"running", "pausing"} /\ state \in {"waiting", "running", "paused", "completed"}
                THEN {failed[g], TRUE} ELSE {failed[g]} :
       Become(g, state, bad)
  /\ UNCHANGED <<recent, row, admitting, web, lost, trouble>>

\* retryFailedDownloadTasks puts the failed files back.
RetryFailed(g) ==
  /\ group[g] = "completed" /\ failed[g]
  /\ Become(g, "running", FALSE)
  /\ UNCHANGED <<recent, row, admitting, web, lost, trouble>>

-----------------------------------------------------------------------------
(* The table.                                                              *)

\* ordinaryStatus
Status(shot) == CASE shot.state \in {"cancelled", "cancelling"} -> "cancelled"
                  [] shot.state = "completed" -> IF shot.failed THEN "failed" ELSE "completed"
                  [] shot.state \in {"paused", "pausing"} -> "paused"
                  [] shot.state = "running" -> "running"
                  [] OTHER -> "pending"

\* persistOrdinaryTransferTask: a newer version replaces a row that is not final.
Persisted(g, shot) ==
  IF row[g].status = "none" \/ (shot.version > row[g].version /\ row[g].status \notin Final)
  THEN row' = [row EXCEPT ![g] = [status |-> Status(shot), version |-> shot.version, updated |-> @.updated + 1]]
  ELSE UNCHANGED row

\* A slip: an end is held back like anything else.
NeverUrgent(shot) == FALSE

\* onGroupChanged: what is not an end, or a failure, is written at most once a second.
Urgent(shot) == shot.state \in Ended \/ shot.failed

Persist(g) ==
  LET shot == Head(chain[g])
  IN  /\ chain[g] # <<>>
      /\ chain' = [chain EXCEPT ![g] = Tail(@)]
      /\ IF ~Urgent(shot) /\ recent[g]
         THEN UNCHANGED <<recent, row>>
         ELSE recent' = [recent EXCEPT ![g] = TRUE] /\ Persisted(g, shot)
      /\ UNCHANGED <<group, failed, version, admitting, web, reached, lost, trouble>>

PersistFails(g) ==
  /\ chain[g] # <<>> /\ trouble < MaxTrouble
  /\ Urgent(Head(chain[g])) \/ ~recent[g]
  /\ chain' = [chain EXCEPT ![g] = Tail(@)]
  /\ recent' = [recent EXCEPT ![g] = TRUE]
  /\ lost' = lost \cup {g}
  /\ trouble' = trouble + 1
  /\ UNCHANGED <<group, failed, version, row, admitting, web, reached>>

SecondPasses(g) ==
  /\ recent[g]
  /\ recent' = [recent EXCEPT ![g] = FALSE]
  /\ UNCHANGED <<memory, row, admitting, web, lost, trouble>>

\* admitOrdinaryTransferTask writes a snapshot of its own, of the same millisecond as
\* the last version or a later one, before the group is in the queue.
Admit(g) ==
  /\ g \notin admitting /\ version[g] < MaxVersion
  /\ \E now \in {version[g], version[g] + 1} :
       /\ Persisted(g, [state |-> "waiting", failed |-> FALSE, version |-> now])
       /\ version' = [version EXCEPT ![g] = now]
  /\ admitting' = admitting \cup {g}
  /\ UNCHANGED <<group, failed, chain, recent, web, reached, lost, trouble>>

\* ensureGroup: a group that ended is replaced, one that runs is kept.
Ensure(g) ==
  /\ g \in admitting
  /\ IF group[g] \in Ended \cup {"none"} THEN Become(g, "waiting", FALSE) ELSE Become(g, group[g], failed[g])
  /\ admitting' = admitting \ {g}
  /\ UNCHANGED <<recent, row, web, lost, trouble>>

\* The process dies; markTransferTasksAfterRestart runs before anything else.
Restart ==
  /\ trouble < MaxTrouble /\ trouble' = trouble + 1
  /\ group' = [g \in Groups |-> "none"] /\ failed' = [g \in Groups |-> FALSE]
  /\ chain' = [g \in Groups |-> <<>>] /\ recent' = [g \in Groups |-> FALSE]
  /\ admitting' = {} /\ canceller' = {} /\ lost' = {}
  /\ dismissal' = [g \in Groups |-> [NoDismissal EXCEPT !.hidden = dismissal[g].hidden]]
  /\ row' = [g \in Groups |-> IF row[g].status \in {"pending", "running", "paused"}
                              THEN [row[g] EXCEPT !.status = "interrupted", !.updated = @ + 1] ELSE row[g]]
  /\ reached' = [g \in Groups |-> reached[g] \cup (IF group[g] = "cancelling" THEN {"cancelled"} ELSE {})]
  /\ UNCHANGED version

-----------------------------------------------------------------------------
(* The web interface.                                                      *)

\* POST .../cancel: the group is cancelled in memory, unless it is already, then the row.
CancelGroup(g) ==
  /\ row[g].status # "none" /\ g \notin canceller
  /\ group[g] \notin {"none", "completed"}
  /\ IF group[g] \in {"cancelling", "cancelled"} THEN row[g].updated < MaxVersion /\ UNCHANGED memory
     ELSE Become(g, IF group[g] \in {"running", "pausing"} THEN "cancelling" ELSE "cancelled", failed[g])
  /\ canceller' = canceller \cup {g}
  /\ UNCHANGED <<recent, row, admitting, dismissal, lost, trouble>>

CancelRow(g) ==
  /\ g \in canceller
  /\ canceller' = canceller \ {g}
  /\ row' = [row EXCEPT ![g].status = "cancelled", ![g].updated = @ + 1]
  /\ UNCHANGED <<memory, recent, admitting, dismissal, lost, trouble>>

Dismissible(g) == row[g].status \in Final \cup {"interrupted", "retry_required"}

\* filterDismissedTasks: only the version that was dismissed is hidden.
Hidden(g) == row[g].status # "none" /\ dismissal[g].hidden = row[g].updated

\* POST /dismissals/prepare freezes what it shows.
Prepare(g) ==
  /\ Dismissible(g) /\ ~Hidden(g)
  /\ dismissal' = [dismissal EXCEPT ![g].frozen = row[g].updated]
  /\ UNCHANGED <<memory, recent, row, admitting, canceller, lost, trouble>>

\* POST /dismissals/confirm uses the token up and looks at the tasks again ...
Confirm(g) ==
  /\ dismissal[g].frozen # 0
  /\ dismissal' = [dismissal EXCEPT ![g].frozen = 0,
                     ![g].found = IF Dismissible(g) /\ row[g].updated = dismissal[g].frozen THEN row[g].updated ELSE @]
  /\ UNCHANGED <<memory, recent, row, admitting, canceller, lost, trouble>>

\* ... and saves the versions it has found.
SaveDismissal(g) ==
  /\ dismissal[g].found # 0
  /\ dismissal' = [dismissal EXCEPT ![g].hidden = dismissal[g].found, ![g].found = 0]
  /\ UNCHANGED <<memory, recent, row, admitting, canceller, lost, trouble>>

-----------------------------------------------------------------------------
Progress == \E g \in Groups : Persist(g) \/ SecondPasses(g) \/ Ensure(g) \/ CancelRow(g) \/ SaveDismissal(g)

Next ==
  \/ Progress
  \/ Restart
  \/ \E g \in Groups : \/ Change(g) \/ RetryFailed(g) \/ PersistFails(g) \/ Admit(g)
                       \/ CancelGroup(g) \/ Prepare(g) \/ Confirm(g)

Spec == Init /\ [][Next]_vars /\ WF_vars(Progress)

-----------------------------------------------------------------------------
TypeOK ==
  \A g \in Groups :
    /\ group[g] \in {"none", "waiting", "running", "pausing", "paused", "cancelling"} \cup Ended
    /\ row[g].status \in {"none", "pending", "running", "paused", "interrupted"} \cup Final
    /\ row[g].version <= version[g] /\ dismissal[g].hidden <= row[g].updated

\* A group that came to an end has a final row as soon as its snapshots are written,
\* however fast they came.  (The statement of a new admission does not go through the
\* chain and may overtake the end of the life before: that group is being replaced.)
EndIsRecorded ==
  \A g \in Groups :
    (group[g] \in Ended /\ chain[g] = <<>> /\ g \notin lost \cup admitting) => row[g].status \in Final

\* A final row tells of an end the group really came to.  That of a cancellation is written
\* when it begins, while files are still in flight; a pause may then undo it, and the row
\* says cancelled of a group that goes on.
RowIsTrue ==
  \A g \in Groups : row[g].status \in Final =>
    \/ row[g].status \in reached[g]
    \/ row[g].status = "cancelled" /\ (group[g] = "cancelling" \/ "undone" \in reached[g])

\* What the list hides is over by its row: no dismissal hides a row written since.
HiddenIsOver == \A g \in Groups : Hidden(g) => Dismissible(g)

Sound == EndIsRecorded /\ RowIsTrue /\ HiddenIsOver
=============================================================================
