-------------------------- MODULE DownloadTaskQueue --------------------------
(***************************************************************************)
(* The in-process download queue of the Telegram bot                       *)
(* (services/downloadTaskQueue.ts): files grouped into tasks, group, scope *)
(* and global pauses, priorities, cancellation and retries, a limit on the *)
(* files in flight, and the storage cooldown that puts a running file back *)
(* behind a timer (scheduleStorageCooldownRequeue, telegramUpload.ts).     *)
(*                                                                         *)
(* The program is single threaded: every method runs to completion, and so *)
(* does the end of a download, which happens whenever its promise settles. *)
(***************************************************************************)
EXTENDS Integers, FiniteSets, Sequences, SequencesExt

CONSTANTS
  Groups,          \* group ids
  Tasks,           \* download file tasks, each for one file of one group
  GroupOf,         \* the group of a task
  Scopes,          \* what a scoped command addresses: sets of groups
  Blockers,        \* files that can wait for disk space
  Announced,       \* values of expectedTotal that ensureGroup is given
  MaxLimit,        \* bound: largest setMaxConcurrent
  MaxHistory,      \* maxHistory, 50 in the code
  MaxRetries       \* bound: retried files

ASSUME TasksOK  ==
  /\ IsFiniteSet(Tasks)
  /\ GroupOf \in [Tasks -> Groups]
  /\ Scopes \subseteq SUBSET Groups
ASSUME BoundsOK ==
  /\ Announced \subseteq Nat
  /\ MaxHistory \in Nat /\ MaxRetries \in Nat
  /\ MaxLimit \in Nat \ {0}

VARIABLES
  group,          \* this.groups: the record of each group id
  status,         \* the status of each task; "new" before add
  queue,          \* this.queue: the pending tasks in order
  aborted,        \* active tasks whose abort signal fired
  history,        \* this.history: settled tasks, newest first
  maxConcurrent,
  userPaused,
  scopePauses,    \* scopedUserPauses
  blockers,       \* diskPressureBlockers; systemPause is set iff there are any
  cooling,        \* active tasks that have queued their own repetition
  timers,         \* per group: cooldown timers that will resume it
  retries         \* counts retryFailed, for the bound

vars == <<group, status, queue, aborted, history, maxConcurrent, userPaused,
          scopePauses, blockers, cooling, timers, retries>>

pauses   == <<userPaused, scopePauses, blockers>>
cooldown == <<cooling, timers>>
bounds   == <<maxConcurrent, retries>>

Overrides == {"none", "pausing", "paused", "cancelling", "cancelled"}
Statuses  == {"new", "refused", "pending", "active",
              "success", "failed", "cancelled"}

\* done counts completed and cancelled files.
Group ==
  [exists : BOOLEAN, override : Overrides, expected : Nat, done : Nat,
   failed : Nat]

NoGroup == [exists |-> FALSE, override |-> "none", expected |-> 0, done |-> 0,
            failed |-> 0]

\* The announced total never shrinks.
AtLeast(rec, n) == [rec EXCEPT !.expected = IF @ < n THEN n ELSE @]

FreshGroup(n) == [NoGroup EXCEPT !.exists = TRUE, !.expected = n]

TypeOK ==
  /\ group \in [Groups -> Group]
  /\ status \in [Tasks -> Statuses]
  /\ queue \in Seq(Tasks)
  /\ ToSet(queue) = {t \in Tasks : status[t] = "pending"}
  /\ IsInjective(queue)
  /\ aborted \cup cooling \subseteq {t \in Tasks : status[t] = "active"}
  /\ history \in Seq(Tasks) /\ Len(history) <= MaxHistory
  /\ maxConcurrent \in 1 .. MaxLimit
  /\ userPaused \in BOOLEAN
  /\ scopePauses \subseteq Scopes
  /\ blockers \subseteq Blockers
  /\ timers \in [Groups -> Nat]
  /\ retries \in 0 .. MaxRetries

Init ==
  /\ group = [g \in Groups |-> NoGroup]
  /\ status = [t \in Tasks |-> "new"]
  /\ queue = <<>> /\ history = <<>>
  /\ aborted = {} /\ cooling = {}
  /\ maxConcurrent = 1
  /\ userPaused = FALSE /\ scopePauses = {} /\ blockers = {}
  /\ timers = [g \in Groups |-> 0]
  /\ retries = 0

-----------------------------------------------------------------------------
Active       == {t \in Tasks : status[t] = "active"}
Waiting      == {t \in Tasks : status[t] = "pending"}
Members(g)   == {t \in Tasks : GroupOf[t] = g}
FilesOf(g)   == {t \in Active \cup Waiting : GroupOf[t] = g}
ActiveOf(g)  == {t \in Active : GroupOf[t] = g}
Override(g)  == group[g].override
Settled(rec) == rec.done + rec.failed

GloballyPaused == userPaused \/ blockers # {}
ScopePaused(g) == \E p \in scopePauses : g \in p

\* snapshotGroup: a group without an override is finished when nothing is queued
\* or running and every announced file is settled.
Completed(g) ==
  /\ Override(g) = "none"
  /\ FilesOf(g) = {}
  /\ Settled(group[g]) >= group[g].expected

\* Slip: a cancellation in progress counts as finished.
TerminalEarly(g) == Completed(g) \/ Override(g) \in {"cancelling", "cancelled"}

Terminal(g)     == Completed(g) \/ Override(g) = "cancelled"
Controllable(g) == group[g].exists /\ ~Terminal(g)

\* Slip: a pause in progress does not hold files back.
RunnableWhilePausing(t) ==
  /\ group[GroupOf[t]].exists
  /\ Override(GroupOf[t]) \notin {"paused", "cancelling", "cancelled"}
  /\ ~ScopePaused(GroupOf[t])

Runnable(t) ==
  /\ group[GroupOf[t]].exists
  /\ Override(GroupOf[t]) = "none"
  /\ ~ScopePaused(GroupOf[t])

\* The elements of q that are in S, in their order.
Only(q, S) ==
  LET kept    == {i \in 1 .. Len(q) : q[i] \in S}
      rank(i) == Cardinality({j \in kept : j <= i})
  IN [k \in 1 .. Cardinality(kept) |-> q[CHOOSE i \in kept : rank(i) = k]]

\* The first elements of q that are in S, as many as there is room for.
FirstOf(q, S, room) ==
  LET ready(i) == {j \in 1 .. i : q[j] \in S}
  IN {q[i] : i \in {i \in 1 .. Len(q) :
                      i \in ready(i) /\ Cardinality(ready(i)) <= room}}

\* processNext, called with queue q and statuses st after everything else has
\* changed: the first runnable tasks fill the free places.
ProcessNext(q, st) ==
  LET room == IF GloballyPaused' THEN 0
              ELSE maxConcurrent' - Cardinality({t \in Tasks : st[t] = "active"})
      started == FirstOf(q, {t \in Tasks : Runnable(t)'}, room)
  IN /\ queue' = Only(q, Tasks \ started)
     /\ status' = [t \in Tasks |-> IF t \in started THEN "active" ELSE st[t]]

\* Slip: the history grows without limit.
PushAll(h, s) == Reverse(s) \o h

Push(h, s) == LET all == Reverse(s) \o h
              IN SubSeq(all, 1, IF Len(all) < MaxHistory THEN Len(all) ELSE MaxHistory)

\* The promise of a pending task of S is settled as cancelled.
CancelPending(S) == [t \in Tasks |-> IF t \in S THEN "cancelled" ELSE status[t]]

Dequeued(S) == Only(queue, Tasks \ S)
Removed(S)  == Only(queue, S)

\* The files of S are settled without success or failure.
CountCancelled(g, S) ==
  [group[g] EXCEPT !.done = @ + Cardinality({t \in S : GroupOf[t] = g})]

HasFailures(g) == \E t \in ToSet(history) : GroupOf[t] = g /\ status[t] = "failed"

-----------------------------------------------------------------------------
(* Filling the queue. *)

\* A finished group with the same id is replaced; a live one keeps the larger
\* total.  An idle queue forgets a global user pause.
EnsureGroup(g, n) ==
  /\ userPaused' = (userPaused /\ Active \cup Waiting # {})
  /\ group' = [group EXCEPT ![g] =
       IF Controllable(g) THEN AtLeast(group[g], n) ELSE FreshGroup(n)]
  /\ UNCHANGED <<status, queue, aborted, history, scopePauses, blockers,
                 cooldown, bounds>>

\* The files already known to the group, and one more.
Enqueue(g, rec, t, st) ==
  LET known == Cardinality(FilesOf(g)) + Settled(rec) + 1 IN
  /\ group' = [group EXCEPT ![g] = AtLeast(rec, known)]
  /\ ProcessNext(Append(queue, t), [st EXCEPT ![t] = "pending"])

Cancelling(g) == Override(g) \in {"cancelling", "cancelled"}

Add(t) ==
  LET g == GroupOf[t] IN
  /\ status[t] = "new"
  /\ group[g].exists
  /\ ~Cancelling(g)
  /\ UNCHANGED <<pauses, bounds>>
  /\ Enqueue(g, group[g], t, status)
  /\ UNCHANGED <<aborted, history, cooldown>>

\* A file that arrives after the cancellation is reported, never queued.
AddRefused(t) ==
  /\ status[t] = "new"
  /\ group[GroupOf[t]].exists
  /\ Cancelling(GroupOf[t])
  /\ status' = [status EXCEPT ![t] = "refused"]
  /\ UNCHANGED <<group, queue, aborted, history, pauses, cooldown, bounds>>

OneFailureLess(rec) == [rec EXCEPT !.failed = IF @ > 0 THEN @ - 1 ELSE 0]

\* retryFailed; a larger limit repeats this for the next newest failure.
RetryFailed(t) ==
  LET g == GroupOf[t] IN
  /\ retries < MaxRetries
  /\ t \in ToSet(history) /\ status[t] = "failed"
  /\ group[g].exists
  /\ ~Cancelling(g)
  /\ \A u \in ToSet(history) :
       GroupOf[u] = g /\ status[u] = "failed" =>
         SelectInSeq(history, LAMBDA v : v = t) <= SelectInSeq(history, LAMBDA v : v = u)
  /\ history' = Only(history, Tasks \ {t})
  /\ retries' = retries + 1
  /\ UNCHANGED <<pauses, maxConcurrent>>
  /\ Enqueue(g, OneFailureLess(group[g]), t, status)
  /\ UNCHANGED <<aborted, cooldown>>

-----------------------------------------------------------------------------
(* The end of a download. *)

Outcomes(t) == IF t \in aborted THEN {"cancelled"}
               ELSE IF t \in cooling THEN {"success"} ELSE {"success", "failed"}

Counted(rec, outcome) ==
  IF outcome = "failed" THEN [rec EXCEPT !.failed = @ + 1]
                        ELSE [rec EXCEPT !.done = @ + 1]

\* The last active file of the group decides what a pause or a cancellation in
\* progress becomes.
AfterFinish(o, busy, waiting) ==
  CASE o = "pausing" /\ ~busy -> IF waiting THEN "paused" ELSE "none"
    [] o = "cancelling" /\ ~busy -> "cancelled"
    [] OTHER -> o

Finish(t) ==
  LET g       == GroupOf[t]
      busy    == ActiveOf(g) # {t}
      waiting == \E u \in Waiting : GroupOf[u] = g
  IN /\ status[t] = "active"
     /\ \E outcome \in Outcomes(t) :
          /\ group' = [group EXCEPT ![g] =
               [Counted(group[g], outcome)
                  EXCEPT !.override = AfterFinish(Override(g), busy, waiting)]]
          /\ UNCHANGED <<pauses, bounds>>
          /\ ProcessNext(queue, [status EXCEPT ![t] = outcome])
     /\ history' = Push(history, <<t>>)
     /\ aborted' = aborted \ {t}
     /\ cooling' = cooling \ {t}
     /\ UNCHANGED timers

-----------------------------------------------------------------------------
(* Control of one group. *)

\* Any command on a finished group forgets it, unless its failures can be
\* retried (resolveGroupForControl).
Forgotten(g) == IF HasFailures(g) THEN group[g] ELSE NoGroup

ControlTerminal(g) ==
  /\ group[g].exists
  /\ Terminal(g)
  /\ group' = [group EXCEPT ![g] = Forgotten(g)]
  /\ UNCHANGED <<status, queue, aborted, history, pauses, cooldown, bounds>>

PrioritizeGroup(g) ==
  /\ Controllable(g)
  /\ Override(g) = "none"
  /\ \E t \in Waiting : GroupOf[t] = g
  /\ UNCHANGED <<group, pauses, bounds>>
  /\ ProcessNext(Only(queue, Members(g)) \o Only(queue, Tasks \ Members(g)), status)
  /\ UNCHANGED <<aborted, history, cooldown>>

Paused(g) == Override(g) \in {"pausing", "paused"}

PauseOverride(g) == IF ActiveOf(g) # {} THEN "pausing" ELSE "paused"

PauseGroup(g) ==
  /\ Controllable(g)
  /\ ~Paused(g)
  /\ group' = [group EXCEPT ![g].override = PauseOverride(g)]
  /\ UNCHANGED <<pauses, bounds>>
  /\ ProcessNext(queue, status)
  /\ UNCHANGED <<aborted, history, cooldown>>

Resumable(g) == Controllable(g) /\ blockers = {} /\ Override(g) # "cancelling"

\* Slip: the queue is not looked at again.
ResumeQuietly(g) ==
  /\ Resumable(g)
  /\ group' = [group EXCEPT ![g].override = "none"]
  /\ UNCHANGED <<pauses, bounds, queue, status>>

Resume(g) ==
  /\ Resumable(g)
  /\ group' = [group EXCEPT ![g].override = "none"]
  /\ UNCHANGED <<pauses, bounds>>
  /\ ProcessNext(queue, status)

ResumeGroup(g) == Resume(g) /\ UNCHANGED <<aborted, history, cooldown>>

\* Slip: the running files are not waited for.
CancelledGroupLeft(g, S) ==
  [CountCancelled(g, S) EXCEPT !.override = "cancelled"]

\* A cancelled group without active files is done with; otherwise its active
\* files have been aborted and the last one to return ends it.
CancelledGroup(g, S) ==
  [CountCancelled(g, S) EXCEPT
     !.override = IF ActiveOf(g) = {} THEN "cancelled" ELSE "cancelling"]

\* cancelGroup for the groups of C, which also forgets those of F.
CancelGroups(C, F) ==
  LET out == {t \in Waiting : GroupOf[t] \in C} IN
  /\ group' = [g \in Groups |->
       IF g \in C THEN CancelledGroup(g, out)
       ELSE IF g \in F THEN Forgotten(g) ELSE group[g]]
  /\ aborted' = aborted \cup {t \in Active : GroupOf[t] \in C}
  /\ history' = Push(history, Removed(out))
  /\ ProcessNext(Dequeued(out), CancelPending(out))

CancelGroup(g) ==
  /\ Controllable(g)
  /\ Override(g) # "cancelling"
  /\ UNCHANGED <<pauses, bounds>>
  /\ CancelGroups({g}, {})
  /\ UNCHANGED cooldown

-----------------------------------------------------------------------------
(* Control of a chat, of one file, of the whole queue. *)

\* The scheduler runs between two groups of the scope, but no place becomes
\* free there: cancelling only shortens the queue.
CancelScope(p) ==
  /\ scopePauses' = scopePauses \ {p}
  /\ UNCHANGED <<userPaused, blockers, bounds>>
  /\ CancelGroups({g \in p : Controllable(g) /\ Override(g) # "cancelling"},
                  {g \in p : group[g].exists /\ Terminal(g)})
  /\ UNCHANGED cooldown

\* cancel(selector) for a file name: one pending file, every active one.
CancelFile(t) ==
  /\ t \in Waiting \/ t \in Active \ aborted
  /\ UNCHANGED <<pauses, bounds>>
  /\ LET out == {t} \cap Waiting IN
       /\ group' = [group EXCEPT ![GroupOf[t]] = CountCancelled(GroupOf[t], out)]
       /\ history' = Push(history, Removed(out))
       /\ aborted' = aborted \cup ({t} \cap Active)
       /\ ProcessNext(Dequeued(out), CancelPending(out))
  /\ UNCHANGED cooldown

\* Touches the groups of every queued or running file, whatever their state, and
\* has no need to schedule: the queue is empty.
ForceStopAll ==
  /\ Active \cup Waiting # {}
  /\ group' = [g \in Groups |->
       IF FilesOf(g) = {} THEN group[g] ELSE CancelledGroup(g, Waiting)]
  /\ status' = CancelPending(Waiting)
  /\ queue' = <<>>
  /\ history' = Push(history, queue)
  /\ aborted' = Active
  /\ UNCHANGED <<pauses, cooldown, bounds>>

PauseAll ==
  /\ userPaused' = TRUE
  /\ UNCHANGED <<group, status, queue, aborted, history, scopePauses, blockers,
                 cooldown, bounds>>

ResumeAll ==
  /\ userPaused' = FALSE
  /\ UNCHANGED <<group, scopePauses, blockers, bounds>>
  /\ ProcessNext(queue, status)
  /\ UNCHANGED <<aborted, history, cooldown>>

PauseScope(p) ==
  /\ scopePauses' = scopePauses \cup {p}
  /\ UNCHANGED <<group, status, queue, aborted, history, userPaused, blockers,
                 cooldown, bounds>>

ResumeScope(p) ==
  /\ scopePauses' = scopePauses \ {p}
  /\ UNCHANGED <<group, userPaused, blockers, bounds>>
  /\ ProcessNext(queue, status)
  /\ UNCHANGED <<aborted, history, cooldown>>

AcquireDiskPressureBlocker(b) ==
  /\ blockers' = blockers \cup {b}
  /\ UNCHANGED <<group, status, queue, aborted, history, userPaused, scopePauses,
                 cooldown, bounds>>

ReleaseDiskPressureBlocker(b) ==
  /\ blockers' = blockers \ {b}
  /\ UNCHANGED <<group, userPaused, scopePauses, bounds>>
  /\ ProcessNext(queue, status)
  /\ UNCHANGED <<aborted, history, cooldown>>

SetMaxConcurrent(n) ==
  /\ maxConcurrent' = n
  /\ UNCHANGED <<group, pauses, retries>>
  /\ ProcessNext(queue, status)
  /\ UNCHANGED <<aborted, history, cooldown>>

-----------------------------------------------------------------------------
(* Storage cooldown: a running file pauses its group, queues itself again as    *)
(* task u, leaves its place as a success and resumes the group later.      *)

CooldownRequeue(t, u) ==
  LET g == GroupOf[t] IN
  /\ t \in Active \ (aborted \cup cooling)
  /\ status[u] = "new" /\ GroupOf[u] = g
  /\ UNCHANGED <<pauses, bounds>>
  /\ Enqueue(g, IF Paused(g) THEN group[g]
                ELSE [group[g] EXCEPT !.override = PauseOverride(g)], u, status)
  /\ cooling' = cooling \cup {t}
  /\ timers' = [timers EXCEPT ![g] = @ + 1]
  /\ UNCHANGED <<aborted, history>>

\* A timer blocked by disk pressure sets itself again.
TimerResumes(g) ==
  /\ timers[g] > 0
  /\ Resume(g)
  /\ timers' = [timers EXCEPT ![g] = @ - 1]
  /\ UNCHANGED <<aborted, history, cooling>>

TimerIsLate(g) ==
  /\ timers[g] > 0
  /\ \/ ~Controllable(g)
     \/ blockers = {} /\ Override(g) = "cancelling"
  /\ group' = IF Terminal(g) THEN [group EXCEPT ![g] = Forgotten(g)] ELSE group
  /\ timers' = [timers EXCEPT ![g] = @ - 1]
  /\ UNCHANGED <<status, queue, aborted, history, pauses, cooling, bounds>>

-----------------------------------------------------------------------------
Command(g) ==
  \/ \E n \in Announced : EnsureGroup(g, n)
  \/ ControlTerminal(g) \/ PrioritizeGroup(g)
  \/ PauseGroup(g) \/ ResumeGroup(g) \/ CancelGroup(g)

File(t) ==
  \/ Add(t) \/ AddRefused(t) \/ RetryFailed(t) \/ CancelFile(t)
  \/ \E u \in Tasks : CooldownRequeue(t, u)

Scoped(p) == PauseScope(p) \/ ResumeScope(p) \/ CancelScope(p)

Queue ==
  \/ PauseAll \/ ResumeAll \/ ForceStopAll
  \/ \E n \in 1 .. MaxLimit : SetMaxConcurrent(n)
  \/ \E b \in Blockers : AcquireDiskPressureBlocker(b) \/ ReleaseDiskPressureBlocker(b)

Next ==
  \/ \E g \in Groups : Command(g) \/ TimerResumes(g) \/ TimerIsLate(g)
  \/ \E t \in Tasks : File(t) \/ Finish(t)
  \/ \E p \in Scopes : Scoped(p)
  \/ Queue

Spec == Init /\ [][Next]_vars

-----------------------------------------------------------------------------
(* Properties. *)

\* The override of a group says what its files really do: "pausing" and
\* "cancelling" wait for a file in flight (and would otherwise never end),
\* a paused group has none, a group being cancelled has aborted all of its files
\* in flight, and a cancelled one has no file left anywhere.
OverridesEarned ==
  \A g \in Groups :
    /\ Override(g) \in {"pausing", "cancelling"} => ActiveOf(g) # {}
    /\ Override(g) = "paused" => ActiveOf(g) = {}
    /\ Override(g) = "cancelling" => FilesOf(g) \subseteq ActiveOf(g) \cap aborted
    /\ Override(g) = "cancelled" => FilesOf(g) = {}

\* A record is never dropped while files of the group are queued or running:
\* processNext would skip them for ever (resolveGroupForControl and ensureGroup
\* delete finished groups).
FilesHaveGroup == \A g \in Groups : FilesOf(g) # {} => group[g].exists

\* No command leaves a free place and a file that may run: whichever event frees
\* the last obstacle calls processNext.
WorkConserving ==
  GloballyPaused \/ Cardinality(Active) >= maxConcurrent
    \/ \A t \in Waiting : ~Runnable(t)

\* The announced total covers every file the group knows of, so that progress
\* never exceeds it and the group does not finish early.
TotalCovers ==
  \A g \in Groups :
    group[g].exists =>
      Cardinality(FilesOf(g)) + Settled(group[g]) <= group[g].expected

\* The two together: nobody waits beside a free place, and every file is in the count.
NobodyForgotten == WorkConserving /\ TotalCovers

Starts == {t \in Tasks : status[t] # "active" /\ status'[t] = "active"}

\* A step that starts files fills at most the free places, even after the limit
\* was lowered, and starts none while the queue is paused or of a group that is.
StartsAreAllowed ==
  [][Starts # {} =>
       /\ Cardinality(Active') <= maxConcurrent'
       /\ ~GloballyPaused'
       /\ \A t \in Starts : ~Paused(GroupOf[t])' /\ ~Cancelling(GroupOf[t])']_vars

\* A cancellation in progress only ends as cancelled.
CancelHolds ==
  [][\A g \in Groups :
       Override(g) = "cancelling" => Cancelling(g)']_vars
=============================================================================
