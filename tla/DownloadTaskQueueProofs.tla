----------------------- MODULE DownloadTaskQueueProofs -----------------------
(***************************************************************************)
(* For any number of groups, files and scopes.                             *)
(*   - The override of a group tells the truth about its files, and no     *)
(*     file is left without its group.  The two facts are inductive        *)
(*     together; they need no more of processNext than that it starts      *)
(*     runnable tasks only.                                                *)
(*   - The queue lists the pending files, nobody waits beside a free       *)
(*     place, the announced totals cover all files and files start only    *)
(*     where they may.  These need to know exactly which files processNext *)
(*     starts and how many: the lemmas on Only and FirstOf.                *)
(***************************************************************************)
EXTENDS DownloadTaskQueue, FiniteSetTheorems, SequenceTheorems, TLAPS

Shape ==
  /\ group \in [Groups -> Group]
  /\ status \in [Tasks -> Statuses]

Inv == Shape /\ OverridesEarned /\ FilesHaveGroup

\* What processNext may do to the statuses st.
OnlyRunnable(st) ==
  /\ status' \in [Tasks -> Statuses]
  /\ \A t \in Tasks :
       status'[t] = st[t] \/ (status'[t] = "active" /\ Runnable(t)')

LEMMA Scheduling ==
  ASSUME NEW q, NEW st \in [Tasks -> Statuses], ProcessNext(q, st)
  PROVE  OnlyRunnable(st)
<1> DEFINE may  == {t \in Tasks : Runnable(t)'}
           room == IF GloballyPaused' THEN 0
                   ELSE maxConcurrent' - Cardinality({t \in Tasks : st[t] = "active"})
           started == FirstOf(q, may, room)
<1>1. status' = [t \in Tasks |-> IF t \in started THEN "active" ELSE st[t]]
  BY DEF ProcessNext
<1>2. \A t \in started : t \in may
  BY DEF FirstOf
<1>3. \A t \in started : Runnable(t)'
  BY <1>2
<1> HIDE DEF started
<1>4. status' \in [Tasks -> Statuses]
  BY <1>1 DEF Statuses
<1>5. ASSUME NEW t \in Tasks
      PROVE  status'[t] = st[t] \/ (status'[t] = "active" /\ Runnable(t)')
  BY <1>1, <1>3
<1> QED BY <1>4, <1>5 DEF OnlyRunnable

\* The invariant with the new group records and the statuses a command leaves
\* before the scheduler runs.
ActiveIn(st, g) == {t \in Tasks : st[t] = "active" /\ GroupOf[t] = g}
FilesIn(st, g)  == {t \in Tasks : st[t] \in {"active", "pending"} /\ GroupOf[t] = g}

Good(st, g) ==
  /\ group'[g].override \in {"pausing", "cancelling"} => ActiveIn(st, g) # {}
  /\ group'[g].override = "paused" => ActiveIn(st, g) = {}
  /\ group'[g].override = "cancelling" => FilesIn(st, g) \subseteq ActiveIn(st, g) \cap aborted'
  /\ group'[g].override = "cancelled" => FilesIn(st, g) = {}
  /\ FilesIn(st, g) # {} => group'[g].exists

Now(g) ==
  /\ Override(g) \in {"pausing", "cancelling"} => ActiveIn(status, g) # {}
  /\ Override(g) = "paused" => ActiveIn(status, g) = {}
  /\ Override(g) = "cancelling" => FilesIn(status, g) \subseteq ActiveIn(status, g) \cap aborted
  /\ Override(g) = "cancelled" => FilesIn(status, g) = {}
  /\ FilesIn(status, g) # {} => group[g].exists

LEMMA InvNow == Inv <=> (Shape /\ \A g \in Groups : Now(g))
<1>1. ASSUME NEW g \in Groups
      PROVE  ActiveOf(g) = ActiveIn(status, g) /\ FilesOf(g) = FilesIn(status, g)
  BY DEF ActiveOf, Active, Waiting, FilesOf, ActiveIn, FilesIn
<1> QED BY <1>1 DEF Inv, OverridesEarned, FilesHaveGroup, Now

LEMMA InvNext == (Shape' /\ \A g \in Groups : Now(g)') => Inv'
<1>1. ASSUME NEW g \in Groups
      PROVE  ActiveOf(g)' = ActiveIn(status', g) /\ FilesOf(g)' = FilesIn(status', g)
  BY DEF ActiveOf, Active, Waiting, FilesOf, ActiveIn, FilesIn
<1> QED BY <1>1 DEF Inv, OverridesEarned, FilesHaveGroup, Now

\* A runnable file starts in a group without override, which promises nothing.
LEMMA Scheduled ==
  ASSUME Shape, group' \in [Groups -> Group], NEW st \in [Tasks -> Statuses],
         \A g \in Groups : Good(st, g), OnlyRunnable(st)
  PROVE  Inv'
<1>1. Shape'
  BY DEF Shape, OnlyRunnable
<1>2. ASSUME NEW g \in Groups PROVE Now(g)'
  <2>0. Good(st, g)
    OBVIOUS
  <2>1. CASE group'[g].override # "none"
    <3>1. \A t \in Tasks : GroupOf[t] = g => status'[t] = st[t]
      BY <2>1 DEF OnlyRunnable, Runnable, Override
    <3>2. ActiveIn(status', g) = ActiveIn(st, g) /\ FilesIn(status', g) = FilesIn(st, g)
      BY <3>1 DEF ActiveIn, FilesIn
    <3> QED BY <2>0, <3>2 DEF Good, Now, Override
  <2>2. CASE group'[g].override = "none"
    <3>1. ASSUME NEW t \in FilesIn(status', g) PROVE group'[g].exists
      <4>1. CASE status'[t] = st[t]
        <5>1. t \in FilesIn(st, g)
          BY <4>1, <3>1 DEF FilesIn
        <5> QED BY <5>1, <2>0 DEF Good
      <4>2. CASE status'[t] = "active" /\ Runnable(t)'
        BY <4>2, <3>1 DEF Runnable, FilesIn
      <4> QED BY <4>1, <4>2, <3>1 DEF OnlyRunnable, FilesIn
    <3> QED BY <2>2, <3>1 DEF Now, Override
  <2> QED BY <2>1, <2>2
<1> QED BY <1>1, <1>2, InvNext

LEMMA Unscheduled ==
  ASSUME Shape, group' \in [Groups -> Group], status' \in [Tasks -> Statuses],
         \A g \in Groups : Good(status', g)
  PROVE  Inv'
<1>1. \A g \in Groups : Now(g)'
  BY DEF Now, Good, Override
<1>2. Shape'
  BY DEF Shape
<1> QED BY <1>1, <1>2, InvNext

LEMMA Updates ==
  ASSUME NEW r \in Group, NEW o \in Overrides, NEW n \in Nat
  PROVE  /\ [r EXCEPT !.override = o] \in Group
         /\ [r EXCEPT !.expected = n] \in Group
         /\ [r EXCEPT !.done = n] \in Group
         /\ [r EXCEPT !.failed = n] \in Group
BY DEF Group

LEMMA CountsAreNumbers ==
  ASSUME NEW S \in SUBSET Tasks
  PROVE  Cardinality(S) \in Nat
BY TasksOK, FS_Subset, FS_CardinalityType

\* What a command does not touch stays good.
LEMMA Untouched ==
  ASSUME Inv, NEW g \in Groups, NEW st,
         group'[g].override = group[g].override,
         group'[g].exists = group[g].exists,
         \A t \in Tasks : GroupOf[t] = g => st[t] = status[t],
         FilesIn(status, g) \cap aborted \subseteq aborted'
  PROVE  Good(st, g)
<1>1. ActiveIn(st, g) = ActiveIn(status, g) /\ FilesIn(st, g) = FilesIn(status, g)
  BY DEF ActiveIn, FilesIn
<1>2. Now(g)
  BY InvNow
<1> QED BY <1>1, <1>2 DEF Now, Good, Override

LEMMA EnsureGroupKeeps ==
  ASSUME Inv, NEW h \in Groups, NEW n \in Announced, EnsureGroup(h, n)
  PROVE  Inv'
<1>1. status' = status /\ aborted' = aborted /\ n \in Nat
  BY BoundsOK DEF EnsureGroup
<1>2. FreshGroup(n) \in Group /\ FreshGroup(n).override = "none" /\ FreshGroup(n).exists
  BY <1>1 DEF FreshGroup, NoGroup, Group, Overrides
<1>3. group' \in [Groups -> Group]
  <2>1. group[h] \in Group /\ group[h].expected \in Nat
    BY DEF Inv, Shape, Group
  <2>2. AtLeast(group[h], n) \in Group
    BY <1>1, <2>1 DEF Group, AtLeast
  <2> QED BY <1>2, <2>2 DEF Inv, Shape, EnsureGroup
<1>4. ASSUME NEW g \in Groups PROVE Good(status, g)
  <2>1. CASE g = h /\ ~Controllable(h)
    BY <2>1, <1>2 DEF EnsureGroup, Inv, Shape, Good
  <2>2. CASE ~(g = h /\ ~Controllable(h))
    <3>1. group'[g].override = group[g].override /\ group'[g].exists = group[g].exists
      BY <2>2 DEF EnsureGroup, Inv, Shape, Group, AtLeast
    <3> QED BY <3>1, <1>1, Untouched
  <2> QED BY <2>1, <2>2
<1> QED BY <1>1, <1>3, <1>4, Unscheduled DEF Inv, Shape

\* A file joins a group that is not being cancelled.
LEMMA EnqueueKeeps ==
  ASSUME Inv, NEW t \in Tasks, status[t] \notin {"pending", "active"},
         NEW rec \in Group, rec.exists,
         rec.override \in {"none", "pausing", "paused"},
         rec.override = "paused" => ActiveIn(status, GroupOf[t]) = {},
         rec.override = "pausing" => ActiveIn(status, GroupOf[t]) # {},
         Enqueue(GroupOf[t], rec, t, status), aborted' = aborted
  PROVE  Inv'
<1> DEFINE h == GroupOf[t]
<1> DEFINE st == [status EXCEPT ![t] = "pending"]
<1> DEFINE known == Cardinality(FilesOf(h)) + Settled(rec) + 1
<1>0. h \in Groups /\ Shape
  BY TasksOK DEF Inv
<1>1. st \in [Tasks -> Statuses] /\ ProcessNext(Append(queue, t), st)
  BY <1>0 DEF Shape, Statuses, Enqueue
<1>2. known \in Nat
  <2>1. FilesOf(h) \in SUBSET Tasks
    BY DEF FilesOf, Active, Waiting
  <2>2. Settled(rec) \in Nat
    BY DEF Settled, Group
  <2> QED BY <2>1, <2>2, CountsAreNumbers
<1> DEFINE new == AtLeast(rec, known)
<1>3. new \in Group /\ new.override = rec.override /\ new.exists
  BY <1>2 DEF Group, AtLeast
<1>4. group' = [group EXCEPT ![h] = new]
  BY DEF Enqueue
<1> HIDE DEF new, known
<1>5. group' \in [Groups -> Group]
  BY <1>0, <1>3, <1>4 DEF Shape
<1>6. ASSUME NEW g \in Groups PROVE Good(st, g)
  <2>1. CASE g = h
    <3>1. group'[g].override = rec.override /\ group'[g].exists
      BY <2>1, <1>0, <1>3, <1>4 DEF Shape
    <3>2. ActiveIn(st, g) = ActiveIn(status, g)
      BY <1>0 DEF ActiveIn, Shape
    <3> QED BY <2>1, <3>1, <3>2 DEF Good
  <2>2. CASE g # h
    <3>1. group'[g] = group[g]
      BY <2>2, <1>0, <1>4 DEF Shape
    <3>2. \A u \in Tasks : GroupOf[u] = g => st[u] = status[u]
      BY <2>2, <1>0 DEF Shape
    <3> HIDE DEF st
    <3> QED BY <3>1, <3>2, Untouched
  <2> QED BY <2>1, <2>2
<1> HIDE DEF st
<1>7. OnlyRunnable(st)
  BY <1>1, Scheduling
<1> QED BY <1>0, <1>1, <1>5, <1>6, <1>7, Scheduled

LEMMA AddKeeps ==
  ASSUME Inv, NEW t \in Tasks, Add(t)
  PROVE  Inv'
<1>1. GroupOf[t] \in Groups /\ group[GroupOf[t]] \in Group
  BY TasksOK DEF Inv, Shape
<1>2. Now(GroupOf[t])
  BY <1>1, InvNow
<1> QED BY <1>1, <1>2, EnqueueKeeps
        DEF Add, Cancelling, Override, Now, Group, Overrides

LEMMA RetryKeeps ==
  ASSUME Inv, NEW t \in Tasks, RetryFailed(t)
  PROVE  Inv'
<1>1. GroupOf[t] \in Groups /\ group[GroupOf[t]] \in Group
  BY TasksOK DEF Inv, Shape
<1>2. Now(GroupOf[t])
  BY <1>1, InvNow
<1> DEFINE rec == OneFailureLess(group[GroupOf[t]])
<1>3. /\ rec \in Group
      /\ rec.override = group[GroupOf[t]].override
      /\ rec.exists = group[GroupOf[t]].exists
  BY <1>1 DEF OneFailureLess, Group
<1>4. Enqueue(GroupOf[t], rec, t, status) /\ aborted' = aborted
  BY DEF RetryFailed
<1> HIDE DEF rec
<1> QED BY <1>1, <1>2, <1>3, <1>4, EnqueueKeeps
        DEF RetryFailed, Cancelling, Override, Now, Group, Overrides

LEMMA RequeueKeeps ==
  ASSUME Inv, NEW t \in Tasks, NEW u \in Tasks, CooldownRequeue(t, u)
  PROVE  Inv'
<1> DEFINE g == GroupOf[t]
<1> DEFINE rec == IF Paused(g) THEN group[g]
                  ELSE [group[g] EXCEPT !.override = PauseOverride(g)]
<1>1. g \in Groups /\ group[g] \in Group /\ Now(g)
  BY TasksOK, InvNow DEF Inv, Shape
<1>2. t \in ActiveIn(status, g) /\ t \in FilesIn(status, g) /\ t \notin aborted
  BY DEF CooldownRequeue, Active, ActiveIn, FilesIn
<1>3. ActiveOf(g) # {}
  BY <1>2 DEF ActiveOf, Active, ActiveIn
<1>4. /\ Override(g) \notin {"cancelling", "cancelled", "paused"}
      /\ group[g].exists
  BY <1>1, <1>2 DEF Now
<1>5. rec \in Group /\ rec.override = "pausing" /\ rec.exists
  BY <1>1, <1>3, <1>4 DEF Paused, PauseOverride, Group, Overrides, Override
<1>6. /\ Enqueue(GroupOf[u], rec, u, status) /\ GroupOf[u] = g
      /\ status[u] \notin {"pending", "active"} /\ aborted' = aborted
  BY DEF CooldownRequeue
<1> HIDE DEF rec
<1> QED BY <1>2, <1>5, <1>6, EnqueueKeeps

LEMMA RefuseKeeps ==
  ASSUME Inv, NEW t \in Tasks, AddRefused(t)
  PROVE  Inv'
<1>1. group' = group /\ aborted' = aborted /\ status' \in [Tasks -> Statuses]
  BY DEF AddRefused, Inv, Shape, Statuses
<1>2. ASSUME NEW g \in Groups PROVE Good(status', g)
  <2>1. ActiveIn(status', g) = ActiveIn(status, g) /\ FilesIn(status', g) = FilesIn(status, g)
    BY DEF AddRefused, Inv, Shape, ActiveIn, FilesIn
  <2> QED BY <1>1, <2>1, InvNow DEF Now, Good, Override
<1> QED BY <1>1, <1>2, Unscheduled DEF Inv, Shape

\* A group whose files are all settled may be given any record without override.
LEMMA ForgetKeeps ==
  ASSUME Inv, NEW F \in SUBSET Groups, \A g \in F : Terminal(g),
         group' = [g \in Groups |-> IF g \in F THEN Forgotten(g) ELSE group[g]],
         status' = status, aborted' = aborted
  PROVE  Inv'
<1>1. NoGroup \in Group
  BY DEF NoGroup, Group, Overrides
<1>2. group' \in [Groups -> Group]
  BY <1>1 DEF Inv, Shape, Forgotten
<1>3. ASSUME NEW g \in Groups PROVE Good(status', g)
  <2>1. CASE group'[g] = group[g]
    BY <2>1, Untouched
  <2>2. CASE group'[g] # group[g]
    <3>1. g \in F /\ group'[g] = NoGroup /\ Terminal(g)
      BY <2>2 DEF Forgotten
    <3>2. FilesOf(g) = FilesIn(status, g) /\ Now(g)
      BY InvNow DEF FilesOf, Active, Waiting, FilesIn
    <3>3. FilesIn(status, g) = {}
      BY <3>1, <3>2 DEF Terminal, Completed, Now
    <3> QED BY <3>1, <3>3 DEF Good, NoGroup
  <2> QED BY <2>1, <2>2
<1> QED BY <1>2, <1>3, Unscheduled DEF Inv, Shape

\* Commands that change one override and then schedule.
LEMMA OverrideKeeps ==
  ASSUME Inv, NEW h \in Groups, NEW o \in Overrides,
         group' = [group EXCEPT ![h].override = o], aborted' = aborted,
         o # "none" => o = PauseOverride(h),
         NEW q, ProcessNext(q, status)
  PROVE  Inv'
<1>1. group' \in [Groups -> Group] /\ Shape
  BY DEF Inv, Shape, Group
<1>2. ASSUME NEW g \in Groups PROVE Good(status, g)
  <2>1. CASE g = h
    <3>1. group'[g].override = o /\ group'[g].exists = group[g].exists
      BY <2>1 DEF Inv, Shape, Group
    <3>2. ActiveOf(g) = ActiveIn(status, g) /\ Now(g)
      BY InvNow DEF ActiveOf, Active, ActiveIn
    <3> QED BY <2>1, <3>1, <3>2 DEF Good, Now, PauseOverride
  <2>2. CASE g # h
    BY <2>2, Untouched DEF Inv, Shape
  <2> QED BY <2>1, <2>2
<1> QED BY <1>1, <1>2, Scheduling, Scheduled DEF Shape

\* Commands that only let the scheduler run.
LEMMA ScheduleKeeps ==
  ASSUME Inv, group' = group, aborted' = aborted, NEW q, ProcessNext(q, status)
  PROVE  Inv'
<1>1. \A g \in Groups : Good(status, g)
  BY Untouched
<1> QED BY <1>1, Scheduling, Scheduled DEF Inv, Shape

LEMMA FrameKeeps ==
  ASSUME Inv, group' = group, aborted' = aborted, status' = status
  PROVE  Inv'
<1>1. \A g \in Groups : Good(status', g)
  BY Untouched
<1> QED BY <1>1, Unscheduled DEF Inv, Shape

LEMMA FinishKeeps ==
  ASSUME Inv, NEW t \in Tasks, Finish(t)
  PROVE  Inv'
<1> DEFINE h       == GroupOf[t]
<1> DEFINE busy    == ActiveOf(h) # {t}
<1> DEFINE waiting == \E u \in Waiting : GroupOf[u] = h
<1> DEFINE o       == AfterFinish(Override(h), busy, waiting)
<1>1. PICK outcome \in Outcomes(t) :
        /\ group' = [group EXCEPT ![h] = [Counted(group[h], outcome) EXCEPT !.override = o]]
        /\ ProcessNext(queue, [status EXCEPT ![t] = outcome])
  BY DEF Finish
<1> DEFINE st == [status EXCEPT ![t] = outcome]
<1>2. /\ h \in Groups /\ group[h] \in Group /\ Now(h) /\ Shape
      /\ status[t] = "active" /\ aborted' = aborted \ {t}
      /\ outcome \in {"success", "failed", "cancelled"}
  BY TasksOK, InvNow DEF Inv, Shape, Finish, Outcomes
<1>3. st \in [Tasks -> Statuses]
  BY <1>2 DEF Shape, Statuses
<1>4. ActiveIn(st, h) = ActiveIn(status, h) \ {t}
  BY <1>2 DEF ActiveIn, Shape
<1>5. FilesIn(st, h) = FilesIn(status, h) \ {t} /\ t \in FilesIn(status, h)
  BY <1>2 DEF FilesIn, Shape
<1>6. busy <=> ActiveIn(st, h) # {}
  <2>1. ActiveOf(h) = ActiveIn(status, h) /\ t \in ActiveOf(h)
    BY <1>2 DEF ActiveOf, Active, ActiveIn
  <2> QED BY <1>4, <2>1
<1>7. /\ o \in Overrides
      /\ o \in {"pausing", "cancelling"} => busy /\ o = Override(h)
      /\ o = "paused" => ~busy
      /\ o = "cancelled" => ~busy /\ Override(h) = "cancelling"
  <2>1. Override(h) # "cancelled"
    BY <1>2, <1>5 DEF Now
  <2>2. Override(h) = "paused" => ~busy
    BY <1>2, <1>4, <1>6 DEF Now
  <2>3. Override(h) \in Overrides
    BY <1>2 DEF Override, Group
  <2> HIDE DEF busy, waiting
  <2> QED BY <2>1, <2>2, <2>3 DEF AfterFinish, Overrides
<1> DEFINE rec == [Counted(group[h], outcome) EXCEPT !.override = o]
<1>8. rec \in Group /\ rec.override = o /\ rec.exists = group[h].exists
  <2>1. /\ Counted(group[h], outcome) \in Group
        /\ Counted(group[h], outcome).exists = group[h].exists
    BY <1>2 DEF Counted, Group
  <2> HIDE DEF o
  <2> QED BY <1>7, <2>1 DEF Group
<1>9. ASSUME NEW g \in Groups PROVE Good(st, g)
  <2>1. CASE g = h
    <3>1. group'[g].override = o /\ group'[g].exists = group[g].exists
      BY <1>1, <1>2, <1>8, <2>1 DEF Shape
    <3>2. CASE o = "cancelled"
      <4>1. FilesIn(st, h) \subseteq ActiveIn(st, h) /\ ActiveIn(st, h) = {}
        BY <1>2, <1>4, <1>5, <1>6, <1>7, <3>2 DEF Now
      <4> QED BY <2>1, <3>1, <3>2, <4>1, <1>2, <1>5 DEF Good, Now
    <3>3. CASE o # "cancelled"
      <4> HIDE DEF o, busy, st
      <4> QED BY <2>1, <3>1, <3>3, <1>2, <1>4, <1>5, <1>6, <1>7 DEF Good, Now
    <3> QED BY <3>2, <3>3
  <2>2. CASE g # h
    <3>1. group'[g] = group[g]
      BY <1>1, <1>2, <2>2 DEF Shape
    <3>2. \A u \in Tasks : GroupOf[u] = g => st[u] = status[u]
      BY <1>2, <2>2 DEF Shape
    <3>3. FilesIn(status, g) \cap aborted \subseteq aborted'
      BY <1>2, <2>2 DEF FilesIn
    <3> HIDE DEF st
    <3> QED BY <3>1, <3>2, <3>3, Untouched
  <2> QED BY <2>1, <2>2
<1>10. group' \in [Groups -> Group]
  <2> HIDE DEF rec
  <2> QED BY <1>1, <1>2, <1>8 DEF Shape, rec
<1> HIDE DEF st
<1> QED BY <1>1, <1>2, <1>3, <1>9, <1>10, Scheduling, Scheduled DEF st

\* Cancelling the pending files of S.
LEMMA PendingCancelled ==
  ASSUME Inv, NEW S \in SUBSET Waiting
  PROVE  /\ CancelPending(S) \in [Tasks -> Statuses]
         /\ \A g \in Groups :
              /\ ActiveIn(CancelPending(S), g) = ActiveIn(status, g)
              /\ FilesIn(CancelPending(S), g) = FilesIn(status, g) \ S
BY DEF CancelPending, Waiting, ActiveIn, FilesIn, Inv, Shape, Statuses

LEMMA CancelledRecord ==
  ASSUME Inv, NEW g \in Groups, NEW S \in SUBSET Waiting
  PROVE  /\ CountCancelled(g, S) \in Group
         /\ CountCancelled(g, S).override = group[g].override
         /\ CountCancelled(g, S).exists = group[g].exists
         /\ CancelledGroup(g, S) \in Group
         /\ CancelledGroup(g, S).override =
              (IF ActiveOf(g) = {} THEN "cancelled" ELSE "cancelling")
         /\ CancelledGroup(g, S).exists = group[g].exists
<1> DEFINE n == Cardinality({t \in S : GroupOf[t] = g})
<1>1. n \in Nat
  BY CountsAreNumbers DEF Waiting
<1>2. group[g] \in Group
  BY DEF Inv, Shape
<1>3. CountCancelled(g, S) = [group[g] EXCEPT !.done = @ + n]
  BY DEF CountCancelled
<1> HIDE DEF n
<1>4. /\ CountCancelled(g, S) \in Group
      /\ CountCancelled(g, S).override = group[g].override
      /\ CountCancelled(g, S).exists = group[g].exists
  BY <1>1, <1>2, <1>3 DEF Group
<1> QED BY <1>4 DEF CancelledGroup, Group, Overrides

\* All files of the groups of C are cancelled; the groups of F are finished.
LEMMA CancelKeeps ==
  ASSUME Inv, NEW C \in SUBSET Groups, NEW F \in SUBSET Groups,
         \A g \in F : Terminal(g), NEW S,
         S = {t \in Waiting : GroupOf[t] \in C},
         group' = [g \in Groups |->
           IF g \in C THEN CancelledGroup(g, S)
           ELSE IF g \in F THEN Forgotten(g) ELSE group[g]],
         \A t \in Active : t \in aborted \/ GroupOf[t] \in C => t \in aborted'
  PROVE  /\ group' \in [Groups -> Group]
         /\ \A g \in Groups : Good(CancelPending(S), g)
<1>1. S \in SUBSET Waiting
  OBVIOUS
<1>2. NoGroup \in Group
  BY DEF NoGroup, Group, Overrides
<1>3. group' \in [Groups -> Group]
  BY <1>1, <1>2, CancelledRecord DEF Inv, Shape, Forgotten
<1>4. ASSUME NEW g \in Groups PROVE Good(CancelPending(S), g)
  <2> DEFINE st == CancelPending(S)
  <2>1. ActiveIn(st, g) = ActiveIn(status, g) /\ FilesIn(st, g) = FilesIn(status, g) \ S
    BY <1>1, PendingCancelled
  <2>2. /\ ActiveOf(g) = ActiveIn(status, g) /\ FilesOf(g) = FilesIn(status, g)
        /\ Now(g)
    BY InvNow DEF ActiveOf, Active, ActiveIn, FilesOf, Waiting, FilesIn
  <2> HIDE DEF st
  <2>3. CASE g \in C
    <3>1. FilesIn(status, g) \ S = ActiveIn(status, g)
      BY <2>3 DEF FilesIn, ActiveIn, Waiting
    <3>2. ActiveIn(status, g) \subseteq aborted'
      BY <2>3 DEF ActiveIn, Active
    <3>3. /\ group'[g].override = (IF ActiveOf(g) = {} THEN "cancelled" ELSE "cancelling")
          /\ group'[g].exists = group[g].exists
      BY <1>1, <2>3, CancelledRecord
    <3> QED BY <2>1, <2>2, <3>1, <3>2, <3>3 DEF Good, Now, st
  <2>4. CASE g \notin C /\ group'[g] = group[g]
    <3>1. FilesIn(status, g) \ S = FilesIn(status, g)
      BY <2>4 DEF FilesIn
    <3>2. ActiveIn(status, g) \cap aborted \subseteq aborted'
      BY DEF ActiveIn, Active
    <3> QED BY <2>1, <2>2, <2>4, <3>1, <3>2 DEF Good, Now, Override, st
  <2>5. CASE g \notin C /\ group'[g] # group[g]
    <3>1. g \in F /\ group'[g] = NoGroup
      BY <2>5 DEF Forgotten
    <3>2. FilesIn(status, g) = {}
      BY <2>2, <3>1 DEF Terminal, Completed, Now
    <3> QED BY <2>1, <3>1, <3>2 DEF Good, NoGroup, st
  <2> QED BY <2>3, <2>4, <2>5
<1> QED BY <1>3, <1>4

LEMMA CancelGroupsKeeps ==
  ASSUME Inv, NEW C \in SUBSET Groups, NEW F \in SUBSET Groups,
         \A g \in F : Terminal(g), CancelGroups(C, F)
  PROVE  Inv'
<1> DEFINE S == {t \in Waiting : GroupOf[t] \in C}
<1>1. /\ group' = [g \in Groups |->
           IF g \in C THEN CancelledGroup(g, S)
           ELSE IF g \in F THEN Forgotten(g) ELSE group[g]]
      /\ aborted' = aborted \cup {t \in Active : GroupOf[t] \in C}
      /\ ProcessNext(Dequeued(S), CancelPending(S))
  BY DEF CancelGroups
<1>2. S \in SUBSET Waiting
  OBVIOUS
<1>3. S = {t \in Waiting : GroupOf[t] \in C}
  OBVIOUS
<1> HIDE DEF S
<1>4. /\ group' \in [Groups -> Group]
      /\ \A g \in Groups : Good(CancelPending(S), g)
  BY <1>1, <1>3, CancelKeeps, ZenonT(60) DEF Active
<1>5. CancelPending(S) \in [Tasks -> Statuses]
  BY <1>2, PendingCancelled
<1>6. OnlyRunnable(CancelPending(S))
  BY <1>1, <1>5, Scheduling
<1> QED BY <1>4, <1>5, <1>6, Scheduled DEF Inv

LEMMA CancelFileKeeps ==
  ASSUME Inv, NEW t \in Tasks, CancelFile(t)
  PROVE  Inv'
<1> DEFINE h == GroupOf[t]
<1> DEFINE S == {t} \cap Waiting
<1>1. /\ group' = [group EXCEPT ![h] = CountCancelled(h, S)]
      /\ aborted' = aborted \cup ({t} \cap Active)
      /\ ProcessNext(Dequeued(S), CancelPending(S))
  BY DEF CancelFile
<1>2. S \in SUBSET Waiting /\ h \in Groups /\ Shape
  BY TasksOK DEF Inv
<1> HIDE DEF S
<1>3. group' \in [Groups -> Group]
  BY <1>1, <1>2, CancelledRecord DEF Shape
<1>4. ASSUME NEW g \in Groups PROVE Good(CancelPending(S), g)
  <2>1. group'[g].override = group[g].override /\ group'[g].exists = group[g].exists
    BY <1>1, <1>2, CancelledRecord DEF Shape
  <2>2. /\ ActiveIn(CancelPending(S), g) = ActiveIn(status, g)
        /\ FilesIn(CancelPending(S), g) \subseteq FilesIn(status, g)
    BY <1>2, PendingCancelled
  <2>3. Now(g) /\ aborted \subseteq aborted'
    BY <1>1, InvNow
  <2> QED BY <2>1, <2>2, <2>3 DEF Good, Now, Override
<1>5. CancelPending(S) \in [Tasks -> Statuses]
  BY <1>2, PendingCancelled
<1>6. OnlyRunnable(CancelPending(S))
  BY <1>1, <1>5, Scheduling
<1> QED BY <1>2, <1>3, <1>4, <1>5, <1>6, Scheduled

LEMMA ForceStopKeeps ==
  ASSUME Inv, ForceStopAll
  PROVE  Inv'
<1> DEFINE C == {g \in Groups : FilesOf(g) # {}}
<1> DEFINE S == {t \in Waiting : GroupOf[t] \in C}
<1>1. S = Waiting
  BY TasksOK DEF FilesOf, Waiting
<1>2. \A t \in Active : GroupOf[t] \in C
  BY TasksOK DEF FilesOf, Active
<1>3. group' = [g \in Groups |->
        IF g \in C THEN CancelledGroup(g, S)
        ELSE IF g \in {} THEN Forgotten(g) ELSE group[g]]
  BY <1>1 DEF ForceStopAll
<1>4. status' = CancelPending(S) /\ aborted' = Active
  BY <1>1 DEF ForceStopAll
<1>5. CancelPending(S) \in [Tasks -> Statuses]
  BY <1>1, PendingCancelled
<1>6. /\ group' \in [Groups -> Group]
      /\ \A g \in Groups : Good(CancelPending(S), g)
  <2>1. {} \in SUBSET Groups /\ C \in SUBSET Groups
    OBVIOUS
  <2>2. S = {t \in Waiting : GroupOf[t] \in C}
    OBVIOUS
  <2> HIDE DEF S, C
  <2> QED BY <1>2, <1>3, <1>4, <2>1, <2>2, CancelKeeps
<1> HIDE DEF S
<1> QED BY <1>4, <1>5, <1>6, Unscheduled DEF Inv

-----------------------------------------------------------------------------
LEMMA Start == Init => Inv
BY DEF Init, Inv, Shape, Group, NoGroup, Overrides, Statuses, OverridesEarned,
       FilesHaveGroup, FilesOf, Active, Waiting, ActiveOf, Override

LEMMA CommandKeeps ==
  ASSUME Inv, NEW g \in Groups, Command(g) \/ TimerResumes(g) \/ TimerIsLate(g)
  PROVE  Inv'
<1> USE DEF cooldown, pauses, bounds
<1>1. CASE \E n \in Announced : EnsureGroup(g, n)
  BY <1>1, EnsureGroupKeeps
<1>2. CASE ControlTerminal(g)
  <2>1. group' = [h \in Groups |-> IF h \in {g} THEN Forgotten(h) ELSE group[h]]
    BY <1>2 DEF ControlTerminal, Inv, Shape
  <2> QED BY <1>2, <2>1, ForgetKeeps DEF ControlTerminal
<1>3. CASE PrioritizeGroup(g)
  BY <1>3, ScheduleKeeps DEF PrioritizeGroup
<1>4. CASE PauseGroup(g)
  BY <1>4, OverrideKeeps DEF PauseGroup, PauseOverride, Overrides
<1>5. CASE ResumeGroup(g) \/ TimerResumes(g)
  BY <1>5, OverrideKeeps DEF ResumeGroup, TimerResumes, Resume, Overrides
<1>6. CASE CancelGroup(g)
  BY <1>6, CancelGroupsKeeps DEF CancelGroup
<1>7. CASE TimerIsLate(g)
  <2>1. CASE Terminal(g)
    <3>1. group' = [h \in Groups |-> IF h \in {g} THEN Forgotten(h) ELSE group[h]]
      BY <1>7, <2>1 DEF TimerIsLate, Inv, Shape
    <3> QED BY <1>7, <2>1, <3>1, ForgetKeeps DEF TimerIsLate
  <2>2. CASE ~Terminal(g)
    BY <1>7, <2>2, FrameKeeps DEF TimerIsLate
  <2> QED BY <2>1, <2>2
<1> QED BY <1>1, <1>2, <1>3, <1>4, <1>5, <1>6, <1>7 DEF Command

LEMMA FileKeeps ==
  ASSUME Inv, NEW t \in Tasks, File(t) \/ Finish(t)
  PROVE  Inv'
BY AddKeeps, RefuseKeeps, RetryKeeps, CancelFileKeeps, RequeueKeeps, FinishKeeps
   DEF File

LEMMA ScopedKeeps ==
  ASSUME Inv, NEW p \in Scopes, Scoped(p)
  PROVE  Inv'
<1>1. CASE PauseScope(p)
  BY <1>1, FrameKeeps DEF PauseScope
<1>2. CASE ResumeScope(p)
  BY <1>2, ScheduleKeeps DEF ResumeScope
<1>3. CASE CancelScope(p)
  <2> DEFINE C == {g \in p : Controllable(g) /\ Override(g) # "cancelling"}
  <2> DEFINE F == {g \in p : group[g].exists /\ Terminal(g)}
  <2>1. C \in SUBSET Groups /\ F \in SUBSET Groups /\ \A g \in F : Terminal(g)
    BY TasksOK
  <2>2. CancelGroups(C, F)
    BY <1>3 DEF CancelScope
  <2> HIDE DEF C, F
  <2> QED BY <2>1, <2>2, CancelGroupsKeeps
<1> QED BY <1>1, <1>2, <1>3 DEF Scoped

LEMMA QueueKeeps ==
  ASSUME Inv, Queue
  PROVE  Inv'
<1>1. CASE ForceStopAll
  BY <1>1, ForceStopKeeps
<1>2. CASE PauseAll \/ \E b \in Blockers : AcquireDiskPressureBlocker(b)
  BY <1>2, FrameKeeps DEF PauseAll, AcquireDiskPressureBlocker
<1>3. CASE \/ ResumeAll
           \/ \E b \in Blockers : ReleaseDiskPressureBlocker(b)
           \/ \E n \in 1 .. MaxLimit : SetMaxConcurrent(n)
  BY <1>3, ScheduleKeeps DEF ResumeAll, ReleaseDiskPressureBlocker, SetMaxConcurrent
<1> QED BY <1>1, <1>2, <1>3 DEF Queue

LEMMA Step == Inv /\ [Next]_vars => Inv'
<1> SUFFICES ASSUME Inv, [Next]_vars PROVE Inv'
  OBVIOUS
<1>1. CASE Next
  BY <1>1, CommandKeeps, FileKeeps, ScopedKeeps, QueueKeeps DEF Next
<1>2. CASE UNCHANGED vars
  BY <1>2, FrameKeeps DEF vars
<1> QED BY <1>1, <1>2

\* Whatever commands, ends of downloads and timers come in whatever order, the
\* override of every group is true of its files: a pause or a cancellation in
\* progress waits for a file in flight, a cancelled group has none.
THEOREM OverridesAreEarned == Spec => []OverridesEarned
<1>1. Inv => OverridesEarned
  BY DEF Inv
<1> QED BY Start, Step, <1>1, PTL DEF Spec

\* The record of a group with queued or running files is never dropped.
THEOREM FilesKeepTheirGroup == Spec => []FilesHaveGroup
<1>1. Inv => FilesHaveGroup
  BY DEF Inv
<1> QED BY Start, Step, <1>1, PTL DEF Spec

-----------------------------------------------------------------------------
(* Counting: the positions K of a sequence, ranked in their order. *)

LEMMA Ranks ==
  ASSUME NEW n \in Nat, NEW K \in SUBSET (1 .. n)
  PROVE  LET rank == [i \in K |-> Cardinality({j \in K : j <= i})]
             c    == Cardinality(K)
         IN /\ IsFiniteSet(K) /\ c \in 0 .. n
            /\ \A i \in K : rank[i] \in 1 .. c
            /\ \A i, j \in K : i # j => rank[i] # rank[j]
            /\ \A k \in 1 .. c : \E i \in K : rank[i] = k
<1> DEFINE upTo(i) == {j \in K : j <= i}
           rank    == [i \in K |-> Cardinality(upTo(i))]
           c       == Cardinality(K)
<1>1. IsFiniteSet(1 .. n) /\ Cardinality(1 .. n) = n
  BY FS_Interval
<1>2. IsFiniteSet(K) /\ c \in 0 .. n
  <2>1. IsFiniteSet(K) /\ c <= n
    BY <1>1, FS_Subset
  <2>2. c \in Nat
    BY <2>1, FS_CardinalityType
  <2> QED BY <2>1, <2>2
<1>0. \A i \in K : i \in Nat
  OBVIOUS
<1>3. ASSUME NEW i \in K
      PROVE  IsFiniteSet(upTo(i)) /\ Cardinality(upTo(i)) \in 1 .. c
  <2> DEFINE u == upTo(i)
  <2>1. u \in SUBSET K /\ i \in u
    BY <1>0
  <2> HIDE DEF u
  <2>2. IsFiniteSet(u) /\ Cardinality(u) <= c
    BY <1>2, <2>1, FS_Subset
  <2>3. Cardinality(u) \in Nat /\ Cardinality(u) # 0
    BY <2>1, <2>2, FS_CardinalityType, FS_EmptySet
  <2>4. IsFiniteSet(u) /\ Cardinality(u) \in 1 .. c
    BY <1>2, <2>2, <2>3
  <2> QED BY <2>4 DEF u
<1>4. ASSUME NEW i \in K, NEW j \in K, i < j
      PROVE  Cardinality(upTo(i)) # Cardinality(upTo(j))
  <2> DEFINE u == upTo(i)  v == upTo(j)
  <2>0. /\ \A k \in K : k <= i => k <= j
        /\ j <= j /\ ~(j <= i)
    BY <1>0, <1>4
  <2>1. u \in SUBSET v /\ j \in v /\ j \notin u
    BY <2>0
  <2>2. IsFiniteSet(v)
    BY <1>3
  <2> HIDE DEF u, v
  <2>3. Cardinality(v) # Cardinality(u)
    BY <2>1, <2>2, FS_Subset
  <2> QED BY <2>3 DEF u, v
<1>5. \A i \in K : rank[i] = Cardinality(upTo(i)) /\ rank[i] \in 1 .. c
  BY <1>3
<1> HIDE DEF rank, upTo
<1>6. ASSUME NEW i \in K, NEW j \in K, i # j
      PROVE  rank[i] # rank[j]
  <2>1. i < j \/ j < i
    BY <1>0, <1>6
  <2> QED BY <1>4, <1>5, <2>1
<1>7. rank \in Injection(K, 1 .. c)
  <2>1. rank \in [K -> 1 .. c]
    BY <1>5 DEF rank
  <2> QED BY <1>6, <2>1 DEF Injection, IsInjective
<1>8. IsFiniteSet(1 .. c) /\ Cardinality(1 .. c) = c
  BY <1>2, FS_Interval
<1>9. rank \in Surjection(K, 1 .. c)
  BY <1>7, <1>8, FS_Injection
<1>10. \A k \in 1 .. c : \E i \in K : rank[i] = k
  BY <1>9 DEF Surjection
<1> QED BY <1>2, <1>5, <1>6, <1>10 DEF rank, upTo

\* The first positions of K, as many as there is room for.
LEMMA FirstOnes ==
  ASSUME NEW n \in Nat, NEW K \in SUBSET (1 .. n), NEW room \in Int
  PROVE  LET first == {i \in K : Cardinality({j \in K : j <= i}) <= room}
         IN /\ IsFiniteSet(first) /\ Cardinality(first) \in Nat
            /\ first # {} => Cardinality(first) <= room
            /\ first = K \/ Cardinality(first) >= room
<1> DEFINE rank  == [i \in K |-> Cardinality({j \in K : j <= i})]
           c     == Cardinality(K)
           first == {i \in K : Cardinality({j \in K : j <= i}) <= room}
           some  == [i \in first |-> rank[i]]
<1>1. /\ IsFiniteSet(K) /\ c \in 0 .. n
      /\ \A i \in K : rank[i] \in 1 .. c
      /\ \A i, j \in K : i # j => rank[i] # rank[j]
      /\ \A k \in 1 .. c : \E i \in K : rank[i] = k
  BY Ranks
<1>2. first = {i \in K : rank[i] <= room}
  OBVIOUS
<1> HIDE DEF rank, c, first
<1>3. IsFiniteSet(first) /\ Cardinality(first) \in Nat
  BY <1>1, <1>2, FS_Subset, FS_CardinalityType
<1>4. ASSUME first # {}
      PROVE  Cardinality(first) <= room
  <2>1. room \in Nat /\ IsFiniteSet(1 .. room) /\ Cardinality(1 .. room) = room
    <3>1. PICK i \in first : TRUE
      BY <1>4
    <3>2. 1 <= room
      BY <1>1, <1>2, <3>1
    <3> QED BY <3>2, FS_Interval
  <2>2. some \in Injection(first, 1 .. room)
    <3>1. \A i \in first : i \in K /\ rank[i] \in 1 .. room
      BY <1>1, <1>2, <2>1
    <3>2. some \in [first -> 1 .. room]
      BY <3>1
    <3> QED BY <1>1, <3>1, <3>2 DEF Injection, IsInjective
  <2> QED BY <2>1, <2>2, FS_Injection
<1>5. CASE room >= c
  <2>1. \A i \in K : rank[i] <= room
    BY <1>1, <1>5
  <2>2. first = K
    BY <1>2, <2>1
  <2> QED BY <1>3, <1>4, <2>2 DEF first
<1>6. CASE room < c /\ room >= 1
  <2>1. some \in Surjection(first, 1 .. room)
    <3>1. \A k \in 1 .. room : \E i \in first : rank[i] = k
      BY <1>1, <1>2, <1>6
    <3>2. \A i \in first : rank[i] \in 1 .. room
      BY <1>1, <1>2
    <3> QED BY <3>1, <3>2 DEF Surjection
  <2>2. Cardinality(1 .. room) = room
    BY <1>6, FS_Interval
  <2>3. Cardinality(1 .. room) <= Cardinality(first)
    BY <1>3, <2>1, FS_Surjection
  <2> QED BY <1>3, <1>4, <2>2, <2>3 DEF first
<1>7. CASE room < 1
  BY <1>3, <1>4, <1>7 DEF first
<1>8. room >= c \/ (room < c /\ room >= 1) \/ room < 1
  BY <1>1
<1> QED BY <1>5, <1>6, <1>7, <1>8

\* What Only returns: a shorter sequence of exactly those elements.
LEMMA OnlyKeeps ==
  ASSUME NEW T, NEW q \in Seq(T), NEW S
  PROVE  /\ Only(q, S) \in Seq(T)
         /\ Len(Only(q, S)) <= Len(q)
         /\ ToSet(Only(q, S)) = ToSet(q) \cap S
         /\ IsInjective(q) => IsInjective(Only(q, S))
<1> DEFINE kept   == {i \in 1 .. Len(q) : q[i] \in S}
           c      == Cardinality(kept)
           rank   == [i \in kept |-> Cardinality({j \in kept : j <= i})]
           pos(k) == CHOOSE i \in kept : Cardinality({j \in kept : j <= i}) = k
           r      == [k \in 1 .. c |-> q[pos(k)]]
<1>1. Len(q) \in Nat /\ q \in [1 .. Len(q) -> T] /\ DOMAIN q = 1 .. Len(q)
  OBVIOUS
<1>2. kept \in SUBSET (1 .. Len(q))
  OBVIOUS
<1>3. /\ IsFiniteSet(kept) /\ c \in 0 .. Len(q)
      /\ \A i \in kept : rank[i] \in 1 .. c
      /\ \A i, j \in kept : i # j => rank[i] # rank[j]
      /\ \A k \in 1 .. c : \E i \in kept : rank[i] = k
  <2> HIDE DEF kept
  <2> QED BY <1>1, <1>2, Ranks, ZenonT(60)
<1>4. Only(q, S) = r
  BY DEF Only
<1>5. \A k \in 1 .. c : pos(k) \in kept /\ rank[pos(k)] = k
  <2> TAKE k \in 1 .. c
  <2>1. PICK i \in kept : rank[i] = k
    BY <1>3
  <2>2. Cardinality({j \in kept : j <= i}) = k
    BY <2>1
  <2>3. pos(k) \in kept /\ Cardinality({j \in kept : j <= pos(k)}) = k
    <3> HIDE DEF kept
    <3> QED BY <2>1, <2>2
  <2> QED BY <2>3
<1>6. \A i \in kept : rank[i] \in 1 .. c /\ pos(rank[i]) = i
  BY <1>3, <1>5
<1>7. \A i \in kept : i \in 1 .. Len(q) /\ q[i] \in S /\ q[i] \in T
  BY <1>1
<1>8. \A i \in 1 .. Len(q) : q[i] \in S => i \in kept
  OBVIOUS
<1> HIDE DEF kept, rank, pos, c
<1>9. r \in Seq(T) /\ Len(r) = c /\ DOMAIN r = 1 .. c
  BY <1>3, <1>5, <1>7
<1>10. ToSet(r) = ToSet(q) \cap S
  <2>1. ASSUME NEW x \in ToSet(r)
        PROVE  x \in ToSet(q) \cap S
    BY <1>1, <1>5, <1>7, <1>9, <2>1 DEF ToSet
  <2>2. ASSUME NEW x \in ToSet(q) \cap S
        PROVE  x \in ToSet(r)
    <3>1. PICK i \in 1 .. Len(q) : x = q[i]
      BY <1>1, <2>2 DEF ToSet
    <3>2. i \in kept
      BY <1>8, <2>2, <3>1
    <3>3. rank[i] \in DOMAIN r /\ r[rank[i]] = x
      BY <1>6, <1>9, <3>1, <3>2
    <3> QED BY <3>3 DEF ToSet
  <2> QED BY <2>1, <2>2
<1>11. ASSUME IsInjective(q)
       PROVE  IsInjective(r)
  <2>1. ASSUME NEW j \in 1 .. c, NEW k \in 1 .. c, r[j] = r[k]
        PROVE  j = k
    <3>1. q[pos(j)] = q[pos(k)] /\ pos(j) \in DOMAIN q /\ pos(k) \in DOMAIN q
      BY <1>1, <1>5, <1>7, <2>1
    <3>2. pos(j) = pos(k)
      BY <1>11, <3>1 DEF IsInjective
    <3> QED BY <1>5, <3>2
  <2> QED BY <1>9, <2>1 DEF IsInjective
<1> HIDE DEF r
<1> QED BY <1>3, <1>4, <1>9, <1>10, <1>11

LEMMA AppendKeeps ==
  ASSUME NEW T, NEW q \in Seq(T), NEW x \in T
  PROVE  /\ Append(q, x) \in Seq(T)
         /\ ToSet(Append(q, x)) = ToSet(q) \cup {x}
         /\ IsInjective(q) /\ x \notin ToSet(q) => IsInjective(Append(q, x))
<1>1. /\ Append(q, x) \in Seq(T) /\ DOMAIN Append(q, x) = 1 .. Len(q) + 1
      /\ Len(q) \in Nat /\ DOMAIN q = 1 .. Len(q)
      /\ \A i \in 1 .. Len(q) : Append(q, x)[i] = q[i]
      /\ Append(q, x)[Len(q) + 1] = x
  OBVIOUS
<1>2. \A i \in DOMAIN Append(q, x) : i \in DOMAIN q \/ i = Len(q) + 1
  BY <1>1
<1> QED BY <1>1, <1>2 DEF ToSet, IsInjective

LEMMA ConcatKeeps ==
  ASSUME NEW T, NEW p \in Seq(T), NEW q \in Seq(T)
  PROVE  /\ p \o q \in Seq(T)
         /\ ToSet(p \o q) = ToSet(p) \cup ToSet(q)
         /\ IsInjective(p) /\ IsInjective(q) /\ ToSet(p) \cap ToSet(q) = {} =>
              IsInjective(p \o q)
<1> DEFINE m == Len(p)
           n == Len(q)
           r == p \o q
<1>1. /\ m \in Nat /\ n \in Nat /\ DOMAIN p = 1 .. m /\ DOMAIN q = 1 .. n
      /\ r \in Seq(T) /\ DOMAIN r = 1 .. m + n
      /\ \A i \in 1 .. m : i \in DOMAIN r /\ r[i] = p[i]
      /\ \A i \in 1 .. n : m + i \in DOMAIN r /\ r[m + i] = q[i]
  BY ConcatProperties, LenProperties
<1>2. \A i \in DOMAIN r : i \in 1 .. m \/ \E j \in 1 .. n : i = m + j
  <2>1. \A i \in 1 .. m + n : i \in 1 .. m \/ (i - m \in 1 .. n /\ i = m + (i - m))
    BY <1>1
  <2> QED BY <1>1, <2>1
<1> HIDE DEF m, n, r
<1>3. ToSet(r) = ToSet(p) \cup ToSet(q)
  <2>1. ASSUME NEW x \in ToSet(r)
        PROVE  x \in ToSet(p) \cup ToSet(q)
    <3>1. PICK i \in DOMAIN r : x = r[i]
      BY DEF ToSet
    <3>2. CASE i \in 1 .. m
      BY <1>1, <3>1, <3>2 DEF ToSet
    <3>3. CASE \E j \in 1 .. n : i = m + j
      <4>1. PICK j \in 1 .. n : i = m + j
        BY <3>3
      <4>2. x = q[j] /\ j \in DOMAIN q
        BY <1>1, <3>1, <4>1
      <4> QED BY <4>2 DEF ToSet
    <3> QED BY <1>2, <3>1, <3>2, <3>3
  <2>2. ASSUME NEW x \in ToSet(p) \cup ToSet(q)
        PROVE  x \in ToSet(r)
    <3>1. CASE x \in ToSet(p)
      BY <1>1, <3>1 DEF ToSet
    <3>2. CASE x \in ToSet(q)
      <4>1. PICK j \in 1 .. n : x = q[j]
        BY <1>1, <3>2 DEF ToSet
      <4>2. m + j \in DOMAIN r /\ x = r[m + j]
        BY <1>1, <4>1
      <4> QED BY <4>2 DEF ToSet
    <3> QED BY <2>2, <3>1, <3>2
  <2> QED BY <2>1, <2>2
<1>4. ASSUME IsInjective(p), IsInjective(q), ToSet(p) \cap ToSet(q) = {},
             NEW i \in DOMAIN r, NEW j \in DOMAIN r, r[i] = r[j]
      PROVE  i = j
  <2>1. CASE i \in 1 .. m /\ j \in 1 .. m
    BY <1>1, <1>4, <2>1 DEF IsInjective
  <2>2. CASE i \notin 1 .. m /\ j \notin 1 .. m
    <3>1. PICK k \in 1 .. n, l \in 1 .. n : i = m + k /\ j = m + l
      BY <1>2, <2>2
    <3>2. q[k] = q[l]
      BY <1>1, <1>4, <3>1
    <3> QED BY <1>1, <1>4, <3>1, <3>2 DEF IsInjective
  <2>3. ASSUME NEW k \in 1 .. m, NEW l \in 1 .. n
        PROVE  p[k] # q[l]
    BY <1>1, <1>4 DEF ToSet
  <2>4. CASE i \in 1 .. m /\ j \notin 1 .. m
    <3>1. PICK l \in 1 .. n : j = m + l
      BY <1>2, <2>4
    <3> QED BY <1>1, <1>4, <2>3, <2>4, <3>1
  <2>5. CASE i \notin 1 .. m /\ j \in 1 .. m
    <3>1. PICK k \in 1 .. n : i = m + k
      BY <1>2, <2>5
    <3> QED BY <1>1, <1>4, <2>3, <2>5, <3>1
  <2> QED BY <2>1, <2>2, <2>4, <2>5
<1>5. IsInjective(p) /\ IsInjective(q) /\ ToSet(p) \cap ToSet(q) = {} => IsInjective(r)
  BY <1>4 DEF IsInjective
<1> QED BY <1>1, <1>3, <1>5 DEF r

LEMMA PushKeeps ==
  ASSUME NEW h \in Seq(Tasks), NEW s \in Seq(Tasks)
  PROVE  Push(h, s) \in Seq(Tasks) /\ Len(Push(h, s)) <= MaxHistory
<1> DEFINE all == Reverse(s) \o h
           n   == IF Len(all) < MaxHistory THEN Len(all) ELSE MaxHistory
<1>1. all \in Seq(Tasks)
  <2>1. \A i \in 1 .. Len(s) : Len(s) - i + 1 \in 1 .. Len(s)
    OBVIOUS
  <2>2. Reverse(s) \in Seq(Tasks)
    BY <2>1 DEF Reverse
  <2> QED BY <2>2
<1>2. Len(all) \in Nat /\ \A i \in 1 .. Len(all) : all[i] \in Tasks
  BY <1>1
<1>3. MaxHistory \in Nat
  BY BoundsOK
<1> HIDE DEF all
<1>4. n \in Nat /\ n <= MaxHistory /\ n <= Len(all)
  BY <1>2, <1>3
<1> HIDE DEF n
<1>5. /\ SubSeq(all, 1, n) \in Seq(Tasks)
      /\ Len(SubSeq(all, 1, n)) = IF 1 <= n THEN n - 1 + 1 ELSE 0
  BY <1>2, <1>4, SubSeqProperties
<1>6. Push(h, s) = SubSeq(all, 1, n)
  BY DEF Push, all, n
<1> QED BY <1>3, <1>4, <1>5, <1>6

-----------------------------------------------------------------------------
(* What a call of processNext makes of the queue. *)

\* The queue q lists the tasks that are pending in st, each once.
Listed(q, st) ==
  /\ q \in Seq(Tasks) /\ IsInjective(q)
  /\ ToSet(q) = {t \in Tasks : st[t] = "pending"}

LEMMA FinitelyMany ==
  ASSUME NEW S \in SUBSET Tasks
  PROVE  IsFiniteSet(S) /\ Cardinality(S) \in Nat
BY TasksOK, FS_Subset, FS_CardinalityType

\* The positions of the queue that are started, and their number.
LEMMA Started ==
  ASSUME NEW q \in Seq(Tasks), IsInjective(q), NEW may, NEW room \in Int
  PROVE  LET started == FirstOf(q, may, room)
         IN /\ started \subseteq ToSet(q) \cap may
            /\ IsFiniteSet(started) /\ Cardinality(started) \in Nat
            /\ started # {} => Cardinality(started) <= room
            /\ started = ToSet(q) \cap may \/ Cardinality(started) >= room
<1> DEFINE n        == Len(q)
           K        == {i \in 1 .. n : q[i] \in may}
           ready(i) == {j \in 1 .. i : q[j] \in may}
           first    == {i \in K : Cardinality({j \in K : j <= i}) <= room}
           places   == {i \in 1 .. n : i \in ready(i) /\ Cardinality(ready(i)) <= room}
           started  == {q[i] : i \in places}
           f        == [i \in first |-> q[i]]
<1>1. n \in Nat /\ DOMAIN q = 1 .. n /\ K \in SUBSET (1 .. n)
  OBVIOUS
<1>2. \A i \in K : ready(i) = {j \in K : j <= i}
  <2> TAKE i \in K
  <2>1. i \in 1 .. n
    OBVIOUS
  <2>2. \A j : j \in 1 .. i <=> j \in 1 .. n /\ j <= i
    BY <1>1, <2>1
  <2> QED BY <2>2
<1>3. \A i \in 1 .. n : i \in ready(i) <=> i \in K
  BY <1>1
<1>4. places = first
  <2> HIDE DEF K, ready, n
  <2>1. \A i \in K : i \in 1 .. n
    BY DEF K
  <2> QED BY <1>2, <1>3, <2>1
<1>5. /\ IsFiniteSet(first) /\ Cardinality(first) \in Nat
      /\ first # {} => Cardinality(first) <= room
      /\ first = K \/ Cardinality(first) >= room
  <2> HIDE DEF K, n
  <2> QED BY <1>1, FirstOnes
<1>6. first \subseteq K
  OBVIOUS
<1>7. ToSet(q) \cap may = {q[i] : i \in K}
  BY <1>1 DEF ToSet
<1>8. \A i \in K : i \in DOMAIN q
  BY <1>1
<1>9. started = {q[i] : i \in first}
  BY <1>4
<1> HIDE DEF K, first, places, started, n, ready
<1>10. f \in Bijection(first, started)
  <2>1. f \in [first -> started] /\ \A x \in started : \E i \in first : f[i] = x
    BY <1>9
  <2>2. \A i, j \in first : f[i] = f[j] => i = j
    BY <1>6, <1>8 DEF IsInjective
  <2> QED BY <2>1, <2>2 DEF Bijection, Injection, Surjection, IsInjective
<1>11. IsFiniteSet(started) /\ Cardinality(started) = Cardinality(first)
  <2>1. ExistsBijection(first, started)
    BY <1>10 DEF ExistsBijection
  <2> QED BY <1>5, <2>1, FS_Bijection
<1>12. started # {} => first # {}
  BY <1>9
<1>13. started \subseteq ToSet(q) \cap may
  BY <1>6, <1>7, <1>9
<1>14. first = K => started = ToSet(q) \cap may
  BY <1>7, <1>9
<1>15. /\ started \subseteq ToSet(q) \cap may
       /\ IsFiniteSet(started) /\ Cardinality(started) \in Nat
       /\ started # {} => Cardinality(started) <= room
       /\ started = ToSet(q) \cap may \/ Cardinality(started) >= room
  BY <1>5, <1>11, <1>12, <1>13, <1>14
<1>16. FirstOf(q, may, room) = started
  BY DEF FirstOf, started, places, ready, n
<1> QED BY <1>15, <1>16

\* A call of processNext starts pending files that may run, never more than
\* there are places, and leaves none waiting beside a free place.
LEMMA Filling ==
  ASSUME NEW q, NEW st \in [Tasks -> Statuses], Listed(q, st),
         maxConcurrent' \in Nat, ProcessNext(q, st)
  PROVE  /\ Listed(queue', status')
         /\ WorkConserving'
         /\ \A t \in Tasks :
              status'[t] # st[t] =>
                st[t] = "pending" /\ status'[t] = "active" /\ Runnable(t)'
         /\ (\E t \in Tasks : status'[t] # st[t]) =>
              ~GloballyPaused' /\ Cardinality(Active') <= maxConcurrent'
<1> DEFINE running == {t \in Tasks : st[t] = "active"}
           room    == IF GloballyPaused' THEN 0 ELSE maxConcurrent' - Cardinality(running)
           may     == {t \in Tasks : Runnable(t)'}
           started == FirstOf(q, may, room)
<1>1. /\ queue' = Only(q, Tasks \ started)
      /\ status' = [t \in Tasks |-> IF t \in started THEN "active" ELSE st[t]]
  BY DEF ProcessNext
<1>2. IsFiniteSet(running) /\ Cardinality(running) \in Nat
  BY FinitelyMany
<1>3. room \in Int
  BY <1>2
<1>4. /\ started \subseteq ToSet(q) \cap may
      /\ IsFiniteSet(started) /\ Cardinality(started) \in Nat
      /\ started # {} => Cardinality(started) <= room
      /\ started = ToSet(q) \cap may \/ Cardinality(started) >= room
  <2> HIDE DEF may, room
  <2> QED BY <1>3, Started DEF Listed
<1>5. \A t \in started : t \in Tasks /\ st[t] = "pending" /\ Runnable(t)'
  BY <1>4 DEF Listed
<1> HIDE DEF started
<1>6. Listed(queue', status')
  <2>1. {t \in Tasks : status'[t] = "pending"} = ToSet(q) \cap (Tasks \ started)
    BY <1>1, <1>5 DEF Listed
  <2> QED BY <1>1, <2>1, OnlyKeeps DEF Listed
<1>7. Active' = running \cup started /\ running \cap started = {}
  BY <1>1, <1>5 DEF Active
<1>8. Cardinality(Active') = Cardinality(running) + Cardinality(started)
  <2> HIDE DEF running
  <2>1. Cardinality(running \cup started)
          = Cardinality(running) + Cardinality(started) - Cardinality(running \cap started)
    BY <1>2, <1>4, FS_Union
  <2>2. Cardinality(running \cap started) = 0
    BY <1>7, FS_EmptySet
  <2> QED BY <1>2, <1>4, <1>7, <2>1, <2>2
<1>9. \A t \in Waiting' : t \in Tasks /\ t \in ToSet(q) /\ t \notin started
  BY <1>1, <1>5 DEF Waiting, Listed
<1>10. WorkConserving'
  <2>1. CASE GloballyPaused'
    BY <2>1 DEF WorkConserving
  <2>2. CASE ~GloballyPaused' /\ started = ToSet(q) \cap may
    <3>1. \A t \in Waiting' : ~Runnable(t)'
      BY <1>9, <2>2
    <3> QED BY <3>1 DEF WorkConserving
  <2>3. CASE ~GloballyPaused' /\ Cardinality(started) >= room
    <3>1. Cardinality(Active') >= maxConcurrent'
      BY <1>2, <1>4, <1>8, <2>3
    <3> QED BY <3>1 DEF WorkConserving
  <2> QED BY <1>4, <2>1, <2>2, <2>3
<1>11. ASSUME NEW t \in Tasks, status'[t] # st[t]
       PROVE  /\ st[t] = "pending" /\ status'[t] = "active" /\ Runnable(t)'
              /\ ~GloballyPaused' /\ Cardinality(Active') <= maxConcurrent'
  <2>1. t \in started
    BY <1>1, <1>11
  <2>2. Cardinality(started) <= room /\ Cardinality(started) # 0
    BY <1>4, <2>1, FS_EmptySet
  <2>3. ~GloballyPaused' /\ Cardinality(Active') <= maxConcurrent'
    BY <1>2, <1>4, <1>8, <2>2
  <2> QED BY <1>1, <1>5, <2>1, <2>3
<1> QED BY <1>6, <1>10, <1>11

-----------------------------------------------------------------------------
(* Types, counts and starts of a whole step. *)

Whole == TypeOK /\ WorkConserving /\ TotalCovers

StartsAllowed ==
  Starts # {} =>
    /\ Cardinality(Active') <= maxConcurrent'
    /\ ~GloballyPaused'
    /\ \A t \in Starts : ~Paused(GroupOf[t])' /\ ~Cancelling(GroupOf[t])'

\* The types a scheduling does not change.
Others ==
  /\ history \in Seq(Tasks) /\ Len(history) <= MaxHistory
  /\ maxConcurrent \in 1 .. MaxLimit
  /\ userPaused \in BOOLEAN
  /\ scopePauses \subseteq Scopes /\ blockers \subseteq Blockers
  /\ timers \in [Groups -> Nat] /\ retries \in 0 .. MaxRetries

\* The new record of g counts the files it has in st.
Covers(st, g) ==
  group'[g].exists =>
    Cardinality(FilesIn(st, g)) + Settled(group'[g]) <= group'[g].expected

LEMMA WholeNow ==
  ASSUME Whole
  PROVE  /\ Shape /\ Others /\ Listed(queue, status)
         /\ aborted \cup cooling \subseteq {t \in Tasks : status[t] = "active"}
         /\ \A g \in Groups : group[g].exists =>
              Cardinality(FilesIn(status, g)) + Settled(group[g]) <= group[g].expected
<1>1. \A g \in Groups : FilesOf(g) = FilesIn(status, g)
  BY DEF FilesOf, Active, Waiting, FilesIn
<1>2. \A g \in Groups : group[g].exists =>
        Cardinality(FilesIn(status, g)) + Settled(group[g]) <= group[g].expected
  BY <1>1 DEF Whole, TotalCovers
<1> QED BY <1>2 DEF Whole, TypeOK, Shape, Others, Listed

LEMMA WholeNext ==
  ASSUME Shape', Others', Listed(queue', status'),
         aborted' \cup cooling' \subseteq {t \in Tasks : status'[t] = "active"},
         WorkConserving', \A g \in Groups : Covers(status', g)
  PROVE  Whole'
<1>1. \A g \in Groups : FilesOf(g)' = FilesIn(status', g)
  BY DEF FilesOf, Active, Waiting, FilesIn
<1>2. TotalCovers'
  BY <1>1 DEF TotalCovers, Covers, Settled
<1>3. TypeOK'
  BY DEF TypeOK, Shape, Others, Listed
<1> QED BY <1>2, <1>3 DEF Whole

\* A step that ends with a call of processNext.
LEMMA Afterwards ==
  ASSUME Shape', Others', NEW q, NEW st \in [Tasks -> Statuses], Listed(q, st),
         ProcessNext(q, st),
         aborted' \cup cooling' \subseteq {t \in Tasks : st[t] = "active"},
         \A g \in Groups : Covers(st, g),
         \A t \in Tasks : st[t] = "active" => status[t] = "active"
  PROVE  Whole' /\ StartsAllowed
<1>1. maxConcurrent' \in Nat
  BY BoundsOK DEF Others
<1>2. /\ Listed(queue', status')
      /\ WorkConserving'
      /\ \A t \in Tasks :
           status'[t] # st[t] =>
             st[t] = "pending" /\ status'[t] = "active" /\ Runnable(t)'
      /\ (\E t \in Tasks : status'[t] # st[t]) =>
           ~GloballyPaused' /\ Cardinality(Active') <= maxConcurrent'
  BY <1>1, Filling
<1>3. \A g \in Groups : FilesIn(status', g) = FilesIn(st, g)
  BY <1>2 DEF FilesIn
<1>4. \A g \in Groups : Covers(status', g)
  BY <1>3 DEF Covers
<1>5. \A t \in Tasks : st[t] = "active" => status'[t] = "active"
  BY <1>2
<1>6. Whole'
  BY <1>2, <1>4, <1>5, WholeNext
<1>7. ASSUME NEW t \in Starts
      PROVE  status'[t] # st[t] /\ ~Paused(GroupOf[t])' /\ ~Cancelling(GroupOf[t])'
  <2>1. t \in Tasks /\ status'[t] # st[t]
    BY <1>7 DEF Starts
  <2>2. Runnable(t)'
    BY <1>2, <2>1
  <2> QED BY <2>1, <2>2 DEF Runnable, Paused, Cancelling, Override
<1>8. StartsAllowed
  <2>1. \A t \in Starts : t \in Tasks
    BY DEF Starts
  <2> QED BY <1>2, <1>7, <2>1 DEF StartsAllowed
<1> QED BY <1>6, <1>8

\* A step that does not call it.
LEMMA Without ==
  ASSUME Whole, Shape', Others', Listed(queue', status'),
         aborted' \cup cooling' \subseteq {t \in Tasks : status'[t] = "active"},
         \A g \in Groups : Covers(status', g),
         \A t \in Tasks : status'[t] = "active" <=> status[t] = "active",
         maxConcurrent' = maxConcurrent,
         \/ GloballyPaused'
         \/ /\ GloballyPaused => GloballyPaused'
            /\ \A t \in Tasks : status'[t] = "pending" /\ Runnable(t)' =>
                                  status[t] = "pending" /\ Runnable(t)
         \/ \A t \in Tasks : status'[t] # "pending"
  PROVE  Whole' /\ StartsAllowed
<1>1. Active' = Active
  BY DEF Active
<1>2. WorkConserving'
  BY <1>1 DEF WorkConserving, Waiting, Whole
<1>3. Whole'
  BY <1>2, WholeNext
<1>4. Starts = {}
  BY DEF Starts
<1> QED BY <1>3, <1>4 DEF StartsAllowed

-----------------------------------------------------------------------------
(* Counting the files of a group. *)

LEMMA FilesCounted ==
  ASSUME NEW st, NEW g
  PROVE  IsFiniteSet(FilesIn(st, g)) /\ Cardinality(FilesIn(st, g)) \in Nat
BY FinitelyMany DEF FilesIn

\* A record with the same counts covers as many files or fewer.
LEMMA CoversKept ==
  ASSUME Whole, NEW g \in Groups, NEW st, FilesIn(st, g) \subseteq FilesIn(status, g),
         group'[g] \in Group,
         group'[g].exists => group[g].exists,
         Settled(group'[g]) = Settled(group[g]),
         group'[g].expected >= group[g].expected
  PROVE  Covers(st, g)
<1>1. Cardinality(FilesIn(st, g)) <= Cardinality(FilesIn(status, g))
  BY FilesCounted, FS_Subset
<1>2. /\ group[g] \in Group
      /\ group[g].exists =>
           Cardinality(FilesIn(status, g)) + Settled(group[g]) <= group[g].expected
  BY WholeNow DEF Shape
<1>3. Settled(group[g]) \in Nat /\ group[g].expected \in Nat /\ group'[g].expected \in Nat
  BY <1>2 DEF Group, Settled
<1>4. Cardinality(FilesIn(st, g)) \in Nat /\ Cardinality(FilesIn(status, g)) \in Nat
  BY FilesCounted
<1> QED BY <1>1, <1>2, <1>3, <1>4 DEF Covers

\* So does one that has counted what was taken away.
LEMMA CoversCounted ==
  ASSUME Whole, NEW g \in Groups, NEW st, NEW S \in SUBSET Tasks,
         S \subseteq FilesIn(status, g), FilesIn(st, g) = FilesIn(status, g) \ S,
         group'[g].exists => group[g].exists,
         Settled(group'[g]) = Settled(group[g]) + Cardinality(S),
         group'[g].expected = group[g].expected
  PROVE  Covers(st, g)
<1>1. IsFiniteSet(S) /\ Cardinality(S) \in Nat
  BY FinitelyMany
<1>2. FilesIn(status, g) \cap S = S
  OBVIOUS
<1>3. Cardinality(FilesIn(st, g)) = Cardinality(FilesIn(status, g)) - Cardinality(S)
  <2> DEFINE F == FilesIn(status, g)
  <2>1. IsFiniteSet(F)
    BY FilesCounted
  <2> HIDE DEF F
  <2>2. Cardinality(F \ S) = Cardinality(F) - Cardinality(F \cap S)
    BY <2>1, FS_Difference
  <2> QED BY <1>2, <2>2 DEF F
<1>4. /\ group[g] \in Group
      /\ group[g].exists =>
           Cardinality(FilesIn(status, g)) + Settled(group[g]) <= group[g].expected
  BY WholeNow DEF Shape
<1>5. Settled(group[g]) \in Nat /\ group[g].expected \in Nat
  BY <1>4 DEF Group, Settled
<1>6. Cardinality(FilesIn(status, g)) \in Nat
  BY FilesCounted
<1>7. ASSUME group'[g].exists
      PROVE  Cardinality(FilesIn(st, g)) + Settled(group'[g]) <= group'[g].expected
  <2>1. Cardinality(FilesIn(status, g)) + Settled(group[g]) <= group[g].expected
    BY <1>4, <1>7
  <2> QED BY <1>1, <1>3, <1>5, <1>6, <2>1
<1> QED BY <1>7 DEF Covers

-----------------------------------------------------------------------------
(* One lemma for each kind of step. *)

LEMMA EnqueueCounts ==
  ASSUME Whole, Inv', Others', NEW t \in Tasks, status[t] \notin {"pending", "active"},
         NEW rec \in Group, Enqueue(GroupOf[t], rec, t, status),
         aborted' \cup cooling' \subseteq Active
  PROVE  Whole' /\ StartsAllowed
<1> DEFINE h     == GroupOf[t]
           st    == [status EXCEPT ![t] = "pending"]
           known == Cardinality(FilesOf(h)) + Settled(rec) + 1
           new   == AtLeast(rec, known)
<1>0. h \in Groups /\ Shape /\ Listed(queue, status)
  BY TasksOK, WholeNow
<1>1. st \in [Tasks -> Statuses] /\ ProcessNext(Append(queue, t), st)
  BY <1>0 DEF Shape, Statuses, Enqueue
<1>2. group' = [group EXCEPT ![h] = new]
  BY DEF Enqueue
<1>3. FilesOf(h) = FilesIn(status, h)
  BY DEF FilesOf, Active, Waiting, FilesIn
<1>4. Settled(rec) \in Nat /\ Cardinality(FilesIn(status, h)) \in Nat
  BY FilesCounted DEF Settled, Group
<1>5. known = Cardinality(FilesIn(status, h)) + Settled(rec) + 1 /\ known \in Nat
  BY <1>3, <1>4
<1>6. Settled(new) = Settled(rec) /\ new.expected >= known
  <2> HIDE DEF known
  <2>1. rec.expected \in Nat /\ known \in Nat
    BY <1>5 DEF Group
  <2> QED BY <2>1 DEF AtLeast, Settled, Group
<1>7. \A g \in Groups : FilesIn(st, g) = IF g = h THEN FilesIn(status, g) \cup {t}
                                         ELSE FilesIn(status, g)
  BY <1>0 DEF FilesIn, Shape
<1>8. t \notin FilesIn(status, h) /\ t \notin ToSet(queue)
  BY <1>0 DEF FilesIn, Listed
<1>9. Listed(Append(queue, t), st)
  <2>1. {u \in Tasks : st[u] = "pending"} = {u \in Tasks : status[u] = "pending"} \cup {t}
    BY <1>0 DEF Shape
  <2> HIDE DEF st
  <2> QED BY <1>0, <1>8, <2>1, AppendKeeps DEF Listed
<1>10. /\ aborted' \cup cooling' \subseteq {u \in Tasks : st[u] = "active"}
       /\ \A u \in Tasks : st[u] = "active" => status[u] = "active"
  BY <1>0 DEF Shape, Active
<1> HIDE DEF new, known, st
<1>11. ASSUME NEW g \in Groups PROVE Covers(st, g)
  <2>1. CASE g = h
    <3>1. Cardinality(FilesIn(st, g)) = Cardinality(FilesIn(status, h)) + 1
      BY <1>7, <1>8, <2>1, FilesCounted, FS_AddElement
    <3>2. group'[g] = new
      BY <1>0, <1>2, <2>1 DEF Shape
    <3>3. new.expected \in Nat
      BY <3>2 DEF Inv, Shape, Group
    <3> QED BY <1>4, <1>5, <1>6, <3>1, <3>2, <3>3 DEF Covers
  <2>2. CASE g # h
    <3>1. group'[g] = group[g] /\ group[g] \in Group /\ FilesIn(st, g) = FilesIn(status, g)
      BY <1>0, <1>2, <1>7, <2>2 DEF Shape
    <3>2. group[g].expected >= group[g].expected
      BY <3>1 DEF Group
    <3> QED BY <3>1, <3>2, CoversKept
  <2> QED BY <2>1, <2>2
<1>12. Shape'
  BY DEF Inv
<1> QED BY <1>1, <1>9, <1>10, <1>11, <1>12, Afterwards

\* Steps that leave the counts alone and then schedule what waited before.
LEMMA ScheduleCounts ==
  ASSUME Whole, Inv', Others', NEW q, Listed(q, status), ProcessNext(q, status),
         UNCHANGED <<aborted, cooling>>,
         \A g \in Groups :
           /\ group'[g].exists = group[g].exists
           /\ Settled(group'[g]) = Settled(group[g])
           /\ group'[g].expected = group[g].expected
  PROVE  Whole' /\ StartsAllowed
<1>1. Shape /\ Shape' /\ aborted \cup cooling \subseteq {t \in Tasks : status[t] = "active"}
  BY WholeNow DEF Inv
<1>2. ASSUME NEW g \in Groups PROVE Covers(status, g)
  <2>1. group'[g] \in Group /\ group'[g].expected >= group[g].expected
    BY <1>1 DEF Shape, Group
  <2> QED BY <2>1, CoversKept
<1> QED BY <1>1, <1>2, Afterwards DEF Shape

LEMMA OverrideCounts ==
  ASSUME Whole, Inv', Others', NEW h \in Groups, NEW o,
         group' = [group EXCEPT ![h].override = o], UNCHANGED <<aborted, cooling>>,
         ProcessNext(queue, status)
  PROVE  Whole' /\ StartsAllowed
<1>1. Shape /\ Listed(queue, status)
  BY WholeNow
<1>2. \A g \in Groups :
        /\ group'[g].exists = group[g].exists
        /\ Settled(group'[g]) = Settled(group[g])
        /\ group'[g].expected = group[g].expected
  BY <1>1 DEF Shape, Group, Settled
<1> QED BY <1>1, <1>2, ScheduleCounts

LEMMA FinishCounts ==
  ASSUME Whole, Inv', NEW t \in Tasks, Finish(t)
  PROVE  Whole' /\ StartsAllowed
<1> DEFINE h    == GroupOf[t]
           o    == AfterFinish(Override(h), ActiveOf(h) # {t},
                               \E u \in Waiting : GroupOf[u] = h)
<1>1. PICK outcome \in Outcomes(t) :
        /\ group' = [group EXCEPT ![h] = [Counted(group[h], outcome) EXCEPT !.override = o]]
        /\ ProcessNext(queue, [status EXCEPT ![t] = outcome])
  BY DEF Finish
<1> DEFINE st  == [status EXCEPT ![t] = outcome]
           rec == [Counted(group[h], outcome) EXCEPT !.override = o]
<1>2. /\ h \in Groups /\ group[h] \in Group /\ Shape /\ Shape' /\ Listed(queue, status)
      /\ aborted \cup cooling \subseteq {u \in Tasks : status[u] = "active"}
      /\ Others /\ status[t] = "active"
      /\ outcome \in {"success", "failed", "cancelled"}
  BY TasksOK, WholeNow DEF Inv, Shape, Finish, Outcomes
<1>3. Others'
  <2>1. <<t>> \in Seq(Tasks)
    OBVIOUS
  <2> QED BY <1>2, <2>1, PushKeeps DEF Others, Finish, pauses, bounds
<1>4. st \in [Tasks -> Statuses]
  BY <1>2 DEF Shape, Statuses
<1>5. Listed(queue, st)
  BY <1>2 DEF Listed, Shape
<1>6. /\ aborted' \cup cooling' \subseteq {u \in Tasks : st[u] = "active"}
      /\ \A u \in Tasks : st[u] = "active" => status[u] = "active"
  BY <1>2 DEF Finish, Shape
<1>7. FilesIn(st, h) = FilesIn(status, h) \ {t} /\ {t} \subseteq FilesIn(status, h)
  BY <1>2 DEF FilesIn, Shape
<1>8. \A g \in Groups : g # h => FilesIn(st, g) = FilesIn(status, g)
  BY <1>2 DEF FilesIn, Shape
<1>9. /\ Settled(rec) = Settled(group[h]) + 1 /\ rec.exists = group[h].exists
      /\ rec.expected = group[h].expected
  <2> HIDE DEF o
  <2> QED BY <1>2 DEF Counted, Settled, Group
<1> HIDE DEF rec, st, o
<1>10. ASSUME NEW g \in Groups PROVE Covers(st, g)
  <2>1. CASE g = h
    <3>1. group'[g] = rec
      BY <1>1, <1>2, <2>1 DEF Shape, rec
    <3>2. {t} \in SUBSET Tasks /\ Cardinality({t}) = 1
      BY FS_Singleton
    <3> HIDE DEF h
    <3> QED BY <1>7, <1>9, <2>1, <3>1, <3>2, CoversCounted
  <2>2. CASE g # h
    <3>1. group'[g] = group[g] /\ group[g] \in Group
      BY <1>1, <1>2, <2>2 DEF Shape
    <3>2. group[g].expected >= group[g].expected
      BY <3>1 DEF Group
    <3> QED BY <1>8, <2>2, <3>1, <3>2, CoversKept
  <2> QED BY <2>1, <2>2
<1>11. ProcessNext(queue, st)
  BY <1>1 DEF st
<1> QED BY <1>2, <1>3, <1>4, <1>5, <1>6, <1>10, <1>11, Afterwards

LEMMA CancelCovers ==
  ASSUME Inv, Whole, NEW g \in Groups, NEW S \in SUBSET Waiting,
         group'[g] \in {CountCancelled(g, S), CancelledGroup(g, S)}
  PROVE  Covers(CancelPending(S), g)
<1> DEFINE mine == {t \in S : GroupOf[t] = g}
           n    == Cardinality(mine)
<1>1. mine \in SUBSET Tasks /\ mine \subseteq FilesIn(status, g)
  BY DEF Waiting, FilesIn
<1>2. FilesIn(CancelPending(S), g) = FilesIn(status, g) \ mine
  <2>1. FilesIn(CancelPending(S), g) = FilesIn(status, g) \ S
    BY PendingCancelled
  <2> QED BY <2>1 DEF FilesIn
<1>3. n \in Nat /\ group[g] \in Group
  BY <1>1, FinitelyMany, WholeNow DEF Shape
<1>4. CountCancelled(g, S) = [group[g] EXCEPT !.done = @ + n]
  BY DEF CountCancelled
<1> HIDE DEF n, mine
<1>5. /\ CountCancelled(g, S) \in Group
      /\ Settled(CountCancelled(g, S)) = Settled(group[g]) + n
      /\ CountCancelled(g, S).exists = group[g].exists
      /\ CountCancelled(g, S).expected = group[g].expected
  BY <1>3, <1>4 DEF Settled, Group
<1>6. /\ Settled(CancelledGroup(g, S)) = Settled(group[g]) + n
      /\ CancelledGroup(g, S).exists = group[g].exists
      /\ CancelledGroup(g, S).expected = group[g].expected
  BY <1>5 DEF CancelledGroup, Settled, Group
<1>7. /\ group'[g].exists => group[g].exists
      /\ Settled(group'[g]) = Settled(group[g]) + Cardinality(mine)
      /\ group'[g].expected = group[g].expected
  <2>1. CASE group'[g] = CountCancelled(g, S)
    BY <1>5, <2>1 DEF n
  <2>2. CASE group'[g] = CancelledGroup(g, S)
    BY <1>6, <2>2 DEF n
  <2> QED BY <2>1, <2>2
<1> QED BY <1>1, <1>2, <1>7, CoversCounted

\* The pending files of S leave the queue for the history.
LEMMA Leaving ==
  ASSUME Inv, Whole, NEW S \in SUBSET Waiting
  PROVE  /\ CancelPending(S) \in [Tasks -> Statuses]
         /\ Listed(Dequeued(S), CancelPending(S))
         /\ Push(history, Removed(S)) \in Seq(Tasks)
         /\ Len(Push(history, Removed(S))) <= MaxHistory
         /\ {t \in Tasks : CancelPending(S)[t] = "active"} = Active
<1>1. Shape /\ Listed(queue, status) /\ Others
  BY WholeNow
<1>2. CancelPending(S) \in [Tasks -> Statuses]
  BY PendingCancelled
<1>3. {t \in Tasks : CancelPending(S)[t] = "pending"} = ToSet(queue) \cap (Tasks \ S)
  BY <1>1 DEF CancelPending, Listed
<1>4. {t \in Tasks : CancelPending(S)[t] = "active"} = Active
  BY <1>1 DEF CancelPending, Active, Waiting
<1>5. Removed(S) \in Seq(Tasks)
  BY <1>1, OnlyKeeps DEF Removed, Listed
<1>6. Listed(Dequeued(S), CancelPending(S))
  BY <1>1, <1>3, OnlyKeeps DEF Dequeued, Listed
<1> QED BY <1>1, <1>2, <1>4, <1>5, <1>6, PushKeeps DEF Others

LEMMA CancelGroupsCounts ==
  ASSUME Inv, Whole, Inv', NEW C \in SUBSET Groups, NEW F \in SUBSET Groups,
         CancelGroups(C, F), UNCHANGED <<userPaused, blockers, bounds, cooldown>>,
         scopePauses' \subseteq scopePauses
  PROVE  Whole' /\ StartsAllowed
<1> DEFINE S == {t \in Waiting : GroupOf[t] \in C}
<1>1. /\ group' = [g \in Groups |->
           IF g \in C THEN CancelledGroup(g, S)
           ELSE IF g \in F THEN Forgotten(g) ELSE group[g]]
      /\ aborted' = aborted \cup {t \in Active : GroupOf[t] \in C}
      /\ history' = Push(history, Removed(S))
      /\ ProcessNext(Dequeued(S), CancelPending(S))
  BY DEF CancelGroups
<1>2. S \in SUBSET Waiting
  OBVIOUS
<1> HIDE DEF S
<1> DEFINE st == CancelPending(S)
<1>3. /\ st \in [Tasks -> Statuses] /\ Listed(Dequeued(S), st)
      /\ history' \in Seq(Tasks) /\ Len(history') <= MaxHistory
      /\ {t \in Tasks : st[t] = "active"} = Active
  BY <1>1, <1>2, Leaving
<1>4. /\ Others /\ Shape /\ Shape'
      /\ aborted \cup cooling \subseteq {t \in Tasks : status[t] = "active"}
  BY WholeNow DEF Inv
<1>5. Others'
  BY <1>3, <1>4 DEF Others, bounds, cooldown
<1>6. /\ aborted' \cup cooling' \subseteq {t \in Tasks : st[t] = "active"}
      /\ \A t \in Tasks : st[t] = "active" => status[t] = "active"
  BY <1>1, <1>3, <1>4 DEF Active, cooldown
<1>7. ASSUME NEW g \in Groups PROVE Covers(st, g)
  <2>1. CASE g \in C
    BY <1>1, <1>2, <2>1, CancelCovers
  <2>2. CASE group'[g] = group[g]
    <3>1. FilesIn(st, g) \subseteq FilesIn(status, g)
      BY <1>2, PendingCancelled
    <3>2. group[g] \in Group /\ group[g].expected >= group[g].expected
      BY <1>4 DEF Shape, Group
    <3> QED BY <2>2, <3>1, <3>2, CoversKept
  <2>3. CASE group'[g] = NoGroup
    BY <2>3 DEF Covers, NoGroup
  <2> QED BY <1>1, <2>1, <2>2, <2>3 DEF Forgotten
<1> HIDE DEF st
<1> QED BY <1>1, <1>3, <1>4, <1>5, <1>6, <1>7, Afterwards DEF st

LEMMA CancelFileCounts ==
  ASSUME Inv, Whole, Inv', NEW t \in Tasks, CancelFile(t)
  PROVE  Whole' /\ StartsAllowed
<1> DEFINE S == {t} \cap Waiting
           h == GroupOf[t]
<1>1. /\ group' = [group EXCEPT ![h] = CountCancelled(h, S)]
      /\ aborted' = aborted \cup ({t} \cap Active)
      /\ history' = Push(history, Removed(S))
      /\ ProcessNext(Dequeued(S), CancelPending(S))
      /\ UNCHANGED <<userPaused, scopePauses, blockers, maxConcurrent, retries,
                     cooling, timers>>
  BY DEF CancelFile, pauses, bounds, cooldown
<1>2. S \in SUBSET Waiting /\ \A u \in S : GroupOf[u] = h
  OBVIOUS
<1> HIDE DEF S
<1> DEFINE st == CancelPending(S)
<1>3. /\ st \in [Tasks -> Statuses] /\ Listed(Dequeued(S), st)
      /\ history' \in Seq(Tasks) /\ Len(history') <= MaxHistory
      /\ {u \in Tasks : st[u] = "active"} = Active
  BY <1>1, <1>2, Leaving
<1>4. /\ Others /\ Shape /\ Shape'
      /\ aborted \cup cooling \subseteq {u \in Tasks : status[u] = "active"}
  BY WholeNow DEF Inv
<1>5. Others'
  BY <1>1, <1>3, <1>4 DEF Others
<1>6. /\ aborted' \cup cooling' \subseteq {u \in Tasks : st[u] = "active"}
      /\ \A u \in Tasks : st[u] = "active" => status[u] = "active"
  BY <1>1, <1>3, <1>4 DEF Active
<1>7. ASSUME NEW g \in Groups PROVE Covers(st, g)
  <2>1. CASE g = h
    BY <1>1, <1>2, <1>4, <2>1, CancelCovers DEF Shape
  <2>2. CASE g # h
    <3>1. FilesIn(st, g) \subseteq FilesIn(status, g)
      BY <1>2, PendingCancelled
    <3>2. group'[g] = group[g] /\ group[g] \in Group /\ group[g].expected >= group[g].expected
      BY <1>1, <1>4, <2>2 DEF Shape, Group
    <3> QED BY <3>1, <3>2, CoversKept
  <2> QED BY <2>1, <2>2
<1> HIDE DEF st
<1> QED BY <1>1, <1>3, <1>4, <1>5, <1>6, <1>7, Afterwards DEF st

LEMMA ForceStopCounts ==
  ASSUME Inv, Whole, Inv', ForceStopAll
  PROVE  Whole' /\ StartsAllowed
<1>1. /\ group' = [g \in Groups |->
           IF FilesOf(g) = {} THEN group[g] ELSE CancelledGroup(g, Waiting)]
      /\ status' = CancelPending(Waiting)
      /\ queue' = <<>> /\ history' = Push(history, queue) /\ aborted' = Active
      /\ UNCHANGED <<userPaused, scopePauses, blockers, maxConcurrent, retries,
                     cooling, timers>>
  BY DEF ForceStopAll, pauses, bounds, cooldown
<1>2. /\ Others /\ Shape /\ Shape' /\ Listed(queue, status)
      /\ aborted \cup cooling \subseteq {t \in Tasks : status[t] = "active"}
  BY WholeNow DEF Inv
<1>3. Others'
  BY <1>1, <1>2, PushKeeps DEF Others, Listed
<1>4. Waiting \in SUBSET Waiting /\ {t \in Tasks : status'[t] = "active"} = Active
  BY <1>1, Leaving
<1>5. aborted' \cup cooling' \subseteq {t \in Tasks : status'[t] = "active"}
  BY <1>1, <1>2, <1>4 DEF Active
<1>6. \A t \in Tasks : status'[t] # "pending"
  BY <1>1 DEF CancelPending, Waiting
<1>7. Listed(queue', status')
  BY <1>1, <1>6 DEF Listed, ToSet, IsInjective
<1>8. ASSUME NEW g \in Groups PROVE Covers(status', g)
  <2>1. CASE FilesOf(g) # {}
    BY <1>1, <1>4, <2>1, CancelCovers
  <2>2. CASE FilesOf(g) = {}
    <3>1. FilesIn(status', g) \subseteq FilesIn(status, g)
      BY <1>1, <1>4, PendingCancelled
    <3>2. group'[g] = group[g] /\ group[g] \in Group /\ group[g].expected >= group[g].expected
      BY <1>1, <1>2, <2>2 DEF Shape, Group
    <3> QED BY <3>1, <3>2, CoversKept
  <2> QED BY <2>1, <2>2
<1>9. \A t \in Tasks : status'[t] = "active" <=> status[t] = "active"
  BY <1>4 DEF Active
<1> QED BY <1>1, <1>2, <1>3, <1>5, <1>6, <1>7, <1>8, <1>9, Without

\* Steps that leave the files alone: nothing can become runnable but what has no
\* files, or the whole queue is paused or empty.
LEMMA StillCounts ==
  ASSUME Inv, Whole, Inv', Others',
         UNCHANGED <<status, queue, aborted, cooling, maxConcurrent>>,
         \A g \in Groups :
           \/ group'[g] = group[g]
           \/ ~group'[g].exists
           \/ /\ group'[g].override = group[g].override
              /\ group'[g].exists = group[g].exists
              /\ Settled(group'[g]) = Settled(group[g])
              /\ group'[g].expected >= group[g].expected
           \/ FilesIn(status, g) = {} /\ Settled(group'[g]) = 0,
         \/ GloballyPaused'
         \/ (GloballyPaused => GloballyPaused') /\ scopePauses \subseteq scopePauses'
         \/ Waiting = {}
  PROVE  Whole' /\ StartsAllowed
<1>1. /\ Shape /\ Shape' /\ Listed(queue', status')
      /\ aborted' \cup cooling' \subseteq {t \in Tasks : status'[t] = "active"}
  BY WholeNow DEF Inv
<1>2. \A g \in Groups : group[g] \in Group /\ group'[g] \in Group
  BY <1>1 DEF Shape
<1>3. ASSUME NEW g \in Groups PROVE Covers(status, g)
  <2>0. group'[g].expected \in Nat /\ group[g].expected \in Nat
    BY <1>2 DEF Group
  <2>1. CASE ~group'[g].exists
    BY <2>1 DEF Covers
  <2>2. CASE group'[g] = group[g]
    BY <2>0, <2>2, <1>2, CoversKept
  <2>3. CASE /\ group'[g].exists = group[g].exists
             /\ Settled(group'[g]) = Settled(group[g])
             /\ group'[g].expected >= group[g].expected
    BY <2>3, <1>2, CoversKept
  <2>4. CASE FilesIn(status, g) = {} /\ Settled(group'[g]) = 0
    BY <2>0, <2>4, FS_EmptySet DEF Covers
  <2> QED BY <2>1, <2>2, <2>3, <2>4
<1>4. ASSUME scopePauses \subseteq scopePauses',
             NEW t \in Tasks, status[t] = "pending", Runnable(t)'
      PROVE  Runnable(t)
  <2> DEFINE g == GroupOf[t]
  <2>1. g \in Groups /\ t \in FilesIn(status, g)
    BY <1>4, TasksOK DEF FilesIn
  <2>2. group'[g].exists /\ group'[g].override = "none" /\ ~ScopePaused(g)'
    BY <1>4 DEF Runnable, Override
  <2>3. ~ScopePaused(g)
    BY <1>4, <2>2 DEF ScopePaused
  <2>4. group[g].exists /\ group[g].override = "none"
    BY <2>1, <2>2
  <2> QED BY <2>3, <2>4 DEF Runnable, Override
<1>5. \/ GloballyPaused'
      \/ /\ GloballyPaused => GloballyPaused'
         /\ \A t \in Tasks : status'[t] = "pending" /\ Runnable(t)' =>
                               status[t] = "pending" /\ Runnable(t)
      \/ \A t \in Tasks : status'[t] # "pending"
  <2>1. CASE GloballyPaused'
    BY <2>1
  <2>2. CASE (GloballyPaused => GloballyPaused') /\ scopePauses \subseteq scopePauses'
    BY <2>2, <1>4
  <2>3. CASE Waiting = {}
    BY <2>3 DEF Waiting
  <2> QED BY <2>1, <2>2, <2>3
<1> QED BY <1>1, <1>3, <1>5, Without

LEMMA EnsureCounts ==
  ASSUME Inv, Whole, Inv', NEW h \in Groups, NEW n \in Announced, EnsureGroup(h, n)
  PROVE  Whole' /\ StartsAllowed
<1>1. /\ userPaused' = (userPaused /\ Active \cup Waiting # {})
      /\ group' = [group EXCEPT ![h] =
           IF Controllable(h) THEN AtLeast(group[h], n) ELSE FreshGroup(n)]
      /\ UNCHANGED <<status, queue, aborted, history, scopePauses, blockers,
                     cooling, timers, maxConcurrent, retries>>
  BY DEF EnsureGroup, cooldown, bounds
<1>2. Shape /\ Others /\ n \in Nat
  BY WholeNow, BoundsOK
<1>3. Others'
  BY <1>1, <1>2 DEF Others
<1>4. ASSUME NEW g \in Groups, g # h PROVE group'[g] = group[g]
  BY <1>1, <1>2, <1>4 DEF Shape
<1>5. CASE Controllable(h)
  <2>1. group'[h] = AtLeast(group[h], n) /\ group[h] \in Group
    BY <1>1, <1>2, <1>5 DEF Shape
  <2>2. group[h].expected \in Nat
    BY <2>1 DEF Group
  <2>3. /\ group'[h].override = group[h].override
        /\ group'[h].exists = group[h].exists
        /\ Settled(group'[h]) = Settled(group[h])
        /\ group'[h].expected >= group[h].expected
    BY <1>2, <2>1, <2>2 DEF AtLeast, Settled, Group
  <2>4. \/ (GloballyPaused => GloballyPaused') /\ scopePauses \subseteq scopePauses'
        \/ Waiting = {}
    BY <1>1 DEF GloballyPaused
  <2> QED BY <1>1, <1>3, <1>4, <2>3, <2>4, StillCounts
<1>6. CASE ~Controllable(h)
  <2>1. group'[h] = FreshGroup(n)
    BY <1>1, <1>2, <1>6 DEF Shape
  <2>2. Settled(group'[h]) = 0
    BY <2>1 DEF FreshGroup, NoGroup, Settled
  <2>3. FilesIn(status, h) = {}
    <3>1. FilesOf(h) = FilesIn(status, h) /\ Now(h)
      BY InvNow DEF FilesOf, Active, Waiting, FilesIn
    <3> QED BY <1>6, <3>1 DEF Controllable, Terminal, Completed, Now
  <2>4. \/ (GloballyPaused => GloballyPaused') /\ scopePauses \subseteq scopePauses'
        \/ Waiting = {}
    BY <1>1 DEF GloballyPaused
  <2> QED BY <1>1, <1>3, <1>4, <2>2, <2>3, <2>4, StillCounts
<1> QED BY <1>5, <1>6

\* A finished group is forgotten, or nothing is.
LEMMA ForgetCounts ==
  ASSUME Inv, Whole, Inv', NEW h \in Groups,
         group' = [group EXCEPT ![h] = Forgotten(h)] \/ group' = group,
         UNCHANGED <<status, queue, aborted, cooling, history, pauses, bounds>>,
         timers' \in [Groups -> Nat]
  PROVE  Whole' /\ StartsAllowed
<1>1. Shape /\ Others
  BY WholeNow
<1>2. Others'
  BY <1>1 DEF Others, pauses, bounds
<1>3. \A g \in Groups : group'[g] = group[g] \/ ~group'[g].exists
  BY <1>1 DEF Shape, Forgotten, NoGroup
<1>4. UNCHANGED <<status, queue, aborted, cooling, maxConcurrent>>
  BY DEF bounds
<1>5. (GloballyPaused => GloballyPaused') /\ scopePauses \subseteq scopePauses'
  BY DEF pauses, GloballyPaused
<1> QED BY <1>2, <1>3, <1>4, <1>5, StillCounts

LEMMA RefuseCounts ==
  ASSUME Inv, Whole, Inv', NEW t \in Tasks, AddRefused(t)
  PROVE  Whole' /\ StartsAllowed
<1>1. /\ status[t] = "new" /\ status' = [status EXCEPT ![t] = "refused"]
      /\ UNCHANGED <<group, queue, aborted, history, userPaused, scopePauses,
                     blockers, cooling, timers, maxConcurrent, retries>>
  BY DEF AddRefused, pauses, cooldown, bounds
<1>2. /\ Others /\ Shape /\ Shape' /\ Listed(queue, status)
      /\ aborted \cup cooling \subseteq {u \in Tasks : status[u] = "active"}
  BY WholeNow DEF Inv
<1>3. \A u \in Tasks : /\ status'[u] = "active" <=> status[u] = "active"
                       /\ status'[u] = "pending" <=> status[u] = "pending"
  BY <1>1, <1>2 DEF Shape
<1>4. Others' /\ Listed(queue', status')
  BY <1>1, <1>2, <1>3 DEF Others, Listed
<1>5. aborted' \cup cooling' \subseteq {u \in Tasks : status'[u] = "active"}
  BY <1>1, <1>2, <1>3
<1>6. ASSUME NEW g \in Groups PROVE Covers(status', g)
  <2>1. FilesIn(status', g) \subseteq FilesIn(status, g)
    BY <1>3, <1>2 DEF FilesIn, Shape
  <2>2. group'[g] = group[g] /\ group[g] \in Group /\ group[g].expected >= group[g].expected
    BY <1>1, <1>2 DEF Shape, Group
  <2> QED BY <2>1, <2>2, CoversKept
<1>7. \A u \in Tasks : Runnable(u)' <=> Runnable(u)
  BY <1>1 DEF Runnable, Override, ScopePaused
<1>8. GloballyPaused => GloballyPaused'
  BY <1>1 DEF GloballyPaused
<1> QED BY <1>1, <1>2, <1>3, <1>4, <1>5, <1>6, <1>7, <1>8, Without

LEMMA PauseCounts ==
  ASSUME Inv, Whole, Inv',
         UNCHANGED <<group, status, queue, aborted, history, cooldown, bounds>>,
         scopePauses' \subseteq Scopes, scopePauses \subseteq scopePauses',
         blockers' \subseteq Blockers, blockers \subseteq blockers',
         userPaused' \in BOOLEAN, userPaused => userPaused'
  PROVE  Whole' /\ StartsAllowed
<1>1. Others
  BY WholeNow
<1>2. Others'
  BY <1>1 DEF Others, cooldown, bounds
<1>3. UNCHANGED <<status, queue, aborted, cooling, maxConcurrent>>
  BY DEF bounds, cooldown
<1>4. GloballyPaused => GloballyPaused'
  BY DEF GloballyPaused
<1> QED BY <1>2, <1>3, <1>4, StillCounts

LEMMA AddCounts ==
  ASSUME Inv, Whole, Inv', NEW t \in Tasks,
         Add(t) \/ RetryFailed(t) \/ \E u \in Tasks : CooldownRequeue(u, t)
  PROVE  Whole' /\ StartsAllowed
<1>1. /\ Others /\ Shape /\ GroupOf[t] \in Groups /\ group[GroupOf[t]] \in Group
      /\ aborted \cup cooling \subseteq Active
  BY TasksOK, WholeNow DEF Shape, Active
<1>2. CASE Add(t)
  <2>1. Others'
    BY <1>1, <1>2 DEF Others, Add, pauses, bounds, cooldown
  <2>2. aborted' \cup cooling' \subseteq Active
    BY <1>1, <1>2 DEF Add, cooldown
  <2> QED BY <1>1, <1>2, <2>1, <2>2, EnqueueCounts DEF Add
<1>3. CASE RetryFailed(t)
  <2>1. Others'
    <3>1. history' \in Seq(Tasks) /\ Len(history') <= Len(history)
      BY <1>1, <1>3, OnlyKeeps DEF RetryFailed, Others
    <3>2. Len(history') <= MaxHistory
      BY <1>1, <3>1, BoundsOK DEF Others
    <3>3. retries' \in 0 .. MaxRetries
      BY <1>1, <1>3, BoundsOK DEF Others, RetryFailed
    <3> QED BY <1>1, <1>3, <3>1, <3>2, <3>3 DEF Others, RetryFailed, pauses, cooldown
  <2>2. aborted' \cup cooling' \subseteq Active
    BY <1>1, <1>3 DEF RetryFailed, cooldown
  <2>3. OneFailureLess(group[GroupOf[t]]) \in Group
    BY <1>1 DEF OneFailureLess, Group
  <2> QED BY <1>1, <1>3, <2>1, <2>2, <2>3, EnqueueCounts DEF RetryFailed
<1>4. CASE \E u \in Tasks : CooldownRequeue(u, t)
  <2>1. PICK u \in Tasks : CooldownRequeue(u, t)
    BY <1>4
  <2> DEFINE g   == GroupOf[t]
             rec == IF Paused(g) THEN group[g]
                    ELSE [group[g] EXCEPT !.override = PauseOverride(g)]
  <2>2. rec \in Group
    BY <1>1 DEF PauseOverride, Group, Overrides
  <2>3. /\ Enqueue(g, rec, t, status) /\ status[t] = "new" /\ u \in Active
        /\ aborted' = aborted /\ cooling' = cooling \cup {u}
    BY <2>1 DEF CooldownRequeue
  <2>4. Others'
    <3>1. GroupOf[u] = g
      BY <2>1 DEF CooldownRequeue
    <3> QED BY <1>1, <2>1, <3>1 DEF Others, CooldownRequeue, pauses, bounds
  <2>5. aborted' \cup cooling' \subseteq Active
    BY <1>1, <2>3
  <2> HIDE DEF rec
  <2> QED BY <2>2, <2>3, <2>4, <2>5, EnqueueCounts
<1> QED BY <1>2, <1>3, <1>4

LEMMA PrioritizeCounts ==
  ASSUME Inv, Whole, Inv', NEW g \in Groups, PrioritizeGroup(g)
  PROVE  Whole' /\ StartsAllowed
<1> DEFINE mine == Only(queue, Members(g))
           rest == Only(queue, Tasks \ Members(g))
<1>1. Others /\ Listed(queue, status)
  BY WholeNow
<1>2. /\ mine \in Seq(Tasks) /\ ToSet(mine) = ToSet(queue) \cap Members(g)
      /\ rest \in Seq(Tasks) /\ ToSet(rest) = ToSet(queue) \cap (Tasks \ Members(g))
      /\ IsInjective(mine) /\ IsInjective(rest)
  BY <1>1, OnlyKeeps DEF Listed
<1> HIDE DEF mine, rest
<1>3. ToSet(queue) \subseteq Tasks
  BY <1>1 DEF Listed
<1>4. ToSet(mine) \cap ToSet(rest) = {} /\ ToSet(mine) \cup ToSet(rest) = ToSet(queue)
  BY <1>2, <1>3
<1>5. Listed(mine \o rest, status)
  BY <1>1, <1>2, <1>4, ConcatKeeps DEF Listed
<1>6. Others' /\ UNCHANGED <<group, aborted, cooling>>
  BY <1>1 DEF Others, PrioritizeGroup, pauses, bounds, cooldown
<1>7. ProcessNext(mine \o rest, status)
  BY DEF PrioritizeGroup, mine, rest
<1> QED BY <1>5, <1>6, <1>7, ScheduleCounts

LEMMA CommandCounts ==
  ASSUME Inv, Whole, Inv', NEW g \in Groups, Command(g) \/ TimerResumes(g) \/ TimerIsLate(g)
  PROVE  Whole' /\ StartsAllowed
<1>0. Others
  BY WholeNow
<1>1. CASE \E n \in Announced : EnsureGroup(g, n)
  BY <1>1, EnsureCounts
<1>2. CASE ControlTerminal(g)
  <2>1. timers' \in [Groups -> Nat]
    BY <1>0, <1>2 DEF Others, ControlTerminal, cooldown
  <2> QED BY <1>2, <2>1, ForgetCounts DEF ControlTerminal, cooldown
<1>3. CASE PrioritizeGroup(g)
  BY <1>3, PrioritizeCounts
<1>4. CASE PauseGroup(g)
  <2>1. Others' /\ UNCHANGED <<aborted, cooling>>
    BY <1>0, <1>4 DEF Others, PauseGroup, pauses, bounds, cooldown
  <2> QED BY <1>4, <2>1, OverrideCounts DEF PauseGroup
<1>5. CASE ResumeGroup(g)
  <2>1. Others' /\ UNCHANGED <<aborted, cooling>>
    BY <1>0, <1>5 DEF Others, ResumeGroup, Resume, pauses, bounds, cooldown
  <2> QED BY <1>5, <2>1, OverrideCounts DEF ResumeGroup, Resume
<1>6. CASE TimerResumes(g)
  <2>1. timers' \in [Groups -> Nat]
    BY <1>0, <1>6 DEF Others, TimerResumes
  <2>2. Others' /\ UNCHANGED <<aborted, cooling>>
    BY <1>0, <1>6, <2>1 DEF Others, TimerResumes, Resume, pauses, bounds
  <2> QED BY <1>6, <2>2, OverrideCounts DEF TimerResumes, Resume
<1>7. CASE CancelGroup(g)
  BY <1>7, CancelGroupsCounts DEF CancelGroup, pauses
<1>8. CASE TimerIsLate(g)
  <2>1. timers' \in [Groups -> Nat]
    BY <1>0, <1>8 DEF Others, TimerIsLate
  <2> QED BY <1>8, <2>1, ForgetCounts DEF TimerIsLate
<1> QED BY <1>1, <1>2, <1>3, <1>4, <1>5, <1>6, <1>7, <1>8 DEF Command

LEMMA ScopedCounts ==
  ASSUME Inv, Whole, Inv', NEW p \in Scopes, Scoped(p)
  PROVE  Whole' /\ StartsAllowed
<1>0. Others /\ Listed(queue, status)
  BY WholeNow
<1>1. CASE PauseScope(p)
  <2>1. scopePauses' \subseteq Scopes /\ scopePauses \subseteq scopePauses'
    BY <1>0, <1>1 DEF Others, PauseScope
  <2>2. userPaused \in BOOLEAN /\ blockers \subseteq Blockers
    BY <1>0 DEF Others
  <2> QED BY <1>1, <2>1, <2>2, PauseCounts DEF PauseScope
<1>2. CASE ResumeScope(p)
  <2>1. Others' /\ UNCHANGED <<group, aborted, cooling>>
    BY <1>0, <1>2 DEF Others, ResumeScope, bounds, cooldown
  <2> QED BY <1>0, <1>2, <2>1, ScheduleCounts DEF ResumeScope
<1>3. CASE CancelScope(p)
  <2> DEFINE C == {g \in p : Controllable(g) /\ Override(g) # "cancelling"}
  <2> DEFINE F == {g \in p : group[g].exists /\ Terminal(g)}
  <2>1. C \in SUBSET Groups /\ F \in SUBSET Groups
    BY TasksOK
  <2>2. /\ CancelGroups(C, F) /\ scopePauses' \subseteq scopePauses
        /\ UNCHANGED <<userPaused, blockers, bounds, cooldown>>
    BY <1>3 DEF CancelScope
  <2> HIDE DEF C, F
  <2> QED BY <2>1, <2>2, CancelGroupsCounts
<1> QED BY <1>1, <1>2, <1>3 DEF Scoped

LEMMA QueueCounts ==
  ASSUME Inv, Whole, Inv', Queue
  PROVE  Whole' /\ StartsAllowed
<1>0. Others /\ Listed(queue, status)
  BY WholeNow
<1>1. CASE ForceStopAll
  BY <1>1, ForceStopCounts
<1>2. CASE PauseAll
  BY <1>0, <1>2, PauseCounts DEF PauseAll, Others
<1>3. CASE ResumeAll
  <2>1. Others' /\ UNCHANGED <<group, aborted, cooling>>
    BY <1>0, <1>3 DEF Others, ResumeAll, bounds, cooldown
  <2> QED BY <1>0, <1>3, <2>1, ScheduleCounts DEF ResumeAll
<1>4. ASSUME NEW n \in 1 .. MaxLimit, SetMaxConcurrent(n)
      PROVE  Whole' /\ StartsAllowed
  <2>1. Others' /\ UNCHANGED <<group, aborted, cooling>>
    BY <1>0, <1>4 DEF Others, SetMaxConcurrent, pauses, cooldown
  <2> QED BY <1>0, <1>4, <2>1, ScheduleCounts DEF SetMaxConcurrent
<1>5. ASSUME NEW b \in Blockers, AcquireDiskPressureBlocker(b)
      PROVE  Whole' /\ StartsAllowed
  BY <1>0, <1>5, PauseCounts DEF AcquireDiskPressureBlocker, Others
<1>6. ASSUME NEW b \in Blockers, ReleaseDiskPressureBlocker(b)
      PROVE  Whole' /\ StartsAllowed
  <2>1. Others' /\ UNCHANGED <<group, aborted, cooling>>
    BY <1>0, <1>6 DEF Others, ReleaseDiskPressureBlocker, bounds, cooldown
  <2> QED BY <1>0, <1>6, <2>1, ScheduleCounts DEF ReleaseDiskPressureBlocker
<1> QED BY <1>1, <1>2, <1>3, <1>4, <1>5, <1>6 DEF Queue

LEMMA NextCounts ==
  ASSUME Inv, Whole, Next
  PROVE  Whole' /\ StartsAllowed
<1>1. Inv'
  BY Step
<1>2. ASSUME NEW t \in Tasks, File(t) \/ Finish(t)
      PROVE  Whole' /\ StartsAllowed
  BY <1>1, <1>2, AddCounts, RefuseCounts, CancelFileCounts, FinishCounts DEF File
<1> QED BY <1>1, <1>2, CommandCounts, ScopedCounts, QueueCounts DEF Next

LEMMA StepCounts == Inv /\ Whole /\ [Next]_vars => Whole' /\ StartsAllowed
<1> SUFFICES ASSUME Inv, Whole, [Next]_vars PROVE Whole' /\ StartsAllowed
  OBVIOUS
<1>1. CASE UNCHANGED vars
  <2>1. Whole'
    BY <1>1 DEF vars, Whole, TypeOK, WorkConserving, TotalCovers, GloballyPaused,
                Active, Waiting, Runnable, Override, ScopePaused, FilesOf, Settled
  <2>2. Starts = {}
    BY <1>1 DEF vars, Starts
  <2> QED BY <2>1, <2>2 DEF StartsAllowed
<1> QED BY <1>1, NextCounts

LEMMA StartCounts == Init => Whole
<1> SUFFICES ASSUME Init PROVE Whole
  OBVIOUS
<1>1. Listed(queue, status)
  BY DEF Init, Listed, ToSet, IsInjective
<1>2. TypeOK
  <2>1. Shape
    BY Start DEF Inv
  <2>2. /\ history \in Seq(Tasks) /\ Len(history) = 0 /\ 0 <= MaxHistory
        /\ maxConcurrent \in 1 .. MaxLimit /\ retries \in 0 .. MaxRetries
    BY BoundsOK DEF Init
  <2>3. /\ userPaused \in BOOLEAN /\ scopePauses \subseteq Scopes /\ blockers \subseteq Blockers
        /\ timers \in [Groups -> Nat] /\ aborted \cup cooling = {}
    BY DEF Init
  <2> QED BY <1>1, <2>1, <2>2, <2>3 DEF TypeOK, Shape, Listed
<1>3. WorkConserving /\ TotalCovers
  BY DEF Init, WorkConserving, TotalCovers, Waiting, NoGroup
<1> QED BY <1>2, <1>3 DEF Whole

LEMMA WholeAlways == Spec => [](Inv /\ Whole)
<1>1. Init => Inv /\ Whole
  BY Start, StartCounts
<1>2. (Inv /\ Whole) /\ [Next]_vars => (Inv /\ Whole)'
  BY Step, StepCounts
<1> QED BY <1>1, <1>2, PTL DEF Spec

\* The queue lists every pending file once and nothing else, an aborted file or
\* one that queued its own repetition is running, the history keeps its bound.
THEOREM QueueIsTyped == Spec => []TypeOK
<1>1. Inv /\ Whole => TypeOK
  BY DEF Whole
<1> QED BY WholeAlways, <1>1, PTL

\* Nobody waits beside a free place, whatever freed the last obstacle, and the
\* announced total of a group covers each of its files.
THEOREM NobodyIsForgotten == Spec => []NobodyForgotten
<1>1. Inv /\ Whole => NobodyForgotten
  BY DEF Whole, NobodyForgotten
<1> QED BY WholeAlways, <1>1, PTL

\* Files are started only in free places and in groups that are not held back.
THEOREM StartsAreLegal == Spec => StartsAreAllowed
<1>1. Inv /\ Whole /\ [Next]_vars =>
        [Starts # {} =>
           /\ Cardinality(Active') <= maxConcurrent'
           /\ ~GloballyPaused'
           /\ \A t \in Starts : ~Paused(GroupOf[t])' /\ ~Cancelling(GroupOf[t])']_vars
  BY StepCounts DEF StartsAllowed
<1> QED BY WholeAlways, <1>1, PTL DEF Spec, StartsAreAllowed
=============================================================================
