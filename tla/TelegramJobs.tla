----------------------------- MODULE TelegramJobs -----------------------------
(***************************************************************************)
(* Background jobs of the Telegram downloader (telegramChannelJobs.ts):    *)
(* the subscription worker, which syncs the messages after its cursor with *)
(* one job per scan; jobs over a range of messages, scanned in segments;   *)
(* the recovery worker, which repairs and resumes what a crash, a cooldown *)
(* or a pause interrupted; and the commands of the user.                   *)
(*                                                                         *)
(* A message is its id.  How one file is written and journalled is the     *)
(* subject of TelegramWrites: here an item is settled in one step.         *)
(***************************************************************************)
EXTENDS Integers, FiniteSets, FiniteSetsExt

CONSTANTS
  Jobs,       \* ids of the rows of telegram_background_jobs, 1 .. n
  MaxId,      \* largest message id (bound)
  Media,      \* the messages that carry a file
  ScanLimit,  \* SUBSCRIPTION_SCAN_LIMIT
  Segment,    \* TG_JOB_SCAN_SEGMENT_SIZE
  BatchSize,  \* TG_JOB_DOWNLOAD_BATCH_SIZE
  Attempts,   \* TG_JOB_MAX_ATTEMPTS
  Resumed,    \* jobs one sweep of the recovery worker takes up
  Mixed,      \* jobs of both kinds in one behaviour (bound)
  Broken,     \* the messages whose file may fail (bound)
  MaxEvents,  \* bound on the failures of more than a file, crashes and commands
  Faults,     \* subset of {"crash", "stall", "flood", "quota", "error"}
  NoJob, NoRunner

VARIABLES
  latest,   \* newest message of the channel
  cursor,   \* last_message_id of the subscription
  enabled,  \* the subscription is enabled
  job,      \* rows of telegram_background_jobs
  item,     \* status of the row of telegram_download_items of a job and a message
  holder,   \* the runner whose lease_token that row carries
  attempts, \* how often that row failed since it was listed or retried
  run,      \* the loops that work on jobs
  events    \* bounded events so far

vars == <<latest, cursor, enabled, job, item, holder, attempts, run, events>>

Messages == 1 .. MaxId
Runners  == {"scan", "recover", "user"}

NewJob == [kind |-> "none", status |-> "queued", scan |-> "pending", offset |-> 0,
           paused |-> FALSE, cancelled |-> FALSE, finished |-> FALSE,
           cooldown |-> FALSE, from |-> 0, to |-> 0]

\* A loop between two rounds.  ok and bad are the results of its download loop,
\* bok and bbad those of the batch in hand; advance, failed and left what it read
\* before the last update.
Idle == [pc |-> "idle", job |-> NoJob, segmented |-> FALSE, queue |-> {},
         todo |-> {}, upto |-> 0, last |-> FALSE, drain |-> TRUE,
         batch |-> {}, bok |-> {}, bbad |-> {}, ok |-> {}, bad |-> {},
         advance |-> 0, failed |-> FALSE, left |-> FALSE]

Init ==
  /\ latest = 0
  /\ cursor = 0
  /\ enabled = TRUE
  /\ job = [j \in Jobs |-> NewJob]
  /\ item = [j \in Jobs |-> [m \in Messages |-> "none"]]
  /\ holder = [j \in Jobs |-> [m \in Messages |-> NoRunner]]
  /\ attempts = [j \in Jobs |-> [m \in Messages |-> 0]]
  /\ run = [r \in Runners |-> Idle]
  /\ events = 0

Event == /\ events < MaxEvents
         /\ events' = events + 1

-----------------------------------------------------------------------------
(* Reading and writing a job.                                              *)

ItemsIn(j, S) == {m \in Messages : item[j][m] \in S}
Unsettled(j)  == ItemsIn(j, {"pending", "downloading"})
\* What a claim may take: an item given back at its last attempt is pending and beyond it.
Ready(j)      == {m \in ItemsIn(j, {"pending"}) : attempts[j][m] < Attempts}
HeldBy(r)     == LET j == run[r].job IN
                 {m \in run[r].batch : item[j][m] = "downloading" /\ holder[j][m] = r}
\* In flight on paper, while no runner works on it any more.
Orphans(j)    == {m \in ItemsIn(j, {"downloading"}) :
                    ~\E r \in Runners : run[r].job = j /\ m \in HeldBy(r)}

\* ensureJobCanRun.  The status 'cooling' alone does not stop a runner.
ControlState(j) ==
  IF job[j].cancelled \/ job[j].status = "cancelled" THEN "cancelled"
  ELSE IF job[j].paused \/ job[j].status = "paused" THEN "paused"
  ELSE IF job[j].cooldown THEN "cooldown" ELSE "run"

\* The guard updateJob adds when it writes a running or a final status.
Writable(j) ==
  /\ ~job[j].cancelled /\ ~job[j].paused
  /\ job[j].status \notin {"cancelled", "paused", "cooling"}

\* What a claim, and the statements that start a run, require of the job.
Claimable(j) == Writable(j) /\ ~job[j].finished /\ ~job[j].cooldown

\* The rows of S fail once more, or start anew.
Counted(j, S) == [attempts EXCEPT ![j] = [m \in Messages |-> IF m \in S THEN @[m] + 1 ELSE @[m]]]
Renewed(j, S) == [attempts EXCEPT ![j] = [m \in Messages |-> IF m \in S THEN 0 ELSE @[m]]]

SetItems(j, S, st) == [item EXCEPT ![j] = [m \in Messages |-> IF m \in S THEN st ELSE @[m]]]

Goto(r, pc) == run' = [run EXCEPT ![r].pc = pc]

\* The work on the job ends (return, continue or throw); a recovery goes on
\* with the next job of its list.
Stop(r) == run' = [run EXCEPT ![r] = IF r = "recover"
                                     THEN [Idle EXCEPT !.pc = "pick", !.queue = run[r].queue]
                                     ELSE Idle]

\* contiguousProcessedMessageId
Contiguous(start, processed, failed) ==
  Max({n \in start .. MaxId : \A k \in (start + 1) .. n : k \in processed /\ k \notin failed})

\* Jobs are created in the order of their ids.
NextJob(j) == job[j].kind = "none" /\ \A k \in Jobs : k < j => job[k].kind # "none"

-----------------------------------------------------------------------------
(* Listing the messages of a job.                                          *)

Post ==
  /\ latest < MaxId
  /\ latest' = latest + 1
  /\ UNCHANGED <<cursor, enabled, job, item, holder, attempts, run, events>>

\* runSubscriptionScan: the job records the whole gap as from..to, the scan
\* reads at most ScanLimit ids of it.
ScanBegin(j) ==
  LET upto == Min({latest, cursor + ScanLimit}) IN
  /\ run["scan"].pc = "idle" /\ enabled /\ latest > cursor /\ NextJob(j)
  /\ Mixed \/ \A k \in Jobs : job[k].kind # "range"
  /\ run' = [run EXCEPT !["scan"] =
               [Idle EXCEPT !.pc = "persist", !.job = j, !.upto = upto,
                            !.todo = Media \cap ((cursor + 1) .. upto)]]
  /\ job' = [job EXCEPT ![j] = [NewJob EXCEPT !.kind = "sync", !.from = cursor + 1, !.to = latest]]
  /\ UNCHANGED <<latest, cursor, enabled, item, holder, attempts, events>>

\* persistDownloadRefs: one INSERT per message; an item that exists stays as it is.
Persist(r) ==
  LET j == run[r].job
      m == Min(run[r].todo)
  IN  /\ run[r].pc = "persist" /\ run[r].todo # {}
      /\ item' = [item EXCEPT ![j][m] = IF @ = "none" THEN "pending" ELSE @]
      /\ run' = [run EXCEPT ![r].todo = @ \ {m}]
      /\ UNCHANGED <<latest, cursor, enabled, job, holder, attempts, events>>

ScanListed ==
  LET j == run["scan"].job IN
  /\ run["scan"].pc = "persist" /\ run["scan"].todo = {}
  /\ job' = IF Writable(j) THEN [job EXCEPT ![j].status = "running"] ELSE job
  /\ Goto("scan", "loop")
  /\ UNCHANGED <<latest, cursor, enabled, item, holder, attempts, events>>

\* A job over the messages posted so far, by a command.
NewRange(j) ==
  /\ run["user"].pc = "idle" /\ latest > 0 /\ NextJob(j)
  /\ \A k \in Jobs : job[k].kind # "range" /\ (Mixed \/ job[k].kind # "sync")
  /\ job' = [job EXCEPT ![j] = [NewJob EXCEPT !.kind = "range", !.from = 1, !.to = latest]]
  /\ run' = [run EXCEPT !["user"] = [Idle EXCEPT !.pc = "segstart", !.job = j, !.segmented = TRUE]]
  /\ UNCHANGED <<latest, cursor, enabled, item, holder, attempts, events>>

\* runSegmentedTelegramJob until its first segment.
SegmentStart(r) ==
  LET j == run[r].job IN
  /\ run[r].pc = "segstart"
  /\ \/ /\ Claimable(j)
        /\ job' = [job EXCEPT ![j].status = "running", ![j].scan = "scanning"]
        /\ Goto(r, "segment")
     \/ /\ ControlState(j) \in {"run", "cancelled"} /\ ~Claimable(j)
        /\ Stop(r)
        /\ UNCHANGED job
  /\ UNCHANGED <<latest, cursor, enabled, item, holder, attempts, events>>

\* The messages of the next segment, from the newest to the oldest.
Below(j) == {m \in 1 .. job[j].to : job[j].offset = 0 \/ m < job[j].offset}
SegmentOf(j) == {m \in Below(j) : Cardinality({k \in Below(j) : k > m}) < Segment}

ScanSegment(r) ==
  LET j == run[r].job IN
  /\ run[r].pc = "segment"
  /\ ControlState(j) \in {"run", "cancelled"}
  /\ run' = IF ControlState(j) = "cancelled" \/ job[j].scan = "done"
            THEN [run EXCEPT ![r].pc = "drain"]
            ELSE [run EXCEPT ![r].pc = "persist", ![r].todo = SegmentOf(j) \cap Media,
                             ![r].upto = IF SegmentOf(j) = {} THEN job[j].offset ELSE Min(SegmentOf(j)),
                             ![r].last = Cardinality(SegmentOf(j)) < Segment]
  /\ UNCHANGED <<latest, cursor, enabled, job, item, holder, attempts, events>>

\* A slip: after the wait the scan is taken for complete.
ScanFloodEnds(r) ==
  /\ "flood" \in Faults /\ run[r].pc = "persist" /\ run[r].segmented
  /\ job' = [job EXCEPT ![run[r].job].cooldown = TRUE]
  /\ Goto(r, "drain")
  /\ Event
  /\ UNCHANGED <<latest, cursor, enabled, item, holder, attempts>>

\* A flood wait while listing: the segment is listed again.
ScanFlood(r) ==
  /\ "flood" \in Faults /\ run[r].pc = "persist" /\ run[r].segmented
  /\ job' = [job EXCEPT ![run[r].job].cooldown = TRUE]
  /\ Goto(r, "segment")
  /\ Event
  /\ UNCHANGED <<latest, cursor, enabled, item, holder, attempts>>

SegmentListed(r) ==
  LET j == run[r].job IN
  /\ run[r].pc = "persist" /\ run[r].todo = {} /\ run[r].segmented
  /\ job' = [job EXCEPT ![j].offset = run[r].upto,
                        ![j].scan = IF run[r].last THEN "done" ELSE "scanning"]
  /\ run' = [run EXCEPT ![r].pc = "loop", ![r].drain = FALSE]
  /\ UNCHANGED <<latest, cursor, enabled, item, holder, attempts, events>>

\* All segments are listed, or the job is cancelled.
Drain(r) ==
  LET j == run[r].job IN
  /\ run[r].pc = "drain"
  /\ \/ /\ ControlState(j) = "run"
        /\ job' = [job EXCEPT ![j].scan = "done"]
        /\ run' = [run EXCEPT ![r].pc = "loop", ![r].drain = TRUE]
     \/ /\ ControlState(j) = "cancelled"
        /\ job' = [job EXCEPT ![j].status = "cancelled", ![j].scan = "cancelled", ![j].finished = TRUE]
        /\ Stop(r)
  /\ UNCHANGED <<latest, cursor, enabled, item, holder, attempts, events>>

-----------------------------------------------------------------------------
(* The download loop, shared by all runners (downloadPendingForJob).       *)

\* waitUntilRunnable: a paused or cooling job keeps its runner waiting.
Proceed(r) ==
  LET j == run[r].job IN
  /\ run[r].pc = "loop"
  /\ ControlState(j) \in {"run", "cancelled"}
  /\ Goto(r, IF ControlState(j) = "run" THEN "claim" ELSE "end")
  /\ UNCHANGED <<latest, cursor, enabled, job, item, holder, attempts, events>>

\* What one claim takes of a job.
Batches(j) == IF Claimable(j) THEN {S \in SUBSET Ready(j) : Cardinality(S) = Min({BatchSize, Cardinality(Ready(j))})}
                              ELSE {{}}

\* A slip: the claim writes no lease.
ClaimLeaseless(r) ==
  LET j == run[r].job IN
  /\ run[r].pc = "claim"
  /\ \E S \in Batches(j) :
       /\ item' = SetItems(j, S, "downloading")
       /\ run' = [run EXCEPT ![r].pc = IF S = {} THEN "end" ELSE "start", ![r].batch = S]
  /\ UNCHANGED <<latest, cursor, enabled, job, holder, attempts, events>>

\* claimPendingDownloadRefs: one statement; each item gets a fresh lease.
Claim(r) ==
  LET j == run[r].job IN
  /\ run[r].pc = "claim"
  /\ \E S \in Batches(j) :
       /\ item' = SetItems(j, S, "downloading")
       /\ holder' = [holder EXCEPT ![j] = [m \in Messages |-> IF m \in S THEN r ELSE @[m]]]
       /\ run' = [run EXCEPT ![r].pc = IF S = {} THEN "end" ELSE "start", ![r].batch = S]
  /\ UNCHANGED <<latest, cursor, enabled, job, attempts, events>>

\* restoreTelegramDownloadRefsWithQuery
Restored(r) ==
  LET j == run[r].job IN
  SetItems(j, HeldBy(r), IF ControlState(j) = "cancelled" THEN "skipped" ELSE "pending")

\* Only a draining loop takes another batch.  A batch that ended early is
\* reported as empty: what it had settled is not in ok or bad.
EndBatch(r, ok, bad) ==
  run' = [run EXCEPT ![r].pc = IF run[r].drain THEN "loop" ELSE "end",
                     ![r].batch = {}, ![r].bok = {}, ![r].bbad = {},
                     ![r].ok = @ \cup ok, ![r].bad = @ \cup bad]

StartBatch(r) ==
  LET j == run[r].job IN
  /\ run[r].pc = "start"
  /\ \/ /\ Claimable(j)
        /\ job' = [job EXCEPT ![j].status = "running"]
        /\ Goto(r, "work")
        /\ UNCHANGED item
     \/ /\ ~Claimable(j)
        /\ item' = Restored(r)
        /\ EndBatch(r, IF ControlState(j) = "cancelled" THEN run[r].batch ELSE {}, {})
        /\ UNCHANGED job
  /\ UNCHANGED <<latest, cursor, enabled, holder, attempts, events>>

\* A file is stored, fails, or is given up because the job was cancelled.  A
\* pause lets the files in flight finish.
Settle(r, m, st) ==
  LET j == run[r].job IN
  /\ run[r].pc = "work" /\ m \in HeldBy(r)
  /\ st = "skipped" => ControlState(j) = "cancelled"
  /\ st = "failed" => m \in Broken
  /\ item' = [item EXCEPT ![j][m] = st]
  /\ run' = [run EXCEPT ![r].batch = @ \ {m},
                        ![r].bok = IF st = "failed" THEN @ ELSE @ \cup {m},
                        ![r].bbad = IF st = "failed" THEN @ \cup {m} ELSE @]
  /\ attempts' = IF st = "failed" THEN Counted(j, {m}) ELSE attempts
  /\ UNCHANGED <<latest, cursor, enabled, job, holder, events>>

\* The end of a batch; what a pause or a cancellation left undone is given back.
BatchDone(r) ==
  /\ run[r].pc = "work"
  /\ run[r].batch = {} \/ ControlState(run[r].job) # "run"
  /\ item' = Restored(r)
  /\ EndBatch(r, run[r].bok, run[r].bbad)
  /\ UNCHANGED <<latest, cursor, enabled, job, holder, attempts, events>>

\* FloodWait: an update without a guard on the status.
FloodWait(r) ==
  LET j == run[r].job IN
  /\ "flood" \in Faults /\ run[r].pc = "work" /\ HeldBy(r) # {}
  /\ job' = [job EXCEPT ![j].status = "cooling", ![j].cooldown = TRUE]
  /\ item' = SetItems(j, HeldBy(r), "pending")
  /\ EndBatch(r, {}, {})
  /\ Event
  /\ UNCHANGED <<latest, cursor, enabled, holder, attempts>>

\* putJobIntoStorageCooldown: every item in flight, whoever holds it, is pending
\* again, and so is what failed with an error that speaks of a limit.
QuotaReached(r) ==
  LET j == run[r].job IN
  /\ "quota" \in Faults /\ run[r].pc = "work" /\ HeldBy(r) # {}
  /\ job' = IF job[j].cancelled \/ job[j].finished THEN job
            ELSE [job EXCEPT ![j].status = IF job[j].paused THEN "paused" ELSE "cooling",
                             ![j].cooldown = TRUE]
  /\ \E limited \in SUBSET ItemsIn(j, {"failed"}) :
       item' = SetItems(j, ItemsIn(j, {"downloading"}) \cup limited, "pending")
  /\ EndBatch(r, {}, {})
  /\ Event
  /\ UNCHANGED <<latest, cursor, enabled, holder, attempts>>

CooldownEnds(j) ==
  /\ job[j].cooldown
  /\ job' = [job EXCEPT ![j].cooldown = FALSE]
  /\ UNCHANGED <<latest, cursor, enabled, item, holder, attempts, run, events>>

\* The catch of recoverTelegramJob; a scan or a segmented run leaves the job.
Thrown(r, j) ==
  IF r = "recover" /\ ~run[r].segmented /\ Writable(j)
  THEN [job EXCEPT ![j].status = "failed", ![j].finished = TRUE] ELSE job

\* Any other error fails the whole batch.
BatchError(r) ==
  /\ "error" \in Faults /\ run[r].pc = "work" /\ HeldBy(r) # {}
  /\ item' = SetItems(run[r].job, HeldBy(r), "failed")
  /\ attempts' = Counted(run[r].job, HeldBy(r))
  /\ job' = Thrown(r, run[r].job)
  /\ Stop(r)
  /\ Event
  /\ UNCHANGED <<latest, cursor, enabled, holder>>

\* The heartbeat, or a settlement, finds an item of the batch taken away: the
\* batch is aborted and its other items keep their leases.
LeaseLost(r) ==
  /\ run[r].pc = "work" /\ run[r].batch # HeldBy(r)
  /\ job' = Thrown(r, run[r].job)
  /\ Stop(r)
  /\ UNCHANGED <<latest, cursor, enabled, item, holder, attempts, events>>

-----------------------------------------------------------------------------
(* The end of a run.                                                       *)

\* Where the cursor may go.  A scan trusts the results of its own loop, a
\* recovery the failed items in the database and the to of the job.
SafeAdvance(r) ==
  LET j      == run[r].job
      start  == job[j].from - 1
      failed == ItemsIn(j, {"failed"})
      silent == (job[j].from .. run[r].upto) \ Media
  IN  IF r = "scan"
      THEN IF run[r].bad = {} THEN run[r].upto
           ELSE Contiguous(start, run[r].ok \cup silent, run[r].bad)
      ELSE IF failed # {} THEN Max({start, Min(failed) - 1})
           ELSE IF run[r].bad # {} THEN Contiguous(start, run[r].ok, run[r].bad)
           ELSE job[j].to

\* A segmented run counts the failed items in the database, a recovered sync
\* both, the other runs those of their own loop.
SawFailure(r) ==
  LET stored == ItemsIn(run[r].job, {"failed"}) # {}
      seen   == run[r].bad # {}
  IN  IF run[r].segmented THEN stored
      ELSE seen \/ (stored /\ r = "recover" /\ job[run[r].job].kind = "sync")

\* What a run reads when its loop has ended: it stops there if the job was
\* stopped or, unless it is segmented, if items are left.
EndOfLoop(r) ==
  LET j == run[r].job
      stopped == \/ ControlState(j) \in {"cancelled", "paused"}
                 \/ ~run[r].segmented /\ (job[j].status = "cooling" \/ Unsettled(j) # {})
  IN  /\ run[r].pc = "end" /\ run[r].drain
      /\ IF stopped THEN Stop(r)
         ELSE run' = [run EXCEPT ![r].pc = "final",
                        ![r].advance = IF job[j].kind = "sync" THEN SafeAdvance(r) ELSE 0,
                        ![r].failed = SawFailure(r),
                        ![r].left = Unsettled(j) # {}]
      /\ UNCHANGED <<latest, cursor, enabled, job, item, holder, attempts, events>>

EndOfSegment(r) ==
  /\ run[r].pc = "end" /\ ~run[r].drain
  /\ Goto(r, IF run[r].last THEN "drain" ELSE "segment")
  /\ UNCHANGED <<latest, cursor, enabled, job, item, holder, attempts, events>>

FinalStatus(r) == IF run[r].failed THEN "completed_with_errors" ELSE "completed"

\* finalizeSubscriptionJobInTransaction: the job and the cursor, or neither; a
\* disabled subscription makes it throw.
FinalizeSync(r) ==
  LET j == run[r].job IN
  /\ run[r].pc = "final" /\ job[j].kind = "sync"
  /\ IF Writable(j) /\ ~job[j].finished /\ enabled
     THEN /\ job' = [job EXCEPT ![j].status = FinalStatus(r), ![j].finished = TRUE]
          /\ cursor' = Max({cursor, run[r].advance})
     ELSE /\ job' = IF Writable(j) /\ ~job[j].finished THEN Thrown(r, j) ELSE job
          /\ UNCHANGED cursor
  /\ Stop(r)
  /\ UNCHANGED <<latest, enabled, item, holder, attempts, events>>

\* finalizeTelegramJob, whose update does not look at a cooldown, or the last
\* update of recoverTelegramJob.
FinalizeRange(r) ==
  LET j == run[r].job IN
  /\ run[r].pc = "final" /\ job[j].kind = "range"
  /\ job' = IF run[r].segmented
            THEN IF ControlState(j) \in {"cancelled", "paused"} THEN job
                 ELSE [job EXCEPT ![j].status = IF run[r].left THEN "running" ELSE FinalStatus(r),
                                  ![j].finished = ~run[r].left]
            ELSE IF Writable(j)
                 THEN [job EXCEPT ![j].status = FinalStatus(r), ![j].finished = TRUE, ![j].cooldown = FALSE]
                 ELSE job
  /\ Stop(r)
  /\ UNCHANGED <<latest, cursor, enabled, item, holder, attempts, events>>

-----------------------------------------------------------------------------
(* The recovery worker (recoverInterruptedTelegramJobs).                   *)

Inconsistent(j) ==
  /\ ~job[j].cancelled /\ ~job[j].paused /\ ItemsIn(j, {"pending"}) # {}
  /\ \/ job[j].status \in {"completed", "completed_with_errors", "failed"}
     \/ job[j].status = "running" /\ job[j].finished

\* repairTelegramJobInvariantsWithQuery
Repaired(j) ==
  IF Inconsistent(j)
  THEN [job[j] EXCEPT !.status = "running", !.finished = FALSE,
                      !.scan = IF job[j].kind = "range" /\ @ # "done" THEN @ ELSE "done"]
  ELSE job[j]

Uncooled(row) ==
  IF row.status = "cooling" /\ ~row.cooldown /\ ~row.paused /\ ~row.cancelled /\ ~row.finished
  THEN [row EXCEPT !.status = "running"] ELSE row

Resumable(row, pending) ==
  /\ pending /\ row.kind # "none" /\ ~row.finished /\ ~row.cancelled
  /\ row.status \in {"running", "failed", "completed_with_errors", "cooling"}

\* The items of a job whose lease has expired: those of orphans; those of a runner whose
\* heartbeat fails for ten minutes may have.
Expired(j, row, stalled) ==
  IF row.finished \/ row.cancelled \/ row.paused \/ row.status \in {"cancelled", "paused"} THEN {}
  ELSE Orphans(j) \cup UNION {HeldBy(r) : r \in {s \in stalled : run[s].job = j}}

Oldest(S) == {j \in S : Cardinality({k \in S : k < j}) < Resumed}

\* The statements before the list of jobs, and the list.
Sweep ==
  \E stalled \in SUBSET (IF "stall" \in Faults THEN Runners \ {"recover"} ELSE {}) :
    LET rows  == [j \in Jobs |-> Uncooled(Repaired(j))]
        items == [j \in Jobs |-> [m \in Messages |->
                    IF m \in Expired(j, rows[j], stalled) THEN "pending" ELSE item[j][m]]]
        queue == Oldest({j \in Jobs : Resumable(rows[j], \E m \in Messages : items[j][m] = "pending")})
    IN  /\ run["recover"].pc = "idle"
        /\ <<rows, items, queue>> # <<job, item, {}>>
        /\ job' = rows
        /\ item' = items
        /\ run' = [run EXCEPT !["recover"] = [Idle EXCEPT !.pc = "pick", !.queue = queue]]
        /\ IF stalled # {} THEN Event ELSE UNCHANGED events
        /\ UNCHANGED <<latest, cursor, enabled, holder, attempts>>

\* recoverTelegramJob up to its loop, or runSegmentedTelegramJob.
Resume ==
  LET r == "recover"
      j == Min(run[r].queue)
      segmented == job[j].kind = "range" /\ job[j].scan # "done"
      gone == ~segmented /\ (ItemsIn(j, {"pending"}) = {} \/ ControlState(j) \in {"cancelled", "paused"})
  IN  /\ run[r].pc = "pick" /\ run[r].queue # {}
      /\ run' = [run EXCEPT ![r].queue = @ \ {j},
                            ![r].pc = IF gone THEN "pick" ELSE IF segmented THEN "segstart" ELSE "loop",
                            ![r].job = IF gone THEN NoJob ELSE j,
                            ![r].segmented = segmented /\ ~gone]
      /\ job' = IF ~gone /\ ~segmented /\ Writable(j) THEN [job EXCEPT ![j].status = "running"] ELSE job
      /\ UNCHANGED <<latest, cursor, enabled, item, holder, attempts, events>>

SweepEnds ==
  /\ run["recover"].pc = "pick" /\ run["recover"].queue = {}
  /\ run' = [run EXCEPT !["recover"] = Idle]
  /\ UNCHANGED <<latest, cursor, enabled, job, item, holder, attempts, events>>

Crash ==
  /\ "crash" \in Faults
  /\ \E r \in Runners : run[r].pc # "idle"
  /\ run' = [r \in Runners |-> Idle]
  /\ Event
  /\ UNCHANGED <<latest, cursor, enabled, job, item, holder, attempts>>

-----------------------------------------------------------------------------
(* Commands.                                                               *)

Live(j) == /\ job[j].kind # "none" /\ ~job[j].finished
           /\ job[j].status \notin {"completed", "completed_with_errors", "cancelled"}

Pause(j) ==
  /\ Live(j) /\ ~job[j].paused
  /\ job' = [job EXCEPT ![j].status = "paused", ![j].paused = TRUE]
  /\ Event
  /\ UNCHANGED <<latest, cursor, enabled, item, holder, attempts, run>>

ResumeJob(j) ==
  /\ job[j].status = "paused" /\ ~job[j].cancelled /\ ~job[j].cooldown
  /\ job' = [job EXCEPT ![j].status = "running", ![j].paused = FALSE, ![j].finished = FALSE]
  /\ UNCHANGED <<latest, cursor, enabled, item, holder, attempts, run, events>>

Cancel(j) ==
  /\ Live(j)
  /\ job' = [job EXCEPT ![j].status = "cancelled", ![j].scan = "cancelled",
                        ![j].cancelled = TRUE, ![j].finished = TRUE]
  /\ item' = SetItems(j, ItemsIn(j, {"pending"}), "skipped")
  /\ Event
  /\ UNCHANGED <<latest, cursor, enabled, holder, attempts, run>>

\* retryTelegramBackgroundJobWithQuery
Retry(j) ==
  /\ ~job[j].cancelled /\ ~job[j].paused /\ ~job[j].cooldown
  /\ job[j].status \in {"failed", "completed_with_errors"} /\ ItemsIn(j, {"failed"}) # {}
  /\ item' = SetItems(j, ItemsIn(j, {"failed"}), "pending")
  /\ attempts' = Renewed(j, ItemsIn(j, {"failed"}))
  /\ job' = [job EXCEPT ![j].status = "running", ![j].finished = FALSE]
  /\ UNCHANGED <<latest, cursor, enabled, holder, run, events>>

Unsubscribe ==
  /\ enabled
  /\ enabled' = FALSE
  /\ Event
  /\ UNCHANGED <<latest, cursor, job, item, holder, attempts, run>>

\* Subscribing again keeps the cursor of the row that is there.
Subscribe ==
  /\ ~enabled
  /\ enabled' = TRUE
  /\ UNCHANGED <<latest, cursor, job, item, holder, attempts, run, events>>

Command == \/ \E j \in Jobs : NewRange(j) \/ Pause(j) \/ ResumeJob(j) \/ Cancel(j) \/ Retry(j)
           \/ Unsubscribe \/ Subscribe

Step(r) ==
  \/ Persist(r) \/ SegmentStart(r) \/ ScanSegment(r) \/ SegmentListed(r) \/ Drain(r)
  \/ Proceed(r) \/ Claim(r) \/ StartBatch(r) \/ BatchDone(r) \/ LeaseLost(r)
  \/ \E m \in Messages : Settle(r, m, "success") \/ Settle(r, m, "skipped")
  \/ EndOfLoop(r) \/ EndOfSegment(r) \/ FinalizeSync(r) \/ FinalizeRange(r)

Fault(r) ==
  \/ \E m \in Messages : Settle(r, m, "failed")
  \/ ScanFlood(r) \/ FloodWait(r) \/ QuotaReached(r) \/ BatchError(r)

Scan    == (\E j \in Jobs : ScanBegin(j)) \/ ScanListed
Recover == Sweep \/ Resume \/ SweepEnds

Next ==
  \/ Post \/ Scan \/ Recover \/ Crash \/ Command
  \/ \E r \in Runners : Step(r) \/ Fault(r)
  \/ \E j \in Jobs : CooldownEnds(j)

Spec == Init /\ [][Next]_vars

\* Every loop is driven by a timer or by promises that settle, and a cooldown is
\* a date.  Commands and faults need not come.
Fairness ==
  /\ WF_vars(Recover)
  /\ \A r \in Runners : WF_vars(Step(r))
  /\ WF_vars(ScanListed)
  /\ \A j \in Jobs : WF_vars(CooldownEnds(j))

FairSpec == Spec /\ Fairness

-----------------------------------------------------------------------------
(* Properties.                                                             *)

TypeOK ==
  /\ latest \in 0 .. MaxId /\ cursor \in 0 .. MaxId /\ cursor <= latest
  /\ enabled \in BOOLEAN
  /\ job \in [Jobs -> [kind : {"none", "sync", "range"},
                       status : {"queued", "running", "paused", "cooling", "cancelled",
                                 "failed", "completed", "completed_with_errors"},
                       scan : {"pending", "scanning", "done", "cancelled"},
                       offset : 0 .. MaxId, from : 0 .. MaxId, to : 0 .. MaxId,
                       paused : BOOLEAN, cancelled : BOOLEAN,
                       finished : BOOLEAN, cooldown : BOOLEAN]]
  /\ item \in [Jobs -> [Messages -> {"none", "pending", "downloading", "success", "failed", "skipped"}]]
  /\ holder \in [Jobs -> [Messages -> Runners \cup {NoRunner}]]
  /\ attempts \in [Jobs -> [Messages -> 0 .. Attempts]]
  /\ \A j \in Jobs : \A m \in ItemsIn(j, {"downloading"}) : holder[j][m] # NoRunner
  /\ \A r \in Runners : /\ run[r].job \in Jobs \cup {NoJob} /\ run[r].queue \subseteq Jobs
                         /\ UNION {run[r].todo, run[r].batch, run[r].ok, run[r].bad} \subseteq Messages
  /\ events \in 0 .. MaxEvents

Stored(m) == \E j \in Jobs : item[j][m] = "success"

\* The cursor never passes a message whose file is not stored: nothing reads the
\* messages before it again.
CursorSafe == \A m \in Media : m <= cursor => Stored(m)

\* A range job that reports its end has listed every file of its range, whatever
\* interrupted its scan.
CompletedIsScanned ==
  \A j \in Jobs :
    job[j].kind = "range" /\ job[j].status \in {"completed", "completed_with_errors"}
      => \A m \in Media : m <= job[j].to => item[j][m] # "none"

\* A flood wait put a job that had reported its end to sleep: nothing wakes it.
Asleep(j) == job[j].status = "cooling" /\ job[j].finished

\* Every listed file of a job that got beyond its listing is taken up again and
\* again until none waits, unless it was given back at its last attempt, its job
\* sleeps for good, somebody stopped a job (a paused one keeps the recovery worker
\* waiting), or more jobs wait than one sweep takes up.
Served == \A j \in Jobs : \A m \in Ready(j) :
            \/ job[j].status = "queued" \/ Asleep(j)
            \/ \E k \in Jobs : job[k].paused \/ job[k].cancelled
            \/ Cardinality({k \in Jobs : ItemsIn(k, {"pending"}) # {}}) > Resumed
=============================================================================
