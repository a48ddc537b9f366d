---------------------------- MODULE TelegramWrites ----------------------------
(***************************************************************************)
(* How the file of one row of telegram_download_items is written: a worker *)
(* claims the row with a lease, stores an object, inserts its index row    *)
(* into files and commits both together with the row's success; a journal  *)
(* (telegram_write_reconciliations) lets a sweep take back what a crash or *)
(* a failed compensation left behind.                                      *)
(*                                                                         *)
(* A worker tries twice.  Its first try writes no journal row: the id of   *)
(* the job, without which beginTelegramWriteReconciliation is skipped, is  *)
(* put into the reference by withTelegramDownloadRefLease, at its first  *)
(* call.                                                                   *)
(***************************************************************************)
EXTENDS Naturals, FiniteSets

CONSTANTS
  Claims,      \* leases the row may be given (bound)
  MaxMishaps,  \* bound on failures, stalls, crashes and cancellations
  Mishaps      \* subset of {"crash", "stall", "stop", "statement", "provider", "lostObject", "lostInsert",
               \*           "lostCommit"}

VARIABLES
  child,    \* the row: its status, the claim that holds it, the write it kept
  writer,   \* the worker of each claim
  objects,  \* writes whose object is at the provider
  indexed,  \* writes whose row is in files, as the answer of its insertion said
  stray,    \* writes whose row is in files though its insertion was never answered
  journal,  \* telegram_write_reconciliations, by write
  resolver, \* the sweep over the journal
  mishaps   \* bounded events so far

vars == <<child, writer, objects, indexed, stray, journal, resolver, mishaps>>

Leases == 1 .. Claims
Writes == Leases \X {1, 2}
None   == <<0, 0>>

NoRow   == [status |-> "none", resolution |-> "none", path |-> FALSE, file |-> FALSE,
            object |-> "unknown", index |-> "unknown", leased |-> FALSE]
NoWriter == [pc |-> "off", try |-> 1, job |-> FALSE, op |-> FALSE, path |-> FALSE,
             file |-> FALSE, object |-> "unknown", index |-> "unknown", lost |-> FALSE]
Resting == [pc |-> "idle", write |-> None, row |-> NoRow, kept |-> FALSE]

Init ==
  /\ child = [status |-> "pending", lease |-> 0, kept |-> None]
  /\ writer = [g \in Leases |-> NoWriter]
  /\ objects = {} /\ indexed = {} /\ stray = {}
  /\ journal = [w \in Writes |-> NoRow]
  /\ resolver = Resting
  /\ mishaps = 0

Happens(kind) == /\ kind \in Mishaps /\ mishaps < MaxMishaps
                 /\ mishaps' = mishaps + 1

Current(g) == <<g, writer[g].try>>
Owns(g)    == child.status = "downloading" /\ child.lease = g
Open(w)    == journal[w].status = "pending"
Blocked    == \E w \in Writes : Open(w)

Move(g, pc) == writer' = [writer EXCEPT ![g].pc = pc]

-----------------------------------------------------------------------------
(* Claims, and what ends them from outside.                                *)

\* claimPendingDownloadRefs
ClaimChild(g) ==
  /\ child.status = "pending" /\ ~Blocked
  /\ \A h \in Leases : (writer[h].pc = "off") <=> (h >= g)
  /\ child' = [child EXCEPT !.status = "downloading", !.lease = g]
  /\ Move(g, "begin")
  /\ UNCHANGED <<objects, indexed, stray, journal, resolver, mishaps>>

\* The sweep finds the lease expired: its worker died, or missed its heartbeats.
LeaseExpires ==
  /\ child.status = "downloading" /\ ~Blocked
  /\ IF writer[child.lease].pc = "gone" THEN UNCHANGED mishaps ELSE Happens("stall")
  /\ child' = [child EXCEPT !.status = "pending"]
  /\ UNCHANGED <<writer, objects, indexed, stray, journal, resolver>>

\* retryTelegramBackgroundJob
RetryChild ==
  /\ child.status = "failed" /\ ~Blocked
  /\ child' = [child EXCEPT !.status = "pending"]
  /\ UNCHANGED <<writer, objects, indexed, stray, journal, resolver, mishaps>>

CrashAll ==
  /\ Happens("crash")
  /\ writer' = [g \in Leases |-> IF writer[g].pc = "off" THEN NoWriter ELSE [NoWriter EXCEPT !.pc = "gone"]]
  /\ resolver' = Resting
  /\ UNCHANGED <<child, objects, indexed, stray, journal>>

-----------------------------------------------------------------------------
(* The save.                                                               *)

\* What a failed step of save() leads to: its own compensation when the try is
\* journalled, else the end of the try.
SaveFailed(g) == IF writer[g].op THEN "undo" ELSE "failed"

Begin(g) ==
  /\ writer[g].pc = "begin"
  /\ \/ /\ ~writer[g].job
        /\ Move(g, "save")
        /\ UNCHANGED <<journal, mishaps>>
     \/ /\ writer[g].job /\ Owns(g)
        /\ journal' = [journal EXCEPT ![Current(g)] = [NoRow EXCEPT !.status = "pending"]]
        /\ writer' = [writer EXCEPT ![g].pc = "save", ![g].op = TRUE]
        /\ UNCHANGED mishaps
     \/ /\ writer[g].job
        /\ IF Owns(g) THEN Happens("statement") ELSE UNCHANGED mishaps
        /\ Move(g, "failed")
        /\ UNCHANGED journal
  /\ UNCHANGED <<child, objects, indexed, stray, resolver>>

\* provider.saveFile.  An upload that fails may have stored its object.
Save(g) ==
  /\ writer[g].pc = "save"
  /\ \/ /\ objects' = objects \cup {Current(g)}
        /\ writer' = [writer EXCEPT ![g].pc = IF writer[g].op THEN "mark" ELSE "insert", ![g].path = TRUE]
        /\ UNCHANGED mishaps
     \/ /\ \/ Happens("provider") /\ UNCHANGED objects
           \/ Happens("lostObject") /\ objects' = objects \cup {Current(g)}
        /\ Move(g, SaveFailed(g))
  /\ UNCHANGED <<child, indexed, stray, journal, resolver>>

\* markTelegramWriteObjectPresent
MarkObject(g) ==
  LET w == Current(g) IN
  /\ writer[g].pc = "mark"
  /\ \/ /\ Open(w)
        /\ journal' = [journal EXCEPT ![w].path = TRUE, ![w].object = "present"]
        /\ Move(g, "insert")
        /\ UNCHANGED mishaps
     \/ /\ IF Open(w) THEN Happens("statement") ELSE UNCHANGED mishaps
        /\ Move(g, "undo")
        /\ UNCHANGED journal
  /\ UNCHANGED <<child, objects, indexed, stray, resolver>>

\* The insertion into files commits by itself.  When its answer is lost the row stays, and
\* save() holds that there is none.
Insert(g) ==
  /\ writer[g].pc = "insert"
  /\ \/ /\ indexed' = indexed \cup {Current(g)}
        /\ writer' = [writer EXCEPT ![g].pc = IF writer[g].op THEN "markIndex" ELSE "validate",
                                    ![g].file = TRUE, ![g].index = "present"]
        /\ UNCHANGED <<stray, mishaps>>
     \/ /\ \/ Happens("statement") /\ UNCHANGED stray
           \/ Happens("lostInsert") /\ stray' = stray \cup {Current(g)}
        /\ Move(g, SaveFailed(g))
        /\ UNCHANGED indexed
  /\ UNCHANGED <<child, objects, journal, resolver>>

\* markTelegramWriteIndexPresent
MarkIndex(g) ==
  LET w == Current(g) IN
  /\ writer[g].pc = "markIndex"
  /\ \/ /\ Open(w)
        /\ journal' = [journal EXCEPT ![w].file = TRUE, ![w].index = "present"]
        /\ Move(g, "validate")
        /\ UNCHANGED mishaps
     \/ /\ IF Open(w) THEN Happens("statement") ELSE UNCHANGED mishaps
        /\ Move(g, "undo")
        /\ UNCHANGED journal
  /\ UNCHANGED <<child, objects, indexed, stray, resolver>>

\* The catch of save(): both effects are tried, and what is not known to be gone
\* is unknown.  An index row that was never inserted counts as deleted.
Undo(g) ==
  LET w == Current(g) IN
  /\ writer[g].pc = "undo"
  /\ \/ /\ writer[g].path
        /\ objects' = objects \ {w}
        /\ writer' = [writer EXCEPT ![g].pc = "undoIndex", ![g].object = "deleted"]
        /\ UNCHANGED mishaps
     \/ /\ IF writer[g].path THEN Happens("provider") ELSE UNCHANGED mishaps
        /\ writer' = [writer EXCEPT ![g].pc = "undoIndex", ![g].object = "unknown"]
        /\ UNCHANGED objects
  /\ UNCHANGED <<child, indexed, stray, journal, resolver>>

UndoIndex(g) ==
  LET w == Current(g)
      missing == writer[g].file /\ w \notin indexed
  IN  /\ writer[g].pc = "undoIndex"
      /\ \/ /\ indexed' = IF writer[g].file THEN indexed \ {w} ELSE indexed
            /\ writer' = [writer EXCEPT ![g].pc = "note", ![g].index = IF missing THEN "unknown" ELSE "deleted"]
            /\ UNCHANGED mishaps
         \/ /\ writer[g].file /\ Happens("statement")
            /\ writer' = [writer EXCEPT ![g].pc = "note", ![g].index = "unknown"]
            /\ UNCHANGED indexed
      /\ UNCHANGED <<child, objects, stray, journal, resolver>>

-----------------------------------------------------------------------------
(* The settlement (runLeaseProtectedTelegramSave).                         *)

\* The job may have been cancelled, or the batch aborted, while the file was saved.
Validate(g) ==
  /\ writer[g].pc = "validate"
  /\ \/ Move(g, "settle") /\ UNCHANGED mishaps
     \/ Move(g, "compensate") /\ Happens("stop")
  /\ UNCHANGED <<child, objects, indexed, stray, journal, resolver>>

Committable(g) ==
  /\ Owns(g)
  /\ writer[g].op => LET row == journal[Current(g)] IN
                     row.status = "pending" /\ row.object = "present" /\ row.index = "present"

\* withTelegramDownloadRefLease, one transaction: the row of the child and that
\* of the journal, or neither.  The answer of its COMMIT may get lost.
SettleChild(g) ==
  LET w == Current(g) IN
  /\ writer[g].pc = "settle"
  /\ \/ /\ Committable(g)
        /\ child' = [status |-> "success", lease |-> 0, kept |-> w]
        /\ journal' = IF writer[g].op
                      THEN [journal EXCEPT ![w].status = "resolved", ![w].resolution = "committed",
                                           ![w].leased = FALSE]
                      ELSE journal
        /\ \/ Move(g, "done") /\ UNCHANGED mishaps
           \/ Happens("lostCommit") /\ writer' = [writer EXCEPT ![g].pc = "compensate", ![g].job = TRUE]
     \/ /\ IF Committable(g) THEN Happens("statement") ELSE UNCHANGED mishaps
        /\ writer' = [writer EXCEPT ![g].pc = "compensate", ![g].job = TRUE, ![g].lost = ~Owns(g)]
        /\ UNCHANGED <<child, journal>>
  /\ UNCHANGED <<objects, indexed, stray, resolver>>

\* compensateIndexedWriteAfterCancel: the index only once the object is gone, and
\* all or nothing in what it reports.
Compensate(g) ==
  LET w == Current(g) IN
  /\ writer[g].pc = "compensate"
  /\ \/ /\ objects' = objects \ {w}
        /\ Move(g, "compensateIndex")
        /\ UNCHANGED mishaps
     \/ /\ Happens("provider")
        /\ writer' = [writer EXCEPT ![g].pc = "note", ![g].object = "unknown", ![g].index = "unknown",
                                    ![g].lost = FALSE]
        /\ UNCHANGED objects
  /\ UNCHANGED <<child, indexed, stray, journal, resolver>>

CompensateIndex(g) ==
  LET w == Current(g)
      report(st) == writer' = [writer EXCEPT ![g].pc = "note", ![g].object = st, ![g].index = st,
                                             ![g].lost = @ /\ st = "deleted"]
  IN  /\ writer[g].pc = "compensateIndex"
      /\ \/ /\ indexed' = indexed \ {w}
            /\ report(IF w \in indexed THEN "deleted" ELSE "unknown")
            /\ UNCHANGED mishaps
         \/ /\ Happens("statement")
            /\ report("unknown")
            /\ UNCHANGED indexed
      /\ UNCHANGED <<child, objects, stray, journal, resolver>>

\* updateTelegramWriteAfterCompensation, if the try has a row in the journal.
Note(g) ==
  LET w == Current(g)
      clean == writer[g].object = "deleted" /\ writer[g].index = "deleted"
  IN  /\ writer[g].pc = "note"
      /\ \/ /\ writer[g].op /\ Open(w)
            /\ journal' = [journal EXCEPT ![w].object = writer[g].object, ![w].index = writer[g].index,
                                          ![w].status = IF clean THEN "resolved" ELSE "pending",
                                          ![w].resolution = IF clean THEN "compensated" ELSE @,
                                          ![w].leased = FALSE]
            /\ UNCHANGED mishaps
         \/ /\ IF writer[g].op /\ Open(w) THEN Happens("statement") ELSE UNCHANGED mishaps
            /\ UNCHANGED journal
      /\ Move(g, IF writer[g].lost THEN "done" ELSE "failed")
      /\ UNCHANGED <<child, objects, indexed, stray, resolver>>

\* The second try, or the end of the item.
Again(g) ==
  /\ writer[g].pc = "failed"
  /\ IF writer[g].try = 1
     THEN /\ writer' = [writer EXCEPT ![g] = [NoWriter EXCEPT !.pc = "begin", !.try = 2, !.job = writer[g].job]]
          /\ UNCHANGED child
     ELSE /\ Move(g, "done")
          /\ child' = IF Owns(g) THEN [child EXCEPT !.status = "failed", !.lease = 0] ELSE child
  /\ UNCHANGED <<objects, indexed, stray, journal, resolver, mishaps>>

-----------------------------------------------------------------------------
(* The sweep over the journal (claimTelegramWriteReconciliations and       *)
(* resolveClaimedTelegramWrite).  It decides on the row as it was claimed. *)

ClaimRow(w) ==
  /\ resolver.pc = "idle" /\ Open(w) /\ journal[w].resolution # "operator_required"
  /\ journal' = [journal EXCEPT ![w].leased = TRUE]
  /\ resolver' = [pc |-> "look", write |-> w, row |-> journal[w], kept |-> child.status = "success"]
  /\ UNCHANGED <<child, writer, objects, indexed, stray, mishaps>>

HoldsRow == Open(resolver.write) /\ journal[resolver.write].leased

Look ==
  LET w == resolver.write
      row == resolver.row
      done == resolver.kept /\ row.file /\ row.object = "present" /\ row.index = "present"
      lost == row.object = "unknown" /\ ~row.path
  IN  /\ resolver.pc = "look"
      /\ IF done \/ lost
         THEN /\ journal' = IF ~HoldsRow THEN journal
                            ELSE IF done
                            THEN [journal EXCEPT ![w].status = "resolved", ![w].resolution = "committed", ![w].leased = FALSE]
                            ELSE [journal EXCEPT ![w].resolution = "operator_required", ![w].leased = FALSE]
              /\ resolver' = Resting
         ELSE /\ resolver' = IF HoldsRow THEN [resolver EXCEPT !.pc = "object"] ELSE Resting
              /\ UNCHANGED journal
      /\ UNCHANGED <<child, writer, objects, indexed, stray, mishaps>>

DeleteObject ==
  LET w == resolver.write
      try == resolver.row.path /\ resolver.row.object # "deleted"
  IN  /\ resolver.pc = "object"
      /\ \/ /\ objects' = IF try THEN objects \ {w} ELSE objects
            /\ resolver' = [resolver EXCEPT !.pc = "still", !.row.object = IF try THEN "deleted" ELSE @]
            /\ UNCHANGED mishaps
         \/ /\ try /\ Happens("provider")
            /\ resolver' = [resolver EXCEPT !.pc = "still", !.row.object = "unknown"]
            /\ UNCHANGED objects
      /\ UNCHANGED <<child, writer, indexed, stray, journal>>

StillHeld ==
  /\ resolver.pc = "still"
  /\ resolver' = IF HoldsRow THEN [resolver EXCEPT !.pc = "index"] ELSE Resting
  /\ UNCHANGED <<child, writer, objects, indexed, stray, journal, mishaps>>

DeleteIndex ==
  LET w == resolver.write
      try == resolver.row.file /\ resolver.row.index # "deleted"
  IN  /\ resolver.pc = "index"
      /\ \/ /\ indexed' = IF try THEN indexed \ {w} ELSE indexed
            /\ resolver' = [resolver EXCEPT !.pc = "record", !.row.index = IF try THEN "deleted" ELSE @]
            /\ UNCHANGED mishaps
         \/ /\ try /\ Happens("statement")
            /\ resolver' = [resolver EXCEPT !.pc = "record", !.row.index = "unknown"]
            /\ UNCHANGED indexed
      /\ UNCHANGED <<child, writer, objects, stray, journal>>

\* A file id the row did not carry when it was claimed leaves the index unknown.
Record ==
  LET w == resolver.write
      clean == resolver.row.object = "deleted" /\ resolver.row.index = "deleted"
  IN  /\ resolver.pc = "record"
      /\ journal' = IF HoldsRow
                    THEN [journal EXCEPT ![w].object = resolver.row.object, ![w].index = resolver.row.index,
                                         ![w].status = IF clean THEN "resolved" ELSE "pending",
                                         ![w].resolution = IF clean THEN "compensated" ELSE @,
                                         ![w].leased = FALSE]
                    ELSE journal
      /\ resolver' = Resting
      /\ UNCHANGED <<child, writer, objects, indexed, stray, mishaps>>

-----------------------------------------------------------------------------
Work(g) == \/ Begin(g) \/ Save(g) \/ MarkObject(g) \/ Insert(g) \/ MarkIndex(g) \/ Undo(g) \/ UndoIndex(g)
           \/ Validate(g) \/ SettleChild(g) \/ Compensate(g) \/ CompensateIndex(g) \/ Note(g) \/ Again(g)

Resolve == Look \/ DeleteObject \/ StillHeld \/ DeleteIndex \/ Record

Next == \/ \E g \in Leases : ClaimChild(g) \/ Work(g)
        \/ \E w \in Writes : ClaimRow(w)
        \/ Resolve \/ LeaseExpires \/ RetryChild \/ CrashAll

Spec == Init /\ [][Next]_vars

\* The sweep runs on a timer; promises settle.
Fairness == /\ \A g \in Leases : WF_vars(Work(g))
            /\ \A w \in Writes : WF_vars(ClaimRow(w))
            /\ WF_vars(Resolve)

FairSpec == Spec /\ Fairness

-----------------------------------------------------------------------------
TypeOK ==
  /\ child \in [status : {"pending", "downloading", "success", "failed"}, lease : 0 .. Claims,
                kept : Writes \cup {None}]
  /\ objects \subseteq Writes /\ indexed \subseteq Writes /\ stray \subseteq Writes
  /\ \A w \in Writes : /\ journal[w].status \in {"none", "pending", "resolved"}
                       /\ journal[w].object \in {"unknown", "present", "deleted"}
                       /\ journal[w].index \in {"unknown", "present", "deleted"}
  /\ resolver.write \in Writes \cup {None}
  /\ mishaps \in 0 .. MaxMishaps

\* The object and the index row of a journalled write that its item did not keep
\* are never forgotten: while one of them exists the journal row is open, whoever
\* of the worker, its compensation and the sweep came first.  Of a stray row nothing is
\* known: its object is taken back, its journal row closed, and it stays in files.
EvidenceKept ==
  \A w \in (objects \cup indexed) \ {child.kept} :
    journal[w].status # "none" => Open(w)

\* No item goes to another worker while an earlier write of it is unresolved.
NoWriteBehind ==
  \A g \in Leases, w \in Writes : Owns(g) /\ Open(w) => w[1] = g

JournalAccounts == EvidenceKept /\ NoWriteBehind

\* The object of a journalled write that was given up is deleted in the end, if
\* the journal knows its path and has not left it to an operator.
Returned ==
  \A w \in objects \ {child.kept} :
    Open(w) /\ journal[w].path => Owns(w[1]) \/ journal[w].resolution = "operator_required"
=============================================================================
