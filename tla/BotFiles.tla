------------------------------- MODULE BotFiles -------------------------------
(***************************************************************************)
(* Files of the server that the bot deletes (telegramCommands.ts): one, by *)
(* its identifier, or all that are there when the question is asked.  A    *)
(* file is on the disk before it is indexed, and uploads go on while the   *)
(* user reads the question.                                                *)
(***************************************************************************)
EXTENDS Naturals, FiniteSets

CONSTANTS
  Updates,     \* handlers at work at the same time
  Files,
  MaxAsks,     \* bound on what the user does
  MaxFailures  \* bound on objects and rows that cannot be removed

VARIABLES
  disk,      \* objects on the disk
  rows,      \* files indexed
  upload,    \* where each file stands: "none", "saved", "kept"
  permits,    \* destructiveConfirmations for one file
  named,     \* questions asked about one file, by file
  clear,     \* pendingStorageClearSnapshots: none, or one with what was found
  newer,     \* files saved after that question
  deleter,
  asks,
  failures

fileVars == <<disk, rows, upload, newer>>
vars == <<fileVars, permits, named, clear, deleter, asks, failures>>

Rest    == [pc |-> "off", file |-> 0, found |-> {}, left |-> {}, orphans |-> {}]
Nothing == [open |-> FALSE, ids |-> {}, orphans |-> {}]

Init ==
  /\ disk = {} /\ rows = {} /\ upload = [f \in Files |-> "none"] /\ newer = {}
  /\ permits = [f \in Files |-> 0] /\ named = [f \in Files |-> 0]
  /\ clear = Nothing
  /\ deleter = [h \in Updates |-> Rest]
  /\ asks = 0 /\ failures = 0

Idle       == {h \in Updates : deleter[h].pc = "off"}
Free(h)    == Idle # {} /\ h = CHOOSE g \in Idle : TRUE   \* it does not matter which
Goto(h, r) == deleter' = [deleter EXCEPT ![h] = r]
Leave(h)   == Goto(h, Rest)
Act(h)     == asks < MaxAsks /\ asks' = asks + 1 /\ Free(h) /\ UNCHANGED failures
Count      == failures < MaxFailures /\ failures' = failures + 1
Clearing   == {h \in Updates : deleter[h].pc \in {"ids", "rest"}}

-----------------------------------------------------------------------------
(* Uploads to the server.                                                  *)

Save(f) ==
  /\ upload[f] = "none"
  /\ upload' = [upload EXCEPT ![f] = "saved"]
  /\ disk' = disk \cup {f}
  /\ newer' = IF clear.open \/ Clearing # {} THEN newer \cup {f} ELSE newer
  /\ UNCHANGED <<rows, permits, named, clear, deleter, asks, failures>>

Index(f) ==
  /\ upload[f] = "saved"
  /\ upload' = [upload EXCEPT ![f] = "kept"]
  /\ rows' = rows \cup {f}
  /\ UNCHANGED <<disk, newer, permits, named, clear, deleter, asks, failures>>

-----------------------------------------------------------------------------
(* One file.                                                               *)

\* /delete with an identifier that is found; the question is bound to the message shown.
AskDelete(h, f) ==
  /\ Act(h) /\ f \in rows
  /\ permits' = [permits EXCEPT ![f] = @ + 1]
  /\ named' = [named EXCEPT ![f] = @ + 1]
  /\ UNCHANGED <<clear, deleter>> /\ UNCHANGED fileVars

\* The button takes the token, then the file is looked up where the user is now.
ConfirmDelete(h, f) ==
  /\ Act(h) /\ named[f] > 0
  /\ IF permits[f] = 0 THEN UNCHANGED <<permits, deleter>>
     ELSE /\ permits' = [permits EXCEPT ![f] = @ - 1]
          /\ Goto(h, [Rest EXCEPT !.pc = "lookup", !.file = f])
  /\ UNCHANGED <<named, clear>> /\ UNCHANGED fileVars

LookedUp(h) ==
  /\ deleter[h].pc = "lookup"
  /\ IF deleter[h].file \in rows THEN Goto(h, [deleter[h] EXCEPT !.pc = "object"]) \/ Leave(h) ELSE Leave(h)
  /\ UNCHANGED <<permits, named, clear, asks, failures>> /\ UNCHANGED fileVars

ObjectRemoved(h) ==
  /\ deleter[h].pc = "object"
  /\ \/ disk' = disk \ {deleter[h].file} /\ Goto(h, [deleter[h] EXCEPT !.pc = "row"]) /\ UNCHANGED failures
     \/ Count /\ Leave(h) /\ UNCHANGED disk
  /\ UNCHANGED <<rows, upload, newer, permits, named, clear, asks>>

RowDeleted(h) ==
  /\ deleter[h].pc = "row"
  /\ \/ rows' = rows \ {deleter[h].file} /\ UNCHANGED failures
     \/ Count /\ UNCHANGED rows
  /\ Leave(h)
  /\ UNCHANGED <<disk, upload, newer, permits, named, clear, asks>>

TokenLost(f) ==
  /\ permits[f] > 0
  /\ permits' = [permits EXCEPT ![f] = @ - 1]
  /\ UNCHANGED <<named, clear, deleter, asks, failures>> /\ UNCHANGED fileVars

-----------------------------------------------------------------------------
(* All files of the server.                                                *)

\* Every press of the keyboard scans the disk first.
AskClear(h) ==
  /\ Act(h) /\ ~clear.open /\ Clearing = {}
  /\ Goto(h, [Rest EXCEPT !.pc = "scanned", !.found = disk])
  /\ UNCHANGED <<permits, named, clear>> /\ UNCHANGED fileVars

\* What is not indexed by now is taken for an orphan; both lists are kept.
Snapshot(h) ==
  /\ deleter[h].pc = "scanned"
  /\ clear' = [open |-> TRUE, ids |-> rows, orphans |-> deleter[h].found \ rows]
  /\ newer' = {}
  /\ Leave(h)
  /\ UNCHANGED <<disk, rows, upload, permits, named, asks, failures>>

\* The way back, five minutes, or another user who presses the button.
ClearLost ==
  /\ clear.open
  /\ clear' = Nothing
  /\ UNCHANGED <<permits, named, deleter, asks, failures>> /\ UNCHANGED fileVars

Clears(h, ids, orphans) ==
  /\ Act(h) /\ clear.open
  /\ clear' = Nothing
  /\ Goto(h, [Rest EXCEPT !.pc = "ids", !.left = ids, !.orphans = orphans])
  /\ UNCHANGED <<permits, named>> /\ UNCHANGED fileVars

ConfirmClear(h) == Clears(h, clear.ids \cap rows, clear.orphans)

\* A file whose object cannot be removed, or whose row cannot, is passed over.
ClearFile(h) ==
  /\ deleter[h].pc = "ids" /\ deleter[h].left # {}
  /\ \E f \in deleter[h].left :
       /\ Goto(h, [deleter[h] EXCEPT !.left = @ \ {f}])
       /\ \/ disk' = disk \ {f} /\ rows' = rows \ {f} /\ UNCHANGED failures
          \/ Count /\ UNCHANGED <<disk, rows>>
          \/ Count /\ disk' = disk \ {f} /\ UNCHANGED rows
  /\ UNCHANGED <<upload, newer, permits, named, clear, asks>>

ClearOrphan(h) ==
  /\ deleter[h].pc \in {"ids", "rest"} /\ deleter[h].left = {}
  /\ IF deleter[h].orphans = {} THEN Leave(h) /\ UNCHANGED disk
     ELSE \E f \in deleter[h].orphans :
            /\ disk' = disk \ {f}
            /\ Goto(h, [deleter[h] EXCEPT !.pc = "rest", !.orphans = @ \ {f}])
  /\ UNCHANGED <<rows, upload, newer, permits, named, clear, asks, failures>>

-----------------------------------------------------------------------------
Continue(h) == LookedUp(h) \/ ObjectRemoved(h) \/ RowDeleted(h) \/ Snapshot(h) \/ ClearFile(h) \/ ClearOrphan(h)

Next == \/ \E f \in Files : \/ Save(f) \/ Index(f) \/ TokenLost(f)
                            \/ \E h \in Updates : AskDelete(h, f) \/ ConfirmDelete(h, f)
        \/ \E h \in Updates : Continue(h) \/ AskClear(h) \/ ConfirmClear(h)
        \/ ClearLost

Work == \E h \in Updates : Continue(h)

Spec == Init /\ [][Next]_vars /\ WF_vars(Work)

-----------------------------------------------------------------------------
\* The values of the files are of their types.
TypeOK ==
  /\ disk \subseteq Files /\ rows \subseteq Files /\ newer \subseteq Files
  /\ upload \in [Files -> {"none", "saved", "kept"}]
  /\ permits \in [Files -> Nat] /\ named \in [Files -> Nat]
  /\ clear \in [open : BOOLEAN, ids : SUBSET Files, orphans : SUBSET Files]
  /\ \A h \in Updates : deleter[h].pc \in {"off", "lookup", "object", "row", "scanned", "ids", "rest"}

\* A file that came after the question is not among the files that were agreed to be
\* deleted, however long the user takes to answer and the deletion to run.
NewerKept == \A f \in newer : f \in disk \/ named[f] > 0

\* Every button has been seen to.
Answered == Idle = Updates
=============================================================================
