------------------------------ MODULE TaskCenter ------------------------------
(***************************************************************************)
(* The task centre of the bot (telegramCommands.ts, telegramTaskCenter.ts):*)
(* one card lists the downloads of a chat, which live in three places: the *)
(* queue in memory, the background jobs of channels and the yt-dlp tasks.  *)
(* Buttons and commands act on one of them; a bulk confirmation ends all.  *)
(*                                                                         *)
(* A handler authenticates the user and looks the task up before it acts,  *)
(* so what it does meets a task that has moved on.  The states of a task   *)
(* are those the card tells apart: the modules of the three kinds detail   *)
(* them.  A channel job has a row and a group in the queue in memory, which*)
(* are changed one after the other.                                        *)
(***************************************************************************)
EXTENDS Naturals, FiniteSets

CONSTANTS
  Updates,       \* handlers at work at the same time
  Memory,        \* tasks by kind
  Channel,
  YtDlp,
  MaxPresses,    \* bound on presses and commands
  MaxChanges     \* bound on what happens to the tasks meanwhile

VARIABLES
  task,      \* the state of each task
  busy,      \* channel jobs that scan or download just now
  group,     \* the group of a channel job in the queue
  card,      \* taskCenterCardOwners: "unowned" or "owned"
  question,  \* pendingTaskCenterCancels of the card
  questions, \* cancellations asked about, by task
  lapsed,    \* of these, the ones whose two minutes passed
  accepted,  \* of these, the ones confirmed
  bulk,      \* a bulk confirmation is open
  doomed,    \* tasks a confirmed bulk cancellation found
  press,     \* the handlers
  presses,   \* what the user may still do
  changes

taskVars == <<task, busy, group>>
askVars  == <<card, question, questions, lapsed, accepted>>
vars     == <<taskVars, askVars, bulk, doomed, press, presses, changes>>

Tasks == Memory \cup Channel \cup YtDlp
\* A group of the memory that is cancelled ends with the file it has in hand, and is on
\* the card no more (ordinaryTaskCenterItem).
Over  == {"cancelling", "cancelled", "done", "failed"}
Alive == {t \in Tasks : task[t] \notin Over}
Rest  == [pc |-> "off", act |-> "none", task |-> 0, left |-> {}]

\* What the user may do: with the card, with commands, with all tasks of the chat.
Budgets == {[card |-> MaxPresses, word |-> 0, all |-> 0], [card |-> 1, word |-> 1, all |-> 0],
            [card |-> MaxPresses - 2, word |-> 0, all |-> 2], [card |-> 0, word |-> MaxPresses - 2, all |-> 2]}

Init ==
  /\ \E s \in {"waiting", "running", "cooling"} :
       /\ task = [t \in Tasks |-> IF s = "cooling" /\ t \in YtDlp THEN "failed" ELSE s]
       /\ busy = IF s = "running" THEN Channel ELSE {}
       /\ group = [t \in Channel |-> IF s = "running" THEN "open" ELSE "none"]
  /\ card = "owned" /\ question = 0      \* of an earlier /tasks
  /\ questions = [t \in Tasks |-> 0] /\ lapsed = [t \in Tasks |-> 0] /\ accepted = [t \in Tasks |-> 0]
  /\ bulk = FALSE /\ doomed = {}
  /\ press = [h \in Updates |-> Rest]
  /\ presses \in Budgets /\ changes = 0

Idle       == {h \in Updates : press[h].pc = "off"}
Free(h)    == Idle # {} /\ h = CHOOSE g \in Idle : TRUE   \* it does not matter which
Goto(h, r) == press' = [press EXCEPT ![h] = r]
Leave(h)   == Goto(h, Rest)
Pressed(h, way) == /\ presses[way] > 0 /\ presses' = [presses EXCEPT ![way] = @ - 1]
                   /\ Free(h) /\ UNCHANGED changes
Set(t, s)  == task' = [task EXCEPT ![t] = s]

Count      == changes < MaxChanges /\ changes' = changes + 1

\* The card lists a channel job that runs only while it scans or downloads
\* (listTelegramActiveTaskQueues), and a yt-dlp task that failed.
Listed(t) == CASE t \in Memory  -> task[t] \notin Over
               [] t \in Channel -> task[t] \in {"waiting", "paused", "cooling"} \/ (task[t] = "running" /\ t \in busy)
               [] t \in YtDlp   -> task[t] \in {"waiting", "running", "failed"}

\* The buttons of the view of one task.
Buttons(t) ==
  {"cancel_prompt"}
  \cup (IF t \in YtDlp
        THEN IF task[t] = "failed" THEN {"retry"} ELSE {}
        ELSE CASE task[t] = "waiting" -> {"start"}
               [] task[t] = "running" -> {"pause"}
               [] task[t] \in {"paused", "pausing"} -> {"resume"}
               [] OTHER -> {})

-----------------------------------------------------------------------------
(* The card.                                                               *)

\* /tasks: the card is sent first and has an owner only then.
ShowTasks(h) ==
  /\ Pressed(h, "card")
  /\ card' = "unowned"
  /\ Goto(h, [Rest EXCEPT !.pc = "card"])
  /\ UNCHANGED <<question, questions, lapsed, accepted, bulk, doomed>> /\ UNCHANGED taskVars

CardOwned(h) ==
  /\ press[h].pc = "card"
  /\ card' = "owned"
  /\ question' = 0                     \* a new card, a new key
  /\ Leave(h)
  /\ UNCHANGED <<questions, lapsed, accepted, bulk, doomed, presses, changes>> /\ UNCHANGED taskVars

\* A button of an owned card, or of an earlier state of it: the confirmation stays on the
\* screen of the user for as long as nothing replaces it.  That a card expires after a day
\* is left out: every press renews it.
Press(h, act, t) ==
  /\ card = "owned"
  /\ IF act = "cancel_confirm" THEN questions[t] > 0 ELSE act \in Buttons(t) /\ Listed(t)
  /\ Pressed(h, "card")
  /\ Goto(h, [Rest EXCEPT !.pc = "find", !.act = act, !.task = t])
  /\ UNCHANGED <<bulk, doomed>> /\ UNCHANGED askVars /\ UNCHANGED taskVars

AskExpires ==
  /\ question # 0
  /\ lapsed' = [lapsed EXCEPT ![question] = @ + 1]
  /\ question' = 0
  /\ UNCHANGED <<card, questions, accepted, bulk, doomed, press, presses, changes>> /\ UNCHANGED taskVars

\* Whether a group of the memory has a file in hand: during a cooldown it may have.
InHand(t) == CASE task[t] \in {"running", "pausing", "cancelling"} -> {TRUE}
               [] task[t] = "cooling" -> BOOLEAN
               [] OTHER -> {FALSE}

\* The group of the queue in memory (DownloadTaskQueue), at once.  With a file in hand it is
\* only marked, and a pause writes its mark over that of a cancellation.
InMemory(t, act) ==
  /\ \E file \in InHand(t) :
       CASE act = "pause" /\ task[t] \notin {"pausing", "paused"} \cup (Over \ {"cancelling"}) ->
              Set(t, IF file THEN "pausing" ELSE "paused")
         [] act = "resume" /\ task[t] \in {"pausing", "paused"} -> Set(t, IF file THEN "running" ELSE "waiting")
         [] act = "cancel_confirm" /\ task[t] \notin Over -> Set(t, IF file THEN "cancelling" ELSE "cancelled")
         [] OTHER -> UNCHANGED task
  /\ doomed' = IF act = "pause" /\ task[t] = "cancelling" THEN doomed \ {t} ELSE doomed

\* What a button does once the task was found: a task of the memory is changed at once,
\* the row of another is read again and then written.
Operate(h, t, act) ==
  IF t \in Memory THEN InMemory(t, act) /\ Leave(h)
  ELSE Goto(h, [press[h] EXCEPT !.pc = "row"]) /\ UNCHANGED <<task, doomed>>

\* The confirmation uses the question up, whatever it was about.
Confirm(h) ==
  LET t == press[h].task
  IN  /\ press[h].pc = "find" /\ press[h].act = "cancel_confirm"
      /\ IF ~Listed(t) THEN Leave(h) /\ UNCHANGED <<task, doomed, question, accepted>>
         ELSE /\ question' = 0
              /\ IF question # t THEN Leave(h) /\ UNCHANGED <<task, doomed, accepted>>
                 ELSE accepted' = [accepted EXCEPT ![t] = @ + 1] /\ Operate(h, t, "cancel_confirm")
      /\ UNCHANGED <<card, questions, lapsed, busy, group, bulk, presses, changes>>

Ask(h) ==
  LET t == press[h].task
  IN  /\ press[h].pc = "find" /\ press[h].act = "cancel_prompt"
      /\ IF Listed(t)
         THEN /\ question' = t
              /\ questions' = [questions EXCEPT ![t] = @ + 1]
         ELSE UNCHANGED <<question, questions>>
      /\ Leave(h)
      /\ UNCHANGED <<card, lapsed, accepted, bulk, doomed, presses, changes>> /\ UNCHANGED taskVars

Found(h) ==
  LET t == press[h].task
  IN  /\ press[h].pc = "find" /\ press[h].act \notin {"cancel_prompt", "cancel_confirm"}
      /\ IF Listed(t) THEN Operate(h, t, press[h].act) ELSE Leave(h) /\ UNCHANGED <<task, doomed>>
      /\ UNCHANGED <<busy, group, bulk, presses, changes>> /\ UNCHANGED askVars

\* The row is read: the job of a channel is paused only if it runs.
RowRead(h) ==
  LET t == press[h].task
      act == press[h].act
  IN  /\ press[h].pc = "row"
      /\ IF /\ Listed(t)
            /\ t \in Channel => /\ act = "pause" => task[t] = "running"
                                /\ act = "start" => task[t] # "running"   \* else its files only come first
         THEN Goto(h, [press[h] EXCEPT !.pc = "write"]) ELSE Leave(h)
      /\ UNCHANGED <<bulk, doomed, presses, changes>> /\ UNCHANGED askVars /\ UNCHANGED taskVars

\* A command names the task: no list is read for a channel job.
Command(h, act, t) ==
  /\ act \in {"pause", "resume", "cancel_confirm"} /\ (t \in YtDlp => act = "cancel_confirm")
  /\ Pressed(h, "word")
  /\ IF t \in Memory THEN InMemory(t, act) /\ UNCHANGED press
     ELSE /\ Goto(h, [Rest EXCEPT !.pc = IF t \in Channel THEN "write" ELSE "row", !.act = act, !.task = t])
          /\ UNCHANGED <<task, doomed>>
  /\ UNCHANGED <<busy, group, bulk>> /\ UNCHANGED askVars

-----------------------------------------------------------------------------
(* The rows of channel jobs and yt-dlp tasks.                              *)

\* After the row: the group of a channel job, or the next task of a bulk cancellation.
Then(h, next) == IF press[h].act = "bulk" /\ next = "off" THEN Goto(h, [press[h] EXCEPT !.pc = "bulk", !.task = 0])
                 ELSE IF next = "off" THEN Leave(h)
                 ELSE Goto(h, [press[h] EXCEPT !.pc = next])

Cancels(act) == act \in {"cancel_confirm", "bulk"}

Written(h, next) ==
  LET t == press[h].task
      act == press[h].act
  IN  /\ press[h].pc = "write"
      /\ IF t \in YtDlp
         THEN /\ CASE Cancels(act) /\ task[t] \notin {"cancelled", "done"} -> Set(t, "cancelled") /\ UNCHANGED doomed
                   [] act = "retry" /\ task[t] \in {"failed", "cancelled"} ->
                        (Set(t, "waiting") /\ doomed' = doomed \ {t}) \/ UNCHANGED <<task, doomed>>
                   [] OTHER -> UNCHANGED <<task, doomed>>
              /\ Then(h, "off")
         ELSE /\ IF task[t] \in Over THEN UNCHANGED task /\ Then(h, "off")
                 ELSE CASE act = "pause"  -> Set(t, "paused") /\ Then(h, IF group[t] = "none" THEN "off" ELSE "group")
                        [] Cancels(act)   -> Set(t, "cancelled") /\ Then(h, next)
                        [] act \in {"resume", "start"} ->
                             \/ task[t] = "paused" /\ Set(t, "running") /\ Then(h, "group")
                             \/ UNCHANGED task /\ Then(h, "off")
              /\ UNCHANGED doomed
      /\ busy' = busy \ {u \in Channel : task'[u] # "running"}
      /\ UNCHANGED <<group, bulk, presses, changes>> /\ UNCHANGED askVars

RowWritten(h) == Written(h, "group")

GroupFollows(h) ==
  LET t == press[h].task
      act == press[h].act
  IN  /\ press[h].pc = "group"
      /\ group' = [group EXCEPT ![t] =
                    IF Cancels(act) /\ @ # "none" THEN "stopped"
                    ELSE IF act = "pause" /\ @ = "open" THEN "held"
                    ELSE IF act \in {"resume", "start"} /\ @ = "held" THEN "open" ELSE @]
      /\ Then(h, "off")
      /\ UNCHANGED <<task, busy, bulk, doomed, presses, changes>> /\ UNCHANGED askVars

\* A statement fails: the user is told.
Fails(h) ==
  /\ press[h].pc \in {"find", "row", "write", "card", "impact", "list"} /\ Count
  /\ Leave(h)
  /\ doomed' = IF press[h].act = "bulk" THEN {} ELSE doomed
  /\ UNCHANGED <<bulk, presses>> /\ UNCHANGED askVars /\ UNCHANGED taskVars

-----------------------------------------------------------------------------
(* All tasks of the chat.                                                  *)

AskBulk(h) ==
  /\ ~bulk /\ Pressed(h, "all")
  /\ Goto(h, [Rest EXCEPT !.pc = "impact"])
  /\ UNCHANGED <<bulk, doomed>> /\ UNCHANGED askVars /\ UNCHANGED taskVars

BulkAsked(h) ==
  /\ press[h].pc = "impact"
  /\ bulk' = (bulk \/ \E t \in Tasks : Listed(t) /\ task[t] # "failed")
  /\ Leave(h)
  /\ UNCHANGED <<doomed, presses, changes>> /\ UNCHANGED askVars /\ UNCHANGED taskVars

\* The way back, five minutes, or another user who presses the button.
BulkLost ==
  /\ bulk
  /\ bulk' = FALSE
  /\ UNCHANGED <<doomed, press, presses, changes>> /\ UNCHANGED askVars /\ UNCHANGED taskVars

ConfirmBulk(h) ==
  /\ bulk /\ Pressed(h, "all")
  /\ bulk' = FALSE
  /\ Goto(h, [Rest EXCEPT !.pc = "list", !.act = "bulk"])
  /\ UNCHANGED doomed /\ UNCHANGED askVars /\ UNCHANGED taskVars

List(h, rows) ==
  /\ press[h].pc = "list"
  /\ Goto(h, [press[h] EXCEPT !.pc = "bulk", !.left = rows])
  /\ doomed' = doomed \cup {t \in Tasks : Listed(t) /\ task[t] \notin Over}
  /\ UNCHANGED <<bulk, presses, changes>> /\ UNCHANGED askVars /\ UNCHANGED taskVars

Rows == {t \in Channel \cup YtDlp : Listed(t) /\ task[t] \notin Over}

BulkList(h) == List(h, Rows)

\* The jobs of channels come first, one by one.
BulkNext(h) ==
  LET left == press[h].left
      first == IF left \cap Channel # {} THEN left \cap Channel ELSE left
  IN  /\ press[h].pc = "bulk" /\ left # {}
      /\ \E t \in first : Goto(h, [press[h] EXCEPT !.pc = "write", !.task = t, !.left = @ \ {t}])
      /\ UNCHANGED <<bulk, doomed, presses, changes>> /\ UNCHANGED askVars /\ UNCHANGED taskVars

\* The queue in memory last, in one go: every group that is there by then.
BulkMemory(h) ==
  LET there == {t \in Memory : task[t] \notin Over}
  IN  /\ press[h].pc = "bulk" /\ press[h].left = {}
      /\ \E files \in SUBSET there :
           /\ \A t \in there : (t \in files) \in InHand(t)
           /\ task' = [t \in Tasks |-> IF t \in files THEN "cancelling" ELSE IF t \in there THEN "cancelled" ELSE task[t]]
      /\ doomed' = doomed \cup there
      /\ Leave(h)
      /\ UNCHANGED <<busy, group, bulk, presses, changes>> /\ UNCHANGED askVars

-----------------------------------------------------------------------------
(* What happens to the tasks meanwhile.                                    *)

Turns(t, s) ==
  /\ Set(t, s)
  /\ busy' = busy \ {t}
  /\ UNCHANGED <<group, bulk, doomed, press, presses>> /\ UNCHANGED askVars

Begins(t) ==
  /\ Count /\ task[t] = "waiting" /\ Set(t, "running")
  /\ IF t \in Channel
     THEN busy' = busy \cup {t} /\ group' = [group EXCEPT ![t] = IF @ = "none" THEN "open" ELSE @]
     ELSE UNCHANGED <<busy, group>>
  /\ UNCHANGED <<bulk, doomed, press, presses>> /\ UNCHANGED askVars

\* The last file in hand ends: a group that pauses is paused if others wait.
Ends(t)   == \/ Count /\ task[t] = "running" /\ Turns(t, "done")
             \/ Count /\ task[t] = "pausing" /\ \E s \in {"paused", "done"} : Turns(t, s)
Stops(t)  == t \in Memory /\ task[t] = "cancelling" /\ Turns(t, "cancelled") /\ UNCHANGED changes
Breaks(t) == Count /\ t \in YtDlp /\ task[t] = "running" /\ Turns(t, "failed")
Cools(t)  == Count /\ t \notin YtDlp /\ task[t] = "running" /\ Turns(t, "cooling")
Thaws(t)  == Count /\ task[t] = "cooling" /\ Turns(t, "waiting")

\* Between two batches a job does nothing, and is not listed.
BatchEnds(t) ==
  /\ Count /\ t \in busy
  /\ busy' = busy \ {t}
  /\ UNCHANGED <<task, group, bulk, doomed, press, presses>> /\ UNCHANGED askVars

BatchBegins(t) ==
  /\ t \in Channel \ busy /\ task[t] = "running"
  /\ busy' = busy \cup {t}
  /\ group' = [group EXCEPT ![t] = IF @ = "none" THEN "open" ELSE @]
  /\ UNCHANGED <<task, bulk, doomed, press, presses, changes>> /\ UNCHANGED askVars

-----------------------------------------------------------------------------
Continue(h) == \/ CardOwned(h) \/ Ask(h) \/ Confirm(h) \/ Found(h) \/ RowRead(h) \/ RowWritten(h) \/ GroupFollows(h)
               \/ BulkAsked(h) \/ BulkList(h) \/ BulkNext(h) \/ BulkMemory(h)

Next ==
  \/ \E h \in Updates :
       \/ Continue(h) \/ Fails(h) \/ ShowTasks(h) \/ AskBulk(h) \/ ConfirmBulk(h)
       \/ \E t \in Tasks :
            \/ \E act \in {"start", "pause", "resume", "retry", "cancel_prompt", "cancel_confirm"} : Press(h, act, t)
            \/ \E act \in {"pause", "resume", "cancel_confirm"} : Command(h, act, t)
  \/ AskExpires \/ BulkLost
  \/ \E t \in Tasks : Begins(t) \/ Ends(t) \/ Stops(t) \/ Breaks(t) \/ Cools(t) \/ Thaws(t) \/ BatchEnds(t) \/ BatchBegins(t)

Work == \E h \in Updates : Continue(h)

Spec == Init /\ [][Next]_vars /\ WF_vars(Work)

-----------------------------------------------------------------------------
\* The values of the task centre are of their types.
TypeOK ==
  /\ task \in [Tasks -> Over \cup {"waiting", "running", "pausing", "paused", "cooling"}]
  /\ busy \subseteq Channel
  /\ group \in [Channel -> {"none", "open", "held", "stopped"}]
  /\ card \in {"unowned", "owned"} /\ question \in Tasks \cup {0} /\ bulk \in BOOLEAN
  /\ \A h \in Updates : /\ press[h].pc \in {"off", "card", "find", "row", "write", "group", "impact", "list", "bulk"}
                        /\ press[h].left \subseteq Tasks
  /\ doomed \subseteq Tasks

\* A cancellation takes a question about that very task, asked less than two minutes ago,
\* and each question serves one, however many buttons of the card are pressed.
AskedAndConfirmed == \A t \in Tasks : accepted[t] + lapsed[t] + (IF question = t THEN 1 ELSE 0) <= questions[t]

\* Once a bulk cancellation is through, all it found are over or end with the file they have
\* in hand, whatever became of the tasks while it went from one to the next; unless a
\* statement failed, or the user had the task tried again, or paused a group that was still
\* ending: that one is alive again (what CancelHolds of DownloadTaskQueue is about).
BulkTakesAll == (\A h \in Updates : press[h].act # "bulk") => doomed \cap Alive = {}

\* The files of a cancelled job do not stay in the queue.
StoppedWithItsJob ==
  \A t \in Channel : task[t] = "cancelled" => \/ group[t] \in {"none", "stopped"}
                                             \/ \E h \in Updates : press[h].pc = "group" /\ press[h].task = t

Sound == AskedAndConfirmed /\ BulkTakesAll /\ StoppedWithItsJob

\* Every button has been seen to.
Answered == Idle = Updates
=============================================================================
