----------------------------- MODULE AgreementProofs -----------------------------
(***************************************************************************)
(* What is done is what the user was shown and agreed to: four parts of    *)
(* the service of which each has an invariant of its own, and of which a   *)
(* behaviour of MCServices is one: the task centre, the files the bot      *)
(* deletes, the conversation with the bot, and how accounts are set up.    *)
(***************************************************************************)
EXTENDS MCServices, FiniteSetTheorems, SequenceTheorems, WellFoundedInduction, TLAPS

-----------------------------------------------------------------------------
(* The task centre.  In its part the variables have other names.           *)

task      == v1
share     == v3   \* group
question  == v5
questions == v6
lapsed    == v7
accepted  == v8
doomed    == v10
press     == v11

Endings    == {"cancelling", "cancelled", "done", "failed"}
Postures  == Endings \cup {"waiting", "running", "pausing", "paused", "cooling"}
Acts    == {"none", "start", "pause", "resume", "retry", "cancel_prompt", "cancel_confirm", "bulk"}
Presses == [pc : {"off", "card", "find", "row", "write", "group", "impact", "list", "bulk"}, act : Acts,
            task : C!Tasks \cup {0}, left : SUBSET C!Tasks]

CenterTyped ==
  /\ task \in [C!Tasks -> Postures] /\ share \in [Channel -> {"none", "open", "held", "stopped"}]
  /\ question \in C!Tasks \cup {0} /\ doomed \subseteq C!Tasks
  /\ questions \in [C!Tasks -> Nat] /\ lapsed \in [C!Tasks -> Nat] /\ accepted \in [C!Tasks -> Nat]
  /\ press \in [Updates -> Presses]

\* What a handler is about: a row is that of a job or of a yt-dlp task, and only the latter is retried.
About(x) ==
  /\ x.pc \in {"find", "row", "write", "group"} => x.task \in C!Tasks /\ x.act # "none"
  /\ x.pc \in {"row", "write"} => x.task \notin Memory
  /\ x.pc \in {"row", "write"} => x.act # "cancel_prompt"
  /\ x.pc = "group" => x.task \in Channel
  /\ x.pc \in {"find", "row", "write"} /\ x.act = "retry" => x.task \in YtDlp
  /\ x.act = "bulk" => x.pc \in {"list", "write", "group", "bulk"} /\ x.left \subseteq Channel \cup YtDlp
  /\ x.pc \in {"list", "bulk"} => x.act = "bulk"

\* A bulk cancellation still comes to the task.
Reaches(x, t) == /\ x.act = "bulk" /\ x.pc # "list"
                 /\ t \in x.left \/ t \in Memory \/ (x.pc = "write" /\ x.task = t)

CenterInv ==
  /\ CenterTyped /\ C!AskedAndConfirmed
  /\ \A h \in Updates : About(press[h])
  /\ \A t \in doomed : task[t] \in Endings \/ \E h \in Updates : Reaches(press[h], t)
  /\ \A t \in Channel : task[t] = "cancelled" =>
       \/ share[t] \in {"none", "stopped"}
       \/ \E h \in Updates : press[h].pc = "group" /\ press[h].task = t /\ C!Cancels(press[h].act)

USE DEF task, share, question, questions, lapsed, accepted, doomed, press

\* The group of a cancelled job is about to be stopped.
Stopping(x, t) == x.pc = "group" /\ x.task = t /\ C!Cancels(x.act)

LEMMA CenterStarts == C!Init => CenterInv
<1> SUFFICES ASSUME C!Init PROVE CenterInv
  OBVIOUS
<1>1. PICK s \in {"waiting", "running", "cooling"} :
        /\ task = [t \in C!Tasks |-> IF s = "cooling" /\ t \in YtDlp THEN "failed" ELSE s]
        /\ share = [t \in Channel |-> IF s = "running" THEN "open" ELSE "none"]
  BY DEF C!Init
<1>2. /\ question = 0 /\ doomed = {} /\ press = [h \in Updates |-> C!Rest]
      /\ questions = [t \in C!Tasks |-> 0] /\ lapsed = [t \in C!Tasks |-> 0] /\ accepted = [t \in C!Tasks |-> 0]
  BY DEF C!Init
<1>3. C!Rest \in Presses /\ About(C!Rest)
  BY DEF C!Rest, Presses, Acts, About
<1>4. CenterTyped
  BY <1>1, <1>2, <1>3 DEF CenterTyped, Postures, Endings
<1>5. C!AskedAndConfirmed
  BY <1>2, TasksApart DEF C!AskedAndConfirmed
<1>6. \A t \in Channel : task[t] # "cancelled"
  BY <1>1 DEF C!Tasks
<1> QED BY <1>2, <1>3, <1>4, <1>5, <1>6 DEF CenterInv

\* A step of one handler, which goes on as x.
LEMMA HandlerKeeps ==
  ASSUME CenterInv, NEW h \in Updates, NEW x, press' = [press EXCEPT ![h] = x], x \in Presses, About(x),
         task' \in [C!Tasks -> Postures], share' \in [Channel -> {"none", "open", "held", "stopped"}],
         question' \in C!Tasks \cup {0}, doomed' \subseteq C!Tasks,
         questions' \in [C!Tasks -> Nat], lapsed' \in [C!Tasks -> Nat], accepted' \in [C!Tasks -> Nat],
         C!AskedAndConfirmed',
         \A t \in doomed' : task[t] \in Endings => task'[t] \in Endings,
         \A t \in doomed' : t \in doomed \/ task'[t] \in Endings \/ Reaches(x, t),
         \A t \in doomed' : Reaches(press[h], t) => Reaches(x, t) \/ task'[t] \in Endings,
         \A t \in Channel : task'[t] = "cancelled" =>
           \/ share'[t] \in {"none", "stopped"}
           \/ Stopping(x, t)
           \/ task[t] = "cancelled" /\ share'[t] = share[t] /\ ~Stopping(press[h], t)
  PROVE  CenterInv'
<1>1. CenterTyped /\ press \in [Updates -> Presses]
  BY DEF CenterInv, CenterTyped
<1>2. press'[h] = x /\ \A k \in Updates \ {h} : press'[k] = press[k]
  BY <1>1
<1>3. CenterTyped'
  BY <1>1 DEF CenterTyped
<1>4. \A k \in Updates : About(press'[k])
  BY <1>2 DEF CenterInv
<1>5. ASSUME NEW t \in doomed', task'[t] \notin Endings PROVE \E k \in Updates : Reaches(press'[k], t)
  <2>1. CASE t \in doomed
    <3>1. PICK k \in Updates : Reaches(press[k], t)
      BY <1>5, <2>1 DEF CenterInv
    <3>2. CASE k = h
      BY <1>2, <1>5, <3>1, <3>2
    <3>3. CASE k # h
      BY <1>2, <3>1, <3>3
    <3> QED BY <3>2, <3>3
  <2>2. CASE t \notin doomed
    BY <1>2, <1>5, <2>2
  <2> QED BY <2>1, <2>2
<1>6. ASSUME NEW t \in Channel, task'[t] = "cancelled", share'[t] \notin {"none", "stopped"}
      PROVE  \E k \in Updates : Stopping(press'[k], t)
  <2>1. CASE Stopping(x, t)
    BY <1>2, <2>1
  <2>2. CASE ~Stopping(x, t)
    <3>1. task[t] = "cancelled" /\ share'[t] = share[t] /\ ~Stopping(press[h], t)
      BY <1>6, <2>2
    <3>2. PICK k \in Updates : Stopping(press[k], t)
      BY <1>6, <3>1 DEF CenterInv, Stopping
    <3> QED BY <1>2, <3>1, <3>2
  <2> QED BY <2>1, <2>2
<1>7. \A k \in Updates : About(press[k])'
  BY <1>4 DEF About
<1>8. \A t \in doomed' : task'[t] \in Endings \/ \E k \in Updates : Reaches(press[k], t)'
  BY <1>5 DEF Reaches
<1> QED BY <1>3, <1>6, <1>7, <1>8 DEF CenterInv, Stopping, C!Cancels

\* What a step does to the tasks leaves the handlers what they are.
LEMMA TasksKeep ==
  ASSUME CenterInv, UNCHANGED <<press, question, doomed, questions, lapsed, accepted>>,
         task' \in [C!Tasks -> Postures], share' \in [Channel -> {"none", "open", "held", "stopped"}],
         \A t \in C!Tasks : task[t] \in Endings => task'[t] \in Endings,
         \A t \in Channel : task'[t] = "cancelled" => task[t] = "cancelled" /\ share'[t] = share[t]
  PROVE  CenterInv'
<1>1. CenterTyped' /\ C!AskedAndConfirmed'
  BY DEF CenterInv, CenterTyped, C!AskedAndConfirmed
<1>2. \A k \in Updates : About(press[k])'
  BY DEF CenterInv, About
<1>3. \A t \in doomed : t \in C!Tasks
  BY DEF CenterInv, CenterTyped
<1>4. \A t \in doomed' : task'[t] \in Endings \/ \E k \in Updates : Reaches(press[k], t)'
  BY <1>3 DEF CenterInv, Reaches
<1>5. \A t \in Channel : task'[t] = "cancelled" =>
        \/ share'[t] \in {"none", "stopped"}
        \/ \E k \in Updates : press'[k].pc = "group" /\ press'[k].task = t /\ C!Cancels(press'[k].act)
  BY DEF CenterInv
<1> QED BY <1>1, <1>2, <1>4, <1>5 DEF CenterInv, C!Cancels

\* A handler that changes nothing else.
LEMMA OnlyHandler ==
  ASSUME CenterInv, NEW h \in Updates, NEW x, press' = [press EXCEPT ![h] = x], x \in Presses, About(x),
         UNCHANGED <<task, share, question, questions, lapsed, accepted>>,
         doomed' = doomed \/ doomed' = {},
         press[h].act = "bulk" => doomed' = {} \/ (\A t : Reaches(press[h], t) => Reaches(x, t)),
         press[h].pc # "group"
  PROVE  CenterInv'
<1>1. CenterTyped /\ C!AskedAndConfirmed
  BY DEF CenterInv
<1>2. C!AskedAndConfirmed'
  BY <1>1 DEF C!AskedAndConfirmed
<1>3. \A t \in doomed' : Reaches(press[h], t) => Reaches(x, t)
  BY DEF Reaches
<1>4. \A t : ~Stopping(press[h], t)
  BY DEF Stopping
<1> QED BY <1>1, <1>2, <1>3, <1>4, HandlerKeeps DEF CenterTyped

\* A handler that is free is at rest.
LEMMA FreeIs == ASSUME NEW h, C!Free(h) PROVE h \in Updates /\ press[h].pc = "off"
BY DEF C!Free, C!Idle

LEMMA PressedIs == ASSUME NEW h, NEW way, C!Pressed(h, way) PROVE h \in Updates /\ press[h].pc = "off"
BY FreeIs DEF C!Pressed

LEMMA RestIs == C!Rest \in Presses /\ About(C!Rest) /\ C!Rest.act # "bulk" /\ C!Rest.pc = "off" /\ C!Rest.left = {}
BY DEF C!Rest, Presses, Acts, About

\* Who is at rest is at no bulk cancellation.
LEMMA NoBulk == ASSUME CenterInv, NEW h \in Updates, press[h].act = "bulk" PROVE press[h].pc \in {"list", "write", "group", "bulk"}
BY DEF CenterInv, About

LEMMA CardsKeep ==
  ASSUME CenterInv, NEW h \in Updates, C!ShowTasks(h) \/ C!AskBulk(h) \/ C!BulkAsked(h) \/ C!ConfirmBulk(h)
  PROVE  CenterInv'
<1>1. PICK x : /\ x \in {[C!Rest EXCEPT !.pc = "card"], [C!Rest EXCEPT !.pc = "impact"], C!Rest,
                         [C!Rest EXCEPT !.pc = "list", !.act = "bulk"]}
               /\ press' = [press EXCEPT ![h] = x]
  BY DEF C!ShowTasks, C!AskBulk, C!BulkAsked, C!ConfirmBulk, C!Goto, C!Leave
<1>2. x \in Presses /\ About(x)
  <2>1. x = C!Rest => x \in Presses /\ About(x)
    BY RestIs
  <2>2. ASSUME NEW pc \in {"card", "impact"}, x = [C!Rest EXCEPT !.pc = pc] PROVE x \in Presses /\ About(x)
    BY <2>2 DEF C!Rest, Presses, Acts, About
  <2>3. ASSUME x = [C!Rest EXCEPT !.pc = "list", !.act = "bulk"] PROVE x \in Presses /\ About(x)
    BY <2>3 DEF C!Rest, Presses, Acts, About
  <2> QED BY <1>1, <2>1, <2>2, <2>3
<1>3. UNCHANGED <<task, share, question, questions, lapsed, accepted, doomed>>
  BY DEF C!ShowTasks, C!AskBulk, C!BulkAsked, C!ConfirmBulk, C!taskVars, C!askVars
<1>4. press[h].pc \in {"off", "impact"}
  BY PressedIs DEF C!ShowTasks, C!AskBulk, C!BulkAsked, C!ConfirmBulk
<1> QED BY <1>1, <1>2, <1>3, <1>4, NoBulk, OnlyHandler

LEMMA CardOwnedKeeps == ASSUME CenterInv, NEW h \in Updates, C!CardOwned(h) PROVE CenterInv'
<1>1. press' = [press EXCEPT ![h] = C!Rest] /\ press[h].pc = "card" /\ question' = 0
  BY DEF C!CardOwned, C!Leave, C!Goto
<1>2. UNCHANGED <<task, share, questions, lapsed, accepted, doomed>>
  BY DEF C!CardOwned, C!taskVars
<1>3. C!AskedAndConfirmed'
  <2>1. ASSUME NEW t \in C!Tasks PROVE accepted[t] + lapsed[t] + 0 <= questions[t]
    <3>1. accepted[t] \in Nat /\ lapsed[t] \in Nat /\ questions[t] \in Nat
      BY DEF CenterInv, CenterTyped
    <3>2. accepted[t] + lapsed[t] + (IF question = t THEN 1 ELSE 0) <= questions[t]
      BY DEF CenterInv, C!AskedAndConfirmed
    <3> QED BY <3>1, <3>2
  <2> QED BY <1>1, <1>2, <2>1, TasksApart DEF C!AskedAndConfirmed
<1>4. CenterTyped /\ press[h].act # "bulk"
  BY <1>1, NoBulk DEF CenterInv
<1> QED BY <1>1, <1>2, <1>3, <1>4, RestIs, HandlerKeeps DEF CenterTyped, Reaches, Stopping

LEMMA PressKeeps ==
  ASSUME CenterInv, NEW h \in Updates, NEW t \in C!Tasks,
         NEW act \in {"start", "pause", "resume", "retry", "cancel_prompt", "cancel_confirm"}, C!Press(h, act, t)
  PROVE  CenterInv'
<1>1. PICK x : x = [C!Rest EXCEPT !.pc = "find", !.act = act, !.task = t]
  OBVIOUS
<1>2. press' = [press EXCEPT ![h] = x] /\ UNCHANGED <<task, share, question, questions, lapsed, accepted, doomed>>
  BY <1>1 DEF C!Press, C!Goto, C!taskVars, C!askVars
<1>3. act = "retry" => t \in YtDlp
  BY DEF C!Press, C!Buttons
<1>4. x \in Presses /\ About(x)
  BY <1>1, <1>3 DEF C!Rest, Presses, Acts, About
<1>5. press[h].pc = "off"
  BY PressedIs DEF C!Press
<1> QED BY <1>2, <1>4, <1>5, NoBulk, OnlyHandler

LEMMA AskExpiresKeeps == ASSUME CenterInv, C!AskExpires PROVE CenterInv'
<1>1. /\ question # 0 /\ question' = 0 /\ lapsed' = [lapsed EXCEPT ![question] = lapsed[question] + 1]
      /\ UNCHANGED <<task, share, questions, accepted, doomed, press>>
  BY DEF C!AskExpires, C!taskVars
<1>2. CenterTyped
  BY DEF CenterInv
<1>3. question \in C!Tasks
  BY <1>1, <1>2 DEF CenterTyped
<1>4. lapsed' \in [C!Tasks -> Nat]
  BY <1>1, <1>2, <1>3 DEF CenterTyped
<1>5. ASSUME NEW t \in C!Tasks PROVE accepted'[t] + lapsed'[t] + (IF question' = t THEN 1 ELSE 0) <= questions'[t]
  <2>1. accepted[t] \in Nat /\ lapsed[t] \in Nat /\ questions[t] \in Nat
    BY <1>2 DEF CenterTyped
  <2>2. accepted[t] + lapsed[t] + (IF question = t THEN 1 ELSE 0) <= questions[t]
    BY DEF CenterInv, C!AskedAndConfirmed
  <2>3. question' # t
    BY <1>1, TasksApart
  <2>4. lapsed'[t] = IF question = t THEN lapsed[t] + 1 ELSE lapsed[t]
    BY <1>1, <1>2, <1>3 DEF CenterTyped
  <2> QED BY <1>1, <2>1, <2>2, <2>3, <2>4
<1>6. CenterTyped' /\ C!AskedAndConfirmed'
  BY <1>1, <1>2, <1>4, <1>5 DEF CenterTyped, C!AskedAndConfirmed
<1>7. (\A k \in Updates : About(press[k])')
  BY <1>1 DEF CenterInv, About
<1>8. \A t \in doomed' : task'[t] \in Endings \/ \E k \in Updates : Reaches(press[k], t)'
  BY <1>1 DEF CenterInv, Reaches
<1>9. \A t \in Channel : task'[t] = "cancelled" =>
        \/ share'[t] \in {"none", "stopped"}
        \/ \E k \in Updates : press'[k].pc = "group" /\ press'[k].task = t /\ C!Cancels(press'[k].act)
  BY <1>1 DEF CenterInv
<1> QED BY <1>6, <1>7, <1>8, <1>9 DEF CenterInv, C!Cancels

LEMMA AskKeeps == ASSUME CenterInv, NEW h \in Updates, C!Ask(h) PROVE CenterInv'
<1>1. PICK t : t = press[h].task
  OBVIOUS
<1>2. /\ press' = [press EXCEPT ![h] = C!Rest] /\ press[h].pc = "find"
      /\ UNCHANGED <<task, share, lapsed, accepted, doomed>>
      /\ \/ question' = t /\ questions' = [questions EXCEPT ![t] = questions[t] + 1]
         \/ UNCHANGED <<question, questions>>
  BY <1>1 DEF C!Ask, C!Leave, C!Goto, C!taskVars
<1>3. CenterTyped /\ press[h].act # "bulk" /\ t \in C!Tasks
  BY <1>1, <1>2, NoBulk DEF CenterInv, About
<1>4. question' \in C!Tasks \cup {0} /\ questions' \in [C!Tasks -> Nat]
  BY <1>2, <1>3 DEF CenterTyped
<1>5. ASSUME NEW u \in C!Tasks PROVE accepted'[u] + lapsed'[u] + (IF question' = u THEN 1 ELSE 0) <= questions'[u]
  <2>1. accepted[u] \in Nat /\ lapsed[u] \in Nat /\ questions[u] \in Nat
    BY <1>3 DEF CenterTyped
  <2>2. accepted[u] + lapsed[u] + (IF question = u THEN 1 ELSE 0) <= questions[u]
    BY DEF CenterInv, C!AskedAndConfirmed
  <2>3. CASE question' = t /\ questions' = [questions EXCEPT ![t] = questions[t] + 1]
    <3>1. questions'[u] = IF u = t THEN questions[u] + 1 ELSE questions[u]
      BY <1>3, <2>3 DEF CenterTyped
    <3> QED BY <1>2, <2>1, <2>2, <2>3, <3>1
  <2>4. CASE UNCHANGED <<question, questions>>
    BY <1>2, <2>2, <2>4
  <2> QED BY <1>2, <2>3, <2>4
<1>6. C!AskedAndConfirmed'
  BY <1>5 DEF C!AskedAndConfirmed
<1> QED BY <1>2, <1>3, <1>4, <1>6, RestIs, HandlerKeeps DEF CenterTyped, Reaches, Stopping

\* The group of the queue in memory is changed at once: what is doomed and over stays so.
InMemoryMoves ==
  /\ task' \in [C!Tasks -> Postures] /\ doomed' \subseteq doomed
  /\ \A u \in doomed' : task[u] \in Endings => task'[u] \in Endings
  /\ \A u \in Channel : task'[u] = task[u]

LEMMA StillMoves == CenterTyped /\ UNCHANGED <<task, doomed>> => InMemoryMoves
BY DEF CenterTyped, InMemoryMoves

LEMMA MemoryMoves ==
  ASSUME CenterTyped, NEW t \in Memory, NEW act, C!InMemory(t, act) PROVE InMemoryMoves
<1>1. t \in C!Tasks /\ t \notin Channel
  BY TasksApart DEF C!Tasks
<1>2. PICK file \in C!InHand(t) :
        CASE act = "pause" /\ task[t] \notin {"pausing", "paused"} \cup (C!Over \ {"cancelling"}) ->
               C!Set(t, IF file THEN "pausing" ELSE "paused")
          [] act = "resume" /\ task[t] \in {"pausing", "paused"} -> C!Set(t, IF file THEN "running" ELSE "waiting")
          [] act = "cancel_confirm" /\ task[t] \notin C!Over -> C!Set(t, IF file THEN "cancelling" ELSE "cancelled")
          [] OTHER -> UNCHANGED task
  BY DEF C!InMemory
<1>3. /\ doomed' \subseteq doomed
      /\ act = "pause" /\ task[t] = "cancelling" => t \notin doomed'
  BY DEF C!InMemory
<1>4. \/ UNCHANGED task
      \/ \E s \in Postures : /\ task' = [task EXCEPT ![t] = s]
                             /\ task[t] \notin Endings \/ (act = "pause" /\ task[t] = "cancelling")
  <2>1. CASE act = "pause"
    BY <1>2, <2>1 DEF C!Set, Postures, Endings, C!Over
  <2>2. CASE act = "resume"
    BY <1>2, <2>2 DEF C!Set, Postures, Endings, C!Over
  <2>3. CASE act = "cancel_confirm"
    BY <1>2, <2>3 DEF C!Set, Postures, Endings, C!Over
  <2>4. CASE act \notin {"pause", "resume", "cancel_confirm"}
    BY <1>2, <2>4
  <2> QED BY <2>1, <2>2, <2>3, <2>4
<1>5. CASE UNCHANGED task
  BY <1>3, <1>5 DEF CenterTyped, InMemoryMoves
<1>6. ASSUME NEW s \in Postures, task' = [task EXCEPT ![t] = s],
             task[t] \notin Endings \/ (act = "pause" /\ task[t] = "cancelling")
      PROVE  InMemoryMoves
  <2>1. task \in [C!Tasks -> Postures] /\ doomed' \subseteq C!Tasks
    BY <1>3 DEF CenterTyped
  <2>2. \A u \in C!Tasks : task'[u] = IF u = t THEN s ELSE task[u]
    BY <1>6, <2>1
  <2>3. \A u \in doomed' : task[u] \in Endings => task'[u] \in Endings
    BY <1>3, <1>6, <2>1, <2>2
  <2> QED BY <1>1, <1>3, <1>6, <2>1, <2>2, <2>3 DEF C!Tasks, InMemoryMoves
<1> QED BY <1>4, <1>5, <1>6

\* What a button or a command does to the tasks.
LEMMA OperateKeeps ==
  ASSUME CenterInv, NEW h \in Updates, NEW x, press' = [press EXCEPT ![h] = x], x \in Presses, About(x), x.act # "bulk",
         press[h].act # "bulk", press[h].pc # "group", UNCHANGED <<share, lapsed, questions>>,
         question' \in C!Tasks \cup {0}, accepted' \in [C!Tasks -> Nat], C!AskedAndConfirmed', InMemoryMoves
  PROVE  CenterInv'
<1>1. CenterTyped
  BY DEF CenterInv
<1>2. /\ task' \in [C!Tasks -> Postures] /\ doomed' \subseteq doomed
      /\ \A u \in doomed' : task[u] \in Endings => task'[u] \in Endings
      /\ \A u \in Channel : task'[u] = task[u]
  BY DEF InMemoryMoves
<1>3. \A t : ~Stopping(press[h], t) /\ ~Reaches(press[h], t)
  BY DEF Stopping, Reaches
<1>4. \A u \in doomed : u \in C!Tasks
  BY <1>1 DEF CenterTyped
<1> QED BY <1>1, <1>2, <1>3, <1>4, HandlerKeeps DEF CenterTyped

LEMMA OperateIs ==
  ASSUME CenterInv, NEW h \in Updates, NEW t, NEW act, t = press[h].task, act = press[h].act, act # "cancel_prompt",
         press[h].pc = "find", C!Operate(h, t, act)
  PROVE  InMemoryMoves /\ \E x \in Presses : press' = [press EXCEPT ![h] = x] /\ About(x) /\ x.act # "bulk"
<1>1. press[h] \in Presses /\ About(press[h]) /\ act # "bulk" /\ CenterTyped
  BY NoBulk DEF CenterInv, CenterTyped
<1>2. CASE t \in Memory
  <2>1. C!InMemory(t, act) /\ press' = [press EXCEPT ![h] = C!Rest]
    BY <1>2 DEF C!Operate, C!Leave, C!Goto
  <2> QED BY <1>1, <1>2, <2>1, RestIs, MemoryMoves
<1>3. CASE t \notin Memory
  <2>1. PICK x : x = [press[h] EXCEPT !.pc = "row"]
    OBVIOUS
  <2>2. press' = [press EXCEPT ![h] = x] /\ InMemoryMoves
    BY <1>1, <1>3, <2>1, StillMoves DEF C!Operate, C!Goto
  <2>3. x \in Presses /\ About(x) /\ x.act # "bulk"
    BY <1>1, <1>3, <2>1 DEF Presses, About
  <2> QED BY <2>2, <2>3
<1> QED BY <1>2, <1>3

LEMMA FoundKeeps == ASSUME CenterInv, NEW h \in Updates, C!Found(h) PROVE CenterInv'
<1>1. /\ press[h].pc = "find" /\ press[h].act # "cancel_prompt"
      /\ UNCHANGED <<share, question, questions, lapsed, accepted>>
  BY DEF C!Found, C!askVars
<1>2. C!AskedAndConfirmed' /\ CenterTyped /\ press[h].act # "bulk"
  BY <1>1, NoBulk DEF CenterInv, C!AskedAndConfirmed
<1>3. InMemoryMoves /\ \E x \in Presses : press' = [press EXCEPT ![h] = x] /\ About(x) /\ x.act # "bulk"
  <2>1. CASE C!Operate(h, press[h].task, press[h].act)
    BY <1>1, <2>1, OperateIs
  <2>2. CASE C!Leave(h) /\ UNCHANGED <<task, doomed>>
    BY <1>2, <2>2, RestIs, StillMoves DEF C!Leave, C!Goto
  <2> QED BY <2>1, <2>2 DEF C!Found
<1> QED BY <1>1, <1>2, <1>3, OperateKeeps DEF CenterTyped

LEMMA ConfirmKeeps == ASSUME CenterInv, NEW h \in Updates, C!Confirm(h) PROVE CenterInv'
<1>1. PICK t : t = press[h].task
  OBVIOUS
<1>2. press[h].pc = "find" /\ press[h].act = "cancel_confirm" /\ UNCHANGED <<share, questions, lapsed>>
  BY DEF C!Confirm
<1>3. CenterTyped /\ t \in C!Tasks /\ press[h].act # "bulk"
  BY <1>1, <1>2 DEF CenterInv, About
<1>4. InMemoryMoves /\ \E x \in Presses : press' = [press EXCEPT ![h] = x] /\ About(x) /\ x.act # "bulk"
  <2>1. CASE C!Operate(h, t, "cancel_confirm")
    BY <1>1, <1>2, <2>1, OperateIs
  <2>2. CASE C!Leave(h) /\ UNCHANGED <<task, doomed>>
    BY <1>3, <2>2, RestIs, StillMoves DEF C!Leave, C!Goto
  <2>3. \/ C!Operate(h, t, "cancel_confirm")
        \/ C!Leave(h) /\ UNCHANGED <<task, doomed>>
    BY <1>1 DEF C!Confirm
  <2> QED BY <2>1, <2>2, <2>3
<1>5. \/ UNCHANGED <<question, accepted>>
      \/ question' = 0 /\ UNCHANGED accepted
      \/ question' = 0 /\ question = t /\ accepted' = [accepted EXCEPT ![t] = accepted[t] + 1]
  BY <1>1 DEF C!Confirm
<1>6. question' \in C!Tasks \cup {0} /\ accepted' \in [C!Tasks -> Nat]
  BY <1>3, <1>5 DEF CenterTyped
<1>7. ASSUME NEW u \in C!Tasks PROVE accepted'[u] + lapsed'[u] + (IF question' = u THEN 1 ELSE 0) <= questions'[u]
  <2>1. accepted[u] \in Nat /\ lapsed[u] \in Nat /\ questions[u] \in Nat
    BY <1>3 DEF CenterTyped
  <2>2. accepted[u] + lapsed[u] + (IF question = u THEN 1 ELSE 0) <= questions[u]
    BY DEF CenterInv, C!AskedAndConfirmed
  <2>3. u # 0
    BY TasksApart
  <2>4. ASSUME accepted' = [accepted EXCEPT ![t] = accepted[t] + 1] PROVE accepted'[u] = IF u = t THEN accepted[u] + 1 ELSE accepted[u]
    BY <1>3, <2>4 DEF CenterTyped
  <2> QED BY <1>2, <1>5, <2>1, <2>2, <2>3, <2>4
<1>8. C!AskedAndConfirmed'
  BY <1>7 DEF C!AskedAndConfirmed
<1> QED BY <1>2, <1>3, <1>4, <1>6, <1>8, OperateKeeps

LEMMA CommandKeeps ==
  ASSUME CenterInv, NEW h \in Updates, NEW t \in C!Tasks, NEW act \in {"pause", "resume", "cancel_confirm"}, C!Command(h, act, t)
  PROVE  CenterInv'
<1>1. UNCHANGED <<share, question, questions, lapsed, accepted>> /\ press[h].pc = "off"
  BY PressedIs DEF C!Command, C!askVars
<1>2. CenterTyped /\ C!AskedAndConfirmed' /\ press[h].act # "bulk"
  BY <1>1, NoBulk DEF CenterInv, C!AskedAndConfirmed
<1>3. InMemoryMoves /\ \E x \in Presses : press' = [press EXCEPT ![h] = x] /\ About(x) /\ x.act # "bulk"
  <2>1. CASE t \in Memory
    <3>1. press' = [press EXCEPT ![h] = press[h]] /\ press[h] \in Presses /\ C!InMemory(t, act)
      BY <1>2, <2>1 DEF C!Command, CenterTyped
    <3>2. About(press[h])
      BY DEF CenterInv
    <3> QED BY <1>2, <2>1, <3>1, <3>2, MemoryMoves
  <2>2. CASE t \notin Memory
    <3>1. PICK x : x = [C!Rest EXCEPT !.pc = IF t \in Channel THEN "write" ELSE "row", !.act = act, !.task = t]
      OBVIOUS
    <3>2. press' = [press EXCEPT ![h] = x] /\ InMemoryMoves
      BY <1>2, <2>2, <3>1, StillMoves DEF C!Command, C!Goto
    <3>3. x \in Presses /\ About(x) /\ x.act # "bulk"
      BY <2>2, <3>1 DEF C!Rest, Presses, Acts, About
    <3> QED BY <3>2, <3>3
  <2> QED BY <2>1, <2>2
<1> QED BY <1>1, <1>2, <1>3, OperateKeeps DEF CenterTyped

LEMMA RowReadKeeps == ASSUME CenterInv, NEW h \in Updates, C!RowRead(h) PROVE CenterInv'
<1>1. press[h].pc = "row" /\ UNCHANGED <<task, share, question, questions, lapsed, accepted, doomed>>
  BY DEF C!RowRead, C!taskVars, C!askVars
<1>2. press[h] \in Presses /\ About(press[h]) /\ press[h].act # "bulk"
  BY <1>1, NoBulk DEF CenterInv, CenterTyped
<1>3. PICK x : press' = [press EXCEPT ![h] = x] /\ (x = C!Rest \/ x = [press[h] EXCEPT !.pc = "write"])
  BY DEF C!RowRead, C!Goto, C!Leave
<1>4. CASE x = C!Rest
  BY <1>1, <1>2, <1>3, <1>4, RestIs, OnlyHandler
<1>5. CASE x = [press[h] EXCEPT !.pc = "write"]
  <2>1. x \in Presses /\ About(x)
    BY <1>1, <1>2, <1>5 DEF Presses, About
  <2> QED BY <1>1, <1>2, <1>3, <2>1, OnlyHandler
<1> QED BY <1>3, <1>4, <1>5

\* How a handler goes on after the row.
LEMMA ThenIs ==
  ASSUME CenterInv, NEW h \in Updates, NEW next \in {"off", "group"}, C!Then(h, next),
         press[h].pc \in {"write", "group"}, next = "group" => press[h].task \in Channel
  PROVE  \E x \in Presses :
           /\ press' = [press EXCEPT ![h] = x] /\ About(x)
           /\ next = "group" => x.pc = "group" /\ x.task = press[h].task /\ x.act = press[h].act
           /\ press[h].act = "bulk" => x.act = "bulk" /\ x.pc # "list" /\ x.left = press[h].left
<1>1. press[h] \in Presses /\ About(press[h])
  BY DEF CenterInv, CenterTyped
<1>2. CASE press[h].act = "bulk" /\ next = "off"
  <2>1. PICK x : x = [press[h] EXCEPT !.pc = "bulk", !.task = 0]
    OBVIOUS
  <2>2. press' = [press EXCEPT ![h] = x]
    BY <1>2, <2>1 DEF C!Then, C!Goto
  <2>3. x \in Presses /\ About(x) /\ x.act = "bulk" /\ x.pc = "bulk" /\ x.left = press[h].left
    BY <1>1, <1>2, <2>1 DEF Presses, About
  <2> QED BY <1>2, <2>2, <2>3
<1>3. CASE press[h].act # "bulk" /\ next = "off"
  BY <1>3, RestIs DEF C!Then, C!Goto, C!Leave
<1>4. CASE next = "group"
  <2>1. PICK x : x = [press[h] EXCEPT !.pc = "group"]
    OBVIOUS
  <2>2. press' = [press EXCEPT ![h] = x]
    BY <1>4, <2>1 DEF C!Then, C!Goto
  <2>3. x \in Presses /\ About(x) /\ x.act = press[h].act /\ x.pc = "group" /\ x.left = press[h].left /\ x.task = press[h].task
    BY <1>1, <1>4, <2>1 DEF Presses, About, Acts
  <2> QED BY <1>4, <2>2, <2>3
<1> QED BY <1>2, <1>3, <1>4

LEMMA RowWrittenKeeps == ASSUME CenterInv, NEW h \in Updates, C!RowWritten(h) PROVE CenterInv'
<1>1. PICK t, act : t = press[h].task /\ act = press[h].act
  OBVIOUS
<1>2. press[h].pc = "write" /\ UNCHANGED <<share, question, questions, lapsed, accepted>>
  BY DEF C!RowWritten, C!Written, C!askVars
<1>3. CenterTyped /\ press[h] \in Presses /\ About(press[h]) /\ task \in [C!Tasks -> Postures] /\ t \in C!Tasks \ Memory
  BY <1>1, <1>2 DEF CenterInv, CenterTyped, About
<1>4. C!AskedAndConfirmed'
  BY <1>2 DEF CenterInv, C!AskedAndConfirmed
<1>5. CASE t \in YtDlp
  <2>1. t \notin Channel
    BY <1>5, TasksApart
  <2>2. \/ C!Cancels(act) /\ task' = [task EXCEPT ![t] = "cancelled"] /\ doomed' = doomed
        \/ ~C!Cancels(act) /\ task' = [task EXCEPT ![t] = "waiting"] /\ doomed' = doomed \ {t}
        \/ (C!Cancels(act) => task[t] \in Endings) /\ UNCHANGED <<task, doomed>>
    BY <1>1, <1>2, <1>5 DEF C!RowWritten, C!Written, C!Cancels, C!Set, Endings
  <2>3. C!Then(h, "off")
    BY <1>1, <1>5 DEF C!RowWritten, C!Written
  <2>4. PICK x \in Presses : /\ press' = [press EXCEPT ![h] = x] /\ About(x)
                             /\ press[h].act = "bulk" => x.act = "bulk" /\ x.pc # "list" /\ x.left = press[h].left
    BY <1>2, <2>3, ThenIs
  <2>5. task' \in [C!Tasks -> Postures] /\ doomed' \subseteq C!Tasks /\ doomed' \subseteq doomed
    BY <1>3, <2>2 DEF CenterTyped, Postures, Endings
  <2>6. \A u \in doomed' : /\ task[u] \in Endings => task'[u] \in Endings
                           /\ u = t /\ C!Cancels(act) => task'[u] \in Endings
    BY <1>3, <2>2, <2>5 DEF Endings
  <2>7. \A u \in doomed' : Reaches(press[h], u) => Reaches(x, u) \/ task'[u] \in Endings
    BY <1>1, <2>4, <2>6 DEF Reaches, C!Cancels
  <2>8. \A u \in Channel : task'[u] = task[u]
    BY <1>3, <2>1, <2>2 DEF C!Tasks
  <2>9. \A u : ~Stopping(press[h], u)
    BY <1>2 DEF Stopping
  <2> QED BY <1>2, <1>3, <1>4, <2>4, <2>5, <2>6, <2>7, <2>8, <2>9, HandlerKeeps DEF CenterTyped
<1>6. CASE t \notin YtDlp
  <2>1. t \in Channel
    BY <1>3, <1>6 DEF C!Tasks
  <2>2. doomed' = doomed
    BY <1>1, <1>6 DEF C!RowWritten, C!Written
  <2>3. act \in {"start", "pause", "resume", "cancel_confirm", "bulk"}
    BY <1>1, <1>2, <1>3, <1>6 DEF About, Presses, Acts
  <2>4. PICK next \in {"off", "group"} :
          /\ C!Then(h, next)
          /\ \/ UNCHANGED task /\ (C!Cancels(act) => task[t] \in Endings)
             \/ task[t] \notin Endings /\ \E s \in Postures \ {"cancelled"} : ~C!Cancels(act) /\ task' = [task EXCEPT ![t] = s]
             \/ C!Cancels(act) /\ task' = [task EXCEPT ![t] = "cancelled"] /\ next = "group"
    <3>1. CASE task[t] \in Endings
      BY <1>1, <1>6, <3>1 DEF C!RowWritten, C!Written, C!Over, Endings
    <3>2. CASE task[t] \notin Endings /\ act = "pause"
      BY <1>1, <1>6, <3>2 DEF C!RowWritten, C!Written, C!Over, C!Set, C!Cancels, Postures, Endings
    <3>3. CASE task[t] \notin Endings /\ C!Cancels(act)
      BY <1>1, <1>6, <3>3 DEF C!RowWritten, C!Written, C!Over, C!Set, C!Cancels, Postures, Endings
    <3>4. CASE task[t] \notin Endings /\ act \in {"resume", "start"}
      BY <1>1, <1>6, <3>4 DEF C!RowWritten, C!Written, C!Over, C!Set, C!Cancels, Postures, Endings
    <3> QED BY <2>3, <3>1, <3>2, <3>3, <3>4 DEF C!Cancels
  <2>5. PICK x \in Presses :
           /\ press' = [press EXCEPT ![h] = x] /\ About(x)
           /\ next = "group" => x.pc = "group" /\ x.task = press[h].task /\ x.act = press[h].act
           /\ press[h].act = "bulk" => x.act = "bulk" /\ x.pc # "list" /\ x.left = press[h].left
    BY <1>1, <1>2, <2>1, <2>4, ThenIs
  <2>6. task' \in [C!Tasks -> Postures]
    BY <1>3, <2>4 DEF Postures, Endings
  <2>7. \A u \in doomed' : /\ task[u] \in Endings => task'[u] \in Endings
                           /\ u = t /\ C!Cancels(act) => task'[u] \in Endings
    <3>1. \A u \in doomed' : u \in C!Tasks
      BY <1>3, <2>2 DEF CenterTyped
    <3> QED BY <1>3, <2>4, <3>1 DEF Endings
  <2>8. \A u \in doomed' : Reaches(press[h], u) => Reaches(x, u) \/ task'[u] \in Endings
    BY <1>1, <2>5, <2>7 DEF Reaches, C!Cancels
  <2>9. ASSUME NEW u \in Channel, task'[u] = "cancelled" PROVE Stopping(x, u) \/ task[u] = "cancelled"
    <3>1. CASE u = t /\ C!Cancels(act) /\ next = "group"
      BY <1>1, <2>5, <3>1 DEF Stopping
    <3>2. CASE u # t
      BY <1>3, <2>4, <2>9, <3>2 DEF C!Tasks
    <3>3. CASE u = t /\ ~(C!Cancels(act) /\ next = "group")
      BY <1>3, <2>4, <2>9, <3>3
    <3> QED BY <3>1, <3>2, <3>3
  <2>10. \A u : ~Stopping(press[h], u)
    BY <1>2 DEF Stopping
  <2> QED BY <1>2, <1>3, <1>4, <2>2, <2>5, <2>6, <2>7, <2>8, <2>9, <2>10, HandlerKeeps DEF CenterTyped
<1> QED BY <1>5, <1>6

LEMMA GroupFollowsKeeps == ASSUME CenterInv, NEW h \in Updates, C!GroupFollows(h) PROVE CenterInv'
<1>1. PICK t : t = press[h].task
  OBVIOUS
<1>2. /\ press[h].pc = "group" /\ UNCHANGED <<task, question, questions, lapsed, accepted, doomed>> /\ C!Then(h, "off")
  BY DEF C!GroupFollows, C!askVars
<1>3. CenterTyped /\ t \in Channel /\ press[h] \in Presses
  BY <1>1, <1>2 DEF CenterInv, CenterTyped, About
<1>4. PICK g : g = IF C!Cancels(press[h].act) /\ share[t] # "none" THEN "stopped"
                   ELSE IF press[h].act = "pause" /\ share[t] = "open" THEN "held"
                   ELSE IF press[h].act \in {"resume", "start"} /\ share[t] = "held" THEN "open" ELSE share[t]
  OBVIOUS
<1>5. share' = [share EXCEPT ![t] = g]
  BY <1>1, <1>4 DEF C!GroupFollows
<1>6. share' \in [Channel -> {"none", "open", "held", "stopped"}]
  BY <1>3, <1>4, <1>5 DEF CenterTyped
<1>7. PICK x \in Presses : /\ press' = [press EXCEPT ![h] = x] /\ About(x)
                           /\ press[h].act = "bulk" => x.act = "bulk" /\ x.pc # "list" /\ x.left = press[h].left
  BY <1>2, ThenIs
<1>8. ASSUME NEW u \in Channel, task[u] = "cancelled"
      PROVE  share'[u] \in {"none", "stopped"} \/ (share'[u] = share[u] /\ ~Stopping(press[h], u))
              \/ \E k \in Updates \ {h} : Stopping(press[k], u)
  <2>1. CASE u # t
    BY <1>1, <1>3, <1>5, <2>1 DEF CenterTyped, Stopping
  <2>2. CASE u = t /\ C!Cancels(press[h].act)
    BY <1>3, <1>4, <1>5, <2>2 DEF CenterTyped
  <2>3. CASE u = t /\ ~C!Cancels(press[h].act)
    <3>1. CASE share[u] \in {"none", "stopped"}
      BY <1>3, <1>4, <1>5, <2>3, <3>1 DEF CenterTyped
    <3>2. CASE share[u] \notin {"none", "stopped"}
      <4>1. PICK k \in Updates : Stopping(press[k], u)
        BY <1>8, <3>2 DEF CenterInv, Stopping
      <4>2. k # h
        BY <2>3, <4>1 DEF Stopping
      <4> QED BY <4>1, <4>2
    <3> QED BY <3>1, <3>2
  <2> QED BY <2>1, <2>2, <2>3
<1>9. C!AskedAndConfirmed'
  BY <1>2 DEF CenterInv, C!AskedAndConfirmed
<1>10. CenterTyped'
  BY <1>2, <1>3, <1>6, <1>7 DEF CenterTyped
<1>11. press'[h] = x /\ \A k \in Updates \ {h} : press'[k] = press[k]
  BY <1>3, <1>7 DEF CenterTyped
<1>12. \A k \in Updates : About(press[k])'
  BY <1>7, <1>11 DEF CenterInv, About
<1>13. \A u : Reaches(press[h], u) => Reaches(x, u)
  BY <1>2, <1>7 DEF Reaches
<1>14. ASSUME NEW u \in doomed PROVE task'[u] \in Endings \/ \E k \in Updates : Reaches(press'[k], u)
  BY <1>2, <1>11, <1>13 DEF CenterInv
<1>15. \A u \in doomed' : task'[u] \in Endings \/ \E k \in Updates : Reaches(press[k], u)'
  BY <1>2, <1>14 DEF Reaches
<1>16. ASSUME NEW u \in Channel, task'[u] = "cancelled", share'[u] \notin {"none", "stopped"}
       PROVE  \E k \in Updates : Stopping(press'[k], u)
  <2>1. CASE \E k \in Updates \ {h} : Stopping(press[k], u)
    BY <1>11, <2>1
  <2>2. CASE share'[u] = share[u] /\ ~Stopping(press[h], u)
    <3>1. PICK k \in Updates : Stopping(press[k], u)
      BY <1>2, <1>16, <2>2 DEF CenterInv, Stopping
    <3> QED BY <1>11, <2>2, <3>1
  <2> QED BY <1>2, <1>8, <1>16, <2>1, <2>2
<1> QED BY <1>9, <1>10, <1>12, <1>15, <1>16 DEF CenterInv, Stopping, C!Cancels

LEMMA StatementFailsKeeps == ASSUME CenterInv, NEW h \in Updates, C!Fails(h) PROVE CenterInv'
<1>1. /\ press' = [press EXCEPT ![h] = C!Rest] /\ press[h].pc # "group"
      /\ UNCHANGED <<task, share, question, questions, lapsed, accepted>>
      /\ doomed' = IF press[h].act = "bulk" THEN {} ELSE doomed
  BY DEF C!Fails, C!Leave, C!Goto, C!taskVars, C!askVars
<1> QED BY <1>1, RestIs, OnlyHandler

LEMMA ListKinds ==
  ASSUME CenterTyped, NEW t \in C!Tasks, C!Listed(t), task[t] \notin Endings PROVE t \in Memory \/ t \in C!Rows
BY DEF C!Rows, C!Tasks, C!Over, Endings

LEMMA BulkListKeeps == ASSUME CenterInv, NEW h \in Updates, C!BulkList(h) PROVE CenterInv'
<1>1. PICK x : x = [press[h] EXCEPT !.pc = "bulk", !.left = C!Rows]
  OBVIOUS
<1>2. /\ press[h].pc = "list" /\ press' = [press EXCEPT ![h] = x]
      /\ doomed' = doomed \cup {t \in C!Tasks : C!Listed(t) /\ task[t] \notin C!Over}
      /\ UNCHANGED <<task, share, question, questions, lapsed, accepted>>
  BY <1>1 DEF C!BulkList, C!List, C!Goto, C!taskVars, C!askVars
<1>3. CenterTyped /\ press[h] \in Presses /\ About(press[h]) /\ press[h].act = "bulk"
  BY <1>2 DEF CenterInv, CenterTyped, About
<1>4. C!Rows \subseteq C!Tasks /\ C!Rows \subseteq Channel \cup YtDlp
  BY DEF C!Rows, C!Tasks
<1>5. x \in Presses /\ About(x) /\ x.act = "bulk" /\ x.pc = "bulk" /\ x.left = C!Rows
  BY <1>1, <1>3, <1>4 DEF Presses, About
<1>6. \A t \in doomed' : t \in doomed \/ Reaches(x, t)
  BY <1>2, <1>3, <1>5, ListKinds DEF Reaches, C!Over, Endings
<1>7. \A t : ~Reaches(press[h], t) /\ ~Stopping(press[h], t)
  BY <1>2 DEF Reaches, Stopping
<1>8. C!AskedAndConfirmed' /\ doomed' \subseteq C!Tasks
  BY <1>2, <1>3 DEF CenterInv, C!AskedAndConfirmed, CenterTyped
<1> QED BY <1>2, <1>3, <1>5, <1>6, <1>7, <1>8, HandlerKeeps DEF CenterTyped

LEMMA BulkNextKeeps == ASSUME CenterInv, NEW h \in Updates, C!BulkNext(h) PROVE CenterInv'
<1>1. press[h].pc = "bulk" /\ UNCHANGED <<task, share, question, questions, lapsed, accepted, doomed>>
  BY DEF C!BulkNext, C!taskVars, C!askVars
<1>2. CenterTyped /\ press[h] \in Presses /\ About(press[h]) /\ press[h].act = "bulk"
  BY <1>1 DEF CenterInv, CenterTyped, About
<1>3. PICK t \in press[h].left : press' = [press EXCEPT ![h] = [press[h] EXCEPT !.pc = "write", !.task = t, !.left = press[h].left \ {t}]]
  <2>1. \A s : C!Goto(h, s) <=> press' = [press EXCEPT ![h] = s]
    BY DEF C!Goto
  <2>2. \E t \in press[h].left : C!Goto(h, [press[h] EXCEPT !.pc = "write", !.task = t, !.left = press[h].left \ {t}])
    BY Zenon DEF C!BulkNext
  <2> QED BY <2>1, <2>2, Zenon
<1>4. PICK x : x = [press[h] EXCEPT !.pc = "write", !.task = t, !.left = press[h].left \ {t}]
  OBVIOUS
<1>5. t \in C!Tasks /\ t \notin Memory
  BY <1>2, TasksApart DEF About, C!Tasks
<1>6. /\ x \in Presses /\ About(x) /\ x.act = "bulk" /\ x.pc = "write" /\ x.task = t
      /\ x.left = press[h].left \ {t}
  BY <1>2, <1>4, <1>5 DEF Presses, About
<1>7. \A u : Reaches(press[h], u) => Reaches(x, u)
  BY <1>1, <1>6 DEF Reaches
<1> QED BY <1>1, <1>3, <1>4, <1>6, <1>7, OnlyHandler

LEMMA BulkMemoryKeeps == ASSUME CenterInv, NEW h \in Updates, C!BulkMemory(h) PROVE CenterInv'
<1>1. PICK files, there :
        /\ press[h].pc = "bulk" /\ press[h].left = {} /\ press' = [press EXCEPT ![h] = C!Rest]
        /\ there = {t \in Memory : task[t] \notin C!Over} /\ files \subseteq there
        /\ task' = [t \in C!Tasks |-> IF t \in files THEN "cancelling" ELSE IF t \in there THEN "cancelled" ELSE task[t]]
        /\ doomed' = doomed \cup there
        /\ UNCHANGED <<share, question, questions, lapsed, accepted>>
  BY DEF C!BulkMemory, C!Leave, C!Goto, C!askVars
<1>2. CenterTyped /\ C!AskedAndConfirmed'
  BY <1>1 DEF CenterInv, C!AskedAndConfirmed
<1>3. task' \in [C!Tasks -> Postures] /\ doomed' \subseteq C!Tasks
  BY <1>1, <1>2 DEF CenterTyped, Postures, Endings, C!Tasks
<1>4. ASSUME NEW t \in C!Tasks
      PROVE  /\ t \notin Memory => task'[t] = task[t]
             /\ task[t] \in Endings => task'[t] = task[t]
             /\ t \in Memory => task'[t] \in Endings
  BY <1>1 DEF C!Over, Endings
<1>5. \A t \in doomed' : /\ task[t] \in Endings => task'[t] \in Endings
                         /\ t \in doomed \/ task'[t] \in Endings
                         /\ Reaches(press[h], t) => task'[t] \in Endings
  BY <1>1, <1>3, <1>4 DEF Reaches
<1>6. \A t \in Channel : task'[t] = task[t]
  BY <1>4, TasksApart DEF C!Tasks
<1>7. \A t : ~Stopping(press[h], t)
  BY <1>1 DEF Stopping
<1> QED BY <1>1, <1>2, <1>3, <1>5, <1>6, <1>7, RestIs, HandlerKeeps DEF CenterTyped

LEMMA TurnsKeep ==
  ASSUME CenterInv, NEW t \in C!Tasks,
         C!Begins(t) \/ C!Ends(t) \/ C!Breaks(t) \/ C!Cools(t) \/ C!Thaws(t) \/ C!BatchEnds(t) \/ C!BatchBegins(t)
  PROVE  CenterInv'
<1>1. CenterTyped /\ task \in [C!Tasks -> Postures]
  BY DEF CenterInv, CenterTyped
<1>2. UNCHANGED <<press, question, doomed, questions, lapsed, accepted>>
  BY DEF C!Begins, C!Ends, C!Breaks, C!Cools, C!Thaws, C!BatchEnds, C!BatchBegins, C!Turns, C!askVars
<1>3. \/ UNCHANGED task
      \/ task[t] \notin Endings /\ \E s \in Postures \ {"cancelled"} : task' = [task EXCEPT ![t] = s]
  BY DEF C!Begins, C!Ends, C!Breaks, C!Cools, C!Thaws, C!BatchEnds, C!BatchBegins, C!Turns, C!Set, Postures, Endings
<1>4. UNCHANGED share \/ (t \in Channel /\ task[t] \in {"waiting", "running"} /\ \E g \in {"open", share[t]} : share' = [share EXCEPT ![t] = g])
  BY DEF C!Begins, C!Ends, C!Breaks, C!Cools, C!Thaws, C!BatchEnds, C!BatchBegins, C!Turns
<1>5. task' \in [C!Tasks -> Postures] /\ share' \in [Channel -> {"none", "open", "held", "stopped"}]
  BY <1>1, <1>3, <1>4 DEF CenterTyped
<1>6. \A u \in C!Tasks : /\ task[u] \in Endings => task'[u] \in Endings
                         /\ task'[u] = "cancelled" => task[u] = "cancelled" /\ (u = t => UNCHANGED task)
  BY <1>1, <1>3
<1>7. \A u \in Channel : task'[u] = "cancelled" => task[u] = "cancelled" /\ share'[u] = share[u]
  BY <1>1, <1>4, <1>6 DEF C!Tasks, CenterTyped
<1> QED BY <1>2, <1>5, <1>6, <1>7, TasksKeep

LEMMA StopsKeep == ASSUME CenterInv, NEW t \in C!Tasks, C!Stops(t) PROVE CenterInv'
<1>1. CenterTyped /\ t \notin Channel
  BY TasksApart DEF CenterInv, C!Stops
<1>2. /\ UNCHANGED <<press, share, question, doomed, questions, lapsed, accepted>>
      /\ task' = [task EXCEPT ![t] = "cancelled"]
  BY DEF C!Stops, C!Turns, C!Set, C!askVars
<1>3. \A u \in C!Tasks : task'[u] = IF u = t THEN "cancelled" ELSE task[u]
  BY <1>1, <1>2 DEF CenterTyped
<1>4. task' \in [C!Tasks -> Postures]
  BY <1>1, <1>2 DEF CenterTyped, Postures, Endings
<1>5. \A u \in C!Tasks : task[u] \in Endings => task'[u] \in Endings
  BY <1>3 DEF Endings
<1>6. \A u \in Channel : task'[u] = "cancelled" => task[u] = "cancelled" /\ share'[u] = share[u]
  BY <1>1, <1>2, <1>3 DEF C!Tasks
<1> QED BY <1>1, <1>2, <1>4, <1>5, <1>6, TasksKeep DEF CenterTyped

LEMMA CenterSteps == ASSUME CenterInv, [C!Next]_(C!vars) PROVE CenterInv'
<1>1. CASE UNCHANGED C!vars \/ C!BulkLost
  <2>1. UNCHANGED <<press, question, doomed, questions, lapsed, accepted, task, share>>
    BY <1>1 DEF C!vars, C!taskVars, C!askVars, C!BulkLost
  <2>2. CenterTyped
    BY DEF CenterInv
  <2> QED BY <2>1, <2>2, TasksKeep DEF CenterTyped
<1>2. CASE C!AskExpires
  BY <1>2, AskExpiresKeeps
<1>3. ASSUME NEW h \in Updates, C!Continue(h) PROVE CenterInv'
  BY <1>3, CardOwnedKeeps, AskKeeps, ConfirmKeeps, FoundKeeps, RowReadKeeps, RowWrittenKeeps, GroupFollowsKeeps,
     CardsKeep, BulkListKeeps, BulkNextKeeps, BulkMemoryKeeps DEF C!Continue
<1>4. ASSUME NEW h \in Updates, C!Fails(h) \/ C!ShowTasks(h) \/ C!AskBulk(h) \/ C!ConfirmBulk(h) PROVE CenterInv'
  BY <1>4, StatementFailsKeeps, CardsKeep
<1>5. ASSUME NEW h \in Updates, NEW t \in C!Tasks,
             \/ \E act \in {"start", "pause", "resume", "retry", "cancel_prompt", "cancel_confirm"} : C!Press(h, act, t)
             \/ \E act \in {"pause", "resume", "cancel_confirm"} : C!Command(h, act, t)
      PROVE  CenterInv'
  BY <1>5, PressKeeps, CommandKeeps
<1>6. ASSUME NEW t \in C!Tasks, \/ C!Begins(t) \/ C!Ends(t) \/ C!Stops(t) \/ C!Breaks(t) \/ C!Cools(t) \/ C!Thaws(t)
                                \/ C!BatchEnds(t) \/ C!BatchBegins(t)
      PROVE  CenterInv'
  BY <1>6, TurnsKeep, StopsKeep
<1> QED BY <1>1, <1>2, <1>3, <1>4, <1>5, <1>6 DEF C!Next

LEMMA CenterIsSound == CenterInv => C!Sound
<1> SUFFICES ASSUME CenterInv PROVE C!Sound
  OBVIOUS
<1>1. C!BulkTakesAll
  BY DEF CenterInv, Reaches, C!BulkTakesAll, C!Alive, C!Over, Endings
<1>2. C!StoppedWithItsJob
  BY DEF CenterInv, C!StoppedWithItsJob
<1> QED BY <1>1, <1>2 DEF CenterInv, C!Sound

-----------------------------------------------------------------------------
(* The files the bot deletes.  In their part the variables have other      *)
(* names.                                                                  *)

disk    == v1
listed  == v2   \* rows
upload  == v3
permits == v4
named   == v5
clear   == v6
newer   == v7
deleter == v8

Deleters == [pc : {"off", "lookup", "object", "row", "scanned", "ids", "rest"}, file : Stored \cup {0},
             found : SUBSET Stored, left : SUBSET Stored, orphans : SUBSET Stored]
Clears   == [open : BOOLEAN, ids : SUBSET Stored, orphans : SUBSET Stored]

BotTyped ==
  /\ disk \subseteq Stored /\ listed \subseteq Stored /\ newer \subseteq Stored
  /\ upload \in [Stored -> {"none", "saved", "kept"}] /\ named \in [Stored -> Nat]
  /\ permits \in [Stored -> Nat] /\ clear \in Clears /\ deleter \in [Updates -> Deleters]

\* Files that were there before the question, and came before all that count as newer.
Older(found) == \A f \in found : upload[f] # "none" /\ f \notin newer

\* A handler deletes what was named, or what is older than the question.
Deletes(x) ==
  /\ x.pc \in {"lookup", "object", "row"} => x.file \in Stored /\ named[x.file] > 0
  /\ x.pc = "scanned" => \A f \in x.found : upload[f] # "none"
  /\ Older(x.left) /\ Older(x.orphans)

BotInv ==
  /\ BotTyped /\ B!NewerKept
  /\ \A f \in disk \cup listed : upload[f] # "none"
  /\ Older(clear.ids) /\ Older(clear.orphans)
  /\ \A h \in Updates : Deletes(deleter[h])

USE DEF disk, listed, upload, permits, named, clear, newer, deleter

LEMMA BotStarts == B!Init => BotInv
<1> SUFFICES ASSUME B!Init PROVE BotInv
  OBVIOUS
<1>1. /\ disk = {} /\ listed = {} /\ upload = [f \in Stored |-> "none"] /\ newer = {} /\ clear = B!Nothing
      /\ permits = [f \in Stored |-> 0] /\ named = [f \in Stored |-> 0] /\ deleter = [h \in Updates |-> B!Rest]
  BY DEF B!Init
<1>2. BotTyped
  BY <1>1 DEF BotTyped, B!Rest, B!Nothing, Deleters, Clears
<1>3. B!NewerKept /\ Older(clear.ids) /\ Older(clear.orphans) /\ \A h \in Updates : Deletes(deleter[h])
  BY <1>1 DEF B!NewerKept, B!Rest, B!Nothing, Older, Deletes
<1> QED BY <1>1, <1>2, <1>3 DEF BotInv

\* Files come and questions are asked; what counts as newer came just now.
Onward ==
  /\ \A f \in Stored : upload[f] # "none" => upload'[f] # "none"
  /\ \A f \in newer' : f \in newer \/ upload[f] = "none"
  /\ \A f \in Stored : named[f] > 0 => named'[f] > 0

LEMMA StaysOlder == ASSUME NEW found \in SUBSET Stored, Older(found), Onward PROVE Older(found)'
BY DEF Older, Onward

LEMMA StillDeletes == ASSUME NEW x \in Deleters, Deletes(x), Onward PROVE Deletes(x)'
<1>1. Older(x.left)' /\ Older(x.orphans)'
  BY StaysOlder DEF Deletes, Deleters
<1>2. x.found \subseteq Stored
  BY DEF Deleters
<1> QED BY <1>1, <1>2 DEF Deletes, Onward

\* A step of a handler that goes on as x, or of nobody.
LEMMA BotKeeps ==
  ASSUME BotInv, Onward, BotTyped', B!NewerKept', \A f \in disk' \cup listed' : upload'[f] # "none",
         clear' = clear \/ (Older(clear.ids)' /\ Older(clear.orphans)'),
         \A k \in Updates : deleter'[k] = deleter[k] \/ Deletes(deleter[k])'
  PROVE  BotInv'
<1>1. ASSUME NEW k \in Updates PROVE Deletes(deleter[k])'
  <2>1. CASE deleter'[k] = deleter[k]
    <3>1. PICK z : z = deleter[k]
      OBVIOUS
    <3>2. z \in Deleters /\ Deletes(z)
      BY <3>1 DEF BotInv, BotTyped
    <3>3. Deletes(z)'
      BY <3>2, StillDeletes
    <3>4. deleter'[k] = z
      BY <2>1, <3>1
    <3> QED BY <3>3, <3>4
  <2> QED BY <2>1
<1>2. Older(clear.ids)' /\ Older(clear.orphans)'
  <2>1. CASE clear' = clear
    <3>1. PICK c : c = clear
      OBVIOUS
    <3>2. c \in Clears /\ Older(c.ids) /\ Older(c.orphans)
      BY <3>1 DEF BotInv, BotTyped
    <3>3. Older(c.ids)' /\ Older(c.orphans)'
      BY <3>2, StaysOlder DEF Clears
    <3>4. clear' = c
      BY <2>1, <3>1
    <3> QED BY <3>3, <3>4
  <2> QED BY <2>1
<1> QED BY <1>1, <1>2 DEF BotInv

LEMMA UploadsKeep == ASSUME BotInv, NEW f \in Stored, B!Save(f) \/ B!Index(f) PROVE BotInv'
<1>1. /\ BotTyped /\ UNCHANGED <<permits, named, clear, deleter>>
      /\ \/ upload[f] = "none" /\ upload' = [upload EXCEPT ![f] = "saved"] /\ disk' = disk \cup {f} /\ listed' = listed
            /\ newer' \in {newer, newer \cup {f}}
         \/ upload[f] = "saved" /\ upload' = [upload EXCEPT ![f] = "kept"] /\ disk' = disk /\ listed' = listed \cup {f}
            /\ newer' = newer
  BY DEF BotInv, B!Save, B!Index
<1>2. BotTyped'
  BY <1>1 DEF BotTyped
<1>3. \A g \in Stored : upload'[g] # "none" <=> (upload[g] # "none" \/ g = f)
  BY <1>1 DEF BotTyped
<1>4. Onward
  BY <1>1, <1>3 DEF Onward
<1>5. B!NewerKept'
  BY <1>1 DEF BotInv, B!NewerKept
<1>6. \A g \in disk' \cup listed' : upload'[g] # "none"
  BY <1>1, <1>2, <1>3 DEF BotInv, BotTyped
<1> QED BY <1>1, <1>2, <1>4, <1>5, <1>6, BotKeeps

\* What the deletions leave alone.
Still == UNCHANGED <<upload, newer>> /\ listed' \subseteq listed /\ disk' \subseteq disk

\* A step of a deletion.
LEMMA DeleterKeeps ==
  ASSUME BotInv, Still, NEW h \in Updates, NEW x, deleter' = [deleter EXCEPT ![h] = x] \/ (deleter' = deleter /\ x = deleter[h]),
         x \in Deleters, clear' \in Clears, clear' = clear \/ (Older(clear'.ids) /\ Older(clear'.orphans)),
         named' \in [Stored -> Nat], permits' \in [Stored -> Nat], \A f \in Stored : named[f] <= named'[f],
         Deletes(x)',
         \A f \in newer : f \in disk => f \in disk' \/ named[f] > 0
  PROVE  BotInv'
<1>1. BotTyped /\ BotTyped' /\ \A k \in Updates : deleter'[k] = deleter[k] \/ deleter'[k] = x
  BY DEF BotInv, BotTyped, Still
<1>2. Onward
  <2>1. \A f \in Stored : named[f] > 0 => named'[f] > 0
    BY <1>1 DEF BotTyped
  <2> QED BY <2>1 DEF Onward, Still
<1>3. B!NewerKept'
  BY <1>1, <1>2 DEF BotInv, B!NewerKept, Still, Onward, BotTyped
<1>4. \A f \in disk' \cup listed' : upload'[f] # "none"
  BY DEF BotInv, Still
<1>5. clear' = clear \/ (Older(clear.ids)' /\ Older(clear.orphans)')
  BY DEF Older, Still
<1>6. ASSUME NEW k \in Updates PROVE deleter'[k] = deleter[k] \/ Deletes(deleter[k])'
  <2>1. CASE deleter'[k] = x
    BY <2>1
  <2> QED BY <1>1, <2>1
<1> QED BY <1>1, <1>2, <1>3, <1>4, <1>5, <1>6, BotKeeps

LEMMA OneFileKeeps ==
  ASSUME BotInv, NEW h \in Updates,
         \/ \E f \in Stored : B!AskDelete(h, f) \/ B!ConfirmDelete(h, f)
         \/ B!LookedUp(h) \/ B!ObjectRemoved(h) \/ B!RowDeleted(h)
  PROVE  BotInv'
<1>1. BotTyped /\ deleter[h] \in Deleters /\ Deletes(deleter[h])
  BY DEF BotInv, BotTyped
<1>2. ASSUME NEW f \in Stored, B!AskDelete(h, f) PROVE BotInv'
  <2>1. /\ permits' = [permits EXCEPT ![f] = permits[f] + 1] /\ named' = [named EXCEPT ![f] = named[f] + 1]
        /\ UNCHANGED <<clear, deleter, disk, listed, upload, newer>>
    BY <1>2 DEF B!AskDelete, B!fileVars
  <2>2. permits' \in [Stored -> Nat] /\ named' \in [Stored -> Nat] /\ \A g \in Stored : named[g] <= named'[g]
    BY <1>1, <2>1 DEF BotTyped
  <2>3. Still /\ Onward
    BY <1>1, <2>1, <2>2 DEF Still, Onward, BotTyped
  <2>4. PICK z : z = deleter[h]
    OBVIOUS
  <2>5. Deletes(z)'
    BY <1>1, <2>3, <2>4, StillDeletes
  <2> QED BY <1>1, <2>1, <2>2, <2>3, <2>4, <2>5, DeleterKeeps DEF BotTyped
<1>3. ASSUME UNCHANGED <<upload, newer, clear, named>>, permits' \in [Stored -> Nat], listed' \subseteq listed, disk' \subseteq disk,
             NEW y \in Deleters, deleter' = [deleter EXCEPT ![h] = y] \/ (deleter' = deleter /\ y = deleter[h]),
             Deletes(y), \A f \in newer : f \in disk => f \in disk' \/ named[f] > 0
      PROVE  BotInv'
  <2>1. Deletes(y)'
    BY <1>3 DEF Deletes, Older
  <2>2. Still /\ clear' \in Clears /\ named' \in [Stored -> Nat] /\ \A f \in Stored : named[f] <= named'[f]
    BY <1>1, <1>3 DEF Still, BotTyped
  <2> QED BY <1>1, <1>3, <2>1, <2>2, DeleterKeeps
<1>4. B!Rest \in Deleters /\ Deletes(B!Rest)
  BY DEF B!Rest, Deleters, Deletes, Older
<1>5. ASSUME NEW f \in Stored, B!ConfirmDelete(h, f) PROVE BotInv'
  <2>1. UNCHANGED <<upload, newer, clear, named, listed, disk>> /\ named[f] > 0
    BY <1>5 DEF B!ConfirmDelete, B!fileVars
  <2>2. CASE permits[f] = 0
    BY <1>1, <1>3, <1>5, <2>1, <2>2 DEF B!ConfirmDelete, BotTyped
  <2>3. CASE permits[f] # 0
    <3>1. PICK y : y = [B!Rest EXCEPT !.pc = "lookup", !.file = f]
      OBVIOUS
    <3>2. deleter' = [deleter EXCEPT ![h] = y] /\ permits' = [permits EXCEPT ![f] = permits[f] - 1]
      BY <1>5, <2>3, <3>1 DEF B!ConfirmDelete, B!Goto
    <3>3. permits' \in [Stored -> Nat]
      BY <1>1, <2>3, <3>2 DEF BotTyped
    <3>4. y \in Deleters /\ Deletes(y)
      BY <2>1, <3>1 DEF B!Rest, Deleters, Deletes, Older
    <3> QED BY <1>3, <2>1, <3>2, <3>3, <3>4
  <2> QED BY <2>2, <2>3
<1>6. CASE B!LookedUp(h)
  <2>1. UNCHANGED <<upload, newer, clear, named, permits, listed, disk>> /\ deleter[h].pc = "lookup"
    BY <1>6 DEF B!LookedUp, B!fileVars
  <2>2. PICK y : y = [deleter[h] EXCEPT !.pc = "object"]
    OBVIOUS
  <2>3. deleter' = [deleter EXCEPT ![h] = y] \/ deleter' = [deleter EXCEPT ![h] = B!Rest]
    BY <1>6, <2>2 DEF B!LookedUp, B!Goto, B!Leave
  <2>4. y \in Deleters /\ Deletes(y)
    BY <1>1, <2>1, <2>2 DEF Deleters, Deletes
  <2> QED BY <1>1, <1>3, <1>4, <2>1, <2>3, <2>4 DEF BotTyped
<1>7. CASE B!ObjectRemoved(h)
  <2>1. UNCHANGED <<upload, newer, clear, named, permits, listed>> /\ deleter[h].pc = "object" /\ named[deleter[h].file] > 0
    BY <1>1, <1>7 DEF B!ObjectRemoved, Deletes
  <2>2. PICK y : y = [deleter[h] EXCEPT !.pc = "row"]
    OBVIOUS
  <2>3. \/ deleter' = [deleter EXCEPT ![h] = y] /\ disk' = disk \ {deleter[h].file}
        \/ deleter' = [deleter EXCEPT ![h] = B!Rest] /\ disk' = disk
    BY <1>7, <2>2 DEF B!ObjectRemoved, B!Goto, B!Leave
  <2>4. y \in Deleters /\ Deletes(y)
    BY <1>1, <2>1, <2>2 DEF Deleters, Deletes
  <2>5. \A f \in newer : f \in disk => f \in disk' \/ named[f] > 0
    BY <2>1, <2>3
  <2> QED BY <1>1, <1>3, <1>4, <2>1, <2>3, <2>4, <2>5 DEF BotTyped
<1>8. CASE B!RowDeleted(h)
  <2>1. /\ UNCHANGED <<upload, newer, clear, named, permits, disk>> /\ listed' \subseteq listed
        /\ deleter' = [deleter EXCEPT ![h] = B!Rest]
    BY <1>8 DEF B!RowDeleted, B!Leave, B!Goto
  <2> QED BY <1>1, <1>3, <1>4, <2>1 DEF BotTyped
<1> QED BY <1>2, <1>5, <1>6, <1>7, <1>8

LEMMA PermitLostKeeps == ASSUME BotInv, NEW f \in Stored, B!TokenLost(f) PROVE BotInv'
<1>1. /\ permits' = [permits EXCEPT ![f] = permits[f] - 1] /\ permits[f] > 0 /\ BotTyped
      /\ UNCHANGED <<disk, listed, upload, newer, named, clear, deleter>>
  BY DEF BotInv, B!TokenLost, B!fileVars
<1>2. BotTyped'
  BY <1>1 DEF BotTyped
<1>3. Onward /\ B!NewerKept' /\ \A g \in disk' \cup listed' : upload'[g] # "none"
  BY <1>1 DEF BotInv, Onward, B!NewerKept
<1> QED BY <1>1, <1>2, <1>3, BotKeeps

LEMMA ClearKeeps ==
  ASSUME BotInv, NEW h \in Updates,
         B!AskClear(h) \/ B!ConfirmClear(h) \/ B!ClearFile(h) \/ B!ClearOrphan(h)
  PROVE  BotInv'
<1>1. BotTyped /\ deleter[h] \in Deleters /\ Deletes(deleter[h]) /\ Older(clear.ids) /\ Older(clear.orphans) /\ clear \in Clears
  BY DEF BotInv, BotTyped
<1>2. ASSUME UNCHANGED <<upload, newer, named, permits>>, listed' \subseteq listed, disk' \subseteq disk,
             NEW y \in Deleters, deleter' = [deleter EXCEPT ![h] = y],
             clear' \in {clear, B!Nothing}, Deletes(y), \A f \in newer : f \in disk => f \in disk'
      PROVE  BotInv'
  <2>1. Deletes(y)'
    BY <1>2 DEF Deletes, Older
  <2>2. B!Nothing \in Clears /\ Older(B!Nothing.ids) /\ Older(B!Nothing.orphans)
    BY DEF B!Nothing, Clears, Older
  <2>3. /\ Still /\ clear' \in Clears /\ named' \in [Stored -> Nat] /\ permits' \in [Stored -> Nat]
        /\ \A f \in Stored : named[f] <= named'[f]
    BY <1>1, <1>2, <2>2 DEF Still, BotTyped
  <2> QED BY <1>1, <1>2, <2>1, <2>2, <2>3, DeleterKeeps
<1>3. B!Rest \in Deleters /\ Deletes(B!Rest)
  BY DEF B!Rest, Deleters, Deletes, Older
<1>4. CASE B!AskClear(h)
  <2>1. PICK y : y = [B!Rest EXCEPT !.pc = "scanned", !.found = disk]
    OBVIOUS
  <2>2. deleter' = [deleter EXCEPT ![h] = y] /\ UNCHANGED <<permits, named, clear, disk, listed, upload, newer>>
    BY <1>4, <2>1 DEF B!AskClear, B!Goto, B!fileVars
  <2>3. y \in Deleters /\ Deletes(y)
    BY <1>1, <2>1 DEF BotInv, BotTyped, B!Rest, Deleters, Deletes, Older
  <2> QED BY <1>2, <2>2, <2>3
<1>5. CASE B!ConfirmClear(h)
  <2>1. PICK y : y = [B!Rest EXCEPT !.pc = "ids", !.left = clear.ids \cap listed, !.orphans = clear.orphans]
    OBVIOUS
  <2>2. /\ deleter' = [deleter EXCEPT ![h] = y] /\ clear' = B!Nothing
        /\ UNCHANGED <<permits, named, disk, listed, upload, newer>>
    BY <1>5, <2>1 DEF B!ConfirmClear, B!Clears, B!Goto, B!fileVars
  <2>3. y \in Deleters /\ Deletes(y)
    BY <1>1, <2>1 DEF BotTyped, B!Rest, Deleters, Clears, Deletes, Older
  <2> QED BY <1>2, <2>2, <2>3
<1>6. CASE B!ClearFile(h)
  <2>1. PICK f \in deleter[h].left :
          /\ deleter' = [deleter EXCEPT ![h] = [deleter[h] EXCEPT !.left = deleter[h].left \ {f}]]
          /\ disk' \in {disk, disk \ {f}} /\ listed' \in {listed, listed \ {f}}
    BY <1>6 DEF B!ClearFile, B!Goto
  <2>2. UNCHANGED <<upload, newer, permits, named, clear>>
    BY <1>6 DEF B!ClearFile
  <2>3. PICK y : y = [deleter[h] EXCEPT !.left = deleter[h].left \ {f}]
    OBVIOUS
  <2>4. y \in Deleters /\ Deletes(y)
    BY <1>1, <2>3 DEF Deleters, Deletes, Older
  <2>5. f \notin newer
    BY <1>1, <2>1 DEF Deletes, Older
  <2> QED BY <1>2, <2>1, <2>2, <2>3, <2>4, <2>5
<1>7. CASE B!ClearOrphan(h)
  <2>1. UNCHANGED <<listed, upload, newer, permits, named, clear>>
    BY <1>7 DEF B!ClearOrphan
  <2>2. CASE deleter[h].orphans = {}
    BY <1>2, <1>3, <1>7, <2>1, <2>2 DEF B!ClearOrphan, B!Leave, B!Goto
  <2>3. CASE deleter[h].orphans # {}
    <3>1. PICK f \in deleter[h].orphans :
            /\ deleter' = [deleter EXCEPT ![h] = [deleter[h] EXCEPT !.pc = "rest", !.orphans = deleter[h].orphans \ {f}]]
            /\ disk' = disk \ {f}
      BY <1>7, <2>3 DEF B!ClearOrphan, B!Goto
    <3>2. PICK y : y = [deleter[h] EXCEPT !.pc = "rest", !.orphans = deleter[h].orphans \ {f}]
      OBVIOUS
    <3>3. y \in Deleters /\ Deletes(y)
      BY <1>1, <3>2 DEF Deleters, Deletes, Older
    <3>4. f \notin newer
      BY <1>1, <3>1 DEF Deletes, Older
    <3> QED BY <1>2, <2>1, <3>1, <3>2, <3>3, <3>4
  <2> QED BY <2>2, <2>3
<1> QED BY <1>4, <1>5, <1>6, <1>7

\* What the snapshot has is older than the question that is asked now.
LEMMA SnapshotKeeps == ASSUME BotInv, NEW h \in Updates, B!Snapshot(h) PROVE BotInv'
<1>1. /\ deleter[h].pc = "scanned" /\ deleter' = [deleter EXCEPT ![h] = B!Rest]
      /\ clear' = [open |-> TRUE, ids |-> listed, orphans |-> deleter[h].found \ listed] /\ newer' = {}
      /\ UNCHANGED <<disk, listed, upload, permits, named>>
  BY DEF B!Snapshot, B!Leave, B!Goto
<1>2. BotTyped /\ deleter[h] \in Deleters /\ Deletes(deleter[h])
  BY DEF BotInv, BotTyped
<1>3. B!Rest \in Deleters /\ Deletes(B!Rest)'
  BY DEF B!Rest, Deleters, Deletes, Older
<1>4. clear' \in Clears
  BY <1>1, <1>2 DEF BotTyped, Clears, Deleters
<1>5. BotTyped'
  BY <1>1, <1>2, <1>3, <1>4 DEF BotTyped
<1>6. Older(clear.ids)' /\ Older(clear.orphans)'
  BY <1>1, <1>2 DEF BotInv, Older, Deletes
<1>7. \A k \in Updates : deleter'[k] = deleter[k] \/ deleter'[k] = B!Rest
  BY <1>1, <1>2 DEF BotTyped
<1>8. \A k \in Updates : deleter'[k] = deleter[k] \/ Deletes(deleter[k])'
  BY <1>3, <1>7
<1>9. Onward /\ B!NewerKept' /\ \A g \in disk' \cup listed' : upload'[g] # "none"
  BY <1>1 DEF BotInv, Onward, B!NewerKept
<1> QED BY <1>5, <1>6, <1>8, <1>9, BotKeeps

LEMMA BotSteps == ASSUME BotInv, [B!Next]_(B!vars) PROVE BotInv'
<1>1. CASE UNCHANGED B!vars \/ B!ClearLost
  <2>1. UNCHANGED <<disk, listed, upload, newer, permits, named, deleter>> /\ clear' \in {clear, B!Nothing} /\ BotTyped
    BY <1>1 DEF BotInv, B!vars, B!fileVars, B!ClearLost
  <2>2. B!Nothing \in Clears
    BY DEF B!Nothing, Clears
  <2>3. BotTyped'
    BY <2>1, <2>2 DEF BotTyped
  <2>4. clear' = clear \/ (Older(clear.ids)' /\ Older(clear.orphans)')
    BY <2>1 DEF B!Nothing, Older
  <2>5. Onward /\ B!NewerKept' /\ \A g \in disk' \cup listed' : upload'[g] # "none"
    BY <2>1 DEF BotInv, Onward, B!NewerKept
  <2> QED BY <2>1, <2>3, <2>4, <2>5, BotKeeps
<1>2. ASSUME NEW f \in Stored, B!Save(f) \/ B!Index(f) \/ B!TokenLost(f) PROVE BotInv'
  BY <1>2, UploadsKeep, PermitLostKeeps
<1>3. ASSUME NEW f \in Stored, NEW h \in Updates, B!AskDelete(h, f) \/ B!ConfirmDelete(h, f) PROVE BotInv'
  BY <1>3, OneFileKeeps
<1>4. ASSUME NEW h \in Updates, B!Continue(h) \/ B!AskClear(h) \/ B!ConfirmClear(h) PROVE BotInv'
  BY <1>4, OneFileKeeps, ClearKeeps, SnapshotKeeps DEF B!Continue
<1> QED BY <1>1, <1>2, <1>3, <1>4 DEF B!Next

\* A set of numbers has a least one.
LEMMA Least == ASSUME NEW some \in SUBSET Nat, some # {} PROVE \E n \in some : \A m \in some : n <= m
<1>1. PICK n \in some : \A m \in some : ~(<<m, n>> \in OpToRel(<, Nat))
  BY NatLessThanWellFounded, WFMin
<1>2. ASSUME NEW m \in some PROVE n <= m
  <2>1. ~(<<m, n>> \in OpToRel(<, Nat)) /\ <<m, n>> \in Nat \X Nat
    BY <1>1
  <2>2. ~(m < n)
    BY <2>1 DEF OpToRel
  <2> QED BY <2>2
<1> QED BY <1>2


-----------------------------------------------------------------------------
(* The conversation with the bot.  In its part the variables have other    *)
(* names.                                                                  *)

wizard  == v1
current == v2
update  == v3
default == v4
jobs    == v5
stored  == v7
given   == v8
taken   == v9
subs    == v10
tokens  == v11
prompts == v12
ended   == v13

Said    == Words \cup {0}
Terms   == [folder : Said, comments : Said, since : Said, word : Said, target : Accounts \cup {0}]
Wizards == [kind : {"none", "subs", "download", "date", "tag"},
            step : {"mode", "source", "path", "comments", "since", "until", "word", "confirm"},
            source : BOOLEAN, sub : Subscriptions \cup {0}, folder : Said, comments : Said, since : Said, word : Said,
            target : Accounts \cup {0}, shown : SUBSET Terms, hasty : BOOLEAN]
Numbers == 1 .. MaxWizards
Thinks  == {"path", "target", "number", "enqueue"}
Hearers == [pc : {"off", "row", "written", "listed", "unlisted", "unsubscribe", "subscribe"} \cup Thinks,
            w : 0 .. MaxWizards, word : Said, mode : W!Modes, target : Accounts \cup {0}, sub : Subscriptions \cup {0}]

TalkTyped ==
  /\ wizard \in [Numbers -> Wizards] /\ current \in 0 .. MaxWizards /\ update \in [Updates -> Hearers]
  /\ default \in Accounts /\ v6 \in W!Modes \cup {"none"} /\ stored \in [W!Modes -> Said] /\ given \in Nat /\ taken \in Nat
  /\ subs \subseteq Subscriptions /\ tokens \in [Subscriptions -> Nat]
  /\ prompts \in [Subscriptions -> Nat] /\ ended \in [Subscriptions -> Nat]

\* The terms that were shown last are those the wizard has, unless the user did not wait.
Showing(s) == s.step = "confirm" => s.hasty \/ s.shown = {W!Terms(s)}

\* A handler that waits has its wizard for itself, or the user did not wait for it; and the one of a wizard that
\* was agreed to finds the terms as they were shown.
OnItsOwn(h) ==
  LET x == update[h] IN
  /\ x.pc \in Thinks <=> x.w # 0
  /\ x.w # 0 =>
       /\ wizard[x.w].kind # "none"
       /\ \/ wizard[x.w].hasty
          \/ /\ x.pc = "enqueue" <=> wizard[x.w].step = "confirm"
             /\ \A k \in Updates \ {h} : update[k].w # x.w
  /\ x.pc = "enqueue" => x.w # current
  /\ x.pc \in {"listed", "unlisted", "unsubscribe"} => x.sub \in Subscriptions

TalkInv ==
  /\ TalkTyped /\ W!Sound
  /\ current # 0 => wizard[current].kind # "none"
  /\ \A w \in Numbers : Showing(wizard[w])
  /\ \A h \in Updates : OnItsOwn(h)

USE DEF wizard, current, update, default, jobs, stored, given, taken, subs, tokens, prompts, ended

LEMMA TalkStarts == W!Init => TalkInv
<1> SUFFICES ASSUME W!Init PROVE TalkInv
  OBVIOUS
<1>1. /\ wizard = [w \in Numbers |-> W!NoWizard] /\ current = 0 /\ update = [h \in Updates |-> W!Rest]
      /\ default \in Accounts /\ jobs = {} /\ v6 = "none" /\ stored = [m \in W!Modes |-> 0] /\ given = 0 /\ taken = 0
      /\ subs = Subscriptions /\ tokens = [s \in Subscriptions |-> 0] /\ prompts = [s \in Subscriptions |-> 0]
      /\ ended = [s \in Subscriptions |-> 0]
  BY DEF W!Init, Numbers
<1>2. W!NoWizard \in Wizards /\ W!NoWizard.step = "mode"
  BY DEF W!NoWizard, Wizards, Said
<1>3. W!Rest \in Hearers /\ W!Rest.pc = "off" /\ W!Rest.w = 0
  BY TalkSized DEF W!Rest, Hearers, Thinks, Said, W!Modes
<1>4. TalkTyped
  BY <1>1, <1>2, <1>3, TalkSized DEF TalkTyped, Said
<1>5. W!AgreedIsDone /\ W!GivenServesOne
  BY <1>1 DEF W!AgreedIsDone, W!GivenServesOne, W!Modes
<1>6. W!ConfirmedOnce
  <2>1. ASSUME NEW s \in Subscriptions PROVE {h \in Updates : update[h].pc = "unsubscribe" /\ update[h].sub = s} = {}
    BY <1>1, <1>3
  <2>2. W!Cardinality({}) = 0
    BY FS_EmptySet DEF W!Cardinality, Cardinality
  <2> QED BY <1>1, <2>1, <2>2 DEF W!ConfirmedOnce
<1>7. \A h \in Updates : OnItsOwn(h)
  BY <1>1, <1>3 DEF OnItsOwn, Thinks
<1>8. \A w \in Numbers : Showing(wizard[w])
  BY <1>1, <1>2 DEF Showing
<1> QED BY <1>1, <1>4, <1>5, <1>6, <1>7, <1>8 DEF TalkInv, W!Sound

\* What a step does to the wizards and the handlers: at most one of each changes.
LEMMA TalkKeeps ==
  ASSUME TalkInv, TalkTyped', W!Sound',
         NEW v, NEW s,
         wizard' = wizard \/ (v \in Numbers /\ wizard' = [wizard EXCEPT ![v] = s] /\ s.kind # "none" /\ Showing(s)),
         wizard' # wizard => \A k \in Updates : update[k].w = v /\ update'[k] = update[k] =>
                               /\ wizard[v].hasty => s.hasty
                               /\ s.hasty \/ (update[k].pc # "enqueue" /\ s.step # "confirm"),
         \A k \in Updates : update'[k] = update[k] \/ OnItsOwn(k)',
         \A k \in Updates, l \in Updates : update'[k] = update[k] /\ update'[l] # update[l] /\ update'[l].w = update[k].w /\ update[k].w # 0 =>
                                             wizard'[update[k].w].hasty,
         current' \in {0, current} \/ (\A k \in Updates : update[k].w # current'),
         current' # 0 => wizard'[current'].kind # "none"
  PROVE  TalkInv'
<1>1. TalkTyped
  BY DEF TalkInv
<1>2. \A w \in Numbers : wizard'[w] = IF wizard' # wizard /\ w = v THEN s ELSE wizard[w]
  BY <1>1 DEF TalkTyped
<1>3. ASSUME NEW w \in Numbers PROVE Showing(wizard[w])'
  <2>1. PICK z : z = wizard'[w]
    OBVIOUS
  <2>2. Showing(z)
    BY <1>2, <2>1 DEF TalkInv
  <2>3. Showing(z)'
    BY <2>2 DEF Showing, W!Terms
  <2> QED BY <2>1, <2>3
<1>4. ASSUME NEW k \in Updates, update'[k] = update[k] PROVE OnItsOwn(k)'
  <2>1. PICK x : x = update[k]
    OBVIOUS
  <2>2. x.w \in 0 .. MaxWizards /\ (x.w # 0 => x.w \in Numbers) /\ OnItsOwn(k)
    BY <1>1, <2>1, TalkSized DEF TalkInv, TalkTyped, Hearers, Numbers
  <2>3. x.pc = "enqueue" => x.w # current' /\ x.w # 0
    BY <2>1, <2>2 DEF OnItsOwn, Thinks
  <2>4. ASSUME x.w # 0
        PROVE  /\ wizard'[x.w].kind # "none"
               /\ \/ wizard'[x.w].hasty
                  \/ /\ x.pc = "enqueue" <=> wizard'[x.w].step = "confirm"
                     /\ \A l \in Updates \ {k} : update'[l].w # x.w
    <3>1. wizard[x.w].kind # "none" /\ wizard'[x.w].kind # "none"
      BY <1>2, <2>1, <2>2, <2>4 DEF OnItsOwn
    <3>2. wizard[x.w].hasty => wizard'[x.w].hasty
      BY <1>2, <1>4, <2>1, <2>2, <2>4
    <3>3. ASSUME ~wizard'[x.w].hasty
          PROVE  /\ x.pc = "enqueue" <=> wizard'[x.w].step = "confirm"
                 /\ \A l \in Updates \ {k} : update'[l].w # x.w
      <4>1. /\ x.pc = "enqueue" <=> wizard[x.w].step = "confirm"
            /\ \A l \in Updates \ {k} : update[l].w # x.w
        BY <2>1, <2>2, <2>4, <3>2, <3>3 DEF OnItsOwn
      <4>2. x.pc = "enqueue" <=> wizard'[x.w].step = "confirm"
        BY <1>2, <1>4, <2>1, <2>2, <2>4, <3>3, <4>1
      <4>3. ASSUME NEW l \in Updates \ {k}, update'[l].w = x.w PROVE FALSE
        BY <1>4, <2>1, <2>4, <3>3, <4>1, <4>3
      <4> QED BY <4>2, <4>3
    <3> QED BY <3>1, <3>3
  <2>5. /\ x.pc \in Thinks <=> x.w # 0
        /\ x.pc \in {"listed", "unlisted", "unsubscribe"} => x.sub \in Subscriptions
    BY <2>1, <2>2 DEF OnItsOwn
  <2>6. update'[k] = x
    BY <1>4, <2>1
  <2> QED BY <2>3, <2>4, <2>5, <2>6 DEF OnItsOwn
<1> QED BY <1>3, <1>4 DEF TalkInv

\* What the user agreed to, gave and confirmed is not touched by most of what is said.
Ending(t) == {k \in Updates : update[k].pc = "unsubscribe" /\ update[k].sub = t}

LEMMA EndingCounts ==
  ASSUME TalkInv, NEW t \in Subscriptions
  PROVE  /\ IsFiniteSet(Ending(t)) /\ Cardinality(Ending(t)) \in Nat
         /\ ended[t] + tokens[t] + Cardinality(Ending(t)) <= prompts[t]
<1>1. IsFiniteSet(Ending(t)) /\ Cardinality(Ending(t)) \in Nat
  BY TalkSized, FS_Subset, FS_CardinalityType DEF Ending
<1>2. Cardinality(Ending(t)) = W!Cardinality({h \in Updates : update[h].pc = "unsubscribe" /\ update[h].sub = t})
  BY DEF Ending, W!Cardinality, Cardinality
<1> QED BY <1>1, <1>2 DEF TalkInv, W!Sound, W!ConfirmedOnce

LEMMA EndsStand ==
  ASSUME TalkInv,
         \A t \in Subscriptions :
           /\ ended'[t] \in Nat /\ tokens'[t] \in Nat /\ prompts'[t] \in Nat
           /\ ended'[t] + tokens'[t] + prompts[t] <= ended[t] + tokens[t] + prompts'[t],
         \A k \in Updates : update'[k].pc = "unsubscribe" => update'[k] = update[k]
  PROVE  W!ConfirmedOnce'
<1> SUFFICES ASSUME NEW t \in Subscriptions
             PROVE  ended'[t] + tokens'[t]
                      + W!Cardinality({h \in Updates : update'[h].pc = "unsubscribe" /\ update'[h].sub = t}) <= prompts'[t]
  BY DEF W!ConfirmedOnce
<1> DEFINE after == {h \in Updates : update'[h].pc = "unsubscribe" /\ update'[h].sub = t}
<1>1. after \subseteq Ending(t)
  BY DEF Ending
<1>2. Cardinality(after) <= Cardinality(Ending(t)) /\ Cardinality(after) \in Nat
  BY <1>1, EndingCounts, FS_Subset, FS_CardinalityType
<1>3. W!Cardinality(after) = Cardinality(after)
  BY DEF W!Cardinality, Cardinality
<1>4. ended[t] \in Nat /\ tokens[t] \in Nat /\ prompts[t] \in Nat
  BY DEF TalkInv, TalkTyped
<1> HIDE DEF after
<1>5. ended'[t] + tokens'[t] + Cardinality(after) <= prompts'[t]
  BY <1>2, <1>4, EndingCounts
<1> QED BY <1>3, <1>5 DEF after

LEMMA SoundStands ==
  ASSUME TalkInv, UNCHANGED <<jobs, stored, given, taken, tokens, prompts, ended>>,
         \A k \in Updates : update'[k].pc = "unsubscribe" => update'[k] = update[k]
  PROVE  W!Sound'
<1>1. W!AgreedIsDone' /\ W!GivenServesOne'
  BY DEF TalkInv, W!Sound, W!AgreedIsDone, W!GivenServesOne
<1>2. ASSUME NEW t \in Subscriptions
      PROVE  /\ ended'[t] \in Nat /\ tokens'[t] \in Nat /\ prompts'[t] \in Nat
             /\ ended'[t] + tokens'[t] + prompts[t] <= ended[t] + tokens[t] + prompts'[t]
  BY DEF TalkInv, TalkTyped
<1>3. W!ConfirmedOnce'
  BY <1>2, EndsStand
<1> QED BY <1>1, <1>3 DEF W!Sound

\* A handler that has let go of its wizard.
Detached(x) == x.w = 0 /\ x.pc \notin Thinks /\ (x.pc \in {"listed", "unlisted", "unsubscribe"} => x.sub \in Subscriptions)

\* The wizards stay as they are.
LEMMA WizardsStand ==
  ASSUME TalkInv, TalkTyped', W!Sound', wizard' = wizard, current' \in {0, current},
         \A k \in Updates : update'[k] = update[k] \/ Detached(update'[k])
  PROVE  TalkInv'
<1>1. ASSUME NEW k \in Updates, Detached(update'[k]) PROVE OnItsOwn(k)'
  BY <1>1 DEF OnItsOwn, Detached, Thinks
<1>2. \A k \in Updates : update'[k] = update[k] \/ OnItsOwn(k)'
  BY <1>1
<1>3. ASSUME NEW k \in Updates, NEW l \in Updates, update'[k] = update[k], update'[l] # update[l],
             update'[l].w = update[k].w, update[k].w # 0
      PROVE  FALSE
  BY <1>3 DEF Detached
<1>4. current' # 0 => wizard'[current'].kind # "none"
  BY DEF TalkInv
<1>5. current' \in {0, current} \/ (\A k \in Updates : update[k].w # current')
  OBVIOUS
<1> QED BY <1>2, <1>3, <1>4, <1>5, TalkKeeps

\* Something is said to the current wizard, and no handler waits for it.
LEMMA SayKeeps ==
  ASSUME TalkInv, current # 0, NEW s \in Wizards, wizard' = [wizard EXCEPT ![current] = s],
         s.kind # "none", s.step # "confirm", wizard[current].hasty => s.hasty,
         update' \in [Updates -> Hearers],
         \A k \in Updates : update'[k] = update[k] \/ (Detached(update'[k]) /\ update'[k].pc # "unsubscribe"),
         current' \in {0, current},
         UNCHANGED <<default, jobs, v6, stored, given, taken, subs, tokens, prompts, ended>>
  PROVE  TalkInv'
<1>1. TalkTyped
  BY DEF TalkInv
<1>2. current \in Numbers
  BY <1>1, TalkSized DEF TalkTyped, Numbers
<1>3. TalkTyped'
  BY <1>1, <1>2, TalkSized DEF TalkTyped
<1>4. W!Sound'
  BY SoundStands
<1>5. Showing(s)
  BY DEF Showing
<1>6. ASSUME NEW k \in Updates, Detached(update'[k]) PROVE OnItsOwn(k)'
  BY <1>6 DEF OnItsOwn, Detached, Thinks
<1>7. \A k \in Updates : update'[k] = update[k] \/ OnItsOwn(k)'
  BY <1>6
<1>8. ASSUME NEW k \in Updates, NEW l \in Updates, update'[k] = update[k], update'[l] # update[l],
             update'[l].w = update[k].w, update[k].w # 0
      PROVE  FALSE
  BY <1>8 DEF Detached
<1>9. PICK v : v = current
  OBVIOUS
<1>10. ASSUME NEW k \in Updates, update[k].w = v
       PROVE  (wizard[v].hasty => s.hasty) /\ (s.hasty \/ (update[k].pc # "enqueue" /\ s.step # "confirm"))
  BY <1>9, <1>10 DEF TalkInv, OnItsOwn
<1>11. current' # 0 => wizard'[current'].kind # "none"
  BY <1>1, <1>2 DEF TalkTyped
<1>12. current' \in {0, current} \/ (\A k \in Updates : update[k].w # current')
  OBVIOUS
<1>13. wizard' = wizard \/ (v \in Numbers /\ wizard' = [wizard EXCEPT ![v] = s] /\ s.kind # "none" /\ Showing(s))
  BY <1>2, <1>5, <1>9
<1>14. wizard' # wizard => \A k \in Updates : update[k].w = v /\ update'[k] = update[k] =>
                              /\ wizard[v].hasty => s.hasty
                              /\ s.hasty \/ (update[k].pc # "enqueue" /\ s.step # "confirm")
  BY <1>10
<1>15. \A k \in Updates, l \in Updates : update'[k] = update[k] /\ update'[l] # update[l] /\ update'[l].w = update[k].w /\ update[k].w # 0 =>
                                             wizard'[update[k].w].hasty
  BY <1>8
<1> QED BY <1>3, <1>4, <1>7, <1>11, <1>12, <1>13, <1>14, <1>15, TalkKeeps

\* A wizard that was not in use is begun, and is the current one.
LEMMA BeginKeeps ==
  ASSUME TalkInv, NEW s \in Wizards, s.kind # "none", s.step # "confirm", W!Begin(s),
         UNCHANGED <<update, default, jobs, v6, stored, given, taken, subs, tokens, prompts, ended>>
  PROVE  TalkInv'
<1>1. TalkTyped
  BY DEF TalkInv
<1>2. PICK v : v = CHOOSE w \in W!Fresh : \A u \in W!Fresh : w <= u
  OBVIOUS
<1>3. v \in W!Fresh
  <2>1. W!Fresh \in SUBSET Nat /\ W!Fresh # {}
    BY TalkSized DEF W!Begin, W!Fresh
  <2> QED BY <1>2, <2>1, Least
<1>4. v \in Numbers /\ v # 0 /\ v \in 0 .. MaxWizards /\ wizard[v].kind = "none"
  BY <1>3, TalkSized DEF W!Fresh, Numbers
<1>5. wizard' = [wizard EXCEPT ![v] = s] /\ current' = v
  BY <1>2 DEF W!Begin
<1>6. TalkTyped'
  BY <1>1, <1>4, <1>5 DEF TalkTyped
<1>7. W!Sound'
  BY SoundStands
<1>8. \A k \in Updates : update[k].w # v
  BY <1>4 DEF TalkInv, OnItsOwn
<1>9. Showing(s)
  BY DEF Showing
<1>10. wizard'[v].kind # "none"
  BY <1>1, <1>4, <1>5 DEF TalkTyped
<1> QED BY <1>4, <1>5, <1>6, <1>7, <1>8, <1>9, <1>10, TalkKeeps

\* A handler that is free has no wizard.
LEMMA FreeIsDetached ==
  ASSUME TalkInv, NEW h \in Updates, W!Free(h)
  PROVE  update[h].pc = "off" /\ update[h].w = 0
<1>1. h \in W!Idle
  BY DEF W!Free
<1> QED BY <1>1 DEF W!Idle, TalkInv, OnItsOwn, Thinks

\* A message is heard and its handler keeps the wizard while it waits.
LEMMA HearKeeps ==
  ASSUME TalkInv, NEW h \in Updates, W!Free(h), current # 0, NEW s \in Wizards, NEW x \in Hearers,
         s.kind = wizard[current].kind, s.step = wizard[current].step,
         s.hasty = (wizard[current].hasty \/ W!Busy(current)), Showing(s),
         x.w = current, x.pc \in Thinks, x.pc = "enqueue" <=> s.step = "confirm",
         current' = IF x.pc = "enqueue" THEN 0 ELSE current,
         wizard' = [wizard EXCEPT ![current] = s], update' = [update EXCEPT ![h] = x],
         UNCHANGED <<default, jobs, v6, stored, given, taken, subs, tokens, prompts, ended>>
  PROVE  TalkInv'
<1>1. TalkTyped /\ update[h].pc = "off" /\ update[h].w = 0
  BY FreeIsDetached DEF TalkInv
<1>2. PICK v : v = current
  OBVIOUS
<1>3. v \in Numbers /\ v # 0 /\ s.kind # "none"
  BY <1>1, <1>2, TalkSized DEF TalkInv, TalkTyped, Numbers
<1>4. wizard' = [wizard EXCEPT ![v] = s] /\ (\A k \in Updates : update'[k] = IF k = h THEN x ELSE update[k])
  BY <1>1, <1>2 DEF TalkTyped
<1>5. TalkTyped'
  BY <1>1, <1>2, <1>3, <1>4, TalkSized DEF TalkTyped
<1>6. W!Sound'
  <2>1. \A k \in Updates : update'[k].pc = "unsubscribe" => update'[k] = update[k]
    BY <1>4 DEF Thinks
  <2> QED BY <2>1, SoundStands
<1>7. ASSUME NEW k \in Updates, update[k].w = v PROVE s.hasty /\ k # h
  <2>1. update[k].pc # "off"
    BY <1>3, <1>7 DEF TalkInv, OnItsOwn, Thinks
  <2>2. k \in Updates \ W!Idle
    BY <2>1 DEF W!Idle
  <2>3. W!Busy(current)
    BY <1>2, <1>7, <2>2 DEF W!Busy
  <2> QED BY <1>1, <1>3, <1>7, <2>3
<1>8. wizard'[v] = s
  BY <1>1, <1>3, <1>4 DEF TalkTyped
<1>9. OnItsOwn(h)'
  <2>1. update'[h] = x /\ x.w = v
    BY <1>2, <1>4
  <2>2. s.hasty \/ (\A k \in Updates \ {h} : update'[k].w # v)
    BY <1>4, <1>7
  <2>3. x.pc = "enqueue" => v # current'
    BY <1>3
  <2>4. x.pc \notin {"listed", "unlisted", "unsubscribe"}
    BY DEF Thinks
  <2> QED BY <1>3, <1>8, <2>1, <2>2, <2>3, <2>4 DEF OnItsOwn
<1>10. \A k \in Updates : update'[k] = update[k] \/ OnItsOwn(k)'
  BY <1>4, <1>9
<1>11. ASSUME NEW k \in Updates, NEW l \in Updates, update'[k] = update[k], update'[l] # update[l],
              update'[l].w = update[k].w, update[k].w # 0
       PROVE  wizard'[update[k].w].hasty
  BY <1>2, <1>4, <1>7, <1>8, <1>11
<1>12. current' # 0 => wizard'[current'].kind # "none"
  BY <1>2, <1>3, <1>8
<1>13. current' \in {0, current}
  OBVIOUS
<1>14. ASSUME NEW k \in Updates, update[k].w = v
       PROVE  (wizard[v].hasty => s.hasty) /\ (s.hasty \/ (update[k].pc # "enqueue" /\ s.step # "confirm"))
  BY <1>7, <1>14
<1>15. wizard' # wizard => \A k \in Updates : update[k].w = v /\ update'[k] = update[k] =>
                              /\ wizard[v].hasty => s.hasty
                              /\ s.hasty \/ (update[k].pc # "enqueue" /\ s.step # "confirm")
  BY <1>14
<1>16. \A k \in Updates, l \in Updates : update'[k] = update[k] /\ update'[l] # update[l] /\ update'[l].w = update[k].w /\ update[k].w # 0 =>
                                             wizard'[update[k].w].hasty
  BY <1>11
<1> QED BY <1>3, <1>4, <1>5, <1>6, <1>10, <1>12, <1>13, <1>15, <1>16, TalkKeeps

\* What a handler does with its wizard at last; the handler may go on to subscribe.
LEMMA AnswerKeeps ==
  ASSUME TalkInv, NEW h \in Updates, update[h].pc \in Thinks \ {"enqueue"}, NEW s \in Wizards, NEW x \in Hearers,
         s.kind # "none", s.hasty = wizard[update[h].w].hasty, Showing(s),
         x.w = 0, x.pc \in {"off", "subscribe"}, current' \in {0, current},
         wizard' = [wizard EXCEPT ![update[h].w] = s], update' = [update EXCEPT ![h] = x],
         UNCHANGED <<default, jobs, v6, stored, given, taken, subs, tokens, prompts, ended>>
  PROVE  TalkInv'
<1>1. TalkTyped /\ OnItsOwn(h)
  BY DEF TalkInv
<1>2. PICK v : v = update[h].w
  OBVIOUS
<1>3. v \in Numbers /\ v # 0
  <2>1. v \in 0 .. MaxWizards /\ v # 0
    BY <1>1, <1>2 DEF TalkTyped, Hearers, OnItsOwn
  <2> QED BY <2>1, TalkSized DEF Numbers
<1>4. wizard' = [wizard EXCEPT ![v] = s] /\ (\A k \in Updates : update'[k] = IF k = h THEN x ELSE update[k])
  BY <1>1, <1>2 DEF TalkTyped
<1>5. TalkTyped'
  <2>1. wizard' \in [Numbers -> Wizards] /\ update' \in [Updates -> Hearers]
    BY <1>1, <1>4 DEF TalkTyped
  <2>2. current' \in 0 .. MaxWizards
    BY <1>1, TalkSized DEF TalkTyped
  <2> QED BY <1>1, <2>1, <2>2 DEF TalkTyped
<1>6. W!Sound'
  <2>1. \A k \in Updates : update'[k].pc = "unsubscribe" => update'[k] = update[k]
    BY <1>4
  <2> QED BY <2>1, SoundStands
<1>7. ASSUME NEW k \in Updates, update[k].w = v, update'[k] = update[k]
      PROVE  (wizard[v].hasty => s.hasty) /\ (s.hasty \/ (update[k].pc # "enqueue" /\ s.step # "confirm"))
  <2>1. k # h
    BY <1>3, <1>4, <1>7
  <2>2. wizard[v].hasty
    BY <1>1, <1>2, <1>3, <1>7, <2>1 DEF OnItsOwn
  <2> QED BY <1>2, <2>2
<1>8. OnItsOwn(h)'
  BY <1>4 DEF OnItsOwn, Thinks
<1>9. \A k \in Updates : update'[k] = update[k] \/ OnItsOwn(k)'
  BY <1>4, <1>8
<1>10. ASSUME NEW k \in Updates, NEW l \in Updates, update'[k] = update[k], update'[l] # update[l],
              update'[l].w = update[k].w, update[k].w # 0
       PROVE  FALSE
  BY <1>4, <1>10
<1>11. current' # 0 => wizard'[current'].kind # "none"
  BY <1>1, <1>3, <1>4 DEF TalkTyped, TalkInv
<1>12. current' \in {0, current} \/ (\A k \in Updates : update[k].w # current')
  OBVIOUS
<1>13. wizard' # wizard => \A k \in Updates : update[k].w = v /\ update'[k] = update[k] =>
                              /\ wizard[v].hasty => s.hasty
                              /\ s.hasty \/ (update[k].pc # "enqueue" /\ s.step # "confirm")
  BY <1>7
<1>14. \A k \in Updates, l \in Updates : update'[k] = update[k] /\ update'[l] # update[l] /\ update'[l].w = update[k].w /\ update[k].w # 0 =>
                                             wizard'[update[k].w].hasty
  BY <1>10
<1> QED BY <1>3, <1>4, <1>5, <1>6, <1>9, <1>11, <1>12, <1>13, <1>14, TalkKeeps

LEMMA WordsAreSaid == Words \subseteq Said
BY DEF Said

LEMMA CurrentIsInUse ==
  ASSUME TalkInv, current # 0
  PROVE  current \in Numbers /\ wizard[current] \in Wizards /\ wizard[current].kind # "none"
BY TalkSized DEF TalkInv, TalkTyped, Numbers

\* An answer that only notes something.
LEMMA AnswersKeep ==
  ASSUME TalkInv,
         \/ \E kind \in {"date", "tag"} : W!AnswerMode(kind)
         \/ \E c \in Said : W!AnswerSource(c)
         \/ \E c \in Words : W!AnswerComments(c)
         \/ \E word \in Words : W!AnswerSince(word)
  PROVE  TalkInv'
<1>1. PICK s : /\ \/ \E kind \in {"date", "tag"} : s = [W!Now EXCEPT !.kind = kind, !.step = "source"]
                  \/ \E c \in Said : s = [W!Now EXCEPT !.source = TRUE, !.step = "path",
                                                       !.comments = IF c = 0 THEN @ ELSE c]
                  \/ \E c \in Words : s = [W!Now EXCEPT !.comments = c, !.step = W!Question(W!Now)]
                  \/ \E word \in Words : s = [W!Now EXCEPT !.since = word, !.step = "until"]
               /\ W!Say(s) /\ current # 0 /\ update' = update
  BY DEF W!AnswerMode, W!AnswerSource, W!AnswerComments, W!AnswerSince, W!Heard
<1>2. PICK z \in Wizards : z = wizard[current] /\ z.kind # "none"
  BY <1>1, CurrentIsInUse
<1>3. PICK y \in Wizards : y = W!Now /\ y.kind = z.kind /\ (z.hasty => y.hasty)
  <2>1. W!Now = [z EXCEPT !.hasty = @ \/ W!Busy(current)]
    BY <1>2 DEF W!Now
  <2>2. W!Busy(current) \in BOOLEAN
    BY DEF W!Busy
  <2> QED BY <2>1, <2>2 DEF Wizards
<1>4. s \in Wizards /\ s.kind # "none" /\ s.step # "confirm" /\ (wizard[current].hasty => s.hasty)
  <2>1. W!Question(y) \in {"word", "since"}
    BY DEF W!Question
  <2>2. y \in Wizards /\ y.kind # "none" /\ (wizard[current].hasty => y.hasty)
    BY <1>2, <1>3
  <2>3. ASSUME NEW kind \in {"date", "tag"}, s = [y EXCEPT !.kind = kind, !.step = "source"]
        PROVE  s \in Wizards /\ s.kind # "none" /\ s.step # "confirm" /\ s.hasty = y.hasty
    BY <2>2, <2>3 DEF Wizards
  <2>4. ASSUME NEW c \in Said, s = [y EXCEPT !.source = TRUE, !.step = "path", !.comments = IF c = 0 THEN @ ELSE c]
        PROVE  s \in Wizards /\ s.kind # "none" /\ s.step # "confirm" /\ s.hasty = y.hasty
    <3>1. PICK d \in Said : d = IF c = 0 THEN y.comments ELSE c
      BY <2>2 DEF Wizards
    <3>2. s = [y EXCEPT !.source = TRUE, !.step = "path", !.comments = d]
      BY <2>4, <3>1
    <3> QED BY <2>2, <3>2 DEF Wizards
  <2>5. ASSUME NEW c \in Said, NEW q \in {"word", "since"}, s = [y EXCEPT !.comments = c, !.step = q]
        PROVE  s \in Wizards /\ s.kind # "none" /\ s.step # "confirm" /\ s.hasty = y.hasty
    BY <2>2, <2>5 DEF Wizards
  <2>6. ASSUME NEW word \in Said, s = [y EXCEPT !.since = word, !.step = "until"]
        PROVE  s \in Wizards /\ s.kind # "none" /\ s.step # "confirm" /\ s.hasty = y.hasty
    BY <2>2, <2>6 DEF Wizards
  <2>7. s \in Wizards /\ s.kind # "none" /\ s.step # "confirm" /\ s.hasty = y.hasty
    BY <1>1, <1>3, <2>1, <2>3, <2>4, <2>5, <2>6, WordsAreSaid
  <2> QED BY <2>2, <2>7
<1>5. update' \in [Updates -> Hearers]
  BY <1>1 DEF TalkInv, TalkTyped
<1> QED BY <1>1, <1>4, <1>5, SayKeeps DEF W!Say, W!pathVars, W!subVars

\* A wizard is begun by a command, a button of a message, or one of a subscription.
LEMMA BeginsKeep ==
  ASSUME TalkInv,
         \/ \E kind \in {"subs", "download", "date", "tag"} : W!Start(kind)
         \/ \E kind \in {"date", "tag"} : W!ModePressed(kind)
         \/ \E c \in Words : W!CommentsPressed(c)
         \/ \E t \in Subscriptions : W!FolderPressed(t)
  PROVE  TalkInv'
<1>1. W!NoWizard \in Wizards
  BY DEF W!NoWizard, Wizards, Said
<1>2. PICK z \in Wizards : z = W!Shown /\ z.kind # "none" /\ (current # 0 => z = wizard[current])
  <2>1. CASE current = 0
    <3>1. W!Shown = [W!NoWizard EXCEPT !.kind = "download"]
      BY <2>1 DEF W!Shown
    <3> QED BY <1>1, <2>1, <3>1 DEF Wizards
  <2>2. CASE current # 0
    BY <2>2, CurrentIsInUse DEF W!Shown
  <2> QED BY <2>1, <2>2
<1>3. ASSUME NEW s \in Wizards, s.kind # "none", s.step # "confirm", s.hasty = z.hasty, W!Pressed(s) PROVE TalkInv'
  <2>1. CASE current = 0
    BY <1>3, <2>1, BeginKeeps DEF W!Pressed, W!pathVars, W!subVars
  <2>2. CASE current # 0
    <3>1. update' \in [Updates -> Hearers] /\ update' = update
      BY <1>3 DEF W!Pressed, TalkInv, TalkTyped
    <3> QED BY <1>2, <1>3, <2>2, <3>1, SayKeeps DEF W!Pressed, W!pathVars, W!subVars
  <2> QED BY <2>1, <2>2
<1>4. CASE \E kind \in {"subs", "download", "date", "tag"} : W!Start(kind)
  <2>1. PICK kind \in {"subs", "download", "date", "tag"} : W!Start(kind)
    BY <1>4
  <2>2. PICK s : s = [W!NoWizard EXCEPT !.kind = kind, !.step = IF kind = "download" THEN "mode" ELSE "source"]
    OBVIOUS
  <2>3. s \in Wizards /\ s.kind # "none" /\ s.step # "confirm"
    BY <1>1, <2>2 DEF Wizards
  <2> QED BY <2>1, <2>2, <2>3, BeginKeeps DEF W!Start, W!pathVars, W!subVars
<1>5. CASE \E kind \in {"date", "tag"} : W!ModePressed(kind)
  <2>1. PICK kind \in {"date", "tag"} : W!ModePressed(kind)
    BY <1>5
  <2>2. PICK s : s = [z EXCEPT !.kind = kind, !.step = "source"]
    OBVIOUS
  <2>3. s \in Wizards /\ s.kind # "none" /\ s.step # "confirm" /\ s.hasty = z.hasty
    BY <2>2 DEF Wizards
  <2> QED BY <1>2, <1>3, <2>1, <2>2, <2>3 DEF W!ModePressed
<1>6. CASE \E c \in Words : W!CommentsPressed(c)
  <2>1. PICK c \in Words : W!CommentsPressed(c)
    BY <1>6
  <2>2. PICK s : s = [z EXCEPT !.comments = c, !.step = W!Question(z)]
    OBVIOUS
  <2>3. s \in Wizards /\ s.kind # "none" /\ s.step # "confirm" /\ s.hasty = z.hasty
    BY <1>2, <2>2, WordsAreSaid, ZenonT(60) DEF Wizards, W!Question
  <2> QED BY <1>2, <1>3, <2>1, <2>2, <2>3 DEF W!CommentsPressed
<1>7. CASE \E t \in Subscriptions : W!FolderPressed(t)
  <2>1. PICK t \in Subscriptions : W!FolderPressed(t)
    BY <1>7
  <2>2. PICK s : s = [W!NoWizard EXCEPT !.kind = "subs", !.step = "path", !.source = TRUE, !.sub = t]
    OBVIOUS
  <2>3. s \in Wizards /\ s.kind # "none" /\ s.step # "confirm"
    BY <1>1, <2>2 DEF Wizards
  <2> QED BY <2>1, <2>2, <2>3, BeginKeeps DEF W!FolderPressed, W!pathVars, W!subVars
<1> QED BY <1>4, <1>5, <1>6, <1>7

\* A message whose handler waits: the wizard is noted to be hasty if another one waits too.
LEMMA MessagesKeep ==
  ASSUME TalkInv, NEW h \in Updates,
         \/ \E word \in Words : W!AnswerPath(h, word) \/ W!AnswerWord(h, word)
         \/ W!AnswerConfirm(h)
         \/ W!AnswerNumber(h)
  PROVE  TalkInv'
<1>1. current # 0 /\ W!Free(h)
  BY DEF W!AnswerPath, W!AnswerWord, W!AnswerConfirm, W!AnswerNumber, W!Heard
<1>2. PICK z \in Wizards : z = wizard[current] /\ z.kind # "none" /\ Showing(z)
  BY <1>1, CurrentIsInUse DEF TalkInv
<1>3. W!Rest \in Hearers /\ current \in 0 .. MaxWizards /\ default \in Accounts
  BY TalkSized DEF W!Rest, Hearers, Thinks, Said, W!Modes, TalkInv, TalkTyped
<1>4. PICK y \in Wizards : /\ y = W!Now /\ y = [z EXCEPT !.hasty = z.hasty \/ W!Busy(current)]
                           /\ y.kind = z.kind /\ y.step = z.step /\ y.shown = z.shown /\ W!Terms(y) = W!Terms(z)
                           /\ y.hasty = (z.hasty \/ W!Busy(current)) /\ Showing(y)
  <2>1. W!Busy(current) \in BOOLEAN
    BY DEF W!Busy
  <2>2. PICK y : y = [z EXCEPT !.hasty = z.hasty \/ W!Busy(current)]
    OBVIOUS
  <2>3. /\ y \in Wizards /\ y.kind = z.kind /\ y.step = z.step /\ y.shown = z.shown /\ W!Terms(y) = W!Terms(z)
        /\ y.hasty = (z.hasty \/ W!Busy(current))
    BY <2>1, <2>2 DEF Wizards, W!Terms
  <2>4. y = W!Now
    BY <1>2, <2>2 DEF W!Now
  <2>5. Showing(y)
    BY <1>2, <2>1, <2>3 DEF Showing, Wizards
  <2> QED BY <2>2, <2>3, <2>4, <2>5
<1>5. CASE \E word \in Words : W!AnswerPath(h, word)
  <2>1. PICK word \in Words : W!AnswerPath(h, word)
    BY <1>5
  <2>2. PICK x : x = [W!Rest EXCEPT !.pc = "path", !.w = current, !.word = word]
    OBVIOUS
  <2>3. x \in Hearers /\ x.pc = "path" /\ x.w = current
    BY <1>3, <2>2 DEF Hearers, Thinks, Said
  <2>4. y.step # "confirm"
    BY <1>2, <1>4, <2>1 DEF W!AnswerPath, W!Heard
  <2> QED BY <1>1, <1>2, <1>4, <2>1, <2>2, <2>3, <2>4, HearKeeps
          DEF W!AnswerPath, W!Say, W!Goto, W!pathVars, W!subVars, Thinks
<1>6. CASE \E word \in Words : W!AnswerWord(h, word)
  <2>1. PICK word \in Words : W!AnswerWord(h, word)
    BY <1>6
  <2>2. PICK x : x = [W!Rest EXCEPT !.pc = "target", !.w = current, !.target = default]
    OBVIOUS
  <2>3. x \in Hearers /\ x.pc = "target" /\ x.w = current
    BY <1>3, <2>2 DEF Hearers, Thinks
  <2>4. y.step # "confirm"
    BY <1>2, <1>4, <2>1 DEF W!AnswerWord, W!Heard
  <2>5. PICK s : s = [y EXCEPT !.word = word]
    OBVIOUS
  <2>6. s \in Wizards /\ s.kind = y.kind /\ s.step = y.step /\ s.hasty = y.hasty /\ Showing(s)
    BY <2>4, <2>5 DEF Wizards, Said, Showing
  <2>7. /\ wizard' = [wizard EXCEPT ![current] = s] /\ update' = [update EXCEPT ![h] = x] /\ current' = current
        /\ UNCHANGED <<default, jobs, v6, stored, given, taken, subs, tokens, prompts, ended>>
    BY <1>4, <2>1, <2>2, <2>5 DEF W!AnswerWord, W!Say, W!Goto, W!pathVars, W!subVars
  <2>8. /\ s.kind = wizard[current].kind /\ s.step = wizard[current].step
        /\ s.hasty = (wizard[current].hasty \/ W!Busy(current))
    BY <1>2, <1>4, <2>6
  <2> QED BY <1>1, <2>3, <2>4, <2>6, <2>7, <2>8, <1>4, HearKeeps DEF Thinks
<1>7. CASE W!AnswerConfirm(h)
  <2>1. PICK x : x = [W!Rest EXCEPT !.pc = "enqueue", !.w = current]
    OBVIOUS
  <2>2. x \in Hearers /\ x.pc = "enqueue" /\ x.w = current
    BY <1>3, <2>1 DEF Hearers, Thinks
  <2>3. y.step = "confirm"
    BY <1>2, <1>4, <1>7 DEF W!AnswerConfirm, W!Heard
  <2> QED BY <1>1, <1>2, <1>4, <1>7, <2>1, <2>2, <2>3, HearKeeps
          DEF W!AnswerConfirm, W!Goto, W!pathVars, W!subVars, Thinks
<1>8. CASE W!AnswerNumber(h)
  <2>1. PICK x : x = [W!Rest EXCEPT !.pc = "number", !.w = current]
    OBVIOUS
  <2>2. x \in Hearers /\ x.pc = "number" /\ x.w = current
    BY <1>3, <2>1 DEF Hearers, Thinks
  <2>3. y.step # "confirm"
    BY <1>2, <1>4, <1>8 DEF W!AnswerNumber, W!Heard
  <2>4. PICK s : s = [y EXCEPT !.source = TRUE]
    OBVIOUS
  <2>5. s \in Wizards /\ s.kind = y.kind /\ s.step = y.step /\ s.hasty = y.hasty /\ Showing(s)
    BY <2>3, <2>4 DEF Wizards, Showing
  <2>6. /\ wizard' = [wizard EXCEPT ![current] = s] /\ update' = [update EXCEPT ![h] = x] /\ current' = current
        /\ UNCHANGED <<default, jobs, v6, stored, given, taken, subs, tokens, prompts, ended>>
    BY <1>4, <1>8, <2>1, <2>4 DEF W!AnswerNumber, W!Say, W!Goto, W!pathVars, W!subVars
  <2>7. /\ s.kind = wizard[current].kind /\ s.step = wizard[current].step
        /\ s.hasty = (wizard[current].hasty \/ W!Busy(current))
    BY <1>2, <1>4, <2>5
  <2> QED BY <1>1, <2>2, <2>3, <2>5, <2>6, <2>7, <1>4, HearKeeps DEF Thinks
<1> QED BY <1>5, <1>6, <1>7, <1>8

\* A handler that lets go of its wizard, or never had one.
LEMMA RestIsDetached == W!Rest \in Hearers /\ Detached(W!Rest) /\ W!Rest.pc = "off"
BY TalkSized DEF W!Rest, Hearers, Detached, Thinks, Said, W!Modes

LEMMA LetsGo ==
  ASSUME TalkInv, NEW h \in Updates, NEW x \in Hearers, Detached(x), update' = [update EXCEPT ![h] = x]
  PROVE  /\ update' \in [Updates -> Hearers]
         /\ \A k \in Updates : update'[k] = IF k = h THEN x ELSE update[k]
         /\ \A k \in Updates : update'[k] = update[k] \/ Detached(update'[k])
BY DEF TalkInv, TalkTyped

\* What serves the directory of a download and the subscriptions leaves the wizards alone.
LEMMA RestStands ==
  ASSUME TalkInv, update' \in [Updates -> Hearers],
         \A k \in Updates : update'[k] = update[k] \/ Detached(update'[k]),
         wizard' = wizard, current' \in {0, current}, default' \in Accounts, v6' \in W!Modes \cup {"none"},
         stored' \in [W!Modes -> Said], given' \in Nat, taken' \in Nat, subs' \subseteq Subscriptions,
         tokens' \in [Subscriptions -> Nat], prompts' \in [Subscriptions -> Nat], ended' \in [Subscriptions -> Nat],
         W!AgreedIsDone', W!GivenServesOne', W!ConfirmedOnce'
  PROVE  TalkInv'
<1>1. TalkTyped
  BY DEF TalkInv
<1>2. TalkTyped'
  <2>1. current' \in 0 .. MaxWizards
    BY <1>1, TalkSized DEF TalkTyped
  <2>2. wizard' \in [Numbers -> Wizards]
    BY <1>1 DEF TalkTyped
  <2> QED BY <2>1, <2>2 DEF TalkTyped
<1>3. W!Sound'
  BY DEF W!Sound
<1> QED BY <1>2, <1>3, WizardsStand

\* Nothing was agreed to or given by it, and no subscription is concerned.
LEMMA NothingAgreed ==
  ASSUME TalkInv, UNCHANGED <<wizard, jobs, stored, given, taken, subs, tokens, prompts, ended>>,
         update' \in [Updates -> Hearers],
         \A k \in Updates : update'[k] = update[k] \/ (Detached(update'[k]) /\ update'[k].pc # "unsubscribe"),
         current' \in {0, current}, default' \in Accounts, v6' \in W!Modes \cup {"none"}
  PROVE  TalkInv'
<1>1. TalkTyped
  BY DEF TalkInv
<1>2. W!Sound'
  BY SoundStands
<1>3. W!AgreedIsDone' /\ W!GivenServesOne' /\ W!ConfirmedOnce'
  BY <1>2 DEF W!Sound
<1>4. \A k \in Updates : update'[k] = update[k] \/ Detached(update'[k])
  OBVIOUS
<1>5. /\ stored' \in [W!Modes -> Said] /\ given' \in Nat /\ taken' \in Nat /\ subs' \subseteq Subscriptions
      /\ tokens' \in [Subscriptions -> Nat] /\ prompts' \in [Subscriptions -> Nat] /\ ended' \in [Subscriptions -> Nat]
  BY <1>1 DEF TalkTyped
<1> QED BY <1>3, <1>4, <1>5, RestStands

\* The handlers that have a wizard have one in use, and one that was not agreed to.
LEMMA ThinkersHave ==
  ASSUME TalkInv, NEW h \in Updates, update[h].pc \in Thinks
  PROVE  /\ update[h].w \in Numbers /\ update[h].w # 0 /\ update[h] \in Hearers
         /\ wizard[update[h].w] \in Wizards /\ wizard[update[h].w].kind # "none"
         /\ update[h].pc # "enqueue" =>
              wizard[update[h].w].hasty \/ wizard[update[h].w].step # "confirm"
         /\ Showing(wizard[update[h].w])
<1>1. OnItsOwn(h) /\ update[h] \in Hearers
  BY DEF TalkInv, TalkTyped
<1>2. update[h].w \in Numbers /\ update[h].w # 0
  BY <1>1, TalkSized DEF OnItsOwn, Hearers, Numbers
<1> QED BY <1>1, <1>2 DEF TalkInv, TalkTyped, OnItsOwn

LEMMA SkipKeeps ==
  ASSUME TalkInv, NEW h \in Updates, W!SkipPath(h)
  PROVE  TalkInv'
<1>1. /\ current # 0 /\ wizard[current].step = "path" /\ W!Free(h) /\ update[h].w = 0
      /\ UNCHANGED <<default, jobs, v6, stored, given, taken, subs, tokens, prompts, ended>>
  BY FreeIsDetached DEF W!SkipPath, W!Heard, W!pathVars, W!subVars
<1>2. PICK z \in Wizards : z = wizard[current] /\ z.kind # "none" /\ z.step = "path"
  BY <1>1, CurrentIsInUse
<1>3. PICK b \in BOOLEAN : b = W!Busy(current)
  BY DEF W!Busy
<1>4. PICK y : y = [z EXCEPT !.hasty = z.hasty \/ b]
  OBVIOUS
<1>5. y = W!Now /\ y \in Wizards /\ y.kind = z.kind /\ y.step = z.step /\ y.hasty = (z.hasty \/ b)
  BY <1>2, <1>3, <1>4 DEF W!Now, Wizards
<1>6. PICK s : s = [y EXCEPT !.folder = 0]
  OBVIOUS
<1>7. s \in Wizards /\ s.kind # "none" /\ s.step = "path" /\ (wizard[current].hasty => s.hasty)
  BY <1>2, <1>5, <1>6 DEF Wizards, Said
<1>8. CASE s.kind = "subs"
  <2>1. PICK x : x = [W!Rest EXCEPT !.pc = IF s.sub = 0 THEN "subscribe" ELSE "off"]
    OBVIOUS
  <2>2. x \in Hearers /\ Detached(x) /\ x.pc # "unsubscribe"
    BY <2>1, RestIsDetached DEF Hearers, Detached, Thinks
  <2>3. /\ wizard' = [wizard EXCEPT ![current] = s] /\ current' = 0
        /\ update' = [update EXCEPT ![h] = x]
    BY <1>1, <1>5, <1>6, <1>8, <2>1 DEF W!SkipPath, W!Over, W!Goto
  <2>4. /\ update' \in [Updates -> Hearers]
        /\ \A k \in Updates : update'[k] = update[k] \/ (Detached(update'[k]) /\ update'[k].pc # "unsubscribe")
    BY <2>2, <2>3, LetsGo
  <2>5. s.step # "confirm" /\ current' \in {0, current}
    BY <1>7, <2>3
  <2> QED BY <1>1, <1>7, <2>3, <2>4, <2>5, SayKeeps
<1>9. CASE s.kind # "subs"
  <2>1. PICK step : step = W!AfterPath(s)
    OBVIOUS
  <2>2. step \in {"comments", "word", "since"}
    BY <2>1 DEF W!AfterPath, W!Question
  <2>3. PICK r : r = [s EXCEPT !.step = step]
    OBVIOUS
  <2>4. r \in Wizards /\ r.kind # "none" /\ r.step # "confirm" /\ (wizard[current].hasty => r.hasty)
    BY <1>7, <2>2, <2>3 DEF Wizards
  <2>5. wizard' = [wizard EXCEPT ![current] = r] /\ current' = current /\ update' = update
    BY <1>5, <1>6, <1>9, <2>1, <2>3 DEF W!SkipPath
  <2>6. update' \in [Updates -> Hearers]
    BY <2>5 DEF TalkInv, TalkTyped
  <2> QED BY <1>1, <2>4, <2>5, <2>6, SayKeeps
<1> QED BY <1>8, <1>9

LEMMA PathKeeps ==
  ASSUME TalkInv, NEW h \in Updates, W!PathKept(h) \/ W!PathRefused(h)
  PROVE  TalkInv'
<1>1. /\ update[h].pc = "path" /\ "path" \in Thinks \ {"enqueue"}
      /\ UNCHANGED <<default, jobs, v6, stored, given, taken, subs, tokens, prompts, ended>>
  BY DEF W!PathKept, W!PathRefused, W!pathVars, W!subVars, Thinks
<1>2. PICK v \in Numbers : v = update[h].w /\ v # 0 /\ update[h] \in Hearers
  BY <1>1, ThinkersHave
<1>3. PICK z \in Wizards : z = wizard[v] /\ z.kind # "none" /\ (z.hasty \/ z.step # "confirm")
  BY <1>1, <1>2, ThinkersHave
<1>4. CASE W!PathRefused(h)
  <2>1. update' = [update EXCEPT ![h] = W!Rest] /\ wizard' = wizard /\ current' = current
    BY <1>4 DEF W!PathRefused, W!Leave, W!Goto
  <2>2. /\ update' \in [Updates -> Hearers]
        /\ \A k \in Updates : update'[k] = update[k] \/ (Detached(update'[k]) /\ update'[k].pc # "unsubscribe")
    <3>1. PICK x : x = W!Rest
      OBVIOUS
    <3> QED BY <2>1, <3>1, RestIsDetached, LetsGo
  <2>3. default' \in Accounts /\ v6' \in W!Modes \cup {"none"}
    BY <1>1 DEF TalkInv, TalkTyped
  <2> QED BY <1>1, <2>1, <2>2, <2>3, NothingAgreed
<1>5. CASE W!PathKept(h)
  <2>1. PICK s : s = [z EXCEPT !.folder = update[h].word]
    OBVIOUS
  <2>2. s \in Wizards /\ s.kind = z.kind /\ s.hasty = z.hasty /\ s.step = z.step
    BY <1>2, <1>3, <2>1 DEF Wizards, Hearers
  <2>3. ASSUME NEW r \in Wizards, r.kind # "none", r.hasty = z.hasty, r.hasty \/ r.step # "confirm",
               NEW x \in Hearers, x.w = 0, x.pc \in {"off", "subscribe"}, current' \in {0, current},
               wizard' = [wizard EXCEPT ![v] = r], update' = [update EXCEPT ![h] = x]
        PROVE  TalkInv'
    <3>1. Showing(r)
      BY <2>3 DEF Showing
    <3>2. update[h].pc \in Thinks \ {"enqueue"} /\ r.hasty = wizard[update[h].w].hasty
      BY <1>1, <1>2, <1>3, <2>3
    <3>3. wizard' = [wizard EXCEPT ![update[h].w] = r]
      BY <1>2, <2>3
    <3> QED BY <1>1, <2>3, <3>1, <3>2, <3>3, AnswerKeeps
  <2>4. CASE s.kind = "subs"
    <3>1. PICK x : x = [W!Rest EXCEPT !.pc = IF s.sub = 0 THEN "subscribe" ELSE "off"]
      OBVIOUS
    <3>2. x \in Hearers /\ x.w = 0 /\ x.pc \in {"off", "subscribe"}
      BY <3>1, RestIsDetached DEF Hearers, Detached, Thinks
    <3>3. /\ wizard' = [wizard EXCEPT ![v] = s] /\ current' = 0 /\ update' = [update EXCEPT ![h] = x]
      BY <1>2, <1>3, <1>5, <2>1, <2>4, <3>1 DEF W!PathKept, W!Over, W!Goto
    <3> QED BY <1>3, <2>2, <2>3, <3>2, <3>3
  <2>5. CASE s.kind \in {"date", "tag"}
    <3>1. PICK step : step = W!AfterPath(s)
      OBVIOUS
    <3>2. step \in {"comments", "word", "since"}
      BY <3>1 DEF W!AfterPath, W!Question
    <3>3. PICK r : r = [s EXCEPT !.step = step]
      OBVIOUS
    <3>4. r \in Wizards /\ r.kind # "none" /\ r.step # "confirm" /\ r.hasty = z.hasty
      BY <1>3, <2>2, <3>2, <3>3 DEF Wizards
    <3>5. PICK x : x = W!Rest
      OBVIOUS
    <3>6. wizard' = [wizard EXCEPT ![v] = r] /\ current' = current /\ update' = [update EXCEPT ![h] = x]
      BY <1>2, <1>3, <1>5, <2>1, <2>5, <3>1, <3>3, <3>5 DEF W!PathKept, W!Leave, W!Goto
    <3>7. x \in Hearers /\ x.w = 0 /\ x.pc \in {"off", "subscribe"}
      BY <3>5, RestIsDetached DEF Detached
    <3> QED BY <2>3, <3>4, <3>6, <3>7
  <2>6. CASE s.kind \notin {"subs", "date", "tag"}
    <3>1. PICK x : x = W!Rest
      OBVIOUS
    <3>2. wizard' = [wizard EXCEPT ![v] = s] /\ current' = current /\ update' = [update EXCEPT ![h] = x]
      BY <1>2, <1>3, <1>5, <2>1, <2>6, <3>1 DEF W!PathKept, W!Leave, W!Goto
    <3>3. x \in Hearers /\ x.w = 0 /\ x.pc \in {"off", "subscribe"}
      BY <3>1, RestIsDetached DEF Detached
    <3> QED BY <1>3, <2>2, <2>3, <3>2, <3>3
  <2> QED BY <2>4, <2>5, <2>6
<1> QED BY <1>4, <1>5

\* What is shown is the terms.
LEMMA TargetKeeps ==
  ASSUME TalkInv, NEW h \in Updates, W!Targeted(h)
  PROVE  TalkInv'
<1>1. /\ update[h].pc = "target" /\ "target" \in Thinks \ {"enqueue"} /\ current' = current
      /\ UNCHANGED <<default, jobs, v6, stored, given, taken, subs, tokens, prompts, ended>>
  BY DEF W!Targeted, W!pathVars, W!subVars, Thinks
<1>2. PICK v \in Numbers : v = update[h].w /\ v # 0 /\ update[h] \in Hearers
  BY <1>1, ThinkersHave
<1>3. PICK z \in Wizards : z = wizard[v] /\ z.kind # "none"
  BY <1>1, <1>2, ThinkersHave
<1>4. PICK s : s = [z EXCEPT !.target = update[h].target, !.step = "confirm"]
  OBVIOUS
<1>5. s \in Wizards /\ s.kind = z.kind /\ s.hasty = z.hasty
  BY <1>2, <1>3, <1>4, ZenonT(60) DEF Wizards, Hearers
<1>6. W!Terms(s) \in Terms
  BY <1>5 DEF W!Terms, Terms, Wizards
<1>7. PICK r : r = [s EXCEPT !.shown = {W!Terms(s)}]
  OBVIOUS
<1>8. r \in Wizards /\ r.kind = s.kind /\ r.hasty = s.hasty /\ r.shown = {W!Terms(s)} /\ W!Terms(r) = W!Terms(s)
  BY <1>5, <1>6, <1>7 DEF Wizards, W!Terms
<1>9. PICK x : x = W!Rest
  OBVIOUS
<1>10. wizard' = [wizard EXCEPT ![update[h].w] = r] /\ update' = [update EXCEPT ![h] = x]
  BY <1>2, <1>3, <1>4, <1>7, <1>9 DEF W!Targeted, W!Leave, W!Goto
<1>11. x \in Hearers /\ x.w = 0 /\ x.pc \in {"off", "subscribe"}
  BY <1>9, RestIsDetached DEF Detached
<1>12. /\ Showing(r) /\ r.kind # "none" /\ r.hasty = wizard[update[h].w].hasty
       /\ update[h].pc \in Thinks \ {"enqueue"}
  BY <1>1, <1>2, <1>3, <1>5, <1>8 DEF Showing
<1> QED BY <1>1, <1>8, <1>10, <1>11, <1>12, AnswerKeeps

\* The job is given what was shown, unless the user was hasty.
LEMMA EnqueueKeeps ==
  ASSUME TalkInv, NEW h \in Updates, W!Enqueue(h)
  PROVE  TalkInv'
<1>1. /\ update[h].pc = "enqueue" /\ "enqueue" \in Thinks
      /\ UNCHANGED <<wizard, current, default, v6, stored, given, taken, subs, tokens, prompts, ended>>
      /\ update' = [update EXCEPT ![h] = W!Rest]
  BY DEF W!Enqueue, W!Queue, W!Leave, W!Goto, W!pathVars, W!subVars, Thinks
<1>2. PICK s \in Wizards : s = wizard[update[h].w] /\ Showing(s)
  BY <1>1, ThinkersHave
<1>3. s.hasty \/ s.step = "confirm"
  BY <1>1, <1>2, ThinkersHave DEF TalkInv, OnItsOwn
<1>4. PICK t : t = W!Terms(s)
  OBVIOUS
<1>5. [t EXCEPT !.target = s.target] = t
  BY <1>4 DEF W!Terms
<1>6. jobs' = jobs \/ jobs' = jobs \cup {[terms |-> t, agreed |-> s.shown, hasty |-> s.hasty]}
  BY <1>2, <1>4, <1>5 DEF W!Enqueue, W!Queue
<1>7. s.hasty \/ s.shown = {t}
  BY <1>2, <1>3, <1>4 DEF Showing
<1>8. W!AgreedIsDone'
  BY <1>6, <1>7 DEF TalkInv, W!Sound, W!AgreedIsDone
<1>9. /\ update' \in [Updates -> Hearers]
      /\ \A k \in Updates : update'[k] = update[k] \/ Detached(update'[k])
      /\ \A k \in Updates : update'[k].pc = "unsubscribe" => update'[k] = update[k]
  <2>1. PICK x : x = W!Rest
    OBVIOUS
  <2> QED BY <1>1, <2>1, RestIsDetached, LetsGo
<1>10. W!GivenServesOne'
  BY <1>1 DEF TalkInv, W!Sound, W!GivenServesOne
<1>11. W!ConfirmedOnce'
  <2>1. ASSUME NEW o \in Subscriptions
        PROVE  /\ ended'[o] \in Nat /\ tokens'[o] \in Nat /\ prompts'[o] \in Nat
               /\ ended'[o] + tokens'[o] + prompts[o] <= ended[o] + tokens[o] + prompts'[o]
    BY <1>1 DEF TalkInv, TalkTyped
  <2> QED BY <1>9, <2>1, EndsStand
<1>12. /\ default' \in Accounts /\ v6' \in W!Modes \cup {"none"}
       /\ stored' \in [W!Modes -> Said] /\ given' \in Nat /\ taken' \in Nat /\ subs' \subseteq Subscriptions
       /\ tokens' \in [Subscriptions -> Nat] /\ prompts' \in [Subscriptions -> Nat] /\ ended' \in [Subscriptions -> Nat]
  BY <1>1 DEF TalkInv, TalkTyped
<1> QED BY <1>1, <1>8, <1>9, <1>10, <1>11, <1>12, RestStands

LEMMA EndsUntouched ==
  ASSUME TalkInv, UNCHANGED <<tokens, prompts, ended>>,
         \A k \in Updates : update'[k].pc = "unsubscribe" => update'[k] = update[k]
  PROVE  W!ConfirmedOnce'
<1>1. ASSUME NEW o \in Subscriptions
      PROVE  /\ ended'[o] \in Nat /\ tokens'[o] \in Nat /\ prompts'[o] \in Nat
             /\ ended'[o] + tokens'[o] + prompts[o] <= ended[o] + tokens[o] + prompts'[o]
  BY DEF TalkInv, TalkTyped
<1> QED BY <1>1, EndsStand

\* What is said without a wizard, or ends it.
LEMMA OtherWordsKeep ==
  ASSUME TalkInv, \/ W!CancelSaid \/ W!CancelPressed \/ W!SwitchDefault
                  \/ \E mode \in W!Modes : W!AskPath(mode)
  PROVE  TalkInv'
<1>1. /\ UNCHANGED <<wizard, jobs, stored, given, taken, subs, tokens, prompts, ended, update>>
      /\ current' \in {0, current} /\ default' \in Accounts /\ v6' \in W!Modes \cup {"none"}
  BY DEF W!CancelSaid, W!CancelPressed, W!SwitchDefault, W!AskPath, W!wizardVars, W!pathVars, W!subVars,
         TalkInv, TalkTyped
<1>2. update' \in [Updates -> Hearers]
  BY <1>1 DEF TalkInv, TalkTyped
<1> QED BY <1>1, <1>2, NothingAgreed

\* The handlers of a directory, and of a subscription that is added or shown to be ended.
LEMMA HandlersKeep ==
  ASSUME TalkInv, NEW h \in Updates,
         \/ \E mode \in W!Modes, word \in Words : W!GivePath(h, mode, word)
         \/ \E o \in Subscriptions : W!ConfirmUnsubscribe(h, o)
         \/ W!PathAnswered(h)
  PROVE  TalkInv'
<1>1. PICK x : /\ update' = [update EXCEPT ![h] = x]
               /\ \/ \E mode \in W!Modes, word \in Words : x = [W!Rest EXCEPT !.pc = "row", !.mode = mode, !.word = word]
                  \/ \E o \in Subscriptions : x = [W!Rest EXCEPT !.pc = IF o \in subs THEN "listed" ELSE "unlisted", !.sub = o]
                  \/ x = W!Rest
  BY DEF W!GivePath, W!ConfirmUnsubscribe, W!PathAnswered, W!Goto, W!Leave
<1>2. x \in Hearers /\ Detached(x) /\ x.pc # "unsubscribe"
  <2>1. CASE \E mode \in W!Modes, word \in Words : x = [W!Rest EXCEPT !.pc = "row", !.mode = mode, !.word = word]
    BY <2>1, RestIsDetached, WordsAreSaid DEF Hearers, Detached, Thinks
  <2>2. CASE \E o \in Subscriptions : x = [W!Rest EXCEPT !.pc = IF o \in subs THEN "listed" ELSE "unlisted", !.sub = o]
    BY <2>2, RestIsDetached DEF Hearers, Detached, Thinks
  <2> QED BY <1>1, <2>1, <2>2, RestIsDetached
<1>3. /\ update' \in [Updates -> Hearers]
      /\ \A k \in Updates : update'[k] = update[k] \/ (Detached(update'[k]) /\ update'[k].pc # "unsubscribe")
  BY <1>1, <1>2, LetsGo
<1>4. /\ UNCHANGED <<wizard, current, default, jobs, stored, given, taken, subs, tokens, prompts, ended>>
      /\ v6' \in {v6, "none"}
  BY DEF W!GivePath, W!ConfirmUnsubscribe, W!PathAnswered, W!wizardVars, W!pathVars, W!subVars
<1>5. default' \in Accounts /\ v6' \in W!Modes \cup {"none"} /\ current' \in {0, current}
  BY <1>4 DEF TalkInv, TalkTyped
<1> QED BY <1>3, <1>4, <1>5, NothingAgreed

LEMMA SubscribedKeeps ==
  ASSUME TalkInv, NEW h \in Updates, W!Subscribed(h)
  PROVE  TalkInv'
<1>1. PICK x : x = W!Rest
  OBVIOUS
<1>2. /\ update' = [update EXCEPT ![h] = x] /\ subs' \subseteq Subscriptions
      /\ UNCHANGED <<wizard, current, default, jobs, v6, stored, given, taken, tokens, prompts, ended>>
  BY <1>1 DEF W!Subscribed, W!Leave, W!Goto, W!wizardVars, W!pathVars, TalkInv, TalkTyped
<1>3. /\ update' \in [Updates -> Hearers]
      /\ \A k \in Updates : update'[k] = update[k] \/ Detached(update'[k])
      /\ \A k \in Updates : update'[k].pc = "unsubscribe" => update'[k] = update[k]
  BY <1>1, <1>2, RestIsDetached, LetsGo
<1>4. W!AgreedIsDone' /\ W!GivenServesOne'
  BY <1>2 DEF TalkInv, W!Sound, W!AgreedIsDone, W!GivenServesOne
<1>5. W!ConfirmedOnce'
  BY <1>2, <1>3, EndsUntouched
<1>6. /\ default' \in Accounts /\ v6' \in W!Modes \cup {"none"}
      /\ stored' \in [W!Modes -> Said] /\ given' \in Nat /\ taken' \in Nat
      /\ tokens' \in [Subscriptions -> Nat] /\ prompts' \in [Subscriptions -> Nat] /\ ended' \in [Subscriptions -> Nat]
  BY <1>2 DEF TalkInv, TalkTyped
<1> QED BY <1>2, <1>3, <1>4, <1>5, <1>6, RestStands

\* The directory of one download is there once for each time it was given.
LEMMA DirectoriesKeep ==
  ASSUME TalkInv, \/ \E h \in Updates : W!RowWritten(h)
                  \/ W!ClearPaths \/ W!PathTaken
                  \/ \E mode \in W!Modes : W!PathExpires(mode)
  PROVE  TalkInv'
<1>1. /\ stored \in [W!Modes -> Said] /\ given \in Nat /\ taken \in Nat /\ 0 \in Said /\ "once" \in W!Modes
      /\ taken + (IF stored["once"] # 0 THEN 1 ELSE 0) <= given
  BY DEF TalkInv, TalkTyped, W!Sound, W!GivenServesOne, Said, W!Modes
<1>2. UNCHANGED <<wizard, current, default, jobs, v6, subs, tokens, prompts, ended>>
  BY DEF W!RowWritten, W!ClearPaths, W!PathTaken, W!PathExpires, W!wizardVars, W!subVars
<1>3. /\ update' \in [Updates -> Hearers]
      /\ \A k \in Updates : update'[k] = update[k] \/ Detached(update'[k])
      /\ \A k \in Updates : update'[k].pc = "unsubscribe" => update'[k] = update[k]
  <2>1. CASE \E h \in Updates : W!RowWritten(h)
    <3>1. PICK h \in Updates : W!RowWritten(h)
      BY <2>1
    <3>2. PICK x : x = [W!Rest EXCEPT !.pc = "written"]
      OBVIOUS
    <3>3. update' = [update EXCEPT ![h] = x]
      BY <3>1, <3>2 DEF W!RowWritten, W!Goto
    <3>4. x \in Hearers /\ Detached(x) /\ x.pc # "unsubscribe"
      BY <3>2, RestIsDetached DEF Hearers, Detached, Thinks
    <3> QED BY <3>3, <3>4, LetsGo
  <2>2. CASE update' = update
    BY <2>2 DEF TalkInv, TalkTyped
  <2> QED BY <2>1, <2>2 DEF W!ClearPaths, W!PathTaken, W!PathExpires
<1>4. /\ stored' \in [W!Modes -> Said] /\ given' \in Nat /\ taken' \in Nat
      /\ taken' + (IF stored'["once"] # 0 THEN 1 ELSE 0) <= given'
  <2>1. CASE \E h \in Updates : W!RowWritten(h)
    <3>1. PICK h \in Updates : W!RowWritten(h)
      BY <2>1
    <3>2. PICK x \in Hearers : x = update[h]
      BY DEF TalkInv, TalkTyped
    <3>3. /\ stored' = [stored EXCEPT ![x.mode] = x.word] /\ taken' = taken
          /\ given' = IF x.mode = "once" THEN given + 1 ELSE given
      BY <3>1, <3>2 DEF W!RowWritten
    <3>4. x.mode \in W!Modes /\ x.word \in Said
      BY DEF Hearers
    <3>5. stored' \in [W!Modes -> Said] /\ (x.mode # "once" => stored'["once"] = stored["once"])
      BY <1>1, <3>3, <3>4
    <3> QED BY <1>1, <3>3, <3>5
  <2>2. CASE W!ClearPaths
    BY <1>1, <2>2 DEF W!ClearPaths
  <2>3. CASE W!PathTaken
    <3>1. stored' = [stored EXCEPT !["once"] = 0] /\ stored["once"] # 0 /\ taken' = taken + 1 /\ given' = given
      BY <2>3 DEF W!PathTaken
    <3>2. stored' \in [W!Modes -> Said] /\ stored'["once"] = 0
      BY <1>1, <3>1
    <3> QED BY <1>1, <3>1, <3>2
  <2>4. CASE \E mode \in W!Modes : W!PathExpires(mode)
    <3>1. PICK mode \in W!Modes : stored' = [stored EXCEPT ![mode] = 0] /\ taken' = taken /\ given' = given
      BY <2>4 DEF W!PathExpires
    <3>2. stored' \in [W!Modes -> Said] /\ stored'["once"] \in {0, stored["once"]}
      BY <1>1, <3>1
    <3> QED BY <1>1, <3>1, <3>2
  <2> QED BY <2>1, <2>2, <2>3, <2>4
<1>5. W!GivenServesOne' /\ W!AgreedIsDone'
  BY <1>2, <1>4 DEF TalkInv, W!Sound, W!AgreedIsDone, W!GivenServesOne
<1>6. W!ConfirmedOnce'
  BY <1>2, <1>3, EndsUntouched
<1>7. /\ default' \in Accounts /\ v6' \in W!Modes \cup {"none"} /\ subs' \subseteq Subscriptions /\ current' \in {0, current}
      /\ tokens' \in [Subscriptions -> Nat] /\ prompts' \in [Subscriptions -> Nat] /\ ended' \in [Subscriptions -> Nat]
  BY <1>2 DEF TalkInv, TalkTyped
<1> QED BY <1>2, <1>3, <1>4, <1>5, <1>6, <1>7, RestStands

\* A confirmation is shown with a token of its own, and tokens are lost.
LEMMA TokensAreCounted ==
  ASSUME TalkInv, UNCHANGED <<wizard, default, jobs, v6, stored, given, taken, subs, ended>>,
         current' \in {0, current}, update' \in [Updates -> Hearers],
         \A k \in Updates : update'[k] = update[k] \/ (Detached(update'[k]) /\ update'[k].pc # "unsubscribe"),
         NEW o \in Subscriptions,
         \/ tokens' = [tokens EXCEPT ![o] = tokens[o] + 1] /\ prompts' = [prompts EXCEPT ![o] = prompts[o] + 1]
         \/ tokens[o] > 0 /\ tokens' = [tokens EXCEPT ![o] = tokens[o] - 1] /\ prompts' = prompts
         \/ tokens' = tokens /\ prompts' = prompts
  PROVE  TalkInv'
<1>1. /\ tokens \in [Subscriptions -> Nat] /\ prompts \in [Subscriptions -> Nat] /\ ended \in [Subscriptions -> Nat]
  BY DEF TalkInv, TalkTyped
<1>2. tokens' \in [Subscriptions -> Nat] /\ prompts' \in [Subscriptions -> Nat]
  BY <1>1
<1>3. ASSUME NEW p \in Subscriptions PROVE tokens'[p] + prompts[p] <= tokens[p] + prompts'[p]
  <2>1. tokens[p] \in Nat /\ prompts[p] \in Nat
    BY <1>1
  <2>2. CASE p = o
    BY <1>1, <2>1, <2>2
  <2>3. CASE p # o
    BY <1>1, <2>1, <2>3
  <2> QED BY <2>2, <2>3
<1>4. ASSUME NEW p \in Subscriptions
      PROVE  /\ ended'[p] \in Nat /\ tokens'[p] \in Nat /\ prompts'[p] \in Nat
             /\ ended'[p] + tokens'[p] + prompts[p] <= ended[p] + tokens[p] + prompts'[p]
  <2>1. /\ tokens[p] \in Nat /\ prompts[p] \in Nat /\ ended[p] \in Nat /\ ended'[p] = ended[p]
        /\ tokens'[p] \in Nat /\ prompts'[p] \in Nat
    BY <1>1, <1>2
  <2> QED BY <1>3, <2>1
<1>5. W!ConfirmedOnce'
  BY <1>4, EndsStand
<1>6. W!AgreedIsDone' /\ W!GivenServesOne'
  BY DEF TalkInv, W!Sound, W!AgreedIsDone, W!GivenServesOne
<1>7. /\ default' \in Accounts /\ v6' \in W!Modes \cup {"none"} /\ subs' \subseteq Subscriptions
      /\ stored' \in [W!Modes -> Said] /\ given' \in Nat /\ taken' \in Nat /\ ended' \in [Subscriptions -> Nat]
  BY DEF TalkInv, TalkTyped
<1> QED BY <1>2, <1>5, <1>6, <1>7, RestStands

LEMMA PromptsKeep ==
  ASSUME TalkInv, NEW o \in Subscriptions, W!AskUnsubscribe(o) \/ W!TokenLost(o)
  PROVE  TalkInv'
<1>1. /\ UNCHANGED <<wizard, current, default, jobs, v6, stored, given, taken, subs, ended, update>>
      /\ \/ tokens' = [tokens EXCEPT ![o] = tokens[o] + 1] /\ prompts' = [prompts EXCEPT ![o] = prompts[o] + 1]
         \/ tokens[o] > 0 /\ tokens' = [tokens EXCEPT ![o] = tokens[o] - 1] /\ prompts' = prompts
  BY DEF W!AskUnsubscribe, W!TokenLost, W!Prompt, W!wizardVars, W!pathVars
<1>2. update' \in [Updates -> Hearers]
  BY <1>1 DEF TalkInv, TalkTyped
<1> QED BY <1>1, <1>2, TokensAreCounted

LEMMA NumberKeeps ==
  ASSUME TalkInv, NEW h \in Updates, W!NumberFound(h)
  PROVE  TalkInv'
<1>1. PICK x : x = W!Rest
  OBVIOUS
<1>2. /\ update' = [update EXCEPT ![h] = x] /\ current' \in {0, current}
      /\ UNCHANGED <<wizard, default, jobs, v6, stored, given, taken, subs, ended>>
  BY <1>1 DEF W!NumberFound, W!Leave, W!Goto, W!pathVars
<1>3. /\ update' \in [Updates -> Hearers]
      /\ \A k \in Updates : update'[k] = update[k] \/ (Detached(update'[k]) /\ update'[k].pc # "unsubscribe")
  BY <1>1, <1>2, RestIsDetached, LetsGo
<1>4. CASE \E o \in subs : W!Prompt(o)
  <2>1. PICK o \in Subscriptions : /\ tokens' = [tokens EXCEPT ![o] = tokens[o] + 1]
                                   /\ prompts' = [prompts EXCEPT ![o] = prompts[o] + 1]
    BY <1>4 DEF W!Prompt, TalkInv, TalkTyped
  <2> QED BY <1>2, <1>3, <2>1, TokensAreCounted
<1>5. CASE UNCHANGED <<tokens, prompts>>
  <2>1. /\ default' \in Accounts /\ v6' \in W!Modes \cup {"none"}
    BY <1>2 DEF TalkInv, TalkTyped
  <2> QED BY <1>2, <1>3, <1>5, <2>1, NothingAgreed
<1> QED BY <1>4, <1>5 DEF W!NumberFound

\* The handlers that end a subscription count with the tokens that are left.
LEMMA TokenKeeps ==
  ASSUME TalkInv, NEW h \in Updates, W!TokenUsed(h)
  PROVE  TalkInv'
<1>1. PICK x \in Hearers : x = update[h] /\ x.pc \in {"listed", "unlisted"}
  BY DEF W!TokenUsed, TalkInv, TalkTyped
<1>2. PICK o \in Subscriptions : o = x.sub
  BY <1>1 DEF TalkInv, OnItsOwn
<1>3. x.w = 0 /\ x.pc \notin Thinks
  BY <1>1 DEF TalkInv, OnItsOwn, Thinks
<1>4. UNCHANGED <<wizard, current, default, jobs, v6, stored, given, taken, subs, prompts, ended>>
  BY DEF W!TokenUsed, W!wizardVars, W!pathVars
<1>5. tokens \in [Subscriptions -> Nat] /\ tokens[o] \in Nat
  BY DEF TalkInv, TalkTyped
<1>6. tokens' = [tokens EXCEPT ![o] = IF tokens[o] = 0 THEN 0 ELSE tokens[o] - 1]
  BY <1>1, <1>2 DEF W!TokenUsed
<1>7. CASE ~(tokens[o] > 0 /\ x.pc = "listed")
  <2>1. PICK y : y = W!Rest
    OBVIOUS
  <2>2. update' = [update EXCEPT ![h] = y]
    BY <1>1, <1>2, <1>7, <2>1 DEF W!TokenUsed, W!Leave, W!Goto
  <2>3. /\ update' \in [Updates -> Hearers]
        /\ \A k \in Updates : update'[k] = update[k] \/ (Detached(update'[k]) /\ update'[k].pc # "unsubscribe")
    BY <2>1, <2>2, RestIsDetached, LetsGo
  <2>4. CASE tokens[o] = 0
    <3>1. tokens' = tokens
      BY <1>5, <1>6, <2>4
    <3> QED BY <1>4, <2>3, <3>1, TokensAreCounted
  <2>5. CASE tokens[o] # 0
    <3>1. tokens[o] > 0 /\ tokens' = [tokens EXCEPT ![o] = tokens[o] - 1] /\ prompts' = prompts
      BY <1>4, <1>5, <1>6, <2>5
    <3> QED BY <1>4, <2>3, <3>1, TokensAreCounted
  <2> QED BY <2>4, <2>5
<1>8. CASE tokens[o] > 0 /\ x.pc = "listed"
  <2>1. PICK y : y = [x EXCEPT !.pc = "unsubscribe"]
    OBVIOUS
  <2>2. y \in Hearers /\ Detached(y) /\ y.pc = "unsubscribe" /\ y.sub = o
    BY <1>2, <1>3, <2>1 DEF Hearers, Detached, Thinks
  <2>3. update' = [update EXCEPT ![h] = y]
    BY <1>1, <1>2, <1>8, <2>1 DEF W!TokenUsed, W!Goto
  <2>4. /\ update' \in [Updates -> Hearers]
        /\ \A k \in Updates : update'[k] = update[k] \/ Detached(update'[k])
        /\ \A k \in Updates : update'[k] = IF k = h THEN y ELSE update[k]
    BY <2>2, <2>3, LetsGo
  <2>5. /\ tokens' \in [Subscriptions -> Nat] /\ tokens'[o] = tokens[o] - 1
        /\ \A p \in Subscriptions \ {o} : tokens'[p] = tokens[p]
    BY <1>5, <1>6, <1>8
  <2>6. W!ConfirmedOnce'
    <3>1. SUFFICES ASSUME NEW p \in Subscriptions
          PROVE  ended'[p] + tokens'[p]
                   + W!Cardinality({k \in Updates : update'[k].pc = "unsubscribe" /\ update'[k].sub = p}) <= prompts'[p]
      BY DEF W!ConfirmedOnce
    <3>2. PICK after : after = {k \in Updates : update'[k].pc = "unsubscribe" /\ update'[k].sub = p}
      OBVIOUS
    <3>3. W!Cardinality(after) = Cardinality(after)
      BY DEF W!Cardinality, Cardinality
    <3>4. IsFiniteSet(Ending(p)) /\ Cardinality(Ending(p)) \in Nat
      BY EndingCounts
    <3>5. ended[p] + tokens[p] + Cardinality(Ending(p)) <= prompts[p]
      BY EndingCounts
    <3>6. ended[p] \in Nat /\ tokens[p] \in Nat /\ prompts[p] \in Nat
      BY DEF TalkInv, TalkTyped
    <3>7. CASE p = o
      <4>1. after = Ending(p) \cup {h} /\ h \notin Ending(p)
        BY <1>1, <2>2, <2>4, <3>2, <3>7 DEF Ending
      <4>2. Cardinality(after) = Cardinality(Ending(p)) + 1
        BY <3>4, <4>1, FS_AddElement
      <4>3. tokens'[p] = tokens[p] - 1 /\ ended'[p] = ended[p] /\ prompts'[p] = prompts[p]
        BY <1>4, <2>5, <3>7
      <4>4. ended'[p] + tokens'[p] + Cardinality(after) <= prompts'[p]
        BY <3>4, <3>5, <3>6, <4>2, <4>3
      <4> QED BY <3>2, <3>3, <4>4
    <3>8. CASE p # o
      <4>1. after = Ending(p)
        BY <1>1, <2>2, <2>4, <3>2, <3>8 DEF Ending
      <4>2. tokens'[p] = tokens[p] /\ ended'[p] = ended[p] /\ prompts'[p] = prompts[p]
        BY <1>4, <2>5, <3>8
      <4> QED BY <3>2, <3>3, <3>5, <4>1, <4>2
    <3> QED BY <3>7, <3>8
  <2>7. W!AgreedIsDone' /\ W!GivenServesOne'
    BY <1>4 DEF TalkInv, W!Sound, W!AgreedIsDone, W!GivenServesOne
  <2>8. /\ default' \in Accounts /\ v6' \in W!Modes \cup {"none"} /\ subs' \subseteq Subscriptions
        /\ stored' \in [W!Modes -> Said] /\ given' \in Nat /\ taken' \in Nat
        /\ prompts' \in [Subscriptions -> Nat] /\ ended' \in [Subscriptions -> Nat] /\ current' \in {0, current}
    BY <1>4 DEF TalkInv, TalkTyped
  <2> QED BY <1>4, <2>4, <2>5, <2>6, <2>7, <2>8, RestStands
<1> QED BY <1>7, <1>8

LEMMA UnsubscribedKeeps ==
  ASSUME TalkInv, NEW h \in Updates, W!Unsubscribed(h)
  PROVE  TalkInv'
<1>1. PICK x : x = update[h] /\ x.pc = "unsubscribe"
  BY DEF W!Unsubscribed
<1>2. PICK o \in Subscriptions : o = x.sub
  BY <1>1 DEF TalkInv, OnItsOwn
<1>3. /\ UNCHANGED <<wizard, current, default, jobs, v6, stored, given, taken, tokens, prompts>>
      /\ subs' = subs \ {o} /\ ended' = [ended EXCEPT ![o] = ended[o] + 1]
      /\ update' = [update EXCEPT ![h] = W!Rest]
  BY <1>1, <1>2 DEF W!Unsubscribed, W!wizardVars, W!pathVars, W!Leave, W!Goto
<1>4. PICK y : y = W!Rest
  OBVIOUS
<1>5. /\ update' \in [Updates -> Hearers]
      /\ \A k \in Updates : update'[k] = update[k] \/ Detached(update'[k])
      /\ \A k \in Updates : update'[k] = IF k = h THEN y ELSE update[k]
  BY <1>3, <1>4, RestIsDetached, LetsGo
<1>6. /\ ended \in [Subscriptions -> Nat] /\ ended[o] \in Nat
  BY DEF TalkInv, TalkTyped
<1>7. /\ ended' \in [Subscriptions -> Nat] /\ ended'[o] = ended[o] + 1
      /\ \A p \in Subscriptions \ {o} : ended'[p] = ended[p]
  BY <1>3, <1>6
<1>8. W!ConfirmedOnce'
  <2>1. SUFFICES ASSUME NEW p \in Subscriptions
        PROVE  ended'[p] + tokens'[p]
                 + W!Cardinality({k \in Updates : update'[k].pc = "unsubscribe" /\ update'[k].sub = p}) <= prompts'[p]
    BY DEF W!ConfirmedOnce
  <2>2. PICK after : after = {k \in Updates : update'[k].pc = "unsubscribe" /\ update'[k].sub = p}
    OBVIOUS
  <2>3. W!Cardinality(after) = Cardinality(after)
    BY DEF W!Cardinality, Cardinality
  <2>4. IsFiniteSet(Ending(p)) /\ Cardinality(Ending(p)) \in Nat
    BY EndingCounts
  <2>5. ended[p] + tokens[p] + Cardinality(Ending(p)) <= prompts[p]
    BY EndingCounts
  <2>6. ended[p] \in Nat /\ tokens[p] \in Nat /\ prompts[p] \in Nat
    BY DEF TalkInv, TalkTyped
  <2>7. CASE p = o
    <3>1. after = Ending(p) \ {h} /\ h \in Ending(p)
      BY <1>1, <1>2, <1>4, <1>5, <2>2, <2>7, RestIsDetached DEF Ending
    <3>2. Cardinality(after) = Cardinality(Ending(p)) - 1
      BY <2>4, <3>1, FS_RemoveElement
    <3>3. tokens'[p] = tokens[p] /\ ended'[p] = ended[p] + 1 /\ prompts'[p] = prompts[p]
      BY <1>3, <1>7, <2>7
    <3>4. ended'[p] + tokens'[p] + Cardinality(after) <= prompts'[p]
      BY <2>4, <2>5, <2>6, <3>2, <3>3
    <3> QED BY <2>2, <2>3, <3>4
  <2>8. CASE p # o
    <3>1. after = Ending(p)
      BY <1>1, <1>2, <1>4, <1>5, <2>2, <2>8, RestIsDetached DEF Ending
    <3>2. tokens'[p] = tokens[p] /\ ended'[p] = ended[p] /\ prompts'[p] = prompts[p]
      BY <1>3, <1>7, <2>8
    <3> QED BY <2>2, <2>3, <2>5, <3>1, <3>2
  <2> QED BY <2>7, <2>8
<1>9. W!AgreedIsDone' /\ W!GivenServesOne'
  BY <1>3 DEF TalkInv, W!Sound, W!AgreedIsDone, W!GivenServesOne
<1>10. /\ default' \in Accounts /\ v6' \in W!Modes \cup {"none"} /\ subs' \subseteq Subscriptions
       /\ stored' \in [W!Modes -> Said] /\ given' \in Nat /\ taken' \in Nat
       /\ prompts' \in [Subscriptions -> Nat] /\ tokens' \in [Subscriptions -> Nat] /\ current' \in {0, current}
  BY <1>3 DEF TalkInv, TalkTyped
<1> QED BY <1>3, <1>5, <1>7, <1>8, <1>9, <1>10, RestStands

LEMMA TalkSteps == TalkInv /\ [W!Next]_(W!vars) => TalkInv'
<1> SUFFICES ASSUME TalkInv, [W!Next]_(W!vars) PROVE TalkInv'
  OBVIOUS
<1>1. ASSUME NEW h \in Updates, W!Continue(h) PROVE TalkInv'
  <2>1. CASE \/ W!PathKept(h) \/ W!PathRefused(h) \/ W!Targeted(h) \/ W!Enqueue(h) \/ W!PathAnswered(h)
    BY <2>1, PathKeeps, TargetKeeps, EnqueueKeeps, HandlersKeep
  <2>2. CASE W!RowWritten(h)
    BY <2>2, DirectoriesKeep
  <2>3. CASE W!NumberFound(h) \/ W!TokenUsed(h) \/ W!Unsubscribed(h) \/ W!Subscribed(h)
    BY <2>3, NumberKeeps, TokenKeeps, UnsubscribedKeeps, SubscribedKeeps
  <2> QED BY <1>1, <2>1, <2>2, <2>3 DEF W!Continue
<1>2. ASSUME NEW h \in Updates, W!Message(h) PROVE TalkInv'
  <2>1. CASE \/ \E word \in Words : W!AnswerPath(h, word) \/ W!AnswerWord(h, word)
             \/ W!AnswerConfirm(h) \/ W!AnswerNumber(h)
    BY <2>1, MessagesKeep
  <2>2. CASE \/ \E mode \in W!Modes, word \in Words : W!GivePath(h, mode, word)
             \/ \E o \in Subscriptions : W!ConfirmUnsubscribe(h, o)
    BY <2>2, HandlersKeep
  <2>3. CASE W!SkipPath(h)
    BY <2>3, SkipKeeps
  <2> QED BY <1>2, <2>1, <2>2, <2>3 DEF W!Message
<1>3. ASSUME W!Spoken PROVE TalkInv'
  <2>1. CASE \/ \E kind \in {"date", "tag"} : W!AnswerMode(kind)
             \/ \E c \in Said : W!AnswerSource(c)
             \/ \E c \in Words : W!AnswerComments(c)
             \/ \E word \in Words : W!AnswerSince(word)
    BY <2>1, AnswersKeep
  <2>2. CASE \/ \E kind \in {"subs", "download", "date", "tag"} : W!Start(kind)
             \/ \E kind \in {"date", "tag"} : W!ModePressed(kind)
             \/ \E c \in Words : W!CommentsPressed(c)
             \/ \E t \in Subscriptions : W!FolderPressed(t)
    BY <2>2, BeginsKeep
  <2>3. CASE \/ W!CancelSaid \/ W!CancelPressed \/ W!SwitchDefault
             \/ \E mode \in W!Modes : W!AskPath(mode)
    BY <2>3, OtherWordsKeep
  <2>4. CASE W!ClearPaths \/ W!PathTaken
    BY <2>4, DirectoriesKeep
  <2>5. CASE \E o \in Subscriptions : W!AskUnsubscribe(o)
    BY <2>5, PromptsKeep
  <2> QED BY <1>3, <2>1, <2>2, <2>3, <2>4, <2>5 DEF W!Spoken, Said
<1>4. ASSUME \/ \E mode \in W!Modes : W!PathExpires(mode)
             \/ \E o \in Subscriptions : W!TokenLost(o)
      PROVE  TalkInv'
  BY <1>4, DirectoriesKeep, PromptsKeep
<1>5. CASE UNCHANGED W!vars
  <2>1. /\ UNCHANGED <<wizard, current, default, jobs, v6, stored, given, taken, subs, tokens, prompts, ended, update>>
    BY <1>5 DEF W!vars, W!wizardVars, W!pathVars, W!subVars
  <2>2. update' \in [Updates -> Hearers] /\ default' \in Accounts /\ v6' \in W!Modes \cup {"none"}
    BY <2>1 DEF TalkInv, TalkTyped
  <2> QED BY <2>1, <2>2, NothingAgreed
<1> QED BY <1>1, <1>2, <1>3, <1>4, <1>5 DEF W!Next

-----------------------------------------------------------------------------
(* How accounts are set up.  In that part the variables have other names.  *)

flow     == v1
account  == v2
setting  == v3
legacy   == v4
oldfiles == v5   \* files
provider == v6
up       == v7
handler  == v8   \* request
refresh  == v9
history  == v11

Reqs   == Admins \cup {N!Boot}
Slots  == 1 .. MaxAccounts
Owners == Clients \cup {0}

SetupRows == [kind : N!Kinds, client : Owners, grant : Nat, active : BOOLEAN]
SetupAsks ==
  [at : {"off", "exchange", "client", "token", "clear", "newest", "candidate", "look", "write", "install",
         "probe", "commit", "init", "migrate", "forget", "link", "setting", "accounts", "build"},
   do : {"", "callback", "put", "add", "switch", "init"}, kind : N!Kinds \cup {""}, client : Owners, grant : Nat,
   flow : N!Flows \cup {0}, acc : 0 .. MaxAccounts, seen : N!Kinds \cup {"local", ""}, rows : Seq(SetupRows)]

SetupTyped ==
  /\ flow \in [N!Flows -> [is : {"none", "pending", "used", "gone"}, kind : N!Kinds \cup {""},
                           page : {"none", "waiting", "told", "closed"}, posted : BOOLEAN]]
  /\ account \in Seq(SetupRows) /\ Len(account) <= MaxAccounts
  /\ setting \in N!Kinds \cup {"local"} /\ oldfiles \in {"none", "unlinked", "linked"}
  /\ legacy \in [client : Owners, grant : Nat]
  /\ provider \in [Slots -> Nat] /\ up \in BOOLEAN
  /\ handler \in [Reqs -> SetupAsks]
  /\ refresh \in SUBSET [acc : Slots, grant : Nat] /\ v10 \in Nat
  /\ history \in [overlap : BOOLEAN, crossed : BOOLEAN, beside : BOOLEAN, unlinked : BOOLEAN, given : [Slots -> Nat]]

\* A request that found no account of a client, or one, and has not stored it.
Pends(x)     == x.at \in {"write", "migrate"} /\ x.kind = "onedrive"
Unclaimed(c) == N!OfClient(c) = {}

\* What a request may count with at each of its stages.
AskedFits(x) ==
  /\ x.at = "exchange" => x.do = "callback" /\ (x.kind = "onedrive" => x.client \in Clients)
  /\ x.at \in {"exchange", "candidate"} => x.acc = 0
  /\ x.at = "candidate" => x.do = "add" /\ x.kind = "keyed"
  /\ x.at \in {"client", "token"} => x.do = "put" /\ x.kind = "onedrive" /\ x.client \in Clients
  /\ x.at = "look" => x.do \in {"put", "callback", "init"} /\ x.kind = "onedrive" /\ x.client \in Clients
  /\ x.at = "write" => x.do \in {"put", "callback", "add"} /\ x.kind \in N!Kinds
  /\ x.at = "migrate" => x.kind = "onedrive"
  /\ Pends(x) => x.client \in Clients

RowsFit(x) ==
  /\ x.at = "write" /\ x.acc # 0 => x.acc \in N!OfKind(x.kind)
  /\ x.at \in {"probe", "commit"} /\ x.acc # 0 => x.acc \in DOMAIN account
  /\ x.at = "install" => x.acc \in DOMAIN account
  /\ x.at = "build" => DOMAIN x.rows \subseteq DOMAIN account
  /\ Pends(x) /\ x.acc = 0 => history.overlap \/ Unclaimed(x.client)

GivenFits(x) ==
  \/ history.crossed
  \/ /\ x.at = "install" => x.grant = history.given[x.acc]
     /\ x.at = "build" => \A a \in DOMAIN x.rows : x.rows[a].grant = history.given[a]

FlowFits(x) ==
  x.flow \in N!Flows =>
    /\ flow[x.flow].is = "used"
    /\ \/ N!OfKind(flow[x.flow].kind) # {}
       \/ x.at \in {"exchange", "look", "write"} /\ x.do = "callback" /\ x.kind = flow[x.flow].kind

\* The start of the process only initialises it, and nobody else is at work before.
BootFits(r, x) ==
  /\ r = N!Boot => /\ x.at \in {"off", "init", "look", "migrate", "forget", "link", "setting", "accounts", "build"}
                   /\ x.at = "look" => x.do = "init"
  /\ r # N!Boot /\ ~up => x.at = "off"

SetupFits(r, x) == AskedFits(x) /\ RowsFit(x) /\ GivenFits(x) /\ FlowFits(x) /\ BootFits(r, x)

Alike(i, j) == account[i].kind = "onedrive" /\ account[j].kind = "onedrive" /\ account[i].client = account[j].client

OneRow == history.overlap \/ \A i, j \in DOMAIN account : Alike(i, j) => i = j

OnePends ==
  \A r, q \in Reqs : (r # q /\ Pends(handler[r]) /\ Pends(handler[q]) /\ handler[r].client = handler[q].client)
                       => history.overlap

Settled == history.beside \/ N!Consistent(setting, account)

DefaultsFit ==
  /\ Settled \/ (~up /\ setting = "onedrive" /\ \A i \in DOMAIN account : ~account[i].active)
  /\ ~up /\ handler[N!Boot].at = "accounts" => handler[N!Boot].seen = setting
  /\ ~up /\ handler[N!Boot].at = "build" => Settled

OldFilesFit ==
  (oldfiles = "unlinked" /\ ~history.unlinked) =>
    /\ ~up
    /\ \/ /\ legacy.client # 0 /\ legacy.grant # 0
          /\ handler[N!Boot].at \in {"off", "init", "look", "migrate", "forget"}
       \/ handler[N!Boot].at = "link"

Holds(a) == \/ history.crossed
            \/ /\ account[a].grant = history.given[a]
               /\ \/ provider[a] \in {0, account[a].grant}
                  \/ \E r \in Admins : handler[r].at = "install" /\ handler[r].acc = a

GrantsFit ==
  /\ \A a \in DOMAIN account : Holds(a)
  /\ \A a \in Slots \ DOMAIN account : provider[a] = 0
  /\ \A t \in refresh : t.acc \in DOMAIN account /\ (history.crossed \/ t.grant = history.given[t.acc])

FlowsFit == \A f \in N!Flows : (flow[f].posted \/ flow[f].page = "told") =>
                                  flow[f].is = "used" /\ N!OfKind(flow[f].kind) # {}

SetupInv ==
  /\ SetupTyped /\ OneRow /\ OnePends /\ DefaultsFit /\ OldFilesFit /\ GrantsFit /\ FlowsFit
  /\ \A r \in Reqs : SetupFits(r, handler[r])

USE DEF flow, account, setting, legacy, oldfiles, provider, up, handler, refresh, history

LEMMA SetupReqs == N!Boot \in Reqs /\ N!Boot \notin Admins /\ \A r \in Reqs : r \in Admins <=> r # N!Boot
BY SetupShaped DEF Reqs, N!Boot

LEMMA RestFits == N!Rest \in SetupAsks /\ ~Pends(N!Rest) /\ \A r \in Reqs : SetupFits(r, N!Rest)
<1>1. /\ N!Rest.at = "off" /\ N!Rest.do = "" /\ N!Rest.kind = "" /\ N!Rest.client = 0 /\ N!Rest.grant = 0
      /\ N!Rest.flow = 0 /\ N!Rest.acc = 0 /\ N!Rest.seen = "" /\ N!Rest.rows = <<>>
  BY DEF N!Rest
<1>2. N!Rest \in SetupAsks
  <2>1. <<>> \in Seq(SetupRows) /\ 0 \in Owners /\ 0 \in 0 .. MaxAccounts
    BY EmptySeq, SetupShaped DEF Owners
  <2> QED BY <2>1 DEF N!Rest, SetupAsks
<1>3. 0 \notin N!Flows
  BY SetupShaped DEF N!Flows
<1> QED BY <1>1, <1>2, <1>3 DEF SetupFits, AskedFits, RowsFit, GivenFits, FlowFits, BootFits, Pends

LEMMA SetupStarts == N!Init => SetupInv
<1> SUFFICES ASSUME N!Init PROVE SetupInv
  OBVIOUS
<1>1. /\ flow = [f \in N!Flows |-> N!NoFlow] /\ account = <<>> /\ provider = [a \in Slots |-> 0] /\ up = FALSE
      /\ handler = [r \in Reqs |-> N!Rest] /\ refresh = {}
      /\ history = [overlap |-> FALSE, crossed |-> FALSE, beside |-> FALSE, unlinked |-> FALSE, given |-> [a \in Slots |-> 0]]
  BY DEF N!Init, Slots, Reqs
<1>2. /\ legacy \in [client : Owners, grant : Nat] /\ v10 \in Nat
      /\ setting \in {"local", "onedrive"} /\ oldfiles \in {"none", "unlinked"}
      /\ oldfiles = "unlinked" => legacy.client # 0 /\ legacy.grant # 0
  <2>1. N!Old.client \in Clients /\ N!Old.grant = 1 /\ N!Old = [client |-> N!Old.client, grant |-> 1]
    BY SetupShaped DEF N!Old
  <2>2. N!Old \in [client : Owners, grant : Nat] /\ N!Old.client # 0 /\ N!NoLegacy \in [client : Owners, grant : Nat]
    BY <2>1, SetupShaped DEF Owners, N!NoLegacy
  <2> QED BY <2>1, <2>2 DEF N!Init
<1>3. /\ account \in Seq(SetupRows) /\ Len(account) = 0 /\ DOMAIN account = {} /\ Len(account) <= MaxAccounts
  BY <1>1, EmptySeq, SetupShaped
<1>4. SetupTyped
  BY <1>1, <1>2, <1>3, RestFits DEF SetupTyped, N!NoFlow, N!Kinds
<1>5. \A r \in Reqs : handler[r] = N!Rest
  BY <1>1
<1>6. OneRow /\ OnePends
  BY <1>3, <1>5, RestFits DEF OneRow, OnePends
<1>7. DefaultsFit
  <2>1. setting = "local" => N!Consistent(setting, account)
    BY <1>3 DEF N!Consistent
  <2> QED BY <1>1, <1>2, <1>3, <1>5, <2>1, SetupReqs DEF DefaultsFit, Settled, N!Rest
<1>8. OldFilesFit
  BY <1>1, <1>2, <1>5, SetupReqs DEF OldFilesFit, N!Rest
<1>9. GrantsFit
  BY <1>1, <1>3 DEF GrantsFit, Slots
<1>10. FlowsFit
  BY <1>1 DEF FlowsFit, N!NoFlow
<1> QED BY <1>4, <1>5, <1>6, <1>7, <1>8, <1>9, <1>10, RestFits DEF SetupInv

LEMMA SetupIsSound == SetupInv => N!Sound
<1> SUFFICES ASSUME SetupInv PROVE N!Sound
  OBVIOUS
<1>1. N!OnePerClient
  <2> SUFFICES ASSUME NEW c \in Clients, ~history.overlap PROVE Cardinality(N!OfClient(c)) <= 1
    BY DEF N!OnePerClient, N!Cardinality, Cardinality
  <2>1. \A i, j \in N!OfClient(c) : i = j
    BY DEF SetupInv, OneRow, Alike, N!OfClient, N!OfKind
  <2>2. CASE N!OfClient(c) = {}
    BY <2>2, FS_EmptySet
  <2>3. ASSUME NEW i \in N!OfClient(c) PROVE Cardinality(N!OfClient(c)) <= 1
    <3>1. N!OfClient(c) = {i}
      BY <2>1, <2>3
    <3> QED BY <3>1, FS_Singleton
  <2> QED BY <2>2, <2>3
<1>2. N!Startable
  BY DEF SetupInv, DefaultsFit, Settled, N!Startable
<1>3. N!FilesLinked
  BY DEF SetupInv, OldFilesFit, N!FilesLinked
<1>4. N!Current
  BY DEF SetupInv, GrantsFit, Holds, N!Current
<1>5. N!ToldTruly
  BY DEF SetupInv, FlowsFit, N!ToldTruly
<1> QED BY <1>1, <1>2, <1>3, <1>4, <1>5 DEF N!Sound

\* Accounts come and keep their kinds, flows that were used stay so, and what happened stays so.
Grows ==
  /\ DOMAIN account \subseteq DOMAIN account'
  /\ \A i \in DOMAIN account : account'[i].kind = account[i].kind
  /\ \A f \in N!Flows : flow[f].is = "used" => flow'[f].is = "used" /\ flow'[f].kind = flow[f].kind
  /\ up => up'
  /\ history.overlap => history'.overlap
  /\ history.crossed => history'.crossed

\* No account is given anything that this request will write from what it read before.
Untouched(y) ==
  \/ history'.crossed
  \/ /\ y.at = "install" => history'.given[y.acc] = history.given[y.acc]
     /\ y.at = "build" => \A a \in DOMAIN y.rows : history'.given[a] = history.given[a]

LEMMA KindsGrow == ASSUME Grows, NEW k PROVE N!OfKind(k) \subseteq N!OfKind(k)'
BY DEF Grows, N!OfKind

\* What a request may count with it may count with after the others' steps.
LEMMA FitsGrow ==
  ASSUME Grows, NEW q \in Reqs, NEW y \in SetupAsks, SetupFits(q, y), Untouched(y),
         Pends(y) /\ y.acc = 0 /\ Unclaimed(y.client) => history'.overlap \/ Unclaimed(y.client)'
  PROVE  SetupFits(q, y)'
<1>1. AskedFits(y)'
  BY DEF SetupFits, AskedFits, Pends
<1>2. RowsFit(y)'
  <2>1. y.at = "write" /\ y.acc # 0 => y.acc \in N!OfKind(y.kind)'
    BY KindsGrow DEF SetupFits, RowsFit
  <2> QED BY <2>1 DEF SetupFits, RowsFit, Grows
<1>3. GivenFits(y)'
  BY DEF SetupFits, GivenFits, Untouched, Grows
<1>4. FlowFits(y)'
  <2> SUFFICES ASSUME y.flow \in N!Flows PROVE FlowFits(y)'
    BY DEF FlowFits
  <2>1. /\ flow[y.flow].is = "used"
        /\ \/ N!OfKind(flow[y.flow].kind) # {}
           \/ y.at \in {"exchange", "look", "write"} /\ y.do = "callback" /\ y.kind = flow[y.flow].kind
    BY DEF SetupFits, FlowFits
  <2>2. flow'[y.flow].is = "used" /\ flow'[y.flow].kind = flow[y.flow].kind
    BY <2>1 DEF Grows
  <2>3. PICK k : k = flow[y.flow].kind
    OBVIOUS
  <2>4. N!OfKind(k) # {} => N!OfKind(k)' # {}
    BY KindsGrow
  <2>5. flow'[y.flow].kind = k
    BY <2>2, <2>3
  <2>6. N!OfKind(k)' # {} \/ (y.at \in {"exchange", "look", "write"} /\ y.do = "callback" /\ y.kind = k)
    BY <2>1, <2>3, <2>4
  <2>7. N!OfKind(k)' # {} => (N!OfKind(flow[y.flow].kind))' # {}
    BY <2>5
  <2> QED BY <2>2, <2>5, <2>6, <2>7 DEF FlowFits
<1>5. BootFits(q, y)'
  BY DEF SetupFits, BootFits, Grows
<1> QED BY <1>1, <1>2, <1>3, <1>4, <1>5 DEF SetupFits

\* The tables of accounts and flows and the memory of the process stay.
Standing == UNCHANGED <<flow, account, setting, provider, up, refresh>>

\* What happened is marked, and what was given stays.
Marks ==
  /\ history.overlap => history'.overlap
  /\ history.crossed => history'.crossed
  /\ history.beside => history'.beside
  /\ history.unlinked => history'.unlinked
  /\ history'.given = history.given

\* A request goes on as x, and no table of accounts changes.
LEMMA StageKeeps ==
  ASSUME SetupInv, NEW r \in Reqs, NEW x \in SetupAsks, handler' = [handler EXCEPT ![r] = x],
         Standing, Marks, SetupTyped', handler[r].at # "install", SetupFits(r, x)', OldFilesFit',
         \A q \in Reqs \ {r} : (Pends(x) /\ Pends(handler[q]) /\ x.client = handler[q].client) => history'.overlap,
         r = N!Boot /\ ~up => /\ x.at = "accounts" => x.seen = setting
                              /\ x.at = "build" => Settled
  PROVE  SetupInv'
<1> USE DEF SetupInv
<1>1. handler \in [Reqs -> SetupAsks]
  BY DEF SetupTyped
<1>2. handler'[r] = x /\ \A q \in Reqs \ {r} : handler'[q] = handler[q]
  BY <1>1
<1>3. OneRow'
  BY DEF OneRow, Alike, Standing, Marks
<1>4. OnePends'
  <2> SUFFICES ASSUME NEW p \in Reqs, NEW q \in Reqs, p # q, Pends(handler'[p]), Pends(handler'[q]),
                      handler'[p].client = handler'[q].client
               PROVE  history'.overlap
    BY DEF OnePends, Pends
  <2>1. CASE p = r
    <3>1. handler'[p] = x /\ handler'[q] = handler[q]
      BY <1>2, <2>1
    <3> QED BY <2>1, <3>1
  <2>2. CASE q = r
    <3>1. handler'[q] = x /\ handler'[p] = handler[p]
      BY <1>2, <2>2
    <3> QED BY <2>2, <3>1
  <2>3. CASE p # r /\ q # r
    <3>1. handler'[q] = handler[q] /\ handler'[p] = handler[p]
      BY <1>2, <2>3
    <3> QED BY <3>1 DEF OnePends, Marks
  <2> QED BY <2>1, <2>2, <2>3
<1>5. Settled => Settled'
  BY DEF Settled, N!Consistent, Marks, Standing
<1>6. DefaultsFit'
  <2>1. /\ Settled' \/ (~up' /\ setting' = "onedrive" /\ \A i \in DOMAIN account' : ~account'[i].active)
    BY <1>5 DEF DefaultsFit, Standing
  <2>2. ~up' /\ handler'[N!Boot].at = "accounts" => handler'[N!Boot].seen = setting'
    BY <1>2, SetupReqs DEF DefaultsFit, Standing
  <2>3. ~up' /\ handler'[N!Boot].at = "build" => Settled'
    BY <1>2, <1>5, SetupReqs DEF DefaultsFit, Standing
  <2> QED BY <2>1, <2>2, <2>3 DEF DefaultsFit
<1>7. GrantsFit'
  <2>1. ASSUME NEW a \in DOMAIN account PROVE Holds(a)'
    <3>1. Holds(a)
      BY DEF GrantsFit
    <3>2. CASE history.crossed
      BY <3>2 DEF Holds, Marks
    <3>3. CASE provider[a] \in {0, account[a].grant}
      BY <3>1, <3>3 DEF Holds, Marks, Standing
    <3>4. ASSUME NEW q \in Admins, handler[q].at = "install", handler[q].acc = a PROVE Holds(a)'
      <4>1. handler'[q] = handler[q]
        BY <1>2, <3>4 DEF Reqs
      <4> QED BY <3>1, <3>4, <4>1 DEF Holds, Marks, Standing
    <3> QED BY <3>1, <3>2, <3>3, <3>4 DEF Holds
  <2>2. \A a \in DOMAIN account' : Holds(a)'
    BY <2>1 DEF Standing
  <2> QED BY <2>2 DEF GrantsFit, Standing, Marks
<1>8. FlowsFit'
  BY DEF FlowsFit, Standing, N!OfKind
<1>9. ASSUME NEW q \in Reqs PROVE SetupFits(q, handler[q])'
  <2>1. CASE q = r
    BY <1>2, <2>1
  <2>2. CASE q # r
    <3>1. PICK y : y = handler[q]
      OBVIOUS
    <3>2. y \in SetupAsks /\ SetupFits(q, y)
      BY <1>1, <3>1
    <3>3. Grows /\ Untouched(y)
      BY DEF Grows, Untouched, Standing, Marks
    <3>4. Pends(y) /\ y.acc = 0 /\ Unclaimed(y.client) => history'.overlap \/ Unclaimed(y.client)'
      BY DEF Unclaimed, N!OfClient, N!OfKind, Standing
    <3>5. SetupFits(q, y)'
      BY <3>2, <3>3, <3>4, FitsGrow
    <3>6. handler'[q] = y
      BY <1>2, <2>2, <3>1
    <3> QED BY <3>5, <3>6
  <2> QED BY <2>1, <2>2
<1> QED BY <1>3, <1>4, <1>6, <1>7, <1>8, <1>9

SetupPast == [overlap : BOOLEAN, crossed : BOOLEAN, beside : BOOLEAN, unlinked : BOOLEAN, given : [Slots -> Nat]]

LEMMA AskIs == ASSUME SetupInv, NEW r \in Reqs PROVE handler[r] \in SetupAsks /\ SetupFits(r, handler[r])
BY DEF SetupInv, SetupTyped

LEMMA StageGoes ==
  ASSUME SetupInv, NEW r \in Reqs, NEW x \in SetupAsks, handler' = [handler EXCEPT ![r] = x],
         Standing, Marks, handler[r].at # "install", SetupFits(r, x)',
         legacy' \in [client : Owners, grant : Nat], oldfiles' \in {oldfiles, "linked"}, v10' \in Nat, history' \in SetupPast,
         \A q \in Reqs \ {r} : (Pends(x) /\ Pends(handler[q]) /\ x.client = handler[q].client) => history'.overlap,
         r = N!Boot /\ ~up => /\ x.at = "accounts" => x.seen = setting
                              /\ x.at = "build" => Settled,
         r # N!Boot => up, r = N!Boot => OldFilesFit'
  PROVE  SetupInv'
<1>1. SetupTyped'
  BY DEF SetupInv, SetupTyped, SetupPast, Standing
<1>2. OldFilesFit'
  BY DEF SetupInv, OldFilesFit, Standing, Marks
<1> QED BY <1>1, <1>2, StageKeeps

LEMMA FitsStand == ASSUME Standing, Marks, NEW r, NEW x, SetupFits(r, x) PROVE SetupFits(r, x)'
BY DEF Standing, Marks, SetupFits, AskedFits, RowsFit, GivenFits, FlowFits, BootFits, Pends, Unclaimed, N!OfKind, N!OfClient

\* The request of an administrator goes on, and has not just looked for a client.
LEMMA AdminGoes ==
  ASSUME SetupInv, NEW r \in Reqs, NEW x \in SetupAsks, handler' = [handler EXCEPT ![r] = x],
         Standing, UNCHANGED <<oldfiles, history>>, handler[r].at # "install", SetupFits(r, x), ~Pends(x),
         legacy' \in [client : Owners, grant : Nat], v10' \in Nat, r # N!Boot, up
  PROVE  SetupInv'
<1>1. Marks /\ history' \in SetupPast
  BY DEF Marks, SetupPast, SetupInv, SetupTyped
<1>2. SetupFits(r, x)'
  BY <1>1, FitsStand
<1> QED BY <1>1, <1>2, StageGoes

LEMMA AdminAt == ASSUME SetupInv, NEW r \in Reqs,
                        handler[r].at \in {"exchange", "client", "token", "clear", "newest", "candidate", "write", "install", "probe", "commit"}
                 PROVE  r # N!Boot /\ up
BY AskIs DEF SetupFits, BootFits

LEMMA ExchangedKeeps == ASSUME SetupInv, NEW r \in Reqs, N!ExchangeOneDrive(r) \/ N!ExchangeGoogle(r) \/ N!Probed(r) PROVE SetupInv'
<1>1. PICK x : x = [handler[r] EXCEPT !.at = IF N!ExchangeOneDrive(r) THEN "look" ELSE "write"]
  OBVIOUS
<1>2. handler[r] \in SetupAsks /\ SetupFits(r, handler[r]) /\ SetupTyped
  BY AskIs DEF SetupInv
<1>3. handler[r].at \in {"exchange", "candidate"}
  BY DEF N!ExchangeOneDrive, N!ExchangeGoogle, N!Probed, N!At
<1>4. x \in SetupAsks /\ handler' = [handler EXCEPT ![r] = x]
  BY <1>1, <1>2 DEF N!ExchangeOneDrive, N!ExchangeGoogle, N!Probed, N!Goto, N!At, SetupAsks
<1>5. Standing /\ UNCHANGED <<legacy, oldfiles, v10, history>>
  BY DEF N!ExchangeOneDrive, N!ExchangeGoogle, N!Probed, N!tables, Standing
<1>6. r # N!Boot /\ up
  BY <1>3, AdminAt
<1>7. SetupFits(r, x) /\ ~Pends(x)
  <2>1. CASE N!ExchangeOneDrive(r)
    BY <1>1, <1>2, <1>6, <2>1
    DEF N!ExchangeOneDrive, N!At, SetupAsks, SetupFits, AskedFits, RowsFit, GivenFits, FlowFits, BootFits, Pends
  <2>2. CASE ~N!ExchangeOneDrive(r) /\ (N!ExchangeGoogle(r) \/ N!Probed(r))
    <3>1. x.at = "write" /\ x.acc = handler[r].acc /\ x.do = handler[r].do /\ x.kind = handler[r].kind /\ x.kind \in {"google", "keyed"}
          /\ x.flow = handler[r].flow /\ x.do \in {"callback", "add"}
      BY <1>1, <1>2, <2>2 DEF N!ExchangeGoogle, N!Probed, N!At, SetupAsks, SetupFits, AskedFits
    <3>2. x.acc = 0
      BY <1>2, <1>3, <3>1 DEF SetupFits, AskedFits
    <3> QED BY <1>1, <1>2, <1>6, <2>2, <3>1, <3>2
        DEF N!ExchangeGoogle, N!Probed, N!At, N!Kinds, SetupAsks, SetupFits, AskedFits, RowsFit, GivenFits, FlowFits, BootFits, Pends
  <2> QED BY <2>1, <2>2
<1> QED BY <1>2, <1>3, <1>4, <1>5, <1>6, <1>7, AdminGoes DEF SetupTyped

\* The settings of the old kind are written, one at a time, or deleted.
LEMMA SettingsKeep == ASSUME SetupInv, NEW r \in Reqs, N!SetClient(r) \/ N!SetToken(r) \/ N!ClearSettings(r) PROVE SetupInv'
<1>1. handler[r] \in SetupAsks /\ SetupFits(r, handler[r]) /\ SetupTyped
  BY AskIs DEF SetupInv
<1>2. PICK a \in {"token", "look", "newest"} :
           /\ handler[r].at = (CASE a = "token" -> "client" [] a = "look" -> "token" [] OTHER -> "clear")
           /\ N!Goto(r, a)
  BY DEF N!SetClient, N!SetToken, N!ClearSettings, N!At
<1>3. PICK x : x = [handler[r] EXCEPT !.at = a]
  OBVIOUS
<1>4. x \in SetupAsks /\ handler' = [handler EXCEPT ![r] = x]
  BY <1>1, <1>2, <1>3 DEF N!Goto, SetupAsks
<1>5. Standing /\ UNCHANGED <<oldfiles, v10, history>>
  BY DEF N!SetClient, N!SetToken, N!ClearSettings, Standing
<1>6. legacy' \in [client : Owners, grant : Nat]
  <2>1. handler[r].client \in Owners /\ handler[r].grant \in Nat /\ legacy \in [client : Owners, grant : Nat]
        /\ N!NoLegacy \in [client : Owners, grant : Nat]
    BY <1>1, SetupShaped DEF SetupAsks, SetupTyped, N!NoLegacy, Owners
  <2> QED BY <2>1 DEF N!SetClient, N!SetToken, N!ClearSettings
<1>7. r # N!Boot /\ up
  BY <1>2, AdminAt
<1>8. SetupFits(r, x) /\ ~Pends(x) /\ handler[r].at # "install"
  BY <1>1, <1>2, <1>3, <1>7 DEF SetupAsks, SetupFits, AskedFits, RowsFit, GivenFits, FlowFits, BootFits, Pends
<1> QED BY <1>1, <1>4, <1>5, <1>6, <1>7, <1>8, AdminGoes DEF SetupTyped

\* A client is looked for in memory, for the newest account or the one that was asked for.
LEMMA ProbeKeeps == ASSUME SetupInv, NEW r \in Reqs, N!Newest(r) \/ N!Probe(r) PROVE SetupInv'
<1>1. handler[r] \in SetupAsks /\ SetupFits(r, handler[r]) /\ SetupTyped
  BY AskIs DEF SetupInv
<1>2. handler[r].at \in {"newest", "probe"} /\ Standing /\ UNCHANGED <<legacy, oldfiles, v10, history>>
  BY DEF N!Newest, N!Probe, N!At, N!tables, Standing
<1>3. r # N!Boot /\ up
  BY <1>2, AdminAt
<1>4. PICK x : /\ handler' = [handler EXCEPT ![r] = x] /\ x \in SetupAsks
               /\ SetupFits(r, x) /\ ~Pends(x)
  <2>1. ASSUME NEW a \in N!OfKind("onedrive"), handler' = [handler EXCEPT ![r].at = "probe", ![r].acc = a], handler[r].at = "newest"
        PROVE  \E x : /\ handler' = [handler EXCEPT ![r] = x] /\ x \in SetupAsks /\ SetupFits(r, x) /\ ~Pends(x)
    <3>1. PICK x : x = [handler[r] EXCEPT !.at = "probe", !.acc = a]
      OBVIOUS
    <3>2. handler' = [handler EXCEPT ![r] = x]
      BY <1>1, <2>1, <3>1 DEF SetupTyped
    <3>3. a \in DOMAIN account /\ a \in 0 .. MaxAccounts
      <4>1. account \in Seq(SetupRows) /\ Len(account) <= MaxAccounts
        BY <1>1 DEF SetupTyped
      <4> QED BY <4>1, LenProperties, SetupShaped DEF N!OfKind
    <3>4. x \in SetupAsks
      BY <1>1, <3>1, <3>3 DEF SetupAsks
    <3>5. SetupFits(r, x) /\ ~Pends(x)
      BY <1>1, <1>3, <2>1, <3>1, <3>3 DEF SetupAsks, SetupFits, AskedFits, RowsFit, GivenFits, FlowFits, BootFits, Pends
    <3> QED BY <3>2, <3>4, <3>5
  <2>2. ASSUME handler' = [handler EXCEPT ![r] = N!Rest]
        PROVE  \E x : /\ handler' = [handler EXCEPT ![r] = x] /\ x \in SetupAsks /\ SetupFits(r, x) /\ ~Pends(x)
    BY <2>2, RestFits
  <2>3. ASSUME N!Goto(r, "commit"), handler[r].at = "probe"
        PROVE  \E x : /\ handler' = [handler EXCEPT ![r] = x] /\ x \in SetupAsks /\ SetupFits(r, x) /\ ~Pends(x)
    <3>1. PICK x : x = [handler[r] EXCEPT !.at = "commit"]
      OBVIOUS
    <3>2. handler' = [handler EXCEPT ![r] = x]
      BY <2>3, <3>1 DEF N!Goto
    <3>3. x \in SetupAsks
      BY <1>1, <3>1 DEF SetupAsks
    <3>4. SetupFits(r, x) /\ ~Pends(x)
      BY <1>1, <1>3, <2>3, <3>1 DEF SetupAsks, SetupFits, AskedFits, RowsFit, GivenFits, FlowFits, BootFits, Pends
    <3> QED BY <3>2, <3>3, <3>4
  <2> QED BY <2>1, <2>2, <2>3 DEF N!Newest, N!Probe, N!At
<1> QED BY <1>1, <1>2, <1>3, <1>4, AdminGoes DEF SetupTyped

\* Something is begun: a token by hand, an account of another kind, another default.
LEMMA BegunKeeps ==
  ASSUME SetupInv, NEW r \in Admins, N!Put(r) \/ N!AddKeyed(r) \/ \E a \in 0 .. MaxAccounts : N!AskSwitch(r, a)
  PROVE  SetupInv'
<1>1. /\ r \in Reqs /\ r # N!Boot /\ SetupTyped /\ 0 \notin N!Flows /\ v10 \in Nat
  <2>1. r \in Reqs /\ r # N!Boot
    BY SetupReqs DEF Reqs
  <2>2. 0 \notin N!Flows
    BY SetupShaped DEF N!Flows
  <2> QED BY <2>1, <2>2 DEF SetupInv, SetupTyped
<1>3. /\ up /\ handler[r].at = "off" /\ Standing /\ UNCHANGED <<legacy, oldfiles, history>>
      /\ v10' \in {v10, v10 + 1}
  BY DEF N!Put, N!AddKeyed, N!AskSwitch, N!Begin, N!Handle, N!At, Standing
<1>4. PICK x : /\ handler' = [handler EXCEPT ![r] = x]
               /\ \/ \E d \in Clients : x = [N!Rest EXCEPT !.at = "client", !.do = "put", !.kind = "onedrive", !.client = d, !.grant = v10 + 1]
                  \/ x = [N!Rest EXCEPT !.at = "candidate", !.do = "add", !.kind = "keyed", !.grant = v10 + 1]
                  \/ \E a \in 0 .. MaxAccounts : /\ a = 0 \/ a \in DOMAIN account
                                                 /\ x = [N!Rest EXCEPT !.at = "probe", !.do = "switch", !.acc = a]
  BY DEF N!Put, N!AddKeyed, N!AskSwitch, N!Begin, N!Handle
<1>5. x \in SetupAsks /\ SetupFits(r, x) /\ ~Pends(x)
  <2>1. N!Rest \in SetupAsks /\ v10 + 1 \in Nat
    BY <1>1, RestFits
  <2>2. ASSUME NEW d \in Clients,
               x = [N!Rest EXCEPT !.at = "client", !.do = "put", !.kind = "onedrive", !.client = d, !.grant = v10 + 1]
        PROVE  x \in SetupAsks /\ SetupFits(r, x) /\ ~Pends(x)
    <3>1. x \in SetupAsks
      BY <2>1, <2>2 DEF SetupAsks, N!Kinds, Owners
    <3>2. x.at = "client" /\ x.do = "put" /\ x.kind = "onedrive" /\ x.client \in Clients /\ x.flow = 0
      BY <2>2 DEF N!Rest
    <3> QED BY <1>1, <1>3, <3>1, <3>2 DEF SetupFits, AskedFits, RowsFit, GivenFits, FlowFits, BootFits, Pends
  <2>3. ASSUME x = [N!Rest EXCEPT !.at = "candidate", !.do = "add", !.kind = "keyed", !.grant = v10 + 1]
        PROVE  x \in SetupAsks /\ SetupFits(r, x) /\ ~Pends(x)
    <3>1. x \in SetupAsks
      BY <2>1, <2>3 DEF SetupAsks, N!Kinds
    <3>2. x.at = "candidate" /\ x.do = "add" /\ x.kind = "keyed" /\ x.acc = 0 /\ x.flow = 0
      BY <2>3 DEF N!Rest
    <3> QED BY <1>1, <1>3, <3>1, <3>2 DEF SetupFits, AskedFits, RowsFit, GivenFits, FlowFits, BootFits, Pends
  <2>4. ASSUME NEW a \in 0 .. MaxAccounts, a = 0 \/ a \in DOMAIN account,
               x = [N!Rest EXCEPT !.at = "probe", !.do = "switch", !.acc = a]
        PROVE  x \in SetupAsks /\ SetupFits(r, x) /\ ~Pends(x)
    <3>1. x \in SetupAsks
      BY <2>1, <2>4 DEF SetupAsks
    <3>2. x.at = "probe" /\ x.acc = a /\ x.flow = 0
      BY <2>4 DEF N!Rest
    <3> QED BY <1>1, <1>3, <2>4, <3>1, <3>2 DEF SetupFits, AskedFits, RowsFit, GivenFits, FlowFits, BootFits, Pends
  <2> QED BY <1>4, <2>2, <2>3, <2>4
<1>6. v10' \in Nat /\ legacy' \in [client : Owners, grant : Nat] /\ handler[r].at # "install" /\ UNCHANGED <<oldfiles, history>>
  <2>1. v10' \in Nat
    BY <1>1, <1>3
  <2>2. legacy \in [client : Owners, grant : Nat] /\ legacy' = legacy
    BY <1>1, <1>3 DEF SetupTyped
  <2>3. UNCHANGED <<oldfiles, history>> /\ handler[r].at # "install"
    BY <1>3
  <2> QED BY <2>1, <2>2, <2>3
<1> QED BY <1>1, <1>3, <1>4, <1>5, <1>6, AdminGoes

\* Who may be the start of the process does not act on the request of an administrator.
LEMMA UpOrBoot == ASSUME SetupInv, NEW r \in Reqs, handler[r].at # "off" PROVE r # N!Boot => up
BY AskIs DEF SetupFits, BootFits

LEMMA AccountsAreSlots == ASSUME SetupTyped PROVE DOMAIN account = 1 .. Len(account) /\ Len(account) \in Nat /\ DOMAIN account \subseteq Slots
<1>1. account \in Seq(SetupRows) /\ Len(account) <= MaxAccounts
  BY DEF SetupTyped
<1> QED BY <1>1, LenProperties, SetupShaped DEF Slots

LEMMA LookKeeps == ASSUME SetupInv, NEW r \in Reqs, N!Look(r) PROVE SetupInv'
<1>1. handler[r] \in SetupAsks /\ SetupFits(r, handler[r]) /\ SetupTyped
  BY AskIs DEF SetupInv
<1>2. /\ handler[r].at = "look" /\ Standing /\ UNCHANGED <<legacy, oldfiles, v10>>
      /\ history' = [history EXCEPT !.overlap = @ \/ N!Meanwhile(r)]
  BY DEF N!Look, N!At, N!tables, Standing
<1>3. handler[r].kind = "onedrive" /\ handler[r].client \in Clients /\ handler[r].do \in {"put", "callback", "init"}
  BY <1>1, <1>2 DEF SetupFits, AskedFits
<1>4. PICK a : /\ a \in (IF N!OfClient(handler[r].client) = {} THEN {0} ELSE N!OfClient(handler[r].client))
               /\ handler' = [handler EXCEPT ![r].at = IF handler[r].do = "init" THEN "migrate" ELSE "write", ![r].acc = a]
  BY DEF N!Look
<1>5. PICK x : x = [handler[r] EXCEPT !.at = IF handler[r].do = "init" THEN "migrate" ELSE "write", !.acc = a]
  OBVIOUS
<1>6. handler' = [handler EXCEPT ![r] = x]
  BY <1>1, <1>4, <1>5 DEF SetupTyped
<1>7. a \in 0 .. MaxAccounts
  BY <1>1, <1>4, AccountsAreSlots, SetupShaped DEF N!OfClient, N!OfKind, Slots
<1>8. /\ x \in SetupAsks /\ x.acc = a /\ x.kind = "onedrive" /\ x.client = handler[r].client /\ x.do = handler[r].do
      /\ x.flow = handler[r].flow /\ x.at = IF x.do = "init" THEN "migrate" ELSE "write"
  BY <1>1, <1>3, <1>5, <1>7 DEF SetupAsks
<1>9. history' \in SetupPast /\ Marks
  <2>1. N!Meanwhile(r) \in BOOLEAN /\ history \in SetupPast
    BY <1>1 DEF N!Meanwhile, SetupTyped, SetupPast
  <2> QED BY <1>2, <2>1 DEF SetupPast, Marks
<1>10. r # N!Boot => up
  BY <1>2, UpOrBoot
<1>11. SetupFits(r, x)
  <2>1. AskedFits(x)
    BY <1>3, <1>8 DEF AskedFits, Pends, N!Kinds
  <2>2. RowsFit(x)
    <3>1. 0 \notin DOMAIN account
      BY <1>1, AccountsAreSlots
    <3>2. CASE N!OfClient(handler[r].client) = {}
      <4>1. a = 0
        BY <1>4, <3>2
      <4> QED BY <1>8, <3>2, <4>1 DEF RowsFit, Unclaimed
    <3>3. CASE N!OfClient(handler[r].client) # {}
      <4>1. a \in N!OfKind("onedrive") /\ a # 0
        BY <1>4, <3>1, <3>3 DEF N!OfClient, N!OfKind
      <4> QED BY <1>8, <4>1 DEF RowsFit
    <3> QED BY <3>2, <3>3
  <2>3. GivenFits(x)
    BY <1>8 DEF GivenFits
  <2>4. FlowFits(x)
    BY <1>1, <1>2, <1>3, <1>8 DEF SetupFits, FlowFits
  <2>5. BootFits(r, x)
    BY <1>1, <1>2, <1>8, <1>10 DEF SetupFits, BootFits
  <2> QED BY <2>1, <2>2, <2>3, <2>4, <2>5 DEF SetupFits
<1>12. SetupFits(r, x)'
  BY <1>2, <1>9, <1>11, FitsStand
<1>13. ASSUME NEW q \in Reqs \ {r}, Pends(handler[q]), x.client = handler[q].client PROVE history'.overlap
  <2>1. DOMAIN handler = Reqs
    BY <1>1 DEF SetupTyped
  <2>2. N!Meanwhile(r)
    BY <1>8, <1>13, <2>1 DEF N!Meanwhile, N!Others, Pends
  <2> QED BY <1>1, <1>2, <2>2 DEF SetupTyped
<1>14. ASSUME r = N!Boot PROVE OldFilesFit'
  <2>1. handler'[N!Boot].at \in {"migrate"}
    <3>1. x.do = "init"
      BY <1>1, <1>2, <1>8, <1>14 DEF SetupFits, BootFits
    <3> QED BY <1>1, <1>6, <1>8, <1>14, <3>1 DEF SetupTyped
  <2>2. handler[N!Boot].at = "look"
    BY <1>2, <1>14
  <2> QED BY <1>2, <1>9, <2>1, <2>2 DEF SetupInv, OldFilesFit, Standing, Marks
<1> QED
  <2>1. /\ legacy' \in [client : Owners, grant : Nat] /\ oldfiles' \in {oldfiles, "linked"} /\ v10' \in Nat
        /\ x.at \notin {"accounts", "build"} /\ handler[r].at # "install"
    BY <1>1, <1>2, <1>8 DEF SetupTyped
  <2> QED BY <1>2, <1>6, <1>8, <1>9, <1>10, <1>12, <1>13, <1>14, <2>1, StageGoes

\* The process starts.
LEMMA StartKeeps == ASSUME SetupInv, N!Start PROVE SetupInv'
<1>1. PICK r : r = N!Boot
  OBVIOUS
<1>2. PICK x : x = [N!Rest EXCEPT !.at = "init"]
  OBVIOUS
<1>3. r \in Reqs /\ r \notin Admins
  BY <1>1, SetupReqs
<1>4. handler' = [handler EXCEPT ![r] = x] /\ handler[r].at = "off" /\ ~up /\ SetupTyped
  BY <1>1, <1>2 DEF N!Start, N!At, SetupInv
<1>5. Standing /\ UNCHANGED <<legacy, oldfiles, v10, history>>
  BY DEF N!Start, N!tables, Standing
<1>6. x \in SetupAsks /\ x.at = "init" /\ x.flow = 0 /\ 0 \notin N!Flows
  <2>1. N!Rest \in SetupAsks
    BY RestFits
  <2>2. x \in SetupAsks /\ x.at = "init"
    BY <1>2, <2>1 DEF SetupAsks
  <2>3. x.flow = 0
    BY <1>2 DEF N!Rest
  <2>4. 0 \notin N!Flows
    BY SetupShaped DEF N!Flows
  <2> QED BY <2>2, <2>3, <2>4
<1>7. SetupFits(r, x)
  BY <1>1, <1>3, <1>6 DEF SetupFits, AskedFits, RowsFit, GivenFits, FlowFits, BootFits, Pends
<1>8. Marks /\ history' \in SetupPast
  BY <1>4, <1>5 DEF SetupTyped, SetupPast, Marks
<1>9. SetupFits(r, x)'
  BY <1>5, <1>7, <1>8, FitsStand
<1>10. OldFilesFit'
  <2>1. handler'[N!Boot].at = "init" /\ handler[N!Boot].at = "off"
    BY <1>1, <1>3, <1>4, <1>6 DEF SetupTyped
  <2> QED BY <1>5, <2>1 DEF SetupInv, OldFilesFit, Standing
<1> QED
  <2>1. /\ legacy' \in [client : Owners, grant : Nat] /\ oldfiles' \in {oldfiles, "linked"} /\ v10' \in Nat
        /\ x.at \notin {"accounts", "build"} /\ handler[r].at # "install" /\ ~Pends(x)
    BY <1>4, <1>5, <1>6 DEF SetupTyped, Pends
  <2> QED BY <1>1, <1>3, <1>4, <1>5, <1>6, <1>8, <1>9, <1>10, <2>1, StageGoes

\* An initialisation goes on, and looks for no client any more.
LEMMA InitGoes ==
  ASSUME SetupInv, NEW r \in Reqs, NEW x \in SetupAsks, handler' = [handler EXCEPT ![r] = x], Standing, Marks,
         history' \in SetupPast, v10' = v10, handler[r].at \notin {"off", "install"}, SetupFits(r, x), ~Pends(x),
         legacy' \in [client : Owners, grant : Nat], oldfiles' \in {oldfiles, "linked"},
         r = N!Boot /\ ~up => /\ x.at = "accounts" => x.seen = setting
                              /\ x.at = "build" => Settled,
         (r = N!Boot /\ ~up /\ oldfiles = "unlinked" /\ oldfiles' = oldfiles /\ ~history'.unlinked) =>
           \/ legacy'.client # 0 /\ legacy'.grant # 0 /\ x.at \in {"off", "init", "look", "migrate", "forget"}
           \/ x.at = "link"
  PROVE  SetupInv'
<1>1. SetupFits(r, x)'
  BY FitsStand
<1>2. r # N!Boot => up
  BY UpOrBoot
<1>3. ASSUME r = N!Boot PROVE OldFilesFit'
  <2>1. handler'[N!Boot] = x
    BY <1>3 DEF SetupInv, SetupTyped
  <2> QED BY <1>3, <2>1 DEF SetupInv, OldFilesFit, Standing, Marks
<1>4. v10' \in Nat /\ handler[r].at # "install"
  BY DEF SetupInv, SetupTyped
<1> QED BY <1>1, <1>2, <1>3, <1>4, StageGoes

LEMMA PastStands == ASSUME SetupInv, UNCHANGED history PROVE Marks /\ history' \in SetupPast
BY DEF Marks, SetupPast, SetupInv, SetupTyped

LEMMA ReadLegacyKeeps == ASSUME SetupInv, NEW r \in Reqs, N!ReadLegacy(r) PROVE SetupInv'
<1>1. handler[r] \in SetupAsks /\ SetupFits(r, handler[r]) /\ SetupTyped
  BY AskIs DEF SetupInv
<1>2. handler[r].at = "init" /\ Standing /\ UNCHANGED <<legacy, oldfiles, v10, history>>
  BY DEF N!ReadLegacy, N!At, N!tables, Standing
<1>3. legacy.client \in Owners /\ legacy.grant \in Nat
  BY <1>1 DEF SetupTyped
<1>4. PICK x : x = IF legacy.client # 0 /\ legacy.grant # 0
                   THEN [handler[r] EXCEPT !.at = "look", !.do = "init", !.kind = "onedrive",
                                           !.client = legacy.client, !.grant = legacy.grant]
                   ELSE [handler[r] EXCEPT !.at = "setting"]
  OBVIOUS
<1>5. handler' = [handler EXCEPT ![r] = x]
  <2>1. CASE legacy.client # 0 /\ legacy.grant # 0
    <3>1. handler' = [handler EXCEPT ![r] = [@ EXCEPT !.at = "look", !.do = "init", !.kind = "onedrive",
                                                      !.client = legacy.client, !.grant = legacy.grant]]
      BY <2>1 DEF N!ReadLegacy
    <3>2. x = [handler[r] EXCEPT !.at = "look", !.do = "init", !.kind = "onedrive",
                                 !.client = legacy.client, !.grant = legacy.grant]
      BY <1>4, <2>1
    <3> QED BY <3>1, <3>2
  <2>2. CASE ~(legacy.client # 0 /\ legacy.grant # 0)
    BY <1>4, <2>2 DEF N!ReadLegacy
  <2> QED BY <2>1, <2>2
<1>6. /\ x \in SetupAsks
      /\ \/ x.at = "look" /\ x.do = "init" /\ x.kind = "onedrive" /\ x.client \in Clients /\ legacy.client # 0 /\ legacy.grant # 0
         \/ x.at = "setting" /\ (legacy.client = 0 \/ legacy.grant = 0)
      /\ x.flow = handler[r].flow
  <2>1. CASE legacy.client # 0 /\ legacy.grant # 0
    BY <1>1, <1>3, <1>4, <2>1, ZenonT(60) DEF SetupAsks, N!Kinds, Owners
  <2>2. CASE ~(legacy.client # 0 /\ legacy.grant # 0)
    BY <1>1, <1>4, <2>2 DEF SetupAsks
  <2> QED BY <2>1, <2>2
<1>7. SetupFits(r, x) /\ ~Pends(x)
  BY <1>1, <1>2, <1>6 DEF SetupFits, AskedFits, RowsFit, GivenFits, FlowFits, BootFits, Pends
<1>8. (r = N!Boot /\ ~up /\ oldfiles = "unlinked" /\ ~history.unlinked) => legacy.client # 0 /\ legacy.grant # 0
  BY <1>2 DEF SetupInv, OldFilesFit
<1>9. legacy' \in [client : Owners, grant : Nat]
  BY <1>1, <1>2 DEF SetupTyped
<1> QED BY <1>2, <1>5, <1>6, <1>7, <1>8, <1>9, PastStands, InitGoes

\* What was kept in settings was taken over, and the settings are deleted.
LEMMA MigratedKeeps ==
  ASSUME SetupInv, NEW r \in Reqs, (N!Migrate(r) /\ handler[r].acc # 0) \/ N!Forget(r) \/ N!Link(r) \/ N!ReadSetting(r)
  PROVE  SetupInv'
<1>1. handler[r] \in SetupAsks /\ SetupFits(r, handler[r]) /\ SetupTyped
  BY AskIs DEF SetupInv
<1>2. /\ handler[r].at \in {"migrate", "forget", "link", "setting"} /\ Standing /\ UNCHANGED <<v10, history>>
      /\ oldfiles' \in {oldfiles, "linked"}
  BY DEF N!Migrate, N!Forget, N!Link, N!ReadSetting, N!At, N!Goto, N!tables, Standing
<1>3. PICK x \in SetupAsks :
           /\ handler' = [handler EXCEPT ![r] = x]
           /\ \/ handler[r].at = "migrate" /\ x.at = "forget"
              \/ handler[r].at = "forget" /\ x.at = "link"
              \/ handler[r].at = "link" /\ x.at = "setting"
              \/ handler[r].at = "setting" /\ x.at = "accounts" /\ x.seen = setting
           /\ x.flow = handler[r].flow /\ x.kind = handler[r].kind
  <2>1. ASSUME NEW a \in {"forget", "link", "setting"}, N!Goto(r, a)
        PROVE  \E x \in SetupAsks : /\ handler' = [handler EXCEPT ![r] = x]
                                    /\ x.at = a /\ x.flow = handler[r].flow /\ x.kind = handler[r].kind
    <3>1. PICK x : x = [handler[r] EXCEPT !.at = a]
      OBVIOUS
    <3>2. handler' = [handler EXCEPT ![r] = x]
      BY <2>1, <3>1 DEF N!Goto
    <3>3. x \in SetupAsks /\ x.at = a /\ x.flow = handler[r].flow /\ x.kind = handler[r].kind
      BY <1>1, <3>1 DEF SetupAsks
    <3> QED BY <3>2, <3>3
  <2>2. CASE N!ReadSetting(r)
    <3>1. PICK x : x = [handler[r] EXCEPT !.at = "accounts", !.seen = setting]
      OBVIOUS
    <3>2. handler' = [handler EXCEPT ![r].at = "accounts", ![r].seen = setting] /\ handler[r].at = "setting"
      BY <2>2 DEF N!ReadSetting, N!At
    <3>3. handler' = [handler EXCEPT ![r] = x]
      BY <1>1, <3>1, <3>2 DEF SetupTyped
    <3>4. x \in SetupAsks /\ x.at = "accounts" /\ x.seen = setting /\ x.flow = handler[r].flow /\ x.kind = handler[r].kind
      BY <1>1, <3>1 DEF SetupAsks, SetupTyped
    <3> QED BY <3>2, <3>3, <3>4
  <2>3. CASE N!Migrate(r) /\ handler[r].acc # 0
    BY <2>1, <2>3 DEF N!Migrate, N!At
  <2>4. CASE N!Forget(r)
    BY <2>1, <2>4 DEF N!Forget, N!At
  <2>5. CASE N!Link(r)
    BY <2>1, <2>5 DEF N!Link, N!At
  <2> QED BY <2>2, <2>3, <2>4, <2>5
<1>6. SetupFits(r, x) /\ ~Pends(x)
  BY <1>1, <1>2, <1>3 DEF SetupFits, AskedFits, RowsFit, GivenFits, FlowFits, BootFits, Pends
<1>7. legacy' \in [client : Owners, grant : Nat]
  <2>1. legacy' \in {legacy, N!NoLegacy}
    BY DEF N!Migrate, N!Forget, N!Link, N!ReadSetting, N!tables
  <2>2. legacy \in [client : Owners, grant : Nat]
    BY <1>1 DEF SetupTyped
  <2>3. N!NoLegacy \in [client : Owners, grant : Nat]
    BY DEF N!NoLegacy, Owners
  <2> QED BY <2>1, <2>2, <2>3
<1>8. /\ handler[r].at = "migrate" => UNCHANGED legacy
      /\ handler[r].at = "link" => oldfiles' # "unlinked"
  BY DEF N!Migrate, N!Forget, N!Link, N!ReadSetting, N!At
<1>9. (r = N!Boot /\ ~up /\ oldfiles = "unlinked" /\ oldfiles' = oldfiles /\ ~history'.unlinked) =>
           \/ legacy'.client # 0 /\ legacy'.grant # 0 /\ x.at \in {"off", "init", "look", "migrate", "forget"}
           \/ x.at = "link"
  BY <1>2, <1>3, <1>8 DEF SetupInv, OldFilesFit
<1>10. r = N!Boot /\ ~up => /\ x.at = "accounts" => x.seen = setting
                            /\ x.at = "build" => Settled
  BY <1>2, <1>3
<1>11. v10' = v10 /\ handler[r].at \notin {"off", "install"} /\ oldfiles' \in {oldfiles, "linked"} /\ Standing
  BY <1>2
<1> QED BY <1>2, <1>3, <1>6, <1>7, <1>9, <1>10, <1>11, PastStands, InitGoes

LEMMA RestIsOff == N!Rest.at = "off"
BY DEF N!Rest

\* A default for which there is an account that is active alone.
LEMMA ReadAccountsKeeps == ASSUME SetupInv, NEW r \in Reqs, N!ReadAccounts(r) PROVE SetupInv'
<1>1. handler[r] \in SetupAsks /\ SetupFits(r, handler[r]) /\ SetupTyped
  BY AskIs DEF SetupInv
<1>2. /\ handler[r].at = "accounts" /\ Standing /\ UNCHANGED <<legacy, oldfiles, v10>>
      /\ history' = [history EXCEPT !.crossed = @ \/ refresh # {} \/ \E q \in N!Others(r) : handler[q].at = "install"]
  BY DEF N!ReadAccounts, N!At, N!tables, Standing
<1>3. history \in SetupPast /\ history' \in SetupPast /\ Marks
  <2>1. history \in SetupPast
    BY <1>1 DEF SetupTyped, SetupPast
  <2> QED BY <1>2, <2>1 DEF SetupPast, Marks
<1>4. PICK x \in SetupAsks :
           /\ handler' = [handler EXCEPT ![r] = x]
           /\ \/ x = N!Rest
              \/ /\ x.at = "build" /\ x.rows = account /\ x.flow = handler[r].flow
                 /\ N!Consistent(handler[r].seen, account)
  <2>1. CASE N!Consistent(handler[r].seen, account)
    <3>1. PICK x : x = [handler[r] EXCEPT !.at = "build", !.rows = account]
      OBVIOUS
    <3>2. handler' = [handler EXCEPT ![r].at = "build", ![r].rows = account]
      BY <2>1 DEF N!ReadAccounts
    <3>3. handler' = [handler EXCEPT ![r] = x]
      BY <1>1, <3>1, <3>2 DEF SetupTyped
    <3>4. x \in SetupAsks /\ x.at = "build" /\ x.rows = account /\ x.flow = handler[r].flow
      BY <1>1, <3>1 DEF SetupAsks, SetupTyped
    <3> QED BY <2>1, <3>3, <3>4
  <2>2. CASE ~N!Consistent(handler[r].seen, account)
    BY <2>2, RestFits DEF N!ReadAccounts
  <2> QED BY <2>1, <2>2
<1>5. SetupFits(r, x)' /\ ~Pends(x)
  <2>1. CASE x = N!Rest
    BY <1>2, <1>3, <2>1, RestFits, FitsStand
  <2>2. CASE x.at = "build" /\ x.rows = account /\ x.flow = handler[r].flow
    <3>1. AskedFits(x) /\ RowsFit(x) /\ FlowFits(x) /\ BootFits(r, x) /\ ~Pends(x)
      BY <1>1, <1>2, <2>2 DEF SetupFits, AskedFits, RowsFit, FlowFits, BootFits, Pends
    <3>2. AskedFits(x)' /\ RowsFit(x)' /\ FlowFits(x)' /\ BootFits(r, x)'
      BY <1>2, <1>3, <2>2, <3>1 DEF AskedFits, RowsFit, FlowFits, BootFits, Pends, Standing, N!OfKind
    <3>3. GivenFits(x)'
      <4> SUFFICES ASSUME ~history'.crossed PROVE \A a \in DOMAIN account : account[a].grant = history'.given[a]
        BY <2>2 DEF GivenFits
      <4>1. ~history.crossed /\ \A a \in DOMAIN account : Holds(a)
        BY <1>3 DEF SetupInv, GrantsFit, Marks
      <4> QED BY <1>3, <4>1 DEF Holds, Marks
    <3> QED BY <3>1, <3>2, <3>3 DEF SetupFits
  <2> QED BY <1>4, <2>1, <2>2
<1>6. ~Pends(handler[r]) /\ handler[r].at # "install" /\ handler[r].at # "off"
  BY <1>2 DEF Pends
<1>7. r = N!Boot /\ ~up => (x.at = "build" => Settled)
  <2> SUFFICES ASSUME r = N!Boot, ~up, x.at = "build" PROVE N!Consistent(setting, account)
    BY DEF Settled
  <2>1. N!Consistent(handler[r].seen, account)
    BY <1>4, RestIsOff
  <2>2. handler[r].seen = setting
    BY <1>2 DEF SetupInv, DefaultsFit
  <2> QED BY <2>1, <2>2
<1>8. x.at # "accounts"
  BY <1>4, RestIsOff
<1>9. ASSUME r = N!Boot PROVE OldFilesFit'
  BY <1>2, <1>3, <1>9 DEF SetupInv, OldFilesFit, Standing, Marks
<1>10. r # N!Boot => up
  BY <1>6, UpOrBoot
<1>11. legacy' \in [client : Owners, grant : Nat] /\ oldfiles' \in {oldfiles, "linked"} /\ v10' \in Nat
  BY <1>1, <1>2 DEF SetupTyped
<1> QED BY <1>2, <1>3, <1>4, <1>5, <1>6, <1>7, <1>8, <1>9, <1>10, <1>11, StageGoes

LEMMA FailKeeps == ASSUME SetupInv, NEW r \in Reqs, N!Fail(r) PROVE SetupInv'
<1>1. handler[r] \in SetupAsks /\ SetupFits(r, handler[r]) /\ SetupTyped
  BY AskIs DEF SetupInv
<1>2. /\ handler[r].at \notin {"off", "install"} /\ Standing /\ UNCHANGED <<legacy, oldfiles, v10>>
      /\ history' = [history EXCEPT !.unlinked = @ \/ handler[r].at = "link"]
      /\ handler' = [handler EXCEPT ![r] = N!Rest]
  BY DEF N!Fail, N!At, N!tables, Standing
<1>3. history' \in SetupPast /\ Marks /\ (history.unlinked \/ handler[r].at = "link" => history'.unlinked)
  <2>1. history \in SetupPast
    BY <1>1 DEF SetupTyped, SetupPast
  <2> QED BY <1>2, <2>1 DEF SetupPast, Marks
<1>4. PICK x : x = N!Rest
  OBVIOUS
<1>5. /\ x \in SetupAsks /\ SetupFits(r, x) /\ ~Pends(x) /\ x.at = "off" /\ handler' = [handler EXCEPT ![r] = x]
  BY <1>2, <1>4, RestFits DEF N!Rest
<1>6. (r = N!Boot /\ ~up /\ oldfiles = "unlinked" /\ oldfiles' = oldfiles /\ ~history'.unlinked) =>
           \/ legacy'.client # 0 /\ legacy'.grant # 0 /\ x.at \in {"off", "init", "look", "migrate", "forget"}
           \/ x.at = "link"
  BY <1>2, <1>3, <1>5 DEF SetupInv, OldFilesFit
<1>7. legacy' \in [client : Owners, grant : Nat] /\ oldfiles' \in {oldfiles, "linked"} /\ v10' = v10
  BY <1>1, <1>2 DEF SetupTyped
<1> QED BY <1>2, <1>3, <1>5, <1>6, <1>7, InitGoes

SetupFlows == [is : {"none", "pending", "used", "gone"}, kind : N!Kinds \cup {""},
               page : {"none", "waiting", "told", "closed"}, posted : BOOLEAN]

\* A flow goes on, and may begin a request.
LEMMA FlowGoes ==
  ASSUME SetupInv, UNCHANGED <<account, setting, legacy, oldfiles, provider, up, refresh, history>>,
         flow' \in [N!Flows -> SetupFlows], v10' \in Nat, FlowsFit', handler' \in [Reqs -> SetupAsks],
         \A f \in N!Flows : flow[f].is = "used" => flow'[f].is = "used" /\ flow'[f].kind = flow[f].kind,
         \A q \in Reqs : \/ handler'[q] = handler[q]
                         \/ q # N!Boot /\ handler[q].at = "off" /\ ~Pends(handler'[q]) /\ SetupFits(q, handler[q])'
  PROVE  SetupInv'
<1> USE DEF SetupInv
<1>1. SetupTyped'
  BY DEF SetupTyped, SetupFlows
<1>2. OneRow'
  BY DEF OneRow, Alike
<1>3. OnePends'
  <2> SUFFICES ASSUME NEW p \in Reqs, NEW q \in Reqs, p # q, Pends(handler'[p]), Pends(handler'[q]),
                      handler'[p].client = handler'[q].client
               PROVE  history.overlap
    BY DEF OnePends, Pends
  <2>1. handler'[p] = handler[p] /\ handler'[q] = handler[q]
    OBVIOUS
  <2> QED BY <2>1 DEF OnePends
<1>4. handler'[N!Boot] = handler[N!Boot]
  BY SetupReqs
<1>5. DefaultsFit' /\ OldFilesFit'
  BY <1>4 DEF DefaultsFit, OldFilesFit, Settled, N!Consistent
<1>6. GrantsFit'
  <2>1. ASSUME NEW a \in DOMAIN account PROVE Holds(a)'
    <3>1. Holds(a)
      BY DEF GrantsFit
    <3>2. ASSUME NEW q \in Admins, handler[q].at = "install", handler[q].acc = a
          PROVE  handler'[q].at = "install" /\ handler'[q].acc = a
      <4>1. handler'[q] = handler[q]
        BY <3>2 DEF Reqs
      <4> QED BY <3>2, <4>1
    <3> QED BY <3>1, <3>2 DEF Holds
  <2> QED BY <2>1 DEF GrantsFit
<1>7. ASSUME NEW q \in Reqs PROVE SetupFits(q, handler[q])'
  <2>1. CASE handler'[q] = handler[q]
    <3>1. PICK y : y = handler[q]
      OBVIOUS
    <3>2. y \in SetupAsks /\ SetupFits(q, y)
      BY <3>1 DEF SetupTyped
    <3>3. Grows /\ Untouched(y)
      BY DEF Grows, Untouched
    <3>4. Pends(y) /\ y.acc = 0 /\ Unclaimed(y.client) => history'.overlap \/ Unclaimed(y.client)'
      BY DEF Unclaimed, N!OfClient, N!OfKind
    <3>5. SetupFits(q, y)'
      BY <3>2, <3>3, <3>4, FitsGrow
    <3>6. handler'[q] = y
      BY <2>1, <3>1
    <3> QED BY <3>5, <3>6
  <2> QED BY <2>1
<1> QED BY <1>1, <1>2, <1>3, <1>5, <1>6, <1>7

\* A flow is issued and is over; the page that waits is told, or its window is closed.
LEMMA FlowKeeps ==
  ASSUME SetupInv, NEW f \in N!Flows,
         N!Expire(f) \/ N!PageTold(f) \/ N!WindowClosed(f) \/ \E k \in {"onedrive", "google"} : N!Issue(f, k)
  PROVE  SetupInv'
<1>1. SetupTyped /\ FlowsFit /\ flow \in [N!Flows -> SetupFlows] /\ handler \in [Reqs -> SetupAsks]
  BY DEF SetupInv, SetupTyped, SetupFlows
<1>2. UNCHANGED <<account, setting, legacy, oldfiles, provider, up, refresh, history, handler, v10>>
  BY DEF N!Expire, N!PageTold, N!WindowClosed, N!Issue
<1>3. PICK w : /\ flow' = [flow EXCEPT ![f] = w] /\ w \in SetupFlows
               /\ flow[f].is = "used" => w.is = "used" /\ w.kind = flow[f].kind
               /\ w.posted \/ w.page = "told" => flow[f].posted \/ flow[f].page = "told"
               /\ w.posted \/ w.page = "told" => w.is = flow[f].is /\ w.kind = flow[f].kind
  <2>1. flow[f] \in SetupFlows /\ (flow[f].posted \/ flow[f].page = "told" => flow[f].is = "used")
    BY <1>1 DEF FlowsFit
  <2>2. CASE N!Expire(f)
    <3>1. PICK w : w = [flow[f] EXCEPT !.is = "gone"]
      OBVIOUS
    <3>2. flow' = [flow EXCEPT ![f] = w] /\ flow[f].is = "pending"
      BY <2>2, <3>1 DEF N!Expire
    <3>3. w \in SetupFlows
      BY <2>1, <3>1 DEF SetupFlows
    <3>4. w.posted = flow[f].posted /\ w.page = flow[f].page
      BY <2>1, <3>1 DEF SetupFlows
    <3> QED BY <2>1, <3>2, <3>3, <3>4
  <2>3. CASE N!PageTold(f)
    <3>1. PICK w : w = [flow[f] EXCEPT !.page = "told"]
      OBVIOUS
    <3>2. flow' = [flow EXCEPT ![f] = w] /\ flow[f].posted
      BY <2>3, <3>1 DEF N!PageTold
    <3>3. w \in SetupFlows
      BY <2>1, <3>1 DEF SetupFlows
    <3>4. w.posted = flow[f].posted /\ w.is = flow[f].is /\ w.kind = flow[f].kind
      BY <2>1, <3>1 DEF SetupFlows
    <3> QED BY <2>1, <3>2, <3>3, <3>4
  <2>4. CASE N!WindowClosed(f)
    <3>1. PICK w : w = [flow[f] EXCEPT !.page = "closed"]
      OBVIOUS
    <3>2. flow' = [flow EXCEPT ![f] = w] /\ flow[f].page = "waiting"
      BY <2>4, <3>1 DEF N!WindowClosed
    <3>3. w \in SetupFlows
      BY <2>1, <3>1 DEF SetupFlows
    <3>4. w.posted = flow[f].posted /\ w.page = "closed" /\ w.is = flow[f].is /\ w.kind = flow[f].kind
      BY <2>1, <3>1 DEF SetupFlows
    <3> QED BY <2>1, <3>2, <3>3, <3>4
  <2>5. ASSUME NEW k \in {"onedrive", "google"}, N!Issue(f, k)
        PROVE  \E w : /\ flow' = [flow EXCEPT ![f] = w] /\ w \in SetupFlows
                      /\ flow[f].is = "used" => w.is = "used" /\ w.kind = flow[f].kind
                      /\ w.posted \/ w.page = "told" => flow[f].posted \/ flow[f].page = "told"
                      /\ w.posted \/ w.page = "told" => w.is = flow[f].is /\ w.kind = flow[f].kind
    <3>1. PICK w : w = [is |-> "pending", kind |-> k, page |-> "waiting", posted |-> FALSE]
      OBVIOUS
    <3>2. flow' = [flow EXCEPT ![f] = w] /\ flow[f].is = "none"
      BY <2>5, <3>1 DEF N!Issue
    <3>3. w \in SetupFlows
      BY <3>1 DEF SetupFlows, N!Kinds
    <3>4. ~w.posted /\ w.page = "waiting"
      BY <3>1
    <3> QED BY <3>2, <3>3, <3>4
  <2> QED BY <2>2, <2>3, <2>4, <2>5
<1>4. flow'[f] = w /\ \A g \in N!Flows \ {f} : flow'[g] = flow[g]
  BY <1>1, <1>3
<1>5. flow' \in [N!Flows -> SetupFlows]
  BY <1>1, <1>3
<1>6. FlowsFit'
  <2> SUFFICES ASSUME NEW g \in N!Flows, flow'[g].posted \/ flow'[g].page = "told"
               PROVE  flow'[g].is = "used" /\ (N!OfKind(flow[g].kind) # {})'
    BY DEF FlowsFit
  <2>1. /\ flow'[g].is = flow[g].is /\ flow'[g].kind = flow[g].kind
        /\ flow[g].posted \/ flow[g].page = "told"
    BY <1>3, <1>4
  <2>2. flow[g].is = "used" /\ N!OfKind(flow[g].kind) # {}
    BY <1>1, <2>1 DEF FlowsFit
  <2> QED BY <1>2, <2>1, <2>2 DEF N!OfKind
<1>7. \A g \in N!Flows : flow[g].is = "used" => flow'[g].is = "used" /\ flow'[g].kind = flow[g].kind
  BY <1>3, <1>4
<1>8. v10' \in Nat /\ handler' \in [Reqs -> SetupAsks] /\ \A q \in Reqs : handler'[q] = handler[q]
  BY <1>1, <1>2 DEF SetupTyped
<1> QED BY <1>2, <1>5, <1>6, <1>7, <1>8, FlowGoes

LEMMA CallbackKeeps == ASSUME SetupInv, NEW r \in Admins, NEW f \in N!Flows, N!Callback(r, f) PROVE SetupInv'
<1>1. /\ SetupTyped /\ FlowsFit /\ flow \in [N!Flows -> SetupFlows] /\ handler \in [Reqs -> SetupAsks] /\ v10 \in Nat
      /\ r \in Reqs /\ r # N!Boot
  BY SetupShaped DEF SetupInv, SetupTyped, SetupFlows, Reqs, N!Boot
<1>2. /\ UNCHANGED <<account, setting, legacy, oldfiles, provider, up, refresh, history>> /\ v10' = v10 + 1
      /\ flow[f].is = "pending" /\ handler[r].at = "off" /\ up
  BY DEF N!Callback, N!Handle, N!At
<1>3. PICK w : w = [flow[f] EXCEPT !.is = "used"]
  OBVIOUS
<1>4. /\ flow' = [flow EXCEPT ![f] = w] /\ w.is = "used" /\ w.kind = flow[f].kind /\ ~w.posted /\ w.page # "told"
      /\ w \in SetupFlows
  <2>1. flow[f] \in SetupFlows /\ ~flow[f].posted /\ flow[f].page # "told"
    BY <1>1, <1>2 DEF FlowsFit
  <2>2. flow' = [flow EXCEPT ![f] = w]
    BY <1>3 DEF N!Callback
  <2> QED BY <1>3, <2>1, <2>2 DEF SetupFlows
<1>5. /\ flow'[f] = w /\ \A g \in N!Flows \ {f} : flow'[g] = flow[g]
  BY <1>1, <1>4
<1>6. flow' \in [N!Flows -> SetupFlows]
  BY <1>1, <1>4
<1>7. FlowsFit'
  <2> SUFFICES ASSUME NEW g \in N!Flows, flow'[g].posted \/ flow'[g].page = "told"
               PROVE  flow'[g].is = "used" /\ (N!OfKind(flow[g].kind) # {})'
    BY DEF FlowsFit
  <2>1. g # f /\ flow'[g] = flow[g]
    BY <1>4, <1>5
  <2>2. flow[g].is = "used" /\ N!OfKind(flow[g].kind) # {}
    BY <1>1, <2>1 DEF FlowsFit
  <2> QED BY <1>2, <2>1, <2>2 DEF N!OfKind
<1>8. \A g \in N!Flows : flow[g].is = "used" => flow'[g].is = "used" /\ flow'[g].kind = flow[g].kind
  BY <1>4, <1>5
<1>9. PICK x : /\ \E c \in Clients : x = [N!Rest EXCEPT !.at = "exchange", !.do = "callback", !.kind = flow[f].kind, !.flow = f,
                                                    !.grant = v10 + 1, !.client = IF flow[f].kind = "onedrive" THEN c ELSE 0]
              /\ handler' = [handler EXCEPT ![r] = x]
  BY DEF N!Callback, N!Handle
<1>10. /\ x \in SetupAsks /\ x.at = "exchange" /\ x.do = "callback" /\ x.kind = flow[f].kind /\ x.flow = f /\ x.acc = 0
       /\ x.kind = "onedrive" => x.client \in Clients
  <2>1. N!Rest \in SetupAsks /\ N!Rest.acc = 0
    BY RestFits DEF N!Rest
  <2>2. flow[f].kind \in N!Kinds \cup {""}
    <3>1. flow[f] \in SetupFlows
      BY <1>1
    <3> QED BY <3>1 DEF SetupFlows
  <2>3. PICK k, g, d : /\ k = flow[f].kind /\ g = v10 + 1 /\ d \in Owners /\ (k = "onedrive" => d \in Clients)
                       /\ x = [N!Rest EXCEPT !.at = "exchange", !.do = "callback", !.kind = k, !.flow = f,
                                              !.grant = g, !.client = d]
    BY <1>9 DEF Owners
  <2>4. g \in Nat
    BY <1>1, <2>3
  <2>5. x \in SetupAsks
    BY <2>1, <2>2, <2>3, <2>4, ZenonT(60) DEF SetupAsks
  <2>6. /\ x.at = "exchange" /\ x.do = "callback" /\ x.kind = k /\ x.flow = f /\ x.acc = N!Rest.acc
        /\ x.client = d
    <3>1. N!Rest \in SetupAsks
      BY <2>1
    <3>2. x = [N!Rest EXCEPT !.at = "exchange", !.do = "callback", !.kind = k, !.flow = f, !.grant = g, !.client = d]
      BY <2>3
    <3> QED BY <3>1, <3>2 DEF SetupAsks
  <2> QED BY <2>1, <2>3, <2>5, <2>6
<1>11. SetupFits(r, x)' /\ ~Pends(x)
  BY <1>1, <1>2, <1>4, <1>5, <1>10 DEF SetupFits, AskedFits, RowsFit, GivenFits, FlowFits, BootFits, Pends
<1>12. handler'[r] = x /\ \A q \in Reqs \ {r} : handler'[q] = handler[q]
  BY <1>1, <1>9
<1>13. handler' \in [Reqs -> SetupAsks]
  BY <1>1, <1>9, <1>10
<1>14. \A q \in Reqs : \/ handler'[q] = handler[q]
                       \/ q # N!Boot /\ handler[q].at = "off" /\ ~Pends(handler'[q]) /\ SetupFits(q, handler[q])'
  <2>1. SetupFits(r, handler[r])'
    BY <1>11, <1>12
  <2> QED BY <1>1, <1>2, <1>11, <1>12, <2>1
<1> QED BY <1>1, <1>2, <1>6, <1>7, <1>8, <1>13, <1>14, FlowGoes

LEMMA FlowsGrow == ASSUME SetupInv, Grows, UNCHANGED flow PROVE FlowsFit'
<1> SUFFICES ASSUME NEW f \in N!Flows, flow[f].posted \/ flow[f].page = "told"
             PROVE  flow[f].is = "used" /\ (N!OfKind(flow[f].kind) # {})'
  BY DEF FlowsFit
<1>1. flow[f].is = "used" /\ N!OfKind(flow[f].kind) # {}
  BY DEF SetupInv, FlowsFit
<1>2. PICK k : k = flow[f].kind
  OBVIOUS
<1>3. N!OfKind(k) # {} /\ N!OfKind(k) \subseteq N!OfKind(k)'
  BY <1>1, <1>2, KindsGrow
<1>4. flow'[f].kind = k
  BY <1>2
<1> QED BY <1>1, <1>3, <1>4

\* The tables change in a way that all who stay where they are can count with.
LEMMA TablesGo ==
  ASSUME SetupInv, SetupTyped', Grows, OneRow', DefaultsFit', OldFilesFit', GrantsFit', FlowsFit',
         \A q \in Reqs : \/ handler'[q] = handler[q] /\ Untouched(handler[q])
                         \/ ~Pends(handler'[q]) /\ SetupFits(q, handler[q])',
         \A c \in Clients : (\E q \in Reqs : handler'[q] = handler[q] /\ Pends(handler[q]) /\ handler[q].client = c) /\ Unclaimed(c)
                              => history'.overlap \/ Unclaimed(c)'
  PROVE  SetupInv'
<1>1. handler \in [Reqs -> SetupAsks] /\ OnePends /\ \A q \in Reqs : SetupFits(q, handler[q])
  BY DEF SetupInv, SetupTyped
<1>2. OnePends'
  <2> SUFFICES ASSUME NEW p \in Reqs, NEW q \in Reqs, p # q, Pends(handler'[p]), Pends(handler'[q]),
                      handler'[p].client = handler'[q].client
               PROVE  history'.overlap
    BY DEF OnePends, Pends
  <2>1. handler'[p] = handler[p] /\ handler'[q] = handler[q]
    OBVIOUS
  <2>2. history.overlap
    BY <1>1, <2>1 DEF OnePends
  <2> QED BY <2>2 DEF Grows
<1>3. ASSUME NEW q \in Reqs PROVE SetupFits(q, handler[q])'
  <2>1. CASE handler'[q] = handler[q] /\ Untouched(handler[q])
    <3>1. PICK y : y = handler[q]
      OBVIOUS
    <3>2. y \in SetupAsks /\ SetupFits(q, y) /\ Untouched(y)
      BY <1>1, <2>1, <3>1
    <3>3. Pends(y) /\ y.acc = 0 /\ Unclaimed(y.client) => history'.overlap \/ Unclaimed(y.client)'
      <4> SUFFICES ASSUME Pends(y), Unclaimed(y.client) PROVE history'.overlap \/ Unclaimed(y.client)'
        OBVIOUS
      <4>1. PICK c : c = y.client
        OBVIOUS
      <4>2. c \in Clients
        BY <3>2, <4>1 DEF SetupFits, AskedFits
      <4>3. history'.overlap \/ Unclaimed(c)'
        BY <2>1, <3>1, <4>1, <4>2
      <4> QED BY <4>1, <4>3
    <3>4. SetupFits(q, y)'
      BY <3>2, <3>3, FitsGrow
    <3>5. handler'[q] = y
      BY <2>1, <3>1
    <3> QED BY <3>4, <3>5
  <2>2. CASE SetupFits(q, handler[q])'
    BY <2>2
  <2> QED BY <2>1, <2>2
<1> QED BY <1>2, <1>3 DEF SetupInv

\* The rows keep all but their grants.
SameShape ==
  /\ DOMAIN account' = DOMAIN account
  /\ \A i \in DOMAIN account : /\ account'[i].kind = account[i].kind /\ account'[i].client = account[i].client
                               /\ account'[i].active = account[i].active

LEMMA Regranted ==
  ASSUME SetupTyped, NEW a \in DOMAIN account, NEW g \in Nat, account' = [account EXCEPT ![a].grant = g]
  PROVE  /\ account' \in Seq(SetupRows) /\ Len(account') <= MaxAccounts /\ SameShape
         /\ \A i \in DOMAIN account : account'[i].grant = IF i = a THEN g ELSE account[i].grant
<1>1. PICK w : w = [account[a] EXCEPT !.grant = g]
  OBVIOUS
<1>2. /\ account \in Seq(SetupRows) /\ Len(account) <= MaxAccounts /\ DOMAIN account = 1 .. Len(account)
      /\ account \in [1 .. Len(account) -> SetupRows]
  BY LenProperties DEF SetupTyped
<1>3. account[a] \in SetupRows
  BY <1>2
<1>4. /\ w \in SetupRows /\ w.kind = account[a].kind /\ w.client = account[a].client /\ w.active = account[a].active /\ w.grant = g
  BY <1>1, <1>3 DEF SetupRows
<1>5. account' = [account EXCEPT ![a] = w]
  BY <1>1
<1>6. /\ account' \in Seq(SetupRows) /\ Len(account') = Len(account)
      /\ \A j \in 1 .. Len(account) : account'[j] = IF j = a THEN w ELSE account[j]
  BY <1>2, <1>4, <1>5, ExceptSeq
<1>7. DOMAIN account' = DOMAIN account
  BY <1>5
<1> QED BY <1>2, <1>4, <1>6, <1>7 DEF SameShape

LEMMA Appended ==
  ASSUME SetupTyped, NEW w \in SetupRows, account' = Append(account, w), Len(account) + 1 <= MaxAccounts
  PROVE  /\ account' \in Seq(SetupRows) /\ Len(account') <= MaxAccounts
         /\ DOMAIN account' = DOMAIN account \cup {Len(account) + 1} /\ Len(account) + 1 \notin DOMAIN account
         /\ Len(account) + 1 \in Slots /\ account'[Len(account) + 1] = w
         /\ \A i \in DOMAIN account : account'[i] = account[i]
<1>1. account \in Seq(SetupRows) /\ Len(account) \in Nat /\ DOMAIN account = 1 .. Len(account)
  BY LenProperties DEF SetupTyped
<1>2. /\ account' \in Seq(SetupRows) /\ Len(account') = Len(account) + 1
      /\ \A i \in 1 .. Len(account) : account'[i] = account[i]
      /\ account'[Len(account) + 1] = w
  BY <1>1, AppendProperties
<1>3. DOMAIN account' = 1 .. Len(account) + 1
  BY <1>2, LenProperties
<1>4. 1 .. Len(account) + 1 = 1 .. Len(account) \cup {Len(account) + 1}
  BY <1>1
<1> QED BY <1>1, <1>2, <1>3, <1>4, SetupShaped DEF Slots

LEMMA ShapeCounts ==
  ASSUME SetupTyped, SameShape
  PROVE  /\ \A k : N!OfKind(k)' = N!OfKind(k)
         /\ \A c : Unclaimed(c)' <=> Unclaimed(c)
         /\ \A p : N!Consistent(p, account') <=> N!Consistent(p, account)
<1>1. \A k : N!OfKind(k)' = N!OfKind(k)
  BY DEF SameShape, N!OfKind
<1>2. \A c : N!OfClient(c)' = N!OfClient(c)
  BY DEF SameShape, N!OfKind, N!OfClient
<1>3. {i \in DOMAIN account' : account'[i].active} = {i \in DOMAIN account : account[i].active}
  BY DEF SameShape
<1>4. \A p : N!Consistent(p, account') <=> N!Consistent(p, account)
  <2>1. ASSUME NEW s PROVE N!Consistent(s, account') <=> N!Consistent(s, account)
    <3>1. \A i \in {j \in DOMAIN account : account[j].active} : account'[i].kind = account[i].kind
      BY DEF SameShape
    <3> QED BY <1>3, <3>1 DEF N!Consistent
  <2> QED BY <2>1
<1> QED BY <1>1, <1>2, <1>4 DEF Unclaimed

\* An account is given another grant, by the request that goes on as x or by a refresh.
LEMMA ShapeKeeps ==
  ASSUME SetupInv, SameShape, UNCHANGED <<setting, up>>, SetupTyped',
         history.overlap => history'.overlap, history.beside => history'.beside,
         up' \/ handler'[N!Boot] = handler[N!Boot]
  PROVE  OneRow' /\ DefaultsFit'
<1>1. SetupTyped /\ OneRow /\ DefaultsFit
  BY DEF SetupInv
<1>2. OneRow'
  BY <1>1 DEF OneRow, Alike, SameShape
<1>3. N!Consistent(setting, account') <=> N!Consistent(setting, account)
  BY <1>1, ShapeCounts
<1>4. Settled => Settled'
  <2>1. N!Consistent(setting, account)' <=> N!Consistent(setting, account')
    BY DEF N!Consistent
  <2> QED BY <1>3, <2>1 DEF Settled
<1>5. (\A i \in DOMAIN account : ~account[i].active) => (\A i \in DOMAIN account' : ~account'[i].active)
  BY DEF SameShape
<1>6. Settled' \/ (~up' /\ setting' = "onedrive" /\ \A i \in DOMAIN account' : ~account'[i].active)
  BY <1>1, <1>4, <1>5 DEF DefaultsFit
<1>7. ~up' /\ handler'[N!Boot].at = "accounts" => handler'[N!Boot].seen = setting'
  BY <1>1 DEF DefaultsFit
<1>8. ~up' /\ handler'[N!Boot].at = "build" => Settled'
  BY <1>1, <1>4 DEF DefaultsFit
<1> QED BY <1>2, <1>6, <1>7, <1>8 DEF DefaultsFit

\* What a write does to the past: what is under way for the account is crossed.
LEMMA GivenIs ==
  ASSUME SetupTyped, NEW a \in Slots, NEW g \in Nat, NEW b \in BOOLEAN,
         history' = [history EXCEPT !.crossed = @ \/ b, !.given[a] = g]
  PROVE  /\ history' \in SetupPast /\ history'.given[a] = g /\ \A i \in Slots \ {a} : history'.given[i] = history.given[i]
         /\ history.crossed \/ b => history'.crossed
         /\ history'.overlap = history.overlap /\ history'.beside = history.beside /\ history'.unlinked = history.unlinked
<1>1. history \in SetupPast /\ history.given \in [Slots -> Nat]
  BY DEF SetupTyped, SetupPast
<1>2. PICK h : h = [history.given EXCEPT ![a] = g]
  OBVIOUS
<1>3. h \in [Slots -> Nat] /\ h[a] = g /\ \A i \in Slots \ {a} : h[i] = history.given[i]
  BY <1>1, <1>2
<1>4. PICK c : c = (history.crossed \/ b)
  OBVIOUS
<1>5. c \in BOOLEAN
  BY <1>1, <1>4 DEF SetupPast
<1>6. history' = [history EXCEPT !.crossed = c, !.given = h]
  BY <1>1, <1>2, <1>4 DEF SetupPast
<1> QED BY <1>1, <1>3, <1>4, <1>5, <1>6 DEF SetupPast

\* The account that was found is given the new grant.
LEMMA RegrantKeeps ==
  ASSUME SetupInv, NEW r \in Reqs, N!Write(r), handler[r].acc # 0
  PROVE  SetupInv'
<1>1. handler[r] \in SetupAsks /\ SetupFits(r, handler[r]) /\ SetupTyped /\ handler \in [Reqs -> SetupAsks]
  BY AskIs DEF SetupInv, SetupTyped
<1>2. PICK a, g : a = handler[r].acc /\ g = handler[r].grant
  OBVIOUS
<1>3. /\ handler[r].at = "write" /\ UNCHANGED <<flow, setting, legacy, oldfiles, provider, up, refresh, v10>>
      /\ account' = [account EXCEPT ![a].grant = g]
      /\ handler' = [handler EXCEPT ![r].at = "install", ![r].acc = a]
      /\ history' = [history EXCEPT !.crossed = @ \/ N!Replacing(r, a), !.given[a] = g]
  BY <1>2 DEF N!Write, N!At
<1>4. a \in DOMAIN account /\ a \in N!OfKind(handler[r].kind) /\ a \in Slots /\ g \in Nat
  <2>1. a \in N!OfKind(handler[r].kind) /\ g \in Nat
    BY <1>1, <1>2, <1>3 DEF SetupFits, RowsFit, SetupAsks
  <2> QED BY <1>1, <2>1, AccountsAreSlots DEF N!OfKind
<1>5. r # N!Boot /\ up
  BY <1>3, AdminAt
<1>6. PICK b : b = N!Replacing(r, a)
  OBVIOUS
<1>7. b \in BOOLEAN
  BY <1>6 DEF N!Replacing
<1>8. /\ history' \in SetupPast /\ history'.given[a] = g /\ \A i \in Slots \ {a} : history'.given[i] = history.given[i]
      /\ history.crossed \/ N!Replacing(r, a) => history'.crossed
      /\ history'.overlap = history.overlap /\ history'.beside = history.beside /\ history'.unlinked = history.unlinked
  <2>1. history' = [history EXCEPT !.crossed = @ \/ b, !.given[a] = g]
    BY <1>3, <1>6
  <2> QED BY <1>1, <1>4, <1>6, <1>7, <2>1, GivenIs
<1>9. /\ account' \in Seq(SetupRows) /\ Len(account') <= MaxAccounts /\ SameShape
      /\ \A i \in DOMAIN account : account'[i].grant = IF i = a THEN g ELSE account[i].grant
  BY <1>1, <1>3, <1>4, Regranted
<1>10. PICK x : x = [handler[r] EXCEPT !.at = "install", !.acc = a]
  OBVIOUS
<1>11. /\ handler' = [handler EXCEPT ![r] = x] /\ x \in SetupAsks /\ x.at = "install" /\ x.acc = a /\ x.grant = g
       /\ x.kind = handler[r].kind /\ x.flow = handler[r].flow
  <2>1. handler' = [handler EXCEPT ![r] = x]
    BY <1>1, <1>3, <1>10
  <2>2. x \in SetupAsks /\ x.at = "install" /\ x.acc = a /\ x.kind = handler[r].kind /\ x.flow = handler[r].flow
    BY <1>1, <1>2, <1>10 DEF SetupAsks
  <2>3. x.grant = g
    BY <1>1, <1>2, <1>10 DEF SetupAsks
  <2> QED BY <2>1, <2>2, <2>3
<1>12. handler'[r] = x /\ (\A q \in Reqs \ {r} : handler'[q] = handler[q]) /\ handler' \in [Reqs -> SetupAsks]
  BY <1>1, <1>11
<1>13. SetupTyped'
  BY <1>1, <1>3, <1>8, <1>9, <1>12 DEF SetupTyped, SetupPast
<1>14. OneRow' /\ DefaultsFit'
  BY <1>3, <1>5, <1>8, <1>9, <1>13, ShapeKeeps
<1>15. Grows
  BY <1>3, <1>8, <1>9 DEF Grows, SameShape
<1>16. OldFilesFit'
  BY <1>3, <1>5, <1>8 DEF SetupInv, OldFilesFit
<1>17. GrantsFit'
  <2>1. ASSUME NEW i \in DOMAIN account PROVE Holds(i)'
    <3>1. CASE i = a
      <4>1. r \in Admins
        BY <1>5, SetupReqs
      <4>2. handler'[r].at = "install" /\ handler'[r].acc = i
        BY <1>11, <1>12, <3>1
      <4> QED BY <1>8, <1>9, <3>1, <4>1, <4>2 DEF Holds
    <3>2. CASE i # a
      <4>1. account'[i].grant = account[i].grant /\ history'.given[i] = history.given[i] /\ provider'[i] = provider[i]
        BY <1>1, <1>3, <1>8, <1>9, <3>2, AccountsAreSlots
      <4>2. ASSUME NEW q \in Admins, handler[q].at = "install", handler[q].acc = i
            PROVE  handler'[q].at = "install" /\ handler'[q].acc = i
        <5>1. handler'[q] = handler[q]
          BY <1>3, <1>12, <4>2 DEF Reqs
        <5> QED BY <4>2, <5>1
      <4>3. Holds(i)
        BY DEF SetupInv, GrantsFit
      <4> QED BY <1>8, <4>1, <4>2, <4>3 DEF Holds
    <3> QED BY <3>1, <3>2
  <2>2. ASSUME NEW t \in refresh PROVE t.acc \in DOMAIN account /\ (history'.crossed \/ t.grant = history'.given[t.acc])
    <3>1. t.acc \in DOMAIN account /\ t.acc \in Slots /\ (history.crossed \/ t.grant = history.given[t.acc])
      BY <1>1, AccountsAreSlots DEF SetupInv, GrantsFit
    <3>2. t.acc = a => history'.crossed
      BY <1>8 DEF N!Replacing
    <3> QED BY <1>8, <3>1, <3>2
  <2> QED BY <1>3, <1>9, <2>1, <2>2 DEF SetupInv, GrantsFit, SameShape
<1>18. FlowsFit'
  BY <1>3, <1>15, FlowsGrow
<1>19. SetupFits(r, x)'
  <2>1. x.acc \in N!OfKind(x.kind)' /\ x.acc \in DOMAIN account'
    BY <1>1, <1>4, <1>9, <1>11, ShapeCounts DEF SameShape
  <2>2. FlowFits(x)'
    <3> SUFFICES ASSUME x.flow \in N!Flows PROVE flow[x.flow].is = "used" /\ N!OfKind(flow[x.flow].kind)' # {}
      BY <1>3 DEF FlowFits
    <3>1. /\ flow[x.flow].is = "used"
          /\ \/ N!OfKind(flow[x.flow].kind) # {}
             \/ x.kind = flow[x.flow].kind
      BY <1>1, <1>11 DEF SetupFits, FlowFits
    <3>2. N!OfKind(flow[x.flow].kind) # {} => N!OfKind(flow[x.flow].kind)' # {}
      BY <1>1, <1>3, <1>9, ShapeCounts
    <3> QED BY <1>3, <2>1, <3>1, <3>2
  <2> QED BY <1>3, <1>5, <1>8, <1>11, <2>1, <2>2 DEF SetupFits, AskedFits, RowsFit, GivenFits, BootFits, Pends
<1>20. ASSUME NEW q \in Reqs \ {r} PROVE Untouched(handler[q])
  <2>1. DOMAIN handler = Reqs
    BY <1>1
  <2>2. handler[q].at = "build" => history'.crossed
    BY <1>8, <2>1 DEF N!Replacing, N!Others
  <2>3. handler[q].at = "install" /\ handler[q].acc = a => history'.crossed
    BY <1>8, <2>1 DEF N!Replacing, N!Others
  <2>4. handler[q].at = "install" => handler[q].acc \in Slots
    BY <1>1, AccountsAreSlots DEF SetupInv, SetupFits, RowsFit
  <2> QED BY <1>8, <2>2, <2>3, <2>4 DEF Untouched
<1>21. \A q \in Reqs : \/ handler'[q] = handler[q] /\ Untouched(handler[q])
                       \/ ~Pends(handler'[q]) /\ SetupFits(q, handler[q])'
  <2>1. ~Pends(handler'[r]) /\ SetupFits(r, handler[r])'
    BY <1>11, <1>12, <1>19 DEF Pends
  <2> QED BY <1>12, <1>20, <2>1
<1>22. \A c : Unclaimed(c) => Unclaimed(c)'
  BY <1>1, <1>9, ShapeCounts
<1> QED BY <1>13, <1>14, <1>15, <1>16, <1>17, <1>18, <1>21, <1>22, TablesGo

\* A request stores an account for which it found none.
LEMMA AppendKeeps ==
  ASSUME SetupInv, NEW r \in Reqs, NEW x \in SetupAsks, NEW w \in SetupRows,
         handler' = [handler EXCEPT ![r] = x], account' = Append(account, w), Len(account) + 1 <= MaxAccounts,
         handler[r].at \in {"write", "migrate"}, handler[r].acc = 0,
         w.kind = handler[r].kind, w.client = handler[r].client, w.grant = handler[r].grant,
         x.at \in {"install", "forget"}, x.acc = Len(account) + 1, x.grant = w.grant, x.flow = handler[r].flow,
         x.at = "install" => r # N!Boot,
         UNCHANGED <<flow, setting, legacy, oldfiles, provider, up, refresh, v10>>, history' \in SetupPast,
         history'.given[Len(account) + 1] = w.grant,
         \A i \in Slots \ {Len(account) + 1} : history'.given[i] = history.given[i],
         history'.overlap = history.overlap, history.crossed => history'.crossed, history.unlinked => history'.unlinked,
         DefaultsFit', r = N!Boot => OldFilesFit'
  PROVE  SetupInv'
<1>1. handler[r] \in SetupAsks /\ SetupFits(r, handler[r]) /\ SetupTyped /\ handler \in [Reqs -> SetupAsks]
  BY AskIs DEF SetupInv, SetupTyped
<1>2. PICK n : n = Len(account) + 1
  OBVIOUS
<1>3. /\ account' \in Seq(SetupRows) /\ Len(account') <= MaxAccounts
      /\ DOMAIN account' = DOMAIN account \cup {n} /\ n \notin DOMAIN account
      /\ n \in Slots /\ account'[n] = w
      /\ \A i \in DOMAIN account : account'[i] = account[i]
  BY <1>1, <1>2, Appended
<1>4. DOMAIN account \subseteq Slots
  BY <1>1, AccountsAreSlots
<1>5. handler'[r] = x /\ (\A q \in Reqs \ {r} : handler'[q] = handler[q]) /\ handler' \in [Reqs -> SetupAsks]
  BY <1>1
<1>6. SetupTyped'
  BY <1>1, <1>3, <1>5 DEF SetupTyped, SetupPast
<1>7. Grows
  BY <1>3 DEF Grows
\* It is the first account of its client, or two requests looked for it at once.
<1>8. ASSUME w.kind = "onedrive", NEW i \in DOMAIN account, account[i].kind = "onedrive", account[i].client = w.client
      PROVE  history.overlap
  <2>1. Pends(handler[r])
    BY <1>8 DEF Pends
  <2>2. i \in N!OfClient(handler[r].client)
    BY <1>8 DEF N!OfClient, N!OfKind
  <2> QED BY <1>1, <2>1, <2>2 DEF SetupFits, RowsFit, Unclaimed
<1>9. OneRow'
  <2> SUFFICES ASSUME ~history.overlap, NEW i \in DOMAIN account', NEW j \in DOMAIN account', Alike(i, j)' PROVE i = j
    BY DEF OneRow
  <2>1. CASE i \in DOMAIN account /\ j \in DOMAIN account
    BY <1>3, <2>1 DEF SetupInv, OneRow, Alike
  <2>2. CASE i = n /\ j \in DOMAIN account
    BY <1>3, <1>8, <2>2 DEF Alike
  <2>3. CASE j = n /\ i \in DOMAIN account
    BY <1>3, <1>8, <2>3 DEF Alike
  <2> QED BY <1>3, <2>1, <2>2, <2>3
<1>10. OldFilesFit'
  <2>1. r # N!Boot => up
    BY UpOrBoot
  <2> QED BY <2>1 DEF SetupInv, OldFilesFit
<1>11. GrantsFit'
  <2>1. ASSUME NEW i \in DOMAIN account PROVE Holds(i)'
    <3>1. account'[i].grant = account[i].grant /\ history'.given[i] = history.given[i] /\ provider'[i] = provider[i]
      BY <1>2, <1>3, <1>4
    <3>2. ASSUME NEW q \in Admins, handler[q].at = "install", handler[q].acc = i
          PROVE  handler'[q].at = "install" /\ handler'[q].acc = i
      <4>1. handler'[q] = handler[q]
        BY <1>5, <3>2 DEF Reqs
      <4> QED BY <3>2, <4>1
    <3>3. Holds(i)
      BY DEF SetupInv, GrantsFit
    <3> QED BY <3>1, <3>2, <3>3 DEF Holds
  <2>2. Holds(n)'
    <3>1. account'[n].grant = history'.given[n]
      BY <1>2, <1>3
    <3>2. provider'[n] = 0
      BY <1>3 DEF SetupInv, GrantsFit
    <3> QED BY <3>1, <3>2 DEF Holds
  <2>3. ASSUME NEW t \in refresh PROVE t.acc \in DOMAIN account /\ (history'.crossed \/ t.grant = history'.given[t.acc])
    <3>1. t.acc \in DOMAIN account /\ (history.crossed \/ t.grant = history.given[t.acc])
      BY DEF SetupInv, GrantsFit
    <3> QED BY <1>2, <1>3, <1>4, <3>1
  <2>4. \A i \in Slots \ DOMAIN account' : provider'[i] = 0
    BY <1>3 DEF SetupInv, GrantsFit
  <2> QED BY <1>3, <2>1, <2>2, <2>3, <2>4 DEF GrantsFit
<1>12. FlowsFit'
  BY <1>7, FlowsGrow
<1>13. SetupFits(r, x)'
  <2>1. x.acc \in DOMAIN account' /\ n \in N!OfKind(w.kind)'
    BY <1>2, <1>3 DEF N!OfKind
  <2>2. FlowFits(x)'
    <3> SUFFICES ASSUME x.flow \in N!Flows PROVE flow[x.flow].is = "used" /\ N!OfKind(flow[x.flow].kind)' # {}
      BY DEF FlowFits
    <3>1. PICK k : k = flow[x.flow].kind
      OBVIOUS
    <3>2. flow[x.flow].is = "used" /\ (N!OfKind(k) # {} \/ w.kind = k)
      BY <1>1, <3>1 DEF SetupFits, FlowFits
    <3>3. N!OfKind(k) \subseteq N!OfKind(k)'
      BY <1>7, KindsGrow
    <3>4. N!OfKind(k)' # {}
      BY <2>1, <3>2, <3>3
    <3>5. flow'[x.flow].kind = k
      BY <3>1
    <3> QED BY <3>2, <3>4, <3>5
  <2>3. GivenFits(x)'
    BY <1>2 DEF GivenFits
  <2>4. BootFits(r, x)'
    <3>1. r # N!Boot => up
      BY UpOrBoot
    <3> QED BY <3>1 DEF BootFits
  <2> QED BY <2>1, <2>2, <2>3, <2>4 DEF SetupFits, AskedFits, RowsFit, Pends
<1>14. ASSUME NEW q \in Reqs \ {r} PROVE Untouched(handler[q])
  <2>1. handler[q].at = "install" => handler[q].acc \in DOMAIN account
    BY DEF SetupInv, SetupFits, RowsFit
  <2>2. handler[q].at = "build" => DOMAIN handler[q].rows \subseteq DOMAIN account
    BY DEF SetupInv, SetupFits, RowsFit
  <2>3. \A i \in DOMAIN account : history'.given[i] = history.given[i]
    BY <1>2, <1>3, <1>4
  <2> QED BY <2>1, <2>2, <2>3 DEF Untouched
<1>15. \A q \in Reqs : \/ handler'[q] = handler[q] /\ Untouched(handler[q])
                       \/ ~Pends(handler'[q]) /\ SetupFits(q, handler[q])'
  <2>1. ~Pends(handler'[r]) /\ SetupFits(r, handler[r])'
    BY <1>5, <1>13 DEF Pends
  <2> QED BY <1>5, <1>14, <2>1
\* Another who did not find an account of this client looked at the same time.
<1>16. ASSUME NEW c \in Clients, NEW q \in Reqs, handler'[q] = handler[q], Pends(handler[q]), handler[q].client = c, Unclaimed(c)
       PROVE  history'.overlap \/ Unclaimed(c)'
  <2>1. CASE w.kind = "onedrive" /\ w.client = c
    <3>1. q # r
      BY <1>5, <1>16 DEF Pends
    <3>2. Pends(handler[r]) /\ handler[r].client = c
      BY <2>1 DEF Pends
    <3> QED BY <1>16, <3>1, <3>2 DEF SetupInv, OnePends
  <2>2. CASE ~(w.kind = "onedrive" /\ w.client = c)
    <3>1. N!OfClient(c)' \subseteq N!OfClient(c)
      BY <1>3, <2>2 DEF N!OfClient, N!OfKind
    <3> QED BY <1>16, <3>1 DEF Unclaimed
  <2> QED BY <2>1, <2>2
<1>17. \A c \in Clients : (\E q \in Reqs : handler'[q] = handler[q] /\ Pends(handler[q]) /\ handler[q].client = c) /\ Unclaimed(c)
                            => history'.overlap \/ Unclaimed(c)'
  BY <1>16
<1> QED BY <1>6, <1>7, <1>9, <1>10, <1>11, <1>12, <1>15, <1>17, TablesGo

\* One that is not active leaves the default as it was.
LEMMA InactiveAppended ==
  ASSUME SetupTyped, NEW w \in SetupRows, account' = Append(account, w), Len(account) + 1 <= MaxAccounts, ~w.active
  PROVE  N!Consistent(setting, account') <=> N!Consistent(setting, account)
<1>1. /\ DOMAIN account' = DOMAIN account \cup {Len(account) + 1} /\ account'[Len(account) + 1] = w
      /\ \A i \in DOMAIN account : account'[i] = account[i]
  BY Appended
<1>2. {i \in DOMAIN account' : account'[i].active} = {i \in DOMAIN account : account[i].active}
  BY <1>1
<1> QED BY <1>1, <1>2 DEF N!Consistent

LEMMA WriteKeeps == ASSUME SetupInv, NEW r \in Reqs, N!Write(r) PROVE SetupInv'
<1> SUFFICES ASSUME handler[r].acc = 0 PROVE SetupInv'
  BY RegrantKeeps
<1>1. handler[r] \in SetupAsks /\ SetupFits(r, handler[r]) /\ SetupTyped /\ handler \in [Reqs -> SetupAsks]
  BY AskIs DEF SetupInv, SetupTyped
<1>2. PICK a, g, w : a = Len(account) + 1 /\ g = handler[r].grant /\ w = N!Row(r, FALSE)
  OBVIOUS
<1>3. /\ handler[r].at = "write" /\ UNCHANGED <<flow, setting, legacy, oldfiles, provider, up, refresh, v10>>
      /\ a <= MaxAccounts /\ account' = Append(account, w)
      /\ handler' = [handler EXCEPT ![r].at = "install", ![r].acc = a]
      /\ history' = [history EXCEPT !.crossed = @ \/ N!Replacing(r, a), !.given[a] = g]
  BY <1>2 DEF N!Write, N!At
<1>4. r # N!Boot /\ up
  BY <1>3, AdminAt
<1>5. /\ w \in SetupRows /\ w.kind = handler[r].kind /\ w.client = handler[r].client /\ w.grant = g /\ ~w.active
      /\ g \in Nat
  <2>1. handler[r].kind \in N!Kinds /\ handler[r].client \in Owners /\ handler[r].grant \in Nat
    BY <1>1, <1>3 DEF SetupFits, AskedFits, SetupAsks
  <2>2. w = [kind |-> handler[r].kind, client |-> handler[r].client, grant |-> handler[r].grant, active |-> FALSE]
    BY <1>2 DEF N!Row
  <2>3. w \in SetupRows
    BY <2>1, <2>2 DEF SetupRows
  <2>4. w.kind = handler[r].kind /\ w.client = handler[r].client /\ w.grant = handler[r].grant
    BY <2>2
  <2>5. ~w.active
    BY <2>2
  <2> QED BY <1>2, <2>1, <2>3, <2>4, <2>5
<1>6. a \in Slots
  BY <1>1, <1>2, <1>3, <1>5, Appended
<1>7. PICK b : b = N!Replacing(r, a)
  OBVIOUS
<1>8. b \in BOOLEAN
  BY <1>7 DEF N!Replacing
<1>9. /\ history' \in SetupPast /\ history'.given[a] = g /\ \A i \in Slots \ {a} : history'.given[i] = history.given[i]
      /\ history.crossed => history'.crossed
      /\ history'.overlap = history.overlap /\ history'.beside = history.beside /\ history'.unlinked = history.unlinked
  <2>1. history' = [history EXCEPT !.crossed = @ \/ b, !.given[a] = g]
    BY <1>3, <1>7
  <2> QED BY <1>1, <1>5, <1>6, <1>8, <2>1, GivenIs
<1>10. PICK x : x = [handler[r] EXCEPT !.at = "install", !.acc = a]
  OBVIOUS
<1>11. handler' = [handler EXCEPT ![r] = x]
  BY <1>1, <1>3, <1>10
<1>12. a \in 0 .. MaxAccounts
  BY <1>6 DEF Slots
<1>13. x \in SetupAsks /\ x.at = "install" /\ x.acc = a /\ x.flow = handler[r].flow /\ x.grant = handler[r].grant
  BY <1>1, <1>10, <1>12 DEF SetupAsks
<1>14. DefaultsFit'
  <2>1. N!Consistent(setting, account') <=> N!Consistent(setting, account)
    BY <1>1, <1>2, <1>3, <1>5, InactiveAppended
  <2>2. N!Consistent(setting, account)' <=> N!Consistent(setting, account')
    BY <1>3 DEF N!Consistent
  <2> QED BY <1>3, <1>4, <1>9, <2>1, <2>2 DEF SetupInv, DefaultsFit, Settled
<1> QED
  <2>1. /\ account' = Append(account, w) /\ Len(account) + 1 <= MaxAccounts
        /\ handler[r].at \in {"write", "migrate"} /\ w.grant = handler[r].grant /\ x.at \in {"install", "forget"}
        /\ x.acc = Len(account) + 1 /\ x.grant = w.grant
        /\ history'.given[Len(account) + 1] = w.grant
        /\ \A i \in Slots \ {Len(account) + 1} : history'.given[i] = history.given[i]
    BY <1>2, <1>3, <1>5, <1>9, <1>13
  <2> QED BY <1>3, <1>4, <1>5, <1>9, <1>11, <1>13, <1>14, <2>1, AppendKeeps, ZenonT(60)

\* What is migrated is a default, unless there is another one already.
LEMMA MigrateKeeps == ASSUME SetupInv, NEW r \in Reqs, N!Migrate(r) PROVE SetupInv'
<1> SUFFICES ASSUME handler[r].acc = 0 PROVE SetupInv'
  BY MigratedKeeps
<1>1. handler[r] \in SetupAsks /\ SetupFits(r, handler[r]) /\ SetupTyped /\ handler \in [Reqs -> SetupAsks]
  BY AskIs DEF SetupInv, SetupTyped
<1>2. PICK a, g, w, b : /\ a = Len(account) + 1 /\ g = handler[r].grant /\ w = N!Row(r, TRUE)
                        /\ b = (setting # "onedrive" \/ \E i \in DOMAIN account : account[i].active)
  OBVIOUS
<1>3. /\ handler[r].at = "migrate" /\ UNCHANGED <<flow, setting, legacy, oldfiles, provider, up, refresh, v10>>
      /\ a <= MaxAccounts /\ account' = Append(account, w)
      /\ handler' = [handler EXCEPT ![r].at = "forget", ![r].acc = a]
      /\ history' = [history EXCEPT !.given[a] = g, !.beside = @ \/ b]
  BY <1>2 DEF N!Migrate, N!At
<1>4. r # N!Boot => up
  BY <1>3, UpOrBoot
<1>5. /\ w \in SetupRows /\ w.kind = "onedrive" /\ handler[r].kind = "onedrive" /\ w.client = handler[r].client
      /\ w.grant = g /\ w.active /\ g \in Nat
  <2>1. handler[r].kind = "onedrive" /\ handler[r].client \in Owners /\ handler[r].grant \in Nat
    BY <1>1, <1>3 DEF SetupFits, AskedFits, SetupAsks
  <2>2. w = [kind |-> handler[r].kind, client |-> handler[r].client, grant |-> handler[r].grant, active |-> TRUE]
    BY <1>2 DEF N!Row
  <2>3. w \in SetupRows
    BY <2>1, <2>2 DEF SetupRows, N!Kinds
  <2>4. w.kind = handler[r].kind /\ w.client = handler[r].client /\ w.grant = handler[r].grant
    BY <2>2
  <2>5. w.active
    BY <2>2
  <2> QED BY <1>2, <2>1, <2>3, <2>4, <2>5
<1>6. /\ a \in Slots /\ DOMAIN account' = DOMAIN account \cup {a} /\ account'[a] = w /\ a \notin DOMAIN account
      /\ \A i \in DOMAIN account : account'[i] = account[i]
  BY <1>1, <1>2, <1>3, <1>5, Appended
<1>7. /\ history' \in SetupPast /\ history'.given[a] = g /\ \A i \in Slots \ {a} : history'.given[i] = history.given[i]
      /\ history'.crossed = history.crossed /\ history'.overlap = history.overlap /\ history'.unlinked = history.unlinked
      /\ history.beside \/ b => history'.beside
  <2>1. history \in SetupPast /\ history.given \in [Slots -> Nat]
    BY <1>1 DEF SetupTyped, SetupPast
  <2>2. PICK h : h = [history.given EXCEPT ![a] = g]
    OBVIOUS
  <2>3. h \in [Slots -> Nat] /\ h[a] = g /\ \A i \in Slots \ {a} : h[i] = history.given[i]
    BY <1>5, <1>6, <2>1, <2>2
  <2>4. PICK c : c = (history.beside \/ b)
    OBVIOUS
  <2>5. c \in BOOLEAN
    BY <2>4
  <2>6. history' = [history EXCEPT !.given = h, !.beside = c]
    BY <1>3, <2>1, <2>2, <2>4 DEF SetupPast
  <2> QED BY <2>1, <2>3, <2>4, <2>5, <2>6 DEF SetupPast
<1>8. PICK x : x = [handler[r] EXCEPT !.at = "forget", !.acc = a]
  OBVIOUS
<1>9. handler' = [handler EXCEPT ![r] = x]
  BY <1>1, <1>3, <1>8
<1>10. a \in 0 .. MaxAccounts
  BY <1>6 DEF Slots
<1>11. x \in SetupAsks /\ x.at = "forget" /\ x.acc = a /\ x.flow = handler[r].flow /\ x.grant = handler[r].grant
  BY <1>1, <1>8, <1>10 DEF SetupAsks
<1>12. Settled'
  <2> SUFFICES ASSUME ~history'.beside PROVE N!Consistent(setting, account)'
    BY DEF Settled
  <2>1. setting' = "onedrive" /\ \A i \in DOMAIN account : ~account[i].active
    BY <1>2, <1>3, <1>7
  <2>2. {i \in DOMAIN account' : account'[i].active} = {a}
    BY <1>5, <1>6, <2>1
  <2>3. \E i \in {j \in DOMAIN account' : account'[j].active} :
          {j \in DOMAIN account' : account'[j].active} = {i} /\ account'[i].kind = setting'
    BY <1>5, <1>6, <2>1, <2>2
  <2> QED BY <2>1, <2>3 DEF N!Consistent
<1>13. DefaultsFit'
  <2>1. r # N!Boot => handler'[N!Boot] = handler[N!Boot]
    BY <1>1, <1>9, SetupReqs
  <2>2. r = N!Boot => handler'[N!Boot].at = "forget"
    BY <1>1, <1>9, <1>11
  <2> QED BY <1>3, <1>12, <2>1, <2>2 DEF SetupInv, DefaultsFit
<1>14. r = N!Boot => OldFilesFit'
  <2> SUFFICES ASSUME r = N!Boot PROVE OldFilesFit'
    OBVIOUS
  <2>1. handler'[N!Boot].at = "forget"
    BY <1>1, <1>9, <1>11
  <2> QED BY <1>3, <1>7, <2>1 DEF SetupInv, OldFilesFit
<1> QED
  <2>1. /\ account' = Append(account, w) /\ Len(account) + 1 <= MaxAccounts
        /\ handler[r].at \in {"write", "migrate"} /\ w.grant = handler[r].grant /\ w.kind = handler[r].kind
        /\ x.at \in {"install", "forget"} /\ x.at # "install"
        /\ x.acc = Len(account) + 1 /\ x.grant = w.grant
        /\ history'.given[Len(account) + 1] = w.grant
        /\ \A i \in Slots \ {Len(account) + 1} : history'.given[i] = history.given[i]
    BY <1>2, <1>3, <1>5, <1>7, <1>11
  <2>2. /\ UNCHANGED <<flow, setting, legacy, oldfiles, provider, up, refresh, v10>>
        /\ w.client = handler[r].client /\ x.flow = handler[r].flow
        /\ history' \in SetupPast /\ history'.overlap = history.overlap
        /\ (history.crossed => history'.crossed) /\ (history.unlinked => history'.unlinked)
    BY <1>3, <1>5, <1>7, <1>11
  <2>3. x \in SetupAsks /\ w \in SetupRows /\ handler' = [handler EXCEPT ![r] = x]
    BY <1>5, <1>9, <1>11
  <2> QED BY <1>13, <1>14, <2>1, <2>2, <2>3, AppendKeeps

\* Nothing of the tables changes but what clients hold.
LEMMA StandingCounts ==
  ASSUME SetupInv, UNCHANGED <<flow, account>>, up => up', history.overlap => history'.overlap, history.crossed => history'.crossed
  PROVE  Grows /\ OneRow' /\ FlowsFit' /\ \A c : Unclaimed(c) => Unclaimed(c)'
<1>1. Grows
  BY DEF Grows
<1>2. OneRow'
  BY DEF SetupInv, OneRow, Alike
<1>3. \A c : Unclaimed(c) => Unclaimed(c)'
  BY DEF Unclaimed, N!OfClient, N!OfKind
<1> QED BY <1>1, <1>2, <1>3, FlowsGrow

\* The client in memory is replaced by one with the grant that was given.
LEMMA InstallKeeps == ASSUME SetupInv, NEW r \in Reqs, N!Install(r) PROVE SetupInv'
<1>1. handler[r] \in SetupAsks /\ SetupFits(r, handler[r]) /\ SetupTyped /\ handler \in [Reqs -> SetupAsks]
  BY AskIs DEF SetupInv, SetupTyped
<1>2. PICK a, g : a = handler[r].acc /\ g = handler[r].grant
  OBVIOUS
<1>3. /\ handler[r].at = "install" /\ UNCHANGED <<flow, account, setting, legacy, oldfiles, up, refresh, v10, history>>
      /\ provider' = [provider EXCEPT ![a] = g]
  BY <1>2 DEF N!Install, N!At, N!tables
<1>4. r # N!Boot /\ up
  BY <1>3, AdminAt
<1>5. /\ a \in DOMAIN account /\ a \in Slots /\ g \in Nat /\ (history.crossed \/ g = history.given[a])
  <2>1. a \in DOMAIN account /\ g \in Nat /\ (history.crossed \/ g = history.given[a])
    BY <1>1, <1>2, <1>3 DEF SetupFits, RowsFit, GivenFits, SetupAsks
  <2> QED BY <1>1, <2>1, AccountsAreSlots
<1>6. provider' \in [Slots -> Nat] /\ provider'[a] = g /\ \A i \in Slots \ {a} : provider'[i] = provider[i]
  BY <1>1, <1>3, <1>5 DEF SetupTyped
<1>7. PICK x \in SetupAsks : /\ handler' = [handler EXCEPT ![r] = x] /\ ~Pends(x) /\ SetupFits(r, x)
  <2>1. CASE N!Goto(r, "clear") \/ N!Goto(r, "probe")
    <3>1. PICK s \in {"clear", "probe"} : N!Goto(r, s)
      BY <2>1
    <3>2. PICK x : x = [handler[r] EXCEPT !.at = s]
      OBVIOUS
    <3>3. handler' = [handler EXCEPT ![r] = x]
      BY <3>1, <3>2 DEF N!Goto
    <3>4. x \in SetupAsks /\ x.at \in {"clear", "probe"} /\ x.acc = a /\ x.flow = handler[r].flow
      BY <1>1, <1>2, <3>2 DEF SetupAsks
    <3>5. SetupFits(r, x) /\ ~Pends(x)
      BY <1>1, <1>3, <1>4, <1>5, <3>4 DEF SetupFits, AskedFits, RowsFit, GivenFits, FlowFits, BootFits, Pends
    <3> QED BY <3>3, <3>4, <3>5
  <2>2. CASE handler' = [handler EXCEPT ![r] = N!Rest]
    BY <2>2, RestFits
  <2> QED BY <2>1, <2>2 DEF N!Install, N!Goto
<1>8. handler'[r] = x /\ (\A q \in Reqs \ {r} : handler'[q] = handler[q]) /\ handler' \in [Reqs -> SetupAsks]
  BY <1>1, <1>7
<1>9. SetupTyped'
  BY <1>1, <1>3, <1>6, <1>8 DEF SetupTyped
<1>10. Grows /\ OneRow' /\ FlowsFit' /\ \A c : Unclaimed(c) => Unclaimed(c)'
  BY <1>3, StandingCounts
<1>11. DefaultsFit' /\ OldFilesFit'
  BY <1>3, <1>4 DEF SetupInv, DefaultsFit, OldFilesFit, Settled, N!Consistent
<1>12. GrantsFit'
  <2>1. ASSUME NEW i \in DOMAIN account PROVE Holds(i)'
    <3>1. Holds(i) /\ i \in Slots
      BY <1>1, AccountsAreSlots DEF SetupInv, GrantsFit
    <3>2. CASE i = a
      BY <1>3, <1>5, <1>6, <3>1, <3>2 DEF Holds
    <3>3. CASE i # a
      <4>1. ASSUME NEW q \in Admins, handler[q].at = "install", handler[q].acc = i
            PROVE  handler'[q].at = "install" /\ handler'[q].acc = i
        <5>1. handler'[q] = handler[q]
          BY <1>2, <1>8, <3>3, <4>1 DEF Reqs
        <5> QED BY <4>1, <5>1
      <4>2. provider'[i] = provider[i]
        BY <1>6, <3>1, <3>3
      <4> QED BY <1>3, <3>1, <4>1, <4>2 DEF Holds
    <3> QED BY <3>2, <3>3
  <2>2. \A i \in Slots \ DOMAIN account' : provider'[i] = 0
    BY <1>3, <1>5, <1>6 DEF SetupInv, GrantsFit
  <2> QED BY <1>3, <2>1, <2>2 DEF SetupInv, GrantsFit
<1>13. SetupFits(r, x)'
  BY <1>3, <1>7 DEF SetupFits, AskedFits, RowsFit, GivenFits, FlowFits, BootFits, Pends, Unclaimed, N!OfKind, N!OfClient
<1>14. \A q \in Reqs : \/ handler'[q] = handler[q] /\ Untouched(handler[q])
                       \/ ~Pends(handler'[q]) /\ SetupFits(q, handler[q])'
  <2>1. ~Pends(handler'[r]) /\ SetupFits(r, handler[r])'
    BY <1>7, <1>8, <1>13
  <2> QED BY <1>3, <1>8, <2>1 DEF Untouched
<1> QED BY <1>9, <1>10, <1>11, <1>12, <1>14, TablesGo

LEMMA BeginRefreshKeeps == ASSUME SetupInv, NEW a \in Slots, N!BeginRefresh(a) PROVE SetupInv'
<1>1. SetupTyped /\ GrantsFit
  BY DEF SetupInv
<1>2. PICK b : b = \E r \in Admins : handler[r].at = "install" /\ handler[r].acc = a
  OBVIOUS
<1>3. /\ UNCHANGED <<flow, account, setting, legacy, oldfiles, provider, up, handler, v10>>
      /\ refresh' = {[acc |-> a, grant |-> provider[a]]} /\ provider[a] # 0 /\ a \in DOMAIN account
      /\ history' = [history EXCEPT !.crossed = @ \/ b]
  BY <1>2 DEF N!BeginRefresh, N!At, N!tables, N!OfKind
<1>4. /\ history' \in SetupPast /\ Marks /\ (b => history'.crossed)
  <2>1. history \in SetupPast /\ b \in BOOLEAN
    BY <1>1, <1>2 DEF SetupTyped, SetupPast
  <2> QED BY <1>3, <2>1 DEF SetupPast, Marks
<1>5. refresh' \in SUBSET [acc : Slots, grant : Nat]
  <2>1. PICK g : g = provider[a]
    OBVIOUS
  <2>2. g \in Nat
    BY <1>1, <2>1 DEF SetupTyped
  <2>3. refresh' = {[acc |-> a, grant |-> g]}
    BY <1>3, <2>1
  <2> QED BY <2>2, <2>3
<1>6. SetupTyped'
  BY <1>1, <1>3, <1>4, <1>5 DEF SetupTyped, SetupPast
<1>7. Grows /\ OneRow' /\ FlowsFit' /\ \A c : Unclaimed(c) => Unclaimed(c)'
  BY <1>3, <1>4, StandingCounts DEF Marks
<1>8. DefaultsFit' /\ OldFilesFit'
  BY <1>3, <1>4 DEF SetupInv, DefaultsFit, OldFilesFit, Settled, N!Consistent, Marks
<1>9. GrantsFit'
  <2>1. \A i \in DOMAIN account : Holds(i)'
    BY <1>1, <1>3, <1>4 DEF GrantsFit, Holds, Marks
  <2>2. history'.crossed \/ provider[a] = history'.given[a]
    BY <1>1, <1>2, <1>3, <1>4 DEF GrantsFit, Holds, Marks
  <2>3. \A t \in refresh' : t.acc = a /\ t.grant = provider[a]
    BY <1>3
  <2> QED BY <1>1, <1>3, <2>1, <2>2, <2>3 DEF GrantsFit
<1>10. \A q \in Reqs : handler'[q] = handler[q] /\ Untouched(handler[q])
  BY <1>3, <1>4 DEF Untouched, Marks
<1> QED BY <1>6, <1>7, <1>8, <1>9, <1>10, TablesGo

\* The token that comes is that of the grant the refresh began with.
LEMMA EndRefreshKeeps == ASSUME SetupInv, NEW t \in refresh, N!EndRefresh(t) PROVE SetupInv'
<1>1. /\ SetupTyped /\ GrantsFit /\ t.acc \in DOMAIN account /\ t.grant \in Nat
      /\ history.crossed \/ t.grant = history.given[t.acc]
  BY DEF SetupInv, SetupTyped, GrantsFit
<1>2. /\ UNCHANGED <<flow, setting, legacy, oldfiles, provider, up, handler, v10, history>>
      /\ refresh' = refresh \ {t}
      /\ account' = account \/ account' = [account EXCEPT ![t.acc].grant = t.grant]
  BY DEF N!EndRefresh
<1>3. PICK a, g : a = t.acc /\ g = t.grant
  OBVIOUS
<1>4. /\ account' \in Seq(SetupRows) /\ Len(account') <= MaxAccounts /\ SameShape
      /\ \A i \in DOMAIN account : account'[i].grant = account[i].grant \/ (i = a /\ account'[i].grant = g)
  <2>1. CASE account' = account
    BY <1>1, <2>1 DEF SetupTyped, SameShape
  <2>2. CASE account' = [account EXCEPT ![t.acc].grant = t.grant]
    <3>1. account' = [account EXCEPT ![a].grant = g] /\ a \in DOMAIN account /\ g \in Nat
      BY <1>1, <1>3, <2>2
    <3>2. /\ account' \in Seq(SetupRows) /\ Len(account') <= MaxAccounts /\ SameShape
          /\ \A i \in DOMAIN account : account'[i].grant = IF i = a THEN g ELSE account[i].grant
      BY <1>1, <3>1, Regranted
    <3> QED BY <3>2
  <2> QED BY <1>2, <2>1, <2>2
<1>5. SetupTyped'
  BY <1>1, <1>2, <1>4 DEF SetupTyped
<1>6. OneRow' /\ DefaultsFit'
  BY <1>2, <1>4, <1>5, ShapeKeeps
<1>7. Grows
  BY <1>2, <1>4 DEF Grows, SameShape
<1>8. OldFilesFit'
  BY <1>2 DEF SetupInv, OldFilesFit
<1>9. FlowsFit'
  BY <1>2, <1>7, FlowsGrow
<1>10. GrantsFit'
  <2>1. ASSUME NEW i \in DOMAIN account PROVE Holds(i)'
    <3>1. Holds(i)
      BY <1>1 DEF GrantsFit
    <3>2. history.crossed \/ account'[i].grant = account[i].grant
      BY <1>1, <1>3, <1>4, <3>1 DEF Holds
    <3> QED BY <1>2, <3>1, <3>2 DEF Holds
  <2> QED BY <1>1, <1>2, <1>4, <2>1 DEF GrantsFit, SameShape
<1>11. \A c : Unclaimed(c) => Unclaimed(c)'
  BY <1>1, <1>4, ShapeCounts
<1>12. \A q \in Reqs : handler'[q] = handler[q] /\ Untouched(handler[q])
  BY <1>2 DEF Untouched
<1> QED BY <1>5, <1>6, <1>7, <1>8, <1>9, <1>10, <1>11, <1>12, TablesGo

\* The default is one account, or none.
LEMMA CommitKeeps == ASSUME SetupInv, NEW r \in Reqs, N!Commit(r) PROVE SetupInv'
<1>1. handler[r] \in SetupAsks /\ SetupFits(r, handler[r]) /\ SetupTyped /\ handler \in [Reqs -> SetupAsks]
  BY AskIs DEF SetupInv, SetupTyped
<1>2. PICK a : a = handler[r].acc
  OBVIOUS
<1>3. /\ handler[r].at = "commit" /\ UNCHANGED <<flow, legacy, oldfiles, provider, up, refresh, v10, history>>
      /\ account' = [i \in DOMAIN account |-> [account[i] EXCEPT !.active = i = a]]
      /\ setting' = IF a = 0 THEN "local" ELSE account[a].kind
      /\ N!Goto(r, "init")
  BY <1>2 DEF N!Commit, N!At
<1>4. r # N!Boot /\ up
  BY <1>3, AdminAt
<1>5. /\ account \in Seq(SetupRows) /\ Len(account) \in Nat /\ Len(account) <= MaxAccounts
      /\ DOMAIN account = 1 .. Len(account) /\ account \in [1 .. Len(account) -> SetupRows]
  BY <1>1, LenProperties DEF SetupTyped
<1>6. a = 0 \/ a \in DOMAIN account
  BY <1>1, <1>2, <1>3 DEF SetupFits, RowsFit
<1>7. /\ DOMAIN account' = DOMAIN account
      /\ \A i \in DOMAIN account : /\ account'[i] \in SetupRows
                                   /\ account'[i].kind = account[i].kind /\ account'[i].client = account[i].client
                                   /\ account'[i].grant = account[i].grant /\ (account'[i].active <=> i = a)
  <2>1. ASSUME NEW i \in DOMAIN account
        PROVE  /\ account'[i] \in SetupRows
               /\ account'[i].kind = account[i].kind /\ account'[i].client = account[i].client
               /\ account'[i].grant = account[i].grant /\ (account'[i].active <=> i = a)
    <3>1. PICK b : b = (i = a)
      OBVIOUS
    <3>2. b \in BOOLEAN
      BY <3>1
    <3>3. account'[i] = [account[i] EXCEPT !.active = b] /\ account[i] \in SetupRows
      BY <1>3, <1>5, <2>1, <3>1
    <3>4. /\ account'[i] \in SetupRows
          /\ account'[i].kind = account[i].kind /\ account'[i].client = account[i].client
          /\ account'[i].grant = account[i].grant /\ account'[i].active = b
      BY <3>2, <3>3 DEF SetupRows
    <3> QED BY <3>1, <3>4
  <2> QED BY <1>3, <2>1
<1>8. account' \in Seq(SetupRows) /\ Len(account') = Len(account)
  <2>1. account' \in [1 .. Len(account) -> SetupRows]
    BY <1>3, <1>5, <1>7
  <2>2. account' \in Seq(SetupRows)
    BY <1>5, <2>1, SeqDef
  <2>3. Len(account') \in Nat /\ DOMAIN account' = 1 .. Len(account')
    BY <2>2, LenProperties
  <2> QED BY <1>5, <1>7, <2>2, <2>3
<1>9. PICK x : x = [handler[r] EXCEPT !.at = "init"]
  OBVIOUS
<1>10. handler' = [handler EXCEPT ![r] = x]
  BY <1>3, <1>9 DEF N!Goto
<1>11. x \in SetupAsks /\ x.at = "init" /\ x.flow = handler[r].flow
  BY <1>1, <1>9 DEF SetupAsks
<1>12. handler'[r] = x /\ (\A q \in Reqs \ {r} : handler'[q] = handler[q]) /\ handler' \in [Reqs -> SetupAsks]
  BY <1>1, <1>10, <1>11
<1>13. setting' \in N!Kinds \cup {"local"} /\ (a # 0 => setting' \in N!Kinds /\ setting' # "local")
  <2>1. a # 0 => account[a].kind \in N!Kinds /\ account[a].kind # "local"
    BY <1>5, <1>6 DEF SetupRows, N!Kinds
  <2> QED BY <1>3, <2>1
<1>14. SetupTyped'
  BY <1>1, <1>3, <1>5, <1>8, <1>12, <1>13 DEF SetupTyped
<1>15. Grows
  BY <1>3, <1>7 DEF Grows
<1>16. OneRow'
  BY <1>3, <1>7 DEF SetupInv, OneRow, Alike
<1>17. N!Consistent(setting, account)'
  <2>1. CASE a = 0
    <3>1. {i \in DOMAIN account' : account'[i].active} = {}
      BY <1>5, <1>7, <2>1
    <3> QED BY <1>3, <2>1, <3>1 DEF N!Consistent
  <2>2. CASE a # 0
    <3>1. {i \in DOMAIN account' : account'[i].active} = {a}
      BY <1>6, <1>7, <2>2
    <3>2. account'[a].kind = setting'
      BY <1>3, <1>6, <1>7, <2>2
    <3>3. \E i \in {j \in DOMAIN account' : account'[j].active} :
            {j \in DOMAIN account' : account'[j].active} = {i} /\ account'[i].kind = setting'
      BY <3>1, <3>2
    <3> QED BY <1>13, <2>2, <3>3 DEF N!Consistent
  <2> QED BY <2>1, <2>2
<1>18. DefaultsFit' /\ OldFilesFit'
  BY <1>3, <1>4, <1>17 DEF SetupInv, DefaultsFit, OldFilesFit, Settled
<1>19. GrantsFit'
  <2>1. ASSUME NEW i \in DOMAIN account PROVE Holds(i)'
    <3>1. Holds(i)
      BY DEF SetupInv, GrantsFit
    <3>2. ASSUME NEW q \in Admins, handler[q].at = "install", handler[q].acc = i
          PROVE  handler'[q].at = "install" /\ handler'[q].acc = i
      <4>1. handler'[q] = handler[q]
        BY <1>3, <1>12, <3>2 DEF Reqs
      <4> QED BY <3>2, <4>1
    <3> QED BY <1>3, <1>7, <3>1, <3>2 DEF Holds
  <2> QED BY <1>3, <1>7, <2>1 DEF SetupInv, GrantsFit
<1>20. FlowsFit'
  BY <1>3, <1>15, FlowsGrow
<1>21. \A k : N!OfKind(k)' = N!OfKind(k)
  BY <1>7 DEF N!OfKind
<1>22. \A c : Unclaimed(c) => Unclaimed(c)'
  BY <1>7 DEF Unclaimed, N!OfClient, N!OfKind
<1>23. SetupFits(r, x)' /\ ~Pends(x)
  <2>1. FlowFits(x)'
    <3> SUFFICES ASSUME x.flow \in N!Flows PROVE flow[x.flow].is = "used" /\ N!OfKind(flow[x.flow].kind)' # {}
      BY <1>3 DEF FlowFits
    <3>1. flow[x.flow].is = "used" /\ N!OfKind(flow[x.flow].kind) # {}
      BY <1>1, <1>3, <1>11 DEF SetupFits, FlowFits
    <3> QED BY <1>3, <1>21, <3>1
  <2> QED BY <1>3, <1>4, <1>11, <2>1 DEF SetupFits, AskedFits, RowsFit, GivenFits, BootFits, Pends
<1>24. \A q \in Reqs : \/ handler'[q] = handler[q] /\ Untouched(handler[q])
                       \/ ~Pends(handler'[q]) /\ SetupFits(q, handler[q])'
  <2>1. ~Pends(handler'[r]) /\ SetupFits(r, handler[r])'
    BY <1>12, <1>23
  <2> QED BY <1>3, <1>12, <2>1 DEF Untouched
<1> QED BY <1>14, <1>15, <1>16, <1>18, <1>19, <1>20, <1>22, <1>24, TablesGo

\* Every client is made anew from rows that hold what was given, and the page is answered.
LEMMA BuildKeeps == ASSUME SetupInv, NEW r \in Reqs, N!Build(r) PROVE SetupInv'
<1>1. handler[r] \in SetupAsks /\ SetupFits(r, handler[r]) /\ SetupTyped /\ handler \in [Reqs -> SetupAsks]
  BY AskIs DEF SetupInv, SetupTyped
<1>2. PICK rows, f : rows = handler[r].rows /\ f = handler[r].flow
  OBVIOUS
<1>3. /\ handler[r].at = "build" /\ UNCHANGED <<account, setting, legacy, oldfiles, refresh, v10, history>>
      /\ provider' = [a \in DOMAIN provider |-> IF a \in DOMAIN rows THEN rows[a].grant ELSE provider[a]]
      /\ up' = TRUE
      /\ flow' = [g \in N!Flows |-> IF g = f THEN [flow[g] EXCEPT !.posted = TRUE] ELSE flow[g]]
      /\ handler' = [handler EXCEPT ![r] = N!Rest]
  BY <1>2 DEF N!Build, N!At
<1>4. r # N!Boot => up
  BY <1>3, UpOrBoot
<1>5. /\ rows \in Seq(SetupRows) /\ DOMAIN rows \subseteq DOMAIN account /\ DOMAIN account \subseteq Slots
      /\ history.crossed \/ \A a \in DOMAIN rows : rows[a].grant = history.given[a]
      /\ f \in N!Flows => flow[f].is = "used" /\ N!OfKind(flow[f].kind) # {}
  <2>1. rows \in Seq(SetupRows)
    BY <1>1, <1>2 DEF SetupAsks
  <2>2. f \in N!Flows => flow[f].is = "used" /\ N!OfKind(flow[f].kind) # {}
    BY <1>1, <1>2, <1>3 DEF SetupFits, FlowFits
  <2>3. DOMAIN rows \subseteq DOMAIN account /\ (history.crossed \/ \A a \in DOMAIN rows : rows[a].grant = history.given[a])
    BY <1>1, <1>2, <1>3 DEF SetupFits, RowsFit, GivenFits
  <2> QED BY <1>1, <2>1, <2>2, <2>3, AccountsAreSlots
<1>6. provider' \in [Slots -> Nat] /\ \A a \in Slots : provider'[a] = IF a \in DOMAIN rows THEN rows[a].grant ELSE provider[a]
  <2>1. \A a \in DOMAIN rows : rows[a] \in SetupRows
    BY <1>5, LenProperties
  <2>2. \A a \in DOMAIN rows : rows[a].grant \in Nat
    BY <2>1 DEF SetupRows
  <2>3. provider \in [Slots -> Nat]
    BY <1>1 DEF SetupTyped
  <2> QED BY <1>3, <2>2, <2>3
<1>7. /\ flow' \in [N!Flows -> SetupFlows]
      /\ \A g \in N!Flows : /\ flow'[g].is = flow[g].is /\ flow'[g].kind = flow[g].kind /\ flow'[g].page = flow[g].page
                            /\ g # f => flow'[g].posted = flow[g].posted
  <2>1. flow \in [N!Flows -> SetupFlows]
    BY <1>1 DEF SetupTyped, SetupFlows
  <2>2. ASSUME NEW g \in N!Flows
        PROVE  /\ flow'[g] \in SetupFlows
               /\ flow'[g].is = flow[g].is /\ flow'[g].kind = flow[g].kind /\ flow'[g].page = flow[g].page
               /\ g # f => flow'[g].posted = flow[g].posted
    <3>1. flow[g] \in SetupFlows
      BY <2>1
    <3>2. CASE g = f
      <4>1. flow'[g] = [flow[g] EXCEPT !.posted = TRUE]
        BY <1>3, <3>2
      <4> QED BY <3>1, <3>2, <4>1 DEF SetupFlows
    <3>3. CASE g # f
      <4>1. flow'[g] = flow[g]
        BY <1>3, <3>3
      <4> QED BY <3>1, <4>1
    <3> QED BY <3>2, <3>3
  <2> QED BY <1>3, <2>2
<1>8. handler'[r] = N!Rest /\ (\A q \in Reqs \ {r} : handler'[q] = handler[q]) /\ handler' \in [Reqs -> SetupAsks]
  BY <1>1, <1>3, RestFits
<1>9. SetupTyped'
  BY <1>1, <1>3, <1>6, <1>7, <1>8 DEF SetupTyped, SetupFlows
<1>10. Grows
  BY <1>3, <1>7 DEF Grows
<1>11. OneRow'
  BY <1>3 DEF SetupInv, OneRow, Alike
\* If the process was starting: the default was read, and then the accounts.
<1>12. DefaultsFit'
  <2>1. Settled
    BY <1>3, <1>4 DEF SetupInv, DefaultsFit
  <2> QED BY <1>3, <2>1 DEF DefaultsFit, Settled, N!Consistent
<1>13. OldFilesFit'
  BY <1>3, <1>4 DEF SetupInv, OldFilesFit
<1>14. GrantsFit'
  <2>1. ASSUME NEW i \in DOMAIN account PROVE Holds(i)'
    <3>1. Holds(i) /\ i \in Slots
      BY <1>5 DEF SetupInv, GrantsFit
    <3>2. CASE i \in DOMAIN rows
      <4>1. history.crossed \/ provider'[i] = account[i].grant
        BY <1>5, <1>6, <3>1, <3>2 DEF Holds
      <4> QED BY <1>3, <3>1, <4>1 DEF Holds
    <3>3. CASE i \notin DOMAIN rows
      <4>1. ASSUME NEW q \in Admins, handler[q].at = "install", handler[q].acc = i
            PROVE  handler'[q].at = "install" /\ handler'[q].acc = i
        <5>1. handler'[q] = handler[q]
          BY <1>3, <1>8, <4>1 DEF Reqs
        <5> QED BY <4>1, <5>1
      <4>2. provider'[i] = provider[i]
        BY <1>6, <3>1, <3>3
      <4> QED BY <1>3, <3>1, <4>1, <4>2 DEF Holds
    <3> QED BY <3>2, <3>3
  <2>2. \A i \in Slots \ DOMAIN account : provider'[i] = 0
    BY <1>5, <1>6 DEF SetupInv, GrantsFit
  <2> QED BY <1>3, <2>1, <2>2 DEF SetupInv, GrantsFit
<1>15. \A k : N!OfKind(k)' = N!OfKind(k)
  BY <1>3 DEF N!OfKind
<1>16. FlowsFit'
  <2> SUFFICES ASSUME NEW g \in N!Flows, flow'[g].posted \/ flow'[g].page = "told"
               PROVE  flow[g].is = "used" /\ N!OfKind(flow[g].kind) # {}
    <3>1. \A g \in N!Flows : N!OfKind(flow[g].kind) # {} => (N!OfKind(flow[g].kind) # {})'
      BY <1>7, <1>15
    <3> QED BY <1>7, <3>1 DEF FlowsFit
  <2>1. CASE g = f
    BY <1>5, <2>1
  <2>2. CASE g # f
    <3>1. flow[g].posted \/ flow[g].page = "told"
      BY <1>7, <2>2
    <3> QED BY <3>1 DEF SetupInv, FlowsFit
  <2> QED BY <2>1, <2>2
<1>17. SetupFits(r, handler[r])' /\ ~Pends(handler'[r])
  <2>1. 0 \notin N!Flows
    BY SetupShaped DEF N!Flows
  <2>2. SetupFits(r, N!Rest)'
    <3>1. PICK x : x = N!Rest
      OBVIOUS
    <3>2. x.at = "off" /\ x.flow = 0 /\ x.kind = ""
      BY <3>1 DEF N!Rest
    <3>3. SetupFits(r, x)'
      BY <2>1, <3>2 DEF SetupFits, AskedFits, RowsFit, GivenFits, FlowFits, BootFits, Pends
    <3> QED BY <3>1, <3>3
  <2> QED BY <1>8, <2>2, RestFits
<1>18. \A q \in Reqs : \/ handler'[q] = handler[q] /\ Untouched(handler[q])
                       \/ ~Pends(handler'[q]) /\ SetupFits(q, handler[q])'
  BY <1>3, <1>8, <1>17 DEF Untouched
<1>19. \A c : Unclaimed(c) => Unclaimed(c)'
  BY <1>3 DEF Unclaimed, N!OfClient, N!OfKind
<1> QED BY <1>9, <1>10, <1>11, <1>12, <1>13, <1>14, <1>16, <1>18, <1>19, TablesGo

LEMMA SetupCrashKeeps == ASSUME SetupInv, N!Crash PROVE SetupInv'
<1>1. SetupTyped /\ handler \in [Reqs -> SetupAsks] /\ provider \in [Slots -> Nat] /\ history \in SetupPast
  BY DEF SetupInv, SetupTyped, SetupPast
<1>2. /\ UNCHANGED <<flow, account, setting, legacy, oldfiles, v10>>
      /\ up' = FALSE /\ provider' = [a \in Slots |-> 0] /\ refresh' = {}
      /\ handler' = [r \in Reqs |-> N!Rest]
      /\ history' = [history EXCEPT !.unlinked = @ \/ \E r \in Reqs : handler[r].at = "link"]
  BY <1>1 DEF N!Crash, N!tables, N!At
<1>3. history' \in SetupPast /\ Marks /\ (\A r \in Reqs : handler[r].at = "link" => history'.unlinked)
  <2>1. PICK b : b = \E r \in Reqs : handler[r].at = "link"
    OBVIOUS
  <2>2. b \in BOOLEAN
    BY <2>1
  <2>3. history' = [history EXCEPT !.unlinked = @ \/ b]
    BY <1>2, <2>1
  <2>4. history' \in SetupPast /\ Marks /\ (b => history'.unlinked)
    BY <1>1, <2>2, <2>3 DEF SetupPast, Marks
  <2> QED BY <2>1, <2>4
<1>4. (\A q \in Reqs : handler'[q] = N!Rest) /\ handler' \in [Reqs -> SetupAsks]
  BY <1>2, RestFits
<1>5. SetupTyped'
  BY <1>1, <1>2, <1>3, <1>4 DEF SetupTyped, SetupPast
<1>6. OneRow' /\ OnePends'
  <2>1. OnePends'
    BY <1>4, RestFits DEF OnePends, Pends
  <2> QED BY <1>2, <1>3, <2>1 DEF SetupInv, OneRow, Alike, Marks
<1>7. handler'[N!Boot].at = "off"
  BY <1>4, SetupReqs, RestIsOff
<1>8. DefaultsFit'
  BY <1>2, <1>3, <1>7 DEF SetupInv, DefaultsFit, Settled, N!Consistent, Marks
<1>9. OldFilesFit'
  BY <1>2, <1>3, <1>7, SetupReqs DEF SetupInv, OldFilesFit, Marks
<1>10. GrantsFit'
  <2>1. ASSUME NEW i \in DOMAIN account PROVE Holds(i)'
    <3>1. Holds(i) /\ i \in Slots
      BY <1>1, AccountsAreSlots DEF SetupInv, GrantsFit
    <3>2. provider'[i] = 0
      BY <1>2, <3>1
    <3> QED BY <1>2, <1>3, <3>1, <3>2 DEF Holds, Marks
  <2> QED BY <1>2, <2>1 DEF GrantsFit
<1>11. FlowsFit'
  BY <1>2 DEF SetupInv, FlowsFit, N!OfKind
<1>12. ASSUME NEW q \in Reqs PROVE SetupFits(q, handler[q])'
  <2>1. PICK x : x = N!Rest
    OBVIOUS
  <2>2. x.at = "off" /\ x.flow = 0 /\ x.kind = "" /\ 0 \notin N!Flows
    <3>1. 0 \notin N!Flows
      BY SetupShaped DEF N!Flows
    <3> QED BY <2>1, <3>1 DEF N!Rest
  <2>3. SetupFits(q, x)'
    BY <2>2 DEF SetupFits, AskedFits, RowsFit, GivenFits, FlowFits, BootFits, Pends
  <2>4. handler'[q] = x
    BY <1>4, <2>1
  <2> QED BY <2>3, <2>4
<1> QED BY <1>5, <1>6, <1>8, <1>9, <1>10, <1>11, <1>12 DEF SetupInv

LEMMA SetupStutters == ASSUME SetupInv, UNCHANGED <<v1, v2, v3, v4, v5, v6, v7, v8, v9, v10, v11>> PROVE SetupInv'
<1>1. SetupTyped'
  BY DEF SetupInv, SetupTyped
<1>2. \A q \in Reqs : handler'[q] = handler[q] /\ Untouched(handler[q])
  BY DEF Untouched
<1>3. OneRow' /\ DefaultsFit' /\ OldFilesFit' /\ FlowsFit'
  BY DEF SetupInv, OneRow, Alike, DefaultsFit, OldFilesFit, FlowsFit, Settled, N!Consistent, N!OfKind
<1>4. GrantsFit'
  BY DEF SetupInv, GrantsFit, Holds
<1>5. Grows /\ \A c : Unclaimed(c) => Unclaimed(c)'
  BY DEF Grows, Unclaimed, N!OfClient, N!OfKind
<1> QED BY <1>1, <1>2, <1>3, <1>4, <1>5, TablesGo

LEMMA SetupSteps == SetupInv /\ [N!Next]_(N!vars) => SetupInv'
<1> SUFFICES ASSUME SetupInv, [N!Next]_(N!vars) PROVE SetupInv'
  OBVIOUS
<1>1. DOMAIN handler = Reqs /\ refresh \in SUBSET [acc : Slots, grant : Nat]
  BY DEF SetupInv, SetupTyped
<1>2. CASE N!Work
  <2>1. ASSUME NEW r \in Reqs,
               \/ N!ExchangeOneDrive(r) \/ N!ExchangeGoogle(r) \/ N!Probed(r)
               \/ N!SetClient(r) \/ N!SetToken(r) \/ N!ClearSettings(r) \/ N!Newest(r)
               \/ N!Look(r) \/ N!Write(r) \/ N!Install(r) \/ N!Probe(r) \/ N!Commit(r)
        PROVE  SetupInv'
    BY <2>1, ExchangedKeeps, SettingsKeep, ProbeKeeps, LookKeeps, WriteKeeps, InstallKeeps, CommitKeeps
  <2>2. ASSUME NEW r \in Reqs,
               \/ N!ReadLegacy(r) \/ N!Migrate(r) \/ N!Forget(r) \/ N!Link(r) \/ N!ReadSetting(r)
               \/ N!ReadAccounts(r) \/ N!Build(r)
        PROVE  SetupInv'
    BY <2>2, ReadLegacyKeeps, MigrateKeeps, MigratedKeeps, ReadAccountsKeeps, BuildKeeps
  <2> QED BY <1>1, <1>2, <2>1, <2>2, StartKeeps, EndRefreshKeeps DEF N!Work
<1>3. CASE \/ \E f \in N!Flows : \/ N!Expire(f) \/ N!PageTold(f) \/ N!WindowClosed(f)
                                 \/ \E k \in {"onedrive", "google"} : N!Issue(f, k)
           \/ \E r \in Admins : \/ N!Put(r) \/ N!AddKeyed(r)
                                \/ \E f \in N!Flows : N!Callback(r, f)
                                \/ \E a \in 0 .. MaxAccounts : N!AskSwitch(r, a)
  BY <1>3, FlowKeeps, BegunKeeps, CallbackKeeps
<1>4. CASE \E r \in DOMAIN handler : N!Fail(r)
  BY <1>1, <1>4, FailKeeps
<1>5. CASE \E a \in 1 .. MaxAccounts : N!BeginRefresh(a)
  BY <1>5, BeginRefreshKeeps DEF Slots
<1>6. CASE UNCHANGED N!vars
  BY <1>6, SetupStutters DEF N!vars, N!tables
<1> QED BY <1>2, <1>3, <1>4, <1>5, <1>6, SetupCrashKeeps DEF N!Next

-----------------------------------------------------------------------------
(* The parts together.                                                     *)

AgreedInv == /\ part = "setup" => SetupInv
             /\ part = "talk" => TalkInv
             /\ part = "center" => CenterInv
             /\ part = "bot" => BotInv

LEMMA AgreedStarts == Init => AgreedInv
BY SetupStarts, TalkStarts, CenterStarts, BotStarts DEF Init, AgreedInv

LEMMA AgreedSteps == AgreedInv /\ [Next]_vars => AgreedInv'
<1> SUFFICES ASSUME AgreedInv, [Next]_vars PROVE AgreedInv'
  OBVIOUS
<1>1. part' = part
  BY DEF Next, vars, To3, To10, To12, To13, To14
<1>2. ASSUME part = "setup" PROVE SetupInv'
  <2>1. N!Next \/ UNCHANGED vars
    BY <1>2 DEF Next
  <2>2. [N!Next]_(N!vars)
    BY <2>1 DEF N!vars, N!tables, vars
  <2> QED BY <1>2, <2>2, SetupSteps DEF AgreedInv
<1>3. ASSUME part = "talk" PROVE TalkInv'
  <2>1. W!Next \/ UNCHANGED vars
    BY <1>3 DEF Next
  <2>2. [W!Next]_(W!vars)
    BY <2>1 DEF W!vars, W!wizardVars, W!pathVars, W!subVars, vars
  <2> QED BY <1>3, <2>2, TalkSteps DEF AgreedInv
<1>4. ASSUME part = "center" PROVE CenterInv'
  <2>1. C!Next \/ UNCHANGED vars
    BY <1>4 DEF Next
  <2>2. [C!Next]_(C!vars)
    BY <2>1 DEF C!vars, C!taskVars, C!askVars, vars
  <2> QED BY <1>4, <2>2, CenterSteps DEF AgreedInv
<1>5. ASSUME part = "bot" PROVE BotInv'
  <2>1. B!Next \/ UNCHANGED vars
    BY <1>5 DEF Next
  <2>2. [B!Next]_(B!vars)
    BY <2>1 DEF B!vars, B!fileVars, vars
  <2> QED BY <1>5, <2>2, BotSteps DEF AgreedInv
<1> QED BY <1>1, <1>2, <1>3, <1>4, <1>5 DEF AgreedInv

\* Whatever is asked, pressed, answered or fails in between: what is done is what the user
\* was shown and agreed to.  A download has the terms of its wizard and one end, only a task
\* that was confirmed is cancelled, no file that came after the question is deleted, and an
\* account has one row and the token last given, unless two looked or wrote at once.
THEOREM AgreedStaysDone == Spec => []AgreedIsDone
<1>1. AgreedInv => AgreedIsDone
  BY SetupIsSound, CenterIsSound DEF AgreedInv, AgreedIsDone, TalkInv, BotInv
<1> QED BY <1>1, AgreedStarts, AgreedSteps, PTL DEF Spec

-----------------------------------------------------------------------------
(* The values of these four parts, and those of the pool, are of their     *)
(* types.                                                                  *)

\* What the invariants above leave out.
CenterRest == v2 \subseteq Channel /\ v4 \in {"unowned", "owned"} /\ v9 \in BOOLEAN

LEMMA CenterRestKeeps == CenterRest /\ [C!Next]_(C!vars) => CenterRest'
<1> SUFFICES ASSUME CenterRest, [C!Next]_(C!vars) PROVE CenterRest'
  OBVIOUS
<1> USE DEF CenterRest, C!taskVars, C!askVars, C!Pressed
<1>1. ASSUME NEW h \in Updates, C!Continue(h) PROVE CenterRest'
  <2>1. CASE C!CardOwned(h) \/ C!Ask(h) \/ C!Confirm(h) \/ C!Found(h) \/ C!RowRead(h)
    BY <2>1 DEF C!CardOwned, C!Ask, C!Confirm, C!Found, C!RowRead
  <2>2. CASE C!RowWritten(h)
    BY <2>2 DEF C!RowWritten, C!Written
  <2>3. CASE C!GroupFollows(h) \/ C!BulkList(h) \/ C!BulkNext(h) \/ C!BulkMemory(h)
    BY <2>3 DEF C!GroupFollows, C!BulkList, C!List, C!BulkNext, C!BulkMemory
  <2>4. CASE C!BulkAsked(h)
    <3>1. v9' = (v9 \/ \E t \in C!Tasks : C!Listed(t) /\ task[t] # "failed")
      BY <2>4 DEF C!BulkAsked
    <3>2. v9' \in BOOLEAN
      BY <3>1, Zenon
    <3> QED BY <2>4, <3>2 DEF C!BulkAsked
  <2> QED BY <1>1, <2>1, <2>2, <2>3, <2>4 DEF C!Continue
<1>2. ASSUME NEW h \in Updates, C!Fails(h) \/ C!ShowTasks(h) \/ C!AskBulk(h) \/ C!ConfirmBulk(h) PROVE CenterRest'
  BY <1>2 DEF C!Fails, C!ShowTasks, C!AskBulk, C!ConfirmBulk
<1>3. ASSUME NEW h \in Updates, NEW act, NEW t, C!Press(h, act, t) \/ C!Command(h, act, t) PROVE CenterRest'
  BY <1>3 DEF C!Press, C!Command
<1>4. CASE C!AskExpires \/ C!BulkLost
  BY <1>4 DEF C!AskExpires, C!BulkLost
<1>5. ASSUME NEW t \in C!Tasks, \/ C!Begins(t) \/ C!Ends(t) \/ C!Stops(t) \/ C!Breaks(t) \/ C!Cools(t) \/ C!Thaws(t)
                                \/ C!BatchEnds(t) \/ C!BatchBegins(t)
      PROVE  CenterRest'
  BY <1>5 DEF C!Begins, C!Ends, C!Stops, C!Breaks, C!Cools, C!Thaws, C!Turns, C!BatchEnds, C!BatchBegins
<1>6. CASE UNCHANGED C!vars
  BY <1>6 DEF C!vars
<1> QED BY <1>1, <1>2, <1>3, <1>4, <1>5, <1>6 DEF C!Next

LEMMA CenterTypes == CenterInv /\ CenterRest => C!TypeOK
<1> SUFFICES ASSUME CenterInv, CenterRest PROVE C!TypeOK
  OBVIOUS
<1>1. \A h \in Updates : press[h].left \subseteq C!Tasks /\
        press[h].pc \in {"off", "card", "find", "row", "write", "group", "impact", "list", "bulk"}
  BY DEF CenterInv, CenterTyped, Presses
<1> QED BY <1>1 DEF CenterInv, CenterTyped, CenterRest, C!TypeOK, C!Over, Postures, Endings

LEMMA BotTypes == BotInv => B!TypeOK
<1> SUFFICES ASSUME BotInv PROVE B!TypeOK
  OBVIOUS
<1>1. BotTyped
  BY DEF BotInv
<1>2. \A h \in Updates : deleter[h].pc \in {"off", "lookup", "object", "row", "scanned", "ids", "rest"}
  BY <1>1 DEF BotTyped, Deleters
<1> QED BY <1>1, <1>2 DEF BotTyped, B!TypeOK, Clears

LEMMA TalkTypes == TalkInv => W!TypeOK
<1> SUFFICES ASSUME TalkInv PROVE W!TypeOK
  OBVIOUS
<1>1. TalkTyped
  BY DEF TalkInv
<1>2. ASSUME NEW w \in 1 .. MaxWizards
      PROVE  /\ wizard[w].kind \in {"none", "subs", "download", "date", "tag"}
             /\ wizard[w].step \in {"mode", "source", "path", "comments", "since", "until", "word", "confirm"}
             /\ {wizard[w].folder, wizard[w].comments, wizard[w].since, wizard[w].word} \subseteq Words \cup {0}
             /\ wizard[w].sub \in Subscriptions \cup {0} /\ wizard[w].target \in Accounts \cup {0}
  <2>1. wizard[w] \in Wizards
    BY <1>1, <1>2 DEF TalkTyped, Numbers
  <2> QED BY <2>1 DEF Wizards, Said
<1> QED BY <1>1, <1>2 DEF TalkTyped, W!TypeOK, Said

-----------------------------------------------------------------------------
(* The grants of accounts are among those that were given.                 *)

Carrying == {"exchange", "candidate", "client", "token", "look", "write", "migrate", "install"}

Entitled(x, n) ==
  /\ x.at \in Carrying => x.grant \in 1 .. n
  /\ x.at = "build" => \A a \in DOMAIN x.rows : x.rows[a].grant \in 1 .. n

SetupRest ==
  /\ v10 \in 0 .. MaxGrants /\ v12 \in 0 .. MaxBegun /\ v13 \in 0 .. MaxFailures
  /\ \A i \in DOMAIN account : account[i].grant \in 1 .. v10
  /\ legacy.grant \in 0 .. v10
  /\ \A a \in Slots : provider[a] \in 0 .. v10
  /\ \A r \in Reqs : Entitled(handler[r], v10)
  /\ \A t \in refresh : t.grant \in 1 .. v10

\* How a request goes on: with the grant it has, with that of the old settings, or with a new one.
Proceeds(q) ==
  \/ handler'[q].at \notin Carrying \cup {"build"}
  \/ handler'[q].at \in Carrying /\ handler'[q].grant = handler[q].grant /\ handler[q].at \in Carrying
  \/ handler'[q].at \in Carrying /\ handler'[q].grant = legacy.grant /\ legacy.grant # 0
  \/ handler'[q].at \in Carrying /\ handler'[q].grant = v10 + 1 /\ v10' = v10 + 1
  \/ handler'[q].at = "build" /\ handler'[q].rows = handler[q].rows /\ handler[q].at = "build"
  \/ handler'[q].at = "build" /\ handler'[q].rows = account

LEMMA SetupRestStarts == N!Init => SetupRest
<1> SUFFICES ASSUME N!Init PROVE SetupRest
  OBVIOUS
<1>1. /\ account = <<>> /\ provider = [a \in Slots |-> 0] /\ handler = [r \in Reqs |-> N!Rest] /\ refresh = {}
      /\ v12 = 0 /\ v13 = 0
  BY DEF N!Init, Slots, Reqs
<1>2. v10 \in {0, 1} /\ legacy.grant = v10
  BY DEF N!Init, N!Old, N!NoLegacy
<1>3. N!Rest.at = "off"
  BY DEF N!Rest
<1>4. \A r \in Reqs : Entitled(handler[r], v10)
  BY <1>1, <1>3 DEF Entitled, Carrying
<1>5. DOMAIN account = {}
  BY <1>1, EmptySeq
<1>6. v10 \in 0 .. MaxGrants /\ v12 \in 0 .. MaxBegun /\ v13 \in 0 .. MaxFailures
  BY <1>1, <1>2, Bounded
<1> QED BY <1>1, <1>2, <1>4, <1>5, <1>6 DEF SetupRest, Slots

\* Requests that go on count with grants that were given.
LEMMA EntitledGoOn ==
  ASSUME SetupRest, v10' \in Nat, v10 <= v10', v10 \in Nat, \A q \in Reqs : Proceeds(q)
  PROVE  \A q \in Reqs : Entitled(handler'[q], v10')
<1> SUFFICES ASSUME NEW q \in Reqs PROVE Entitled(handler'[q], v10')
  OBVIOUS
<1>1. Proceeds(q) /\ Entitled(handler[q], v10)
  BY DEF SetupRest
<1>2. \A n \in 1 .. v10 : n \in 1 .. v10'
  OBVIOUS
<1>3. CASE handler'[q].at \in Carrying
  <2>1. handler'[q].at # "build"
    BY <1>3 DEF Carrying
  <2>2. handler'[q].grant \in 1 .. v10'
    BY <1>1, <1>2, <1>3, <2>1 DEF Proceeds, Entitled, SetupRest
  <2> QED BY <2>1, <2>2 DEF Entitled
<1>4. CASE handler'[q].at = "build"
  <2>1. handler'[q].at \notin Carrying
    BY <1>4 DEF Carrying
  <2>2. \A a \in DOMAIN handler'[q].rows : handler'[q].rows[a].grant \in 1 .. v10'
    BY <1>1, <1>2, <1>4, <2>1 DEF Proceeds, Entitled, SetupRest
  <2> QED BY <2>1, <2>2 DEF Entitled
<1> QED BY <1>3, <1>4 DEF Entitled

\* Who goes on from where he stands keeps what he has.
LEMMA GoesOn ==
  ASSUME SetupInv, NEW r \in Reqs, NEW s, N!Goto(r, s),
         s \in Carrying => handler[r].at \in Carrying, s # "build"
  PROVE  \A q \in Reqs : Proceeds(q)
<1> SUFFICES ASSUME NEW q \in Reqs PROVE Proceeds(q)
  OBVIOUS
<1>1. handler \in [Reqs -> SetupAsks]
  BY DEF SetupInv, SetupTyped
<1>2. PICK y : y = handler[r]
  OBVIOUS
<1>3. handler' = [handler EXCEPT ![r] = [y EXCEPT !.at = s]]
  BY <1>2 DEF N!Goto
<1>4. PICK x : x = [y EXCEPT !.at = s]
  OBVIOUS
<1>5. x.at = s /\ x.grant = y.grant
  <2>1. y \in SetupAsks
    BY <1>1, <1>2
  <2>2. {"at", "grant"} \subseteq DOMAIN y
    BY <2>1 DEF SetupAsks
  <2> QED BY <1>4, <2>2
<1>6. handler' = [handler EXCEPT ![r] = x]
  BY <1>3, <1>4
<1>7. handler'[r] = x /\ (q # r => handler'[q] = handler[q])
  BY <1>1, <1>6
<1> QED BY <1>2, <1>5, <1>7 DEF Proceeds

\* So does everybody while one of them goes on as x.
LEMMA OthersGoOn ==
  ASSUME SetupInv, NEW r \in Reqs, NEW x, handler' = [handler EXCEPT ![r] = x],
         \/ x.at \notin Carrying \cup {"build"}
         \/ x.at \in Carrying /\ x.grant = handler[r].grant /\ handler[r].at \in Carrying
         \/ x.at \in Carrying /\ x.grant = legacy.grant /\ legacy.grant # 0
         \/ x.at \in Carrying /\ x.grant = v10 + 1 /\ v10' = v10 + 1
         \/ x.at = "build" /\ x.rows = account
  PROVE  \A q \in Reqs : Proceeds(q)
<1> SUFFICES ASSUME NEW q \in Reqs PROVE Proceeds(q)
  OBVIOUS
<1>1. handler \in [Reqs -> SetupAsks]
  BY DEF SetupInv, SetupTyped
<1>2. handler'[r] = x /\ (q # r => handler'[q] = handler[q])
  BY <1>1
<1> QED BY <1>2 DEF Proceeds

\* A request begins with a new grant, or without one.
LEMMA BegunGoesOn ==
  ASSUME SetupInv, NEW r \in Reqs, NEW x, N!Handle(r, x),
         \/ x.at \notin Carrying \cup {"build"}
         \/ x.at \in Carrying /\ x.grant = v10 + 1 /\ v10' = v10 + 1
  PROVE  \A q \in Reqs : Proceeds(q)
BY OthersGoOn DEF N!Handle

LEMMA RequestsProceed ==
  ASSUME SetupInv, NEW r \in Reqs,
         \/ N!ExchangeOneDrive(r) \/ N!ExchangeGoogle(r) \/ N!Probed(r) \/ N!SetClient(r) \/ N!SetToken(r) \/ N!ClearSettings(r)
         \/ N!Newest(r) \/ N!Look(r) \/ N!Probe(r) \/ N!Commit(r) \/ N!Forget(r) \/ N!Link(r) \/ N!ReadSetting(r)
  PROVE  \A q \in Reqs : Proceeds(q)
<1> USE DEF N!At, Carrying
<1>0. handler[r] \in SetupAsks
  BY DEF SetupInv, SetupTyped
<1>1. CASE N!ExchangeOneDrive(r) \/ N!SetToken(r)
  <2>1. N!Goto(r, "look") /\ handler[r].at \in Carrying
    BY <1>1 DEF N!ExchangeOneDrive, N!SetToken
  <2> QED BY <2>1, GoesOn
<1>2. CASE N!ExchangeGoogle(r) \/ N!Probed(r)
  <2>1. N!Goto(r, "write") /\ handler[r].at \in Carrying
    BY <1>2 DEF N!ExchangeGoogle, N!Probed
  <2> QED BY <2>1, GoesOn
<1>3. CASE N!SetClient(r)
  <2>1. N!Goto(r, "token") /\ handler[r].at \in Carrying
    BY <1>3 DEF N!SetClient
  <2> QED BY <2>1, GoesOn
<1>4. CASE N!ClearSettings(r)
  <2>1. N!Goto(r, "newest")
    BY <1>4 DEF N!ClearSettings
  <2> QED BY <2>1, GoesOn
<1>5. CASE N!Newest(r)
  <2>1. PICK a : handler' = [handler EXCEPT ![r].at = "probe", ![r].acc = a]
    BY <1>5 DEF N!Newest
  <2>2. PICK y : y = handler[r]
    OBVIOUS
  <2>3. PICK x : x = [y EXCEPT !.at = "probe", !.acc = a]
    OBVIOUS
  <2>4. x.at = "probe"
    BY <1>0, <2>2, <2>3 DEF SetupAsks
  <2>5. handler' = [handler EXCEPT ![r] = x]
    BY <2>1, <2>2, <2>3
  <2> QED BY <2>4, <2>5, OthersGoOn
<1>6. CASE N!Look(r)
  <2>0. PICK s \in {"migrate", "write"} : s = IF handler[r].do = "init" THEN "migrate" ELSE "write"
    OBVIOUS
  <2>1. PICK a : handler' = [handler EXCEPT ![r].at = s, ![r].acc = a]
    BY <1>6, <2>0 DEF N!Look
  <2>2. PICK y : y = handler[r]
    OBVIOUS
  <2>3. PICK x : x = [y EXCEPT !.at = s, !.acc = a]
    OBVIOUS
  <2>4. x.at = s /\ x.grant = y.grant /\ y.at = "look"
    BY <1>0, <1>6, <2>2, <2>3 DEF SetupAsks, N!Look
  <2>5. handler' = [handler EXCEPT ![r] = x]
    BY <2>1, <2>2, <2>3
  <2> QED BY <2>2, <2>4, <2>5, OthersGoOn
<1>7. CASE N!Probe(r)
  <2>1. N!Goto(r, "commit") \/ handler' = [handler EXCEPT ![r] = N!Rest]
    BY <1>7 DEF N!Probe
  <2>2. N!Rest.at = "off"
    BY DEF N!Rest
  <2> QED BY <2>1, <2>2, GoesOn, OthersGoOn
<1>8. CASE N!Commit(r)
  <2>1. N!Goto(r, "init")
    BY <1>8 DEF N!Commit
  <2> QED BY <2>1, GoesOn
<1>9. CASE N!Forget(r)
  <2>1. N!Goto(r, "link")
    BY <1>9 DEF N!Forget
  <2> QED BY <2>1, GoesOn
<1>10. CASE N!Link(r)
  <2>1. N!Goto(r, "setting")
    BY <1>10 DEF N!Link
  <2> QED BY <2>1, GoesOn
<1>11. CASE N!ReadSetting(r)
  <2>1. handler' = [handler EXCEPT ![r].at = "accounts", ![r].seen = setting]
    BY <1>11 DEF N!ReadSetting
  <2>2. PICK y : y = handler[r]
    OBVIOUS
  <2>3. PICK x : x = [y EXCEPT !.at = "accounts", !.seen = setting]
    OBVIOUS
  <2>4. x.at = "accounts"
    BY <1>0, <2>2, <2>3 DEF SetupAsks
  <2>5. handler' = [handler EXCEPT ![r] = x]
    BY <2>1, <2>2, <2>3
  <2> QED BY <2>4, <2>5, OthersGoOn
<1> QED BY <1>1, <1>2, <1>3, <1>4, <1>5, <1>6, <1>7, <1>8, <1>9, <1>10, <1>11

LEMMA OthersProceed ==
  ASSUME SetupInv, NEW r \in Reqs,
         N!Write(r) \/ N!Install(r) \/ N!ReadLegacy(r) \/ N!Migrate(r) \/ N!ReadAccounts(r) \/ N!Build(r) \/ N!Fail(r)
  PROVE  \A q \in Reqs : Proceeds(q)
<1> USE DEF N!At, Carrying
<1>0. handler[r] \in SetupAsks
  BY DEF SetupInv, SetupTyped
<1>r. N!Rest.at = "off"
  BY DEF N!Rest
<1>1. CASE N!Write(r)
  <2>1. PICK a : handler' = [handler EXCEPT ![r].at = "install", ![r].acc = a]
    BY <1>1 DEF N!Write
  <2>2. PICK y : y = handler[r]
    OBVIOUS
  <2>3. PICK x : x = [y EXCEPT !.at = "install", !.acc = a]
    OBVIOUS
  <2>4. x.at = "install" /\ x.grant = y.grant /\ y.at = "write"
    BY <1>0, <1>1, <2>2, <2>3 DEF SetupAsks, N!Write
  <2>5. handler' = [handler EXCEPT ![r] = x]
    BY <2>1, <2>2, <2>3
  <2> QED BY <2>2, <2>4, <2>5, OthersGoOn
<1>2. CASE N!Install(r)
  <2>1. \/ N!Goto(r, "clear") \/ N!Goto(r, "probe") \/ handler' = [handler EXCEPT ![r] = N!Rest]
    BY <1>2 DEF N!Install, N!Goto
  <2> QED BY <1>r, <2>1, GoesOn, OthersGoOn
<1>3. CASE N!ReadLegacy(r)
  <2>1. CASE legacy.client # 0 /\ legacy.grant # 0
    <3>1. PICK y : y = handler[r]
      OBVIOUS
    <3>2. handler' = [handler EXCEPT ![r] = [y EXCEPT !.at = "look", !.do = "init", !.kind = "onedrive",
                                                      !.client = legacy.client, !.grant = legacy.grant]]
      BY <1>3, <2>1, <3>1 DEF N!ReadLegacy
    <3>3. PICK x : x = [y EXCEPT !.at = "look", !.do = "init", !.kind = "onedrive",
                                 !.client = legacy.client, !.grant = legacy.grant]
      OBVIOUS
    <3>4. x.at = "look" /\ x.grant = legacy.grant
      BY <1>0, <3>1, <3>3 DEF SetupAsks
    <3>5. handler' = [handler EXCEPT ![r] = x]
      BY <3>2, <3>3
    <3> QED BY <2>1, <3>4, <3>5, OthersGoOn
  <2>2. CASE ~(legacy.client # 0 /\ legacy.grant # 0)
    <3>1. N!Goto(r, "setting")
      BY <1>3, <2>2 DEF N!ReadLegacy, N!Goto
    <3> QED BY <3>1, GoesOn
  <2> QED BY <2>1, <2>2
<1>4. CASE N!Migrate(r)
  <2>1. CASE handler[r].acc # 0
    <3>1. N!Goto(r, "forget")
      BY <1>4, <2>1 DEF N!Migrate
    <3> QED BY <3>1, GoesOn
  <2>2. CASE handler[r].acc = 0
    <3>1. PICK a : handler' = [handler EXCEPT ![r].at = "forget", ![r].acc = a]
      BY <1>4, <2>2 DEF N!Migrate
    <3>2. PICK y : y = handler[r]
      OBVIOUS
    <3>3. PICK x : x = [y EXCEPT !.at = "forget", !.acc = a]
      OBVIOUS
    <3>4. x.at = "forget"
      BY <1>0, <3>2, <3>3 DEF SetupAsks
    <3>5. handler' = [handler EXCEPT ![r] = x]
      BY <3>1, <3>2, <3>3
    <3> QED BY <3>4, <3>5, OthersGoOn
  <2> QED BY <2>1, <2>2
<1>5. CASE N!ReadAccounts(r)
  <2>1. CASE N!Consistent(handler[r].seen, account)
    <3>1. handler' = [handler EXCEPT ![r].at = "build", ![r].rows = account]
      BY <1>5, <2>1 DEF N!ReadAccounts
    <3>2. PICK y : y = handler[r]
      OBVIOUS
    <3>3. PICK x : x = [y EXCEPT !.at = "build", !.rows = account]
      OBVIOUS
    <3>4. x.at = "build" /\ x.rows = account
      BY <1>0, <3>2, <3>3 DEF SetupAsks
    <3>5. handler' = [handler EXCEPT ![r] = x]
      BY <3>1, <3>2, <3>3
    <3> QED BY <3>4, <3>5, OthersGoOn
  <2>2. CASE ~N!Consistent(handler[r].seen, account)
    <3>1. handler' = [handler EXCEPT ![r] = N!Rest]
      BY <1>5, <2>2 DEF N!ReadAccounts
    <3> QED BY <1>r, <3>1, OthersGoOn
  <2> QED BY <2>1, <2>2
<1>6. CASE N!Build(r) \/ N!Fail(r)
  <2>1. handler' = [handler EXCEPT ![r] = N!Rest]
    BY <1>6 DEF N!Build, N!Fail
  <2> QED BY <1>r, <2>1, OthersGoOn
<1> QED BY <1>1, <1>2, <1>3, <1>4, <1>5, <1>6

\* Users begin.
LEMMA UsersProceed ==
  ASSUME SetupInv, NEW r \in Admins,
         \/ N!Put(r) \/ N!AddKeyed(r)
         \/ \E f \in N!Flows : N!Callback(r, f)
         \/ \E a \in 0 .. MaxAccounts : N!AskSwitch(r, a)
  PROVE  /\ \A q \in Reqs : Proceeds(q)
         /\ v10' \in {v10, v10 + 1} /\ (v10' = v10 \/ v10 < MaxGrants)
         /\ v12' = v12 \/ (v12 < MaxBegun /\ v12' = v12 + 1)
         /\ UNCHANGED <<account, legacy, provider, refresh, v13>>
<1> USE DEF N!Begin, Carrying
<1>0. r \in Reqs
  BY DEF Reqs
<1>1. CASE N!Put(r)
  <2>1. PICK c, x : /\ x = [N!Rest EXCEPT !.at = "client", !.do = "put", !.kind = "onedrive", !.client = c, !.grant = v10 + 1]
                                /\ N!Begin(r, x)
    BY <1>1 DEF N!Put
  <2>2. x.at = "client" /\ x.grant = v10 + 1
    BY <2>1 DEF N!Rest
  <2>3. \A q \in Reqs : Proceeds(q)
    BY <1>0, <1>1, <2>1, <2>2, BegunGoesOn DEF N!Put
  <2> QED BY <1>1, <2>1, <2>3 DEF N!Put, N!Handle
<1>2. CASE N!AddKeyed(r)
  <2>1. PICK x : /\ x = [N!Rest EXCEPT !.at = "candidate", !.do = "add", !.kind = "keyed", !.grant = v10 + 1]
                 /\ N!Begin(r, x)
    BY <1>2 DEF N!AddKeyed
  <2>2. x.at = "candidate" /\ x.grant = v10 + 1
    BY <2>1 DEF N!Rest
  <2>3. \A q \in Reqs : Proceeds(q)
    BY <1>0, <1>2, <2>1, <2>2, BegunGoesOn DEF N!AddKeyed
  <2> QED BY <1>2, <2>1, <2>3 DEF N!AddKeyed, N!Handle
<1>3. ASSUME NEW f \in N!Flows, N!Callback(r, f)
      PROVE  /\ \A q \in Reqs : Proceeds(q)
             /\ v10' \in {v10, v10 + 1} /\ (v10' = v10 \/ v10 < MaxGrants)
             /\ v12' = v12 \/ (v12 < MaxBegun /\ v12' = v12 + 1)
             /\ UNCHANGED <<account, legacy, provider, refresh, v13>>
  <2>1. PICK c, x : /\ x = [N!Rest EXCEPT !.at = "exchange", !.do = "callback", !.kind = flow[f].kind, !.flow = f,
                                                      !.grant = v10 + 1,
                                                      !.client = IF flow[f].kind = "onedrive" THEN c ELSE 0]
                                /\ N!Handle(r, x)
    BY <1>3 DEF N!Callback
  <2>2. x.at = "exchange" /\ x.grant = v10 + 1
    BY <2>1 DEF N!Rest
  <2>3. \A q \in Reqs : Proceeds(q)
    BY <1>0, <1>3, <2>1, <2>2, BegunGoesOn DEF N!Callback
  <2> QED BY <1>3, <2>1, <2>3 DEF N!Callback, N!Handle
<1>4. ASSUME NEW a \in 0 .. MaxAccounts, N!AskSwitch(r, a)
      PROVE  /\ \A q \in Reqs : Proceeds(q)
             /\ v10' \in {v10, v10 + 1} /\ (v10' = v10 \/ v10 < MaxGrants)
             /\ v12' = v12 \/ (v12 < MaxBegun /\ v12' = v12 + 1)
             /\ UNCHANGED <<account, legacy, provider, refresh, v13>>
  <2>1. PICK x : x = [N!Rest EXCEPT !.at = "probe", !.do = "switch", !.acc = a] /\ N!Begin(r, x)
    BY <1>4 DEF N!AskSwitch
  <2>2. x.at = "probe"
    BY <2>1 DEF N!Rest
  <2>3. \A q \in Reqs : Proceeds(q)
    BY <1>0, <2>1, <2>2, BegunGoesOn
  <2> QED BY <1>4, <2>1, <2>3 DEF N!AskSwitch, N!Handle
<1> QED BY <1>1, <1>2, <1>3, <1>4

LEMMA SetupRestHolds ==
  ASSUME SetupInv, SetupInv', SetupRest, \A q \in Reqs : Proceeds(q),
         v10' \in {v10, v10 + 1}, v10' = v10 \/ v10 < MaxGrants,
         v12' = v12 \/ (v12 < MaxBegun /\ v12' = v12 + 1), v13' = v13 \/ (v13 < MaxFailures /\ v13' = v13 + 1),
         \A i \in DOMAIN account' : account'[i].grant \in 1 .. v10,
         legacy'.grant \in 0 .. v10,
         \A a \in Slots : provider'[a] \in 0 .. v10,
         \A t \in refresh' : t.grant \in 1 .. v10
  PROVE  SetupRest'
<1>1. v10 \in Nat /\ v10 \in 0 .. MaxGrants /\ v12 \in 0 .. MaxBegun /\ v13 \in 0 .. MaxFailures
      /\ MaxGrants \in Nat /\ MaxBegun \in Nat /\ MaxFailures \in Nat
  BY Bounded DEF SetupRest
<1>2. v10' \in 0 .. MaxGrants /\ v12' \in 0 .. MaxBegun /\ v13' \in 0 .. MaxFailures
  BY <1>1
<1>3. v10' \in Nat /\ v10 <= v10' /\ \A n \in 0 .. v10 : n \in 0 .. v10'
  BY <1>1
<1>4. \A n \in 1 .. v10 : n \in 1 .. v10'
  BY <1>3
<1>5. \A q \in Reqs : Entitled(handler'[q], v10')
  BY <1>1, <1>3, EntitledGoOn
<1>6. /\ \A i \in DOMAIN account' : account'[i].grant \in 1 .. v10'
      /\ \A t \in refresh' : t.grant \in 1 .. v10'
  BY <1>4
<1>7. legacy'.grant \in 0 .. v10' /\ \A a \in Slots : provider'[a] \in 0 .. v10'
  BY <1>3
<1> QED BY <1>2, <1>5, <1>6, <1>7 DEF SetupRest

LEMMA RowsOfAccounts == ASSUME SetupTyped PROVE \A i \in DOMAIN account : account[i] \in SetupRows
<1>1. account \in Seq(SetupRows) /\ DOMAIN account = 1 .. Len(account)
  BY AccountsAreSlots DEF SetupTyped
<1> QED BY <1>1, ElementOfSeq

\* The tables of a row more, and of a row with another grant.
LEMMA GrantsAppended ==
  ASSUME SetupTyped, NEW n, \A i \in DOMAIN account : account[i].grant \in 1 .. n, NEW x, x.grant \in 1 .. n,
         account' = Append(account, x)
  PROVE  \A i \in DOMAIN account' : account'[i].grant \in 1 .. n
<1>1. account \in Seq(SetupRows)
  BY DEF SetupTyped
<1>2. /\ DOMAIN Append(account, x) = 1 .. Len(account) + 1 /\ DOMAIN account = 1 .. Len(account) /\ Len(account) \in Nat
      /\ Append(account, x)[Len(account) + 1] = x
      /\ \A i \in 1 .. Len(account) : Append(account, x)[i] = account[i]
  BY <1>1
<1> QED BY <1>2

LEMMA GrantsReplaced ==
  ASSUME NEW n, \A i \in DOMAIN account : account[i].grant \in 1 .. n, SetupTyped, NEW a, NEW g \in 1 .. n,
         account' = [account EXCEPT ![a].grant = g]
  PROVE  \A i \in DOMAIN account' : account'[i].grant \in 1 .. n
<1>1. \A i \in DOMAIN account : account[i] \in SetupRows
  BY RowsOfAccounts
<1>2. PICK y : y = account[a]
  OBVIOUS
<1>3. account' = [account EXCEPT ![a] = [y EXCEPT !.grant = g]]
  BY <1>2
<1>4. PICK z : z = [y EXCEPT !.grant = g]
  OBVIOUS
<1>5. account' = [account EXCEPT ![a] = z]
  BY <1>3, <1>4
<1>6. a \in DOMAIN account => z.grant = g
  BY <1>1, <1>2, <1>4 DEF SetupRows
<1> QED BY <1>5, <1>6

LEMMA SetupRestKeeps == SetupInv /\ SetupInv' /\ SetupRest /\ [N!Next]_(N!vars) => SetupRest'
<1> SUFFICES ASSUME SetupInv, SetupInv', SetupRest, [N!Next]_(N!vars) PROVE SetupRest'
  OBVIOUS
<1> USE DEF N!tables, N!Quiet, N!At
<1>0. /\ \A i \in DOMAIN account : account[i].grant \in 1 .. v10
      /\ legacy.grant \in 0 .. v10
      /\ \A a \in Slots : provider[a] \in 0 .. v10
      /\ \A t \in refresh : t.grant \in 1 .. v10
      /\ v10 \in Nat /\ SetupTyped
  BY DEF SetupRest, SetupInv, SetupTyped
<1>d. DOMAIN handler = Reqs /\ provider \in [Slots -> Nat]
  BY <1>0 DEF SetupTyped
<1>e. \A r \in Reqs : handler[r].at \in Carrying => handler[r].grant \in 1 .. v10
  BY DEF SetupRest, Entitled
<1>1. ASSUME NEW r \in Reqs,
             \/ N!ExchangeOneDrive(r) \/ N!ExchangeGoogle(r) \/ N!Probed(r) \/ N!SetClient(r) \/ N!SetToken(r) \/ N!ClearSettings(r)
             \/ N!Newest(r) \/ N!Look(r) \/ N!Probe(r) \/ N!Commit(r) \/ N!Forget(r) \/ N!Link(r) \/ N!ReadSetting(r)
      PROVE  SetupRest'
  <2>1. \A q \in Reqs : Proceeds(q)
    BY <1>1, RequestsProceed
  <2>2. UNCHANGED <<provider, refresh, v10, v12, v13>>
    BY <1>1 DEF N!ExchangeOneDrive, N!ExchangeGoogle, N!Probed, N!SetClient, N!SetToken, N!ClearSettings, N!Newest, N!Look, N!Probe,
                N!Commit, N!Forget, N!Link, N!ReadSetting
  <2>3. \A i \in DOMAIN account' : account'[i].grant \in 1 .. v10
    <3>1. CASE N!Commit(r)
      <4>1. PICK a : account' = [i \in DOMAIN account |-> [account[i] EXCEPT !.active = i = a]]
        BY <3>1 DEF N!Commit
      <4>2. \A i \in DOMAIN account : account[i] \in SetupRows
        BY <1>0, RowsOfAccounts
      <4>3. ASSUME NEW i \in DOMAIN account PROVE account'[i].grant = account[i].grant
        <5>1. PICK b, y : b = (i = a) /\ y = account[i]
          OBVIOUS
        <5>2. account'[i] = [y EXCEPT !.active = b]
          BY <4>1, <5>1
        <5> QED BY <4>2, <5>1, <5>2 DEF SetupRows
      <4> QED BY <1>0, <4>1, <4>3
    <3>2. CASE ~N!Commit(r)
      <4>1. UNCHANGED account
        BY <1>1, <3>2 DEF N!ExchangeOneDrive, N!ExchangeGoogle, N!Probed, N!SetClient, N!SetToken, N!ClearSettings, N!Newest, N!Look,
                N!Probe, N!Forget, N!Link, N!ReadSetting
      <4> QED BY <1>0, <4>1
    <3> QED BY <3>1, <3>2
  <2>4. legacy'.grant \in 0 .. v10
    <3>1. CASE N!SetToken(r)
      <4>1. handler[r].grant \in 0 .. v10
        BY <1>e, <3>1 DEF N!SetToken, Carrying
      <4>2. legacy' = [legacy EXCEPT !.grant = handler[r].grant]
        BY <3>1 DEF N!SetToken
      <4> QED BY <1>0, <4>1, <4>2 DEF SetupTyped
    <3>2. CASE N!SetClient(r)
      <4>1. legacy' = [legacy EXCEPT !.client = handler[r].client]
        BY <3>2 DEF N!SetClient
      <4> QED BY <1>0, <4>1 DEF SetupTyped
    <3>3. CASE N!ClearSettings(r) \/ N!Forget(r)
      <4>1. legacy' = N!NoLegacy
        BY <3>3 DEF N!ClearSettings, N!Forget
      <4> QED BY <1>0, <4>1 DEF N!NoLegacy
    <3>4. CASE ~(N!SetToken(r) \/ N!SetClient(r) \/ N!ClearSettings(r) \/ N!Forget(r))
      <4>1. UNCHANGED legacy
        BY <1>1, <3>4 DEF N!ExchangeOneDrive, N!ExchangeGoogle, N!Probed, N!Newest, N!Look, N!Probe, N!Commit, N!Link, N!ReadSetting
      <4> QED BY <1>0, <4>1
    <3> QED BY <3>1, <3>2, <3>3, <3>4
  <2> QED BY <1>0, <2>1, <2>2, <2>3, <2>4, SetupRestHolds
<1>2. ASSUME NEW r \in Reqs,
             N!Write(r) \/ N!Install(r) \/ N!ReadLegacy(r) \/ N!Migrate(r) \/ N!ReadAccounts(r) \/ N!Build(r) \/ N!Fail(r)
      PROVE  SetupRest'
  <2>1. \A q \in Reqs : Proceeds(q)
    BY <1>2, OthersProceed
  <2>2. /\ UNCHANGED <<legacy, refresh, v10, v12>>
        /\ v13' = v13 \/ (v13 < MaxFailures /\ v13' = v13 + 1)
    BY <1>2 DEF N!Write, N!Install, N!ReadLegacy, N!Migrate, N!ReadAccounts, N!Build, N!Fail
  <2>3. \A i \in DOMAIN account' : account'[i].grant \in 1 .. v10
    <3>1. CASE N!Write(r) \/ N!Migrate(r)
      <4>1. handler[r].grant \in 1 .. v10
        BY <1>e, <3>1 DEF N!Write, N!Migrate, Carrying
      <4>2. \/ UNCHANGED account
            \/ \E a : account' = [account EXCEPT ![a].grant = handler[r].grant]
            \/ \E b : account' = Append(account, N!Row(r, b))
        BY <3>1 DEF N!Write, N!Migrate
      <4>3. ASSUME NEW a, account' = [account EXCEPT ![a].grant = handler[r].grant]
            PROVE  \A i \in DOMAIN account' : account'[i].grant \in 1 .. v10
        BY <1>0, <4>1, <4>3, GrantsReplaced
      <4>4. ASSUME NEW b, account' = Append(account, N!Row(r, b))
            PROVE  \A i \in DOMAIN account' : account'[i].grant \in 1 .. v10
        <5>1. PICK x : x = N!Row(r, b)
          OBVIOUS
        <5>2. x.grant \in 1 .. v10
          BY <4>1, <5>1 DEF N!Row
        <5> QED BY <1>0, <4>4, <5>1, <5>2, GrantsAppended
      <4> QED BY <1>0, <4>2, <4>3, <4>4
    <3>2. CASE ~(N!Write(r) \/ N!Migrate(r))
      <4>1. UNCHANGED account
        BY <1>2, <3>2 DEF N!Install, N!ReadLegacy, N!ReadAccounts, N!Build, N!Fail
      <4> QED BY <1>0, <4>1
    <3> QED BY <3>1, <3>2
  <2>4. \A a \in Slots : provider'[a] \in 0 .. v10
    <3>1. CASE N!Install(r)
      <4>1. handler[r].grant \in 0 .. v10
        BY <1>e, <3>1 DEF N!Install, Carrying
      <4>2. provider' = [provider EXCEPT ![handler[r].acc] = handler[r].grant]
        BY <3>1 DEF N!Install
      <4> QED BY <1>0, <1>d, <4>1, <4>2
    <3>2. CASE N!Build(r)
      <4>1. provider' = [a \in DOMAIN provider |-> IF a \in DOMAIN handler[r].rows THEN handler[r].rows[a].grant ELSE provider[a]]
        BY <3>2 DEF N!Build
      <4>2. \A a \in DOMAIN handler[r].rows : handler[r].rows[a].grant \in 0 .. v10
        BY <1>0, <3>2 DEF N!Build, SetupRest, Entitled
      <4> QED BY <1>0, <1>d, <4>1, <4>2
    <3>3. CASE ~(N!Install(r) \/ N!Build(r))
      <4>1. UNCHANGED provider
        BY <1>2, <3>3 DEF N!Write, N!ReadLegacy, N!Migrate, N!ReadAccounts, N!Fail
      <4> QED BY <1>0, <4>1
    <3> QED BY <3>1, <3>2, <3>3
  <2> QED BY <1>0, <2>1, <2>2, <2>3, <2>4, SetupRestHolds
<1>3. ASSUME NEW r \in Admins,
             \/ N!Put(r) \/ N!AddKeyed(r)
             \/ \E f \in N!Flows : N!Callback(r, f)
             \/ \E a \in 0 .. MaxAccounts : N!AskSwitch(r, a)
      PROVE  SetupRest'
  BY <1>0, <1>3, UsersProceed, SetupRestHolds
<1>r. N!Rest.at \notin Carrying \cup {"build"}
  BY DEF N!Rest, Carrying
<1>s. UNCHANGED handler => \A q \in Reqs : Proceeds(q)
  BY DEF Proceeds
<1>4. CASE N!Start
  <2>1. handler' = [handler EXCEPT ![N!Boot] = [N!Rest EXCEPT !.at = "init"]]
    BY <1>4 DEF N!Start
  <2>2. PICK x : x = [N!Rest EXCEPT !.at = "init"]
    OBVIOUS
  <2>3. x.at = "init" /\ handler' = [handler EXCEPT ![N!Boot] = x]
    BY <2>1, <2>2 DEF N!Rest
  <2>4. \A q \in Reqs : Proceeds(q)
    BY <2>3, SetupReqs, OthersGoOn DEF Carrying
  <2> QED BY <1>0, <1>4, <2>4, SetupRestHolds DEF N!Start
<1>5. ASSUME NEW t \in refresh, N!EndRefresh(t) PROVE SetupRest'
  <2>1. /\ UNCHANGED <<legacy, provider, handler, v10, v12, v13>> /\ refresh' = refresh \ {t}
        /\ UNCHANGED account \/ account' = [account EXCEPT ![t.acc].grant = t.grant]
    BY <1>5 DEF N!EndRefresh
  <2>2. \A i \in DOMAIN account' : account'[i].grant \in 1 .. v10
    <3>0. PICK g \in 1 .. v10 : g = t.grant
      BY <1>0, <1>5
    <3>1. PICK a : a = t.acc
      OBVIOUS
    <3>2. account' = [account EXCEPT ![a].grant = g] => \A i \in DOMAIN account' : account'[i].grant \in 1 .. v10
      BY <1>0, GrantsReplaced
    <3> QED BY <1>0, <2>1, <3>0, <3>1, <3>2
  <2> QED BY <1>0, <1>s, <2>1, <2>2, SetupRestHolds
<1>6. CASE N!Crash
  <2>1. /\ UNCHANGED <<account, legacy, v10, v12>> /\ refresh' = {} /\ provider' = [a \in DOMAIN provider |-> 0]
        /\ handler' = [r \in DOMAIN handler |-> N!Rest] /\ v13 < MaxFailures /\ v13' = v13 + 1
    BY <1>6 DEF N!Crash
  <2>2. \A q \in Reqs : Proceeds(q)
    BY <1>d, <1>r, <2>1 DEF Proceeds
  <2>3. \A a \in Slots : provider'[a] \in 0 .. v10
    BY <1>0, <1>d, <2>1
  <2> QED BY <1>0, <2>1, <2>2, <2>3, SetupRestHolds
<1>7. ASSUME NEW f \in N!Flows, \/ N!Expire(f) \/ N!PageTold(f) \/ N!WindowClosed(f)
                                \/ \E k \in {"onedrive", "google"} : N!Issue(f, k)
      PROVE  SetupRest'
  <2>1. /\ UNCHANGED <<account, legacy, provider, refresh, handler, v10, v13>>
        /\ v12' = v12 \/ (v12 < MaxBegun /\ v12' = v12 + 1)
    BY <1>7 DEF N!Expire, N!PageTold, N!WindowClosed, N!Issue
  <2> QED BY <1>0, <1>s, <2>1, SetupRestHolds
<1>8. ASSUME NEW a \in Slots, N!BeginRefresh(a) PROVE SetupRest'
  <2>1. /\ UNCHANGED <<account, legacy, provider, handler, v10, v13>> /\ v12 < MaxBegun /\ v12' = v12 + 1
        /\ refresh' = {[acc |-> a, grant |-> provider[a]]} /\ provider[a] # 0
    BY <1>8 DEF N!BeginRefresh
  <2>2. provider[a] \in 1 .. v10
    BY <1>0, <2>1
  <2>3. \A t \in refresh' : t.grant \in 1 .. v10
    BY <2>1, <2>2
  <2> QED BY <1>0, <1>s, <2>1, <2>3, SetupRestHolds
<1>9. CASE UNCHANGED N!vars
  <2>1. UNCHANGED <<account, legacy, provider, refresh, handler, v10, v12, v13>>
    BY <1>9 DEF N!vars
  <2> QED BY <1>0, <1>s, <2>1, SetupRestHolds
<1>10. CASE N!Work
  <2>1. ASSUME NEW r \in Reqs,
               \/ N!ExchangeOneDrive(r) \/ N!ExchangeGoogle(r) \/ N!Probed(r)
               \/ N!SetClient(r) \/ N!SetToken(r) \/ N!ClearSettings(r) \/ N!Newest(r)
               \/ N!Look(r) \/ N!Write(r) \/ N!Install(r) \/ N!Probe(r) \/ N!Commit(r)
               \/ N!ReadLegacy(r) \/ N!Migrate(r) \/ N!Forget(r) \/ N!Link(r) \/ N!ReadSetting(r) \/ N!ReadAccounts(r) \/ N!Build(r)
        PROVE  SetupRest'
    BY <1>1, <1>2, <2>1
  <2> QED BY <1>d, <1>4, <1>5, <1>10, <2>1 DEF N!Work
<1>11. N!Next => \/ N!Work \/ N!Crash
                 \/ \E f \in N!Flows : \/ N!Expire(f) \/ N!PageTold(f) \/ N!WindowClosed(f)
                                       \/ \E k \in {"onedrive", "google"} : N!Issue(f, k)
                 \/ \E r \in Admins : \/ N!Put(r) \/ N!AddKeyed(r)
                                      \/ \E f \in N!Flows : N!Callback(r, f)
                                      \/ \E a \in 0 .. MaxAccounts : N!AskSwitch(r, a)
                 \/ \E r \in Reqs : N!Fail(r)
                 \/ \E a \in Slots : N!BeginRefresh(a)
  BY <1>d DEF N!Next, Slots
<1> QED BY <1>2, <1>3, <1>6, <1>7, <1>8, <1>9, <1>10, <1>11

LEMMA SetupTypes == SetupInv /\ SetupRest => N!TypeOK
<1> SUFFICES ASSUME SetupInv, SetupRest PROVE N!TypeOK
  OBVIOUS
<1>1. SetupTyped
  BY DEF SetupInv
<1>2. v10 \in 0 .. MaxGrants /\ MaxGrants \in Nat
  BY Bounded DEF SetupRest
<1>3. ASSUME NEW n \in 0 .. v10 PROVE n \in 0 .. MaxGrants
  BY <1>2
<1>4. \A f \in N!Flows : /\ flow[f].is \in {"none", "pending", "used", "gone"}
                         /\ flow[f].page \in {"none", "waiting", "told", "closed"}
  BY <1>1 DEF SetupTyped
<1>5. ASSUME NEW i \in DOMAIN account PROVE account[i].kind \in N!Kinds /\ account[i].grant \in 1 .. MaxGrants
  <2>1. account[i] \in SetupRows
    BY <1>1, RowsOfAccounts
  <2>2. account[i].grant \in 1 .. v10
    BY DEF SetupRest
  <2> QED BY <1>2, <2>1, <2>2 DEF SetupRows
<1>6. legacy.client \in Clients \cup {0} /\ legacy.grant \in 0 .. MaxGrants
  BY <1>1, <1>3 DEF SetupTyped, SetupRest, Owners
<1>7. provider \in [1 .. MaxAccounts -> 0 .. MaxGrants]
  <2>1. \A a \in Slots : provider[a] \in 0 .. MaxGrants
    BY <1>3 DEF SetupRest
  <2>2. provider = [a \in Slots |-> provider[a]]
    BY <1>1 DEF SetupTyped
  <2> QED BY <2>1, <2>2 DEF Slots
<1> QED BY <1>1, <1>4, <1>5, <1>6, <1>7 DEF N!TypeOK, SetupTyped, SetupRest

-----------------------------------------------------------------------------
(* The pool of connections.                                                *)

Lengths(r) == Len(D!Programs[v1[r]])

\* A request of this kind asks for a connection here.
Opens(k, n) == n < Len(D!Programs[k]) /\ D!Programs[k][n + 1] = "open"

\* Whoever waits asks for a connection, and waits once.
PoolInv ==
  /\ v1 \in [Requests -> DOMAIN D!Programs] /\ v2 \in [Requests -> Nat] /\ v3 \in Seq(Requests)
  /\ \A r \in Requests : v2[r] \in 0 .. Lengths(r)
  /\ \A i \in 1 .. Len(v3) : Opens(v1[v3[i]], v2[v3[i]])
  /\ \A i, j \in 1 .. Len(v3) : v3[i] = v3[j] => i = j

LEMMA ProgramsEnd == ASSUME PoolInv, NEW r \in Requests PROVE Lengths(r) \in Nat
<1>1. v1[r] \in DOMAIN D!Programs
  BY DEF PoolInv
<1>2. DOMAIN D!Programs = 1 .. 5
  BY DEF D!Programs
<1>3. v1[r] \in {1, 2, 3, 4, 5}
  BY <1>1, <1>2
<1>4. /\ Len(D!Upload) = 8 /\ Len(D!Switch) = 4 /\ Len(D!Worker) = 6 /\ Len(D!Bot) = 10 /\ Len(D!Chunk) = 10
  BY DEF D!Upload, D!Switch, D!Worker, D!Bot, D!Chunk
<1>5. D!Programs[1] = D!Upload /\ D!Programs[2] = D!Switch /\ D!Programs[3] = D!Worker /\ D!Programs[4] = D!Bot
      /\ D!Programs[5] = D!Chunk
  BY DEF D!Programs
<1> QED BY <1>3, <1>4, <1>5 DEF Lengths

LEMMA PoolStarts == D!Init => PoolInv
<1> SUFFICES ASSUME D!Init PROVE PoolInv
  OBVIOUS
<1>1. v1 \in [Requests -> DOMAIN D!Programs] /\ v2 = [r \in Requests |-> 0] /\ v3 = <<>>
  BY DEF D!Init
<1>2. v3 \in Seq(Requests) /\ Len(v3) = 0
  BY <1>1
<1>3. ASSUME NEW r \in Requests PROVE Lengths(r) \in Nat
  <2>1. v1[r] \in {1, 2, 3, 4, 5}
    BY <1>1 DEF D!Programs
  <2>2. /\ Len(D!Upload) = 8 /\ Len(D!Switch) = 4 /\ Len(D!Worker) = 6 /\ Len(D!Bot) = 10 /\ Len(D!Chunk) = 10
    BY DEF D!Upload, D!Switch, D!Worker, D!Bot, D!Chunk
  <2>3. D!Programs[1] = D!Upload /\ D!Programs[2] = D!Switch /\ D!Programs[3] = D!Worker /\ D!Programs[4] = D!Bot
        /\ D!Programs[5] = D!Chunk
    BY DEF D!Programs
  <2> QED BY <2>1, <2>2, <2>3 DEF Lengths
<1> QED BY <1>1, <1>2, <1>3 DEF PoolInv

\* A request that does not wait goes on.
LEMMA GoesOnInPool ==
  ASSUME PoolInv, NEW r \in Requests, \A i \in 1 .. Len(v3) : v3[i] # r,
         NEW n \in 0 .. Lengths(r), v2' = [v2 EXCEPT ![r] = n], UNCHANGED <<v1, v3>>
  PROVE  PoolInv'
<1> USE DEF PoolInv
<1>1. Lengths(r) \in Nat
  BY ProgramsEnd
<1>2. v2'[r] = n /\ \A s \in Requests \ {r} : v2'[s] = v2[s]
  OBVIOUS
<1>3. \A s : Lengths(s)' = Lengths(s)
  BY DEF Lengths
<1>4. v2' \in [Requests -> Nat] /\ \A s \in Requests : v2'[s] \in 0 .. Lengths(s)
  BY <1>1, <1>2
<1>5. ASSUME NEW i \in 1 .. Len(v3) PROVE Opens(v1[v3[i]], v2'[v3[i]])
  <2>1. v3[i] \in Requests \ {r}
    BY ElementOfSeq
  <2>2. v2'[v3[i]] = v2[v3[i]]
    BY <1>2, <2>1
  <2> QED BY <2>2
<1> QED BY <1>3, <1>4, <1>5

LEMMA PoolSteps == PoolInv /\ [D!Next]_<<v1, v2, v3>> => PoolInv'
<1> SUFFICES ASSUME PoolInv, [D!Next]_<<v1, v2, v3>> PROVE PoolInv'
  OBVIOUS
<1>0. v3 \in Seq(Requests) /\ v2 \in [Requests -> Nat] /\ \A r \in Requests : v2[r] \in 0 .. Lengths(r)
  BY DEF PoolInv
<1>a. ASSUME NEW r \in Requests, D!Following(r) # "end" PROVE v2[r] + 1 \in 0 .. Lengths(r)
  BY <1>0, <1>a, ProgramsEnd DEF D!Following, Lengths
<1>o. \A r : D!Following(r) = "open" <=> Opens(v1[r], v2[r])
  BY DEF D!Following, Opens
<1>b. ASSUME NEW r \in Requests, D!Following(r) # "open", NEW i \in 1 .. Len(v3) PROVE v3[i] # r
  BY <1>b, <1>o DEF PoolInv
<1>1. CASE D!Serve
  <2>1. /\ v3 # <<>> /\ v3' = Tail(v3) /\ UNCHANGED v1
        /\ v2' = [v2 EXCEPT ![Head(v3)] = @ + 1]
    BY <1>1 DEF D!Serve, D!Advance
  <2>2. PICK r : r = Head(v3)
    OBVIOUS
  <2>3. r = v3[1] /\ r \in Requests /\ 1 \in 1 .. Len(v3) /\ Len(v3) \in Nat
    BY <1>0, <2>1, <2>2
  <2>4. /\ v3' \in Seq(Requests) /\ Len(v3') = Len(v3) - 1
        /\ \A i \in 1 .. Len(v3') : v3'[i] = v3[i + 1] /\ i + 1 \in 1 .. Len(v3)
    BY <1>0, <2>1, <2>3
  <2>5. v2[r] < Lengths(r) /\ v2[r] + 1 \in 0 .. Lengths(r)
    <3>1. Opens(v1[r], v2[r])
      BY <2>2, <2>3 DEF PoolInv
    <3>2. D!Following(r) # "end"
      BY <1>o, <3>1
    <3>3. v2[r] < Lengths(r)
      BY <3>1 DEF Opens, Lengths
    <3> QED BY <1>a, <2>3, <3>2, <3>3
  <2>6. v2'[r] = v2[r] + 1 /\ \A s \in Requests \ {r} : v2'[s] = v2[s]
    BY <1>0, <2>1, <2>2
  <2>7. \A s : Lengths(s)' = Lengths(s)
    BY <2>1 DEF Lengths
  <2>8. v2' \in [Requests -> Nat] /\ \A s \in Requests : v2'[s] \in 0 .. Lengths(s)
    BY <1>0, <2>1, <2>2, <2>5, <2>6, <2>3
  <2>9. ASSUME NEW i \in 1 .. Len(v3') PROVE Opens(v1[v3'[i]], v2'[v3'[i]])
    <3>1. PICK s : s = v3[i + 1]
      OBVIOUS
    <3>2. v3'[i] = s /\ i + 1 \in 1 .. Len(v3) /\ i + 1 # 1
      BY <2>4, <3>1
    <3>3. s \in Requests /\ s # r
      BY <1>0, <2>3, <3>1, <3>2, ElementOfSeq DEF PoolInv
    <3>4. v2'[s] = v2[s]
      BY <2>6, <3>3
    <3>5. Opens(v1[s], v2[s])
      BY <3>1, <3>2 DEF PoolInv
    <3> QED BY <3>2, <3>4, <3>5
  <2>10. \A i, j \in 1 .. Len(v3') : v3'[i] = v3'[j] => i = j
    <3> SUFFICES ASSUME NEW i \in 1 .. Len(v3'), NEW j \in 1 .. Len(v3'), v3'[i] = v3'[j] PROVE i = j
      OBVIOUS
    <3>1. v3[i + 1] = v3[j + 1] /\ i + 1 \in 1 .. Len(v3) /\ j + 1 \in 1 .. Len(v3)
      BY <2>4
    <3>2. i + 1 = j + 1
      BY <3>1 DEF PoolInv
    <3> QED BY <3>2
  <2> QED BY <2>1, <2>4, <2>7, <2>8, <2>9, <2>10 DEF PoolInv
<1>2. ASSUME NEW r \in Requests, D!Ask(r) PROVE PoolInv'
  <2>1. /\ D!Following(r) = "open" /\ \A i \in 1 .. Len(v3) : v3[i] # r
        /\ v3' = Append(v3, r) /\ UNCHANGED <<v1, v2>>
    BY <1>2 DEF D!Ask
  <2>2. /\ v3' \in Seq(Requests) /\ Len(v3') = Len(v3) + 1 /\ v3'[Len(v3) + 1] = r /\ Len(v3) \in Nat
        /\ \A i \in 1 .. Len(v3) : v3'[i] = v3[i]
    BY <1>0, <2>1
  <2>3. \A s : Lengths(s)' = Lengths(s)
    BY <2>1 DEF Lengths
  <2>4. Opens(v1[r], v2[r])
    BY <1>o, <2>1
  <2>5. ASSUME NEW i \in 1 .. Len(v3') PROVE Opens(v1[v3'[i]], v2[v3'[i]])
    <3>1. PICK s : s = v3'[i]
      OBVIOUS
    <3>2. s = r \/ (i \in 1 .. Len(v3) /\ s = v3[i])
      BY <2>2, <3>1
    <3>3. Opens(v1[s], v2[s])
      BY <2>4, <3>2 DEF PoolInv
    <3> QED BY <3>1, <3>3
  <2>6. \A i, j \in 1 .. Len(v3') : v3'[i] = v3'[j] => i = j
    BY <2>1, <2>2 DEF PoolInv
  <2> QED BY <1>0, <2>1, <2>2, <2>3, <2>5, <2>6 DEF PoolInv
<1>3. ASSUME NEW r \in Requests, D!LockForUse(r) \/ D!LockForSwitch(r) \/ D!Commit(r) \/ D!Release(r) PROVE PoolInv'
  <2>1. D!Step(r, "share") \/ D!Step(r, "own") \/ D!Step(r, "commit") \/ D!Step(r, "close")
    BY <1>3 DEF D!LockForUse, D!LockForSwitch, D!Commit, D!Release
  <2>2. /\ D!Following(r) \in {"share", "own", "commit", "close"} /\ v2' = [v2 EXCEPT ![r] = @ + 1] /\ UNCHANGED <<v1, v3>>
    BY <2>1 DEF D!Step, D!Advance
  <2>3. PICK n : n = v2[r] + 1
    OBVIOUS
  <2>4. n \in 0 .. Lengths(r) /\ v2' = [v2 EXCEPT ![r] = n]
    BY <1>a, <2>2, <2>3
  <2>5. \A i \in 1 .. Len(v3) : v3[i] # r
    BY <1>b, <2>2
  <2> QED BY <2>2, <2>4, <2>5, GoesOnInPool
<1>4. ASSUME NEW r \in Requests, D!Refused(r) PROVE PoolInv'
  <2>1. /\ D!Following(r) = "share" /\ v2' = [v2 EXCEPT ![r] = Lengths(r)] /\ UNCHANGED <<v1, v3>>
    BY <1>4 DEF D!Refused, Lengths
  <2>2. PICK n : n = Lengths(r)
    OBVIOUS
  <2>3. n \in 0 .. Lengths(r) /\ v2' = [v2 EXCEPT ![r] = n]
    BY <2>1, <2>2, ProgramsEnd
  <2>4. \A i \in 1 .. Len(v3) : v3[i] # r
    BY <1>b, <2>1
  <2> QED BY <2>1, <2>3, <2>4, GoesOnInPool
<1>5. CASE UNCHANGED <<v1, v2, v3>>
  BY <1>5 DEF PoolInv, Lengths
<1> QED BY <1>1, <1>2, <1>3, <1>4, <1>5 DEF D!Next

LEMMA PoolTypes == PoolInv => D!TypeOK
<1> SUFFICES ASSUME PoolInv PROVE D!TypeOK
  OBVIOUS
<1>1. \A i \in 1 .. Len(v3) : v3[i] \in Requests
  BY ElementOfSeq DEF PoolInv
<1> QED BY <1>1 DEF PoolInv, D!TypeOK, Lengths

LEMMA CenterRestStarts == C!Init => CenterRest
BY DEF C!Init, CenterRest

\* What AgreedInv leaves out, and the pool.
AlsoInv == /\ part = "setup" => SetupRest
           /\ part = "center" => CenterRest
           /\ part = "pool" => PoolInv

LEMMA AlsoStarts == Init => AlsoInv
BY SetupRestStarts, CenterRestStarts, PoolStarts DEF Init, AlsoInv

LEMMA AlsoSteps == AgreedInv /\ AgreedInv' /\ AlsoInv /\ [Next]_vars => AlsoInv'
<1> SUFFICES ASSUME AgreedInv, AgreedInv', AlsoInv, [Next]_vars PROVE AlsoInv'
  OBVIOUS
<1>1. part' = part
  BY DEF Next, vars, To3, To10, To12, To13, To14
<1>2. ASSUME part = "setup" PROVE SetupRest'
  <2>1. N!Next \/ UNCHANGED vars
    BY <1>2 DEF Next
  <2>2. [N!Next]_(N!vars)
    BY <2>1 DEF N!vars, N!tables, vars
  <2> QED BY <1>1, <1>2, <2>2, SetupRestKeeps DEF AgreedInv, AlsoInv
<1>3. ASSUME part = "center" PROVE CenterRest'
  <2>1. C!Next \/ UNCHANGED vars
    BY <1>3 DEF Next
  <2>2. [C!Next]_(C!vars)
    BY <2>1 DEF C!vars, C!taskVars, C!askVars, vars
  <2> QED BY <1>3, <2>2, CenterRestKeeps DEF AlsoInv
<1>4. ASSUME part = "pool" PROVE PoolInv'
  <2>1. D!Next \/ UNCHANGED vars
    BY <1>4 DEF Next
  <2>2. [D!Next]_<<v1, v2, v3>>
    BY <2>1 DEF vars
  <2> QED BY <1>4, <2>2, PoolSteps DEF AlsoInv
<1> QED BY <1>1, <1>2, <1>3, <1>4 DEF AlsoInv

\* The values of these five parts are of their types: conversations, the task centre, the
\* deletion of files by the bot, the accounts of storage and the pool of connections.  (The
\* other five are those of ServicesProofs.)
THEOREM AgreedTypes == Spec => [](part \in {"talk", "center", "bot", "setup", "pool"} => TypesHold)
<1>1. AgreedInv /\ AlsoInv => (part \in {"talk", "center", "bot", "setup", "pool"} => TypesHold)
  <2> SUFFICES ASSUME AgreedInv, AlsoInv, part \in {"talk", "center", "bot", "setup", "pool"} PROVE TypesHold
    OBVIOUS
  <2>1. CASE part = "talk"
    BY <2>1, TalkTypes DEF AgreedInv, TypesHold
  <2>2. CASE part = "center"
    BY <2>2, CenterTypes DEF AgreedInv, AlsoInv, TypesHold
  <2>3. CASE part = "bot"
    BY <2>3, BotTypes DEF AgreedInv, TypesHold
  <2>4. CASE part = "setup"
    BY <2>4, SetupTypes DEF AgreedInv, AlsoInv, TypesHold
  <2>5. CASE part = "pool"
    BY <2>5, PoolTypes DEF AlsoInv, TypesHold
  <2> QED BY <2>1, <2>2, <2>3, <2>4, <2>5
<1>2. Init => AgreedInv /\ AlsoInv
  BY AgreedStarts, AlsoStarts
<1>3. AgreedInv /\ AlsoInv /\ [Next]_vars => (AgreedInv /\ AlsoInv)'
  BY AgreedSteps, AlsoSteps
<1> QED BY <1>1, <1>2, <1>3, PTL DEF Spec
=============================================================================
