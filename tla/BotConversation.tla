---------------------------- MODULE BotConversation ----------------------------
(***************************************************************************)
(* A user talks to the bot in one chat (telegramBot.ts): the wizard that   *)
(* collects the terms of a channel download over several messages, the     *)
(* management of subscriptions with its confirmations, and the directory   *)
(* the user gives for the next download (telegramPathSettings.ts).         *)
(*                                                                         *)
(* Every update has its own asynchronous handler, so a message is taken    *)
(* while the handler of an earlier one waits for the database.  A wizard is*)
(* an object: a handler that waits keeps the one it began with, although   *)
(* the user may meanwhile have begun another.  The terms of a download are *)
(* words of the user; that a word is a tag, a date or a directory does not *)
(* matter here.                                                            *)
(***************************************************************************)
EXTENDS Naturals, FiniteSets

CONSTANTS
  Updates,        \* handlers at work at the same time
  Words,          \* what the user may write
  Accounts,       \* storage accounts that may be the default
  Subscriptions,
  MaxWizards,     \* bound on wizards begun
  MaxActs         \* bound on what the user does, most of it with the wizard

VARIABLES
  wizard,    \* the wizard objects
  current,   \* telegramWizardStates of the user: a wizard, or 0
  update,    \* the handlers
  default,   \* the account new writes go to
  jobs,      \* the downloads begun: the terms agreed to, and those of the job
  asked,     \* pendingPathInputState
  stored,    \* rows of telegram_path_states
  given,     \* directories given for one download so far
  taken,     \* downloads so far that took one
  subs,      \* subscriptions the user has
  tokens,    \* pendingSubscriptionCancels, by the subscription named
  prompts,   \* confirmations shown so far
  ended,     \* subscriptions ended so far
  budget     \* what the user may still do, by topic

wizardVars == <<wizard, current, default, jobs>>
pathVars   == <<asked, stored, given, taken>>
subVars    == <<subs, tokens, prompts, ended>>
vars       == <<wizardVars, pathVars, subVars, update, budget>>

NoWizard == [kind |-> "none", step |-> "mode", source |-> FALSE, sub |-> 0, folder |-> 0, comments |-> 0,
             since |-> 0, word |-> 0, target |-> 0, shown |-> {}, hasty |-> FALSE]
Rest     == [pc |-> "off", w |-> 0, word |-> 0, mode |-> "once", target |-> 0, sub |-> 0]

Modes == {"once", "session"}

Budgets == {[wizard |-> MaxActs, paths |-> 0, subs |-> 0], [wizard |-> 2, paths |-> 3, subs |-> 0],
            [wizard |-> 2, paths |-> 0, subs |-> 3]}

Init ==
  /\ wizard = [w \in 1..MaxWizards |-> NoWizard] /\ current = 0
  /\ update = [h \in Updates |-> Rest]
  /\ default \in Accounts
  /\ jobs = {}
  /\ asked = "none" /\ stored = [m \in Modes |-> 0] /\ given = 0 /\ taken = 0
  /\ subs = Subscriptions
  /\ tokens = [s \in Subscriptions |-> 0]
  /\ prompts = [s \in Subscriptions |-> 0] /\ ended = [s \in Subscriptions |-> 0]
  /\ budget \in Budgets

Act(topic) == budget[topic] > 0 /\ budget' = [budget EXCEPT ![topic] = @ - 1]
Goto(h, r) == update' = [update EXCEPT ![h] = r]
Leave(h)  == Goto(h, Rest)
Idle      == {h \in Updates : update[h].pc = "off"}
Busy(w)   == \E h \in Updates \ Idle : update[h].w = w

\* A handler for the next message: it does not matter which.
Free(h) == Idle # {} /\ h = CHOOSE g \in Idle : TRUE

\* What a prompt shows and a job is given.
Terms(s) == [folder |-> s.folder, comments |-> s.comments, since |-> s.since, word |-> s.word, target |-> s.target]

\* The step in which the wizard asks for the tag or the first date.
Question(s) == IF s.kind = "tag" THEN "word" ELSE "since"

-----------------------------------------------------------------------------
(* The wizard.                                                             *)

Fresh == {w \in 1..MaxWizards : wizard[w].kind = "none"}
Begin(s) == /\ Fresh # {}
            /\ LET w == CHOOSE v \in Fresh : \A u \in Fresh : v <= u
               IN  /\ wizard' = [wizard EXCEPT ![w] = s]
                   /\ current' = w

\* startTelegramWizard, once the sender is known to be authenticated.
Start(kind) ==
  /\ Act("wizard")
  /\ Begin([NoWizard EXCEPT !.kind = kind, !.step = IF kind = "download" THEN "mode" ELSE "source"])
  /\ UNCHANGED <<default, jobs, update>> /\ UNCHANGED pathVars /\ UNCHANGED subVars

\* A message that is no command goes to the wizard, unless a directory is awaited.
Heard(step) == Act("wizard") /\ asked = "none" /\ current # 0 /\ wizard[current].step = step

\* The user did not wait for the answer to what was said before.
Now == [wizard[current] EXCEPT !.hasty = @ \/ Busy(current)]

Say(s) == /\ wizard' = [wizard EXCEPT ![current] = s]
          /\ UNCHANGED <<current, default, jobs>> /\ UNCHANGED pathVars /\ UNCHANGED subVars

AnswerMode(kind) == /\ Heard("mode") /\ Say([Now EXCEPT !.kind = kind, !.step = "source"])
                    /\ UNCHANGED update

\* The channel; the user may answer the question of comments with it.
AnswerSource(comments) ==
  /\ Heard("source")
  /\ Say([Now EXCEPT !.source = TRUE, !.step = "path",
                     !.comments = IF comments = 0 THEN @ ELSE comments])
  /\ UNCHANGED update

\* After the directory: the comments, unless the answer to them is known.
AfterPath(s) == IF s.comments = 0 THEN "comments" ELSE Question(s)

\* At the end of managing a subscription the wizard is over before the subscription is
\* written; the directory of one the user has is only replaced.
Over(h, s) == /\ wizard' = [wizard EXCEPT ![IF update[h].w = 0 THEN current ELSE update[h].w] = s]
              /\ current' = 0
              /\ Goto(h, [Rest EXCEPT !.pc = IF s.sub = 0 THEN "subscribe" ELSE "off"])

SkipPath(h) ==
  /\ Heard("path") /\ Free(h)
  /\ LET s == [Now EXCEPT !.folder = 0]
     IN  IF s.kind = "subs"
         THEN Over(h, s)
         ELSE /\ wizard' = [wizard EXCEPT ![current] = [s EXCEPT !.step = AfterPath(s)]]
              /\ UNCHANGED <<update, current>>
  /\ UNCHANGED <<default, jobs>> /\ UNCHANGED pathVars /\ UNCHANGED subVars

\* A directory is first remembered among the recent ones, which takes time.
AnswerPath(h, word) ==
  /\ Heard("path") /\ Free(h)
  /\ Say(Now)
  /\ Goto(h, [Rest EXCEPT !.pc = "path", !.w = current, !.word = word])

PathKept(h) ==
  LET u == update[h]
      s == [wizard[u.w] EXCEPT !.folder = u.word]
  IN  /\ u.pc = "path"
      /\ IF s.kind = "subs"
         THEN Over(h, s)
         ELSE /\ wizard' = [wizard EXCEPT ![u.w] =
                    IF s.kind \in {"date", "tag"} THEN [s EXCEPT !.step = AfterPath(s)] ELSE s]
              /\ Leave(h)
              /\ UNCHANGED current
      /\ UNCHANGED <<default, jobs, budget>> /\ UNCHANGED pathVars /\ UNCHANGED subVars

PathRefused(h) ==
  /\ update[h].pc = "path"
  /\ Leave(h)
  /\ UNCHANGED <<wizard, current, default, jobs, budget>> /\ UNCHANGED pathVars /\ UNCHANGED subVars

AnswerComments(comments) ==
  /\ Heard("comments")
  /\ Say([Now EXCEPT !.comments = comments, !.step = Question(Now)])
  /\ UNCHANGED update

AnswerSince(word) == /\ Heard("since") /\ Say([Now EXCEPT !.since = word, !.step = "until"])
                     /\ UNCHANGED update

\* The last answer: the default account is taken at once, the names of the accounts are
\* read, then the terms are shown.
AnswerWord(h, word) ==
  /\ Heard("word") \/ Heard("until")
  /\ Free(h)
  /\ Say([Now EXCEPT !.word = word])
  /\ Goto(h, [Rest EXCEPT !.pc = "target", !.w = current, !.target = default])

Targeted(h) ==
  LET u == update[h]
      s == [wizard[u.w] EXCEPT !.target = u.target, !.step = "confirm"]
  IN  /\ u.pc = "target"
      /\ wizard' = [wizard EXCEPT ![u.w] = [s EXCEPT !.shown = {Terms(s)}]]
      /\ Leave(h)
      /\ UNCHANGED <<current, default, jobs, budget>> /\ UNCHANGED pathVars /\ UNCHANGED subVars

\* The user agrees: the wizard is over, the agreement is acknowledged, then the job is made.
AnswerConfirm(h) ==
  /\ Heard("confirm") /\ Free(h)
  /\ wizard' = [wizard EXCEPT ![current] = Now]
  /\ current' = 0
  /\ Goto(h, [Rest EXCEPT !.pc = "enqueue", !.w = current])
  /\ UNCHANGED <<default, jobs>> /\ UNCHANGED pathVars /\ UNCHANGED subVars

\* Without a channel the job is refused.
Queue(h, s, target) ==
  /\ update[h].pc = "enqueue"
  /\ jobs' = IF s.source
             THEN jobs \cup {[terms |-> [Terms(s) EXCEPT !.target = target], agreed |-> s.shown, hasty |-> s.hasty]}
             ELSE jobs
  /\ Leave(h)
  /\ UNCHANGED <<wizard, current, default, budget>> /\ UNCHANGED pathVars /\ UNCHANGED subVars

\* A slip: the job takes the default account of the moment.
EnqueueToDefault(h) == LET s == wizard[update[h].w] IN Queue(h, s, default)

Enqueue(h) == update[h].w # 0 /\ LET s == wizard[update[h].w] IN Queue(h, s, s.target)

\* "Cancel" in words ends the wait for a directory or else the wizard; the button ends
\* the wizard.
CancelSaid ==
  /\ Act("wizard")
  /\ IF asked # "none" THEN asked' = "none" /\ UNCHANGED current ELSE current' = 0 /\ UNCHANGED asked
  /\ UNCHANGED <<wizard, default, jobs, stored, given, taken, update>> /\ UNCHANGED subVars

CancelPressed ==
  /\ Act("wizard") /\ current # 0
  /\ current' = 0
  /\ UNCHANGED <<wizard, default, jobs, update>> /\ UNCHANGED pathVars /\ UNCHANGED subVars

\* The buttons of a message act on the wizard of the moment, or on a new one.
Shown == IF current = 0 THEN [NoWizard EXCEPT !.kind = "download"] ELSE wizard[current]

Pressed(after) ==
  /\ Act("wizard")
  /\ IF current = 0 THEN Begin(after) ELSE wizard' = [wizard EXCEPT ![current] = after] /\ UNCHANGED current
  /\ UNCHANGED <<default, jobs, update>> /\ UNCHANGED pathVars /\ UNCHANGED subVars

ModePressed(kind) == Pressed([Shown EXCEPT !.kind = kind, !.step = "source"])

CommentsPressed(comments) == Pressed([Shown EXCEPT !.comments = comments, !.step = Question(Shown)])

\* The default account is switched, here or in the web interface.
SwitchDefault ==
  /\ Act("wizard")
  /\ \E a \in Accounts \ {default} : default' = a
  /\ UNCHANGED <<wizard, current, jobs, update>> /\ UNCHANGED pathVars /\ UNCHANGED subVars

-----------------------------------------------------------------------------
(* The directory of the next download.                                     *)

AskPath(mode) ==
  /\ Act("paths")
  /\ asked' = mode
  /\ UNCHANGED <<stored, given, taken, update>> /\ UNCHANGED wizardVars /\ UNCHANGED subVars

\* A word while a directory is awaited, or /p and /ps.
GivePath(h, mode, word) ==
  /\ Act("paths") /\ Free(h)
  /\ Goto(h, [Rest EXCEPT !.pc = "row", !.mode = mode, !.word = word])
  /\ UNCHANGED pathVars /\ UNCHANGED wizardVars /\ UNCHANGED subVars

RowWritten(h) ==
  LET u == update[h]
  IN  /\ u.pc = "row"
      /\ stored' = [stored EXCEPT ![u.mode] = u.word]
      /\ given' = IF u.mode = "once" THEN given + 1 ELSE given
      /\ Goto(h, [Rest EXCEPT !.pc = "written"])
      /\ UNCHANGED <<asked, taken, budget>> /\ UNCHANGED wizardVars /\ UNCHANGED subVars

\* The wait for a directory is over only now: until then every word is taken as one.
PathAnswered(h) ==
  /\ update[h].pc = "written"
  /\ \E a \in {asked, "none"} : asked' = a
  /\ Leave(h)
  /\ UNCHANGED <<stored, given, taken, budget>> /\ UNCHANGED wizardVars /\ UNCHANGED subVars

ClearPaths ==
  /\ Act("paths")
  /\ stored' = [m \in Modes |-> 0]
  /\ UNCHANGED <<asked, given, taken, update>> /\ UNCHANGED wizardVars /\ UNCHANGED subVars

PathExpires(mode) ==
  /\ stored[mode] # 0
  /\ stored' = [stored EXCEPT ![mode] = 0]
  /\ UNCHANGED <<asked, given, taken, update, budget>> /\ UNCHANGED wizardVars /\ UNCHANGED subVars

\* A download begins (resolveTelegramStorageFolderPersistent): it takes the directory
\* given for one download, in one statement; otherwise that of the session or none.
PathTaken ==
  /\ Act("paths") /\ stored["once"] # 0
  /\ stored' = [stored EXCEPT !["once"] = 0]
  /\ taken' = taken + 1
  /\ UNCHANGED <<asked, given, update>> /\ UNCHANGED wizardVars /\ UNCHANGED subVars

-----------------------------------------------------------------------------
(* Subscriptions.                                                          *)

\* A confirmation that names the subscription is shown, by the button of the list or by
\* /tg_unsub.
Prompt(s) == /\ prompts' = [prompts EXCEPT ![s] = @ + 1]
             /\ tokens' = [tokens EXCEPT ![s] = @ + 1]

AskUnsubscribe(s) ==
  /\ Act("subs") /\ s \in subs
  /\ Prompt(s)
  /\ UNCHANGED <<subs, ended, update>> /\ UNCHANGED wizardVars /\ UNCHANGED pathVars

\* A number is looked up in the list as it is now, not as it was shown.
AnswerNumber(h) ==
  /\ Heard("source") /\ wizard[current].kind = "subs" /\ Free(h)
  /\ Say([Now EXCEPT !.source = TRUE])
  /\ Goto(h, [Rest EXCEPT !.pc = "number", !.w = current])

NumberFound(h) ==
  /\ update[h].pc = "number"
  /\ Leave(h)
  /\ \/ \E s \in subs : current' = 0 /\ Prompt(s)
     \/ UNCHANGED <<current, tokens, prompts>>
  /\ UNCHANGED <<wizard, default, jobs, subs, ended, budget>> /\ UNCHANGED pathVars

\* The button of a confirmation: the list is read, and only then the token is used up.
ConfirmUnsubscribe(h, s) ==
  /\ Act("subs") /\ Free(h) /\ prompts[s] > 0
  /\ Goto(h, [Rest EXCEPT !.pc = IF s \in subs THEN "listed" ELSE "unlisted", !.sub = s])
  /\ UNCHANGED wizardVars /\ UNCHANGED pathVars /\ UNCHANGED subVars

TokenUsed(h) ==
  LET u == update[h]
  IN  /\ u.pc \in {"listed", "unlisted"}
      /\ IF tokens[u.sub] > 0 /\ u.pc = "listed" THEN Goto(h, [u EXCEPT !.pc = "unsubscribe"]) ELSE Leave(h)
      /\ tokens' = [tokens EXCEPT ![u.sub] = IF @ = 0 THEN 0 ELSE @ - 1]
      /\ UNCHANGED <<subs, prompts, ended, budget>> /\ UNCHANGED wizardVars /\ UNCHANGED pathVars

Unsubscribed(h) ==
  LET s == update[h].sub
  IN  /\ update[h].pc = "unsubscribe"
      /\ subs' = subs \ {s}
      /\ ended' = [ended EXCEPT ![s] = @ + 1]
      /\ Leave(h)
      /\ UNCHANGED <<tokens, prompts, budget>> /\ UNCHANGED wizardVars /\ UNCHANGED pathVars

\* The way back from a confirmation, or its two minutes, use the token up too.
TokenLost(s) ==
  /\ tokens[s] > 0
  /\ tokens' = [tokens EXCEPT ![s] = @ - 1]
  /\ UNCHANGED <<subs, prompts, ended, update, budget>> /\ UNCHANGED wizardVars /\ UNCHANGED pathVars

\* The button for the directory of a subscription begins a wizard at that step.
FolderPressed(s) ==
  /\ Act("subs") /\ s \in subs
  /\ Begin([NoWizard EXCEPT !.kind = "subs", !.step = "path", !.source = TRUE, !.sub = s])
  /\ UNCHANGED <<default, jobs, update>> /\ UNCHANGED pathVars /\ UNCHANGED subVars

\* A channel is subscribed to, for the first time or again; it may also fail.
Subscribed(h) ==
  /\ update[h].pc = "subscribe"
  /\ \E s \in Subscriptions : subs' = subs \cup {s} \/ UNCHANGED subs
  /\ Leave(h)
  /\ UNCHANGED <<tokens, prompts, ended, budget>> /\ UNCHANGED wizardVars /\ UNCHANGED pathVars

-----------------------------------------------------------------------------
Continue(h) == \/ PathKept(h) \/ PathRefused(h) \/ Targeted(h) \/ Enqueue(h)
               \/ RowWritten(h) \/ PathAnswered(h)
               \/ NumberFound(h) \/ TokenUsed(h) \/ Unsubscribed(h) \/ Subscribed(h)

Message(h) == \/ \E word \in Words : \/ AnswerPath(h, word) \/ AnswerWord(h, word)
                                     \/ \E mode \in Modes : GivePath(h, mode, word)
              \/ AnswerConfirm(h) \/ AnswerNumber(h) \/ SkipPath(h)
              \/ \E s \in Subscriptions : ConfirmUnsubscribe(h, s)

Spoken == \/ \E kind \in {"subs", "download", "date", "tag"} : Start(kind)
          \/ \E kind \in {"date", "tag"} : AnswerMode(kind) \/ ModePressed(kind)
          \/ \E c \in Words \cup {0} : AnswerSource(c)
          \/ \E c \in Words : AnswerComments(c) \/ CommentsPressed(c)
          \/ \E word \in Words : AnswerSince(word)
          \/ CancelSaid \/ CancelPressed \/ SwitchDefault
          \/ \E mode \in Modes : AskPath(mode)
          \/ ClearPaths \/ PathTaken
          \/ \E s \in Subscriptions : AskUnsubscribe(s) \/ FolderPressed(s)

Next == \/ \E h \in Updates : Continue(h) \/ Message(h)
        \/ Spoken
        \/ \E mode \in Modes : PathExpires(mode)
        \/ \E s \in Subscriptions : TokenLost(s)

Work == \E h \in Updates : Continue(h)

Spec == Init /\ [][Next]_vars /\ WF_vars(Work)

-----------------------------------------------------------------------------
\* The values of the conversation are of their types.
TypeOK == /\ \A w \in 1..MaxWizards :
               LET s == wizard[w]
               IN  /\ s.kind \in {"none", "subs", "download", "date", "tag"}
                   /\ s.step \in {"mode", "source", "path", "comments", "since", "until", "word", "confirm"}
                   /\ {s.folder, s.comments, s.since, s.word} \subseteq Words \cup {0}
                   /\ s.sub \in Subscriptions \cup {0} /\ s.target \in Accounts \cup {0}
          /\ current \in 0..MaxWizards /\ default \in Accounts
          /\ asked \in Modes \cup {"none"} /\ stored \in [Modes -> Words \cup {0}]
          /\ taken \in Nat /\ given \in Nat
          /\ subs \subseteq Subscriptions
          /\ tokens \in [Subscriptions -> Nat] /\ ended \in [Subscriptions -> Nat]

\* What the user agreed to is what is downloaded, and where to: the terms of a job are the
\* last the wizard showed, although the default account may have been switched since and
\* another wizard begun.  A user who does not wait for the answer to a message gives this
\* up: an earlier message may still change a wizard that has been agreed to.
AgreedIsDone == \A j \in jobs : j.hasty \/ j.agreed = {j.terms}

\* A subscription ends only by a confirmation that named it, and each works once, however
\* often its button is pressed.
ConfirmedOnce == \A s \in Subscriptions :
                   ended[s] + tokens[s] + Cardinality({h \in Updates : update[h].pc = "unsubscribe" /\ update[h].sub = s})
                     <= prompts[s]

\* A directory given for one download serves one.
GivenServesOne == taken + (IF stored["once"] # 0 THEN 1 ELSE 0) <= given

Sound == AgreedIsDone /\ ConfirmedOnce /\ GivenServesOne

\* Every message has been seen to.
Answered == Idle = Updates
=============================================================================
