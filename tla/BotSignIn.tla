------------------------------- MODULE BotSignIn -------------------------------
(***************************************************************************)
(* Who may use the bot: the keyboard on which the PIN is entered and its   *)
(* lock, the list of allowed users, which the administrator may replace    *)
(* meanwhile, the code of the second factor, and the users kept as signed  *)
(* in, in the database and in memory (telegramBot.ts, telegramState.ts,    *)
(* authSettings.ts).                                                       *)
(*                                                                         *)
(* Failures are counted within one window and for each user; the lock that *)
(* counts them over all users works in the same way and is left out.  The  *)
(* set-up of the second factor is in WebSessions.                          *)
(***************************************************************************)
EXTENDS Naturals, FiniteSets

CONSTANTS
  Users,
  Hands,        \* handlers of updates at work at the same time
  Length,       \* digits of the PIN (four)
  MaxFailed,    \* TELEGRAM_PIN_FAIL_MAX
  MaxActs,      \* bound on what users and the administrator do
  MaxErrors     \* bound on statements that fail, and crashes

VARIABLES
  auto,      \* TELEGRAM_AUTO_ALLOW_FIRST_USER
  allowed,   \* telegram_allowed_user_ids
  saved,     \* history: the list the administrator saved last, and whoever was on one
  crossed,   \* history: the first user was allowed while the administrator saved
  kept,      \* rows of telegram_auth
  served,    \* authenticatedUsers
  factor,    \* the second factor is on
  entry,     \* passwordInputState: digits entered, and whether they are right so far
  failed,    \* pinFailureState: failures counted
  locked,    \* users whose PIN is locked
  waiting,   \* users of whom a code is awaited
  proved,    \* history: users who entered the PIN
  passed,    \* history: those of them who entered the code where one was asked
  hand,
  acts, errors

people == <<allowed, saved, crossed, kept, served>>
pins   == <<entry, failed, locked>>
history == <<proved, passed>>
vars == <<auto, people, factor, pins, waiting, history, hand, acts, errors>>

Empty == [digits |-> 0, right |-> TRUE]
Rest  == [at |-> "off", user |-> 0, seen |-> {}, own |-> TRUE]

Init ==
  /\ auto \in BOOLEAN
  /\ allowed \in {{}, {CHOOSE u \in Users : TRUE}} /\ saved = [last |-> allowed, ever |-> allowed] /\ crossed = FALSE
  /\ kept = {} /\ served = {}
  /\ factor \in BOOLEAN
  /\ entry = [u \in Users |-> Empty] /\ failed = [u \in Users |-> 0] /\ locked = {}
  /\ waiting = {} /\ proved = {} /\ passed = {}
  /\ hand = [h \in Hands |-> Rest]
  /\ acts = 0 /\ errors = 0

Goto(h, a)  == hand' = [hand EXCEPT ![h].at = a]
Leave(h)    == hand' = [hand EXCEPT ![h] = Rest]
Free(h)     == hand[h].at = "off" /\ \A g \in Hands : g < h => hand[g].at # "off"
Act         == acts < MaxActs /\ acts' = acts + 1 /\ UNCHANGED errors
Fails       == errors < MaxErrors /\ errors' = errors + 1
Quiet       == UNCHANGED <<acts, errors>>
\* An empty list refuses only those who sign in.
Refuses(list, u) == list # {} /\ u \notin list

-----------------------------------------------------------------------------
(* The keyboard.                                                           *)

\* A digit is right or wrong; the last one begins the verification.  Until that has ended
\* the entry stays full, and a further digit changes nothing and begins another.
Digit(h, u) ==
  /\ Act /\ Free(h) /\ u \notin locked
  /\ \E right \in BOOLEAN :
       LET full == entry[u].digits = Length
           new  == IF full THEN entry[u]
                   ELSE [digits |-> entry[u].digits + 1, right |-> entry[u].right /\ right] IN
       /\ full => right
       /\ entry' = [entry EXCEPT ![u] = new]
       /\ hand' = IF new.digits < Length THEN hand
                  ELSE [hand EXCEPT ![h] = [Rest EXCEPT !.at = IF new.right THEN "right" ELSE "wrong",
                                                   !.user = u]]
  /\ UNCHANGED <<auto, people, factor, failed, locked, waiting, history>>

Backspace(u) ==
  /\ Act /\ u \notin locked /\ entry[u].digits > 0
  /\ \E right \in {TRUE, entry[u].right} :
       entry' = [entry EXCEPT ![u] = [digits |-> @.digits - 1, right |-> right \/ @.digits = 1]]
  /\ UNCHANGED <<auto, people, factor, failed, locked, waiting, history, hand>>

\* The entry of a user is dropped; verifications under way have one of their own from then on.
Dropped(hs, u) == [g \in Hands |-> IF hs[g].user = u THEN [hs[g] EXCEPT !.own = FALSE] ELSE hs[g]]

Cancel(u) ==
  /\ Act /\ u \notin locked /\ entry[u].digits > 0
  /\ entry' = [entry EXCEPT ![u] = Empty]
  /\ hand' = Dropped(hand, u)
  /\ UNCHANGED <<auto, people, factor, failed, locked, waiting, history>>

\* What an unsuccessful verification does to the entry.
Emptied(h) == IF hand[h].own THEN [entry EXCEPT ![hand[h].user] = Empty] ELSE entry

\* A wrong PIN clears the entry and counts; a verification that was under way when the lock
\* fell still counts.
Wrong(h) ==
  /\ hand[h].at = "wrong"
  /\ LET u == hand[h].user
         n == IF failed[u] < MaxFailed THEN failed[u] + 1 ELSE MaxFailed IN
     /\ entry' = Emptied(h)
     /\ failed' = [failed EXCEPT ![u] = n]
     /\ locked' = IF n = MaxFailed THEN locked \cup {u} ELSE locked
  /\ Leave(h)
  /\ UNCHANGED <<auto, people, factor, waiting, history>> /\ Quiet

\* The lock ends, and with it the count.
Unlock(u) ==
  /\ u \in locked
  /\ locked' = locked \ {u} /\ failed' = [failed EXCEPT ![u] = 0]
  /\ UNCHANGED <<auto, people, factor, entry, waiting, history, hand>> /\ Quiet

\* A right PIN: is the user allowed?
Right(h) ==
  /\ hand[h].at = "right"
  /\ LET u == hand[h].user IN
     /\ proved' = proved \cup {u}
     /\ Goto(h, IF u \in allowed THEN "clear" ELSE IF allowed = {} /\ auto THEN "count" ELSE "refuse")
  /\ UNCHANGED <<auto, people, factor, pins, waiting, passed>> /\ Quiet

\* Nobody has signed in yet and nobody is on the list: the first user is put on it.
Count(h) ==
  /\ hand[h].at = "count"
  /\ Goto(h, IF kept = {} THEN "list" ELSE "refuse")
  /\ UNCHANGED <<auto, people, factor, pins, waiting, history>> /\ Quiet

ReadList(h) ==
  /\ hand[h].at = "list"
  /\ hand' = [hand EXCEPT ![h].at = "allow", ![h].seen = allowed]
  /\ UNCHANGED <<auto, people, factor, pins, waiting, history>> /\ Quiet

\* The whole list is written as it was read, with the user added.
AllowFirst(h) ==
  /\ hand[h].at = "allow"
  /\ allowed' = hand[h].seen \cup {hand[h].user}
  /\ crossed' = (crossed \/ allowed # hand[h].seen \/ saved.last # {})
  /\ Goto(h, "clear")
  /\ UNCHANGED <<auto, saved, kept, served, factor, pins, waiting, history>> /\ Quiet

Refuse(h) ==
  /\ hand[h].at = "refuse"
  /\ entry' = Emptied(h)
  /\ Leave(h)
  /\ UNCHANGED <<auto, people, factor, failed, locked, waiting, history>> /\ Quiet

\* The failures and the entry are forgotten, then the second factor is asked about.
Clear(h) ==
  /\ hand[h].at = "clear"
  /\ LET u == hand[h].user IN
     /\ entry' = [entry EXCEPT ![u] = Empty]
     /\ failed' = [failed EXCEPT ![u] = 0] /\ locked' = locked \ {u}
     /\ hand' = Dropped([hand EXCEPT ![h].at = "factor"], u)
  /\ UNCHANGED <<auto, people, factor, waiting, history>> /\ Quiet

AskFactor(h) ==
  /\ hand[h].at = "factor"
  /\ LET u == hand[h].user IN
     IF factor THEN waiting' = waiting \cup {u} /\ Leave(h) /\ UNCHANGED passed
     ELSE passed' = passed \cup {u} /\ Goto(h, "keep") /\ UNCHANGED waiting
  /\ UNCHANGED <<auto, people, factor, pins, proved>> /\ Quiet

-----------------------------------------------------------------------------
(* The code.                                                               *)

\* A message of six digits from one whose code is awaited.
Code(h, u) ==
  /\ Act /\ Free(h) /\ u \in waiting
  /\ hand' = [hand EXCEPT ![h] = [Rest EXCEPT !.at = "code", !.user = u]]
  /\ UNCHANGED <<auto, people, factor, pins, waiting, history>>

\* The state of the user is deleted only when the messages have been.
CodeVerified(h) ==
  /\ hand[h].at = "code"
  /\ \/ Goto(h, "keep") /\ passed' = passed \cup ({hand[h].user} \cap waiting)
     \/ Leave(h) /\ UNCHANGED passed
  /\ UNCHANGED <<auto, people, factor, pins, waiting, proved>> /\ Quiet

\* persistAuthenticatedUser: the row, then memory; the bot congratulates in any case.
Keep(h) ==
  /\ hand[h].at = "keep"
  /\ \/ /\ kept' = kept \cup {hand[h].user} /\ Goto(h, "remember") /\ UNCHANGED errors
     \/ /\ Fails /\ Goto(h, "tidy") /\ UNCHANGED kept
  /\ UNCHANGED <<auto, allowed, saved, crossed, served, factor, pins, waiting, history, acts>>

Remember(h) ==
  /\ hand[h].at = "remember"
  /\ served' = served \cup {hand[h].user}
  /\ Goto(h, "tidy")
  /\ UNCHANGED <<auto, allowed, saved, crossed, kept, factor, pins, waiting, history>> /\ Quiet

Tidy(h) ==
  /\ hand[h].at = "tidy"
  /\ waiting' = waiting \ {hand[h].user}
  /\ Leave(h)
  /\ UNCHANGED <<auto, people, factor, pins, history>> /\ Quiet

-----------------------------------------------------------------------------
(* The list, and those who are not on it any more.                         *)

\* The administrator saves a list, which may not be empty.
Save(list) ==
  /\ Act /\ list # {} /\ list # allowed
  /\ allowed' = list /\ saved' = [last |-> list, ever |-> saved.ever \cup list]
  /\ UNCHANGED <<auto, crossed, kept, served, factor, pins, waiting, history, hand>>

\* isAuthenticatedAsync, before anything is done for a user: one who is served and not on
\* the list is forgotten, first in memory.
Check(h, u) ==
  /\ u \in served /\ Free(h) /\ Refuses(allowed, u)
  /\ served' = served \ {u}
  /\ hand' = [hand EXCEPT ![h] = [Rest EXCEPT !.at = "revoke", !.user = u]]
  /\ UNCHANGED <<auto, allowed, saved, crossed, kept, factor, pins, waiting, history>> /\ Quiet

Revoke(h) ==
  /\ hand[h].at = "revoke"
  /\ \/ kept' = kept \ {hand[h].user} /\ UNCHANGED errors
     \/ Fails /\ UNCHANGED kept
  /\ Leave(h)
  /\ UNCHANGED <<auto, allowed, saved, crossed, served, factor, pins, waiting, history, acts>>

\* loadAuthenticatedUsers when the process starts again; entries and locks are lost.
Restart ==
  /\ Fails
  /\ hand' = [h \in Hands |-> Rest]
  /\ entry' = [u \in Users |-> Empty] /\ failed' = [u \in Users |-> 0] /\ locked' = {}
  /\ waiting' = {}
  /\ served' = {u \in kept : ~Refuses(allowed, u)} /\ kept' = served'
  /\ UNCHANGED <<auto, allowed, saved, crossed, factor, history, acts>>

Work == \E h \in Hands :
  \/ Wrong(h) \/ Right(h) \/ Count(h) \/ ReadList(h) \/ AllowFirst(h) \/ Refuse(h) \/ Clear(h)
  \/ AskFactor(h) \/ CodeVerified(h) \/ Keep(h) \/ Remember(h) \/ Tidy(h) \/ Revoke(h)

Next ==
  \/ Work \/ Restart
  \/ \E u \in Users : Backspace(u) \/ Cancel(u) \/ Unlock(u)
  \/ \E h \in Hands, u \in Users : Digit(h, u) \/ Code(h, u) \/ Check(h, u)
  \/ \E list \in SUBSET Users : Save(list)

Spec == Init /\ [][Next]_vars /\ WF_vars(Work)

-----------------------------------------------------------------------------
TypeOK ==
  /\ auto \in BOOLEAN /\ crossed \in BOOLEAN /\ factor \in BOOLEAN
  /\ allowed \subseteq Users /\ saved \in [last : SUBSET Users, ever : SUBSET Users]
  /\ kept \subseteq Users /\ served \subseteq Users /\ waiting \subseteq Users
  /\ passed \subseteq Users /\ proved \subseteq Users /\ locked \subseteq Users
  /\ entry \in [Users -> [digits : 0 .. Length, right : BOOLEAN]]
  /\ failed \in [Users -> 0 .. MaxFailed]
  /\ \A h \in Hands : hand[h].user \in Users \cup {0}
  /\ acts \in 0 .. MaxActs /\ errors \in 0 .. MaxErrors

\* Whoever is served, or will be after a restart, entered the PIN and the code that was
\* asked of him.
ServedPassed == served \cup kept \subseteq passed

\* The list of the administrator holds, unless the first user was put on it at that moment;
\* nobody else gets on it without the PIN.
ListHolds == /\ saved.last # {} => allowed = saved.last \/ crossed
             /\ allowed \subseteq saved.ever \cup proved

Sound == ServedPassed /\ ListHolds

Answered == \A h \in Hands : hand[h].at = "off"
=============================================================================
