------------------------------ MODULE WebSessions ------------------------------
(***************************************************************************)
(* Sign-in on the web: the administrator's set-up, sessions and their end, *)
(* the change of the password and the second factor (routes/auth.ts,       *)
(* authSettings.ts, security.ts, webSessionStore.ts), with the page that   *)
(* each browser shows (App.tsx, LoginPage.tsx, SettingsPage.tsx).          *)
(*                                                                         *)
(* Passwords, sessions and secrets are numbered as they are made.  A check *)
(* that the set-up has been made, once it has, is never undone and belongs *)
(* to the step after it.                                                   *)
(***************************************************************************)
EXTENDS Naturals, Sequences, FiniteSets

CONSTANTS
  Browsers,
  MaxPasswords, MaxSessions, MaxSecrets,  \* bounds on what is made
  MaxTasks,                               \* bound on what users do
  MaxLost                                 \* bound on answers that do not arrive

Passwords == 1 .. MaxPasswords
Sessions  == 1 .. MaxSessions

VARIABLES
  lineage,   \* passwords stored so far, the last of them in admin_password_hash
  pin,       \* telegram_pin_hash: the set-up it is of
  made,      \* passwords thought of so far
  gave,      \* per password: the one given as current when it was chosen
  factor,    \* totp_secret, 2fa_enabled, and the secret the activation verified
  secrets,   \* secrets generated so far
  clash,     \* history: a secret was generated over another
  row,       \* web_sessions, with what each is worth
  issued,    \* sessions issued so far
  era,       \* history: how often all sessions were ended
  browser,   \* per browser: page, cookie and request
  tasks, lost

credentials == <<lineage, pin, made, gave>>
second      == <<factor, secrets, clash>>
store       == <<row, issued, era>>
bounds      == <<tasks, lost>>
vars == <<credentials, second, store, browser, bounds>>

NoSession == [is |-> "none", era |-> 0, coded |-> FALSE, off |-> FALSE]
Rest      == [do |-> "none", at |-> "", given |-> 0, new |-> 0, off |-> FALSE]

Fresh  == lineage = <<>> /\ pin = 0 /\ made = 0 /\ secrets = 0
Before == lineage = <<1>> /\ pin = 1 /\ made = 1   \* the set-up has been made

Init ==
  /\ Fresh \/ (Before /\ secrets \in {0, 1})
  /\ gave = [p \in Passwords |-> 0]
  /\ factor = [secret |-> secrets, on |-> secrets = 1, verified |-> secrets] /\ clash = FALSE
  /\ row = [s \in Sessions |-> NoSession] /\ issued = 0 /\ era = 0
  /\ browser = [b \in Browsers |-> [page |-> "closed", cookie |-> 0, qr |-> 0, request |-> Rest]]
  /\ tasks = 0 /\ lost = 0

Password    == IF lineage = <<>> THEN 0 ELSE lineage[Len(lineage)]
Live(s)     == s # 0 /\ row[s].is = "live"
Request(b)  == browser[b].request
At(b, d, a) == Request(b).do = d /\ Request(b).at = a
Moved(b, a) == [browser EXCEPT ![b].request.at = a]
Goto(b, a)  == browser' = Moved(b, a)

\* The user acts on the page that is shown, when no request of it is under way.
Act(b, p, r) ==
  /\ tasks < MaxTasks /\ tasks' = tasks + 1
  /\ Request(b).do = "none" /\ browser[b].page = p
  /\ browser' = [browser EXCEPT ![b].request = [r EXCEPT !.off = ~factor.on]]
  /\ UNCHANGED <<lineage, pin, second, store, lost>>

\* The page that asks for the code holds the password meanwhile.
Done(b, page) == [Rest EXCEPT !.given = IF page = "totp" THEN Request(b).given ELSE 0]

\* An answer arrives and the page shows it, with the cookie it sets or clears; when it does
\* not arrive the page stays.
Answer(b, page, cookie) ==
  \/ /\ browser' = [browser EXCEPT ![b].request = Done(b, page), ![b].page = page, ![b].cookie = cookie]
     /\ UNCHANGED lost
  \/ /\ lost < MaxLost /\ lost' = lost + 1
     /\ browser' = [browser EXCEPT ![b].request = Done(b, browser[b].page)]
Told(b) == Answer(b, browser[b].page, browser[b].cookie)

-----------------------------------------------------------------------------
(* The page.                                                               *)

Load(b) ==
  /\ Request(b).do = "none"
  /\ browser[b].page = "closed"
  /\ browser' = [browser EXCEPT ![b].request = [Rest EXCEPT !.do = "load", !.at = "status"]]
  /\ UNCHANGED <<credentials, second, store, bounds>>

\* When the answer is lost the page takes the set-up for made and the session for none.
Status(b) ==
  /\ At(b, "load", "status")
  /\ \/ /\ browser' = IF Password = 0 THEN [browser EXCEPT ![b].request = Rest, ![b].page = "setup"]
                      ELSE Moved(b, "verify")
        /\ UNCHANGED lost
     \/ lost < MaxLost /\ lost' = lost + 1 /\ Goto(b, "verify")
  /\ UNCHANGED <<credentials, second, store, tasks>>

\* A session that has lapsed is removed by the request that finds it.
Found(s) == IF s # 0 /\ row[s].is = "lapsed" THEN [row EXCEPT ![s].is = "gone"] ELSE row

Verify(b) ==
  /\ At(b, "load", "verify")
  /\ row' = Found(browser[b].cookie)
  /\ \/ /\ browser' = [browser EXCEPT ![b].request = Rest,
                          ![b].page = IF Live(browser[b].cookie) THEN "in" ELSE "password"]
        /\ UNCHANGED lost
     \/ /\ lost < MaxLost /\ lost' = lost + 1
        /\ browser' = [browser EXCEPT ![b].request = Rest, ![b].page = "password"]
  /\ UNCHANGED <<credentials, second, issued, era, tasks>>

Lapse(s) ==
  /\ row[s].is = "live"
  /\ row' = [row EXCEPT ![s].is = "lapsed"]
  /\ UNCHANGED <<credentials, second, issued, era, browser, bounds>>

\* requireAuth, before the request itself.
Authorise(b) ==
  /\ Request(b).at = "auth"
  /\ row' = Found(browser[b].cookie)
  /\ IF Live(browser[b].cookie) THEN Goto(b, "begin") /\ UNCHANGED lost
     ELSE Told(b)
  /\ UNCHANGED <<credentials, second, issued, era, tasks>>

\* Every hour.
Sweep(s) ==
  /\ row[s].is = "lapsed"
  /\ row' = [row EXCEPT ![s].is = "gone"]
  /\ UNCHANGED <<credentials, second, issued, era, browser, bounds>>

-----------------------------------------------------------------------------
(* Set-up and sign-in.                                                     *)

Think(g) == /\ made < MaxPasswords /\ made' = made + 1
            /\ gave' = [gave EXCEPT ![made + 1] = g]

AskSetup(b) ==
  /\ Think(0)
  /\ Act(b, "setup", [Rest EXCEPT !.do = "setup", !.at = "store", !.new = made + 1])

\* Both credentials in one transaction, under an advisory lock: the first set-up wins.
SetUp(b) ==
  /\ At(b, "setup", "store")
  /\ IF Password # 0 THEN Told(b) /\ UNCHANGED <<lineage, pin>>
     ELSE /\ lineage' = Append(lineage, Request(b).new)
          /\ pin' = Request(b).new
          /\ Goto(b, "issue") /\ UNCHANGED lost
  /\ UNCHANGED <<made, gave, second, store, tasks>>

AskLogin(b) ==
  /\ \E p \in 1 .. made : Act(b, "password", [Rest EXCEPT !.do = "login", !.at = "check", !.given = p])
  /\ UNCHANGED <<made, gave>>

\* The code is sent with the password again.
AskCode(b) ==
  /\ \E c \in 1 .. secrets :
       Act(b, "totp", [Request(b) EXCEPT !.do = "totp", !.at = "check", !.new = c])
  /\ UNCHANGED <<made, gave>>

\* verifyWebPassword; before the set-up every password is refused.
CheckPassword(b) ==
  /\ Request(b).at = "check"
  /\ IF Request(b).given # Password THEN Told(b)
     ELSE /\ Goto(b, CASE Request(b).do = "login" -> "factor"
                       [] Request(b).do = "totp"  -> "code"
                       [] OTHER                   -> "off")
          /\ UNCHANGED lost
  /\ UNCHANGED <<credentials, second, store, tasks>>

AskFactor(b) ==
  /\ Request(b).at = "factor"
  /\ IF factor.on THEN Answer(b, "totp", browser[b].cookie)
     ELSE Goto(b, "issue") /\ UNCHANGED lost
  /\ UNCHANGED <<credentials, second, store, tasks>>

\* verifyTOTP against the secret that is stored now.
CheckCode(b) ==
  /\ Request(b).at = "code"
  /\ IF factor.secret = 0 \/ Request(b).new # factor.secret THEN Told(b)
     ELSE /\ Goto(b, IF Request(b).do = "totp" THEN "issue" ELSE "on") /\ UNCHANGED lost
  /\ UNCHANGED <<credentials, second, store, tasks>>

\* The page loads itself anew after a code.
Issue(b) ==
  /\ Request(b).at = "issue"
  /\ issued < MaxSessions /\ issued' = issued + 1
  /\ row' = [row EXCEPT ![issued + 1] =
               [is |-> "live", era |-> era, coded |-> Request(b).do = "totp", off |-> Request(b).off]]
  /\ Answer(b, IF Request(b).do = "totp" THEN "closed" ELSE "in", issued + 1)
  /\ UNCHANGED <<credentials, second, era, tasks>>

-----------------------------------------------------------------------------
(* The end of sessions and the change of the password.                     *)

\* The page is left whatever the answer, and then loses the cookie with it.
Logout(b) ==
  /\ Act(b, "in", [Rest EXCEPT !.do = "logout", !.at = "remove"])
  /\ UNCHANGED <<made, gave>>

LoggedOut(b) ==
  /\ At(b, "logout", "remove")
  /\ LET s == browser[b].cookie IN
     row' = IF s # 0 /\ row[s].is \in {"live", "lapsed"} THEN [row EXCEPT ![s].is = "gone"] ELSE row
  /\ \/ /\ browser' = [browser EXCEPT ![b].request = Rest, ![b].page = "password", ![b].cookie = 0]
        /\ UNCHANGED lost
     \/ /\ lost < MaxLost /\ lost' = lost + 1
        /\ browser' = [browser EXCEPT ![b].request = Rest, ![b].page = "password"]
  /\ UNCHANGED <<credentials, second, issued, era, tasks>>

AskChange(b) ==
  /\ \E p \in 1 .. made :
       /\ Think(p)
       /\ Act(b, "in", [Rest EXCEPT !.do = "change", !.at = "auth", !.given = p, !.new = made + 1])

AllGone == [s \in Sessions |-> IF row[s].is = "none" THEN row[s] ELSE [row[s] EXCEPT !.is = "gone"]]

\* Slip: the new password is committed before the sessions are deleted.
ChangeKeepsSessions(b) ==
  /\ At(b, "change", "begin")
  /\ IF Request(b).given # Password THEN Told(b) /\ UNCHANGED <<lineage, row, era>>
     ELSE /\ lineage' = Append(lineage, Request(b).new)
          /\ era' = era + 1
          /\ Answer(b, "password", 0)
          /\ UNCHANGED row
  /\ UNCHANGED <<pin, made, gave, second, issued, tasks>>

\* One transaction: the current password is verified under the lock of its row, the new one
\* stored and every session deleted.
Change(b) ==
  /\ At(b, "change", "begin")
  /\ IF Request(b).given # Password THEN Told(b) /\ UNCHANGED <<lineage, row, era>>
     ELSE /\ lineage' = Append(lineage, Request(b).new)
          /\ row' = AllGone /\ era' = era + 1
          /\ Answer(b, "password", 0)
  /\ UNCHANGED <<pin, made, gave, second, issued, tasks>>

AskRevoke(b) ==
  /\ Act(b, "in", [Rest EXCEPT !.do = "revoke", !.at = "auth"])
  /\ UNCHANGED <<made, gave>>

RevokeAll(b) ==
  /\ At(b, "revoke", "begin")
  /\ row' = AllGone /\ era' = era + 1
  /\ Answer(b, "password", 0)
  /\ UNCHANGED <<credentials, second, issued, tasks>>

-----------------------------------------------------------------------------
(* The second factor.                                                      *)

AskSecret(b) ==
  /\ Act(b, "in", [Rest EXCEPT !.do = "qr", !.at = "auth"])
  /\ UNCHANGED <<made, gave>>

\* generateOTPAuthUrl: a secret that is there is shown again, otherwise one is generated.
ReadSecret(b) ==
  /\ At(b, "qr", "begin")
  /\ browser' = IF factor.secret = 0 THEN Moved(b, "store")
                ELSE [browser EXCEPT ![b].request = Rest, ![b].qr = factor.secret]
  /\ UNCHANGED <<credentials, second, store, bounds>>

StoreSecret(b) ==
  /\ At(b, "qr", "store")
  /\ secrets < MaxSecrets /\ secrets' = secrets + 1
  /\ clash' = (clash \/ factor.secret # 0)
  /\ factor' = [factor EXCEPT !.secret = secrets + 1]
  /\ browser' = [browser EXCEPT ![b].request = Rest, ![b].qr = secrets + 1]
  /\ UNCHANGED <<credentials, store, bounds>>

AskActivate(b) ==
  /\ browser[b].qr # 0
  /\ Act(b, "in", [Rest EXCEPT !.do = "activate", !.at = "auth", !.new = browser[b].qr])
  /\ UNCHANGED <<made, gave>>

BeginCode(b) ==
  /\ At(b, "activate", "begin")
  /\ Goto(b, "code")
  /\ UNCHANGED <<credentials, second, store, bounds>>

Activate(b) ==
  /\ Request(b).at = "on"
  /\ factor' = [factor EXCEPT !.on = TRUE, !.verified = Request(b).new]
  /\ Told(b)
  /\ UNCHANGED <<credentials, secrets, clash, store, tasks>>

AskDisable(b) ==
  /\ \E p \in 1 .. made : Act(b, "in", [Rest EXCEPT !.do = "disable", !.at = "auth", !.given = p])
  /\ UNCHANGED <<made, gave>>

BeginDisable(b) ==
  /\ At(b, "disable", "begin")
  /\ Goto(b, "check")
  /\ UNCHANGED <<credentials, second, store, bounds>>

\* From now on a sign-in under way need not show a code.
Disable(b) ==
  /\ Request(b).at = "off"
  /\ factor' = [factor EXCEPT !.on = FALSE]
  /\ browser' = [c \in Browsers |->
       IF c = b THEN [browser[c] EXCEPT !.request = Rest] ELSE [browser[c] EXCEPT !.request.off = TRUE]]
  /\ UNCHANGED <<credentials, secrets, clash, store, bounds>>

-----------------------------------------------------------------------------
Work == \E b \in Browsers :
  \/ Status(b) \/ Verify(b) \/ Authorise(b)
  \/ SetUp(b) \/ CheckPassword(b) \/ AskFactor(b) \/ CheckCode(b) \/ Issue(b)
  \/ LoggedOut(b) \/ Change(b) \/ RevokeAll(b)
  \/ ReadSecret(b) \/ StoreSecret(b) \/ BeginCode(b) \/ Activate(b) \/ BeginDisable(b) \/ Disable(b)

Next ==
  \/ Work
  \/ \E s \in Sessions : Lapse(s) \/ Sweep(s)
  \/ \E b \in Browsers :
       \/ Load(b) \/ AskSetup(b) \/ AskLogin(b) \/ AskCode(b) \/ Logout(b) \/ AskChange(b)
       \/ AskRevoke(b) \/ AskSecret(b) \/ AskActivate(b) \/ AskDisable(b)

Spec == Init /\ [][Next]_vars /\ WF_vars(Work)

-----------------------------------------------------------------------------
TypeOK ==
  /\ lineage \in Seq(Passwords) /\ pin \in 0 .. MaxPasswords /\ made \in 0 .. MaxPasswords
  /\ gave \in [Passwords -> 0 .. MaxPasswords]
  /\ factor \in [secret : 0 .. MaxSecrets, on : BOOLEAN, verified : 0 .. MaxSecrets]
  /\ \A b \in Browsers :
       /\ browser[b].page \in {"closed", "setup", "password", "totp", "in"}
       /\ browser[b].cookie \in 0 .. MaxSessions
  /\ issued \in 0 .. MaxSessions /\ tasks \in 0 .. MaxTasks /\ lost \in 0 .. MaxLost

\* One set-up wins and both credentials are its own; each later password was chosen by
\* someone who gave the one it replaced, so that no change is lost under another.
Lineage ==
  lineage # <<>> => /\ pin = lineage[1] /\ gave[pin] = 0
                    /\ \A i \in 1 .. Len(lineage) - 1 : gave[lineage[i + 1]] = lineage[i]

\* No session outlives a change of the password or the end of all sessions.
Ended == \A s \in Sessions : row[s].is \in {"live", "lapsed"} => row[s].era = era

\* A sign-in during all of which the second factor was on showed a code.
Coded == \A s \in Sessions : row[s].is # "none" => row[s].coded \/ row[s].off

\* The secret in force is the one whose code was verified, unless two set-ups of the second
\* factor crossed.
VerifiedInForce == factor.on => factor.secret = factor.verified \/ clash

Sound == Lineage /\ Ended /\ Coded /\ VerifiedInForce

\* Every request has been answered.
Answered == \A b \in Browsers : Request(b).do = "none"
=============================================================================
