------------------------------ MODULE AccountSetup ------------------------------
(***************************************************************************)
(* How accounts of cloud storage come to be: the authorisation flows of    *)
(* OneDrive and Google Drive with the page that waits for them, the        *)
(* addition of an account, its authorisation anew and the refresh of its   *)
(* token, the configuration that older versions kept in settings and its   *)
(* migration, and the clients that the process holds in memory (storage.ts,*)
(* oauthFlowStore.ts, routes/storage.ts, SettingsPage.tsx).                *)
(*                                                                         *)
(* A grant stands for all the tokens of one authorisation; the settings of *)
(* one reading are read at once.  Deletion of accounts, and what memory    *)
(* takes for the default, are in StorageAccounts.                          *)
(***************************************************************************)
EXTENDS Naturals, Sequences, FiniteSets

CONSTANTS
  Requests,
  Clients,        \* ids of the application at OneDrive
  MaxAccounts, MaxFlows, MaxGrants,
  MaxActs,        \* bound on what users begin
  MaxErrors       \* bound on statements and calls that fail, and crashes

Boot  == 0        \* the initialisation of the process
Flows == 1 .. MaxFlows
Kinds == {"onedrive", "google", "keyed"}   \* keyed: OSS, S3 and WebDAV

VARIABLES
  flow,       \* oauth_pending_flows, with the page that waits
  account,    \* storage_accounts in the order of created_at
  setting,    \* active_storage_provider
  legacy,     \* onedrive_client_id and onedrive_refresh_token
  files,      \* files of OneDrive from before there were accounts: their account
  provider,   \* per account: the grant of the client in memory
  up,
  request,
  refresh,    \* refreshes under way: account and grant
  grants,     \* grants given so far
  history,
  acts, errors

tables == <<flow, account, setting, legacy, files>>
vars == <<tables, provider, up, request, refresh, grants, history, acts, errors>>

NoFlow   == [is |-> "none", kind |-> "", page |-> "none", posted |-> FALSE]
NoLegacy == [client |-> 0, grant |-> 0]
Rest     == [at |-> "off", do |-> "", kind |-> "", client |-> 0, grant |-> 0, flow |-> 0, acc |-> 0,
             seen |-> "", rows |-> <<>>]
Old      == [client |-> CHOOSE c \in Clients : TRUE, grant |-> 1]

\* A new server, or one that kept its account in settings and used it or did not.
Init ==
  /\ flow = [f \in Flows |-> NoFlow] /\ account = <<>>
  /\ \/ setting = "local" /\ legacy = NoLegacy /\ files = "none" /\ grants = 0
     \/ setting \in {"local", "onedrive"} /\ legacy = Old /\ files = "unlinked" /\ grants = 1
  /\ provider = [a \in 1 .. MaxAccounts |-> 0] /\ up = FALSE
  /\ request = [r \in Requests \cup {Boot} |-> Rest] /\ refresh = {}
  /\ history = [overlap |-> FALSE, crossed |-> FALSE, beside |-> FALSE, unlinked |-> FALSE,
                given |-> [a \in 1 .. MaxAccounts |-> 0]]
  /\ acts = 0 /\ errors = 0

At(r, a)   == request[r].at = a
Goto(r, a) == request' = [request EXCEPT ![r].at = a]
Others(r)  == DOMAIN request \ {r}
Quiet      == UNCHANGED <<acts, errors>>

Consistent(p, rows) ==
  LET active == {i \in DOMAIN rows : rows[i].active} IN
  IF p = "local" THEN active = {} ELSE \E i \in active : active = {i} /\ rows[i].kind = p

Handle(r, new) ==
  /\ up /\ At(r, "off") /\ \A q \in Requests : q < r => ~At(q, "off")
  /\ request' = [request EXCEPT ![r] = new]
  /\ UNCHANGED <<account, setting, legacy, files, provider, up, refresh, history, errors>>

\* A user begins something.
Begin(r, new) == Handle(r, new) /\ acts < MaxActs /\ acts' = acts + 1

-----------------------------------------------------------------------------
(* Authorisation.                                                          *)

\* The page opens the provider's window and waits.
Issue(f, k) ==
  /\ up /\ acts < MaxActs /\ acts' = acts + 1
  /\ flow[f].is = "none" /\ \A g \in Flows : g < f => flow[g].is # "none"
  /\ flow' = [flow EXCEPT ![f] = [is |-> "pending", kind |-> k, page |-> "waiting", posted |-> FALSE]]
  /\ UNCHANGED <<account, setting, legacy, files, provider, up, request, refresh, grants, history, errors>>

Expire(f) ==
  /\ flow[f].is = "pending"
  /\ flow' = [flow EXCEPT ![f].is = "gone"]
  /\ UNCHANGED <<account, setting, legacy, files, provider, up, request, refresh, grants, history, acts, errors>>

\* consume: the row is deleted and returned by one statement, to the session that began it.
Callback(r, f) ==
  /\ flow[f].is = "pending"
  /\ flow' = [flow EXCEPT ![f].is = "used"]
  /\ grants < MaxGrants /\ grants' = grants + 1
  /\ \E c \in Clients :
       Handle(r, [Rest EXCEPT !.at = "exchange", !.do = "callback", !.kind = flow[f].kind, !.flow = f,
                              !.grant = grants + 1,
                              !.client = IF flow[f].kind = "onedrive" THEN c ELSE 0])
  /\ UNCHANGED acts

\* The code is exchanged for the grant.
ExchangeOneDrive(r) ==
  /\ At(r, "exchange") /\ request[r].kind = "onedrive"
  /\ Goto(r, "look")
  /\ UNCHANGED <<tables, provider, up, refresh, grants, history>> /\ Quiet

\* Nobody looks for an account of the same client at Google.
ExchangeGoogle(r) ==
  /\ At(r, "exchange") /\ request[r].kind = "google"
  /\ Goto(r, "write")
  /\ UNCHANGED <<tables, provider, up, refresh, grants, history>> /\ Quiet

\* The page is told once, by the message of the window or by its end.
PageTold(f) ==
  /\ flow[f].page = "waiting" /\ flow[f].posted
  /\ flow' = [flow EXCEPT ![f].page = "told"]
  /\ UNCHANGED <<account, setting, legacy, files, provider, up, request, refresh, grants, history>> /\ Quiet

WindowClosed(f) ==
  /\ flow[f].page = "waiting"
  /\ flow' = [flow EXCEPT ![f].page = "closed"]
  /\ UNCHANGED <<account, setting, legacy, files, provider, up, request, refresh, grants, history>> /\ Quiet

-----------------------------------------------------------------------------
(* A token entered by hand.  It goes through the settings, one at a time.  *)

Put(r) ==
  /\ grants < MaxGrants /\ grants' = grants + 1
  /\ \E c \in Clients :
       Begin(r, [Rest EXCEPT !.at = "client", !.do = "put", !.kind = "onedrive", !.client = c, !.grant = grants + 1])
  /\ UNCHANGED flow

SetClient(r) ==
  /\ At(r, "client")
  /\ legacy' = [legacy EXCEPT !.client = request[r].client]
  /\ Goto(r, "token")
  /\ UNCHANGED <<flow, account, setting, files, provider, up, refresh, grants, history>> /\ Quiet

SetToken(r) ==
  /\ At(r, "token")
  /\ legacy' = [legacy EXCEPT !.grant = request[r].grant]
  /\ Goto(r, "look")
  /\ UNCHANGED <<flow, account, setting, files, provider, up, refresh, grants, history>> /\ Quiet

\* When the account is in the table the settings are deleted, so that the next start does
\* not migrate them.
ClearSettings(r) ==
  /\ At(r, "clear")
  /\ legacy' = NoLegacy
  /\ Goto(r, "newest")
  /\ UNCHANGED <<flow, account, setting, files, provider, up, refresh, grants, history>> /\ Quiet

OfKind(k) == {i \in DOMAIN account : account[i].kind = k}

\* The newest account of OneDrive is made the default, which need not be the one just added.
Newest(r) ==
  /\ At(r, "newest")
  /\ \E a \in OfKind("onedrive") :
       /\ \A b \in OfKind("onedrive") : b <= a
       /\ request' = [request EXCEPT ![r].at = "probe", ![r].acc = a]
  /\ UNCHANGED <<tables, provider, up, refresh, grants, history>> /\ Quiet

-----------------------------------------------------------------------------
(* The row and the client.                                                 *)

\* A candidate is probed before anything is stored.
AddKeyed(r) ==
  /\ grants < MaxGrants /\ grants' = grants + 1
  /\ Begin(r, [Rest EXCEPT !.at = "candidate", !.do = "add", !.kind = "keyed", !.grant = grants + 1])
  /\ UNCHANGED flow

Probed(r) ==
  /\ At(r, "candidate")
  /\ Goto(r, "write")
  /\ UNCHANGED <<tables, provider, up, refresh, grants, history>> /\ Quiet

OfClient(c)  == {i \in OfKind("onedrive") : account[i].client = c}
\* Another request has looked for this client, and not stored what it has.
Meanwhile(r) == \E q \in Others(r) : /\ request[q].at \in {"write", "migrate"}
                                     /\ request[q].kind = "onedrive" /\ request[q].client = request[r].client

\* Is there an account of this client?  One of them, in no order.
Look(r) ==
  /\ At(r, "look")
  /\ LET known == OfClient(request[r].client) IN
     \E a \in IF known = {} THEN {0} ELSE known :
       request' = [request EXCEPT ![r].at = IF request[r].do = "init" THEN "migrate" ELSE "write", ![r].acc = a]
  /\ history' = [history EXCEPT !.overlap = @ \/ Meanwhile(r)]
  /\ UNCHANGED <<tables, provider, up, refresh, grants>> /\ Quiet

Row(r, active) == [kind |-> request[r].kind, client |-> request[r].client, grant |-> request[r].grant, active |-> active]

\* Something under way will write or install what it holds for this account.
Replacing(r, a) == \/ \E t \in refresh : t.acc = a
                   \/ \E q \in Others(r) : request[q].at = "build"
                   \/ \E q \in Others(r) : request[q].at = "install" /\ request[q].acc = a

\* The account that was found is given the new grant, otherwise one is inserted.
Write(r) ==
  /\ At(r, "write")
  /\ LET a == IF request[r].acc # 0 THEN request[r].acc ELSE Len(account) + 1 IN
     /\ a <= MaxAccounts
     /\ account' = IF request[r].acc # 0 THEN [account EXCEPT ![a].grant = request[r].grant]
                   ELSE Append(account, Row(r, FALSE))
     /\ request' = [request EXCEPT ![r].at = "install", ![r].acc = a]
     /\ history' = [history EXCEPT
                      !.crossed = @ \/ Replacing(r, a),
                      !.given[a] = request[r].grant]
  /\ UNCHANGED <<flow, setting, legacy, files, provider, up, refresh, grants>> /\ Quiet

\* The client in memory is replaced; what the old one was doing goes on.
Install(r) ==
  /\ At(r, "install")
  /\ provider' = [provider EXCEPT ![request[r].acc] = request[r].grant]
  /\ request' = CASE request[r].do = "put"      -> [request EXCEPT ![r].at = "clear"]
                  [] request[r].do = "callback" -> [request EXCEPT ![r].at = "probe"]
                  [] OTHER                      -> [request EXCEPT ![r] = Rest]
  /\ UNCHANGED <<tables, up, refresh, grants, history>> /\ Quiet

-----------------------------------------------------------------------------
(* The refresh of a token.                                                 *)

BeginRefresh(a) ==
  /\ up /\ refresh = {} /\ acts < MaxActs /\ acts' = acts + 1
  /\ a \in OfKind("onedrive") /\ provider[a] # 0
  /\ refresh' = {[acc |-> a, grant |-> provider[a]]}
  /\ history' = [history EXCEPT !.crossed = @ \/ \E r \in Requests : At(r, "install") /\ request[r].acc = a]
  /\ UNCHANGED <<tables, provider, up, request, grants, errors>>

\* updateAccountToken; or no token comes.
EndRefresh(t) ==
  /\ t \in refresh
  /\ refresh' = refresh \ {t}
  /\ account' \in {account, [account EXCEPT ![t.acc].grant = t.grant]}
  /\ UNCHANGED <<flow, setting, legacy, files, provider, up, request, grants, history>> /\ Quiet

-----------------------------------------------------------------------------
(* The default, and init() after it or at the start of the process.        *)

AskSwitch(r, a) ==
  /\ a = 0 \/ a \in DOMAIN account
  /\ Begin(r, [Rest EXCEPT !.at = "probe", !.do = "switch", !.acc = a])
  /\ UNCHANGED <<flow, grants>>

\* There must be a client in memory.
Probe(r) ==
  /\ At(r, "probe")
  /\ IF request[r].acc = 0 \/ provider[request[r].acc] # 0 THEN Goto(r, "commit")
     ELSE request' = [request EXCEPT ![r] = Rest]
  /\ UNCHANGED <<tables, provider, up, refresh, grants, history>> /\ Quiet

\* One transaction.
Commit(r) ==
  /\ At(r, "commit")
  /\ LET a == request[r].acc IN
     /\ account' = [i \in DOMAIN account |-> [account[i] EXCEPT !.active = i = a]]
     /\ setting' = IF a = 0 THEN "local" ELSE account[a].kind
  /\ Goto(r, "init")
  /\ UNCHANGED <<flow, legacy, files, provider, up, refresh, grants, history>> /\ Quiet

Start ==
  /\ ~up /\ At(Boot, "off")
  /\ request' = [request EXCEPT ![Boot] = [Rest EXCEPT !.at = "init"]]
  /\ UNCHANGED <<tables, provider, up, refresh, grants, history>> /\ Quiet

\* migrateLegacyConfig: are there settings of the old kind?
ReadLegacy(r) ==
  /\ At(r, "init")
  /\ request' = IF legacy.client # 0 /\ legacy.grant # 0
                THEN [request EXCEPT ![r] = [@ EXCEPT !.at = "look", !.do = "init", !.kind = "onedrive",
                                                      !.client = legacy.client, !.grant = legacy.grant]]
                ELSE [request EXCEPT ![r].at = "setting"]
  /\ UNCHANGED <<tables, provider, up, refresh, grants, history>> /\ Quiet

\* The account it inserts is a default, whatever the default is.
Migrate(r) ==
  /\ At(r, "migrate")
  /\ IF request[r].acc # 0 THEN Goto(r, "forget") /\ UNCHANGED <<account, history>>
     ELSE LET a == Len(account) + 1 IN
          /\ a <= MaxAccounts
          /\ account' = Append(account, Row(r, TRUE))
          /\ request' = [request EXCEPT ![r].at = "forget", ![r].acc = a]
          /\ history' = [history EXCEPT !.given[a] = request[r].grant,
                           !.beside = @ \/ setting # "onedrive" \/ \E i \in DOMAIN account : account[i].active]
  /\ UNCHANGED <<flow, setting, legacy, files, provider, up, refresh, grants>> /\ Quiet

Forget(r) ==
  /\ At(r, "forget")
  /\ legacy' = NoLegacy
  /\ Goto(r, "link")
  /\ UNCHANGED <<flow, account, setting, files, provider, up, refresh, grants, history>> /\ Quiet

Link(r) ==
  /\ At(r, "link")
  /\ files' = IF files = "unlinked" THEN "linked" ELSE files
  /\ Goto(r, "setting")
  /\ UNCHANGED <<flow, account, setting, legacy, provider, up, refresh, grants, history>> /\ Quiet

ReadSetting(r) ==
  /\ At(r, "setting")
  /\ request' = [request EXCEPT ![r].at = "accounts", ![r].seen = setting]
  /\ UNCHANGED <<tables, provider, up, refresh, grants, history>> /\ Quiet

\* Without a single default the initialisation throws, and the process does not start.
ReadAccounts(r) ==
  /\ At(r, "accounts")
  /\ request' = IF Consistent(request[r].seen, account)
                THEN [request EXCEPT ![r].at = "build", ![r].rows = account]
                ELSE [request EXCEPT ![r] = Rest]
  /\ history' = [history EXCEPT !.crossed = @ \/ refresh # {} \/ \E q \in Others(r) : request[q].at = "install"]
  /\ UNCHANGED <<tables, provider, up, refresh, grants>> /\ Quiet

\* Every client is made anew from the row that was read.
Build(r) ==
  /\ At(r, "build")
  /\ LET rows == request[r].rows IN
     provider' = [a \in DOMAIN provider |-> IF a \in DOMAIN rows THEN rows[a].grant ELSE provider[a]]
  /\ up' = TRUE
  /\ flow' = [f \in Flows |-> IF f = request[r].flow THEN [flow[f] EXCEPT !.posted = TRUE] ELSE flow[f]]
  /\ request' = [request EXCEPT ![r] = Rest]
  /\ UNCHANGED <<account, setting, legacy, files, refresh, grants, history>> /\ Quiet

-----------------------------------------------------------------------------
(* Failures.                                                               *)

\* What a request awaits fails, and it goes no further.
Fail(r) ==
  /\ request[r].at \notin {"off", "install"}
  /\ errors < MaxErrors /\ errors' = errors + 1
  /\ request' = [request EXCEPT ![r] = Rest]
  /\ history' = [history EXCEPT !.unlinked = @ \/ At(r, "link")]
  /\ UNCHANGED <<tables, provider, up, refresh, grants, acts>>

Crash ==
  /\ errors < MaxErrors /\ errors' = errors + 1
  /\ up' = FALSE /\ provider' = [a \in DOMAIN provider |-> 0] /\ refresh' = {}
  /\ request' = [r \in DOMAIN request |-> Rest]
  /\ history' = [history EXCEPT !.unlinked = @ \/ \E r \in DOMAIN request : At(r, "link")]
  /\ UNCHANGED <<tables, grants, acts>>

Work ==
  \/ Start
  \/ \E r \in DOMAIN request :
       \/ ExchangeOneDrive(r) \/ ExchangeGoogle(r) \/ Probed(r)
       \/ SetClient(r) \/ SetToken(r) \/ ClearSettings(r) \/ Newest(r)
       \/ Look(r) \/ Write(r) \/ Install(r) \/ Probe(r) \/ Commit(r)
       \/ ReadLegacy(r) \/ Migrate(r) \/ Forget(r) \/ Link(r) \/ ReadSetting(r) \/ ReadAccounts(r) \/ Build(r)
  \/ \E t \in refresh : EndRefresh(t)

Next ==
  \/ Work \/ Crash
  \/ \E f \in Flows : \/ Expire(f) \/ PageTold(f) \/ WindowClosed(f)
                      \/ \E k \in {"onedrive", "google"} : Issue(f, k)
  \/ \E r \in Requests : \/ Put(r) \/ AddKeyed(r)
                         \/ \E f \in Flows : Callback(r, f)
                         \/ \E a \in 0 .. MaxAccounts : AskSwitch(r, a)
  \/ \E r \in DOMAIN request : Fail(r)
  \/ \E a \in 1 .. MaxAccounts : BeginRefresh(a)

Spec == Init /\ [][Next]_vars /\ WF_vars(Work)

-----------------------------------------------------------------------------
TypeOK ==
  /\ \A f \in Flows : /\ flow[f].is \in {"none", "pending", "used", "gone"}
                      /\ flow[f].page \in {"none", "waiting", "told", "closed"}
  /\ Len(account) <= MaxAccounts
  /\ \A i \in DOMAIN account : account[i].kind \in Kinds /\ account[i].grant \in 1 .. MaxGrants
  /\ setting \in Kinds \cup {"local"} /\ files \in {"none", "unlinked", "linked"}
  /\ legacy.client \in Clients \cup {0} /\ legacy.grant \in 0 .. MaxGrants
  /\ provider \in [1 .. MaxAccounts -> 0 .. MaxGrants] /\ up \in BOOLEAN
  /\ acts \in 0 .. MaxActs /\ errors \in 0 .. MaxErrors

\* A client has one account, unless two additions looked for it at the same time.
OnePerClient == \A c \in Clients : Cardinality(OfClient(c)) <= 1 \/ history.overlap

\* The process can start again, unless a migration put its account beside a default that
\* was chosen.
Startable == up => Consistent(setting, account) \/ history.beside

\* When the process is up the files of the old configuration have their account, unless the
\* migration was cut short between its last two statements.
FilesLinked == up => files # "unlinked" \/ history.unlinked

\* An account, and its client in memory, hold the grant that was last given, unless an older
\* client refreshed its token or memory was rebuilt meanwhile.
Current == \A a \in DOMAIN account :
  \/ history.crossed
  \/ /\ account[a].grant = history.given[a]
     /\ \/ provider[a] \in {0, account[a].grant}
        \/ \E r \in Requests : request[r].at = "install" /\ request[r].acc = a

\* The page is told of a success only when its account is there.
ToldTruly == \A f \in Flows : flow[f].page = "told" =>
  flow[f].is = "used" /\ OfKind(flow[f].kind) # {}

Sound == OnePerClient /\ Startable /\ FilesLinked /\ Current /\ ToldTruly

Answered == (\A r \in DOMAIN request : At(r, "off")) /\ refresh = {}
=============================================================================
