----------------------------- MODULE MCTelegram -----------------------------
(***************************************************************************)
(* The Telegram side, the clients of storage it writes with and the sign-  *)
(* in of users: parts that share no state of interest, checked side by     *)
(* side.  They are the channel jobs, their writes, the clients of storage, *)
(* the albums of a chat, its single files, the sessions of the web and the *)
(* users of the bot.  A behaviour is one of the part its first state       *)
(* names, and the parts take turns to use the variables below.  The        *)
(* fairness of a part is that of its module, restated for the part alone.  *)
(* Single files are a part twice: several with one mishap, and one with as *)
(* many mishaps as it has tries to survive them.                           *)
(***************************************************************************)
EXTENDS Naturals, Sequences, FiniteSets

CONSTANTS Jobs, MaxId, Media, ScanLimit, Segment, BatchSize, Attempts, Resumed, Mixed, Broken, MaxEvents, Faults, NoJob, NoRunner,
          Claims, MaxMishaps, Mishaps,
          Uploads, Depth, MaxClients, MaxDeletions,
          Items, Duplicates, Loud, MaxSessions, MaxTroubles,
          Sent, MaxTries, Accidents,
          Browsers, MaxPasswords, MaxSignIns, MaxSecrets, MaxTasks, MaxLost,
          Users, Hands, Length, MaxFailed, MaxActs, MaxErrors

\* The first password is one of those thought of.
ASSUME FirstPassword == MaxPasswords \in Nat \ {0}

\* Rows and messages have numbers, and a segment is not empty.
ASSUME RowsNumbered == Jobs \subseteq Nat
ASSUME RangesNumbered == MaxId \in Nat /\ Media \subseteq 1 .. MaxId /\ Segment \in Nat \ {0}

\* The folder of the uploads is below the root.
ASSUME BelowRoot == Depth \in Nat \ {0}

VARIABLES part, v1, v2, v3, v4, v5, v6, v7, v8, v9, v10, v11, v12, v13, v14, v15, v16

J == INSTANCE TelegramJobs WITH
       latest <- v1, cursor <- v2, enabled <- v3, job <- v4, item <- v5, holder <- v6, run <- v7,
       events <- v8, attempts <- v9
W == INSTANCE TelegramWrites WITH
       child <- v1, writer <- v2, objects <- v3, indexed <- v4, journal <- v5, resolver <- v6,
       stray <- v8, mishaps <- v7
P == INSTANCE StorageClients WITH
       kind <- v1, folders <- v2, cache <- v3, lock <- v4, client <- v5, upload <- v6,
       troubles <- v7
C == INSTANCE TelegramChat WITH
       album <- v1, file <- v2, processor <- v3, batch <- v4, session <- v5, scopes <- v6,
       handler <- v7, canceller <- v8, started <- v9, troubles <- v10
F(files, most) == INSTANCE SingleFiles WITH
       Messages <- files, MaxMishaps <- most, Mishaps <- Accidents,
       handler <- v1, entry <- v2, group <- v3, task <- v4, worker <- v5, objects <- v6,
       indexed <- v7, excused <- v8, session <- v9, scopes <- v10, canceller <- v11,
       started <- v12, mishaps <- v13
S == INSTANCE WebSessions WITH
       MaxSessions <- MaxSignIns,
       lineage <- v1, pin <- v2, made <- v3, gave <- v4, factor <- v5, secrets <- v6, clash <- v7,
       row <- v8, issued <- v9, era <- v10, browser <- v11, tasks <- v12, lost <- v13
B == INSTANCE BotSignIn WITH
       auto <- v1, allowed <- v2, saved <- v3, crossed <- v4, kept <- v5, served <- v6,
       factor <- v7, entry <- v8, failed <- v9, locked <- v10, waiting <- v11, proved <- v12,
       passed <- v13, hand <- v14, acts <- v15, errors <- v16

From14 == <<part, v14, v15, v16>>
From11 == <<From14, v11, v12, v13>>
From10 == <<From11, v10>>
From9  == <<From10, v9>>
From8  == <<From9, v8>>
vars   == <<From8, v1, v2, v3, v4, v5, v6, v7>>

\* What a part has no use for stays 0.
Init ==
  \/ part = "bot" /\ B!Init
  \/ /\ v14 = 0 /\ v15 = 0 /\ v16 = 0
     /\ \/ part = "web" /\ S!Init
        \/ part = "files" /\ F(Sent, 1)!Init
        \/ part = "file" /\ F({1}, MaxTries - 1)!Init
        \/ /\ v11 = 0 /\ v12 = 0 /\ v13 = 0
           /\ \/ part = "chat" /\ C!Init
              \/ /\ v10 = 0
                 /\ \/ part = "jobs" /\ J!Init
                    \/ part = "writes" /\ W!Init /\ v9 = 0
                    \/ part = "clients" /\ P!Init /\ v8 = 0 /\ v9 = 0

JobsOnly    == UNCHANGED From10
WritesOnly  == UNCHANGED From9
ClientsOnly == UNCHANGED From8
ChatOnly    == UNCHANGED From11
FilesOnly   == UNCHANGED From14
WebOnly     == UNCHANGED From14
BotOnly     == UNCHANGED part

Next == \/ part = "jobs" /\ J!Next /\ JobsOnly
        \/ part = "writes" /\ W!Next /\ WritesOnly
        \/ part = "clients" /\ P!Next /\ ClientsOnly
        \/ part = "chat" /\ C!Next /\ ChatOnly
        \/ part = "files" /\ F(Sent, 1)!Next /\ FilesOnly
        \/ part = "file" /\ F({1}, MaxTries - 1)!Next /\ FilesOnly
        \/ part = "web" /\ S!Next /\ WebOnly
        \/ part = "bot" /\ B!Next /\ BotOnly

Fairness ==
  /\ WF_vars(part = "jobs" /\ J!Recover /\ JobsOnly)
  /\ \A r \in J!Runners : WF_vars(part = "jobs" /\ J!Step(r) /\ JobsOnly)
  /\ WF_vars(part = "jobs" /\ J!ScanListed /\ JobsOnly)
  /\ \A j \in Jobs : WF_vars(part = "jobs" /\ J!CooldownEnds(j) /\ JobsOnly)
  /\ \A g \in W!Leases : WF_vars(part = "writes" /\ W!Work(g) /\ WritesOnly)
  /\ \A w \in W!Writes : WF_vars(part = "writes" /\ W!ClaimRow(w) /\ WritesOnly)
  /\ WF_vars(part = "writes" /\ W!Resolve /\ WritesOnly)
  /\ WF_vars(part = "clients" /\ P!Work /\ ClientsOnly)
  /\ \A i \in Items : /\ WF_vars(part = "chat" /\ C!Receive(i) /\ ChatOnly)
                      /\ WF_vars(part = "chat" /\ C!Finish(i) /\ ChatOnly)
                      /\ WF_vars(part = "chat" /\ C!Conclusion(i) /\ ChatOnly)
  /\ WF_vars(part = "chat" /\ C!Process /\ ChatOnly)
  /\ WF_vars(part = "chat" /\ C!CardCancelled /\ ChatOnly)
  /\ WF_vars(part = "files" /\ F(Sent, 1)!Work /\ FilesOnly)
  /\ WF_vars(part = "file" /\ F({1}, MaxTries - 1)!Work /\ FilesOnly)
  /\ WF_vars(part = "web" /\ S!Work /\ WebOnly)
  /\ WF_vars(part = "bot" /\ B!Work /\ BotOnly)

Spec == Init /\ [][Next]_vars /\ Fairness

\* The values of the parts are of their types.
TypesHold == CASE part = "jobs"   -> J!TypeOK
               [] part = "writes" -> W!TypeOK
               [] part = "clients" -> P!TypeOK
               [] part = "chat"   -> C!TypeOK
               [] part = "files"  -> F(Sent, 1)!TypeOK
               [] part = "file"   -> F({1}, MaxTries - 1)!TypeOK
               [] part = "web"    -> S!TypeOK
               [] part = "bot"    -> B!TypeOK

\* A range job that reports its end has listed every file of its range; what a write left at
\* a provider or in files is accounted for in the journal; a client that reports a file saved
\* has saved the whole of it in its folder, and one that failed has left nothing it knows of;
\* a single file that counts as stored is stored, and one that does not has left nothing.
WorkAccounted == /\ part = "jobs" => J!CompletedIsScanned
                 /\ part = "writes" => W!JournalAccounts
                 /\ part = "clients" => P!Sound
                 /\ part = "files" => F(Sent, 1)!Stored
                 /\ part = "file" => F({1}, MaxTries - 1)!Stored

\* The files of a chat are seen to, those in its tracker have somebody who ends them, and
\* its card can be used.
ChatAttended == /\ part = "chat" => C!ChatAttended
                /\ part = "files" => F(Sent, 1)!Tracked /\ F(Sent, 1)!CardWorks
                /\ part = "file" => F({1}, MaxTries - 1)!Tracked /\ F({1}, MaxTries - 1)!CardWorks

\* Passwords, sessions and the second factor of the web are in order, and the bot serves
\* nobody who did not enter what was asked of him.
SignInSound == /\ part = "web" => S!Sound
               /\ part = "bot" => B!Sound

\* An ended delivery is never queued again.
Once == [][part = "chat" => C!OnceStep]_vars

\* Again and again no listed message waits, no object that was given up is left, every
\* delivered file is downloaded and whoever signs in has an answer.
NothingLeftWaiting == []<>CASE part = "jobs"   -> J!Served
                            [] part = "writes" -> W!Returned
                            [] part = "clients" -> P!Answered
                            [] part = "chat"   -> C!Handed
                            [] part = "files"  -> F(Sent, 1)!Answered
                            [] part = "file"   -> F({1}, MaxTries - 1)!Answered
                            [] part = "web"    -> S!Answered
                            [] part = "bot"    -> B!Answered
=============================================================================
