------------------------------ MODULE MCServices ------------------------------
(***************************************************************************)
(* Parts of the service that share no state of interest, checked side by   *)
(* side: what the browser uploads, the rows of transfer tasks, the library *)
(* of files, its folders and the list of it, what the user does through    *)
(* the bot (in conversation, in the task centre and with the files), how   *)
(* accounts of storage are set up, and the pool of database connections.   *)
(* A behaviour is one of the part its first state names, and the parts     *)
(* take turns to use the variables below.                                  *)
(***************************************************************************)
EXTENDS Naturals, Sequences, FiniteSets

CONSTANTS Chunks, Writers, Concurrency, Budget, MaxSessions, MaxSteps, MaxMishaps, Mishaps,
          Groups, MaxVersion, MaxChain, MaxTrouble,
          Local, Cloud, Media, Handlers, MaxSwitches, MaxFailures,
          Entries, MaxKey, Precision, Limit, MaxRequests, MaxChanges,
          Updates, Words, Accounts, Subscriptions, MaxWizards, MaxActs,
          Memory, Channel, YtDlp, MaxPresses,
          Stored, MaxAsks,
          Clouds, Holders, Names, Paths, MaxEvents,
          Admins, Clients, MaxAccounts, MaxFlows, MaxGrants, MaxBegun,
          Requests, Connections

VARIABLES part, v1, v2, v3, v4, v5, v6, v7, v8, v9, v10, v11, v12, v13, v14

Scenes == {[tasks |-> {1}, workers |-> 2], [tasks |-> {1, 2}, workers |-> 1]}

U == INSTANCE WebUpload WITH
       scene <- v1, line <- v2, paused <- v3, task <- v4, row <- v5, writer <- v6,
       completer <- v7, disk <- v8, locks <- v9, doomed <- v10, steps <- v11,
       mishaps <- v12, journal <- v13
R == INSTANCE TransferRows WITH
       group <- v1, failed <- v2, version <- v3, chain <- v4, recent <- v5, row <- v6,
       admitting <- v7, canceller <- v8, dismissal <- v9, reached <- v10, lost <- v11,
       trouble <- v12
L == INSTANCE FileLibrary WITH
       MaxMishaps <- MaxFailures, object <- v1, index <- v2, upload <- v3,
       preview <- v4, scope <- v5, token <- v6, deletion <- v7, confirmed <- v8,
       reported <- v9, sweep <- v10, page <- v11, switches <- v12, mishaps <- v13
F == INSTANCE FileList WITH
       Rows <- Entries, key <- v1, view <- v2, files <- v3, cursor <- v4, loading <- v5,
       loadingMore <- v6, stale <- v7, failed <- v8, requests <- v9,
       generation <- v10, since <- v11, changes <- v12
W == INSTANCE BotConversation WITH
       wizard <- v1, current <- v2, update <- v3, default <- v4, jobs <- v5,
       asked <- v6, stored <- v7, given <- v8, taken <- v9, subs <- v10,
       tokens <- v11, prompts <- v12, ended <- v13, budget <- v14
C == INSTANCE TaskCenter WITH
       task <- v1, busy <- v2, group <- v3, card <- v4, question <- v5,
       questions <- v6, lapsed <- v7, accepted <- v8, bulk <- v9, doomed <- v10,
       press <- v11, presses <- v12, changes <- v13
B == INSTANCE BotFiles WITH
       Files <- Stored, disk <- v1, rows <- v2, upload <- v3, permits <- v4, named <- v5,
       clear <- v6, newer <- v7, deleter <- v8, asks <- v9, failures <- v10
T == INSTANCE FolderTree WITH
       Files <- Local, MaxBegun <- MaxAsks, rows <- v1, used <- v2, place <- v3,
       stars <- v4, scope <- v5, request <- v6, crossed <- v7, told <- v8,
       begun <- v9, events <- v10
N == INSTANCE AccountSetup WITH
       Requests <- Admins, MaxActs <- MaxBegun, MaxErrors <- MaxFailures, flow <- v1,
       account <- v2, setting <- v3, legacy <- v4, files <- v5, provider <- v6, up <- v7,
       request <- v8, refresh <- v9, grants <- v10, history <- v11, acts <- v12,
       errors <- v13
D == INSTANCE AdmissionPool WITH
       kind <- v1, at <- v2, pending <- v3

vars == <<part, v1, v2, v3, v4, v5, v6, v7, v8, v9, v10, v11, v12, v13, v14>>

ASSUME UploadsSized == U!Sized

\* The list is that of names: by time it is not complete (FilePages).
ASSUME ListSized == F!Sized /\ F!Exact

ASSUME FoldersShaped == T!Shaped

\* Paths, when the second of two names takes the room of two segments.
Short == {<<>>, <<1>>, <<2>>, <<1, 1>>}

\* A task of the task centre is of one kind, and 0 is none.
ASSUME TasksApart == /\ 0 \notin C!Tasks /\ Memory \cap Channel = {}
                     /\ YtDlp \cap Memory = {} /\ YtDlp \cap Channel = {}

\* There are finitely many handlers, and wizards have numbers.
ASSUME TalkSized == IsFiniteSet(Updates) /\ MaxWizards \in Nat

\* The start of the process is no request, and an application has an id.
ASSUME SetupShaped == 0 \notin Admins /\ 0 \notin Clients /\ Clients # {} /\ MaxAccounts \in Nat /\ MaxFlows \in Nat

\* Bounds are numbers; the account kept in settings by an older version has a grant.
ASSUME Bounded == MaxGrants \in Nat \ {0} /\ MaxBegun \in Nat /\ MaxFailures \in Nat

\* What a part has no use for stays 0.
Init ==
  \/ part = "talk" /\ W!Init
  \/ /\ v14 = 0
     /\ \/ part = "library" /\ L!Init
        \/ part = "center" /\ C!Init
        \/ part = "setup" /\ N!Init
        \/ part = "uploads" /\ U!Init
        \/ /\ v13 = 0
           /\ \/ part = "rows" /\ R!Init
              \/ part = "list" /\ F!Init
              \/ /\ v11 = 0 /\ v12 = 0
                 /\ \/ part = "bot" /\ B!Init
                    \/ part = "folders" /\ T!Init
                    \/ /\ part = "pool" /\ D!Init
                       /\ v4 = 0 /\ v5 = 0 /\ v6 = 0 /\ v7 = 0 /\ v8 = 0 /\ v9 = 0 /\ v10 = 0

To3  == UNCHANGED <<part, v4, v5, v6, v7, v8, v9, v10, v11, v12, v13, v14>>
To10 == UNCHANGED <<part, v11, v12, v13, v14>>
To12 == UNCHANGED <<part, v13, v14>>
To13 == UNCHANGED <<part, v14>>
To14 == UNCHANGED part

Next == \/ part = "uploads" /\ U!Next /\ To13
        \/ part = "rows" /\ R!Next /\ To12
        \/ part = "library" /\ L!Next /\ To13
        \/ part = "list" /\ F!Next /\ To12
        \/ part = "talk" /\ W!Next /\ To14
        \/ part = "center" /\ C!Next /\ To13
        \/ part = "bot" /\ B!Next /\ To10
        \/ part = "folders" /\ T!Next /\ To10
        \/ part = "setup" /\ N!Next /\ To13
        \/ part = "pool" /\ D!Next /\ To3

\* What each part does without being asked; sweeps are short beside the time between them.
Progress == \/ part = "uploads" /\ U!Progress /\ UNCHANGED v1 /\ To13
            \/ part = "rows" /\ R!Progress /\ To12
            \/ part = "library" /\ L!Work /\ To13
            \/ part = "talk" /\ W!Work /\ To14
            \/ part = "center" /\ C!Work /\ To13
            \/ part = "bot" /\ B!Work /\ To10
            \/ part = "folders" /\ T!Work /\ To10
            \/ part = "setup" /\ N!Work /\ To13
            \/ part = "pool" /\ D!Next /\ To3

Fairness == /\ WF_vars(Progress)
            /\ WF_vars(part = "library" /\ L!Sweeping /\ To13)
            /\ SF_vars(part = "library" /\ L!Aging /\ To13)

Spec == Init /\ [][Next]_vars /\ Fairness

\* The values of the parts are of their types.
TypesHold == CASE part = "uploads" -> U!TypeOK
               [] part = "rows"    -> R!TypeOK
               [] part = "library" -> L!TypeOK
               [] part = "list"    -> F!TypeOK
               [] part = "talk"    -> W!TypeOK
               [] part = "center"  -> C!TypeOK
               [] part = "bot"     -> B!TypeOK
               [] part = "folders" -> T!TypeOK
               [] part = "setup"   -> N!TypeOK
               [] part = "pool"    -> D!TypeOK

\* What the browser counts as sent is recorded and on the disk, within the budget.
UploadsSound == part = "uploads" => U!Sound

\* The rows of transfer tasks tell what really happened, and hide what is over.
RowsSound == part = "rows" => R!Sound

\* Files stay until their deletion is confirmed and are gone afterwards, the list of them
\* is complete, and no folder is made twice or mixed with another: what is moved or turned
\* over is what was seen, unless something else was written in between.
LibrarySound == /\ part = "library" => L!Sound
                /\ part = "list" => F!Sound
                /\ part = "folders" => T!Sound

\* What is done is what the user was shown and agreed to: the terms of a download, the
\* end of a subscription, the directory of one download, the tasks cancelled, the files
\* deleted, and the account of storage with the token last given for it.
AgreedIsDone == /\ part = "setup" => N!Sound
                /\ part = "talk" => W!Sound
                /\ part = "center" => C!Sound
                /\ part = "bot" => B!NewerKept

\* Again and again no upload is under way, every state of a task is written down, no
\* object is left that nobody knows of, and the bot has answered; and all requests have
\* been, unless as many hold a connection and wait as there are connections.
ComesToRest ==
  []<>CASE part = "uploads" -> U!Rested
        [] part = "rows"    -> \A g \in Groups : v4[g] = <<>>
        [] part = "library" -> L!Swept
        [] part = "list"    -> TRUE
        [] part = "talk"    -> W!Answered
        [] part = "center"  -> C!Answered
        [] part = "bot"     -> B!Answered
        [] part = "folders" -> T!Answered
        [] part = "setup"   -> N!Answered
        [] part = "pool"    -> D!Answered \/ D!Exhausted
=============================================================================
