----------------------------- MODULE ServicesProofs -----------------------------
(***************************************************************************)
(* What holds of one part of the service holds of the service, where the   *)
(* parts stand side by side: a behaviour of MCServices is one of its part, *)
(* and WebUploadProofs speaks of the variables the uploads use.  The       *)
(* library of files, the list of it and the rows of the transfer tasks are *)
(* proved here.                                                            *)
(***************************************************************************)
EXTENDS MCServices, FiniteSetTheorems, SequenceTheorems, WellFoundedInduction, TLAPS

UP == INSTANCE WebUploadProofs WITH
        scene <- v1, line <- v2, paused <- v3, task <- v4, row <- v5, writer <- v6,
        completer <- v7, disk <- v8, locks <- v9, doomed <- v10, steps <- v11,
        mishaps <- v12, journal <- v13

-----------------------------------------------------------------------------
(* The two instances of WebUpload are the same.                            *)

LEMMA SameClient ==
  ASSUME NEW t
  PROVE  /\ U!Client(t) <=> UP!Client(t)
         /\ U!InitUnheard(t) <=> UP!InitUnheard(t)
         /\ U!AskCancelFails(t) <=> UP!AskCancelFails(t)
<1> USE DEF U!Cardinality, UP!Cardinality, U!Tasks, UP!Tasks, U!Sessions, UP!Sessions,
           U!Live, UP!Live, U!counts, UP!counts, U!Pump, UP!Pump, U!Active, UP!Active,
           U!Begun, UP!Begun, U!serverVars, UP!serverVars, U!At, UP!At, U!Goto, UP!Goto,
           U!Over, UP!Over, U!Settle, UP!Settle, U!Fresh, UP!Fresh, U!Counted, UP!Counted,
           U!Affordable, UP!Affordable, U!Opened, UP!Opened, U!Recorded, UP!Recorded,
           U!Outstanding, UP!Outstanding, U!Mishap, UP!Mishap
<1>1. U!InitSession(t) <=> UP!InitSession(t)
  BY DEF U!InitSession, UP!InitSession
<1>2. U!InitRefused(t) <=> UP!InitRefused(t)
  BY DEF U!InitRefused, UP!InitRefused
<1>3. U!InitUnheard(t) <=> UP!InitUnheard(t)
  BY DEF U!InitUnheard, UP!InitUnheard
<1>4. U!AbortEarly(t) <=> UP!AbortEarly(t)
  BY DEF U!AbortEarly, UP!AbortEarly
<1>5. U!ListSessions(t) <=> UP!ListSessions(t)
  BY DEF U!ListSessions, UP!ListSessions
<1>6. U!Reopen(t) <=> UP!Reopen(t)
  BY DEF U!Reopen, UP!Reopen
<1>7. U!Ask(t) <=> UP!Ask(t)
  BY DEF U!Ask, UP!Ask, U!Same, UP!Same, U!Last, UP!Last
<1>8. U!Complete(t) <=> UP!Complete(t)
  BY DEF U!Complete, UP!Complete
<1>9. U!GiveUp(t) <=> UP!GiveUp(t)
  BY DEF U!GiveUp, UP!GiveUp
<1>10. U!AskCancel(t) <=> UP!AskCancel(t)
  BY DEF U!AskCancel, UP!AskCancel
<1>11. U!AskCancelFails(t) <=> UP!AskCancelFails(t)
  BY DEF U!AskCancelFails, UP!AskCancelFails
<1>12. U!CancelAnswered(t) <=> UP!CancelAnswered(t)
  BY DEF U!CancelAnswered, UP!CancelAnswered
<1>13. U!Client(t) <=> UP!Client(t)
  BY <1>1, <1>2, <1>4, <1>5, <1>6, <1>7, <1>8, <1>9, <1>10, <1>12 DEF U!Client, UP!Client
<1> QED BY <1>3, <1>11, <1>13

LEMMA SameHandler ==
  ASSUME NEW w
  PROVE  /\ U!Handler(w) <=> UP!Handler(w)
         /\ U!RecordUnheard(w) <=> UP!RecordUnheard(w)
         /\ U!RecordFails(w) <=> UP!RecordFails(w)
<1> USE DEF U!Cardinality, UP!Cardinality, U!Turn, UP!Turn, U!Step, UP!Step, U!Answer, UP!Answer,
           U!Idle, UP!Idle, U!Lock, UP!Lock, U!File, UP!File, U!Part, UP!Part,
           U!Unlocked, UP!Unlocked, U!Accepts, UP!Accepts, U!Mishap, UP!Mishap,
           U!clientVars, UP!clientVars, U!counts, UP!counts
<1>1. U!Check(w) <=> UP!Check(w)
  BY DEF U!Check, UP!Check
<1>2. U!OpenLock(w) <=> UP!OpenLock(w)
  BY DEF U!OpenLock, UP!OpenLock
<1>3. U!WritePart(w) <=> UP!WritePart(w)
  BY DEF U!WritePart, UP!WritePart
<1>4. U!WriteBreaks(w) <=> UP!WriteBreaks(w)
  BY DEF U!WriteBreaks, UP!WriteBreaks
<1>5. U!Record(w) <=> UP!Record(w)
  BY DEF U!Record, UP!Record
<1>6. U!RecordUnheard(w) <=> UP!RecordUnheard(w)
  BY DEF U!RecordUnheard, UP!RecordUnheard
<1>7. U!RecordFails(w) <=> UP!RecordFails(w)
  BY DEF U!RecordFails, UP!RecordFails
<1>8. U!Drop(w) <=> UP!Drop(w)
  BY DEF U!Drop, UP!Drop
<1>9. U!Handler(w) <=> UP!Handler(w)
  BY <1>1, <1>2, <1>3, <1>4, <1>5, <1>8 DEF U!Handler, UP!Handler
<1> QED BY <1>6, <1>7, <1>9

LEMMA SameSession ==
  ASSUME NEW s
  PROVE  /\ U!Session(s) <=> UP!Session(s)
         /\ U!CommitFails(s) <=> UP!CommitFails(s)
         /\ U!Expire(s) <=> UP!Expire(s)
         /\ U!CancelRecovered(s) <=> UP!CancelRecovered(s)
         /\ U!Maintenance(s) <=> UP!Maintenance(s)
<1> USE DEF U!Cardinality, UP!Cardinality, U!Tasks, UP!Tasks, U!Sessions, UP!Sessions,
           U!Live, UP!Live, U!counts, UP!counts, U!Pump, UP!Pump, U!Active, UP!Active,
           U!Begun, UP!Begun, U!clientVars, UP!clientVars, U!At, UP!At, U!Over, UP!Over,
           U!Settle, UP!Settle, U!Completed, UP!Completed, U!Mishap, UP!Mishap
<1>1. U!Merge(s) <=> UP!Merge(s)
  BY DEF U!Merge, UP!Merge
<1>2. U!Commit(s) <=> UP!Commit(s)
  BY DEF U!Commit, UP!Commit
<1>3. U!Wipe(s) <=> UP!Wipe(s)
  BY DEF U!Wipe, UP!Wipe
<1>4. U!DeleteExpired(s) <=> UP!DeleteExpired(s)
  BY DEF U!DeleteExpired, UP!DeleteExpired
<1>5. U!Recover(s) <=> UP!Recover(s)
  BY DEF U!Recover, UP!Recover
<1>6. U!CommitFails(s) <=> UP!CommitFails(s)
  BY DEF U!CommitFails, UP!CommitFails
<1>7. U!Expire(s) <=> UP!Expire(s)
  BY DEF U!Expire, UP!Expire
<1>8. U!CancelRecovered(s) <=> UP!CancelRecovered(s)
  BY DEF U!CancelRecovered, UP!CancelRecovered
<1>9. U!Session(s) <=> UP!Session(s)
  BY <1>1, <1>2, <1>3 DEF U!Session, UP!Session
<1>10. U!Reconcile(s) <=> UP!Reconcile(s)
  BY DEF U!Reconcile, UP!Reconcile
<1>11. U!Maintenance(s) <=> UP!Maintenance(s)
  BY <1>4, <1>5, <1>10 DEF U!Maintenance, UP!Maintenance
<1> QED BY <1>6, <1>7, <1>8, <1>9, <1>11

LEMMA SameCommands ==
  ASSUME NEW t
  PROVE  (U!Enqueue(t) <=> UP!Enqueue(t)) /\ (U!Retry(t) <=> UP!Retry(t)) /\ (U!Cancel(t) <=> UP!Cancel(t))
<1> USE DEF U!Cardinality, UP!Cardinality, U!Tasks, UP!Tasks, U!Sessions, UP!Sessions,
           U!Live, UP!Live, U!counts, UP!counts, U!Pump, UP!Pump, U!Active, UP!Active,
           U!Begun, UP!Begun, U!serverVars, UP!serverVars, U!Command, UP!Command,
           U!NewTask, UP!NewTask, U!Waiting, UP!Waiting, U!Cancelled, UP!Cancelled,
           U!Unheard, UP!Unheard, U!Spliced, UP!Spliced, U!CancelTasks, UP!CancelTasks
<1>1. U!Enqueue(t) <=> UP!Enqueue(t)
  BY DEF U!Enqueue, UP!Enqueue
<1>2. U!Retry(t) <=> UP!Retry(t)
  BY DEF U!Retry, UP!Retry
<1>3. U!Cancel(t) <=> UP!Cancel(t)
  BY DEF U!Cancel, UP!Cancel
<1> QED BY <1>1, <1>2, <1>3

LEMMA SameUploads == /\ (U!Init <=> UP!Init) /\ (U!Next <=> UP!Next)
                      /\ (U!Sound <=> UP!Sound) /\ (U!Sized <=> UP!Sized)
<1> USE DEF U!Cardinality, UP!Cardinality, U!Tasks, UP!Tasks, U!Sessions, UP!Sessions,
           U!Idle, UP!Idle, U!Active, UP!Active
<1>1. U!Init <=> UP!Init
  BY DEF U!Init, UP!Init, U!NewTask, UP!NewTask
<1>2. U!Reset <=> UP!Reset
  BY DEF U!Reset, UP!Reset, U!CancelTasks, UP!CancelTasks, U!Cancelled, UP!Cancelled,
         U!Unheard, UP!Unheard
<1>3. U!Pause <=> UP!Pause
  BY DEF U!Pause, UP!Pause, U!Pump, UP!Pump, U!Begun, UP!Begun, U!Command, UP!Command,
         U!serverVars, UP!serverVars
<1>4. U!Resume <=> UP!Resume
  BY DEF U!Resume, UP!Resume, U!Pump, UP!Pump, U!Begun, UP!Begun, U!Command, UP!Command,
         U!serverVars, UP!serverVars
<1>5. U!Crash <=> UP!Crash
  BY DEF U!Crash, UP!Crash, U!Mishap, UP!Mishap, U!Outstanding, UP!Outstanding, U!At, UP!At
<1>6. U!LockAges <=> UP!LockAges
  BY DEF U!LockAges, UP!LockAges, U!Lock, UP!Lock, U!clientVars, UP!clientVars, U!counts, UP!counts
<1>7. U!Sound <=> UP!Sound
  BY DEF U!Sound, UP!Sound, U!ChunksAreThere, UP!ChunksAreThere, U!WithinBudget, UP!WithinBudget,
         U!AcknowledgedIsRecorded, UP!AcknowledgedIsRecorded, U!NothingLeftOver, UP!NothingLeftOver,
         U!PlacesAreUsed, UP!PlacesAreUsed, U!Live, UP!Live, U!File, UP!File, U!Part, UP!Part
<1>8. U!Sized <=> UP!Sized
  BY DEF U!Sized, UP!Sized, U!IsFiniteSet, UP!IsFiniteSet
<1>9. U!Progress <=> UP!Progress
  BY <1>6, SameClient, SameHandler, SameSession DEF U!Progress, UP!Progress
<1>10. U!Next <=> UP!Next
  BY <1>2, <1>3, <1>4, <1>5, <1>9, SameClient, SameHandler, SameSession, SameCommands
  DEF U!Next, UP!Next
<1> QED BY <1>1, <1>7, <1>8, <1>10

-----------------------------------------------------------------------------
(* The library of files.  In its part the variables have other names.      *)

object    == v1
index     == v2
upload    == v3
preview   == v4
scope     == v5
token     == v6
deletion  == v7
confirmed == v8
reported  == v9
sweep     == v10
page      == v11
switches  == v12

Objects   == [L!Files -> {"none", "fresh", "old"}]
Indexes   == [L!Files -> {"none", "upload", "import"}]
Stages    == [L!Files -> {"idle", "saving", "saved", "compensating", "done", "failed", "elsewhere"}]
Previews  == [L!Files -> {"none", "making", "made", "late"}]
Deletions == [at : {"idle", "select", "remove", "drop"}, files : SUBSET L!Files, rows : SUBSET L!Files,
              seen : SUBSET L!Files, gone : SUBSET L!Files]
Sweeps    == [on : BOOLEAN, known : SUBSET Local]

LibraryTyped ==
  /\ object \in Objects /\ index \in Indexes /\ upload \in Stages /\ preview \in Previews
  /\ scope \in {Local, Cloud} /\ token \subseteq L!Files /\ confirmed \subseteq L!Files /\ reported \subseteq confirmed
  /\ page \subseteq L!Files /\ switches \in Nat
  /\ deletion \in [Handlers -> Deletions] /\ sweep \in Sweeps

Unsettled == {"saving", "saved", "compensating", "failed"}

\* The file is stored somewhere, or was.
Placed(f) == object[f] # "none" \/ index[f] # "none" \/ f \in page \cup token \cup confirmed

\* An object is stored once: one that is indexed no more, after a deletion, does not come back.
Known(f) ==
  /\ Placed(f) => upload[f] \notin {"idle", "saving"}
  /\ (f \in token \cup confirmed /\ index[f] = "none") => object[f] = "none"
  /\ f \in reported => f \in confirmed /\ (switches = 0 => object[f] = "none")

\* What the sweep that is on did not know is too young for it.
Kept(f) ==
  /\ upload[f] = "saved" => object[f] = "fresh"
  /\ upload[f] = "done" => object[f] # "none" /\ index[f] = "upload"
  /\ (upload[f] = "done" /\ sweep.on /\ f \in Local \ sweep.known) => object[f] = "fresh"

Owned(f) == preview[f] = "made" => index[f] = "upload" \/ upload[f] \in Unsettled

\* What a deletion has read and confirmed, and what is gone before the row is dropped.
Removing(h, f) ==
  /\ index[f] # "none"
  /\ preview[f] = "made" =>
       \/ upload[f] \in Unsettled
       \/ f \in deletion[h].seen /\ (deletion[h].at = "drop" => f \notin deletion[h].gone)

Working(h) ==
  /\ deletion[h].at # "idle" => deletion[h].files \subseteq confirmed
  /\ (deletion[h].at = "select" /\ switches = 0) => deletion[h].files \subseteq scope
  /\ deletion[h].at = "drop" => /\ deletion[h].gone \subseteq deletion[h].files
                                /\ \A f \in deletion[h].gone : object[f] = "none"
  /\ deletion[h].at \in {"remove", "drop"} => \A f \in deletion[h].files \cap deletion[h].rows : Removing(h, f)

FilesKnown == \A f \in L!Files : Known(f) /\ (f \notin confirmed => Kept(f)) /\ Owned(f)
LibraryInv == LibraryTyped /\ FilesKnown /\ \A h \in Handlers : Working(h)

USE DEF object, index, upload, preview, scope, token, deletion, confirmed, reported, sweep, page, switches

LEMMA LibraryStarts == L!Init => LibraryInv
<1> SUFFICES ASSUME L!Init PROVE LibraryInv
  OBVIOUS
<1>1. L!Quiet \in Deletions /\ L!Quiet.at = "idle" /\ L!NoSweep \in Sweeps
  BY DEF L!Quiet, L!NoSweep, Deletions, Sweeps
<1>2. LibraryTyped
  BY <1>1 DEF L!Init, LibraryTyped, Objects, Indexes, Stages, Previews
<1>3. FilesKnown
  BY DEF L!Init, FilesKnown, Known, Placed, Kept, Owned
<1>4. \A h \in Handlers : Working(h)
  BY <1>1 DEF L!Init, Working
<1> QED BY <1>2, <1>3, <1>4 DEF LibraryInv

\* A step of an upload, of its preview, of the sweep or of an import: no deletion moves, and nothing is
\* confirmed.
Apart == UNCHANGED <<token, deletion, confirmed, reported, scope, switches>>

\* What such a step may do to a file, as far as deletions depend on it.
Gentle(f) ==
  /\ object[f] = "none" /\ f \in confirmed => object'[f] = "none"
  /\ index[f] # "none" => index'[f] # "none"
  /\ index[f] # "none" /\ preview'[f] = "made" => preview[f] = "made" \/ ~L!Picked(f)
  /\ index[f] # "none" /\ upload[f] \in Unsettled => upload'[f] \in Unsettled

LEMMA DeletionsStay ==
  ASSUME LibraryInv, Apart, \A f \in L!Files : Gentle(f)
  PROVE  \A h \in Handlers : Working(h)'
<1> SUFFICES ASSUME NEW h \in Handlers PROVE Working(h)'
  OBVIOUS
<1>1. Working(h) /\ deletion[h] \in Deletions /\ UNCHANGED <<deletion, confirmed, scope, switches>>
  BY DEF LibraryInv, LibraryTyped, Apart
<1>2. deletion[h].files \subseteq L!Files
  BY <1>1 DEF Deletions
<1>3. deletion[h].at = "drop" => \A f \in deletion[h].gone : object'[f] = "none"
  BY <1>1, <1>2 DEF Working, Gentle
<1>4. ASSUME deletion[h].at \in {"remove", "drop"}, NEW f \in deletion[h].files \cap deletion[h].rows
      PROVE  Removing(h, f)'
  <2>1. Gentle(f) /\ Removing(h, f) /\ L!Picked(f)
    BY <1>1, <1>2, <1>4 DEF Working, L!Picked
  <2> QED BY <1>1, <2>1 DEF Gentle, Removing
<1> QED BY <1>1, <1>3, <1>4 DEF Working

\* Such a step of one file.
LEMMA OneFile ==
  ASSUME LibraryInv, Apart, NEW f \in L!Files,
         object' \in Objects, index' \in Indexes, upload' \in Stages, preview' \in Previews,
         UNCHANGED <<sweep, page>>,
         \A g \in L!Files \ {f} : /\ object'[g] = object[g] /\ index'[g] = index[g]
                                  /\ upload'[g] = upload[g] /\ preview'[g] = preview[g],
         Gentle(f), Known(f)', f \notin confirmed => Kept(f)', Owned(f)'
  PROVE  LibraryInv'
<1>1. LibraryTyped'
  BY DEF LibraryInv, LibraryTyped, Apart
<1>2. ASSUME NEW g \in L!Files, g # f PROVE Known(g)' /\ (g \notin confirmed => Kept(g)') /\ Owned(g)' /\ Gentle(g)
  BY <1>2 DEF LibraryInv, FilesKnown, Known, Placed, Kept, Owned, Apart, Gentle
<1>3. FilesKnown'
  BY <1>2 DEF FilesKnown, Apart
<1> QED BY <1>1, <1>2, <1>3, DeletionsStay DEF LibraryInv

LEMMA ReceiveKeeps ==
  ASSUME LibraryInv, NEW f \in L!Files, L!Receive(f) \/ L!Save(f) \/ L!SaveFails(f) \/ L!Outside(f) PROVE LibraryInv'
<1>1. LibraryTyped /\ Known(f) /\ (f \notin confirmed => Kept(f)) /\ Owned(f)
  BY DEF LibraryInv, FilesKnown
<1> USE DEF L!uploads, L!deletions, L!bounds, L!Mishap
<1>2. CASE L!Receive(f)
  <2>1. /\ upload[f] = "idle" /\ upload' = [upload EXCEPT ![f] = "saving"]
        /\ \E p \in {preview[f], "made"} : preview' = [preview EXCEPT ![f] = p]
        /\ Apart /\ UNCHANGED <<object, index, sweep, page>>
    BY <1>1, <1>2 DEF L!Receive, LibraryTyped, Previews, Apart
  <2>2. /\ upload' \in Stages /\ upload'[f] = "saving" /\ preview' \in Previews
        /\ \A g \in L!Files \ {f} : upload'[g] = upload[g] /\ preview'[g] = preview[g]
    BY <1>1, <2>1 DEF LibraryTyped, Stages, Previews
  <2>3. Known(f)' /\ (f \notin confirmed => Kept(f)') /\ Owned(f)' /\ Gentle(f)
    BY <1>1, <2>1, <2>2 DEF Known, Placed, Kept, Owned, Unsettled, Apart, Gentle
  <2> QED BY <1>1, <2>1, <2>2, <2>3, OneFile DEF LibraryTyped
<1>3. CASE L!Save(f)
  <2>1. /\ upload[f] = "saving" /\ upload' = [upload EXCEPT ![f] = "saved"] /\ object' = [object EXCEPT ![f] = "fresh"]
        /\ Apart /\ UNCHANGED <<index, preview, sweep, page>>
    BY <1>3 DEF L!Save, Apart
  <2>2. /\ upload' \in Stages /\ upload'[f] = "saved" /\ object' \in Objects /\ object'[f] = "fresh"
        /\ \A g \in L!Files \ {f} : upload'[g] = upload[g] /\ object'[g] = object[g]
    BY <1>1, <2>1 DEF LibraryTyped, Stages, Objects
  <2>3. Known(f)' /\ (f \notin confirmed => Kept(f)') /\ Owned(f)' /\ Gentle(f)
    BY <1>1, <2>1, <2>2 DEF Known, Placed, Kept, Owned, Unsettled, Apart, Gentle
  <2> QED BY <1>1, <2>1, <2>2, <2>3, OneFile DEF LibraryTyped
<1>4. CASE L!SaveFails(f)
  <2>1. /\ upload[f] = "saving" /\ upload' = [upload EXCEPT ![f] = "failed"]
        /\ Apart /\ UNCHANGED <<object, index, preview, sweep, page>>
    BY <1>4 DEF L!SaveFails, Apart
  <2>2. upload' \in Stages /\ upload'[f] = "failed" /\ \A g \in L!Files \ {f} : upload'[g] = upload[g]
    BY <1>1, <2>1 DEF LibraryTyped, Stages
  <2>3. Known(f)' /\ (f \notin confirmed => Kept(f)') /\ Owned(f)' /\ Gentle(f)
    BY <1>1, <2>1, <2>2 DEF Known, Placed, Kept, Owned, Unsettled, Apart, Gentle
  <2> QED BY <1>1, <2>1, <2>2, <2>3, OneFile DEF LibraryTyped
<1>5. CASE L!Outside(f)
  <2>1. /\ upload[f] = "idle" /\ upload' = [upload EXCEPT ![f] = "elsewhere"] /\ object' = [object EXCEPT ![f] = "fresh"]
        /\ Apart /\ UNCHANGED <<index, preview, sweep, page>>
    BY <1>5 DEF L!Outside, Apart
  <2>2. /\ upload' \in Stages /\ upload'[f] = "elsewhere" /\ object' \in Objects /\ object'[f] = "fresh"
        /\ \A g \in L!Files \ {f} : upload'[g] = upload[g] /\ object'[g] = object[g]
    BY <1>1, <2>1 DEF LibraryTyped, Stages, Objects
  <2>3. Known(f)' /\ (f \notin confirmed => Kept(f)') /\ Owned(f)' /\ Gentle(f)
    BY <1>1, <2>1, <2>2 DEF Known, Placed, Kept, Owned, Unsettled, Apart, Gentle
  <2> QED BY <1>1, <2>1, <2>2, <2>3, OneFile DEF LibraryTyped
<1> QED BY <1>2, <1>3, <1>4, <1>5

LEMMA IndexingKeeps ==
  ASSUME LibraryInv, NEW f \in L!Files, L!Insert(f) \/ L!InsertFails(f) \/ L!Compensate(f) PROVE LibraryInv'
<1>1. LibraryTyped /\ Known(f) /\ (f \notin confirmed => Kept(f)) /\ Owned(f)
  BY DEF LibraryInv, FilesKnown
<1> USE DEF L!uploads, L!deletions, L!bounds, L!Mishap
<1>2. CASE L!Insert(f)
  <2>1. upload[f] = "saved" /\ Apart /\ UNCHANGED <<object, sweep, page>>
    BY <1>2 DEF L!Insert, Apart
  <2>2. CASE index[f] = "none"
    <3>1. /\ index' = [index EXCEPT ![f] = "upload"] /\ upload' = [upload EXCEPT ![f] = "done"]
          /\ \E p \in {preview[f], "making"} : preview' = [preview EXCEPT ![f] = p]
      BY <1>1, <1>2, <2>2 DEF L!Insert, LibraryTyped, Previews
    <3>2. /\ upload' \in Stages /\ upload'[f] = "done" /\ index' \in Indexes /\ index'[f] = "upload"
          /\ preview' \in Previews /\ preview'[f] \in {preview[f], "making"}
          /\ \A g \in L!Files \ {f} : upload'[g] = upload[g] /\ index'[g] = index[g] /\ preview'[g] = preview[g]
      BY <1>1, <3>1 DEF LibraryTyped, Stages, Indexes, Previews
    <3>3. Known(f)' /\ (f \notin confirmed => Kept(f)') /\ Owned(f)' /\ Gentle(f)
      BY <1>1, <2>1, <2>2, <3>2 DEF Known, Placed, Kept, Owned, Unsettled, Apart, Gentle
    <3> QED BY <1>1, <2>1, <3>2, <3>3, OneFile DEF LibraryTyped
  <2>3. CASE index[f] # "none"
    <3>1. upload' = [upload EXCEPT ![f] = "compensating"] /\ UNCHANGED <<index, preview>>
      BY <1>2, <2>3 DEF L!Insert
    <3>2. upload' \in Stages /\ upload'[f] = "compensating" /\ \A g \in L!Files \ {f} : upload'[g] = upload[g]
      BY <1>1, <3>1 DEF LibraryTyped, Stages
    <3>3. Known(f)' /\ (f \notin confirmed => Kept(f)') /\ Owned(f)' /\ Gentle(f)
      BY <1>1, <2>1, <3>1, <3>2 DEF Known, Placed, Kept, Owned, Unsettled, Apart, Gentle
    <3> QED BY <1>1, <2>1, <3>1, <3>2, <3>3, OneFile DEF LibraryTyped
  <2> QED BY <2>2, <2>3
<1>3. CASE L!InsertFails(f)
  <2>1. /\ upload[f] = "saved" /\ upload' = [upload EXCEPT ![f] = "compensating"]
        /\ \E i \in {index[f], IF index[f] = "none" THEN "upload" ELSE index[f]} : index' = [index EXCEPT ![f] = i]
        /\ Apart /\ UNCHANGED <<object, preview, sweep, page>>
    BY <1>1, <1>3 DEF L!InsertFails, Apart, LibraryTyped, Indexes
  <2>2. /\ upload' \in Stages /\ upload'[f] = "compensating" /\ index' \in Indexes
        /\ index'[f] = index[f] \/ (index[f] = "none" /\ index'[f] = "upload")
        /\ \A g \in L!Files \ {f} : upload'[g] = upload[g] /\ index'[g] = index[g]
    BY <1>1, <2>1 DEF LibraryTyped, Stages, Indexes
  <2>3. Known(f)' /\ (f \notin confirmed => Kept(f)') /\ Owned(f)' /\ Gentle(f)
    BY <1>1, <2>1, <2>2 DEF Known, Placed, Kept, Owned, Unsettled, Apart, Gentle
  <2> QED BY <1>1, <2>1, <2>2, <2>3, OneFile DEF LibraryTyped
<1>4. CASE L!Compensate(f)
  <2>1. /\ upload[f] = "compensating" /\ upload' = [upload EXCEPT ![f] = "failed"]
        /\ \E o \in {"none", object[f]} : object' = [object EXCEPT ![f] = o]
        /\ Apart /\ UNCHANGED <<index, preview, sweep, page>>
    BY <1>1, <1>4 DEF L!Compensate, Apart, LibraryTyped, Objects
  <2>2. /\ upload' \in Stages /\ upload'[f] = "failed" /\ object' \in Objects /\ object'[f] \in {"none", object[f]}
        /\ \A g \in L!Files \ {f} : upload'[g] = upload[g] /\ object'[g] = object[g]
    BY <1>1, <2>1 DEF LibraryTyped, Stages, Objects
  <2>3. Known(f)' /\ (f \notin confirmed => Kept(f)') /\ Owned(f)' /\ Gentle(f)
    BY <1>1, <2>1, <2>2 DEF Known, Placed, Kept, Owned, Unsettled, Apart, Gentle
  <2> QED BY <1>1, <2>1, <2>2, <2>3, OneFile DEF LibraryTyped
<1> QED BY <1>2, <1>3, <1>4

LEMMA PreviewsKeep ==
  ASSUME LibraryInv, NEW f \in L!Files, L!AskPreview(f) \/ L!PreviewMade(f) PROVE LibraryInv'
<1>1. LibraryTyped /\ Known(f) /\ (f \notin confirmed => Kept(f)) /\ Owned(f)
  BY DEF LibraryInv, FilesKnown
<1> USE DEF L!uploads, L!deletions, L!bounds
<1>2. Apart /\ UNCHANGED <<object, index, upload, sweep, page>>
  BY DEF L!AskPreview, L!PreviewMade, Apart
<1>3. PICK p \in {"making", "late", "made"} : /\ preview' = [preview EXCEPT ![f] = p]
                                              /\ p = "made" => index[f] = "upload" /\ ~L!Picked(f)
  BY DEF L!AskPreview, L!PreviewMade
<1>4. preview' \in Previews /\ preview'[f] = p /\ \A g \in L!Files \ {f} : preview'[g] = preview[g]
  BY <1>1, <1>3 DEF LibraryTyped, Previews
<1>5. Known(f)' /\ (f \notin confirmed => Kept(f)') /\ Owned(f)' /\ Gentle(f)
  BY <1>1, <1>2, <1>3, <1>4 DEF Known, Placed, Kept, Owned, Apart, Gentle
<1> QED BY <1>1, <1>2, <1>4, <1>5, OneFile DEF LibraryTyped

LEMMA SweepsKeep ==
  ASSUME LibraryInv, L!Sweeping \/ L!Aging PROVE LibraryInv'
<1> USE DEF L!uploads, L!deletions, L!bounds
<1>1. Apart /\ UNCHANGED <<index, upload, preview, page>>
  BY DEF L!Sweeping, L!Aging, L!StartSweep, L!EndSweep, L!SweepFile, L!Age, Apart
<1>2. CASE \E f \in Local : L!SweepFile(f) \/ L!Age(f)
  <2>1. PICK f \in Local : L!SweepFile(f) \/ L!Age(f)
    BY <1>2
  <2>2. f \in L!Files /\ LibraryTyped /\ Known(f) /\ (f \notin confirmed => Kept(f)) /\ Owned(f)
    BY <2>1 DEF LibraryInv, FilesKnown, L!Files
  <2>3. sweep' = sweep /\ \E o \in {"none", "old"} : object' = [object EXCEPT ![f] = o]
    BY <2>1 DEF L!SweepFile, L!Age
  <2>4. object' \in Objects /\ object'[f] \in {"none", "old"} /\ \A g \in L!Files \ {f} : object'[g] = object[g]
    BY <2>2, <2>3 DEF LibraryTyped, Objects
  <2>5. CASE L!SweepFile(f)
    <3>1. sweep.on /\ f \in Local \ sweep.known /\ object[f] = "old" /\ object'[f] = "none"
      BY <2>2, <2>3, <2>4, <2>5 DEF L!SweepFile, L!Orphan, LibraryTyped, Objects
    <3>2. Known(f)' /\ (f \notin confirmed => Kept(f)') /\ Owned(f)' /\ Gentle(f)
      BY <1>1, <2>2, <3>1 DEF Known, Placed, Kept, Owned, Apart, Gentle
    <3> QED BY <1>1, <2>2, <2>3, <2>4, <3>2, OneFile DEF LibraryTyped
  <2>6. CASE L!Age(f)
    <3>1. object[f] = "fresh" /\ upload[f] \notin {"saved", "compensating"} /\ ~sweep.on /\ object'[f] = "old"
      BY <2>2, <2>3, <2>4, <2>6 DEF L!Age, LibraryTyped, Objects
    <3>2. Known(f)' /\ (f \notin confirmed => Kept(f)') /\ Owned(f)' /\ Gentle(f)
      BY <1>1, <2>2, <2>3, <3>1 DEF Known, Placed, Kept, Owned, Apart, Gentle
    <3> QED BY <1>1, <2>2, <2>3, <2>4, <3>2, OneFile DEF LibraryTyped
  <2> QED BY <2>1, <2>5, <2>6
<1>3. CASE L!StartSweep \/ L!EndSweep
  <2>1. object' = object /\ (sweep' = [on |-> TRUE, known |-> Local \cap L!Indexed] \/ sweep' = [on |-> FALSE, known |-> {}])
    BY <1>3 DEF L!StartSweep, L!EndSweep, L!NoSweep
  <2>2. sweep' \in Sweeps
    <3>1. Local \cap L!Indexed \subseteq Local
      OBVIOUS
    <3>2. PICK k \in SUBSET Local, on \in BOOLEAN : sweep' = [on |-> on, known |-> k]
      BY <2>1, <3>1, Zenon
    <3> QED BY <3>2 DEF Sweeps
  <2>3. LibraryTyped'
    BY <1>1, <2>1, <2>2 DEF LibraryInv, LibraryTyped, Apart
  <2>4. ASSUME NEW f \in L!Files PROVE Known(f)' /\ (f \notin confirmed => Kept(f)') /\ Owned(f)' /\ Gentle(f)
    <3>1. Known(f) /\ (f \notin confirmed => Kept(f)) /\ Owned(f)
      BY DEF LibraryInv, FilesKnown
    <3>2. (f \in Local \ sweep'.known /\ sweep'.on) => index[f] = "none"
      BY <2>1 DEF L!Indexed
    <3> QED BY <1>1, <2>1, <3>1, <3>2 DEF Known, Placed, Kept, Owned, Apart, Gentle
  <2>5. FilesKnown'
    BY <1>1, <2>4 DEF FilesKnown, Apart
  <2> QED BY <1>1, <2>3, <2>4, <2>5, DeletionsStay DEF LibraryInv
<1> QED BY <1>2, <1>3 DEF L!Sweeping, L!Aging

LEMMA ImportsKeep ==
  ASSUME LibraryInv, L!ListPage \/ L!InsertPage PROVE LibraryInv'
<1> USE DEF L!uploads, L!deletions, L!bounds
<1>1. Apart /\ UNCHANGED <<object, upload, preview, sweep>>
  BY DEF L!ListPage, L!InsertPage, Apart
<1>2. /\ index' \in Indexes /\ page' \subseteq L!Files
      /\ \A f \in L!Files : /\ f \in page' => object[f] # "none"
                            /\ index'[f] # index[f] => index[f] = "none" /\ f \in page /\ index'[f] = "import"
  BY DEF L!ListPage, L!InsertPage, LibraryInv, LibraryTyped, Indexes, L!Files
<1>3. LibraryTyped'
  BY <1>1, <1>2 DEF LibraryInv, LibraryTyped, Apart
<1>4. ASSUME NEW f \in L!Files PROVE Known(f)' /\ (f \notin confirmed => Kept(f)') /\ Owned(f)' /\ Gentle(f)
  <2>1. Known(f) /\ (f \notin confirmed => Kept(f)) /\ Owned(f)
    BY DEF LibraryInv, FilesKnown
  <2> QED BY <1>1, <1>2, <2>1 DEF Known, Placed, Kept, Owned, Apart, Gentle
<1>5. FilesKnown'
  BY <1>1, <1>4 DEF FilesKnown, Apart
<1> QED BY <1>1, <1>3, <1>4, <1>5, DeletionsStay DEF LibraryInv

\* A step of the deletions: nothing is uploaded.
Untouched == UNCHANGED <<upload, sweep, page, scope, switches>>

\* The token of a deletion is issued, lapses or is used.
LEMMA TokensKeep ==
  ASSUME LibraryInv, L!Preview \/ L!Expire \/ (\E h \in Handlers : L!Consume(h)) PROVE LibraryInv'
<1> USE DEF L!uploads, L!deletions, L!bounds
<1>1. Untouched /\ UNCHANGED <<object, index, preview, reported>>
  BY DEF L!Preview, L!Expire, L!Consume, Untouched
<1>2. /\ token' \subseteq L!Files /\ confirmed \subseteq confirmed' /\ confirmed' \subseteq confirmed \cup token
      /\ \A f \in token' : f \in token \/ index[f] # "none"
  BY DEF L!Preview, L!Expire, L!Consume, L!Indexed, LibraryInv, LibraryTyped
<1>3. FilesKnown'
  <2> SUFFICES ASSUME NEW f \in L!Files PROVE Known(f)' /\ (f \notin confirmed' => Kept(f)') /\ Owned(f)'
    BY DEF FilesKnown
  <2>1. Known(f) /\ (f \notin confirmed => Kept(f)) /\ Owned(f)
    BY DEF LibraryInv, FilesKnown
  <2> QED BY <1>1, <1>2, <2>1 DEF Known, Placed, Kept, Owned, Untouched
<1>4. deletion' \in [Handlers -> Deletions] /\ \A h \in Handlers : Working(h)'
  <2>1. CASE deletion' = deletion
    <3>1. ASSUME NEW h \in Handlers PROVE Working(h)'
      <4>1. Working(h)
        BY DEF LibraryInv
      <4> QED BY <1>1, <1>2, <2>1, <4>1 DEF Working, Removing, Untouched
    <3> QED BY <2>1, <3>1 DEF LibraryInv, LibraryTyped
  <2>2. CASE deletion' # deletion
    <3>1. PICK h \in Handlers : L!Consume(h) /\ deletion' # deletion
      BY <2>2 DEF L!Preview, L!Expire
    <3>2. /\ token \subseteq scope /\ confirmed' = confirmed \cup token
          /\ deletion' = [deletion EXCEPT ![h] = [L!Quiet EXCEPT !.at = "select", !.files = token]]
      BY <3>1 DEF L!Consume
    <3>3. token \subseteq L!Files /\ deletion \in [Handlers -> Deletions]
      BY DEF LibraryInv, LibraryTyped
    <3>4. /\ [L!Quiet EXCEPT !.at = "select", !.files = token] \in Deletions
          /\ [L!Quiet EXCEPT !.at = "select", !.files = token].at = "select"
          /\ [L!Quiet EXCEPT !.at = "select", !.files = token].files = token
      BY <3>3 DEF L!Quiet, Deletions
    <3>5. /\ deletion' \in [Handlers -> Deletions] /\ deletion'[h].at = "select" /\ deletion'[h].files = token
          /\ \A k \in Handlers \ {h} : deletion'[k] = deletion[k]
      BY <3>2, <3>3, <3>4
    <3>6. Working(h)'
      BY <1>1, <3>2, <3>5 DEF Working, Untouched
    <3>7. ASSUME NEW k \in Handlers \ {h} PROVE Working(k)'
      <4>1. Working(k)
        BY DEF LibraryInv
      <4> QED BY <1>1, <1>2, <3>5, <4>1 DEF Working, Removing, Untouched
    <3> QED BY <3>5, <3>6, <3>7
  <2> QED BY <2>1, <2>2
<1>5. LibraryTyped'
  BY <1>1, <1>2, <1>4 DEF LibraryInv, LibraryTyped, Untouched
<1> QED BY <1>3, <1>4, <1>5 DEF LibraryInv

\* A handler comes to another point and the others stand where they stood.
Others(h) == \A k \in Handlers \ {h} : deletion'[k] = deletion[k]

LEMMA SelectKeeps ==
  ASSUME LibraryInv, NEW h \in Handlers, L!Select(h) PROVE LibraryInv'
<1>1. LibraryTyped /\ Working(h) /\ FilesKnown /\ deletion[h].at = "select"
  BY DEF LibraryInv, L!Select
<1>2. deletion \in [Handlers -> Deletions] /\ deletion[h].files \subseteq L!Files
  BY <1>1 DEF LibraryTyped, Deletions
<1>3. PICK found \in SUBSET L!Files, made \in SUBSET L!Files :
        /\ found = deletion[h].files \cap L!Indexed \cap scope
        /\ made = {f \in found : index[f] = "upload" /\ preview[f] = "made"}
        /\ deletion' = [deletion EXCEPT ![h] = [L!Quiet EXCEPT !.at = "remove", !.files = found, !.rows = found,
                                                              !.seen = made]]
        /\ reported' = reported \cup (deletion[h].files \ found)
  BY <1>2 DEF L!Select
<1>4. Untouched /\ UNCHANGED <<object, index, preview, token, confirmed>>
  BY DEF L!Select, L!uploads, L!bounds, Untouched
<1>5. PICK d \in Deletions : /\ d.at = "remove" /\ d.files = found /\ d.rows = found /\ d.seen = made
                             /\ deletion' = [deletion EXCEPT ![h] = d]
  BY <1>3 DEF L!Quiet, Deletions
<1>6. /\ deletion' \in [Handlers -> Deletions] /\ Others(h)
      /\ deletion'[h].at = "remove" /\ deletion'[h].files = found /\ deletion'[h].rows = found
      /\ deletion'[h].seen = made
  BY <1>2, <1>5 DEF Others
<1>7. ASSUME NEW f \in deletion[h].files \ found PROVE f \in confirmed /\ (switches = 0 => object[f] = "none")
  <2>1. f \in confirmed /\ f \in L!Files /\ (switches = 0 => index[f] = "none")
    BY <1>1, <1>2, <1>3 DEF Working, L!Indexed
  <2> QED BY <1>1, <2>1 DEF FilesKnown, Known
<1>8. Working(h)'
  <2>1. ASSUME NEW f \in found PROVE Removing(h, f)'
    <3>1. index[f] # "none" /\ (preview[f] = "made" => upload[f] \in Unsettled \/ f \in made)
      BY <1>1, <1>3 DEF L!Indexed, FilesKnown, Owned
    <3> QED BY <1>4, <1>6, <3>1 DEF Removing, Unsettled, Untouched
  <2>2. found \subseteq confirmed
    BY <1>1, <1>3 DEF Working
  <2> QED BY <1>4, <1>6, <2>1, <2>2 DEF Working
<1>9. ASSUME NEW k \in Handlers \ {h} PROVE Working(k)'
  <2>1. Working(k)
    BY DEF LibraryInv
  <2> QED BY <1>4, <1>6, <2>1 DEF Others, Working, Removing, Untouched
<1>10. ASSUME NEW f \in L!Files PROVE Known(f)' /\ (f \notin confirmed' => Kept(f)') /\ Owned(f)'
  <2>1. Known(f) /\ (f \notin confirmed => Kept(f)) /\ Owned(f)
    BY <1>1 DEF FilesKnown
  <2>2. UNCHANGED <<object, index, upload, preview, token, confirmed, sweep, page, switches>>
    BY <1>4 DEF Untouched
  <2>3. f \in reported' => f \in reported \/ (f \in confirmed /\ (switches = 0 => object[f] = "none"))
    BY <1>3, <1>7
  <2> QED BY <2>1, <2>2, <2>3 DEF Known, Placed, Kept, Owned
<1>11. reported' \subseteq confirmed'
  BY <1>1, <1>3, <1>4, <1>7 DEF LibraryTyped
<1>12. LibraryTyped' /\ FilesKnown'
  BY <1>1, <1>4, <1>6, <1>10, <1>11 DEF LibraryTyped, FilesKnown, Untouched
<1> QED BY <1>8, <1>9, <1>12 DEF LibraryInv

\* An object is removed, with the preview the row named, or, after an error, may be.
LEMMA RemoveKeeps ==
  ASSUME LibraryInv, NEW h \in Handlers, NEW f \in L!Files, L!Remove(h, f) \/ L!RemoveFails(h, f)
  PROVE  LibraryInv'
<1>1. /\ deletion[h].at = "remove" /\ f \in deletion[h].files
      /\ Untouched /\ UNCHANGED <<index, token, confirmed, reported>>
      /\ \E o \in {object[f], "none"} : object' = [object EXCEPT ![f] = o]
      /\ \E p \in {preview[f], "none"} : preview' = [preview EXCEPT ![f] = p]
  BY DEF L!Remove, L!RemoveFails, L!uploads, L!bounds, L!Mishap, Untouched, LibraryInv, LibraryTyped, Objects, Previews
<1>2. LibraryTyped /\ Working(h) /\ FilesKnown
  BY DEF LibraryInv
<1>3. deletion \in [Handlers -> Deletions] /\ deletion[h] \in Deletions /\ f \in confirmed
  BY <1>1, <1>2 DEF LibraryTyped, Working
<1>4. /\ object' \in Objects /\ object'[f] \in {object[f], "none"}
      /\ preview' \in Previews /\ preview'[f] \in {preview[f], "none"}
      /\ \A g \in L!Files \ {f} : object'[g] = object[g] /\ preview'[g] = preview[g]
  BY <1>1, <1>2 DEF LibraryTyped, Objects, Previews
<1>5. FilesKnown'
  <2> SUFFICES ASSUME NEW g \in L!Files PROVE Known(g)' /\ (g \notin confirmed' => Kept(g)') /\ Owned(g)'
    BY DEF FilesKnown
  <2>1. Known(g) /\ (g \notin confirmed => Kept(g)) /\ Owned(g)
    BY <1>2 DEF FilesKnown
  <2> QED BY <1>1, <1>3, <1>4, <2>1 DEF Known, Placed, Kept, Owned, Untouched
<1>6. /\ deletion' \in [Handlers -> Deletions] /\ Others(h)
      /\ deletion'[h].seen = deletion[h].seen /\ deletion'[h].rows = deletion[h].rows
      /\ \/ /\ deletion'[h].at = "drop" /\ deletion'[h].gone = {f} /\ deletion'[h].files = deletion[h].files
            /\ object'[f] = "none" /\ (f \in deletion[h].seen => preview'[f] = "none")
         \/ deletion'[h].at = "remove" /\ deletion'[h].files = deletion[h].files \ {f}
  <2>1. CASE L!Remove(h, f)
    <3>1. deletion' = [deletion EXCEPT ![h].at = "drop", ![h].gone = {f}]
      BY <2>1 DEF L!Remove
    <3>2. object'[f] = "none" /\ (f \in deletion[h].seen => preview'[f] = "none")
      BY <1>2, <2>1 DEF L!Remove, LibraryTyped, Objects, Previews
    <3> QED BY <1>3, <3>1, <3>2 DEF Others, Deletions
  <2>2. CASE L!RemoveFails(h, f)
    <3>1. deletion' = [deletion EXCEPT ![h].files = @ \ {f}]
      BY <2>2 DEF L!RemoveFails
    <3> QED BY <1>1, <1>3, <3>1 DEF Others, Deletions
  <2> QED BY <2>1, <2>2
<1>7. Working(h)'
  BY <1>1, <1>2, <1>3, <1>4, <1>6 DEF Working, Removing, Untouched
<1>8. ASSUME NEW k \in Handlers \ {h} PROVE Working(k)'
  <2>1. Working(k) /\ deletion[k] \in Deletions
    BY <1>3 DEF LibraryInv
  <2> QED BY <1>1, <1>4, <1>6, <2>1 DEF Others, Working, Removing, Untouched, Deletions
<1>9. LibraryTyped'
  BY <1>1, <1>2, <1>4, <1>6 DEF LibraryTyped, Untouched
<1> QED BY <1>5, <1>7, <1>8, <1>9 DEF LibraryInv

\* The row is dropped, if it is still the one that was read; the object is gone already.
LEMMA DropKeeps ==
  ASSUME LibraryInv, NEW h \in Handlers, L!Drop(h) \/ L!DropFails(h)
  PROVE  LibraryInv'
<1>1. PICK there \in SUBSET (deletion[h].gone \cap deletion[h].rows) :
        /\ index' = [f \in L!Files |-> IF f \in there THEN "none" ELSE index[f]]
        /\ reported' = reported \cup there
        /\ deletion' = [k \in Handlers |-> IF k = h THEN L!Dropped(deletion[k])
                                          ELSE [deletion[k] EXCEPT !.rows = @ \ there]]
  <2>1. CASE L!Drop(h)
    BY <2>1 DEF L!Drop
  <2>2. CASE L!DropFails(h)
    <3>1. /\ index = [f \in L!Files |-> index[f]] /\ index' = index
          /\ reported' = reported /\ deletion' = [deletion EXCEPT ![h] = L!Dropped(deletion[h])]
          /\ deletion \in [Handlers -> Deletions]
      BY <2>2 DEF L!DropFails, LibraryInv, LibraryTyped, Indexes
    <3>2. \A k \in Handlers : deletion[k] = [deletion[k] EXCEPT !.rows = @ \ {}]
      BY <3>1 DEF Deletions
    <3> QED BY <3>1, <3>2
  <2> QED BY <2>1, <2>2
<1>2. /\ deletion[h].at = "drop" /\ Untouched /\ UNCHANGED <<object, preview, token, confirmed>>
  BY DEF L!Drop, L!DropFails, L!uploads, L!bounds, L!Mishap, Untouched
<1>3. LibraryTyped /\ Working(h) /\ FilesKnown
  BY DEF LibraryInv
<1>4. deletion \in [Handlers -> Deletions] /\ \A k \in Handlers : deletion[k] \in Deletions
  BY <1>3 DEF LibraryTyped
<1>5. ASSUME NEW f \in there
      PROVE  /\ f \in L!Files /\ f \in confirmed /\ object[f] = "none" /\ index[f] # "none"
             /\ preview[f] = "made" => upload[f] \in Unsettled
  <2>1. f \in deletion[h].gone /\ f \in deletion[h].rows /\ f \in deletion[h].files
    BY <1>1, <1>2, <1>3 DEF Working
  <2> QED BY <1>2, <1>3, <1>4, <2>1 DEF Working, Removing, Deletions
<1>6. index' \in Indexes /\ \A f \in L!Files : index'[f] = IF f \in there THEN "none" ELSE index[f]
  BY <1>1, <1>3 DEF LibraryTyped, Indexes
<1>7. FilesKnown'
  <2> SUFFICES ASSUME NEW f \in L!Files PROVE Known(f)' /\ (f \notin confirmed' => Kept(f)') /\ Owned(f)'
    BY DEF FilesKnown
  <2>1. Known(f) /\ (f \notin confirmed => Kept(f)) /\ Owned(f)
    BY <1>3 DEF FilesKnown
  <2>2. CASE f \in there
    BY <1>1, <1>2, <1>5, <1>6, <2>1, <2>2 DEF Known, Placed, Kept, Owned, Untouched
  <2>3. CASE f \notin there
    BY <1>1, <1>2, <1>6, <2>1, <2>3 DEF Known, Placed, Kept, Owned, Untouched
  <2> QED BY <2>2, <2>3
<1>8. /\ deletion'[h] \in Deletions /\ deletion'[h].at = "remove" /\ deletion'[h].rows = deletion[h].rows
      /\ deletion'[h].files = deletion[h].files \ deletion[h].gone /\ deletion'[h].seen = deletion[h].seen
  BY <1>1, <1>4 DEF L!Dropped, Deletions
<1>9. ASSUME NEW k \in Handlers \ {h}
      PROVE  /\ deletion'[k] \in Deletions /\ deletion'[k].at = deletion[k].at /\ deletion'[k].files = deletion[k].files
             /\ deletion'[k].rows = deletion[k].rows \ there /\ deletion'[k].seen = deletion[k].seen
             /\ deletion'[k].gone = deletion[k].gone
  <2>1. deletion[k] \in Deletions /\ deletion'[k] = [deletion[k] EXCEPT !.rows = @ \ there]
    BY <1>1, <1>4
  <2> QED BY <2>1 DEF Deletions
<1>10. Working(h)'
  <2>1. ASSUME NEW f \in deletion'[h].files \cap deletion'[h].rows PROVE Removing(h, f)'
    <3>1. f \in deletion[h].files /\ f \in deletion[h].rows /\ f \notin there /\ f \in L!Files
      BY <1>1, <1>4, <1>8 DEF Deletions
    <3>2. Removing(h, f)
      BY <1>2, <1>3, <3>1 DEF Working
    <3> QED BY <1>2, <1>6, <1>8, <3>1, <3>2 DEF Removing, Untouched
  <2> QED BY <1>2, <1>3, <1>8, <2>1 DEF Working
<1>11. ASSUME NEW k \in Handlers \ {h} PROVE Working(k)'
  <2>1. Working(k)
    BY DEF LibraryInv
  <2>2. ASSUME deletion[k].at \in {"remove", "drop"}, NEW f \in deletion'[k].files \cap deletion'[k].rows
        PROVE  Removing(k, f)'
    <3>1. f \in deletion[k].files /\ f \in deletion[k].rows /\ f \notin there /\ f \in L!Files
      BY <1>4, <1>9 DEF Deletions
    <3>2. Removing(k, f)
      BY <2>1, <2>2, <3>1 DEF Working
    <3> QED BY <1>2, <1>6, <1>9, <3>1, <3>2 DEF Removing, Untouched
  <2> QED BY <1>2, <1>9, <2>1, <2>2 DEF Working, Untouched
<1>12. deletion' \in [Handlers -> Deletions]
  BY <1>1, <1>8, <1>9
<1>13. LibraryTyped'
  BY <1>1, <1>2, <1>3, <1>5, <1>6, <1>12 DEF LibraryTyped, Untouched
<1> QED BY <1>7, <1>10, <1>11, <1>13 DEF LibraryInv

LEMMA AnsweredKeeps ==
  ASSUME LibraryInv, NEW h \in Handlers, L!Answered(h) PROVE LibraryInv'
<1>1. deletion' = [deletion EXCEPT ![h] = L!Quiet] /\ Untouched
      /\ UNCHANGED <<object, index, preview, token, confirmed, reported>>
  BY DEF L!Answered, L!uploads, L!bounds, Untouched
<1>2. L!Quiet \in Deletions /\ L!Quiet.at = "idle"
  BY DEF L!Quiet, Deletions
<1>3. deletion' \in [Handlers -> Deletions] /\ deletion'[h].at = "idle" /\ Others(h)
  BY <1>1, <1>2 DEF LibraryInv, LibraryTyped, Others
<1>4. ASSUME NEW k \in Handlers PROVE Working(k)'
  <2>1. Working(k)
    BY DEF LibraryInv
  <2> QED BY <1>1, <1>3, <2>1 DEF Others, Working, Removing, Untouched
<1>5. LibraryTyped' /\ FilesKnown'
  BY <1>1, <1>3 DEF LibraryInv, LibraryTyped, FilesKnown, Known, Placed, Kept, Owned, Untouched
<1> QED BY <1>4, <1>5 DEF LibraryInv

LEMMA SwitchKeeps ==
  ASSUME LibraryInv, L!Switch PROVE LibraryInv'
<1>1. /\ scope' \in {Local, Cloud} /\ switches' \in Nat /\ switches' # 0
      /\ UNCHANGED <<object, index, upload, preview, token, deletion, confirmed, reported, sweep, page>>
  BY DEF L!Switch, L!uploads, L!deletions, LibraryInv, LibraryTyped
<1>2. LibraryTyped' /\ FilesKnown'
  BY <1>1 DEF LibraryInv, LibraryTyped, FilesKnown, Known, Placed, Kept, Owned
<1>3. ASSUME NEW h \in Handlers PROVE Working(h)'
  BY <1>1 DEF LibraryInv, Working, Removing
<1> QED BY <1>2, <1>3 DEF LibraryInv

LEMMA LibraryCrash ==
  ASSUME LibraryInv, L!Crash PROVE LibraryInv'
<1>1. /\ upload' = [f \in L!Files |-> IF upload[f] \in {"saving", "saved", "compensating"} THEN "failed" ELSE upload[f]]
      /\ preview' = [f \in L!Files |-> IF preview[f] = "making" THEN "none" ELSE preview[f]]
      /\ deletion' = [h \in Handlers |-> L!Quiet]
      /\ token' = {} /\ sweep' = L!NoSweep /\ page' = {}
      /\ UNCHANGED <<object, index, scope, confirmed, reported, switches>>
  BY DEF L!Crash
<1>2. LibraryTyped /\ FilesKnown
  BY DEF LibraryInv
<1>3. L!Quiet \in Deletions /\ L!Quiet.at = "idle" /\ L!NoSweep \in Sweeps /\ ~L!NoSweep.on
  BY DEF L!Quiet, Deletions, L!NoSweep, Sweeps
<1>4. upload' \in Stages /\ preview' \in Previews
  BY <1>1, <1>2 DEF LibraryTyped, Stages, Previews
<1>5. LibraryTyped'
  BY <1>1, <1>2, <1>3, <1>4 DEF LibraryTyped
<1>6. FilesKnown'
  <2> SUFFICES ASSUME NEW f \in L!Files PROVE Known(f)' /\ (f \notin confirmed' => Kept(f)') /\ Owned(f)'
    BY DEF FilesKnown
  <2>1. Known(f) /\ (f \notin confirmed => Kept(f)) /\ Owned(f)
    BY <1>2 DEF FilesKnown
  <2>2. /\ upload'[f] = IF upload[f] \in {"saving", "saved", "compensating"} THEN "failed" ELSE upload[f]
        /\ preview'[f] = "made" => preview[f] = "made"
    BY <1>1
  <2> QED BY <1>1, <1>3, <2>1, <2>2 DEF Known, Placed, Kept, Owned, Unsettled
<1>7. ASSUME NEW h \in Handlers PROVE Working(h)'
  BY <1>1, <1>3 DEF Working
<1> QED BY <1>5, <1>6, <1>7 DEF LibraryInv

LEMMA LibrarySteps == LibraryInv /\ [L!Next]_(L!vars) => LibraryInv'
<1> SUFFICES ASSUME LibraryInv, [L!Next]_(L!vars) PROVE LibraryInv'
  OBVIOUS
<1>1. CASE L!Next
  <2>1. CASE L!Work
    BY <2>1, ReceiveKeeps, IndexingKeeps, PreviewsKeep, SelectKeeps, DropKeeps, AnsweredKeeps, RemoveKeeps, ImportsKeep
    DEF L!Work
  <2> QED BY <1>1, <2>1, ReceiveKeeps, IndexingKeeps, PreviewsKeep, TokensKeep, DropKeeps, RemoveKeeps, ImportsKeep,
             SweepsKeep, SwitchKeeps, LibraryCrash DEF L!Next
<1>2. CASE UNCHANGED L!vars
  <2>1. UNCHANGED <<v1, v2, v3, v4, v5, v6, v7, v8, v9, v10, v11, v12>>
    BY <1>2 DEF L!vars
  <2>2. LibraryTyped' /\ FilesKnown'
    BY <2>1 DEF LibraryInv, LibraryTyped, FilesKnown, Known, Placed, Kept, Owned
  <2>3. ASSUME NEW h \in Handlers PROVE Working(h)'
    BY <2>1 DEF LibraryInv, Working, Removing
  <2> QED BY <2>2, <2>3 DEF LibraryInv
<1> QED BY <1>1, <1>2

LEMMA LibraryIsSound == LibraryInv => L!Sound
BY DEF LibraryInv, FilesKnown, Known, Kept, Owned, Unsettled, L!Sound, L!UploadIsKept, L!DeletedIsGone, L!PreviewsAreOwned,
       LibraryTyped

-----------------------------------------------------------------------------
(* The list of files.  In its part the variables have other names.         *)

key         == v1
view        == v2
files       == v3
cursor      == v4
loading     == v5
loadingMore == v6
stale       == v7
failed      == v8
requests    == v9
generation  == v10
since       == v11

Keys    == [Entries -> 0 .. MaxKey]
Cursors == [key : Nat, id : Nat]
Pages   == [rows : SUBSET Entries, next : Cursors]
Asked   == [generation : Nat, more : BOOLEAN, view : F!Views, cursor : Cursors, served : BOOLEAN, page : Pages]

ListTyped ==
  /\ key \in Keys /\ view \in F!Views /\ files \subseteq Entries /\ cursor \in Cursors
  /\ loading \in BOOLEAN /\ loadingMore \in BOOLEAN /\ stale \in BOOLEAN /\ failed \in BOOLEAN
  /\ requests \subseteq Asked /\ generation \in Nat /\ since \subseteq Entries

\* Of the rows that were there all along, those from one cursor to the next are on the page.
Covers(rows, from, next) ==
  \A r \in since : F!After(r, from) => r \in rows \/ (next # F!NoCursor /\ F!After(r, next))

\* A request in flight; the latest is for what the user looks at, from where the list ends.
Fits(q) ==
  /\ q.generation <= generation
  /\ q.served => \A r \in q.page.rows : q.view = 1 \/ r > 1
  /\ q.generation = generation =>
       /\ q.view = view
       /\ q.more => ~loading /\ q.cursor = cursor /\ cursor # F!NoCursor
       /\ ~q.more => loading /\ q.cursor = F!NoCursor
       /\ q.served => Covers(q.page.rows, q.cursor, q.page.next)

Alone == \A q1 \in requests, q2 \in requests : q1.generation = generation /\ q2.generation = generation => q1 = q2

\* What the list shows is of the view, and all that was there up to its cursor.
Shows == (~loading /\ ~failed) =>
           /\ \A r \in files : view = 1 \/ r > 1
           /\ Covers(files, F!NoCursor, cursor)

ListInv == /\ ListTyped /\ since \subseteq F!Shown(view)
           /\ (\A q \in requests : Fits(q)) /\ Alone /\ Shows

USE DEF key, view, files, cursor, loading, loadingMore, stale, failed, requests, generation, since

LEMMA FileListSized == /\ IsFiniteSet(Entries) /\ Entries \subseteq Nat \ {0} /\ MaxKey \in Nat /\ Limit \in Nat \ {0}
                       /\ Precision = 1
BY ListSized DEF F!Sized, F!Exact, F!IsFiniteSet, IsFiniteSet

LEMMA ListStarts == F!Init => ListInv
<1> SUFFICES ASSUME F!Init PROVE ListInv
  OBVIOUS
<1>1. ListTyped
  BY FileListSized DEF F!Init, ListTyped, Keys, F!NoCursor, Cursors, F!Views
<1>2. since \subseteq F!Shown(view) /\ (\A q \in requests : Fits(q)) /\ Alone /\ Shows
  BY DEF F!Init, Alone, Shows
<1> QED BY <1>1, <1>2 DEF ListInv

LEMMA Least == ASSUME NEW S \in SUBSET Nat, S # {} PROVE \E n \in S : \A m \in S : n <= m
<1>1. PICK n \in S : \A m \in S : ~(<<m, n>> \in OpToRel(<, Nat))
  BY NatLessThanWellFounded, WFMin
<1>2. ASSUME NEW m \in S PROVE n <= m
  <2>1. ~(<<m, n>> \in OpToRel(<, Nat)) /\ <<m, n>> \in Nat \X Nat
    BY <1>1
  <2>2. ~(m < n)
    BY <2>1 DEF OpToRel
  <2> QED BY <2>2
<1> QED BY <1>2

\* The first rows of a set: some are, and none is left out of them that comes before another.
LEMMA PageHolds ==
  ASSUME key \in Keys, NEW v \in F!Views, NEW c \in Cursors
  PROVE  LET rest == {r \in F!Shown(v) : F!After(r, c)}
         IN  /\ F!Page(v, c).rows \subseteq rest
             /\ F!Page(v, c).next \in Cursors
             /\ \A r \in rest : \/ r \in F!Page(v, c).rows
                                \/ /\ F!Page(v, c).next # F!NoCursor
                                   /\ F!After(r, F!Page(v, c).next)
<1> DEFINE rest == {r \in F!Shown(v) : F!After(r, c)}
           above(r) == {s \in rest : F!Before(s, r)}
           shown == {r \in rest : F!Cardinality(above(r)) < Limit}
           last == CHOOSE r \in shown : \A s \in shown : s = r \/ F!Before(s, r)
<1>1. rest \subseteq Entries /\ IsFiniteSet(rest)
  <2>1. rest \subseteq Entries
    BY DEF F!Shown
  <2> QED BY <2>1, FileListSized, FS_Subset
<1>2. \A r \in rest : key[r] \in Nat /\ key[r] # 0 /\ r \in Nat
  BY FileListSized DEF F!Shown, Keys
<1>3. \A r \in rest, s \in rest : s = r \/ F!Before(s, r) \/ F!Before(r, s)
  BY <1>2 DEF F!Before
<1>4. \A r \in rest, s \in rest : F!Before(s, r) => above(s) \subseteq above(r) /\ s \in above(r) /\ s \notin above(s)
  BY <1>2 DEF F!Before
<1>5. \A S : F!Cardinality(S) = Cardinality(S)
  BY DEF F!Cardinality, Cardinality, F!IsFiniteSet, IsFiniteSet
<1>6. \A r \in rest : IsFiniteSet(above(r)) /\ Cardinality(above(r)) \in Nat
  BY <1>1, FS_Subset, FS_CardinalityType
<1> HIDE DEF rest
<1>7. \A r \in rest, s \in rest : F!Before(s, r) => Cardinality(above(s)) < Cardinality(above(r))
  <2> SUFFICES ASSUME NEW r \in rest, NEW s \in rest, F!Before(s, r)
               PROVE  Cardinality(above(s)) < Cardinality(above(r))
    OBVIOUS
  <2>1. above(s) \subseteq above(r) /\ above(s) # above(r) /\ IsFiniteSet(above(r))
    BY <1>4, <1>6
  <2>2. Cardinality(above(s)) <= Cardinality(above(r)) /\ Cardinality(above(s)) # Cardinality(above(r))
    BY <2>1, FS_Subset
  <2>3. Cardinality(above(s)) \in Nat /\ Cardinality(above(r)) \in Nat
    BY <1>6
  <2> QED BY <2>2, <2>3
<1>8. \A r \in rest : r \in shown <=> Cardinality(above(r)) < Limit
  BY <1>5
<1>9. ASSUME rest # {} PROVE shown # {}
  <2> DEFINE counts == {Cardinality(above(r)) : r \in rest}
  <2>1. counts \in SUBSET Nat /\ counts # {}
    BY <1>6, <1>9
  <2>2. PICK n \in counts : \A m \in counts : n <= m
    BY <2>1, Least
  <2>3. PICK r \in rest : n = Cardinality(above(r))
    BY <2>2
  <2>4. above(r) = {}
    <3> SUFFICES ASSUME NEW s \in above(r) PROVE FALSE
      OBVIOUS
    <3>1. s \in rest /\ Cardinality(above(s)) < Cardinality(above(r))
      BY <1>7
    <3>2. Cardinality(above(s)) \in Nat /\ Cardinality(above(r)) \in Nat /\ Cardinality(above(r)) <= Cardinality(above(s))
      BY <1>6, <2>2, <2>3, <3>1
    <3> QED BY <3>1, <3>2
  <2>5. Cardinality(above(r)) = 0
    BY <2>4, FS_EmptySet
  <2> QED BY <1>8, <2>5, FileListSized
<1>10. shown \subseteq rest
  OBVIOUS
<1>11. ASSUME shown # {} PROVE last \in shown /\ \A s \in shown : s = last \/ F!Before(s, last)
  <2> DEFINE ks == {key[r] : r \in shown}
  <2>1. ks \in SUBSET Nat /\ ks # {}
    BY <1>2, <1>10, <1>11
  <2>2. PICK k \in ks : \A m \in ks : k <= m
    BY <2>1, Least
  <2> DEFINE ids == {r \in shown : key[r] = k}
  <2>3. ids \in SUBSET Nat /\ ids # {}
    BY <1>2, <1>10, <2>2
  <2>4. PICK i \in ids : \A m \in ids : i <= m
    BY <2>3, Least
  <2>5. i \in shown /\ \A s \in shown : s = i \/ F!Before(s, i)
    <3>1. i \in shown /\ key[i] = k
      BY <2>4
    <3>2. ASSUME NEW s \in shown PROVE s = i \/ F!Before(s, i)
      <4>1. key[s] \in Nat /\ s \in Nat /\ i \in Nat /\ key[s] >= k /\ k \in Nat /\ (key[s] = k => i <= s)
        BY <1>2, <1>10, <2>1, <2>2, <2>4, <3>1
      <4> QED BY <3>1, <4>1 DEF F!Before
    <3> QED BY <3>1, <3>2
  <2> QED BY <2>5
<1>12. F!Page(v, c).rows = shown /\ F!Page(v, c).next = IF shown # rest THEN F!CursorOf(last) ELSE F!NoCursor
  BY DEF F!Page, rest
<1> HIDE DEF shown, last
<1>13. CASE shown = rest
  BY <1>12, <1>13 DEF rest, F!NoCursor, Cursors
<1>14. CASE shown # rest
  <2>1. rest # {} /\ last \in shown /\ last \in rest /\ \A s \in shown : s = last \/ F!Before(s, last)
    BY <1>9, <1>10, <1>11, <1>14
  <2>2. F!CursorOf(last) = [key |-> key[last], id |-> last]
    <3>1. key[last] \in Nat /\ Precision = 1
      BY <1>2, <2>1, FileListSized
    <3>2. key[last] - (key[last] % 1) = key[last]
      BY <3>1
    <3> QED BY <3>1, <3>2 DEF F!CursorOf
  <2>3. F!Page(v, c).next = [key |-> key[last], id |-> last] /\ key[last] \in Nat \ {0} /\ last \in Nat
    BY <1>2, <1>12, <1>14, <2>1, <2>2
  <2>4. F!Page(v, c).next \in Cursors /\ F!Page(v, c).next # F!NoCursor
    BY <2>3 DEF Cursors, F!NoCursor
  <2>5. ASSUME NEW r \in rest, r \notin shown PROVE F!After(r, F!Page(v, c).next)
    <3>1. r # last /\ ~F!Before(r, last)
      <4>1. Cardinality(above(last)) < Limit /\ ~(Cardinality(above(r)) < Limit)
        BY <1>8, <2>1, <2>5
      <4>2. Cardinality(above(last)) \in Nat /\ Cardinality(above(r)) \in Nat /\ Limit \in Nat
        BY <1>6, <2>1, FileListSized
      <4>3. F!Before(r, last) => Cardinality(above(r)) < Cardinality(above(last))
        BY <1>7, <2>1
      <4> QED BY <2>1, <2>5, <4>1, <4>2, <4>3
    <3>2. F!Before(last, r)
      BY <1>3, <2>1, <3>1
    <3>3. key[r] \in Nat /\ r \in Nat
      BY <1>2
    <3> QED BY <2>3, <3>2, <3>3 DEF F!Before, F!After
  <2> QED BY <1>10, <1>12, <2>4, <2>5 DEF rest
<1> QED BY <1>13, <1>14

LEMMA ServeKeeps ==
  ASSUME ListInv, NEW q \in requests, F!Serve(q) PROVE ListInv'
<1>1. ListTyped /\ q \in Asked /\ Fits(q) /\ Alone
  BY DEF ListInv, ListTyped
<1>2. PICK p \in Pages : p = F!Page(q.view, q.cursor)
  <2>1. F!Page(q.view, q.cursor).rows \subseteq Entries /\ F!Page(q.view, q.cursor).next \in Cursors
    BY <1>1, PageHolds DEF ListTyped, Asked, F!Shown
  <2>2. F!Page(q.view, q.cursor) = [rows |-> F!Page(q.view, q.cursor).rows, next |-> F!Page(q.view, q.cursor).next]
    BY DEF F!Page
  <2> QED BY <2>1, <2>2 DEF Pages
<1>3. PICK a \in Asked : /\ requests' = (requests \ {q}) \cup {a}
                         /\ a.generation = q.generation /\ a.more = q.more /\ a.view = q.view /\ a.cursor = q.cursor
                         /\ a.page = p
  <2>1. requests' = (requests \ {q}) \cup {[q EXCEPT !.served = TRUE, !.page = F!Page(q.view, q.cursor)]}
    BY DEF F!Serve
  <2>2. requests' = (requests \ {q}) \cup {[q EXCEPT !.served = TRUE, !.page = p]}
    BY <1>2, <2>1
  <2>3. [q EXCEPT !.served = TRUE, !.page = p] \in Asked
    BY <1>1, <1>2 DEF Asked
  <2>4. PICK a : a = [q EXCEPT !.served = TRUE, !.page = p]
    OBVIOUS
  <2>5. a.generation = q.generation /\ a.more = q.more /\ a.view = q.view /\ a.cursor = q.cursor /\ a.page = p
    BY <1>1, <2>4 DEF Asked
  <2> QED BY <2>2, <2>3, <2>4, <2>5
<1>4. UNCHANGED <<key, view, files, cursor, loading, loadingMore, stale, failed, generation, since>>
  BY DEF F!Serve, F!flags
<1>5. ListTyped'
  BY <1>1, <1>3, <1>4 DEF ListTyped
<1>6. \A r \in p.rows : q.view = 1 \/ r > 1
  BY <1>1, <1>2, PageHolds DEF ListTyped, Asked, F!Shown
<1>7. q.generation = generation => Covers(p.rows, q.cursor, p.next)
  <2>1. q.view = view => since \subseteq F!Shown(q.view)
    BY DEF ListInv
  <2> QED BY <1>1, <1>2, <2>1, PageHolds DEF ListTyped, Asked, Fits, Covers
<1>8. Fits(a)'
  BY <1>1, <1>3, <1>4, <1>6, <1>7 DEF Fits, Covers, F!After
<1>9. ASSUME NEW b \in requests PROVE Fits(b)'
  BY <1>4 DEF ListInv, Fits, Covers, F!After
<1>10. Alone'
  BY <1>1, <1>3, <1>4 DEF Alone
<1>11. since' \subseteq F!Shown(view)' /\ Shows'
  BY <1>4 DEF ListInv, F!Shown, Shows, Covers, F!After
<1> QED BY <1>3, <1>5, <1>8, <1>9, <1>10, <1>11 DEF ListInv

\* A row that changes is no longer one of those that were there all along.
LEMMA ChangesKeep ==
  ASSUME ListInv, NEW r \in Entries, F!Insert(r) \/ F!Rename(r) \/ F!Delete(r) PROVE ListInv'
<1>1. PICK k \in 0 .. MaxKey : key' = [key EXCEPT ![r] = k]
  BY FileListSized DEF F!Insert, F!Rename, F!Delete
<1>2. /\ since' = since \ {r} /\ files' \subseteq files /\ files \ {r} \subseteq files'
      /\ UNCHANGED <<view, cursor, loading, loadingMore, stale, failed, requests, generation>>
  BY DEF F!Insert, F!Rename, F!Delete, F!Changed, F!flags
<1>3. key' \in Keys /\ \A s \in since' : key'[s] = key[s] /\ s \in since
  BY <1>1, <1>2 DEF ListInv, ListTyped, Keys
<1>4. ListTyped'
  BY <1>2, <1>3 DEF ListInv, ListTyped
<1>5. ASSUME NEW rows, NEW from, NEW next, Covers(rows, from, next)
      PROVE  \A s \in since' : F!After(s, from)' => s \in rows \/ (next # F!NoCursor /\ F!After(s, next)')
  BY <1>3, <1>5 DEF Covers, F!After
<1>6. ASSUME NEW q \in requests PROVE Fits(q)'
  <2>1. Fits(q)
    BY DEF ListInv
  <2>2. (q.generation = generation /\ q.served) =>
          (\A s \in since' : F!After(s, q.cursor)' => s \in q.page.rows \/ (q.page.next # F!NoCursor /\ F!After(s, q.page.next)'))
    BY <1>5, <2>1 DEF Fits
  <2> QED BY <1>2, <2>1, <2>2 DEF Fits, Covers, F!After
<1>7. since' \subseteq F!Shown(view)'
  BY <1>2, <1>3 DEF ListInv, F!Shown
<1>8. Shows'
  <2>1. Shows
    BY DEF ListInv
  <2>2. (~loading /\ ~failed) =>
          (\A s \in since' : F!After(s, F!NoCursor)' => s \in files \/ (cursor # F!NoCursor /\ F!After(s, cursor)'))
    BY <1>2, <1>5, <2>1 DEF Shows
  <2> QED BY <1>2, <2>1, <2>2 DEF Shows, Covers, F!After
<1>9. Alone'
  BY <1>2 DEF ListInv, Alone
<1> QED BY <1>2, <1>4, <1>6, <1>7, <1>8, <1>9 DEF ListInv

LEMMA AsksFor ==
  ASSUME ListInv, NEW more \in BOOLEAN, NEW v \in F!Views, NEW c \in Cursors, F!Begin(more, v, c)
  PROVE  \E a \in Asked : /\ requests' = requests \cup {a} /\ generation' = generation + 1
                          /\ a.generation = generation + 1 /\ a.more = more /\ a.view = v /\ a.cursor = c /\ ~a.served
                          /\ generation' \in Nat
                          /\ \A q \in requests : q.generation < generation'
<1>1. generation \in Nat /\ generation' = generation + 1
  BY DEF F!Begin, ListInv, ListTyped
<1>2. PICK g \in Nat : g = generation + 1
  BY <1>1
<1>3. F!NoCursor \in Cursors
  BY DEF F!NoCursor, Cursors
<1>4. [generation |-> g, more |-> more, view |-> v, cursor |-> c, served |-> FALSE,
       page |-> [rows |-> {}, next |-> F!NoCursor]] \in Asked
  BY <1>3 DEF Asked, Pages
<1>5. requests' = requests \cup {[generation |-> g, more |-> more, view |-> v, cursor |-> c, served |-> FALSE,
                                  page |-> [rows |-> {}, next |-> F!NoCursor]]}
  BY <1>1, <1>2 DEF F!Begin
<1>6. ASSUME NEW q \in requests PROVE q.generation < generation'
  BY <1>1 DEF ListInv, ListTyped, Asked, Fits
<1> QED BY <1>1, <1>2, <1>4, <1>5, <1>6

LEMMA LoadKeeps ==
  ASSUME ListInv, NEW v \in F!Views, F!LoadFiles(v) PROVE ListInv'
<1>1. F!NoCursor \in Cursors
  BY DEF F!NoCursor, Cursors
<1>2. PICK a \in Asked : /\ requests' = requests \cup {a} /\ generation' = generation + 1
                         /\ a.generation = generation + 1 /\ ~a.more /\ a.view = v /\ a.cursor = F!NoCursor /\ ~a.served
                         /\ generation' \in Nat
                         /\ \A q \in requests : q.generation < generation'
  BY <1>1, AsksFor DEF F!LoadFiles
<1>3. /\ view' = v /\ loading' = TRUE /\ failed' = FALSE /\ since' = F!Shown(v)
      /\ UNCHANGED <<key, files, cursor, loadingMore, stale>>
  BY DEF F!LoadFiles
<1>4. ListTyped'
  BY <1>2, <1>3 DEF ListInv, ListTyped, F!Shown
<1>5. ASSUME NEW q \in requests' PROVE Fits(q)'
  <2>1. CASE q \in requests
    <3>1. Fits(q) /\ q \in Asked /\ generation \in Nat
      BY <2>1 DEF ListInv, ListTyped
    <3> QED BY <1>2, <2>1, <3>1 DEF Fits, Asked
  <2>2. CASE q = a
    BY <1>2, <1>3, <2>2 DEF Fits
  <2> QED BY <1>2, <2>1, <2>2
<1>6. Alone'
  BY <1>2 DEF Alone
<1>7. since' \subseteq F!Shown(view)' /\ Shows'
  BY <1>3 DEF F!Shown, Shows
<1> QED BY <1>4, <1>5, <1>6, <1>7 DEF ListInv

LEMMA MoreKeeps ==
  ASSUME ListInv, F!LoadMore PROVE ListInv'
<1>1. /\ ~loading /\ cursor # F!NoCursor /\ loadingMore' = TRUE
      /\ UNCHANGED <<key, view, files, cursor, loading, stale, failed, since>>
  BY DEF F!LoadMore
<1>2. cursor \in Cursors /\ view \in F!Views
  BY DEF ListInv, ListTyped
<1>3. PICK a \in Asked : /\ requests' = requests \cup {a} /\ generation' = generation + 1
                         /\ a.generation = generation + 1 /\ a.more /\ a.view = view /\ a.cursor = cursor /\ ~a.served
                         /\ generation' \in Nat
                         /\ \A q \in requests : q.generation < generation'
  BY <1>2, AsksFor, ZenonT(60) DEF F!LoadMore
<1>4. ListTyped'
  BY <1>1, <1>3 DEF ListInv, ListTyped
<1>5. ASSUME NEW q \in requests' PROVE Fits(q)'
  <2>1. CASE q \in requests
    <3>1. Fits(q) /\ q \in Asked /\ generation \in Nat
      BY <2>1 DEF ListInv, ListTyped
    <3> QED BY <1>3, <2>1, <3>1 DEF Fits, Asked
  <2>2. CASE q = a
    BY <1>1, <1>3, <2>2 DEF Fits
  <2> QED BY <1>3, <2>1, <2>2
<1>6. Alone'
  BY <1>3 DEF Alone
<1>7. since' \subseteq F!Shown(view)' /\ Shows'
  BY <1>1 DEF ListInv, F!Shown, Shows, Covers, F!After
<1> QED BY <1>4, <1>5, <1>6, <1>7 DEF ListInv

\* Only the latest request ends its own waiting, and it is the only one there is.
LEMMA AnswersKeep ==
  ASSUME ListInv, NEW q \in requests, F!Deliver(q) \/ F!Fail(q) PROVE ListInv'
<1>1. /\ requests' = requests \ {q} /\ UNCHANGED <<key, view, generation, since>>
  BY DEF F!Deliver, F!Fail
<1>2. ListTyped /\ q \in Asked /\ Fits(q) /\ Alone /\ Shows /\ since \subseteq F!Shown(view)
  BY DEF ListInv, ListTyped
<1>3. since' \subseteq F!Shown(view)' /\ Alone'
  BY <1>1, <1>2 DEF F!Shown, Alone
<1>4. CASE q.generation # generation
  <2>1. UNCHANGED <<files, cursor, loading, loadingMore, stale, failed>>
    BY <1>4 DEF F!Deliver, F!Fail, F!IsCurrent
  <2>2. ListTyped' /\ Shows'
    BY <1>1, <1>2, <2>1 DEF ListTyped, Shows, Covers, F!After
  <2>3. ASSUME NEW p \in requests' PROVE Fits(p)'
    BY <1>1, <2>1 DEF ListInv, Fits, Covers, F!After
  <2> QED BY <1>3, <2>2, <2>3 DEF ListInv
<1>5. CASE q.generation = generation
  <2>1. ASSUME NEW p \in requests' PROVE Fits(p)'
    <3>1. Fits(p) /\ p.generation # generation
      BY <1>1, <1>2, <1>5 DEF ListInv, Alone
    <3> QED BY <1>1, <3>1 DEF Fits
  <2>2. CASE F!Deliver(q)
    <3>1. /\ q.served /\ cursor' = q.page.next /\ failed' = failed
          /\ files' = IF q.more THEN files \cup q.page.rows ELSE q.page.rows
          /\ loading' = (loading /\ q.more) /\ loadingMore' = (loadingMore /\ ~q.more) /\ stale' = FALSE
      BY <1>5, <2>2 DEF F!Deliver, F!IsCurrent
    <3>2. ListTyped'
      BY <1>1, <1>2, <3>1 DEF ListTyped, Asked, Pages
    <3>3. /\ q.view = view /\ Covers(q.page.rows, q.cursor, q.page.next)
          /\ \A r \in q.page.rows : q.view = 1 \/ r > 1
          /\ q.more => ~loading /\ q.cursor = cursor
          /\ ~q.more => q.cursor = F!NoCursor
      BY <1>2, <1>5, <3>1 DEF Fits
    <3>4. CASE q.more
      <4>1. files' = files \cup q.page.rows /\ ~loading
        BY <3>1, <3>3, <3>4
      <4>2. ~failed => (Covers(files, F!NoCursor, cursor) /\ \A r \in files : view = 1 \/ r > 1)
        BY <1>2, <4>1 DEF Shows
      <4>3. ~failed => Covers(files', F!NoCursor, cursor')
        BY <3>1, <3>3, <3>4, <4>1, <4>2 DEF Covers
      <4> QED BY <1>1, <1>3, <2>1, <3>1, <3>2, <3>3, <4>1, <4>2, <4>3 DEF ListInv, Shows, Covers, F!After
    <3>5. CASE ~q.more
      <4>1. files' = q.page.rows /\ Covers(files', F!NoCursor, cursor')
        BY <3>1, <3>3, <3>5
      <4> QED BY <1>1, <1>3, <2>1, <3>1, <3>2, <3>3, <4>1 DEF ListInv, Shows, Covers, F!After
    <3> QED BY <3>4, <3>5
  <2>3. CASE F!Fail(q)
    <3>1. /\ UNCHANGED <<files, cursor>> /\ failed' = (failed \/ ~q.more) /\ stale' = (q.more \/ files # {})
          /\ loading' = (loading /\ q.more) /\ loadingMore' = (loadingMore /\ ~q.more)
      BY <1>5, <2>3 DEF F!Fail, F!IsCurrent
    <3>2. ListTyped'
      BY <1>1, <1>2, <3>1 DEF ListTyped
    <3>3. q.more => ~loading
      BY <1>2, <1>5 DEF Fits
    <3>4. Shows'
      BY <1>1, <1>2, <3>1, <3>3 DEF Shows, Covers, F!After
    <3> QED BY <1>3, <2>1, <3>2, <3>4 DEF ListInv
  <2> QED BY <2>2, <2>3
<1> QED BY <1>4, <1>5

LEMMA ListSteps == ListInv /\ [F!Next]_(F!vars) => ListInv'
<1> SUFFICES ASSUME ListInv, [F!Next]_(F!vars) PROVE ListInv'
  OBVIOUS
<1>1. CASE F!Next
  BY <1>1, ServeKeeps, ChangesKeep, LoadKeeps, MoreKeeps, AnswersKeep DEF F!Next
<1>2. CASE UNCHANGED F!vars
  <2>1. UNCHANGED <<v1, v2, v3, v4, v5, v6, v7, v8, v9, v10, v11>>
    BY <1>2 DEF F!vars, F!flags
  <2> QED BY <2>1 DEF ListInv, ListTyped, Fits, Alone, Shows, Covers, F!After, F!Shown
<1> QED BY <1>1, <1>2

LEMMA ListIsSound == ListInv => F!Sound
BY DEF ListInv, ListTyped, Shows, Covers, F!Shown, F!After, F!Sound, F!Settled, F!ShowsTheView, F!ListIsComplete

-----------------------------------------------------------------------------
(***************************************************************************)
(* The rows of transfer tasks.  The snapshots of a group wait in the order *)
(* of their versions, and as long as nothing was lost the last of them     *)
(* shows the group as it is: so an end in the chain is newer than the row  *)
(* it will replace.  Every version of a row that a dismissal has frozen,   *)
(* found or hidden is at most the present one, and if it is the present    *)
(* one the row is over.                                                    *)
(***************************************************************************)

group     == v1
faulty    == v2    \* failed
version   == v3
chain     == v4
recent    == v5
row       == v6
admitting == v7
canceller == v8
dismissal == v9
reached   == v10
lost      == v11
trouble   == v12

States == {"none", "waiting", "running", "pausing", "paused", "cancelling"} \cup R!Ended
Rows   == {"none", "pending", "running", "paused", "interrupted"} \cup R!Final
Shots  == [state : States \ {"none"}, failed : BOOLEAN, version : Nat]

RowsTyped ==
  /\ group \in [Groups -> States] /\ faulty \in [Groups -> BOOLEAN]
  /\ version \in [Groups -> Nat] /\ chain \in [Groups -> Seq(Shots)]
  /\ recent \in [Groups -> BOOLEAN]
  /\ row \in [Groups -> [status : Rows, version : Nat, updated : Nat]]
  /\ dismissal \in [Groups -> [hidden : Nat, frozen : Nat, found : Nat]]
  /\ reached \in [Groups -> SUBSET (R!Final \cup {"undone"})]

\* What a row may say of a group: an end it came to, or a cancellation that has begun.
Told(g, e) == \/ e \in reached[g]
              \/ e = "cancelled" /\ (group[g] = "cancelling" \/ "undone" \in reached[g])

\* The end the row of a group in this state speaks of.
Ends(state, bad) ==
  CASE state = "completed" -> {IF bad THEN "failed" ELSE "completed"}
    [] state \in {"cancelling", "cancelled"} -> {"cancelled"}
    [] OTHER -> {}

\* Snapshots wait in order, none from the future, and tell of real ends only.
Ordered(g) ==
  /\ row[g].version <= version[g]
  /\ \A i \in 1 .. Len(chain[g]) :
       /\ chain[g][i].version <= version[g]
       /\ \A e \in Ends(chain[g][i].state, chain[g][i].failed) : Told(g, e)
       /\ i < Len(chain[g]) => chain[g][i].version < chain[g][Len(chain[g])].version

\* What has become of the end of a group.
Recorded(g) ==
  group[g] \in R!Ended /\ g \notin lost \cup admitting =>
    \/ row[g].status \in R!Final
    \/ /\ chain[g] # <<>>
       /\ chain[g][Len(chain[g])].state = group[g]
       /\ chain[g][Len(chain[g])].version > row[g].version

\* What a row says is true.
Truthful(g) ==
  /\ row[g].status \in R!Final => Told(g, row[g].status)
  /\ g \in canceller => Told(g, "cancelled")
  /\ group[g] = "cancelled" => "cancelled" \in reached[g]

Present(g, v) == v <= row[g].updated /\ (v = row[g].updated /\ v # 0 => R!Dismissible(g))

HidesOver(g) ==
  /\ row[g].status = "none" <=> row[g].updated = 0
  /\ Present(g, dismissal[g].hidden)
  /\ Present(g, dismissal[g].frozen)
  /\ Present(g, dismissal[g].found)

ChainsInv == RowsTyped /\ \A g \in Groups : Ordered(g) /\ Recorded(g) /\ Truthful(g) /\ HidesOver(g)

USE DEF group, faulty, version, chain, recent, row, admitting, canceller, dismissal, reached, lost, trouble

LEMMA ChainsAreSound == ChainsInv => R!Sound
<1> SUFFICES ASSUME ChainsInv PROVE R!Sound
  OBVIOUS
<1>1. R!EndIsRecorded
  BY DEF R!EndIsRecorded, ChainsInv, Recorded
<1>2. R!RowIsTrue
  BY DEF R!RowIsTrue, ChainsInv, Truthful, Told
<1>3. R!HiddenIsOver
  BY DEF R!HiddenIsOver, R!Hidden, ChainsInv, HidesOver, Present
<1> QED BY <1>1, <1>2, <1>3 DEF R!Sound

LEMMA ChainsStart == R!Init => ChainsInv
<1> SUFFICES ASSUME R!Init PROVE ChainsInv
  OBVIOUS
<1>1. RowsTyped
  BY DEF R!Init, RowsTyped, R!NoRow, R!NoDismissal, States, Rows, R!Ended, R!Final
<1>2. ASSUME NEW g \in Groups
      PROVE  Ordered(g) /\ Recorded(g) /\ Truthful(g) /\ HidesOver(g)
  BY DEF R!Init, R!NoRow, R!NoDismissal, Ordered, Recorded, Truthful, Told, HidesOver, Present,
         R!Ended, R!Final
<1> QED BY <1>1, <1>2 DEF ChainsInv

-----------------------------------------------------------------------------
(* A new snapshot.                                                         *)

LEMMA Snapshots ==
  ASSUME ChainsInv, NEW g \in Groups, NEW state \in States \ {"none"}, NEW bad \in BOOLEAN,
         R!Become(g, state, bad), group[g] = "cancelling" => state \in {"cancelling", "pausing", "cancelled"}
  PROVE  /\ group' \in [Groups -> States] /\ faulty' \in [Groups -> BOOLEAN]
         /\ version' \in [Groups -> Nat] /\ chain' \in [Groups -> Seq(Shots)]
         /\ reached' \in [Groups -> SUBSET (R!Final \cup {"undone"})]
         /\ group' = [group EXCEPT ![g] = state]
         /\ version' = [version EXCEPT ![g] = @ + 1]
         /\ Len(chain'[g]) = Len(chain[g]) + 1
         /\ chain'[g][Len(chain'[g])] =
              [state |-> state, failed |-> bad, version |-> version[g] + 1]
         /\ \A i \in 1 .. Len(chain[g]) : chain'[g][i] = chain[g][i]
         /\ \A h \in Groups : h # g => chain'[h] = chain[h] /\ reached'[h] = reached[h]
         /\ \A e : Told(g, e) \/ e \in Ends(state, bad) => Told(g, e)'
         /\ state = "cancelled" => "cancelled" \in reached'[g]
<1> DEFINE shot == [state |-> state, failed |-> bad, version |-> version[g] + 1]
<1>1. /\ group' = [group EXCEPT ![g] = state] /\ faulty' = [faulty EXCEPT ![g] = bad]
      /\ version' = [version EXCEPT ![g] = @ + 1]
      /\ chain' = [chain EXCEPT ![g] = Append(@, shot)]
  BY DEF R!Become
<1>2. version[g] \in Nat /\ chain[g] \in Seq(Shots) /\ RowsTyped
  BY DEF ChainsInv, RowsTyped
<1>3. shot \in Shots
  BY <1>2 DEF Shots
<1>4. PICK X \in SUBSET (R!Final \cup {"undone"}) :
        /\ reached' = [reached EXCEPT ![g] = @ \cup X]
        /\ X = CASE state = "completed" -> {IF bad THEN "failed" ELSE "completed"}
                [] state = "cancelled" -> {"cancelled"}
                [] state = "pausing" /\ group[g] = "cancelling" -> {"undone"}
                [] OTHER -> {}
  BY DEF R!Become, R!Final
<1> HIDE DEF shot
<1>5. /\ Append(chain[g], shot) \in Seq(Shots)
      /\ Len(Append(chain[g], shot)) = Len(chain[g]) + 1
      /\ Append(chain[g], shot)[Len(chain[g]) + 1] = shot
      /\ \A i \in 1 .. Len(chain[g]) : Append(chain[g], shot)[i] = chain[g][i]
  BY <1>2, <1>3
<1>6. chain'[g] = Append(chain[g], shot) /\ \A h \in Groups : h # g => chain'[h] = chain[h]
  BY <1>1, <1>2 DEF RowsTyped
<1>7. /\ reached' \in [Groups -> SUBSET (R!Final \cup {"undone"})]
      /\ reached'[g] = reached[g] \cup X
      /\ \A h \in Groups : h # g => reached'[h] = reached[h]
  BY <1>1, <1>2, <1>4 DEF RowsTyped
<1>8. chain' \in [Groups -> Seq(Shots)]
  BY <1>1, <1>2, <1>5 DEF RowsTyped
<1>9. group' \in [Groups -> States] /\ faulty' \in [Groups -> BOOLEAN] /\ version' \in [Groups -> Nat]
  BY <1>1, <1>2 DEF RowsTyped
<1>10. group'[g] = state
  BY <1>1, <1>2 DEF RowsTyped
<1>11. ASSUME NEW e, Told(g, e) PROVE Told(g, e)'
  <2>1. CASE group[g] = "cancelling"
    <3>1. CASE state = "cancelling"
      BY <1>7, <1>10, <1>11, <3>1 DEF Told
    <3>2. CASE state = "cancelled"
      <4>1. X = {"cancelled"}
        BY <1>4, <3>2
      <4> QED BY <1>7, <1>11, <4>1 DEF Told
    <3>3. CASE state = "pausing"
      <4>1. X = {"undone"}
        BY <1>4, <2>1, <3>3
      <4> QED BY <1>7, <1>11, <4>1 DEF Told
    <3> QED BY <2>1, <3>1, <3>2, <3>3
  <2> QED BY <1>7, <1>11, <2>1 DEF Told
<1>12. ASSUME NEW e \in Ends(state, bad) PROVE Told(g, e)'
  <2>1. CASE state = "completed"
    BY <1>4, <1>7, <1>12, <2>1 DEF Ends, Told
  <2>2. CASE state = "cancelled"
    BY <1>4, <1>7, <1>12, <2>2 DEF Ends, Told
  <2>3. CASE state = "cancelling"
    BY <1>10, <1>12, <2>3 DEF Ends, Told
  <2> QED BY <1>12, <2>1, <2>2, <2>3 DEF Ends
<1>13. state = "cancelled" => "cancelled" \in reached'[g]
  BY <1>4, <1>7
<1> QED BY <1>1, <1>5, <1>6, <1>7, <1>8, <1>9, <1>11, <1>12, <1>13 DEF shot

\* A snapshot leaves the rows as true as they were.
LEMMA BecomeKeeps ==
  ASSUME ChainsInv, NEW g \in Groups, NEW state \in States \ {"none"}, NEW bad \in BOOLEAN,
         R!Become(g, state, bad), group[g] = "cancelling" => state \in {"cancelling", "pausing", "cancelled"},
         UNCHANGED <<recent, row, dismissal, lost>>,
         canceller' \subseteq canceller \cup (IF state \in {"cancelling", "cancelled"} THEN {g} ELSE {}),
         admitting' = admitting \/ (admitting' = admitting \ {g} /\ state \notin R!Ended)
  PROVE  ChainsInv'
<1>1. /\ group' \in [Groups -> States] /\ faulty' \in [Groups -> BOOLEAN]
      /\ version' \in [Groups -> Nat] /\ chain' \in [Groups -> Seq(Shots)]
      /\ reached' \in [Groups -> SUBSET (R!Final \cup {"undone"})]
      /\ group' = [group EXCEPT ![g] = state]
      /\ version' = [version EXCEPT ![g] = @ + 1]
      /\ Len(chain'[g]) = Len(chain[g]) + 1
      /\ chain'[g][Len(chain'[g])] =
           [state |-> state, failed |-> bad, version |-> version[g] + 1]
      /\ \A i \in 1 .. Len(chain[g]) : chain'[g][i] = chain[g][i]
      /\ \A h \in Groups : h # g => chain'[h] = chain[h] /\ reached'[h] = reached[h]
      /\ \A e : Told(g, e) \/ e \in Ends(state, bad) => Told(g, e)'
      /\ state = "cancelled" => "cancelled" \in reached'[g]
  BY Snapshots
<1>2. RowsTyped'
  BY <1>1 DEF ChainsInv, RowsTyped
<1>3. ASSUME NEW h \in Groups, h # g
      PROVE  (Ordered(h) /\ Recorded(h) /\ Truthful(h) /\ HidesOver(h))'
  <2>1. /\ Ordered(h) /\ Recorded(h) /\ Truthful(h) /\ HidesOver(h) /\ RowsTyped
        /\ group'[h] = group[h] /\ version'[h] = version[h]
        /\ chain'[h] = chain[h] /\ reached'[h] = reached[h]
    BY <1>1, <1>3 DEF ChainsInv, RowsTyped
  <2>2. Ordered(h)' /\ Recorded(h)' /\ Truthful(h)'
    BY <1>3, <2>1 DEF Ordered, Recorded, Truthful, Told
  <2>3. HidesOver(h)'
    BY <2>1 DEF HidesOver, Present, R!Dismissible
  <2> QED BY <2>2, <2>3
<1>4. /\ Ordered(g) /\ Recorded(g) /\ Truthful(g) /\ HidesOver(g) /\ RowsTyped
      /\ version[g] \in Nat /\ row[g].version \in Nat /\ Len(chain[g]) \in Nat
      /\ version'[g] = version[g] + 1
      /\ \A i \in 1 .. Len(chain[g]) : chain[g][i].version \in Nat
  <2>1. /\ version[g] \in Nat /\ chain[g] \in Seq(Shots)
        /\ row[g] \in [status : Rows, version : Nat, updated : Nat]
    BY DEF ChainsInv, RowsTyped
  <2>2. \A i \in 1 .. Len(chain[g]) : chain[g][i] \in Shots
    BY <2>1
  <2>3. \A i \in 1 .. Len(chain[g]) : chain[g][i].version \in Nat
    BY <2>2 DEF Shots
  <2>4. Ordered(g) /\ Recorded(g) /\ Truthful(g) /\ HidesOver(g) /\ RowsTyped
    BY DEF ChainsInv
  <2>5. version'[g] = version[g] + 1
    BY <1>1, <2>4 DEF RowsTyped
  <2> QED BY <2>1, <2>3, <2>4, <2>5
<1>5. Ordered(g)'
  <2>1. row'[g].version <= version'[g]
    BY <1>4 DEF Ordered
  <2>2. ASSUME NEW i \in 1 .. Len(chain'[g])
        PROVE  /\ chain'[g][i].version <= version'[g]
               /\ \A e \in Ends(chain'[g][i].state, chain'[g][i].failed) : Told(g, e)'
               /\ i < Len(chain'[g]) => chain'[g][i].version < chain'[g][Len(chain'[g])].version
    <3>1. CASE i \in 1 .. Len(chain[g])
      <4>1. /\ chain'[g][i] = chain[g][i] /\ chain[g][i].version <= version[g]
            /\ chain[g][i].version \in Nat
        BY <1>1, <1>4, <3>1 DEF Ordered
      <4>2. \A e \in Ends(chain[g][i].state, chain[g][i].failed) : Told(g, e)'
        BY <1>1, <1>4, <3>1 DEF Ordered
      <4>3. chain'[g][Len(chain'[g])].version = version[g] + 1
        BY <1>1
      <4>4. /\ chain[g][i].version <= version[g] + 1
            /\ chain[g][i].version < version[g] + 1
        BY <1>4, <4>1
      <4> QED BY <1>4, <4>1, <4>2, <4>3, <4>4
    <3>2. CASE i = Len(chain[g]) + 1
      <4>1. i = Len(chain'[g]) /\ chain'[g][i].version = version'[g]
        BY <1>1, <1>4, <3>2
      <4>2. Ends(chain'[g][i].state, chain'[g][i].failed) = Ends(state, bad)
        BY <1>1, <4>1
      <4> QED BY <1>1, <1>4, <4>1, <4>2
    <3> QED BY <1>1, <1>4, <3>1, <3>2
  <2> QED BY <2>1, <2>2 DEF Ordered
<1>6. Recorded(g)'
  <2>1. /\ chain'[g] # <<>> /\ chain'[g][Len(chain'[g])].state = group'[g]
        /\ chain'[g][Len(chain'[g])].version > row'[g].version
    BY <1>1, <1>4 DEF Ordered, RowsTyped
  <2> QED BY <2>1 DEF Recorded
<1>7. Truthful(g)'
  <2>1. g \in canceller' => g \in canceller \/ state \in {"cancelling", "cancelled"}
    OBVIOUS
  <2>2. state \in {"cancelling", "cancelled"} => Told(g, "cancelled")'
    BY <1>1 DEF Ends
  <2>3. group'[g] = state
    BY <1>1, <1>4 DEF RowsTyped
  <2> QED BY <1>1, <1>4, <2>1, <2>2, <2>3 DEF Truthful
<1>8. HidesOver(g)'
  BY <1>4 DEF HidesOver, Present, R!Dismissible
<1> QED BY <1>2, <1>3, <1>5, <1>6, <1>7, <1>8 DEF ChainsInv

-----------------------------------------------------------------------------
(* A snapshot is written, or lost.                                         *)

LEMMA Statuses ==
  ASSUME NEW shot \in Shots
  PROVE  /\ R!Status(shot) \in Rows \ {"none"}
         /\ R!Status(shot) \in R!Final => R!Status(shot) \in Ends(shot.state, shot.failed)
         /\ shot.state \in R!Ended => R!Status(shot) \in R!Final
<1> DEFINE state == shot.state
<1>1. state \in States \ {"none"}
  BY DEF Shots
<1>2. R!Status(shot) \in Rows \ {"none"} /\ (state \in R!Ended => R!Status(shot) \in R!Final)
  BY <1>1 DEF R!Status, Rows, R!Final, R!Ended
<1>3. CASE state = "completed"
  BY <1>2, <1>3 DEF R!Status, Ends
<1>4. CASE state \in {"cancelling", "cancelled"}
  BY <1>2, <1>4 DEF R!Status, Ends
<1>5. CASE state \notin {"completed", "cancelling", "cancelled"}
  <2>1. R!Status(shot) \in {"paused", "running", "pending"}
    BY <1>5 DEF R!Status
  <2> QED BY <1>2, <2>1 DEF R!Final
<1> QED BY <1>3, <1>4, <1>5

\* The first snapshot of a chain and the rest of it.
LEMMA Taken ==
  ASSUME ChainsInv, NEW g \in Groups, chain[g] # <<>>, chain' = [chain EXCEPT ![g] = Tail(@)]
  PROVE  LET n == Len(chain[g])
             shot == Head(chain[g])
         IN /\ n \in Nat /\ n >= 1
            /\ shot \in Shots /\ shot = chain[g][1]
            /\ shot.version <= version[g]
            /\ \A e \in Ends(shot.state, shot.failed) : Told(g, e)
            /\ n > 1 => shot.version < chain[g][n].version
            /\ chain' \in [Groups -> Seq(Shots)]
            /\ \A h \in Groups : h # g => chain'[h] = chain[h]
            /\ Len(chain'[g]) = n - 1
            /\ \A i \in 1 .. n - 1 : chain'[g][i] = chain[g][i + 1]
            /\ \A i \in 1 .. n : chain[g][i].version \in Nat
<1> DEFINE s == chain[g]
           n == Len(s)
<1>1. s \in Seq(Shots) /\ RowsTyped /\ Ordered(g)
  BY DEF ChainsInv, RowsTyped
<1>2. /\ n \in Nat /\ n >= 1 /\ Head(s) = s[1] /\ Tail(s) \in Seq(Shots)
      /\ Len(Tail(s)) = n - 1
      /\ \A i \in 1 .. n - 1 : Tail(s)[i] = s[i + 1]
      /\ \A i \in 1 .. n : s[i] \in Shots
  <2> HIDE DEF s
  <2>1. s \in Seq(Shots) /\ s # <<>>
    BY <1>1 DEF s
  <2> QED BY <2>1
<1>3. chain'[g] = Tail(s) /\ \A h \in Groups : h # g => chain'[h] = chain[h]
  BY <1>1 DEF RowsTyped
<1>4. chain' \in [Groups -> Seq(Shots)]
  BY <1>1, <1>2 DEF RowsTyped
<1>5. \A i \in 1 .. n : s[i].version \in Nat
  BY <1>2 DEF Shots
<1>6. 1 \in 1 .. n
  BY <1>2
<1>7. /\ s[1].version <= version[g] /\ \A e \in Ends(s[1].state, s[1].failed) : Told(g, e)
      /\ 1 < n => s[1].version < s[n].version
  BY <1>1, <1>6 DEF Ordered
<1>8. n > 1 => s[1].version < s[n].version
  BY <1>2, <1>7
<1> QED BY <1>2, <1>3, <1>4, <1>5, <1>6, <1>7, <1>8

\* The chain without its first snapshot is in order for any row that is not newer
\* than the group.
LEMMA RestOrdered ==
  ASSUME ChainsInv, NEW g \in Groups, chain[g] # <<>>, chain' = [chain EXCEPT ![g] = Tail(@)],
         UNCHANGED <<version, reached, group>>, row'[g].version <= version[g]
  PROVE  Ordered(g)'
<1> DEFINE n == Len(chain[g])
<1>1. /\ n \in Nat /\ n >= 1 /\ Len(chain'[g]) = n - 1
      /\ \A i \in 1 .. n - 1 : chain'[g][i] = chain[g][i + 1]
  BY Taken
<1>2. Ordered(g)
  BY DEF ChainsInv
<1>3. ASSUME NEW i \in 1 .. Len(chain'[g])
      PROVE  /\ chain'[g][i].version <= version'[g]
             /\ \A e \in Ends(chain'[g][i].state, chain'[g][i].failed) : Told(g, e)'
             /\ i < Len(chain'[g]) => chain'[g][i].version < chain'[g][Len(chain'[g])].version
  <2>1. i \in 1 .. n - 1 /\ i + 1 \in 1 .. n /\ n - 1 \in 1 .. n - 1
    BY <1>1
  <2>2. chain'[g][i] = chain[g][i + 1] /\ chain'[g][Len(chain'[g])] = chain[g][n - 1 + 1]
    BY <1>1, <2>1
  <2>3. n - 1 + 1 = n /\ (i < n - 1 => i + 1 < n)
    BY <1>1, <2>1
  <2>4. /\ chain[g][i + 1].version <= version[g]
        /\ \A e \in Ends(chain[g][i + 1].state, chain[g][i + 1].failed) : Told(g, e)
        /\ i + 1 < n => chain[g][i + 1].version < chain[g][n].version
    BY <1>2, <2>1 DEF Ordered
  <2>5. \A e : Told(g, e)' <=> Told(g, e)
    BY DEF Told
  <2> QED BY <1>1, <2>2, <2>3, <2>4, <2>5
<1> QED BY <1>3 DEF Ordered

LEMMA OthersKeep ==
  ASSUME ChainsInv, NEW h \in Groups,
         group'[h] = group[h], version'[h] = version[h], chain'[h] = chain[h],
         row'[h] = row[h], dismissal'[h] = dismissal[h], reached'[h] = reached[h],
         h \in lost => h \in lost', h \in admitting => h \in admitting',
         h \in canceller' => h \in canceller
  PROVE  (Ordered(h) /\ Recorded(h) /\ Truthful(h) /\ HidesOver(h))'
<1>1. Ordered(h) /\ Recorded(h) /\ Truthful(h) /\ HidesOver(h)
  BY DEF ChainsInv
<1>2. Ordered(h)' /\ Recorded(h)' /\ Truthful(h)'
  BY <1>1 DEF Ordered, Recorded, Truthful, Told
<1>3. HidesOver(h)'
  BY <1>1 DEF HidesOver, Present, R!Dismissible
<1> QED BY <1>2, <1>3

\* No dismissal knows of a version that a row has only now.
LEMMA NewerRow ==
  ASSUME ChainsInv, NEW g \in Groups, dismissal'[g] = dismissal[g],
         row'[g].status # "none", row'[g].updated = row[g].updated + 1
  PROVE  HidesOver(g)'
<1>1. HidesOver(g)
  BY DEF ChainsInv
<1>2. /\ row[g].updated \in Nat /\ dismissal[g].hidden \in Nat
      /\ dismissal[g].frozen \in Nat /\ dismissal[g].found \in Nat
  <2>1. dismissal[g] \in [hidden : Nat, frozen : Nat, found : Nat]
    BY DEF ChainsInv, RowsTyped
  <2>2. row[g] \in [status : Rows, version : Nat, updated : Nat]
    BY DEF ChainsInv, RowsTyped
  <2> QED BY <2>1, <2>2
<1>3. \A v \in Nat : v <= row[g].updated => v <= row'[g].updated /\ v # row'[g].updated
  BY <1>2
<1> QED BY <1>1, <1>2, <1>3 DEF HidesOver, Present

\* What the statement makes of a row.
LEMMA Written ==
  ASSUME ChainsInv, NEW g \in Groups, NEW shot \in Shots, R!Persisted(g, shot)
  PROVE  /\ row' \in [Groups -> [status : Rows, version : Nat, updated : Nat]]
         /\ \A h \in Groups : h # g => row'[h] = row[h]
         /\ \/ row'[g] = row[g]
            \/ /\ row'[g] = [status |-> R!Status(shot), version |-> shot.version,
                             updated |-> row[g].updated + 1]
               /\ row[g].status \notin R!Final
         /\ row'[g] = row[g] /\ shot.version > row[g].version => row[g].status \in R!Final
<1>1. /\ RowsTyped /\ row[g] \in [status : Rows, version : Nat, updated : Nat]
      /\ shot.version \in Nat
  BY DEF ChainsInv, RowsTyped, Shots
<1> DEFINE new == [status |-> R!Status(shot), version |-> shot.version,
                   updated |-> row[g].updated + 1]
<1>2. new \in [status : Rows, version : Nat, updated : Nat] /\ new # row[g]
  BY <1>1, Statuses
<1>3. CASE row[g].status = "none" \/ (shot.version > row[g].version /\ row[g].status \notin R!Final)
  <2>1. row' = [row EXCEPT ![g] = new]
    BY <1>3 DEF R!Persisted
  <2>2. row[g].status \notin R!Final
    BY <1>3 DEF R!Final
  <2> HIDE DEF new
  <2>3. row'[g] = new /\ \A h \in Groups : h # g => row'[h] = row[h]
    BY <1>1, <2>1 DEF RowsTyped
  <2>4. row' \in [Groups -> [status : Rows, version : Nat, updated : Nat]]
    BY <1>1, <1>2, <2>1 DEF RowsTyped
  <2> QED BY <1>2, <2>2, <2>3, <2>4 DEF new
<1>4. CASE ~(row[g].status = "none" \/ (shot.version > row[g].version /\ row[g].status \notin R!Final))
  BY <1>1, <1>4 DEF R!Persisted, RowsTyped
<1> QED BY <1>3, <1>4

LEMMA PersistKeeps ==
  ASSUME ChainsInv, NEW g \in Groups, R!Persist(g)
  PROVE  ChainsInv'
<1> DEFINE n    == Len(chain[g])
           shot == Head(chain[g])
<1>1. /\ chain[g] # <<>> /\ chain' = [chain EXCEPT ![g] = Tail(@)]
      /\ UNCHANGED <<group, faulty, version, admitting, canceller, dismissal, reached, lost, trouble>>
      /\ \/ ~R!Urgent(shot) /\ UNCHANGED <<recent, row>>
         \/ recent' = [recent EXCEPT ![g] = TRUE] /\ R!Persisted(g, shot)
  BY DEF R!Persist, R!web
<1>2. /\ n \in Nat /\ n >= 1 /\ shot \in Shots /\ shot = chain[g][1]
      /\ shot.version <= version[g]
      /\ \A e \in Ends(shot.state, shot.failed) : Told(g, e)
      /\ n > 1 => shot.version < chain[g][n].version
      /\ chain' \in [Groups -> Seq(Shots)]
      /\ \A h \in Groups : h # g => chain'[h] = chain[h]
      /\ Len(chain'[g]) = n - 1
      /\ \A i \in 1 .. n - 1 : chain'[g][i] = chain[g][i + 1]
      /\ \A i \in 1 .. n : chain[g][i].version \in Nat
  BY <1>1, Taken
<1>3. /\ row' \in [Groups -> [status : Rows, version : Nat, updated : Nat]]
      /\ \A h \in Groups : h # g => row'[h] = row[h]
      /\ \/ row'[g] = row[g]
         \/ /\ row'[g] = [status |-> R!Status(shot), version |-> shot.version,
                          updated |-> row[g].updated + 1]
            /\ row[g].status \notin R!Final
      /\ row'[g] = row[g] /\ R!Urgent(shot) /\ shot.version > row[g].version => row[g].status \in R!Final
      /\ recent' \in [Groups -> BOOLEAN]
  BY <1>1, <1>2, Written DEF ChainsInv, RowsTyped
<1> HIDE DEF shot, n
<1>4. RowsTyped /\ Ordered(g) /\ Recorded(g) /\ Truthful(g) /\ HidesOver(g)
  BY DEF ChainsInv
<1>5. RowsTyped'
  BY <1>1, <1>2, <1>3, <1>4 DEF RowsTyped
<1>6. /\ R!Status(shot) \in Rows \ {"none"}
      /\ R!Status(shot) \in R!Final => R!Status(shot) \in Ends(shot.state, shot.failed)
      /\ shot.state \in R!Ended => R!Status(shot) \in R!Final
  BY <1>2, Statuses
<1>7. ASSUME NEW h \in Groups, h # g
      PROVE  (Ordered(h) /\ Recorded(h) /\ Truthful(h) /\ HidesOver(h))'
  BY <1>1, <1>2, <1>3, <1>7, OthersKeep
<1>8. Ordered(g)'
  <2>1. row'[g].version <= version[g]
    BY <1>2, <1>3, <1>4 DEF Ordered
  <2> QED BY <1>1, <2>1, RestOrdered
<1>9. Recorded(g)'
  <2> SUFFICES ASSUME group'[g] \in R!Ended, g \notin lost' \cup admitting',
                      row'[g].status \notin R!Final
               PROVE  /\ chain'[g] # <<>>
                      /\ chain'[g][Len(chain'[g])].state = group'[g]
                      /\ chain'[g][Len(chain'[g])].version > row'[g].version
    BY DEF Recorded
  <2>1. row[g].status \notin R!Final
    BY <1>3
  <2>2. chain[g][n].state = group[g] /\ chain[g][n].version > row[g].version
    BY <1>1, <1>4, <2>1 DEF Recorded, n
  <2>3. n > 1
    <3>1. CASE n = 1
      <4>1. shot.state \in R!Ended /\ shot.version > row[g].version
        BY <1>1, <1>2, <2>2, <3>1
      <4>2. R!Urgent(shot)
        BY <4>1 DEF R!Urgent
      <4> QED BY <1>3, <1>6, <2>1, <4>1, <4>2
    <3> QED BY <1>2, <3>1
  <2>4. chain'[g][Len(chain'[g])] = chain[g][n]
    <3>1. n - 1 \in 1 .. n - 1 /\ n - 1 + 1 = n
      BY <1>2, <2>3
    <3> QED BY <1>2, <3>1
  <2>5. chain'[g] # <<>>
    <3>1. Len(chain'[g]) # 0
      BY <1>2, <2>3
    <3> QED BY <3>1
  <2>6. chain[g][n].version > row'[g].version
    <3>1. chain[g][n].version \in Nat /\ shot.version \in Nat
      BY <1>2 DEF Shots
    <3>2. CASE row'[g] = row[g]
      BY <2>2, <3>2
    <3>3. CASE row'[g].version = shot.version
      BY <1>2, <2>3, <3>1, <3>3
    <3> QED BY <1>3, <3>2, <3>3
  <2> QED BY <1>1, <2>2, <2>4, <2>5, <2>6
<1>10. Truthful(g)'
  BY <1>1, <1>2, <1>3, <1>4, <1>6 DEF Truthful, Told
<1>11. HidesOver(g)'
  <2>1. CASE row'[g] = row[g]
    BY <1>1, <1>4, <2>1 DEF HidesOver, Present, R!Dismissible
  <2>2. CASE row'[g].status = R!Status(shot) /\ row'[g].updated = row[g].updated + 1
    BY <1>1, <1>6, <2>2, NewerRow
  <2> QED BY <1>3, <2>1, <2>2
<1> QED BY <1>5, <1>7, <1>8, <1>9, <1>10, <1>11 DEF ChainsInv

LEMMA PersistFailsKeeps ==
  ASSUME ChainsInv, NEW g \in Groups, R!PersistFails(g)
  PROVE  ChainsInv'
<1>1. /\ chain[g] # <<>> /\ chain' = [chain EXCEPT ![g] = Tail(@)]
      /\ recent' = [recent EXCEPT ![g] = TRUE] /\ lost' = lost \cup {g}
      /\ UNCHANGED <<group, faulty, version, row, admitting, canceller, dismissal, reached>>
  BY DEF R!PersistFails, R!web
<1>2. RowsTyped /\ Ordered(g) /\ Recorded(g) /\ Truthful(g) /\ HidesOver(g)
  BY DEF ChainsInv
<1>3. /\ chain' \in [Groups -> Seq(Shots)] /\ recent' \in [Groups -> BOOLEAN]
      /\ \A h \in Groups : h # g => chain'[h] = chain[h]
  BY <1>1, <1>2, Taken DEF RowsTyped
<1>4. RowsTyped'
  BY <1>1, <1>2, <1>3 DEF RowsTyped
<1>5. ASSUME NEW h \in Groups, h # g
      PROVE  (Ordered(h) /\ Recorded(h) /\ Truthful(h) /\ HidesOver(h))'
  BY <1>1, <1>3, <1>5, OthersKeep
<1>6. Ordered(g)'
  BY <1>1, <1>2, RestOrdered DEF Ordered
<1>7. Recorded(g)' /\ Truthful(g)'
  BY <1>1, <1>2 DEF Recorded, Truthful, Told
<1>8. HidesOver(g)'
  BY <1>1, <1>2 DEF HidesOver, Present, R!Dismissible
<1> QED BY <1>4, <1>5, <1>6, <1>7, <1>8 DEF ChainsInv

-----------------------------------------------------------------------------
(* The other steps.                                                        *)

LEMMA ChangeKeeps ==
  ASSUME ChainsInv, NEW g \in Groups, R!Change(g) \/ R!RetryFailed(g) \/ R!Ensure(g) \/ R!CancelGroup(g)
  PROVE  ChainsInv'
<1>0. group[g] \in States /\ faulty[g] \in BOOLEAN
  BY DEF ChainsInv, RowsTyped
<1>1. CASE R!Change(g)
  <2>1. PICK state \in R!Follows(group[g]) :
        \E bad \in IF group[g] \in {"running", "pausing"} /\ state \in {"waiting", "running", "paused", "completed"}
                   THEN {faulty[g], TRUE} ELSE {faulty[g]} :
          R!Become(g, state, bad)
    BY <1>1 DEF R!Change
  <2>2. PICK bad \in BOOLEAN : R!Become(g, state, bad)
    BY <1>0, <2>1
  <2>3. state \in States \ {"none"}
    BY <2>1 DEF R!Follows, States, R!Ended
  <2>4. group[g] = "cancelling" => state \in {"pausing", "cancelled"}
    BY <2>1 DEF R!Follows
  <2> QED BY <1>1, <2>2, <2>3, <2>4, BecomeKeeps DEF R!Change, R!web
<1>2. CASE R!RetryFailed(g)
  BY <1>2, BecomeKeeps DEF R!RetryFailed, R!web, States
<1>3. CASE R!Ensure(g)
  <2>1. CASE group[g] \in R!Ended \cup {"none"}
    BY <1>3, <2>1, BecomeKeeps DEF R!Ensure, R!web, States, R!Ended
  <2>2. CASE group[g] \notin R!Ended \cup {"none"}
    BY <1>0, <1>3, <2>2, BecomeKeeps DEF R!Ensure, R!web
  <2> QED BY <2>1, <2>2
<1>4. CASE R!CancelGroup(g)
  <2>1. CASE group[g] \notin {"cancelling", "cancelled"}
    <3>1. PICK state \in {"cancelling", "cancelled"} : R!Become(g, state, faulty[g])
      BY <1>4, <2>1 DEF R!CancelGroup
    <3>2. state \in States \ {"none"}
      BY DEF States, R!Ended
    <3> QED BY <1>0, <1>4, <2>1, <3>1, <3>2, BecomeKeeps DEF R!CancelGroup
  <2>2. CASE group[g] \in {"cancelling", "cancelled"}
    <3>1. /\ UNCHANGED <<group, faulty, version, chain, reached, recent, row, admitting, dismissal, lost>>
          /\ canceller' = canceller \cup {g}
      BY <1>4, <2>2 DEF R!CancelGroup, R!memory
    <3>2. Told(g, "cancelled")
      BY <2>2 DEF ChainsInv, Truthful, Told
    <3>3. RowsTyped'
      BY <3>1 DEF ChainsInv, RowsTyped
    <3>4. ASSUME NEW h \in Groups PROVE (Ordered(h) /\ Recorded(h) /\ Truthful(h) /\ HidesOver(h))'
      <4>1. Ordered(h) /\ Recorded(h) /\ Truthful(h) /\ HidesOver(h)
        BY DEF ChainsInv
      <4>2. Ordered(h)' /\ Recorded(h)' /\ HidesOver(h)'
        BY <3>1, <4>1 DEF Ordered, Recorded, HidesOver, Present, R!Dismissible, Told
      <4>3. Truthful(h)'
        BY <3>1, <3>2, <4>1 DEF Truthful, Told
      <4> QED BY <4>2, <4>3
    <3> QED BY <3>3, <3>4 DEF ChainsInv
  <2> QED BY <2>1, <2>2
<1> QED BY <1>1, <1>2, <1>3, <1>4

LEMMA AdmitKeeps ==
  ASSUME ChainsInv, NEW g \in Groups, R!Admit(g)
  PROVE  ChainsInv'
<1>1. PICK now \in {version[g], version[g] + 1} :
        /\ R!Persisted(g, [state |-> "waiting", failed |-> FALSE, version |-> now])
        /\ version' = [version EXCEPT ![g] = now]
  BY DEF R!Admit
<1> DEFINE shot == [state |-> "waiting", failed |-> FALSE, version |-> now]
<1>2. /\ admitting' = admitting \cup {g}
      /\ UNCHANGED <<group, faulty, chain, recent, canceller, dismissal, reached, lost>>
  BY DEF R!Admit, R!web
<1>3. RowsTyped /\ Ordered(g) /\ Recorded(g) /\ Truthful(g) /\ HidesOver(g)
  BY DEF ChainsInv
<1>4. version[g] \in Nat /\ now \in Nat /\ version[g] <= now
  BY <1>3 DEF RowsTyped
<1>5. shot \in Shots /\ R!Status(shot) = "pending" /\ shot.version = now
  BY <1>4 DEF Shots, States, R!Status
<1>6. R!Persisted(g, shot)
  BY <1>1
<1> HIDE DEF shot
<1>7. /\ row' \in [Groups -> [status : Rows, version : Nat, updated : Nat]]
      /\ \A h \in Groups : h # g => row'[h] = row[h]
      /\ \/ row'[g] = row[g]
         \/ row'[g] = [status |-> R!Status(shot), version |-> shot.version,
                       updated |-> row[g].updated + 1]
  BY <1>5, <1>6, Written
<1>8. version' \in [Groups -> Nat] /\ version'[g] = now /\ \A h \in Groups : h # g => version'[h] = version[h]
  BY <1>1, <1>3, <1>4 DEF RowsTyped
<1>9. RowsTyped'
  BY <1>2, <1>3, <1>7, <1>8 DEF RowsTyped
<1>10. ASSUME NEW h \in Groups, h # g
       PROVE  (Ordered(h) /\ Recorded(h) /\ Truthful(h) /\ HidesOver(h))'
  BY <1>2, <1>7, <1>8, <1>10, OthersKeep
<1>11. Ordered(g)'
  <2>1. row'[g].version <= version'[g]
    <3>1. row[g].version \in Nat /\ row[g].version <= version[g]
      BY <1>3 DEF Ordered, RowsTyped
    <3> QED BY <1>4, <1>5, <1>7, <1>8, <3>1
  <2>2. ASSUME NEW i \in 1 .. Len(chain[g])
        PROVE  chain[g][i].version <= version'[g]
    <3>1. chain[g] \in Seq(Shots)
      BY <1>3 DEF RowsTyped
    <3>2. chain[g][i] \in Shots
      BY <3>1
    <3>3. chain[g][i].version \in Nat /\ chain[g][i].version <= version[g]
      BY <1>3, <3>2 DEF Shots, Ordered
    <3> QED BY <1>4, <1>8, <3>3
  <2>3. \A e : Told(g, e)' <=> Told(g, e)
    BY <1>2 DEF Told
  <2>4. chain'[g] = chain[g]
    BY <1>2
  <2>5. ASSUME NEW i \in 1 .. Len(chain[g])
        PROVE  /\ \A e \in Ends(chain[g][i].state, chain[g][i].failed) : Told(g, e)'
               /\ i < Len(chain[g]) => chain[g][i].version < chain[g][Len(chain[g])].version
    BY <1>3, <2>3 DEF Ordered
  <2> QED BY <2>1, <2>2, <2>4, <2>5 DEF Ordered
<1>12. Recorded(g)' /\ Truthful(g)'
  <2>1. Recorded(g)'
    BY <1>2 DEF Recorded
  <2>2. row'[g].status = row[g].status \/ row'[g].status = "pending"
    BY <1>5, <1>7
  <2>3. row'[g].status \in R!Final => row'[g].status = row[g].status
    BY <2>2 DEF R!Final
  <2>4. \A e : Told(g, e)' <=> Told(g, e)
    BY <1>2 DEF Told
  <2> QED BY <1>2, <1>3, <2>1, <2>3, <2>4 DEF Truthful
<1>13. HidesOver(g)'
  <2>1. CASE row'[g] = row[g]
    BY <1>2, <1>3, <2>1 DEF HidesOver, Present, R!Dismissible
  <2>2. CASE row'[g].status = "pending" /\ row'[g].updated = row[g].updated + 1
    BY <1>2, <2>2, NewerRow
  <2> QED BY <1>5, <1>7, <2>1, <2>2
<1> QED BY <1>9, <1>10, <1>11, <1>12, <1>13 DEF ChainsInv

LEMMA RestartKeeps ==
  ASSUME ChainsInv, R!Restart
  PROVE  ChainsInv'
<1>1. /\ RowsTyped
      /\ \A g \in Groups : Ordered(g) /\ Recorded(g) /\ Truthful(g) /\ HidesOver(g)
  BY DEF ChainsInv
<1>2. ASSUME NEW g \in Groups
      PROVE  /\ group'[g] = "none" /\ faulty'[g] = FALSE /\ recent'[g] = FALSE
             /\ chain'[g] = <<>> /\ version'[g] = version[g]
             /\ \A e : Told(g, e) => Told(g, e)'
  <2>1. reached'[g] = reached[g] \cup (IF group[g] = "cancelling" THEN {"cancelled"} ELSE {})
    BY DEF R!Restart
  <2> QED BY <2>1 DEF R!Restart, Told
<1>3. ASSUME NEW g \in Groups
      PROVE  /\ dismissal[g] \in [hidden : Nat, frozen : Nat, found : Nat]
             /\ dismissal'[g] = [hidden |-> dismissal[g].hidden, frozen |-> 0, found |-> 0]
             /\ dismissal[g].hidden \in Nat /\ dismissal'[g].hidden = dismissal[g].hidden
             /\ dismissal'[g].frozen = 0 /\ dismissal'[g].found = 0
             /\ dismissal'[g] \in [hidden : Nat, frozen : Nat, found : Nat]
  <2>1. dismissal'[g] = [R!NoDismissal EXCEPT !.hidden = dismissal[g].hidden]
    BY DEF R!Restart
  <2>2. dismissal[g] \in [hidden : Nat, frozen : Nat, found : Nat]
    BY <1>1 DEF RowsTyped
  <2>3. dismissal'[g] = [hidden |-> dismissal[g].hidden, frozen |-> 0, found |-> 0]
    BY <2>1, <2>2 DEF R!NoDismissal
  <2> QED BY <2>2, <2>3
<1>4. ASSUME NEW g \in Groups
      PROVE  /\ row[g] \in [status : Rows, version : Nat, updated : Nat]
             /\ \/ row'[g] = row[g]
                \/ row'[g] = [status |-> "interrupted", version |-> row[g].version,
                              updated |-> row[g].updated + 1]
             /\ row'[g] \in [status : Rows, version : Nat, updated : Nat]
             /\ row[g].updated \in Nat /\ row'[g].version = row[g].version
             /\ row'[g].status \in R!Final => row'[g] = row[g]
  <2>1. \/ row'[g] = row[g]
        \/ row'[g] = [row[g] EXCEPT !.status = "interrupted", !.updated = @ + 1]
    BY DEF R!Restart
  <2>2. row[g] \in [status : Rows, version : Nat, updated : Nat]
    BY <1>1 DEF RowsTyped
  <2>3. CASE row'[g] = row[g]
    BY <2>2, <2>3
  <2>4. CASE row'[g] = [row[g] EXCEPT !.status = "interrupted", !.updated = @ + 1]
    <3>1. row'[g] = [status |-> "interrupted", version |-> row[g].version,
                     updated |-> row[g].updated + 1]
      BY <2>2, <2>4
    <3> QED BY <2>2, <3>1 DEF Rows, R!Final
  <2> QED BY <2>1, <2>3, <2>4
<1>5. RowsTyped'
  <2>1. row' \in [Groups -> [status : Rows, version : Nat, updated : Nat]]
    <3>1. row' = [g \in Groups |-> row'[g]]
      BY DEF R!Restart
    <3>2. \A g \in Groups : row'[g] \in [status : Rows, version : Nat, updated : Nat]
      BY <1>4
    <3> QED BY <3>1, <3>2
  <2>2. dismissal' \in [Groups -> [hidden : Nat, frozen : Nat, found : Nat]]
    <3>1. dismissal' = [g \in Groups |-> dismissal'[g]]
      BY DEF R!Restart
    <3>2. \A g \in Groups : dismissal'[g] \in [hidden : Nat, frozen : Nat, found : Nat]
      BY <1>3
    <3> QED BY <3>1, <3>2
  <2>3. /\ group' \in [Groups -> States] /\ faulty' \in [Groups -> BOOLEAN]
        /\ recent' \in [Groups -> BOOLEAN]
    BY DEF R!Restart, States
  <2>4. chain' \in [Groups -> Seq(Shots)]
    <3>1. <<>> \in Seq(Shots)
      OBVIOUS
    <3> QED BY <3>1 DEF R!Restart
  <2>5. version' = version /\ reached' \in [Groups -> SUBSET (R!Final \cup {"undone"})]
    BY <1>1 DEF R!Restart, RowsTyped, R!Final
  <2> QED BY <1>1, <2>1, <2>2, <2>3, <2>4, <2>5 DEF RowsTyped
<1>6. ASSUME NEW g \in Groups
      PROVE  (Ordered(g) /\ Recorded(g) /\ Truthful(g) /\ HidesOver(g))'
  <2>1. Ordered(g) /\ Truthful(g) /\ HidesOver(g)
    BY <1>1
  <2>2. Ordered(g)'
    <3>1. row'[g].version = row[g].version
      BY <1>4
    <3>2. chain'[g] = <<>> /\ Len(<<>>) = 0 /\ version'[g] = version[g]
      BY <1>2
    <3> QED BY <2>1, <3>1, <3>2 DEF Ordered
  <2>3. Recorded(g)'
    BY <1>2 DEF Recorded, R!Ended
  <2>4. Truthful(g)'
    <3>1. row'[g].status \in R!Final => row'[g] = row[g]
      BY <1>4
    <3>2. canceller' = {}
      BY DEF R!Restart
    <3> QED BY <1>2, <2>1, <3>1, <3>2 DEF Truthful
  <2>5. HidesOver(g)'
    <3>1. CASE row'[g] = row[g]
      <4>1. /\ dismissal'[g].hidden = dismissal[g].hidden
            /\ dismissal'[g].frozen = 0 /\ dismissal'[g].found = 0
        BY <1>3
      <4>2. row[g].updated \in Nat
        BY <1>4
      <4>3. R!Dismissible(g)' <=> R!Dismissible(g)
        BY <3>1 DEF R!Dismissible
      <4> QED BY <2>1, <3>1, <4>1, <4>2, <4>3 DEF HidesOver, Present
    <3>2. CASE row'[g] = [status |-> "interrupted", version |-> row[g].version,
                          updated |-> row[g].updated + 1]
      <4>1. row[g].updated \in Nat /\ dismissal[g].hidden \in Nat
        BY <1>3, <1>4
      <4>2. row'[g].status = "interrupted" /\ row'[g].updated = row[g].updated + 1
        BY <3>2
      <4>3. /\ dismissal'[g].hidden = dismissal[g].hidden
            /\ dismissal'[g].frozen = 0 /\ dismissal'[g].found = 0
        BY <1>3
      <4> QED BY <2>1, <4>1, <4>2, <4>3 DEF HidesOver, Present
    <3> QED BY <1>4, <3>1, <3>2
  <2> QED BY <2>2, <2>3, <2>4, <2>5
<1> QED BY <1>5, <1>6 DEF ChainsInv

LEMMA WebKeeps ==
  ASSUME ChainsInv, NEW g \in Groups, R!CancelRow(g) \/ R!Prepare(g) \/ R!Confirm(g) \/ R!SaveDismissal(g)
  PROVE  ChainsInv'
<1>1. /\ UNCHANGED <<group, faulty, version, chain, reached, recent, admitting, lost>>
      /\ canceller' \subseteq canceller
  BY DEF R!CancelRow, R!Prepare, R!Confirm, R!SaveDismissal, R!memory
<1>2. /\ RowsTyped /\ Ordered(g) /\ Recorded(g) /\ Truthful(g) /\ HidesOver(g)
      /\ row[g] \in [status : Rows, version : Nat, updated : Nat]
      /\ dismissal[g] \in [hidden : Nat, frozen : Nat, found : Nat]
  BY DEF ChainsInv, RowsTyped
<1>3. CASE R!CancelRow(g)
  <2>1. /\ g \in canceller /\ dismissal' = dismissal
        /\ row' = [row EXCEPT ![g].status = "cancelled", ![g].updated = @ + 1]
    BY <1>3 DEF R!CancelRow
  <2>2. /\ row'[g] = [status |-> "cancelled", version |-> row[g].version, updated |-> row[g].updated + 1]
        /\ \A h \in Groups : h # g => row'[h] = row[h]
    BY <1>2, <2>1 DEF RowsTyped
  <2>3. row'[g] \in [status : Rows, version : Nat, updated : Nat]
    BY <1>2, <2>2 DEF Rows, R!Final
  <2>4. RowsTyped'
    BY <1>1, <1>2, <2>1, <2>3 DEF RowsTyped
  <2>5. ASSUME NEW h \in Groups, h # g
        PROVE  (Ordered(h) /\ Recorded(h) /\ Truthful(h) /\ HidesOver(h))'
    BY <1>1, <2>1, <2>2, <2>5, OthersKeep
  <2>6. Ordered(g)' /\ Recorded(g)' /\ Truthful(g)'
    BY <1>1, <1>2, <2>1, <2>2 DEF Ordered, Recorded, Truthful, Told, R!Final
  <2>7. HidesOver(g)'
    <3>1. /\ row'[g].status # "none" /\ row'[g].updated = row[g].updated + 1
          /\ dismissal'[g] = dismissal[g]
      BY <2>1, <2>2
    <3> QED BY <3>1, NewerRow
  <2> QED BY <2>4, <2>5, <2>6, <2>7 DEF ChainsInv
<1>4. CASE R!Prepare(g) \/ R!Confirm(g) \/ R!SaveDismissal(g)
  <2>1. row' = row
    BY <1>4 DEF R!Prepare, R!Confirm, R!SaveDismissal
  <2>2. /\ dismissal' \in [Groups -> [hidden : Nat, frozen : Nat, found : Nat]]
        /\ \A h \in Groups : h # g => dismissal'[h] = dismissal[h]
    <3>1. row[g].updated \in Nat /\ dismissal[g].found \in Nat
      BY <1>2
    <3>2. CASE R!Prepare(g)
      BY <1>2, <3>1, <3>2 DEF R!Prepare, RowsTyped
    <3>3. CASE R!Confirm(g)
      BY <1>2, <3>1, <3>3 DEF R!Confirm, RowsTyped
    <3>4. CASE R!SaveDismissal(g)
      BY <1>2, <3>1, <3>4 DEF R!SaveDismissal, RowsTyped
    <3> QED BY <1>4, <3>2, <3>3, <3>4
  <2>3. RowsTyped'
    BY <1>1, <1>2, <2>1, <2>2 DEF RowsTyped
  <2>4. ASSUME NEW h \in Groups, h # g
        PROVE  (Ordered(h) /\ Recorded(h) /\ Truthful(h) /\ HidesOver(h))'
    BY <1>1, <2>1, <2>2, <2>4, OthersKeep
  <2>5. Ordered(g)' /\ Recorded(g)' /\ Truthful(g)'
    BY <1>1, <1>2, <2>1 DEF Ordered, Recorded, Truthful, Told
  <2>6. HidesOver(g)'
    <3>1. CASE R!Prepare(g)
      <4>1. dismissal'[g] = [dismissal[g] EXCEPT !.frozen = row[g].updated]
        BY <1>2, <3>1 DEF R!Prepare, RowsTyped
      <4> QED BY <1>2, <2>1, <3>1, <4>1 DEF HidesOver, Present, R!Prepare, R!Dismissible
    <3>2. CASE R!Confirm(g)
      <4>1. \/ dismissal'[g] = [dismissal[g] EXCEPT !.frozen = 0]
            \/ /\ dismissal'[g] = [dismissal[g] EXCEPT !.frozen = 0, !.found = row[g].updated]
               /\ R!Dismissible(g)
        BY <1>2, <3>2 DEF R!Confirm, RowsTyped
      <4>2. CASE dismissal'[g] = [dismissal[g] EXCEPT !.frozen = 0]
        BY <1>2, <2>1, <4>2 DEF HidesOver, Present, R!Dismissible
      <4>3. CASE /\ dismissal'[g] = [dismissal[g] EXCEPT !.frozen = 0, !.found = row[g].updated]
                 /\ R!Dismissible(g)
        BY <1>2, <2>1, <4>3 DEF HidesOver, Present, R!Dismissible
      <4> QED BY <4>1, <4>2, <4>3
    <3>3. CASE R!SaveDismissal(g)
      <4>1. dismissal'[g] = [dismissal[g] EXCEPT !.hidden = dismissal[g].found, !.found = 0]
        BY <1>2, <3>3 DEF R!SaveDismissal, RowsTyped
      <4> QED BY <1>2, <2>1, <4>1 DEF HidesOver, Present, R!Dismissible
    <3> QED BY <1>4, <3>1, <3>2, <3>3
  <2> QED BY <2>3, <2>4, <2>5, <2>6 DEF ChainsInv
<1> QED BY <1>3, <1>4

LEMMA FrameKeeps ==
  ASSUME ChainsInv, UNCHANGED <<group, faulty, version, chain, row, admitting, canceller, dismissal,
                          reached, lost>>,
         recent' \in [Groups -> BOOLEAN]
  PROVE  ChainsInv'
<1>1. RowsTyped'
  BY DEF ChainsInv, RowsTyped
<1>2. \A h \in Groups : (Ordered(h) /\ Recorded(h) /\ Truthful(h) /\ HidesOver(h))'
  BY OthersKeep
<1> QED BY <1>1, <1>2 DEF ChainsInv

LEMMA ChainsStep == ChainsInv /\ [R!Next]_(R!vars) => ChainsInv'
<1> SUFFICES ASSUME ChainsInv, [R!Next]_(R!vars) PROVE ChainsInv'
  OBVIOUS
<1>1. ASSUME NEW g \in Groups, R!SecondPasses(g) PROVE ChainsInv'
  BY <1>1, FrameKeeps DEF R!SecondPasses, R!memory, R!web, ChainsInv, RowsTyped
<1>2. CASE UNCHANGED R!vars
  BY <1>2, FrameKeeps DEF R!vars, ChainsInv, RowsTyped
<1>3. CASE R!Next
  BY <1>1, <1>3, PersistKeeps, PersistFailsKeeps, ChangeKeeps, AdmitKeeps, RestartKeeps, WebKeeps
     DEF R!Next, R!Progress
<1> QED BY <1>2, <1>3

-----------------------------------------------------------------------------
(* The theorems.                                                           *)

-----------------------------------------------------------------------------
(* The folders.  In their part the variables have other names.             *)

present == v1   \* rows
used    == v2
place   == v3
stars   == v4
request == v6
crossed == v7
told    == v8

Segs == Seq(Names)

\* A path is within another when it begins like it.
LEMMA WithinMeans ==
  ASSUME NEW p \in Segs, NEW a \in Segs
  PROVE  T!Within(p, a) <=> Len(a) <= Len(p) /\ \A i \in 1..Len(a) : p[i] = a[i]
<1> USE DEF Segs
<1>1. SUFFICES ASSUME Len(a) <= Len(p)
      PROVE  SubSeq(p, 1, Len(a)) = a <=> \A i \in 1..Len(a) : p[i] = a[i]
  BY DEF T!Within
<1>2. \A i \in 1..Len(a) : p[i] \in Names
  BY <1>1, ElementOfSeq, LenProperties
<1>3. /\ SubSeq(p, 1, Len(a)) \in Seq(Names) /\ Len(SubSeq(p, 1, Len(a))) = Len(a)
      /\ \A i \in 1..Len(a) : SubSeq(p, 1, Len(a))[i] = p[i]
  <2>1. Len(a) \in Nat
    BY LenProperties
  <2>2. /\ SubSeq(p, 1, Len(a)) \in Seq(Names)
        /\ Len(SubSeq(p, 1, Len(a))) = IF 1 <= Len(a) THEN Len(a) - 1 + 1 ELSE 0
        /\ \A i \in 1 .. Len(a) - 1 + 1 : SubSeq(p, 1, Len(a))[i] = p[1 + i - 1]
    BY <1>2, <2>1, SubSeqProperties
  <2> QED BY <2>1, <2>2
<1>4. ASSUME \A i \in 1..Len(a) : p[i] = a[i] PROVE SubSeq(p, 1, Len(a)) = a
  BY <1>3, <1>4, SeqEqual
<1> QED BY <1>3, <1>4

LEMMA WithinItself == ASSUME NEW p \in Segs PROVE T!Within(p, p) /\ T!Within(p, <<>>)
<1>1. <<>> \in Segs /\ Len(<<>>) = 0 /\ Len(p) \in Nat
  BY EmptySeq, LenProperties DEF Segs
<1> QED BY <1>1, WithinMeans

LEMMA WithinAbove ==
  ASSUME NEW p \in Segs, NEW a \in Segs, NEW b \in Segs, T!Within(p, a), T!Within(a, b)
  PROVE  T!Within(p, b)
<1>1. Len(p) \in Nat /\ Len(a) \in Nat /\ Len(b) \in Nat
  BY LenProperties DEF Segs
<1> QED BY <1>1, WithinMeans

\* What is below a folder, as it is below another.
LEMMA GraftIs ==
  ASSUME NEW p \in Segs, NEW from \in Segs, NEW to \in Segs, T!Within(p, from)
  PROVE  /\ T!Graft(p, from, to) \in Segs
         /\ Len(T!Graft(p, from, to)) = Len(to) + (Len(p) - Len(from))
         /\ \A i \in 1..Len(to) : T!Graft(p, from, to)[i] = to[i]
         /\ \A i \in 1..(Len(p) - Len(from)) : T!Graft(p, from, to)[Len(to) + i] = p[Len(from) + i]
<1> DEFINE rest == SubSeq(p, Len(from) + 1, Len(p))
<1>1. /\ Len(p) \in Nat /\ Len(from) \in Nat /\ Len(to) \in Nat /\ Len(from) <= Len(p)
  BY LenProperties, WithinMeans DEF Segs
<1>2. \A i \in (Len(from) + 1)..Len(p) : p[i] \in Names
  BY <1>1, ElementOfSeq DEF Segs
<1>3. /\ rest \in Seq(Names)
      /\ Len(rest) = IF Len(from) + 1 <= Len(p) THEN Len(p) - (Len(from) + 1) + 1 ELSE 0
      /\ \A i \in 1..(Len(p) - (Len(from) + 1) + 1) : rest[i] = p[(Len(from) + 1) + i - 1]
  BY <1>1, <1>2, SubSeqProperties
<1> HIDE DEF rest
<1>4. Len(rest) = Len(p) - Len(from) /\ \A i \in 1..(Len(p) - Len(from)) : rest[i] = p[Len(from) + i]
  BY <1>1, <1>3
<1>5. /\ to \o rest \in Seq(Names) /\ Len(to \o rest) = Len(to) + Len(rest)
      /\ \A i \in 1..(Len(to) + Len(rest)) : (to \o rest)[i] = IF i <= Len(to) THEN to[i] ELSE rest[i - Len(to)]
  BY <1>3, ConcatProperties DEF Segs
<1>6. T!Graft(p, from, to) = to \o rest
  BY DEF T!Graft, rest
<1>7. \A i \in 1..Len(to) : (to \o rest)[i] = to[i]
  BY <1>1, <1>4, <1>5
<1>8. ASSUME NEW i \in 1..(Len(p) - Len(from)) PROVE (to \o rest)[Len(to) + i] = p[Len(from) + i]
  <2>1. Len(to) + i \in 1..(Len(to) + Len(rest)) /\ ~(Len(to) + i <= Len(to)) /\ (Len(to) + i) - Len(to) = i
    BY <1>1, <1>4
  <2> QED BY <1>4, <1>5, <2>1
<1> QED BY <1>4, <1>5, <1>6, <1>7, <1>8 DEF Segs

LEMMA GraftWithin ==
  ASSUME NEW p \in Segs, NEW from \in Segs, NEW to \in Segs, T!Within(p, from)
  PROVE  T!Within(T!Graft(p, from, to), to)
<1>1. Len(p) \in Nat /\ Len(from) \in Nat /\ Len(to) \in Nat /\ Len(from) <= Len(p)
  BY LenProperties, WithinMeans DEF Segs
<1> DEFINE g == T!Graft(p, from, to)
<1>2. g \in Segs /\ Len(g) = Len(to) + (Len(p) - Len(from)) /\ \A i \in 1..Len(to) : g[i] = to[i]
  BY GraftIs
<1> HIDE DEF g
<1>3. T!Within(g, to)
  BY <1>1, <1>2, WithinMeans
<1> QED BY <1>3 DEF g

\* Two paths below a folder stay two.
LEMMA GraftKeepsApart ==
  ASSUME NEW p \in Segs, NEW q \in Segs, NEW from \in Segs, NEW to \in Segs,
         T!Within(p, from), T!Within(q, from), T!Graft(p, from, to) = T!Graft(q, from, to)
  PROVE  p = q
<1>1. /\ Len(p) \in Nat /\ Len(q) \in Nat /\ Len(from) \in Nat /\ Len(to) \in Nat
      /\ Len(from) <= Len(p) /\ Len(from) <= Len(q)
  BY LenProperties, WithinMeans DEF Segs
<1>2. Len(p) = Len(q)
  <2>1. Len(T!Graft(p, from, to)) = Len(to) + (Len(p) - Len(from))
    BY GraftIs
  <2>2. Len(T!Graft(q, from, to)) = Len(to) + (Len(q) - Len(from))
    BY GraftIs
  <2> QED BY <1>1, <2>1, <2>2
<1>3. ASSUME NEW i \in 1..Len(p) PROVE p[i] = q[i]
  <2>1. CASE i <= Len(from)
    BY <1>1, <2>1, WithinMeans
  <2>2. CASE ~(i <= Len(from))
    <3>1. i - Len(from) \in 1..(Len(p) - Len(from)) /\ Len(from) + (i - Len(from)) = i
      BY <1>1, <2>2
    <3>2. PICK k \in 1..(Len(p) - Len(from)) : k = i - Len(from)
      BY <3>1
    <3>3. T!Graft(p, from, to)[Len(to) + k] = p[Len(from) + k]
      BY GraftIs
    <3>4. k \in 1..(Len(q) - Len(from))
      BY <1>2, <3>2
    <3>5. \A j \in 1..(Len(q) - Len(from)) : T!Graft(q, from, to)[Len(to) + j] = q[Len(from) + j]
      BY GraftIs
    <3>6. Len(from) + k = i
      BY <3>1, <3>2
    <3> QED BY <3>3, <3>4, <3>5, <3>6
  <2> QED BY <2>1, <2>2
<1> QED BY <1>2, <1>3, SeqEqual DEF Segs

\* A folder goes neither into itself when it is moved ...
LEMMA MoveLeaves ==
  ASSUME NEW from \in Segs, NEW parent \in Segs, from # <<>>,
         parent = <<>> \/ ~T!Within(parent, from), Append(parent, from[Len(from)]) # from
  PROVE  /\ Append(parent, from[Len(from)]) \in Segs
         /\ ~T!Within(Append(parent, from[Len(from)]), from)
<1> DEFINE to == Append(parent, from[Len(from)])
<1>1. Len(from) \in Nat \ {0} /\ Len(parent) \in Nat
  BY LenProperties, EmptySeq DEF Segs
<1>2. from[Len(from)] \in Names
  BY <1>1, ElementOfSeq DEF Segs
<1>3. to \in Segs /\ Len(to) = Len(parent) + 1 /\ \A i \in 1..Len(parent) : to[i] = parent[i]
  BY <1>2, AppendProperties DEF Segs
<1>4. to[Len(parent) + 1] = from[Len(from)]
  BY <1>2, AppendProperties DEF Segs
<1>5. ASSUME T!Within(to, from) PROVE FALSE
  <2> HIDE DEF to
  <2>1. Len(from) <= Len(to) /\ \A i \in 1..Len(from) : to[i] = from[i]
    BY <1>3, <1>5, WithinMeans
  <2>2. CASE Len(from) = Len(to)
    <3>1. to = from
      BY <1>3, <2>1, <2>2, SeqEqual DEF Segs
    <3> QED BY <3>1 DEF to
  <2>3. CASE Len(from) # Len(to)
    <3>1. Len(from) <= Len(parent) /\ \A i \in 1..Len(from) : parent[i] = from[i]
      BY <1>1, <1>3, <2>1, <2>3
    <3>2. T!Within(parent, from) /\ parent # <<>>
      BY <1>1, <3>1, WithinMeans, EmptySeq
    <3> QED BY <3>2
  <2> QED BY <2>2, <2>3
<1> QED BY <1>3, <1>5

LEMMA ParentIs ==
  ASSUME NEW from \in Segs, from # <<>>
  PROVE  /\ T!Parent(from) \in Segs /\ Len(T!Parent(from)) = Len(from) - 1
         /\ \A i \in 1..(Len(from) - 1) : T!Parent(from)[i] = from[i]
<1>1. Len(from) \in Nat \ {0}
  BY LenProperties, EmptySeq DEF Segs
<1>2. \A i \in 1..(Len(from) - 1) : from[i] \in Names
  BY <1>1, ElementOfSeq DEF Segs
<1>3. /\ SubSeq(from, 1, Len(from) - 1) \in Seq(Names)
      /\ Len(SubSeq(from, 1, Len(from) - 1)) = IF 1 <= Len(from) - 1 THEN (Len(from) - 1) - 1 + 1 ELSE 0
      /\ \A i \in 1..((Len(from) - 1) - 1 + 1) : SubSeq(from, 1, Len(from) - 1)[i] = from[1 + i - 1]
  BY <1>1, <1>2, SubSeqProperties
<1>0. PICK top : top = SubSeq(from, 1, Len(from) - 1)
  OBVIOUS
<1>4. PICK n \in Nat : n = Len(from) - 1
  BY <1>1
<1>6. T!Parent(from) = top
  BY <1>0 DEF T!Parent
<1>7. /\ top \in Seq(Names) /\ Len(top) = (IF 1 <= n THEN n - 1 + 1 ELSE 0)
      /\ \A i \in 1..(n - 1 + 1) : top[i] = from[1 + i - 1]
  BY <1>0, <1>3, <1>4
<1>8. Len(top) = n /\ \A i \in 1..n : top[i] = from[i]
  BY <1>7
<1> QED BY <1>4, <1>6, <1>7, <1>8 DEF Segs

\* ... nor when it is renamed, and it stays below its parent.
LEMMA RenameLeaves ==
  ASSUME NEW from \in Segs, NEW name \in Names, from # <<>>, Append(T!Parent(from), name) # from
  PROVE  /\ Append(T!Parent(from), name) \in Segs
         /\ ~T!Within(Append(T!Parent(from), name), from)
<1> DEFINE to == Append(T!Parent(from), name)
<1>1. Len(from) \in Nat \ {0}
  BY LenProperties, EmptySeq DEF Segs
<1>2. to \in Segs /\ Len(to) = Len(from)
  BY <1>1, ParentIs, AppendProperties DEF Segs
<1>3. ASSUME T!Within(to, from) PROVE FALSE
  <2> HIDE DEF to
  <2>1. \A i \in 1..Len(from) : to[i] = from[i]
    BY <1>2, <1>3, WithinMeans
  <2>2. to = from
    BY <1>2, <2>1, SeqEqual DEF Segs
  <2> QED BY <2>2 DEF to
<1> QED BY <1>2, <1>3

LEMMA WithinParent == ASSUME NEW from \in Segs, from # <<>> PROVE T!Within(from, T!Parent(from))
<1>1. Len(from) \in Nat \ {0}
  BY LenProperties, EmptySeq DEF Segs
<1> QED BY <1>1, ParentIs, WithinMeans

-----------------------------------------------------------------------------
(* What a request may count with depends on what others wrote since it     *)
(* looked.                                                                  *)

FolderKinds == {"folder", "file", "star"}
FolderAsks  == [at : {"idle", "insert", "star", "mark", "find", "put", "parent", "target", "rewrite"},
                row : T!Rows \cup {0}, account : Accounts \cup {0}, from : Segs, to : Segs,
                parent : Segs, value : BOOLEAN, since : SUBSET FolderKinds]

FolderTyped ==
  /\ present \subseteq used /\ used \subseteq T!Rows
  /\ place \in [T!Rows -> [account : Accounts, folder : Segs]]
  /\ scope \in Accounts
  /\ request \in [Admins -> FolderAsks]

Moves(q) == q.at \in {"parent", "target", "rewrite"}
Calm(q)  == T!Steady(q, {"folder", "file"})

\* Whatever others write, ...
AskFits(q) ==
  /\ q.at = "insert" => q.account \in Accounts
  /\ q.at \in {"find", "put"} => q.row \in Local
  /\ Moves(q) => ~T!Within(q.to, q.from)

\* ... unless they changed folders, where the row of an empty folder is what counts, ...
FolderFits(q) ==
  "folder" \notin q.since =>
    /\ q.at = "insert" => \A r \in Holders \cap present : place[r] # [account |-> q.account, folder |-> q.to]
    /\ Moves(q) => q.account = scope
    /\ q.at = "rewrite" => Holders \cap T!Under(scope, q.to) \subseteq T!Under(scope, q.from)

\* ... unless they put files into them or took files out as well, ...
CalmFits(q) ==
  Calm(q) =>
    /\ q.at = "insert" => T!Exactly(scope, q.to) = {}
    /\ q.at \in {"find", "put"} => q.to = <<>> \/ T!Under(scope, q.to) # {}
    /\ q.at = "put" => T!Seen(q.row)
    /\ Moves(q) => T!Under(scope, q.from) # {}
    /\ q.at \in {"target", "rewrite"} => T!Under(scope, q.parent) # {}
    /\ q.at = "rewrite" => T!Under(scope, q.to) \subseteq T!Under(scope, q.from)

\* ... and unless they wrote at all.
StarFits(q) ==
  q.since = {} =>
    /\ q.at = "star" => q.value = ~(T!Under(scope, q.to) \subseteq stars)
    /\ q.at = "mark" => T!Seen(q.row) /\ q.value = (q.row \notin stars)

RequestFits(q) == AskFits(q) /\ FolderFits(q) /\ CalmFits(q) /\ StarFits(q)

FolderInv == FolderTyped /\ T!StarsShow /\ T!OneHolder /\ \A h \in Admins : RequestFits(request[h])

USE DEF present, used, place, stars, scope, request, crossed, told

LEMMA FoldersAreSound == FolderInv => T!Sound
<1> SUFFICES ASSUME FolderInv PROVE T!ChecksHold
  BY DEF FolderInv, T!Sound
<1>1. SUFFICES ASSUME NEW h \in Admins, NEW q, q = request[h]
      PROVE  /\ (q.at = "insert" /\ Calm(q)) => T!Exactly(scope, q.to) = {}
             /\ (q.at = "put" /\ Calm(q)) => T!Seen(q.row) /\ (q.to = <<>> \/ T!Under(scope, q.to) # {})
             /\ (q.at = "rewrite" /\ Calm(q)) =>
                  /\ T!Under(scope, q.from) # {} /\ T!Under(scope, q.parent) # {}
                  /\ T!Under(scope, q.to) \subseteq T!Under(scope, q.from) /\ ~T!Within(q.to, q.from)
             /\ (q.at = "star" /\ q.since = {}) => q.value = ~(T!Under(scope, q.to) \subseteq stars)
             /\ (q.at = "mark" /\ q.since = {}) => T!Seen(q.row) /\ q.value = (q.row \notin stars)
  BY DEF T!ChecksHold, Calm
<1>2. RequestFits(q)
  BY <1>1 DEF FolderInv
<1> QED BY <1>2 DEF RequestFits, AskFits, CalmFits, StarFits, Moves

LEMMA FoldersTyped ==
  ASSUME FolderInv
  PROVE  /\ \A r \in present : r \in T!Rows /\ r \in used
         /\ \A r \in T!Rows : place[r] \in [account : Accounts, folder : Segs]
         /\ \A h \in Admins : request[h] \in FolderAsks /\ RequestFits(request[h])
BY DEF FolderInv, FolderTyped

LEMMA QuietFits == T!Quiet \in FolderAsks /\ RequestFits(T!Quiet) /\ RequestFits(T!Quiet)'
<1>1. T!Quiet \in FolderAsks
  BY EmptySeq DEF T!Quiet, FolderAsks, Segs
<1>2. T!Quiet.at = "idle" /\ T!Quiet.since = {}
  BY DEF T!Quiet
<1> QED BY <1>1, <1>2 DEF RequestFits, AskFits, FolderFits, CalmFits, StarFits, Moves

LEMMA FoldersStart == T!Init => FolderInv
<1> SUFFICES ASSUME T!Init PROVE FolderInv
  OBVIOUS
<1>1. /\ present = {} /\ used = {} /\ stars = {} /\ told = {} /\ scope \in Accounts
      /\ request = [h \in Admins |-> T!Quiet]
  BY DEF T!Init
<1>2. place \in [T!Rows -> [account : Accounts, folder : Segs]]
  BY EmptySeq DEF T!Init, Segs
<1>3. FolderTyped
  BY <1>1, <1>2, QuietFits DEF FolderTyped
<1>4. T!StarsShow /\ T!OneHolder
  BY <1>1 DEF T!StarsShow, T!OneHolder
<1>5. \A h \in Admins : RequestFits(request[h])
  BY <1>1, QuietFits
<1> QED BY <1>3, <1>4, <1>5 DEF FolderInv

\* A request that begins, goes on or ends without a write.
LEMMA RequestKeeps ==
  ASSUME FolderInv, NEW h \in Admins, NEW q \in FolderAsks, RequestFits(q),
         request' = [request EXCEPT ![h] = q],
         UNCHANGED <<present, used, place, stars, scope, crossed, told>>
  PROVE  FolderInv'
<1>1. RequestFits(q)'
  BY DEF RequestFits, AskFits, FolderFits, CalmFits, StarFits, T!Under, T!Exactly, T!Seen
<1>2. ASSUME NEW g \in Admins PROVE RequestFits(request[g])'
  <2>1. CASE g = h
    BY <1>1, <2>1 DEF FolderInv, FolderTyped
  <2>2. CASE g # h
    <3>1. PICK p : p = request[g]
      OBVIOUS
    <3>2. RequestFits(p)
      BY <3>1, FoldersTyped
    <3>3. RequestFits(p)'
      BY <3>2 DEF RequestFits, AskFits, FolderFits, CalmFits, StarFits, T!Under, T!Exactly, T!Seen
    <3>4. request'[g] = p
      BY <2>2, <3>1 DEF FolderInv, FolderTyped
    <3> QED BY <3>3, <3>4
  <2> QED BY <2>1, <2>2
<1>3. FolderTyped'
  BY DEF FolderInv, FolderTyped
<1>4. T!StarsShow' /\ T!OneHolder'
  BY DEF FolderInv, T!StarsShow, T!OneHolder, T!Listed, T!Starred, T!Exactly
<1> QED BY <1>2, <1>3, <1>4 DEF FolderInv

\* What a write of each kind leaves alone.
Spares(k) ==
  /\ k = "star" => UNCHANGED <<present, place, scope>>
  /\ k = "file" => /\ scope' = scope
                   /\ \A r \in Holders \cap present' : r \in present /\ place'[r] = place[r]

LEMMA WriteKeepsFit ==
  ASSUME NEW q \in FolderAsks, RequestFits(q), NEW k \in FolderKinds, Spares(k),
         NEW p, p = [q EXCEPT !.since = q.since \cup {k}]
  PROVE  p \in FolderAsks /\ RequestFits(p)'
<1>1. /\ p \in FolderAsks /\ p.since = q.since \cup {k} /\ p.at = q.at /\ p.row = q.row
      /\ p.account = q.account /\ p.from = q.from /\ p.to = q.to /\ p.parent = q.parent
      /\ p.value = q.value
  BY DEF FolderAsks, FolderKinds
<1>2. AskFits(p)'
  BY <1>1 DEF RequestFits, AskFits, Moves
<1>3. StarFits(p)'
  BY <1>1 DEF StarFits
<1>4. CalmFits(p)'
  <2>1. CASE k = "star"
    <3>1. UNCHANGED <<present, place, scope>> /\ (Calm(p) => Calm(q))
      BY <1>1, <2>1 DEF Spares, Calm, T!Steady
    <3>2. CalmFits(q)
      BY DEF RequestFits
    <3> QED BY <1>1, <3>1, <3>2 DEF CalmFits, Calm, T!Steady, Moves, T!Exactly, T!Under, T!Seen
  <2>2. CASE k # "star"
    <3>1. ~Calm(p)
      BY <1>1, <2>2 DEF Calm, T!Steady, FolderKinds
    <3> QED BY <3>1 DEF CalmFits, Calm, T!Steady
  <2> QED BY <2>1, <2>2
<1>5. FolderFits(p)'
  <2>1. SUFFICES ASSUME "folder" \notin p.since PROVE FolderFits(p)'
    BY DEF FolderFits
  <2>2. k # "folder" /\ "folder" \notin q.since
    BY <1>1, <2>1
  <2>3. /\ scope' = scope /\ \A r \in Holders \cap present' : r \in present /\ place'[r] = place[r]
    BY <2>2 DEF Spares, FolderKinds
  <2>4. FolderFits(q)
    BY DEF RequestFits
  <2>5. /\ q.at = "insert" => \A r \in Holders \cap present : place[r] # [account |-> q.account, folder |-> q.to]
        /\ Moves(q) => q.account = scope
        /\ q.at = "rewrite" => Holders \cap T!Under(scope, q.to) \subseteq T!Under(scope, q.from)
    BY <2>2, <2>4 DEF FolderFits
  <2>6. ASSUME q.at = "rewrite"
        PROVE  Holders \cap T!Under(scope, q.to)' \subseteq T!Under(scope, q.from)'
    <3>1. ASSUME NEW r \in Holders, r \in T!Under(scope, q.to)' PROVE r \in T!Under(scope, q.from)'
      <4>1. r \in present' /\ r \in present /\ place'[r] = place[r]
        BY <2>3, <3>1 DEF T!Under
      <4>2. r \in T!Under(scope, q.to)
        BY <2>3, <3>1, <4>1 DEF T!Under
      <4>3. r \in T!Under(scope, q.from)
        BY <2>5, <2>6, <4>2
      <4> QED BY <2>3, <4>1, <4>3 DEF T!Under
    <3> QED BY <3>1
  <2> QED BY <1>1, <2>3, <2>5, <2>6 DEF FolderFits, Moves
<1> QED BY <1>1, <1>2, <1>3, <1>4, <1>5 DEF RequestFits

\* Whoever writes, the others know that they were overtaken.
LEMMA OthersFit ==
  ASSUME FolderInv, NEW k \in FolderKinds, NEW done, Spares(k), request' = T!Overtaken(k, done)
  PROVE  request' \in [Admins -> FolderAsks] /\ \A g \in Admins : RequestFits(request[g])'
<1>1. ASSUME NEW g \in Admins PROVE request'[g] \in FolderAsks /\ RequestFits(request[g])'
  <2>1. PICK q : q = request[g]
    OBVIOUS
  <2>2. q \in FolderAsks /\ RequestFits(q)
    BY <2>1, FoldersTyped
  <2>3. CASE g \in done \/ q = T!Quiet
    <3>1. request'[g] = T!Quiet
      BY <2>1, <2>3 DEF T!Overtaken
    <3> QED BY <3>1, QuietFits
  <2>4. CASE ~(g \in done \/ q = T!Quiet)
    <3>1. PICK p : p = [q EXCEPT !.since = q.since \cup {k}]
      OBVIOUS
    <3>2. request'[g] = p
      BY <2>1, <2>4, <3>1 DEF T!Overtaken
    <3>3. p \in FolderAsks /\ RequestFits(p)'
      BY <2>2, <3>1, WriteKeepsFit
    <3> QED BY <3>2, <3>3
  <2> QED BY <2>3, <2>4
<1>2. request' = [g \in Admins |-> request'[g]]
  BY DEF T!Overtaken
<1> QED BY <1>1, <1>2

\* No answer of old is told after it.
LEMMA NothingTold == ASSUME told' = {} PROVE T!StarsShow'
BY DEF T!StarsShow

LEMMA InsertKeeps ==
  ASSUME FolderInv, NEW h \in Admins, T!Insert(h)
  PROVE  FolderInv'
<1>1. PICK q : q = request[h]
  OBVIOUS
<1>2. PICK new : new = CHOOSE r \in Holders : r \notin used
  OBVIOUS
<1>3. q.at = "insert" /\ new \in Holders \ used /\ q \in FolderAsks /\ RequestFits(q)
  BY <1>1, <1>2, FoldersTyped DEF T!Insert
<1>4. CASE T!Refused(q.account)
  <2>1. T!Ends(h)
    BY <1>1, <1>4 DEF T!Insert
  <2>2. PICK z : z = T!Quiet
    OBVIOUS
  <2>3. /\ request' = [request EXCEPT ![h] = z]
        /\ UNCHANGED <<present, used, place, stars, scope, crossed, told>>
    BY <2>1, <2>2 DEF T!Ends
  <2>4. z \in FolderAsks /\ RequestFits(z)
    BY <2>2, QuietFits
  <2> QED BY <2>3, <2>4, RequestKeeps
<1>5. CASE ~T!Refused(q.account)
  <2>1. /\ present' = present \cup {new} /\ used' = used \cup {new} /\ scope' = scope
        /\ place' = [place EXCEPT ![new] = [account |-> q.account, folder |-> q.to]]
        /\ request' = T!Overtaken("folder", {h}) /\ told' = {}
        /\ crossed' = (crossed \/ ("folder" = "folder" /\ "folder" \in request[h].since))
    BY <1>1, <1>2, <1>5 DEF T!Insert, T!Writes
  <2>2. Spares("folder")
    BY DEF Spares
  <2>3. request' \in [Admins -> FolderAsks] /\ \A g \in Admins : RequestFits(request[g])'
    BY <2>1, <2>2, OthersFit DEF FolderKinds
  <2>4. q.account \in Accounts /\ q.to \in Segs
    BY <1>3 DEF RequestFits, AskFits, FolderAsks
  <2>5. place' \in [T!Rows -> [account : Accounts, folder : Segs]]
    BY <1>3, <2>1, <2>4 DEF FolderInv, FolderTyped
  <2>6. FolderTyped'
    BY <1>3, <2>1, <2>3, <2>5 DEF FolderInv, FolderTyped, T!Rows
  <2>7. T!OneHolder'
    <3>1. SUFFICES ASSUME ~crossed', NEW r \in Holders \cap present', NEW s \in Holders \cap present',
                          place'[r] = place'[s]
          PROVE  r = s
      BY DEF T!OneHolder
    <3>2. ~crossed /\ "folder" \notin q.since
      BY <1>1, <2>1, <3>1
    <3>3. \A x \in Holders \cap present : place[x] # [account |-> q.account, folder |-> q.to]
      BY <1>3, <3>2 DEF RequestFits, FolderFits
    <3>4. place'[new] = [account |-> q.account, folder |-> q.to]
      BY <1>3, <2>1 DEF FolderInv, FolderTyped, T!Rows
    <3>5. \A x \in present : x # new /\ place'[x] = place[x]
      BY <1>3, <2>1 DEF FolderInv, FolderTyped
    <3>6. CASE r = new \/ s = new
      BY <2>1, <3>1, <3>3, <3>4, <3>5, <3>6
    <3>7. CASE r # new /\ s # new
      BY <2>1, <3>1, <3>2, <3>5, <3>7 DEF FolderInv, T!OneHolder
    <3> QED BY <3>6, <3>7
  <2> QED BY <2>1, <2>3, <2>6, <2>7, NothingTold DEF FolderInv
<1> QED BY <1>4, <1>5

\* A write that leaves the rows of empty folders where they are.
LEMMA SameHolders ==
  ASSUME T!OneHolder, crossed => crossed',
         \A r \in Holders \cap present' : r \in present /\ place'[r] = place[r]
  PROVE  T!OneHolder'
BY DEF T!OneHolder

LEMMA StarFolderKeeps ==
  ASSUME FolderInv, NEW h \in Admins, T!StarFolder(h)
  PROVE  FolderInv'
<1>1. PICK q : q = request[h]
  OBVIOUS
<1>2. q \in FolderAsks /\ q.value \in BOOLEAN
  BY <1>1, FoldersTyped DEF FolderAsks
<1>3. PICK tree : tree = T!Under(q.account, q.to)
  OBVIOUS
<1>4. /\ stars' = (IF q.value THEN stars \cup tree ELSE stars \ tree)
      /\ request' = T!Overtaken("star", {h})
      /\ told' = {[account |-> q.account, folder |-> q.to, value |-> q.value]}
      /\ UNCHANGED <<present, used, place, scope>> /\ (crossed => crossed')
  BY <1>1, <1>3 DEF T!StarFolder, T!Writes
<1>5. Spares("star")
  BY <1>4 DEF Spares
<1>6. request' \in [Admins -> FolderAsks] /\ \A g \in Admins : RequestFits(request[g])'
  BY <1>4, <1>5, OthersFit DEF FolderKinds
<1>7. FolderTyped'
  BY <1>4, <1>6 DEF FolderInv, FolderTyped
<1>8. T!OneHolder'
  BY <1>4, SameHolders DEF FolderInv
<1>9. T!StarsShow'
  <2>1. SUFFICES ASSUME NEW path \in T!Listed(q.account)', T!Within(path, q.to)
        PROVE  T!Starred(q.account, path)' = q.value
    BY <1>4 DEF T!StarsShow
  <2>2. PICK r \in present : place[r].account = q.account /\ place[r].folder = path
    BY <1>4, <2>1 DEF T!Listed
  <2>3. PICK level : level = T!Exactly(q.account, path)
    OBVIOUS
  <2>4. r \in level /\ level \subseteq tree
    <3>1. r \in T!Rows /\ place[r] \in [account : Accounts, folder : Segs]
      BY <2>2, FoldersTyped
    <3>2. place[r] = [account |-> q.account, folder |-> path]
      BY <2>2, <3>1
    <3>3. \A s \in level : s \in present /\ place[s] = [account |-> q.account, folder |-> path]
      BY <2>3 DEF T!Exactly
    <3>4. \A s \in level : place[s].account = q.account /\ T!Within(place[s].folder, q.to)
      BY <2>1, <3>3
    <3> QED BY <1>3, <2>2, <2>3, <3>2, <3>3, <3>4 DEF T!Exactly, T!Under
  <2>5. T!Starred(q.account, path)' = (level \subseteq stars')
    BY <1>4, <2>3 DEF T!Starred, T!Exactly
  <2>6. CASE q.value = TRUE
    BY <1>4, <2>4, <2>5, <2>6
  <2>7. CASE q.value = FALSE
    BY <1>4, <2>4, <2>5, <2>7
  <2> QED BY <1>2, <2>6, <2>7
<1> QED BY <1>6, <1>7, <1>8, <1>9 DEF FolderInv

LEMMA StarFileKeeps ==
  ASSUME FolderInv, NEW h \in Admins, T!StarFile(h)
  PROVE  FolderInv'
<1>1. /\ request' = T!Overtaken("star", {h}) /\ told' = {}
      /\ UNCHANGED <<present, used, place, scope>> /\ (crossed => crossed')
  BY DEF T!StarFile, T!Writes
<1>2. Spares("star")
  BY <1>1 DEF Spares
<1>3. request' \in [Admins -> FolderAsks] /\ \A g \in Admins : RequestFits(request[g])'
  BY <1>1, <1>2, OthersFit DEF FolderKinds
<1>4. FolderTyped'
  BY <1>1, <1>3 DEF FolderInv, FolderTyped
<1>5. T!OneHolder'
  BY <1>1, SameHolders DEF FolderInv
<1> QED BY <1>1, <1>3, <1>4, <1>5, NothingTold DEF FolderInv

LEMMA RowsApart == Local \cap Holders = {} /\ 0 \notin T!Rows /\ Paths \subseteq Segs /\ <<>> \in Paths
BY FoldersShaped DEF T!Shaped, Segs

LEMMA PutKeeps ==
  ASSUME FolderInv, NEW h \in Admins, T!Put(h)
  PROVE  FolderInv'
<1>1. PICK q : q = request[h]
  OBVIOUS
<1>2. q \in FolderAsks /\ q.row \in Local /\ q.to \in Segs
  BY <1>1, FoldersTyped DEF T!Put, RequestFits, AskFits, FolderAsks
<1>3. /\ place' = T!Refiled(q.row, q.to) /\ request' = T!Overtaken("file", {h}) /\ told' = {}
      /\ UNCHANGED <<present, used, scope, stars>> /\ (crossed => crossed')
  BY <1>1 DEF T!Put, T!Writes
<1>4. place' = place \/ place' = [place EXCEPT ![q.row].folder = q.to]
  BY <1>3 DEF T!Refiled
<1>5. place \in [T!Rows -> [account : Accounts, folder : Segs]] /\ q.row \in T!Rows
  BY <1>2 DEF FolderInv, FolderTyped, T!Rows
<1>6. /\ place' \in [T!Rows -> [account : Accounts, folder : Segs]]
      /\ \A r \in Holders : place'[r] = place[r]
  <2>1. CASE place' = place
    BY <1>5, <2>1
  <2>2. CASE place' = [place EXCEPT ![q.row].folder = q.to]
    <3>1. PICK p : p = [place[q.row] EXCEPT !.folder = q.to]
      OBVIOUS
    <3>2. p \in [account : Accounts, folder : Segs]
      BY <1>2, <1>5, <3>1
    <3>3. place' = [place EXCEPT ![q.row] = p]
      BY <2>2, <3>1
    <3> QED BY <1>2, <1>5, <3>2, <3>3, RowsApart DEF T!Rows
  <2> QED BY <1>4, <2>1, <2>2
<1>7. Spares("file")
  BY <1>3, <1>6 DEF Spares
<1>8. request' \in [Admins -> FolderAsks] /\ \A g \in Admins : RequestFits(request[g])'
  BY <1>3, <1>7, OthersFit DEF FolderKinds
<1>9. FolderTyped'
  BY <1>3, <1>6, <1>8 DEF FolderInv, FolderTyped
<1>10. T!OneHolder'
  BY <1>3, <1>6, SameHolders DEF FolderInv
<1> QED BY <1>3, <1>8, <1>9, <1>10, NothingTold DEF FolderInv

LEMMA ArriveKeeps ==
  ASSUME FolderInv, NEW f \in Local, NEW a \in Accounts, NEW path \in Paths, T!Arrive(f, a, path)
  PROVE  FolderInv'
<1>1. /\ f \in Local \ used /\ present' = present \cup {f} /\ used' = used \cup {f}
      /\ place' = [place EXCEPT ![f] = [account |-> a, folder |-> path]]
      /\ request' = T!Overtaken("file", {}) /\ told' = {}
      /\ UNCHANGED <<scope, stars, crossed>>
  BY DEF T!Arrive
<1>2. place \in [T!Rows -> [account : Accounts, folder : Segs]] /\ f \in T!Rows /\ path \in Segs
  BY RowsApart DEF FolderInv, FolderTyped, T!Rows
<1>3. /\ place' \in [T!Rows -> [account : Accounts, folder : Segs]]
      /\ \A r \in Holders : place'[r] = place[r]
  BY <1>1, <1>2, RowsApart DEF T!Rows
<1>4. \A r \in Holders \cap present' : r \in present
  BY <1>1, RowsApart
<1>5. Spares("file")
  BY <1>1, <1>3, <1>4 DEF Spares
<1>6. request' \in [Admins -> FolderAsks] /\ \A g \in Admins : RequestFits(request[g])'
  BY <1>1, <1>5, OthersFit DEF FolderKinds
<1>7. FolderTyped'
  BY <1>1, <1>2, <1>3, <1>6 DEF FolderInv, FolderTyped
<1>8. T!OneHolder'
  BY <1>1, <1>3, <1>4, SameHolders DEF FolderInv
<1> QED BY <1>1, <1>6, <1>7, <1>8, NothingTold DEF FolderInv

LEMMA DepartKeeps ==
  ASSUME FolderInv, NEW r \in T!Rows, T!Depart(r)
  PROVE  FolderInv'
<1>1. /\ present' = present \ {r} /\ request' = T!Overtaken("file", {}) /\ told' = {}
      /\ UNCHANGED <<used, place, scope, crossed>>
  BY DEF T!Depart
<1>2. Spares("file")
  BY <1>1 DEF Spares
<1>3. request' \in [Admins -> FolderAsks] /\ \A g \in Admins : RequestFits(request[g])'
  BY <1>1, <1>2, OthersFit DEF FolderKinds
<1>4. FolderTyped'
  BY <1>1, <1>3 DEF FolderInv, FolderTyped
<1>5. T!OneHolder'
  BY <1>1, SameHolders DEF FolderInv
<1> QED BY <1>1, <1>3, <1>4, <1>5, NothingTold DEF FolderInv

LEMMA ScopeKeeps ==
  ASSUME FolderInv, NEW a \in Accounts, T!Switch(a)
  PROVE  FolderInv'
<1>1. /\ scope' = a /\ request' = T!Overtaken("folder", {})
      /\ UNCHANGED <<present, used, place, stars, crossed, told>>
  BY DEF T!Switch
<1>2. Spares("folder")
  BY DEF Spares
<1>3. request' \in [Admins -> FolderAsks] /\ \A g \in Admins : RequestFits(request[g])'
  BY <1>1, <1>2, OthersFit DEF FolderKinds
<1>4. FolderTyped'
  BY <1>1, <1>3 DEF FolderInv, FolderTyped
<1>5. T!OneHolder' /\ T!StarsShow'
  BY <1>1 DEF FolderInv, T!OneHolder, T!StarsShow, T!Listed, T!Starred, T!Exactly
<1> QED BY <1>3, <1>4, <1>5 DEF FolderInv

\* Renaming and moving: two rows of empty folders that are below the folder stay apart, and
\* none was where they go.
LEMMA RewriteKeeps ==
  ASSUME FolderInv, NEW h \in Admins, T!Rewrite(h)
  PROVE  FolderInv'
<1>1. PICK q : q = request[h]
  OBVIOUS
<1>2. q \in FolderAsks /\ RequestFits(q) /\ q.at = "rewrite" /\ q.from \in Segs /\ q.to \in Segs
  BY <1>1, FoldersTyped DEF T!Rewrite, FolderAsks
<1>3. PICK tree : tree = T!Under(scope, q.from)
  OBVIOUS
<1>4. PICK moved : moved = [r \in T!Rows |-> IF r \in tree
                                            THEN [place[r] EXCEPT !.folder = T!Graft(place[r].folder, q.from, q.to)]
                                            ELSE place[r]]
  OBVIOUS
<1>5. CASE T!Ends(h)
  <2>1. PICK z : z = T!Quiet
    OBVIOUS
  <2>2. /\ request' = [request EXCEPT ![h] = z]
        /\ UNCHANGED <<present, used, place, stars, scope, crossed, told>>
    BY <1>5, <2>1 DEF T!Ends
  <2>3. z \in FolderAsks /\ RequestFits(z)
    BY <2>1, QuietFits
  <2> QED BY <2>2, <2>3, RequestKeeps
<1>6. CASE place' = moved /\ T!Writes(h, "folder", {}) /\ UNCHANGED <<present, used, stars>>
  <2>1. /\ request' = T!Overtaken("folder", {h}) /\ told' = {} /\ scope' = scope
        /\ crossed' = (crossed \/ ("folder" = "folder" /\ "folder" \in request[h].since))
        /\ place' = moved /\ UNCHANGED <<present, used, stars>>
    BY <1>6 DEF T!Writes
  <2>2. Spares("folder")
    BY DEF Spares
  <2>3. request' \in [Admins -> FolderAsks] /\ \A g \in Admins : RequestFits(request[g])'
    BY <2>1, <2>2, OthersFit DEF FolderKinds
  <2>4. \A r \in tree : /\ r \in present /\ r \in T!Rows /\ place[r] \in [account : Accounts, folder : Segs]
                        /\ place[r].account = scope /\ T!Within(place[r].folder, q.from)
    BY <1>3, FoldersTyped DEF T!Under
  <2>5. ASSUME NEW r \in tree
        PROVE  /\ moved[r] = [account |-> scope, folder |-> T!Graft(place[r].folder, q.from, q.to)]
               /\ T!Graft(place[r].folder, q.from, q.to) \in Segs
               /\ T!Within(T!Graft(place[r].folder, q.from, q.to), q.to)
    <3>1. PICK p \in Segs : p = place[r].folder
      BY <2>4
    <3>2. T!Graft(p, q.from, q.to) \in Segs /\ T!Within(T!Graft(p, q.from, q.to), q.to)
      BY <1>2, <2>4, <3>1, GraftIs, GraftWithin
    <3>3. place[r] = [account |-> scope, folder |-> p]
      BY <2>4, <3>1
    <3>4. moved[r] = [place[r] EXCEPT !.folder = T!Graft(p, q.from, q.to)]
      BY <1>4, <2>4, <3>1
    <3> QED BY <3>1, <3>2, <3>3, <3>4
  <2>6. \A r \in T!Rows \ tree : moved[r] = place[r]
    BY <1>4
  <2>7. moved \in [T!Rows -> [account : Accounts, folder : Segs]]
    <3>1. ASSUME NEW r \in T!Rows PROVE moved[r] \in [account : Accounts, folder : Segs]
      <4>1. scope \in Accounts /\ place[r] \in [account : Accounts, folder : Segs]
        BY DEF FolderInv, FolderTyped
      <4>2. CASE r \in tree
        <5>1. PICK p \in Segs : moved[r] = [account |-> scope, folder |-> p]
          BY <2>5, <4>2
        <5> QED BY <4>1, <5>1
      <4>3. CASE r \notin tree
        BY <2>6, <4>1, <4>3
      <4> QED BY <4>2, <4>3
    <3>2. moved = [r \in T!Rows |-> moved[r]]
      BY <1>4
    <3> QED BY <3>1, <3>2
  <2>8. FolderTyped'
    BY <2>1, <2>3, <2>7 DEF FolderInv, FolderTyped
  <2>9. T!OneHolder'
    <3>1. SUFFICES ASSUME ~crossed', NEW r \in Holders \cap present, NEW s \in Holders \cap present,
                          moved[r] = moved[s]
          PROVE  r = s
      BY <2>1 DEF T!OneHolder
    <3>2. ~crossed /\ "folder" \notin q.since
      BY <1>1, <2>1, <3>1
    <3>3. Holders \cap T!Under(scope, q.to) \subseteq tree
      BY <1>2, <1>3, <3>2 DEF RequestFits, FolderFits
    <3>4. \A x, y \in Holders \cap present : place[x] = place[y] => x = y
      BY <3>2 DEF FolderInv, T!OneHolder
    <3>5. r \in T!Rows /\ s \in T!Rows
      BY FoldersTyped
    <3>6. ASSUME NEW x \in tree, NEW y \in Holders \cap present, moved[x] = moved[y] PROVE y \in tree
      <4>1. SUFFICES ASSUME y \notin tree PROVE FALSE
        OBVIOUS
      <4>2. y \in T!Rows
        BY FoldersTyped
      <4>3. place[y] = [account |-> scope, folder |-> T!Graft(place[x].folder, q.from, q.to)]
        BY <2>5, <2>6, <3>6, <4>1, <4>2
      <4>4. place[y].account = scope /\ T!Within(place[y].folder, q.to)
        BY <2>5, <4>3
      <4>5. y \in T!Under(scope, q.to)
        BY <4>4 DEF T!Under
      <4> QED BY <3>3, <4>1, <4>5
    <3>7. CASE r \in tree /\ s \in tree
      <4>1. PICK p \in Segs : p = place[r].folder
        BY <2>4, <3>7
      <4>2. PICK o \in Segs : o = place[s].folder
        BY <2>4, <3>7
      <4>3. T!Graft(p, q.from, q.to) = T!Graft(o, q.from, q.to)
        <5>1. moved[r] = [account |-> scope, folder |-> T!Graft(p, q.from, q.to)]
          BY <2>5, <3>7, <4>1
        <5>2. moved[s] = [account |-> scope, folder |-> T!Graft(o, q.from, q.to)]
          BY <2>5, <3>7, <4>2
        <5>3. moved[r].folder = T!Graft(p, q.from, q.to) /\ moved[s].folder = T!Graft(o, q.from, q.to)
          BY <5>1, <5>2
        <5> QED BY <3>1, <5>3
      <4>4. T!Within(p, q.from) /\ T!Within(o, q.from)
        BY <2>4, <3>7, <4>1, <4>2
      <4>5. p = o
        BY <1>2, <4>3, <4>4, GraftKeepsApart
      <4>6. place[r] = place[s]
        <5>1. place[r] = [account |-> scope, folder |-> p] /\ place[s] = [account |-> scope, folder |-> o]
          BY <2>4, <3>7, <4>1, <4>2
        <5> QED BY <4>5, <5>1
      <4> QED BY <3>4, <4>6
    <3>8. CASE r \notin tree /\ s \notin tree
      BY <2>6, <3>1, <3>4, <3>5, <3>8
    <3> QED BY <3>1, <3>6, <3>7, <3>8
  <2> QED BY <2>1, <2>3, <2>8, <2>9, NothingTold DEF FolderInv
<1>7. T!Ends(h) \/ (place' = moved /\ T!Writes(h, "folder", {}) /\ UNCHANGED <<present, used, stars>>)
  BY <1>1, <1>3, <1>4 DEF T!Rewrite
<1> QED BY <1>5, <1>6, <1>7

\* What goes on: a file is found, a parent, a target.
LEMMA StagesKeep ==
  ASSUME FolderInv, NEW h \in Admins, T!FindFile(h) \/ T!FindParent(h) \/ T!FindTarget(h) \/ T!Fail(h)
  PROVE  FolderInv'
<1>1. PICK q : q = request[h]
  OBVIOUS
<1>2. q \in FolderAsks /\ RequestFits(q)
  BY <1>1, FoldersTyped
<1>3. ASSUME NEW z \in FolderAsks, RequestFits(z), request' = [request EXCEPT ![h] = z],
             UNCHANGED <<present, used, place, stars, scope, crossed, told>>
      PROVE  FolderInv'
  BY <1>3, RequestKeeps
<1>4. CASE T!Ends(h) \/ T!Fail(h)
  <2>1. PICK z : z = T!Quiet
    OBVIOUS
  <2>2. /\ request' = [request EXCEPT ![h] = z]
        /\ UNCHANGED <<present, used, place, stars, scope, crossed, told>>
    BY <1>4, <2>1 DEF T!Ends, T!Fail
  <2>3. z \in FolderAsks /\ RequestFits(z)
    BY <2>1, QuietFits
  <2> QED BY <1>3, <2>2, <2>3
<1>5. ASSUME NEW stage \in {"put", "target", "rewrite"}, T!Goes(h, stage)
      PROVE  \E z : /\ z = [q EXCEPT !.at = stage] /\ z \in FolderAsks /\ z.at = stage /\ z.row = q.row
                    /\ z.account = q.account /\ z.from = q.from /\ z.to = q.to /\ z.parent = q.parent
                    /\ z.value = q.value /\ z.since = q.since
                    /\ request' = [request EXCEPT ![h] = z]
                    /\ UNCHANGED <<present, used, place, stars, scope, crossed, told>>
  <2>1. PICK z : z = [q EXCEPT !.at = stage]
    OBVIOUS
  <2>2. /\ request' = [request EXCEPT ![h] = z]
        /\ UNCHANGED <<present, used, place, stars, scope, crossed, told>>
    BY <1>1, <1>5, <2>1 DEF T!Goes
  <2>3. /\ z \in FolderAsks /\ z.at = stage /\ z.row = q.row
        /\ z.account = q.account /\ z.from = q.from /\ z.to = q.to /\ z.parent = q.parent
        /\ z.value = q.value /\ z.since = q.since
    BY <1>2, <2>1 DEF FolderAsks
  <2> QED BY <2>1, <2>2, <2>3
<1>6. CASE q.at = "find" /\ T!Seen(q.row) /\ T!Goes(h, "put")
  <2>1. PICK z : /\ z \in FolderAsks /\ z.at = "put" /\ z.row = q.row /\ z.to = q.to /\ z.since = q.since
                 /\ request' = [request EXCEPT ![h] = z]
                 /\ UNCHANGED <<present, used, place, stars, scope, crossed, told>>
    BY <1>5, <1>6
  <2>2. RequestFits(z)
    BY <1>2, <1>6, <2>1 DEF RequestFits, AskFits, FolderFits, CalmFits, StarFits, Moves, Calm, T!Steady
  <2> QED BY <1>3, <2>1, <2>2
<1>7. CASE q.at = "parent" /\ T!Under(q.account, q.parent) # {} /\ T!Goes(h, "target")
  <2>1. PICK z : /\ z \in FolderAsks /\ z.at = "target" /\ z.row = q.row /\ z.account = q.account
                 /\ z.from = q.from /\ z.to = q.to /\ z.parent = q.parent /\ z.since = q.since
                 /\ request' = [request EXCEPT ![h] = z]
                 /\ UNCHANGED <<present, used, place, stars, scope, crossed, told>>
    BY <1>5, <1>7
  <2>2. RequestFits(z)
    BY <1>2, <1>7, <2>1 DEF RequestFits, AskFits, FolderFits, CalmFits, StarFits, Moves, Calm, T!Steady
  <2> QED BY <1>3, <2>1, <2>2
<1>8. CASE q.at = "target" /\ T!Free(q.account, q.from, q.to) /\ T!Goes(h, "rewrite")
  <2>1. PICK z : /\ z \in FolderAsks /\ z.at = "rewrite" /\ z.row = q.row /\ z.account = q.account
                 /\ z.from = q.from /\ z.to = q.to /\ z.parent = q.parent /\ z.since = q.since
                 /\ request' = [request EXCEPT ![h] = z]
                 /\ UNCHANGED <<present, used, place, stars, scope, crossed, told>>
    BY <1>5, <1>8
  <2>2. T!Under(q.account, q.to) \subseteq T!Under(q.account, q.from)
    BY <1>8 DEF T!Free
  <2>3. RequestFits(z)
    BY <1>2, <1>8, <2>1, <2>2 DEF RequestFits, AskFits, FolderFits, CalmFits, StarFits, Moves, Calm, T!Steady
  <2> QED BY <1>3, <2>1, <2>3
<1>9. \/ T!Ends(h) \/ T!Fail(h)
      \/ q.at = "find" /\ T!Seen(q.row) /\ T!Goes(h, "put")
      \/ q.at = "parent" /\ T!Under(q.account, q.parent) # {} /\ T!Goes(h, "target")
      \/ q.at = "target" /\ T!Free(q.account, q.from, q.to) /\ T!Goes(h, "rewrite")
  BY <1>1 DEF T!FindFile, T!FindParent, T!FindTarget
<1> QED BY <1>4, <1>6, <1>7, <1>8, <1>9

\* A request that begins has just looked.
LEMMA AsksKeep ==
  ASSUME FolderInv, NEW h \in Admins, NEW q \in FolderAsks, RequestFits(q), T!Begin(h, q)
  PROVE  FolderInv'
BY RequestKeeps DEF T!Begin

LEMMA CreateAsked ==
  ASSUME FolderInv, NEW h \in Admins, NEW path \in Paths, T!AskCreate(h, path)
  PROVE  FolderInv'
<1>1. PICK q : q = [T!Quiet EXCEPT !.at = "insert", !.account = scope, !.to = path]
  OBVIOUS
<1>2. T!Begin(h, q) /\ T!Exactly(scope, path) = {}
  BY <1>1 DEF T!AskCreate
<1>3. /\ q.at = "insert" /\ q.account = scope /\ q.to = path /\ scope \in Accounts
      /\ q \in FolderAsks
  BY <1>1, QuietFits, RowsApart DEF T!Quiet, FolderAsks, FolderInv, FolderTyped
<1>4. \A r \in present : place[r] # [account |-> q.account, folder |-> q.to]
  BY <1>2, <1>3 DEF T!Exactly
<1>5. RequestFits(q)
  BY <1>2, <1>3, <1>4 DEF RequestFits, AskFits, FolderFits, CalmFits, StarFits, Moves
<1> QED BY <1>2, <1>3, <1>5, AsksKeep

LEMMA StarFolderAsked ==
  ASSUME FolderInv, NEW h \in Admins, NEW path \in Paths, T!AskStarFolder(h, path)
  PROVE  FolderInv'
<1>1. PICK b \in BOOLEAN : b = ~(T!Under(scope, path) \subseteq stars)
  OBVIOUS
<1>2. PICK q : q = [T!Quiet EXCEPT !.at = "star", !.account = scope, !.to = path, !.value = b]
  OBVIOUS
<1>3. T!Begin(h, q)
  BY <1>1, <1>2 DEF T!AskStarFolder
<1>4. /\ q.at = "star" /\ q.to = path /\ q.value = b /\ scope \in Accounts
      /\ q \in FolderAsks
  BY <1>2, QuietFits, RowsApart DEF T!Quiet, FolderAsks, FolderInv, FolderTyped
<1>5. RequestFits(q)
  BY <1>1, <1>4 DEF RequestFits, AskFits, FolderFits, CalmFits, StarFits, Moves
<1> QED BY <1>3, <1>4, <1>5, AsksKeep

LEMMA StarFileAsked ==
  ASSUME FolderInv, NEW h \in Admins, NEW f \in Local, T!AskStarFile(h, f)
  PROVE  FolderInv'
<1>1. PICK b \in BOOLEAN : b = (f \notin stars)
  OBVIOUS
<1>2. PICK q : q = [T!Quiet EXCEPT !.at = "mark", !.row = f, !.value = b]
  OBVIOUS
<1>3. T!Begin(h, q) /\ T!Seen(f)
  BY <1>1, <1>2 DEF T!AskStarFile
<1>4. q.at = "mark" /\ q.row = f /\ q.value = b /\ q \in FolderAsks
  BY <1>2, QuietFits DEF T!Quiet, FolderAsks, T!Rows
<1>5. RequestFits(q)
  BY <1>1, <1>3, <1>4 DEF RequestFits, AskFits, FolderFits, CalmFits, StarFits, Moves
<1> QED BY <1>3, <1>4, <1>5, AsksKeep

LEMMA PutAsked ==
  ASSUME FolderInv, NEW h \in Admins, NEW f \in Local, NEW path \in Paths, T!AskPut(h, f, path)
  PROVE  FolderInv'
<1>1. PICK q : q = [T!Quiet EXCEPT !.at = "find", !.row = f, !.to = path]
  OBVIOUS
<1>2. T!Begin(h, q) /\ (path = <<>> \/ T!Under(scope, path) # {})
  BY <1>1 DEF T!AskPut
<1>3. q.at = "find" /\ q.row = f /\ q.to = path /\ q \in FolderAsks
  BY <1>1, QuietFits, RowsApart DEF T!Quiet, FolderAsks, T!Rows
<1>4. RequestFits(q)
  BY <1>2, <1>3 DEF RequestFits, AskFits, FolderFits, CalmFits, StarFits, Moves
<1> QED BY <1>2, <1>3, <1>4, AsksKeep

\* Both moving and renaming ask for a folder that is there, and a path not in it; what is
\* above the folder is there with it.
LEMMA MoveBegins ==
  ASSUME FolderInv, NEW h \in Admins, NEW from \in Segs, NEW parent \in Segs, NEW to \in Segs,
         NEW stage \in {"parent", "target"}, ~T!Within(to, from), T!Under(scope, from) # {},
         stage = "target" => T!Under(scope, parent) # {},
         T!Begin(h, T!Moving(stage, from, parent, to))
  PROVE  FolderInv'
<1>1. PICK q : q = T!Moving(stage, from, parent, to)
  OBVIOUS
<1>2. T!Begin(h, q)
  BY <1>1
<1>3. /\ q.at = stage /\ q.account = scope /\ q.from = from /\ q.parent = parent /\ q.to = to
      /\ scope \in Accounts
  BY <1>1 DEF T!Quiet, T!Moving, FolderInv, FolderTyped
<1>4. q \in FolderAsks
  BY <1>1, <1>3, QuietFits DEF T!Quiet, T!Moving, FolderAsks
<1>5. RequestFits(q)
  BY <1>3 DEF RequestFits, AskFits, FolderFits, CalmFits, StarFits, Moves
<1> QED BY <1>2, <1>4, <1>5, AsksKeep

LEMMA AboveIsThere ==
  ASSUME FolderInv, NEW from \in Segs, NEW parent \in Segs, T!Within(from, parent), T!Under(scope, from) # {}
  PROVE  T!Under(scope, parent) # {}
<1>1. PICK r \in present : place[r].account = scope /\ T!Within(place[r].folder, from)
  BY DEF T!Under
<1>2. PICK p \in Segs : p = place[r].folder
  BY FoldersTyped
<1>3. T!Within(p, parent)
  BY <1>1, <1>2, WithinAbove
<1> QED BY <1>1, <1>2, <1>3 DEF T!Under

LEMMA MoveAsked ==
  ASSUME FolderInv, NEW h \in Admins, NEW from \in Paths, NEW parent \in Paths, T!AskMove(h, from, parent)
  PROVE  FolderInv'
<1>1. from \in Segs /\ parent \in Segs
  BY RowsApart
<1>2. PICK to : to = Append(parent, from[Len(from)])
  OBVIOUS
<1>3. /\ from # <<>> /\ T!Under(scope, from) # {} /\ (parent = <<>> \/ ~T!Within(parent, from)) /\ to # from
      /\ T!Begin(h, T!Moving(IF parent = <<>> THEN "target" ELSE "parent", from, parent, to))
  BY <1>2 DEF T!AskMove, T!Movable
<1>4. to \in Segs /\ ~T!Within(to, from)
  BY <1>1, <1>2, <1>3, MoveLeaves
<1>5. CASE parent = <<>>
  <2>1. T!Within(from, parent)
    BY <1>1, <1>5, WithinItself
  <2>2. T!Under(scope, parent) # {}
    BY <1>1, <1>3, <2>1, AboveIsThere
  <2>3. T!Begin(h, T!Moving("target", from, parent, to))
    BY <1>3, <1>5
  <2> QED BY <1>1, <1>3, <1>4, <2>2, <2>3, MoveBegins
<1>6. CASE parent # <<>>
  <2>1. T!Begin(h, T!Moving("parent", from, parent, to))
    BY <1>3, <1>6
  <2> QED BY <1>1, <1>3, <1>4, <2>1, MoveBegins
<1> QED BY <1>5, <1>6

LEMMA RenameAsked ==
  ASSUME FolderInv, NEW h \in Admins, NEW from \in Paths, NEW name \in Names, T!AskRename(h, from, name)
  PROVE  FolderInv'
<1>1. from \in Segs
  BY RowsApart
<1>2. PICK parent : parent = T!Parent(from)
  OBVIOUS
<1>3. PICK to : to = Append(parent, name)
  OBVIOUS
<1>4. /\ from # <<>> /\ T!Under(scope, from) # {} /\ to # from
      /\ T!Begin(h, T!Moving("target", from, parent, to))
  BY <1>2, <1>3 DEF T!AskRename, T!Movable
<1>5. parent \in Segs /\ T!Within(from, parent)
  BY <1>1, <1>2, <1>4, ParentIs, WithinParent
<1>6. to \in Segs /\ ~T!Within(to, from)
  BY <1>1, <1>2, <1>3, <1>4, RenameLeaves
<1>7. T!Under(scope, parent) # {}
  BY <1>1, <1>4, <1>5, AboveIsThere
<1> QED BY <1>1, <1>4, <1>5, <1>6, <1>7, MoveBegins

LEMMA FoldersStep == FolderInv /\ [T!Next]_(T!vars) => FolderInv'
<1> SUFFICES ASSUME FolderInv, [T!Next]_(T!vars) PROVE FolderInv'
  OBVIOUS
<1>1. CASE T!Work
  BY <1>1, InsertKeeps, StarFolderKeeps, StarFileKeeps, PutKeeps, RewriteKeeps, StagesKeep DEF T!Work
<1>2. ASSUME NEW h \in Admins, \/ \E path \in Paths : T!AskCreate(h, path) \/ T!AskStarFolder(h, path)
                               \/ \E f \in Local : T!AskStarFile(h, f)
                               \/ \E f \in Local, path \in Paths : T!AskPut(h, f, path)
      PROVE  FolderInv'
  BY <1>2, CreateAsked, StarFolderAsked, StarFileAsked, PutAsked
<1>3. ASSUME NEW h \in Admins, \/ \E from, parent \in Paths : T!AskMove(h, from, parent)
                               \/ \E from \in Paths, name \in Names : T!AskRename(h, from, name)
                               \/ T!Fail(h)
      PROVE  FolderInv'
  BY <1>3, MoveAsked, RenameAsked, StagesKeep
<1>4. CASE \/ \E f \in Local, a \in Accounts, path \in Paths : T!Arrive(f, a, path)
           \/ \E r \in T!Rows : T!Depart(r)
           \/ \E a \in Accounts : T!Switch(a)
  BY <1>4, ArriveKeeps, DepartKeeps, ScopeKeeps
<1>5. CASE UNCHANGED T!vars
  <2>1. UNCHANGED <<present, used, place, stars, scope, request, crossed, told>>
    BY <1>5 DEF T!vars
  <2>2. FolderTyped' /\ T!StarsShow' /\ T!OneHolder'
    BY <2>1 DEF FolderInv, FolderTyped, T!StarsShow, T!OneHolder, T!Listed, T!Starred, T!Exactly
  <2>3. ASSUME NEW h \in Admins PROVE RequestFits(request[h])'
    <3>1. PICK q : q = request[h]
      OBVIOUS
    <3>2. RequestFits(q)
      BY <3>1, FoldersTyped
    <3>3. RequestFits(q)'
      BY <2>1, <3>2 DEF RequestFits, AskFits, FolderFits, CalmFits, StarFits, T!Under, T!Exactly, T!Seen
    <3> QED BY <2>1, <3>1, <3>3
  <2> QED BY <2>2, <2>3 DEF FolderInv
<1> QED BY <1>1, <1>2, <1>3, <1>4, <1>5 DEF T!Next


RowsInv == part = "rows" => ChainsInv

LEMMA RowsStart == Init => RowsInv
BY ChainsStart DEF Init, RowsInv

LEMMA RowsStep == RowsInv /\ [Next]_vars => RowsInv'
<1> SUFFICES ASSUME RowsInv, [Next]_vars, part' = "rows" PROVE ChainsInv'
  BY DEF RowsInv
<1>1. part' = part
  BY DEF Next, vars, To3, To10, To12, To13, To14
<1>2. ChainsInv
  BY <1>1 DEF RowsInv
<1>3. [R!Next]_(R!vars)
  BY <1>1 DEF Next, R!vars, vars
<1> QED BY <1>2, <1>3, ChainsStep

\* The rows of transfer tasks tell what really happened and hide what is over, whatever
\* else the service does: an end is recorded as soon as the snapshots of the group are
\* written, a final row tells of an end the group came to, and no dismissal hides a task
\* that has gone on since.
THEOREM RowsStaySound == Spec => []RowsSound
<1>1. RowsInv => RowsSound
  BY ChainsAreSound DEF RowsInv, RowsSound
<1> QED BY <1>1, RowsStart, RowsStep, PTL DEF Spec

UploadsInv == part = "uploads" => UP!Inv

LEMMA UploadsStart == Init => UploadsInv
<1> SUFFICES ASSUME Init, part = "uploads" PROVE UP!Inv
  BY DEF UploadsInv
<1>1. U!Init
  BY DEF Init
<1>2. UP!Sized /\ UP!Init
  BY <1>1, UploadsSized, SameUploads
<1> QED BY <1>2, UP!Start

LEMMA UploadsStep == UploadsInv /\ [Next]_vars => UploadsInv'
<1> SUFFICES ASSUME UploadsInv, [Next]_vars, part' = "uploads" PROVE UP!Inv'
  BY DEF UploadsInv
<1>1. part' = part
  BY DEF Next, vars, To3, To10, To12, To13, To14
<1>2. UP!Inv /\ UP!Sized
  BY <1>1, UploadsSized, SameUploads DEF UploadsInv
<1>3. U!Next \/ UNCHANGED vars
  BY <1>1 DEF Next
<1>4. [UP!Next]_UP!vars
  BY <1>3, SameUploads DEF UP!vars, vars
<1> QED BY <1>2, <1>4, UP!NextKept

\* Whatever the browser asks for, the handlers do and fails: the chunks the table lists are
\* there, within the budget, what was acknowledged is recorded, nothing is left over, and no
\* entry waits beside a free place.
THEOREM UploadsStaySound == Spec => []UploadsSound
<1>1. UploadsInv => UploadsSound
  BY SameUploads, UP!InvSound DEF UploadsInv, UploadsSound
<1> QED BY <1>1, UploadsStart, UploadsStep, PTL DEF Spec

LibraryPart == /\ part = "library" => LibraryInv
               /\ part = "list" => ListInv
               /\ part = "folders" => FolderInv

LEMMA LibraryPartStarts == Init => LibraryPart
BY LibraryStarts, ListStarts, FoldersStart DEF Init, LibraryPart

LEMMA LibraryPartSteps == LibraryPart /\ [Next]_vars => LibraryPart'
<1> SUFFICES ASSUME LibraryPart, [Next]_vars PROVE LibraryPart'
  OBVIOUS
<1>1. part' = part
  BY DEF Next, vars, To3, To10, To12, To13, To14
<1>2. ASSUME part = "library" PROVE LibraryInv'
  <2>1. L!Next \/ UNCHANGED vars
    BY <1>2 DEF Next
  <2>2. [L!Next]_(L!vars)
    BY <2>1 DEF L!vars, vars
  <2> QED BY <1>2, <2>2, LibrarySteps DEF LibraryPart
<1>3. ASSUME part = "list" PROVE ListInv'
  <2>1. F!Next \/ UNCHANGED vars
    BY <1>3 DEF Next
  <2>2. [F!Next]_(F!vars)
    BY <2>1 DEF F!vars, F!flags, vars
  <2> QED BY <1>3, <2>2, ListSteps DEF LibraryPart
<1>4. ASSUME part = "folders" PROVE FolderInv'
  <2>1. T!Next \/ UNCHANGED vars
    BY <1>4 DEF Next
  <2>2. [T!Next]_(T!vars)
    BY <2>1 DEF T!vars, vars
  <2> QED BY <1>4, <2>2, FoldersStep DEF LibraryPart
<1> QED BY <1>1, <1>2, <1>3, <1>4 DEF LibraryPart

\* However uploads, sweeps, confirmed deletions, imports and failures interleave: what was
\* uploaded stays, object and row, until its deletion is confirmed, what was reported deleted
\* takes no storage (while the default account is not changed), and a preview that is there
\* has its upload's row, or an upload not over yet or failed.  However pages, answers and
\* changes of the rows do: the list by name shows only what the user looks at, and at its end
\* all that was there throughout.  However requests about folders do: no folder is made twice
\* and none mixed with another, a file goes to a folder that is there, and a star is turned
\* over as it was seen and shows as it was told, unless another write came in between.
THEOREM LibraryStaysSound == Spec => []LibrarySound
<1>1. LibraryPart => LibrarySound
  BY LibraryIsSound, ListIsSound, FoldersAreSound DEF LibraryPart, LibrarySound
<1> QED BY <1>1, LibraryPartStarts, LibraryPartSteps, PTL DEF Spec

-----------------------------------------------------------------------------
(* The values of these five parts are of their types.                      *)

\* What is above a path that is short enough is short enough.
LEMMA PathsAbove ==
  ASSUME NEW p \in Paths, NEW q \in Segs, T!Within(p, q)
  PROVE  q \in Paths
<1>1. /\ p \in Segs /\ p \in Seq(Names) /\ q \in Seq(Names) /\ Len(p) \in Nat /\ Len(q) \in Nat
      /\ Len(q) <= Len(p) /\ SubSeq(p, 1, Len(q)) = q
  BY RowsApart, LenProperties DEF Segs, T!Within
<1> DEFINE some == {n \in Nat : Len(q) <= n /\ \E t \in Paths : T!Within(t, q) /\ Len(t) = n}
<1>2. some \in SUBSET Nat /\ Len(p) \in some
  BY <1>1
<1>3. PICK n \in some : \A m \in some : n <= m
  BY <1>2, Least
<1>4. PICK t \in Paths : T!Within(t, q) /\ Len(t) = n
  BY <1>3
<1>5. n \in Nat /\ Len(q) <= n /\ t \in Segs
  BY <1>3, RowsApart
<1>6. CASE n = Len(q)
  <2>1. \A i \in 1 .. Len(q) : t[i] = q[i]
    BY <1>1, <1>4, <1>5, WithinMeans
  <2>2. t = q
    BY <1>1, <1>4, <1>5, <1>6, <2>1, SeqEqual DEF Segs
  <2> QED BY <2>2
<1>7. CASE n # Len(q)
  <2>1. n # 0 /\ Len(q) <= n - 1 /\ n - 1 \in Nat
    <3>1. PICK k \in Nat : k = Len(q)
      BY <1>1
    <3>2. n \in Nat /\ k <= n /\ n # k
      BY <1>5, <1>7, <3>1
    <3>3. n # 0 /\ k <= n - 1 /\ n - 1 \in Nat
      BY <3>2
    <3> QED BY <3>1, <3>3
  <2>2. t # <<>>
    BY <1>4, <1>5, <2>1, EmptySeq
  <2>3. PICK up : up = T!Parent(t)
    OBVIOUS
  <2>4. up \in Paths
    BY <2>2, <2>3, FoldersShaped DEF T!Shaped
  <2>5. up \in Segs /\ Len(up) = n - 1 /\ \A i \in 1 .. (n - 1) : up[i] = t[i]
    BY <1>4, <1>5, <2>2, <2>3, ParentIs
  <2>6. \A i \in 1 .. Len(q) : t[i] = q[i]
    BY <1>4, <1>5, <1>1, WithinMeans
  <2>7. T!Within(up, q)
    BY <1>1, <2>1, <2>5, <2>6, WithinMeans
  <2>8. n - 1 \in some
    BY <2>1, <2>4, <2>5, <2>7
  <2> QED BY <1>3, <1>5, <2>8
<1> QED BY <1>6, <1>7

\* What the invariant above leaves out: stars are on rows that are there, and every path,
\* also that of a folder about to be moved, is short enough.
FolderRest ==
  /\ stars \subseteq present /\ crossed \in BOOLEAN
  /\ place \in [T!Rows -> [account : Accounts, folder : Paths]]
  /\ \A h \in Admins : request[h].to \in Paths

LEMMA FolderRestStarts == T!Init => FolderRest
<1> SUFFICES ASSUME T!Init PROVE FolderRest
  OBVIOUS
<1>1. /\ stars = {} /\ crossed = FALSE /\ scope \in Accounts /\ request = [h \in Admins |-> T!Quiet]
      /\ place = [r \in T!Rows |-> [account |-> scope, folder |-> <<>>]]
  BY DEF T!Init
<1>2. T!Quiet.to = <<>> /\ <<>> \in Paths
  BY RowsApart DEF T!Quiet
<1> QED BY <1>1, <1>2 DEF FolderRest

LEMMA OvertakenPaths ==
  ASSUME FolderInv, FolderRest, NEW k, NEW done, request' = T!Overtaken(k, done)
  PROVE  \A g \in Admins : request'[g].to \in Paths
<1> SUFFICES ASSUME NEW g \in Admins PROVE request'[g].to \in Paths
  OBVIOUS
<1>1. request[g] \in FolderAsks /\ request[g].to \in Paths
  BY FoldersTyped DEF FolderRest
<1>2. T!Quiet.to \in Paths
  BY RowsApart DEF T!Quiet
<1>3. request'[g] = T!Quiet \/ request'[g] = [request[g] EXCEPT !.since = @ \cup {k}]
  BY DEF T!Overtaken
<1> QED BY <1>1, <1>2, <1>3 DEF FolderAsks

\* Requests begin, go on and end.
LEMMA StagedPaths ==
  ASSUME FolderInv, FolderRest, NEW h \in Admins, NEW q, request' = [request EXCEPT ![h] = q], q.to \in Paths,
         UNCHANGED <<present, place, stars, crossed>>
  PROVE  FolderRest'
<1>1. request \in [Admins -> FolderAsks]
  BY DEF FolderInv, FolderTyped
<1>2. \A g \in Admins : request'[g].to \in Paths
  BY <1>1 DEF FolderRest
<1> QED BY <1>2 DEF FolderRest

LEMMA EndedPaths == ASSUME FolderInv, FolderRest, NEW h \in Admins, T!Ends(h) PROVE FolderRest'
<1>1. T!Quiet.to \in Paths
  BY RowsApart DEF T!Quiet
<1> QED BY <1>1, StagedPaths DEF T!Ends

LEMMA GoneOnPaths == ASSUME FolderInv, FolderRest, NEW h \in Admins, NEW s, T!Goes(h, s) PROVE FolderRest'
<1>1. request[h] \in FolderAsks /\ request[h].to \in Paths
  BY FoldersTyped DEF FolderRest
<1>2. PICK q : q = [request[h] EXCEPT !.at = s]
  OBVIOUS
<1>3. q.to = request[h].to
  BY <1>1, <1>2 DEF FolderAsks
<1>4. request' = [request EXCEPT ![h] = q]
  BY <1>2 DEF T!Goes
<1> QED BY <1>1, <1>3, <1>4, StagedPaths DEF T!Goes

LEMMA BegunPaths ==
  ASSUME FolderInv, FolderRest, NEW h \in Admins, NEW q, q.to \in Paths, T!Begin(h, q)
  PROVE  FolderRest'
BY StagedPaths DEF T!Begin

\* A folder that is there is moved to where it fits with all that is in it.
LEMMA MovedPaths ==
  ASSUME FolderInv, NEW from \in Segs, NEW parent, NEW to \in Segs, T!Movable(from, parent, to)
  PROVE  to \in Paths
<1>1. PICK r \in T!Under(scope, from) : TRUE
  BY DEF T!Movable
<1>2. r \in present /\ T!Within(place[r].folder, from)
  BY <1>1 DEF T!Under
<1>3. PICK p \in Segs : p = place[r].folder
  BY <1>2, FoldersTyped
<1>4. PICK g : g = T!Graft(p, from, to)
  OBVIOUS
<1>5. g \in Paths
  BY <1>1, <1>3, <1>4 DEF T!Movable
<1>6. T!Within(g, to)
  BY <1>2, <1>3, <1>4, GraftWithin
<1> QED BY <1>5, <1>6, PathsAbove

LEMMA FolderRestKeeps == FolderInv /\ FolderRest /\ [T!Next]_(T!vars) => FolderRest'
<1> SUFFICES ASSUME FolderInv, FolderRest, [T!Next]_(T!vars) PROVE FolderRest'
  OBVIOUS
<1>0. /\ \A h \in Admins : request[h] \in FolderAsks /\ request[h].to \in Paths
      /\ T!Quiet.to = <<>> /\ <<>> \in Paths
  BY FoldersTyped, RowsApart DEF FolderRest, T!Quiet
<1>w. ASSUME NEW h \in Admins, NEW k, NEW told2, T!Writes(h, k, told2), stars' \subseteq present',
             place' \in [T!Rows -> [account : Accounts, folder : Paths]]
      PROVE  FolderRest'
  <2>1. crossed' \in BOOLEAN
    <3>1. crossed' = (crossed \/ (k = "folder" /\ k \in request[h].since))
      BY <1>w DEF T!Writes
    <3> QED BY <3>1, Zenon
  <2>2. \A g \in Admins : request'[g].to \in Paths
    BY <1>w, OvertakenPaths DEF T!Writes
  <2> QED BY <1>w, <2>1, <2>2 DEF FolderRest
<1>1. ASSUME NEW h \in Admins, T!Insert(h) PROVE FolderRest'
  <2>1. PICK new : new = CHOOSE r \in Holders : r \notin used
    OBVIOUS
  <2>2. CASE T!Ends(h)
    BY <2>2, EndedPaths
  <2>3. CASE ~T!Ends(h)
    <3>1. /\ request[h].at = "insert" /\ new \in Holders \ used /\ present' = present \cup {new} /\ UNCHANGED stars
          /\ place' = [place EXCEPT ![new] = [account |-> request[h].account, folder |-> request[h].to]]
          /\ T!Writes(h, "folder", {})
      BY <1>1, <2>1, <2>3 DEF T!Insert
    <3>2. PICK spot : spot = [account |-> request[h].account, folder |-> request[h].to]
      OBVIOUS
    <3>3. request[h].account \in Accounts
      BY <3>1, FoldersTyped DEF RequestFits, AskFits
    <3>4. spot \in [account : Accounts, folder : Paths] /\ place' = [place EXCEPT ![new] = spot]
      BY <1>0, <3>1, <3>2, <3>3
    <3>5. place' \in [T!Rows -> [account : Accounts, folder : Paths]]
      BY <3>4 DEF FolderRest
    <3> QED BY <3>1, <3>5, <1>w DEF FolderRest
  <2> QED BY <2>2, <2>3
<1>2. ASSUME NEW h \in Admins, T!StarFolder(h) PROVE FolderRest'
  <2>1. /\ stars' \subseteq stars \cup T!Under(request[h].account, request[h].to) /\ UNCHANGED <<present, place>>
        /\ \E answer : T!Writes(h, "star", answer)
    BY <1>2 DEF T!StarFolder
  <2>2. stars' \subseteq present'
    BY <2>1 DEF FolderRest, T!Under
  <2> QED BY <2>1, <2>2, <1>w DEF FolderRest
<1>3. ASSUME NEW h \in Admins, T!StarFile(h) PROVE FolderRest'
  <2>1. /\ UNCHANGED <<present, place>> /\ T!Writes(h, "star", {})
        /\ stars' \subseteq stars \cup present
    BY <1>3 DEF T!StarFile, T!Seen
  <2>2. stars' \subseteq present'
    BY <2>1 DEF FolderRest
  <2> QED BY <2>1, <2>2, <1>w DEF FolderRest
<1>4. ASSUME NEW h \in Admins, T!Put(h) PROVE FolderRest'
  <2>1. /\ UNCHANGED <<present, stars>> /\ T!Writes(h, "file", {})
        /\ place' = T!Refiled(request[h].row, request[h].to)
    BY <1>4 DEF T!Put
  <2>2. PICK to \in Paths : to = request[h].to
    BY <1>0
  <2>3. PICK f : f = request[h].row
    OBVIOUS
  <2>4. place' = place \/ place' = [place EXCEPT ![f].folder = to]
    BY <2>1, <2>2, <2>3 DEF T!Refiled
  <2>5. place' \in [T!Rows -> [account : Accounts, folder : Paths]]
    BY <2>4 DEF FolderRest
  <2> QED BY <2>1, <2>5, <1>w DEF FolderRest
<1>5. ASSUME NEW h \in Admins, T!Rewrite(h) PROVE FolderRest'
  <2>1. CASE T!Ends(h)
    BY <2>1, EndedPaths
  <2>2. CASE ~T!Ends(h)
    <3>1. PICK tree : tree = T!Under(scope, request[h].from)
      OBVIOUS
    <3>2. PICK moved : moved = [r \in T!Rows |->
             IF r \in tree THEN [place[r] EXCEPT !.folder = T!Graft(@, request[h].from, request[h].to)] ELSE place[r]]
      OBVIOUS
    <3>3. /\ \A r \in tree : moved[r].folder \in Paths
          /\ place' = moved /\ T!Writes(h, "folder", {}) /\ UNCHANGED <<present, stars>>
      BY <1>5, <2>2, <3>1, <3>2 DEF T!Rewrite
    <3>4. ASSUME NEW r \in T!Rows PROVE moved[r] \in [account : Accounts, folder : Paths]
      <4>1. PICK spot \in [account : Accounts, folder : Paths] : spot = place[r]
        BY DEF FolderRest
      <4>2. CASE r \in tree
        <5>1. PICK graft : graft = T!Graft(spot.folder, request[h].from, request[h].to)
          OBVIOUS
        <5>2. moved[r] = [spot EXCEPT !.folder = graft]
          BY <3>2, <4>1, <4>2, <5>1
        <5>3. graft \in Paths
          BY <3>3, <4>2, <5>2
        <5> QED BY <5>2, <5>3
      <4>3. CASE r \notin tree
        BY <3>2, <4>1, <4>3
      <4> QED BY <4>2, <4>3
    <3>5. place' \in [T!Rows -> [account : Accounts, folder : Paths]]
      BY <3>2, <3>3, <3>4
    <3> QED BY <3>3, <3>5, <1>w DEF FolderRest
  <2> QED BY <2>1, <2>2
<1>6. ASSUME NEW h \in Admins, T!FindFile(h) \/ T!FindParent(h) \/ T!FindTarget(h) PROVE FolderRest'
  <2>1. T!Ends(h) \/ \E s : T!Goes(h, s)
    BY <1>6 DEF T!FindFile, T!FindParent, T!FindTarget
  <2> QED BY <2>1, EndedPaths, GoneOnPaths
<1>7. ASSUME NEW h \in Admins, NEW path \in Paths, T!AskCreate(h, path) \/ T!AskStarFolder(h, path) PROVE FolderRest'
  <2>1. PICK q : q.to = path /\ T!Begin(h, q)
    BY <1>7 DEF T!AskCreate, T!AskStarFolder, T!Quiet
  <2> QED BY <2>1, BegunPaths
<1>8. ASSUME NEW h \in Admins, NEW f \in Local, T!AskStarFile(h, f) PROVE FolderRest'
  <2>1. PICK q : q.to = <<>> /\ T!Begin(h, q)
    BY <1>8 DEF T!AskStarFile, T!Quiet
  <2> QED BY <1>0, <2>1, BegunPaths
<1>9. ASSUME NEW h \in Admins, NEW f \in Local, NEW path \in Paths, T!AskPut(h, f, path) PROVE FolderRest'
  <2>1. PICK q : q.to = path /\ T!Begin(h, q)
    BY <1>9 DEF T!AskPut, T!Quiet
  <2> QED BY <2>1, BegunPaths
<1>10. ASSUME NEW h \in Admins, NEW from \in Paths, NEW parent \in Paths, T!AskMove(h, from, parent) PROVE FolderRest'
  <2>1. PICK to : to = Append(parent, from[Len(from)])
    OBVIOUS
  <2>2. /\ from # <<>> /\ T!Movable(from, parent, to)
        /\ \E s : T!Begin(h, T!Moving(s, from, parent, to))
    BY <1>10, <2>1 DEF T!AskMove
  <2>3. from \in Segs /\ parent \in Segs /\ (parent = <<>> \/ ~T!Within(parent, from)) /\ to # from
    BY <2>2, RowsApart DEF T!Movable
  <2>4. to \in Segs
    BY <2>1, <2>2, <2>3, MoveLeaves
  <2>5. to \in Paths
    BY <2>2, <2>3, <2>4, MovedPaths
  <2>6. PICK q : q.to = to /\ T!Begin(h, q)
    BY <2>2 DEF T!Moving, T!Quiet
  <2> QED BY <2>5, <2>6, BegunPaths
<1>11. ASSUME NEW h \in Admins, NEW from \in Paths, NEW name \in Names, T!AskRename(h, from, name) PROVE FolderRest'
  <2>1. PICK parent : parent = T!Parent(from)
    OBVIOUS
  <2>2. PICK to : to = Append(parent, name)
    OBVIOUS
  <2>3. /\ from # <<>> /\ T!Movable(from, parent, to) /\ to # from
        /\ T!Begin(h, T!Moving("target", from, parent, to))
    BY <1>11, <2>1, <2>2 DEF T!AskRename, T!Movable
  <2>4. from \in Segs
    BY RowsApart
  <2>5. to \in Segs
    BY <2>1, <2>2, <2>3, <2>4, RenameLeaves
  <2>6. to \in Paths
    BY <2>3, <2>4, <2>5, MovedPaths
  <2>7. PICK q : q.to = to /\ T!Begin(h, q)
    BY <2>3 DEF T!Moving, T!Quiet
  <2> QED BY <2>6, <2>7, BegunPaths
<1>12. ASSUME NEW h \in Admins, T!Fail(h) PROVE FolderRest'
  BY <1>0, <1>12, StagedPaths DEF T!Fail
<1>13. ASSUME NEW f \in Local, NEW a \in Accounts, NEW path \in Paths, T!Arrive(f, a, path) PROVE FolderRest'
  <2>1. /\ present' = present \cup {f} /\ UNCHANGED <<stars, crossed>> /\ request' = T!Overtaken("file", {})
        /\ place' = [place EXCEPT ![f] = [account |-> a, folder |-> path]]
    BY <1>13 DEF T!Arrive
  <2>2. \A g \in Admins : request'[g].to \in Paths
    BY <2>1, OvertakenPaths
  <2>3. place' \in [T!Rows -> [account : Accounts, folder : Paths]]
    BY <2>1 DEF FolderRest
  <2> QED BY <2>1, <2>2, <2>3 DEF FolderRest
<1>14. ASSUME NEW r \in T!Rows, T!Depart(r) PROVE FolderRest'
  <2>1. /\ present' = present \ {r} /\ stars' = stars \ {r} /\ UNCHANGED <<place, crossed>>
        /\ request' = T!Overtaken("file", {})
    BY <1>14 DEF T!Depart
  <2>2. \A g \in Admins : request'[g].to \in Paths
    BY <2>1, OvertakenPaths
  <2> QED BY <2>1, <2>2 DEF FolderRest
<1>15. ASSUME NEW a \in Accounts, T!Switch(a) PROVE FolderRest'
  <2>1. UNCHANGED <<present, stars, place, crossed>> /\ request' = T!Overtaken("folder", {})
    BY <1>15 DEF T!Switch
  <2>2. \A g \in Admins : request'[g].to \in Paths
    BY <2>1, OvertakenPaths
  <2> QED BY <2>1, <2>2 DEF FolderRest
<1>16. CASE UNCHANGED T!vars
  BY <1>16 DEF T!vars, FolderRest
<1>17. CASE T!Work
  BY <1>1, <1>2, <1>3, <1>4, <1>5, <1>6, <1>17 DEF T!Work
<1> QED
  BY <1>7, <1>8, <1>9, <1>10, <1>11, <1>12, <1>13, <1>14, <1>15, <1>16, <1>17 DEF T!Next

LEMMA FolderTypes == FolderInv /\ FolderRest => T!TypeOK
<1> SUFFICES ASSUME FolderInv, FolderRest PROVE T!TypeOK
  OBVIOUS
<1>1. \A h \in Admins : /\ request[h].since \subseteq {"folder", "file", "star"}
                         /\ request[h].row \in T!Rows \cup {0}
  BY FoldersTyped DEF FolderAsks, FolderKinds
<1> QED BY <1>1 DEF FolderInv, FolderTyped, FolderRest, T!TypeOK

LEMMA ListTypes == ListInv => F!TypeOK
BY DEF ListInv, ListTyped, Fits, Keys, F!TypeOK

LEMMA LibraryTypes == LibraryInv => L!TypeOK
BY DEF LibraryInv, LibraryTyped, Objects, Indexes, Stages, Previews, Sweeps, L!TypeOK

LEMMA RowTypes == ChainsInv => R!TypeOK
<1> SUFFICES ASSUME ChainsInv, NEW g \in Groups
             PROVE  /\ group[g] \in States
                    /\ row[g].status \in Rows
                    /\ row[g].version <= version[g] /\ dismissal[g].hidden <= row[g].updated
  BY DEF R!TypeOK, States, Rows
<1> QED BY DEF ChainsInv, RowsTyped, Ordered, HidesOver, Present

LEMMA UploadTypes == UP!Inv => U!TypeOK
<1> SUFFICES ASSUME UP!Inv PROVE U!TypeOK
  OBVIOUS
<1>1. /\ UP!Listed(v2, v4) /\ v4 \in [UP!Tasks -> UP!Runs]
      /\ \A t \in UP!Tasks : UP!Consistent(t)
      /\ v5 \in [UP!Sessions -> UP!Rows] /\ v6 \in [Writers -> UP!Handlers]
  BY DEF UP!Inv, UP!Browser, UP!Places, UP!Server, UP!ServerTyped
<1>2. UP!Tasks = U!Tasks /\ UP!Sessions = U!Sessions
  BY DEF UP!Tasks, U!Tasks, UP!Sessions, U!Sessions
<1>3. \A i \in 1 .. Len(v2) : v2[i] \in U!Tasks /\ v4[v2[i]].state = "pending"
  BY <1>1, <1>2, ElementOfSeq DEF UP!Listed
<1>4. \A t \in U!Tasks : /\ v4[t].state \in {"new", "pending", "active", "settled"}
                          /\ v4[t].told \in {"none", "ok", "error", "cancelled"}
                          /\ v4[t].session \in 0 .. MaxSessions /\ v4[t].asked \subseteq Chunks
                          /\ (v4[t].state = "active") <=> (v4[t].pc # "off")
  BY <1>1, <1>2 DEF UP!Runs, UP!Consistent
<1>5. \A s \in U!Sessions : v5[s].chunk \in [Chunks -> Writers \cup {0}]
  BY <1>1, <1>2 DEF UP!Rows
<1>6. \A w \in Writers : v6[w].after \in Writers \cup {0}
  BY <1>1 DEF UP!Handlers
<1> QED BY <1>3, <1>4, <1>5, <1>6 DEF U!TypeOK

FolderRestPart == part = "folders" => FolderRest

LEMMA FolderRestSteps == LibraryPart /\ FolderRestPart /\ [Next]_vars => FolderRestPart'
<1> SUFFICES ASSUME LibraryPart, FolderRestPart, [Next]_vars, part' = "folders" PROVE FolderRest'
  BY DEF FolderRestPart
<1>1. part = "folders"
  BY DEF Next, vars, To3, To10, To12, To13, To14
<1>2. T!Next \/ UNCHANGED vars
  BY <1>1 DEF Next
<1>3. [T!Next]_(T!vars)
  BY <1>2 DEF T!vars, vars
<1> QED BY <1>1, <1>3, FolderRestKeeps DEF LibraryPart, FolderRestPart

\* The values of these five parts are of their types: what the browser uploads, the rows of
\* transfer tasks, the library of files, its folders and the list of it.  (The other five are
\* those of AgreementProofs.)
THEOREM ServicesTypes ==
  Spec => [](part \in {"uploads", "rows", "library", "list", "folders"} => TypesHold)
<1> DEFINE I == UploadsInv /\ RowsInv /\ LibraryPart /\ FolderRestPart
<1>1. I => (part \in {"uploads", "rows", "library", "list", "folders"} => TypesHold)
  <2> SUFFICES ASSUME I, part \in {"uploads", "rows", "library", "list", "folders"} PROVE TypesHold
    OBVIOUS
  <2>1. CASE part = "uploads"
    BY <2>1, UploadTypes DEF UploadsInv, TypesHold
  <2>2. CASE part = "rows"
    BY <2>2, RowTypes DEF RowsInv, TypesHold
  <2>3. CASE part = "library"
    BY <2>3, LibraryTypes DEF LibraryPart, TypesHold
  <2>4. CASE part = "list"
    BY <2>4, ListTypes DEF LibraryPart, TypesHold
  <2>5. CASE part = "folders"
    BY <2>5, FolderTypes DEF LibraryPart, FolderRestPart, TypesHold
  <2> QED BY <2>1, <2>2, <2>3, <2>4, <2>5
<1>2. Init => I
  <2>1. Init => FolderRestPart
    BY FolderRestStarts DEF Init, FolderRestPart
  <2> QED BY <2>1, UploadsStart, RowsStart, LibraryPartStarts
<1>3. I /\ [Next]_vars => I'
  BY UploadsStep, RowsStep, LibraryPartSteps, FolderRestSteps
<1> QED BY <1>1, <1>2, <1>3, PTL DEF Spec
=============================================================================
