---------------------------- MODULE WebUploadProofs ----------------------------
(***************************************************************************)
(* The large upload, for any scenes, chunks, handlers, sessions and        *)
(* budgets: what the browser counts as sent is recorded and on the disk,   *)
(* within the budget, nothing else stays there, and no entry waits beside a*)
(* free place.  Of the constants it takes what Sized says.                 *)
(*                                                                         *)
(* The invariant has a part for the server and one for the browser.  A     *)
(* handler that has not recorded its chunk finds another one there, if     *)
(* any, so the file it gives up is never the one the table lists; every    *)
(* file is that of a handler at work, or the one the table lists, or part  *)
(* of a directory that is about to go.  An entry waits in the line once,   *)
(* and the request that answers it is one of its present run.              *)
(***************************************************************************)
EXTENDS WebUpload, FiniteSetTheorems, SequenceTheorems, TLAPS

-----------------------------------------------------------------------------
(* The invariant.                                                          *)

Runs == [state : {"new", "pending", "active", "settled"},
         pc : {"off", "init", "list", "reopen", "chunks", "await", "wiped"},
         aborted : BOOLEAN, failed : BOOLEAN, session : 0 .. MaxSessions,
         asked : SUBSET Chunks, seen : SUBSET Chunks,
         told : {"none", "ok", "error", "cancelled"}]
Rows == [status : {"none", "open", "completing", "failed", "completed", "cancelled", "deleted"},
         expired : BOOLEAN, chunk : [Chunks -> Writers \cup {0}]]
Handlers == [pc : {"idle", "queue", "open", "write", "record", "drop", "same"},
             session : 0 .. MaxSessions, chunk : Chunks \cup {0}, after : Writers \cup {0},
             for : Tasks \cup {0}]
Completers == [pc : {"off", "merge", "commit"}, for : Tasks \cup {0}]
Whole  == Sessions \X Chunks \X Writers
Halves == Sessions \X Chunks \X Writers \X {"part"}

ServerTyped ==
  /\ row \in [Sessions -> Rows] /\ writer \in [Writers -> Handlers]
  /\ completer \in [Sessions -> Completers]
  /\ disk \subseteq Whole \cup Halves /\ doomed \subseteq Sessions

\* A session that may still be completed; it keeps its directory.
Going(s) == row[s].status \in {"open", "completing", "failed"}

Sane(s) ==
  /\ row[s].status = "none" => ~row[s].expired /\ \A c \in Chunks : row[s].chunk[c] = 0
  /\ completer[s].pc # "off" => row[s].status = "completing"
  /\ s \in doomed => row[s].status \in {"completed", "cancelled", "deleted"}

Busy(w) == writer[w].pc # "idle"

Attends(w) ==
  Busy(w) => /\ writer[w].session # 0 /\ writer[w].chunk # 0
             /\ row[writer[w].session].status # "none"

\* The handler the table names for the chunk of w.
Holder(w) == row[writer[w].session].chunk[writer[w].chunk]

Writes(w) ==
  /\ writer[w].pc \in {"open", "write", "record"} => Holder(w) # w
  /\ writer[w].pc \in {"drop", "same"} => Holder(w) # w \/ "unheard" \in mishaps
  /\ writer[w].pc = "same" => Holder(w) # 0 \/ row[writer[w].session].status = "deleted"
  /\ writer[w].pc = "record" /\ Going(writer[w].session) => File(w) \in disk

On(w, s, c, pcs) == writer[w].pc \in pcs /\ writer[w].session = s /\ writer[w].chunk = c

\* Whose a file is.
Kept(s) == Live(s) \/ s \in doomed \/ (row[s].expired /\ row[s].status # "deleted")

Belongs(s, c, w) ==
  "crash" \notin mishaps =>
    /\ <<s, c, w>> \in disk =>
         \/ On(w, s, c, {"record", "drop", "same"})
         \/ row[s].chunk[c] = w /\ Kept(s)
         \/ row[s].status = "deleted" /\ s \in doomed
    /\ <<s, c, w, "part">> \in disk => On(w, s, c, {"write"})

Server ==
  /\ ServerTyped /\ WithinBudget /\ ChunksAreThere
  /\ \A s \in Sessions : Sane(s)
  /\ \A w \in Writers : Attends(w) /\ Writes(w)
  /\ \A s \in Sessions, c \in Chunks, w \in Writers : Belongs(s, c, w)

\* The line q lists entries that wait in ts, each once.
Listed(q, ts) ==
  /\ q \in Seq(Tasks)
  /\ \A i, j \in 1 .. Len(q) : q[i] = q[j] => i = j
  /\ \A i \in 1 .. Len(q) : ts[q[i]].state = "pending"

Places == Listed(line, task) /\ paused \in BOOLEAN /\ PlacesAreUsed

Consistent(t) ==
  /\ task[t].state = "active" <=> task[t].pc # "off"
  /\ task[t].pc \in {"list", "reopen", "chunks", "await", "wiped"} => task[t].session # 0
  /\ task[t].session # 0 => row[task[t].session].status # "none"
  /\ task[t].pc \in {"off", "init", "list"} => task[t].seen = {}

Acknowledged(t) ==
  \A c \in task[t].seen :
    row[task[t].session].status # "deleted" => row[task[t].session].chunk[c] # 0

\* A handler that is waited for works for a run that sends chunks to its session.
Answers(w) ==
  writer[w].for # 0 => /\ Busy(w) /\ At(writer[w].for, "chunks")
                       /\ writer[w].session = task[writer[w].for].session

Browser ==
  /\ task \in [Tasks -> Runs] /\ Places
  /\ \A t \in Tasks : Consistent(t) /\ Acknowledged(t)
  /\ \A w \in Writers : Answers(w)

Inv == Server /\ Browser

LEMMA InvSound == Inv => Sound
<1> SUFFICES ASSUME Inv PROVE Sound
  OBVIOUS
<1>1. AcknowledgedIsRecorded
  BY DEF AcknowledgedIsRecorded, Inv, Browser, Acknowledged
<1>2. NothingLeftOver
  <2> SUFFICES ASSUME "crash" \notin mishaps, NEW f \in disk
               PROVE  \/ Live(f[1]) \/ f[1] \in doomed
                      \/ row[f[1]].expired /\ row[f[1]].status # "deleted"
                      \/ \E w \in Writers : /\ writer[w].pc \in {"write", "record", "drop", "same"}
                                            /\ f \in {File(w), Part(w)}
    BY DEF NothingLeftOver
  <2>1. CASE f \in Whole
    <3>1. PICK s \in Sessions, c \in Chunks, w \in Writers : f = <<s, c, w>>
      BY <2>1 DEF Whole
    <3>2. Belongs(s, c, w) /\ f[1] = s
      BY <3>1 DEF Inv, Server
    <3>3. CASE On(w, s, c, {"record", "drop", "same"})
      <4>1. f = File(w) /\ writer[w].pc \in {"write", "record", "drop", "same"}
        BY <3>1, <3>3 DEF On, File
      <4> QED BY <4>1
    <3> QED BY <3>1, <3>2, <3>3 DEF Belongs, Kept
  <2>2. CASE f \in Halves
    <3>1. PICK s \in Sessions, c \in Chunks, w \in Writers : f = <<s, c, w, "part">>
      BY <2>2 DEF Halves
    <3>2. Belongs(s, c, w) /\ f[1] = s
      BY <3>1 DEF Inv, Server
    <3>3. On(w, s, c, {"write"})
      BY <3>1, <3>2 DEF Belongs
    <3>4. f = Part(w) /\ writer[w].pc \in {"write", "record", "drop", "same"}
      BY <3>1, <3>3 DEF On, Part
    <3> QED BY <3>4
  <2> QED BY <2>1, <2>2 DEF Inv, Server, ServerTyped
<1> QED BY <1>1, <1>2 DEF Sound, Inv, Server, Browser, Places

LEMMA Start == Sized /\ Init => Inv
<1> SUFFICES ASSUME Sized, Init PROVE Inv
  OBVIOUS
<1>1. ServerTyped
  <2>1. [status |-> "none", expired |-> FALSE, chunk |-> [c \in Chunks |-> 0]] \in Rows
    BY DEF Rows
  <2>2. Idle \in Handlers
    BY DEF Idle, Handlers, Sized
  <2>3. [pc |-> "off", for |-> 0] \in Completers
    BY DEF Completers
  <2> QED BY <2>1, <2>2, <2>3 DEF ServerTyped, Init
<1>2. \A s \in Sessions : row[s].status = "none" /\ ~row[s].expired /\ \A c \in Chunks : row[s].chunk[c] = 0
  BY DEF Init
<1>3. WithinBudget
  <2>1. {s \in Sessions : Live(s)} = {}
    BY <1>2 DEF Live
  <2>2. Cardinality(Chunks) \in Nat /\ Cardinality({}) = 0
    BY FS_CardinalityType, FS_EmptySet DEF Sized
  <2> DEFINE n == Cardinality(Chunks)
  <2>3. n \in Nat /\ Budget \in Nat
    BY <2>2 DEF Sized
  <2> HIDE DEF n
  <2>4. 0 * n <= Budget
    BY <2>3
  <2> QED BY <2>1, <2>2, <2>4 DEF WithinBudget, n
<1>4. ChunksAreThere /\ \A s \in Sessions : Sane(s)
  BY <1>2 DEF ChunksAreThere, Live, Sane, Init
<1>5. \A w \in Writers : Attends(w) /\ Writes(w) /\ Answers(w)
  BY DEF Init, Idle, Attends, Busy, Writes, Answers
<1>6. \A s \in Sessions, c \in Chunks, w \in Writers : Belongs(s, c, w)
  BY DEF Init, Belongs
<1>7. task \in [Tasks -> Runs]
  <2>1. NewTask \in Runs
    BY DEF NewTask, Runs, Sized
  <2> QED BY <2>1 DEF Init
<1>8. Places
  <2>1. Active(task) = {}
    BY DEF Active, Init, NewTask
  <2>2. Cardinality(Active(task)) = 0
    BY <2>1, FS_EmptySet
  <2>3. line = <<>> /\ Len(line) = 0 /\ paused = FALSE
    BY DEF Init
  <2>4. line \in Seq(Tasks)
    BY <2>3
  <2>5. Listed(line, task)
    BY <2>3, <2>4 DEF Listed
  <2>6. Concurrency \in Nat
    BY DEF Sized
  <2>7. Cardinality(Active(task)) <= Concurrency
    BY <2>2, <2>6
  <2> QED BY <2>3, <2>5, <2>7 DEF Places, PlacesAreUsed
<1>9. \A t \in Tasks : Consistent(t) /\ Acknowledged(t)
  BY DEF Init, NewTask, Consistent, Acknowledged
<1> QED BY <1>1, <1>3, <1>4, <1>5, <1>6, <1>7, <1>8, <1>9 DEF Inv, Server, Browser

-----------------------------------------------------------------------------
(* The queue of the browser.                                               *)

LEMMA ActiveCounted ==
  ASSUME Sized, NEW ts
  PROVE  IsFiniteSet(Active(ts)) /\ Cardinality(Active(ts)) \in Nat
<1> DEFINE A == Active(ts)
<1>1. A \in SUBSET Tasks /\ IsFiniteSet(Tasks)
  BY DEF Active, Sized
<1> HIDE DEF A
<1>2. IsFiniteSet(A) /\ Cardinality(A) \in Nat
  BY <1>1, FS_Subset, FS_CardinalityType
<1> QED BY <1>2 DEF A

LEMMA BegunIsRun ==
  ASSUME Sized, NEW r \in Runs, r.seen = {}
  PROVE  /\ Begun(r) \in Runs /\ Begun(r).state = "active"
         /\ Begun(r).session = r.session /\ Begun(r).seen = {}
         /\ Begun(r).pc \in {"init", "list"}
         /\ Begun(r).pc = "list" => r.session # 0
BY DEF Begun, Runs

\* What starting entries of the line q, which waits in ts, leads to.
LEMMA Pumped ==
  ASSUME Sized, NEW ts \in [Tasks -> Runs], NEW q, NEW p \in BOOLEAN,
         Listed(q, ts), \A t \in Tasks : ts[t].state = "pending" => ts[t].seen = {},
         Cardinality(Active(ts)) <= Concurrency, Pump(ts, q, p)
  PROVE  /\ Places' /\ task' \in [Tasks -> Runs]
         /\ \A t \in Tasks : \/ task'[t] = ts[t]
                             \/ ts[t].state = "pending" /\ task'[t] = Begun(ts[t])
<1> DEFINE active == Cardinality(Active(ts))
           free   == IF p THEN 0 ELSE Concurrency - active
           n      == IF free < Len(q) THEN free ELSE Len(q)
           next   == {q[i] : i \in 1 .. n}
           f      == [i \in 1 .. n |-> q[i]]
<1>1. /\ task' = [t \in Tasks |-> IF t \in next THEN Begun(ts[t]) ELSE ts[t]]
      /\ line' = SubSeq(q, n + 1, Len(q)) /\ paused' = p
  BY DEF Pump
<1>2. Len(q) \in Nat /\ active \in Nat /\ Concurrency \in Nat /\ active <= Concurrency
  BY ActiveCounted DEF Listed, Sized
<1>3. IsFiniteSet(Active(ts))
  BY ActiveCounted
<1>4. q \in Seq(Tasks) /\ \A i \in 1 .. Len(q) : q[i] \in Tasks /\ ts[q[i]].state = "pending"
  BY DEF Listed
<1> HIDE DEF active
<1>5. /\ free \in Nat /\ n \in Nat /\ n <= Len(q) /\ n <= free
      /\ n = Len(q) \/ n = free
      /\ free = 0 \/ (~p /\ free = Concurrency - active)
  BY <1>2
<1> HIDE DEF free, n
<1>6. \A i \in 1 .. n : i \in 1 .. Len(q) /\ q[i] \in Tasks /\ ts[q[i]].state = "pending"
  BY <1>2, <1>4, <1>5
<1>7. \A t \in next : t \in Tasks /\ ts[t].state = "pending"
  BY <1>6
<1>8. Cardinality(next) = n /\ IsFiniteSet(next)
  <2>1. f \in [1 .. n -> next] /\ \A x \in next : \E i \in 1 .. n : f[i] = x
    OBVIOUS
  <2>2. \A i, j \in 1 .. n : f[i] = f[j] => i = j
    BY <1>6 DEF Listed
  <2> HIDE DEF f, next
  <2>3. f \in Bijection(1 .. n, next)
    BY <2>1, <2>2 DEF Bijection, Injection, Surjection, IsInjective
  <2>4. ExistsBijection(1 .. n, next)
    BY <2>3 DEF ExistsBijection
  <2>5. IsFiniteSet(1 .. n) /\ Cardinality(1 .. n) = n
    BY <1>5, FS_Interval
  <2> QED BY <2>4, <2>5, FS_Bijection
<1> HIDE DEF next
<1>9. ASSUME NEW t \in Tasks
      PROVE  /\ \/ task'[t] = ts[t] /\ t \notin next
                \/ t \in next /\ ts[t].state = "pending" /\ task'[t] = Begun(ts[t])
             /\ task'[t] \in Runs
             /\ t \in next => task'[t].state = "active"
  BY <1>1, <1>7, BegunIsRun
<1>10. task' \in [Tasks -> Runs]
  BY <1>1, <1>9
<1>11. Active(task)' = Active(ts) \cup next /\ Active(ts) \cap next = {}
  BY <1>7, <1>9 DEF Active
<1>12. Cardinality(Active(task)') = active + n
  <2>1. Cardinality(Active(ts) \cap next) = 0
    BY <1>11, FS_EmptySet
  <2>2. Cardinality(Active(ts) \cup next)
          = Cardinality(Active(ts)) + Cardinality(next) - Cardinality(Active(ts) \cap next)
    BY <1>3, <1>8, FS_Union
  <2> QED BY <1>2, <1>5, <1>8, <1>11, <2>1, <2>2 DEF active
<1>13. /\ line' \in Seq(Tasks)
       /\ Len(line') = Len(q) - n
       /\ \A i \in 1 .. Len(line') : n + i \in 1 .. Len(q) /\ line'[i] = q[n + i]
  <2>1. line' \in Seq(Tasks)
    BY <1>1, <1>2, <1>4, <1>5
  <2>2. Len(line') = Len(q) - n
    BY <1>1, <1>2, <1>4, <1>5
  <2>3. \A i \in 1 .. Len(q) - n : n + i \in 1 .. Len(q) /\ line'[i] = q[n + i]
    BY <1>1, <1>2, <1>4, <1>5
  <2> QED BY <2>1, <2>2, <2>3
<1>14. Listed(line, task)'
  <2>1. ASSUME NEW i \in 1 .. Len(line'), NEW j \in 1 .. Len(line'), line'[i] = line'[j]
        PROVE  i = j
    <3>1. /\ n + i \in 1 .. Len(q) /\ line'[i] = q[n + i]
          /\ n + j \in 1 .. Len(q) /\ line'[j] = q[n + j]
      BY <1>13
    <3>2. n + i = n + j
      BY <2>1, <3>1 DEF Listed
    <3>3. i \in Int /\ j \in Int
      OBVIOUS
    <3> QED BY <1>5, <3>2, <3>3
  <2>2. ASSUME NEW i \in 1 .. Len(line')
        PROVE  task'[line'[i]].state = "pending"
    <3>1. n + i \in 1 .. Len(q) /\ line'[i] = q[n + i] /\ n + i # 0
      BY <1>13
    <3>2. q[n + i] \notin next
      <4>1. \A j \in 1 .. n : j # n + i
        BY <1>5, <1>13
      <4> QED BY <1>6, <3>1, <4>1 DEF Listed, next
    <3> QED BY <1>4, <1>9, <3>1, <3>2
  <2> QED BY <1>13, <2>1, <2>2 DEF Listed
<1>15. PlacesAreUsed'
  <2>1. Cardinality(Active(task)') <= Concurrency
    BY <1>2, <1>5, <1>12
  <2>2. ASSUME line' # <<>>, ~paused'
        PROVE  Cardinality(Active(task)') = Concurrency
    <3>1. Len(line') # 0
      BY <1>13, <2>2, EmptySeq
    <3>2. n = free /\ n # Len(q)
      BY <1>2, <1>5, <1>13, <3>1
    <3>3. ~p
      BY <1>1, <2>2
    <3>4. free = Concurrency - active
      BY <3>3 DEF free
    <3> QED BY <1>2, <1>5, <1>12, <3>2, <3>4
  <2> QED BY <2>1, <2>2 DEF PlacesAreUsed
<1> QED BY <1>1, <1>9, <1>10, <1>14, <1>15 DEF Places

\* As long as nobody begins or ends, the places are as they were.
LEMMA PlacesKept ==
  ASSUME Places, task' \in [Tasks -> Runs], line' = line, paused' = paused,
         \A t \in Tasks : task'[t].state = task[t].state
  PROVE  Places'
<1>1. Active(task)' = Active(task)
  BY DEF Active
<1>2. \A i \in 1 .. Len(line) : line[i] \in Tasks
  BY DEF Places, Listed
<1> QED BY <1>1, <1>2 DEF Places, PlacesAreUsed, Listed

-----------------------------------------------------------------------------
(* What keeps the part of the browser.                                     *)

\* Sessions stay what they are, and chunks stay recorded until their session is deleted.
RowKept ==
  \A s \in Sessions :
    /\ row[s].status # "none" => row'[s].status # "none"
    /\ row[s].status = "deleted" => row'[s].status = "deleted"
    /\ \A c \in Chunks : row[s].chunk[c] # 0 /\ row'[s].status # "deleted" => row'[s].chunk[c] # 0

\* The entry stays as it is, or is begun.
Unmoved(t) ==
  \/ task'[t] = task[t]
  \/ task[t].state = "pending" /\ task'[t] = Begun(task[t])

\* The handler is waited for as before, or by nobody.
SameFor(w) ==
  writer'[w].for # 0 => /\ writer'[w].for = writer[w].for /\ writer'[w].pc # "idle"
                        /\ writer'[w].session = writer[w].session

LEMMA TaskSession ==
  ASSUME Sized, Browser, NEW t \in Tasks
  PROVE  /\ task[t] \in Runs
         /\ task[t].session # 0 => task[t].session \in Sessions
         /\ task[t].seen # {} => task[t].session # 0
         /\ task[t].pc # "off" => task[t].state = "active"
         /\ task[t].state # "active" => task[t].seen = {}
<1>1. task[t] \in Runs /\ Consistent(t)
  BY DEF Browser
<1>2. task[t].session \in 0 .. MaxSessions /\ MaxSessions \in Nat
  BY <1>1 DEF Runs, Sized
<1>3. task[t].session # 0 => task[t].session \in Sessions
  BY <1>2 DEF Sessions
<1> QED BY <1>1, <1>3 DEF Runs, Consistent

LEMMA UnmovedKept ==
  ASSUME Sized, Browser, RowKept, NEW t \in Tasks, Unmoved(t)
  PROVE  (Consistent(t) /\ Acknowledged(t))'
<1>1. /\ task[t] \in Runs /\ Consistent(t) /\ Acknowledged(t)
      /\ task[t].session # 0 => task[t].session \in Sessions
      /\ task[t].seen # {} => task[t].session # 0
  BY TaskSession DEF Browser
<1>2. CASE task'[t] = task[t]
  <2>1. Consistent(t)'
    BY <1>1, <1>2 DEF Consistent, RowKept
  <2>2. \A c \in task[t].seen : c \in Chunks
    BY <1>1 DEF Runs
  <2>3. Acknowledged(t)'
    BY <1>1, <1>2, <2>2 DEF Acknowledged, RowKept
  <2> QED BY <2>1, <2>3
<1>3. CASE task[t].state = "pending" /\ task'[t] = Begun(task[t])
  <2>1. task[t].seen = {}
    BY <1>3, TaskSession
  <2>2. /\ task'[t].state = "active" /\ task'[t].session = task[t].session
        /\ task'[t].seen = {} /\ task'[t].pc \in {"init", "list"}
        /\ task'[t].pc = "list" => task[t].session # 0
    BY <1>1, <1>3, <2>1, BegunIsRun
  <2> QED BY <1>1, <2>2 DEF Consistent, Acknowledged, RowKept
<1> QED BY <1>2, <1>3 DEF Unmoved

LEMMA UnmovedAnswers ==
  ASSUME Sized, Browser, NEW w \in Writers, SameFor(w),
         writer'[w].for # 0 => writer[w].for \in Tasks /\ Unmoved(writer[w].for)
  PROVE  Answers(w)'
<1> SUFFICES ASSUME writer'[w].for # 0 PROVE Answers(w)'
  BY DEF Answers
<1>1. PICK t \in Tasks : t = writer[w].for
  OBVIOUS
<1>2. /\ writer'[w].for = t /\ writer'[w].pc # "idle"
      /\ writer'[w].session = writer[w].session
  BY <1>1 DEF SameFor
<1>3. At(t, "chunks") /\ writer[w].session = task[t].session
  BY <1>1, <1>2 DEF Browser, Answers
<1>4. task'[t] = task[t]
  BY <1>1, <1>3, TaskSession DEF Unmoved, At
<1> QED BY <1>2, <1>3, <1>4 DEF Answers, At, Busy

\* Entries the step leaves alone, the ones in moved looked at by the caller.
LEMMA BrowserKept ==
  ASSUME Sized, Browser, RowKept, Places', task' \in [Tasks -> Runs],
         writer' \in [Writers -> Handlers], NEW moved,
         \A t \in Tasks : t \notin moved => Unmoved(t),
         \A t \in Tasks : t \in moved => (Consistent(t) /\ Acknowledged(t))',
         \A w \in Writers : \/ SameFor(w) /\ (writer'[w].for # 0 => writer[w].for \notin moved)
                            \/ Answers(w)'
  PROVE  Browser'
<1>1. \A t \in Tasks : (Consistent(t) /\ Acknowledged(t))'
  BY UnmovedKept
<1>2. ASSUME NEW w \in Writers PROVE Answers(w)'
  <2>1. CASE SameFor(w) /\ (writer'[w].for # 0 => writer[w].for \notin moved)
    <3>1. writer'[w].for # 0 => writer[w].for \in Tasks
      BY <2>1 DEF SameFor, Handlers
    <3> QED BY <2>1, <3>1, UnmovedAnswers
  <2> QED BY <2>1
<1> QED BY <1>1, <1>2 DEF Browser

LEMMA BrowserNone ==
  ASSUME Sized, Browser, RowKept, Places', task' \in [Tasks -> Runs],
         writer' \in [Writers -> Handlers],
         \A t \in Tasks : Unmoved(t), \A w \in Writers : SameFor(w)
  PROVE  Browser'
<1>1. \A t \in Tasks : (Consistent(t) /\ Acknowledged(t))'
  BY UnmovedKept
<1>2. ASSUME NEW w \in Writers PROVE Answers(w)'
  <2>1. writer'[w].for # 0 => writer[w].for \in Tasks
    BY DEF SameFor, Handlers
  <2> QED BY <2>1, UnmovedAnswers
<1> QED BY <1>1, <1>2 DEF Browser

\* The server goes on, the browser does not notice.
LEMMA BrowserStays ==
  ASSUME Sized, Browser, RowKept, UNCHANGED clientVars,
         writer' \in [Writers -> Handlers], \A w \in Writers : SameFor(w)
  PROVE  Browser'
<1>1. Places' /\ task' \in [Tasks -> Runs]
  BY DEF Browser, Places, PlacesAreUsed, Listed, Active, clientVars
<1>2. \A t \in Tasks : Unmoved(t)
  BY DEF Unmoved, clientVars
<1> QED BY <1>1, <1>2, BrowserNone

\* One entry goes on in its run.
LEMMA BrowserMoves ==
  ASSUME Sized, Browser, RowKept, UNCHANGED <<line, paused>>, NEW t \in Tasks,
         task' \in [Tasks -> Runs], \A u \in Tasks : u # t => task'[u] = task[u],
         task'[t].state = task[t].state, (Consistent(t) /\ Acknowledged(t))',
         writer' \in [Writers -> Handlers],
         \A w \in Writers : \/ SameFor(w) /\ (writer'[w].for # 0 => writer[w].for # t)
                            \/ Answers(w)'
  PROVE  Browser'
<1>1. Places'
  BY PlacesKept DEF Browser
<1>2. \A u \in Tasks : u \notin {t} => Unmoved(u)
  BY DEF Unmoved
<1>3. \A w \in Writers : \/ SameFor(w) /\ (writer'[w].for # 0 => writer[w].for \notin {t})
                         \/ Answers(w)'
  OBVIOUS
<1> QED BY <1>1, <1>2, <1>3, BrowserKept

\* A run is over; others may begin.
LEMMA Settles ==
  ASSUME Sized, Browser, RowKept, NEW t \in Tasks, task[t].state = "active",
         NEW how \in {"ok", "error", "cancelled"}, Settle(t, how),
         writer' \in [Writers -> Handlers],
         \A w \in Writers : SameFor(w) /\ (writer'[w].for # 0 => writer[w].for # t)
  PROVE  Browser'
<1> DEFINE r  == Over(task[t], how)
           ts == [task EXCEPT ![t] = r]
<1>1. task \in [Tasks -> Runs] /\ task[t] \in Runs
  BY DEF Browser
<1>2. /\ r \in Runs /\ r.state = "settled" /\ r.pc = "off" /\ r.seen = {}
      /\ r.session \in {0, task[t].session}
  <2>1. task[t].session \in 0 .. MaxSessions /\ 0 \in 0 .. MaxSessions
    BY <1>1 DEF Runs, Sized
  <2>2. r.session = (IF how = "cancelled" THEN 0 ELSE task[t].session)
    BY <1>1 DEF Over, Runs
  <2>3. r \in Runs
    BY <1>1, <2>1 DEF Over, Runs
  <2>4. r.state = "settled" /\ r.pc = "off" /\ r.seen = {}
    BY <1>1 DEF Over, Runs
  <2> QED BY <2>2, <2>3, <2>4
<1>3. Pump(ts, line, paused)
  BY DEF Settle
<1> HIDE DEF r
<1>4. /\ ts \in [Tasks -> Runs] /\ ts[t] = r
      /\ \A u \in Tasks : u # t => ts[u] = task[u]
  BY <1>1, <1>2
<1> HIDE DEF ts
<1>5. \A u \in Tasks : ts[u].state = "pending" => ts[u].seen = {}
  <2>1. ASSUME NEW u \in Tasks, ts[u].state = "pending"
        PROVE  ts[u].seen = {}
    <3>1. u # t
      BY <1>2, <1>4, <2>1
    <3> QED BY <1>4, <2>1, <3>1, TaskSession
  <2> QED BY <2>1
<1>6. Listed(line, ts)
  <2>1. Listed(line, task)
    BY DEF Browser, Places
  <2>2. \A i \in 1 .. Len(line) : line[i] \in Tasks /\ line[i] # t
    BY <2>1 DEF Listed
  <2> QED BY <1>4, <2>1, <2>2 DEF Listed
<1>7. Cardinality(Active(ts)) <= Concurrency
  <2>1. Active(ts) \in SUBSET Active(task)
    <3>1. ASSUME NEW u \in Active(ts) PROVE u \in Active(task)
      <4>1. u \in Tasks /\ ts[u].state = "active"
        BY DEF Active
      <4>2. u # t
        BY <1>2, <1>4, <4>1
      <4> QED BY <1>4, <4>1, <4>2 DEF Active
    <3> QED BY <3>1
  <2>2. IsFiniteSet(Active(task)) /\ Cardinality(Active(task)) \in Nat /\ Cardinality(Active(ts)) \in Nat
    BY ActiveCounted
  <2>3. Cardinality(Active(task)) <= Concurrency /\ Concurrency \in Nat
    BY DEF Browser, Places, PlacesAreUsed, Sized
  <2> DEFINE A == Active(task)  B == Active(ts)
  <2> HIDE DEF A, B
  <2>4. Cardinality(B) <= Cardinality(A)
    BY <2>1, <2>2, FS_Subset DEF A, B
  <2> QED BY <2>2, <2>3, <2>4 DEF A, B
<1>8. paused \in BOOLEAN
  BY DEF Browser, Places
<1>9. /\ Places' /\ task' \in [Tasks -> Runs]
      /\ \A u \in Tasks : \/ task'[u] = ts[u]
                          \/ ts[u].state = "pending" /\ task'[u] = Begun(ts[u])
  BY <1>3, <1>4, <1>5, <1>6, <1>7, <1>8, Pumped
<1>10. \A u \in Tasks : u \notin {t} => Unmoved(u)
  BY <1>4, <1>9 DEF Unmoved
<1>11. task'[t] = r
  BY <1>2, <1>4, <1>9
<1>12. (Consistent(t) /\ Acknowledged(t))'
  <2>1. task[t].session # 0 => /\ task[t].session \in Sessions
                               /\ row[task[t].session].status # "none"
    BY TaskSession DEF Browser, Consistent
  <2> QED BY <1>2, <1>11, <2>1 DEF Consistent, Acknowledged, RowKept
<1>13. \A w \in Writers : SameFor(w) /\ (writer'[w].for # 0 => writer[w].for \notin {t})
  OBVIOUS
<1> QED BY <1>9, <1>10, <1>12, <1>13, BrowserKept

-----------------------------------------------------------------------------
(* What keeps the part of the server.                                      *)

\* The handler is where it was.
SameWork(w) ==
  /\ writer'[w].pc = writer[w].pc
  /\ writer'[w].session = writer[w].session /\ writer'[w].chunk = writer[w].chunk

LEMMA HandlerFacts ==
  ASSUME Sized, Server, NEW w \in Writers
  PROVE  /\ writer[w] \in Handlers
         /\ Busy(w) => /\ writer[w].session \in Sessions /\ writer[w].chunk \in Chunks
                       /\ row[writer[w].session].status # "none"
<1>1. writer[w] \in Handlers /\ Attends(w)
  BY DEF Server, ServerTyped
<1>2. writer[w].session \in 0 .. MaxSessions /\ MaxSessions \in Nat /\ writer[w].chunk \in Chunks \cup {0}
  BY <1>1 DEF Handlers, Sized
<1>3. writer[w].session # 0 => writer[w].session \in Sessions
  BY <1>2 DEF Sessions
<1> QED BY <1>1, <1>2, <1>3 DEF Attends

LEMMA RowFacts ==
  ASSUME Server, NEW s \in Sessions
  PROVE  /\ row[s] \in Rows /\ row[s].chunk \in [Chunks -> Writers \cup {0}] /\ row[s].expired \in BOOLEAN
         /\ Sane(s)
BY DEF Server, ServerTyped, Rows

LEMMA Smaller ==
  ASSUME NEW a \in Nat, NEW b \in Nat, NEW n \in Nat, a <= b
  PROVE  a * n <= b * n
BY SMT

LEMMA LiveCounted ==
  ASSUME Sized
  PROVE  /\ IsFiniteSet(Counted) /\ Cardinality(Counted) \in Nat
         /\ IsFiniteSet(Counted') /\ Cardinality(Counted') \in Nat
         /\ Cardinality(Chunks) \in Nat /\ Budget \in Nat
<1>1. IsFiniteSet(Sessions)
  BY FS_Interval DEF Sized, Sessions
<1> DEFINE A == Counted  B == Counted'
<1>2. A \in SUBSET Sessions /\ B \in SUBSET Sessions
  BY DEF Counted
<1> HIDE DEF A, B
<1>3. IsFiniteSet(A) /\ Cardinality(A) \in Nat /\ IsFiniteSet(B) /\ Cardinality(B) \in Nat
  BY <1>1, <1>2, FS_Subset, FS_CardinalityType
<1>4. Cardinality(Chunks) \in Nat /\ Budget \in Nat
  BY FS_CardinalityType DEF Sized
<1> QED BY <1>3, <1>4 DEF A, B

LEMMA BudgetKept ==
  ASSUME Sized, WithinBudget, \A s \in Sessions : Live(s)' => Live(s)
  PROVE  WithinBudget'
<1> DEFINE A == Counted  B == Counted'  a == Cardinality(A)  b == Cardinality(B)  n == Cardinality(Chunks)
<1>1. B \in SUBSET A
  BY DEF Counted
<1>2. IsFiniteSet(A) /\ a \in Nat /\ b \in Nat /\ n \in Nat /\ Budget \in Nat
  BY LiveCounted
<1>3. a * n <= Budget
  BY DEF WithinBudget, Counted
<1>4. Counted' = {s \in Sessions : Live(s)'}
  BY DEF Counted
<1> SUFFICES b * n <= Budget
  BY <1>4 DEF WithinBudget
<1> HIDE DEF A, B
<1>5. b <= a
  BY <1>1, <1>2, FS_Subset
<1> HIDE DEF a, b, n
<1>6. b * n <= a * n
  BY <1>2, <1>5, Smaller
<1>7. a * n \in Nat /\ b * n \in Nat
  BY <1>2
<1> QED BY <1>2, <1>3, <1>6, <1>7

\* Nothing happens but that handlers are waited for, or not.
LEMMA ServerStays ==
  ASSUME Sized, Server, UNCHANGED <<row, completer, disk, doomed>>, mishaps \subseteq mishaps',
         writer' \in [Writers -> Handlers], \A w \in Writers : SameWork(w)
  PROVE  Server'
<1>1. ServerTyped' /\ \A s \in Sessions : Sane(s)'
  BY DEF Server, ServerTyped, Sane
<1>2. WithinBudget'
  BY BudgetKept DEF Server, Live
<1>3. ChunksAreThere'
  BY DEF Server, ChunksAreThere, Live
<1>4. ASSUME NEW w \in Writers PROVE (Attends(w) /\ Writes(w))'
  <2>1. Attends(w) /\ Writes(w) /\ SameWork(w)
    BY DEF Server
  <2>2. Attends(w)'
    BY <2>1 DEF Attends, Busy, SameWork
  <2>3. Writes(w)'
    BY <2>1 DEF Writes, SameWork, Holder, Going, File
  <2> QED BY <2>2, <2>3
<1>5. ASSUME NEW s \in Sessions, NEW c \in Chunks, NEW w \in Writers PROVE Belongs(s, c, w)'
  <2>1. Belongs(s, c, w) /\ SameWork(w)
    BY DEF Server
  <2> QED BY <2>1 DEF Belongs, On, SameWork, Kept, Live
<1> QED BY <1>1, <1>2, <1>3, <1>4, <1>5 DEF Server

\* The status of a session changes: if it is over its directory is about to go.
LEMMA StatusKept ==
  ASSUME Sized, Server, NEW s \in Sessions, Going(s),
         NEW x \in {"open", "completing", "failed", "completed", "cancelled"},
         row' = [row EXCEPT ![s].status = x],
         IF x \in {"completed", "cancelled"} THEN doomed' = doomed \cup {s} ELSE doomed' = doomed,
         completer' \in [Sessions -> Completers],
         \A k \in Sessions : k # s => completer'[k] = completer[k],
         completer'[s].pc # "off" => x = "completing",
         disk' = disk, mishaps \subseteq mishaps',
         writer' \in [Writers -> Handlers], \A w \in Writers : SameWork(w)
  PROVE  Server' /\ RowKept
<1>1. /\ row \in [Sessions -> Rows]
      /\ row[s] \in Rows /\ Sane(s) /\ s \notin doomed
  BY DEF Server, ServerTyped, Sane, Going
<1>2. /\ row'[s].status = x /\ row'[s].expired = row[s].expired /\ row'[s].chunk = row[s].chunk
      /\ \A k \in Sessions : k # s => row'[k] = row[k]
      /\ row'[s] \in Rows
  BY <1>1 DEF Rows
<1>3. RowKept
  BY <1>1, <1>2 DEF RowKept, Going
<1>4. ServerTyped'
  BY <1>1, <1>2 DEF Server, ServerTyped
<1>5. ASSUME NEW k \in Sessions
      PROVE  Sane(k)' /\ (Live(k)' => Live(k)) /\ (Going(k)' => Going(k))
  <2>1. CASE k = s
    BY <1>1, <1>2, <2>1 DEF Sane, Live, Going
  <2>2. CASE k # s
    <3>1. Sane(k)
      BY DEF Server
    <3>2. row'[k] = row[k] /\ completer'[k] = completer[k] /\ (k \in doomed' <=> k \in doomed)
      BY <1>2, <2>2
    <3> QED BY <3>1, <3>2 DEF Sane, Live, Going
  <2> QED BY <2>1, <2>2
<1>6. WithinBudget'
  BY <1>5, BudgetKept DEF Server
<1>7. \A k \in Sessions : row'[k].chunk = row[k].chunk
  BY <1>2
<1>8. ChunksAreThere'
  BY <1>5, <1>7 DEF Server, ChunksAreThere
<1>9. ASSUME NEW w \in Writers PROVE (Attends(w) /\ Writes(w))'
  <2>1. Attends(w) /\ Writes(w) /\ SameWork(w)
    BY DEF Server
  <2>2. Busy(w) => writer[w].session \in Sessions
    BY HandlerFacts
  <2>3. Attends(w)'
    BY <1>3, <2>1, <2>2 DEF Attends, Busy, SameWork, RowKept
  <2>4. Writes(w)'
    <3>1. CASE Busy(w)
      <4>1. PICK k \in Sessions : k = writer[w].session
        BY <2>2, <3>1
      <4>2. row'[k].chunk = row[k].chunk /\ (Going(k)' => Going(k))
            /\ (row[k].status = "deleted" => row'[k].status = "deleted")
        BY <1>3, <1>5, <1>7 DEF RowKept
      <4> QED BY <2>1, <4>1, <4>2 DEF Writes, SameWork, Holder, File, Going
    <3>2. CASE ~Busy(w)
      BY <2>1, <3>2 DEF Writes, SameWork, Busy
    <3> QED BY <3>1, <3>2
  <2> QED BY <2>3, <2>4
<1>10. ASSUME NEW k \in Sessions, NEW c \in Chunks, NEW w \in Writers PROVE Belongs(k, c, w)'
  <2>1. Belongs(k, c, w) /\ SameWork(w)
    BY DEF Server
  <2>2. Kept(k) => Kept(k)'
    <3>1. CASE k # s
      BY <1>2, <3>1 DEF Kept, Live
    <3>2. CASE k = s
      BY <1>1, <1>2, <3>2 DEF Kept, Live, Rows
    <3> QED BY <3>1, <3>2
  <2>3. row'[k].chunk = row[k].chunk /\ (row[k].status = "deleted" => row'[k].status = "deleted")
        /\ (k \in doomed => k \in doomed')
    BY <1>3, <1>7 DEF RowKept
  <2> QED BY <2>1, <2>2, <2>3 DEF Belongs, On, SameWork
<1> QED BY <1>3, <1>4, <1>5, <1>6, <1>8, <1>9, <1>10 DEF Server

\* A session is reserved.
LEMMA OpenedKept ==
  ASSUME Sized, Server, NEW s \in Fresh, Affordable, Opened(s),
         UNCHANGED <<completer, disk, doomed>>, mishaps \subseteq mishaps',
         writer' = writer
  PROVE  Server' /\ RowKept /\ row'[s].status # "none"
<1>1. /\ s \in Sessions /\ row[s].status = "none" /\ row[s] \in Rows /\ Sane(s)
      /\ row \in [Sessions -> Rows] /\ row' = [row EXCEPT ![s].status = "open"]
  BY DEF Server, ServerTyped, Fresh, Opened
<1>2. /\ row'[s].status = "open" /\ row'[s].expired = row[s].expired /\ row'[s].chunk = row[s].chunk
      /\ \A k \in Sessions : k # s => row'[k] = row[k]
      /\ row'[s] \in Rows
  BY <1>1 DEF Rows
<1>3. RowKept
  BY <1>1, <1>2 DEF RowKept
<1>4. ServerTyped'
  BY <1>1, <1>2 DEF Server, ServerTyped
<1>5. \A c \in Chunks : row'[s].chunk[c] = 0
  BY <1>1, <1>2 DEF Sane
<1>6. ASSUME NEW k \in Sessions PROVE Sane(k)'
  <2>1. Sane(k)
    BY DEF Server
  <2> QED BY <1>1, <1>2, <2>1 DEF Sane
<1>7. WithinBudget'
  <2> DEFINE A == Counted  a == Cardinality(A)  n == Cardinality(Chunks)
  <2>1. Counted' = A \cup {s} /\ s \notin A
    <3>1. Live(s)' /\ ~Live(s)
      BY <1>1, <1>2 DEF Live, Sane
    <3>2. \A k \in Sessions : k # s => (Live(k)' <=> Live(k))
      BY <1>2 DEF Live
    <3> QED BY <1>1, <3>1, <3>2 DEF Counted
  <2>2. IsFiniteSet(A) /\ a \in Nat
    BY LiveCounted
  <2>3. (a + 1) * n <= Budget
    BY DEF Affordable
  <2> HIDE DEF A
  <2>4. Cardinality(A \cup {s}) = a + 1
    BY <2>1, <2>2, FS_AddElement
  <2>5. Counted' = {k \in Sessions : Live(k)'}
    BY DEF Counted
  <2> QED BY <2>1, <2>3, <2>4, <2>5 DEF WithinBudget
<1>8. ChunksAreThere'
  <2> SUFFICES ASSUME "unheard" \notin mishaps', NEW k \in Sessions, NEW c \in Chunks,
                      Live(k)', row'[k].chunk[c] # 0
               PROVE  <<k, c, row'[k].chunk[c]>> \in disk'
    BY DEF ChunksAreThere
  <2>1. k # s
    BY <1>5
  <2>2. row'[k] = row[k] /\ Live(k)
    BY <1>2, <2>1 DEF Live
  <2> QED BY <2>2 DEF Server, ChunksAreThere
<1>9. ASSUME NEW w \in Writers PROVE (Attends(w) /\ Writes(w))'
  <2>1. Attends(w) /\ Writes(w)
    BY DEF Server
  <2>2. Busy(w) => row'[writer[w].session] = row[writer[w].session]
    BY <1>1, <1>2, HandlerFacts
  <2>3. ~Busy(w) => writer[w].pc = "idle"
    BY DEF Busy
  <2>4. Attends(w)'
    BY <2>1, <2>2 DEF Attends, Busy
  <2>5. Writes(w)'
    BY <2>1, <2>2, <2>3 DEF Writes, Holder, File, Going
  <2> QED BY <2>4, <2>5
<1>10. ASSUME NEW k \in Sessions, NEW c \in Chunks, NEW w \in Writers PROVE Belongs(k, c, w)'
  <2>1. Belongs(k, c, w)
    BY DEF Server
  <2>2. CASE k # s
    <3>1. row'[k] = row[k]
      BY <1>2, <2>2
    <3> QED BY <2>1, <3>1 DEF Belongs, On, Kept, Live
  <2>3. CASE k = s
    <3>1. row[s].chunk[c] # w
      BY <1>1 DEF Sane, Sized
    <3> QED BY <1>1, <2>1, <2>3, <3>1 DEF Belongs, On
  <2> QED BY <2>2, <2>3
<1> QED BY <1>2, <1>3, <1>4, <1>6, <1>7, <1>8, <1>9, <1>10 DEF Server

-----------------------------------------------------------------------------
(* A handler at work.                                                      *)

LEMMA Names ==
  ASSUME NEW s, NEW c, NEW w, NEW k, NEW d, NEW v
  PROVE  /\ <<s, c, w>> = <<k, d, v>> <=> s = k /\ c = d /\ w = v
         /\ <<s, c, w, "part">> = <<k, d, v, "part">> <=> s = k /\ c = d /\ w = v
         /\ <<s, c, w>> # <<k, d, v, "part">>
         /\ <<s, c, w>>[1] = s /\ <<s, c, w, "part">>[1] = s
OBVIOUS

\* The handler goes on with its chunk.
StillAt(w, pcs) == /\ writer'[w].pc \in pcs
                   /\ writer'[w].session = writer[w].session /\ writer'[w].chunk = writer[w].chunk

\* One handler goes on with its files; nothing else changes.
LEMMA HandlerKept ==
  ASSUME Sized, Server, NEW w \in Writers, Busy(w), UNCHANGED <<row, completer, doomed>>,
         mishaps \subseteq mishaps', writer' \in [Writers -> Handlers],
         \A v \in Writers : v # w => SameWork(v), Attends(w)', Writes(w)',
         disk' \subseteq disk \cup {File(w), Part(w)},
         \A f \in disk : f \notin {File(w), Part(w)} => f \in disk',
         File(w) \in disk /\ File(w) \notin disk' => Holder(w) # w \/ "unheard" \in mishaps',
         "crash" \notin mishaps' /\ File(w) \in disk' =>
            \/ StillAt(w, {"record", "drop", "same"})
            \/ Holder(w) = w /\ Kept(writer[w].session)
            \/ row[writer[w].session].status = "deleted" /\ writer[w].session \in doomed,
         "crash" \notin mishaps' /\ Part(w) \in disk' =>
            StillAt(w, {"write"})
  PROVE  Server' /\ RowKept
<1>1. PICK s \in Sessions, c \in Chunks : s = writer[w].session /\ c = writer[w].chunk
  BY HandlerFacts
<1>2. File(w) = <<s, c, w>> /\ Part(w) = <<s, c, w, "part">> /\ Holder(w) = row[s].chunk[c]
  BY <1>1 DEF File, Part, Holder
<1>3. RowKept
  BY DEF RowKept
<1>4. ServerTyped'
  <2>1. <<s, c, w>> \in Whole /\ <<s, c, w, "part">> \in Halves
    BY DEF Whole, Halves
  <2> QED BY <1>2, <2>1 DEF Server, ServerTyped
<1>5. WithinBudget'
  BY BudgetKept DEF Server, Live
<1>6. \A k \in Sessions : Sane(k)'
  BY DEF Server, Sane
<1>7. ChunksAreThere'
  <2> SUFFICES ASSUME "unheard" \notin mishaps', NEW k \in Sessions, NEW d \in Chunks,
                      Live(k), row[k].chunk[d] # 0
               PROVE  <<k, d, row[k].chunk[d]>> \in disk'
    BY DEF ChunksAreThere, Live
  <2>1. <<k, d, row[k].chunk[d]>> \in disk
    BY DEF Server, ChunksAreThere
  <2>2. CASE <<k, d, row[k].chunk[d]>> = <<s, c, w>>
    <3>1. row[s].chunk[c] = w
      BY <2>2, Names
    <3> QED BY <1>2, <2>1, <2>2, <3>1
  <2>3. CASE <<k, d, row[k].chunk[d]>> # <<s, c, w>>
    <3>1. <<k, d, row[k].chunk[d]>> # <<s, c, w, "part">>
      BY Names
    <3> QED BY <1>2, <2>1, <2>3, <3>1
  <2> QED BY <2>2, <2>3
<1>8. ASSUME NEW v \in Writers, v # w PROVE (Attends(v) /\ Writes(v))'
  <2>1. Attends(v) /\ Writes(v) /\ SameWork(v)
    BY <1>8 DEF Server
  <2>2. Attends(v)'
    BY <2>1 DEF Attends, Busy, SameWork
  <2>3. File(v)' = File(v) /\ (File(v) \in disk => File(v) \in disk')
    <3>1. File(v)' = File(v)
      BY <2>1 DEF File, SameWork
    <3>2. File(v) # File(w) /\ File(v) # Part(w)
      BY <1>8, Names DEF File, Part
    <3> QED BY <3>1, <3>2
  <2>4. Writes(v)'
    BY <2>1, <2>3 DEF Writes, SameWork, Holder, Going
  <2> QED BY <2>2, <2>4
<1>9. ASSUME NEW k \in Sessions, NEW d \in Chunks, NEW v \in Writers, v # w PROVE Belongs(k, d, v)'
  <2>1. Belongs(k, d, v) /\ SameWork(v)
    BY <1>9 DEF Server
  <2>2. /\ <<k, d, v>> # <<s, c, w>> /\ <<k, d, v>> # <<s, c, w, "part">>
        /\ <<k, d, v, "part">> # <<s, c, w>> /\ <<k, d, v, "part">> # <<s, c, w, "part">>
    BY <1>9, Names
  <2>3. /\ <<k, d, v>> \in disk' => <<k, d, v>> \in disk
        /\ <<k, d, v, "part">> \in disk' => <<k, d, v, "part">> \in disk
    BY <1>2, <2>2
  <2> QED BY <2>1, <2>3 DEF Belongs, On, SameWork, Kept, Live
<1>10. ASSUME NEW k \in Sessions, NEW d \in Chunks, ~(k = s /\ d = c) PROVE Belongs(k, d, w)'
  <2>1. Belongs(k, d, w)
    BY DEF Server
  <2>2. /\ <<k, d, w>> # <<s, c, w>> /\ <<k, d, w>> # <<s, c, w, "part">>
        /\ <<k, d, w, "part">> # <<s, c, w>> /\ <<k, d, w, "part">> # <<s, c, w, "part">>
    BY <1>10, Names
  <2>3. /\ <<k, d, w>> \in disk' => <<k, d, w>> \in disk
        /\ <<k, d, w, "part">> \in disk' => <<k, d, w, "part">> \in disk
    BY <1>2, <2>2
  <2>4. \A pcs : ~On(w, k, d, pcs)
    BY <1>1, <1>10 DEF On
  <2> QED BY <2>1, <2>3, <2>4 DEF Belongs, Kept, Live
<1>11. Belongs(s, c, w)'
  <2>1. \A pcs : StillAt(w, pcs) => On(w, s, c, pcs)'
    BY <1>1 DEF StillAt, On
  <2>2. Kept(s)' <=> Kept(s)
    BY DEF Kept, Live
  <2> QED BY <1>1, <1>2, <2>1, <2>2 DEF Belongs
<1> QED BY <1>3, <1>4, <1>5, <1>6, <1>7, <1>8, <1>9, <1>10, <1>11 DEF Server

LEMMA StepWork ==
  ASSUME Sized, Server, Browser, NEW w \in Writers, Busy(w),
         NEW pc \in {"open", "write", "record", "drop", "same"}, Step(w, pc)
  PROVE  /\ writer' \in [Writers -> Handlers] /\ UNCHANGED clientVars
         /\ writer'[w].pc = pc /\ writer'[w].session = writer[w].session
         /\ writer'[w].chunk = writer[w].chunk
         /\ \A v \in Writers : v # w => SameWork(v)
         /\ \A v \in Writers : SameFor(v)
<1>1. /\ writer \in [Writers -> Handlers] /\ writer[w] \in Handlers
      /\ writer' = [writer EXCEPT ![w].pc = pc] /\ UNCHANGED clientVars
  BY DEF Step, Server, ServerTyped
<1>2. /\ writer'[w].pc = pc /\ writer'[w].session = writer[w].session
      /\ writer'[w].chunk = writer[w].chunk /\ writer'[w].for = writer[w].for
      /\ writer'[w] \in Handlers
      /\ \A v \in Writers : v # w => writer'[v] = writer[v]
  BY <1>1 DEF Handlers
<1>3. writer' \in [Writers -> Handlers]
  BY <1>1, <1>2
<1>4. \A v \in Writers : v # w => SameWork(v) /\ SameFor(v)
  <2>1. ASSUME NEW v \in Writers, v # w PROVE SameWork(v) /\ SameFor(v)
    <3>1. writer'[v] = writer[v]
      BY <1>2, <2>1
    <3>2. writer[v].for # 0 => writer[v].pc # "idle"
      BY DEF Browser, Answers, Busy
    <3> QED BY <3>1, <3>2 DEF SameWork, SameFor
  <2> QED BY <2>1
<1>5. SameFor(w)
  BY <1>2 DEF SameFor
<1> QED BY <1>1, <1>2, <1>3, <1>4, <1>5

LEMMA AnswerWork ==
  ASSUME Sized, Server, NEW w \in Writers, NEW ok \in BOOLEAN, Answer(w, ok)
  PROVE  /\ writer' \in [Writers -> Handlers] /\ UNCHANGED <<line, paused>>
         /\ writer'[w] = Idle
         /\ \A v \in Writers : v # w => /\ SameWork(v)
                                        /\ writer'[v].for \in {0, writer[v].for}
<1>1. writer \in [Writers -> Handlers] /\ 0 \in Writers \cup {0} /\ 0 \in Tasks \cup {0}
  BY DEF Server, ServerTyped
<1>2. Idle \in Handlers
  BY DEF Idle, Handlers, Sized
<1> DEFINE t    == writer[w].for
           r(v) == [writer[v] EXCEPT !.after = IF @ = w THEN 0 ELSE @,
                                     !.for = IF ~ok /\ t # 0 /\ @ = t THEN 0 ELSE @]
<1>3. writer' = [v \in Writers |-> IF v = w THEN Idle ELSE r(v)]
  BY DEF Answer
<1>4. ASSUME NEW v \in Writers
      PROVE  /\ r(v) \in Handlers /\ r(v).pc = writer[v].pc /\ r(v).session = writer[v].session
             /\ r(v).chunk = writer[v].chunk /\ r(v).for \in {0, writer[v].for}
  <2>1. writer[v] \in Handlers
    BY <1>1
  <2> DEFINE a == IF writer[v].after = w THEN 0 ELSE writer[v].after
             b == IF ~ok /\ t # 0 /\ writer[v].for = t THEN 0 ELSE writer[v].for
  <2>2. a \in Writers \cup {0} /\ b \in Tasks \cup {0} /\ b \in {0, writer[v].for}
    BY <2>1 DEF Handlers
  <2>3. r(v) = [writer[v] EXCEPT !.after = a, !.for = b]
    BY <2>1
  <2> HIDE DEF a, b, r
  <2> QED BY <2>1, <2>2, <2>3 DEF Handlers
<1> HIDE DEF r
<1>5. writer' \in [Writers -> Handlers]
  BY <1>2, <1>3, <1>4
<1>6. /\ writer'[w] = Idle
      /\ \A v \in Writers : v # w => writer'[v] = r(v)
  BY <1>3
<1> QED BY <1>4, <1>5, <1>6, ZenonT(60) DEF SameWork, Answer

\* An answer, and what the browser makes of it.
LEMMA AnswerHeard ==
  ASSUME Sized, Server, Browser, RowKept, NEW w \in Writers, Busy(w), NEW ok \in BOOLEAN,
         Answer(w, ok),
         ok => \/ row'[writer[w].session].status = "deleted"
               \/ row'[writer[w].session].chunk[writer[w].chunk] # 0
  PROVE  Browser'
<1>1. /\ writer' \in [Writers -> Handlers] /\ UNCHANGED <<line, paused>>
      /\ writer'[w].for = 0
      /\ \A v \in Writers : v # w => SameWork(v) /\ writer'[v].for \in {0, writer[v].for}
  BY AnswerWork DEF Idle
<1>2. \A v \in Writers : SameFor(v)
  <2>1. ASSUME NEW v \in Writers, v # w PROVE SameFor(v)
    <3>1. SameWork(v) /\ writer'[v].for \in {0, writer[v].for}
      BY <1>1, <2>1
    <3>2. Answers(v)
      BY DEF Browser
    <3> QED BY <3>1, <3>2 DEF SameFor, SameWork, Answers, Busy
  <2> QED BY <1>1, <2>1 DEF SameFor
<1>3. CASE writer[w].for = 0
  <2>1. UNCHANGED clientVars
    BY <1>1, <1>3 DEF Answer, clientVars
  <2> QED BY <1>1, <1>2, <2>1, BrowserStays
<1>4. CASE writer[w].for # 0
  <2>0. PICK t \in Tasks : t = writer[w].for
    BY <1>4, HandlerFacts DEF Handlers
  <2>1. /\ At(t, "chunks") /\ writer[w].session = task[t].session
        /\ task[t] \in Runs /\ Consistent(t) /\ Acknowledged(t)
        /\ task[t].session \in Sessions
        /\ writer[w].chunk \in Chunks
    <3>1. At(t, "chunks") /\ writer[w].session = task[t].session /\ Consistent(t)
      BY <1>4, <2>0 DEF Browser, Answers
    <3> QED BY <3>1, HandlerFacts, TaskSession DEF Browser, Consistent, At
  <2>2. task' = IF ok THEN [task EXCEPT ![t].seen = @ \cup {writer[w].chunk}]
                      ELSE [task EXCEPT ![t].failed = TRUE]
    BY <1>4, <2>0 DEF Answer
  <2>3. /\ task'[t] \in Runs
        /\ task'[t].state = task[t].state /\ task'[t].pc = task[t].pc
        /\ task'[t].aborted = task[t].aborted /\ task'[t].session = task[t].session
        /\ task'[t].seen = IF ok THEN task[t].seen \cup {writer[w].chunk} ELSE task[t].seen
        /\ \A u \in Tasks : u # t => task'[u] = task[u]
    <3>1. CASE ok
      BY <2>1, <2>2, <3>1 DEF Browser, Runs
    <3>2. CASE ~ok
      BY <2>1, <2>2, <3>2 DEF Browser, Runs
    <3> QED BY <3>1, <3>2
  <2>4. task' \in [Tasks -> Runs]
    BY <2>1, <2>2, <2>3 DEF Browser
  <2>5. Consistent(t)'
    BY <2>1, <2>3 DEF Consistent, RowKept, At
  <2>6. Acknowledged(t)'
    <3> SUFFICES ASSUME NEW c \in task'[t].seen, row'[task[t].session].status # "deleted"
                 PROVE  row'[task[t].session].chunk[c] # 0
      BY <2>3 DEF Acknowledged
    <3>1. CASE c \in task[t].seen
      <4>1. c \in Chunks /\ row[task[t].session].status # "deleted"
        BY <2>1, <3>1 DEF Runs, RowKept
      <4>2. row[task[t].session].chunk[c] # 0
        BY <2>1, <3>1, <4>1 DEF Acknowledged
      <4> QED BY <2>1, <4>1, <4>2 DEF RowKept
    <3>2. CASE ok /\ c = writer[w].chunk
      BY <2>1, <3>2
    <3> QED BY <2>3, <3>1, <3>2
  <2>7. ASSUME NEW v \in Writers
        PROVE  \/ SameFor(v) /\ (writer'[v].for # 0 => writer[v].for # t)
               \/ Answers(v)'
    <3>1. CASE writer'[v].for # 0 /\ writer[v].for = t
      <4>1. v # w /\ writer'[v].for = t /\ SameFor(v)
        BY <1>1, <1>2, <3>1 DEF SameFor
      <4>2. writer[v].session = task[t].session
        BY <1>4, <2>0, <3>1 DEF Browser, Answers
      <4> QED BY <2>1, <2>3, <4>1, <4>2 DEF Answers, SameFor, Busy, At
    <3> QED BY <1>2, <3>1
  <2> QED BY <1>1, <2>1, <2>3, <2>4, <2>5, <2>6, <2>7, BrowserMoves
<1> QED BY <1>3, <1>4

\* The table takes the chunk of a handler, which is then done with it.
LEMMA RecordedKept ==
  ASSUME Sized, Server, NEW w \in Writers, NEW s \in Sessions, NEW c \in Chunks,
         s = writer[w].session, c = writer[w].chunk, writer[w].pc = "record",
         Accepts(s), row[s].chunk[c] = 0, row' = [row EXCEPT ![s].chunk[c] = w],
         UNCHANGED <<completer, disk, doomed>>, mishaps \subseteq mishaps',
         writer' \in [Writers -> Handlers], \A v \in Writers : v # w => SameWork(v),
         Attends(w)', writer'[w].pc \in {"idle", "drop"},
         writer'[w].pc = "drop" => "unheard" \in mishaps'
  PROVE  Server' /\ RowKept /\ row'[s].chunk[c] = w
<1>1. /\ row \in [Sessions -> Rows] /\ row[s] \in Rows /\ Sane(s)
      /\ row[s].status = "open" /\ ~row[s].expired /\ row[s].chunk \in [Chunks -> Writers \cup {0}]
  BY RowFacts DEF Server, ServerTyped, Accepts
<1>2. /\ row'[s].status = "open" /\ row'[s].expired = row[s].expired
      /\ row'[s].chunk = [row[s].chunk EXCEPT ![c] = w]
      /\ row'[s] \in Rows
      /\ \A k \in Sessions : k # s => row'[k] = row[k]
  BY <1>1 DEF Rows
<1>3. /\ row'[s].chunk[c] = w /\ w # 0
      /\ \A d \in Chunks : d # c => row'[s].chunk[d] = row[s].chunk[d]
  BY <1>1, <1>2 DEF Sized
<1>4. RowKept
  BY <1>1, <1>2, <1>3 DEF RowKept
<1>5. ServerTyped'
  BY <1>1, <1>2 DEF Server, ServerTyped
<1>6. \A k \in Sessions : (Live(k)' <=> Live(k)) /\ (Going(k)' <=> Going(k)) /\ Sane(k)'
  BY <1>1, <1>2 DEF Live, Going, Sane, Server
<1>7. WithinBudget'
  BY <1>6, BudgetKept DEF Server
<1>8. File(w) = <<s, c, w>> /\ File(w) \in disk
  BY <1>1 DEF File, Server, Writes, Going
<1>9. ChunksAreThere'
  <2> SUFFICES ASSUME "unheard" \notin mishaps', NEW k \in Sessions, NEW d \in Chunks,
                      Live(k)', row'[k].chunk[d] # 0
               PROVE  <<k, d, row'[k].chunk[d]>> \in disk
    BY DEF ChunksAreThere
  <2>1. CASE k = s /\ d = c
    BY <1>3, <1>8, <2>1
  <2>2. CASE ~(k = s /\ d = c)
    <3>1. row'[k].chunk[d] = row[k].chunk[d]
      BY <1>2, <1>3, <2>2
    <3> QED BY <1>6, <3>1 DEF Server, ChunksAreThere
  <2> QED BY <2>1, <2>2
<1>10. ASSUME NEW v \in Writers, v # w PROVE (Attends(v) /\ Writes(v))'
  <2>1. Attends(v) /\ Writes(v) /\ SameWork(v)
    BY <1>10 DEF Server
  <2>2. CASE Busy(v)
    <3>1. PICK k \in Sessions, d \in Chunks : k = writer[v].session /\ d = writer[v].chunk
      BY <2>2, HandlerFacts
    <3>2. Attends(v)'
      BY <1>4, <2>1, <3>1 DEF Attends, SameWork, Busy, RowKept
    <3>3. row'[k].chunk[d] = (IF k = s /\ d = c THEN w ELSE row[k].chunk[d])
      BY <1>2, <1>3
    <3>4. row'[k].status = row[k].status /\ (Going(k)' <=> Going(k)) /\ File(v)' = File(v)
      BY <1>1, <1>2, <1>6, <2>1 DEF File, SameWork
    <3>5. Holder(v) = row[k].chunk[d] /\ Holder(v)' = row'[k].chunk[d]
      BY <2>1, <3>1 DEF Holder, SameWork
    <3>6. Writes(v)'
      BY <1>3, <1>10, <2>1, <3>1, <3>3, <3>4, <3>5 DEF Writes, SameWork
    <3> QED BY <3>2, <3>6
  <2>3. CASE ~Busy(v)
    BY <2>1, <2>3 DEF Attends, Writes, Busy, SameWork
  <2> QED BY <2>2, <2>3
<1>11. Writes(w)'
  BY DEF Writes
<1>12. ASSUME NEW k \in Sessions, NEW d \in Chunks, NEW v \in Writers PROVE Belongs(k, d, v)'
  <2>1. Belongs(k, d, v)
    BY DEF Server
  <2>2. CASE v = w /\ k = s /\ d = c
    <3>1. Kept(s)'
      BY <1>1, <1>2 DEF Kept, Live
    <3>2. ~On(w, s, c, {"write"})
      BY DEF On
    <3> QED BY <1>3, <2>1, <2>2, <3>1, <3>2 DEF Belongs
  <2>3. CASE v = w /\ ~(k = s /\ d = c)
    <3>1. row'[k].chunk[d] = row[k].chunk[d] /\ row'[k].status = row[k].status
          /\ row'[k].expired = row[k].expired
      BY <1>1, <1>2, <1>3, <2>3
    <3>2. \A pcs : ~On(w, k, d, pcs)
      BY <2>3 DEF On
    <3>3. Kept(k)' <=> Kept(k)
      BY <1>6, <3>1 DEF Kept
    <3> QED BY <2>1, <2>3, <3>1, <3>2, <3>3 DEF Belongs
  <2>4. CASE v # w
    <3>1. row'[k].status = row[k].status /\ row'[k].expired = row[k].expired
      BY <1>1, <1>2
    <3>2. row[k].chunk[d] = v => row'[k].chunk[d] = v
      <4>1. k = s /\ d = c => row[k].chunk[d] = 0 /\ v # 0
        BY DEF Sized
      <4> QED BY <1>2, <1>3, <4>1
    <3>3. Kept(k)' <=> Kept(k)
      BY <1>6, <3>1 DEF Kept
    <3>4. \A pcs : On(v, k, d, pcs)' <=> On(v, k, d, pcs)
      BY <2>4 DEF On, SameWork
    <3> QED BY <2>1, <2>4, <3>1, <3>2, <3>3, <3>4 DEF Belongs
  <2> QED BY <2>2, <2>3, <2>4
<1> QED BY <1>3, <1>4, <1>5, <1>6, <1>7, <1>9, <1>10, <1>11, <1>12 DEF Server

-----------------------------------------------------------------------------
(* The steps of a handler.                                                 *)

\* Whose the files of a handler are.
LEMMA OwnFiles ==
  ASSUME Sized, Inv, NEW w \in Writers, Busy(w), "crash" \notin mishaps
  PROVE  /\ File(w) \in disk => \/ writer[w].pc \in {"record", "drop", "same"}
                                \/ Holder(w) = w /\ Kept(writer[w].session)
                                \/ row[writer[w].session].status = "deleted" /\ writer[w].session \in doomed
         /\ Part(w) \in disk => writer[w].pc = "write"
<1>1. PICK s \in Sessions, c \in Chunks : s = writer[w].session /\ c = writer[w].chunk
  BY HandlerFacts DEF Inv
<1>2. Belongs(s, c, w)
  BY DEF Inv, Server
<1> QED BY <1>1, <1>2 DEF Belongs, On, File, Part, Holder

\* The handler answers, having removed its files or not.
LEMMA AnswerKept ==
  ASSUME Sized, Inv, NEW w \in Writers, Busy(w), UNCHANGED <<row, completer, doomed>>,
         mishaps \subseteq mishaps', NEW ok \in BOOLEAN, Answer(w, ok),
         ok => row[writer[w].session].status = "deleted" \/ Holder(w) # 0,
         disk' \subseteq disk, \A f \in disk : f \notin {File(w), Part(w)} => f \in disk',
         File(w) \in disk /\ File(w) \notin disk' => Holder(w) # w \/ "unheard" \in mishaps',
         File(w) \in disk' => writer[w].pc \notin {"record", "drop", "same"},
         Part(w) \in disk' => writer[w].pc # "write"
  PROVE  Inv'
<1>1. /\ writer' \in [Writers -> Handlers] /\ writer'[w] = Idle
      /\ \A v \in Writers : v # w => SameWork(v)
  BY AnswerWork DEF Inv
<1>2. Attends(w)' /\ Writes(w)'
  BY <1>1 DEF Attends, Writes, Busy, Idle
<1>3. Server' /\ RowKept
  <2>1. "crash" \notin mishaps' => "crash" \notin mishaps
    OBVIOUS
  <2>2. "crash" \notin mishaps' /\ File(w) \in disk' =>
            \/ Holder(w) = w /\ Kept(writer[w].session)
            \/ row[writer[w].session].status = "deleted" /\ writer[w].session \in doomed
    BY <2>1, OwnFiles
  <2>3. "crash" \notin mishaps' => Part(w) \notin disk'
    BY <2>1, OwnFiles
  <2>4. disk' \subseteq disk \cup {File(w), Part(w)}
    OBVIOUS
  <2> QED BY <1>1, <1>2, <2>2, <2>3, <2>4, HandlerKept DEF Inv
<1>4. ok => \/ row'[writer[w].session].status = "deleted"
            \/ row'[writer[w].session].chunk[writer[w].chunk] # 0
  BY DEF Holder
<1>5. Browser'
  BY <1>3, <1>4, AnswerHeard DEF Inv
<1> QED BY <1>3, <1>5 DEF Inv

\* The handler goes on.
LEMMA StepKept ==
  ASSUME Sized, Inv, NEW w \in Writers, Busy(w), UNCHANGED <<row, completer, doomed>>,
         mishaps \subseteq mishaps', NEW pc \in {"open", "write", "record", "drop", "same"}, Step(w, pc),
         pc \in {"open", "write", "record"} => Holder(w) # w,
         pc \in {"drop", "same"} => Holder(w) # w \/ "unheard" \in mishaps',
         pc = "same" => Holder(w) # 0 \/ row[writer[w].session].status = "deleted",
         pc = "record" /\ Going(writer[w].session) => File(w) \in disk',
         disk' \subseteq disk \cup {File(w), Part(w)},
         \A f \in disk : f # Part(w) => f \in disk',
         File(w) \in disk' => pc \in {"record", "drop", "same"} \/ File(w) \in disk,
         writer[w].pc \in {"record", "drop", "same"} => pc \in {"record", "drop", "same"},
         Part(w) \in disk' => pc = "write" \/ (Part(w) \in disk /\ writer[w].pc # "write")
  PROVE  Inv'
<1>1. /\ writer' \in [Writers -> Handlers] /\ UNCHANGED clientVars
      /\ writer'[w].pc = pc /\ writer'[w].session = writer[w].session
      /\ writer'[w].chunk = writer[w].chunk
      /\ \A v \in Writers : v # w => SameWork(v)
      /\ \A v \in Writers : SameFor(v)
  BY StepWork DEF Inv
<1>2. Attends(w)'
  BY <1>1, HandlerFacts DEF Attends, Inv, Server
<1>3. File(w)' = File(w) /\ Holder(w)' = Holder(w) /\ (Going(writer[w].session)' <=> Going(writer'[w].session))
  BY <1>1 DEF File, Holder, Going
<1>4. Writes(w)'
  BY <1>1, <1>3 DEF Writes, Going
<1>5. "crash" \notin mishaps' => "crash" \notin mishaps
  OBVIOUS
<1>6. "crash" \notin mishaps' /\ File(w) \in disk' =>
            \/ StillAt(w, {"record", "drop", "same"})
            \/ Holder(w) = w /\ Kept(writer[w].session)
            \/ row[writer[w].session].status = "deleted" /\ writer[w].session \in doomed
  BY <1>1, <1>5, OwnFiles DEF StillAt
<1>7. "crash" \notin mishaps' /\ Part(w) \in disk' => StillAt(w, {"write"})
  BY <1>1, <1>5, OwnFiles DEF StillAt
<1>8. File(w) # Part(w)
  BY Names DEF File, Part
<1>9. Server' /\ RowKept
  BY <1>1, <1>2, <1>4, <1>6, <1>7, <1>8, HandlerKept DEF Inv
<1>10. Browser'
  BY <1>1, <1>9, BrowserStays DEF Inv
<1> QED BY <1>9, <1>10 DEF Inv

LEMMA CheckKept ==
  ASSUME Sized, Inv, NEW w \in Writers, Check(w)
  PROVE  Inv'
<1>1. /\ writer[w].pc = "queue" /\ Busy(w)
      /\ UNCHANGED <<row, completer, disk, doomed, mishaps>>
  BY DEF Check, Turn, Busy, counts
<1>2. CASE row[writer[w].session].status # "open"
  <2>1. Answer(w, FALSE)
    BY <1>2 DEF Check
  <2> QED BY <1>1, <2>1, AnswerKept
<1>3. CASE row[writer[w].session].status = "open" /\ Holder(w) # 0
  <2>1. Answer(w, TRUE)
    BY <1>3 DEF Check, Holder
  <2> QED BY <1>1, <1>3, <2>1, AnswerKept
<1>4. CASE row[writer[w].session].status = "open" /\ Holder(w) = 0
  <2>1. Step(w, "open") /\ Holder(w) # w
    BY <1>4 DEF Check, Holder, Sized
  <2> QED BY <1>1, <2>1, StepKept
<1> QED BY <1>2, <1>3, <1>4

LEMMA OpenLockKept ==
  ASSUME Sized, Inv, NEW w \in Writers, OpenLock(w)
  PROVE  Inv'
<1>1. /\ writer[w].pc = "open" /\ Busy(w) /\ UNCHANGED <<row, completer, doomed, mishaps>>
  BY DEF OpenLock, Turn, Busy, counts
<1>2. Holder(w) # w
  BY <1>1 DEF Inv, Server, Writes
<1>3. CASE Answer(w, FALSE) /\ disk' = disk
  BY <1>1, <1>3, AnswerKept
<1>4. CASE Step(w, "write") /\ disk' = disk \cup {Part(w)}
  <2>1. File(w) # Part(w)
    BY Names DEF File, Part
  <2> QED BY <1>1, <1>2, <1>4, <2>1, StepKept
<1> QED BY <1>3, <1>4 DEF OpenLock

LEMMA WritePartKept ==
  ASSUME Sized, Inv, NEW w \in Writers, WritePart(w)
  PROVE  Inv'
<1>1. /\ writer[w].pc = "write" /\ Busy(w) /\ UNCHANGED <<row, completer, doomed, mishaps>>
  BY DEF WritePart, Turn, Busy, counts
<1>2. Holder(w) # w /\ File(w) # Part(w)
  BY <1>1, Names DEF Inv, Server, Writes, File, Part
<1>3. CASE Part(w) \notin disk
  <2>1. Answer(w, FALSE) /\ disk' = disk
    BY <1>3 DEF WritePart
  <2> QED BY <1>1, <1>3, <2>1, AnswerKept
<1>4. CASE Part(w) \in disk
  <2>1. Step(w, "record") /\ disk' = (disk \ {Part(w)}) \cup {File(w)}
    BY <1>4 DEF WritePart
  <2> QED BY <1>1, <1>2, <2>1, StepKept
<1> QED BY <1>3, <1>4

LEMMA WriteBreaksKept ==
  ASSUME Sized, Inv, NEW w \in Writers, WriteBreaks(w)
  PROVE  Inv'
<1>1. /\ writer[w].pc = "write" /\ Busy(w) /\ UNCHANGED <<row, completer, doomed>>
      /\ Answer(w, FALSE) /\ disk' = disk \ {Part(w)} /\ mishaps \subseteq mishaps'
  BY DEF WriteBreaks, Turn, Busy, Mishap
<1>2. Holder(w) # w /\ File(w) # Part(w)
  BY <1>1, Names DEF Inv, Server, Writes, File, Part
<1> QED BY <1>1, <1>2, AnswerKept

LEMMA DropKept ==
  ASSUME Sized, Inv, NEW w \in Writers, Drop(w)
  PROVE  Inv'
<1>1. /\ writer[w].pc \in {"drop", "same"} /\ Busy(w)
      /\ UNCHANGED <<row, completer, doomed, mishaps>> /\ disk' = disk \ {File(w)}
      /\ \/ writer[w].pc = "drop" /\ Answer(w, FALSE)
         \/ writer[w].pc = "same" /\ Answer(w, TRUE)
  BY DEF Drop, Turn, Busy, counts
<1>2. /\ Holder(w) # w \/ "unheard" \in mishaps
      /\ writer[w].pc = "same" => Holder(w) # 0 \/ row[writer[w].session].status = "deleted"
  BY <1>1 DEF Inv, Server, Writes
<1>3. PICK ok \in BOOLEAN : Answer(w, ok) /\ (ok => writer[w].pc = "same")
  BY <1>1
<1> QED BY <1>1, <1>2, <1>3, AnswerKept

LEMMA RecordKept ==
  ASSUME Sized, Inv, NEW w \in Writers, Record(w) \/ RecordUnheard(w) \/ RecordFails(w)
  PROVE  Inv'
<1>1. /\ writer[w].pc = "record" /\ Busy(w) /\ Holder(w) # w
      /\ UNCHANGED <<completer, disk, doomed>> /\ mishaps \subseteq mishaps'
  BY DEF Record, RecordUnheard, RecordFails, Turn, Busy, counts, Mishap, Inv, Server, Writes
<1>2. PICK s \in Sessions, c \in Chunks : s = writer[w].session /\ c = writer[w].chunk
  BY <1>1, HandlerFacts DEF Inv
<1>3. CASE row' = row /\ \/ Step(w, "drop")
                         \/ Step(w, "same") /\ Holder(w) # 0
  BY <1>1, <1>3, StepKept
<1>4. CASE /\ Accepts(s) /\ row[s].chunk[c] = 0
           /\ row' = [row EXCEPT ![s].chunk[c] = w] /\ Answer(w, TRUE)
  <2>1. /\ writer' \in [Writers -> Handlers] /\ writer'[w] = Idle
        /\ \A v \in Writers : v # w => SameWork(v)
    BY <1>4, AnswerWork DEF Inv
  <2>2. Attends(w)' /\ writer'[w].pc = "idle"
    BY <2>1 DEF Attends, Busy, Idle
  <2>3. Server' /\ RowKept
    BY <1>1, <1>2, <1>4, <2>1, <2>2, RecordedKept DEF Inv
  <2>4. row'[s].chunk[c] = w
    <3>1. row \in [Sessions -> Rows] /\ row[s] \in Rows
      BY DEF Inv, Server, ServerTyped
    <3> QED BY <1>4, <3>1 DEF Rows
  <2>5. Browser'
    BY <1>1, <1>2, <1>4, <2>3, <2>4, AnswerHeard DEF Inv, Sized
  <2> QED BY <2>3, <2>5 DEF Inv
<1>5. CASE /\ Accepts(s) /\ row[s].chunk[c] = 0 /\ "unheard" \in mishaps'
           /\ row' = [row EXCEPT ![s].chunk[c] = w] /\ Step(w, "drop")
  <2>1. /\ writer' \in [Writers -> Handlers] /\ UNCHANGED clientVars
        /\ writer'[w].pc = "drop" /\ writer'[w].session = writer[w].session
        /\ writer'[w].chunk = writer[w].chunk
        /\ \A v \in Writers : v # w => SameWork(v)
        /\ \A v \in Writers : SameFor(v)
    BY <1>1, <1>5, StepWork DEF Inv
  <2>2. Attends(w)'
    <3>1. row \in [Sessions -> Rows] /\ row[s] \in Rows
      BY DEF Inv, Server, ServerTyped
    <3>2. row'[s].status = row[s].status
      BY <1>5, <3>1 DEF Rows
    <3>3. s # 0 /\ c # 0 /\ row[s].status = "open"
      BY <1>5 DEF Accepts, Sessions, Sized
    <3> QED BY <1>2, <2>1, <3>2, <3>3 DEF Attends
  <2>3. Server' /\ RowKept
    BY <1>1, <1>2, <1>5, <2>1, <2>2, RecordedKept DEF Inv
  <2>4. Browser'
    BY <2>1, <2>3, BrowserStays DEF Inv
  <2> QED BY <2>3, <2>4 DEF Inv
<1>6. CASE Record(w)
  BY <1>2, <1>3, <1>4, <1>6 DEF Record, Holder
<1>7. CASE RecordUnheard(w)
  BY <1>2, <1>5, <1>7 DEF RecordUnheard, Mishap
<1>8. CASE RecordFails(w)
  BY <1>3, <1>8 DEF RecordFails
<1> QED BY <1>6, <1>7, <1>8

-----------------------------------------------------------------------------
(* The steps of a session, maintenance and failures.                       *)

LEMMA WritersSame ==
  ASSUME Browser, writer' = writer
  PROVE  \A w \in Writers : SameWork(w) /\ SameFor(w)
BY DEF Browser, Answers, Busy, SameWork, SameFor

LEMMA ServerSame ==
  ASSUME Sized, Inv, UNCHANGED <<row, completer, disk, doomed, writer>>, mishaps \subseteq mishaps'
  PROVE  Server' /\ RowKept
<1>1. writer' \in [Writers -> Handlers] /\ \A w \in Writers : SameWork(w)
  BY WritersSame DEF Inv, Server, ServerTyped
<1>2. Server'
  BY <1>1, ServerStays DEF Inv
<1> QED BY <1>2 DEF RowKept

\* The requests of the entry are answered, or it does not wait for them any more.
Silent(t) == task[t].pc # "chunks" \/ task[t].aborted \/ Outstanding(t) = {}

LEMMA NobodyAnswers ==
  ASSUME Browser, NEW t \in Tasks, Silent(t)
  PROVE  \A w \in Writers : writer[w].for # 0 => writer[w].for # t
BY DEF Silent, Browser, Answers, At, Outstanding

LEMMA SettleKept ==
  ASSUME Sized, Inv, Server', RowKept, writer' = writer, NEW t \in Tasks,
         task[t].pc # "off", Silent(t), NEW how \in {"ok", "error", "cancelled"}, Settle(t, how)
  PROVE  Inv'
<1>1. task[t].state = "active"
  BY TaskSession DEF Inv
<1>2. writer' \in [Writers -> Handlers]
  BY DEF Inv, Server, ServerTyped
<1>3. \A w \in Writers : SameFor(w) /\ (writer'[w].for # 0 => writer[w].for # t)
  BY WritersSame, NobodyAnswers DEF Inv
<1>4. Browser'
  BY <1>1, <1>2, <1>3, Settles DEF Inv
<1> QED BY <1>4 DEF Inv

LEMMA SeenKept ==
  ASSUME Sized, Browser, RowKept, NEW t \in Tasks,
         task'[t].seen = task[t].seen, task'[t].session = task[t].session
  PROVE  /\ Acknowledged(t)'
         /\ task'[t].session # 0 => row'[task'[t].session].status # "none"
<1>1. /\ task[t].seen \subseteq Chunks /\ Acknowledged(t) /\ Consistent(t)
      /\ task[t].session # 0 => task[t].session \in Sessions
      /\ task[t].seen # {} => task[t].session # 0
  BY TaskSession DEF Runs, Browser
<1> QED BY <1>1 DEF Acknowledged, RowKept, Consistent

LEMMA GotoKept ==
  ASSUME Sized, Inv, Server', RowKept, writer' = writer, NEW t \in Tasks,
         task[t].pc \in {"reopen", "chunks", "await"}, Silent(t),
         NEW pc \in {"chunks", "await", "wiped"}, Goto(t, pc)
  PROVE  Inv'
<1>1. /\ task \in [Tasks -> Runs] /\ task[t] \in Runs /\ Consistent(t)
      /\ task' = [task EXCEPT ![t].pc = pc] /\ UNCHANGED <<line, paused>>
  BY DEF Inv, Browser, Goto
<1>2. /\ task'[t] \in Runs /\ task'[t].pc = pc /\ task'[t].state = task[t].state
      /\ task'[t].seen = task[t].seen /\ task'[t].session = task[t].session
      /\ \A u \in Tasks : u # t => task'[u] = task[u]
  BY <1>1 DEF Runs
<1>3. task' \in [Tasks -> Runs]
  BY <1>1, <1>2
<1>4. (Consistent(t) /\ Acknowledged(t))'
  <2>1. /\ Acknowledged(t)'
        /\ task'[t].session # 0 => row'[task'[t].session].status # "none"
    BY <1>2, SeenKept DEF Inv
  <2> QED BY <1>1, <1>2, <2>1 DEF Consistent
<1>5. \A w \in Writers : SameFor(w) /\ (writer'[w].for # 0 => writer[w].for # t)
  BY WritersSame, NobodyAnswers DEF Inv
<1>6. writer' \in [Writers -> Handlers]
  BY DEF Inv, Server, ServerTyped
<1>7. Browser'
  BY <1>1, <1>2, <1>3, <1>4, <1>5, <1>6, BrowserMoves DEF Inv
<1> QED BY <1>7 DEF Inv

\* What the browser does not notice.
LEMMA UnnoticedKept ==
  ASSUME Sized, Inv, Server', RowKept, writer' = writer, UNCHANGED clientVars
  PROVE  Inv'
<1>1. writer' \in [Writers -> Handlers]
  BY DEF Inv, Server, ServerTyped
<1>2. Browser'
  BY <1>1, WritersSame, BrowserStays DEF Inv
<1> QED BY <1>2 DEF Inv

LEMMA StatusChanges ==
  ASSUME Sized, Inv, NEW s \in Sessions, Going(s),
         NEW x \in {"open", "completing", "failed", "completed", "cancelled"},
         row' = [row EXCEPT ![s].status = x],
         IF x \in {"completed", "cancelled"} THEN doomed' = doomed \cup {s} ELSE doomed' = doomed,
         NEW r \in Completers, completer' = [completer EXCEPT ![s] = r],
         r.pc # "off" => x = "completing", UNCHANGED <<writer, disk>>, mishaps \subseteq mishaps'
  PROVE  Server' /\ RowKept
<1>1. completer \in [Sessions -> Completers] /\ writer' \in [Writers -> Handlers]
  BY DEF Inv, Server, ServerTyped
<1>2. /\ completer' \in [Sessions -> Completers] /\ completer'[s] = r
      /\ \A k \in Sessions : k # s => completer'[k] = completer[k]
  BY <1>1
<1>3. \A w \in Writers : SameWork(w)
  BY WritersSame DEF Inv
<1> QED BY <1>1, <1>2, <1>3, StatusKept DEF Inv

LEMMA CompleterFacts ==
  ASSUME Inv, NEW s \in Sessions
  PROVE  /\ completer[s] \in Completers /\ completer \in [Sessions -> Completers]
         /\ completer[s].pc # "off" => row[s].status = "completing"
         /\ completer = [completer EXCEPT ![s] = completer[s]]
         /\ [pc |-> "off", for |-> 0] \in Completers
<1>1. completer \in [Sessions -> Completers] /\ Sane(s)
  BY DEF Inv, Server, ServerTyped
<1> QED BY <1>1 DEF Sane, Completers

\* A completion ends, well or not.
LEMMA CompletedKept ==
  ASSUME Sized, Inv, NEW s \in Sessions, row[s].status = "completing",
         NEW x \in {"failed", "completed", "completing"}, NEW how \in {"ok", "error"}, Completed(s, x, how),
         IF x = "completed" THEN doomed' = doomed \cup {s} ELSE doomed' = doomed,
         UNCHANGED <<writer, disk>>, mishaps \subseteq mishaps'
  PROVE  Inv'
<1> DEFINE r == [pc |-> "off", for |-> 0]
<1>1. /\ row' = [row EXCEPT ![s].status = x] /\ completer' = [completer EXCEPT ![s] = r]
      /\ r \in Completers /\ r.pc = "off" /\ Going(s)
  BY CompleterFacts DEF Completed, Going
<1> HIDE DEF r
<1>2. Server' /\ RowKept
  BY <1>1, StatusChanges
<1>3. CASE UNCHANGED clientVars
  BY <1>2, <1>3, UnnoticedKept
<1>4. CASE completer[s].for # 0 /\ At(completer[s].for, "await") /\ Settle(completer[s].for, how)
  <2>1. PICK t \in Tasks : t = completer[s].for
    BY <1>4, CompleterFacts DEF Completers
  <2>2. Settle(t, how) /\ task[t].pc # "off" /\ Silent(t)
    BY <1>4, <2>1 DEF At, Silent
  <2> QED BY <1>2, <2>2, SettleKept
<1> QED BY <1>3, <1>4 DEF Completed

LEMMA MergeKept ==
  ASSUME Sized, Inv, NEW s \in Sessions, Merge(s)
  PROVE  Inv'
<1>1. /\ completer[s].pc = "merge" /\ row[s].status = "completing"
      /\ UNCHANGED <<writer, disk, doomed, mishaps>>
  BY CompleterFacts DEF Merge, counts
<1>2. CASE Completed(s, "failed", "error")
  BY <1>1, <1>2, CompletedKept
<1>3. CASE completer' = [completer EXCEPT ![s].pc = "commit"] /\ UNCHANGED <<row, clientVars>>
  <2> DEFINE r == [completer[s] EXCEPT !.pc = "commit"]
  <2>1. completer' = [completer EXCEPT ![s] = r] /\ r \in Completers
    BY <1>3, CompleterFacts DEF Completers
  <2> HIDE DEF r
  <2>2. row' = [row EXCEPT ![s].status = "completing"]
    <3>1. row \in [Sessions -> Rows] /\ row[s] \in Rows
      BY DEF Inv, Server, ServerTyped
    <3>2. row[s] = [row[s] EXCEPT !.status = "completing"]
      BY <1>1, <3>1 DEF Rows
    <3> QED BY <1>3, <3>1, <3>2
  <2>3. Server' /\ RowKept
    BY <1>1, <2>1, <2>2, StatusChanges DEF Going
  <2> QED BY <1>1, <1>3, <2>3, UnnoticedKept
<1> QED BY <1>2, <1>3 DEF Merge

LEMMA CommitKept ==
  ASSUME Sized, Inv, NEW s \in Sessions, Commit(s) \/ CommitFails(s)
  PROVE  Inv'
<1>1. row[s].status = "completing" /\ UNCHANGED <<writer, disk>> /\ mishaps \subseteq mishaps'
  BY CompleterFacts DEF Commit, CommitFails, Mishap, counts
<1>2. CASE Commit(s)
  BY <1>1, <1>2, CompletedKept DEF Commit
<1>3. CASE CommitFails(s)
  <2>1. PICK x \in {"failed", "completing"} : Completed(s, x, "error")
    BY <1>3 DEF CommitFails
  <2>2. doomed' = doomed
    BY <1>3 DEF CommitFails
  <2> QED BY <1>1, <2>1, <2>2, CompletedKept
<1> QED BY <1>2, <1>3

LEMMA ReconcileKept ==
  ASSUME Sized, Inv, NEW s \in Sessions, Reconcile(s)
  PROVE  Inv'
<1>1. UNCHANGED <<clientVars, row, writer, completer, disk, doomed, mishaps>>
  BY DEF Reconcile, counts
<1>2. Server' /\ RowKept
  BY <1>1, ServerSame
<1> QED BY <1>1, <1>2, UnnoticedKept

LEMMA RecoverKept ==
  ASSUME Sized, Inv, NEW s \in Sessions, Recover(s)
  PROVE  Inv'
<1>1. /\ row[s].status = "completing" /\ completer[s].pc = "off" /\ Going(s)
      /\ row' = [row EXCEPT ![s].status = "failed"]
      /\ UNCHANGED <<clientVars, writer, completer, disk, doomed, mishaps>>
  BY DEF Recover, counts, Going
<1>2. PICK r \in Completers : r = completer[s]
  BY CompleterFacts
<1>3. completer' = [completer EXCEPT ![s] = r] /\ r.pc = "off"
  BY <1>1, <1>2, CompleterFacts
<1>4. Server' /\ RowKept
  BY <1>1, <1>3, StatusChanges
<1> QED BY <1>1, <1>4, UnnoticedKept

LEMMA CancelRecoveredKept ==
  ASSUME Sized, Inv, NEW s \in Sessions, CancelRecovered(s)
  PROVE  Inv'
<1>1. /\ Going(s) /\ row[s].status # "completing"
      /\ row' = [row EXCEPT ![s].status = "cancelled"] /\ doomed' = doomed \cup {s}
      /\ UNCHANGED <<clientVars, writer, completer, disk, mishaps>>
  BY DEF CancelRecovered, Live, Going
<1>2. PICK r \in Completers : r = completer[s]
  BY CompleterFacts
<1>3. completer' = [completer EXCEPT ![s] = r] /\ r.pc = "off"
  BY <1>1, <1>2, CompleterFacts
<1>4. Server' /\ RowKept
  BY <1>1, <1>3, StatusChanges
<1> QED BY <1>1, <1>4, UnnoticedKept

LEMMA LockAgesKept ==
  ASSUME Sized, Inv, LockAges
  PROVE  Inv'
<1>1. UNCHANGED <<clientVars, row, writer, completer, disk, doomed, mishaps>>
  BY DEF LockAges, counts
<1>2. Server' /\ RowKept
  BY <1>1, ServerSame
<1> QED BY <1>1, <1>2, UnnoticedKept

LEMMA WipeKept ==
  ASSUME Sized, Inv, NEW s \in Sessions, Wipe(s)
  PROVE  Inv'
<1>1. /\ s \in doomed /\ doomed' = doomed \ {s} /\ disk' = {f \in disk : f[1] # s}
      /\ UNCHANGED <<clientVars, row, writer, completer, mishaps>>
  BY DEF Wipe, counts
<1>2. RowKept
  BY <1>1 DEF RowKept
<1>3. Sane(s) /\ row[s].status \in {"completed", "cancelled", "deleted"}
  BY <1>1 DEF Inv, Server, Sane
<1>4. ServerTyped' /\ \A k \in Sessions : Sane(k)'
  BY <1>1 DEF Inv, Server, ServerTyped, Sane
<1>5. WithinBudget'
  BY <1>1, BudgetKept DEF Inv, Server, Live
<1>6. ChunksAreThere'
  <2> SUFFICES ASSUME "unheard" \notin mishaps, NEW k \in Sessions, NEW c \in Chunks,
                      Live(k), row[k].chunk[c] # 0
               PROVE  <<k, c, row[k].chunk[c]>> \in disk'
    BY <1>1 DEF ChunksAreThere, Live
  <2>1. k # s
    BY <1>3 DEF Live
  <2>2. <<k, c, row[k].chunk[c]>> \in disk
    BY DEF Inv, Server, ChunksAreThere
  <2> QED BY <1>1, <2>1, <2>2
<1>7. ASSUME NEW w \in Writers PROVE (Attends(w) /\ Writes(w))'
  <2>1. Attends(w) /\ Writes(w)
    BY DEF Inv, Server
  <2>2. Attends(w)'
    BY <1>1, <2>1 DEF Attends, Busy
  <2>3. File(w) \in disk /\ Going(writer[w].session) => File(w) \in disk'
    BY <1>1, <1>3 DEF Going, File
  <2>4. Writes(w)'
    BY <1>1, <2>1, <2>3 DEF Writes, Holder, Going, File
  <2> QED BY <2>2, <2>4
<1>8. ASSUME NEW k \in Sessions, NEW c \in Chunks, NEW w \in Writers PROVE Belongs(k, c, w)'
  <2>1. Belongs(k, c, w)
    BY DEF Inv, Server
  <2>2. CASE k = s
    BY <1>1, <2>2 DEF Belongs
  <2>3. CASE k # s
    BY <1>1, <2>1, <2>3 DEF Belongs, On, Kept, Live
  <2> QED BY <2>2, <2>3
<1>9. Server'
  BY <1>4, <1>5, <1>6, <1>7, <1>8 DEF Server
<1> QED BY <1>1, <1>2, <1>9, UnnoticedKept

LEMMA ExpireKept ==
  ASSUME Sized, Inv, NEW s \in Sessions, Expire(s)
  PROVE  Inv'
<1>1. /\ Live(s) /\ row' = [row EXCEPT ![s].expired = TRUE] /\ mishaps \subseteq mishaps'
      /\ UNCHANGED <<clientVars, writer, completer, disk, doomed>>
  BY DEF Expire, Mishap
<1>2. row \in [Sessions -> Rows] /\ row[s] \in Rows
  BY DEF Inv, Server, ServerTyped
<1>3. /\ row'[s].status = row[s].status /\ row'[s].expired /\ row'[s].chunk = row[s].chunk
      /\ row'[s] \in Rows /\ \A k \in Sessions : k # s => row'[k] = row[k]
  BY <1>1, <1>2 DEF Rows
<1>4. \A k \in Sessions : row'[k].status = row[k].status /\ row'[k].chunk = row[k].chunk
  BY <1>3
<1>5. RowKept
  BY <1>4 DEF RowKept
<1>6. ServerTyped'
  BY <1>1, <1>2, <1>3 DEF Inv, Server, ServerTyped
<1>7. ASSUME NEW k \in Sessions
      PROVE  Sane(k)' /\ (Live(k)' => Live(k)) /\ (Kept(k) => Kept(k)')
  <2>1. Sane(k)
    BY DEF Inv, Server
  <2>2. CASE k = s
    BY <1>1, <1>3, <2>1, <2>2 DEF Sane, Live, Kept
  <2>3. CASE k # s
    BY <1>1, <1>3, <2>1, <2>3 DEF Sane, Live, Kept
  <2> QED BY <2>2, <2>3
<1>8. WithinBudget'
  BY <1>7, BudgetKept DEF Inv, Server
<1>9. ChunksAreThere'
  BY <1>1, <1>4, <1>7 DEF Inv, Server, ChunksAreThere
<1>10. ASSUME NEW w \in Writers PROVE (Attends(w) /\ Writes(w))'
  <2>1. Attends(w) /\ Writes(w)
    BY DEF Inv, Server
  <2>2. CASE Busy(w)
    <3>1. PICK k \in Sessions : k = writer[w].session
      BY <2>2, HandlerFacts DEF Inv
    <3>2. row'[k].status = row[k].status /\ row'[k].chunk = row[k].chunk
      BY <1>4
    <3>3. Attends(w)'
      BY <1>1, <2>1, <3>1, <3>2 DEF Attends, Busy
    <3>4. Writes(w)'
      BY <1>1, <2>1, <3>1, <3>2 DEF Writes, Holder, File, Going
    <3> QED BY <3>3, <3>4
  <2>3. CASE ~Busy(w)
    BY <1>1, <2>3 DEF Attends, Writes, Busy
  <2> QED BY <2>2, <2>3
<1>11. ASSUME NEW k \in Sessions, NEW c \in Chunks, NEW w \in Writers PROVE Belongs(k, c, w)'
  <2>1. Belongs(k, c, w)
    BY DEF Inv, Server
  <2> QED BY <1>1, <1>4, <1>7, <2>1 DEF Belongs, On
<1>12. Server'
  BY <1>6, <1>7, <1>8, <1>9, <1>10, <1>11 DEF Server
<1> QED BY <1>1, <1>5, <1>12, UnnoticedKept

LEMMA DeleteExpiredKept ==
  ASSUME Sized, Inv, NEW s \in Sessions, DeleteExpired(s)
  PROVE  Inv'
<1>1. /\ row[s].status \in {"open", "failed", "cancelled"}
      /\ row' = [row EXCEPT ![s].status = "deleted", ![s].chunk = [c \in Chunks |-> 0]]
      /\ doomed' = doomed \cup {s}
      /\ UNCHANGED <<clientVars, writer, completer, disk, mishaps>>
  BY DEF DeleteExpired, counts
<1>2. row \in [Sessions -> Rows] /\ row[s] \in Rows
  BY DEF Inv, Server, ServerTyped
<1>3. /\ row'[s].status = "deleted" /\ \A c \in Chunks : row'[s].chunk[c] = 0
      /\ row'[s] \in Rows /\ \A k \in Sessions : k # s => row'[k] = row[k]
  BY <1>1, <1>2 DEF Rows
<1>4. RowKept
  BY <1>3 DEF RowKept
<1>5. ServerTyped'
  BY <1>1, <1>2, <1>3 DEF Inv, Server, ServerTyped
<1>6. ASSUME NEW k \in Sessions
      PROVE  Sane(k)' /\ (Live(k)' => Live(k) /\ k # s)
  <2>1. Sane(k)
    BY DEF Inv, Server
  <2>2. CASE k = s
    BY <1>1, <1>3, <2>1, <2>2 DEF Sane, Live
  <2>3. CASE k # s
    BY <1>1, <1>3, <2>1, <2>3 DEF Sane, Live
  <2> QED BY <2>2, <2>3
<1>7. WithinBudget'
  BY <1>6, BudgetKept DEF Inv, Server
<1>8. ChunksAreThere'
  <2> SUFFICES ASSUME "unheard" \notin mishaps, NEW k \in Sessions, NEW c \in Chunks,
                      Live(k)', row'[k].chunk[c] # 0
               PROVE  <<k, c, row'[k].chunk[c]>> \in disk
    BY <1>1 DEF ChunksAreThere
  <2>1. Live(k) /\ row'[k] = row[k]
    BY <1>3, <1>6
  <2> QED BY <2>1 DEF Inv, Server, ChunksAreThere
<1>9. ASSUME NEW w \in Writers PROVE (Attends(w) /\ Writes(w))'
  <2>1. Attends(w) /\ Writes(w)
    BY DEF Inv, Server
  <2>2. CASE Busy(w)
    <3>1. PICK k \in Sessions, c \in Chunks : k = writer[w].session /\ c = writer[w].chunk
      BY <2>2, HandlerFacts DEF Inv
    <3>2. CASE k = s
      <4>1. w # 0
        BY DEF Sized
      <4>2. Holder(w)' = 0 /\ row'[writer[w].session].status = "deleted"
        BY <1>1, <1>3, <3>1, <3>2 DEF Holder
      <4> QED BY <1>1, <2>1, <4>1, <4>2 DEF Attends, Busy, Writes, Going
    <3>3. CASE k # s
      <4>1. row'[k] = row[k]
        BY <1>3, <3>3
      <4> QED BY <1>1, <2>1, <3>1, <4>1 DEF Attends, Busy, Writes, Going, Holder, File
    <3> QED BY <3>2, <3>3
  <2>3. CASE ~Busy(w)
    BY <1>1, <2>3 DEF Attends, Writes, Busy
  <2> QED BY <2>2, <2>3
<1>10. ASSUME NEW k \in Sessions, NEW c \in Chunks, NEW w \in Writers PROVE Belongs(k, c, w)'
  <2>1. Belongs(k, c, w)
    BY DEF Inv, Server
  <2>2. CASE k = s
    BY <1>1, <1>3, <2>1, <2>2 DEF Belongs, On
  <2>3. CASE k # s
    <3>1. row'[k] = row[k]
      BY <1>3, <2>3
    <3> QED BY <1>1, <2>1, <2>3, <3>1 DEF Belongs, On, Kept, Live
  <2> QED BY <2>2, <2>3
<1>11. Server'
  BY <1>5, <1>6, <1>7, <1>8, <1>9, <1>10 DEF Server
<1> QED BY <1>1, <1>4, <1>11, UnnoticedKept

LEMMA CrashKept ==
  ASSUME Sized, Inv, Crash
  PROVE  Inv'
<1>1. /\ writer' = [w \in Writers |-> Idle] /\ completer' = [s \in Sessions |-> [pc |-> "off", for |-> 0]]
      /\ doomed' = {} /\ UNCHANGED <<line, paused, row, disk>>
      /\ mishaps \subseteq mishaps' /\ "crash" \in mishaps'
      /\ task' = [t \in Tasks |-> IF Outstanding(t) # {} \/ At(t, "await")
                                  THEN [task[t] EXCEPT !.failed = TRUE, !.pc = "chunks"] ELSE task[t]]
  BY DEF Crash, Mishap
<1>2. RowKept
  BY <1>1 DEF RowKept
<1>3. ServerTyped'
  <2>1. Idle \in Handlers /\ [pc |-> "off", for |-> 0] \in Completers
    BY DEF Idle, Handlers, Completers, Sized
  <2> QED BY <1>1, <2>1 DEF Inv, Server, ServerTyped
<1>4. \A s \in Sessions : Sane(s)'
  BY <1>1 DEF Inv, Server, Sane
<1>5. WithinBudget' /\ ChunksAreThere'
  <2>1. WithinBudget'
    BY <1>1, BudgetKept DEF Inv, Server, Live
  <2>2. ChunksAreThere'
    BY <1>1 DEF Inv, Server, ChunksAreThere, Live
  <2> QED BY <2>1, <2>2
<1>6. \A w \in Writers : (Attends(w) /\ Writes(w) /\ Answers(w))'
  BY <1>1 DEF Idle, Attends, Writes, Answers, Busy
<1>7. \A s \in Sessions, c \in Chunks, w \in Writers : Belongs(s, c, w)'
  BY <1>1 DEF Belongs
<1>8. ASSUME NEW t \in Tasks
      PROVE  /\ task'[t] \in Runs /\ task'[t].state = task[t].state
             /\ (Consistent(t) /\ Acknowledged(t))'
  <2>1. task[t] \in Runs /\ Consistent(t)
    BY DEF Inv, Browser
  <2>2. CASE task'[t] = task[t]
    <3>1. Unmoved(t)
      BY <2>2 DEF Unmoved
    <3> QED BY <1>2, <2>1, <2>2, <3>1, UnmovedKept DEF Inv
  <2>3. CASE /\ Outstanding(t) # {} \/ At(t, "await")
             /\ task'[t] = [task[t] EXCEPT !.failed = TRUE, !.pc = "chunks"]
    <3>1. /\ task'[t] \in Runs /\ task'[t].state = task[t].state /\ task'[t].pc = "chunks"
          /\ task'[t].seen = task[t].seen /\ task'[t].session = task[t].session
      BY <2>1, <2>3 DEF Runs
    <3>2. task[t].pc \in {"chunks", "await"}
      <4>1. Outstanding(t) # {} => task[t].pc = "chunks"
        BY DEF Outstanding, Inv, Browser, Answers, At, Sized
      <4> QED BY <2>3, <4>1 DEF At
    <3>3. /\ Acknowledged(t)'
          /\ task'[t].session # 0 => row'[task'[t].session].status # "none"
      BY <1>2, <3>1, SeenKept DEF Inv
    <3> QED BY <2>1, <3>1, <3>2, <3>3 DEF Consistent
  <2> QED BY <1>1, <2>2, <2>3
<1>9. task' \in [Tasks -> Runs]
  BY <1>1, <1>8
<1>10. Places'
  BY <1>1, <1>8, <1>9, PlacesKept DEF Inv, Browser
<1> QED BY <1>3, <1>4, <1>5, <1>6, <1>7, <1>8, <1>9, <1>10 DEF Inv, Server, Browser

-----------------------------------------------------------------------------
(* The steps of the client.                                                *)

\* A command or an early end of the entry that leaves the server alone.
LEMMA SettleOnly ==
  ASSUME Sized, Inv, UNCHANGED <<row, completer, disk, doomed, writer>>, mishaps \subseteq mishaps',
         NEW t \in Tasks, task[t].pc # "off", Silent(t),
         NEW how \in {"ok", "error", "cancelled"}, Settle(t, how)
  PROVE  Inv'
<1>1. Server' /\ RowKept
  BY ServerSame
<1> QED BY <1>1, SettleKept

\* The entry ends as its session is reserved.
LEMMA OpenedAndOver ==
  ASSUME Sized, Inv, NEW t \in Tasks, task[t].pc = "init", NEW s \in Fresh, Affordable, Opened(s),
         UNCHANGED <<completer, disk, doomed, writer>>, mishaps \subseteq mishaps',
         NEW how \in {"error", "cancelled"}, Settle(t, how)
  PROVE  Inv'
<1>1. Server' /\ RowKept
  BY OpenedKept DEF Inv
<1> QED BY <1>1, SettleKept DEF Silent

LEMMA InitSessionKept ==
  ASSUME Sized, Inv, NEW t \in Tasks, InitSession(t)
  PROVE  Inv'
<1>1. /\ task[t].pc = "init" /\ UNCHANGED <<line, paused, writer, completer, disk, doomed, mishaps>>
  BY DEF InitSession, At, counts
<1>2. PICK s \in Fresh : /\ Affordable /\ Opened(s)
                         /\ task' = [task EXCEPT ![t].session = s, ![t].pc = "chunks"]
  BY DEF InitSession
<1>3. Server' /\ RowKept /\ row'[s].status # "none" /\ s \in Sessions
  BY <1>1, <1>2, OpenedKept DEF Inv, Fresh
<1>4. /\ task \in [Tasks -> Runs] /\ task[t] \in Runs /\ Consistent(t) /\ task[t].seen = {}
      /\ s \in 0 .. MaxSessions /\ s # 0
  BY <1>1, <1>3 DEF Inv, Browser, Consistent, Sessions, Sized
<1>5. /\ task'[t] \in Runs /\ task'[t].pc = "chunks" /\ task'[t].state = task[t].state
      /\ task'[t].seen = {} /\ task'[t].session = s
      /\ \A u \in Tasks : u # t => task'[u] = task[u]
  BY <1>2, <1>4 DEF Runs
<1>6. task' \in [Tasks -> Runs]
  BY <1>2, <1>4, <1>5
<1>7. (Consistent(t) /\ Acknowledged(t))'
  BY <1>1, <1>3, <1>4, <1>5 DEF Consistent, Acknowledged
<1>8. \A w \in Writers : SameFor(w) /\ (writer'[w].for # 0 => writer[w].for # t)
  BY <1>1, WritersSame, NobodyAnswers DEF Inv, Silent
<1>9. writer' \in [Writers -> Handlers]
  BY <1>1 DEF Inv, Server, ServerTyped
<1>10. Browser'
  BY <1>1, <1>3, <1>5, <1>6, <1>7, <1>8, <1>9, BrowserMoves DEF Inv
<1> QED BY <1>3, <1>10 DEF Inv

LEMMA InitEndsKept ==
  ASSUME Sized, Inv, NEW t \in Tasks, InitRefused(t) \/ InitUnheard(t) \/ AbortEarly(t)
  PROVE  Inv'
<1>1. CASE InitRefused(t)
  <2>1. /\ task[t].pc = "init" /\ Settle(t, "error")
        /\ UNCHANGED <<row, completer, disk, doomed, writer, mishaps>>
    BY <1>1 DEF InitRefused, At, serverVars, counts
  <2> QED BY <2>1, SettleOnly DEF Silent
<1>2. CASE InitUnheard(t)
  <2>1. /\ task[t].pc = "init" /\ Settle(t, "error") /\ mishaps \subseteq mishaps'
        /\ UNCHANGED <<completer, disk, doomed, writer>>
        /\ \E s \in Fresh : Affordable /\ Opened(s)
    BY <1>2 DEF InitUnheard, At, Mishap
  <2> QED BY <2>1, OpenedAndOver
<1>3. CASE AbortEarly(t)
  <2>1. /\ task[t].pc \in {"init", "list", "reopen"} /\ Settle(t, "cancelled")
        /\ UNCHANGED <<completer, disk, doomed, writer, mishaps>>
    BY <1>3 DEF AbortEarly, counts
  <2>2. CASE task[t].pc = "init" /\ (\E s \in Fresh : Affordable /\ Opened(s))
    BY <2>1, <2>2, OpenedAndOver
  <2>3. CASE UNCHANGED row
    BY <2>1, <2>3, SettleOnly DEF Silent
  <2> QED BY <1>3, <2>2, <2>3 DEF AbortEarly
<1> QED BY <1>1, <1>2, <1>3

LEMMA ListSessionsKept ==
  ASSUME Sized, Inv, NEW t \in Tasks, ListSessions(t)
  PROVE  Inv'
<1>1. /\ task[t].pc = "list" /\ UNCHANGED <<row, completer, disk, doomed, writer, mishaps>>
  BY DEF ListSessions, At, serverVars, counts
<1>2. CASE Settle(t, "error")
  BY <1>1, <1>2, SettleOnly DEF Silent
<1>3. ASSUME NEW pc \in {"reopen", "chunks"}, UNCHANGED <<line, paused>>,
             task' = [task EXCEPT ![t].pc = pc, ![t].asked = Recorded(task[t].session),
                                  ![t].seen = Recorded(task[t].session)]
      PROVE  Inv'
  <2> DEFINE R == Recorded(task[t].session)
  <2>1. R \subseteq Chunks /\ \A c \in R : row[task[t].session].chunk[c] # 0
    BY DEF Recorded
  <2> HIDE DEF R
  <2>2. /\ task \in [Tasks -> Runs] /\ task[t] \in Runs /\ Consistent(t)
    BY DEF Inv, Browser
  <2>3. /\ task'[t] \in Runs /\ task'[t].pc = pc /\ task'[t].state = task[t].state
        /\ task'[t].seen = R /\ task'[t].session = task[t].session
        /\ \A u \in Tasks : u # t => task'[u] = task[u]
    BY <1>3, <2>1, <2>2 DEF Runs, R
  <2>4. task' \in [Tasks -> Runs]
    BY <1>3, <2>2, <2>3
  <2>5. Consistent(t)'
    BY <1>1, <2>2, <2>3 DEF Consistent
  <2>6. Acknowledged(t)'
    BY <1>1, <2>1, <2>3 DEF Acknowledged
  <2>7. \A w \in Writers : SameFor(w) /\ (writer'[w].for # 0 => writer[w].for # t)
    BY <1>1, WritersSame, NobodyAnswers DEF Inv, Silent
  <2>8. writer' \in [Writers -> Handlers]
    BY <1>1 DEF Inv, Server, ServerTyped
  <2>9. Server' /\ RowKept
    BY <1>1, ServerSame
  <2>10. Browser'
    BY <1>3, <2>3, <2>4, <2>5, <2>6, <2>7, <2>8, <2>9, BrowserMoves DEF Inv
  <2> QED BY <2>9, <2>10 DEF Inv
<1>4. \/ Settle(t, "error")
      \/ /\ UNCHANGED <<line, paused>>
         /\ \E pc \in {"reopen", "chunks"} :
              task' = [task EXCEPT ![t].pc = pc, ![t].asked = Recorded(task[t].session),
                                   ![t].seen = Recorded(task[t].session)]
  BY DEF ListSessions
<1> QED BY <1>2, <1>3, <1>4

LEMMA ReopenKept ==
  ASSUME Sized, Inv, NEW t \in Tasks, Reopen(t)
  PROVE  Inv'
<1>1. /\ task[t].pc = "reopen" /\ Silent(t) /\ UNCHANGED <<completer, disk, doomed, writer, mishaps>>
  BY DEF Reopen, At, Silent, counts
<1>2. CASE UNCHANGED row /\ Settle(t, "error")
  BY <1>1, <1>2, SettleOnly
<1>3. CASE /\ row[task[t].session].status = "failed" /\ Goto(t, "chunks")
           /\ row' = [row EXCEPT ![task[t].session].status = "open"]
  <2>1. PICK s \in Sessions : s = task[t].session
    BY <1>1, TaskSession DEF Inv, Browser, Consistent
  <2>2. PICK r \in Completers : r = completer[s]
    BY CompleterFacts
  <2>3. completer' = [completer EXCEPT ![s] = r] /\ r.pc = "off"
    BY <1>1, <1>3, <2>1, <2>2, CompleterFacts
  <2>4. Server' /\ RowKept
    BY <1>1, <1>3, <2>1, <2>3, StatusChanges DEF Going
  <2> QED BY <1>1, <1>3, <2>4, GotoKept
<1> QED BY <1>2, <1>3 DEF Reopen

LEMMA CompleteKept ==
  ASSUME Sized, Inv, NEW t \in Tasks, Complete(t)
  PROVE  Inv'
<1>1. /\ task[t].pc = "chunks" /\ Silent(t) /\ UNCHANGED <<writer, disk, doomed, mishaps>>
  BY DEF Complete, At, Silent, counts
<1>2. ASSUME NEW how \in {"ok", "error"}, UNCHANGED <<row, completer>>, Settle(t, how)
      PROVE  Inv'
  BY <1>1, <1>2, SettleOnly
<1>3. CASE /\ row[task[t].session].status = "open" /\ Goto(t, "await")
           /\ row' = [row EXCEPT ![task[t].session].status = "completing"]
           /\ completer' = [completer EXCEPT ![task[t].session] = [pc |-> "merge", for |-> t]]
  <2>1. PICK s \in Sessions : s = task[t].session
    BY <1>1, TaskSession DEF Inv, Browser, Consistent
  <2>2. PICK r \in Completers : r = [pc |-> "merge", for |-> t]
    BY DEF Completers
  <2>3. Server' /\ RowKept
    BY <1>1, <1>3, <2>1, <2>2, StatusChanges DEF Going
  <2> QED BY <1>1, <1>3, <2>3, GotoKept
<1>4. \/ UNCHANGED <<row, completer>> /\ (Settle(t, "ok") \/ Settle(t, "error"))
      \/ /\ row[task[t].session].status = "open" /\ Goto(t, "await")
         /\ row' = [row EXCEPT ![task[t].session].status = "completing"]
         /\ completer' = [completer EXCEPT ![task[t].session] = [pc |-> "merge", for |-> t]]
  BY DEF Complete
<1> QED BY <1>2, <1>3, <1>4

LEMMA AskCancelKept ==
  ASSUME Sized, Inv, NEW t \in Tasks, AskCancel(t) \/ AskCancelFails(t)
  PROVE  Inv'
<1>1. /\ task[t].pc \in {"chunks", "await"} /\ Silent(t) /\ task[t].pc # "off"
      /\ UNCHANGED <<completer, disk, writer>> /\ mishaps \subseteq mishaps'
  BY DEF AskCancel, AskCancelFails, Silent, serverVars, counts, Mishap
<1>2. ASSUME NEW how \in {"error", "cancelled"}, UNCHANGED <<row, doomed>>, Settle(t, how)
      PROVE  Inv'
  BY <1>1, <1>2, SettleOnly
<1>3. CASE /\ row[task[t].session].status \in {"open", "failed"} /\ Goto(t, "wiped")
           /\ row' = [row EXCEPT ![task[t].session].status = "cancelled"]
           /\ doomed' = doomed \cup {task[t].session}
  <2>1. PICK s \in Sessions : s = task[t].session
    BY <1>1, TaskSession DEF Inv, Browser, Consistent
  <2>2. PICK r \in Completers : r = completer[s]
    BY CompleterFacts
  <2>3. completer' = [completer EXCEPT ![s] = r] /\ r.pc = "off"
    BY <1>1, <1>3, <2>1, <2>2, CompleterFacts
  <2>4. Server' /\ RowKept
    BY <1>1, <1>3, <2>1, <2>3, StatusChanges DEF Going
  <2> QED BY <1>1, <1>3, <2>4, GotoKept
<1>4. \/ UNCHANGED <<row, doomed>> /\ (Settle(t, "cancelled") \/ Settle(t, "error"))
      \/ /\ row[task[t].session].status \in {"open", "failed"} /\ Goto(t, "wiped")
         /\ row' = [row EXCEPT ![task[t].session].status = "cancelled"]
         /\ doomed' = doomed \cup {task[t].session}
  BY DEF AskCancel, AskCancelFails, serverVars
<1> QED BY <1>2, <1>3, <1>4

LEMMA GivesUpKept ==
  ASSUME Sized, Inv, NEW t \in Tasks, GiveUp(t) \/ CancelAnswered(t)
  PROVE  Inv'
<1>1. CASE GiveUp(t)
  <2>1. /\ task[t].pc = "chunks" /\ Silent(t) /\ Settle(t, "error")
        /\ UNCHANGED <<row, completer, disk, doomed, writer, mishaps>>
    BY <1>1 DEF GiveUp, At, Silent, serverVars, counts
  <2> QED BY <2>1, SettleOnly
<1>2. CASE CancelAnswered(t)
  <2>1. /\ task[t].pc = "wiped" /\ Silent(t) /\ Settle(t, "cancelled")
        /\ UNCHANGED <<row, completer, disk, doomed, writer, mishaps>>
    BY <1>2 DEF CancelAnswered, Silent, serverVars, counts
  <2> QED BY <2>1, SettleOnly
<1> QED BY <1>1, <1>2

\* A handler that was idle begins with a chunk.
LEMMA BegunHandler ==
  ASSUME Sized, Server, NEW w \in Writers, writer[w].pc = "idle",
         NEW h \in Handlers, h.pc = "queue", h.session # 0, h.chunk # 0,
         row[h.session].status # "none", writer' = [writer EXCEPT ![w] = h],
         UNCHANGED <<row, completer, disk, doomed, mishaps>>
  PROVE  Server' /\ RowKept
<1>1. writer \in [Writers -> Handlers]
  BY DEF Server, ServerTyped
<1>2. /\ writer' \in [Writers -> Handlers] /\ writer'[w] = h
      /\ \A v \in Writers : v # w => writer'[v] = writer[v]
  BY <1>1
<1>3. ServerTyped' /\ (\A s \in Sessions : Sane(s)') /\ ChunksAreThere'
  BY <1>2 DEF Server, ServerTyped, Sane, ChunksAreThere, Live
<1>4. WithinBudget'
  BY BudgetKept DEF Server, Live
<1>5. ASSUME NEW v \in Writers PROVE (Attends(v) /\ Writes(v))'
  <2>1. CASE v = w
    BY <1>2, <2>1 DEF Attends, Writes
  <2>2. CASE v # w
    <3>1. Attends(v) /\ Writes(v) /\ writer'[v] = writer[v]
      BY <1>2, <2>2 DEF Server
    <3> QED BY <3>1 DEF Attends, Writes, Busy, Holder, File, Going
  <2> QED BY <2>1, <2>2
<1>6. ASSUME NEW s \in Sessions, NEW c \in Chunks, NEW v \in Writers PROVE Belongs(s, c, v)'
  <2>1. Belongs(s, c, v)
    BY DEF Server
  <2>2. CASE v = w
    BY <1>2, <2>1, <2>2 DEF Belongs, On, Kept, Live
  <2>3. CASE v # w
    BY <1>2, <2>1, <2>3 DEF Belongs, On, Kept, Live
  <2> QED BY <2>2, <2>3
<1> QED BY <1>3, <1>4, <1>5, <1>6 DEF Server, RowKept

LEMMA AskKept ==
  ASSUME Sized, Inv, NEW t \in Tasks, Ask(t)
  PROVE  Inv'
<1>1. /\ At(t, "chunks") /\ UNCHANGED <<line, paused, row, completer, disk, doomed, mishaps>>
  BY DEF Ask, counts
<1> DEFINE s == task[t].session
<1>2. PICK next \in Chunks \ task[t].asked, w \in Writers :
        /\ writer[w].pc = "idle"
        /\ writer' = [writer EXCEPT ![w] =
             [pc |-> "queue", session |-> s, chunk |-> next, for |-> t,
              after |-> IF Last(s, next) = {} THEN 0 ELSE CHOOSE v \in Last(s, next) : TRUE]]
        /\ task' = [task EXCEPT ![t].asked = @ \cup {next}]
  BY DEF Ask
<1> DEFINE a == IF Last(s, next) = {} THEN 0 ELSE CHOOSE v \in Last(s, next) : TRUE
           h == [pc |-> "queue", session |-> s, chunk |-> next, for |-> t, after |-> a]
<1>3. /\ task \in [Tasks -> Runs] /\ task[t] \in Runs /\ Consistent(t) /\ t # 0
      /\ s # 0 /\ s \in 0 .. MaxSessions /\ row[s].status # "none"
  BY <1>1 DEF Inv, Browser, Consistent, At, Runs, Sized
<1>4. a \in Writers \cup {0}
  <2>1. Last(s, next) \subseteq Writers
    BY DEF Last
  <2> QED BY <2>1
<1> HIDE DEF a
<1>5. next \in Chunks /\ next # 0 /\ task[t].asked \subseteq Chunks
  BY <1>2, <1>3 DEF Sized, Runs
<1>6. /\ h \in Handlers /\ h.pc = "queue" /\ h.session = s /\ h.chunk # 0 /\ h.for = t
      /\ writer' = [writer EXCEPT ![w] = h]
  BY <1>2, <1>3, <1>4, <1>5 DEF Handlers, a
<1> HIDE DEF h
<1>7. Server' /\ RowKept
  BY <1>1, <1>2, <1>3, <1>6, BegunHandler DEF Inv
<1>8. /\ writer \in [Writers -> Handlers] /\ writer' \in [Writers -> Handlers] /\ writer'[w] = h
      /\ \A v \in Writers : v # w => writer'[v] = writer[v]
  BY <1>6 DEF Inv, Server, ServerTyped
<1>9. /\ task'[t] \in Runs /\ task'[t].pc = task[t].pc /\ task'[t].state = task[t].state
      /\ task'[t].seen = task[t].seen /\ task'[t].session = s /\ task'[t].aborted = task[t].aborted
      /\ \A u \in Tasks : u # t => task'[u] = task[u]
  BY <1>2, <1>3, <1>5 DEF Runs
<1>10. task' \in [Tasks -> Runs]
  BY <1>2, <1>3, <1>9
<1>11. (Consistent(t) /\ Acknowledged(t))'
  <2>1. Acknowledged(t)' /\ (task'[t].session # 0 => row'[task'[t].session].status # "none")
    BY <1>7, <1>9, SeenKept DEF Inv
  <2> QED BY <1>3, <1>9, <2>1 DEF Consistent
<1>12. ASSUME NEW v \in Writers
       PROVE  \/ SameFor(v) /\ (writer'[v].for # 0 => writer[v].for # t)
              \/ Answers(v)'
  <2>1. CASE v = w
    BY <1>1, <1>6, <1>8, <1>9, <2>1 DEF Answers, Busy, At
  <2>2. CASE v # w /\ writer[v].for = t
    <3>1. writer'[v] = writer[v] /\ Answers(v)
      BY <1>8, <2>2 DEF Inv, Browser
    <3> QED BY <1>9, <2>2, <3>1 DEF Answers, Busy, At
  <2>3. CASE v # w /\ writer[v].for # t
    <3>1. writer'[v] = writer[v] /\ Answers(v)
      BY <1>8, <2>3 DEF Inv, Browser
    <3> QED BY <2>3, <3>1 DEF Answers, Busy, SameFor
  <2> QED BY <2>1, <2>2, <2>3
<1>13. Browser'
  BY <1>1, <1>7, <1>8, <1>9, <1>10, <1>11, <1>12, BrowserMoves DEF Inv
<1> QED BY <1>7, <1>13 DEF Inv

-----------------------------------------------------------------------------
(* The commands of the user.                                               *)

LEMMA WaitingKept ==
  ASSUME Sized, Inv, NEW t \in Tasks, task[t].state \in {"new", "settled"},
         NEW session \in 0 .. MaxSessions, session # 0 => row[session].status # "none",
         Waiting(t, session), UNCHANGED <<serverVars, mishaps>>
  PROVE  Inv'
<1> DEFINE r  == [NewTask EXCEPT !.state = "pending", !.session = session]
           ts == [task EXCEPT ![t] = r]
           q  == Append(line, t)
<1>1. /\ task \in [Tasks -> Runs] /\ Listed(line, task) /\ paused \in BOOLEAN
      /\ Cardinality(Active(task)) <= Concurrency
  BY DEF Inv, Browser, Places, PlacesAreUsed
<1>2. /\ r \in Runs /\ r.state = "pending" /\ r.seen = {} /\ r.session = session /\ r.pc = "off"
  BY DEF NewTask, Runs
<1>3. Pump(ts, q, paused)
  BY DEF Waiting
<1> HIDE DEF r
<1>4. ts \in [Tasks -> Runs] /\ ts[t] = r /\ \A u \in Tasks : u # t => ts[u] = task[u]
  BY <1>1, <1>2
<1> HIDE DEF ts
<1>5. Listed(q, ts)
  <2>1. /\ line \in Seq(Tasks) /\ \A i \in 1 .. Len(line) : line[i] \in Tasks /\ line[i] # t
    BY <1>1 DEF Listed
  <2>2. /\ q \in Seq(Tasks) /\ Len(q) = Len(line) + 1 /\ q[Len(line) + 1] = t
        /\ \A i \in 1 .. Len(line) : q[i] = line[i]
    BY <2>1
  <2>3. \A i \in 1 .. Len(q) : i \in 1 .. Len(line) \/ i = Len(line) + 1
    BY <2>1, <2>2
  <2> HIDE DEF q
  <2>4. \A i, j \in 1 .. Len(q) : q[i] = q[j] => i = j
    BY <1>1, <2>1, <2>2, <2>3 DEF Listed
  <2>5. \A i \in 1 .. Len(q) : ts[q[i]].state = "pending"
    BY <1>1, <1>2, <1>4, <2>1, <2>2, <2>3 DEF Listed
  <2> QED BY <2>2, <2>4, <2>5 DEF Listed
<1>6. Active(ts) = Active(task)
  BY <1>2, <1>4 DEF Active
<1>7. \A u \in Tasks : ts[u].state = "pending" => ts[u].seen = {}
  <2>1. ASSUME NEW u \in Tasks, u # t, ts[u].state = "pending" PROVE ts[u].seen = {}
    BY <1>4, <2>1, TaskSession DEF Inv
  <2> QED BY <1>2, <1>4, <2>1
<1> HIDE DEF q
<1>8. /\ Places' /\ task' \in [Tasks -> Runs]
      /\ \A u \in Tasks : \/ task'[u] = ts[u]
                          \/ ts[u].state = "pending" /\ task'[u] = Begun(ts[u])
  BY <1>1, <1>3, <1>4, <1>5, <1>6, <1>7, Pumped
<1>9. UNCHANGED <<row, writer, completer, disk, doomed, mishaps>>
  BY DEF serverVars
<1>10. Server' /\ RowKept
  BY <1>9, ServerSame
<1>11. \A u \in Tasks : u \notin {t} => Unmoved(u)
  BY <1>4, <1>8 DEF Unmoved
<1>12. (Consistent(t) /\ Acknowledged(t))'
  <2>1. \/ task'[t] = r
        \/ /\ task'[t].state = "active" /\ task'[t].session = session
           /\ task'[t].seen = {} /\ task'[t].pc \in {"init", "list"}
           /\ task'[t].pc = "list" => session # 0
    BY <1>2, <1>4, <1>8, BegunIsRun
  <2>2. session # 0 => row'[session].status # "none"
    BY <1>9
  <2> QED BY <1>2, <2>1, <2>2 DEF Consistent, Acknowledged
<1>13. \A w \in Writers : SameFor(w) /\ (writer'[w].for # 0 => writer[w].for \notin {t})
  <2>1. Silent(t)
    BY TaskSession DEF Inv, Silent
  <2> QED BY <1>9, <2>1, WritersSame, NobodyAnswers DEF Inv
<1>14. writer' \in [Writers -> Handlers]
  BY <1>9 DEF Inv, Server, ServerTyped
<1>15. Browser'
  BY <1>8, <1>10, <1>11, <1>12, <1>13, <1>14, BrowserKept DEF Inv
<1> QED BY <1>10, <1>15 DEF Inv

LEMMA EnqueueKept ==
  ASSUME Sized, Inv, NEW t \in Tasks, Enqueue(t) \/ Retry(t)
  PROVE  Inv'
<1>1. task[t].state \in {"new", "settled"} /\ UNCHANGED <<serverVars, mishaps>>
  BY DEF Enqueue, Retry, Command
<1>2. \E session \in 0 .. MaxSessions : /\ session # 0 => row[session].status # "none"
                                        /\ Waiting(t, session)
  <2>1. CASE Enqueue(t)
    <3>1. 0 \in 0 .. MaxSessions /\ \A s \in Sessions : s \in 0 .. MaxSessions
      BY DEF Sized, Sessions
    <3> QED BY <2>1, <3>1 DEF Enqueue, Live
  <2>2. CASE Retry(t)
    <3>1. task[t].session \in 0 .. MaxSessions /\ Consistent(t)
      BY DEF Inv, Browser, Runs
    <3> QED BY <2>2, <3>1 DEF Retry, Consistent
  <2> QED BY <2>1, <2>2
<1> QED BY <1>1, <1>2, WaitingKept

LEMMA PauseKept ==
  ASSUME Sized, Inv, Pause \/ Resume
  PROVE  Inv'
<1>1. /\ Pump(task, line, TRUE) \/ Pump(task, line, FALSE)
      /\ UNCHANGED <<row, writer, completer, disk, doomed, mishaps>>
  BY DEF Pause, Resume, Command, serverVars
<1>2. /\ task \in [Tasks -> Runs] /\ Listed(line, task) /\ Cardinality(Active(task)) <= Concurrency
  BY DEF Inv, Browser, Places, PlacesAreUsed
<1>3. \A t \in Tasks : task[t].state = "pending" => task[t].seen = {}
  BY TaskSession DEF Inv
<1>4. /\ Places' /\ task' \in [Tasks -> Runs]
      /\ \A t \in Tasks : Unmoved(t)
  BY <1>1, <1>2, <1>3, Pumped DEF Unmoved
<1>5. Server' /\ RowKept
  BY <1>1, ServerSame
<1>6. writer' \in [Writers -> Handlers] /\ \A w \in Writers : SameFor(w)
  BY <1>1, WritersSame DEF Inv, Server, ServerTyped
<1>7. Browser'
  BY <1>4, <1>5, <1>6, BrowserNone DEF Inv
<1> QED BY <1>5, <1>7 DEF Inv

\* The entry leaves the line, the others keep their order.
LEMMA SplicedListed ==
  ASSUME NEW q \in Seq(Tasks), \A i, j \in 1 .. Len(q) : q[i] = q[j] => i = j, NEW t
  PROVE  /\ Spliced(q, t) \in Seq(Tasks)
         /\ \A i, j \in 1 .. Len(Spliced(q, t)) : Spliced(q, t)[i] = Spliced(q, t)[j] => i = j
         /\ \A i \in 1 .. Len(Spliced(q, t)) :
              Spliced(q, t)[i] # t /\ \E j \in 1 .. Len(q) : Spliced(q, t)[i] = q[j]
         /\ Spliced(q, t) # <<>> => q # <<>>
<1> DEFINE places == {i \in 1 .. Len(q) : q[i] = t}
           r      == Spliced(q, t)
<1>1. CASE places = {}
  BY <1>1 DEF Spliced
<1>2. CASE places # {}
  <2>1. PICK k \in 1 .. Len(q) : places = {k} /\ q[k] = t
    BY <1>2
  <2>2. (CHOOSE i \in places : \A j \in places : i <= j) = k
    BY <2>1
  <2> DEFINE a == SubSeq(q, 1, k - 1)  b == SubSeq(q, k + 1, Len(q))
  <2>3. r = a \o b
    BY <1>2, <2>2 DEF Spliced
  <2>4. /\ Len(q) \in Nat /\ k \in Nat /\ k >= 1 /\ k <= Len(q)
        /\ a \in Seq(Tasks) /\ Len(a) = k - 1 /\ \A i \in 1 .. k - 1 : a[i] = q[i]
    OBVIOUS
  <2>5. /\ b \in Seq(Tasks) /\ Len(b) = Len(q) - k
        /\ \A i \in 1 .. Len(q) - k : b[i] = q[k + i]
    BY <2>4
  <2> HIDE DEF a, b, r
  <2>6. r \in Seq(Tasks) /\ Len(r) = Len(q) - 1
    BY <2>3, <2>4, <2>5
  <2>7. \A i \in 1 .. Len(r) : r[i] = IF i < k THEN q[i] ELSE q[i + 1]
    <3>1. ASSUME NEW i \in 1 .. Len(r), i < k PROVE r[i] = q[i]
      BY <2>3, <2>4, <2>5, <2>6, <3>1
    <3>2. ASSUME NEW i \in 1 .. Len(r), ~(i < k) PROVE r[i] = q[i + 1]
      <4>1. r[i] = b[i - Len(a)]
        BY <2>3, <2>4, <2>5, <2>6, <3>2
      <4>2. i - (k - 1) \in 1 .. Len(q) - k /\ k + (i - (k - 1)) = i + 1
        BY <2>4, <2>6, <3>2
      <4> QED BY <2>4, <2>5, <4>1, <4>2
    <3> QED BY <3>1, <3>2
  <2>8. ASSUME NEW i \in 1 .. Len(r)
        PROVE  \E j \in 1 .. Len(q) : j # k /\ r[i] = q[j] /\ j = (IF i < k THEN i ELSE i + 1)
    BY <2>4, <2>6, <2>7
  <2>9. \A i, j \in 1 .. Len(r) : r[i] = r[j] => i = j
    BY <2>4, <2>6, <2>8
  <2>10. \A i \in 1 .. Len(r) : r[i] # t
    BY <2>1, <2>8
  <2>11. q # <<>>
    BY <2>4
  <2> QED BY <2>6, <2>8, <2>9, <2>10, <2>11 DEF r
<1> QED BY <1>1, <1>2

\* Entries are cancelled: the ones that wait leave the line q.
LEMMA CancelTasksKept ==
  ASSUME Sized, Inv, NEW ts, NEW q \in Seq(Tasks), NEW p \in BOOLEAN, CancelTasks(ts, q, p),
         \A i, j \in 1 .. Len(q) : q[i] = q[j] => i = j,
         \A i \in 1 .. Len(q) : q[i] \notin ts /\ task[q[i]].state = "pending",
         q # <<>> /\ ~p => line # <<>> /\ ~paused
  PROVE  Inv'
<1>1. /\ task' = [t \in Tasks |-> IF t \in ts THEN Cancelled(task[t]) ELSE task[t]]
      /\ line' = q /\ paused' = p /\ Unheard(ts)
      /\ UNCHANGED <<row, completer, disk, doomed, mishaps>>
  BY DEF CancelTasks
<1>2. writer \in [Writers -> Handlers] /\ task \in [Tasks -> Runs]
  BY DEF Inv, Server, ServerTyped, Browser
<1>3. ASSUME NEW w \in Writers
      PROVE  /\ writer'[w] \in Handlers /\ SameWork(w)
             /\ writer'[w].for = IF writer[w].for \in ts THEN 0 ELSE writer[w].for
  BY <1>1, <1>2 DEF Unheard, Handlers, SameWork
<1>4. writer' \in [Writers -> Handlers]
  <2>1. writer' = [w \in Writers |-> writer'[w]]
    BY <1>1 DEF Unheard
  <2> QED BY <1>3, <2>1
<1>5. RowKept
  BY <1>1 DEF RowKept
<1>6. Server'
  BY <1>1, <1>3, <1>4, ServerStays DEF Inv
<1>7. ASSUME NEW t \in Tasks
      PROVE  /\ task'[t] \in Runs
             /\ t \notin ts => task'[t] = task[t]
             /\ task'[t].seen = task[t].seen /\ task'[t].session = task[t].session
             /\ task'[t].pc = task[t].pc
             /\ task[t].state = "active" <=> task'[t].state = "active"
  <2>1. task[t] \in Runs
    BY <1>2
  <2>2. CASE task[t].state = "pending"
    BY <1>1, <2>1, <2>2 DEF Cancelled, Runs
  <2>3. CASE task[t].state = "active"
    BY <1>1, <2>1, <2>3 DEF Cancelled, Runs
  <2>4. CASE task[t].state \notin {"pending", "active"}
    BY <1>1, <2>1, <2>4 DEF Cancelled
  <2> QED BY <2>2, <2>3, <2>4
<1>8. task' \in [Tasks -> Runs]
  BY <1>1, <1>7
<1>9. Places'
  <2>1. Listed(line, task)'
    <3>1. \A i \in 1 .. Len(q) : q[i] \in Tasks
      OBVIOUS
    <3> QED BY <1>1, <1>7, <3>1 DEF Listed
  <2>2. Active(task)' = Active(task)
    BY <1>7 DEF Active
  <2>3. PlacesAreUsed'
    BY <1>1, <2>2 DEF PlacesAreUsed, Inv, Browser, Places
  <2> QED BY <1>1, <2>1, <2>3 DEF Places
<1>10. \A t \in Tasks : t \notin ts => Unmoved(t)
  BY <1>7 DEF Unmoved
<1>11. ASSUME NEW t \in Tasks PROVE (Consistent(t) /\ Acknowledged(t))'
  <2>1. Acknowledged(t)' /\ (task'[t].session # 0 => row'[task'[t].session].status # "none")
    BY <1>5, <1>7, SeenKept DEF Inv
  <2>2. Consistent(t)
    BY DEF Inv, Browser
  <2> QED BY <1>7, <2>1, <2>2 DEF Consistent
<1>12. ASSUME NEW w \in Writers
       PROVE  SameFor(w) /\ (writer'[w].for # 0 => writer[w].for \notin ts)
  <2>1. Answers(w)
    BY DEF Inv, Browser
  <2> QED BY <1>3, <2>1 DEF SameFor, SameWork, Answers, Busy
<1>13. Browser'
  BY <1>4, <1>5, <1>8, <1>9, <1>10, <1>11, <1>12, BrowserKept DEF Inv
<1> QED BY <1>6, <1>13 DEF Inv

LEMMA CancelKept ==
  ASSUME Sized, Inv, NEW t \in Tasks, Cancel(t)
  PROVE  Inv'
<1>1. Listed(line, task) /\ paused \in BOOLEAN
  BY DEF Inv, Browser, Places
<1>2. CASE task[t].state = "pending"
  <2> DEFINE q == Spliced(line, t)
  <2>1. CancelTasks({t}, q, paused)
    BY <1>2 DEF Cancel
  <2>2. /\ q \in Seq(Tasks)
        /\ \A i, j \in 1 .. Len(q) : q[i] = q[j] => i = j
        /\ \A i \in 1 .. Len(q) : q[i] # t /\ \E j \in 1 .. Len(line) : q[i] = line[j]
        /\ q # <<>> => line # <<>>
    BY <1>1, SplicedListed DEF Listed
  <2> HIDE DEF q
  <2>3. \A i \in 1 .. Len(q) : q[i] \notin {t} /\ task[q[i]].state = "pending"
    BY <1>1, <2>2 DEF Listed
  <2> QED BY <1>1, <2>1, <2>2, <2>3, CancelTasksKept
<1>3. CASE task[t].state # "pending"
  <2>1. CancelTasks({t}, line, paused)
    BY <1>3 DEF Cancel
  <2>2. /\ line \in Seq(Tasks)
        /\ \A i, j \in 1 .. Len(line) : line[i] = line[j] => i = j
        /\ \A i \in 1 .. Len(line) : line[i] \notin {t} /\ task[line[i]].state = "pending"
    BY <1>1, <1>3 DEF Listed
  <2> QED BY <1>1, <2>1, <2>2, CancelTasksKept
<1> QED BY <1>2, <1>3

LEMMA ResetKept ==
  ASSUME Sized, Inv, Reset
  PROVE  Inv'
<1>1. CancelTasks(Tasks, <<>>, FALSE)
  BY DEF Reset
<1> DEFINE q == <<>>
<1>2. q \in Seq(Tasks) /\ Len(q) = 0 /\ q = <<>>
  OBVIOUS
<1>3. CancelTasks(Tasks, q, FALSE)
  BY <1>1
<1> HIDE DEF q
<1>4. \A i \in 1 .. Len(q) : q[i] \notin Tasks /\ task[q[i]].state = "pending"
  BY <1>2
<1>5. \A i, j \in 1 .. Len(q) : q[i] = q[j] => i = j
  BY <1>2
<1> QED BY <1>2, <1>3, <1>4, <1>5, CancelTasksKept

-----------------------------------------------------------------------------
(* The theorem.                                                            *)

LEMMA NextKept ==
  ASSUME Sized, Inv, [Next]_vars
  PROVE  Inv'
<1>1. CASE UNCHANGED vars
  <2>1. UNCHANGED <<row, completer, disk, doomed, writer, mishaps, clientVars>>
    BY <1>1 DEF vars, clientVars
  <2>2. Server' /\ RowKept
    BY <2>1, ServerSame
  <2> QED BY <2>1, <2>2, UnnoticedKept
<1>2. ASSUME NEW t \in Tasks, Client(t) PROVE Inv'
  BY <1>2, InitSessionKept, InitEndsKept, ListSessionsKept, ReopenKept, AskKept, CompleteKept,
     AskCancelKept, GivesUpKept DEF Client
<1>3. ASSUME NEW w \in Writers, Handler(w) PROVE Inv'
  BY <1>3, CheckKept, OpenLockKept, WritePartKept, WriteBreaksKept, RecordKept, DropKept DEF Handler
<1>4. ASSUME NEW s \in Sessions, Session(s) PROVE Inv'
  BY <1>4, MergeKept, CommitKept, WipeKept DEF Session
<1>5. CASE Progress
  BY <1>2, <1>3, <1>4, <1>5, LockAgesKept DEF Progress
<1>6. ASSUME NEW t \in Tasks, Enqueue(t) \/ Retry(t) \/ Cancel(t) \/ InitUnheard(t) \/ AskCancelFails(t)
      PROVE  Inv'
  BY <1>6, EnqueueKept, CancelKept, InitEndsKept, AskCancelKept
<1>7. ASSUME NEW w \in Writers, RecordUnheard(w) \/ RecordFails(w) PROVE Inv'
  BY <1>7, RecordKept
<1>8. ASSUME NEW s \in Sessions, CancelRecovered(s) \/ CommitFails(s) \/ Expire(s) \/ Maintenance(s) PROVE Inv'
  BY <1>8, CancelRecoveredKept, CommitKept, ExpireKept, ReconcileKept, DeleteExpiredKept, RecoverKept DEF Maintenance
<1>9. CASE Reset \/ Pause \/ Resume \/ Crash
  BY <1>9, ResetKept, PauseKept, CrashKept
<1> QED BY <1>1, <1>5, <1>6, <1>7, <1>8, <1>9 DEF Next

\* Whatever the browser and the handlers do, and whatever fails: the chunks the table lists are
\* there, the budget holds, acknowledged chunks are recorded, nothing is left over, and the places
\* of the queue are used.
THEOREM UploadsAreSound == ASSUME Sized PROVE Spec => []Sound
<1>1. Init => Inv
  BY Start
<1>2. Inv /\ [Next]_vars => Inv'
  BY NextKept
<1>3. Inv => Sound
  BY InvSound
<1> QED BY <1>1, <1>2, <1>3, PTL DEF Spec
====
