----------------------------- MODULE TelegramProofs -----------------------------
(***************************************************************************)
(* What the parts of MCTelegram keep: the files of a chat are seen to,     *)
(* each delivery of an album ends once, what a write leaves is in its      *)
(* journal, a file that counts as stored is stored, a client of storage    *)
(* tells the truth of its upload, the range of a job that counts as done   *)
(* was listed, and sign-in is in order, that of the bot and that of the    *)
(* web.  A behaviour of MCTelegram is one of its part, so that each part   *)
(* has an invariant of its own, and none can be reached from another.      *)
(***************************************************************************)
EXTENDS MCTelegram, WellFoundedInduction, FiniteSetTheorems, TLAPS

-----------------------------------------------------------------------------
(* The albums of a chat.  In their part the variables have other names.    *)

Statuses == {"none", "pending", "queued"} \cup C!Ended
Albums   == [exists : BOOLEAN, started : BOOLEAN, armed : BOOLEAN, late : BOOLEAN, files : SUBSET Items]
Runs     == [pc : {"off", "take", "admit", "enqueue", "wait"}, snapshot : SUBSET Items]
Places   == {"sent", "clear", "join", "silence", "notice", "rest", "finalize", "conclude", "done"}

ChatTyped == /\ v1 \in Albums
             /\ v2 \in [Items -> Statuses]
             /\ v3 \in Runs
             /\ v5 \in Nat /\ v9 \in Nat
             /\ v7 \in [Items -> [pc : Places, seen : Nat]]

\* An album that takes part has its processor, and one that is gone has no files.
Manned == /\ v1.started => v3.pc # "off"
          /\ ~v1.exists => v1.files = {}

\* Until a delivery has joined its album the queue does not know it.
Unknown(i) == v7[i].pc \in {"sent", "clear", "join"} => v2[i] = "none"

\* What the processor is about to queue waits still.
StillWaits == v3.pc \in {"admit", "enqueue"} => \A i \in v3.snapshot : v2[i] = "pending"

ChatInv == /\ ChatTyped /\ Manned /\ StillWaits
           /\ \A i \in Items : Unknown(i)
           /\ C!ChatAttended

LEMMA ChatStarts == C!Init => ChatInv
<1> SUFFICES ASSUME C!Init PROVE ChatInv
  OBVIOUS
<1>1. ChatTyped
  BY DEF C!Init, C!NoAlbum, C!Asleep, ChatTyped, Albums, Runs, Places, Statuses
<1>2. Manned /\ StillWaits
  BY DEF C!Init, C!NoAlbum, C!Asleep, Manned, StillWaits
<1>3. C!ChatAttended /\ \A i \in Items : Unknown(i)
  BY DEF C!Init, C!ChatAttended, C!Attended, C!CardWorks, Unknown
<1> QED BY <1>1, <1>2, <1>3 DEF ChatInv

\* A handler that goes to another point.
LEMMA Gone ==
  ASSUME ChatTyped, NEW i \in Items, NEW a \in Places, C!Goto(i, a)
  PROVE  /\ v7' \in [Items -> [pc : Places, seen : Nat]]
         /\ v7'[i].pc = a
         /\ \A k \in Items \ {i} : v7'[k] = v7[k]
BY DEF ChatTyped, C!Goto

\* What a delivery does before and after it joins its album leaves album, queue and processor alone.
LEMMA Aside ==
  ASSUME ChatInv, UNCHANGED <<v1, v2, v3>>, v5' \in Nat, v9' \in Nat, C!CardWorks',
         NEW i \in Items, NEW a \in Places, C!Goto(i, a),
         a \in {"sent", "clear", "join"} => v7[i].pc \in {"sent", "clear", "join"}
  PROVE  ChatInv' /\ C!OnceStep
<1>1. ChatTyped' /\ Manned' /\ StillWaits'
  BY Gone DEF ChatInv, ChatTyped, Manned, StillWaits
<1>2. \A k \in Items : Unknown(k)'
  BY Gone DEF ChatInv, Unknown
<1>3. C!Attended' /\ C!OnceStep
  BY DEF ChatInv, C!ChatAttended, C!Attended, C!OnceStep
<1> QED BY <1>1, <1>2, <1>3 DEF ChatInv, C!ChatAttended

LEMMA ReceiveKeeps ==
  ASSUME ChatInv, NEW i \in Items, C!Receive(i) PROVE ChatInv' /\ C!OnceStep
<1>1. CASE C!Arrive(i)
  <2>1. v5' \in Nat /\ v9' \in Nat /\ C!CardWorks' /\ UNCHANGED <<v1, v2, v3>>
    BY <1>1 DEF C!Arrive, C!EndSession, ChatInv, ChatTyped, C!ChatAttended, C!CardWorks
  <2>2. v7[i].pc = "sent" /\ \E a \in {"clear", "join"} : C!Goto(i, a)
    BY <1>1 DEF C!Arrive
  <2>3. {"clear", "join"} \subseteq Places
    BY DEF Places
  <2> QED BY <2>1, <2>2, <2>3, Aside
<1>2. CASE C!Clear(i)
  <2>1. v5' \in Nat /\ v9' \in Nat /\ C!CardWorks' /\ UNCHANGED <<v1, v2, v3>> /\ v7[i].pc = "clear" /\ C!Goto(i, "join")
    BY <1>2 DEF C!Clear, ChatInv, ChatTyped, C!ChatAttended, C!CardWorks
  <2>2. "join" \in Places
    BY DEF Places
  <2> QED BY <2>1, <2>2, Aside
<1>3. CASE C!Join(i)
  <2>1. /\ v7[i].pc = "join"
        /\ v1' = [v1 EXCEPT !.exists = TRUE, !.armed = TRUE, !.files = v1.files \cup {i}, !.late = @ \/ ~v1.exists]
        /\ v2' = [v2 EXCEPT ![i] = "pending"]
        /\ UNCHANGED <<v3, v5, v6, v9>>
        /\ \E a \in {"notice", "silence", "rest"} : C!Goto(i, a)
    BY <1>3 DEF C!Join
  <2>2. v1' \in Albums /\ v1'.exists /\ v1'.armed /\ v1'.files = v1.files \cup {i} /\ v1'.started = v1.started
    BY <2>1 DEF ChatInv, ChatTyped, Albums
  <2>3. v2[i] = "none" /\ v2' \in [Items -> Statuses] /\ v2'[i] = "pending" /\ \A k \in Items \ {i} : v2'[k] = v2[k]
    BY <2>1 DEF ChatInv, ChatTyped, Unknown, Statuses
  <2>4. PICK a \in {"notice", "silence", "rest"} : C!Goto(i, a)
    BY <2>1
  <2>5. a \in Places
    BY DEF Places
  <2>6. /\ v7' \in [Items -> [pc : Places, seen : Nat]]
        /\ v7'[i].pc = a
        /\ \A k \in Items \ {i} : v7'[k] = v7[k]
    BY <2>4, <2>5, Gone DEF ChatInv
  <2>7. ChatTyped'
    BY <2>1, <2>2, <2>3, <2>6 DEF ChatInv, ChatTyped
  <2>8. Manned' /\ StillWaits'
    BY <2>1, <2>2, <2>3 DEF ChatInv, ChatTyped, Manned, StillWaits, Runs
  <2>9. \A k \in Items : Unknown(k)'
    BY <2>3, <2>6 DEF ChatInv, Unknown
  <2>10. C!ChatAttended'
    BY <2>1, <2>2, <2>3 DEF ChatInv, C!ChatAttended, C!Attended, C!CardWorks
  <2>11. C!OnceStep
    BY <2>3 DEF C!OnceStep, C!Ended
  <2> QED BY <2>7, <2>8, <2>9, <2>10, <2>11 DEF ChatInv
<1>4. CASE C!Silence(i)
  <2>1. v5' \in Nat /\ v9' \in Nat /\ C!CardWorks' /\ UNCHANGED <<v1, v2, v3>> /\ C!Goto(i, "notice")
    BY <1>4 DEF C!Silence, ChatInv, ChatTyped, C!CardWorks
  <2>2. "notice" \in Places
    BY DEF Places
  <2> QED BY <2>1, <2>2, Aside
<1>5. CASE C!Notice(i)
  <2>1. v5' \in Nat /\ v9' \in Nat /\ C!CardWorks' /\ UNCHANGED <<v1, v2, v3>> /\ C!Goto(i, "rest")
    BY <1>5 DEF C!Notice, ChatInv, ChatTyped, C!ChatAttended, C!CardWorks
  <2>2. "rest" \in Places
    BY DEF Places
  <2> QED BY <2>1, <2>2, Aside
<1> QED BY <1>1, <1>2, <1>3, <1>4, <1>5 DEF C!Receive

LEMMA FinishKeeps ==
  ASSUME ChatInv, NEW i \in Items, C!Finish(i) PROVE ChatInv' /\ C!OnceStep
<1>1. PICK st \in C!Ended : v2' = [v2 EXCEPT ![i] = st]
  BY DEF C!Finish
<1>2. v2[i] = "queued" /\ v7[i].pc = "rest" /\ UNCHANGED <<v1, v3, v5, v6, v9>>
  BY DEF C!Finish
<1>3. v2' \in [Items -> Statuses] /\ v2'[i] \in C!Ended /\ \A k \in Items \ {i} : v2'[k] = v2[k]
  BY <1>1 DEF ChatInv, ChatTyped, Statuses
<1>4. PICK a \in {"done", "finalize"} : C!Goto(i, a)
  BY DEF C!Finish
<1>5. a \in Places
  BY DEF Places
<1>6. /\ v7' \in [Items -> [pc : Places, seen : Nat]]
      /\ v7'[i].pc = a
      /\ \A k \in Items \ {i} : v7'[k] = v7[k]
  BY <1>4, <1>5, Gone DEF ChatInv
<1>7. ChatTyped' /\ Manned'
  BY <1>2, <1>3, <1>6 DEF ChatInv, ChatTyped, Manned
<1>8. StillWaits'
  BY <1>2, <1>3 DEF ChatInv, ChatTyped, Runs, StillWaits
<1>9. \A k \in Items : Unknown(k)'
  BY <1>3, <1>6 DEF ChatInv, Unknown
<1>10. C!ChatAttended'
  BY <1>2, <1>3 DEF ChatInv, C!ChatAttended, C!Attended, C!CardWorks, C!Ended
<1>11. C!OnceStep
  BY <1>2, <1>3 DEF C!OnceStep, C!Ended
<1> QED BY <1>7, <1>8, <1>9, <1>10, <1>11 DEF ChatInv

LEMMA ConclusionKeeps ==
  ASSUME ChatInv, NEW i \in Items, C!Conclusion(i) PROVE ChatInv' /\ C!OnceStep
<1>1. CASE C!Finalize(i)
  <2>1. /\ v7[i].pc = "finalize" /\ UNCHANGED <<v1, v2, v3, v5, v6, v9>>
        /\ \E a \in {"conclude", "done"} : v7' = [v7 EXCEPT ![i].pc = a, ![i].seen = v5]
    BY <1>1 DEF C!Finalize
  <2>2. PICK a \in {"conclude", "done"} : v7' = [v7 EXCEPT ![i].pc = a, ![i].seen = v5]
    BY <2>1
  <2>3. a \in Places
    BY DEF Places
  <2>4. /\ v7' \in [Items -> [pc : Places, seen : Nat]]
        /\ v7'[i].pc = a
        /\ \A k \in Items \ {i} : v7'[k] = v7[k]
    BY <2>2, <2>3 DEF ChatInv, ChatTyped
  <2>5. ChatTyped' /\ Manned' /\ StillWaits'
    BY <2>1, <2>4 DEF ChatInv, ChatTyped, Manned, StillWaits
  <2>6. \A k \in Items : Unknown(k)'
    BY <2>1, <2>4 DEF ChatInv, Unknown
  <2>7. C!ChatAttended' /\ C!OnceStep
    BY <2>1 DEF ChatInv, C!ChatAttended, C!Attended, C!CardWorks, C!OnceStep
  <2> QED BY <2>5, <2>6, <2>7 DEF ChatInv
<1>2. CASE C!Conclude(i)
  <2>1. v5' \in Nat /\ v9' \in Nat /\ C!CardWorks' /\ UNCHANGED <<v1, v2, v3>> /\ C!Goto(i, "done")
    BY <1>2 DEF C!Conclude, C!EndSession, ChatInv, ChatTyped, C!CardWorks
  <2>2. "done" \in Places
    BY DEF Places
  <2> QED BY <2>1, <2>2, Aside
<1> QED BY <1>1, <1>2 DEF C!Conclusion

\* A step that leaves the handlers and the queue alone.
LEMMA QueueAlone ==
  ASSUME ChatInv, UNCHANGED <<v2, v7, v9>>, v5' \in Nat, v1' \in Albums, v3' \in Runs,
         Manned', StillWaits', C!ChatAttended'
  PROVE  ChatInv' /\ C!OnceStep
BY DEF ChatInv, ChatTyped, Unknown, C!OnceStep

LEMMA TimersKeep ==
  ASSUME ChatInv, C!Fire \/ C!Flush PROVE ChatInv' /\ C!OnceStep
<1>1. UNCHANGED <<v2, v5, v6, v7, v9>> /\ v1 \in Albums /\ v3 \in Runs /\ v5 \in Nat
  BY DEF C!Fire, C!Flush, ChatInv, ChatTyped
<1>2. CASE C!Fire
  <2>1. CASE v1.exists /\ ~v1.started
    <3>1. v1' = [v1 EXCEPT !.armed = FALSE, !.started = TRUE] /\ v3' = [pc |-> "take", snapshot |-> {}]
      BY <1>2, <2>1 DEF C!Fire
    <3>2. v1' \in Albums /\ v3' \in Runs /\ v1'.files = v1.files /\ v1'.exists
      BY <1>1, <2>1, <3>1 DEF Albums, Runs
    <3>3. Manned' /\ StillWaits' /\ C!ChatAttended'
      BY <1>1, <3>1, <3>2 DEF ChatInv, Manned, StillWaits, C!ChatAttended, C!Attended, C!CardWorks
    <3> QED BY <1>1, <3>2, <3>3, QueueAlone
  <2>2. CASE ~(v1.exists /\ ~v1.started)
    <3>1. v1' = [v1 EXCEPT !.armed = FALSE] /\ v3' = v3
      BY <1>2, <2>2 DEF C!Fire
    <3>2. v1' \in Albums /\ v1'.files = v1.files /\ v1'.exists = v1.exists /\ v1'.started = v1.started
      BY <1>1, <3>1 DEF Albums
    <3>3. Manned' /\ StillWaits' /\ C!ChatAttended'
      BY <1>1, <2>2, <3>1, <3>2 DEF ChatInv, Manned, StillWaits, C!ChatAttended, C!Attended, C!CardWorks
    <3> QED BY <1>1, <3>1, <3>2, <3>3, QueueAlone
  <2> QED BY <2>1, <2>2
<1>3. CASE C!Flush
  <2>1. /\ v1' = [v1 EXCEPT !.late = FALSE, !.armed = FALSE, !.started = v1.armed]
        /\ v3' = IF v1.armed THEN [pc |-> "take", snapshot |-> {}] ELSE v3
    BY <1>3 DEF C!Flush
  <2>2. v1' \in Albums /\ v1'.files = v1.files /\ v1'.exists = v1.exists /\ v1'.started = v1.armed
    BY <1>1, <2>1 DEF Albums
  <2>3. v3' \in Runs
    BY <1>1, <2>1 DEF Runs
  <2>4. Manned' /\ StillWaits' /\ C!ChatAttended'
    BY <1>1, <2>1, <2>2 DEF ChatInv, Manned, StillWaits, C!ChatAttended, C!Attended, C!CardWorks
  <2> QED BY <1>1, <2>2, <2>3, <2>4, QueueAlone
<1> QED BY <1>2, <1>3

\* Who is known to wait is of the album.
LEMMA AllWaiting ==
  ASSUME ChatInv, C!Waiting = {} PROVE \A i \in Items : v2[i] # "pending"
BY DEF ChatInv, C!ChatAttended, C!Attended, C!Waiting

LEMMA TakeKeeps ==
  ASSUME ChatInv, C!Take PROVE ChatInv' /\ C!OnceStep
<1>1. UNCHANGED <<v2, v5, v6, v7, v9>> /\ v1 \in Albums /\ v3 \in Runs /\ v5 \in Nat
  BY DEF C!Take, ChatInv, ChatTyped
<1>2. CASE C!Waiting = {}
  <2>1. v1' = C!NoAlbum /\ v3' = C!Asleep
    BY <1>2 DEF C!Take
  <2>2. v1' \in Albums /\ v3' \in Runs /\ ~v1'.started /\ v1'.files = {} /\ v3'.pc = "off"
    BY <2>1 DEF Albums, Runs, C!NoAlbum, C!Asleep
  <2>3. Manned' /\ StillWaits' /\ C!ChatAttended'
    BY <1>1, <1>2, <2>2, AllWaiting DEF ChatInv, Manned, StillWaits, C!ChatAttended, C!Attended, C!CardWorks
  <2> QED BY <1>1, <2>2, <2>3, QueueAlone
<1>3. CASE C!Waiting # {}
  <2>1. v1' = v1 /\ v3' = [pc |-> "admit", snapshot |-> C!Snapshot]
    BY <1>3 DEF C!Take
  <2>2. \A i \in C!Snapshot : i \in Items /\ v2[i] = "pending"
    BY <1>1 DEF C!Snapshot, C!Waiting, Albums
  <2>3. v3' \in Runs
    BY <2>1, <2>2 DEF Runs
  <2>4. Manned' /\ StillWaits' /\ C!ChatAttended'
    BY <1>1, <2>1, <2>2 DEF ChatInv, Manned, StillWaits, C!ChatAttended, C!Attended, C!CardWorks
  <2> QED BY <1>1, <2>1, <2>3, <2>4, QueueAlone
<1> QED BY <1>2, <1>3

LEMMA ProcessorKeeps ==
  ASSUME ChatInv, C!Refused \/ C!Admit \/ C!Settled PROVE ChatInv' /\ C!OnceStep
<1>1. UNCHANGED <<v2, v7, v9>> /\ v1 \in Albums /\ v3 \in Runs /\ v5 \in Nat
  BY DEF C!Refused, C!Admit, C!Settled, ChatInv, ChatTyped
<1>2. CASE C!Refused
  <2>1. v1' = [v1 EXCEPT !.started = FALSE, !.armed = TRUE] /\ v3' = C!Asleep /\ UNCHANGED <<v5, v6>>
    BY <1>2 DEF C!Refused
  <2>2. v1' \in Albums /\ v3' \in Runs /\ ~v1'.started /\ v1'.armed /\ v1'.files = v1.files
        /\ v1'.exists = v1.exists /\ v3'.pc = "off"
    BY <1>1, <2>1 DEF Albums, Runs, C!Asleep
  <2>3. Manned' /\ StillWaits' /\ C!ChatAttended'
    BY <1>1, <2>1, <2>2 DEF ChatInv, Manned, StillWaits, C!ChatAttended, C!Attended, C!CardWorks
  <2> QED BY <1>1, <2>1, <2>2, <2>3, QueueAlone
<1>3. CASE C!Admit
  <2>1. v1' = v1 /\ v3.pc = "admit" /\ v3' = [v3 EXCEPT !.pc = "enqueue"]
    BY <1>3 DEF C!Admit
  <2>2. v3' \in Runs /\ v3'.pc = "enqueue" /\ v3'.snapshot = v3.snapshot
    BY <1>1, <2>1 DEF Runs
  <2>3. v5' \in Nat /\ C!CardWorks'
    BY <1>1, <1>3 DEF C!Admit, C!EndSession, ChatInv, C!ChatAttended, C!CardWorks
  <2>4. Manned' /\ StillWaits' /\ C!ChatAttended'
    BY <1>1, <2>1, <2>2, <2>3 DEF ChatInv, Manned, StillWaits, C!ChatAttended, C!Attended
  <2> QED BY <1>1, <2>1, <2>2, <2>3, <2>4, QueueAlone
<1>4. CASE C!Settled
  <2>1. v3' = C!Asleep /\ UNCHANGED <<v5, v6>>
    BY <1>4 DEF C!Settled
  <2>2. v3' \in Runs /\ v3'.pc = "off"
    BY <2>1 DEF Runs, C!Asleep
  <2>3. CASE C!Waiting = {}
    <3>1. v1' \in Albums /\ ~v1'.started /\ v1'.files = {}
      BY <1>4, <2>3 DEF C!Settled, C!NoAlbum, Albums
    <3>2. Manned' /\ StillWaits' /\ C!ChatAttended'
      BY <1>1, <2>1, <2>2, <2>3, <3>1, AllWaiting
      DEF ChatInv, Manned, StillWaits, C!ChatAttended, C!Attended, C!CardWorks
    <3> QED BY <1>1, <2>1, <2>2, <3>1, <3>2, QueueAlone
  <2>4. CASE C!Waiting # {}
    <3>1. v1' = [v1 EXCEPT !.started = FALSE, !.armed = TRUE]
      BY <1>4, <2>4 DEF C!Settled
    <3>2. v1' \in Albums /\ ~v1'.started /\ v1'.armed /\ v1'.files = v1.files /\ v1'.exists = v1.exists
      BY <1>1, <3>1 DEF Albums
    <3>3. Manned' /\ StillWaits' /\ C!ChatAttended'
      BY <1>1, <2>1, <2>2, <3>2 DEF ChatInv, Manned, StillWaits, C!ChatAttended, C!Attended, C!CardWorks
    <3> QED BY <1>1, <2>1, <2>2, <3>2, <3>3, QueueAlone
  <2> QED BY <2>3, <2>4
<1> QED BY <1>2, <1>3, <1>4

\* What is queued waited: nothing that has ended is queued again.
LEMMA EnqueueKeeps ==
  ASSUME ChatInv, C!Enqueue PROVE ChatInv' /\ C!OnceStep
<1>1. /\ v3.pc = "enqueue"
      /\ v2' = [i \in Items |-> IF i \in v3.snapshot THEN "queued" ELSE v2[i]]
      /\ v3' = [v3 EXCEPT !.pc = "wait"]
      /\ UNCHANGED <<v1, v5, v6, v7, v9>>
  BY DEF C!Enqueue
<1>2. \A i \in v3.snapshot : v2[i] = "pending"
  BY <1>1 DEF ChatInv, StillWaits
<1>3. v3' \in Runs /\ v3'.pc = "wait"
  BY <1>1 DEF ChatInv, ChatTyped, Runs
<1>4. v2' \in [Items -> Statuses]
  BY <1>1 DEF ChatInv, ChatTyped, Statuses
<1>5. ChatTyped' /\ Manned' /\ StillWaits'
  BY <1>1, <1>3, <1>4 DEF ChatInv, ChatTyped, Manned, StillWaits
<1>6. \A i \in Items : Unknown(i)'
  BY <1>1, <1>2 DEF ChatInv, Unknown
<1>7. C!ChatAttended'
  BY <1>1, <1>3 DEF ChatInv, C!ChatAttended, C!Attended, C!CardWorks
<1>8. C!OnceStep
  BY <1>1, <1>2 DEF C!OnceStep, C!Ended
<1> QED BY <1>5, <1>6, <1>7, <1>8 DEF ChatInv

LEMMA CardsKeep ==
  ASSUME ChatInv, C!RemoveBatch \/ C!CardCancelled \/ \E task \in v6 : C!CancelCard(task)
  PROVE  ChatInv' /\ C!OnceStep
<1>1. UNCHANGED <<v1, v2, v3, v7, v9>> /\ v1 \in Albums /\ v3 \in Runs /\ v5' \in Nat /\ C!CardWorks'
  BY DEF C!RemoveBatch, C!CardCancelled, C!CancelCard, ChatInv, ChatTyped, C!ChatAttended, C!CardWorks
<1>2. Manned' /\ StillWaits' /\ C!ChatAttended'
  BY <1>1 DEF ChatInv, Manned, StillWaits, C!ChatAttended, C!Attended
<1> QED BY <1>1, <1>2, QueueAlone

LEMMA ChatSteps == ChatInv /\ [C!Next]_(C!vars) => ChatInv' /\ C!OnceStep
<1> SUFFICES ASSUME ChatInv, [C!Next]_(C!vars) PROVE ChatInv' /\ C!OnceStep
  OBVIOUS
<1>1. CASE C!Next
  BY <1>1, ReceiveKeeps, FinishKeeps, ConclusionKeeps, TimersKeep, TakeKeeps, ProcessorKeeps, EnqueueKeeps, CardsKeep
  DEF C!Next, C!Process
<1>2. CASE UNCHANGED C!vars
  BY <1>2, QueueAlone DEF C!vars, ChatInv, ChatTyped, Manned, StillWaits, C!ChatAttended, C!Attended, C!CardWorks
<1> QED BY <1>1, <1>2

-----------------------------------------------------------------------------
(* The writes of a job.  In their part the variables have other names.     *)

child    == v1
writer   == v2
objects  == v3
indexed  == v4
journal  == v5
resolver == v6

Found   == {"unknown", "present", "deleted"}
Spots   == {"off", "begin", "save", "mark", "insert", "markIndex", "undo", "undoIndex", "validate", "settle", "compensate",
            "compensateIndex", "note", "failed", "done", "gone"}
Workers == [pc : Spots, try : {1, 2}, job : BOOLEAN, op : BOOLEAN, path : BOOLEAN, file : BOOLEAN,
            object : Found, index : Found, lost : BOOLEAN]
Entries == [status : {"none", "pending", "resolved"},
            resolution : {"none", "committed", "compensated", "operator_required"},
            path : BOOLEAN, file : BOOLEAN, object : Found, index : Found, leased : BOOLEAN]
Sweepers == [pc : {"idle", "look", "object", "still", "index", "record"}, write : W!Writes \cup {W!None},
             row : Entries, kept : BOOLEAN]
Children == [status : {"pending", "downloading", "success", "failed"}, lease : W!Leases \cup {0},
             kept : W!Writes \cup {W!None}]

WritesTyped ==
  /\ child \in Children /\ writer \in [W!Leases -> Workers] /\ journal \in [W!Writes -> Entries]
  /\ objects \subseteq W!Writes /\ indexed \subseteq W!Writes
  /\ resolver \in Sweepers /\ (resolver.pc # "idle" => resolver.write \in W!Writes)

\* The worker of a write has not stored its object yet, or not inserted its row.
Ahead(w, spots) ==
  LET x == writer[w[1]] IN x.pc # "gone" /\ (x.try < w[2] \/ (x.try = w[2] /\ x.pc \in spots))
Storable(w)   == Ahead(w, {"off", "begin", "save"})
Insertable(w) == Ahead(w, {"off", "begin", "save", "mark", "insert"})

\* What a row of the journal says of a write is true, or was: what is gone does not come back.
Tells(r, w) ==
  /\ r.path \/ r.object = "deleted" => ~Storable(w)
  /\ r.file \/ r.index = "deleted" => ~Insertable(w)
  /\ r.object = "deleted" => w \notin objects
  /\ r.index = "deleted" => w \notin indexed

\* What succeeded once is over, and does so only when the journal is closed.
Closed == /\ child.status # "success" => child.kept = W!None
          /\ W!Blocked => child.status # "success"

Entered(w) ==
  /\ Storable(w) => w \notin objects
  /\ Insertable(w) => w \notin indexed /\ journal[w].status # "resolved"
  /\ Tells(journal[w], w)
  /\ journal[w].status # "none" =>
       LET x == writer[w[1]] IN x.pc = "gone" \/ (x.pc # "off" /\ x.op /\ x.try = w[2])

\* What a worker knows of its own write.
Sees(g) ==
  LET x == writer[g]
      w == W!Current(g) IN
  /\ x.pc = "off" => x = W!NoWriter
  /\ x.try = 1 => ~x.op /\ (x.pc \in {"off", "begin"} => ~x.job)
  /\ x.pc = "begin" => ~x.op
  /\ x.pc # "gone" =>
       /\ ~x.file => w \notin indexed
       /\ x.object = "deleted" => x.pc \in {"undoIndex", "note", "failed", "done"} /\ w \notin objects
       /\ x.index = "deleted" => x.pc \in {"note", "failed", "done"} /\ w \notin indexed
       /\ x.pc = "compensateIndex" => w \notin objects

Swept == resolver.pc # "idle" => ~resolver.kept /\ Tells(resolver.row, resolver.write)

WritesInv == /\ WritesTyped /\ Closed /\ W!EvidenceKept /\ W!NoWriteBehind
             /\ \A w \in W!Writes : Entered(w)
             /\ \A g \in W!Leases : Sees(g)
             /\ Swept

USE DEF child, writer, objects, indexed, journal, resolver

LEMMA WritesStart == W!Init => WritesInv
<1> SUFFICES ASSUME W!Init PROVE WritesInv
  OBVIOUS
<1>1. W!NoWriter \in Workers /\ W!NoRow \in Entries /\ W!Resting \in Sweepers /\ W!Resting.pc = "idle"
  BY DEF W!NoWriter, W!NoRow, W!Resting, Workers, Entries, Sweepers, Spots, Found
<1>2. WritesTyped
  BY <1>1 DEF W!Init, WritesTyped, Children
<1>3. Closed /\ W!EvidenceKept /\ W!NoWriteBehind /\ Swept
  BY <1>1 DEF W!Init, Closed, W!EvidenceKept, W!NoWriteBehind, W!Blocked, W!Open, W!Owns, W!NoRow, W!None, Swept
<1>4. \A w \in W!Writes : w[1] \in W!Leases
  BY DEF W!Writes
<1>5. ASSUME NEW w \in W!Writes PROVE Entered(w)
  BY <1>4 DEF W!Init, Entered, Tells, W!NoRow
<1>6. ASSUME NEW g \in W!Leases PROVE Sees(g)
  BY DEF W!Init, Sees, W!NoWriter
<1> QED BY <1>2, <1>3, <1>5, <1>6 DEF WritesInv

\* The write of a worker.
LEMMA CurrentIs ==
  ASSUME WritesTyped
  PROVE  /\ \A w \in W!Writes : w[1] \in W!Leases /\ w[2] \in {1, 2}
         /\ \A g \in W!Leases : W!Current(g) \in W!Writes /\ W!Current(g)[1] = g /\ W!Current(g)[2] = writer[g].try
         /\ \A g \in W!Leases : \A w \in W!Writes : w = W!Current(g) <=> (w[1] = g /\ w[2] = writer[g].try)
         /\ W!None \notin W!Writes
<1>1. \A g \in W!Leases : writer[g].try \in {1, 2}
  BY DEF WritesTyped, Workers
<1>2. \A w \in W!Writes : w[1] \in W!Leases /\ w[2] \in {1, 2} /\ w = <<w[1], w[2]>>
  BY DEF W!Writes
<1>3. 0 \notin W!Leases
  BY DEF W!Leases
<1> QED BY <1>1, <1>2, <1>3 DEF W!Writes, W!Current, W!None

-----------------------------------------------------------------------------
(* Claims, and what ends them.                                             *)

LEMMA ChildKeeps ==
  ASSUME WritesInv, child' \in Children,
         child'.status = "success" => child.status = "success",
         child'.kept = child.kept,
         (child'.status = "downloading" /\ ~(child.status = "downloading" /\ child'.lease = child.lease)) => ~W!Blocked,
         child.status = "success" => child'.status = "success",
         UNCHANGED <<writer, objects, indexed, journal, resolver>>
  PROVE  WritesInv'
<1>1. WritesTyped'
  BY DEF WritesInv, WritesTyped
<1>2. Closed' /\ W!EvidenceKept'
  BY DEF WritesInv, Closed, W!Blocked, W!Open, W!EvidenceKept
<1>3. W!NoWriteBehind'
  BY DEF WritesInv, W!NoWriteBehind, W!Owns, W!Open, W!Blocked
<1>4. Swept' /\ (\A w \in W!Writes : Entered(w)') /\ (\A g \in W!Leases : Sees(g)')
  BY DEF WritesInv, Swept, Entered, Sees, Tells, Storable, Insertable, Ahead, W!Current
<1> QED BY <1>1, <1>2, <1>3, <1>4 DEF WritesInv

-----------------------------------------------------------------------------
(* A step of a worker touches its own write alone.                         *)

\* The worker goes on in the same try, and not back.
Onward(g, y) ==
  LET x == writer[g] IN
  /\ y \in Workers /\ writer' = [writer EXCEPT ![g] = y]
  /\ x.pc # "gone" /\ y.pc \notin {"gone", "off"} /\ y.try = x.try
  /\ y.pc \in {"begin", "save"} => x.pc \in {"off", "begin", "save"}
  /\ y.pc \in {"begin", "save", "mark", "insert"} => x.pc \in {"off", "begin", "save", "mark", "insert"}

LEMMA OnwardMoves ==
  ASSUME WritesTyped, NEW g \in W!Leases, NEW y, Onward(g, y)
  PROVE  /\ writer' \in [W!Leases -> Workers] /\ writer'[g] = y
         /\ \A h \in W!Leases : W!Current(h)' = W!Current(h) /\ (h # g => writer'[h] = writer[h])
         /\ \A w \in W!Writes : (Storable(w)' => Storable(w)) /\ (Insertable(w)' => Insertable(w))
<1>1. writer' \in [W!Leases -> Workers] /\ writer'[g] = y
  BY DEF Onward, WritesTyped
<1>2. \A h \in W!Leases : (h # g => writer'[h] = writer[h]) /\ writer'[h].try = writer[h].try
  BY DEF Onward, WritesTyped
<1>3. ASSUME NEW w \in W!Writes PROVE (Storable(w)' => Storable(w)) /\ (Insertable(w)' => Insertable(w))
  <2>1. CASE w[1] = g
    BY <1>1, <2>1 DEF Storable, Insertable, Ahead, Onward
  <2>2. CASE w[1] # g
    BY <1>2, <2>2, CurrentIs DEF Storable, Insertable, Ahead
  <2> QED BY <2>1, <2>2
<1> QED BY <1>1, <1>2, <1>3 DEF W!Current

LEMMA WorkKeeps ==
  ASSUME WritesInv, NEW g \in W!Leases, NEW w \in W!Writes, w = W!Current(g), NEW y, Onward(g, y), UNCHANGED resolver,
         child' \in Children, journal' \in [W!Writes -> Entries],
         Closed', W!NoWriteBehind', Entered(w)', Sees(g)',
         child'.kept = child.kept \/ child.kept = W!None,
         \A o \in W!Writes : o # w => /\ journal'[o] = journal[o]
                                      /\ o \in objects' => o \in objects
                                      /\ o \in indexed' => o \in indexed,
         objects' \subseteq W!Writes, indexed' \subseteq W!Writes,
         w \in objects' \ objects => Storable(w),
         w \in indexed' \ indexed => Insertable(w),
         w \in (objects' \cup indexed') \ {child'.kept} => journal'[w].status # "resolved"
  PROVE  WritesInv'
<1>1. WritesTyped /\ \A o \in W!Writes : Entered(o)
  BY DEF WritesInv
<1>2. WritesTyped'
  <2>1. writer' \in [W!Leases -> Workers]
    BY <1>1, OnwardMoves
  <2>2. resolver' \in Sweepers /\ (resolver'.pc # "idle" => resolver'.write \in W!Writes)
    BY <1>1 DEF WritesTyped
  <2> QED BY <2>1, <2>2 DEF WritesTyped
<1>3. W!EvidenceKept'
  <2> SUFFICES ASSUME NEW o \in (objects' \cup indexed') \ {child'.kept}, journal'[o].status # "none"
               PROVE  journal'[o].status = "pending"
    BY DEF W!EvidenceKept, W!Open
  <2>1. o \in W!Writes /\ journal'[o] \in Entries
    OBVIOUS
  <2>2. CASE o = w
    BY <2>1, <2>2 DEF Entries
  <2>3. CASE o # w
    <3>1. o \in (objects \cup indexed) \ {child.kept}
      BY <1>1, <2>1, <2>3, CurrentIs
    <3> QED BY <2>1, <2>3, <3>1 DEF WritesInv, W!EvidenceKept, W!Open
  <2> QED BY <2>2, <2>3
<1>4. ASSUME NEW o \in W!Writes PROVE Entered(o)'
  <2>1. CASE o = w
    BY <2>1
  <2>2. CASE o # w
    <3>1. journal'[o] = journal[o] /\ (o \in objects' => o \in objects) /\ (o \in indexed' => o \in indexed) /\ Entered(o)
      BY <1>1, <2>2
    <3>2. (Storable(o)' => Storable(o)) /\ (Insertable(o)' => Insertable(o))
      BY <1>1, OnwardMoves
    <3>3. CASE o[1] = g
      <4>1. o[2] # writer[g].try
        BY <1>1, <2>2, <3>3, CurrentIs
      <4>2. journal[o].status = "none"
        BY <3>1, <3>3, <4>1 DEF Entered, Onward
      <4> QED BY <3>1, <3>2, <4>2 DEF Entered, Tells
    <3>4. CASE o[1] # g
      <4>1. writer'[o[1]] = writer[o[1]]
        BY <1>1, <3>4, CurrentIs, OnwardMoves
      <4> QED BY <3>1, <3>2, <4>1 DEF Entered, Tells
    <3> QED BY <3>3, <3>4
  <2> QED BY <2>1, <2>2
<1>5. ASSUME NEW h \in W!Leases PROVE Sees(h)'
  <2>1. CASE h = g
    BY <2>1
  <2>2. CASE h # g
    <3>1. writer'[h] = writer[h] /\ W!Current(h)' = W!Current(h) /\ W!Current(h) \in W!Writes /\ W!Current(h) # w
      BY <1>1, <2>2, OnwardMoves, CurrentIs
    <3> QED BY <3>1 DEF WritesInv, Sees
  <2> QED BY <2>1, <2>2
<1>6. Swept'
  <2> SUFFICES ASSUME resolver.pc # "idle" PROVE ~resolver.kept /\ Tells(resolver.row, resolver.write)'
    BY DEF Swept
  <2>1. resolver.write \in W!Writes /\ ~resolver.kept /\ Tells(resolver.row, resolver.write)
    BY DEF WritesInv, WritesTyped, Swept
  <2>2. (Storable(resolver.write)' => Storable(resolver.write)) /\ (Insertable(resolver.write)' => Insertable(resolver.write))
    BY <1>1, <2>1, OnwardMoves
  <2>3. /\ resolver.write \in objects' \ objects => Storable(resolver.write)
        /\ resolver.write \in indexed' \ indexed => Insertable(resolver.write)
    BY <2>1
  <2> QED BY <2>1, <2>2, <2>3 DEF Tells
<1> QED BY <1>2, <1>3, <1>4, <1>5, <1>6 DEF WritesInv

\* What is known of a worker at its step.
LEMMA OfWorker ==
  ASSUME WritesInv, NEW g \in W!Leases
  PROVE  /\ WritesTyped /\ Sees(g) /\ Entered(W!Current(g))
         /\ W!Current(g) \in W!Writes /\ W!Current(g)[1] = g /\ W!Current(g)[2] = writer[g].try
         /\ writer[g] \in Workers /\ journal[W!Current(g)] \in Entries
         /\ W!Current(g) \in (objects \cup indexed) \ {child.kept} => journal[W!Current(g)].status # "resolved"
<1>1. WritesTyped
  BY DEF WritesInv
<1>2. W!Current(g) \in W!Writes /\ W!Current(g)[1] = g /\ W!Current(g)[2] = writer[g].try
  BY <1>1, CurrentIs
<1> QED BY <1>1, <1>2 DEF WritesInv, WritesTyped, W!EvidenceKept, W!Open

\* A worker goes on and nothing else changes.
LEMMA GoesOn ==
  ASSUME WritesInv, NEW g \in W!Leases, NEW y, Onward(g, y), y.op = writer[g].op, Sees(g)',
         UNCHANGED <<child, objects, indexed, journal, resolver>>
  PROVE  WritesInv'
<1> PICK w \in W!Writes : w = W!Current(g)
  BY OfWorker
<1>1. WritesTyped /\ Entered(w) /\ w[1] = g
  BY OfWorker
<1>2. /\ writer'[g] = y /\ W!Current(g)' = w
      /\ (Storable(w)' => Storable(w)) /\ (Insertable(w)' => Insertable(w))
  BY <1>1, OnwardMoves
<1>3. Entered(w)'
  BY <1>1, <1>2 DEF Entered, Tells, Onward
<1>4. Closed' /\ W!NoWriteBehind'
  BY DEF WritesInv, Closed, W!Blocked, W!Open, W!NoWriteBehind, W!Owns
<1>5. child' \in Children /\ journal' \in [W!Writes -> Entries] /\ objects' \subseteq W!Writes /\ indexed' \subseteq W!Writes
  BY <1>1 DEF WritesTyped
<1>6. w \in (objects' \cup indexed') \ {child'.kept} => journal'[w].status # "resolved"
  BY <1>1 DEF WritesInv, W!EvidenceKept, W!Open
<1>7. /\ UNCHANGED resolver /\ child'.kept = child.kept /\ objects' \ objects = {} /\ indexed' \ indexed = {}
      /\ \A o \in W!Writes : /\ journal'[o] = journal[o] /\ (o \in objects' => o \in objects)
                             /\ (o \in indexed' => o \in indexed)
  OBVIOUS
<1> QED BY <1>3, <1>4, <1>5, <1>6, <1>7, WorkKeeps

LEMMA MoveIs ==
  ASSUME WritesTyped, NEW g \in W!Leases, NEW pc \in Spots, W!Move(g, pc)
  PROVE  \E y \in Workers : y = [writer[g] EXCEPT !.pc = pc] /\ writer' = [writer EXCEPT ![g] = y]
BY DEF WritesTyped, W!Move, Workers

\* Of a worker that only takes the next step.
LEMMA JustMoves ==
  ASSUME WritesInv, NEW g \in W!Leases, NEW pc \in Spots, W!Move(g, pc),
         UNCHANGED <<child, objects, indexed, journal, resolver>>,
         \/ writer[g].pc = "begin" /\ pc \in {"save", "failed"}
         \/ writer[g].pc = "save" /\ pc \in {"undo", "failed"}
         \/ writer[g].pc = "mark" /\ pc = "undo"
         \/ writer[g].pc = "insert" /\ pc \in {"undo", "failed"}
         \/ writer[g].pc = "markIndex" /\ pc = "undo"
         \/ writer[g].pc = "validate" /\ pc \in {"settle", "compensate"}
         \/ writer[g].pc = "note" /\ pc \in {"done", "failed"}
  PROVE  WritesInv'
<1>1. WritesTyped /\ Sees(g)
  BY DEF WritesInv
<1>2. PICK y \in Workers : y = [writer[g] EXCEPT !.pc = pc] /\ writer' = [writer EXCEPT ![g] = y]
  BY <1>1, MoveIs
<1>3. writer[g] \in Workers
  BY <1>1 DEF WritesTyped
<1>4. /\ y.pc = pc /\ y.try = writer[g].try /\ y.job = writer[g].job /\ y.op = writer[g].op /\ y.path = writer[g].path
      /\ y.file = writer[g].file /\ y.object = writer[g].object /\ y.index = writer[g].index
  BY <1>2, <1>3 DEF Workers
<1>5. Onward(g, y)
  BY <1>2, <1>4 DEF Onward
<1>6. writer'[g] = y /\ W!Current(g)' = W!Current(g)
  BY <1>1, <1>5, OnwardMoves
<1>7. Sees(g)'
  BY <1>1, <1>4, <1>6 DEF Sees
<1> QED BY <1>4, <1>5, <1>7, GoesOn

LEMMA BeginKeeps == ASSUME WritesInv, NEW g \in W!Leases, W!Begin(g) PROVE WritesInv'
<1>1. CASE ~writer[g].job /\ W!Move(g, "save") /\ UNCHANGED <<child, objects, indexed, journal, resolver>>
  BY <1>1, JustMoves DEF W!Begin, Spots
<1>2. CASE W!Move(g, "failed") /\ UNCHANGED <<child, objects, indexed, journal, resolver>>
  BY <1>2, JustMoves DEF W!Begin, Spots
<1>3. CASE /\ writer[g].job /\ W!Owns(g)
           /\ journal' = [journal EXCEPT ![W!Current(g)] = [W!NoRow EXCEPT !.status = "pending"]]
           /\ writer' = [writer EXCEPT ![g].pc = "save", ![g].op = TRUE]
           /\ UNCHANGED <<child, objects, indexed, resolver>>
  <2>1. writer[g].pc = "begin"
    BY DEF W!Begin
  <2> PICK w \in W!Writes : w = W!Current(g)
    BY OfWorker
  <2> DEFINE y == [writer[g] EXCEPT !.pc = "save", !.op = TRUE]
             e == [W!NoRow EXCEPT !.status = "pending"]
  <2>2. y \in Workers /\ y.pc = "save" /\ y.op /\ y.try = writer[g].try /\ y.job = writer[g].job /\ y.file = writer[g].file
        /\ y.object = writer[g].object /\ y.index = writer[g].index
    <3>1. writer[g] \in Workers
      BY OfWorker
    <3> QED BY <3>1 DEF Workers, Spots
  <2>3. writer' = [writer EXCEPT ![g] = y]
    BY <1>3
  <2>4. Onward(g, y)
    BY <2>1, <2>2, <2>3 DEF Onward
  <2>5. /\ writer'[g] = y /\ W!Current(g)' = w
        /\ (Storable(w)' => Storable(w)) /\ (Insertable(w)' => Insertable(w))
    BY <2>4, OfWorker, OnwardMoves
  <2>6. e \in Entries /\ e.status = "pending" /\ ~e.path /\ ~e.file /\ e.object = "unknown" /\ e.index = "unknown"
    BY DEF W!NoRow, Entries, Found
  <2>7. /\ journal' \in [W!Writes -> Entries] /\ journal'[w] = e
        /\ \A x \in W!Writes : x # w => journal'[x] = journal[x]
    BY <1>3, <2>6, OfWorker DEF WritesTyped
  <2> HIDE DEF y, e
  <2>8. Sees(g)'
    BY <2>1, <2>2, <2>5, <1>3, OfWorker DEF Sees
  <2>9. Entered(w)'
    <3>1. Entered(w) /\ w[1] = g /\ w[2] = writer[g].try
      BY OfWorker
    <3>2. Tells(e, w)'
      BY <2>6 DEF Tells
    <3> QED BY <2>1, <2>2, <2>5, <2>6, <2>7, <1>3, <3>1, <3>2 DEF Entered
  <2>10. Closed'
    BY <1>3 DEF WritesInv, Closed, W!Owns
  <2>11. W!NoWriteBehind'
    <3> SUFFICES ASSUME NEW h \in W!Leases, NEW x \in W!Writes, W!Owns(h), journal'[x].status = "pending" PROVE x[1] = h
      BY <1>3 DEF W!NoWriteBehind, W!Owns, W!Open
    <3>1. CASE x = w
      BY <1>3, <3>1, OfWorker DEF W!Owns
    <3>2. CASE x # w
      BY <2>7, <3>2 DEF WritesInv, W!NoWriteBehind, W!Open
    <3> QED BY <3>1, <3>2
  <2>12. child' \in Children /\ objects' \subseteq W!Writes /\ indexed' \subseteq W!Writes /\ journal'[w].status # "resolved"
    BY <1>3, <2>6, <2>7, OfWorker DEF WritesTyped
  <2> QED BY <1>3, <2>4, <2>5, <2>7, <2>8, <2>9, <2>10, <2>11, <2>12, WorkKeeps
<1> QED BY <1>1, <1>2, <1>3 DEF W!Begin

\* No row of the journal is opened, and the item stays as it is.
LEMMA NoneOpens ==
  ASSUME WritesInv, child' = child,
         \A o \in W!Writes : journal'[o].status = "pending" => journal[o].status = "pending"
  PROVE  Closed' /\ W!NoWriteBehind'
BY DEF WritesInv, Closed, W!Blocked, W!Open, W!NoWriteBehind, W!Owns

\* A worker stores, inserts, marks or deletes: its own write, and it goes on.
LEMMA StepKeeps ==
  ASSUME WritesInv, NEW g \in W!Leases, NEW w \in W!Writes, w = W!Current(g), NEW y, Onward(g, y), y.op = writer[g].op,
         UNCHANGED <<child, resolver>>, Sees(g)', Tells(journal[w], w)',
         journal' \in [W!Writes -> Entries], objects' \subseteq W!Writes, indexed' \subseteq W!Writes,
         \A o \in W!Writes : o # w => /\ journal'[o] = journal[o]
                                      /\ o \in objects' => o \in objects
                                      /\ o \in indexed' => o \in indexed,
         \/ journal'[w].status = journal[w].status
         \/ journal[w].status = "pending" /\ journal'[w].status = "resolved" /\ w \notin objects' \cup indexed' /\ ~Insertable(w)',
         w \in objects' \ objects => Storable(w) /\ ~Storable(w)',
         w \in indexed' \ indexed => Insertable(w) /\ ~Insertable(w)'
  PROVE  WritesInv'
<1>1. /\ WritesTyped /\ Entered(w) /\ w[1] = g /\ w[2] = writer[g].try
      /\ w \in (objects \cup indexed) \ {child.kept} => journal[w].status # "resolved"
  BY OfWorker
<1>2. writer'[g] = y /\ (Storable(w)' => Storable(w)) /\ (Insertable(w)' => Insertable(w))
  BY <1>1, OnwardMoves
<1>3. Closed' /\ W!NoWriteBehind'
  BY NoneOpens
<1>4. Entered(w)'
  BY <1>1, <1>2 DEF Entered, Onward
<1>5. child' \in Children /\ child'.kept = child.kept
  BY <1>1 DEF WritesTyped
<1>6. Storable(w) => Insertable(w)
  BY DEF Storable, Insertable, Ahead
<1>7. w \in (objects' \cup indexed') \ {child'.kept} => journal'[w].status # "resolved"
  BY <1>1, <1>5, <1>6 DEF Entered
<1> QED BY <1>1, <1>3, <1>4, <1>5, <1>7, WorkKeeps

LEMMA SaveKeeps == ASSUME WritesInv, NEW g \in W!Leases, W!Save(g) PROVE WritesInv'
<1> PICK w \in W!Writes : w = W!Current(g)
  BY OfWorker
<1>1. /\ WritesTyped /\ Sees(g) /\ Entered(w) /\ w[1] = g /\ w[2] = writer[g].try
      /\ writer[g] \in Workers
  BY OfWorker
<1>2. writer[g].pc = "save" /\ objects' \in {objects, objects \cup {w}} /\ UNCHANGED <<child, indexed, journal, resolver>>
  BY DEF W!Save
<1>3. PICK y \in Workers : /\ writer' = [writer EXCEPT ![g] = y]
                           /\ y.pc \in {"mark", "insert", "undo", "failed"} /\ y.try = writer[g].try /\ y.job = writer[g].job
                           /\ y.op = writer[g].op /\ y.file = writer[g].file
                           /\ y.object = writer[g].object /\ y.index = writer[g].index
  <2>1. CASE writer' = [writer EXCEPT ![g].pc = IF writer[g].op THEN "mark" ELSE "insert", ![g].path = TRUE]
    <3>1. PICK y : y = [writer[g] EXCEPT !.pc = IF writer[g].op THEN "mark" ELSE "insert", !.path = TRUE]
      OBVIOUS
    <3>2. writer' = [writer EXCEPT ![g] = y]
      BY <2>1, <3>1
    <3>3. /\ y \in Workers /\ y.pc \in {"mark", "insert"} /\ y.try = writer[g].try /\ y.job = writer[g].job
          /\ y.op = writer[g].op /\ y.file = writer[g].file /\ y.object = writer[g].object /\ y.index = writer[g].index
      BY <1>1, <3>1 DEF Workers, Spots
    <3> QED BY <3>2, <3>3
  <2>2. CASE W!Move(g, W!SaveFailed(g))
    <3>1. PICK y : y = [writer[g] EXCEPT !.pc = W!SaveFailed(g)]
      OBVIOUS
    <3>2. writer' = [writer EXCEPT ![g] = y]
      BY <2>2, <3>1 DEF W!Move
    <3>3. W!SaveFailed(g) \in {"undo", "failed"}
      BY DEF W!SaveFailed
    <3>4. /\ y \in Workers /\ y.pc \in {"undo", "failed"} /\ y.try = writer[g].try /\ y.job = writer[g].job
          /\ y.op = writer[g].op /\ y.file = writer[g].file /\ y.object = writer[g].object /\ y.index = writer[g].index
      BY <1>1, <3>1, <3>3 DEF Workers, Spots
    <3> QED BY <3>2, <3>4
  <2> QED BY <2>1, <2>2 DEF W!Save
<1>4. Onward(g, y)
  BY <1>2, <1>3 DEF Onward
<1>5. writer'[g] = y /\ W!Current(g)' = w /\ (Insertable(w)' => Insertable(w))
  BY <1>1, <1>4, OnwardMoves
<1>6. Sees(g)'
  BY <1>1, <1>2, <1>3, <1>5 DEF Sees
<1>7. Storable(w) /\ ~Storable(w)'
  BY <1>1, <1>2, <1>3, <1>5 DEF Storable, Ahead, Workers
<1>8. Tells(journal[w], w)'
  BY <1>1, <1>2, <1>5, <1>7 DEF Entered, Tells
<1>9. journal' \in [W!Writes -> Entries] /\ objects' \subseteq W!Writes /\ indexed' \subseteq W!Writes
  BY <1>1, <1>2 DEF WritesTyped
<1> QED BY <1>2, <1>3, <1>4, <1>6, <1>7, <1>8, <1>9, StepKeeps


LEMMA MarkObjectKeeps == ASSUME WritesInv, NEW g \in W!Leases, W!MarkObject(g) PROVE WritesInv'
<1> PICK w \in W!Writes : w = W!Current(g)
  BY OfWorker
<1>1. /\ WritesTyped /\ Sees(g) /\ Entered(w) /\ w[1] = g /\ w[2] = writer[g].try
      /\ writer[g].pc = "mark" /\ journal[w] \in Entries
  BY OfWorker DEF W!MarkObject
<1>2. CASE W!Move(g, "undo") /\ UNCHANGED <<child, objects, indexed, journal, resolver>>
  BY <1>1, <1>2, JustMoves DEF Spots
<1>3. CASE /\ journal[w].status = "pending" /\ W!Move(g, "insert") /\ UNCHANGED <<child, objects, indexed, resolver>>
           /\ journal' = [journal EXCEPT ![w].path = TRUE, ![w].object = "present"]
  <2>1. PICK y \in Workers : y = [writer[g] EXCEPT !.pc = "insert"] /\ writer' = [writer EXCEPT ![g] = y]
    BY <1>1, <1>3, MoveIs DEF Spots
  <2>2. writer[g] \in Workers
    BY OfWorker
  <2>3. /\ y.pc = "insert" /\ y.try = writer[g].try /\ y.job = writer[g].job /\ y.op = writer[g].op
        /\ y.file = writer[g].file /\ y.object = writer[g].object /\ y.index = writer[g].index
    BY <2>1, <2>2 DEF Workers
  <2>4. Onward(g, y)
    BY <1>1, <2>1, <2>3 DEF Onward
  <2>5. writer'[g] = y /\ W!Current(g)' = w
        /\ (Storable(w)' => Storable(w)) /\ (Insertable(w)' => Insertable(w))
    BY <1>1, <2>4, OnwardMoves
  <2>6. Sees(g)'
    BY <1>1, <1>3, <2>3, <2>5 DEF Sees
  <2>7. PICK e : e = [journal[w] EXCEPT !.path = TRUE, !.object = "present"]
    OBVIOUS
  <2>8. /\ e \in Entries /\ e.status = journal[w].status /\ e.object = "present"
        /\ e.file = journal[w].file /\ e.index = journal[w].index
    BY <1>1, <2>7 DEF Entries, Found
  <2>9. journal' = [journal EXCEPT ![w] = e]
    BY <1>3, <2>7
  <2>10. /\ journal' \in [W!Writes -> Entries] /\ journal'[w] = e
         /\ \A o \in W!Writes : o # w => journal'[o] = journal[o]
    BY <1>1, <2>8, <2>9 DEF WritesTyped
  <2>11. ~Storable(w)'
    BY <1>1, <2>3, <2>5 DEF Storable, Ahead, Workers
  <2>12. Tells(journal[w], w)'
    BY <1>1, <1>3, <2>5, <2>8, <2>10, <2>11 DEF Entered, Tells
  <2>13. objects' \subseteq W!Writes /\ indexed' \subseteq W!Writes
    BY <1>1, <1>3 DEF WritesTyped
  <2> QED BY <1>3, <2>3, <2>4, <2>6, <2>8, <2>10, <2>12, <2>13, StepKeeps
<1> QED BY <1>2, <1>3 DEF W!MarkObject, W!Open

LEMMA MarkIndexKeeps == ASSUME WritesInv, NEW g \in W!Leases, W!MarkIndex(g) PROVE WritesInv'
<1> PICK w \in W!Writes : w = W!Current(g)
  BY OfWorker
<1>1. /\ WritesTyped /\ Sees(g) /\ Entered(w) /\ w[1] = g /\ w[2] = writer[g].try
      /\ writer[g].pc = "markIndex" /\ journal[w] \in Entries
  BY OfWorker DEF W!MarkIndex
<1>2. CASE W!Move(g, "undo") /\ UNCHANGED <<child, objects, indexed, journal, resolver>>
  BY <1>1, <1>2, JustMoves DEF Spots
<1>3. CASE /\ journal[w].status = "pending" /\ W!Move(g, "validate") /\ UNCHANGED <<child, objects, indexed, resolver>>
           /\ journal' = [journal EXCEPT ![w].file = TRUE, ![w].index = "present"]
  <2>1. PICK y \in Workers : y = [writer[g] EXCEPT !.pc = "validate"] /\ writer' = [writer EXCEPT ![g] = y]
    BY <1>1, <1>3, MoveIs DEF Spots
  <2>2. writer[g] \in Workers
    BY OfWorker
  <2>3. /\ y.pc = "validate" /\ y.try = writer[g].try /\ y.job = writer[g].job /\ y.op = writer[g].op
        /\ y.file = writer[g].file /\ y.object = writer[g].object /\ y.index = writer[g].index
    BY <2>1, <2>2 DEF Workers
  <2>4. Onward(g, y)
    BY <1>1, <2>1, <2>3 DEF Onward
  <2>5. writer'[g] = y /\ W!Current(g)' = w
        /\ (Storable(w)' => Storable(w)) /\ (Insertable(w)' => Insertable(w))
    BY <1>1, <2>4, OnwardMoves
  <2>6. Sees(g)'
    BY <1>1, <1>3, <2>3, <2>5 DEF Sees
  <2>7. PICK e : e = [journal[w] EXCEPT !.file = TRUE, !.index = "present"]
    OBVIOUS
  <2>8. /\ e \in Entries /\ e.status = journal[w].status /\ e.index = "present"
        /\ e.path = journal[w].path /\ e.object = journal[w].object
    BY <1>1, <2>7 DEF Entries, Found
  <2>9. journal' = [journal EXCEPT ![w] = e]
    BY <1>3, <2>7
  <2>10. /\ journal' \in [W!Writes -> Entries] /\ journal'[w] = e
         /\ \A o \in W!Writes : o # w => journal'[o] = journal[o]
    BY <1>1, <2>8, <2>9 DEF WritesTyped
  <2>11. ~Insertable(w)'
    BY <1>1, <2>3, <2>5 DEF Insertable, Ahead, Workers
  <2>12. Tells(journal[w], w)'
    BY <1>1, <1>3, <2>5, <2>8, <2>10, <2>11 DEF Entered, Tells
  <2>13. objects' \subseteq W!Writes /\ indexed' \subseteq W!Writes
    BY <1>1, <1>3 DEF WritesTyped
  <2> QED BY <1>3, <2>3, <2>4, <2>6, <2>8, <2>10, <2>12, <2>13, StepKeeps
<1> QED BY <1>2, <1>3 DEF W!MarkIndex, W!Open

LEMMA InsertKeeps == ASSUME WritesInv, NEW g \in W!Leases, W!Insert(g) PROVE WritesInv'
<1> PICK w \in W!Writes : w = W!Current(g)
  BY OfWorker
<1>1. /\ WritesTyped /\ Sees(g) /\ Entered(w) /\ w[1] = g /\ w[2] = writer[g].try
      /\ writer[g].pc = "insert" /\ writer[g] \in Workers
  BY OfWorker DEF W!Insert
<1>2. CASE W!Move(g, W!SaveFailed(g)) /\ UNCHANGED <<child, objects, indexed, journal, resolver>>
  BY <1>1, <1>2, JustMoves DEF Spots, W!SaveFailed
<1>3. CASE /\ indexed' = indexed \cup {w} /\ UNCHANGED <<child, objects, journal, resolver>>
           /\ writer' = [writer EXCEPT ![g].pc = IF writer[g].op THEN "markIndex" ELSE "validate",
                                       ![g].file = TRUE, ![g].index = "present"]
  <2>1. PICK y : y = [writer[g] EXCEPT !.pc = IF writer[g].op THEN "markIndex" ELSE "validate",
                                       !.file = TRUE, !.index = "present"]
    OBVIOUS
  <2>2. writer' = [writer EXCEPT ![g] = y]
    BY <1>3, <2>1
  <2>3. /\ y \in Workers /\ y.pc \in {"markIndex", "validate"} /\ y.try = writer[g].try /\ y.job = writer[g].job
        /\ y.op = writer[g].op /\ y.file /\ y.object = writer[g].object /\ y.index = "present"
    BY <1>1, <2>1 DEF Workers, Spots, Found
  <2>4. Onward(g, y)
    BY <1>1, <2>2, <2>3 DEF Onward
  <2>5. writer'[g] = y /\ W!Current(g)' = w /\ (Storable(w)' => Storable(w))
    BY <1>1, <2>4, OnwardMoves
  <2>6. Sees(g)'
    BY <1>1, <1>3, <2>3, <2>5 DEF Sees
  <2>7. Insertable(w) /\ ~Insertable(w)'
    BY <1>1, <2>3, <2>5 DEF Insertable, Ahead, Workers
  <2>8. Tells(journal[w], w)'
    BY <1>1, <1>3, <2>5, <2>7 DEF Entered, Tells
  <2>9. journal' \in [W!Writes -> Entries] /\ objects' \subseteq W!Writes /\ indexed' \subseteq W!Writes
    BY <1>1, <1>3 DEF WritesTyped
  <2> QED BY <1>3, <2>3, <2>4, <2>6, <2>7, <2>8, <2>9, StepKeeps
<1> QED BY <1>2, <1>3 DEF W!Insert

\* A compensation only deletes.
LEMMA DeletingKeeps ==
  ASSUME WritesInv, NEW g \in W!Leases, NEW w \in W!Writes, w = W!Current(g), NEW y, Onward(g, y), y.op = writer[g].op,
         UNCHANGED <<child, journal, resolver>>, Sees(g)',
         objects' = objects \/ objects' = objects \ {w}, indexed' = indexed \/ indexed' = indexed \ {w}
  PROVE  WritesInv'
<1>1. WritesTyped /\ Entered(w)
  BY OfWorker
<1>2. (Storable(w)' => Storable(w)) /\ (Insertable(w)' => Insertable(w))
  BY <1>1, OnwardMoves
<1>3. objects' \subseteq objects /\ indexed' \subseteq indexed
  OBVIOUS
<1>4. Tells(journal[w], w)'
  BY <1>1, <1>2, <1>3 DEF Entered, Tells
<1>5. journal' \in [W!Writes -> Entries] /\ objects' \subseteq W!Writes /\ indexed' \subseteq W!Writes
  BY <1>1, <1>3 DEF WritesTyped
<1>6. \A o \in W!Writes : o # w => /\ journal'[o] = journal[o]
                                   /\ o \in objects' => o \in objects
                                   /\ o \in indexed' => o \in indexed
  BY <1>3
<1> QED BY <1>3, <1>4, <1>5, <1>6, StepKeeps

LEMMA UndoKeeps == ASSUME WritesInv, NEW g \in W!Leases, W!Undo(g) PROVE WritesInv'
<1> PICK w \in W!Writes : w = W!Current(g)
  BY OfWorker
<1>1. /\ WritesTyped /\ Sees(g) /\ w[1] = g /\ w[2] = writer[g].try
      /\ writer[g].pc = "undo" /\ writer[g] \in Workers
  BY OfWorker DEF W!Undo
<1>2. CASE /\ objects' = objects \ {w} /\ indexed' = indexed /\ UNCHANGED <<child, journal, resolver>>
           /\ writer' = [writer EXCEPT ![g].pc = "undoIndex", ![g].object = "deleted"]
  <2>1. PICK y : y = [writer[g] EXCEPT !.pc = "undoIndex", !.object = "deleted"]
    OBVIOUS
  <2>2. writer' = [writer EXCEPT ![g] = y]
    BY <1>2, <2>1
  <2>3. /\ y \in Workers /\ y.try = writer[g].try /\ y.job = writer[g].job /\ y.op = writer[g].op
        /\ y.pc = "undoIndex" /\ y.file = writer[g].file /\ y.object = "deleted" /\ y.index = writer[g].index
    BY <1>1, <2>1 DEF Workers, Spots, Found
  <2>4. Onward(g, y)
    BY <1>1, <2>2, <2>3 DEF Onward
  <2>5. writer'[g] = y /\ W!Current(g)' = w
    BY <1>1, <2>4, OnwardMoves
  <2>6. Sees(g)'
    BY <1>1, <1>2, <2>3, <2>5 DEF Sees
  <2> QED BY <1>2, <2>3, <2>4, <2>6, DeletingKeeps
<1>3. CASE /\ objects' = objects /\ indexed' = indexed /\ UNCHANGED <<child, journal, resolver>>
           /\ writer' = [writer EXCEPT ![g].pc = "undoIndex", ![g].object = "unknown"]
  <2>1. PICK y : y = [writer[g] EXCEPT !.pc = "undoIndex", !.object = "unknown"]
    OBVIOUS
  <2>2. writer' = [writer EXCEPT ![g] = y]
    BY <1>3, <2>1
  <2>3. /\ y \in Workers /\ y.try = writer[g].try /\ y.job = writer[g].job /\ y.op = writer[g].op
        /\ y.pc = "undoIndex" /\ y.file = writer[g].file /\ y.object = "unknown" /\ y.index = writer[g].index
    BY <1>1, <2>1 DEF Workers, Spots, Found
  <2>4. Onward(g, y)
    BY <1>1, <2>2, <2>3 DEF Onward
  <2>5. writer'[g] = y /\ W!Current(g)' = w
    BY <1>1, <2>4, OnwardMoves
  <2>6. Sees(g)'
    BY <1>1, <1>3, <2>3, <2>5 DEF Sees
  <2> QED BY <1>3, <2>3, <2>4, <2>6, DeletingKeeps
<1> QED BY <1>2, <1>3 DEF W!Undo, W!Move

LEMMA UndoIndexKeeps == ASSUME WritesInv, NEW g \in W!Leases, W!UndoIndex(g) PROVE WritesInv'
<1> PICK w \in W!Writes : w = W!Current(g)
  BY OfWorker
<1>1. /\ WritesTyped /\ Sees(g) /\ w[1] = g /\ w[2] = writer[g].try
      /\ writer[g].pc = "undoIndex" /\ writer[g] \in Workers
  BY OfWorker DEF W!UndoIndex
<1>2. CASE /\ objects' = objects /\ indexed' = (IF writer[g].file THEN indexed \ {w} ELSE indexed) /\ UNCHANGED <<child, journal, resolver>>
           /\ writer' = [writer EXCEPT ![g].pc = "note", ![g].index = IF writer[g].file /\ w \notin indexed THEN "unknown" ELSE "deleted"]
  <2>1. PICK y : y = [writer[g] EXCEPT !.pc = "note", !.index = IF writer[g].file /\ w \notin indexed THEN "unknown" ELSE "deleted"]
    OBVIOUS
  <2>2. writer' = [writer EXCEPT ![g] = y]
    BY <1>2, <2>1
  <2>3. /\ y \in Workers /\ y.try = writer[g].try /\ y.job = writer[g].job /\ y.op = writer[g].op
        /\ y.pc = "note" /\ y.file = writer[g].file /\ y.object = writer[g].object /\ y.index \in {"unknown", "deleted"}
    BY <1>1, <2>1 DEF Workers, Spots, Found
  <2>4. Onward(g, y)
    BY <1>1, <2>2, <2>3 DEF Onward
  <2>5. writer'[g] = y /\ W!Current(g)' = w
    BY <1>1, <2>4, OnwardMoves
  <2>6. Sees(g)'
    BY <1>1, <1>2, <2>3, <2>5 DEF Sees
  <2> QED BY <1>2, <2>3, <2>4, <2>6, DeletingKeeps
<1>3. CASE /\ objects' = objects /\ indexed' = indexed /\ UNCHANGED <<child, journal, resolver>>
           /\ writer' = [writer EXCEPT ![g].pc = "note", ![g].index = "unknown"]
  <2>1. PICK y : y = [writer[g] EXCEPT !.pc = "note", !.index = "unknown"]
    OBVIOUS
  <2>2. writer' = [writer EXCEPT ![g] = y]
    BY <1>3, <2>1
  <2>3. /\ y \in Workers /\ y.try = writer[g].try /\ y.job = writer[g].job /\ y.op = writer[g].op
        /\ y.pc = "note" /\ y.file = writer[g].file /\ y.object = writer[g].object /\ y.index = "unknown"
    BY <1>1, <2>1 DEF Workers, Spots, Found
  <2>4. Onward(g, y)
    BY <1>1, <2>2, <2>3 DEF Onward
  <2>5. writer'[g] = y /\ W!Current(g)' = w
    BY <1>1, <2>4, OnwardMoves
  <2>6. Sees(g)'
    BY <1>1, <1>3, <2>3, <2>5 DEF Sees
  <2> QED BY <1>3, <2>3, <2>4, <2>6, DeletingKeeps
<1> QED BY <1>2, <1>3 DEF W!UndoIndex, W!Move

LEMMA CompensateKeeps == ASSUME WritesInv, NEW g \in W!Leases, W!Compensate(g) PROVE WritesInv'
<1> PICK w \in W!Writes : w = W!Current(g)
  BY OfWorker
<1>1. /\ WritesTyped /\ Sees(g) /\ w[1] = g /\ w[2] = writer[g].try
      /\ writer[g].pc = "compensate" /\ writer[g] \in Workers
  BY OfWorker DEF W!Compensate
<1>2. CASE /\ objects' = objects \ {w} /\ indexed' = indexed /\ UNCHANGED <<child, journal, resolver>>
           /\ writer' = [writer EXCEPT ![g].pc = "compensateIndex"]
  <2>1. PICK y : y = [writer[g] EXCEPT !.pc = "compensateIndex"]
    OBVIOUS
  <2>2. writer' = [writer EXCEPT ![g] = y]
    BY <1>2, <2>1
  <2>3. /\ y \in Workers /\ y.try = writer[g].try /\ y.job = writer[g].job /\ y.op = writer[g].op
        /\ y.pc = "compensateIndex" /\ y.file = writer[g].file /\ y.object = writer[g].object /\ y.index = writer[g].index
    BY <1>1, <2>1 DEF Workers, Spots, Found
  <2>4. Onward(g, y)
    BY <1>1, <2>2, <2>3 DEF Onward
  <2>5. writer'[g] = y /\ W!Current(g)' = w
    BY <1>1, <2>4, OnwardMoves
  <2>6. Sees(g)'
    BY <1>1, <1>2, <2>3, <2>5 DEF Sees
  <2> QED BY <1>2, <2>3, <2>4, <2>6, DeletingKeeps
<1>3. CASE /\ objects' = objects /\ indexed' = indexed /\ UNCHANGED <<child, journal, resolver>>
           /\ writer' = [writer EXCEPT ![g].pc = "note", ![g].object = "unknown", ![g].index = "unknown", ![g].lost = FALSE]
  <2>1. PICK y : y = [writer[g] EXCEPT !.pc = "note", !.object = "unknown", !.index = "unknown", !.lost = FALSE]
    OBVIOUS
  <2>2. writer' = [writer EXCEPT ![g] = y]
    BY <1>3, <2>1
  <2>3. /\ y \in Workers /\ y.try = writer[g].try /\ y.job = writer[g].job /\ y.op = writer[g].op
        /\ y.pc = "note" /\ y.file = writer[g].file /\ y.object = "unknown" /\ y.index = "unknown"
    BY <1>1, <2>1 DEF Workers, Spots, Found
  <2>4. Onward(g, y)
    BY <1>1, <2>2, <2>3 DEF Onward
  <2>5. writer'[g] = y /\ W!Current(g)' = w
    BY <1>1, <2>4, OnwardMoves
  <2>6. Sees(g)'
    BY <1>1, <1>3, <2>3, <2>5 DEF Sees
  <2> QED BY <1>3, <2>3, <2>4, <2>6, DeletingKeeps
<1> QED BY <1>2, <1>3 DEF W!Compensate, W!Move

LEMMA CompensateIndexKeeps == ASSUME WritesInv, NEW g \in W!Leases, W!CompensateIndex(g) PROVE WritesInv'
<1> PICK w \in W!Writes : w = W!Current(g)
  BY OfWorker
<1>1. /\ WritesTyped /\ Sees(g) /\ w[1] = g /\ w[2] = writer[g].try
      /\ writer[g].pc = "compensateIndex" /\ writer[g] \in Workers
  BY OfWorker DEF W!CompensateIndex
<1>2. CASE /\ objects' = objects /\ indexed' = indexed \ {w} /\ UNCHANGED <<child, journal, resolver>>
           /\ writer' = [writer EXCEPT ![g].pc = "note", ![g].object = IF w \in indexed THEN "deleted" ELSE "unknown", ![g].index = IF w \in indexed THEN "deleted" ELSE "unknown", ![g].lost = @ /\ (IF w \in indexed THEN "deleted" ELSE "unknown") = "deleted"]
  <2>1. PICK y : y = [writer[g] EXCEPT !.pc = "note", !.object = IF w \in indexed THEN "deleted" ELSE "unknown", !.index = IF w \in indexed THEN "deleted" ELSE "unknown", !.lost = @ /\ (IF w \in indexed THEN "deleted" ELSE "unknown") = "deleted"]
    OBVIOUS
  <2>2. writer' = [writer EXCEPT ![g] = y]
    BY <1>2, <2>1
  <2>3. /\ y \in Workers /\ y.try = writer[g].try /\ y.job = writer[g].job /\ y.op = writer[g].op
        /\ y.pc = "note" /\ y.file = writer[g].file /\ y.object \in {"deleted", "unknown"} /\ y.index \in {"deleted", "unknown"}
    <3>1. PICK b : b = (IF w \in indexed THEN "deleted" ELSE "unknown")
      OBVIOUS
    <3>2. PICK z \in BOOLEAN : z = (writer[g].lost /\ b = "deleted")
      OBVIOUS
    <3>3. b \in {"deleted", "unknown"} /\ b \in Found
      BY <3>1 DEF Found
    <3>4. PICK x \in Workers : x = writer[g]
      BY <1>1
    <3>5. y = [x EXCEPT !.pc = "note", !.object = b, !.index = b, !.lost = z]
      BY <2>1, <3>1, <3>2, <3>4
    <3>6. /\ y \in Workers /\ y.try = x.try /\ y.job = x.job /\ y.op = x.op
          /\ y.pc = "note" /\ y.file = x.file /\ y.object = b /\ y.index = b
      BY ONLY <3>3, <3>4, <3>5 DEF Workers, Spots
    <3> QED BY <3>3, <3>4, <3>6
  <2>4. Onward(g, y)
    BY <1>1, <2>2, <2>3 DEF Onward
  <2>5. writer'[g] = y /\ W!Current(g)' = w
    BY <1>1, <2>4, OnwardMoves
  <2>6. Sees(g)'
    BY <1>1, <1>2, <2>3, <2>5 DEF Sees
  <2> QED BY <1>2, <2>3, <2>4, <2>6, DeletingKeeps
<1>3. CASE /\ objects' = objects /\ indexed' = indexed /\ UNCHANGED <<child, journal, resolver>>
           /\ writer' = [writer EXCEPT ![g].pc = "note", ![g].object = "unknown", ![g].index = "unknown", ![g].lost = @ /\ "unknown" = "deleted"]
  <2>1. PICK y : y = [writer[g] EXCEPT !.pc = "note", !.object = "unknown", !.index = "unknown", !.lost = @ /\ "unknown" = "deleted"]
    OBVIOUS
  <2>2. writer' = [writer EXCEPT ![g] = y]
    BY <1>3, <2>1
  <2>3. /\ y \in Workers /\ y.try = writer[g].try /\ y.job = writer[g].job /\ y.op = writer[g].op
        /\ y.pc = "note" /\ y.file = writer[g].file /\ y.object = "unknown" /\ y.index = "unknown"
    BY <1>1, <2>1 DEF Workers, Spots, Found
  <2>4. Onward(g, y)
    BY <1>1, <2>2, <2>3 DEF Onward
  <2>5. writer'[g] = y /\ W!Current(g)' = w
    BY <1>1, <2>4, OnwardMoves
  <2>6. Sees(g)'
    BY <1>1, <1>3, <2>3, <2>5 DEF Sees
  <2> QED BY <1>3, <2>3, <2>4, <2>6, DeletingKeeps
<1> QED BY <1>2, <1>3 DEF W!CompensateIndex, W!Move

LEMMA ValidateKeeps == ASSUME WritesInv, NEW g \in W!Leases, W!Validate(g) PROVE WritesInv'
BY JustMoves DEF W!Validate, Spots

LEMMA NoteKeeps == ASSUME WritesInv, NEW g \in W!Leases, W!Note(g) PROVE WritesInv'
<1> PICK w \in W!Writes : w = W!Current(g)
  BY OfWorker
<1>1. /\ WritesTyped /\ Sees(g) /\ Entered(w) /\ w[1] = g /\ w[2] = writer[g].try
      /\ writer[g].pc = "note" /\ writer[g] \in Workers /\ journal[w] \in Entries
  BY OfWorker DEF W!Note
<1>2. PICK pc \in {"done", "failed"} : W!Move(g, pc)
  BY DEF W!Note
<1>3. UNCHANGED <<child, objects, indexed, resolver>>
  BY DEF W!Note
<1>4. CASE UNCHANGED journal
  BY <1>1, <1>2, <1>3, <1>4, JustMoves DEF Spots
<1>5. CASE journal' # journal
  <2> DEFINE clean == writer[g].object = "deleted" /\ writer[g].index = "deleted"
  <2>1. /\ journal[w].status = "pending"
        /\ journal' = [journal EXCEPT ![w].object = writer[g].object, ![w].index = writer[g].index,
                                      ![w].status = IF clean THEN "resolved" ELSE "pending",
                                      ![w].resolution = IF clean THEN "compensated" ELSE @,
                                      ![w].leased = FALSE]
    BY <1>5 DEF W!Note, W!Open
  <2>2. PICK st, re : /\ st = (IF clean THEN "resolved" ELSE "pending") /\ st \in {"resolved", "pending"}
                      /\ re = (IF clean THEN "compensated" ELSE journal[w].resolution)
                      /\ re \in {"none", "committed", "compensated", "operator_required"}
    BY <1>1 DEF Entries
  <2>3. PICK e : e = [journal[w] EXCEPT !.object = writer[g].object, !.index = writer[g].index,
                                        !.status = st, !.resolution = re, !.leased = FALSE]
    OBVIOUS
  <2>4. journal' = [journal EXCEPT ![w] = e] /\ e \in Entries
        /\ e.object = writer[g].object /\ e.index = writer[g].index /\ e.status = (IF clean THEN "resolved" ELSE "pending")
    <3>1. journal' = [journal EXCEPT ![w] = e]
      BY <2>1, <2>2, <2>3
    <3>2. writer[g].object \in Found /\ writer[g].index \in Found
      BY <1>1 DEF Workers
    <3>3. PICK b, x : b = writer[g].object /\ x = writer[g].index
      OBVIOUS
    <3>4. PICK row \in Entries : row = journal[w]
      BY <1>1
    <3>5. e = [row EXCEPT !.object = b, !.index = x, !.status = st, !.resolution = re, !.leased = FALSE]
      BY <2>3, <3>3, <3>4
    <3>6. b \in Found /\ x \in Found
      BY <3>2, <3>3
    <3> HIDE DEF clean
    <3>7. e \in Entries /\ e.object = b /\ e.index = x /\ e.status = st
      <4>1. st \in {"none", "pending", "resolved"} /\ re \in {"none", "committed", "compensated", "operator_required"}
        BY <2>2
      <4> QED BY ONLY <3>4, <3>5, <3>6, <4>1 DEF Entries
    <3> QED BY <2>2, <3>1, <3>3, <3>7
  <2>5. /\ journal' \in [W!Writes -> Entries] /\ journal'[w] = e
        /\ \A o \in W!Writes : o # w => journal'[o] = journal[o]
    BY <1>1, <2>4 DEF WritesTyped
  <2>6. PICK y \in Workers : y = [writer[g] EXCEPT !.pc = pc] /\ writer' = [writer EXCEPT ![g] = y]
    BY <1>1, <1>2, MoveIs DEF Spots
  <2>7. /\ y.pc \in {"done", "failed"} /\ y.try = writer[g].try /\ y.job = writer[g].job /\ y.op = writer[g].op
        /\ y.file = writer[g].file /\ y.object = writer[g].object /\ y.index = writer[g].index
    BY <1>1, <2>6 DEF Workers
  <2>8. Onward(g, y)
    BY <1>1, <2>6, <2>7 DEF Onward
  <2>9. writer'[g] = y /\ W!Current(g)' = w
    BY <1>1, <2>8, OnwardMoves
  <2>10. Sees(g)'
    BY <1>1, <1>3, <2>7, <2>9 DEF Sees
  <2>11. ~Storable(w)' /\ ~Insertable(w)'
    BY <1>1, <2>7, <2>9 DEF Storable, Insertable, Ahead, Workers
  <2>12. /\ writer[g].object = "deleted" => w \notin objects
         /\ writer[g].index = "deleted" => w \notin indexed
    BY <1>1 DEF Sees
  <2>13. Tells(journal[w], w)'
    BY <1>3, <2>4, <2>5, <2>11, <2>12 DEF Tells
  <2>14. \/ journal'[w].status = journal[w].status
         \/ journal[w].status = "pending" /\ journal'[w].status = "resolved" /\ w \notin objects' \cup indexed' /\ ~Insertable(w)'
    BY <1>3, <2>1, <2>4, <2>5, <2>11, <2>12
  <2>15. objects' \subseteq W!Writes /\ indexed' \subseteq W!Writes
    BY <1>1, <1>3 DEF WritesTyped
  <2> HIDE DEF clean
  <2> QED BY <1>3, <2>5, <2>7, <2>8, <2>10, <2>13, <2>14, <2>15, StepKeeps
<1> QED BY <1>4, <1>5

\* The item succeeds, or it was settled by somebody else, or the answer is lost.
LEMMA SettleKeeps == ASSUME WritesInv, NEW g \in W!Leases, W!SettleChild(g) PROVE WritesInv'
<1> PICK w \in W!Writes : w = W!Current(g)
  BY OfWorker
<1>1. /\ WritesTyped /\ Sees(g) /\ Entered(w) /\ w[1] = g /\ w[2] = writer[g].try
      /\ writer[g].pc = "settle" /\ writer[g] \in Workers /\ journal[w] \in Entries
  BY OfWorker DEF W!SettleChild
<1>2. UNCHANGED <<objects, indexed, resolver>>
  BY DEF W!SettleChild
<1>3. PICK y \in Workers : /\ writer' = [writer EXCEPT ![g] = y]
                           /\ y.pc \in {"done", "compensate"} /\ y.try = writer[g].try /\ y.op = writer[g].op
                           /\ y.file = writer[g].file /\ y.object = writer[g].object /\ y.index = writer[g].index
  <2>1. CASE W!Move(g, "done")
    BY <1>1, <2>1, MoveIs DEF Spots, Workers
  <2>2. CASE writer' = [writer EXCEPT ![g].pc = "compensate", ![g].job = TRUE]
    <3>1. PICK y : y = [writer[g] EXCEPT !.pc = "compensate", !.job = TRUE]
      OBVIOUS
    <3>2. writer' = [writer EXCEPT ![g] = y]
      BY <2>2, <3>1
    <3>3. y \in Workers /\ y.pc = "compensate" /\ y.try = writer[g].try /\ y.op = writer[g].op
          /\ y.file = writer[g].file /\ y.object = writer[g].object /\ y.index = writer[g].index
      BY <1>1, <3>1 DEF Workers, Spots
    <3> QED BY <3>2, <3>3
  <2>3. CASE writer' = [writer EXCEPT ![g].pc = "compensate", ![g].job = TRUE, ![g].lost = ~W!Owns(g)]
    <3>1. PICK y : y = [writer[g] EXCEPT !.pc = "compensate", !.job = TRUE, !.lost = ~W!Owns(g)]
      OBVIOUS
    <3>2. writer' = [writer EXCEPT ![g] = y]
      BY <2>3, <3>1
    <3>3. W!Owns(g) \in BOOLEAN
      BY DEF W!Owns
    <3>4. y \in Workers /\ y.pc = "compensate" /\ y.try = writer[g].try /\ y.op = writer[g].op
          /\ y.file = writer[g].file /\ y.object = writer[g].object /\ y.index = writer[g].index
      BY <1>1, <3>1, <3>3 DEF Workers, Spots
    <3> QED BY <3>2, <3>4
  <2> QED BY <2>1, <2>2, <2>3 DEF W!SettleChild
<1>4. Onward(g, y)
  BY <1>1, <1>3 DEF Onward
<1>5. writer'[g] = y /\ W!Current(g)' = w
      /\ (Storable(w)' => Storable(w)) /\ (Insertable(w)' => Insertable(w))
  BY <1>1, <1>4, OnwardMoves
<1>6. Sees(g)'
  BY <1>1, <1>2, <1>3, <1>5 DEF Sees
<1>7. CASE UNCHANGED <<child, journal>>
  BY <1>2, <1>3, <1>4, <1>6, <1>7, GoesOn
<1>8. CASE /\ W!Committable(g) /\ child' = [status |-> "success", lease |-> 0, kept |-> w]
           /\ journal' = IF writer[g].op
                         THEN [journal EXCEPT ![w].status = "resolved", ![w].resolution = "committed", ![w].leased = FALSE]
                         ELSE journal
  <2>1. child' \in Children /\ child'.status = "success" /\ child'.kept = w
    BY <1>8 DEF Children
  <2>2. child.status = "downloading" /\ child.lease = g /\ child.kept = W!None
    BY <1>8 DEF W!Committable, W!Owns, WritesInv, Closed
  <2>3. /\ journal' \in [W!Writes -> Entries]
        /\ \A o \in W!Writes : o # w => journal'[o] = journal[o]
        /\ journal'[w].path = journal[w].path /\ journal'[w].file = journal[w].file
        /\ journal'[w].object = journal[w].object /\ journal'[w].index = journal[w].index
        /\ writer[g].op => journal'[w].status = "resolved" /\ journal[w].status = "pending"
        /\ ~writer[g].op => journal'[w].status = journal[w].status
    <3>1. CASE ~writer[g].op
      BY <1>1, <1>8, <3>1 DEF WritesTyped
    <3>2. CASE writer[g].op
      <4>1. PICK e : e = [journal[w] EXCEPT !.status = "resolved", !.resolution = "committed", !.leased = FALSE]
        OBVIOUS
      <4>2. journal' = [journal EXCEPT ![w] = e]
        BY <1>8, <3>2, <4>1
      <4>3. /\ e \in Entries /\ e.status = "resolved" /\ e.path = journal[w].path /\ e.file = journal[w].file
            /\ e.object = journal[w].object /\ e.index = journal[w].index
        BY <1>1, <4>1 DEF Entries
      <4>4. journal[w].status = "pending"
        BY <1>8, <3>2 DEF W!Committable
      <4> QED BY <1>1, <3>2, <4>2, <4>3, <4>4 DEF WritesTyped
    <3> QED BY <3>1, <3>2
  <2>4. ASSUME NEW o \in W!Writes PROVE journal'[o].status # "pending"
    <3>1. journal[o].status = "pending" => o[1] = g
      BY <2>2 DEF WritesInv, W!NoWriteBehind, W!Owns, W!Open
    <3>2. journal[o].status = "pending" => writer[g].op /\ o[2] = writer[g].try
      BY <1>1, <3>1 DEF WritesInv, Entered
    <3>3. journal[o].status = "pending" => writer[g].op /\ o = w
      BY <1>1, <3>1, <3>2, CurrentIs
    <3> QED BY <1>1, <2>3, <3>3 DEF Entered
  <2>5. Closed' /\ W!NoWriteBehind'
    BY <2>1, <2>4 DEF Closed, W!Blocked, W!Open, W!NoWriteBehind
  <2>6. ~Insertable(w)'
    BY <1>1, <1>3, <1>5 DEF Insertable, Ahead, Workers
  <2>7. Entered(w)'
    BY <1>1, <1>2, <1>3, <1>5, <2>3, <2>6 DEF Entered, Tells
  <2>8. objects' \subseteq W!Writes /\ indexed' \subseteq W!Writes
    BY <1>1, <1>2 DEF WritesTyped
  <2>9. /\ \A o \in W!Writes : o # w => /\ journal'[o] = journal[o]
                                        /\ o \in objects' => o \in objects
                                        /\ o \in indexed' => o \in indexed
        /\ objects' \ objects = {} /\ indexed' \ indexed = {} /\ UNCHANGED resolver
    BY <1>2, <2>3
  <2>10. w \notin (objects' \cup indexed') \ {child'.kept}
    BY <2>1
  <2> QED BY <1>4, <1>6, <2>1, <2>2, <2>3, <2>5, <2>7, <2>8, <2>9, <2>10, WorkKeeps
<1> QED BY <1>7, <1>8 DEF W!SettleChild

LEMMA AgainKeeps == ASSUME WritesInv, NEW g \in W!Leases, W!Again(g) PROVE WritesInv'
<1>1. /\ WritesTyped /\ Sees(g) /\ W!Current(g) \in W!Writes /\ writer[g] \in Workers /\ writer[g].pc = "failed"
      /\ UNCHANGED <<objects, indexed, journal, resolver>>
  BY OfWorker DEF W!Again
<1>2. CASE /\ writer[g].try = 1 /\ UNCHANGED child
           /\ writer' = [writer EXCEPT ![g] = [W!NoWriter EXCEPT !.pc = "begin", !.try = 2, !.job = writer[g].job]]
  <2>1. PICK y : y = [W!NoWriter EXCEPT !.pc = "begin", !.try = 2, !.job = writer[g].job]
    OBVIOUS
  <2>2. /\ y \in Workers /\ y.pc = "begin" /\ y.try = 2 /\ ~y.op /\ ~y.file /\ y.object = "unknown" /\ y.index = "unknown"
    BY <1>1, <2>1 DEF W!NoWriter, Workers, Spots, Found
  <2>3. /\ writer' \in [W!Leases -> Workers] /\ writer'[g] = y
        /\ \A h \in W!Leases : h # g => writer'[h] = writer[h]
    BY <1>1, <1>2, <2>1, <2>2 DEF WritesTyped
  <2>4. ASSUME NEW w \in W!Writes PROVE (Storable(w)' => Storable(w)) /\ (Insertable(w)' => Insertable(w))
    <3>1. w[1] \in W!Leases /\ w[2] \in {1, 2}
      BY <1>1, CurrentIs
    <3>2. CASE w[1] = g
      BY <1>1, <1>2, <2>2, <2>3, <3>1, <3>2 DEF Storable, Insertable, Ahead
    <3>3. CASE w[1] # g
      BY <2>3, <3>1, <3>3 DEF Storable, Insertable, Ahead
    <3> QED BY <3>2, <3>3
  <2>5. WritesTyped' /\ Closed' /\ W!EvidenceKept' /\ W!NoWriteBehind'
    BY <1>1, <1>2, <2>3 DEF WritesInv, WritesTyped, Closed, W!Blocked, W!Open, W!EvidenceKept, W!NoWriteBehind, W!Owns
  <2>6. ASSUME NEW w \in W!Writes PROVE Entered(w)'
    <3>1. Entered(w) /\ w[1] \in W!Leases
      BY <1>1, CurrentIs DEF WritesInv
    <3>2. Tells(journal[w], w)'
      BY <1>1, <2>4, <3>1 DEF Entered, Tells
    <3>3. w[1] = g => journal[w].status = "none"
      BY <1>1, <1>2, <3>1 DEF Entered, Sees
    <3> QED BY <1>1, <2>3, <2>4, <3>1, <3>2, <3>3 DEF Entered
  <2>7. ASSUME NEW h \in W!Leases PROVE Sees(h)'
    <3>1. CASE h = g
      <4>1. PICK w \in W!Writes : w = <<g, 2>>
        BY DEF W!Writes
      <4>2. W!Current(g)' = w
        BY <2>2, <2>3, <4>1 DEF W!Current
      <4>3. Insertable(w)
        BY <1>1, <1>2, <4>1 DEF Insertable, Ahead
      <4>4. w \notin indexed
        BY <4>3 DEF WritesInv, Entered
      <4> QED BY <1>1, <2>2, <2>3, <3>1, <4>2, <4>4 DEF Sees
    <3>2. CASE h # g
      <4>1. writer'[h] = writer[h] /\ W!Current(h)' = W!Current(h)
        BY <2>3, <3>2 DEF W!Current
      <4> QED BY <1>1, <4>1 DEF WritesInv, Sees
    <3> QED BY <3>1, <3>2
  <2>8. Swept'
    BY <1>1, <2>4 DEF WritesInv, WritesTyped, Swept, Tells
  <2> QED BY <2>5, <2>6, <2>7, <2>8 DEF WritesInv
<1>3. CASE /\ writer[g].try # 1 /\ W!Move(g, "done")
           /\ child' = IF W!Owns(g) THEN [child EXCEPT !.status = "failed", !.lease = 0] ELSE child
  <2> PICK w \in W!Writes : w = W!Current(g)
    BY OfWorker
  <2>1. PICK y \in Workers : y = [writer[g] EXCEPT !.pc = "done"] /\ writer' = [writer EXCEPT ![g] = y]
    BY <1>1, <1>3, MoveIs DEF Spots
  <2>2. /\ y.pc = "done" /\ y.try = writer[g].try /\ y.op = writer[g].op
        /\ y.file = writer[g].file /\ y.object = writer[g].object /\ y.index = writer[g].index
    BY <1>1, <2>1 DEF Workers
  <2>3. Onward(g, y)
    BY <1>1, <2>1, <2>2 DEF Onward
  <2>4. /\ writer'[g] = y /\ W!Current(g)' = w
        /\ (Storable(w)' => Storable(w)) /\ (Insertable(w)' => Insertable(w))
    BY <1>1, <2>3, OnwardMoves
  <2>5. Sees(g)'
    BY <1>1, <1>3, <2>2, <2>4, OfWorker DEF Sees, Workers
  <2>6. /\ child' \in Children /\ child'.kept = child.kept /\ (child'.status = "success" => child.status = "success")
        /\ child'.status = "downloading" => (child.status = "downloading" /\ child'.lease = child.lease)
        /\ child.status = "success" => child'.status = "success"
    <3>1. child \in Children
      BY <1>1 DEF WritesTyped
    <3> QED BY <1>3, <3>1 DEF Children, W!Owns
  <2>7. Closed' /\ W!NoWriteBehind'
    BY <1>1, <2>6 DEF WritesInv, Closed, W!Blocked, W!Open, W!NoWriteBehind, W!Owns
  <2>8. Entered(w)'
    <3>1. Entered(w) /\ w[1] = g /\ w[2] = writer[g].try
      BY OfWorker
    <3> QED BY <1>1, <2>2, <2>4, <3>1 DEF Entered, Tells
  <2>9. journal' \in [W!Writes -> Entries] /\ objects' \subseteq W!Writes /\ indexed' \subseteq W!Writes
    BY <1>1 DEF WritesTyped
  <2>10. w \in (objects' \cup indexed') \ {child'.kept} => journal'[w].status # "resolved"
    BY <1>1, <2>6, OfWorker
  <2>11. /\ \A o \in W!Writes : o # w => /\ journal'[o] = journal[o]
                                         /\ o \in objects' => o \in objects
                                         /\ o \in indexed' => o \in indexed
         /\ objects' \ objects = {} /\ indexed' \ indexed = {} /\ UNCHANGED resolver
    BY <1>1
  <2> QED BY <2>3, <2>5, <2>6, <2>7, <2>8, <2>9, <2>10, <2>11, WorkKeeps
<1> QED BY <1>2, <1>3 DEF W!Again

LEMMA ClaimKeeps == ASSUME WritesInv, NEW g \in W!Leases, W!ClaimChild(g) PROVE WritesInv'
<1> PICK w \in W!Writes : w = W!Current(g)
  BY OfWorker
<1>1. /\ WritesTyped /\ Sees(g) /\ Entered(w) /\ w[1] = g /\ w[2] = writer[g].try
      /\ writer[g] \in Workers /\ UNCHANGED <<objects, indexed, journal, resolver>>
      /\ child' = [child EXCEPT !.status = "downloading", !.lease = g] /\ child.status = "pending" /\ ~W!Blocked
      /\ W!Move(g, "begin")
  BY OfWorker DEF W!ClaimChild
<1>2. writer[g].pc = "off"
  BY DEF W!ClaimChild, W!Leases
<1>3. PICK y \in Workers : y = [writer[g] EXCEPT !.pc = "begin"] /\ writer' = [writer EXCEPT ![g] = y]
  BY <1>1, MoveIs DEF Spots
<1>4. /\ y.pc = "begin" /\ y.try = writer[g].try /\ y.op = writer[g].op /\ y.job = writer[g].job
      /\ y.file = writer[g].file /\ y.object = writer[g].object /\ y.index = writer[g].index
  BY <1>1, <1>3 DEF Workers
<1>5. Onward(g, y)
  BY <1>2, <1>3, <1>4 DEF Onward
<1>6. /\ writer'[g] = y /\ W!Current(g)' = w
      /\ (Storable(w)' => Storable(w)) /\ (Insertable(w)' => Insertable(w))
  BY <1>1, <1>5, OnwardMoves
<1>7. Sees(g)'
  BY <1>1, <1>2, <1>4, <1>6 DEF Sees, W!NoWriter
<1>8. child' \in Children /\ child'.kept = child.kept /\ child'.status = "downloading"
  <2>1. child \in Children
    BY <1>1 DEF WritesTyped
  <2> QED BY <1>1, <2>1 DEF Children
<1>9. Closed' /\ W!NoWriteBehind'
  BY <1>1, <1>8 DEF WritesInv, Closed, W!Blocked, W!Open, W!NoWriteBehind
<1>10. Entered(w)'
  BY <1>1, <1>2, <1>6 DEF Entered, Tells
<1>11. journal' \in [W!Writes -> Entries] /\ objects' \subseteq W!Writes /\ indexed' \subseteq W!Writes
  BY <1>1 DEF WritesTyped
<1>12. w \in (objects' \cup indexed') \ {child'.kept} => journal'[w].status # "resolved"
  BY <1>1, <1>8, OfWorker
<1>13. /\ \A o \in W!Writes : o # w => /\ journal'[o] = journal[o]
                                       /\ o \in objects' => o \in objects
                                       /\ o \in indexed' => o \in indexed
       /\ objects' \ objects = {} /\ indexed' \ indexed = {} /\ UNCHANGED resolver
  BY <1>1
<1> QED BY <1>5, <1>7, <1>8, <1>9, <1>10, <1>11, <1>12, <1>13, WorkKeeps

LEMMA EndsKeep == ASSUME WritesInv, W!LeaseExpires \/ W!RetryChild PROVE WritesInv'
<1>1. child \in Children
  BY DEF WritesInv, WritesTyped
<1>2. child' = [child EXCEPT !.status = "pending"] /\ child.status \in {"downloading", "failed"}
      /\ UNCHANGED <<writer, objects, indexed, journal, resolver>>
  BY DEF W!LeaseExpires, W!RetryChild
<1>3. child' \in Children /\ child'.status = "pending" /\ child'.kept = child.kept
  BY <1>1, <1>2 DEF Children
<1> QED BY <1>2, <1>3, ChildKeeps

LEMMA CrashKeeps == ASSUME WritesInv, W!CrashAll PROVE WritesInv'
<1>1. /\ UNCHANGED <<child, objects, indexed, journal>> /\ resolver' = W!Resting
      /\ writer' = [g \in W!Leases |-> IF writer[g].pc = "off" THEN W!NoWriter ELSE [W!NoWriter EXCEPT !.pc = "gone"]]
  BY DEF W!CrashAll
<1>2. /\ W!NoWriter \in Workers /\ W!Resting \in Sweepers /\ W!Resting.pc = "idle"
      /\ [W!NoWriter EXCEPT !.pc = "gone"] \in Workers /\ [W!NoWriter EXCEPT !.pc = "gone"].pc = "gone"
      /\ [W!NoWriter EXCEPT !.pc = "gone"].try = 1 /\ ~[W!NoWriter EXCEPT !.pc = "gone"].op
  BY DEF W!NoWriter, W!Resting, W!NoRow, Workers, Entries, Sweepers, Spots, Found
<1>3. writer' \in [W!Leases -> Workers]
  BY <1>1, <1>2
<1>4. \A g \in W!Leases : \/ writer[g].pc = "off" /\ writer'[g] = writer[g]
                          \/ writer[g].pc # "off" /\ writer'[g].pc = "gone" /\ writer'[g].try = 1 /\ ~writer'[g].op
  BY <1>1, <1>2 DEF WritesInv, Sees
<1>5. WritesTyped /\ \A w \in W!Writes : w[1] \in W!Leases
  BY CurrentIs DEF WritesInv
<1>6. WritesTyped'
  <2>1. resolver' \in Sweepers /\ resolver'.pc = "idle"
    BY <1>1, <1>2
  <2> QED BY <1>1, <1>3, <1>5, <2>1 DEF WritesTyped
<1>7. Closed' /\ W!EvidenceKept' /\ W!NoWriteBehind' /\ Swept'
  BY <1>1, <1>2 DEF WritesInv, Closed, W!Blocked, W!Open, W!EvidenceKept, W!NoWriteBehind, W!Owns, Swept
<1>8. ASSUME NEW w \in W!Writes PROVE Entered(w)'
  <2>1. (Storable(w)' => Storable(w)) /\ (Insertable(w)' => Insertable(w))
    BY <1>4, <1>5 DEF Storable, Insertable, Ahead
  <2>2. Entered(w)
    BY DEF WritesInv
  <2>3. Tells(journal[w], w)'
    BY <1>1, <2>1, <2>2 DEF Entered, Tells
  <2> QED BY <1>1, <1>4, <1>5, <2>1, <2>2, <2>3 DEF Entered
<1>9. ASSUME NEW g \in W!Leases PROVE Sees(g)'
  <2>1. CASE writer[g].pc = "off" /\ writer'[g] = writer[g]
    <3>1. W!Current(g)' = W!Current(g)
      BY <2>1 DEF W!Current
    <3> QED BY <1>1, <2>1, <3>1 DEF WritesInv, Sees
  <2>2. CASE writer'[g].pc = "gone" /\ writer'[g].try = 1 /\ ~writer'[g].op
    BY <2>2 DEF Sees
  <2> QED BY <1>4, <2>1, <2>2
<1> QED BY <1>6, <1>7, <1>8, <1>9 DEF WritesInv

-----------------------------------------------------------------------------
(* The sweep over the journal.                                             *)

LEMMA SweepKeeps ==
  ASSUME WritesInv, UNCHANGED <<child, writer>>, NEW w \in W!Writes,
         journal' \in [W!Writes -> Entries], \A o \in W!Writes : o # w => journal'[o] = journal[o],
         objects' \subseteq objects, indexed' \subseteq indexed, Tells(journal[w], w)',
         \/ journal'[w].status = journal[w].status
         \/ /\ journal[w].status = "pending" /\ journal'[w].status = "resolved"
            /\ w \notin objects' \cup indexed' /\ ~Insertable(w),
         resolver' \in Sweepers, resolver'.pc # "idle" => resolver'.write = w /\ ~resolver'.kept /\ Tells(resolver.row, w)'
  PROVE  WritesInv'
<1>1. WritesTyped /\ \A o \in W!Writes : Entered(o)
  BY DEF WritesInv
<1>2. WritesTyped'
  BY <1>1 DEF WritesTyped
<1>3. Closed' /\ W!NoWriteBehind'
  BY NoneOpens
<1>4. \A o \in W!Writes : (Storable(o)' <=> Storable(o)) /\ (Insertable(o)' <=> Insertable(o))
  BY DEF Storable, Insertable, Ahead
<1>5. ASSUME NEW o \in W!Writes PROVE Entered(o)'
  <2>1. Entered(o)
    BY <1>1
  <2>2. Tells(journal[o], o)'
    <3>1. CASE o = w
      BY <3>1
    <3>2. CASE o # w
      BY <1>4, <2>1, <3>2 DEF Entered, Tells
    <3> QED BY <3>1, <3>2
  <2>3. journal'[o].status # "none" => journal[o].status # "none"
    OBVIOUS
  <2>4. Insertable(o) => journal'[o].status # "resolved"
    BY <2>1 DEF Entered
  <2> QED BY <1>4, <2>1, <2>2, <2>3, <2>4 DEF Entered
<1>6. W!EvidenceKept'
  <2> SUFFICES ASSUME NEW o \in (objects' \cup indexed') \ {child'.kept}, journal'[o].status # "none"
               PROVE  journal'[o].status = "pending"
    BY DEF W!EvidenceKept, W!Open
  <2>1. o \in W!Writes /\ o \in (objects \cup indexed) \ {child.kept}
    BY <1>1 DEF WritesTyped
  <2> QED BY <2>1 DEF WritesInv, W!EvidenceKept, W!Open
<1>7. ASSUME NEW h \in W!Leases PROVE Sees(h)'
  BY DEF WritesInv, Sees, W!Current
<1>8. Swept'
  BY DEF Swept
<1> QED BY <1>2, <1>3, <1>5, <1>6, <1>7, <1>8 DEF WritesInv

LEMMA ClaimRowKeeps == ASSUME WritesInv, NEW w \in W!Writes, W!ClaimRow(w) PROVE WritesInv'
<1>1. /\ WritesTyped /\ Entered(w) /\ journal[w] \in Entries
  BY DEF WritesInv, WritesTyped
<1>2. /\ UNCHANGED <<child, writer, objects, indexed>> /\ journal[w].status = "pending"
      /\ journal' = [journal EXCEPT ![w].leased = TRUE]
      /\ resolver' = [pc |-> "look", write |-> w, row |-> journal[w], kept |-> child.status = "success"]
  BY DEF W!ClaimRow, W!Open
<1>3. child.status # "success"
  BY <1>2 DEF WritesInv, Closed, W!Blocked, W!Open
<1>4. resolver' \in Sweepers /\ resolver'.write = w /\ ~resolver'.kept /\ resolver'.row = journal[w]
  BY <1>1, <1>2, <1>3 DEF Sweepers
<1>5. PICK e : e = [journal[w] EXCEPT !.leased = TRUE]
  OBVIOUS
<1>6. journal' = [journal EXCEPT ![w] = e]
  BY <1>2, <1>5
<1>7. /\ e \in Entries /\ e.status = journal[w].status /\ e.path = journal[w].path /\ e.file = journal[w].file
      /\ e.object = journal[w].object /\ e.index = journal[w].index
  BY <1>1, <1>5 DEF Entries
<1>8. /\ journal' \in [W!Writes -> Entries] /\ journal'[w] = e
      /\ \A o \in W!Writes : o # w => journal'[o] = journal[o]
  BY <1>1, <1>6, <1>7 DEF WritesTyped
<1>9. (Storable(w)' <=> Storable(w)) /\ (Insertable(w)' <=> Insertable(w))
  BY <1>2 DEF Storable, Insertable, Ahead
<1>10. Tells(journal[w], w)' /\ Tells(resolver.row, w)'
  BY <1>1, <1>2, <1>4, <1>7, <1>8, <1>9 DEF Entered, Tells
<1> QED BY <1>2, <1>4, <1>7, <1>8, <1>10, SweepKeeps

\* What the sweep has at a step.
LEMMA Holding ==
  ASSUME WritesInv, resolver.pc # "idle", UNCHANGED writer
  PROVE  /\ WritesTyped /\ resolver \in Sweepers /\ resolver.write \in W!Writes /\ resolver.row \in Entries
         /\ ~resolver.kept /\ Tells(resolver.row, resolver.write)
         /\ Entered(resolver.write) /\ journal[resolver.write] \in Entries
         /\ \A o \in W!Writes : (Storable(o)' <=> Storable(o)) /\ (Insertable(o)' <=> Insertable(o))
<1>1. WritesTyped /\ resolver \in Sweepers /\ resolver.write \in W!Writes
  BY DEF WritesInv, WritesTyped
<1>2. resolver.row \in Entries /\ journal[resolver.write] \in Entries
  BY <1>1 DEF WritesTyped, Sweepers
<1> QED BY <1>1, <1>2 DEF WritesInv, Swept, Storable, Insertable, Ahead

\* The sweep puts its row down, or only looks.
LEMMA LookKeeps == ASSUME WritesInv, W!Look PROVE WritesInv'
<1>1. resolver.pc = "look" /\ UNCHANGED <<child, writer, objects, indexed>>
  BY DEF W!Look
<1> PICK w \in W!Writes : w = resolver.write
  BY <1>1, Holding
<1>2. /\ WritesTyped /\ resolver \in Sweepers /\ Tells(resolver.row, w) /\ Entered(w) /\ journal[w] \in Entries
      /\ ~resolver.kept /\ (Storable(w)' <=> Storable(w)) /\ (Insertable(w)' <=> Insertable(w))
  BY <1>1, Holding
<1>3. W!Resting \in Sweepers /\ W!Resting.pc = "idle"
  BY DEF W!Resting, W!NoRow, Entries, Sweepers, Found
<1>4. \/ UNCHANGED journal
      \/ journal' = [journal EXCEPT ![w].resolution = "operator_required", ![w].leased = FALSE]
  BY <1>2 DEF W!Look
<1>5. /\ journal' \in [W!Writes -> Entries] /\ journal'[w].status = journal[w].status
      /\ journal'[w].path = journal[w].path /\ journal'[w].file = journal[w].file
      /\ journal'[w].object = journal[w].object /\ journal'[w].index = journal[w].index
      /\ \A o \in W!Writes : o # w => journal'[o] = journal[o]
  <2>1. CASE UNCHANGED journal
    BY <1>2, <2>1 DEF WritesTyped
  <2>2. CASE journal' = [journal EXCEPT ![w].resolution = "operator_required", ![w].leased = FALSE]
    <3>1. PICK e : e = [journal[w] EXCEPT !.resolution = "operator_required", !.leased = FALSE]
      OBVIOUS
    <3>2. journal' = [journal EXCEPT ![w] = e]
      BY <2>2, <3>1
    <3>3. /\ e \in Entries /\ e.status = journal[w].status /\ e.path = journal[w].path /\ e.file = journal[w].file
          /\ e.object = journal[w].object /\ e.index = journal[w].index
      BY <1>2, <3>1 DEF Entries
    <3> QED BY <1>2, <3>2, <3>3 DEF WritesTyped
  <2> QED BY <1>4, <2>1, <2>2
<1>6. Tells(journal[w], w)'
  BY <1>1, <1>2, <1>5 DEF Entered, Tells
<1>7. resolver' \in Sweepers /\ (resolver'.pc # "idle" => resolver'.write = w /\ ~resolver'.kept /\ resolver'.row = resolver.row)
  <2>1. CASE resolver' = W!Resting
    BY <1>3, <2>1
  <2>2. CASE resolver' = [resolver EXCEPT !.pc = "object"]
    BY <1>2, <2>2 DEF Sweepers
  <2> QED BY <2>1, <2>2 DEF W!Look
<1>8. resolver'.pc # "idle" => Tells(resolver.row, w)'
  BY <1>1, <1>2, <1>7 DEF Tells
<1> QED BY <1>1, <1>5, <1>6, <1>7, <1>8, SweepKeeps

LEMMA StillHeldKeeps == ASSUME WritesInv, W!StillHeld PROVE WritesInv'
<1>1. resolver.pc = "still" /\ UNCHANGED <<child, writer, objects, indexed, journal>>
  BY DEF W!StillHeld
<1> PICK w \in W!Writes : w = resolver.write
  BY <1>1, Holding
<1>2. /\ WritesTyped /\ resolver \in Sweepers /\ Tells(resolver.row, w) /\ Entered(w)
      /\ ~resolver.kept /\ (Storable(w)' <=> Storable(w)) /\ (Insertable(w)' <=> Insertable(w))
  BY <1>1, Holding
<1>3. W!Resting \in Sweepers /\ W!Resting.pc = "idle"
  BY DEF W!Resting, W!NoRow, Entries, Sweepers, Found
<1>4. resolver' \in Sweepers /\ (resolver'.pc # "idle" => resolver'.write = w /\ ~resolver'.kept /\ resolver'.row = resolver.row)
  <2>1. CASE resolver' = W!Resting
    BY <1>3, <2>1
  <2>2. CASE resolver' = [resolver EXCEPT !.pc = "index"]
    BY <1>2, <2>2 DEF Sweepers
  <2> QED BY <2>1, <2>2 DEF W!StillHeld
<1>5. Tells(journal[w], w)' /\ (resolver'.pc # "idle" => Tells(resolver.row, w)')
  BY <1>1, <1>2, <1>4 DEF Entered, Tells
<1>6. journal' \in [W!Writes -> Entries] /\ journal'[w].status = journal[w].status
      /\ \A o \in W!Writes : o # w => journal'[o] = journal[o]
  BY <1>1, <1>2 DEF WritesTyped
<1> QED BY <1>1, <1>4, <1>5, <1>6, SweepKeeps

LEMMA DeleteObjectKeeps == ASSUME WritesInv, W!DeleteObject PROVE WritesInv'
<1>1. resolver.pc = "object" /\ UNCHANGED <<child, writer, indexed, journal>>
  BY DEF W!DeleteObject
<1> PICK w \in W!Writes : w = resolver.write
  BY <1>1, Holding
<1>2. /\ WritesTyped /\ resolver \in Sweepers /\ resolver.row \in Entries /\ Tells(resolver.row, w) /\ Entered(w)
      /\ ~resolver.kept /\ (Storable(w)' <=> Storable(w)) /\ (Insertable(w)' <=> Insertable(w))
  BY <1>1, Holding
<1>3. PICK st \in Found : /\ resolver' = [resolver EXCEPT !.pc = "still", !.row.object = st]
                          /\ objects' \subseteq objects
                          /\ st = "deleted" => /\ resolver.row.path \/ resolver.row.object = "deleted"
                                               /\ w \notin objects'
  <2> DEFINE try == resolver.row.path /\ resolver.row.object # "deleted"
  <2>1. CASE /\ objects' = (IF try THEN objects \ {w} ELSE objects)
             /\ resolver' = [resolver EXCEPT !.pc = "still", !.row.object = IF try THEN "deleted" ELSE @]
    <3>1. PICK st : st = (IF try THEN "deleted" ELSE resolver.row.object)
      OBVIOUS
    <3>2. st \in Found
      BY <1>2, <3>1 DEF Entries, Found
    <3>3. resolver' = [resolver EXCEPT !.pc = "still", !.row.object = st]
      BY <2>1, <3>1
    <3>4. st = "deleted" => (resolver.row.path \/ resolver.row.object = "deleted") /\ w \notin objects'
      BY <1>2, <2>1, <3>1 DEF Tells
    <3> QED BY <2>1, <3>2, <3>3, <3>4
  <2>2. CASE resolver' = [resolver EXCEPT !.pc = "still", !.row.object = "unknown"] /\ objects' = objects
    BY <2>2 DEF Found
  <2> QED BY <2>1, <2>2 DEF W!DeleteObject
<1>4. PICK r : r = [resolver.row EXCEPT !.object = st]
  OBVIOUS
<1>5. r \in Entries /\ r.object = st /\ r.path = resolver.row.path /\ r.file = resolver.row.file /\ r.index = resolver.row.index
  BY <1>2, <1>4 DEF Entries
<1>6. resolver' = [resolver EXCEPT !.pc = "still", !.row = r]
  BY <1>3, <1>4
<1>7. resolver' \in Sweepers /\ resolver'.write = w /\ ~resolver'.kept /\ resolver'.row = r
  BY <1>2, <1>5, <1>6 DEF Sweepers
<1>8. Tells(journal[w], w)' /\ Tells(resolver.row, w)'
  BY <1>1, <1>2, <1>3, <1>5, <1>7 DEF Entered, Tells
<1>9. journal' \in [W!Writes -> Entries] /\ journal'[w].status = journal[w].status
      /\ \A o \in W!Writes : o # w => journal'[o] = journal[o]
  BY <1>1, <1>2 DEF WritesTyped
<1> QED BY <1>1, <1>3, <1>7, <1>8, <1>9, SweepKeeps

LEMMA DeleteIndexKeeps == ASSUME WritesInv, W!DeleteIndex PROVE WritesInv'
<1>1. resolver.pc = "index" /\ UNCHANGED <<child, writer, objects, journal>>
  BY DEF W!DeleteIndex
<1> PICK w \in W!Writes : w = resolver.write
  BY <1>1, Holding
<1>2. /\ WritesTyped /\ resolver \in Sweepers /\ resolver.row \in Entries /\ Tells(resolver.row, w) /\ Entered(w)
      /\ ~resolver.kept /\ (Storable(w)' <=> Storable(w)) /\ (Insertable(w)' <=> Insertable(w))
  BY <1>1, Holding
<1>3. PICK st \in Found : /\ resolver' = [resolver EXCEPT !.pc = "record", !.row.index = st]
                          /\ indexed' \subseteq indexed
                          /\ st = "deleted" => /\ resolver.row.file \/ resolver.row.index = "deleted"
                                               /\ w \notin indexed'
  <2> DEFINE try == resolver.row.file /\ resolver.row.index # "deleted"
  <2>1. CASE /\ indexed' = (IF try THEN indexed \ {w} ELSE indexed)
             /\ resolver' = [resolver EXCEPT !.pc = "record", !.row.index = IF try THEN "deleted" ELSE @]
    <3>1. PICK st : st = (IF try THEN "deleted" ELSE resolver.row.index)
      OBVIOUS
    <3>2. st \in Found
      BY <1>2, <3>1 DEF Entries, Found
    <3>3. resolver' = [resolver EXCEPT !.pc = "record", !.row.index = st]
      BY <2>1, <3>1
    <3>4. st = "deleted" => (resolver.row.file \/ resolver.row.index = "deleted") /\ w \notin indexed'
      BY <1>2, <2>1, <3>1 DEF Tells
    <3> QED BY <2>1, <3>2, <3>3, <3>4
  <2>2. CASE resolver' = [resolver EXCEPT !.pc = "record", !.row.index = "unknown"] /\ indexed' = indexed
    BY <2>2 DEF Found
  <2> QED BY <2>1, <2>2 DEF W!DeleteIndex
<1>4. PICK r : r = [resolver.row EXCEPT !.index = st]
  OBVIOUS
<1>5. r \in Entries /\ r.index = st /\ r.path = resolver.row.path /\ r.file = resolver.row.file /\ r.object = resolver.row.object
  BY <1>2, <1>4 DEF Entries
<1>6. resolver' = [resolver EXCEPT !.pc = "record", !.row = r]
  BY <1>3, <1>4
<1>7. resolver' \in Sweepers /\ resolver'.write = w /\ ~resolver'.kept /\ resolver'.row = r
  BY <1>2, <1>5, <1>6 DEF Sweepers
<1>8. Tells(journal[w], w)' /\ Tells(resolver.row, w)'
  BY <1>1, <1>2, <1>3, <1>5, <1>7 DEF Entered, Tells
<1>9. journal' \in [W!Writes -> Entries] /\ journal'[w].status = journal[w].status
      /\ \A o \in W!Writes : o # w => journal'[o] = journal[o]
  BY <1>1, <1>2 DEF WritesTyped
<1> QED BY <1>1, <1>3, <1>7, <1>8, <1>9, SweepKeeps

\* A row is closed as compensated only when object and index are known to be gone.
LEMMA RecordKeeps == ASSUME WritesInv, W!Record PROVE WritesInv'
<1>1. resolver.pc = "record" /\ UNCHANGED <<child, writer, objects, indexed>> /\ resolver' = W!Resting
  BY DEF W!Record
<1> PICK w \in W!Writes : w = resolver.write
  BY <1>1, Holding
<1>2. /\ WritesTyped /\ resolver.row \in Entries /\ Tells(resolver.row, w) /\ Entered(w) /\ journal[w] \in Entries
      /\ (Storable(w)' <=> Storable(w)) /\ (Insertable(w)' <=> Insertable(w))
  BY <1>1, Holding
<1>3. W!Resting \in Sweepers /\ W!Resting.pc = "idle"
  BY DEF W!Resting, W!NoRow, Entries, Sweepers, Found
<1>4. CASE UNCHANGED journal
  <2>1. Tells(journal[w], w)'
    BY <1>1, <1>2, <1>4 DEF Entered, Tells
  <2>2. journal' \in [W!Writes -> Entries] /\ journal'[w].status = journal[w].status
        /\ \A o \in W!Writes : o # w => journal'[o] = journal[o]
    BY <1>2, <1>4 DEF WritesTyped
  <2> QED BY <1>1, <1>3, <2>1, <2>2, SweepKeeps
<1>5. CASE journal' # journal
  <2> DEFINE clean == resolver.row.object = "deleted" /\ resolver.row.index = "deleted"
  <2>1. /\ journal[w].status = "pending"
        /\ journal' = [journal EXCEPT ![w].object = resolver.row.object, ![w].index = resolver.row.index,
                                      ![w].status = IF clean THEN "resolved" ELSE "pending",
                                      ![w].resolution = IF clean THEN "compensated" ELSE @,
                                      ![w].leased = FALSE]
    BY <1>5 DEF W!Record, W!HoldsRow, W!Open
  <2>2. PICK st, re : /\ st = (IF clean THEN "resolved" ELSE "pending") /\ st \in {"resolved", "pending"}
                      /\ re = (IF clean THEN "compensated" ELSE journal[w].resolution)
                      /\ re \in {"none", "committed", "compensated", "operator_required"}
    BY <1>2 DEF Entries
  <2>3. PICK e : e = [journal[w] EXCEPT !.object = resolver.row.object, !.index = resolver.row.index,
                                        !.status = st, !.resolution = re, !.leased = FALSE]
    OBVIOUS
  <2>4. journal' = [journal EXCEPT ![w] = e]
    BY <2>1, <2>2, <2>3
  <2>5. resolver.row.object \in Found /\ resolver.row.index \in Found
    BY <1>2 DEF Entries
  <2>6. /\ e \in Entries /\ e.object = resolver.row.object /\ e.index = resolver.row.index /\ e.status = st
        /\ e.path = journal[w].path /\ e.file = journal[w].file
    <3>1. journal[w] \in Entries /\ st \in {"resolved", "pending"}
          /\ re \in {"none", "committed", "compensated", "operator_required"}
      BY <1>2, <2>2
    <3> QED BY <2>3, <2>5, <3>1 DEF Entries
  <2>7. /\ journal' \in [W!Writes -> Entries] /\ journal'[w] = e
        /\ \A o \in W!Writes : o # w => journal'[o] = journal[o]
    BY <1>2, <2>4, <2>6 DEF WritesTyped
  <2>8. Tells(journal[w], w)'
    BY <1>1, <1>2, <2>6, <2>7 DEF Entered, Tells
  <2>9. \/ journal'[w].status = journal[w].status
        \/ /\ journal[w].status = "pending" /\ journal'[w].status = "resolved"
           /\ w \notin objects' \cup indexed' /\ ~Insertable(w)
    BY <1>1, <1>2, <2>1, <2>2, <2>6, <2>7, SMTT(40) DEF Tells
  <2> HIDE DEF clean
  <2> QED BY <1>1, <1>3, <2>7, <2>8, <2>9, SweepKeeps
<1> QED BY <1>4, <1>5

LEMMA WritesSteps == WritesInv /\ [W!Next]_(W!vars) => WritesInv'
<1> SUFFICES ASSUME WritesInv, [W!Next]_(W!vars) PROVE WritesInv'
  OBVIOUS
<1>1. ASSUME NEW g \in W!Leases, W!Work(g) PROVE WritesInv'
  BY <1>1, BeginKeeps, SaveKeeps, MarkObjectKeeps, InsertKeeps, MarkIndexKeeps, UndoKeeps, UndoIndexKeeps, ValidateKeeps,
     SettleKeeps, CompensateKeeps, CompensateIndexKeeps, NoteKeeps, AgainKeeps DEF W!Work
<1>2. CASE W!Resolve
  BY <1>2, LookKeeps, DeleteObjectKeeps, StillHeldKeeps, DeleteIndexKeeps, RecordKeeps DEF W!Resolve
<1>3. CASE UNCHANGED W!vars
  <2>1. UNCHANGED <<child, writer, objects, indexed, journal, resolver>>
    BY <1>3 DEF W!vars
  <2>2. child' \in Children
    BY <2>1 DEF WritesInv, WritesTyped
  <2> QED BY <2>1, <2>2, ChildKeeps
<1> QED BY <1>1, <1>2, <1>3, ClaimKeeps, ClaimRowKeeps, EndsKeep, CrashKeeps DEF W!Next

-----------------------------------------------------------------------------
(* The single files of a chat, whatever their number and that of the       *)
(* mishaps.  In their part the variables have other names.                 *)

handler == v1
entry   == v2
group   == v3
task    == v4
worker  == v5
laid    == v6    \* objects
filed   == v7    \* indexed
excused == v8
session == v9
scopes  == v10

Posts  == {"sent", "clear", "register", "silence", "notice", "add", "over"}
Signs  == {"none", "busy", "success", "failed"}
Errands  == [status : {"none", "pending", "active", "success", "failed", "cancelled"},
           aborted : BOOLEAN, late : BOOLEAN, again : BOOLEAN, cooling : BOOLEAN]
Spans  == {"off", "download", "save", "index", "undo", "check", "compensate", "compensateIndex", "mark",
           "failed", "thrown", "report", "finalize", "conclude"}
Hauls  == [pc : Spans, try : Nat, retried : BOOLEAN, cooldown : BOOLEAN, seen : Nat]

FilesTyped(M) ==
  /\ handler \in [M -> Posts] /\ entry \in [M -> Signs] /\ task \in [M -> Errands] /\ worker \in [M -> Hauls]
  /\ session \in Nat /\ v12 \in Nat /\ laid \cup filed \subseteq M \X Nat

Midway == {"index", "check", "undo", "compensate", "compensateIndex"}
Before == {"download", "save", "mark", "failed"}

\* The write of a try, and that nothing of it is there for no reason.
Haul(i)  == <<i, worker[i].try>>
Clean(i) == Haul(i) \in laid \cup filed => Haul(i) \in excused

Fresh(i) == \/ handler[i] # "over"
            \/ task[i].status \in {"pending", "failed"}
            \/ worker[i].pc \in Before

\* What the step of a task says of its file.
AtWork(i) ==
  /\ worker[i].pc \in Midway \cup Before \cup {"report"} <=> task[i].status = "active"
  /\ Fresh(i) => Clean(i)
  /\ worker[i].pc \in {"index", "check"} => Haul(i) \in laid
  /\ worker[i].pc \in {"index", "undo"} /\ Haul(i) \in filed => Haul(i) \in excused
  /\ worker[i].pc = "check" => Haul(i) \in filed
  /\ worker[i].pc = "compensateIndex" /\ Haul(i) \in laid => Haul(i) \in excused
  /\ worker[i].pc = "report" => /\ Haul(i) \in laid \cap filed /\ entry[i] # "busy"
                                /\ task[i].aborted => task[i].late

\* What is left of the file, and who sees to its entry.
Kept(i) ==
  /\ handler[i] # "over" => task[i].status = "none"
  /\ handler[i] \in {"sent", "clear", "register"} => entry[i] = "none"
  /\ task[i].status = "success" => Haul(i) \in laid \cap filed
  /\ entry[i] = "busy" => \/ handler[i] \in {"silence", "notice", "add"}
                          \/ task[i].status \in {"pending", "active"}
                          \/ worker[i].pc = "thrown"

Accounted(i) ==
  \A w \in (laid \cup filed) \ excused :
    w[1] = i => /\ w = Haul(i)
                /\ \/ worker[i].pc \in Midway
                   \/ /\ w \in laid \cap filed
                      /\ task[i].status # "failed"
                      /\ task[i].aborted => task[i].late

Right(i) == AtWork(i) /\ Kept(i) /\ Accounted(i)

FilesInv(M) == FilesTyped(M) /\ (session # 0 => session \in scopes) /\ \A i \in M : Right(i)

USE DEF handler, entry, group, task, worker, laid, filed, excused, session, scopes

LEMMA FilesStart == ASSUME NEW M, NEW n, F(M, n)!Init PROVE FilesInv(M)
<1>1. FilesTyped(M)
  BY DEF F!Init, F!NoTask, F!NoWorker, FilesTyped, Posts, Signs, Errands, Spans, Hauls
<1>2. session = 0 /\ laid = {} /\ filed = {}
  BY DEF F!Init
<1>3. ASSUME NEW i \in M PROVE Right(i)
  <2>1. handler[i] = "sent" /\ entry[i] = "none" /\ task[i].status = "none" /\ worker[i].pc = "off"
    BY DEF F!Init, F!NoTask, F!NoWorker
  <2> QED BY <1>2, <2>1 DEF Right, AtWork, Kept, Accounted, Fresh, Clean, Midway, Before
<1> QED BY <1>1, <1>2, <1>3 DEF FilesInv

LEMMA FilesHold ==
  ASSUME NEW M, NEW n, FilesInv(M) PROVE F(M, n)!Stored /\ F(M, n)!Tracked /\ F(M, n)!CardWorks
<1>1. ASSUME NEW i \in M, task[i].status = "success" PROVE Haul(i) \in laid \cap filed
  BY <1>1 DEF FilesInv, Right, Kept
<1>2. ASSUME NEW w \in (laid \cup filed) \ excused
      PROVE  /\ w = <<w[1], worker[w[1]].try>>
             /\ \/ worker[w[1]].pc \in Midway
                \/ /\ w \in laid \cap filed
                   /\ task[w[1]].status # "failed"
                   /\ task[w[1]].aborted => task[w[1]].late
  <2>1. w[1] \in M
    BY DEF FilesInv, FilesTyped
  <2> QED BY <2>1 DEF FilesInv, Right, Accounted, Haul
<1>3. F(M, n)!Stored
  BY <1>1, <1>2 DEF F!Stored, F!Write, F!Midway, Haul, Midway
<1>4. F(M, n)!Tracked /\ F(M, n)!CardWorks
  BY DEF FilesInv, Right, Kept, F!Tracked, F!CardWorks, F!Live
<1> QED BY <1>3, <1>4

\* Nothing of a file changes.
Stays(i) == /\ handler'[i] = handler[i] /\ entry'[i] = entry[i] /\ task'[i] = task[i] /\ worker'[i] = worker[i]
             /\ \A w : w[1] = i => /\ w \in laid' <=> w \in laid
                                   /\ w \in filed' <=> w \in filed
                                   /\ w \in excused' <=> w \in excused

LEMMA StillRight == ASSUME NEW i, Right(i), Stays(i) PROVE Right(i)'
<1>1. Haul(i)' = Haul(i) /\ Haul(i)[1] = i
  BY DEF Stays, Haul
<1>2. AtWork(i)' /\ Kept(i)'
  BY <1>1 DEF Right, AtWork, Kept, Fresh, Clean, Stays
<1>3. Accounted(i)'
  BY <1>1 DEF Right, Accounted, Stays
<1> QED BY <1>2, <1>3 DEF Right

\* A step that is of one file.
LEMMA OneFile ==
  ASSUME NEW M, FilesInv(M), FilesTyped(M)', (session # 0 => session \in scopes)', NEW i \in M, Right(i)',
         \A j \in M : j # i => Stays(j)
  PROVE  FilesInv(M)'
BY StillRight DEF FilesInv

LEMMA AdmitFailsIsRight == ASSUME NEW M, NEW n, FilesInv(M), NEW i \in M, F(M, n)!AdmitFails(i) PROVE FilesInv(M)'
<1>1. FilesTyped(M) /\ Right(i) /\ worker[i] \in Hauls /\ task[i] \in Errands
  BY DEF FilesInv, FilesTyped
<1>2. FilesTyped(M)'
  BY <1>1 DEF F!AdmitFails, F!Goto, F!Write, F!Happens, F!queued, F!stored, F!silent, FilesTyped, Posts, Signs, Errands, Spans, Hauls
<1>3. \A j \in M : j # i => Stays(j)
  BY <1>1 DEF F!AdmitFails, F!Goto, F!Write, F!Happens, F!queued, F!stored, F!silent, FilesTyped, Stays
<1>4. (session # 0 => session \in scopes)'
  BY <1>1 DEF F!AdmitFails, F!Goto, F!Write, F!Happens, F!queued, F!stored, F!silent, FilesInv
<1>5. AtWork(i)'
  BY <1>1 DEF F!AdmitFails, F!Goto, F!Write, F!Happens, F!queued, F!stored, F!silent, FilesTyped, Hauls, Errands, Right, AtWork, Kept, Fresh, Clean, Haul, Midway, Before
<1>6. Kept(i)'
  BY <1>1 DEF F!AdmitFails, F!Goto, F!Write, F!Happens, F!queued, F!stored, F!silent, FilesTyped, Hauls, Errands, Right, AtWork, Kept, Haul, Midway, Before
<1>7. Accounted(i)'
  BY <1>1 DEF F!AdmitFails, F!Goto, F!Write, F!Happens, F!queued, F!stored, F!silent, FilesTyped, Hauls, Errands, Right, AtWork, Accounted, Fresh, Clean, Haul, Midway, Before
<1> QED BY <1>2, <1>3, <1>4, <1>5, <1>6, <1>7, OneFile DEF Right

LEMMA RegisterIsRight == ASSUME NEW M, NEW n, FilesInv(M), NEW i \in M, F(M, n)!Register(i) PROVE FilesInv(M)'
<1>1. FilesTyped(M) /\ Right(i) /\ worker[i] \in Hauls /\ task[i] \in Errands
  BY DEF FilesInv, FilesTyped
<1>2. FilesTyped(M)'
  BY <1>1 DEF F!Register, F!Goto, F!Write, F!Happens, F!queued, F!stored, F!silent, F!UnderWay, FilesTyped, Posts, Signs, Errands, Spans, Hauls
<1>3. \A j \in M : j # i => Stays(j)
  BY <1>1 DEF F!Register, F!Goto, F!Write, F!Happens, F!queued, F!stored, F!silent, F!UnderWay, FilesTyped, Stays
<1>4. (session # 0 => session \in scopes)'
  BY <1>1 DEF F!Register, F!Goto, F!Write, F!Happens, F!queued, F!stored, F!silent, F!UnderWay, FilesInv
<1>5. AtWork(i)'
  BY <1>1 DEF F!Register, F!Goto, F!Write, F!Happens, F!queued, F!stored, F!silent, F!UnderWay, FilesTyped, Hauls, Errands, Right, AtWork, Kept, Fresh, Clean, Haul, Midway, Before
<1>6. Kept(i)'
  BY <1>1 DEF F!Register, F!Goto, F!Write, F!Happens, F!queued, F!stored, F!silent, F!UnderWay, FilesTyped, Hauls, Errands, Right, AtWork, Kept, Haul, Midway, Before
<1>7. Accounted(i)'
  BY <1>1 DEF F!Register, F!Goto, F!Write, F!Happens, F!queued, F!stored, F!silent, F!UnderWay, FilesTyped, Hauls, Errands, Right, AtWork, Accounted, Fresh, Clean, Haul, Midway, Before
<1> QED BY <1>2, <1>3, <1>4, <1>5, <1>6, <1>7, OneFile DEF Right

LEMMA NoticeIsRight == ASSUME NEW M, NEW n, FilesInv(M), NEW i \in M, F(M, n)!Notice(i) PROVE FilesInv(M)'
<1>1. FilesTyped(M) /\ Right(i) /\ worker[i] \in Hauls /\ task[i] \in Errands
  BY DEF FilesInv, FilesTyped
<1>2. FilesTyped(M)'
  BY <1>1 DEF F!Notice, F!Goto, F!Write, F!Happens, F!queued, F!stored, F!silent, FilesTyped, Posts, Signs, Errands, Spans, Hauls
<1>3. \A j \in M : j # i => Stays(j)
  BY <1>1 DEF F!Notice, F!Goto, F!Write, F!Happens, F!queued, F!stored, F!silent, FilesTyped, Stays
<1>4. (session # 0 => session \in scopes)'
  BY <1>1 DEF F!Notice, F!Goto, F!Write, F!Happens, F!queued, F!stored, F!silent, FilesInv
<1>5. AtWork(i)'
  BY <1>1 DEF F!Notice, F!Goto, F!Write, F!Happens, F!queued, F!stored, F!silent, FilesTyped, Hauls, Errands, Right, AtWork, Kept, Fresh, Clean, Haul, Midway, Before
<1>6. Kept(i)'
  BY <1>1 DEF F!Notice, F!Goto, F!Write, F!Happens, F!queued, F!stored, F!silent, FilesTyped, Hauls, Errands, Right, AtWork, Kept, Haul, Midway, Before
<1>7. Accounted(i)'
  BY <1>1 DEF F!Notice, F!Goto, F!Write, F!Happens, F!queued, F!stored, F!silent, FilesTyped, Hauls, Errands, Right, AtWork, Accounted, Fresh, Clean, Haul, Midway, Before
<1> QED BY <1>2, <1>3, <1>4, <1>5, <1>6, <1>7, OneFile DEF Right

LEMMA SilenceIsRight == ASSUME NEW M, NEW n, FilesInv(M), NEW i \in M, F(M, n)!Silence(i) PROVE FilesInv(M)'
<1>1. FilesTyped(M) /\ Right(i) /\ worker[i] \in Hauls /\ task[i] \in Errands
  BY DEF FilesInv, FilesTyped
<1>2. FilesTyped(M)'
  BY <1>1 DEF F!Silence, F!Goto, F!Write, F!Happens, F!queued, F!stored, F!silent, FilesTyped, Posts, Signs, Errands, Spans, Hauls
<1>3. \A j \in M : j # i => Stays(j)
  BY <1>1 DEF F!Silence, F!Goto, F!Write, F!Happens, F!queued, F!stored, F!silent, FilesTyped, Stays
<1>4. (session # 0 => session \in scopes)'
  BY <1>1 DEF F!Silence, F!Goto, F!Write, F!Happens, F!queued, F!stored, F!silent, FilesInv
<1>5. AtWork(i)'
  BY <1>1 DEF F!Silence, F!Goto, F!Write, F!Happens, F!queued, F!stored, F!silent, FilesTyped, Hauls, Errands, Right, AtWork, Kept, Fresh, Clean, Haul, Midway, Before
<1>6. Kept(i)'
  BY <1>1 DEF F!Silence, F!Goto, F!Write, F!Happens, F!queued, F!stored, F!silent, FilesTyped, Hauls, Errands, Right, AtWork, Kept, Haul, Midway, Before
<1>7. Accounted(i)'
  BY <1>1 DEF F!Silence, F!Goto, F!Write, F!Happens, F!queued, F!stored, F!silent, FilesTyped, Hauls, Errands, Right, AtWork, Accounted, Fresh, Clean, Haul, Midway, Before
<1> QED BY <1>2, <1>3, <1>4, <1>5, <1>6, <1>7, OneFile DEF Right

LEMMA StartIsRight == ASSUME NEW M, NEW n, FilesInv(M), NEW i \in M, F(M, n)!Start(i) PROVE FilesInv(M)'
<1> PICK y : y = [worker[i] EXCEPT !.pc = "download", !.try = worker[i].try + 1, !.cooldown = FALSE]
  OBVIOUS
<1>1. FilesTyped(M) /\ Right(i) /\ worker[i] \in Hauls /\ task[i] \in Errands
  BY DEF FilesInv, FilesTyped
<1>2. /\ y \in Hauls /\ y.pc = "download" /\ y.try = worker[i].try + 1 /\ Haul(i)' = <<i, worker[i].try + 1>>
      /\ worker' = [worker EXCEPT ![i] = y] /\ worker'[i] = y
  <2>1. y \in Hauls /\ y.pc = "download" /\ y.try = worker[i].try + 1
    <3>1. worker[i].try + 1 \in Nat
      BY <1>1 DEF Hauls
    <3> QED BY <1>1, <3>1 DEF Hauls, Spans
  <2>2. worker' = [worker EXCEPT ![i] = y]
    BY DEF F!Start, F!Try
  <2> QED BY <1>1, <2>1, <2>2 DEF FilesTyped, Haul
<1>3. /\ UNCHANGED <<handler, entry, laid, filed, excused, session, scopes, v12>>
      /\ Fresh(i) /\ task' = [task EXCEPT ![i].status = "active"]
  BY <1>1 DEF F!Start, F!queued, F!stored, F!silent, FilesTyped, Right, AtWork, Fresh, Before
<1>4. FilesTyped(M)' /\ \A j \in M : j # i => Stays(j)
  BY <1>1, <1>2, <1>3 DEF FilesTyped, Errands, Stays
<1>5. task'[i].status = "active" /\ task'[i] \in Errands /\ handler[i] = handler'[i] /\ entry'[i] = entry[i]
  BY <1>1, <1>3, <1>4 DEF F!Start, FilesTyped, Errands, Right, AtWork, Before
<1>6. Clean(i) /\ Clean(i)' /\ Accounted(i)'
  BY <1>1, <1>2, <1>3 DEF Right, AtWork, Accounted, Clean, Haul, Hauls
<1>7. AtWork(i)'
  BY <1>2, <1>5, <1>6 DEF AtWork, Before, Midway
<1>8. Kept(i)'
  BY <1>1, <1>3, <1>5 DEF F!Start, Right, AtWork, Kept, Before
<1> QED BY <1>1, <1>3, <1>4, <1>6, <1>7, <1>8, OneFile DEF Right, FilesInv

LEMMA DownloadIsRight == ASSUME NEW M, NEW n, FilesInv(M), NEW i \in M, F(M, n)!Download(i) PROVE FilesInv(M)'
<1>1. FilesTyped(M) /\ Right(i) /\ worker[i] \in Hauls /\ task[i] \in Errands
  BY DEF FilesInv, FilesTyped
<1>2. FilesTyped(M)'
  BY <1>1, SMTT(40) DEF F!Download, F!Goto, F!Write, F!Happens, F!queued, F!stored, F!silent, FilesTyped, Posts, Signs, Errands, Spans, Hauls
<1>3. \A j \in M : j # i => Stays(j)
  BY <1>1 DEF F!Download, F!Goto, F!Write, F!Happens, F!queued, F!stored, F!silent, FilesTyped, Stays
<1>4. (session # 0 => session \in scopes)'
  BY <1>1 DEF F!Download, F!Goto, F!Write, F!Happens, F!queued, F!stored, F!silent, FilesInv
<1>5. AtWork(i)'
  <2>1. /\ UNCHANGED <<handler, entry, task, laid, filed, excused>> /\ Haul(i)' = Haul(i) /\ worker[i].pc = "download"
        /\ worker'[i].pc \in {"save", "failed", "mark"}
    BY <1>1 DEF F!Download, F!Goto, F!stored, F!Happens, FilesTyped, Hauls, Haul
  <2> QED BY <1>1, <2>1 DEF Right, AtWork, Fresh, Clean, Midway, Before
<1>6. Kept(i)'
  BY <1>1 DEF F!Download, F!Goto, F!Write, F!Happens, F!queued, F!stored, F!silent, FilesTyped, Hauls, Errands, Right, AtWork, Kept, Haul, Midway, Before
<1>7. Accounted(i)'
  BY <1>1 DEF F!Download, F!Goto, F!Write, F!Happens, F!queued, F!stored, F!silent, FilesTyped, Hauls, Errands, Right, AtWork, Accounted, Fresh, Clean, Haul, Midway, Before
<1> QED BY <1>2, <1>3, <1>4, <1>5, <1>6, <1>7, OneFile DEF Right

LEMMA SaveIsRight == ASSUME NEW M, NEW n, FilesInv(M), NEW i \in M, F(M, n)!Save(i) PROVE FilesInv(M)'
<1>1. FilesTyped(M) /\ Right(i) /\ worker[i] \in Hauls /\ task[i] \in Errands
  BY DEF FilesInv, FilesTyped
<1>2. FilesTyped(M)'
  BY <1>1, SMTT(40) DEF F!Save, F!Goto, F!Write, F!Happens, F!queued, F!stored, F!silent, FilesTyped, Posts, Signs, Errands, Spans, Hauls
<1>3. \A j \in M : j # i => Stays(j)
  BY <1>1 DEF F!Save, F!Goto, F!Write, F!Happens, F!queued, F!stored, F!silent, FilesTyped, Stays
<1>4. (session # 0 => session \in scopes)'
  BY <1>1 DEF F!Save, F!Goto, F!Write, F!Happens, F!queued, F!stored, F!silent, FilesInv
<1>5. AtWork(i)'
  <2>1. UNCHANGED <<handler, entry, task, filed>> /\ worker'[i].try = worker[i].try /\ worker[i].pc = "save"
    BY <1>1 DEF F!Save, F!Goto, F!Write, F!Happens, F!queued, F!stored, F!silent, FilesTyped, Hauls, Haul, Right, AtWork, Midway, Before
  <2>2. \/ worker'[i].pc = "index" /\ laid' = laid \cup {Haul(i)} /\ excused' = excused
        \/ worker'[i].pc = "failed" /\ laid' = laid /\ excused' = excused
        \/ worker'[i].pc = "failed" /\ laid' = laid \cup {Haul(i)} /\ excused' = excused \cup {Haul(i)}
    BY <1>1 DEF F!Save, F!Goto, F!Write, F!Happens, FilesTyped, Hauls, Haul
  <2>3. Haul(i)' = Haul(i)
    BY <2>1 DEF Haul
  <2> QED BY <1>1, <2>1, <2>2, <2>3 DEF Right, AtWork, Kept, Accounted, Fresh, Clean, Midway, Before
<1>6. Kept(i)'
  BY <1>1 DEF F!Save, F!Goto, F!Write, F!Happens, F!queued, F!stored, F!silent, FilesTyped, Hauls, Errands, Right, AtWork, Kept, Haul, Midway, Before
<1>7. Accounted(i)'
  BY <1>1 DEF F!Save, F!Goto, F!Write, F!Happens, F!queued, F!stored, F!silent, FilesTyped, Hauls, Errands, Right, AtWork, Accounted, Fresh, Clean, Haul, Midway, Before
<1> QED BY <1>2, <1>3, <1>4, <1>5, <1>6, <1>7, OneFile DEF Right

LEMMA IndexIsRight == ASSUME NEW M, NEW n, FilesInv(M), NEW i \in M, F(M, n)!Index(i) PROVE FilesInv(M)'
<1>1. FilesTyped(M) /\ Right(i) /\ worker[i] \in Hauls /\ task[i] \in Errands
  BY DEF FilesInv, FilesTyped
<1>2. FilesTyped(M)'
  BY <1>1, SMTT(40) DEF F!Index, F!Goto, F!Write, F!Happens, F!queued, F!stored, F!silent, FilesTyped, Posts, Signs, Errands, Spans, Hauls
<1>3. \A j \in M : j # i => Stays(j)
  BY <1>1 DEF F!Index, F!Goto, F!Write, F!Happens, F!queued, F!stored, F!silent, FilesTyped, Stays
<1>4. (session # 0 => session \in scopes)'
  BY <1>1 DEF F!Index, F!Goto, F!Write, F!Happens, F!queued, F!stored, F!silent, FilesInv
<1>5. AtWork(i)'
  <2>1. UNCHANGED <<handler, entry, task, laid>> /\ worker'[i].try = worker[i].try /\ worker[i].pc = "index"
    BY <1>1 DEF F!Index, F!Goto, F!Write, F!Happens, F!queued, F!stored, F!silent, FilesTyped, Hauls, Haul, Right, AtWork, Midway, Before
  <2>2. \/ worker'[i].pc = "check" /\ filed' = filed \cup {Haul(i)} /\ excused' = excused
        \/ worker'[i].pc = "undo" /\ filed' = filed /\ excused' = excused
        \/ worker'[i].pc = "undo" /\ filed' = filed \cup {Haul(i)} /\ excused' = excused \cup {Haul(i)}
    BY <1>1 DEF F!Index, F!Goto, F!Write, F!Happens, FilesTyped, Hauls, Haul
  <2>3. Haul(i)' = Haul(i)
    BY <2>1 DEF Haul
  <2> QED BY <1>1, <2>1, <2>2, <2>3 DEF Right, AtWork, Kept, Accounted, Fresh, Clean, Midway, Before
<1>6. Kept(i)'
  BY <1>1 DEF F!Index, F!Goto, F!Write, F!Happens, F!queued, F!stored, F!silent, FilesTyped, Hauls, Errands, Right, AtWork, Kept, Haul, Midway, Before
<1>7. Accounted(i)'
  BY <1>1 DEF F!Index, F!Goto, F!Write, F!Happens, F!queued, F!stored, F!silent, FilesTyped, Hauls, Errands, Right, AtWork, Accounted, Fresh, Clean, Haul, Midway, Before
<1> QED BY <1>2, <1>3, <1>4, <1>5, <1>6, <1>7, OneFile DEF Right

LEMMA UndoIsRight == ASSUME NEW M, NEW n, FilesInv(M), NEW i \in M, F(M, n)!Undo(i) PROVE FilesInv(M)'
<1>1. FilesTyped(M) /\ Right(i) /\ worker[i] \in Hauls /\ task[i] \in Errands
  BY DEF FilesInv, FilesTyped
<1>2. FilesTyped(M)'
  BY <1>1 DEF F!Undo, F!Goto, F!Write, F!Happens, F!queued, F!stored, F!silent, FilesTyped, Posts, Signs, Errands, Spans, Hauls
<1>3. \A j \in M : j # i => Stays(j)
  BY <1>1 DEF F!Undo, F!Goto, F!Write, F!Happens, F!queued, F!stored, F!silent, FilesTyped, Stays
<1>4. (session # 0 => session \in scopes)'
  BY <1>1 DEF F!Undo, F!Goto, F!Write, F!Happens, F!queued, F!stored, F!silent, FilesInv
<1>5. AtWork(i)'
  BY <1>1 DEF F!Undo, F!Goto, F!Write, F!Happens, F!queued, F!stored, F!silent, FilesTyped, Hauls, Errands, Right, AtWork, Kept, Fresh, Clean, Haul, Midway, Before
<1>6. Kept(i)'
  BY <1>1 DEF F!Undo, F!Goto, F!Write, F!Happens, F!queued, F!stored, F!silent, FilesTyped, Hauls, Errands, Right, AtWork, Kept, Haul, Midway, Before
<1>7. Accounted(i)'
  <2>1. UNCHANGED <<handler, entry, task>> /\ Haul(i)' = Haul(i) /\ Clean(i)'
    BY <1>1, <1>2 DEF F!Undo, F!Goto, F!Write, F!queued, F!stored, F!silent, FilesTyped, Hauls, Haul, Right, AtWork, Clean
  <2>2. laid' \subseteq laid /\ filed' \subseteq filed /\ excused \subseteq excused'
    BY <1>1 DEF F!Undo, F!Write
  <2> QED BY <1>1, <2>1, <2>2 DEF Right, Accounted, Clean, Haul
<1> QED BY <1>2, <1>3, <1>4, <1>5, <1>6, <1>7, OneFile DEF Right

LEMMA CheckIsRight == ASSUME NEW M, NEW n, FilesInv(M), NEW i \in M, F(M, n)!Check(i) PROVE FilesInv(M)'
<1>1. FilesTyped(M) /\ Right(i) /\ worker[i] \in Hauls /\ task[i] \in Errands
  BY DEF FilesInv, FilesTyped
<1>2. FilesTyped(M)'
  <2>1. PICK x \in Signs : entry' = [entry EXCEPT ![i] = x]
    BY <1>1 DEF F!Check, FilesTyped, Signs
  <2>2. worker' \in [M -> Hauls]
    BY <1>1 DEF F!Check, F!Goto, FilesTyped, Hauls, Spans
  <2> QED BY <1>1, <2>1, <2>2 DEF F!Check, F!stored, F!silent, FilesTyped
<1>3. \A j \in M : j # i => Stays(j)
  BY <1>1 DEF F!Check, F!Goto, F!Write, F!Happens, F!queued, F!stored, F!silent, FilesTyped, Stays
<1>4. (session # 0 => session \in scopes)'
  BY <1>1 DEF F!Check, F!Goto, F!Write, F!Happens, F!queued, F!stored, F!silent, FilesInv
<1>5. AtWork(i)'
  <2>1. /\ UNCHANGED <<handler, task, laid, filed, excused>> /\ Haul(i)' = Haul(i) /\ worker[i].pc = "check"
        /\ \/ task[i].aborted /\ worker'[i].pc = "compensate"
           \/ ~task[i].aborted /\ worker'[i].pc = "report"
        /\ entry'[i] = "busy" => entry[i] = "busy" /\ worker'[i].pc = "compensate"
    BY <1>1 DEF F!Check, F!Goto, F!stored, FilesTyped, Hauls, Haul
  <2> QED BY <1>1, <2>1 DEF Right, AtWork, Fresh, Clean, Midway, Before
<1>6. Kept(i)'
  BY <1>1 DEF F!Check, F!Goto, F!Write, F!Happens, F!queued, F!stored, F!silent, FilesTyped, Hauls, Errands, Right, AtWork, Kept, Haul, Midway, Before
<1>7. Accounted(i)'
  <2>1. /\ UNCHANGED <<handler, task, laid, filed, excused>> /\ Haul(i)' = Haul(i) /\ worker[i].pc = "check"
        /\ \/ task[i].aborted /\ worker'[i].pc = "compensate"
           \/ ~task[i].aborted /\ worker'[i].pc = "report"
        /\ entry'[i] = "busy" => entry[i] = "busy" /\ worker'[i].pc = "compensate"
    BY <1>1 DEF F!Check, F!Goto, F!stored, FilesTyped, Hauls, Haul
  <2> QED BY <1>1, <2>1 DEF Right, AtWork, Accounted, Midway
<1> QED BY <1>2, <1>3, <1>4, <1>5, <1>6, <1>7, OneFile DEF Right

LEMMA CompensateIsRight == ASSUME NEW M, NEW n, FilesInv(M), NEW i \in M, F(M, n)!Compensate(i) PROVE FilesInv(M)'
<1>1. FilesTyped(M) /\ Right(i) /\ worker[i] \in Hauls /\ task[i] \in Errands
  BY DEF FilesInv, FilesTyped
<1>2. FilesTyped(M)'
  <2>1. laid' \cup filed' \subseteq M \X Nat
    BY <1>1 DEF F!Compensate, FilesTyped
  <2>2. worker' \in [M -> Hauls]
    BY <1>1, SMTT(40) DEF F!Compensate, F!Goto, FilesTyped, Hauls, Spans
  <2> QED BY <1>1, <2>1, <2>2 DEF F!Compensate, F!silent, FilesTyped
<1>3. \A j \in M : j # i => Stays(j)
  BY <1>1 DEF F!Compensate, F!Goto, F!Write, F!Happens, F!queued, F!stored, F!silent, FilesTyped, Stays
<1>4. (session # 0 => session \in scopes)'
  BY <1>1 DEF F!Compensate, F!Goto, F!Write, F!Happens, F!queued, F!stored, F!silent, FilesInv
<1>5. AtWork(i)'
  BY <1>1 DEF F!Compensate, F!Goto, F!Write, F!Happens, F!queued, F!stored, F!silent, FilesTyped, Hauls, Errands, Right, AtWork, Kept, Fresh, Clean, Haul, Midway, Before
<1>6. Kept(i)'
  BY <1>1 DEF F!Compensate, F!Goto, F!Write, F!Happens, F!queued, F!stored, F!silent, FilesTyped, Hauls, Errands, Right, AtWork, Kept, Haul, Midway, Before
<1>7. Accounted(i)'
  BY <1>1 DEF F!Compensate, F!Goto, F!Write, F!Happens, F!queued, F!stored, F!silent, FilesTyped, Hauls, Errands, Right, AtWork, Accounted, Fresh, Clean, Haul, Midway, Before
<1> QED BY <1>2, <1>3, <1>4, <1>5, <1>6, <1>7, OneFile DEF Right

LEMMA CompensateIndexIsRight == ASSUME NEW M, NEW n, FilesInv(M), NEW i \in M, F(M, n)!CompensateIndex(i) PROVE FilesInv(M)'
<1>1. FilesTyped(M) /\ Right(i) /\ worker[i] \in Hauls /\ task[i] \in Errands
  BY DEF FilesInv, FilesTyped
<1>2. FilesTyped(M)'
  BY <1>1 DEF F!CompensateIndex, F!Goto, F!Write, F!Happens, F!queued, F!stored, F!silent, FilesTyped, Posts, Signs, Errands, Spans, Hauls
<1>3. \A j \in M : j # i => Stays(j)
  BY <1>1 DEF F!CompensateIndex, F!Goto, F!Write, F!Happens, F!queued, F!stored, F!silent, FilesTyped, Stays
<1>4. (session # 0 => session \in scopes)'
  BY <1>1 DEF F!CompensateIndex, F!Goto, F!Write, F!Happens, F!queued, F!stored, F!silent, FilesInv
<1>5. AtWork(i)'
  BY <1>1 DEF F!CompensateIndex, F!Goto, F!Write, F!Happens, F!queued, F!stored, F!silent, FilesTyped, Hauls, Errands, Right, AtWork, Kept, Fresh, Clean, Haul, Midway, Before
<1>6. Kept(i)'
  BY <1>1 DEF F!CompensateIndex, F!Goto, F!Write, F!Happens, F!queued, F!stored, F!silent, FilesTyped, Hauls, Errands, Right, AtWork, Kept, Haul, Midway, Before
<1>7. Accounted(i)'
  <2>1. UNCHANGED <<handler, entry, task>> /\ Haul(i)' = Haul(i) /\ Clean(i)'
    BY <1>1, <1>2 DEF F!CompensateIndex, F!Goto, F!Write, F!queued, F!stored, F!silent, FilesTyped, Hauls, Haul, Right, AtWork, Clean
  <2>2. laid' \subseteq laid /\ filed' \subseteq filed /\ excused \subseteq excused'
    BY <1>1 DEF F!CompensateIndex, F!Write
  <2> QED BY <1>1, <2>1, <2>2 DEF Right, Accounted, Clean, Haul
<1> QED BY <1>2, <1>3, <1>4, <1>5, <1>6, <1>7, OneFile DEF Right

LEMMA MarkIsRight == ASSUME NEW M, NEW n, FilesInv(M), NEW i \in M, F(M, n)!Mark(i) PROVE FilesInv(M)'
<1>1. FilesTyped(M) /\ Right(i) /\ worker[i] \in Hauls /\ task[i] \in Errands
  BY DEF FilesInv, FilesTyped
<1>2. FilesTyped(M)'
  <2>1. PICK x \in Signs : entry' = [entry EXCEPT ![i] = x]
    BY <1>1 DEF F!Mark, FilesTyped, Signs
  <2>2. worker' \in [M -> Hauls]
    BY <1>1, SMTT(40) DEF F!Mark, F!Goto, FilesTyped, Hauls, Spans
  <2>3. task' \in [M -> Errands]
    BY <1>1 DEF F!Mark, FilesTyped, Errands
  <2> QED BY <1>1, <2>1, <2>2, <2>3 DEF F!Mark, F!stored, F!silent, FilesTyped
<1>3. \A j \in M : j # i => Stays(j)
  BY <1>1 DEF F!Mark, F!Goto, F!Write, F!Happens, F!queued, F!stored, F!silent, FilesTyped, Stays
<1>4. (session # 0 => session \in scopes)'
  BY <1>1 DEF F!Mark, F!Goto, F!Write, F!Happens, F!queued, F!stored, F!silent, FilesInv
<1>5. AtWork(i)'
  <2>1. UNCHANGED <<handler, laid, filed, excused>> /\ Haul(i)' = Haul(i) /\ Clean(i)
    BY <1>1 DEF F!Mark, F!Goto, F!stored, FilesTyped, Hauls, Haul, Right, AtWork, Fresh, Before
  <2>2. \/ worker'[i].pc = "failed" /\ task' = task
        \/ worker'[i].pc \in {"thrown", "off"} /\ task'[i].status \in {"cancelled", "failed"}
    BY <1>1 DEF F!Mark, F!Goto, FilesTyped, Hauls, Errands
  <2>3. worker[i].pc = "mark"
    BY DEF F!Mark
  <2> QED BY <1>1, <2>1, <2>2, <2>3 DEF Right, AtWork, Fresh, Clean, Midway, Before
<1>6. Kept(i)'
  BY <1>1 DEF F!Mark, F!Goto, F!Write, F!Happens, F!queued, F!stored, F!silent, FilesTyped, Hauls, Errands, Right, AtWork, Kept, Haul, Midway, Before
<1>7. Accounted(i)'
  BY <1>1 DEF F!Mark, F!Goto, F!Write, F!Happens, F!queued, F!stored, F!silent, FilesTyped, Hauls, Errands, Right, AtWork, Accounted, Fresh, Clean, Haul, Midway, Before
<1> QED BY <1>2, <1>3, <1>4, <1>5, <1>6, <1>7, OneFile DEF Right

LEMMA FailedIsRight == ASSUME NEW M, NEW n, FilesInv(M), NEW i \in M, F(M, n)!Failed(i) PROVE FilesInv(M)'
<1> PICK x : x = [worker[i] EXCEPT !.retried = TRUE]
  OBVIOUS
<1> PICK y : y = [x EXCEPT !.pc = "download", !.try = x.try + 1, !.cooldown = FALSE]
  OBVIOUS
<1>1. FilesTyped(M) /\ Right(i) /\ worker[i] \in Hauls /\ task[i] \in Errands
  BY DEF FilesInv, FilesTyped
<1>2. /\ y \in Hauls /\ y.pc = "download" /\ y.try = worker[i].try + 1 /\ Haul(i)' = <<i, worker[i].try + 1>>
      /\ worker' = [worker EXCEPT ![i] = y] /\ worker'[i] = y
  <2>1. x \in Hauls /\ x.try = worker[i].try
    BY <1>1 DEF Hauls
  <2>2. y \in Hauls /\ y.pc = "download" /\ y.try = worker[i].try + 1
    <3>1. x.try + 1 \in Nat
      BY <2>1 DEF Hauls
    <3> QED BY <2>1, <3>1 DEF Hauls, Spans
  <2>3. worker' = [worker EXCEPT ![i] = y]
    BY DEF F!Failed, F!Try
  <2> QED BY <1>1, <2>2, <2>3 DEF FilesTyped, Haul
<1>3. /\ UNCHANGED <<handler, entry, laid, filed, excused, session, scopes, v12>>
      /\ Fresh(i) /\ task' = task
  BY <1>1 DEF F!Failed, F!queued, F!stored, F!silent, FilesTyped, Right, AtWork, Fresh, Before
<1>4. FilesTyped(M)' /\ \A j \in M : j # i => Stays(j)
  BY <1>1, <1>2, <1>3 DEF FilesTyped, Errands, Stays
<1>5. task'[i].status = "active" /\ task'[i] \in Errands /\ handler[i] = handler'[i] /\ entry'[i] = entry[i]
  BY <1>1, <1>3, <1>4 DEF F!Failed, FilesTyped, Errands, Right, AtWork, Before
<1>6. Clean(i) /\ Clean(i)' /\ Accounted(i)'
  BY <1>1, <1>2, <1>3 DEF Right, AtWork, Accounted, Clean, Haul, Hauls
<1>7. AtWork(i)'
  BY <1>2, <1>5, <1>6 DEF AtWork, Before, Midway
<1>8. Kept(i)'
  BY <1>1, <1>3, <1>5 DEF F!Failed, Right, AtWork, Kept, Before
<1> QED BY <1>1, <1>3, <1>4, <1>6, <1>7, <1>8, OneFile DEF Right, FilesInv

LEMMA CoolDownIsRight == ASSUME NEW M, NEW n, FilesInv(M), NEW i \in M, F(M, n)!CoolDown(i) PROVE FilesInv(M)'
<1>1. FilesTyped(M) /\ Right(i) /\ worker[i] \in Hauls /\ task[i] \in Errands
  BY DEF FilesInv, FilesTyped
<1>2. FilesTyped(M)'
  BY <1>1 DEF F!CoolDown, F!Goto, F!Write, F!Happens, F!queued, F!stored, F!silent, F!NoTask, FilesTyped, Posts, Signs, Errands, Spans, Hauls
<1>3. \A j \in M : j # i => Stays(j)
  BY <1>1 DEF F!CoolDown, F!Goto, F!Write, F!Happens, F!queued, F!stored, F!silent, F!NoTask, FilesTyped, Stays
<1>4. (session # 0 => session \in scopes)'
  BY <1>1 DEF F!CoolDown, F!Goto, F!Write, F!Happens, F!queued, F!stored, F!silent, F!NoTask, FilesInv
<1>5. AtWork(i)'
  BY <1>1 DEF F!CoolDown, F!Goto, F!Write, F!Happens, F!queued, F!stored, F!silent, F!NoTask, FilesTyped, Hauls, Errands, Right, AtWork, Kept, Fresh, Clean, Haul, Midway, Before
<1>6. Kept(i)'
  BY <1>1 DEF F!CoolDown, F!Goto, F!Write, F!Happens, F!queued, F!stored, F!silent, F!NoTask, FilesTyped, Hauls, Errands, Right, AtWork, Kept, Haul, Midway, Before
<1>7. Accounted(i)'
  BY <1>1 DEF F!CoolDown, F!Goto, F!Write, F!Happens, F!queued, F!stored, F!silent, F!NoTask, FilesTyped, Hauls, Errands, Right, AtWork, Accounted, Fresh, Clean, Haul, Midway, Before
<1> QED BY <1>2, <1>3, <1>4, <1>5, <1>6, <1>7, OneFile DEF Right

LEMMA ReturnIsRight == ASSUME NEW M, NEW n, FilesInv(M), NEW i \in M, F(M, n)!Return(i) PROVE FilesInv(M)'
<1>1. FilesTyped(M) /\ Right(i) /\ worker[i] \in Hauls /\ task[i] \in Errands
  BY DEF FilesInv, FilesTyped
<1>2. FilesTyped(M)'
  BY <1>1 DEF F!Return, F!Goto, F!Write, F!Happens, F!queued, F!stored, F!silent, FilesTyped, Posts, Signs, Errands, Spans, Hauls
<1>3. \A j \in M : j # i => Stays(j)
  BY <1>1 DEF F!Return, F!Goto, F!Write, F!Happens, F!queued, F!stored, F!silent, FilesTyped, Stays
<1>4. (session # 0 => session \in scopes)'
  BY <1>1 DEF F!Return, F!Goto, F!Write, F!Happens, F!queued, F!stored, F!silent, FilesInv
<1>5. AtWork(i)'
  BY <1>1 DEF F!Return, F!Goto, F!Write, F!Happens, F!queued, F!stored, F!silent, FilesTyped, Hauls, Errands, Right, AtWork, Kept, Fresh, Clean, Haul, Midway, Before
<1>6. Kept(i)'
  BY <1>1 DEF F!Return, F!Goto, F!Write, F!Happens, F!queued, F!stored, F!silent, FilesTyped, Hauls, Errands, Right, AtWork, Kept, Haul, Midway, Before
<1>7. Accounted(i)'
  <2>1. UNCHANGED <<handler, laid, filed, excused>> /\ Haul(i)' = Haul(i) /\ worker[i].pc \in {"report", "failed"}
    BY <1>1 DEF F!Return, F!Goto, F!stored, FilesTyped, Hauls, Haul
  <2>2. task'[i].aborted = task[i].aborted /\ task'[i].late = task[i].late
        /\ (worker[i].pc = "report" => task'[i].status # "failed")
    BY <1>1 DEF F!Return, FilesTyped, Errands
  <2> QED BY <1>1, <2>1, <2>2 DEF Right, AtWork, Accounted, Fresh, Clean, Midway, Before
<1> QED BY <1>2, <1>3, <1>4, <1>5, <1>6, <1>7, OneFile DEF Right

LEMMA FinalizeIsRight == ASSUME NEW M, NEW n, FilesInv(M), NEW i \in M, F(M, n)!Finalize(i) PROVE FilesInv(M)'
<1>1. FilesTyped(M) /\ Right(i) /\ worker[i] \in Hauls /\ task[i] \in Errands
  BY DEF FilesInv, FilesTyped
<1>2. FilesTyped(M)'
  BY <1>1 DEF F!Finalize, F!Goto, F!Write, F!Happens, F!queued, F!stored, F!silent, F!UnderWay, FilesTyped, Posts, Signs, Errands, Spans, Hauls
<1>3. \A j \in M : j # i => Stays(j)
  BY <1>1 DEF F!Finalize, F!Goto, F!Write, F!Happens, F!queued, F!stored, F!silent, F!UnderWay, FilesTyped, Stays
<1>4. (session # 0 => session \in scopes)'
  BY <1>1 DEF F!Finalize, F!Goto, F!Write, F!Happens, F!queued, F!stored, F!silent, F!UnderWay, FilesInv
<1>5. AtWork(i)'
  BY <1>1 DEF F!Finalize, F!Goto, F!Write, F!Happens, F!queued, F!stored, F!silent, F!UnderWay, FilesTyped, Hauls, Errands, Right, AtWork, Kept, Fresh, Clean, Haul, Midway, Before
<1>6. Kept(i)'
  BY <1>1 DEF F!Finalize, F!Goto, F!Write, F!Happens, F!queued, F!stored, F!silent, F!UnderWay, FilesTyped, Hauls, Errands, Right, AtWork, Kept, Haul, Midway, Before
<1>7. Accounted(i)'
  BY <1>1 DEF F!Finalize, F!Goto, F!Write, F!Happens, F!queued, F!stored, F!silent, F!UnderWay, FilesTyped, Hauls, Errands, Right, AtWork, Accounted, Fresh, Clean, Haul, Midway, Before
<1> QED BY <1>2, <1>3, <1>4, <1>5, <1>6, <1>7, OneFile DEF Right

LEMMA ConcludeIsRight == ASSUME NEW M, NEW n, FilesInv(M), NEW i \in M, F(M, n)!Conclude(i) PROVE FilesInv(M)'
<1>1. FilesTyped(M) /\ Right(i) /\ worker[i] \in Hauls /\ task[i] \in Errands
  BY DEF FilesInv, FilesTyped
<1>2. FilesTyped(M)'
  BY <1>1 DEF F!Conclude, F!Goto, F!Write, F!Happens, F!queued, F!stored, F!silent, F!EndSession, FilesTyped, Posts, Signs, Errands, Spans, Hauls
<1>3. \A j \in M : j # i => Stays(j)
  BY <1>1 DEF F!Conclude, F!Goto, F!Write, F!Happens, F!queued, F!stored, F!silent, F!EndSession, FilesTyped, Stays
<1>4. (session # 0 => session \in scopes)'
  BY <1>1 DEF F!Conclude, F!Goto, F!Write, F!Happens, F!queued, F!stored, F!silent, F!EndSession, FilesInv
<1>5. AtWork(i)'
  BY <1>1 DEF F!Conclude, F!Goto, F!Write, F!Happens, F!queued, F!stored, F!silent, F!EndSession, FilesTyped, Hauls, Errands, Right, AtWork, Kept, Fresh, Clean, Haul, Midway, Before
<1>6. Kept(i)'
  BY <1>1 DEF F!Conclude, F!Goto, F!Write, F!Happens, F!queued, F!stored, F!silent, F!EndSession, FilesTyped, Hauls, Errands, Right, AtWork, Kept, Haul, Midway, Before
<1>7. Accounted(i)'
  BY <1>1 DEF F!Conclude, F!Goto, F!Write, F!Happens, F!queued, F!stored, F!silent, F!EndSession, FilesTyped, Hauls, Errands, Right, AtWork, Accounted, Fresh, Clean, Haul, Midway, Before
<1> QED BY <1>2, <1>3, <1>4, <1>5, <1>6, <1>7, OneFile DEF Right

LEMMA CooldownEndsIsRight == ASSUME NEW M, NEW n, FilesInv(M), NEW i \in M, F(M, n)!CooldownEnds(i) PROVE FilesInv(M)'
<1>1. FilesTyped(M) /\ Right(i) /\ worker[i] \in Hauls /\ task[i] \in Errands
  BY DEF FilesInv, FilesTyped
<1>2. FilesTyped(M)'
  BY <1>1 DEF F!CooldownEnds, F!Goto, F!Write, F!Happens, F!queued, F!stored, F!silent, FilesTyped, Posts, Signs, Errands, Spans, Hauls
<1>3. \A j \in M : j # i => Stays(j)
  BY <1>1 DEF F!CooldownEnds, F!Goto, F!Write, F!Happens, F!queued, F!stored, F!silent, FilesTyped, Stays
<1>4. (session # 0 => session \in scopes)'
  BY <1>1 DEF F!CooldownEnds, F!Goto, F!Write, F!Happens, F!queued, F!stored, F!silent, FilesInv
<1>5. AtWork(i)'
  BY <1>1 DEF F!CooldownEnds, F!Goto, F!Write, F!Happens, F!queued, F!stored, F!silent, FilesTyped, Hauls, Errands, Right, AtWork, Kept, Fresh, Clean, Haul, Midway, Before
<1>6. Kept(i)'
  BY <1>1 DEF F!CooldownEnds, F!Goto, F!Write, F!Happens, F!queued, F!stored, F!silent, FilesTyped, Hauls, Errands, Right, AtWork, Kept, Haul, Midway, Before
<1>7. Accounted(i)'
  BY <1>1 DEF F!CooldownEnds, F!Goto, F!Write, F!Happens, F!queued, F!stored, F!silent, FilesTyped, Hauls, Errands, Right, AtWork, Accounted, Fresh, Clean, Haul, Midway, Before
<1> QED BY <1>2, <1>3, <1>4, <1>5, <1>6, <1>7, OneFile DEF Right

LEMMA RemoveEntryIsRight == ASSUME NEW M, NEW n, FilesInv(M), NEW i \in M, F(M, n)!RemoveEntry(i) PROVE FilesInv(M)'
<1>1. FilesTyped(M) /\ Right(i) /\ worker[i] \in Hauls /\ task[i] \in Errands
  BY DEF FilesInv, FilesTyped
<1>2. FilesTyped(M)'
  BY <1>1 DEF F!RemoveEntry, F!Goto, F!Write, F!Happens, F!queued, F!stored, F!silent, F!Ended, F!Live, FilesTyped, Posts, Signs, Errands, Spans, Hauls
<1>3. \A j \in M : j # i => Stays(j)
  BY <1>1 DEF F!RemoveEntry, F!Goto, F!Write, F!Happens, F!queued, F!stored, F!silent, F!Ended, F!Live, FilesTyped, Stays
<1>4. (session # 0 => session \in scopes)'
  BY <1>1 DEF F!RemoveEntry, F!Goto, F!Write, F!Happens, F!queued, F!stored, F!silent, F!Ended, F!Live, FilesInv
<1>5. AtWork(i)'
  BY <1>1 DEF F!RemoveEntry, F!Goto, F!Write, F!Happens, F!queued, F!stored, F!silent, F!Ended, F!Live, FilesTyped, Hauls, Errands, Right, AtWork, Kept, Fresh, Clean, Haul, Midway, Before
<1>6. Kept(i)'
  BY <1>1 DEF F!RemoveEntry, F!Goto, F!Write, F!Happens, F!queued, F!stored, F!silent, F!Ended, F!Live, FilesTyped, Hauls, Errands, Right, AtWork, Kept, Haul, Midway, Before
<1>7. Accounted(i)'
  BY <1>1 DEF F!RemoveEntry, F!Goto, F!Write, F!Happens, F!queued, F!stored, F!silent, F!Ended, F!Live, FilesTyped, Hauls, Errands, Right, AtWork, Accounted, Fresh, Clean, Haul, Midway, Before
<1> QED BY <1>2, <1>3, <1>4, <1>5, <1>6, <1>7, OneFile DEF Right

LEMMA RetryIsRight == ASSUME NEW M, NEW n, FilesInv(M), NEW i \in M, F(M, n)!Retry(i) PROVE FilesInv(M)'
<1>1. FilesTyped(M) /\ Right(i) /\ worker[i] \in Hauls /\ task[i] \in Errands
  BY DEF FilesInv, FilesTyped
<1>2. FilesTyped(M)'
  BY <1>1 DEF F!Retry, F!Goto, F!Write, F!Happens, F!queued, F!stored, F!silent, F!NoTask, FilesTyped, Posts, Signs, Errands, Spans, Hauls
<1>3. \A j \in M : j # i => Stays(j)
  BY <1>1 DEF F!Retry, F!Goto, F!Write, F!Happens, F!queued, F!stored, F!silent, F!NoTask, FilesTyped, Stays
<1>4. (session # 0 => session \in scopes)'
  BY <1>1 DEF F!Retry, F!Goto, F!Write, F!Happens, F!queued, F!stored, F!silent, F!NoTask, FilesInv
<1>5. AtWork(i)'
  BY <1>1 DEF F!Retry, F!Goto, F!Write, F!Happens, F!queued, F!stored, F!silent, F!NoTask, FilesTyped, Hauls, Errands, Right, AtWork, Kept, Fresh, Clean, Haul, Midway, Before
<1>6. Kept(i)'
  BY <1>1 DEF F!Retry, F!Goto, F!Write, F!Happens, F!queued, F!stored, F!silent, F!NoTask, FilesTyped, Hauls, Errands, Right, AtWork, Kept, Haul, Midway, Before
<1>7. Accounted(i)'
  BY <1>1 DEF F!Retry, F!Goto, F!Write, F!Happens, F!queued, F!stored, F!silent, F!NoTask, FilesTyped, Hauls, Errands, Right, AtWork, Accounted, Fresh, Clean, Haul, Midway, Before
<1> QED BY <1>2, <1>3, <1>4, <1>5, <1>6, <1>7, OneFile DEF Right

LEMMA AdmitIsRight == ASSUME NEW M, NEW n, FilesInv(M), NEW i \in M, F(M, n)!Admit(i) PROVE FilesInv(M)'
<1>1. FilesTyped(M) /\ Right(i) /\ worker[i] \in Hauls /\ task[i] \in Errands
  BY DEF FilesInv, FilesTyped
<1>2. FilesTyped(M)'
  BY <1>1 DEF F!Admit, F!Goto, F!Write, F!Happens, F!queued, F!stored, F!silent, F!EndSession, F!UnderWay, FilesTyped, Posts, Signs, Errands, Spans, Hauls
<1>3. \A j \in M : j # i => Stays(j)
  BY <1>1 DEF F!Admit, F!Goto, F!Write, F!Happens, F!queued, F!stored, F!silent, F!EndSession, F!UnderWay, FilesTyped, Stays
<1>4. (session # 0 => session \in scopes)'
  BY <1>1 DEF F!Admit, F!Goto, F!Write, F!Happens, F!queued, F!stored, F!silent, F!EndSession, F!UnderWay, FilesInv
<1>5. AtWork(i)'
  BY <1>1 DEF F!Admit, F!Goto, F!Write, F!Happens, F!queued, F!stored, F!silent, F!EndSession, F!UnderWay, FilesTyped, Hauls, Errands, Right, AtWork, Kept, Fresh, Clean, Haul, Midway, Before
<1>6. Kept(i)'
  BY <1>1 DEF F!Admit, F!Goto, F!Write, F!Happens, F!queued, F!stored, F!silent, F!EndSession, F!UnderWay, FilesTyped, Hauls, Errands, Right, AtWork, Kept, Haul, Midway, Before
<1>7. Accounted(i)'
  BY <1>1 DEF F!Admit, F!Goto, F!Write, F!Happens, F!queued, F!stored, F!silent, F!EndSession, F!UnderWay, FilesTyped, Hauls, Errands, Right, AtWork, Accounted, Fresh, Clean, Haul, Midway, Before
<1> QED BY <1>2, <1>3, <1>4, <1>5, <1>6, <1>7, OneFile DEF Right


\* Many files at once.
LEMMA ManyFiles ==
  ASSUME NEW M, FilesTyped(M)', (session # 0 => session \in scopes)',
         \A j \in M : AtWork(j)' /\ Kept(j)' /\ Accounted(j)'
  PROVE  FilesInv(M)'
BY DEF FilesInv, Right

LEMMA CardCancelledIsRight == ASSUME NEW M, NEW n, FilesInv(M), F(M, n)!CardCancelled PROVE FilesInv(M)'
<1>1. FilesTyped(M) /\ UNCHANGED <<handler, task, worker, laid, filed, excused, v12>> /\ session' = 0
  BY DEF FilesInv, F!CardCancelled, F!queued, F!stored
<1>2. entry' = [j \in M |-> "none"]
  BY DEF F!CardCancelled
<1>3. FilesTyped(M)'
  BY <1>1, <1>2 DEF FilesTyped, Signs
<1>4. ASSUME NEW j \in M PROVE AtWork(j)' /\ Kept(j)' /\ Accounted(j)'
  <2>1. Right(j) /\ entry'[j] = "none" /\ Haul(j)' = Haul(j)
    BY <1>1, <1>2 DEF FilesInv, Haul
  <2> QED BY <1>1, <2>1 DEF Right, AtWork, Kept, Accounted, Fresh, Clean
<1> QED BY <1>1, <1>3, <1>4, ManyFiles

LEMMA ClearIsRight == ASSUME NEW M, NEW n, FilesInv(M), NEW i \in M, F(M, n)!Clear(i) PROVE FilesInv(M)'
<1>1. /\ FilesTyped(M) /\ UNCHANGED <<task, worker, laid, filed, excused, session, scopes, v12>>
      /\ handler' = [handler EXCEPT ![i] = "register"] /\ handler[i] = "clear"
  BY DEF FilesInv, F!Clear, F!queued, F!stored, F!silent
<1>2. entry' = [j \in M |-> "none"]
  BY DEF F!Clear
<1>3. FilesTyped(M)'
  BY <1>1, <1>2 DEF FilesTyped, Signs, Posts
<1>4. ASSUME NEW j \in M PROVE AtWork(j)' /\ Kept(j)' /\ Accounted(j)'
  <2>1. Right(j) /\ entry'[j] = "none" /\ Haul(j)' = Haul(j)
    BY <1>1, <1>2 DEF FilesInv, Haul
  <2>2. handler'[j] = handler[j] \/ (handler[j] = "clear" /\ handler'[j] = "register")
    BY <1>1 DEF FilesTyped
  <2> QED BY <1>1, <2>1, <2>2 DEF Right, AtWork, Kept, Accounted, Fresh, Clean
<1>5. (session # 0 => session \in scopes)'
  BY <1>1 DEF FilesInv
<1> QED BY <1>3, <1>4, <1>5, ManyFiles

LEMMA CrashIsRight == ASSUME NEW M, NEW n, FilesInv(M), F(M, n)!Crash PROVE FilesInv(M)'
<1>1. FilesTyped(M) /\ UNCHANGED <<laid, filed, v12>> /\ session' = 0
  BY DEF FilesInv, F!Crash
<1>2. /\ handler' = [j \in M |-> IF handler[j] = "sent" THEN "sent" ELSE "over"]
      /\ entry' = [j \in M |-> "none"] /\ task' = [j \in M |-> F(M, n)!NoTask]
      /\ worker' = [j \in M |-> [F(M, n)!NoWorker EXCEPT !.try = worker[j].try]]
      /\ excused' = excused \cup {Haul(j) : j \in {k \in M : worker[k].pc \in Midway}}
  BY DEF F!Crash, F!Write, F!Midway, Haul, Midway
<1>3. /\ F(M, n)!NoTask \in Errands /\ F(M, n)!NoTask.status = "none" /\ ~F(M, n)!NoTask.aborted
  BY DEF F!NoTask, Errands
<1>4. ASSUME NEW j \in M
      PROVE  worker'[j] \in Hauls /\ worker'[j].pc = "off" /\ worker'[j].try = worker[j].try
  <2>1. worker[j].try \in Nat
    BY <1>1 DEF FilesTyped, Hauls
  <2> QED BY <1>2, <2>1 DEF F!NoWorker, Hauls, Spans
<1>5. FilesTyped(M)'
  BY <1>1, <1>2, <1>3, <1>4 DEF FilesTyped, Signs, Posts
<1>6. ASSUME NEW j \in M PROVE AtWork(j)' /\ Kept(j)' /\ Accounted(j)'
  <2>1. Right(j) /\ entry'[j] = "none" /\ Haul(j)' = Haul(j) /\ worker'[j].pc = "off" /\ task'[j] = F(M, n)!NoTask
    BY <1>2, <1>4 DEF FilesInv, Haul
  <2>2. (handler'[j] = "sent" /\ handler[j] = "sent") \/ handler'[j] = "over"
    BY <1>2
  <2>3. excused \subseteq excused' /\ (worker[j].pc \in Midway => Haul(j) \in excused')
    BY <1>2
  <2>4. AtWork(j)' /\ Kept(j)'
    BY <1>1, <1>3, <2>1, <2>2, <2>3 DEF Right, AtWork, Kept, Fresh, Clean, Midway, Before
  <2>5. Accounted(j)'
    BY <1>1, <1>3, <2>1, <2>3 DEF Right, Accounted
  <2> QED BY <2>4, <2>5
<1> QED BY <1>1, <1>5, <1>6, ManyFiles

\* Tasks are cancelled.
LEMMA CancelsAreRight ==
  ASSUME NEW M, NEW n, FilesInv(M), NEW set, F(M, n)!CancelGroups(set),
         UNCHANGED <<handler, laid, filed, excused, session, scopes, v12>>
  PROVE  FilesInv(M)'
<1>1. FilesTyped(M)
  BY DEF FilesInv
<1>2. PICK unbegun : unbegun = {i \in set : task[i].status = "pending"}
  OBVIOUS
<1>3. /\ task' = [i \in M |->
                IF i \in unbegun THEN [F(M, n)!NoTask EXCEPT !.status = "cancelled"]
                ELSE IF i \in set /\ task[i].status = "active"
                     THEN [task[i] EXCEPT !.aborted = TRUE, !.late = (worker[i].pc = "report")]
                ELSE task[i]]
      /\ entry' = [i \in M |-> IF i \in unbegun /\ entry[i] # "none" THEN "failed" ELSE entry[i]]
      /\ worker' = [i \in M |-> IF i \in unbegun /\ session # 0 THEN [worker[i] EXCEPT !.pc = "finalize"]
                                ELSE worker[i]]
  BY <1>2 DEF F!CancelGroups, F!GivenUp
<1>4. ASSUME NEW j \in M
      PROVE  /\ task'[j] \in Errands
             /\ \/ j \in unbegun /\ task'[j].status = "cancelled" /\ ~task'[j].aborted
                \/ /\ j \notin unbegun /\ task'[j].status = task[j].status /\ task[j].status = "active"
                   /\ task'[j].late = (worker[j].pc = "report")
                \/ j \notin unbegun /\ task'[j] = task[j]
  <2>1. CASE j \in unbegun
    <3>1. task'[j] = [F(M, n)!NoTask EXCEPT !.status = "cancelled"]
      BY <1>3, <2>1
    <3> QED BY <2>1, <3>1 DEF F!NoTask, Errands
  <2>2. CASE j \notin unbegun /\ j \in set /\ task[j].status = "active"
    <3>1. task'[j] = [task[j] EXCEPT !.aborted = TRUE, !.late = (worker[j].pc = "report")] /\ task[j] \in Errands
      BY <1>1, <1>3, <2>2 DEF FilesTyped
    <3> QED BY <2>2, <3>1 DEF Errands
  <2>3. CASE j \notin unbegun /\ ~(j \in set /\ task[j].status = "active")
    <3>1. task'[j] = task[j] /\ task[j] \in Errands
      BY <1>1, <1>3, <2>3 DEF FilesTyped
    <3> QED BY <2>3, <3>1
  <2> QED BY <2>1, <2>2, <2>3
<1>5. ASSUME NEW j \in M
      PROVE  /\ worker'[j] \in Hauls /\ worker'[j].try = worker[j].try
             /\ worker'[j].pc = worker[j].pc \/ (j \in unbegun /\ worker'[j].pc = "finalize")
  <2>1. worker[j] \in Hauls
    BY <1>1 DEF FilesTyped
  <2>2. worker'[j] = worker[j] \/ (j \in unbegun /\ worker'[j] = [worker[j] EXCEPT !.pc = "finalize"])
    BY <1>3
  <2> QED BY <2>1, <2>2 DEF Hauls, Spans
<1>6. ASSUME NEW j \in M
      PROVE  entry'[j] \in Signs /\ (IF j \in unbegun THEN entry'[j] \in {"none", "failed"} ELSE entry'[j] = entry[j])
  <2>1. entry[j] \in Signs
    BY <1>1 DEF FilesTyped
  <2> QED BY <1>3, <2>1 DEF Signs
<1>7. FilesTyped(M)'
  BY <1>1, <1>3, <1>4, <1>5, <1>6 DEF FilesTyped
<1>8. ASSUME NEW j \in M PROVE AtWork(j)' /\ Kept(j)' /\ Accounted(j)'
  <2>1. Right(j) /\ Haul(j)' = Haul(j) /\ (j \in unbegun => task[j].status = "pending")
    BY <1>2, <1>5 DEF FilesInv, Haul
  <2>2. CASE j \in unbegun
    <3>1. /\ worker'[j].pc = worker[j].pc \/ worker'[j].pc = "finalize"
          /\ task'[j].status = "cancelled" /\ ~task'[j].aborted /\ task[j].status = "pending" /\ handler[j] = "over"
          /\ entry'[j] \in {"none", "failed"}
      BY <1>4, <1>5, <1>6, <2>1, <2>2 DEF Right, Kept
    <3>2. AtWork(j)' /\ Kept(j)'
      BY <2>1, <3>1 DEF Right, AtWork, Kept, Fresh, Clean, Midway, Before
    <3>3. Accounted(j)'
      BY <2>1, <3>1 DEF Right, AtWork, Accounted, Fresh, Clean, Midway, Before
    <3> QED BY <3>2, <3>3
  <2>3. CASE /\ j \notin unbegun /\ task'[j].status = task[j].status /\ task[j].status = "active"
             /\ task'[j].late = (worker[j].pc = "report")
    <3>1. worker'[j].pc = worker[j].pc /\ entry'[j] = entry[j]
      BY <1>5, <1>6, <2>3
    <3>2. AtWork(j)' /\ Kept(j)'
      BY <2>1, <2>3, <3>1 DEF Right, AtWork, Kept, Fresh, Clean, Midway, Before
    <3>3. Accounted(j)'
      BY <2>1, <2>3, <3>1 DEF Right, AtWork, Accounted, Fresh, Clean, Midway, Before
    <3> QED BY <3>2, <3>3
  <2>4. CASE j \notin unbegun /\ task'[j] = task[j]
    <3>1. worker'[j].pc = worker[j].pc /\ entry'[j] = entry[j]
      BY <1>5, <1>6, <2>4
    <3>2. AtWork(j)'
      BY <2>1, <2>4, <3>1 DEF Right, AtWork, Fresh, Clean, Midway, Before
    <3>3. Kept(j)'
      BY <2>1, <2>4, <3>1 DEF Right, Kept
    <3>4. Accounted(j)'
      BY <2>1, <2>4, <3>1 DEF Right, Accounted
    <3> QED BY <3>2, <3>3, <3>4
  <2> QED BY <1>4, <2>2, <2>3, <2>4
<1>9. (session # 0 => session \in scopes)'
  BY DEF FilesInv
<1> QED BY <1>7, <1>8, <1>9, ManyFiles

LEMMA AddIsRight == ASSUME NEW M, NEW n, FilesInv(M), NEW i \in M, F(M, n)!Add(i) PROVE FilesInv(M)'
<1>1. /\ FilesTyped(M) /\ Right(i) /\ UNCHANGED <<laid, filed, excused, session, scopes, v12>>
      /\ handler' = [handler EXCEPT ![i] = "over"] /\ handler[i] = "add"
  BY DEF FilesInv, F!Add, F!stored, F!silent
<1>2. PICK st \in {"pending", "cancelled"} :
        /\ task' = [task EXCEPT ![i].status = st]
        /\ \/ st = "pending" /\ UNCHANGED <<entry, worker>>
           \/ st = "cancelled" /\ F(M, n)!GivenUp({i})
  BY DEF F!Add
<1>3. task'[i] \in Errands /\ task'[i].status = st /\ task'[i].aborted = task[i].aborted /\ task' \in [M -> Errands]
  BY <1>1, <1>2 DEF FilesTyped, Errands
<1>4. ASSUME NEW j \in M
      PROVE  /\ worker'[j] \in Hauls /\ worker'[j].try = worker[j].try
             /\ j # i => worker'[j] = worker[j] /\ entry'[j] = entry[j]
             /\ worker'[j].pc = worker[j].pc \/ (worker'[j].pc = "finalize" /\ st = "cancelled")
             /\ entry'[j] \in Signs /\ (entry'[j] = "busy" => st = "pending" \/ j # i)
  <2>1. worker[j] \in Hauls /\ entry[j] \in Signs
    BY <1>1 DEF FilesTyped
  <2>2. CASE st = "pending"
    BY <1>2, <2>1, <2>2
  <2>3. CASE st = "cancelled"
    <3>1. /\ worker'[j] = worker[j] \/ (j = i /\ worker'[j] = [worker[j] EXCEPT !.pc = "finalize"])
          /\ entry'[j] = IF j = i /\ entry[j] # "none" THEN "failed" ELSE entry[j]
      BY <1>2, <2>3 DEF F!GivenUp
    <3> QED BY <2>1, <2>3, <3>1 DEF Hauls, Spans, Signs
  <2> QED BY <1>2, <2>2, <2>3
<1>5. worker' \in [M -> Hauls] /\ entry' \in [M -> Signs]
  <2>1. CASE st = "pending"
    BY <1>1, <1>2, <2>1 DEF FilesTyped
  <2>2. CASE st = "cancelled"
    <3>1. DOMAIN worker' = M /\ DOMAIN entry' = M /\ worker' = [j \in M |-> worker'[j]] /\ entry' = [j \in M |-> entry'[j]]
      BY <1>2, <2>2 DEF F!GivenUp
    <3> QED BY <1>4, <3>1
  <2> QED BY <2>1, <2>2
<1>6. FilesTyped(M)'
  BY <1>1, <1>3, <1>5 DEF FilesTyped, Posts
<1>7. \A j \in M : j # i => Stays(j)
  BY <1>1, <1>2, <1>4 DEF FilesTyped, Stays
<1>8. Haul(i)' = Haul(i) /\ handler'[i] = "over" /\ task[i].status = "none" /\ Clean(i)
  BY <1>1, <1>4 DEF FilesTyped, Haul, Right, AtWork, Kept, Fresh
<1>9. AtWork(i)' /\ Kept(i)' /\ Accounted(i)'
  BY <1>1, <1>3, <1>4, <1>8 DEF Right, AtWork, Kept, Accounted, Fresh, Clean, Midway, Before
<1>10. (session # 0 => session \in scopes)'
  BY <1>1 DEF FilesInv
<1> QED BY <1>6, <1>7, <1>9, <1>10, OneFile DEF Right

LEMMA FilesStep ==
  ASSUME NEW M, NEW n, FilesInv(M), [F(M, n)!Next]_(F(M, n)!vars) PROVE FilesInv(M)'
<1>1. ASSUME UNCHANGED F(M, n)!vars PROVE FilesInv(M)'
  <2>1. UNCHANGED <<handler, entry, task, worker, laid, filed, excused, session, scopes, v12>>
    BY <1>1 DEF F!vars, F!queued, F!stored, F!silent
  <2>2. FilesTyped(M)' /\ \A j \in M : Right(j)'
    BY <2>1 DEF FilesInv, FilesTyped, Right, AtWork, Kept, Accounted, Fresh, Clean, Haul
  <2> QED BY <2>1, <2>2 DEF FilesInv
<1>2. ASSUME NEW i \in M, F(M, n)!Receive(i) PROVE FilesInv(M)'
  BY <1>2, AdmitIsRight, ClearIsRight, RegisterIsRight, SilenceIsRight, NoticeIsRight, AddIsRight DEF F!Receive
<1>3. ASSUME NEW i \in M, F(M, n)!Run(i) PROVE FilesInv(M)'
  BY <1>3, StartIsRight, DownloadIsRight, SaveIsRight, IndexIsRight, UndoIsRight, CheckIsRight, CompensateIsRight,
     CompensateIndexIsRight, MarkIsRight, FailedIsRight, CoolDownIsRight, ReturnIsRight, FinalizeIsRight,
     ConcludeIsRight DEF F!Run
<1>4. ASSUME NEW i \in M, F(M, n)!CancelGroup(i) PROVE FilesInv(M)'
  BY <1>4, CancelsAreRight DEF F!CancelGroup, F!stored, F!silent
<1>5. ASSUME NEW id, F(M, n)!CancelCard(id) PROVE FilesInv(M)'
  BY <1>5, CancelsAreRight DEF F!CancelCard, F!stored, F!silent
<1>6. ASSUME F(M, n)!Work PROVE FilesInv(M)'
  BY <1>2, <1>3, <1>6, CardCancelledIsRight, CooldownEndsIsRight DEF F!Work
<1> QED BY <1>1, <1>4, <1>5, <1>6, CrashIsRight, AdmitFailsIsRight, RemoveEntryIsRight, RetryIsRight DEF F!Next

-----------------------------------------------------------------------------
(* The clients of storage.  In their part the variables have other names.  *)

kind     == v1
folders  == v2
cache    == v3
lock     == v4
client   == v5
upload   == v6
troubles == v7

Walk     == {"folder", "wait", "list", "create"}
Sessions == {"path", "level", "post", "prepare", "chunk", "cancel", "query"}
Stations == {"idle", "directory", "send", "done", "delete"} \cup Walk \cup Sessions
Parcels  == [at : Stations, client : Nat, level : Nat, folder : Nat, chunks : Nat, deletions : Nat,
             object : {"none", "part", "whole"}, into : Nat,
             answer : {"none", "saved", "failed", "deleted"}, unheard : BOOLEAN]
Nodes    == [parent : Nat, level : Nat, by : Uploads, client : Nat]

ClientsTyped ==
  /\ kind \in P!Kinds /\ folders \in Seq(Nodes) /\ client \in Nat /\ troubles \in Nat
  /\ cache \subseteq [client : Nat, folder : Nat, child : Nat]
  /\ lock \subseteq [client : Nat, folder : Nat, by : Uploads]
  /\ upload \in [Uploads -> Parcels]

\* The folders are a tree, and a path where two cannot have one name.
Tree ==
  /\ \A i \in DOMAIN folders :
       /\ folders[i].parent \in 0 .. (i - 1)
       /\ folders[i].level = IF folders[i].parent = 0 THEN 1 ELSE folders[folders[i].parent].level + 1
       /\ kind # "google" => folders[i].parent = i - 1 /\ folders[i].level = i
  /\ kind = "onedrive" => Len(folders) <= Depth
  /\ kind = "webdav" => Len(folders) \in {0, Depth}

\* What a client knows of a folder is so, and one upload ensures a folder for all of them.
Shared ==
  /\ \A e \in cache : e.child \in DOMAIN folders /\ folders[e.child].parent = e.folder
  /\ \A e \in lock : /\ upload[e.by].at \in {"list", "create"}
                     /\ e.client = upload[e.by].client /\ e.folder = upload[e.by].folder
  /\ \A e, d \in lock : e.client = d.client /\ e.folder = d.folder => e.by = d.by

\* What has been done for an upload, and what its caller was told.
Word(r) ==
  /\ r.at \in Walk => kind = "google"
  /\ r.at \in Sessions => kind = "onedrive"
  /\ r.at = "directory" => kind = "webdav"
  /\ r.at \notin {"done", "delete"} => r.answer = "none"
  /\ r.at \in {"idle", "directory", "send", "path", "level", "post", "prepare"} \cup Walk => r.object = "none"
  /\ r.at = "chunk" => r.object # "whole"
  /\ r.at = "query" => r.object = "whole"
  /\ r.at = "cancel" => troubles > 0 /\ (r.object = "whole" => r.unheard)
  /\ r.answer = "saved" => r.object = "whole" \/ (r.object = "none" /\ r.unheard)
  /\ r.answer = "deleted" => r.object = "none"
  /\ r.answer = "failed" => r.object = "none" \/ r.unheard

\* Where it is on its way, and where its file is.
LevelOf(f) == IF f = 0 THEN 0 ELSE folders[f].level
Place(r) ==
  /\ r.at = "idle" => r.folder = 0 /\ r.level = 0
  /\ kind = "google" /\ r.at \in Walk \cup {"send"} => r.folder \in 0 .. Len(folders) /\ r.level = LevelOf(r.folder)
  /\ kind = "google" /\ r.at = "send" => r.level = Depth
  /\ kind = "onedrive" /\ r.at \in {"path", "level", "post"} => r.level <= Len(folders)
  /\ kind = "onedrive" /\ r.at = "post" => r.level < Depth
  /\ kind = "onedrive" /\ r.at \in {"prepare", "send", "chunk", "query"} => Len(folders) = Depth
  /\ kind = "webdav" /\ r.at = "send" => Len(folders) = Depth
  /\ r.object = "whole" /\ kind \in {"google", "onedrive", "webdav"}
       => r.into \in 1 .. Len(folders) /\ folders[r.into].level = Depth

\* Why it failed, or the folders that are its own.
Cause(r, u) ==
  /\ r.answer = "failed" => \/ troubles > 0
                            \/ kind = "onedrive" /\ \E i \in DOMAIN folders : folders[i].by # u
  /\ kind = "onedrive" /\ r.at \notin {"done", "delete"}
       => \A i \in DOMAIN folders : folders[i].by = u => i <= r.level

\* Whom it waits for, or that the folder is its to make.
Turn(r, u) ==
  /\ r.at = "wait" => \E e \in lock : e.client = r.client /\ e.folder = r.folder
  /\ r.at \in {"list", "create"} => [client |-> r.client, folder |-> r.folder, by |-> u] \in lock
  /\ r.at = "create" => \A i \in DOMAIN folders : folders[i].parent = r.folder => folders[i].client # r.client

Parcel(u) == Word(upload[u]) /\ Place(upload[u]) /\ Cause(upload[u], u) /\ Turn(upload[u], u)

ClientsInv == ClientsTyped /\ Tree /\ Shared /\ P!OneFolder /\ \A u \in Uploads : Parcel(u)

USE DEF kind, folders, cache, lock, client, upload, troubles

LEMMA ClientsStart == P!Init => ClientsInv
<1> SUFFICES ASSUME P!Init PROVE ClientsInv
  OBVIOUS
<1>1. kind \in P!Kinds /\ folders = <<>> /\ cache = {} /\ lock = {} /\ client = 1 /\ troubles = 0
  BY DEF P!Init
<1>2. P!New \in Parcels /\ P!New.at = "idle" /\ P!New.folder = 0 /\ P!New.level = 0 /\ P!New.object = "none"
      /\ P!New.answer = "none"
  BY DEF P!New, Parcels, Stations
<1>3. upload = [u \in Uploads |-> P!New]
  BY DEF P!Init
<1>4. ClientsTyped
  BY <1>1, <1>2, <1>3 DEF ClientsTyped
<1>5. Tree /\ Shared /\ P!OneFolder
  BY <1>1, BelowRoot DEF Tree, Shared, P!OneFolder
<1>6. ASSUME NEW u \in Uploads PROVE Parcel(u)
  <2>1. Word(upload[u])
    BY <1>2, <1>3 DEF Word, Walk, Sessions
  <2>2. Place(upload[u]) /\ Cause(upload[u], u) /\ Turn(upload[u], u)
    BY <1>1, <1>2, <1>3 DEF Place, LevelOf, Cause, Turn
  <2> QED BY <2>1, <2>2 DEF Parcel
<1> QED BY <1>4, <1>5, <1>6 DEF ClientsInv

LEMMA ClientsHold == ClientsInv => P!Sound
<1> SUFFICES ASSUME ClientsInv PROVE P!Sound
  OBVIOUS
<1>1. P!SavedIsWhole /\ P!NothingLeft
  BY DEF ClientsInv, Parcel, Word, P!SavedIsWhole, P!NothingLeft
<1>2. P!InItsFolder
  BY DEF ClientsInv, Parcel, Place, P!InItsFolder
<1>3. P!WaitsForSomebody
  <2> SUFFICES ASSUME NEW u \in Uploads, upload[u].at = "wait"
               PROVE  \E e \in P!Ensuring(u) : upload[e.by].at = "list" \/ upload[e.by].at = "create"
    BY DEF P!WaitsForSomebody, P!At
  <2>1. PICK e \in lock : e.client = upload[u].client /\ e.folder = upload[u].folder
    BY DEF ClientsInv, Parcel, Turn
  <2>2. upload[e.by].at \in {"list", "create"}
    BY DEF ClientsInv, Shared
  <2> QED BY <2>1, <2>2 DEF P!Ensuring
<1>4. P!FailsForACause
  BY DEF ClientsInv, Parcel, Cause, P!FailsForACause
<1> QED BY <1>1, <1>2, <1>3, <1>4 DEF ClientsInv, P!Sound

\* A step of an upload alone.
LEMMA OneParcel ==
  ASSUME ClientsInv, NEW u \in Uploads, NEW y \in Parcels, upload' = [upload EXCEPT ![u] = y],
         UNCHANGED <<kind, folders, cache, lock, client>>, troubles' \in Nat, troubles' >= troubles,
         upload[u].at \notin {"list", "create"}, y.at \notin {"list", "create"},
         y.at = "wait" => \E e \in lock : e.client = y.client /\ e.folder = y.folder,
         Word(y)', Place(y), Cause(y, u)'
  PROVE  ClientsInv'
<1>1. ClientsTyped /\ ClientsTyped' /\ upload'[u] = y
  BY DEF ClientsInv, ClientsTyped
<1>2. Tree' /\ P!OneFolder'
  BY DEF ClientsInv, Tree, P!OneFolder
<1>3. Shared'
  <2>1. \A e \in lock : e.by # u /\ upload'[e.by] = upload[e.by]
    BY <1>1 DEF ClientsInv, Shared, ClientsTyped
  <2> QED BY <2>1 DEF ClientsInv, Shared
<1>4. ASSUME NEW v \in Uploads PROVE Parcel(v)'
  <2>1. CASE v = u
    <3>1. Place(y)' /\ Turn(y, u)'
      BY DEF Place, LevelOf, Turn
    <3> QED BY <1>1, <2>1, <3>1 DEF Parcel
  <2>2. CASE v # u
    <3>1. upload'[v] = upload[v] /\ Word(upload[v]) /\ Place(upload[v]) /\ Cause(upload[v], v) /\ Turn(upload[v], v)
      BY <1>1, <2>2 DEF ClientsInv, Parcel, ClientsTyped
    <3>2. Word(upload[v])'
      BY <1>1, <3>1 DEF ClientsTyped, Word
    <3>3. Place(upload[v])' /\ Turn(upload[v], v)'
      BY <3>1 DEF Place, LevelOf, Turn
    <3>4. Cause(upload[v], v)'
      BY <1>1, <3>1 DEF Cause, ClientsTyped
    <3> QED BY <3>1, <3>2, <3>3, <3>4 DEF Parcel
  <2> QED BY <2>1, <2>2
<1> QED BY <1>1, <1>2, <1>3, <1>4 DEF ClientsInv

\* The steps of an upload that leave its folders alone.
LEMMA OpenKeeps == ASSUME ClientsInv, NEW u \in Uploads, P!Begin(u) PROVE ClientsInv'
<1>1. ClientsTyped /\ Parcel(u) /\ upload[u] \in Parcels
  BY DEF ClientsInv, ClientsTyped
<1>2. UNCHANGED <<kind, folders, cache, lock, client, troubles>> /\ upload[u].at = "idle" /\ client \in Nat
  BY <1>1 DEF P!Begin, P!Store, P!Quiet, P!At, ClientsTyped
<1>3. PICK at \in Stations :
        /\ upload' = [upload EXCEPT ![u].client = client, ![u].at = at]
        /\ \/ kind = "google" /\ at = "folder"
           \/ kind = "onedrive" /\ at = "path"
           \/ kind = "webdav" /\ at = "directory"
           \/ kind \notin {"google", "onedrive", "webdav"} /\ at = "send"
  <2>1. CASE kind = "google"
    BY <2>1 DEF P!Begin, Stations, Walk
  <2>2. CASE kind = "onedrive"
    BY <2>2 DEF P!Begin, Stations, Sessions
  <2>3. CASE kind = "webdav"
    BY <2>3 DEF P!Begin, Stations
  <2>4. CASE kind \notin {"google", "onedrive", "webdav"}
    BY <2>4 DEF P!Begin, Stations
  <2> QED BY <2>1, <2>2, <2>3, <2>4
<1>4. PICK y : y = [upload[u] EXCEPT !.client = client, !.at = at]
  OBVIOUS
<1>5. /\ upload' = [upload EXCEPT ![u] = y] /\ y \in Parcels /\ y.folder = upload[u].folder /\ y.level = upload[u].level
       /\ y.object = upload[u].object /\ y.answer = upload[u].answer /\ y.at = at
  BY <1>1, <1>2, <1>3, <1>4 DEF ClientsTyped, Parcels
<1>6. Word(y)'
  BY <1>1, <1>2, <1>3, <1>5 DEF Parcel, Word, Walk, Sessions
<1>7. Place(y)
  BY <1>1, <1>2, <1>3, <1>5 DEF Parcel, Word, Place, LevelOf, Walk, ClientsTyped
<1>8. Cause(y, u)'
  BY <1>1, <1>2, <1>3, <1>5 DEF Parcel, Word, Cause
<1>9. upload[u].at \notin {"list", "create"} /\ y.at \notin {"list", "create", "wait"}
  BY <1>2, <1>3, <1>5
<1>10. troubles' \in Nat /\ troubles' >= troubles
  BY <1>1, <1>2 DEF ClientsTyped
<1> QED BY <1>2, <1>5, <1>6, <1>7, <1>8, <1>9, <1>10, OneParcel

LEMMA ReplaceKeeps == ASSUME ClientsInv, P!Replace PROVE ClientsInv'
<1>1. ClientsTyped /\ UNCHANGED <<kind, folders, cache, lock, upload, troubles>> /\ client' = client + 1
  BY DEF ClientsInv, P!Replace, P!Quiet
<1>2. ClientsTyped'
  BY <1>1 DEF ClientsTyped
<1>3. Tree' /\ Shared' /\ P!OneFolder'
  BY <1>1 DEF ClientsInv, Tree, Shared, P!OneFolder
<1>4. ASSUME NEW u \in Uploads PROVE Parcel(u)'
  BY <1>1 DEF ClientsInv, Parcel, Word, Place, LevelOf, Cause, Turn
<1> QED BY <1>2, <1>3, <1>4 DEF ClientsInv

LEMMA GoKeeps ==
  ASSUME ClientsInv, NEW u \in Uploads, NEW at \in Stations \ {"list", "create", "wait"}, P!Goto(u, at), P!Store,
         troubles' \in Nat, troubles' >= troubles, upload[u].at \notin {"list", "create"},
         NEW y, y = [upload[u] EXCEPT !.at = at], Word(y)', Place(y), Cause(y, u)'
  PROVE  ClientsInv'
<1>1. upload[u] \in Parcels
  BY DEF ClientsInv, ClientsTyped
<1>2. y \in Parcels /\ y.at = at
  BY <1>1 DEF Parcels
<1>3. upload' = [upload EXCEPT ![u] = y] /\ UNCHANGED <<kind, folders, cache, lock, client>>
  BY <1>1 DEF ClientsInv, ClientsTyped, P!Goto, P!Store
<1> QED BY <1>2, <1>3, OneParcel

LEMMA PathKeeps == ASSUME ClientsInv, NEW u \in Uploads, P!Path(u) \/ P!Prepare(u) PROVE ClientsInv'
<1>1. ClientsTyped /\ Parcel(u) /\ upload[u] \in Parcels /\ Tree
  BY DEF ClientsInv, ClientsTyped
<1>2. PICK at \in {"prepare", "level", "send", "chunk"} :
        /\ P!Goto(u, at) /\ upload[u].at \in {"path", "prepare"} /\ (at # "level" => Len(folders) = Depth)
        /\ at = "level" => upload[u].at = "path"
        /\ P!Store /\ troubles' = troubles
  BY <1>1 DEF P!Path, P!Prepare, P!Quiet, P!At, Parcel, Place, Word, Sessions
<1>3. PICK y : y = [upload[u] EXCEPT !.at = at]
  OBVIOUS
<1>4. /\ y.at = at /\ y.folder = upload[u].folder /\ y.level = upload[u].level
      /\ y.object = upload[u].object /\ y.answer = upload[u].answer
  BY <1>1, <1>3 DEF Parcels
<1>5. kind = "onedrive" /\ UNCHANGED <<kind, folders, troubles>> /\ at \in Stations \ {"list", "create", "wait"}
  BY <1>1, <1>2 DEF Parcel, Word, Sessions, P!Store, Stations
<1>6. Word(y)'
  BY <1>1, <1>2, <1>4, <1>5 DEF Parcel, Word, Walk, Sessions
<1>7. Place(y)
  BY <1>1, <1>2, <1>4, <1>5 DEF Parcel, Word, Place, LevelOf, Walk
<1>8. Cause(y, u)'
  BY <1>1, <1>2, <1>4, <1>5 DEF Parcel, Word, Cause
<1> QED BY <1>1, <1>2, <1>3, <1>5, <1>6, <1>7, <1>8, GoKeeps DEF ClientsTyped

LEMMA LevelKeeps == ASSUME ClientsInv, NEW u \in Uploads, P!Level(u) PROVE ClientsInv'
<1>1. ClientsTyped /\ Parcel(u) /\ upload[u] \in Parcels /\ Tree
  BY DEF ClientsInv, ClientsTyped
<1>2. PICK y : /\ upload' = [upload EXCEPT ![u] = y]
               /\ \/ upload[u].level = Depth /\ y = [upload[u] EXCEPT !.at = "prepare"]
                  \/ upload[u].level < Len(folders) /\ y = [upload[u] EXCEPT !.level = upload[u].level + 1]
                  \/ /\ upload[u].level # Depth /\ ~(upload[u].level < Len(folders))
                     /\ y = [upload[u] EXCEPT !.at = "post"]
  <2>1. CASE upload[u].level = Depth
    <3>1. upload' = [upload EXCEPT ![u] = [upload[u] EXCEPT !.at = "prepare"]]
      BY <1>1, <2>1 DEF P!Level, P!Becomes
    <3> QED BY <2>1, <3>1
  <2>2. CASE upload[u].level # Depth /\ upload[u].level < Len(folders)
    <3>1. upload' = [upload EXCEPT ![u] = [upload[u] EXCEPT !.level = upload[u].level + 1]]
      BY <1>1, <2>2 DEF P!Level, P!Becomes
    <3> QED BY <2>2, <3>1
  <2>3. CASE upload[u].level # Depth /\ ~(upload[u].level < Len(folders))
    <3>1. upload' = [upload EXCEPT ![u] = [upload[u] EXCEPT !.at = "post"]]
      BY <1>1, <2>3 DEF P!Level, P!Becomes
    <3> QED BY <2>3, <3>1
  <2> QED BY <2>1, <2>2, <2>3
<1>3. UNCHANGED <<kind, folders, cache, lock, client, troubles>> /\ upload[u].at = "level"
  BY DEF P!Level, P!Becomes, P!Store, P!Quiet, P!At
<1>4. upload[u].level \in Nat /\ Len(folders) \in Nat /\ Depth \in Nat /\ kind = "onedrive"
      /\ upload[u].level <= Len(folders) /\ Len(folders) <= Depth
  BY <1>1, <1>3, BelowRoot DEF Parcels, ClientsTyped, Parcel, Place, Word, Sessions, Tree
<1>5. /\ y \in Parcels /\ y.object = upload[u].object /\ y.answer = upload[u].answer /\ y.at \in {"prepare", "level", "post"}
      /\ y.level <= Len(folders) /\ y.level >= upload[u].level /\ y.level \in Nat
      /\ y.at = "prepare" => Len(folders) = Depth
      /\ y.at = "post" => y.level < Depth
  <2>1. upload[u].level + 1 \in Nat
    BY <1>4
  <2>2. \/ upload[u].level = Depth /\ y.at = "prepare" /\ y.level = upload[u].level
        \/ upload[u].level < Len(folders) /\ y.at = "level" /\ y.level = upload[u].level + 1
        \/ /\ upload[u].level # Depth /\ ~(upload[u].level < Len(folders))
           /\ y.at = "post" /\ y.level = upload[u].level
    BY <1>1, <1>2, <1>3 DEF Parcels
  <2>3. y \in Parcels /\ y.object = upload[u].object /\ y.answer = upload[u].answer
    BY <1>1, <1>2, <2>1 DEF Parcels, Stations, Sessions
  <2> QED BY <1>4, <2>1, <2>2, <2>3
<1>6. Word(y)'
  BY <1>1, <1>3, <1>4, <1>5 DEF Parcel, Word, Walk, Sessions
<1>7. Place(y)
  BY <1>1, <1>3, <1>4, <1>5 DEF Parcel, Word, Place, LevelOf, Walk
<1>8. Cause(y, u)'
  BY <1>1, <1>3, <1>4, <1>5 DEF Parcel, Word, Cause, ClientsTyped
<1>9. upload[u].at \notin {"list", "create"} /\ y.at \notin {"list", "create", "wait"}
  BY <1>3, <1>5
<1>10. troubles' \in Nat /\ troubles' >= troubles
  BY <1>1, <1>3 DEF ClientsTyped
<1> QED BY <1>2, <1>3, <1>5, <1>6, <1>7, <1>8, <1>9, <1>10, OneParcel

LEMMA PutChunkKeeps == ASSUME ClientsInv, NEW u \in Uploads, NEW heard \in BOOLEAN, P!PutChunk(u, heard) PROVE ClientsInv'
<1>1. ClientsTyped /\ Parcel(u) /\ upload[u] \in Parcels /\ Tree
  BY DEF ClientsInv, ClientsTyped
<1>2. /\ upload[u].at = "chunk" /\ UNCHANGED <<kind, folders, cache, lock, client>> /\ kind = "onedrive" /\ Len(folders) = Depth
      /\ upload[u].answer = "none" /\ troubles' \in Nat /\ troubles' >= troubles /\ (~heard => troubles' > 0)
  BY <1>1 DEF P!PutChunk, P!At, P!Store, P!Heard, P!Quiet, P!Trouble, Parcel, Word, Place, Sessions, ClientsTyped
<1>3. PICK r : r = IF upload[u].chunks = 0 THEN [upload[u] EXCEPT !.object = "part"] ELSE P!Stored(upload[u])
  OBVIOUS
<1>4. /\ r \in Parcels /\ r.at = "chunk" /\ r.answer = "none" /\ r.level = upload[u].level
      /\ r.object = "part" \/ (r.object = "whole" /\ r.into = Len(folders))
  <2>1. CASE upload[u].chunks = 0
    BY <1>1, <1>2, <1>3, <2>1 DEF Parcels
  <2>2. CASE upload[u].chunks # 0
    <3>1. r = [upload[u] EXCEPT !.object = "whole", !.into = Len(folders)] /\ Len(folders) \in Nat
      BY <1>1, <1>2, <1>3, <2>2 DEF P!Stored, ClientsTyped
    <3> QED BY <1>1, <1>2, <3>1 DEF Parcels
  <2> QED BY <2>1, <2>2
<1>5. PICK y : /\ upload' = [upload EXCEPT ![u] = y]
               /\ \/ ~heard /\ y = [r EXCEPT !.at = "cancel", !.unheard = (r.object = "whole")]
                  \/ heard /\ r.object = "part" /\ y = [r EXCEPT !.chunks = 1]
                  \/ heard /\ r.object # "part" /\ y = [r EXCEPT !.at = "done", !.answer = "saved"]
                  \/ heard /\ r.object # "part" /\ y = [r EXCEPT !.at = "query"]
  <2>1. PICK named \in BOOLEAN : upload' = [upload EXCEPT ![u] =
         IF ~heard THEN [r EXCEPT !.at = "cancel", !.unheard = r.object = "whole"]
         ELSE IF r.object = "part" THEN [r EXCEPT !.chunks = 1]
         ELSE IF named THEN P!Saved(r) ELSE [r EXCEPT !.at = "query"]]
    BY <1>3 DEF P!PutChunk
  <2> QED BY <2>1 DEF P!Saved
<1>6. /\ y \in Parcels /\ y.level = upload[u].level /\ y.object = r.object /\ y.into = r.into
      /\ \/ ~heard /\ y.at = "cancel" /\ y.answer = "none" /\ (r.object = "whole" => y.unheard)
         \/ r.object = "part" /\ y.at = "chunk" /\ y.answer = "none"
         \/ r.object # "part" /\ y.at = "done" /\ y.answer = "saved"
         \/ r.object # "part" /\ y.at = "query" /\ y.answer = "none"
  <2>1. CASE ~heard /\ y = [r EXCEPT !.at = "cancel", !.unheard = (r.object = "whole")]
    <3>1. (r.object = "whole") \in BOOLEAN
      OBVIOUS
    <3> QED BY <1>4, <2>1, <3>1 DEF Parcels, Stations, Sessions
  <2>2. CASE heard /\ r.object = "part" /\ y = [r EXCEPT !.chunks = 1]
    BY <1>4, <2>2 DEF Parcels
  <2>3. CASE heard /\ r.object # "part" /\ y = [r EXCEPT !.at = "done", !.answer = "saved"]
    BY <1>4, <2>3 DEF Parcels, Stations
  <2>4. CASE heard /\ r.object # "part" /\ y = [r EXCEPT !.at = "query"]
    BY <1>4, <2>4 DEF Parcels, Stations, Sessions
  <2> QED BY <1>5, <2>1, <2>2, <2>3, <2>4
<1>7. Word(y)'
  BY <1>2, <1>4, <1>6 DEF Word, Walk, Sessions
<1>8. Place(y)
  <2>1. Depth \in 1 .. Len(folders) /\ folders[Depth].level = Depth
    BY <1>1, <1>2, BelowRoot DEF Tree, ClientsTyped
  <2> QED BY <1>2, <1>4, <1>6, <2>1 DEF Place
<1>9. Cause(y, u)'
  BY <1>1, <1>2, <1>6 DEF Parcel, Cause
<1>10. upload[u].at \notin {"list", "create"} /\ y.at \notin {"list", "create", "wait"}
  BY <1>2, <1>6
<1> QED BY <1>2, <1>5, <1>6, <1>7, <1>8, <1>9, <1>10, OneParcel

\* The call of an upload is over.
LEMMA OverKeeps ==
  ASSUME ClientsInv, NEW u \in Uploads, NEW y \in Parcels, upload' = [upload EXCEPT ![u] = y],
         UNCHANGED <<kind, folders, cache, lock, client>>, troubles' \in Nat, troubles' >= troubles,
         upload[u].at \notin {"list", "create"}, y.at \in {"done", "delete"},
         y.answer = "saved" => y.object = "whole" \/ (y.object = "none" /\ y.unheard),
         y.answer = "deleted" => y.object = "none",
         y.answer = "failed" => /\ y.object = "none" \/ y.unheard
                                /\ \/ troubles' > 0
                                   \/ kind = "onedrive" /\ \E i \in DOMAIN folders : folders[i].by # u,
         y.object = "whole" /\ kind \in {"google", "onedrive", "webdav"}
           => y.into \in 1 .. Len(folders) /\ folders[y.into].level = Depth
  PROVE  ClientsInv'
<1>1. Word(y)'
  BY DEF Word, Walk, Sessions
<1>2. Place(y)
  BY DEF Place, Walk
<1>3. Cause(y, u)'
  BY DEF Cause
<1> QED BY <1>1, <1>2, <1>3, OneParcel

LEMMA CancelKeeps == ASSUME ClientsInv, NEW u \in Uploads, NEW heard \in BOOLEAN, P!CancelSession(u, heard) PROVE ClientsInv'
<1>1. ClientsTyped /\ Parcel(u) /\ upload[u] \in Parcels
  BY DEF ClientsInv, ClientsTyped
<1>2. /\ upload[u].at = "cancel" /\ UNCHANGED <<kind, folders, cache, lock, client>>
      /\ troubles' \in Nat /\ troubles' >= troubles /\ troubles' > 0
  BY <1>1 DEF P!CancelSession, P!At, P!Store, P!Heard, P!Quiet, P!Trouble, Parcel, Word, ClientsTyped
<1>3. PICK y : y = [upload[u] EXCEPT !.object = IF upload[u].object = "part" /\ heard THEN "none" ELSE upload[u].object,
                                     !.unheard = upload[u].unheard \/ ~heard, !.at = "done", !.answer = "failed"]
  OBVIOUS
<1>4. upload' = [upload EXCEPT ![u] = y]
  BY <1>1, <1>3 DEF P!CancelSession, P!Becomes, P!Failed, Parcels
<1>5. /\ y \in Parcels /\ y.at = "done" /\ y.answer = "failed" /\ y.into = upload[u].into
      /\ y.unheard = (upload[u].unheard \/ ~heard)
      /\ y.object = IF upload[u].object = "part" /\ heard THEN "none" ELSE upload[u].object
  BY <1>1, <1>3 DEF Parcels, Stations
<1>6. y.object = "none" \/ y.unheard
  BY <1>1, <1>2, <1>5 DEF Parcel, Word, Parcels
<1>7. y.object = "whole" /\ kind \in {"google", "onedrive", "webdav"}
           => y.into \in 1 .. Len(folders) /\ folders[y.into].level = Depth
  BY <1>1, <1>5 DEF Parcel, Place
<1> QED BY <1>2, <1>4, <1>5, <1>6, <1>7, OverKeeps

LEMMA QueryKeeps == ASSUME ClientsInv, NEW u \in Uploads, P!QueryItem(u) PROVE ClientsInv'
<1>1. ClientsTyped /\ Parcel(u) /\ upload[u] \in Parcels
  BY DEF ClientsInv, ClientsTyped
<1>2. /\ upload[u].at = "query" /\ UNCHANGED <<kind, folders, cache, lock, client, troubles>> /\ troubles \in Nat
      /\ upload[u].object = "whole"
  BY <1>1 DEF P!QueryItem, P!At, P!Store, P!Quiet, Parcel, Word, ClientsTyped
<1>3. PICK y : y = [upload[u] EXCEPT !.at = "done", !.answer = "saved"]
  OBVIOUS
<1>4. upload' = [upload EXCEPT ![u] = y]
  BY <1>1, <1>3 DEF P!QueryItem, P!Saved
<1>5. y \in Parcels /\ y.at = "done" /\ y.answer = "saved" /\ y.into = upload[u].into /\ y.object = "whole"
  BY <1>1, <1>2, <1>3 DEF Parcels, Stations
<1>7. y.object = "whole" /\ kind \in {"google", "onedrive", "webdav"}
           => y.into \in 1 .. Len(folders) /\ folders[y.into].level = Depth
  BY <1>1, <1>2, <1>5 DEF Parcel, Place
<1>8. troubles' \in Nat /\ troubles' >= troubles
  BY <1>2
<1> QED BY <1>2, <1>4, <1>5, <1>7, <1>8, OverKeeps

\* A file is sent in one call, whatever the provider.
LEMMA SendKeeps ==
  ASSUME ClientsInv, NEW u \in Uploads, NEW heard \in BOOLEAN,
         \/ P!SendGoogle(u, heard) \/ P!SendOneDrive(u, heard) \/ P!SendOSS(u, heard) \/ P!SendS3(u, heard)
         \/ P!SendStream(u, heard) \/ P!MoveLocal(u, heard)
  PROVE  ClientsInv'
<1>1. ClientsTyped /\ Parcel(u) /\ upload[u] \in Parcels /\ Tree
  BY DEF ClientsInv, ClientsTyped
<1>2. /\ upload[u].at = "send" /\ UNCHANGED <<kind, folders, cache, lock, client>>
      /\ troubles' \in Nat /\ troubles' >= troubles /\ (~heard => troubles' > 0)
  BY <1>1 DEF P!SendGoogle, P!SendOneDrive, P!SendOSS, P!SendS3, P!SendWhole, P!SendStream, P!MoveLocal,
              P!At, P!Store, P!Heard, P!Quiet, P!Trouble, ClientsTyped
<1>3. PICK s : s = P!Stored(upload[u])
  OBVIOUS
<1>4. /\ s \in Parcels /\ s.object = "whole"
      /\ kind \in {"google", "onedrive", "webdav"} => s.into \in 1 .. Len(folders) /\ folders[s.into].level = Depth
  <2>1. PICK f : f = IF kind = "google" THEN upload[u].folder ELSE Len(folders)
    OBVIOUS
  <2>2. f \in Nat
    BY <1>1, <2>1 DEF Parcels, ClientsTyped
  <2>3. s = [upload[u] EXCEPT !.object = "whole", !.into = f]
    BY <1>3, <2>1 DEF P!Stored
  <2>4. s \in Parcels /\ s.object = "whole" /\ s.into = f
    BY <1>1, <2>2, <2>3 DEF Parcels
  <2>5. CASE kind = "google"
    BY <1>1, <1>2, <2>1, <2>4, <2>5, BelowRoot DEF Parcel, Place, LevelOf, ClientsTyped
  <2>6. CASE kind \in {"onedrive", "webdav"}
    <3>1. Len(folders) = Depth
      BY <1>1, <1>2, <2>6 DEF Parcel, Place
    <3>2. Depth \in 1 .. Len(folders) /\ folders[Depth].level = Depth
      BY <1>1, <2>6, <3>1, BelowRoot DEF Tree, ClientsTyped
    <3> QED BY <2>1, <2>4, <2>6, <3>1, <3>2
  <2> QED BY <2>4, <2>5, <2>6
<1>5. PICK some \in {"part", "whole"} : upload' = [upload EXCEPT ![u] =
         IF heard THEN [s EXCEPT !.at = "done", !.answer = "saved"]
                  ELSE [s EXCEPT !.object = some, !.unheard = TRUE, !.at = "done", !.answer = "failed"]]
  <2>1. CASE P!SendWhole(u, heard)
    <3>1. upload' = [upload EXCEPT ![u] = IF heard THEN [s EXCEPT !.at = "done", !.answer = "saved"]
                       ELSE [s EXCEPT !.unheard = TRUE, !.at = "done", !.answer = "failed"]]
      BY <1>3, <2>1 DEF P!SendWhole, P!Saved, P!Failed
    <3>2. [s EXCEPT !.unheard = TRUE, !.at = "done", !.answer = "failed"]
            = [s EXCEPT !.object = "whole", !.unheard = TRUE, !.at = "done", !.answer = "failed"]
      BY <1>4 DEF Parcels
    <3> QED BY <3>1, <3>2
  <2>2. CASE P!SendStream(u, heard) \/ P!MoveLocal(u, heard)
    BY <1>3, <2>2 DEF P!SendStream, P!MoveLocal, P!Saved, P!Failed
  <2> QED BY <2>1, <2>2 DEF P!SendGoogle, P!SendOneDrive, P!SendOSS, P!SendS3
<1>6. PICK y : y = IF heard THEN [s EXCEPT !.at = "done", !.answer = "saved"]
                  ELSE [s EXCEPT !.object = some, !.unheard = TRUE, !.at = "done", !.answer = "failed"]
  OBVIOUS
<1>7. /\ y \in Parcels /\ y.at = "done" /\ y.into = s.into
      /\ \/ heard /\ y.answer = "saved" /\ y.object = "whole"
         \/ ~heard /\ y.answer = "failed" /\ y.unheard
  BY <1>4, <1>6 DEF Parcels, Stations
<1> QED BY <1>2, <1>4, <1>5, <1>6, <1>7, OverKeeps

LEMMA AskKeeps == ASSUME ClientsInv, NEW u \in Uploads, P!AskDelete(u) PROVE ClientsInv'
<1>1. ClientsTyped /\ Parcel(u) /\ upload[u] \in Parcels
  BY DEF ClientsInv, ClientsTyped
<1>2. /\ upload[u].at = "done" /\ UNCHANGED <<kind, folders, cache, lock, client, troubles>> /\ troubles \in Nat
      /\ upload[u].answer = "saved"
  BY <1>1 DEF P!AskDelete, P!At, P!Store, P!Quiet, ClientsTyped
<1>3. PICK y : y = [upload[u] EXCEPT !.at = "delete", !.deletions = upload[u].deletions + 1]
  OBVIOUS
<1>4. upload' = [upload EXCEPT ![u] = y]
  BY <1>1, <1>3 DEF P!AskDelete, ClientsTyped
<1>5. /\ y \in Parcels /\ y.at = "delete" /\ y.answer = "saved" /\ y.into = upload[u].into
      /\ y.object = upload[u].object /\ y.unheard = upload[u].unheard
  <2>1. upload[u].deletions + 1 \in Nat
    BY <1>1 DEF Parcels
  <2> QED BY <1>1, <1>2, <1>3, <2>1 DEF Parcels, Stations
<1>6. y.object = "whole" \/ (y.object = "none" /\ y.unheard)
  BY <1>1, <1>2, <1>5 DEF Parcel, Word
<1>7. y.object = "whole" /\ kind \in {"google", "onedrive", "webdav"}
           => y.into \in 1 .. Len(folders) /\ folders[y.into].level = Depth
  BY <1>1, <1>2, <1>5 DEF Parcel, Place
<1>8. troubles' \in Nat /\ troubles' >= troubles
  BY <1>2
<1> QED BY <1>2, <1>4, <1>5, <1>6, <1>7, <1>8, OverKeeps

\* A file is deleted, or that fails.
LEMMA DeleteKeeps ==
  ASSUME ClientsInv, NEW u \in Uploads, NEW heard \in BOOLEAN,
         \/ P!DeleteGoogle(u, heard) \/ P!DeleteOneDrive(u, heard) \/ P!DeleteOSS(u, heard) \/ P!DeleteS3(u, heard)
         \/ P!DeleteLocal(u, heard) \/ P!DeleteWebDAV(u, heard)
  PROVE  ClientsInv'
<1>1. ClientsTyped /\ Parcel(u) /\ upload[u] \in Parcels
  BY DEF ClientsInv, ClientsTyped
<1>2. /\ upload[u].at = "delete" /\ UNCHANGED <<kind, folders, cache, lock, client>>
      /\ troubles' \in Nat /\ troubles' >= troubles
  BY <1>1 DEF P!DeleteGoogle, P!DeleteOneDrive, P!DeleteOSS, P!DeleteS3, P!DeleteLocal, P!DeleteById, P!DeleteWebDAV,
              P!At, P!Store, P!Heard, P!Quiet, P!Trouble, ClientsTyped
<1>3. PICK y : /\ upload' = [upload EXCEPT ![u] = y]
               /\ \/ y = [upload[u] EXCEPT !.at = "done"]
                  \/ y = [upload[u] EXCEPT !.at = "done", !.object = "none", !.answer = "deleted"]
                  \/ y = [upload[u] EXCEPT !.at = "done", !.object = "none", !.unheard = TRUE]
  <2>1. CASE P!DeleteById(u, heard)
    BY <2>1 DEF P!DeleteById, P!Deleted
  <2>2. CASE P!DeleteWebDAV(u, heard)
    BY <2>2 DEF P!DeleteWebDAV, P!Deleted
  <2> QED BY <2>1, <2>2 DEF P!DeleteGoogle, P!DeleteOneDrive, P!DeleteOSS, P!DeleteS3, P!DeleteLocal
<1>4. /\ y \in Parcels /\ y.at = "done" /\ y.into = upload[u].into
      /\ \/ y.object = upload[u].object /\ y.unheard = upload[u].unheard /\ y.answer = upload[u].answer
         \/ y.object = "none" /\ y.answer = "deleted"
         \/ y.object = "none" /\ y.unheard /\ y.answer = upload[u].answer
  BY <1>1, <1>3 DEF Parcels, Stations
<1>5. /\ y.answer = "saved" => y.object = "whole" \/ (y.object = "none" /\ y.unheard)
      /\ y.answer = "deleted" => y.object = "none"
      /\ y.answer = "failed" => y.object = "none" \/ y.unheard
  BY <1>1, <1>4 DEF Parcel, Word
<1>6. y.answer = "failed" => \/ troubles' > 0
                             \/ kind = "onedrive" /\ \E i \in DOMAIN folders : folders[i].by # u
  BY <1>1, <1>2, <1>4 DEF Parcel, Cause, ClientsTyped
<1>7. y.object = "whole" /\ kind \in {"google", "onedrive", "webdav"}
           => y.into \in 1 .. Len(folders) /\ folders[y.into].level = Depth
  BY <1>1, <1>4 DEF Parcel, Place
<1> QED BY <1>2, <1>3, <1>4, <1>5, <1>6, <1>7, OverKeeps

\* A call that an upload makes for itself fails without effect.
LEMMA FailKeeps ==
  ASSUME ClientsInv, NEW u \in Uploads, P!Fail(u), upload[u].at \notin {"list", "create"} PROVE ClientsInv'
<1>1. ClientsTyped /\ Parcel(u) /\ upload[u] \in Parcels
  BY DEF ClientsInv, ClientsTyped
<1>2. /\ UNCHANGED <<kind, folders, cache, lock, client>> /\ upload[u].at \notin {"list", "create"}
      /\ troubles' \in Nat /\ troubles' >= troubles /\ troubles' > 0
  BY <1>1 DEF P!Fail, P!Trouble, P!At, ClientsTyped
<1>3. CASE /\ upload[u].at \in {"path", "level", "post", "prepare", "directory", "send", "query"}
           /\ P!Becomes(u, P!Failed([upload[u] EXCEPT !.unheard = @ \/ P!At(u, "query")]))
  <2>1. PICK y : y = [upload[u] EXCEPT !.unheard = upload[u].unheard \/ upload[u].at = "query",
                                       !.at = "done", !.answer = "failed"]
    OBVIOUS
  <2>2. upload' = [upload EXCEPT ![u] = y]
    BY <1>1, <1>3, <2>1 DEF P!Becomes, P!Failed, P!At, Parcels
  <2>3. /\ y \in Parcels /\ y.at = "done" /\ y.answer = "failed" /\ y.into = upload[u].into
        /\ y.object = upload[u].object /\ (upload[u].at = "query" => y.unheard)
    BY <1>1, <2>1 DEF Parcels, Stations
  <2>4. y.object = "none" \/ y.unheard
    BY <1>1, <1>3, <2>3 DEF Parcel, Word
  <2>5. y.object = "whole" /\ kind \in {"google", "onedrive", "webdav"}
           => y.into \in 1 .. Len(folders) /\ folders[y.into].level = Depth
    BY <1>1, <2>3 DEF Parcel, Place
  <2> QED BY <1>2, <2>2, <2>3, <2>4, <2>5, OverKeeps
<1>4. CASE upload[u].at = "folder" /\ P!Becomes(u, P!Failed(upload[u]))
  <2>1. PICK y : y = [upload[u] EXCEPT !.at = "done", !.answer = "failed"]
    OBVIOUS
  <2>2. upload' = [upload EXCEPT ![u] = y]
    BY <1>4, <2>1 DEF P!Becomes, P!Failed
  <2>3. y \in Parcels /\ y.at = "done" /\ y.answer = "failed" /\ y.object = "none"
    BY <1>1, <1>4, <2>1 DEF Parcels, Stations, Parcel, Word, Walk
  <2> QED BY <1>2, <2>2, <2>3, OverKeeps
<1>5. CASE upload[u].at = "chunk" /\ P!Goto(u, "cancel")
  <2>1. PICK y : y = [upload[u] EXCEPT !.at = "cancel"]
    OBVIOUS
  <2>2. /\ y.at = "cancel" /\ y.object # "whole" /\ y.answer = "none" /\ kind = "onedrive" /\ y.level = upload[u].level
        /\ "cancel" \in Stations \ {"list", "create", "wait"}
    BY <1>1, <1>5, <2>1 DEF Parcels, Parcel, Word, Sessions, Stations
  <2>3. Word(y)'
    BY <1>2, <2>2 DEF Word, Walk, Sessions
  <2>4. Place(y) /\ Cause(y, u)'
    BY <1>1, <1>2, <1>5, <2>2 DEF Parcel, Place, Cause, Walk
  <2> QED BY <1>2, <1>5, <2>1, <2>2, <2>3, <2>4, GoKeeps DEF P!Store
<1>6. CASE upload[u].at = "delete" /\ P!Goto(u, "done")
  <2>1. PICK y : y = [upload[u] EXCEPT !.at = "done"]
    OBVIOUS
  <2>2. upload' = [upload EXCEPT ![u] = y]
    BY <1>1, <1>6, <2>1 DEF P!Goto, ClientsTyped
  <2>3. /\ y \in Parcels /\ y.at = "done" /\ y.into = upload[u].into
        /\ y.object = upload[u].object /\ y.unheard = upload[u].unheard /\ y.answer = upload[u].answer
    BY <1>1, <2>1 DEF Parcels, Stations
  <2>4. /\ y.answer = "saved" => y.object = "whole" \/ (y.object = "none" /\ y.unheard)
        /\ y.answer = "deleted" => y.object = "none"
        /\ y.answer = "failed" => y.object = "none" \/ y.unheard
    BY <1>1, <2>3 DEF Parcel, Word
  <2>5. y.object = "whole" /\ kind \in {"google", "onedrive", "webdav"}
           => y.into \in 1 .. Len(folders) /\ folders[y.into].level = Depth
    BY <1>1, <2>3 DEF Parcel, Place
  <2> QED BY <1>2, <2>2, <2>3, <2>4, <2>5, OverKeeps
<1> QED BY <1>3, <1>4, <1>5, <1>6 DEF P!Fail, P!At

\* The steps of those who walk the folders of Google Drive.
LEMMA LockKeeps ==
  ASSUME ClientsInv, NEW u \in Uploads, NEW at \in {"list", "create"}, upload[u].at \in {"folder", "list"},
         P!Goto(u, at), UNCHANGED <<kind, folders, cache, client, troubles>>,
         lock' = lock \cup {[client |-> upload[u].client, folder |-> upload[u].folder, by |-> u]},
         \/ P!Ensuring(u) = {}
         \/ [client |-> upload[u].client, folder |-> upload[u].folder, by |-> u] \in lock,
         at = "create" => P!Children(upload[u].folder) = {}
  PROVE  ClientsInv'
<1>1. ClientsTyped /\ Parcel(u) /\ upload[u] \in Parcels /\ kind = "google"
  BY DEF ClientsInv, ClientsTyped, Parcel, Word, Walk
<1>2. PICK y : y = [upload[u] EXCEPT !.at = at]
  OBVIOUS
<1>3. /\ upload' = [upload EXCEPT ![u] = y] /\ y \in Parcels /\ y.at = at /\ y.client = upload[u].client
      /\ y.folder = upload[u].folder /\ y.level = upload[u].level /\ y.object = upload[u].object
      /\ y.answer = upload[u].answer
  BY <1>1, <1>2 DEF P!Goto, ClientsTyped, Parcels, Stations, Walk
<1>4. ClientsTyped'
  <2>1. [client |-> upload[u].client, folder |-> upload[u].folder, by |-> u] \in [client : Nat, folder : Nat, by : Uploads]
    BY <1>1 DEF Parcels
  <2> QED BY <1>1, <1>3, <2>1 DEF ClientsTyped
<1>5. Tree' /\ P!OneFolder'
  BY DEF ClientsInv, Tree, P!OneFolder
<1>6. upload'[u] = y /\ \A v \in Uploads : v # u => upload'[v] = upload[v]
  BY <1>1, <1>3 DEF ClientsTyped
<1>7. Shared'
  <2>1. \A e \in lock' : /\ upload'[e.by].at \in {"list", "create"}
                         /\ e.client = upload'[e.by].client /\ e.folder = upload'[e.by].folder
    <3> SUFFICES ASSUME NEW e \in lock'
                 PROVE  /\ upload'[e.by].at \in {"list", "create"}
                        /\ e.client = upload'[e.by].client /\ e.folder = upload'[e.by].folder
      OBVIOUS
    <3>1. CASE e \in lock
      <4>1. e.by \in Uploads /\ upload[e.by].at \in {"list", "create"} /\ e.client = upload[e.by].client
            /\ e.folder = upload[e.by].folder
        BY <1>1, <3>1 DEF ClientsInv, Shared, ClientsTyped
      <4> QED BY <1>3, <1>6, <4>1
    <3>2. CASE e = [client |-> upload[u].client, folder |-> upload[u].folder, by |-> u]
      BY <1>3, <1>6, <3>2
    <3> QED BY <3>1, <3>2
  <2>2. \A e, d \in lock' : e.client = d.client /\ e.folder = d.folder => e.by = d.by
    BY DEF ClientsInv, Shared, P!Ensuring
  <2>3. \A e \in cache : e.child \in DOMAIN folders /\ folders[e.child].parent = e.folder
    BY DEF ClientsInv, Shared
  <2> QED BY <2>1, <2>2, <2>3 DEF Shared
<1>8. ASSUME NEW v \in Uploads PROVE Parcel(v)'
  <2>1. CASE v = u
    <3>1. Word(y)'
      BY <1>1, <1>3 DEF Parcel, Word, Walk, Sessions
    <3>2. Place(y)'
      BY <1>1, <1>3 DEF Parcel, Word, Place, LevelOf, Walk
    <3>3. Cause(y, u)'
      BY <1>1, <1>3 DEF Parcel, Cause
    <3>4. Turn(y, u)'
      BY <1>3 DEF Turn, P!Children
    <3> QED BY <1>6, <2>1, <3>1, <3>2, <3>3, <3>4 DEF Parcel
  <2>2. CASE v # u
    <3>1. upload'[v] = upload[v] /\ Word(upload[v]) /\ Place(upload[v]) /\ Cause(upload[v], v) /\ Turn(upload[v], v)
      BY <1>6, <2>2 DEF ClientsInv, Parcel
    <3>2. Word(upload[v])' /\ Place(upload[v])' /\ Cause(upload[v], v)'
      BY <3>1 DEF Word, Place, LevelOf, Cause
    <3>3. Turn(upload[v], v)'
      BY <3>1 DEF Turn
    <3> QED BY <3>1, <3>2, <3>3 DEF Parcel
  <2> QED BY <2>1, <2>2
<1> QED BY <1>4, <1>5, <1>7, <1>8 DEF ClientsInv

\* One step down.
LEMMA IntoIs ==
  ASSUME NEW r \in Parcels, NEW f \in Nat
  PROVE  \E y \in Parcels : /\ y = P!Into(r, f) /\ y.at = "folder" /\ y.folder = f /\ y.level = r.level + 1
                            /\ y.object = r.object /\ y.answer = r.answer /\ y.into = r.into
<1>1. PICK y : y = [r EXCEPT !.at = "folder", !.folder = f, !.level = r.level + 1]
  OBVIOUS
<1>2. y = P!Into(r, f)
  BY <1>1 DEF P!Into
<1>3. r.level + 1 \in Nat
  BY DEF Parcels
<1>4. y \in Parcels /\ y.at = "folder" /\ y.folder = f /\ y.level = r.level + 1
      /\ y.object = r.object /\ y.answer = r.answer /\ y.into = r.into
  BY <1>1, <1>3 DEF Parcels, Stations, Walk
<1> QED BY <1>2, <1>4

LEMMA DescendKeeps == ASSUME ClientsInv, NEW u \in Uploads, P!Descend(u) PROVE ClientsInv'
<1>1. ClientsTyped /\ Parcel(u) /\ upload[u] \in Parcels /\ upload[u].at = "folder" /\ kind = "google" /\ Shared /\ Tree
  BY DEF ClientsInv, ClientsTyped, Parcel, Word, Walk, P!Descend, P!At
<1>2. UNCHANGED <<kind, folders, cache, client, troubles>> /\ troubles' \in Nat /\ troubles' >= troubles
  BY <1>1 DEF P!Descend, P!Quiet, ClientsTyped
<1>3. CASE upload[u].level = Depth /\ P!Goto(u, "send") /\ UNCHANGED lock
  <2>1. PICK y : y = [upload[u] EXCEPT !.at = "send"]
    OBVIOUS
  <2>2. /\ y.at = "send" /\ y.object = upload[u].object /\ y.answer = upload[u].answer
        /\ y.folder = upload[u].folder /\ y.level = upload[u].level
    BY <1>1, <2>1 DEF Parcels
  <2>3. Word(y)'
    BY <1>1, <1>2, <2>2 DEF Parcel, Word, Walk, Sessions
  <2>4. Place(y)
    BY <1>1, <1>3, <2>2 DEF Parcel, Word, Place, LevelOf, Walk
  <2>5. Cause(y, u)'
    BY <1>1, <1>2, <2>2 DEF Parcel, Cause
  <2>6. "send" \in Stations \ {"list", "create", "wait"}
    BY DEF Stations
  <2> QED BY <1>1, <1>2, <1>3, <2>1, <2>3, <2>4, <2>5, <2>6, GoKeeps DEF P!Store
<1>4. ASSUME NEW e \in P!Known(u), P!Becomes(u, P!Into(upload[u], e.child)), UNCHANGED lock PROVE ClientsInv'
  <2>1. /\ e \in cache /\ e.folder = upload[u].folder /\ e.child \in DOMAIN folders /\ folders[e.child].parent = e.folder
        /\ e.child \in 1 .. Len(folders)
    BY <1>1 DEF P!Known, Shared, ClientsTyped
  <2>2. PICK y \in Parcels : /\ y = P!Into(upload[u], e.child) /\ y.at = "folder" /\ y.folder = e.child
                             /\ y.level = upload[u].level + 1
                             /\ y.object = upload[u].object /\ y.answer = upload[u].answer
    BY <1>1, <2>1, IntoIs
  <2>3. upload' = [upload EXCEPT ![u] = y]
    BY <1>4, <2>2 DEF P!Becomes
  <2>4. Word(y)'
    BY <1>1, <1>2, <2>2 DEF Parcel, Word, Walk, Sessions
  <2>5. y.level = LevelOf(y.folder)
    <3>1. upload[u].level = LevelOf(upload[u].folder)
      BY <1>1 DEF Parcel, Place, Walk
    <3>2. folders[e.child].level = IF upload[u].folder = 0 THEN 1 ELSE folders[upload[u].folder].level + 1
      BY <1>1, <2>1 DEF Tree
    <3>3. e.child # 0
      BY <2>1
    <3> QED BY <2>2, <3>1, <3>2, <3>3 DEF LevelOf
  <2>6. Place(y)
    BY <1>1, <2>1, <2>2, <2>5 DEF Parcel, Word, Place, Walk, ClientsTyped
  <2>7. Cause(y, u)'
    BY <1>1, <1>2, <2>2 DEF Parcel, Word, Cause
  <2> QED BY <1>1, <1>2, <1>4, <2>2, <2>3, <2>4, <2>6, <2>7, OneParcel
<1>5. CASE P!Ensuring(u) # {} /\ P!Goto(u, "wait") /\ UNCHANGED lock
  <2>1. PICK y : y = [upload[u] EXCEPT !.at = "wait"]
    OBVIOUS
  <2>2. /\ y.at = "wait" /\ y.object = upload[u].object /\ y.answer = upload[u].answer /\ y \in Parcels
        /\ y.folder = upload[u].folder /\ y.level = upload[u].level /\ y.client = upload[u].client
    BY <1>1, <2>1 DEF Parcels, Stations, Walk
  <2>3. Word(y)'
    BY <1>1, <1>2, <2>2 DEF Parcel, Word, Walk, Sessions
  <2>4. Place(y)
    BY <1>1, <1>3, <2>2 DEF Parcel, Word, Place, LevelOf, Walk
  <2>5. Cause(y, u)'
    BY <1>1, <1>2, <2>2 DEF Parcel, Cause
  <2>6. \E e \in lock : e.client = y.client /\ e.folder = y.folder
    BY <1>5, <2>2 DEF P!Ensuring
  <2>7. upload' = [upload EXCEPT ![u] = y]
    BY <1>1, <1>5, <2>1 DEF P!Goto, ClientsTyped
  <2> QED BY <1>1, <1>2, <1>5, <2>2, <2>3, <2>4, <2>5, <2>6, <2>7, OneParcel
<1>6. CASE /\ P!Ensuring(u) = {} /\ P!Goto(u, "list")
           /\ lock' = lock \cup {[client |-> upload[u].client, folder |-> upload[u].folder, by |-> u]}
  BY <1>1, <1>2, <1>6, LockKeeps
<1> QED BY <1>3, <1>4, <1>5, <1>6 DEF P!Descend

\* The one who ensures a folder lets all go on who wait for it.
LEMMA Released ==
  ASSUME ClientsInv, NEW u \in Uploads, upload[u].at \in {"list", "create"},
         UNCHANGED <<kind, client>>, troubles' \in Nat, troubles' >= troubles,
         folders' \in Seq(Nodes), Len(folders') >= Len(folders),
         \A i \in DOMAIN folders : i \in DOMAIN folders' /\ folders'[i] = folders[i],
         \A i \in DOMAIN folders' \ DOMAIN folders :
           folders'[i].parent = upload[u].folder /\ folders'[i].client = upload[u].client,
         Tree', P!OneFolder', cache' \subseteq [client : Nat, folder : Nat, child : Nat],
         \A e \in cache' : e.child \in DOMAIN folders' /\ folders'[e.child].parent = e.folder,
         lock' = lock \ P!Ensuring(u), upload' \in [Uploads -> Parcels],
         \A v \in Uploads \ P!Sharing(u) : upload'[v] = upload[v],
         \A v \in P!Sharing(u) : /\ Word(upload[v])' /\ Place(upload[v])' /\ Cause(upload[v], v)'
                                 /\ upload'[v].at \in {"folder", "done"}
  PROVE  ClientsInv'
<1> PICK own : own = [client |-> upload[u].client, folder |-> upload[u].folder, by |-> u]
  OBVIOUS
<1>1. ClientsTyped /\ Parcel(u) /\ upload[u] \in Parcels /\ kind = "google" /\ Shared /\ u \in P!Sharing(u) /\ own \in lock
  BY DEF ClientsInv, ClientsTyped, Parcel, Word, Walk, Turn, P!Sharing
<1>2. ClientsTyped'
  BY <1>1 DEF ClientsTyped
<1>3. \A e \in lock : e.by \in P!Sharing(u) => e \in P!Ensuring(u)
  <2> SUFFICES ASSUME NEW e \in lock, e.by \in P!Sharing(u) PROVE e \in P!Ensuring(u)
    OBVIOUS
  <2>1. upload[e.by].at \in {"list", "create"} /\ e.client = upload[e.by].client /\ e.folder = upload[e.by].folder
    BY <1>1 DEF Shared
  <2>2. e.by = u
    BY <2>1 DEF P!Sharing, P!At
  <2> QED BY <2>1, <2>2 DEF P!Ensuring
<1>4. Shared'
  <2>1. \A e \in lock' : /\ upload'[e.by].at \in {"list", "create"}
                         /\ e.client = upload'[e.by].client /\ e.folder = upload'[e.by].folder
    <3> SUFFICES ASSUME NEW e \in lock' PROVE e.by \in Uploads /\ upload'[e.by] = upload[e.by] /\ e \in lock
      BY <1>1 DEF Shared
    <3> QED BY <1>1, <1>3 DEF ClientsTyped
  <2>2. \A e, d \in lock' : e.client = d.client /\ e.folder = d.folder => e.by = d.by
    BY <1>1 DEF Shared
  <2> QED BY <2>1, <2>2 DEF Shared
<1>5. ASSUME NEW v \in Uploads PROVE Parcel(v)'
  <2>1. CASE v \in P!Sharing(u)
    <3>1. Turn(upload[v], v)'
      BY <2>1 DEF Turn
    <3> QED BY <2>1, <3>1 DEF Parcel
  <2>2. CASE v \notin P!Sharing(u)
    <3>1. /\ upload'[v] = upload[v] /\ v # u /\ upload[v] \in Parcels
          /\ Word(upload[v]) /\ Place(upload[v]) /\ Cause(upload[v], v) /\ Turn(upload[v], v)
      BY <1>1, <2>2 DEF ClientsInv, Parcel, ClientsTyped
    <3>2. Word(upload[v])'
      BY <1>1, <3>1 DEF Word, ClientsTyped
    <3>3. Place(upload[v])'
      <4>1. DOMAIN folders = 1 .. Len(folders) /\ DOMAIN folders' = 1 .. Len(folders') /\ Len(folders) \in Nat /\ Len(folders') \in Nat
        BY <1>1 DEF ClientsTyped
      <4>2. ASSUME NEW f \in 0 .. Len(folders) PROVE f \in 0 .. Len(folders') /\ LevelOf(f)' = LevelOf(f)
        BY <4>1 DEF LevelOf
      <4>3. /\ upload[v].at = "idle" => upload[v].folder = 0 /\ upload[v].level = 0
            /\ upload[v].at \in Walk \cup {"send"} => /\ upload[v].folder \in 0 .. Len(folders)
                                                      /\ upload[v].level = LevelOf(upload[v].folder)
            /\ upload[v].at = "send" => upload[v].level = Depth
            /\ upload[v].object = "whole" => upload[v].into \in 1 .. Len(folders) /\ folders[upload[v].into].level = Depth
        BY <1>1, <3>1 DEF Place
      <4>4. upload[v].at \in Walk \cup {"send"} => /\ upload[v].folder \in 0 .. Len(folders')
                                                   /\ upload[v].level = LevelOf(upload[v].folder)'
        <5> SUFFICES ASSUME upload[v].at \in Walk \cup {"send"}
                     PROVE  /\ upload[v].folder \in 0 .. Len(folders')
                            /\ upload[v].level = LevelOf(upload[v].folder)'
          OBVIOUS
        <5>1. upload[v].folder \in 0 .. Len(folders) /\ upload[v].level = LevelOf(upload[v].folder)
          BY <4>3
        <5>2. LevelOf(upload[v].folder)' = IF upload[v].folder = 0 THEN 0 ELSE folders'[upload[v].folder].level
          BY <3>1 DEF LevelOf
        <5>3. upload[v].folder # 0 => folders'[upload[v].folder] = folders[upload[v].folder]
          BY <1>1, <4>1, <5>1
        <5> QED BY <4>1, <5>1, <5>2, <5>3 DEF LevelOf
      <4>5. upload[v].object = "whole" => upload[v].into \in 1 .. Len(folders') /\ folders'[upload[v].into].level = Depth
        BY <4>1, <4>3
      <4> QED BY <1>1, <3>1, <4>3, <4>4, <4>5 DEF Place
    <3>4. Cause(upload[v], v)'
      BY <1>1, <3>1 DEF Cause, ClientsTyped
    <3>5. Turn(upload[v], v)'
      <4>1. upload[v].at = "wait" => \E e \in lock' : e.client = upload[v].client /\ e.folder = upload[v].folder
        <5> SUFFICES ASSUME upload[v].at = "wait"
                     PROVE  \E e \in lock' : e.client = upload[v].client /\ e.folder = upload[v].folder
          OBVIOUS
        <5>1. PICK e \in lock : e.client = upload[v].client /\ e.folder = upload[v].folder
          BY <3>1 DEF Turn
        <5>2. e \notin P!Ensuring(u)
          BY <2>2, <5>1 DEF P!Ensuring, P!Sharing, P!At, P!Here
        <5> QED BY <5>1, <5>2
      <4>2. upload[v].at \in {"list", "create"} =>
              /\ [client |-> upload[v].client, folder |-> upload[v].folder, by |-> v] \in lock'
              /\ upload[v].client # upload[u].client \/ upload[v].folder # upload[u].folder
        <5> SUFFICES ASSUME upload[v].at \in {"list", "create"}
                     PROVE  /\ [client |-> upload[v].client, folder |-> upload[v].folder, by |-> v] \in lock'
                            /\ upload[v].client # upload[u].client \/ upload[v].folder # upload[u].folder
          OBVIOUS
        <5>1. PICK e \in lock : e = [client |-> upload[v].client, folder |-> upload[v].folder, by |-> v]
          BY <3>1 DEF Turn
        <5>2. ~(e.client = own.client /\ e.folder = own.folder)
          BY <1>1, <3>1, <5>1 DEF Shared
        <5> QED BY <5>1, <5>2 DEF P!Ensuring
      <4>3. upload[v].at = "create" =>
              \A i \in DOMAIN folders' : folders'[i].parent = upload[v].folder => folders'[i].client # upload[v].client
        BY <3>1, <4>2 DEF Turn
      <4> QED BY <3>1, <4>1, <4>2, <4>3 DEF Turn
    <3> QED BY <3>1, <3>2, <3>3, <3>4, <3>5 DEF Parcel
  <2> QED BY <2>1, <2>2
<1> QED BY <1>2, <1>4, <1>5 DEF ClientsInv

LEMMA NotEnsuredKeeps ==
  ASSUME ClientsInv, NEW u \in Uploads, upload[u].at \in {"list", "create"}, P!NotEnsured(u),
         UNCHANGED <<kind, client>>, troubles' \in Nat, troubles' >= troubles, troubles' > 0,
         folders' \in Seq(Nodes), Len(folders') >= Len(folders),
         \A i \in DOMAIN folders : i \in DOMAIN folders' /\ folders'[i] = folders[i],
         \A i \in DOMAIN folders' \ DOMAIN folders :
           folders'[i].parent = upload[u].folder /\ folders'[i].client = upload[u].client,
         Tree', P!OneFolder'
  PROVE  ClientsInv'
<1>1. ClientsTyped /\ kind = "google" /\ Shared
  BY DEF ClientsInv, Parcel, Word, Walk
<1>2. ASSUME NEW v \in P!Sharing(u)
      PROVE  /\ v \in Uploads /\ upload'[v] \in Parcels /\ upload'[v].at = "done" /\ upload'[v].answer = "failed"
             /\ upload'[v].object = "none"
  <2>1. v \in Uploads /\ upload[v].at \in Walk
    BY DEF P!Sharing, P!At, Walk
  <2>2. upload[v] \in Parcels /\ upload[v].object = "none"
    BY <1>1, <2>1 DEF ClientsTyped, ClientsInv, Parcel, Word
  <2>3. upload'[v] = [upload[v] EXCEPT !.at = "done", !.answer = "failed"]
    BY <2>1 DEF P!NotEnsured, P!Failed
  <2> QED BY <2>1, <2>2, <2>3 DEF Parcels, Stations
<1>3. ASSUME NEW v \in P!Sharing(u)
      PROVE  /\ Word(upload[v])' /\ Place(upload[v])' /\ Cause(upload[v], v)' /\ upload'[v].at \in {"folder", "done"}
  <2>1. Word(upload[v])'
    BY <1>2 DEF Word, Walk, Sessions
  <2>2. Place(upload[v])' /\ Cause(upload[v], v)'
    BY <1>2 DEF Place, Cause, Walk
  <2> QED BY <1>2, <2>1, <2>2
<1>4. /\ \A v \in Uploads \ P!Sharing(u) : upload'[v] = upload[v]
      /\ lock' = lock \ P!Ensuring(u) /\ cache' = cache
  BY DEF P!NotEnsured
<1>5. upload' \in [Uploads -> Parcels]
  <2>1. \A v \in Uploads : upload'[v] \in Parcels
    BY <1>1, <1>2, <1>4 DEF ClientsTyped
  <2>2. upload' = [v \in Uploads |-> upload'[v]]
    BY DEF P!NotEnsured
  <2> QED BY <2>1, <2>2
<1>6. /\ cache' \subseteq [client : Nat, folder : Nat, child : Nat]
      /\ \A e \in cache' : e.child \in DOMAIN folders' /\ folders'[e.child].parent = e.folder
  BY <1>1, <1>4 DEF ClientsTyped, Shared
<1> QED BY <1>3, <1>4, <1>5, <1>6, Released

LEMMA EnsuredKeeps ==
  ASSUME ClientsInv, NEW u \in Uploads, upload[u].at \in {"list", "create"}, NEW f, P!Ensured(u, f),
         UNCHANGED <<kind, client>>, troubles' \in Nat, troubles' >= troubles,
         folders' \in Seq(Nodes), Len(folders') >= Len(folders),
         \A i \in DOMAIN folders : i \in DOMAIN folders' /\ folders'[i] = folders[i],
         \A i \in DOMAIN folders' \ DOMAIN folders :
           folders'[i].parent = upload[u].folder /\ folders'[i].client = upload[u].client,
         f \in DOMAIN folders', folders'[f].parent = upload[u].folder,
         Tree', P!OneFolder'
  PROVE  ClientsInv'
<1>1. /\ ClientsTyped /\ kind = "google" /\ Shared /\ upload[u] \in Parcels /\ f \in 1 .. Len(folders')
      /\ DOMAIN folders = 1 .. Len(folders) /\ Len(folders) \in Nat /\ Len(folders') \in Nat
  BY DEF ClientsInv, Parcel, Word, Walk, ClientsTyped
<1>2. ASSUME NEW v \in P!Sharing(u)
      PROVE  /\ v \in Uploads /\ upload'[v] \in Parcels /\ upload'[v].at = "folder" /\ upload'[v].answer = "none"
             /\ upload'[v].object = "none" /\ upload'[v].folder = f /\ upload'[v].level = LevelOf(f)'
  <2>1. v \in Uploads /\ upload[v].at \in Walk /\ upload[v].folder = upload[u].folder
    BY DEF P!Sharing, P!At, P!Here, Walk
  <2>2. /\ upload[v] \in Parcels /\ upload[v].object = "none" /\ upload[v].answer = "none"
        /\ upload[v].folder \in 0 .. Len(folders) /\ upload[v].level = LevelOf(upload[v].folder)
    BY <1>1, <2>1 DEF ClientsTyped, ClientsInv, Parcel, Word, Place, Walk
  <2>6. f \in Nat
    BY <1>1
  <2>3. PICK y \in Parcels : /\ y = P!Into(upload[v], f) /\ y.at = "folder" /\ y.folder = f /\ y.level = upload[v].level + 1
                             /\ y.object = upload[v].object /\ y.answer = upload[v].answer
    BY <2>2, <2>6, IntoIs
  <2>4. upload'[v] = y
    BY <2>1, <2>3 DEF P!Ensured
  <2>5. LevelOf(f)' = upload[v].level + 1
    <3>1. LevelOf(f)' = IF upload[u].folder = 0 THEN 1 ELSE folders'[upload[u].folder].level + 1
      BY <1>1 DEF Tree, LevelOf
    <3>2. upload[u].folder # 0 => folders'[upload[u].folder] = folders[upload[u].folder]
      BY <1>1, <2>1, <2>2
    <3> QED BY <2>1, <2>2, <3>1, <3>2 DEF LevelOf
  <2> QED BY <2>1, <2>2, <2>3, <2>4, <2>5
<1>3. ASSUME NEW v \in P!Sharing(u)
      PROVE  /\ Word(upload[v])' /\ Place(upload[v])' /\ Cause(upload[v], v)' /\ upload'[v].at \in {"folder", "done"}
  <2>1. Word(upload[v])'
    BY <1>1, <1>2 DEF Word, Walk, Sessions
  <2>2. Place(upload[v])'
    BY <1>1, <1>2 DEF Place, Walk
  <2>3. Cause(upload[v], v)'
    BY <1>1, <1>2 DEF Cause
  <2> QED BY <1>2, <2>1, <2>2, <2>3
<1>4. /\ \A v \in Uploads \ P!Sharing(u) : upload'[v] = upload[v]
      /\ lock' = lock \ P!Ensuring(u)
      /\ cache' = cache \cup {[client |-> upload[u].client, folder |-> upload[u].folder, child |-> f]}
  BY DEF P!Ensured
<1>5. upload' \in [Uploads -> Parcels]
  <2>1. \A v \in Uploads : upload'[v] \in Parcels
    BY <1>1, <1>2, <1>4 DEF ClientsTyped
  <2>2. upload' = [v \in Uploads |-> upload'[v]]
    BY DEF P!Ensured
  <2> QED BY <2>1, <2>2
<1>6. cache' \subseteq [client : Nat, folder : Nat, child : Nat]
  <2>1. [client |-> upload[u].client, folder |-> upload[u].folder, child |-> f] \in [client : Nat, folder : Nat, child : Nat]
    BY <1>1 DEF Parcels
  <2> QED BY <1>1, <1>4, <2>1 DEF ClientsTyped
<1>7. \A e \in cache' : e.child \in DOMAIN folders' /\ folders'[e.child].parent = e.folder
  BY <1>1, <1>4 DEF Shared
<1> QED BY <1>3, <1>4, <1>5, <1>6, <1>7, Released

\* A set of numbers has a least one.
LEMMA Least == ASSUME NEW some \in SUBSET Nat, some # {} PROVE \E n \in some : \A m \in some : n <= m
<1>1. PICK n \in some : \A m \in some : ~(<<m, n>> \in OpToRel(<, Nat))
  BY NatLessThanWellFounded, WFMin
<1>2. ASSUME NEW m \in some PROVE n <= m
  <2>1. ~(<<m, n>> \in OpToRel(<, Nat)) /\ <<m, n>> \in Nat \X Nat
    BY <1>1
  <2>2. ~(m < n)
    BY <2>1 DEF OpToRel
  <2> QED BY <2>2
<1> QED BY <1>2

LEMMA FindFolderKeeps == ASSUME ClientsInv, NEW u \in Uploads, P!FindFolder(u) PROVE ClientsInv'
<1>1. ClientsTyped /\ Parcel(u) /\ upload[u].at = "list" /\ Tree /\ P!OneFolder
  BY DEF ClientsInv, P!FindFolder, P!At
<1>2. UNCHANGED <<kind, folders, client, troubles>> /\ troubles' \in Nat /\ troubles' >= troubles
  BY <1>1 DEF P!FindFolder, P!Quiet, ClientsTyped
<1>3. CASE P!Children(upload[u].folder) = {}
  <2>1. [client |-> upload[u].client, folder |-> upload[u].folder, by |-> u] \in lock
    BY <1>1 DEF Parcel, Turn
  <2>2. P!Goto(u, "create") /\ UNCHANGED <<cache, lock>>
    BY <1>3 DEF P!FindFolder
  <2> QED BY <1>1, <1>2, <1>3, <2>1, <2>2, LockKeeps
<1>4. CASE P!Children(upload[u].folder) # {}
  <2>1. PICK f : f = CHOOSE i \in P!Children(upload[u].folder) : \A j \in P!Children(upload[u].folder) : i <= j
    OBVIOUS
  <2>2. P!Children(upload[u].folder) \in SUBSET Nat
    BY <1>1 DEF P!Children, ClientsTyped
  <2>3. f \in P!Children(upload[u].folder)
    BY <1>4, <2>1, <2>2, Least
  <2>4. P!Ensured(u, f)
    BY <1>4, <2>1 DEF P!FindFolder
  <2>5. f \in DOMAIN folders' /\ folders'[f].parent = upload[u].folder
    BY <1>2, <2>3 DEF P!Children
  <2>6. folders' \in Seq(Nodes) /\ Len(folders') >= Len(folders)
    BY <1>1, <1>2 DEF ClientsTyped
  <2>7. Tree' /\ P!OneFolder'
    BY <1>1, <1>2 DEF Tree, P!OneFolder
  <2> QED BY <1>1, <1>2, <2>4, <2>5, <2>6, <2>7, EnsuredKeeps
<1> QED BY <1>3, <1>4

\* A folder more, in a folder that is there or at the root.
LEMMA OneFolderMore ==
  ASSUME ClientsTyped, NEW u \in Uploads, NEW f \in 0 .. Len(folders), upload[u] \in Parcels, folders' = Append(folders, P!Folder(u, f)),
         \A i \in DOMAIN folders : folders[i].parent \in 0 .. (i - 1) /\ folders[i].level \in Nat
  PROVE  /\ folders' \in Seq(Nodes) /\ Len(folders') = Len(folders) + 1 /\ Len(folders) \in Nat
         /\ \A i \in DOMAIN folders : i \in DOMAIN folders' /\ folders'[i] = folders[i]
         /\ DOMAIN folders' \ DOMAIN folders = {Len(folders')}
         /\ folders'[Len(folders')] = [parent |-> f, level |-> IF f = 0 THEN 1 ELSE folders[f].level + 1,
                                       by |-> u, client |-> upload[u].client]
<1>1. folders \in Seq(Nodes) /\ Len(folders) \in Nat /\ DOMAIN folders = 1 .. Len(folders)
  BY DEF ClientsTyped
<1>2. PICK n : n = [parent |-> f, level |-> IF f = 0 THEN 1 ELSE folders[f].level + 1,
                    by |-> u, client |-> upload[u].client]
  OBVIOUS
<1>3. n \in Nodes
  <2>1. (IF f = 0 THEN 1 ELSE folders[f].level + 1) \in Nat
    BY <1>1
  <2> QED BY <1>1, <1>2, <2>1 DEF Nodes, Parcels
<1>4. folders' = Append(folders, n)
  BY <1>2 DEF P!Folder
<1>5. folders' \in Seq(Nodes) /\ Len(folders') = Len(folders) + 1 /\ folders'[Len(folders')] = n
  BY <1>1, <1>3, <1>4
<1>6. \A i \in 1 .. Len(folders) : folders'[i] = folders[i]
  BY <1>1, <1>3, <1>4
<1> QED BY <1>1, <1>2, <1>5, <1>6

LEMMA CreateFolderKeeps ==
  ASSUME ClientsInv, NEW u \in Uploads, NEW heard \in BOOLEAN, P!CreateFolder(u, heard) PROVE ClientsInv'
<1>1. ClientsTyped /\ Parcel(u) /\ upload[u].at = "create" /\ Tree /\ P!OneFolder /\ upload[u] \in Parcels /\ kind = "google"
  BY DEF ClientsInv, P!CreateFolder, P!At, ClientsTyped, Parcel, Word, Walk
<1>2. UNCHANGED <<kind, client>> /\ troubles' \in Nat /\ troubles' >= troubles /\ (~heard => troubles' > 0)
  BY <1>1 DEF P!CreateFolder, P!Heard, P!Quiet, P!Trouble, ClientsTyped
<1>3. upload[u].folder \in 0 .. Len(folders)
  BY <1>1 DEF Parcel, Place, Walk
<1>4. \A i \in DOMAIN folders : folders[i].parent \in 0 .. (i - 1) /\ folders[i].level \in Nat
  <2>1. \A i \in DOMAIN folders : folders[i].parent \in 0 .. (i - 1)
    BY <1>1 DEF Tree
  <2>2. \A i \in DOMAIN folders : folders[i] \in Nodes
    BY <1>1 DEF ClientsTyped
  <2> QED BY <2>1, <2>2 DEF Nodes
<1>5. folders' = Append(folders, P!Folder(u, upload[u].folder))
  BY DEF P!CreateFolder
<1> PICK n : n = [parent |-> upload[u].folder,
                  level |-> IF upload[u].folder = 0 THEN 1 ELSE folders[upload[u].folder].level + 1,
                  by |-> u, client |-> upload[u].client]
  OBVIOUS
<1>6. /\ folders' \in Seq(Nodes) /\ Len(folders') = Len(folders) + 1 /\ Len(folders) \in Nat
      /\ \A i \in DOMAIN folders : i \in DOMAIN folders' /\ folders'[i] = folders[i]
      /\ DOMAIN folders' \ DOMAIN folders = {Len(folders')} /\ folders'[Len(folders')] = n
  BY <1>1, <1>3, <1>4, <1>5, OneFolderMore
<1>7. /\ DOMAIN folders = 1 .. Len(folders) /\ DOMAIN folders' = 1 .. Len(folders')
      /\ \A i \in DOMAIN folders' : i \in DOMAIN folders \/ i = Len(folders')
  BY <1>1, <1>6 DEF ClientsTyped
<1>8. Tree'
  <2> SUFFICES ASSUME NEW i \in DOMAIN folders'
               PROVE  /\ folders'[i].parent \in 0 .. (i - 1)
                      /\ folders'[i].level = IF folders'[i].parent = 0 THEN 1 ELSE folders'[folders'[i].parent].level + 1
    BY <1>1, <1>2 DEF Tree
  <2>1. CASE i \in DOMAIN folders
    <3>1. /\ folders[i].parent \in 0 .. (i - 1)
          /\ folders[i].level = IF folders[i].parent = 0 THEN 1 ELSE folders[folders[i].parent].level + 1
      BY <1>1, <2>1 DEF Tree
    <3>2. folders[i].parent # 0 => folders'[folders[i].parent] = folders[folders[i].parent]
      BY <1>6, <1>7, <2>1, <3>1
    <3> QED BY <1>6, <2>1, <3>1, <3>2
  <2>2. CASE i = Len(folders')
    <3>1. upload[u].folder # 0 => folders'[upload[u].folder] = folders[upload[u].folder]
      BY <1>3, <1>6, <1>7
    <3> QED BY <1>3, <1>6, <2>2, <3>1
  <2> QED BY <1>7, <2>1, <2>2
<1>9. P!OneFolder'
  <2>1. \A i \in DOMAIN folders : folders[i].parent = upload[u].folder => folders[i].client # upload[u].client
    BY <1>1 DEF Parcel, Turn
  <2> SUFFICES ASSUME NEW i \in DOMAIN folders', NEW j \in DOMAIN folders', i # j,
                      folders'[i].parent = folders'[j].parent
               PROVE  folders'[i].client # folders'[j].client
    BY DEF P!OneFolder
  <2>2. CASE i \in DOMAIN folders /\ j \in DOMAIN folders
    BY <1>1, <1>6, <2>2 DEF P!OneFolder
  <2>3. CASE i = Len(folders') /\ j \in DOMAIN folders
    BY <1>6, <2>1, <2>3
  <2>4. CASE j = Len(folders') /\ i \in DOMAIN folders
    BY <1>6, <2>1, <2>4
  <2> QED BY <1>7, <2>2, <2>3, <2>4
<1>10. \A i \in DOMAIN folders' \ DOMAIN folders :
         folders'[i].parent = upload[u].folder /\ folders'[i].client = upload[u].client
  BY <1>6
<1>11. CASE heard
  <2>1. P!Ensured(u, Len(folders')) /\ Len(folders') \in DOMAIN folders'
    BY <1>6, <1>7, <1>11 DEF P!CreateFolder
  <2>2. Len(folders') >= Len(folders) /\ folders'[Len(folders')].parent = upload[u].folder
    BY <1>6
  <2> QED BY <1>1, <1>2, <1>6, <1>8, <1>9, <1>10, <2>1, <2>2, EnsuredKeeps
<1>12. CASE ~heard
  <2>1. P!NotEnsured(u) /\ Len(folders') >= Len(folders)
    BY <1>6, <1>12 DEF P!CreateFolder
  <2> QED BY <1>1, <1>2, <1>6, <1>8, <1>9, <1>10, <1>12, <2>1, NotEnsuredKeeps
<1> QED BY <1>11, <1>12

\* Whoever ensures a folder fails, and all who wait for it.
LEMMA EnsuringFails ==
  ASSUME ClientsInv, NEW u \in Uploads, P!Fail(u), upload[u].at \in {"list", "create"} PROVE ClientsInv'
<1>1. ClientsTyped /\ Tree /\ P!OneFolder
  BY DEF ClientsInv
<1>2. /\ UNCHANGED <<kind, folders, client>> /\ P!NotEnsured(u)
      /\ troubles' \in Nat /\ troubles' >= troubles /\ troubles' > 0
  BY <1>1 DEF P!Fail, P!Trouble, P!At, ClientsTyped
<1>3. folders' \in Seq(Nodes) /\ Len(folders') >= Len(folders)
  BY <1>1, <1>2 DEF ClientsTyped
<1>4. Tree' /\ P!OneFolder'
  BY <1>1, <1>2 DEF Tree, P!OneFolder
<1> QED BY <1>2, <1>3, <1>4, NotEnsuredKeeps

\* Folders of the path are added, where two cannot have one name.
LEMMA GrownKeeps ==
  ASSUME ClientsInv, NEW u \in Uploads, NEW y \in Parcels, upload' = [upload EXCEPT ![u] = y],
         kind \in {"onedrive", "webdav"}, UNCHANGED <<kind, cache, lock, client>>, troubles' \in Nat, troubles' >= troubles,
         folders' \in Seq(Nodes), Len(folders') >= Len(folders),
         \A i \in DOMAIN folders : i \in DOMAIN folders' /\ folders'[i] = folders[i],
         \A i \in DOMAIN folders' \ DOMAIN folders : folders'[i].by = u,
         Tree', Word(y)', Place(y)', Cause(y, u)', y.at \notin {"list", "create", "wait"}
  PROVE  ClientsInv'
<1>1. ClientsTyped /\ Shared /\ Tree /\ upload'[u] = y /\ \A v \in Uploads : v # u => upload'[v] = upload[v]
  BY DEF ClientsInv, ClientsTyped
<1>2. ClientsTyped'
  BY <1>1 DEF ClientsTyped
<1>3. P!OneFolder'
  BY DEF Tree, P!OneFolder
<1>4. Shared'
  <2>1. ASSUME NEW e \in lock PROVE FALSE
    <3>1. e.by \in Uploads /\ upload[e.by].at \in Walk
      BY <1>1 DEF Shared, ClientsTyped, Walk
    <3> QED BY <3>1 DEF ClientsInv, Parcel, Word
  <2> QED BY <1>1, <2>1 DEF Shared
<1>5. ASSUME NEW v \in Uploads PROVE Parcel(v)'
  <2>1. CASE v = u
    <3>1. Turn(y, u)'
      BY DEF Turn
    <3> QED BY <1>1, <2>1, <3>1 DEF Parcel
  <2>2. CASE v # u
    <3>1. /\ upload'[v] = upload[v] /\ upload[v] \in Parcels
          /\ Word(upload[v]) /\ Place(upload[v]) /\ Cause(upload[v], v) /\ Turn(upload[v], v)
      BY <1>1, <2>2 DEF ClientsInv, Parcel, ClientsTyped
    <3>2. Word(upload[v])'
      BY <1>1, <3>1 DEF Word, ClientsTyped
    <3>3. Place(upload[v])'
      <4>1. /\ DOMAIN folders = 1 .. Len(folders) /\ Len(folders) \in Nat /\ Len(folders') \in Nat
            /\ Len(folders) = Depth => Len(folders') = Depth
        BY <1>1, BelowRoot DEF ClientsTyped, Tree
      <4>2. upload[v].object = "whole" => upload[v].into \in 1 .. Len(folders') /\ folders'[upload[v].into].level = Depth
        BY <3>1, <4>1 DEF Place
      <4>3. upload[v].level \in Nat
        BY <3>1 DEF Parcels
      <4>4. /\ upload[v].at = "idle" => upload[v].folder = 0 /\ upload[v].level = 0
            /\ kind = "onedrive" /\ upload[v].at \in {"path", "level", "post"} => upload[v].level <= Len(folders')
            /\ kind = "onedrive" /\ upload[v].at = "post" => upload[v].level < Depth
            /\ kind = "onedrive" /\ upload[v].at \in {"prepare", "send", "chunk", "query"} => Len(folders') = Depth
            /\ kind = "webdav" /\ upload[v].at = "send" => Len(folders') = Depth
        BY <3>1, <4>1, <4>3 DEF Place
      <4> QED BY <3>1, <4>2, <4>4 DEF Place
    <3>4. Cause(upload[v], v)'
      <4>1. upload[v].answer = "failed" => \/ troubles' > 0
                                           \/ kind = "onedrive" /\ \E i \in DOMAIN folders' : folders'[i].by # v
        BY <1>1, <3>1 DEF Cause, ClientsTyped
      <4>2. kind = "onedrive" /\ upload[v].at \notin {"done", "delete"}
              => \A i \in DOMAIN folders' : folders'[i].by = v => i <= upload[v].level
        BY <2>2, <3>1 DEF Cause
      <4> QED BY <3>1, <4>1, <4>2 DEF Cause
    <3>5. Turn(upload[v], v)'
      <4>1. upload[v].at \notin Walk
        BY <3>1 DEF Word
      <4> QED BY <3>1, <4>1 DEF Turn, Walk
    <3> QED BY <3>1, <3>2, <3>3, <3>4, <3>5 DEF Parcel
  <2> QED BY <2>1, <2>2
<1> QED BY <1>2, <1>3, <1>4, <1>5 DEF ClientsInv

LEMMA PostFolderKeeps ==
  ASSUME ClientsInv, NEW u \in Uploads, NEW heard \in BOOLEAN, P!PostFolder(u, heard) PROVE ClientsInv'
<1>1. ClientsTyped /\ Parcel(u) /\ upload[u].at = "post" /\ Tree /\ upload[u] \in Parcels /\ kind = "onedrive"
  BY DEF ClientsInv, P!PostFolder, P!At, ClientsTyped, Parcel, Word, Sessions
<1>2. UNCHANGED <<kind, cache, lock, client>> /\ troubles' \in Nat /\ troubles' >= troubles /\ (~heard => troubles' > 0)
  BY <1>1 DEF P!PostFolder, P!Heard, P!Quiet, P!Trouble, ClientsTyped
<1>3. /\ upload[u].level <= Len(folders) /\ upload[u].level < Depth /\ upload[u].level \in Nat /\ Len(folders) \in Nat
      /\ Depth \in Nat /\ DOMAIN folders = 1 .. Len(folders) /\ upload[u].object = "none" /\ upload[u].answer = "none"
      /\ \A i \in DOMAIN folders : folders[i].by = u => i <= upload[u].level
  BY <1>1, BelowRoot DEF Parcel, Word, Place, Cause, Parcels, ClientsTyped
<1>4. PICK failed : failed = [upload[u] EXCEPT !.at = "done", !.answer = "failed"]
  OBVIOUS
<1>5. failed \in Parcels /\ failed.at = "done" /\ failed.answer = "failed" /\ failed.object = "none"
  BY <1>1, <1>3, <1>4 DEF Parcels, Stations
<1>6. CASE upload[u].level < Len(folders)
  <2>1. upload' = [upload EXCEPT ![u] = failed] /\ UNCHANGED folders
    BY <1>4, <1>6 DEF P!PostFolder, P!Becomes, P!Failed
  <2>2. upload[u].level + 1 \in DOMAIN folders /\ folders[upload[u].level + 1].by # u
    BY <1>3, <1>6
  <2> QED BY <1>1, <1>2, <1>5, <2>1, <2>2, OverKeeps
<1>7. CASE ~(upload[u].level < Len(folders))
  <2>1. upload[u].level = Len(folders)
    BY <1>3, <1>7
  <2>2. PICK n : n = Len(folders)
    OBVIOUS
  <2>3. folders' = Append(folders, P!Folder(u, n)) /\ n \in 0 .. Len(folders)
    BY <1>3, <1>7, <2>2 DEF P!PostFolder
  <2>4. \A i \in DOMAIN folders : folders[i].parent \in 0 .. (i - 1) /\ folders[i].level \in Nat
    BY <1>1 DEF Tree, ClientsTyped, Nodes
  <2>5. /\ folders' \in Seq(Nodes) /\ Len(folders') = Len(folders) + 1
        /\ \A i \in DOMAIN folders : i \in DOMAIN folders' /\ folders'[i] = folders[i]
        /\ DOMAIN folders' \ DOMAIN folders = {Len(folders')}
        /\ folders'[Len(folders')] = [parent |-> n, level |-> IF n = 0 THEN 1 ELSE folders[n].level + 1,
                                      by |-> u, client |-> upload[u].client]
    BY <1>1, <2>3, <2>4, OneFolderMore
  <2>6. /\ DOMAIN folders' = 1 .. Len(folders') /\ Len(folders') = n + 1
        /\ \A i \in DOMAIN folders' : i \in DOMAIN folders \/ i = n + 1
    BY <1>3, <2>2, <2>5
  <2>7. folders'[n + 1].parent = n /\ folders'[n + 1].level = n + 1 /\ folders'[n + 1].by = u
    <3>1. n # 0 => folders[n].level = n
      BY <1>1, <1>3, <2>2 DEF Tree
    <3> QED BY <2>5, <2>6, <3>1
  <2>8. Tree'
    <3>1. ASSUME NEW i \in DOMAIN folders'
          PROVE  /\ folders'[i].parent = i - 1 /\ folders'[i].level = i /\ i \in Nat \ {0}
      BY <1>1, <1>3, <2>2, <2>5, <2>6, <2>7 DEF Tree
    <3>2. ASSUME NEW i \in DOMAIN folders'
          PROVE  folders'[i].level = IF folders'[i].parent = 0 THEN 1 ELSE folders'[folders'[i].parent].level + 1
      <4>1. i - 1 # 0 => folders'[i - 1].level = i - 1
        BY <2>6, <3>1
      <4> QED BY <3>1, <4>1
    <3>3. Len(folders') <= Depth
      BY <1>3, <2>1, <2>5
    <3> QED BY <1>1, <1>2, <3>1, <3>2, <3>3 DEF Tree
  <2>9. PICK y : y = IF heard THEN [upload[u] EXCEPT !.at = "level", !.level = upload[u].level + 1] ELSE failed
    OBVIOUS
  <2>10. upload' = [upload EXCEPT ![u] = y]
    BY <1>4, <1>7, <2>9 DEF P!PostFolder, P!Becomes, P!Failed
  <2>11. /\ y \in Parcels /\ y.object = "none"
         /\ \/ heard /\ y.at = "level" /\ y.level = n + 1 /\ y.answer = "none"
            \/ ~heard /\ y.at = "done" /\ y.answer = "failed"
    <3>1. upload[u].level + 1 \in Nat
      BY <1>3
    <3>2. CASE heard
      BY <1>1, <1>3, <2>1, <2>2, <2>9, <3>1, <3>2 DEF Parcels, Stations, Sessions
    <3> QED BY <1>5, <2>9, <3>2
  <2>12. Word(y)'
    BY <1>1, <1>2, <2>11 DEF Word, Walk, Sessions
  <2>13. Place(y)'
    BY <1>1, <1>2, <2>6, <2>11, <1>3, <2>2 DEF Place, Walk
  <2>14. Cause(y, u)'
    BY <1>1, <1>2, <2>6, <2>11, <1>3, <2>2 DEF Cause
  <2>15. Len(folders') >= Len(folders) /\ \A i \in DOMAIN folders' \ DOMAIN folders : folders'[i].by = u
    BY <1>3, <2>5, <2>6, <2>7
  <2> QED BY <1>1, <1>2, <2>5, <2>8, <2>10, <2>11, <2>12, <2>13, <2>14, <2>15, GrownKeeps
<1> QED BY <1>6, <1>7

LEMMA MakeDirectoryKeeps ==
  ASSUME ClientsInv, NEW u \in Uploads, NEW heard \in BOOLEAN, P!MakeDirectory(u, heard) PROVE ClientsInv'
<1>1. ClientsTyped /\ Parcel(u) /\ upload[u].at = "directory" /\ Tree /\ upload[u] \in Parcels /\ kind = "webdav"
  BY DEF ClientsInv, P!MakeDirectory, P!At, ClientsTyped, Parcel, Word
<1>2. UNCHANGED <<kind, cache, lock, client>> /\ troubles' \in Nat /\ troubles' >= troubles /\ (~heard => troubles' > 0)
  <2>1. P!Heard(heard) /\ UNCHANGED <<kind, cache, lock, client>>
    BY DEF P!MakeDirectory
  <2> QED BY <1>1, <2>1 DEF P!Heard, P!Quiet, P!Trouble, ClientsTyped
<1>3. /\ Depth \in Nat \ {0} /\ DOMAIN folders = 1 .. Len(folders) /\ Len(folders) \in {0, Depth}
      /\ upload[u].object = "none" /\ upload[u].answer = "none"
      /\ \A i \in DOMAIN folders : folders[i] \in Nodes /\ folders[i].parent = i - 1 /\ folders[i].level = i
  BY <1>1, BelowRoot DEF Parcel, Word, Parcels, ClientsTyped, Tree
<1>4. PICK n : n = [i \in 1 .. Depth |-> [P!Folder(u, 0) EXCEPT !.parent = i - 1, !.level = i]]
  OBVIOUS
<1>5. \A i \in 1 .. Depth : n[i] \in Nodes /\ n[i].parent = i - 1 /\ n[i].level = i /\ n[i].by = u
  <2> SUFFICES ASSUME NEW i \in 1 .. Depth
               PROVE  n[i] \in Nodes /\ n[i].parent = i - 1 /\ n[i].level = i /\ n[i].by = u
    OBVIOUS
  <2>1. PICK p : p = P!Folder(u, 0)
    OBVIOUS
  <2>2. p \in Nodes /\ p.by = u
    BY <1>1, <2>1 DEF P!Folder, Nodes, Parcels
  <2>3. n[i] = [p EXCEPT !.parent = i - 1, !.level = i]
    BY <1>4, <2>1
  <2>4. i \in Nat /\ i - 1 \in Nat
    BY BelowRoot
  <2> QED BY <2>2, <2>3, <2>4 DEF Nodes
<1>7. folders' = [i \in 1 .. Depth |-> IF i \in DOMAIN folders THEN folders[i] ELSE n[i]]
  BY <1>4 DEF P!MakeDirectory
<1>8. /\ folders' \in Seq(Nodes) /\ Len(folders') = Depth /\ DOMAIN folders' = 1 .. Depth
      /\ \A i \in 1 .. Depth : folders'[i].parent = i - 1 /\ folders'[i].level = i
  <2>1. \A i \in DOMAIN folders : folders[i] \in Nodes /\ folders[i].parent = i - 1 /\ folders[i].level = i
    BY <1>3
  <2>2. \A i \in 1 .. Depth : folders'[i] = IF i \in DOMAIN folders THEN folders[i] ELSE n[i]
    BY <1>7
  <2>3. \A i \in 1 .. Depth : folders'[i] \in Nodes /\ folders'[i].parent = i - 1 /\ folders'[i].level = i
    BY <1>5, <2>1, <2>2
  <2>4. folders' \in [1 .. Depth -> Nodes]
    BY <1>7, <2>3
  <2>5. Depth \in Nat
    BY <1>3
  <2>6. folders' \in Seq(Nodes) /\ Len(folders') = Depth /\ DOMAIN folders' = 1 .. Depth
    BY <2>4, <2>5
  <2> QED BY <2>3, <2>6
<1>9. /\ \A i \in DOMAIN folders : i \in DOMAIN folders' /\ folders'[i] = folders[i]
      /\ \A i \in DOMAIN folders' \ DOMAIN folders : folders'[i].by = u
      /\ Len(folders') >= Len(folders)
  <2>1. DOMAIN folders \subseteq 1 .. Depth /\ Len(folders') >= Len(folders)
    <3>1. CASE Len(folders) = 0
      BY <1>3, <1>8, <3>1
    <3>2. CASE Len(folders) = Depth
      BY <1>3, <1>8, <3>2
    <3> QED BY <1>3, <3>1, <3>2
  <2>2. \A i \in 1 .. Depth : folders'[i] = IF i \in DOMAIN folders THEN folders[i] ELSE n[i]
    BY <1>7
  <2> QED BY <1>5, <1>8, <2>1, <2>2
<1>10. Tree'
  <2>1. ASSUME NEW i \in DOMAIN folders'
        PROVE  folders'[i].level = IF folders'[i].parent = 0 THEN 1 ELSE folders'[folders'[i].parent].level + 1
    <3>1. i \in 1 .. Depth /\ folders'[i].parent = i - 1 /\ folders'[i].level = i
      BY <1>8
    <3>2. i \in Nat /\ i >= 1
      BY <3>1, BelowRoot
    <3>3. i - 1 # 0 => i - 1 \in 1 .. Depth
      BY <3>1, <3>2, BelowRoot
    <3>4. i - 1 # 0 => folders'[i - 1].level = i - 1
      BY <1>8, <3>3
    <3> QED BY <3>1, <3>2, <3>4
  <2>2. ASSUME NEW i \in DOMAIN folders'
        PROVE  folders'[i].parent \in 0 .. (i - 1) /\ folders'[i].parent = i - 1 /\ folders'[i].level = i
    <3>1. i \in 1 .. Depth /\ folders'[i].parent = i - 1 /\ folders'[i].level = i
      BY <1>8
    <3>2. i \in Nat /\ i >= 1
      BY <3>1, BelowRoot
    <3>3. i - 1 \in 0 .. (i - 1)
      BY <3>2
    <3> QED BY <3>1, <3>3
  <2>3. kind' = "webdav" /\ Len(folders') = Depth
    BY <1>1, <1>2, <1>8
  <2> QED BY <2>1, <2>2, <2>3 DEF Tree
<1>11. PICK y : y = IF heard THEN [upload[u] EXCEPT !.at = "send"] ELSE [upload[u] EXCEPT !.at = "done", !.answer = "failed"]
  OBVIOUS
<1>12. upload' = [upload EXCEPT ![u] = y]
  BY <1>11 DEF P!MakeDirectory, P!Failed
<1>13. /\ y \in Parcels /\ y.object = "none"
       /\ \/ y.at = "send" /\ y.answer = "none"
          \/ ~heard /\ y.at = "done" /\ y.answer = "failed"
  BY <1>1, <1>3, <1>11 DEF Parcels, Stations
<1>14. Word(y)'
  BY <1>1, <1>2, <1>13 DEF Word, Walk, Sessions
<1>15. Place(y)'
  BY <1>1, <1>2, <1>8, <1>13 DEF Place, Walk
<1>16. Cause(y, u)'
  BY <1>1, <1>2, <1>13 DEF Cause
<1>17. y.at \notin {"list", "create", "wait"}
  BY <1>13
<1>18. /\ folders' \in Seq(Nodes) /\ Len(folders') >= Len(folders)
       /\ \A i \in DOMAIN folders : i \in DOMAIN folders' /\ folders'[i] = folders[i]
       /\ \A i \in DOMAIN folders' \ DOMAIN folders : folders'[i].by = u
  BY <1>8, <1>9
<1>19. y \in Parcels /\ kind \in {"onedrive", "webdav"}
  BY <1>1, <1>13
<1> QED BY <1>2, <1>10, <1>12, <1>14, <1>15, <1>16, <1>17, <1>18, <1>19, GrownKeeps

LEMMA ClientsSteps == ASSUME ClientsInv, [P!Next]_(P!vars) PROVE ClientsInv'
<1>1. CASE UNCHANGED P!vars
  BY <1>1 DEF P!vars, ClientsInv, ClientsTyped, Tree, Shared, P!OneFolder, Parcel, Word, Place, LevelOf, Cause, Turn
<1>2. CASE P!Replace
  BY <1>2, ReplaceKeeps
<1>3. ASSUME NEW u \in Uploads, P!Begin(u) \/ P!AskDelete(u) PROVE ClientsInv'
  BY <1>3, OpenKeeps, AskKeeps
<1>4. ASSUME NEW u \in Uploads, P!Fail(u) PROVE ClientsInv'
  <2>1. CASE upload[u].at \in {"list", "create"}
    BY <1>4, <2>1, EnsuringFails
  <2>2. CASE upload[u].at \notin {"list", "create"}
    BY <1>4, <2>2, FailKeeps
  <2> QED BY <2>1, <2>2
<1>5. ASSUME NEW u \in Uploads,
             P!Descend(u) \/ P!FindFolder(u) \/ P!Path(u) \/ P!Level(u) \/ P!Prepare(u) \/ P!QueryItem(u)
      PROVE  ClientsInv'
  BY <1>5, DescendKeeps, FindFolderKeeps, PathKeeps, LevelKeeps, QueryKeeps
<1>6. ASSUME NEW u \in Uploads, NEW heard \in BOOLEAN,
             \/ P!CreateFolder(u, heard) \/ P!PostFolder(u, heard) \/ P!PutChunk(u, heard) \/ P!CancelSession(u, heard)
             \/ P!MakeDirectory(u, heard)
      PROVE  ClientsInv'
  BY <1>6, CreateFolderKeeps, PostFolderKeeps, PutChunkKeeps, CancelKeeps, MakeDirectoryKeeps
<1>7. ASSUME NEW u \in Uploads, NEW heard \in BOOLEAN,
             \/ P!SendGoogle(u, heard) \/ P!SendOneDrive(u, heard) \/ P!SendOSS(u, heard) \/ P!SendS3(u, heard)
             \/ P!SendStream(u, heard) \/ P!MoveLocal(u, heard)
      PROVE  ClientsInv'
  BY <1>7, SendKeeps
<1>8. ASSUME NEW u \in Uploads, NEW heard \in BOOLEAN,
             \/ P!DeleteGoogle(u, heard) \/ P!DeleteOneDrive(u, heard) \/ P!DeleteOSS(u, heard) \/ P!DeleteS3(u, heard)
             \/ P!DeleteLocal(u, heard) \/ P!DeleteWebDAV(u, heard)
      PROVE  ClientsInv'
  BY <1>8, DeleteKeeps
<1> QED BY <1>1, <1>2, <1>3, <1>4, <1>5, <1>6, <1>7, <1>8 DEF P!Next, P!Work

-----------------------------------------------------------------------------
(* The jobs over ranges of messages.  In their part the variables have     *)
(* other names.                                                            *)

latest == v1
cursor == v2
enabled == v3
job    == v4
item   == v5
run    == v7

JobKinds    == {"none", "sync", "range"}
Looping  == {"loop", "claim", "start", "work", "end", "final"}
Stops    == {"idle", "pick", "segstart", "segment", "persist", "drain"} \cup Looping

JobsTyped ==
  /\ latest \in Nat /\ DOMAIN job = Jobs /\ DOMAIN item = Jobs /\ DOMAIN run = J!Runners
  /\ \A j \in Jobs : /\ DOMAIN job[j] = DOMAIN J!NewJob /\ DOMAIN item[j] = J!Messages
                     /\ job[j].kind \in JobKinds /\ job[j].to \in Nat
  /\ \A r \in J!Runners : DOMAIN run[r] = DOMAIN J!Idle /\ run[r].pc \in Stops

\* What is listed of the range of a job: from a message on, or all of it.
ListedFrom(j, n) == \A m \in Media : n <= m /\ m <= job[j].to => item[j][m] # "none"
Listed(j)        == \A m \in Media : m <= job[j].to => item[j][m] # "none"

\* A job knows how far it was listed.
Marks(j) ==
  /\ job[j].status = "cancelled" => job[j].cancelled
  /\ job[j].kind = "range" =>
       /\ job[j].scan = "done" => Listed(j)
       /\ job[j].offset \in Nat /\ (job[j].offset # 0 => ListedFrom(j, job[j].offset))
       /\ job[j].status \in {"completed", "completed_with_errors"} => Listed(j)

\* And so does the loop that works on it.
Lists(x) ==
  /\ x.queue \subseteq {j \in Jobs : job[j].kind # "none"}
  /\ x.pc = "final" => x.drain
  /\ x.pc \notin {"idle", "pick"} =>
       /\ x.job \in Jobs /\ job[x.job].kind # "none"
       /\ job[x.job].kind = "range" =>
            /\ x.pc = "persist" =>
                 /\ x.upto \in Nat /\ x.todo \subseteq Media
                 /\ \A m \in Media : x.upto <= m /\ m <= job[x.job].to => item[x.job][m] # "none" \/ m \in x.todo
                 /\ x.last => \A m \in Media : m <= job[x.job].to => item[x.job][m] # "none" \/ m \in x.todo
            /\ x.pc = "drain" \/ (x.pc \in Looping /\ (x.drain \/ x.last)) => job[x.job].cancelled \/ Listed(x.job)

\* What is listed stays so, and a job keeps its range.
Keeps == \A j \in Jobs :
  /\ job[j].kind # "none" => /\ job'[j].kind = job[j].kind /\ job'[j].to = job[j].to
                             /\ job[j].cancelled => job'[j].cancelled
  /\ \A m \in Media : item[j][m] # "none" => item'[j][m] # "none"

JobsInv ==
  /\ JobsTyped /\ (\A j \in Jobs : Marks(j)) /\ (\A r \in J!Runners : Lists(run[r]))
  /\ run["scan"].pc # "idle" => run["scan"].job \in Jobs /\ job[run["scan"].job].kind = "sync"

USE DEF latest, cursor, enabled, job, item, run

LEMMA JobsStart == J!Init => JobsInv
<1> SUFFICES ASSUME J!Init PROVE JobsInv
  OBVIOUS
<1>1. /\ latest = 0 /\ job = [j \in Jobs |-> J!NewJob] /\ item = [j \in Jobs |-> [m \in J!Messages |-> "none"]]
      /\ run = [r \in J!Runners |-> J!Idle]
  BY DEF J!Init
<1>2. /\ J!NewJob.kind = "none" /\ J!NewJob.to = 0 /\ J!NewJob.status = "queued"
      /\ J!Idle.pc = "idle" /\ J!Idle.queue = {}
  BY DEF J!NewJob, J!Idle
<1>3. JobsTyped
  BY <1>1, <1>2 DEF JobsTyped, JobKinds, Stops
<1>4. (\A j \in Jobs : Marks(j)) /\ \A r \in J!Runners : Lists(run[r])
  BY <1>1, <1>2 DEF Marks, Lists, Looping
<1>5. run["scan"].pc = "idle"
  BY <1>1, <1>2 DEF J!Runners
<1> QED BY <1>3, <1>4, <1>5 DEF JobsInv

LEMMA JobsHold == JobsInv => J!CompletedIsScanned
BY DEF JobsInv, Marks, Listed, J!CompletedIsScanned

\* What a row may become.
Goes(j, z) ==
  /\ DOMAIN z = DOMAIN J!NewJob /\ z.kind = job[j].kind /\ z.to = job[j].to
  /\ job[j].cancelled => z.cancelled
  /\ z.status = "cancelled" => z.cancelled
  /\ job[j].kind = "range" =>
       /\ z.scan = "done" => job[j].scan = "done" \/ Listed(j)
       /\ z.offset = job[j].offset \/ (z.offset \in Nat /\ ListedFrom(j, z.offset))
       /\ z.status \in {"completed", "completed_with_errors"}
            => job[j].status \in {"completed", "completed_with_errors"} \/ Listed(j)

ItemsKept ==
  /\ DOMAIN item' = Jobs /\ \A j \in Jobs : DOMAIN item'[j] = J!Messages
  /\ \A j \in Jobs : \A m \in Media : item[j][m] # "none" => item'[j][m] # "none"

LEMMA RowsGo ==
  ASSUME JobsInv, latest' \in Nat, DOMAIN job' = Jobs, \A j \in Jobs : Goes(j, job'[j]), ItemsKept
  PROVE  Keeps /\ \A j \in Jobs : Marks(j)'
<1>1. JobsTyped /\ \A j \in Jobs : Marks(j)
  BY DEF JobsInv
<1>2. Keeps
  BY DEF Keeps, Goes, ItemsKept
<1>3. ASSUME NEW j \in Jobs PROVE Marks(j)'
  <2>1. Goes(j, job'[j]) /\ Marks(j)
    BY <1>1
  <2>2. Listed(j) => Listed(j)'
    BY <2>1 DEF Listed, ItemsKept, Goes
  <2>3. ASSUME NEW n, ListedFrom(j, n) PROVE ListedFrom(j, n)'
    BY <2>1, <2>3 DEF ListedFrom, ItemsKept, Goes
  <2>4. ListedFrom(j, job'[j].offset) => ListedFrom(j, job[j].offset)'
    BY <2>1 DEF ListedFrom, ItemsKept, Goes
  <2>5. job'[j].offset = job[j].offset => (ListedFrom(j, job[j].offset) => ListedFrom(j, job[j].offset)')
    BY <2>1 DEF ListedFrom, ItemsKept, Goes
  <2> QED BY <2>1, <2>2, <2>4, <2>5 DEF Marks, Goes
<1> QED BY <1>2, <1>3

LEMMA ListsStay == ASSUME NEW x, Lists(x), Keeps PROVE Lists(x)'
<1>1. x.queue \subseteq {j \in Jobs : job'[j].kind # "none"}
  BY DEF Lists, Keeps
<1>2. CASE x.pc \in {"idle", "pick"}
  BY <1>1, <1>2 DEF Lists
<1>3. CASE x.pc \notin {"idle", "pick"}
  <2>1. /\ x.job \in Jobs /\ job[x.job].kind # "none" /\ job'[x.job].kind = job[x.job].kind
        /\ job'[x.job].to = job[x.job].to /\ (job[x.job].cancelled => job'[x.job].cancelled)
        /\ \A m \in Media : item[x.job][m] # "none" => item'[x.job][m] # "none"
    BY <1>3 DEF Lists, Keeps
  <2>2. Listed(x.job) => Listed(x.job)'
    BY <2>1 DEF Listed
  <2> QED BY <1>1, <1>3, <2>1, <2>2 DEF Lists
<1> QED BY <1>2, <1>3

\* A step of a loop, which may create, write or keep rows and items.
LEMMA LoopKeeps ==
  ASSUME JobsInv, Keeps, \A j \in Jobs : Marks(j)', latest' \in Nat, DOMAIN job' = Jobs, DOMAIN item' = Jobs,
         \A j \in Jobs : /\ DOMAIN job'[j] = DOMAIN J!NewJob /\ DOMAIN item'[j] = J!Messages
                        /\ job'[j].kind \in JobKinds /\ job'[j].to \in Nat,
         NEW r \in J!Runners, NEW y, run' = [run EXCEPT ![r] = y], DOMAIN y = DOMAIN J!Idle, y.pc \in Stops, Lists(y)',
         r = "scan" /\ y.pc # "idle" => y.job \in Jobs /\ job'[y.job].kind = "sync"
  PROVE  JobsInv'
<1>1. JobsTyped /\ (\A q \in J!Runners : Lists(run[q])) /\ run'[r] = y /\ \A q \in J!Runners \ {r} : run'[q] = run[q]
  BY DEF JobsInv, JobsTyped
<1>2. JobsTyped'
  BY <1>1 DEF JobsTyped
<1>3. ASSUME NEW q \in J!Runners PROVE Lists(run[q])'
  <2>1. CASE q # r
    <3>1. PICK x : x = run[q]
      OBVIOUS
    <3>2. Lists(x)' /\ x = run'[q]
      BY <1>1, <2>1, <3>1, ListsStay
    <3> QED BY <3>2 DEF Lists
  <2>2. CASE q = r
    <3>1. Lists(y)' /\ y = run'[q]
      BY <1>1, <2>2
    <3> QED BY <3>1 DEF Lists
  <2> QED BY <2>1, <2>2
<1>4. run'["scan"].pc # "idle" => run'["scan"].job \in Jobs /\ job'[run'["scan"].job].kind = "sync"
  <2>1. "scan" \in J!Runners
    BY DEF J!Runners
  <2>2. CASE r = "scan"
    BY <1>1, <2>2
  <2>3. CASE r # "scan"
    <3>1. run'["scan"] = run["scan"]
      BY <1>1, <2>1, <2>3
    <3>2. run["scan"].pc # "idle" => run["scan"].job \in Jobs /\ job[run["scan"].job].kind = "sync"
      BY DEF JobsInv
    <3> QED BY <3>1, <3>2 DEF Keeps
  <2> QED BY <2>2, <2>3
<1> QED BY <1>2, <1>3, <1>4 DEF JobsInv

\* What the steps do to the rows of jobs and of items.
Written == latest' \in Nat /\ DOMAIN job' = Jobs /\ (\A j \in Jobs : Goes(j, job'[j])) /\ ItemsKept

LEMMA RowsStand == ASSUME JobsInv, UNCHANGED job PROVE DOMAIN job' = Jobs /\ \A j \in Jobs : Goes(j, job'[j])
BY DEF JobsInv, JobsTyped, Marks, Goes

LEMMA RowWritten ==
  ASSUME JobsInv, NEW j \in Jobs, NEW z, Goes(j, z), job' = [job EXCEPT ![j] = z]
  PROVE  DOMAIN job' = Jobs /\ \A k \in Jobs : Goes(k, job'[k])
BY DEF JobsInv, JobsTyped, Marks, Goes

LEMMA ItemsStand == ASSUME JobsInv, UNCHANGED item PROVE ItemsKept
BY DEF JobsInv, JobsTyped, ItemsKept

LEMMA ItemsSet ==
  ASSUME JobsInv, NEW j \in Jobs, NEW T, NEW st, st # "none", item' = J!SetItems(j, T, st) PROVE ItemsKept
<1>1. JobsTyped
  BY DEF JobsInv
<1>2. item' = [item EXCEPT ![j] = [m \in J!Messages |-> IF m \in T THEN st ELSE item[j][m]]]
  BY DEF J!SetItems
<1>3. Media \subseteq J!Messages
  BY RangesNumbered DEF J!Messages
<1> QED BY <1>1, <1>2, <1>3 DEF JobsTyped, ItemsKept

\* The loop goes on with its job.
LEMMA GoesAlong ==
  ASSUME JobsInv, Written, NEW r \in J!Runners, NEW y, run' = [run EXCEPT ![r] = y],
         run[r].pc \notin {"idle", "pick"}, DOMAIN y = DOMAIN J!Idle, y.job = run[r].job, y.queue = run[r].queue,
         y.pc \in Looping \cup {"segment", "drain"}, y.pc = "final" => y.drain,
         LET j == run[r].job IN
         job[j].kind = "range" /\ (y.pc = "drain" \/ (y.pc \in Looping /\ (y.drain \/ y.last)))
           => job[j].cancelled \/ Listed(j)
  PROVE  JobsInv'
<1>1. JobsTyped /\ Lists(run[r]) /\ y.job \in Jobs /\ job[y.job].kind # "none"
  BY DEF JobsInv, Lists
<1>2. Keeps /\ \A j \in Jobs : Marks(j)'
  BY RowsGo DEF Written
<1>3. Listed(y.job) => Listed(y.job)'
  BY <1>1, <1>2 DEF Keeps, Listed
<1>4. y.pc \in Stops /\ y.pc \notin {"idle", "pick", "persist"}
  BY DEF Stops, Looping
<1>5. y.queue \subseteq {j \in Jobs : job'[j].kind # "none"}
  BY <1>1, <1>2 DEF Lists, Keeps
<1>6. Lists(y)'
  BY <1>1, <1>2, <1>3, <1>4, <1>5 DEF Lists, Keeps
<1>7. r = "scan" => job'[y.job].kind = "sync"
  BY <1>1, <1>2 DEF JobsInv, Keeps
<1>8. /\ DOMAIN item' = Jobs
      /\ \A j \in Jobs : /\ DOMAIN job'[j] = DOMAIN J!NewJob /\ DOMAIN item'[j] = J!Messages
                         /\ job'[j].kind \in JobKinds /\ job'[j].to \in Nat
  BY <1>1 DEF Written, Goes, ItemsKept, JobsTyped
<1> QED BY <1>1, <1>2, <1>4, <1>6, <1>7, <1>8, LoopKeeps DEF Written

\* A step of a loop that goes on as listed as it was.
LEMMA Further ==
  ASSUME JobsInv, Written, NEW r \in J!Runners, NEW y, run' = [run EXCEPT ![r] = y],
         run[r].pc \in Looping, DOMAIN y = DOMAIN J!Idle, y.job = run[r].job, y.queue = run[r].queue,
         y.pc \in Looping, y.drain = run[r].drain, y.last = run[r].last, y.pc = "final" => y.drain
  PROVE  JobsInv'
<1>1. Lists(run[r])
  BY DEF JobsInv
<1>2. run[r].pc \notin {"idle", "pick"}
  BY DEF Looping
<1>3. LET j == run[r].job IN job[j].kind = "range" /\ (y.drain \/ y.last) => job[j].cancelled \/ Listed(j)
  BY <1>1, <1>2 DEF Lists
<1>4. y.pc # "drain"
  BY DEF Looping
<1> QED BY <1>2, <1>3, <1>4, GoesAlong

\* The loop leaves its job.
LEMMA StopKeeps == ASSUME JobsInv, Written, NEW r \in J!Runners, J!Stop(r) PROVE JobsInv'
<1>1. JobsTyped /\ Lists(run[r])
  BY DEF JobsInv
<1>2. Keeps /\ \A j \in Jobs : Marks(j)'
  BY RowsGo DEF Written
<1>3. PICK y : y = IF r = "recover" THEN [J!Idle EXCEPT !.pc = "pick", !.queue = run[r].queue] ELSE J!Idle
  OBVIOUS
<1>4. run' = [run EXCEPT ![r] = y]
  BY <1>3 DEF J!Stop
<1>5. /\ DOMAIN y = DOMAIN J!Idle /\ y.pc \in {"idle", "pick"} /\ (r = "scan" => y.pc = "idle")
      /\ y.queue = {} \/ y.queue = run[r].queue
  BY <1>3 DEF J!Idle
<1>6. y.queue \subseteq {j \in Jobs : job'[j].kind # "none"}
  BY <1>1, <1>2, <1>5 DEF Lists, Keeps
<1>7. Lists(y)'
  BY <1>5, <1>6 DEF Lists
<1>8. /\ DOMAIN item' = Jobs
      /\ \A j \in Jobs : /\ DOMAIN job'[j] = DOMAIN J!NewJob /\ DOMAIN item'[j] = J!Messages
                         /\ job'[j].kind \in JobKinds /\ job'[j].to \in Nat
  BY <1>1 DEF Written, Goes, ItemsKept, JobsTyped
<1>9. y.pc \in Stops
  BY <1>5 DEF Stops
<1> QED BY <1>2, <1>4, <1>5, <1>7, <1>8, <1>9, LoopKeeps DEF Written

\* A step that writes rows and items only.
LEMMA CommandKeeps == ASSUME JobsInv, Written, UNCHANGED run PROVE JobsInv'
<1>1. JobsTyped /\ \A q \in J!Runners : Lists(run[q])
  BY DEF JobsInv
<1>2. Keeps /\ \A j \in Jobs : Marks(j)'
  BY RowsGo DEF Written
<1>3. JobsTyped'
  BY <1>1 DEF Written, Goes, ItemsKept, JobsTyped
<1>4. ASSUME NEW q \in J!Runners PROVE Lists(run[q])'
  <2>1. PICK x : x = run[q]
    OBVIOUS
  <2>2. Lists(x)'
    BY <1>1, <1>2, <2>1, ListsStay
  <2> QED BY <2>1, <2>2 DEF Lists
<1>5. run["scan"].pc # "idle" => run["scan"].job \in Jobs /\ job'[run["scan"].job].kind = "sync"
  BY <1>2 DEF JobsInv, Keeps
<1> QED BY <1>2, <1>3, <1>4, <1>5 DEF JobsInv

LEMMA PostKeeps == ASSUME JobsInv, J!Post PROVE JobsInv'
<1>1. latest' \in Nat /\ UNCHANGED <<job, item, run>>
  BY DEF JobsInv, JobsTyped, J!Post
<1> QED BY <1>1, RowsStand, ItemsStand, CommandKeeps DEF Written

LEMMA CooldownEndsKeeps == ASSUME JobsInv, NEW j \in Jobs, J!CooldownEnds(j) PROVE JobsInv'
<1>1. latest' \in Nat /\ UNCHANGED <<item, run>>
  BY DEF JobsInv, JobsTyped, J!CooldownEnds
<1>2. PICK z : z = [job[j] EXCEPT !.cooldown = FALSE]
  OBVIOUS
<1>3. job' = [job EXCEPT ![j] = z]
  BY <1>2 DEF J!CooldownEnds
<1>4. Goes(j, z)
  BY <1>2 DEF JobsInv, JobsTyped, Marks, Goes, J!NewJob
<1> QED BY <1>1, <1>3, <1>4, RowWritten, ItemsStand, CommandKeeps DEF Written

LEMMA PauseKeeps == ASSUME JobsInv, NEW j \in Jobs, J!Pause(j) \/ J!ResumeJob(j) PROVE JobsInv'
<1>1. latest' \in Nat /\ UNCHANGED <<item, run>>
  BY DEF JobsInv, JobsTyped, J!Pause, J!ResumeJob
<1>2. CASE J!Pause(j)
  <2>1. PICK z : z = [job[j] EXCEPT !.status = "paused", !.paused = TRUE]
    OBVIOUS
  <2>2. job' = [job EXCEPT ![j] = z]
    BY <1>2, <2>1 DEF JobsInv, JobsTyped, J!Pause
  <2>3. Goes(j, z)
    BY <2>1 DEF JobsInv, JobsTyped, Marks, Goes, J!NewJob
  <2> QED BY <1>1, <2>2, <2>3, RowWritten, ItemsStand, CommandKeeps DEF Written
<1>3. CASE J!ResumeJob(j)
  <2>1. PICK z : z = [job[j] EXCEPT !.status = "running", !.paused = FALSE, !.finished = FALSE]
    OBVIOUS
  <2>2. job' = [job EXCEPT ![j] = z]
    BY <1>3, <2>1 DEF JobsInv, JobsTyped, J!ResumeJob
  <2>3. Goes(j, z)
    BY <2>1 DEF JobsInv, JobsTyped, Marks, Goes, J!NewJob
  <2> QED BY <1>1, <2>2, <2>3, RowWritten, ItemsStand, CommandKeeps DEF Written
<1> QED BY <1>2, <1>3

LEMMA CancelJobKeeps == ASSUME JobsInv, NEW j \in Jobs, J!Cancel(j) PROVE JobsInv'
<1>1. latest' \in Nat /\ UNCHANGED run /\ ItemsKept
  <2>1. item' = J!SetItems(j, J!ItemsIn(j, {"pending"}), "skipped")
    BY DEF J!Cancel
  <2> QED BY <2>1, ItemsSet DEF JobsInv, JobsTyped, J!Cancel
<1>2. PICK z : z = [job[j] EXCEPT !.status = "cancelled", !.scan = "cancelled", !.cancelled = TRUE, !.finished = TRUE]
  OBVIOUS
<1>3. job' = [job EXCEPT ![j] = z]
  BY <1>2 DEF JobsInv, JobsTyped, J!Cancel
<1>4. Goes(j, z)
  BY <1>2 DEF JobsInv, JobsTyped, Marks, Goes, J!NewJob
<1> QED BY <1>1, <1>3, <1>4, RowWritten, CommandKeeps DEF Written

LEMMA RetryKeeps == ASSUME JobsInv, NEW j \in Jobs, J!Retry(j) PROVE JobsInv'
<1>1. latest' \in Nat /\ UNCHANGED run /\ ItemsKept
  <2>1. item' = J!SetItems(j, J!ItemsIn(j, {"failed"}), "pending")
    BY DEF J!Retry
  <2> QED BY <2>1, ItemsSet DEF JobsInv, JobsTyped, J!Retry
<1>2. PICK z : z = [job[j] EXCEPT !.status = "running", !.finished = FALSE]
  OBVIOUS
<1>3. job' = [job EXCEPT ![j] = z]
  BY <1>2 DEF JobsInv, JobsTyped, J!Retry
<1>4. Goes(j, z)
  BY <1>2 DEF JobsInv, JobsTyped, Marks, Goes, J!NewJob
<1> QED BY <1>1, <1>3, <1>4, RowWritten, CommandKeeps DEF Written

LEMMA JobCrashKeeps == ASSUME JobsInv, J!Crash PROVE JobsInv'
<1>1. latest' \in Nat /\ UNCHANGED <<job, item>> /\ run' = [r \in J!Runners |-> J!Idle]
  BY DEF JobsInv, JobsTyped, J!Crash
<1>2. Keeps /\ \A j \in Jobs : Marks(j)'
  BY <1>1, RowsStand, ItemsStand, RowsGo
<1>3. J!Idle.pc = "idle" /\ J!Idle.queue = {} /\ "scan" \in J!Runners
  BY DEF J!Idle, J!Runners
<1>4. JobsTyped'
  BY <1>1, <1>3 DEF JobsInv, JobsTyped, Stops
<1>5. \A q \in J!Runners : Lists(run[q])'
  BY <1>1, <1>3 DEF Lists
<1> QED BY <1>1, <1>2, <1>3, <1>4, <1>5 DEF JobsInv

\* Rows that are new.
LEMMA CreateKeeps ==
  ASSUME JobsInv, NEW j \in Jobs, job[j].kind = "none", UNCHANGED <<latest, item>>,
         NEW sort \in {"sync", "range"}, NEW from, NEW to \in Nat,
         job' = [job EXCEPT ![j] = [J!NewJob EXCEPT !.kind = sort, !.from = from, !.to = to]],
         NEW r \in J!Runners, NEW y, run' = [run EXCEPT ![r] = y], DOMAIN y = DOMAIN J!Idle,
         y.pc \in {"persist", "segstart"}, y.job = j, y.queue = {}, sort = "range" => y.pc # "persist",
         r = "scan" => sort = "sync"
  PROVE  JobsInv'
<1>1. JobsTyped /\ \A k \in Jobs : Marks(k)
  BY DEF JobsInv
<1>2. PICK z : z = [J!NewJob EXCEPT !.kind = sort, !.from = from, !.to = to]
  OBVIOUS
<1>3. /\ DOMAIN z = DOMAIN J!NewJob /\ z.kind = sort /\ z.to = to /\ z.status = "queued" /\ z.scan = "pending"
      /\ z.offset = 0
  BY <1>2 DEF J!NewJob
<1>4. job'[j] = z /\ DOMAIN job' = Jobs /\ \A k \in Jobs : k # j => job'[k] = job[k]
  BY <1>1, <1>2 DEF JobsTyped
<1>5. Keeps
  BY <1>4 DEF Keeps
<1>6. ASSUME NEW k \in Jobs PROVE Marks(k)'
  <2>1. CASE k = j
    <3>1. job'[k].status = "queued" /\ job'[k].scan = "pending" /\ job'[k].offset = 0 /\ 0 \in Nat
      BY <1>3, <1>4, <2>1
    <3> QED BY <3>1 DEF Marks
  <2>2. CASE k # j
    BY <1>1, <1>4, <2>2 DEF Marks, Listed, ListedFrom
  <2> QED BY <2>1, <2>2
<1>7. y.pc \in Stops /\ y.pc \notin {"idle", "pick", "drain", "final"} \cup Looping
  BY DEF Stops, Looping
<1>8. Lists(y)'
  BY <1>3, <1>4, <1>7 DEF Lists
<1>9. /\ DOMAIN item' = Jobs
      /\ \A k \in Jobs : /\ DOMAIN job'[k] = DOMAIN J!NewJob /\ DOMAIN item'[k] = J!Messages
                         /\ job'[k].kind \in JobKinds /\ job'[k].to \in Nat
  BY <1>1, <1>3, <1>4 DEF JobsTyped, JobKinds
<1>10. latest' \in Nat
  BY <1>1 DEF JobsTyped
<1>11. r = "scan" => job'[y.job].kind = "sync"
  BY <1>3, <1>4
<1> QED BY <1>4, <1>5, <1>6, <1>7, <1>8, <1>9, <1>10, <1>11, LoopKeeps

LEMMA ScanBeginKeeps == ASSUME JobsInv, NEW j \in Jobs, J!ScanBegin(j) PROVE JobsInv'
<1>1. /\ job[j].kind = "none" /\ UNCHANGED <<latest, item>> /\ "scan" \in J!Runners /\ latest \in Nat
      /\ job' = [job EXCEPT ![j] = [J!NewJob EXCEPT !.kind = "sync", !.from = cursor + 1, !.to = latest]]
  BY DEF J!ScanBegin, J!NextJob, J!Runners, JobsInv, JobsTyped
<1>2. PICK upto : upto = J!Min({latest, cursor + ScanLimit})
  OBVIOUS
<1>3. PICK y : y = [J!Idle EXCEPT !.pc = "persist", !.job = j, !.upto = upto, !.todo = Media \cap ((cursor + 1) .. upto)]
  OBVIOUS
<1>4. run' = [run EXCEPT !["scan"] = y]
  BY <1>2, <1>3 DEF J!ScanBegin
<1>5. DOMAIN y = DOMAIN J!Idle /\ y.pc = "persist" /\ y.job = j /\ y.queue = {}
  BY <1>3 DEF J!Idle
<1> QED BY <1>1, <1>4, <1>5, CreateKeeps

LEMMA NewRangeKeeps == ASSUME JobsInv, NEW j \in Jobs, J!NewRange(j) PROVE JobsInv'
<1>1. /\ job[j].kind = "none" /\ UNCHANGED <<latest, item>> /\ "user" \in J!Runners /\ latest \in Nat
      /\ job' = [job EXCEPT ![j] = [J!NewJob EXCEPT !.kind = "range", !.from = 1, !.to = latest]]
  BY DEF J!NewRange, J!NextJob, J!Runners, JobsInv, JobsTyped
<1>2. PICK y : y = [J!Idle EXCEPT !.pc = "segstart", !.job = j, !.segmented = TRUE]
  OBVIOUS
<1>3. run' = [run EXCEPT !["user"] = y]
  BY <1>2 DEF J!NewRange
<1>4. DOMAIN y = DOMAIN J!Idle /\ y.pc = "segstart" /\ y.job = j /\ y.queue = {}
  BY <1>2 DEF J!Idle
<1> QED BY <1>1, <1>3, <1>4, CreateKeeps

\* The first message of a segment, and the last.
LEMMA LeastOf ==
  ASSUME NEW T \in SUBSET Nat, T # {} PROVE J!Min(T) \in T /\ \A m \in T : J!Min(T) <= m
BY Least DEF J!Min

LEMMA GreatestOf ==
  ASSUME NEW n \in Nat, NEW T \in SUBSET (1 .. n), T # {} PROVE \E g \in T : \A m \in T : m <= g
<1>1. PICK U : U = {n - m : m \in T}
  OBVIOUS
<1>2. U \in SUBSET Nat /\ U # {}
  <2>1. ASSUME NEW m \in T PROVE n - m \in Nat
    <3>1. m \in 1 .. n
      OBVIOUS
    <3> QED BY <3>1
  <2> QED BY <1>1, <2>1
<1>3. PICK u \in U : \A v \in U : u <= v
  BY <1>2, Least
<1>4. PICK g \in T : u = n - g
  BY <1>1, <1>3
<1>5. ASSUME NEW m \in T PROVE m <= g
  <2>1. n - m \in U
    BY <1>1
  <2>2. n - g <= n - m
    BY <1>3, <1>4, <2>1
  <2>3. m \in 1 .. n /\ g \in 1 .. n
    BY <1>4
  <2> QED BY <2>2, <2>3
<1> QED BY <1>4, <1>5

LEMMA SameSize == ASSUME NEW T PROVE J!Cardinality(T) = Cardinality(T)
BY DEF J!Cardinality, Cardinality

\* A segment is the top of what is not listed, and all of it if it is short.
LEMMA SegmentsAreTops ==
  ASSUME JobsInv, NEW j \in Jobs
  PROVE  /\ J!SegmentOf(j) \subseteq J!Below(j) /\ J!Below(j) \subseteq 1 .. job[j].to
         /\ \A m \in J!Below(j), u \in J!SegmentOf(j) : u <= m => m \in J!SegmentOf(j)
         /\ J!Below(j) # {} => J!SegmentOf(j) # {}
         /\ Cardinality(J!SegmentOf(j)) < Segment => J!Below(j) \subseteq J!SegmentOf(j)
<1>1. job[j].to \in Nat /\ Segment \in Nat \ {0}
  BY RangesNumbered DEF JobsInv, JobsTyped
<1>2. PICK B0 : B0 = J!Below(j)
  OBVIOUS
<1>3. B0 \subseteq 1 .. job[j].to /\ B0 \subseteq Nat
  <2>1. B0 \subseteq 1 .. job[j].to
    BY <1>2 DEF J!Below
  <2>2. 1 .. job[j].to \subseteq Nat
    BY <1>1
  <2> QED BY <2>1, <2>2
<1>4. PICK S0 : S0 = J!SegmentOf(j)
  OBVIOUS
<1>5. \A m : m \in S0 <=> m \in B0 /\ Cardinality({k \in B0 : k > m}) < Segment
  <2>1. \A m : m \in S0 <=> m \in B0 /\ J!Cardinality({k \in B0 : k > m}) < Segment
    BY <1>2, <1>4 DEF J!SegmentOf
  <2> QED BY <2>1, SameSize
<1>6. IsFiniteSet(B0) /\ S0 \subseteq B0
  <2>1. IsFiniteSet(1 .. job[j].to)
    BY <1>1, FS_Interval
  <2> QED BY <1>3, <1>5, <2>1, FS_Subset
<1>7. ASSUME NEW m \in B0, NEW u \in S0, u <= m PROVE m \in S0
  <2>1. {k \in B0 : k > m} \subseteq {k \in B0 : k > u}
    <3>1. m \in Nat /\ u \in Nat
      BY <1>3, <1>6
    <3>2. ASSUME NEW k \in B0, k > m PROVE k > u
      <4>1. k \in Nat
        BY <1>3
      <4> QED BY <1>7, <3>1, <3>2, <4>1
    <3> QED BY <3>2
  <2>2. IsFiniteSet({k \in B0 : k > u}) /\ IsFiniteSet({k \in B0 : k > m})
    BY <1>6, FS_Subset
  <2>3. Cardinality({k \in B0 : k > m}) <= Cardinality({k \in B0 : k > u})
    BY <2>1, <2>2, FS_Subset
  <2>4. Cardinality({k \in B0 : k > m}) \in Nat /\ Cardinality({k \in B0 : k > u}) \in Nat
    BY <2>2, FS_CardinalityType
  <2>5. Cardinality({k \in B0 : k > u}) < Segment
    BY <1>5
  <2>6. Cardinality({k \in B0 : k > m}) < Segment
    BY <1>1, <2>3, <2>4, <2>5
  <2> QED BY <1>5, <2>6
<1>8. ASSUME B0 # {} PROVE S0 # {}
  <2>1. PICK g \in B0 : \A m \in B0 : m <= g
    BY <1>1, <1>3, <1>8, GreatestOf
  <2>2. {k \in B0 : k > g} = {}
    <3>1. ASSUME NEW k \in B0, k > g PROVE FALSE
      <4>1. k \in Nat /\ g \in Nat /\ k <= g
        BY <1>3, <2>1
      <4> QED BY <3>1, <4>1
    <3> QED BY <3>1
  <2>3. Cardinality({k \in B0 : k > g}) = 0
    BY <2>2, FS_EmptySet
  <2> QED BY <1>1, <1>5, <2>3
<1>9. ASSUME Cardinality(S0) < Segment PROVE B0 \subseteq S0
  <2> SUFFICES ASSUME B0 \ S0 # {} PROVE FALSE
    OBVIOUS
  <2>1. PICK g \in B0 \ S0 : \A m \in B0 \ S0 : m <= g
    <3>1. B0 \ S0 \in SUBSET (1 .. job[j].to)
      BY <1>3
    <3> QED BY <1>1, <3>1, GreatestOf
  <2>2. {k \in B0 : k > g} \subseteq S0
    <3>1. ASSUME NEW k \in B0 \ S0, k > g PROVE FALSE
      <4>1. k \in Nat /\ g \in Nat /\ k <= g
        BY <1>3, <2>1
      <4> QED BY <3>1, <4>1
    <3> QED BY <3>1
  <2>3. IsFiniteSet(S0) /\ IsFiniteSet({k \in B0 : k > g})
    BY <1>6, FS_Subset
  <2>4. /\ Cardinality({k \in B0 : k > g}) <= Cardinality(S0)
        /\ Cardinality({k \in B0 : k > g}) \in Nat /\ Cardinality(S0) \in Nat
    BY <2>2, <2>3, FS_Subset, FS_CardinalityType
  <2>5. Cardinality({k \in B0 : k > g}) < Segment
    BY <1>1, <1>9, <2>4
  <2> QED BY <1>5, <2>1, <2>5
<1> QED BY <1>2, <1>3, <1>4, <1>6, <1>7, <1>8, <1>9

LEMMA ScanSegmentKeeps == ASSUME JobsInv, NEW r \in J!Runners, J!ScanSegment(r) PROVE JobsInv'
<1>1. PICK j : j = run[r].job
  OBVIOUS
<1>2. /\ JobsTyped /\ Lists(run[r]) /\ run[r].pc = "segment" /\ UNCHANGED <<latest, job, item>>
      /\ j \in Jobs /\ job[j].kind # "none" /\ Marks(j) /\ run[r].pc \notin {"idle", "pick"}
  BY <1>1 DEF JobsInv, J!ScanSegment, Lists
<1>3. Written
  BY <1>2, RowsStand, ItemsStand DEF Written, JobsTyped
<1>4. CASE J!ControlState(j) = "cancelled" \/ job[j].scan = "done"
  <2>1. PICK y : y = [run[r] EXCEPT !.pc = "drain"]
    OBVIOUS
  <2>2. run' = [run EXCEPT ![r] = y]
    BY <1>1, <1>4, <2>1 DEF J!ScanSegment
  <2>3. DOMAIN y = DOMAIN J!Idle /\ y.pc = "drain" /\ y.job = run[r].job /\ y.queue = run[r].queue
    BY <1>2, <2>1 DEF JobsTyped, J!Idle
  <2>4. job[j].kind = "range" => job[j].cancelled \/ Listed(j)
    BY <1>2, <1>4 DEF Marks, J!ControlState
  <2> QED BY <1>1, <1>2, <1>3, <2>2, <2>3, <2>4, GoesAlong
<1>5. CASE ~(J!ControlState(j) = "cancelled" \/ job[j].scan = "done")
  <2>1. PICK y : y = [run[r] EXCEPT !.pc = "persist", !.todo = J!SegmentOf(j) \cap Media,
                                    !.upto = IF J!SegmentOf(j) = {} THEN job[j].offset ELSE J!Min(J!SegmentOf(j)),
                                    !.last = Cardinality(J!SegmentOf(j)) < Segment]
    OBVIOUS
  <2>2. run' = [run EXCEPT ![r] = y]
    <3>1. run' = [run EXCEPT ![r].pc = "persist", ![r].todo = J!SegmentOf(j) \cap Media,
                             ![r].upto = IF J!SegmentOf(j) = {} THEN job[j].offset ELSE J!Min(J!SegmentOf(j)),
                             ![r].last = Cardinality(J!SegmentOf(j)) < Segment]
      BY <1>1, <1>5, SameSize DEF J!ScanSegment
    <3> QED BY <1>2, <2>1, <3>1 DEF JobsTyped
  <2>3. /\ DOMAIN y = DOMAIN J!Idle /\ y.pc = "persist" /\ y.job = j /\ y.queue = run[r].queue
        /\ y.todo = J!SegmentOf(j) \cap Media /\ y.last = (Cardinality(J!SegmentOf(j)) < Segment)
        /\ y.upto = IF J!SegmentOf(j) = {} THEN job[j].offset ELSE J!Min(J!SegmentOf(j))
    BY <1>1, <1>2, <2>1 DEF JobsTyped, J!Idle
  <2>4. /\ J!SegmentOf(j) \subseteq J!Below(j) /\ J!Below(j) \subseteq 1 .. job[j].to
        /\ \A m \in J!Below(j), u \in J!SegmentOf(j) : u <= m => m \in J!SegmentOf(j)
        /\ J!Below(j) # {} => J!SegmentOf(j) # {}
        /\ Cardinality(J!SegmentOf(j)) < Segment => J!Below(j) \subseteq J!SegmentOf(j)
    BY <1>2, SegmentsAreTops
  <2>5. J!SegmentOf(j) # {} => J!Min(J!SegmentOf(j)) \in J!SegmentOf(j)
    <3>1. J!SegmentOf(j) \subseteq Nat
      BY <1>2, <2>4 DEF JobsTyped
    <3> QED BY <3>1, LeastOf
  <2>6. ASSUME job[j].kind = "range", NEW m \in Media, m <= job[j].to, m \notin J!Below(j) PROVE item[j][m] # "none"
    <3>1. m \in 1 .. MaxId /\ job[j].to \in Nat /\ job[j].offset \in Nat
      BY <1>2, <2>6, RangesNumbered DEF JobsTyped, Marks
    <3>2. job[j].offset # 0 /\ job[j].offset <= m
      BY <2>6, <3>1 DEF J!Below
    <3> QED BY <1>2, <2>6, <3>2 DEF Marks, ListedFrom
  <2>7. ASSUME job[j].kind = "range", NEW m \in Media, m <= job[j].to, y.upto <= m
        PROVE  item[j][m] # "none" \/ m \in y.todo
    <3>1. CASE m \in J!Below(j)
      BY <2>3, <2>4, <2>5, <2>7, <3>1
    <3> QED BY <2>6, <2>7, <3>1
  <2>8. ASSUME job[j].kind = "range", NEW m \in Media, m <= job[j].to, y.last
        PROVE  item[j][m] # "none" \/ m \in y.todo
    BY <2>3, <2>4, <2>6, <2>8
  <2>9. job[j].kind = "range" => y.upto \in Nat
    BY <1>2, <2>3, <2>4, <2>5 DEF JobsTyped, Marks
  <2>10. y.pc \notin Looping \cup {"final", "drain", "idle", "pick"} /\ y.pc \in Stops /\ y.todo \subseteq Media
    BY <2>3 DEF Looping, Stops
  <2>11. y.queue \subseteq {k \in Jobs : job[k].kind # "none"}
    BY <1>2, <2>3 DEF Lists
  <2>12. Lists(y)'
    BY <1>2, <2>3, <2>7, <2>8, <2>9, <2>10, <2>11 DEF Lists
  <2>13. Keeps /\ \A k \in Jobs : Marks(k)'
    BY <1>3, RowsGo DEF Written
  <2>14. r = "scan" => job[y.job].kind = "sync"
    BY <1>1, <1>2, <2>3 DEF JobsInv
  <2> QED BY <1>2, <2>2, <2>3, <2>10, <2>12, <2>13, <2>14, LoopKeeps DEF JobsTyped
<1> QED BY <1>4, <1>5

\* What is known of a loop at work.
LEMMA Busy ==
  ASSUME JobsInv, NEW r \in J!Runners, run[r].pc \notin {"idle", "pick"}
  PROVE  /\ run[r].job \in Jobs /\ job[run[r].job].kind # "none" /\ Marks(run[r].job)
         /\ DOMAIN run = J!Runners /\ DOMAIN run[r] = DOMAIN J!Idle /\ DOMAIN job = Jobs /\ DOMAIN item = Jobs /\ latest \in Nat
         /\ DOMAIN job[run[r].job] = DOMAIN J!NewJob /\ job[run[r].job].to \in Nat
         /\ Lists(run[r])
         /\ r = "scan" => job[run[r].job].kind = "sync"
BY DEF JobsInv, JobsTyped, Lists

LEMMA PersistKeeps == ASSUME JobsInv, NEW r \in J!Runners, J!Persist(r) PROVE JobsInv'
<1>1. PICK j : j = run[r].job
  OBVIOUS
<1>2. PICK n : n = J!Min(run[r].todo)
  OBVIOUS
<1>3. /\ run[r].pc = "persist" /\ UNCHANGED <<latest, job>>
      /\ item' = [item EXCEPT ![j][n] = IF @ = "none" THEN "pending" ELSE @]
      /\ run' = [run EXCEPT ![r].todo = @ \ {n}]
  BY <1>1, <1>2 DEF J!Persist
<1>4. /\ j \in Jobs /\ job[j].kind # "none" /\ DOMAIN run = J!Runners /\ DOMAIN run[r] = DOMAIN J!Idle
      /\ latest \in Nat /\ Lists(run[r]) /\ (r = "scan" => job[j].kind = "sync") /\ JobsTyped
  BY <1>1, <1>3, Busy DEF JobsInv
<1>5. \A k \in Jobs : DOMAIN item'[k] = J!Messages /\ (k # j => item'[k] = item[k])
  BY <1>3, <1>4 DEF JobsTyped
<1>6. \A m \in J!Messages : /\ item[j][m] # "none" => item'[j][m] # "none"
                            /\ m = n => item'[j][m] # "none"
  BY <1>3, <1>4 DEF JobsTyped
<1>7. Media \subseteq J!Messages
  BY RangesNumbered DEF J!Messages
<1>8. Written
  BY <1>3, <1>4, <1>5, <1>6, <1>7, RowsStand DEF Written, ItemsKept, JobsTyped
<1>9. Keeps /\ \A k \in Jobs : Marks(k)'
  BY <1>8, RowsGo DEF Written
<1>10. PICK y : y = [run[r] EXCEPT !.todo = run[r].todo \ {n}]
  OBVIOUS
<1>11. run' = [run EXCEPT ![r] = y]
  BY <1>3, <1>4, <1>10
<1>12. /\ DOMAIN y = DOMAIN J!Idle /\ y.pc = "persist" /\ y.job = j /\ y.queue = run[r].queue /\ y.upto = run[r].upto
       /\ y.last = run[r].last /\ y.todo = run[r].todo \ {n}
  BY <1>1, <1>3, <1>4, <1>10 DEF J!Idle
<1>13. y.pc \in Stops /\ y.pc \notin Looping \cup {"idle", "pick", "final", "drain"}
  BY <1>12 DEF Stops, Looping
<1>14. y.queue \subseteq {k \in Jobs : job[k].kind # "none"}
  BY <1>4, <1>12 DEF Lists
<1>15. ASSUME job[j].kind = "range"
       PROVE  /\ y.upto \in Nat /\ y.todo \subseteq Media
              /\ \A m \in Media : y.upto <= m /\ m <= job[j].to => item'[j][m] # "none" \/ m \in y.todo
              /\ y.last => \A m \in Media : m <= job[j].to => item'[j][m] # "none" \/ m \in y.todo
  BY <1>1, <1>3, <1>4, <1>6, <1>7, <1>12, <1>15 DEF Lists
<1>16. Lists(y)'
  BY <1>3, <1>4, <1>12, <1>13, <1>14, <1>15 DEF Lists
<1> QED BY <1>3, <1>4, <1>5, <1>8, <1>9, <1>11, <1>12, <1>13, <1>16, LoopKeeps DEF JobsTyped, Written, ItemsKept

LEMMA ScanListedKeeps == ASSUME JobsInv, J!ScanListed PROVE JobsInv'
<1>1. PICK j : j = run["scan"].job
  OBVIOUS
<1>2. /\ run["scan"].pc = "persist" /\ UNCHANGED <<latest, item>> /\ "scan" \in J!Runners
      /\ job' = IF J!Writable(j) THEN [job EXCEPT ![j].status = "running"] ELSE job
      /\ run' = [run EXCEPT !["scan"].pc = "loop"]
  BY <1>1 DEF J!ScanListed, J!Goto, J!Runners
<1>3. /\ j \in Jobs /\ DOMAIN run = J!Runners /\ DOMAIN run["scan"] = DOMAIN J!Idle /\ latest \in Nat
      /\ job[j].kind = "sync" /\ DOMAIN job[j] = DOMAIN J!NewJob /\ DOMAIN job = Jobs
  BY <1>1, <1>2, Busy
<1>4. PICK z : z = [job[j] EXCEPT !.status = "running"]
  OBVIOUS
<1>5. job' = [job EXCEPT ![j] = z] \/ UNCHANGED job
  BY <1>2, <1>3, <1>4
<1>6. Goes(j, z)
  BY <1>3, <1>4 DEF JobsInv, Marks, Goes, J!NewJob
<1>7. Written
  BY <1>2, <1>3, <1>5, <1>6, RowWritten, RowsStand, ItemsStand DEF Written
<1>8. PICK y : y = [run["scan"] EXCEPT !.pc = "loop"]
  OBVIOUS
<1>9. run' = [run EXCEPT !["scan"] = y]
  BY <1>2, <1>3, <1>8
<1>10. DOMAIN y = DOMAIN J!Idle /\ y.pc = "loop" /\ y.job = run["scan"].job /\ y.queue = run["scan"].queue
  BY <1>3, <1>8 DEF J!Idle
<1>11. y.pc \in Looping
  BY <1>10 DEF Looping
<1> QED BY <1>1, <1>2, <1>3, <1>7, <1>9, <1>10, <1>11, GoesAlong

LEMMA SegmentStartKeeps == ASSUME JobsInv, NEW r \in J!Runners, J!SegmentStart(r) PROVE JobsInv'
<1>1. PICK j : j = run[r].job
  OBVIOUS
<1>2. run[r].pc = "segstart" /\ UNCHANGED <<latest, item>>
  BY DEF J!SegmentStart
<1>3. /\ j \in Jobs /\ DOMAIN run = J!Runners /\ DOMAIN run[r] = DOMAIN J!Idle /\ latest \in Nat
      /\ DOMAIN job[j] = DOMAIN J!NewJob /\ DOMAIN job = Jobs /\ Marks(j)
  BY <1>1, <1>2, Busy
<1>4. CASE job' = [job EXCEPT ![j].status = "running", ![j].scan = "scanning"] /\ J!Goto(r, "segment")
  <2>1. PICK z : z = [job[j] EXCEPT !.status = "running", !.scan = "scanning"]
    OBVIOUS
  <2>2. job' = [job EXCEPT ![j] = z]
    BY <1>3, <1>4, <2>1
  <2>3. Goes(j, z)
    BY <1>3, <2>1 DEF Marks, Goes, J!NewJob
  <2>4. Written
    BY <1>2, <1>3, <2>2, <2>3, RowWritten, ItemsStand DEF Written
  <2>5. PICK y : y = [run[r] EXCEPT !.pc = "segment"]
    OBVIOUS
  <2>6. run' = [run EXCEPT ![r] = y]
    BY <1>3, <1>4, <2>5 DEF J!Goto
  <2>7. DOMAIN y = DOMAIN J!Idle /\ y.pc = "segment" /\ y.job = run[r].job /\ y.queue = run[r].queue
    BY <1>3, <2>5 DEF J!Idle
  <2>8. y.pc \notin Looping
    BY <2>7 DEF Looping
  <2> QED BY <1>2, <2>4, <2>6, <2>7, <2>8, GoesAlong
<1>5. CASE J!Stop(r) /\ UNCHANGED job
  BY <1>2, <1>3, <1>5, RowsStand, ItemsStand, StopKeeps DEF Written
<1> QED BY <1>1, <1>4, <1>5 DEF J!SegmentStart

LEMMA ScanFloodKeeps == ASSUME JobsInv, NEW r \in J!Runners, J!ScanFlood(r) PROVE JobsInv'
<1>1. PICK j : j = run[r].job
  OBVIOUS
<1>2. /\ run[r].pc = "persist" /\ UNCHANGED <<latest, item>>
      /\ job' = [job EXCEPT ![j].cooldown = TRUE] /\ run' = [run EXCEPT ![r].pc = "segment"]
  BY <1>1 DEF J!ScanFlood, J!Goto
<1>3. /\ j \in Jobs /\ DOMAIN run = J!Runners /\ DOMAIN run[r] = DOMAIN J!Idle /\ latest \in Nat
      /\ DOMAIN job[j] = DOMAIN J!NewJob /\ DOMAIN job = Jobs /\ Marks(j)
  BY <1>1, <1>2, Busy
<1>4. PICK z : z = [job[j] EXCEPT !.cooldown = TRUE]
  OBVIOUS
<1>5. job' = [job EXCEPT ![j] = z]
  BY <1>2, <1>3, <1>4
<1>6. Goes(j, z)
  BY <1>3, <1>4 DEF Marks, Goes, J!NewJob
<1>7. Written
  BY <1>2, <1>3, <1>5, <1>6, RowWritten, ItemsStand DEF Written
<1>8. PICK y : y = [run[r] EXCEPT !.pc = "segment"]
  OBVIOUS
<1>9. run' = [run EXCEPT ![r] = y]
  BY <1>2, <1>3, <1>8
<1>10. DOMAIN y = DOMAIN J!Idle /\ y.pc = "segment" /\ y.job = run[r].job /\ y.queue = run[r].queue
  BY <1>3, <1>8 DEF J!Idle
<1>11. y.pc \notin Looping
  BY <1>10 DEF Looping
<1> QED BY <1>2, <1>7, <1>9, <1>10, <1>11, GoesAlong

LEMMA SegmentListedKeeps == ASSUME JobsInv, NEW r \in J!Runners, J!SegmentListed(r) PROVE JobsInv'
<1>1. PICK j : j = run[r].job
  OBVIOUS
<1>2. /\ run[r].pc = "persist" /\ run[r].todo = {} /\ UNCHANGED <<latest, item>>
      /\ job' = [job EXCEPT ![j].offset = run[r].upto, ![j].scan = IF run[r].last THEN "done" ELSE "scanning"]
      /\ run' = [run EXCEPT ![r].pc = "loop", ![r].drain = FALSE]
  BY <1>1 DEF J!SegmentListed
<1>3. /\ j \in Jobs /\ DOMAIN run = J!Runners /\ DOMAIN run[r] = DOMAIN J!Idle /\ latest \in Nat
      /\ DOMAIN job[j] = DOMAIN J!NewJob /\ DOMAIN job = Jobs /\ Marks(j) /\ Lists(run[r])
  BY <1>1, <1>2, Busy
<1>4. job[j].kind = "range" => /\ run[r].upto \in Nat /\ ListedFrom(j, run[r].upto)
                               /\ run[r].last => Listed(j)
  BY <1>1, <1>2, <1>3 DEF Lists, ListedFrom, Listed
<1>5. PICK z : z = [job[j] EXCEPT !.offset = run[r].upto, !.scan = IF run[r].last THEN "done" ELSE "scanning"]
  OBVIOUS
<1>6. job' = [job EXCEPT ![j] = z]
  BY <1>2, <1>3, <1>5
<1>7. Goes(j, z)
  <2>1. /\ DOMAIN z = DOMAIN J!NewJob /\ z.kind = job[j].kind /\ z.to = job[j].to /\ z.cancelled = job[j].cancelled
        /\ z.status = job[j].status /\ z.offset = run[r].upto /\ (z.scan = "done" => run[r].last)
    BY <1>3, <1>5 DEF J!NewJob
  <2> QED BY <1>3, <1>4, <2>1 DEF Goes, Marks
<1>8. Written
  BY <1>2, <1>3, <1>6, <1>7, RowWritten, ItemsStand DEF Written
<1>9. PICK y : y = [run[r] EXCEPT !.pc = "loop", !.drain = FALSE]
  OBVIOUS
<1>10. run' = [run EXCEPT ![r] = y]
  BY <1>2, <1>3, <1>9
<1>11. /\ DOMAIN y = DOMAIN J!Idle /\ y.pc = "loop" /\ y.job = run[r].job /\ y.queue = run[r].queue
       /\ y.drain = FALSE /\ y.last = run[r].last
  BY <1>3, <1>9 DEF J!Idle
<1>12. y.pc \in Looping
  BY <1>11 DEF Looping
<1> QED BY <1>1, <1>2, <1>4, <1>8, <1>10, <1>11, <1>12, GoesAlong

LEMMA DrainKeeps == ASSUME JobsInv, NEW r \in J!Runners, J!Drain(r) PROVE JobsInv'
<1>1. PICK j : j = run[r].job
  OBVIOUS
<1>2. run[r].pc = "drain" /\ UNCHANGED <<latest, item>>
  BY DEF J!Drain
<1>3. /\ j \in Jobs /\ DOMAIN run = J!Runners /\ DOMAIN run[r] = DOMAIN J!Idle /\ latest \in Nat
      /\ DOMAIN job[j] = DOMAIN J!NewJob /\ DOMAIN job = Jobs /\ Marks(j) /\ Lists(run[r])
  BY <1>1, <1>2, Busy
<1>4. job[j].kind = "range" => job[j].cancelled \/ Listed(j)
  BY <1>1, <1>2, <1>3 DEF Lists
<1>5. CASE J!ControlState(j) = "run"
  <2>1. job' = [job EXCEPT ![j].scan = "done"] /\ run' = [run EXCEPT ![r].pc = "loop", ![r].drain = TRUE]
    BY <1>1, <1>5 DEF J!Drain
  <2>2. ~job[j].cancelled
    BY <1>5 DEF J!ControlState
  <2>3. PICK z : z = [job[j] EXCEPT !.scan = "done"]
    OBVIOUS
  <2>4. job' = [job EXCEPT ![j] = z]
    BY <1>3, <2>1, <2>3
  <2>5. Goes(j, z)
    BY <1>3, <1>4, <2>2, <2>3 DEF Marks, Goes, J!NewJob
  <2>6. Written
    BY <1>2, <1>3, <2>4, <2>5, RowWritten, ItemsStand DEF Written
  <2>7. PICK y : y = [run[r] EXCEPT !.pc = "loop", !.drain = TRUE]
    OBVIOUS
  <2>8. run' = [run EXCEPT ![r] = y]
    BY <1>3, <2>1, <2>7
  <2>9. DOMAIN y = DOMAIN J!Idle /\ y.pc = "loop" /\ y.job = run[r].job /\ y.queue = run[r].queue
    BY <1>3, <2>7 DEF J!Idle
  <2>10. y.pc \in Looping
    BY <2>9 DEF Looping
  <2> QED BY <1>1, <1>2, <1>4, <2>6, <2>8, <2>9, <2>10, GoesAlong
<1>6. CASE J!ControlState(j) = "cancelled"
  <2>1. job' = [job EXCEPT ![j].status = "cancelled", ![j].scan = "cancelled", ![j].finished = TRUE] /\ J!Stop(r)
    BY <1>1, <1>6 DEF J!Drain
  <2>2. job[j].cancelled
    BY <1>3, <1>6 DEF J!ControlState, Marks
  <2>3. PICK z : z = [job[j] EXCEPT !.status = "cancelled", !.scan = "cancelled", !.finished = TRUE]
    OBVIOUS
  <2>4. job' = [job EXCEPT ![j] = z]
    BY <1>3, <2>1, <2>3
  <2>5. Goes(j, z)
    BY <1>3, <2>2, <2>3 DEF Marks, Goes, J!NewJob
  <2> QED BY <1>2, <1>3, <2>1, <2>4, <2>5, RowWritten, ItemsStand, StopKeeps DEF Written
<1> QED BY <1>1, <1>5, <1>6 DEF J!Drain

\* The rounds of the download loop.
LEMMA ProceedKeeps == ASSUME JobsInv, NEW r \in J!Runners, J!Proceed(r) PROVE JobsInv'
<1>1. run[r].pc = "loop" /\ UNCHANGED <<latest, job, item>>
  BY DEF J!Proceed
<1>2. DOMAIN run = J!Runners /\ DOMAIN run[r] = DOMAIN J!Idle /\ latest \in Nat
  BY <1>1, Busy
<1>3. PICK pc \in {"claim", "end"} : run' = [run EXCEPT ![r].pc = pc]
  BY DEF J!Proceed, J!Goto
<1>4. PICK y : y = [run[r] EXCEPT !.pc = pc]
  OBVIOUS
<1>5. run' = [run EXCEPT ![r] = y]
  BY <1>2, <1>3, <1>4
<1>6. /\ DOMAIN y = DOMAIN J!Idle /\ y.pc = pc /\ y.job = run[r].job /\ y.queue = run[r].queue
      /\ y.drain = run[r].drain /\ y.last = run[r].last
  BY <1>2, <1>4 DEF J!Idle
<1>7. Written
  BY <1>1, <1>2, RowsStand, ItemsStand DEF Written
<1>8. run[r].pc \in Looping /\ y.pc \in Looping /\ y.pc # "final"
  BY <1>1, <1>3, <1>6 DEF Looping
<1> QED BY <1>5, <1>6, <1>7, <1>8, Further

LEMMA JobClaimKeeps == ASSUME JobsInv, NEW r \in J!Runners, J!Claim(r) PROVE JobsInv'
<1>1. PICK T \in J!Batches(run[r].job) :
        /\ item' = J!SetItems(run[r].job, T, "downloading")
        /\ run' = [run EXCEPT ![r].pc = IF T = {} THEN "end" ELSE "start", ![r].batch = T]
  BY DEF J!Claim
<1>2. /\ run[r].pc = "claim" /\ UNCHANGED <<latest, job>> /\ item' = J!SetItems(run[r].job, T, "downloading")
      /\ run' = [run EXCEPT ![r].pc = IF T = {} THEN "end" ELSE "start", ![r].batch = T]
  BY <1>1 DEF J!Claim
<1>3. run[r].job \in Jobs /\ DOMAIN run = J!Runners /\ DOMAIN run[r] = DOMAIN J!Idle /\ latest \in Nat
  BY <1>2, Busy
<1>4. PICK pc \in {"end", "start"} : pc = IF T = {} THEN "end" ELSE "start"
  OBVIOUS
<1>5. PICK y : y = [run[r] EXCEPT !.pc = pc, !.batch = T]
  OBVIOUS
<1>6. run' = [run EXCEPT ![r] = y]
  BY <1>2, <1>3, <1>4, <1>5
<1>7. /\ DOMAIN y = DOMAIN J!Idle /\ y.pc = pc /\ y.job = run[r].job /\ y.queue = run[r].queue
      /\ y.drain = run[r].drain /\ y.last = run[r].last
  BY <1>3, <1>5 DEF J!Idle
<1>8. Written
  BY <1>2, <1>3, RowsStand, ItemsSet DEF Written
<1>9. run[r].pc \in Looping /\ y.pc \in Looping /\ y.pc # "final"
  BY <1>2, <1>4, <1>7 DEF Looping
<1> QED BY <1>6, <1>7, <1>8, <1>9, Further

LEMMA EndBatchKeeps ==
  ASSUME JobsInv, Written, NEW r \in J!Runners, run[r].pc \in Looping, NEW ok, NEW bad, J!EndBatch(r, ok, bad)
  PROVE  JobsInv'
<1>1. DOMAIN run = J!Runners /\ DOMAIN run[r] = DOMAIN J!Idle
  BY DEF JobsInv, JobsTyped
<1>2. PICK pc \in {"loop", "end"} : pc = IF run[r].drain THEN "loop" ELSE "end"
  OBVIOUS
<1>3. PICK y : y = [run[r] EXCEPT !.pc = pc, !.batch = {}, !.bok = {}, !.bbad = {},
                                  !.ok = run[r].ok \cup ok, !.bad = run[r].bad \cup bad]
  OBVIOUS
<1>4. run' = [run EXCEPT ![r] = y]
  BY <1>1, <1>2, <1>3 DEF J!EndBatch, J!Idle
<1>5. /\ DOMAIN y = DOMAIN J!Idle /\ y.pc = pc /\ y.job = run[r].job /\ y.queue = run[r].queue
      /\ y.drain = run[r].drain /\ y.last = run[r].last
  BY <1>1, <1>3 DEF J!Idle
<1>6. y.pc \in Looping /\ y.pc # "final"
  BY <1>5 DEF Looping
<1> QED BY <1>4, <1>5, <1>6, Further

LEMMA StartBatchKeeps == ASSUME JobsInv, NEW r \in J!Runners, J!StartBatch(r) PROVE JobsInv'
<1>1. PICK j : j = run[r].job
  OBVIOUS
<1>2. run[r].pc = "start" /\ UNCHANGED latest /\ run[r].pc \in Looping
  BY DEF J!StartBatch, Looping
<1>3. /\ j \in Jobs /\ DOMAIN run = J!Runners /\ DOMAIN run[r] = DOMAIN J!Idle /\ latest \in Nat
      /\ DOMAIN job[j] = DOMAIN J!NewJob /\ DOMAIN job = Jobs /\ Marks(j)
  BY <1>1, <1>2, Busy
<1>4. CASE J!Claimable(j)
  <2>1. job' = [job EXCEPT ![j].status = "running"] /\ UNCHANGED item /\ run' = [run EXCEPT ![r].pc = "work"]
    BY <1>1, <1>4 DEF J!StartBatch, J!Goto
  <2>2. PICK z : z = [job[j] EXCEPT !.status = "running"]
    OBVIOUS
  <2>3. job' = [job EXCEPT ![j] = z]
    BY <1>3, <2>1, <2>2
  <2>4. Goes(j, z)
    BY <1>3, <2>2 DEF Marks, Goes, J!NewJob
  <2>5. Written
    BY <1>2, <1>3, <2>1, <2>3, <2>4, RowWritten, ItemsStand DEF Written
  <2>6. PICK y : y = [run[r] EXCEPT !.pc = "work"]
    OBVIOUS
  <2>7. run' = [run EXCEPT ![r] = y]
    BY <1>3, <2>1, <2>6
  <2>8. /\ DOMAIN y = DOMAIN J!Idle /\ y.pc = "work" /\ y.job = run[r].job /\ y.queue = run[r].queue
        /\ y.drain = run[r].drain /\ y.last = run[r].last
    BY <1>3, <2>6 DEF J!Idle
  <2>9. y.pc \in Looping
    BY <2>8 DEF Looping
  <2> QED BY <1>2, <2>5, <2>7, <2>8, <2>9, Further
<1>5. CASE ~J!Claimable(j)
  <2>1. item' = J!Restored(r) /\ UNCHANGED job
    BY <1>1, <1>5 DEF J!StartBatch
  <2>2. PICK ok : J!EndBatch(r, ok, {})
    BY <1>1, <1>5 DEF J!StartBatch
  <2>3. PICK st \in {"skipped", "pending"} : item' = J!SetItems(j, J!HeldBy(r), st)
    BY <1>1, <2>1 DEF J!Restored
  <2>4. Written
    BY <1>2, <1>3, <2>1, <2>3, RowsStand, ItemsSet DEF Written
  <2> QED BY <1>2, <2>2, <2>4, EndBatchKeeps
<1> QED BY <1>4, <1>5

LEMMA JobSettleKeeps ==
  ASSUME JobsInv, NEW r \in J!Runners, NEW m, NEW st \in {"success", "skipped", "failed"}, J!Settle(r, m, st)
  PROVE  JobsInv'
<1>1. PICK j : j = run[r].job
  OBVIOUS
<1>2. /\ run[r].pc = "work" /\ UNCHANGED <<latest, job>> /\ run[r].pc \in Looping
      /\ item' = [item EXCEPT ![j][m] = st]
      /\ run' = [run EXCEPT ![r].batch = @ \ {m},
                        ![r].bok = IF st = "failed" THEN @ ELSE @ \cup {m},
                        ![r].bbad = IF st = "failed" THEN @ \cup {m} ELSE @]
  BY <1>1 DEF J!Settle, Looping
<1>3. j \in Jobs /\ DOMAIN run = J!Runners /\ DOMAIN run[r] = DOMAIN J!Idle /\ latest \in Nat
  BY <1>1, <1>2, Busy
<1>4. ItemsKept
  <2>1. DOMAIN item = Jobs /\ \A k \in Jobs : DOMAIN item[k] = J!Messages
    BY DEF JobsInv, JobsTyped
  <2>2. Media \subseteq J!Messages
    BY RangesNumbered DEF J!Messages
  <2> QED BY <1>2, <1>3, <2>1, <2>2 DEF ItemsKept
<1>5. Written
  BY <1>2, <1>3, <1>4, RowsStand DEF Written
<1>6. PICK y : y = [run[r] EXCEPT !.batch = run[r].batch \ {m},
                       !.bok = IF st = "failed" THEN run[r].bok ELSE run[r].bok \cup {m},
                       !.bbad = IF st = "failed" THEN run[r].bbad \cup {m} ELSE run[r].bbad]
  OBVIOUS
<1>7. run' = [run EXCEPT ![r] = y]
  BY <1>2, <1>3, <1>6 DEF J!Idle
<1>8. /\ DOMAIN y = DOMAIN J!Idle /\ y.pc = "work" /\ y.job = run[r].job /\ y.queue = run[r].queue
      /\ y.drain = run[r].drain /\ y.last = run[r].last
  BY <1>2, <1>3, <1>6 DEF J!Idle
<1>9. y.pc \in Looping /\ y.pc # "final"
  BY <1>8 DEF Looping
<1> QED BY <1>2, <1>5, <1>7, <1>8, <1>9, Further

LEMMA BatchDoneKeeps == ASSUME JobsInv, NEW r \in J!Runners, J!BatchDone(r) PROVE JobsInv'
<1>1. /\ run[r].pc = "work" /\ UNCHANGED <<latest, job>> /\ run[r].pc \in Looping
      /\ item' = J!Restored(r) /\ J!EndBatch(r, run[r].bok, run[r].bbad)
  BY DEF J!BatchDone, Looping
<1>2. run[r].job \in Jobs /\ latest \in Nat
  BY <1>1, Busy
<1>3. PICK st \in {"skipped", "pending"} : item' = J!SetItems(run[r].job, J!HeldBy(r), st)
  BY <1>1 DEF J!Restored
<1>4. Written
  BY <1>1, <1>2, <1>3, RowsStand, ItemsSet DEF Written
<1> QED BY <1>1, <1>4, EndBatchKeeps

LEMMA FloodWaitKeeps == ASSUME JobsInv, NEW r \in J!Runners, J!FloodWait(r) PROVE JobsInv'
<1>1. PICK j : j = run[r].job
  OBVIOUS
<1>2. /\ run[r].pc = "work" /\ UNCHANGED latest /\ run[r].pc \in Looping /\ J!EndBatch(r, {}, {})
      /\ item' = J!SetItems(j, J!HeldBy(r), "pending")
      /\ job' = [job EXCEPT ![j].status = "cooling", ![j].cooldown = TRUE]
  BY <1>1 DEF J!FloodWait, Looping
<1>3. /\ j \in Jobs /\ latest \in Nat /\ DOMAIN job[j] = DOMAIN J!NewJob /\ DOMAIN job = Jobs /\ Marks(j)
  BY <1>1, <1>2, Busy
<1>4. PICK z : z = [job[j] EXCEPT !.status = "cooling", !.cooldown = TRUE]
  OBVIOUS
<1>5. job' = [job EXCEPT ![j] = z]
  BY <1>2, <1>3, <1>4
<1>6. Goes(j, z)
  BY <1>3, <1>4 DEF Marks, Goes, J!NewJob
<1>7. ItemsKept
  BY <1>2, <1>3, ItemsSet
<1>8. Written
  BY <1>2, <1>3, <1>5, <1>6, <1>7, RowWritten DEF Written
<1> QED BY <1>2, <1>8, EndBatchKeeps

LEMMA QuotaReachedKeeps == ASSUME JobsInv, NEW r \in J!Runners, J!QuotaReached(r) PROVE JobsInv'
<1>1. PICK j : j = run[r].job
  OBVIOUS
<1>2. /\ run[r].pc = "work" /\ UNCHANGED latest /\ run[r].pc \in Looping /\ J!EndBatch(r, {}, {})
      /\ \E T : item' = J!SetItems(j, T, "pending")
      /\ \/ UNCHANGED job
         \/ job' = [job EXCEPT ![j].status = IF job[j].paused THEN "paused" ELSE "cooling", ![j].cooldown = TRUE]
  BY <1>1 DEF J!QuotaReached, Looping
<1>3. /\ j \in Jobs /\ latest \in Nat /\ DOMAIN job[j] = DOMAIN J!NewJob /\ DOMAIN job = Jobs /\ Marks(j)
  BY <1>1, <1>2, Busy
<1>4. PICK st \in {"paused", "cooling"} : st = IF job[j].paused THEN "paused" ELSE "cooling"
  OBVIOUS
<1>5. PICK z : z = [job[j] EXCEPT !.status = st, !.cooldown = TRUE]
  OBVIOUS
<1>6. UNCHANGED job \/ job' = [job EXCEPT ![j] = z]
  BY <1>2, <1>3, <1>4, <1>5
<1>7. Goes(j, z)
  BY <1>3, <1>4, <1>5 DEF Marks, Goes, J!NewJob
<1>8. ItemsKept
  BY <1>2, <1>3, ItemsSet
<1>9. Written
  BY <1>2, <1>3, <1>6, <1>7, <1>8, RowWritten, RowsStand DEF Written
<1> QED BY <1>2, <1>9, EndBatchKeeps

\* A row that failed.
LEMMA ThrownGoes ==
  ASSUME JobsInv, NEW r \in J!Runners, NEW j \in Jobs, job' = J!Thrown(r, j)
  PROVE  DOMAIN job' = Jobs /\ \A k \in Jobs : Goes(k, job'[k])
<1>1. /\ DOMAIN job[j] = DOMAIN J!NewJob /\ DOMAIN job = Jobs /\ Marks(j)
  BY DEF JobsInv, JobsTyped
<1>2. PICK z : z = [job[j] EXCEPT !.status = "failed", !.finished = TRUE]
  OBVIOUS
<1>3. UNCHANGED job \/ job' = [job EXCEPT ![j] = z]
  BY <1>1, <1>2 DEF J!Thrown
<1>4. Goes(j, z)
  BY <1>1, <1>2 DEF Marks, Goes, J!NewJob
<1> QED BY <1>3, <1>4, RowWritten, RowsStand

LEMMA BatchErrorKeeps == ASSUME JobsInv, NEW r \in J!Runners, J!BatchError(r) PROVE JobsInv'
<1>1. /\ run[r].pc = "work" /\ UNCHANGED latest /\ J!Stop(r)
      /\ item' = J!SetItems(run[r].job, J!HeldBy(r), "failed") /\ job' = J!Thrown(r, run[r].job)
  BY DEF J!BatchError
<1>2. run[r].job \in Jobs /\ latest \in Nat
  BY <1>1, Busy
<1>3. ItemsKept
  BY <1>1, <1>2, ItemsSet
<1>4. Written
  BY <1>1, <1>2, <1>3, ThrownGoes DEF Written
<1> QED BY <1>1, <1>4, StopKeeps

LEMMA LeaseLostKeeps == ASSUME JobsInv, NEW r \in J!Runners, J!LeaseLost(r) PROVE JobsInv'
<1>1. run[r].pc = "work" /\ UNCHANGED <<latest, item>> /\ J!Stop(r) /\ job' = J!Thrown(r, run[r].job)
  BY DEF J!LeaseLost
<1>2. run[r].job \in Jobs /\ latest \in Nat
  BY <1>1, Busy
<1>3. Written
  BY <1>1, <1>2, ItemsStand, ThrownGoes DEF Written
<1> QED BY <1>1, <1>3, StopKeeps

\* The end of a run.
LEMMA EndOfLoopKeeps == ASSUME JobsInv, NEW r \in J!Runners, J!EndOfLoop(r) PROVE JobsInv'
<1>1. run[r].pc = "end" /\ run[r].drain /\ UNCHANGED <<latest, job, item>> /\ run[r].pc \in Looping
  BY DEF J!EndOfLoop, Looping
<1>2. DOMAIN run = J!Runners /\ DOMAIN run[r] = DOMAIN J!Idle /\ latest \in Nat
  BY <1>1, Busy
<1>3. Written
  BY <1>1, <1>2, RowsStand, ItemsStand DEF Written
<1>4. CASE J!Stop(r)
  BY <1>3, <1>4, StopKeeps
<1>5. CASE ~J!Stop(r)
  <2>1. PICK a, f, l : run' = [run EXCEPT ![r].pc = "final", ![r].advance = a, ![r].failed = f, ![r].left = l]
    <3>1. run' = [run EXCEPT ![r].pc = "final",
                    ![r].advance = IF job[run[r].job].kind = "sync" THEN J!SafeAdvance(r) ELSE 0,
                    ![r].failed = J!SawFailure(r),
                    ![r].left = J!Unsettled(run[r].job) # {}]
      BY <1>5 DEF J!EndOfLoop
    <3> QED BY <3>1
  <2>2. PICK y : y = [run[r] EXCEPT !.pc = "final", !.advance = a, !.failed = f, !.left = l]
    OBVIOUS
  <2>3. run' = [run EXCEPT ![r] = y]
    BY <1>2, <2>1, <2>2 DEF J!Idle
  <2>4. /\ DOMAIN y = DOMAIN J!Idle /\ y.pc = "final" /\ y.job = run[r].job /\ y.queue = run[r].queue
        /\ y.drain = run[r].drain /\ y.last = run[r].last
    BY <1>2, <2>2 DEF J!Idle
  <2>5. y.pc \in Looping
    BY <2>4 DEF Looping
  <2> QED BY <1>1, <1>3, <2>3, <2>4, <2>5, Further
<1> QED BY <1>4, <1>5

LEMMA EndOfSegmentKeeps == ASSUME JobsInv, NEW r \in J!Runners, J!EndOfSegment(r) PROVE JobsInv'
<1>1. /\ run[r].pc = "end" /\ UNCHANGED <<latest, job, item>> /\ run[r].pc \in Looping
      /\ run' = [run EXCEPT ![r].pc = IF run[r].last THEN "drain" ELSE "segment"]
  BY DEF J!EndOfSegment, J!Goto, Looping
<1>2. DOMAIN run = J!Runners /\ DOMAIN run[r] = DOMAIN J!Idle /\ latest \in Nat /\ Lists(run[r])
  BY <1>1, Busy
<1>3. Written
  BY <1>1, <1>2, RowsStand, ItemsStand DEF Written
<1>4. PICK pc \in {"drain", "segment"} : pc = IF run[r].last THEN "drain" ELSE "segment"
  OBVIOUS
<1>5. PICK y : y = [run[r] EXCEPT !.pc = pc]
  OBVIOUS
<1>6. run' = [run EXCEPT ![r] = y]
  BY <1>1, <1>2, <1>4, <1>5
<1>7. DOMAIN y = DOMAIN J!Idle /\ y.pc = pc /\ y.job = run[r].job /\ y.queue = run[r].queue
  BY <1>2, <1>5 DEF J!Idle
<1>8. y.pc \notin Looping
  BY <1>7 DEF Looping
<1>9. LET j == run[r].job IN job[j].kind = "range" /\ y.pc = "drain" => job[j].cancelled \/ Listed(j)
  BY <1>1, <1>2, <1>4, <1>7 DEF Lists
<1> QED BY <1>1, <1>3, <1>6, <1>7, <1>8, <1>9, GoesAlong

LEMMA FinalizeSyncKeeps == ASSUME JobsInv, NEW r \in J!Runners, J!FinalizeSync(r) PROVE JobsInv'
<1>1. PICK j : j = run[r].job
  OBVIOUS
<1>2. run[r].pc = "final" /\ job[j].kind = "sync" /\ UNCHANGED <<latest, item>> /\ J!Stop(r)
  BY <1>1 DEF J!FinalizeSync
<1>3. /\ j \in Jobs /\ latest \in Nat /\ DOMAIN job[j] = DOMAIN J!NewJob /\ DOMAIN job = Jobs /\ Marks(j)
  BY <1>1, <1>2, Busy
<1>4. CASE J!Writable(j) /\ ~job[j].finished /\ enabled
  <2>1. job' = [job EXCEPT ![j].status = J!FinalStatus(r), ![j].finished = TRUE]
    BY <1>1, <1>4 DEF J!FinalizeSync
  <2>2. PICK z : z = [job[j] EXCEPT !.status = J!FinalStatus(r), !.finished = TRUE]
    OBVIOUS
  <2>3. job' = [job EXCEPT ![j] = z]
    BY <1>3, <2>1, <2>2
  <2>4. Goes(j, z)
    BY <1>2, <1>3, <2>2 DEF Marks, Goes, J!NewJob, J!FinalStatus
  <2>5. Written
    BY <1>2, <1>3, <2>3, <2>4, RowWritten, ItemsStand DEF Written
  <2> QED BY <1>2, <2>5, StopKeeps
<1>5. CASE ~(J!Writable(j) /\ ~job[j].finished /\ enabled)
  <2>1. job' = J!Thrown(r, j) \/ UNCHANGED job
    BY <1>1, <1>5 DEF J!FinalizeSync
  <2>2. Written
    BY <1>2, <1>3, <2>1, ThrownGoes, RowsStand, ItemsStand DEF Written
  <2> QED BY <1>2, <2>2, StopKeeps
<1> QED BY <1>4, <1>5

LEMMA FinalizeRangeKeeps == ASSUME JobsInv, NEW r \in J!Runners, J!FinalizeRange(r) PROVE JobsInv'
<1>1. PICK j : j = run[r].job
  OBVIOUS
<1>2. run[r].pc = "final" /\ job[j].kind = "range" /\ UNCHANGED <<latest, item>> /\ J!Stop(r) /\ run[r].pc \in Looping
  BY <1>1 DEF J!FinalizeRange, Looping
<1>3. /\ j \in Jobs /\ latest \in Nat /\ DOMAIN job[j] = DOMAIN J!NewJob /\ DOMAIN job = Jobs /\ Marks(j) /\ Lists(run[r])
  BY <1>1, <1>2, Busy
<1>4. job[j].cancelled \/ Listed(j)
  BY <1>1, <1>2, <1>3 DEF Lists
<1>5. PICK fin : fin = J!FinalStatus(r)
  OBVIOUS
<1>6. fin \in {"completed", "completed_with_errors"}
  BY <1>5 DEF J!FinalStatus
<1>7. CASE run[r].segmented /\ J!ControlState(j) \notin {"cancelled", "paused"}
  <2>1. job' = [job EXCEPT ![j].status = IF run[r].left THEN "running" ELSE fin, ![j].finished = ~run[r].left]
    BY <1>1, <1>5, <1>7 DEF J!FinalizeRange
  <2>2. PICK st \in {"running", "completed", "completed_with_errors"} : st = IF run[r].left THEN "running" ELSE fin
    BY <1>6
  <2>3. PICK z : z = [job[j] EXCEPT !.status = st, !.finished = ~run[r].left]
    OBVIOUS
  <2>4. job' = [job EXCEPT ![j] = z]
    BY <1>3, <2>1, <2>2, <2>3
  <2>5. Listed(j)
    BY <1>4, <1>7 DEF J!ControlState
  <2>6. Goes(j, z)
    BY <1>3, <2>2, <2>3, <2>5 DEF Marks, Goes, J!NewJob
  <2>7. Written
    BY <1>2, <1>3, <2>4, <2>6, RowWritten, ItemsStand DEF Written
  <2> QED BY <1>2, <2>7, StopKeeps
<1>8. CASE ~run[r].segmented /\ J!Writable(j)
  <2>1. job' = [job EXCEPT ![j].status = fin, ![j].finished = TRUE, ![j].cooldown = FALSE]
    BY <1>1, <1>5, <1>8 DEF J!FinalizeRange
  <2>2. PICK z : z = [job[j] EXCEPT !.status = fin, !.finished = TRUE, !.cooldown = FALSE]
    OBVIOUS
  <2>3. job' = [job EXCEPT ![j] = z]
    BY <1>3, <2>1, <2>2
  <2>4. Listed(j)
    BY <1>4, <1>8 DEF J!Writable
  <2>5. Goes(j, z)
    BY <1>3, <1>6, <2>2, <2>4 DEF Marks, Goes, J!NewJob
  <2>6. Written
    BY <1>2, <1>3, <2>3, <2>5, RowWritten, ItemsStand DEF Written
  <2> QED BY <1>2, <2>6, StopKeeps
<1>9. CASE UNCHANGED job
  <2>1. Written
    BY <1>2, <1>3, <1>9, RowsStand, ItemsStand DEF Written
  <2> QED BY <1>2, <2>1, StopKeeps
<1> QED BY <1>1, <1>7, <1>8, <1>9 DEF J!FinalizeRange

\* The recovery worker.
LEMMA RepairGoes == ASSUME JobsInv, NEW j \in Jobs PROVE Goes(j, J!Uncooled(J!Repaired(j)))
<1>1. DOMAIN job[j] = DOMAIN J!NewJob /\ Marks(j)
  BY DEF JobsInv, JobsTyped
<1>2. PICK sc : sc = IF job[j].kind = "range" /\ job[j].scan # "done" THEN job[j].scan ELSE "done"
  OBVIOUS
<1>3. PICK w : w = [job[j] EXCEPT !.status = "running", !.finished = FALSE, !.scan = sc]
  OBVIOUS
<1>4. J!Repaired(j) = job[j] \/ (J!Repaired(j) = w /\ ~job[j].cancelled)
  BY <1>1, <1>2, <1>3 DEF J!Repaired, J!Inconsistent
<1>5. PICK x : x = J!Repaired(j)
  OBVIOUS
<1>6. Goes(j, x)
  <2>1. CASE x = job[j]
    BY <1>1, <2>1 DEF Marks, Goes
  <2>2. CASE x = w
    BY <1>1, <1>2, <1>3, <2>2 DEF Marks, Goes, J!NewJob
  <2> QED BY <1>4, <1>5, <2>1, <2>2
<1>7. PICK z : z = [x EXCEPT !.status = "running"]
  OBVIOUS
<1>8. J!Uncooled(x) = x \/ J!Uncooled(x) = z
  BY <1>7 DEF J!Uncooled
<1>9. Goes(j, z)
  BY <1>6, <1>7 DEF Goes, J!NewJob
<1> QED BY <1>5, <1>6, <1>8, <1>9

LEMMA JobSweepKeeps == ASSUME JobsInv, J!Sweep PROVE JobsInv'
<1>1. PICK stalled \in SUBSET (IF "stall" \in Faults THEN J!Runners \ {"recover"} ELSE {}) :
        LET rows  == [j \in Jobs |-> J!Uncooled(J!Repaired(j))]
            items == [j \in Jobs |-> [m \in J!Messages |->
                        IF m \in J!Expired(j, rows[j], stalled) THEN "pending" ELSE item[j][m]]]
            queue == J!Oldest({j \in Jobs : J!Resumable(rows[j], \E m \in J!Messages : items[j][m] = "pending")})
        IN  /\ job' = rows /\ item' = items /\ UNCHANGED latest
            /\ run' = [run EXCEPT !["recover"] = [J!Idle EXCEPT !.pc = "pick", !.queue = queue]]
  BY DEF J!Sweep
<1> DEFINE rows  == [j \in Jobs |-> J!Uncooled(J!Repaired(j))]
           items == [j \in Jobs |-> [m \in J!Messages |->
                       IF m \in J!Expired(j, rows[j], stalled) THEN "pending" ELSE item[j][m]]]
           able  == {j \in Jobs : J!Resumable(rows[j], \E m \in J!Messages : items[j][m] = "pending")}
           queue == J!Oldest(able)
           y     == [J!Idle EXCEPT !.pc = "pick", !.queue = queue]
<1>2. job' = rows /\ item' = items /\ UNCHANGED latest /\ run' = [run EXCEPT !["recover"] = y]
  BY <1>1
<1>3. ItemsKept
  <2>1. Media \subseteq J!Messages
    BY RangesNumbered DEF J!Messages
  <2>2. /\ DOMAIN items = Jobs
        /\ \A j \in Jobs : /\ DOMAIN items[j] = J!Messages
                           /\ \A m \in J!Messages : items[j][m] \in {"pending", item[j][m]}
    OBVIOUS
  <2> HIDE DEF items
  <2> QED BY <1>2, <2>1, <2>2 DEF ItemsKept
<1> HIDE DEF items
<1>4. Written
  BY <1>2, <1>3, RepairGoes DEF Written, JobsInv, JobsTyped
<1>5. Keeps /\ \A j \in Jobs : Marks(j)'
  BY <1>4, RowsGo DEF Written
<1>6. queue \subseteq {j \in Jobs : job'[j].kind # "none"}
  <2> HIDE DEF rows
  <2>1. able \subseteq {j \in Jobs : job'[j].kind # "none"}
    BY <1>2 DEF J!Resumable
  <2> HIDE DEF able
  <2> QED BY <2>1 DEF J!Oldest
<1> HIDE DEF queue, able, rows
<1>7. PICK x : x = y
  OBVIOUS
<1>8. DOMAIN x = DOMAIN J!Idle /\ x.pc = "pick" /\ x.queue = queue
  BY <1>7 DEF J!Idle
<1> HIDE DEF y
<1>9. x.pc \in Stops /\ "recover" \in J!Runners
  BY <1>8 DEF Stops, J!Runners
<1>10. x.queue \subseteq {j \in Jobs : job'[j].kind # "none"}
  BY <1>6, <1>8
<1>11. Lists(x)'
  BY <1>8, <1>10 DEF Lists
<1>12. \A j \in Jobs : /\ DOMAIN job'[j] = DOMAIN J!NewJob /\ DOMAIN item'[j] = J!Messages
                       /\ job'[j].kind \in JobKinds /\ job'[j].to \in Nat
  BY <1>4 DEF Written, Goes, ItemsKept, JobsInv, JobsTyped
<1>13. run' = [run EXCEPT !["recover"] = x]
  BY <1>2, <1>7
<1> QED BY <1>4, <1>5, <1>8, <1>9, <1>11, <1>12, <1>13, LoopKeeps DEF Written, ItemsKept

LEMMA ResumeKeeps == ASSUME JobsInv, J!Resume PROVE JobsInv'
<1>1. PICK j : j = J!Min(run["recover"].queue)
  OBVIOUS
<1>2. run["recover"].pc = "pick" /\ run["recover"].queue # {} /\ UNCHANGED <<latest, item>> /\ "recover" \in J!Runners
  BY DEF J!Resume, J!Runners
<1>3. /\ JobsTyped /\ Lists(run["recover"]) /\ DOMAIN run = J!Runners /\ DOMAIN run["recover"] = DOMAIN J!Idle
      /\ latest \in Nat /\ DOMAIN job = Jobs
  BY <1>2 DEF JobsInv, JobsTyped
<1>4. j \in run["recover"].queue /\ run["recover"].queue \subseteq {k \in Jobs : job[k].kind # "none"}
  <2>1. run["recover"].queue \subseteq {k \in Jobs : job[k].kind # "none"}
    BY <1>3 DEF Lists
  <2>2. run["recover"].queue \in SUBSET Nat
    BY <2>1, RowsNumbered
  <2> QED BY <1>1, <1>2, <2>1, <2>2, LeastOf
<1>5. j \in Jobs /\ job[j].kind # "none" /\ Marks(j) /\ DOMAIN job[j] = DOMAIN J!NewJob
  BY <1>3, <1>4 DEF JobsInv, JobsTyped
<1>6. PICK segmented, gone, pc :
        /\ segmented = (job[j].kind = "range" /\ job[j].scan # "done")
        /\ gone \in BOOLEAN /\ pc = IF gone THEN "pick" ELSE IF segmented THEN "segstart" ELSE "loop"
        /\ run' = [run EXCEPT !["recover"].queue = @ \ {j}, !["recover"].pc = pc,
                              !["recover"].job = IF gone THEN NoJob ELSE j,
                              !["recover"].segmented = segmented /\ ~gone]
        /\ UNCHANGED job \/ job' = [job EXCEPT ![j].status = "running"]
  BY <1>1 DEF J!Resume
<1>7. PICK z : z = [job[j] EXCEPT !.status = "running"]
  OBVIOUS
<1>8. UNCHANGED job \/ job' = [job EXCEPT ![j] = z]
  BY <1>3, <1>6, <1>7
<1>9. Goes(j, z)
  BY <1>5, <1>7 DEF Marks, Goes, J!NewJob
<1>10. Written
  BY <1>2, <1>3, <1>5, <1>8, <1>9, RowWritten, RowsStand, ItemsStand DEF Written
<1>11. Keeps /\ \A k \in Jobs : Marks(k)'
  BY <1>10, RowsGo DEF Written
<1>12. PICK y : y = [run["recover"] EXCEPT !.queue = run["recover"].queue \ {j}, !.pc = pc,
                       !.job = IF gone THEN NoJob ELSE j, !.segmented = segmented /\ ~gone]
  OBVIOUS
<1>13. run' = [run EXCEPT !["recover"] = y]
  BY <1>2, <1>3, <1>6, <1>12 DEF J!Idle
<1>14. /\ DOMAIN y = DOMAIN J!Idle /\ y.pc = pc /\ y.queue = run["recover"].queue \ {j} /\ (~gone => y.job = j)
  BY <1>3, <1>12 DEF J!Idle
<1>15. y.pc \in {"pick", "segstart", "loop"} /\ y.pc \in Stops
  BY <1>6, <1>14 DEF Stops, Looping
<1>16. y.queue \subseteq {k \in Jobs : job'[k].kind # "none"}
  BY <1>4, <1>11, <1>14 DEF Keeps
<1>17. ASSUME y.pc # "pick" PROVE y.job = j /\ job'[j].kind # "none" /\ job'[j].kind = job[j].kind
  BY <1>5, <1>6, <1>11, <1>14, <1>17 DEF Keeps
<1>18. ASSUME y.pc = "loop", job[j].kind = "range" PROVE Listed(j)'
  <2>1. job[j].scan = "done"
    BY <1>6, <1>14, <1>18
  <2>2. Listed(j)
    BY <1>5, <1>18, <2>1 DEF Marks
  <2> QED BY <1>5, <1>11, <2>2 DEF Keeps, Listed
<1>19. Lists(y)'
  BY <1>5, <1>15, <1>16, <1>17, <1>18 DEF Lists, Looping
<1>20. /\ DOMAIN item' = Jobs
       /\ \A k \in Jobs : /\ DOMAIN job'[k] = DOMAIN J!NewJob /\ DOMAIN item'[k] = J!Messages
                          /\ job'[k].kind \in JobKinds /\ job'[k].to \in Nat
  BY <1>3, <1>10 DEF Written, Goes, ItemsKept, JobsTyped
<1> QED BY <1>2, <1>10, <1>11, <1>13, <1>14, <1>15, <1>19, <1>20, LoopKeeps DEF Written

LEMMA SweepEndsKeeps == ASSUME JobsInv, J!SweepEnds PROVE JobsInv'
<1>1. UNCHANGED <<latest, job, item>> /\ run' = [run EXCEPT !["recover"] = J!Idle] /\ "recover" \in J!Runners /\ latest \in Nat
  BY DEF J!SweepEnds, J!Runners, JobsInv, JobsTyped
<1>2. Keeps /\ \A k \in Jobs : Marks(k)'
  BY <1>1, RowsStand, ItemsStand, RowsGo
<1>3. PICK y : y = J!Idle
  OBVIOUS
<1>4. y.pc = "idle" /\ y.queue = {} /\ y.pc \in Stops /\ DOMAIN y = DOMAIN J!Idle
  BY <1>3 DEF J!Idle, Stops
<1>5. Lists(y)'
  BY <1>4 DEF Lists
<1> QED BY <1>1, <1>2, <1>3, <1>4, <1>5, LoopKeeps DEF JobsInv, JobsTyped

LEMMA JobsStep == ASSUME JobsInv, [J!Next]_(J!vars) PROVE JobsInv'
<1>1. CASE UNCHANGED J!vars
  <2>1. UNCHANGED <<latest, job, item, run>> /\ latest \in Nat
    BY <1>1 DEF J!vars, JobsInv, JobsTyped
  <2> QED BY <2>1, RowsStand, ItemsStand, CommandKeeps DEF Written
<1>2. CASE J!Post \/ J!Scan \/ J!Recover \/ J!Crash
  BY <1>2, PostKeeps, ScanBeginKeeps, ScanListedKeeps, JobSweepKeeps, ResumeKeeps, SweepEndsKeeps, JobCrashKeeps
     DEF J!Scan, J!Recover
<1>3. CASE J!Command
  <2>1. CASE J!Unsubscribe \/ J!Subscribe
    <3>1. UNCHANGED <<latest, job, item, run>> /\ latest \in Nat
      BY <2>1 DEF J!Unsubscribe, J!Subscribe, JobsInv, JobsTyped
    <3> QED BY <3>1, RowsStand, ItemsStand, CommandKeeps DEF Written
  <2>2. ASSUME NEW j \in Jobs, J!NewRange(j) \/ J!Pause(j) \/ J!ResumeJob(j) \/ J!Cancel(j) \/ J!Retry(j) PROVE JobsInv'
    BY <2>2, NewRangeKeeps, PauseKeeps, CancelJobKeeps, RetryKeeps
  <2> QED BY <1>3, <2>1, <2>2 DEF J!Command
<1>4. ASSUME NEW r \in J!Runners, J!Step(r) PROVE JobsInv'
  <2>1. CASE \/ J!Persist(r) \/ J!SegmentStart(r) \/ J!ScanSegment(r) \/ J!SegmentListed(r) \/ J!Drain(r)
             \/ J!Proceed(r) \/ J!Claim(r) \/ J!StartBatch(r) \/ J!BatchDone(r) \/ J!LeaseLost(r)
    BY <2>1, PersistKeeps, SegmentStartKeeps, ScanSegmentKeeps, SegmentListedKeeps, DrainKeeps, ProceedKeeps, JobClaimKeeps,
       StartBatchKeeps, BatchDoneKeeps, LeaseLostKeeps
  <2>2. CASE J!EndOfLoop(r) \/ J!EndOfSegment(r) \/ J!FinalizeSync(r) \/ J!FinalizeRange(r)
    BY <2>2, EndOfLoopKeeps, EndOfSegmentKeeps, FinalizeSyncKeeps, FinalizeRangeKeeps
  <2>3. ASSUME NEW m \in J!Messages, J!Settle(r, m, "success") \/ J!Settle(r, m, "skipped") PROVE JobsInv'
    BY <2>3, JobSettleKeeps
  <2> QED BY <1>4, <2>1, <2>2, <2>3 DEF J!Step
<1>5. ASSUME NEW r \in J!Runners, J!Fault(r) PROVE JobsInv'
  <2>1. ASSUME NEW m \in J!Messages, J!Settle(r, m, "failed") PROVE JobsInv'
    BY <2>1, JobSettleKeeps
  <2>2. CASE J!ScanFlood(r) \/ J!FloodWait(r) \/ J!QuotaReached(r) \/ J!BatchError(r)
    BY <2>2, ScanFloodKeeps, FloodWaitKeeps, QuotaReachedKeeps, BatchErrorKeeps
  <2> QED BY <1>5, <2>1, <2>2 DEF J!Fault
<1>6. ASSUME NEW j \in Jobs, J!CooldownEnds(j) PROVE JobsInv'
  BY <1>6, CooldownEndsKeeps
<1> QED BY <1>1, <1>2, <1>3, <1>4, <1>5, <1>6 DEF J!Next

-----------------------------------------------------------------------------
(* The behaviours of these parts.                                          *)

AlbumInv   == part = "chat" => ChatInv
RangesInv  == part = "jobs" => JobsInv
JournalInv == part = "writes" => WritesInv
StoreInv   == part = "clients" => ClientsInv
SinglesInv == (part = "files" => FilesInv(Sent)) /\ (part = "file" => FilesInv({1}))

LEMMA PartStays == [Next]_vars => part' = part
BY DEF Next, vars, From8, From9, From10, From11, From14, JobsOnly, WritesOnly, ClientsOnly, ChatOnly, FilesOnly,
       WebOnly, BotOnly

LEMMA PartsStart == Init => AlbumInv /\ RangesInv /\ JournalInv /\ StoreInv /\ SinglesInv
<1> SUFFICES ASSUME Init PROVE AlbumInv /\ RangesInv /\ JournalInv /\ StoreInv /\ SinglesInv
  OBVIOUS
<1>1. AlbumInv
  BY ChatStarts DEF Init, AlbumInv
<1>2. RangesInv
  BY JobsStart DEF Init, RangesInv
<1>3. JournalInv
  BY WritesStart DEF Init, JournalInv
<1>4. StoreInv
  BY ClientsStart DEF Init, StoreInv
<1>5. SinglesInv
  BY FilesStart DEF Init, SinglesInv
<1> QED BY <1>1, <1>2, <1>3, <1>4, <1>5

LEMMA AlbumsStep == AlbumInv /\ [Next]_vars => AlbumInv' /\ (part = "chat" => C!OnceStep)
<1> SUFFICES ASSUME AlbumInv, [Next]_vars PROVE AlbumInv' /\ (part = "chat" => C!OnceStep)
  OBVIOUS
<1>1. CASE part = "chat"
  <2>1. [C!Next]_(C!vars)
    BY <1>1 DEF Next, vars, From8, From9, From10, From11, From14, C!vars
  <2> QED BY <1>1, <2>1, PartStays, ChatSteps DEF AlbumInv
<1> QED BY <1>1, PartStays DEF AlbumInv

LEMMA RangesStep == RangesInv /\ [Next]_vars => RangesInv'
<1> SUFFICES ASSUME RangesInv, [Next]_vars PROVE RangesInv'
  OBVIOUS
<1>1. CASE part = "jobs"
  <2>1. [J!Next]_(J!vars)
    BY <1>1 DEF Next, vars, From8, From9, From10, From11, From14, J!vars
  <2> QED BY <1>1, <2>1, PartStays, JobsStep DEF RangesInv
<1> QED BY <1>1, PartStays DEF RangesInv

LEMMA JournalStep == JournalInv /\ [Next]_vars => JournalInv'
<1> SUFFICES ASSUME JournalInv, [Next]_vars PROVE JournalInv'
  OBVIOUS
<1>1. CASE part = "writes"
  <2>1. [W!Next]_(W!vars)
    BY <1>1 DEF Next, vars, From8, From9, From10, From11, From14, W!vars
  <2> QED BY <1>1, <2>1, PartStays, WritesSteps DEF JournalInv
<1> QED BY <1>1, PartStays DEF JournalInv

LEMMA StoreStep == StoreInv /\ [Next]_vars => StoreInv'
<1> SUFFICES ASSUME StoreInv, [Next]_vars PROVE StoreInv'
  OBVIOUS
<1>1. CASE part = "clients"
  <2>1. [P!Next]_(P!vars)
    BY <1>1 DEF Next, vars, From8, From9, From10, From11, From14, P!vars
  <2> QED BY <1>1, <2>1, PartStays, ClientsSteps DEF StoreInv
<1> QED BY <1>1, PartStays DEF StoreInv

LEMMA SinglesStep == SinglesInv /\ [Next]_vars => SinglesInv'
<1> SUFFICES ASSUME SinglesInv, [Next]_vars PROVE SinglesInv'
  OBVIOUS
<1>1. CASE part = "files"
  <2>1. [F(Sent, 1)!Next]_(F(Sent, 1)!vars)
    BY <1>1 DEF Next, vars, From8, From9, From10, From11, From14, F!vars, F!queued, F!stored, F!silent
  <2> QED BY <1>1, <2>1, PartStays, FilesStep DEF SinglesInv
<1>2. CASE part = "file"
  <2>1. [F({1}, MaxTries - 1)!Next]_(F({1}, MaxTries - 1)!vars)
    BY <1>2 DEF Next, vars, From8, From9, From10, From11, From14, F!vars, F!queued, F!stored, F!silent
  <2> QED BY <1>2, <2>1, PartStays, FilesStep DEF SinglesInv
<1> QED BY <1>1, <1>2, PartStays DEF SinglesInv

\* A delivery whose download has ended is not queued again, whatever comes late for its album.
THEOREM DeliveriesEndOnce == Spec => Once
<1>1. Init => AlbumInv
  BY PartsStart
<1>2. AlbumInv /\ [Next]_vars => AlbumInv' /\ [part = "chat" => C!OnceStep]_vars
  BY AlbumsStep
<1> QED BY <1>1, <1>2, PTL DEF Spec, Once

\* A job that completed its range has an item for each message of it that has a file.  While what a journalled
\* write stored is there and its item did not keep it, the row of the journal is open, and an item goes to no
\* other worker while an earlier write of it is unresolved.  A client that reports a file saved has saved the
\* whole of it under the last folder of its path, one that fails left nothing it knows of.  And a single file
\* that counts as stored is stored, one that does not left nothing but what a call left behind that was not
\* answered.  Whatever the number of rows, messages, claims, clients, folders, files and mishaps.
THEOREM WorkStaysAccounted == Spec => []WorkAccounted
<1> DEFINE WorkInv == RangesInv /\ JournalInv /\ StoreInv /\ SinglesInv
<1>1. Init => WorkInv
  BY PartsStart
<1>2. WorkInv /\ [Next]_vars => WorkInv'
  BY RangesStep, JournalStep, StoreStep, SinglesStep
<1>3. WorkInv => WorkAccounted
  <2> SUFFICES ASSUME WorkInv PROVE WorkAccounted
    OBVIOUS
  <2>1. part = "jobs" => J!CompletedIsScanned
    BY JobsHold DEF RangesInv
  <2>2. part = "writes" => W!JournalAccounts
    BY DEF JournalInv, WritesInv, W!JournalAccounts
  <2>3. part = "clients" => P!Sound
    BY ClientsHold DEF StoreInv
  <2>4. (part = "files" => F(Sent, 1)!Stored) /\ (part = "file" => F({1}, MaxTries - 1)!Stored)
    BY FilesHold DEF SinglesInv
  <2> QED BY <2>1, <2>2, <2>3, <2>4 DEF WorkAccounted
<1> HIDE DEF WorkInv
<1> QED BY <1>1, <1>2, <1>3, PTL DEF Spec

\* Whatever waits in a chat has somebody who sees to it: a file of an album has the processor, an entry of the
\* tracker a handler or a task that ends it; and the card of the chat can be used.
THEOREM ChatStaysAttended == Spec => []ChatAttended
<1>1. Init => AlbumInv /\ SinglesInv
  BY PartsStart
<1>2. AlbumInv /\ SinglesInv /\ [Next]_vars => AlbumInv' /\ SinglesInv'
  BY AlbumsStep, SinglesStep
<1>3. AlbumInv /\ SinglesInv => ChatAttended
  BY FilesHold DEF AlbumInv, SinglesInv, ChatInv, ChatAttended
<1> QED BY <1>1, <1>2, <1>3, PTL DEF Spec

-----------------------------------------------------------------------------
(***************************************************************************)
(* Sign-in, that of the bot and that of the web.                           *)
(***************************************************************************)

(* The names the sign-in of the bot gives its variables. *)
allowed == v2
saved == v3
crossed == v4
kept == v5
served == v6
waiting == v11
proved == v12
passed == v13
hand == v14

-----------------------------------------------------------------------------
(* The bot.                                                                *)

Stages == {"off", "right", "wrong", "clear", "count", "list", "allow", "refuse", "factor", "code", "keep",
           "remember", "tidy", "revoke"}

\* Nobody is 0; the first user is somebody even if there are no users.
People   == Users \cup {0, CHOOSE u \in Users : TRUE}
Stand    == [at : Stages, user : People, seen : SUBSET People, own : BOOLEAN]
Standing == [Hands -> Stand]
BotTyped == hand \in Standing /\ allowed \subseteq People

\* What is known of the user for whom a handler stands here.
Earned(h) ==
  /\ hand[h].at \in {"count", "list", "allow", "clear", "factor"} => hand[h].user \in proved
  /\ hand[h].at = "allow" => hand[h].seen \subseteq saved.ever \cup proved
  /\ hand[h].at = "code" => hand[h].user \in waiting \cup passed
  /\ hand[h].at \in {"keep", "remember", "tidy"} => hand[h].user \in passed

BotInv == BotTyped /\ B!Sound /\ \A h \in Hands : Earned(h)

USE DEF allowed, saved, crossed, kept, served, waiting, proved, passed, hand

LEMMA BotStarts == B!Init => BotInv
<1> SUFFICES ASSUME B!Init PROVE BotInv
  OBVIOUS
<1>1. allowed \subseteq People
  BY DEF B!Init, People
<1>2. hand = [h \in Hands |-> B!Rest]
  BY DEF B!Init
<1>3. B!Rest \in Stand /\ B!Rest.at = "off"
  BY DEF B!Rest, Stages, Stand, People
<1>4. \A h \in Hands : Earned(h)
  BY <1>2, <1>3 DEF Earned
<1>5. B!Sound
  BY DEF B!Init, B!Sound, B!ServedPassed, B!ListHolds
<1> QED BY <1>1, <1>2, <1>3, <1>4, <1>5 DEF BotInv, BotTyped, Standing

\* A handler that keeps its user and comes to another point.
Moves(h, a) == /\ hand' \in Standing
               /\ hand'[h].at = a /\ hand'[h].user = hand[h].user /\ hand'[h].seen = hand[h].seen
               /\ \A g \in Hands : g # h => hand'[g] = hand[g]

LEMMA HandMoves ==
  ASSUME BotInv, NEW h \in Hands, NEW a \in Stages, hand' = [hand EXCEPT ![h].at = a]
  PROVE  Moves(h, a)
BY DEF Moves, BotInv, BotTyped, Standing, Stand

LEMMA HandRests ==
  ASSUME BotInv, NEW h \in Hands, hand' = [hand EXCEPT ![h] = B!Rest]
  PROVE  /\ hand' \in Standing
         /\ hand'[h].at = "off"
         /\ \A g \in Hands : g # h => hand'[g] = hand[g]
BY DEF BotInv, BotTyped, B!Rest, Stages, Standing, Stand, People

\* A handler that begins.
LEMMA HandBegins ==
  ASSUME BotInv, NEW h \in Hands, NEW u \in Users, NEW a \in Stages,
         hand' = [hand EXCEPT ![h] = [B!Rest EXCEPT !.at = a, !.user = u]]
  PROVE  /\ hand' \in Standing
         /\ hand'[h].at = a /\ hand'[h].user = u
         /\ \A g \in Hands : g # h => hand'[g] = hand[g]
BY DEF BotInv, BotTyped, B!Rest, Standing, Stand, People

\* Dropping an entry says nothing of who earned what.
LEMMA HandsDropped ==
  ASSUME NEW hs \in Standing,
         NEW u, NEW ds, ds = B!Dropped(hs, u)
  PROVE  /\ ds \in Standing
         /\ \A g \in Hands : /\ ds[g].user = hs[g].user /\ ds[g].seen = hs[g].seen
                             /\ ds[g].at = hs[g].at
BY DEF B!Dropped, Standing, Stand

\* Most steps change neither the lists nor what has been earned.
LEMMA HandsOnly ==
  ASSUME BotInv, UNCHANGED <<v2, v3, v4, v5, v6>>,
         proved \subseteq proved', passed \subseteq passed', waiting \subseteq waiting',
         hand' \in Standing,
         \A g \in Hands : \/ hand'[g].at \in {"off", "right", "wrong", "refuse", "revoke"}
                          \/ /\ hand'[g].at = hand[g].at /\ hand'[g].user = hand[g].user
                             /\ hand'[g].seen = hand[g].seen
                          \/ Earned(g)'
  PROVE  BotInv'
<1>1. BotTyped'
  BY DEF BotInv, BotTyped
<1>2. B!Sound'
  BY DEF BotInv, B!Sound, B!ServedPassed, B!ListHolds
<1>3. ASSUME NEW g \in Hands PROVE Earned(g)'
  BY DEF BotInv, Earned
<1> QED BY <1>1, <1>2, <1>3 DEF BotInv

\* What users do at the keyboard, and a code that arrives.
LEMMA KeysKeep ==
  ASSUME BotInv, NEW u \in Users,
         \/ B!Backspace(u) \/ B!Cancel(u) \/ B!Unlock(u)
         \/ \E h \in Hands : B!Digit(h, u) \/ B!Code(h, u)
  PROVE  BotInv'
<1>1. CASE B!Backspace(u) \/ B!Unlock(u)
  <2>1. hand' = hand /\ UNCHANGED <<v2, v3, v4, v5, v6, v11, v12, v13>>
    BY <1>1 DEF B!Backspace, B!Unlock, B!people, B!history
  <2> QED BY <2>1, HandsOnly DEF BotInv, BotTyped
<1>2. CASE B!Cancel(u)
  <2>1. hand' = B!Dropped(hand, u) /\ UNCHANGED <<v2, v3, v4, v5, v6, v11, v12, v13>>
    BY <1>2 DEF B!Cancel, B!people, B!history
  <2>2. hand \in Standing
    BY DEF BotInv, BotTyped
  <2> QED BY <2>1, <2>2, HandsDropped, HandsOnly
<1>3. ASSUME NEW h \in Hands, B!Digit(h, u) PROVE BotInv'
  <2>1. UNCHANGED <<v2, v3, v4, v5, v6, v11, v12, v13>>
    BY <1>3 DEF B!Digit, B!people, B!history
  <2>2. PICK a \in {"right", "wrong"} :
          hand' = hand \/ hand' = [hand EXCEPT ![h] = [B!Rest EXCEPT !.at = a, !.user = u]]
    BY <1>3 DEF B!Digit
  <2>3. CASE hand' = hand
    BY <2>1, <2>3, HandsOnly DEF BotInv, BotTyped
  <2>4. CASE hand' = [hand EXCEPT ![h] = [B!Rest EXCEPT !.at = a, !.user = u]]
    <3>1. a \in Stages
      BY DEF Stages
    <3>2. hand' \in Standing /\ hand'[h].at = a /\ \A g \in Hands : g # h => hand'[g] = hand[g]
      BY <2>4, <3>1, HandBegins
    <3> QED BY <2>1, <3>2, HandsOnly
  <2> QED BY <2>2, <2>3, <2>4
<1>4. ASSUME NEW h \in Hands, B!Code(h, u) PROVE BotInv'
  <2>1. UNCHANGED <<v2, v3, v4, v5, v6, v11, v12, v13>> /\ u \in waiting
    BY <1>4 DEF B!Code, B!people, B!history
  <2>2. hand' = [hand EXCEPT ![h] = [B!Rest EXCEPT !.at = "code", !.user = u]]
    BY <1>4 DEF B!Code
  <2>3. "code" \in Stages
    BY DEF Stages
  <2>4. /\ hand' \in Standing
        /\ hand'[h].at = "code" /\ hand'[h].user = u
        /\ \A g \in Hands : g # h => hand'[g] = hand[g]
    BY <2>2, <2>3, HandBegins
  <2>5. Earned(h)'
    BY <2>1, <2>4 DEF Earned
  <2> QED BY <2>1, <2>4, <2>5, HandsOnly
<1> QED BY <1>1, <1>2, <1>3, <1>4

\* From the right PIN to the question for the code.
LEMMA VerificationKeeps ==
  ASSUME BotInv, NEW h \in Hands,
         \/ B!Wrong(h) \/ B!Refuse(h) \/ B!Right(h) \/ B!Count(h) \/ B!ReadList(h) \/ B!Clear(h)
         \/ B!AskFactor(h)
  PROVE  BotInv'
<1>1. CASE B!Wrong(h) \/ B!Refuse(h)
  <2>1. hand' = [hand EXCEPT ![h] = B!Rest] /\ UNCHANGED <<v2, v3, v4, v5, v6, v11, v12, v13>>
    BY <1>1 DEF B!Wrong, B!Refuse, B!Leave, B!people, B!history
  <2> QED BY <2>1, HandRests, HandsOnly
<1>2. CASE B!Right(h)
  <2>1. /\ UNCHANGED <<v2, v3, v4, v5, v6, v11, v13>>
        /\ proved' = proved \cup {hand[h].user}
    BY <1>2 DEF B!Right, B!people
  <2>2. PICK a \in {"clear", "count", "refuse"} : hand' = [hand EXCEPT ![h].at = a]
    BY <1>2 DEF B!Right, B!Goto
  <2>3. a \in Stages
    BY DEF Stages
  <2>4. Moves(h, a)
    BY <2>2, <2>3, HandMoves
  <2>5. Earned(h)'
    BY <2>1, <2>2, <2>4 DEF Earned, Moves
  <2> QED BY <2>1, <2>4, <2>5, HandsOnly DEF Moves
<1>3. CASE B!Count(h)
  <2>1. UNCHANGED <<v2, v3, v4, v5, v6, v11, v12, v13>> /\ hand[h].at = "count"
    BY <1>3 DEF B!Count, B!people, B!history
  <2>2. PICK a \in {"list", "refuse"} : hand' = [hand EXCEPT ![h].at = a]
    BY <1>3 DEF B!Count, B!Goto
  <2>3. a \in Stages
    BY DEF Stages
  <2>4. Moves(h, a)
    BY <2>2, <2>3, HandMoves
  <2>5. Earned(h)'
    BY <2>1, <2>2, <2>4 DEF Earned, Moves, BotInv
  <2> QED BY <2>1, <2>4, <2>5, HandsOnly DEF Moves
<1>4. CASE B!ReadList(h)
  <2>1. UNCHANGED <<v2, v3, v4, v5, v6, v11, v12, v13>> /\ hand[h].at = "list"
    BY <1>4 DEF B!ReadList, B!people, B!history
  <2>2. /\ hand' = [hand EXCEPT ![h].at = "allow", ![h].seen = allowed]
        /\ "allow" \in Stages
    BY <1>4 DEF B!ReadList, Stages
  <2>3. /\ hand' \in Standing
        /\ hand'[h].at = "allow" /\ hand'[h].user = hand[h].user /\ hand'[h].seen = allowed
        /\ \A g \in Hands : g # h => hand'[g] = hand[g]
    BY <2>2 DEF BotInv, BotTyped, Standing, Stand
  <2>4. allowed \subseteq saved.ever \cup proved /\ hand[h].user \in proved
    BY <2>1 DEF BotInv, B!Sound, B!ListHolds, Earned
  <2>5. Earned(h)'
    BY <2>1, <2>3, <2>4 DEF Earned
  <2> QED BY <2>1, <2>3, <2>5, HandsOnly
<1>5. CASE B!Clear(h)
  <2>1. UNCHANGED <<v2, v3, v4, v5, v6, v11, v12, v13>> /\ hand[h].at = "clear"
    BY <1>5 DEF B!Clear, B!people, B!history
  <2> DEFINE hs == [hand EXCEPT ![h].at = "factor"]
  <2>2. /\ hs \in Standing
        /\ hs[h].at = "factor" /\ hs[h].user = hand[h].user
        /\ \A g \in Hands : g # h => hs[g] = hand[g]
    BY DEF BotInv, BotTyped, Standing, Stand, Stages
  <2>3. hand' = B!Dropped(hs, hand[h].user)
    BY <1>5 DEF B!Clear
  <2> HIDE DEF hs
  <2>4. /\ hand' \in Standing
        /\ \A g \in Hands : /\ hand'[g].user = hs[g].user /\ hand'[g].seen = hs[g].seen
                            /\ hand'[g].at = hs[g].at
    BY <2>2, <2>3, HandsDropped
  <2>5. Earned(h)'
    BY <2>1, <2>2, <2>4 DEF Earned, BotInv
  <2> QED BY <2>1, <2>2, <2>4, <2>5, HandsOnly
<1>6. CASE B!AskFactor(h)
  <2>1. UNCHANGED <<v2, v3, v4, v5, v6, v12>>
    BY <1>6 DEF B!AskFactor, B!people
  <2>2. CASE v7
    <3>1. /\ waiting \subseteq waiting' /\ passed' = passed
          /\ hand' = [hand EXCEPT ![h] = B!Rest]
      BY <1>6, <2>2 DEF B!AskFactor, B!Leave
    <3> QED BY <2>1, <3>1, HandRests, HandsOnly
  <2>3. CASE ~v7
    <3>1. /\ passed' = passed \cup {hand[h].user} /\ waiting' = waiting
          /\ hand' = [hand EXCEPT ![h].at = "keep"]
      BY <1>6, <2>3 DEF B!AskFactor, B!Goto
    <3>2. "keep" \in Stages
      BY DEF Stages
    <3>3. Moves(h, "keep")
      BY <3>1, <3>2, HandMoves
    <3>4. Earned(h)'
      BY <3>1, <3>3 DEF Earned, Moves
    <3> QED BY <2>1, <3>1, <3>3, <3>4, HandsOnly DEF Moves
  <2> QED BY <2>2, <2>3
<1> QED BY <1>1, <1>2, <1>3, <1>4, <1>5, <1>6

\* The list is written with the user who was read to be the first.
LEMMA FirstKeeps ==
  ASSUME BotInv, NEW h \in Hands, B!AllowFirst(h)
  PROVE  BotInv'
<1>1. /\ hand[h].at = "allow" /\ allowed' = hand[h].seen \cup {hand[h].user}
      /\ crossed' = (crossed \/ allowed # hand[h].seen \/ saved.last # {})
      /\ hand' = [hand EXCEPT ![h].at = "clear"]
      /\ UNCHANGED <<v3, v5, v6, v11, v12, v13>>
  BY DEF B!AllowFirst, B!Goto, B!history
<1>2. /\ hand[h].user \in proved /\ hand[h].seen \subseteq saved.ever \cup proved
  BY <1>1 DEF BotInv, Earned
<1>3. "clear" \in Stages
  BY DEF Stages
<1>4. Moves(h, "clear")
  BY <1>1, <1>3, HandMoves
<1>5. B!Sound'
  BY <1>1, <1>2 DEF BotInv, B!Sound, B!ServedPassed, B!ListHolds
<1>6. ASSUME NEW g \in Hands PROVE Earned(g)'
  BY <1>1, <1>2, <1>4 DEF BotInv, Earned, Moves
<1>7. hand[h].seen \subseteq People /\ hand[h].user \in People
  BY DEF BotInv, BotTyped, Standing, Stand
<1> QED BY <1>1, <1>4, <1>5, <1>6, <1>7 DEF BotInv, BotTyped, Moves

\* From the code to the end.
LEMMA KeepingKeeps ==
  ASSUME BotInv, NEW h \in Hands,
         B!CodeVerified(h) \/ B!Keep(h) \/ B!Remember(h) \/ B!Tidy(h) \/ B!Revoke(h)
  PROVE  BotInv'
<1> DEFINE Comes(a) == hand' = [hand EXCEPT ![h].at = a]
           Ends     == hand' = [hand EXCEPT ![h] = B!Rest]
<1>1. CASE B!CodeVerified(h)
  <2>1. UNCHANGED <<v2, v3, v4, v5, v6, v11, v12>> /\ hand[h].at = "code"
    BY <1>1 DEF B!CodeVerified, B!people
  <2>2. CASE Ends /\ UNCHANGED v13
    BY <2>1, <2>2, HandRests, HandsOnly
  <2>3. CASE Comes("keep") /\ passed' = passed \cup ({hand[h].user} \cap waiting)
    <3>1. "keep" \in Stages
      BY DEF Stages
    <3>2. hand[h].user \in passed'
      BY <2>1, <2>3 DEF BotInv, Earned
    <3>3. Moves(h, "keep")
      BY <2>3, <3>1, HandMoves
    <3>4. Earned(h)'
      BY <3>2, <3>3 DEF Earned, Moves
    <3> QED BY <2>1, <2>3, <3>3, <3>4, HandsOnly DEF Moves
  <2> QED BY <1>1, <2>2, <2>3 DEF B!CodeVerified, B!Goto, B!Leave
<1>2. CASE B!Keep(h)
  <2>1. UNCHANGED <<v2, v3, v4, v6, v11, v12, v13>> /\ hand[h].at = "keep"
    BY <1>2 DEF B!Keep, B!history
  <2>2. PICK a \in {"remember", "tidy"} : Comes(a) /\ kept' \subseteq kept \cup {hand[h].user}
    BY <1>2 DEF B!Keep, B!Goto
  <2>3. hand[h].user \in passed /\ a \in Stages
    BY <2>1 DEF BotInv, Earned, Stages
  <2>4. Moves(h, a)
    BY <2>2, <2>3, HandMoves
  <2>5. ASSUME NEW g \in Hands PROVE Earned(g)'
    BY <2>1, <2>2, <2>3, <2>4 DEF BotInv, Earned, Moves
  <2> QED BY <2>1, <2>2, <2>3, <2>4, <2>5 DEF Moves, BotInv, BotTyped, B!Sound, B!ServedPassed, B!ListHolds
<1>3. CASE B!Remember(h)
  <2>1. /\ UNCHANGED <<v2, v3, v4, v5, v11, v12, v13>> /\ hand[h].at = "remember"
        /\ Comes("tidy") /\ served' = served \cup {hand[h].user}
    BY <1>3 DEF B!Remember, B!history, B!Goto
  <2>2. hand[h].user \in passed /\ "tidy" \in Stages
    BY <2>1 DEF BotInv, Earned, Stages
  <2>3. Moves(h, "tidy")
    BY <2>1, <2>2, HandMoves
  <2>4. ASSUME NEW g \in Hands PROVE Earned(g)'
    BY <2>1, <2>2, <2>3 DEF BotInv, Earned, Moves
  <2> QED BY <2>1, <2>2, <2>3, <2>4 DEF Moves, BotInv, BotTyped, B!Sound, B!ServedPassed, B!ListHolds
<1>4. CASE B!Tidy(h)
  <2>1. /\ UNCHANGED <<v2, v3, v4, v5, v6, v12, v13>> /\ hand[h].at = "tidy"
        /\ waiting' = waiting \ {hand[h].user}
    BY <1>4 DEF B!Tidy, B!people, B!history
  <2>2. hand[h].user \in passed
    BY <2>1 DEF BotInv, Earned
  <2>3. /\ hand' \in Standing /\ hand'[h].at = "off"
        /\ \A g \in Hands : g # h => hand'[g] = hand[g]
    <3>1. Ends
      BY <1>4 DEF B!Tidy, B!Leave
    <3> QED BY <3>1, HandRests
  <2>4. ASSUME NEW g \in Hands PROVE Earned(g)'
    BY <2>1, <2>2, <2>3 DEF BotInv, Earned
  <2> QED BY <2>1, <2>3, <2>4 DEF BotInv, BotTyped, B!Sound, B!ServedPassed, B!ListHolds
<1>5. CASE B!Revoke(h)
  <2>1. /\ UNCHANGED <<v2, v3, v4, v6, v11, v12, v13>>
        /\ kept' \subseteq kept
    BY <1>5 DEF B!Revoke, B!history
  <2>2. /\ hand' \in Standing /\ hand'[h].at = "off"
        /\ \A g \in Hands : g # h => hand'[g] = hand[g]
    <3>1. Ends
      BY <1>5 DEF B!Revoke, B!Leave
    <3> QED BY <3>1, HandRests
  <2>3. ASSUME NEW g \in Hands PROVE Earned(g)'
    BY <2>1, <2>2 DEF BotInv, Earned
  <2> QED BY <2>1, <2>2, <2>3 DEF BotInv, BotTyped, B!Sound, B!ServedPassed, B!ListHolds
<1> QED BY <1>1, <1>2, <1>3, <1>4, <1>5

\* The administrator saves, a user is looked up, the process starts again.
LEMMA ListKeeps ==
  ASSUME BotInv,
         \/ \E list \in SUBSET Users : B!Save(list)
         \/ \E h \in Hands, u \in Users : B!Check(h, u)
         \/ B!Restart
  PROVE  BotInv'
<1>1. ASSUME NEW list \in SUBSET Users, B!Save(list) PROVE BotInv'
  <2>1. /\ allowed' = list /\ saved' = [last |-> list, ever |-> saved.ever \cup list]
        /\ UNCHANGED <<v4, v5, v6, v11, v12, v13, v14>>
    BY <1>1 DEF B!Save, B!history
  <2>2. B!Sound' /\ BotTyped'
    BY <2>1 DEF BotInv, BotTyped, B!Sound, B!ServedPassed, B!ListHolds, People
  <2>3. \A h \in Hands : Earned(h)'
    BY <2>1 DEF BotInv, Earned
  <2> QED BY <2>2, <2>3 DEF BotInv
<1>2. ASSUME NEW h \in Hands, NEW u \in Users, B!Check(h, u) PROVE BotInv'
  <2>1. UNCHANGED <<v2, v3, v4, v5, v11, v12, v13>> /\ served' = served \ {u}
    BY <1>2 DEF B!Check, B!history
  <2>2. hand' = [hand EXCEPT ![h] = [B!Rest EXCEPT !.at = "revoke", !.user = u]]
    BY <1>2 DEF B!Check
  <2>3. /\ hand' \in Standing
        /\ hand'[h].at = "revoke" /\ hand'[h].user = u
        /\ \A g \in Hands : g # h => hand'[g] = hand[g]
    <3>1. "revoke" \in Stages
      BY DEF Stages
    <3> QED BY <2>2, <3>1, HandBegins
  <2>4. ASSUME NEW g \in Hands PROVE Earned(g)'
    BY <2>1, <2>3 DEF BotInv, Earned
  <2> QED BY <2>1, <2>3, <2>4 DEF BotInv, BotTyped, B!Sound, B!ServedPassed, B!ListHolds
<1>3. CASE B!Restart
  <2>1. /\ UNCHANGED <<v2, v3, v4, v12, v13>> /\ hand' = [h \in Hands |-> B!Rest]
        /\ served' \subseteq kept /\ kept' = served'
    BY <1>3 DEF B!Restart, B!history
  <2>2. B!Rest \in Stand /\ B!Rest.at = "off"
    BY DEF B!Rest, Stages, Stand, People
  <2>3. hand' \in Standing /\ \A h \in Hands : Earned(h)'
    BY <2>1, <2>2 DEF Earned, Standing
  <2> QED BY <2>1, <2>3 DEF BotInv, BotTyped, B!Sound, B!ServedPassed, B!ListHolds
<1> QED BY <1>1, <1>2, <1>3

LEMMA BotSteps == BotInv /\ [B!Next]_(B!vars) => BotInv'
<1> SUFFICES ASSUME BotInv, [B!Next]_(B!vars) PROVE BotInv'
  OBVIOUS
<1>1. CASE B!Next
  <2>1. CASE B!Work
    BY <2>1, VerificationKeeps, FirstKeeps, KeepingKeeps DEF B!Work
  <2> QED BY <1>1, <2>1, KeysKeep, ListKeeps DEF B!Next
<1>2. CASE UNCHANGED B!vars
  BY <1>2, HandsOnly DEF B!vars, B!people, B!history, BotInv, BotTyped
<1> QED BY <1>1, <1>2

-----------------------------------------------------------------------------
(* The web.                                                                *)

\* The names the sign-in of the web gives its variables.
lineage == v1
pin     == v2
made    == v3
gave    == v4
factor  == v5
secrets == v6
clash   == v7
row     == v8
issued  == v9
era     == v10
browser == v11

USE DEF lineage, pin, made, gave, factor, secrets, clash, row, issued, era, browser

Pages    == {"closed", "setup", "password", "totp", "in"}
Asked    == {"none", "load", "setup", "login", "totp", "logout", "change", "revoke", "qr", "activate", "disable"}
Awaits   == {"", "status", "verify", "store", "issue", "check", "factor", "code", "remove", "auth", "begin", "on",
             "off"}
Requests == [do : Asked, at : Awaits, given : Nat, new : Nat, off : BOOLEAN]
Shown    == [page : Pages, cookie : Nat, qr : Nat, request : Requests]
Rows     == [is : {"none", "live", "lapsed", "gone"}, era : Nat, coded : BOOLEAN, off : BOOLEAN]

WebTyped ==
  /\ lineage \in Seq(Nat \ {0}) /\ made \in 0 .. MaxPasswords /\ gave \in [S!Passwords -> Nat]
  /\ factor \in [secret : Nat, on : BOOLEAN, verified : Nat] /\ secrets \in Nat /\ clash \in BOOLEAN
  /\ row \in [S!Sessions -> Rows] /\ issued \in Nat /\ era \in Nat
  /\ browser \in [Browsers -> Shown]

\* What a request may be and where it may stand.
Steps == {<<"none", "">>, <<"load", "status">>, <<"load", "verify">>,
          <<"setup", "store">>, <<"setup", "issue">>,
          <<"login", "check">>, <<"login", "factor">>, <<"login", "issue">>,
          <<"totp", "check">>, <<"totp", "code">>, <<"totp", "issue">>,
          <<"logout", "remove">>,
          <<"change", "auth">>, <<"change", "begin">>,
          <<"revoke", "auth">>, <<"revoke", "begin">>,
          <<"qr", "auth">>, <<"qr", "begin">>, <<"qr", "store">>,
          <<"activate", "auth">>, <<"activate", "begin">>, <<"activate", "code">>, <<"activate", "on">>,
          <<"disable", "auth">>, <<"disable", "begin">>, <<"disable", "check">>, <<"disable", "off">>}

OnItsPage(b) ==
  LET do == browser[b].request.do
      page == browser[b].page IN
  /\ do = "load" => page = "closed"
  /\ do = "setup" => page = "setup"
  /\ do = "login" => page = "password"
  /\ do = "totp" => page = "totp"
  /\ do \in {"logout", "change", "revoke", "qr", "activate", "disable"} => page = "in"

\* Who is in, or about to be, found a password set; so did a browser with a cookie.
SetBefore(b) ==
  \/ browser[b].page \in {"totp", "in"} \/ browser[b].cookie # 0
  \/ browser[b].request.at \in {"factor", "issue"}
  => lineage # <<>>

\* What the request carries was true when it was sent, and is.
Carries(b) ==
  LET r == browser[b].request IN
  /\ browser[b].page = "totp" \/ r.do \in {"login", "disable"} => r.given # 0
  /\ r.do = "login" /\ ~r.off => factor.on
  /\ r.do = "setup" => /\ r.new \in 1 .. made /\ gave[r.new] = 0
                       /\ r.at = "store" => r.off \/ lineage # <<>>
  /\ r.at = "issue" => r.do = "totp" \/ r.off
  /\ r.do = "change" => r.new \in 1 .. made /\ gave[r.new] = r.given
  /\ r.at = "on" => (r.new = factor.secret /\ r.new # 0) \/ clash

Fits(b) == /\ <<browser[b].request.do, browser[b].request.at>> \in Steps
           /\ OnItsPage(b) /\ SetBefore(b) /\ Carries(b)

Chosen  == S!Lineage /\ \A i \in 1 .. Len(lineage) : lineage[i] \in 1 .. made
InForce == /\ factor.on => (factor.secret = factor.verified /\ factor.secret # 0) \/ clash
           /\ factor.on => lineage # <<>>

WebInv == /\ WebTyped /\ Chosen /\ InForce /\ S!Ended /\ S!Coded
          /\ \A b \in Browsers : Fits(b)

LEMMA WebStarts == S!Init => WebInv
<1> SUFFICES ASSUME S!Init PROVE WebInv
  OBVIOUS
<1>1. /\ row = [s \in S!Sessions |-> S!NoSession] /\ era = 0 /\ issued = 0
      /\ browser = [b \in Browsers |-> [page |-> "closed", cookie |-> 0, qr |-> 0, request |-> S!Rest]]
      /\ factor = [secret |-> secrets, on |-> secrets = 1, verified |-> secrets]
      /\ gave = [p \in S!Passwords |-> 0] /\ secrets \in {0, 1}
      /\ \/ lineage = <<>> /\ made = 0 /\ secrets = 0
         \/ lineage = <<1>> /\ made = 1 /\ pin = 1
  BY DEF S!Init, S!Fresh, S!Before
<1>2. S!NoSession \in Rows /\ S!NoSession.is = "none"
  BY DEF S!NoSession, Rows
<1>3. row \in [S!Sessions -> Rows] /\ S!Ended /\ S!Coded
  BY <1>1, <1>2 DEF S!Ended, S!Coded
<1>4. S!Rest \in Requests /\ S!Rest.do = "none" /\ S!Rest.at = ""
  BY DEF S!Rest, Requests, Asked, Awaits
<1>5. browser \in [Browsers -> Shown] /\ \A b \in Browsers : Fits(b)
  BY <1>1, <1>4 DEF Shown, Pages, Fits, Steps, OnItsPage, SetBefore, Carries
<1>6. 1 \in S!Passwords /\ made \in 0 .. MaxPasswords
  BY <1>1, FirstPassword DEF S!Passwords
<1>7. lineage \in Seq(Nat \ {0}) /\ gave \in [S!Passwords -> Nat]
  <2>1. <<>> \in Seq(Nat \ {0}) /\ <<1>> \in Seq(Nat \ {0})
    OBVIOUS
  <2> QED BY <1>1, <2>1
<1>8. Chosen
  BY <1>1, <1>6 DEF Chosen, S!Lineage
<1>9. factor \in [secret : Nat, on : BOOLEAN, verified : Nat] /\ secrets \in Nat
  BY <1>1
<1>11. clash \in BOOLEAN
  BY DEF S!Init
<1>10. InForce
  <2>1. factor.on <=> secrets = 1
    BY <1>1
  <2>2. factor.secret = secrets /\ factor.verified = secrets
    BY <1>1
  <2>3. secrets = 1 => lineage = <<1>>
    BY <1>1
  <2>4. <<1>> # <<>>
    OBVIOUS
  <2> QED BY <1>1, <2>1, <2>2, <2>3, <2>4 DEF InForce
<1> QED BY <1>1, <1>3, <1>5, <1>6, <1>7, <1>8, <1>9, <1>10, <1>11 DEF WebInv, WebTyped

\* A step of one browser, and what it leaves to the others.
Own(b) == /\ browser' \in [Browsers -> Shown] /\ Fits(b)'
          /\ \A c \in Browsers \ {b} : browser'[c] = browser[c]

Grown == /\ lineage # <<>> => lineage' # <<>>
         /\ made' \in Nat /\ made <= made' /\ \A p \in 1 .. made : gave'[p] = gave[p]
         /\ factor.on => factor'.on
         /\ factor'.secret = factor.secret \/ factor.secret = 0 \/ clash'
         /\ clash => clash'

LEMMA OthersFit ==
  ASSUME WebInv, Grown, NEW c \in Browsers, browser'[c] = browser[c]
  PROVE  Fits(c)'
<1>1. Fits(c)
  BY DEF WebInv
<1>2. OnItsPage(c)' /\ SetBefore(c)'
  BY <1>1 DEF Fits, OnItsPage, SetBefore, Grown
<1>3. /\ browser[c].request.new \in Nat /\ browser[c].request.given \in Nat /\ made \in Nat
      /\ browser[c].request.off \in BOOLEAN
  BY DEF WebInv, WebTyped, Shown, Requests
<1>4. Carries(c)'
  <2> DEFINE r == browser[c].request
  <2>1. /\ browser'[c].page = browser[c].page /\ browser'[c].request = r
        /\ \A p \in 1 .. made : p \in 1 .. made' /\ gave'[p] = gave[p]
        /\ factor.on => factor'.on
        /\ lineage # <<>> => lineage' # <<>>
        /\ (r.new = factor.secret /\ r.new # 0) \/ clash => (r.new = factor'.secret /\ r.new # 0) \/ clash'
    BY <1>3 DEF Grown
  <2>2. Carries(c)
    BY <1>1 DEF Fits
  <2> HIDE DEF r
  <2>3. /\ browser[c].page = "totp" \/ r.do \in {"login", "disable"} => r.given # 0
        /\ r.do = "login" /\ ~r.off => factor.on
        /\ r.do = "setup" => /\ r.new \in 1 .. made /\ gave[r.new] = 0
                             /\ r.at = "store" => r.off \/ lineage # <<>>
        /\ r.at = "issue" => r.do = "totp" \/ r.off
        /\ r.do = "change" => r.new \in 1 .. made /\ gave[r.new] = r.given
        /\ r.at = "on" => (r.new = factor.secret /\ r.new # 0) \/ clash
    BY <2>2 DEF Carries, r
  <2>4. /\ browser'[c].page = "totp" \/ r.do \in {"login", "disable"} => r.given # 0
        /\ r.do = "login" /\ ~r.off => factor'.on
        /\ r.do = "setup" => /\ r.new \in 1 .. made' /\ gave'[r.new] = 0
                             /\ r.at = "store" => r.off \/ lineage' # <<>>
        /\ r.at = "issue" => r.do = "totp" \/ r.off
        /\ r.do = "change" => r.new \in 1 .. made' /\ gave'[r.new] = r.given
        /\ r.at = "on" => (r.new = factor'.secret /\ r.new # 0) \/ clash'
    BY <2>1, <2>3
  <2> QED BY <2>1, <2>4 DEF Carries
<1> QED BY <1>1, <1>2, <1>4 DEF Fits

\* Most steps of a browser leave the passwords and the second factor alone.
LEMMA Plain ==
  ASSUME WebInv, NEW b \in Browsers, Own(b), UNCHANGED <<v1, v2, v3, v4, v5, v6, v7>>,
         row' \in [S!Sessions -> Rows], issued' \in Nat, era' \in Nat, S!Ended', S!Coded'
  PROVE  WebInv'
<1>1. Grown
  BY DEF Grown, WebInv, WebTyped
<1>2. \A c \in Browsers : Fits(c)'
  BY <1>1, OthersFit DEF Own
<1>3. WebTyped'
  BY DEF WebInv, WebTyped, Own
<1>4. Chosen' /\ InForce'
  BY DEF WebInv, Chosen, S!Lineage, InForce
<1> QED BY <1>2, <1>3, <1>4 DEF WebInv

LEMMA Still ==
  ASSUME WebInv, NEW b \in Browsers, Own(b), UNCHANGED <<v1, v2, v3, v4, v5, v6, v7, v8, v9, v10>>
  PROVE  WebInv'
<1>1. /\ row' \in [S!Sessions -> Rows] /\ issued' \in Nat /\ era' \in Nat /\ S!Ended' /\ S!Coded'
  BY DEF WebInv, WebTyped, S!Ended, S!Coded
<1> QED BY <1>1, Plain

\* A request goes on.
Turns(b, a) == /\ browser' \in [Browsers -> Shown]
               /\ browser'[b].page = browser[b].page /\ browser'[b].cookie = browser[b].cookie
               /\ browser'[b].request.do = browser[b].request.do /\ browser'[b].request.at = a
               /\ browser'[b].request.given = browser[b].request.given
               /\ browser'[b].request.new = browser[b].request.new
               /\ browser'[b].request.off = browser[b].request.off
               /\ \A c \in Browsers \ {b} : browser'[c] = browser[c]

LEMMA GoingOn ==
  ASSUME WebInv, NEW b \in Browsers, NEW a \in Awaits, S!Goto(b, a)
  PROVE  Turns(b, a)
BY DEF WebInv, WebTyped, Shown, Requests, S!Goto, S!Moved, Turns

\* A request ends, on the page that was shown or on another.
Closes(b, page, cookie) ==
  /\ browser' \in [Browsers -> Shown]
  /\ browser'[b].request.do = "none" /\ browser'[b].request.at = ""
  /\ browser'[b].page = page /\ browser'[b].cookie = cookie
  /\ page = "totp" => browser'[b].request.given = browser[b].request.given
  /\ \A c \in Browsers \ {b} : browser'[c] = browser[c]

LEMMA Answers ==
  ASSUME WebInv, NEW b \in Browsers, NEW page \in Pages, NEW cookie \in Nat, S!Answer(b, page, cookie)
  PROVE  \/ Closes(b, page, cookie)
         \/ Closes(b, browser[b].page, browser[b].cookie)
<1>1. browser \in [Browsers -> Shown]
  BY DEF WebInv, WebTyped
<1>2. \A p \in Pages : /\ S!Done(b, p) \in Requests /\ S!Done(b, p).do = "none" /\ S!Done(b, p).at = ""
                       /\ p = "totp" => S!Done(b, p).given = browser[b].request.given
  BY <1>1 DEF S!Done, S!Rest, Shown, Requests, S!Request, Asked, Awaits
<1>3. CASE browser' = [browser EXCEPT ![b].request = S!Done(b, page), ![b].page = page, ![b].cookie = cookie]
  BY <1>1, <1>2, <1>3 DEF Closes, Shown
<1>4. CASE browser' = [browser EXCEPT ![b].request = S!Done(b, browser[b].page)]
  <2>1. browser[b].page \in Pages
    BY <1>1 DEF Shown
  <2> QED BY <1>1, <1>2, <1>4, <2>1 DEF Closes, Shown
<1> QED BY <1>3, <1>4 DEF S!Answer

LEMMA ClosedFits ==
  ASSUME WebInv, NEW b \in Browsers, NEW page \in Pages, NEW cookie \in Nat,
         \/ Closes(b, page, cookie)
         \/ Closes(b, browser[b].page, browser[b].cookie),
         page = "totp" => browser[b].request.given # 0,
         page \in {"totp", "in"} \/ cookie # 0 => lineage' # <<>>,
         lineage # <<>> => lineage' # <<>>
  PROVE  Own(b)
<1>1. Fits(b)
  BY DEF WebInv
<1>2. CASE Closes(b, page, cookie)
  BY <1>2 DEF Own, Closes, Fits, Steps, OnItsPage, SetBefore, Carries
<1>3. CASE Closes(b, browser[b].page, browser[b].cookie)
  BY <1>1, <1>3 DEF Own, Closes, Fits, Steps, OnItsPage, SetBefore, Carries
<1> QED BY <1>2, <1>3

LEMMA ToldFits ==
  ASSUME WebInv, NEW b \in Browsers, S!Told(b), lineage # <<>> => lineage' # <<>>
  PROVE  Own(b)
<1>1. browser[b].page \in Pages /\ browser[b].cookie \in Nat
  BY DEF WebInv, WebTyped, Shown
<1>2. Fits(b)
  BY DEF WebInv
<1> QED BY <1>1, <1>2, Answers, ClosedFits DEF S!Told, Fits, SetBefore, Carries

\* The user acts on a page: the request is what the page sends, and the factor is what it is now.
Sends(b, p, r) ==
  /\ browser' \in [Browsers -> Shown]
  /\ browser[b].page = p /\ browser[b].request.do = "none"
  /\ browser'[b].page = p /\ browser'[b].cookie = browser[b].cookie
  /\ browser'[b].request.do = r.do /\ browser'[b].request.at = r.at
  /\ browser'[b].request.given = r.given /\ browser'[b].request.new = r.new
  /\ browser'[b].request.off = ~factor.on
  /\ \A c \in Browsers \ {b} : browser'[c] = browser[c]
  /\ UNCHANGED <<v1, v2, v5, v6, v7, v8, v9, v10>>

LEMMA Sending ==
  ASSUME WebInv, NEW b \in Browsers, NEW p, NEW r \in Requests, S!Act(b, p, r)
  PROVE  Sends(b, p, r)
<1>1. browser \in [Browsers -> Shown] /\ factor.on \in BOOLEAN
  BY DEF WebInv, WebTyped
<1>2. /\ browser' = [browser EXCEPT ![b].request = [r EXCEPT !.off = ~factor.on]]
      /\ browser[b].page = p /\ browser[b].request.do = "none"
  BY DEF S!Act, S!Request
<1>3. [r EXCEPT !.off = ~factor.on] \in Requests
  BY <1>1 DEF Requests
<1>4. browser' \in [Browsers -> Shown] /\ \A c \in Browsers \ {b} : browser'[c] = browser[c]
  BY <1>1, <1>2, <1>3 DEF Shown
<1>5. /\ browser'[b].request = [r EXCEPT !.off = ~factor.on]
      /\ browser'[b].page = browser[b].page /\ browser'[b].cookie = browser[b].cookie
  BY <1>1, <1>2 DEF Shown
<1>6. UNCHANGED <<v1, v2, v5, v6, v7, v8, v9, v10>>
  BY DEF S!Act, S!second, S!store
<1>7. browser'[b].request.off = ~factor.on
  BY <1>1, <1>5 DEF Requests
<1> QED BY <1>2, <1>4, <1>5, <1>6, <1>7 DEF Sends, Requests

LEMMA Kinds ==
  ASSUME WebInv
  PROVE  /\ made \in Nat /\ made <= MaxPasswords /\ secrets \in Nat /\ S!Rest \in Requests
         /\ \A b \in Browsers :
              /\ browser[b] \in Shown /\ browser[b].request \in Requests
              /\ browser[b].qr \in Nat /\ browser[b].cookie \in Nat /\ browser[b].page \in Pages
              /\ browser[b].request.new \in Nat /\ browser[b].request.given \in Nat
              /\ browser[b].request.off \in BOOLEAN
              /\ Fits(b)
<1>1. S!Rest \in Requests
  BY DEF S!Rest, Requests, Asked, Awaits
<1>2. made \in Nat /\ made <= MaxPasswords /\ secrets \in Nat
  BY FirstPassword DEF WebInv, WebTyped
<1>3. ASSUME NEW b \in Browsers
      PROVE  /\ browser[b] \in Shown /\ browser[b].request \in Requests
             /\ browser[b].qr \in Nat /\ browser[b].cookie \in Nat /\ browser[b].page \in Pages
  BY DEF WebInv, WebTyped, Shown
<1>4. ASSUME NEW b \in Browsers
      PROVE  /\ browser[b].request.new \in Nat /\ browser[b].request.given \in Nat
             /\ browser[b].request.off \in BOOLEAN
  BY <1>3 DEF Requests
<1> QED BY <1>1, <1>2, <1>3, <1>4 DEF WebInv

\* What the pages send that concerns no new password.
LEMMA AsksKeep ==
  ASSUME WebInv, NEW b \in Browsers,
         \/ S!AskLogin(b) \/ S!AskCode(b) \/ S!Logout(b) \/ S!AskRevoke(b) \/ S!AskSecret(b)
         \/ S!AskActivate(b) \/ S!AskDisable(b)
  PROVE  WebInv'
<1>1. /\ browser[b].request \in Requests /\ browser[b].qr \in Nat /\ made \in Nat /\ secrets \in Nat
      /\ S!Rest \in Requests /\ Fits(b)
  BY Kinds
<1>2. UNCHANGED <<v3, v4>>
  BY DEF S!AskLogin, S!AskCode, S!Logout, S!AskRevoke, S!AskSecret, S!AskActivate, S!AskDisable
<1>3. ASSUME NEW r \in Requests, NEW p \in Pages, S!Act(b, p, r),
             <<r.do, r.at>> \in Steps, r.do \notin {"setup", "change", "none", "load"},
             r.at \notin {"factor", "issue", "on"},
             r.do = "login" => p = "password" /\ r.given # 0,
             r.do = "disable" => r.given # 0,
             r.do = "totp" <=> p = "totp",
             r.do = "totp" => r.given = browser[b].request.given,
             r.do \notin {"login", "totp"} => p = "in"
      PROVE  WebInv'
  <2>1. Sends(b, p, r)
    BY <1>3, Sending
  <2>2. Own(b)
    BY <1>1, <1>3, <2>1 DEF Own, Sends, Fits, OnItsPage, SetBefore, Carries, Asked, Requests
  <2> QED BY <1>2, <2>1, <2>2, Still DEF Sends
<1>4. CASE S!AskLogin(b)
  <2>1. PICK q \in 1 .. made : S!Act(b, "password", [S!Rest EXCEPT !.do = "login", !.at = "check", !.given = q])
    BY <1>4 DEF S!AskLogin
  <2>4. q \in Nat /\ q # 0
    BY <1>1
  <2> DEFINE r == [S!Rest EXCEPT !.do = "login", !.at = "check", !.given = q]
  <2>2. r \in Requests /\ r.do = "login" /\ r.at = "check" /\ r.given = q
    BY <1>1, <2>4 DEF Requests, S!Rest, Asked, Awaits
  <2>3. S!Act(b, "password", r)
    BY <2>1
  <2> HIDE DEF r
  <2> QED BY <1>3, <2>2, <2>3, <2>4 DEF Steps, Pages
<1>5. CASE S!AskCode(b)
  <2>1. PICK c \in 1 .. secrets : S!Act(b, "totp", [S!Request(b) EXCEPT !.do = "totp", !.at = "check", !.new = c])
    BY <1>5 DEF S!AskCode
  <2>4. c \in Nat
    BY <1>1
  <2> DEFINE r == [S!Request(b) EXCEPT !.do = "totp", !.at = "check", !.new = c]
  <2>2. r \in Requests /\ r.do = "totp" /\ r.at = "check" /\ r.given = browser[b].request.given
    BY <1>1, <2>4 DEF Requests, S!Request, Asked, Awaits
  <2>3. S!Act(b, "totp", r)
    BY <2>1
  <2> HIDE DEF r
  <2> QED BY <1>3, <2>2, <2>3 DEF Steps, Pages
<1>6. CASE S!Logout(b)
  <2> DEFINE r == [S!Rest EXCEPT !.do = "logout", !.at = "remove"]
  <2>1. r \in Requests /\ r.do = "logout" /\ r.at = "remove"
    BY <1>1 DEF Requests, S!Rest, Asked, Awaits
  <2>2. S!Act(b, "in", r)
    BY <1>6 DEF S!Logout
  <2> HIDE DEF r
  <2> QED BY <1>3, <2>1, <2>2 DEF Steps, Pages
<1>7. CASE S!AskRevoke(b)
  <2> DEFINE r == [S!Rest EXCEPT !.do = "revoke", !.at = "auth"]
  <2>1. r \in Requests /\ r.do = "revoke" /\ r.at = "auth"
    BY <1>1 DEF Requests, S!Rest, Asked, Awaits
  <2>2. S!Act(b, "in", r)
    BY <1>7 DEF S!AskRevoke
  <2> HIDE DEF r
  <2> QED BY <1>3, <2>1, <2>2 DEF Steps, Pages
<1>8. CASE S!AskSecret(b)
  <2> DEFINE r == [S!Rest EXCEPT !.do = "qr", !.at = "auth"]
  <2>1. r \in Requests /\ r.do = "qr" /\ r.at = "auth"
    BY <1>1 DEF Requests, S!Rest, Asked, Awaits
  <2>2. S!Act(b, "in", r)
    BY <1>8 DEF S!AskSecret
  <2> HIDE DEF r
  <2> QED BY <1>3, <2>1, <2>2 DEF Steps, Pages
<1>9. CASE S!AskActivate(b)
  <2> DEFINE r == [S!Rest EXCEPT !.do = "activate", !.at = "auth", !.new = browser[b].qr]
  <2>1. r \in Requests /\ r.do = "activate" /\ r.at = "auth"
    BY <1>1 DEF Requests, S!Rest, Asked, Awaits
  <2>2. S!Act(b, "in", r)
    BY <1>9 DEF S!AskActivate
  <2> HIDE DEF r
  <2> QED BY <1>3, <2>1, <2>2 DEF Steps, Pages
<1>10. CASE S!AskDisable(b)
  <2>1. PICK q \in 1 .. made : S!Act(b, "in", [S!Rest EXCEPT !.do = "disable", !.at = "auth", !.given = q])
    BY <1>10 DEF S!AskDisable
  <2>4. q \in Nat /\ q # 0
    BY <1>1
  <2> DEFINE r == [S!Rest EXCEPT !.do = "disable", !.at = "auth", !.given = q]
  <2>2. r \in Requests /\ r.do = "disable" /\ r.at = "auth" /\ r.given = q
    BY <1>1, <2>4 DEF Requests, S!Rest, Asked, Awaits
  <2>3. S!Act(b, "in", r)
    BY <2>1
  <2> HIDE DEF r
  <2> QED BY <1>3, <2>2, <2>3, <2>4 DEF Steps, Pages
<1> QED BY <1>4, <1>5, <1>6, <1>7, <1>8, <1>9, <1>10

\* A password is thought of: those thought of before are what they were.
LEMMA Thinking ==
  ASSUME WebInv, NEW g \in Nat, S!Think(g), UNCHANGED <<v1, v2, v5, v6, v7, v8, v9, v10>>
  PROVE  /\ Grown /\ Chosen' /\ InForce' /\ S!Ended' /\ S!Coded'
         /\ browser' \in [Browsers -> Shown] => WebTyped'
         /\ made + 1 \in 1 .. made' /\ gave'[made + 1] = g
<1>1. /\ made < MaxPasswords /\ made' = made + 1 /\ gave' = [gave EXCEPT ![made + 1] = g]
      /\ made \in Nat /\ gave \in [S!Passwords -> Nat]
  BY Kinds DEF S!Think, WebInv, WebTyped
<1>2. made + 1 \in S!Passwords /\ 1 .. made \subseteq S!Passwords
  BY <1>1, FirstPassword DEF S!Passwords
<1>3. gave' \in [S!Passwords -> Nat] /\ gave'[made + 1] = g /\ made' \in 0 .. MaxPasswords
  BY <1>1, <1>2, FirstPassword
<1>4. \A p \in 1 .. made : gave'[p] = gave[p] /\ p \in 1 .. made'
  BY <1>1, <1>2
<1>5. Grown
  BY <1>1, <1>4 DEF Grown
<1>6. Chosen'
  <2>1. Chosen /\ lineage \in Seq(Nat \ {0})
    BY DEF WebInv, WebTyped
  <2>2. \A i \in 1 .. Len(lineage) : gave'[lineage[i]] = gave[lineage[i]] /\ lineage[i] \in 1 .. made'
    BY <1>4, <2>1 DEF Chosen
  <2>3. lineage # <<>> => 1 \in 1 .. Len(lineage)
    BY <2>1
  <2>4. \A i \in 1 .. Len(lineage) - 1 : i + 1 \in 1 .. Len(lineage)
    BY <2>1
  <2>5. S!Lineage'
    BY <2>1, <2>2, <2>3, <2>4 DEF Chosen, S!Lineage
  <2> QED BY <2>2, <2>5 DEF Chosen
<1>7. InForce' /\ S!Ended' /\ S!Coded'
  BY DEF WebInv, InForce, S!Ended, S!Coded
<1>8. browser' \in [Browsers -> Shown] => WebTyped'
  BY <1>3 DEF WebInv, WebTyped
<1>9. made + 1 \in 1 .. made'
  BY <1>1
<1> QED BY <1>3, <1>5, <1>6, <1>7, <1>8, <1>9

LEMMA ChoicesKeep ==
  ASSUME WebInv, NEW b \in Browsers, S!AskSetup(b) \/ S!AskChange(b)
  PROVE  WebInv'
<1>1. made \in Nat /\ S!Rest \in Requests /\ Fits(b)
  BY Kinds
<1>2. ASSUME NEW r \in Requests, NEW p \in {"setup", "in"}, S!Act(b, p, r), S!Think(r.given),
             r.new = made + 1,
             \/ r.do = "setup" /\ r.at = "store" /\ p = "setup" /\ r.given = 0
             \/ r.do = "change" /\ r.at = "auth" /\ p = "in"
      PROVE  WebInv'
  <2>1. Sends(b, p, r) /\ r.given \in Nat
    BY <1>2, Sending DEF Requests
  <2>2. UNCHANGED <<v1, v2, v5, v6, v7, v8, v9, v10>> /\ browser' \in [Browsers -> Shown]
    BY <2>1 DEF Sends
  <2>3. /\ Grown /\ Chosen' /\ InForce' /\ S!Ended' /\ S!Coded' /\ WebTyped'
        /\ made + 1 \in 1 .. made' /\ gave'[made + 1] = r.given
    BY <1>2, <2>1, <2>2, Thinking
  <2>4. /\ browser'[b].page = p /\ browser'[b].cookie = browser[b].cookie /\ browser[b].page = p
        /\ browser'[b].request.do = r.do /\ browser'[b].request.at = r.at
        /\ browser'[b].request.given = r.given /\ browser'[b].request.new = r.new
        /\ browser'[b].request.off = ~factor.on
        /\ \A c \in Browsers \ {b} : browser'[c] = browser[c]
    BY <2>1 DEF Sends
  <2>5. <<browser'[b].request.do, browser'[b].request.at>> \in Steps /\ OnItsPage(b)' /\ SetBefore(b)'
    BY <1>1, <1>2, <2>2, <2>4 DEF Fits, Steps, OnItsPage, SetBefore
  <2>6. ~factor.on \/ lineage # <<>>
    BY DEF WebInv, InForce
  <2>7. Carries(b)'
    BY <1>2, <2>2, <2>3, <2>4, <2>6 DEF Carries
  <2>8. \A c \in Browsers : Fits(c)'
    BY <2>3, <2>4, <2>5, <2>7, OthersFit DEF Fits
  <2> QED BY <2>3, <2>8 DEF WebInv
<1>3. PICK n \in Nat : n = made + 1
  BY <1>1
<1>4. CASE S!AskSetup(b)
  <2> DEFINE r == [S!Rest EXCEPT !.do = "setup", !.at = "store", !.new = n]
  <2>1. r \in Requests /\ r.do = "setup" /\ r.at = "store" /\ r.new = n /\ r.given = 0
    BY <1>1 DEF Requests, S!Rest, Asked, Awaits
  <2>2. S!Act(b, "setup", r) /\ S!Think(0)
    BY <1>4, <1>3 DEF S!AskSetup
  <2> HIDE DEF r
  <2> QED BY <1>2, <1>3, <2>1, <2>2
<1>5. CASE S!AskChange(b)
  <2>1. PICK q \in 1 .. made :
          /\ S!Think(q)
          /\ S!Act(b, "in", [S!Rest EXCEPT !.do = "change", !.at = "auth", !.given = q, !.new = made + 1])
    BY <1>5 DEF S!AskChange
  <2> DEFINE r == [S!Rest EXCEPT !.do = "change", !.at = "auth", !.given = q, !.new = n]
  <2>2. q \in Nat
    BY <1>1
  <2>3. r \in Requests /\ r.do = "change" /\ r.at = "auth" /\ r.new = n /\ r.given = q
    BY <1>1, <2>2 DEF Requests, S!Rest, Asked, Awaits
  <2>4. S!Act(b, "in", r)
    BY <1>3, <2>1
  <2> HIDE DEF r
  <2> QED BY <1>2, <1>3, <2>1, <2>3, <2>4
<1> QED BY <1>4, <1>5

-----------------------------------------------------------------------------
(* Requests that read, and those that end.                                 *)

LEMMA LoadKeeps ==
  ASSUME WebInv, NEW b \in Browsers, S!Load(b) \/ S!Status(b)
  PROVE  WebInv'
<1>1. UNCHANGED <<v1, v2, v3, v4, v5, v6, v7, v8, v9, v10>>
  BY DEF S!Load, S!Status, S!credentials, S!second, S!store
<1>2. Fits(b) /\ S!Rest \in Requests /\ S!Rest.do = "none" /\ S!Rest.at = ""
  BY Kinds DEF S!Rest
<1>3. browser \in [Browsers -> Shown]
  BY DEF WebInv, WebTyped
<1>4. CASE S!Load(b)
  <2>1. /\ browser[b].page = "closed"
        /\ browser' = [browser EXCEPT ![b].request = [S!Rest EXCEPT !.do = "load", !.at = "status"]]
    BY <1>4 DEF S!Load
  <2> DEFINE r == [S!Rest EXCEPT !.do = "load", !.at = "status"]
  <2>2. r \in Requests /\ r.do = "load" /\ r.at = "status"
    BY <1>2 DEF S!Rest, Requests, Asked, Awaits
  <2>3. browser' = [browser EXCEPT ![b].request = r]
    BY <2>1
  <2> HIDE DEF r
  <2>4. /\ browser' \in [Browsers -> Shown] /\ browser'[b].request = r
        /\ browser'[b].page = "closed" /\ browser'[b].cookie = browser[b].cookie
        /\ \A c \in Browsers \ {b} : browser'[c] = browser[c]
    BY <1>3, <2>1, <2>2, <2>3 DEF Shown
  <2>5. Own(b)
    BY <1>1, <1>2, <2>1, <2>2, <2>4 DEF Own, Fits, Steps, OnItsPage, SetBefore, Carries
  <2> QED BY <1>1, <2>5, Still
<1>5. CASE S!Status(b)
  <2>1. browser[b].request.do = "load" /\ browser[b].page = "closed"
    BY <1>2, <1>5 DEF S!Status, S!At, S!Request, Fits, OnItsPage
  <2>2. CASE S!Goto(b, "verify")
    <3>1. "verify" \in Awaits
      BY DEF Awaits
    <3>2. Turns(b, "verify")
      BY <2>2, <3>1, GoingOn
    <3>3. Own(b)
      BY <1>1, <1>2, <2>1, <3>2 DEF Own, Turns, Fits, Steps, OnItsPage, SetBefore, Carries
    <3> QED BY <1>1, <3>3, Still
  <2>3. CASE browser' = [browser EXCEPT ![b].request = S!Rest, ![b].page = "setup"]
    <3>1. Closes(b, "setup", browser[b].cookie)
      BY <1>2, <1>3, <2>3 DEF Closes, Shown, Pages
    <3>2. Own(b)
      BY <1>1, <1>2, <3>1 DEF Own, Closes, Fits, Steps, OnItsPage, SetBefore, Carries
    <3> QED BY <1>1, <3>2, Still
  <2> QED BY <1>5, <2>2, <2>3 DEF S!Status, S!Goto
<1> QED BY <1>4, <1>5

\* Rows only wear out.
Worn == /\ row' \in [S!Sessions -> Rows]
        /\ \A s \in S!Sessions :
             /\ row'[s].era = row[s].era /\ row'[s].coded = row[s].coded /\ row'[s].off = row[s].off
             /\ row'[s].is \in {"live", "lapsed"} => row[s].is \in {"live", "lapsed"}
             /\ row'[s].is # "none" => row[s].is # "none"

LEMMA WornRows ==
  ASSUME WebInv, Worn, UNCHANGED <<v9, v10>>
  PROVE  /\ row' \in [S!Sessions -> Rows] /\ issued' \in Nat /\ era' \in Nat
         /\ S!Ended' /\ S!Coded'
BY DEF WebInv, WebTyped, Worn, S!Ended, S!Coded

LEMMA Wears ==
  ASSUME WebInv, NEW s, NEW k \in {"lapsed", "gone"},
         \/ row' = row
         \/ row' = [row EXCEPT ![s].is = k] /\ row[s].is # "none" /\ (k = "lapsed" => row[s].is = "live")
  PROVE  Worn
<1>1. row \in [S!Sessions -> Rows]
  BY DEF WebInv, WebTyped
<1>2. CASE row' = row
  BY <1>1, <1>2 DEF Worn
<1>3. CASE row' = [row EXCEPT ![s].is = k] /\ row[s].is # "none" /\ (k = "lapsed" => row[s].is = "live")
  BY <1>1, <1>3 DEF Worn, Rows
<1> QED BY <1>2, <1>3

LEMMA RowsAlone ==
  ASSUME WebInv, NEW s \in S!Sessions, S!Lapse(s) \/ S!Sweep(s)
  PROVE  WebInv'
<1>1. UNCHANGED <<v1, v2, v3, v4, v5, v6, v7, v9, v10, v11>>
  BY DEF S!Lapse, S!Sweep, S!credentials, S!second
<1>2. Worn
  BY Wears DEF S!Lapse, S!Sweep
<1>3. /\ row' \in [S!Sessions -> Rows] /\ issued' \in Nat /\ era' \in Nat /\ S!Ended' /\ S!Coded'
  BY <1>1, <1>2, WornRows
<1>4. WebTyped' /\ Chosen' /\ InForce'
  BY <1>1, <1>3 DEF WebInv, WebTyped, Chosen, S!Lineage, InForce
<1>5. ASSUME NEW b \in Browsers PROVE Fits(b)'
  BY <1>1 DEF WebInv, Fits, OnItsPage, SetBefore, Carries
<1> QED BY <1>3, <1>4, <1>5 DEF WebInv

\* A request that asks whether the session holds.
LEMMA LookingKeeps ==
  ASSUME WebInv, NEW b \in Browsers, S!Verify(b) \/ S!Authorise(b) \/ S!LoggedOut(b)
  PROVE  WebInv'
<1>1. UNCHANGED <<v1, v2, v3, v4, v5, v6, v7, v9, v10>>
  BY DEF S!Verify, S!Authorise, S!LoggedOut, S!credentials, S!second
<1>2. /\ Fits(b) /\ S!Rest \in Requests /\ S!Rest.do = "none" /\ S!Rest.at = ""
      /\ browser[b].cookie \in Nat /\ browser[b].page \in Pages
  BY Kinds DEF S!Rest
<1>3. browser \in [Browsers -> Shown]
  BY DEF WebInv, WebTyped
<1>4. Worn
  <2>1. CASE S!Verify(b) \/ S!Authorise(b)
    <3> DEFINE s == browser[b].cookie
    <3>1. \/ row' = row
          \/ row' = [row EXCEPT ![s].is = "gone"] /\ row[s].is = "lapsed"
      BY <2>1 DEF S!Verify, S!Authorise, S!Found
    <3> HIDE DEF s
    <3> QED BY <3>1, Wears
  <2>2. CASE S!LoggedOut(b)
    <3> DEFINE s == browser[b].cookie
    <3>1. \/ row' = row
          \/ row' = [row EXCEPT ![s].is = "gone"] /\ row[s].is \in {"live", "lapsed"}
      BY <2>2 DEF S!LoggedOut
    <3> HIDE DEF s
    <3> QED BY <3>1, Wears
  <2> QED BY <2>1, <2>2
<1>5. /\ row' \in [S!Sessions -> Rows] /\ issued' \in Nat /\ era' \in Nat /\ S!Ended' /\ S!Coded'
  BY <1>1, <1>4, WornRows
<1>6. Own(b)
  <2>1. ASSUME NEW p \in Pages, NEW c \in Nat,
               \/ browser' = [browser EXCEPT ![b].request = S!Rest, ![b].page = p]
                  /\ c = browser[b].cookie
               \/ browser' = [browser EXCEPT ![b].request = S!Rest, ![b].page = p, ![b].cookie = c],
               p # "totp", p = "in" \/ c # 0 => lineage # <<>>
        PROVE  Own(b)
    <3>1. p # "totp"
      BY <2>1
    <3>2. CASE browser' = [browser EXCEPT ![b].request = S!Rest, ![b].page = p] /\ c = browser[b].cookie
      <4>1. Closes(b, p, c)
        BY <1>2, <1>3, <3>1, <3>2 DEF Closes, Shown
      <4> QED BY <1>1, <2>1, <4>1, ClosedFits
    <3>3. CASE browser' = [browser EXCEPT ![b].request = S!Rest, ![b].page = p, ![b].cookie = c]
      <4>1. Closes(b, p, c)
        BY <1>2, <1>3, <3>1, <3>3 DEF Closes, Shown
      <4> QED BY <1>1, <2>1, <4>1, ClosedFits
    <3> QED BY <2>1, <3>2, <3>3
  <2>2. CASE S!Verify(b)
    <3>1. \/ S!Live(browser[b].cookie)
             /\ browser' = [browser EXCEPT ![b].request = S!Rest, ![b].page = "in"]
          \/ browser' = [browser EXCEPT ![b].request = S!Rest, ![b].page = "password"]
      BY <2>2 DEF S!Verify
    <3>2. browser[b].cookie # 0 => lineage # <<>>
      BY <1>2 DEF Fits, SetBefore
    <3> QED BY <1>2, <2>1, <3>1, <3>2 DEF S!Live, Pages
  <2>3. CASE S!LoggedOut(b)
    <3>1. \/ browser' = [browser EXCEPT ![b].request = S!Rest, ![b].page = "password", ![b].cookie = 0]
          \/ browser' = [browser EXCEPT ![b].request = S!Rest, ![b].page = "password"]
      BY <2>3 DEF S!LoggedOut
    <3>2. browser[b].cookie # 0 => lineage # <<>>
      BY <1>2 DEF Fits, SetBefore
    <3> QED BY <1>2, <2>1, <3>1, <3>2 DEF Pages
  <2>4. CASE S!Authorise(b) /\ S!Told(b)
    BY <1>1, <2>4, ToldFits
  <2>5. CASE S!Authorise(b) /\ S!Goto(b, "begin")
    <3>1. browser[b].request.at = "auth" /\ "begin" \in Awaits
      BY <2>5 DEF S!Authorise, S!Request, Awaits
    <3>2. Turns(b, "begin")
      BY <2>5, <3>1, GoingOn
    <3> QED BY <1>1, <1>2, <3>1, <3>2 DEF Own, Turns, Fits, Steps, OnItsPage, SetBefore, Carries
  <2> QED BY <2>2, <2>3, <2>4, <2>5 DEF S!Authorise
<1> QED BY <1>1, <1>5, <1>6, Plain

-----------------------------------------------------------------------------
(* Credentials are checked.                                                *)

LEMMA PasswordIs ==
  ASSUME WebInv
  PROVE  (S!Password = 0 <=> lineage = <<>>) /\ (lineage # <<>> => S!Password = lineage[Len(lineage)])
<1>1. lineage \in Seq(Nat \ {0})
  BY DEF WebInv, WebTyped
<1>2. lineage # <<>> => lineage[Len(lineage)] \in Nat \ {0}
  BY <1>1
<1> QED BY <1>1, <1>2 DEF S!Password

LEMMA ChecksKeep ==
  ASSUME WebInv, NEW b \in Browsers,
         \/ S!CheckPassword(b) \/ S!AskFactor(b) \/ S!CheckCode(b) \/ S!BeginCode(b) \/ S!BeginDisable(b)
  PROVE  WebInv'
<1>1. UNCHANGED <<v1, v2, v3, v4, v5, v6, v7, v8, v9, v10>>
  BY DEF S!CheckPassword, S!AskFactor, S!CheckCode, S!BeginCode, S!BeginDisable, S!credentials, S!second,
         S!store
<1>2. Fits(b) /\ browser[b].cookie \in Nat /\ browser[b].page \in Pages
  BY Kinds
<1>3. CASE S!Told(b)
  BY <1>1, <1>3, ToldFits, Still
<1>4. CASE S!CheckPassword(b) /\ ~S!Told(b)
  <2>1. /\ browser[b].request.at = "check" /\ browser[b].request.given = S!Password
        /\ S!Goto(b, CASE browser[b].request.do = "login" -> "factor"
                       [] browser[b].request.do = "totp"  -> "code"
                       [] OTHER                           -> "off")
    BY <1>4 DEF S!CheckPassword, S!Request
  <2>2. browser[b].request.do \in {"login", "totp", "disable"}
    BY <1>2, <2>1 DEF Fits, Steps
  <2>3. lineage # <<>>
    BY <1>2, <2>1, <2>2, PasswordIs DEF Fits, Carries, OnItsPage
  <2>4. ASSUME NEW a \in {"factor", "code", "off"}, S!Goto(b, a),
               <<browser[b].request.do, a>> \in Steps
        PROVE  Own(b)
    <3>1. Turns(b, a)
      BY <2>4, GoingOn DEF Awaits
    <3> QED BY <1>1, <1>2, <2>3, <2>4, <3>1 DEF Own, Turns, Fits, OnItsPage, SetBefore, Carries
  <2>5. CASE browser[b].request.do = "login"
    <3>1. S!Goto(b, "factor") /\ <<browser[b].request.do, "factor">> \in Steps
      BY <2>1, <2>5 DEF Steps
    <3> QED BY <1>1, <2>4, <3>1, Still
  <2>6. CASE browser[b].request.do = "totp"
    <3>1. S!Goto(b, "code") /\ <<browser[b].request.do, "code">> \in Steps
      BY <2>1, <2>6 DEF Steps
    <3> QED BY <1>1, <2>4, <3>1, Still
  <2>7. CASE browser[b].request.do = "disable"
    <3>1. S!Goto(b, "off") /\ <<browser[b].request.do, "off">> \in Steps
      BY <2>1, <2>7 DEF Steps
    <3> QED BY <1>1, <2>4, <3>1, Still
  <2> QED BY <2>2, <2>5, <2>6, <2>7
<1>5. CASE S!AskFactor(b)
  <2>1. browser[b].request.at = "factor"
    BY <1>5 DEF S!AskFactor, S!Request
  <2>2. browser[b].request.do = "login" /\ lineage # <<>>
    BY <1>2, <2>1 DEF Fits, Steps, SetBefore
  <2>3. CASE factor.on /\ S!Answer(b, "totp", browser[b].cookie)
    <3>1. "totp" \in Pages /\ browser[b].request.given # 0
      BY <1>2, <2>2 DEF Pages, Fits, Carries
    <3> QED BY <1>1, <1>2, <2>2, <2>3, <3>1, Answers, ClosedFits, Still
  <2>4. CASE ~factor.on /\ S!Goto(b, "issue")
    <3>1. Turns(b, "issue")
      BY <2>4, GoingOn DEF Awaits
    <3>2. browser[b].request.off
      BY <1>2, <2>2, <2>4 DEF Fits, Carries
    <3>3. Own(b)
      BY <1>1, <1>2, <2>2, <3>1, <3>2 DEF Own, Turns, Fits, Steps, OnItsPage, SetBefore, Carries
    <3> QED BY <1>1, <3>3, Still
  <2> QED BY <1>5, <2>3, <2>4 DEF S!AskFactor
<1>6. CASE S!CheckCode(b) /\ ~S!Told(b)
  <2>1. /\ browser[b].request.at = "code" /\ factor.secret # 0 /\ browser[b].request.new = factor.secret
        /\ S!Goto(b, IF browser[b].request.do = "totp" THEN "issue" ELSE "on")
    BY <1>6 DEF S!CheckCode, S!Request
  <2>2. browser[b].request.do \in {"totp", "activate"}
    BY <1>2, <2>1 DEF Fits, Steps
  <2>3. CASE browser[b].request.do = "totp"
    <3>1. S!Goto(b, "issue") /\ lineage # <<>>
      BY <1>2, <2>1, <2>3 DEF Fits, OnItsPage, SetBefore
    <3>2. Turns(b, "issue")
      BY <3>1, GoingOn DEF Awaits
    <3>3. Own(b)
      BY <1>1, <1>2, <2>3, <3>1, <3>2 DEF Own, Turns, Fits, Steps, OnItsPage, SetBefore, Carries
    <3> QED BY <1>1, <3>3, Still
  <2>4. CASE browser[b].request.do = "activate"
    <3>1. S!Goto(b, "on")
      BY <2>1, <2>4
    <3>2. Turns(b, "on")
      BY <3>1, GoingOn DEF Awaits
    <3>3. Own(b)
      BY <1>1, <1>2, <2>1, <2>4, <3>2 DEF Own, Turns, Fits, Steps, OnItsPage, SetBefore, Carries
    <3> QED BY <1>1, <3>3, Still
  <2> QED BY <2>2, <2>3, <2>4
<1>7. CASE S!BeginCode(b)
  <2>1. browser[b].request.do = "activate" /\ S!Goto(b, "code")
    BY <1>7 DEF S!BeginCode, S!At, S!Request
  <2>2. Turns(b, "code")
    BY <2>1, GoingOn DEF Awaits
  <2>3. Own(b)
    BY <1>1, <1>2, <2>1, <2>2 DEF Own, Turns, Fits, Steps, OnItsPage, SetBefore, Carries
  <2> QED BY <1>1, <2>3, Still
<1>8. CASE S!BeginDisable(b)
  <2>1. browser[b].request.do = "disable" /\ S!Goto(b, "check")
    BY <1>8 DEF S!BeginDisable, S!At, S!Request
  <2>2. Turns(b, "check")
    BY <2>1, GoingOn DEF Awaits
  <2>3. Own(b)
    BY <1>1, <1>2, <2>1, <2>2 DEF Own, Turns, Fits, Steps, OnItsPage, SetBefore, Carries
  <2> QED BY <1>1, <2>3, Still
<1> QED BY <1>3, <1>4, <1>5, <1>6, <1>7, <1>8

-----------------------------------------------------------------------------
(* Sessions begin and end; passwords are set.                              *)

LEMMA IssueKeeps ==
  ASSUME WebInv, NEW b \in Browsers, S!Issue(b)
  PROVE  WebInv'
<1>1. UNCHANGED <<v1, v2, v3, v4, v5, v6, v7, v10>> /\ browser[b].request.at = "issue"
  BY DEF S!Issue, S!credentials, S!second, S!Request
<1>2. /\ Fits(b) /\ row \in [S!Sessions -> Rows] /\ issued \in Nat /\ era \in Nat
      /\ browser[b].request.off \in BOOLEAN
  BY Kinds DEF WebInv, WebTyped
<1>3. issued' = issued + 1 /\ issued' \in Nat
  BY <1>2 DEF S!Issue
<1> DEFINE new == [is |-> "live", era |-> era, coded |-> browser[b].request.do = "totp",
                   off |-> browser[b].request.off]
<1>4. row' = [row EXCEPT ![issued'] = new]
  BY <1>3 DEF S!Issue, S!Request
<1>5. new \in Rows /\ new.era = era /\ (new.coded \/ new.off)
  BY <1>1, <1>2 DEF Rows, Fits, Carries
<1> HIDE DEF new
<1>6. row' \in [S!Sessions -> Rows]
  BY <1>2, <1>4, <1>5
<1>7. \A s \in S!Sessions : row'[s] = row[s] \/ row'[s] = new
  BY <1>2, <1>4
<1>8. S!Ended' /\ S!Coded'
  BY <1>1, <1>5, <1>7 DEF WebInv, S!Ended, S!Coded
<1>9. PICK p \in {"closed", "in"} : S!Answer(b, p, issued')
  BY <1>3 DEF S!Issue
<1>10. lineage # <<>> /\ p \in Pages
  BY <1>1, <1>2 DEF Fits, SetBefore, Pages
<1>11. Own(b)
  BY <1>1, <1>3, <1>9, <1>10, Answers, ClosedFits
<1> QED BY <1>1, <1>2, <1>3, <1>6, <1>8, <1>11, Plain

\* All sessions end at once.
LEMMA AllEnded ==
  ASSUME WebInv, row' = S!AllGone, era' = era + 1
  PROVE  row' \in [S!Sessions -> Rows] /\ era' \in Nat /\ S!Ended' /\ S!Coded'
<1>1. row \in [S!Sessions -> Rows] /\ era \in Nat
  BY DEF WebInv, WebTyped
<1>2. row' \in [S!Sessions -> Rows]
  BY <1>1 DEF S!AllGone, Rows
<1>3. \A s \in S!Sessions : /\ row'[s].is \notin {"live", "lapsed"}
                            /\ row'[s].coded = row[s].coded /\ row'[s].off = row[s].off
                            /\ row'[s].is # "none" => row[s].is # "none"
  BY <1>1, <1>2 DEF S!AllGone, Rows, WebInv
<1> QED BY <1>1, <1>2, <1>3 DEF WebInv, S!Ended, S!Coded

LEMMA RevokeKeeps ==
  ASSUME WebInv, NEW b \in Browsers, S!RevokeAll(b)
  PROVE  WebInv'
<1>1. /\ UNCHANGED <<v1, v2, v3, v4, v5, v6, v7, v9>> /\ row' = S!AllGone /\ era' = era + 1
      /\ S!Answer(b, "password", 0)
  BY DEF S!RevokeAll, S!credentials, S!second
<1>2. row' \in [S!Sessions -> Rows] /\ era' \in Nat /\ S!Ended' /\ S!Coded'
  BY <1>1, AllEnded
<1>3. Own(b)
  BY <1>1, Answers, ClosedFits DEF Pages
<1>4. issued' \in Nat
  BY <1>1 DEF WebInv, WebTyped
<1> QED BY <1>1, <1>2, <1>3, <1>4, Plain

\* A password that was thought of follows the one given for it.
LEMMA Follows ==
  ASSUME WebInv, NEW n \in 1 .. made, gave[n] = S!Password, lineage' = Append(lineage, n),
         UNCHANGED <<v3, v4, v5, v6, v7>>, pin' = IF lineage = <<>> THEN n ELSE pin
  PROVE  Grown /\ Chosen' /\ InForce' /\ lineage' \in Seq(Nat \ {0}) /\ lineage' # <<>>
<1>1. lineage \in Seq(Nat \ {0}) /\ made \in Nat /\ n \in Nat \ {0} /\ Chosen
  BY Kinds DEF WebInv, WebTyped
<1>2. /\ lineage' \in Seq(Nat \ {0}) /\ Len(lineage') = Len(lineage) + 1 /\ lineage'[Len(lineage) + 1] = n
      /\ \A i \in 1 .. Len(lineage) : lineage'[i] = lineage[i]
      /\ Len(lineage) \in Nat
  BY <1>1
<1>3. lineage' # <<>>
  BY <1>1
<1>4. Grown
  BY <1>1, <1>3 DEF Grown, WebInv, WebTyped
<1>5. InForce'
  BY <1>3 DEF WebInv, InForce
<1>6. \A i \in 1 .. Len(lineage') : lineage'[i] \in 1 .. made'
  BY <1>1, <1>2 DEF Chosen
<1>7. pin' = lineage'[1] /\ gave'[pin'] = 0
  <2>1. CASE lineage = <<>>
    <3>1. Len(lineage) = 0 /\ S!Password = 0
      BY <2>1, PasswordIs
    <3> QED BY <1>2, <2>1, <3>1
  <2>2. CASE lineage # <<>>
    <3>1. 1 \in 1 .. Len(lineage)
      BY <1>1, <2>2
    <3>2. pin = lineage[1] /\ gave[pin] = 0
      BY <1>1, <2>2 DEF Chosen, S!Lineage
    <3> QED BY <1>2, <2>2, <3>1, <3>2
  <2> QED BY <2>1, <2>2
<1>8. ASSUME NEW i \in 1 .. Len(lineage') - 1
      PROVE  gave'[lineage'[i + 1]] = lineage'[i]
  <2>1. i \in 1 .. Len(lineage) /\ lineage # <<>>
    BY <1>1, <1>2
  <2>2. CASE i = Len(lineage)
    BY <1>2, <2>1, <2>2, PasswordIs
  <2>3. CASE i # Len(lineage)
    <3>1. i \in 1 .. Len(lineage) - 1 /\ i + 1 \in 1 .. Len(lineage)
      BY <1>2, <2>1, <2>3
    <3>2. gave[lineage[i + 1]] = lineage[i]
      BY <1>1, <2>1, <3>1 DEF Chosen, S!Lineage
    <3> QED BY <1>2, <2>1, <3>1, <3>2
  <2> QED BY <2>2, <2>3
<1>9. Chosen'
  BY <1>6, <1>7, <1>8 DEF Chosen, S!Lineage
<1> QED BY <1>2, <1>3, <1>4, <1>5, <1>9

LEMMA SetUpKeeps ==
  ASSUME WebInv, NEW b \in Browsers, S!SetUp(b)
  PROVE  WebInv'
<1>1. /\ UNCHANGED <<v3, v4, v5, v6, v7, v8, v9, v10>>
      /\ browser[b].request.do = "setup" /\ browser[b].request.at = "store"
  BY DEF S!SetUp, S!second, S!store, S!At, S!Request
<1>2. CASE S!Password # 0
  <2>1. S!Told(b) /\ UNCHANGED <<v1, v2>>
    BY <1>2 DEF S!SetUp
  <2> QED BY <1>1, <2>1, ToldFits, Still
<1>3. CASE S!Password = 0
  <2>1. /\ lineage' = Append(lineage, browser[b].request.new) /\ pin' = browser[b].request.new
        /\ S!Goto(b, "issue")
    BY <1>3 DEF S!SetUp, S!Request
  <2>2. lineage = <<>>
    BY <1>3, PasswordIs
  <2>3. Fits(b) /\ browser[b].request.new \in 1 .. made /\ gave[browser[b].request.new] = 0
    BY <1>1, Kinds DEF Fits, Carries
  <2>4. Grown /\ Chosen' /\ InForce' /\ lineage' \in Seq(Nat \ {0}) /\ lineage' # <<>>
    BY <1>1, <1>3, <2>1, <2>2, <2>3, Follows
  <2>5. Turns(b, "issue")
    BY <2>1, GoingOn DEF Awaits
  <2>6. browser[b].request.off
    BY <1>1, <2>2, <2>3 DEF Fits, Carries
  <2>7. Fits(b)'
    BY <1>1, <2>3, <2>4, <2>5, <2>6 DEF Turns, Fits, Steps, OnItsPage, SetBefore, Carries
  <2>8. \A c \in Browsers : Fits(c)'
    BY <2>4, <2>5, <2>7, OthersFit DEF Turns
  <2>9. WebTyped' /\ S!Ended' /\ S!Coded'
    BY <1>1, <2>4, <2>5 DEF WebInv, WebTyped, S!Ended, S!Coded, Turns
  <2> QED BY <2>4, <2>8, <2>9 DEF WebInv
<1> QED BY <1>2, <1>3

LEMMA ChangeKeeps ==
  ASSUME WebInv, NEW b \in Browsers, S!Change(b)
  PROVE  WebInv'
<1>1. /\ UNCHANGED <<v2, v3, v4, v5, v6, v7, v9>>
      /\ browser[b].request.do = "change" /\ browser[b].request.at = "begin"
  BY DEF S!Change, S!second, S!At, S!Request
<1>2. CASE browser[b].request.given # S!Password
  <2>1. S!Told(b) /\ UNCHANGED <<v1, v8, v10>>
    BY <1>2 DEF S!Change, S!Request
  <2> QED BY <1>1, <2>1, ToldFits, Still
<1>3. CASE browser[b].request.given = S!Password
  <2>1. /\ lineage' = Append(lineage, browser[b].request.new) /\ row' = S!AllGone /\ era' = era + 1
        /\ S!Answer(b, "password", 0)
    BY <1>3 DEF S!Change, S!Request
  <2>2. /\ browser[b].request.new \in 1 .. made
        /\ gave[browser[b].request.new] = browser[b].request.given /\ lineage # <<>>
    BY <1>1, Kinds DEF Fits, Carries, OnItsPage, SetBefore
  <2>3. Grown /\ Chosen' /\ InForce' /\ lineage' \in Seq(Nat \ {0}) /\ lineage' # <<>>
    BY <1>1, <1>3, <2>1, <2>2, Follows
  <2>4. row' \in [S!Sessions -> Rows] /\ era' \in Nat /\ S!Ended' /\ S!Coded'
    BY <2>1, AllEnded
  <2>5. Own(b)
    BY <2>1, <2>3, Answers, ClosedFits DEF Pages
  <2>6. \A c \in Browsers : Fits(c)'
    BY <2>3, <2>5, OthersFit DEF Own
  <2>7. WebTyped'
    BY <1>1, <2>3, <2>4, <2>5 DEF WebInv, WebTyped, Own
  <2> QED BY <2>3, <2>4, <2>6, <2>7 DEF WebInv
<1> QED BY <1>2, <1>3

-----------------------------------------------------------------------------
(* The second factor.                                                      *)

\* The page shows a secret, and its request is over.
Shows(b) == /\ browser' \in [Browsers -> Shown]
            /\ browser'[b].page = browser[b].page /\ browser'[b].cookie = browser[b].cookie
            /\ browser'[b].request = S!Rest
            /\ \A c \in Browsers \ {b} : browser'[c] = browser[c]

LEMMA ShownFits ==
  ASSUME WebInv, NEW b \in Browsers, NEW n \in Nat, browser[b].request.do = "qr", UNCHANGED lineage,
         browser' = [browser EXCEPT ![b].request = S!Rest, ![b].qr = n]
  PROVE  Own(b)
<1>1. browser \in [Browsers -> Shown] /\ S!Rest \in Requests /\ Fits(b)
  BY Kinds DEF WebInv, WebTyped
<1>2. Shows(b)
  BY <1>1 DEF Shows, Shown
<1>3. S!Rest.do = "none" /\ S!Rest.at = ""
  BY DEF S!Rest
<1>4. browser[b].page = "in"
  BY <1>1 DEF Fits, OnItsPage
<1> QED BY <1>1, <1>2, <1>3, <1>4 DEF Own, Shows, Fits, Steps, OnItsPage, SetBefore, Carries

LEMMA SecretKeeps ==
  ASSUME WebInv, NEW b \in Browsers, S!ReadSecret(b) \/ S!StoreSecret(b)
  PROVE  WebInv'
<1>1. /\ UNCHANGED <<v1, v2, v3, v4, v8, v9, v10>>
      /\ browser[b].request.do = "qr"
  BY DEF S!ReadSecret, S!StoreSecret, S!credentials, S!store, S!At, S!Request
<1>2. /\ factor \in [secret : Nat, on : BOOLEAN, verified : Nat] /\ secrets \in Nat /\ clash \in BOOLEAN
      /\ Fits(b)
  BY DEF WebInv, WebTyped
<1>3. CASE S!ReadSecret(b)
  <2>1. UNCHANGED <<v5, v6, v7>>
    BY <1>3 DEF S!ReadSecret, S!second
  <2>2. CASE factor.secret = 0
    <3>1. S!Goto(b, "store")
      BY <1>3, <2>2 DEF S!ReadSecret, S!Goto
    <3>2. Turns(b, "store")
      BY <3>1, GoingOn DEF Awaits
    <3>3. Own(b)
      BY <1>1, <1>2, <2>1, <3>2 DEF Own, Turns, Fits, Steps, OnItsPage, SetBefore, Carries
    <3> QED BY <1>1, <2>1, <3>3, Still
  <2>3. CASE factor.secret # 0
    <3>1. browser' = [browser EXCEPT ![b].request = S!Rest, ![b].qr = factor.secret]
      BY <1>3, <2>3 DEF S!ReadSecret
    <3>2. Own(b)
      BY <1>1, <1>2, <3>1, ShownFits
    <3> QED BY <1>1, <2>1, <3>2, Still
  <2> QED BY <2>2, <2>3
<1>4. CASE S!StoreSecret(b)
  <2>1. /\ secrets' = secrets + 1 /\ clash' = (clash \/ factor.secret # 0)
        /\ factor' = [factor EXCEPT !.secret = secrets + 1]
    BY <1>4 DEF S!StoreSecret
  <2>2. PICK n \in Nat : n = secrets + 1
    BY <1>2
  <2>3. browser' = [browser EXCEPT ![b].request = S!Rest, ![b].qr = n]
    BY <1>4, <2>2 DEF S!StoreSecret
  <2>4. Own(b)
    BY <1>1, <1>2, <2>3, ShownFits
  <2>5. /\ factor' \in [secret : Nat, on : BOOLEAN, verified : Nat] /\ factor'.on = factor.on
        /\ secrets' \in Nat /\ clash' \in BOOLEAN
    BY <1>2, <2>1
  <2>6. Grown
    <3>1. clash' <=> clash \/ factor.secret # 0
      BY <2>1
    <3>2. made \in Nat /\ made <= made
      BY Kinds
    <3> QED BY <1>1, <2>5, <3>1, <3>2 DEF Grown
  <2>7. InForce'
    BY <1>1, <1>2, <2>1, <2>5 DEF WebInv, InForce
  <2>8. \A c \in Browsers : Fits(c)'
    BY <2>4, <2>6, OthersFit DEF Own
  <2>9. WebTyped' /\ Chosen' /\ S!Ended' /\ S!Coded'
    BY <1>1, <2>4, <2>5 DEF WebInv, WebTyped, Chosen, S!Lineage, S!Ended, S!Coded, Own
  <2> QED BY <2>7, <2>8, <2>9 DEF WebInv
<1> QED BY <1>3, <1>4

LEMMA ActivateKeeps ==
  ASSUME WebInv, NEW b \in Browsers, S!Activate(b)
  PROVE  WebInv'
<1>1. /\ UNCHANGED <<v1, v2, v3, v4, v6, v7, v8, v9, v10>>
      /\ browser[b].request.at = "on" /\ S!Told(b)
      /\ factor' = [factor EXCEPT !.on = TRUE, !.verified = browser[b].request.new]
  BY DEF S!Activate, S!credentials, S!store, S!Request
<1>2. /\ factor \in [secret : Nat, on : BOOLEAN, verified : Nat]
      /\ browser[b].request.new \in Nat /\ Fits(b)
  BY Kinds DEF WebInv, WebTyped
<1>3. /\ factor' \in [secret : Nat, on : BOOLEAN, verified : Nat]
      /\ factor'.on /\ factor'.verified = browser[b].request.new /\ factor'.secret = factor.secret
  BY <1>1, <1>2
<1>4. browser[b].request.do = "activate" /\ lineage # <<>>
  BY <1>1, <1>2 DEF Fits, Steps, OnItsPage, SetBefore
<1>5. (browser[b].request.new = factor.secret /\ browser[b].request.new # 0) \/ clash
  BY <1>1, <1>2 DEF Fits, Carries
<1>6. InForce'
  BY <1>1, <1>3, <1>4, <1>5 DEF InForce
<1>7. Grown
  BY <1>1, <1>3, Kinds DEF Grown
<1>8. Own(b)
  BY <1>1, ToldFits
<1>9. \A c \in Browsers : Fits(c)'
  BY <1>7, <1>8, OthersFit DEF Own
<1>10. WebTyped' /\ Chosen' /\ S!Ended' /\ S!Coded'
  BY <1>1, <1>3, <1>8 DEF WebInv, WebTyped, Chosen, S!Lineage, S!Ended, S!Coded, Own
<1> QED BY <1>6, <1>9, <1>10 DEF WebInv

\* Whoever is signing in meanwhile need not show a code any more.
LEMMA DisableKeeps ==
  ASSUME WebInv, NEW b \in Browsers, S!Disable(b)
  PROVE  WebInv'
<1>1. /\ UNCHANGED <<v1, v2, v3, v4, v6, v7, v8, v9, v10>>
      /\ browser[b].request.at = "off" /\ factor' = [factor EXCEPT !.on = FALSE]
  BY DEF S!Disable, S!credentials, S!store, S!Request
<1>2. browser' = [c \in Browsers |-> IF c = b THEN [browser[c] EXCEPT !.request = S!Rest]
                                     ELSE [browser[c] EXCEPT !.request.off = TRUE]]
  BY DEF S!Disable
<1>3. /\ factor \in [secret : Nat, on : BOOLEAN, verified : Nat]
      /\ browser \in [Browsers -> Shown] /\ S!Rest \in Requests /\ \A c \in Browsers : Fits(c)
  BY Kinds DEF WebInv, WebTyped
<1>4. /\ factor' \in [secret : Nat, on : BOOLEAN, verified : Nat]
      /\ factor'.on = FALSE /\ factor'.secret = factor.secret
  BY <1>1, <1>3
<1>5. \A c \in Browsers : /\ browser'[c] \in Shown /\ browser'[c].page = browser[c].page
                          /\ browser'[c].cookie = browser[c].cookie
  BY <1>2, <1>3 DEF Shown, Requests
<1>6. browser' \in [Browsers -> Shown]
  BY <1>2, <1>5
<1>7. Fits(b)'
  <2>1. browser'[b].request = S!Rest
    BY <1>2, <1>3 DEF Shown
  <2>2. S!Rest.do = "none" /\ S!Rest.at = ""
    BY DEF S!Rest
  <2>3. browser[b].page = "in"
    BY <1>1, <1>3 DEF Fits, Steps, OnItsPage
  <2> QED BY <1>1, <1>3, <1>5, <2>1, <2>2, <2>3 DEF Fits, Steps, OnItsPage, SetBefore, Carries
<1>8. ASSUME NEW c \in Browsers, c # b PROVE Fits(c)'
  <2>1. /\ browser'[c].request.do = browser[c].request.do /\ browser'[c].request.at = browser[c].request.at
        /\ browser'[c].request.given = browser[c].request.given
        /\ browser'[c].request.new = browser[c].request.new
        /\ browser'[c].request.off = TRUE
    BY <1>2, <1>3, <1>8 DEF Shown, Requests
  <2>2. Fits(c)
    BY <1>3
  <2>3. OnItsPage(c)' /\ SetBefore(c)' /\ <<browser'[c].request.do, browser'[c].request.at>> \in Steps
    BY <1>1, <1>5, <2>1, <2>2 DEF Fits, OnItsPage, SetBefore
  <2>4. Carries(c)'
    BY <1>1, <1>4, <1>5, <2>1, <2>2 DEF Fits, Carries
  <2> QED BY <2>3, <2>4 DEF Fits
<1>9. InForce'
  BY <1>4 DEF InForce
<1>10. WebTyped' /\ Chosen' /\ S!Ended' /\ S!Coded'
  BY <1>1, <1>4, <1>6 DEF WebInv, WebTyped, Chosen, S!Lineage, S!Ended, S!Coded
<1> QED BY <1>7, <1>8, <1>9, <1>10 DEF WebInv

LEMMA WebSteps == WebInv /\ [S!Next]_(S!vars) => WebInv'
<1> SUFFICES ASSUME WebInv, [S!Next]_(S!vars) PROVE WebInv'
  OBVIOUS
<1>1. CASE S!Next
  <2>1. CASE S!Work
    BY <2>1, LoadKeeps, LookingKeeps, SetUpKeeps, ChecksKeep, IssueKeeps, ChangeKeeps, RevokeKeeps, SecretKeeps,
       ActivateKeeps, DisableKeeps DEF S!Work
  <2>2. CASE \E s \in S!Sessions : S!Lapse(s) \/ S!Sweep(s)
    BY <2>2, RowsAlone
  <2> QED BY <1>1, <2>1, <2>2, LoadKeeps, AsksKeep, ChoicesKeep DEF S!Next
<1>2. CASE UNCHANGED S!vars
  <2>1. UNCHANGED <<v1, v2, v3, v4, v5, v6, v7, v8, v9, v10, v11>>
    BY <1>2 DEF S!vars, S!credentials, S!second, S!store
  <2>2. WebTyped' /\ Chosen' /\ InForce' /\ S!Ended' /\ S!Coded'
    BY <2>1 DEF WebInv, WebTyped, Chosen, S!Lineage, InForce, S!Ended, S!Coded
  <2>3. ASSUME NEW b \in Browsers PROVE Fits(b)'
    BY <2>1 DEF WebInv, Fits, OnItsPage, SetBefore, Carries
  <2> QED BY <2>2, <2>3 DEF WebInv
<1> QED BY <1>1, <1>2

-----------------------------------------------------------------------------
(* The behaviours of both.                                                 *)

SignInInv == (part = "web" => WebInv) /\ (part = "bot" => BotInv)

\* Nobody is served by the bot who did not enter what was asked of him, the administrator's list holds, no
\* session outlives a change of the password, none began without the code while the second factor was on, each
\* password replaced the one that was given for it, and the secret in force is the one that was verified.
THEOREM SignInStaysSound == Spec => []SignInSound
<1>1. Init => SignInInv
  BY WebStarts, BotStarts DEF Init, SignInInv
<1>2. SignInInv /\ [Next]_vars => SignInInv'
  <2> SUFFICES ASSUME SignInInv, [Next]_vars PROVE SignInInv'
    OBVIOUS
  <2>1. part' = part
    BY DEF Next, vars, From8, From9, From10, From11, From14, JobsOnly, WritesOnly, ClientsOnly, ChatOnly, FilesOnly,
           WebOnly, BotOnly
  <2>2. CASE part = "web"
    <3>1. [S!Next]_(S!vars)
      BY <2>2 DEF Next, vars, From8, From9, From10, From11, From14, S!vars, S!credentials, S!second, S!store, S!bounds
    <3> QED BY <2>1, <2>2, <3>1, WebSteps DEF SignInInv
  <2>3. CASE part = "bot"
    <3>1. [B!Next]_(B!vars)
      BY <2>3 DEF Next, vars, From8, From9, From10, From11, From14, B!vars, B!people, B!pins, B!history
    <3> QED BY <2>1, <2>3, <3>1, BotSteps DEF SignInInv
  <2>4. CASE part \notin {"web", "bot"}
    BY <2>1, <2>4 DEF SignInInv
  <2> QED BY <2>2, <2>3, <2>4
<1>3. SignInInv => SignInSound
  BY DEF SignInInv, SignInSound, WebInv, BotInv, Chosen, InForce, S!Sound, S!VerifiedInForce
<1> QED BY <1>1, <1>2, <1>3, PTL DEF Spec
=============================================================================
