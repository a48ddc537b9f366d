----------------------------- MODULE UploadLedger -----------------------------
(***************************************************************************)
(* What completing an upload promises, without leases, requests, sweeps or *)
(* compensation steps: the effects of an attempt (its object, its row) are *)
(* visible only while the attempt is running or after it was committed; an *)
(* upload is decided once, by one attempt, by a duplicate, or by being     *)
(* given up.  A row whose INSERT took effect although its answer was lost  *)
(* is the exception: it strays.  ChunkCompletion implements this module.   *)
(***************************************************************************)
CONSTANTS Uploads, Attempts, UploadOf

VARIABLES
  outcome,     \* what became of each upload
  effect,      \* the standing of each attempt
  visible,     \* attempts that left an object or a row behind
  stray        \* attempts that left a row they know nothing of

ledger == <<outcome, effect, visible, stray>>

LedgerInit ==
  /\ outcome = [u \in Uploads |-> "undecided"]
  /\ effect = [t \in Attempts |-> "none"]
  /\ visible = {}
  /\ stray = {}

Start(t) ==
  /\ effect[t] = "none"
  /\ effect' = [effect EXCEPT ![t] = "running"]
  /\ UNCHANGED <<outcome, visible, stray>>

Touch(t) ==
  /\ effect[t] = "running"
  /\ visible' \in {visible \cup {t}, visible \ {t}}
  /\ UNCHANGED <<outcome, effect, stray>>

\* Only a running attempt, by an insertion that was never answered.
LoseAnswer(t) ==
  /\ effect[t] = "running"
  /\ stray' = stray \cup {t}
  /\ UNCHANGED <<outcome, effect, visible>>

\* Maintenance that works from an old snapshot may take the effects of a
\* committed attempt away; the promise is only that nothing is added.
Lose(t) ==
  /\ effect[t] = "committed"
  /\ visible' = visible \ {t}
  /\ UNCHANGED <<outcome, effect, stray>>

Undo(t) ==
  /\ effect[t] = "running"
  /\ t \notin visible
  /\ effect' = [effect EXCEPT ![t] = "none"]
  /\ UNCHANGED <<outcome, visible, stray>>

Commit(t) ==
  /\ effect[t] = "running"
  /\ outcome[UploadOf[t]] = "undecided"
  /\ effect' = [effect EXCEPT ![t] = "committed"]
  /\ outcome' = [outcome EXCEPT ![UploadOf[t]] = "completed"]
  /\ UNCHANGED <<visible, stray>>

\* One statement may give up several uploads.
Decide ==
  /\ outcome' \in [Uploads -> {"undecided", "completed", "abandoned"}]
  /\ \A u \in Uploads : outcome[u] # "undecided" => outcome'[u] = outcome[u]
  /\ UNCHANGED <<effect, visible, stray>>

LedgerNext ==
  \/ \E t \in Attempts :
       \/ Start(t) \/ Touch(t) \/ LoseAnswer(t) \/ Lose(t) \/ Undo(t) \/ Commit(t)
  \/ Decide

LedgerSpec == LedgerInit /\ [][LedgerNext]_ledger
=============================================================================
