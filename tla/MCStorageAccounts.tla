--------------------------- MODULE MCStorageAccounts ---------------------------
(***************************************************************************)
(* Two scenes of StorageAccounts for TLC, named by the first state: two    *)
(* switches beside a job, on two accounts; and the work of an upload and a *)
(* task, beside one switch at a time, once one of the accounts is deleted. *)
(***************************************************************************)
EXTENDS StorageAccounts, TLC

CONSTANTS a, b, s1, s2, u, t, j, l1, l2

VARIABLE scene

\* Two kinds of provider, so that the setting tells the accounts apart.
TwoTypes    == a :> "s3" @@ b :> "webdav"
TwoLeases   == {l1, l2}
Twins       == Permutations({s1, s2}) \cup Permutations(TwoLeases)

\* The steps of Next, the work being that of W.
Steps(W) ==
  \/ \E s \in Switches, x \in Targets :
       /\ scene = "deletion" => \A i \in Switches \ {s} : ~Reading(i)
       /\ SwitchDefault(s, x)
  \/ \E i \in Inits : ReadSetting(i) \/ ReadAccounts(i) \/ InitFails(i) \/ InstallClients(i)
  \/ Crash \/ Start
  \/ \E l \in Leases : LeaseLapses(l) \/ LeaseRenewed(l)
  \/ \E w \in W :
       \/ PinDefault(w) \/ Admit(w) \/ InsertRow(w) \/ Submitted(w) \/ InsertJob(w)
       \/ \E x \in Targets : PinChosen(w, x)
       \/ Rejected(w) \/ TakeLease(w) \/ StartWriting(w) \/ CommitIndex(w)
       \/ WriteFails(w) \/ EndWrite(w) \/ Reconcile(w) \/ Settle(w) \/ Retry(w)
  \/ \E x \in Accounts : DeleteAccount(x)

MCInit ==
  /\ Init
  /\ \/ scene = "default"
     \/ scene = "deletion" /\ current # b

MCNext ==
  /\ UNCHANGED scene
  /\ \/ scene = "default" /\ Steps(Jobs)
     \/ scene = "deletion" /\ b \in rows /\ DeleteAccount(b)
     \/ scene = "deletion" /\ b \notin rows /\ Steps(Uploads \cup Tasks)

MCSpec == MCInit /\ [][MCNext]_<<vars, scene>>
================================================================================
