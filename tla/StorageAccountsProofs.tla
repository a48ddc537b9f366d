------------------------- MODULE StorageAccountsProofs -------------------------
(***************************************************************************)
(* For any accounts, work, requests and leases: no session or task that    *)
(* can still run loses its account, and no write in flight or to be        *)
(* reconciled does.  A deletion sees every such user because the write     *)
(* holds an unreleased lease on its target from before its first effect    *)
(* to its end, because only submission moves a target, and because a row   *)
(* without a status has neither a journal nor a write of its own.          *)
(***************************************************************************)
EXTENDS StorageAccounts, TLAPS

LeaseSet == [of : Targets, holder : Work \cup {Nobody},
             purpose : {"admission", "write"}, expired : BOOLEAN]

InFlight == {w \in Work : write[w] \in {"leased", "writing"}}

\* What a row that is not there yet, or is not wanted, excludes.
Submission ==
  \A w \in Work :
    /\ admission[w] \in {"pinned", "admitted"} => status[w] = "none"
    /\ w \in Uploads => status[w] = "none"
    /\ w \in journal => status[w] # "none"
    /\ w \in InFlight \ Uploads => status[w] # "none"

\* Leases are of accounts that exist, and a write holds one on its target.
LeasesHold ==
  /\ \A l \in Leases : Exists(lease[l].of)
  /\ \A w \in InFlight :
       target[w] # Local =>
         \E l \in Leases : /\ lease[l].of = target[w]
                          /\ lease[l].holder = w /\ lease[l].purpose = "write"

Inv == TypeOK /\ Submission /\ LeasesHold /\ LiveTasksHaveAccount /\ WritesHaveAccount

--------------------------------------------------------------------------------
\* An acquired lease is a free one, and there is none for an account that has gone.
LEMMA Acquired ==
  ASSUME TypeOK, NEW w \in Work, NEW a \in Targets, NEW why \in {"admission", "write"},
         Acquire(w, a, why)
  PROVE  /\ lease' \in [Leases -> LeaseSet]
         /\ Exists(a)
         /\ \A l \in Leases : lease'[l] = lease[l] \/ (lease[l].of = Local /\ lease'[l].of = a)
         /\ a # Local => \E l \in Leases : /\ lease'[l].of = a
                                          /\ lease'[l].holder = w /\ lease'[l].purpose = why
<1>1. CASE a = Local /\ UNCHANGED lease
  BY <1>1 DEF TypeOK, LeaseSet, Exists
<1>2. CASE ~(a = Local /\ UNCHANGED lease)
  <2> DEFINE new == [of |-> a, holder |-> w, purpose |-> why, expired |-> FALSE]
  <2>1. PICK l \in Leases : lease[l].of = Local /\ lease' = [lease EXCEPT ![l] = new]
    BY <1>2 DEF Acquire
  <2>2. a \in rows
    BY <1>2 DEF Acquire
  <2>3. new \in LeaseSet
    BY DEF LeaseSet
  <2>4. lease \in [Leases -> LeaseSet]
    BY DEF TypeOK, LeaseSet
  <2>5. new.of = a /\ new.holder = w /\ new.purpose = why
    OBVIOUS
  <2> HIDE DEF new
  <2>6. lease' \in [Leases -> LeaseSet] /\ lease'[l] = new
    BY <2>1, <2>3, <2>4
  <2>7. \A k \in Leases : k # l => lease'[k] = lease[k]
    BY <2>1, <2>4
  <2> QED BY <2>1, <2>2, <2>5, <2>6, <2>7 DEF Exists
<1> QED BY <1>1, <1>2

\* A release touches the leases its holder took for that purpose.
LEMMA Released ==
  ASSUME TypeOK, NEW w \in Work, NEW why \in {"admission", "write"}, Release(w, why)
  PROVE  /\ lease' \in [Leases -> LeaseSet]
         /\ \A l \in Leases :
              \/ lease'[l] = lease[l]
              \/ /\ lease[l].holder = w /\ lease[l].purpose = why
                 /\ lease'[l].of \in {Local, lease[l].of}
<1> DEFINE held(l) == lease[l].holder = w /\ lease[l].purpose = why
<1>1. lease \in [Leases -> LeaseSet] /\ NoLease \in LeaseSet /\ NoLease.of = Local
  BY DEF TypeOK, LeaseSet, NoLease, Targets
<1>2. CASE lease' = [l \in Leases |-> IF held(l) THEN NoLease ELSE lease[l]]
  BY <1>1, <1>2
<1>3. CASE lease' = [l \in Leases |->
                     IF held(l) THEN [lease[l] EXCEPT !.holder = Nobody] ELSE lease[l]]
  <2>1. ASSUME NEW l \in Leases
        PROVE  /\ [lease[l] EXCEPT !.holder = Nobody] \in LeaseSet
               /\ [lease[l] EXCEPT !.holder = Nobody].of = lease[l].of
    <3>1. lease[l] \in LeaseSet
      BY <1>1
    <3> QED BY <3>1 DEF LeaseSet
  <2> QED BY <1>1, <1>3, <2>1
<1> QED BY <1>2, <1>3 DEF Release

\* A write keeps its lease through a step that leaves its target and what it
\* holds for writing alone.
LEMMA LeasesKept ==
  ASSUME Inv, NEW w \in Work,
         write[w] \in {"leased", "writing"}, target'[w] = target[w],
         \A k \in Leases :
           lease[k].holder = w /\ lease[k].purpose = "write" /\ lease[k].of # Local =>
             lease'[k] = lease[k]
  PROVE  target'[w] # Local =>
           \E k \in Leases : /\ lease'[k].of = target'[w]
                             /\ lease'[k].holder = w /\ lease'[k].purpose = "write"
  BY DEF Inv, LeasesHold, InFlight

\* The facts a step that keeps the rows has to show.
LEMMA RowsKept ==
  ASSUME Inv, TypeOK', Submission', rows' = rows,
         \A l \in Leases : lease'[l].of \in {Local, lease[l].of} \/ lease'[l].of \in rows,
         \A w \in Work : write'[w] \in {"leased", "writing"} /\ target'[w] # Local =>
           \E l \in Leases : /\ lease'[l].of = target'[w]
                             /\ lease'[l].holder = w /\ lease'[l].purpose = "write",
         \A t \in Tasks : status'[t] \in {"live", "resumable"} =>
           \/ status[t] \in {"live", "resumable"} /\ target'[t] = target[t]
           \/ Exists(target'[t]),
         \A w \in Work : w \in journal' =>
           \/ (w \in journal \/ write[w] \in {"leased", "writing"}) /\ target'[w] = target[w]
           \/ Exists(target'[w])
  PROVE  Inv'
<1>1. \A a : Exists(a)' <=> Exists(a)
  BY DEF Exists
<1>2. ASSUME NEW l \in Leases PROVE lease'[l].of = Local \/ lease'[l].of \in rows'
  BY DEF Inv, LeasesHold, Exists
<1>3. LeasesHold'
  BY <1>2 DEF LeasesHold, InFlight, Exists
<1>4. LiveTasksHaveAccount'
  BY DEF Inv, LiveTasksHaveAccount, Exists
<1>5. ASSUME NEW w \in Work, write'[w] \in {"leased", "writing"}
      PROVE  target'[w] = Local \/ target'[w] \in rows'
  BY <1>2, <1>5
<1>6. ASSUME NEW w \in Work, w \in journal'
      PROVE  target'[w] = Local \/ target'[w] \in rows'
  BY <1>6 DEF Inv, WritesHaveAccount, Exists
<1>7. WritesHaveAccount'
  BY <1>5, <1>6 DEF WritesHaveAccount, Exists
<1> QED BY <1>3, <1>4, <1>7 DEF Inv

\* A step of the settings, of the memory or of an initialisation disturbs no use
\* of an account.
LEMMA UsageKept ==
  ASSUME Inv, TypeOK', rows' = rows, UNCHANGED usage
  PROVE  Inv'
<1>1. /\ status' = status /\ target' = target /\ admission' = admission
      /\ write' = write /\ journal' = journal /\ lease' = lease
  BY DEF usage
<1> QED BY <1>1 DEF Inv, Submission, LeasesHold, LiveTasksHaveAccount,
           WritesHaveAccount, InFlight, Exists

LEMMA AtStart == Init => Inv
<1> SUFFICES ASSUME Init PROVE Inv
  OBVIOUS
<1>1. TypeOK
  <2>1. active \subseteq rows /\ setting \in Types \cup {Local} /\ current \in Targets
    BY NamesDiffer DEF Init, Targets, Provider
  <2>2. lease \in [Leases -> LeaseSet]
    BY DEF Init, LeaseSet, NoLease, Targets
  <2>3. init \in [Inits -> [at : {"idle", "committed", "setting", "accounts"},
                           setting : Types \cup {Local}, active : SUBSET Accounts]]
    BY DEF Init, Idle
  <2>4. rows \subseteq Accounts /\ up \in BOOLEAN /\ disturbed \in BOOLEAN
    BY Zenon DEF Init
  <2>5. crashes \in 0 .. MaxCrashes
    <3>1. crashes = 0 /\ MaxCrashes \in Nat
      BY NamesDiffer DEF Init
    <3> QED BY <3>1
  <2>6. /\ status \in [Work -> {"none", "live", "resumable", "done"}]
        /\ target \in [Work -> Targets]
        /\ admission \in [Work -> {"idle", "pinned", "admitted", "created"}]
        /\ write \in [Work -> {"idle", "leased", "writing", "ended"}]
        /\ journal \subseteq Tasks \cup Jobs
    BY DEF Init, Targets
  <2> QED BY <2>1, <2>2, <2>3, <2>4, <2>5, <2>6 DEF TypeOK, LeaseSet
<1>2. Submission
  BY DEF Init, Submission, InFlight
<1>3. LeasesHold
  BY DEF Init, LeasesHold, InFlight, Exists, NoLease
<1>4. LiveTasksHaveAccount /\ WritesHaveAccount
  BY DEF Init, LiveTasksHaveAccount, WritesHaveAccount, Work
<1> QED BY <1>1, <1>2, <1>3, <1>4 DEF Inv

--------------------------------------------------------------------------------
(***************************************************************************)
(* One lemma per kind of step.                                             *)
(***************************************************************************)
InitSet == [at : {"idle", "committed", "setting", "accounts"},
            setting : Types \cup {Local}, active : SUBSET Accounts]

\* The settings and the memory.
LEMMA SettingSteps ==
  ASSUME Inv,
         \/ \E s \in Switches, a \in Targets : SwitchDefault(s, a)
         \/ \E i \in Inits : ReadSetting(i) \/ ReadAccounts(i) \/ InitFails(i) \/ InstallClients(i)
         \/ Start
  PROVE  Inv'
<1>1. init \in [Inits -> InitSet] /\ Idle \in InitSet /\ Boot \in Inits /\ Switches \subseteq Inits
  BY DEF Inv, TypeOK, InitSet, Idle, Inits
<1>2. ASSUME NEW r \in InitSet
      PROVE  /\ \A x \in {"idle", "committed", "setting", "accounts"} : [r EXCEPT !.at = x] \in InitSet
             /\ \A x \in Types \cup {Local} :
                  [r EXCEPT !.at = "setting", !.setting = x] \in InitSet
             /\ \A x \in SUBSET Accounts :
                  [r EXCEPT !.at = "accounts", !.active = x] \in InitSet
  BY <1>2 DEF InitSet
<1>3. ASSUME NEW s \in Switches, NEW a \in Targets, SwitchDefault(s, a) PROVE Inv'
  <2>1. active' \subseteq rows /\ setting' \in Types \cup {Local} /\ disturbed' \in BOOLEAN
    BY <1>3, NamesDiffer DEF SwitchDefault, Exists, Provider, Targets
  <2>2. init' \in [Inits -> InitSet]
    BY <1>1, <1>2, <1>3 DEF SwitchDefault
  <2>3. TypeOK'
    BY <1>3, <2>1, <2>2 DEF SwitchDefault, Inv, TypeOK, InitSet, usage
  <2> QED BY <1>3, <2>3, UsageKept DEF SwitchDefault
<1>4. ASSUME NEW i \in Inits, ReadSetting(i) PROVE Inv'
  <2>1. init' \in [Inits -> InitSet]
    BY <1>1, <1>2, <1>4 DEF ReadSetting, Inv, TypeOK
  <2>2. TypeOK'
    BY <1>4, <2>1 DEF ReadSetting, Inv, TypeOK, InitSet, usage, config
  <2> QED BY <1>4, <2>2, UsageKept DEF ReadSetting, config
<1>5. ASSUME NEW i \in Inits, ReadAccounts(i) PROVE Inv'
  <2>1. active \in SUBSET Accounts
    BY DEF Inv, TypeOK
  <2>2. init' \in [Inits -> InitSet]
    BY <1>1, <1>2, <1>5, <2>1 DEF ReadAccounts
  <2>3. TypeOK'
    BY <1>5, <2>2 DEF ReadAccounts, Inv, TypeOK, InitSet, usage, config
  <2> QED BY <1>5, <2>3, UsageKept DEF ReadAccounts, config
<1>6. ASSUME NEW i \in Inits, InitFails(i) PROVE Inv'
  <2>1. init' \in [Inits -> InitSet]
    BY <1>1, <1>6 DEF InitFails
  <2>2. TypeOK'
    BY <1>6, <2>1 DEF InitFails, Inv, TypeOK, InitSet, usage, config
  <2> QED BY <1>6, <2>2, UsageKept DEF InitFails, config
<1>7. ASSUME NEW i \in Inits, InstallClients(i) PROVE Inv'
  <2>1. init' \in [Inits -> InitSet]
    BY <1>1, <1>7 DEF InstallClients
  <2>2. init[i].active \in SUBSET Accounts
    BY <1>1 DEF InitSet
  <2>3. Chosen(init[i].active) \in Targets
    <3>1. CASE init[i].active = {}
      BY <3>1 DEF Chosen, Targets
    <3>2. CASE init[i].active # {}
      BY <2>2, <3>2 DEF Chosen, Targets
    <3> QED BY <3>1, <3>2
  <2>4. TypeOK'
    BY <1>7, <2>1, <2>3 DEF InstallClients, Inv, TypeOK, InitSet, usage, config
  <2> QED BY <1>7, <2>4, UsageKept DEF InstallClients, config
<1>8. ASSUME Start PROVE Inv'
  <2>1. init' \in [Inits -> InitSet]
    BY <1>1, <1>2, <1>8 DEF Start
  <2>2. TypeOK'
    BY <1>8, <2>1 DEF Start, Inv, TypeOK, InitSet, usage, config
  <2> QED BY <1>8, <2>2, UsageKept DEF Start, config
<1> QED BY <1>3, <1>4, <1>5, <1>6, <1>7, <1>8
\* Crash: nothing is in flight any more; rows keep their target.
LEMMA CrashStep == ASSUME Inv, Crash PROVE Inv'
<1>1. lease \in [Leases -> LeaseSet]
  BY DEF Inv, TypeOK, LeaseSet
<1>2. ASSUME NEW r \in LeaseSet
      PROVE  [r EXCEPT !.holder = Nobody] \in LeaseSet /\ [r EXCEPT !.holder = Nobody].of = r.of
  BY <1>2 DEF LeaseSet
<1>3. /\ lease' \in [Leases -> LeaseSet]
      /\ \A l \in Leases : lease'[l].of = lease[l].of
  BY <1>1, <1>2 DEF Crash
<1>4. Local \in Targets
  BY DEF Targets
<1>5. target' \in [Work -> Targets] /\ \A w \in Work : status[w] # "none" => target'[w] = target[w]
  BY <1>4 DEF Crash, Inv, TypeOK
<1>6. crashes' \in 0 .. MaxCrashes
  BY NamesDiffer DEF Crash, Inv, TypeOK
<1>7. up' \in BOOLEAN /\ disturbed' \in BOOLEAN
  BY Zenon DEF Crash
<1>8. TypeOK'
  BY <1>3, <1>4, <1>5, <1>6, <1>7 DEF Crash, Inv, TypeOK, LeaseSet, Idle, config
<1>9. Submission'
  BY DEF Crash, Inv, TypeOK, Submission, InFlight
<1>10. /\ rows' = rows /\ status' = status /\ journal' = journal
       /\ \A w \in Work : write'[w] = "idle"
  BY DEF Crash, config
<1>11. \A w \in Work : w \in journal' => w \in journal /\ target'[w] = target[w]
  BY <1>5, <1>10 DEF Inv, Submission
<1>12. \A t \in Tasks : status'[t] \in {"live", "resumable"} => target'[t] = target[t]
  BY <1>5, <1>10 DEF Work
<1> QED BY <1>3, <1>8, <1>9, <1>10, <1>11, <1>12, RowsKept

\* Leases lapse and are renewed.
LEMMA LeaseSteps ==
  ASSUME Inv, NEW l \in Leases, LeaseLapses(l) \/ LeaseRenewed(l)
  PROVE  Inv'
<1>1. lease \in [Leases -> LeaseSet]
  BY DEF Inv, TypeOK, LeaseSet
<1>2. PICK x \in BOOLEAN : lease' = [lease EXCEPT ![l].expired = x]
  BY DEF LeaseLapses, LeaseRenewed
<1>3. ASSUME NEW r \in LeaseSet
      PROVE  /\ [r EXCEPT !.expired = x] \in LeaseSet
             /\ [r EXCEPT !.expired = x].of = r.of
             /\ [r EXCEPT !.expired = x].holder = r.holder
             /\ [r EXCEPT !.expired = x].purpose = r.purpose
  BY <1>3 DEF LeaseSet
<1>4. /\ lease' \in [Leases -> LeaseSet]
      /\ \A k \in Leases : /\ lease'[k].of = lease[k].of
                           /\ lease'[k].holder = lease[k].holder
                           /\ lease'[k].purpose = lease[k].purpose
  BY <1>1, <1>2, <1>3
<1>5. UNCHANGED <<config, process, status, target, admission, write, journal>>
  BY DEF LeaseLapses, LeaseRenewed
<1>6. TypeOK'
  BY <1>4, <1>5 DEF Inv, TypeOK, LeaseSet, config, process
<1>7. Submission'
  BY <1>5 DEF Inv, Submission, InFlight
<1>8. \A w \in Work : write'[w] \in {"leased", "writing"} /\ target'[w] # Local =>
        \E k \in Leases : /\ lease'[k].of = target'[w]
                          /\ lease'[k].holder = w /\ lease'[k].purpose = "write"
  BY <1>4, <1>5 DEF Inv, LeasesHold, InFlight
<1> QED BY <1>4, <1>5, <1>6, <1>7, <1>8, RowsKept DEF config

\* Admission leases come and go without touching those of the writes.
LEMMA AdmissionLeases ==
  ASSUME Inv, NEW w \in Work,
         \/ lease' = lease
         \/ \E a \in Targets : Acquire(w, a, "admission")
         \/ Release(w, "admission")
  PROVE  /\ lease' \in [Leases -> LeaseSet]
         /\ \A l \in Leases : lease'[l].of \in {Local, lease[l].of} \/ lease'[l].of \in rows
         /\ \A l \in Leases :
              lease[l].purpose = "write" /\ lease[l].of # Local => lease'[l] = lease[l]
<1>1. TypeOK /\ lease \in [Leases -> LeaseSet]
  BY DEF Inv, TypeOK, LeaseSet
<1>2. CASE lease' = lease
  BY <1>1, <1>2
<1>3. ASSUME NEW a \in Targets, Acquire(w, a, "admission")
      PROVE  /\ lease' \in [Leases -> LeaseSet]
             /\ a = Local \/ a \in rows
             /\ \A l \in Leases : lease'[l] = lease[l] \/ (lease[l].of = Local /\ lease'[l].of = a)
  BY <1>1, <1>3, Acquired DEF Exists
<1>4. CASE Release(w, "admission")
  BY <1>1, <1>4, Released
<1> QED BY <1>2, <1>3, <1>4

\* Submission: no account is lost by a row that is not there yet.
LEMMA SubmissionSteps ==
  ASSUME Inv, NEW w \in Work,
         \/ PinDefault(w) \/ Admit(w) \/ InsertRow(w) \/ Submitted(w) \/ InsertJob(w)
         \/ \E a \in Targets : PinChosen(w, a)
         \/ Rejected(w)
  PROVE  Inv'
<1>1. /\ TypeOK /\ Submission
      /\ lease \in [Leases -> LeaseSet] /\ target \in [Work -> Targets]
      /\ status \in [Work -> {"none", "live", "resumable", "done"}]
      /\ admission \in [Work -> {"idle", "pinned", "admitted", "created"}]
      /\ Tasks \subseteq Work /\ Jobs \subseteq Work /\ Uploads \subseteq Work
      /\ current \in Targets
  BY DEF Inv, TypeOK, LeaseSet, Work
<1>2. /\ rows' = rows /\ active' = active /\ setting' = setting /\ current' = current
      /\ up' = up /\ init' = init /\ crashes' = crashes /\ disturbed' = disturbed
      /\ write' = write /\ journal' = journal
  BY DEF PinDefault, Admit, InsertRow, Submitted, InsertJob, PinChosen, Rejected, config, process
<1>3. \A l \in Leases : lease[l].of = Local \/ lease[l].of \in rows
  BY DEF Inv, LeasesHold, Exists
<1>4. /\ target' \in [Work -> Targets]
      /\ \A v \in Work : target'[v] = target[v] \/ (v = w /\ status[w] = "none" /\ write[w] = "idle")
  BY <1>1 DEF PinDefault, Admit, InsertRow, Submitted, InsertJob, PinChosen, Rejected, Targets,
     Submission
<1>5. /\ status' \in [Work -> {"none", "live", "resumable", "done"}]
      /\ \A v \in Work : \/ status'[v] = status[v]
                         \/ v = w /\ status'[v] = "live" /\ w \notin Uploads
                            /\ Exists(target'[w]) /\ admission'[w] \notin {"pinned", "admitted"}
  BY <1>1, NamesDiffer DEF PinDefault, Admit, InsertRow, Submitted, InsertJob, PinChosen, Rejected,
     Exists
<1>6. admission' \in [Work -> {"idle", "pinned", "admitted", "created"}]
  BY <1>1 DEF PinDefault, Admit, InsertRow, Submitted, InsertJob, PinChosen, Rejected
<1>7. \A v \in Work : admission'[v] \in {"pinned", "admitted"} =>
                        status[v] = "none" /\ status'[v] = "none"
  BY <1>1, <1>5 DEF PinDefault, Admit, InsertRow, Submitted, InsertJob, PinChosen, Rejected,
     Submission
<1>8. \/ lease' = lease
      \/ \E a \in Targets : Acquire(w, a, "admission")
      \/ Release(w, "admission")
  BY <1>1 DEF PinDefault, Admit, InsertRow, Submitted, InsertJob, PinChosen, Rejected
<1>9. /\ lease' \in [Leases -> LeaseSet]
      /\ \A l \in Leases : lease'[l].of \in {Local, lease[l].of} \/ lease'[l].of \in rows
      /\ \A l \in Leases :
           lease[l].purpose = "write" /\ lease[l].of # Local => lease'[l] = lease[l]
  BY <1>8, AdmissionLeases
<1>10. TypeOK'
  BY <1>1, <1>2, <1>4, <1>5, <1>6, <1>9 DEF TypeOK, LeaseSet
<1>11. Submission'
  BY <1>1, <1>2, <1>5, <1>7 DEF Submission, InFlight
<1>12. ASSUME NEW v \in Work, write'[v] \in {"leased", "writing"}
       PROVE  target'[v] # Local =>
                \E k \in Leases : /\ lease'[k].of = target'[v]
                                  /\ lease'[k].holder = v /\ lease'[k].purpose = "write"
  <2>1. write[v] \in {"leased", "writing"} /\ target'[v] = target[v]
    BY <1>2, <1>4, <1>12
  <2> QED BY <1>9, <2>1, LeasesKept
<1>13. ASSUME NEW t \in Tasks, status'[t] \in {"live", "resumable"}
       PROVE  \/ status[t] \in {"live", "resumable"} /\ target'[t] = target[t]
              \/ Exists(target'[t])
  BY <1>1, <1>4, <1>5, <1>13
<1>14. ASSUME NEW v \in Work, v \in journal'
       PROVE  v \in journal /\ target'[v] = target[v]
  BY <1>1, <1>2, <1>4, <1>14 DEF Submission
<1> QED BY <1>2, <1>9, <1>10, <1>11, <1>12, <1>13, <1>14, RowsKept

\* The progress of a write and of its journal, under the lease it took.
LEMMA WriteSteps ==
  ASSUME Inv, NEW w \in Work,
         StartWriting(w) \/ CommitIndex(w) \/ WriteFails(w) \/ Reconcile(w)
  PROVE  Inv'
<1>1. /\ TypeOK /\ Submission /\ Tasks \cup Jobs = Work \ Uploads
      /\ write \in [Work -> {"idle", "leased", "writing", "ended"}]
  BY NamesDiffer DEF Inv, TypeOK, Work
<1>2. /\ rows' = rows /\ active' = active /\ setting' = setting /\ current' = current
      /\ up' = up /\ init' = init /\ crashes' = crashes /\ disturbed' = disturbed
      /\ status' = status /\ target' = target /\ admission' = admission /\ lease' = lease
  BY DEF StartWriting, CommitIndex, WriteFails, Reconcile, config, process
<1>3. /\ write' \in [Work -> {"idle", "leased", "writing", "ended"}]
      /\ \A v \in Work : write'[v] \in {"leased", "writing"} => write[v] \in {"leased", "writing"}
  BY <1>1 DEF StartWriting, CommitIndex, WriteFails, Reconcile
<1>4. \A v \in journal' : v \in journal \/ (v = w /\ w \notin Uploads /\ write[w] = "leased")
  BY DEF StartWriting, CommitIndex, WriteFails, Reconcile
<1>5. TypeOK'
  BY <1>1, <1>2, <1>3, <1>4 DEF TypeOK
<1>6. Submission'
  BY <1>1, <1>2, <1>3, <1>4 DEF Submission, InFlight
<1>7. ASSUME NEW v \in Work, write'[v] \in {"leased", "writing"}
      PROVE  target'[v] # Local =>
               \E k \in Leases : /\ lease'[k].of = target'[v]
                                 /\ lease'[k].holder = v /\ lease'[k].purpose = "write"
  BY <1>2, <1>3, <1>7, LeasesKept
<1> QED BY <1>2, <1>4, <1>5, <1>6, <1>7, RowsKept

\* Completion, failure, cancellation and retry keep the target of the row.
LEMMA StatusSteps ==
  ASSUME Inv, NEW w \in Work, Settle(w) \/ Retry(w)
  PROVE  Inv'
<1>1. /\ TypeOK /\ Submission /\ Tasks \subseteq Work
      /\ status \in [Work -> {"none", "live", "resumable", "done"}]
  BY DEF Inv, TypeOK, Work
<1>2. /\ rows' = rows /\ active' = active /\ setting' = setting /\ current' = current
      /\ up' = up /\ init' = init /\ crashes' = crashes /\ disturbed' = disturbed
      /\ target' = target /\ admission' = admission /\ write' = write
      /\ journal' = journal /\ lease' = lease
  BY DEF Settle, Retry, config, process
<1>3. /\ status' \in [Work -> {"none", "live", "resumable", "done"}]
      /\ \A v \in Work : \/ status'[v] = status[v]
                         \/ status[v] \in {"live", "resumable"} /\ status'[v] # "none"
  BY <1>1 DEF Settle, Retry
<1>4. TypeOK'
  BY <1>1, <1>2, <1>3 DEF TypeOK
<1>5. Submission'
  BY <1>1, <1>2, <1>3 DEF Submission, InFlight
<1>6. ASSUME NEW v \in Work, write'[v] \in {"leased", "writing"}
      PROVE  target'[v] # Local =>
               \E k \in Leases : /\ lease'[k].of = target'[v]
                                 /\ lease'[k].holder = v /\ lease'[k].purpose = "write"
  BY <1>2, <1>6, LeasesKept
<1>7. ASSUME NEW t \in Tasks, status'[t] \in {"live", "resumable"}
      PROVE  status[t] \in {"live", "resumable"} /\ target'[t] = target[t]
  BY <1>1, <1>2, <1>3, <1>7
<1> QED BY <1>2, <1>4, <1>5, <1>6, <1>7, RowsKept

\* The write takes its lease on the target it was pinned to.
LEMMA TakeLeaseStep == ASSUME Inv, NEW w \in Work, TakeLease(w) PROVE Inv'
<1>1. /\ TypeOK /\ Submission /\ target[w] \in Targets /\ Acquire(w, target[w], "write")
      /\ write \in [Work -> {"idle", "leased", "writing", "ended"}]
  BY DEF Inv, TypeOK, TakeLease
<1>2. /\ rows' = rows /\ active' = active /\ setting' = setting /\ current' = current
      /\ up' = up /\ init' = init /\ crashes' = crashes /\ disturbed' = disturbed
      /\ status' = status /\ target' = target /\ admission' = admission /\ journal' = journal
      /\ write' = [write EXCEPT ![w] = "leased"]
  BY DEF TakeLease, config, process
<1>3. /\ lease' \in [Leases -> LeaseSet]
      /\ target[w] = Local \/ target[w] \in rows
      /\ \A l \in Leases : lease'[l] = lease[l] \/ (lease[l].of = Local /\ lease'[l].of = target[w])
      /\ target[w] # Local => \E l \in Leases : /\ lease'[l].of = target[w] /\ lease'[l].holder = w
                                               /\ lease'[l].purpose = "write"
  BY <1>1, Acquired DEF Exists
<1>4. w \in Uploads \/ status[w] = "live"
  BY DEF TakeLease
<1>5. TypeOK'
  BY <1>1, <1>2, <1>3 DEF TypeOK, LeaseSet
<1>6. Submission'
  BY <1>1, <1>2, <1>4 DEF Submission, InFlight
<1>7. ASSUME NEW v \in Work, write'[v] \in {"leased", "writing"}
      PROVE  target'[v] # Local =>
               \E k \in Leases : /\ lease'[k].of = target'[v]
                                 /\ lease'[k].holder = v /\ lease'[k].purpose = "write"
  <2>1. CASE v = w
    BY <1>2, <1>3, <2>1
  <2>2. CASE v # w
    <3>1. write[v] \in {"leased", "writing"} /\ target'[v] = target[v]
      BY <1>1, <1>2, <1>7, <2>2
    <3>2. \A k \in Leases : lease[k].of # Local => lease'[k] = lease[k]
      BY <1>3
    <3> QED BY <3>1, <3>2, LeasesKept
  <2> QED BY <2>1, <2>2
<1> QED BY <1>2, <1>3, <1>5, <1>6, <1>7, RowsKept

\* The lease is released when the write has ended, and a web upload forgets its
\* target with it.
LEMMA EndWriteStep == ASSUME Inv, NEW w \in Work, EndWrite(w) PROVE Inv'
<1>1. /\ TypeOK /\ Submission /\ Release(w, "write") /\ write[w] = "ended"
      /\ write \in [Work -> {"idle", "leased", "writing", "ended"}]
      /\ target \in [Work -> Targets]
      /\ admission \in [Work -> {"idle", "pinned", "admitted", "created"}]
      /\ Uploads \cap Tasks = {} /\ Tasks \subseteq Work
  BY NamesDiffer DEF Inv, TypeOK, EndWrite, Work
<1>2. /\ rows' = rows /\ active' = active /\ setting' = setting /\ current' = current
      /\ up' = up /\ init' = init /\ crashes' = crashes /\ disturbed' = disturbed
      /\ status' = status /\ journal' = journal /\ write' = [write EXCEPT ![w] = "idle"]
  BY DEF EndWrite, config, process
<1>3. /\ target' \in [Work -> Targets]
      /\ \A v \in Work : target'[v] = target[v] \/ (v = w /\ w \in Uploads)
      /\ admission' \in [Work -> {"idle", "pinned", "admitted", "created"}]
      /\ \A v \in Work : admission'[v] \in {"pinned", "admitted"} => admission'[v] = admission[v]
  BY <1>1 DEF EndWrite, Targets
<1>4. /\ lease' \in [Leases -> LeaseSet]
      /\ \A l \in Leases :
           \/ lease'[l] = lease[l]
           \/ /\ lease[l].holder = w /\ lease[l].purpose = "write"
              /\ lease'[l].of \in {Local, lease[l].of}
  BY <1>1, Released
<1>5. TypeOK'
  BY <1>1, <1>2, <1>3, <1>4 DEF TypeOK, LeaseSet
<1>6. Submission'
  BY <1>1, <1>2, <1>3 DEF Submission, InFlight
<1>7. ASSUME NEW v \in Work, write'[v] \in {"leased", "writing"}
      PROVE  target'[v] # Local =>
               \E k \in Leases : /\ lease'[k].of = target'[v]
                                 /\ lease'[k].holder = v /\ lease'[k].purpose = "write"
  <2>1. v # w /\ write[v] \in {"leased", "writing"} /\ target'[v] = target[v]
    BY <1>1, <1>2, <1>3, <1>7
  <2>2. \A k \in Leases : lease[k].holder = v => lease'[k] = lease[k]
    BY <1>4, <2>1
  <2> QED BY <2>1, <2>2, LeasesKept
<1>8. ASSUME NEW t \in Tasks, status'[t] \in {"live", "resumable"}
      PROVE  status[t] \in {"live", "resumable"} /\ target'[t] = target[t]
  BY <1>1, <1>2, <1>3, <1>8
<1>9. ASSUME NEW v \in Work, v \in journal' PROVE v \in journal /\ target'[v] = target[v]
  <2>1. v \in journal /\ (v \in Uploads => status[v] = "none") /\ status[v] # "none"
    BY <1>1, <1>2, <1>9 DEF Submission
  <2> QED BY <1>3, <2>1
<1> QED BY <1>2, <1>4, <1>5, <1>6, <1>7, <1>8, <1>9, RowsKept

\* A deletion: every user of the account refuses it, those in flight by their lease.
LEMMA DeleteStep == ASSUME Inv, NEW a \in Accounts, DeleteAccount(a) PROVE Inv'
<1>1. /\ active' = active /\ setting' = setting /\ current' = current
      /\ up' = up /\ init' = init /\ crashes' = crashes /\ disturbed' = disturbed
      /\ status' = status /\ target' = target /\ admission' = admission /\ write' = write
      /\ journal' = journal /\ lease' = lease
      /\ rows' = rows \ {a} /\ a \notin active
  BY DEF DeleteAccount, process, usage
<1>2. TypeOK'
  BY <1>1 DEF Inv, TypeOK
<1>3. Submission'
  BY <1>1 DEF Inv, Submission, InFlight
<1>4. \A l \in Leases : lease[l].of # a
  BY DEF DeleteAccount, LeaseRefuses
<1>5. LeasesHold'
  BY <1>1, <1>4 DEF Inv, LeasesHold, InFlight, Exists
<1>6. LiveTasksHaveAccount'
  <2>1. \A t \in Tasks : status[t] \in {"live", "resumable"} => target[t] # a
    BY DEF DeleteAccount, TaskRefuses
  <2> QED BY <1>1, <2>1 DEF Inv, LiveTasksHaveAccount, Exists
<1>7. WritesHaveAccount'
  <2>1. \A w \in InFlight : target[w] # a \/ target[w] = Local
    BY <1>4 DEF Inv, LeasesHold
  <2>2. \A w \in journal : target[w] # a
    BY DEF DeleteAccount, JournalRefuses
  <2> QED BY <1>1, <2>1, <2>2 DEF Inv, WritesHaveAccount, InFlight, Exists
<1> QED BY <1>2, <1>3, <1>5, <1>6, <1>7 DEF Inv

--------------------------------------------------------------------------------
\* Inv is inductive.
LEMMA EveryStep == Inv /\ [Next]_vars => Inv'
<1> SUFFICES ASSUME Inv, [Next]_vars PROVE Inv'
  OBVIOUS
<1>1. CASE UNCHANGED vars
  <2>1. TypeOK'
    BY <1>1 DEF Inv, TypeOK, vars, config, process, usage
  <2> QED BY <1>1, <2>1, UsageKept DEF vars, config
<1>2. CASE Next
  <2>1. CASE \/ \E s \in Switches, a \in Targets : SwitchDefault(s, a)
             \/ \E i \in Inits :
                  ReadSetting(i) \/ ReadAccounts(i) \/ InitFails(i) \/ InstallClients(i)
             \/ Start
    BY <2>1, SettingSteps
  <2>2. CASE Crash
    BY <2>2, CrashStep
  <2>3. CASE \E l \in Leases : LeaseLapses(l) \/ LeaseRenewed(l)
    BY <2>3, LeaseSteps
  <2>4. ASSUME NEW w \in Work,
               \/ PinDefault(w) \/ Admit(w) \/ InsertRow(w) \/ Submitted(w) \/ InsertJob(w)
               \/ \E a \in Targets : PinChosen(w, a)
               \/ Rejected(w)
        PROVE  Inv'
    BY <2>4, SubmissionSteps
  <2>5. ASSUME NEW w \in Work,
               \/ TakeLease(w) \/ StartWriting(w) \/ CommitIndex(w) \/ WriteFails(w)
               \/ EndWrite(w) \/ Reconcile(w) \/ Settle(w) \/ Retry(w)
        PROVE  Inv'
    BY <2>5, TakeLeaseStep, WriteSteps, EndWriteStep, StatusSteps
  <2>6. CASE \E a \in Accounts : DeleteAccount(a)
    BY <2>6, DeleteStep
  <2> QED BY <1>2, <2>1, <2>2, <2>3, <2>4, <2>5, <2>6 DEF Next
<1> QED BY <1>1, <1>2

\* Inv holds in every state of every behaviour.
LEMMA Inductive == Spec => []Inv
<1>1. Init => Inv
  BY AtStart
<1>2. Inv /\ [Next]_vars => Inv'
  BY EveryStep
<1> QED BY <1>1, <1>2, PTL DEF Spec

\* The state keeps its types, and an active mark never outlives its account.
THEOREM TypesHold == Spec => []TypeOK
<1>1. Inv => TypeOK
  BY DEF Inv
<1> QED BY <1>1, Inductive, PTL

\* A session or task that can still run, or be retried, has its account.
THEOREM LiveTasksKeepAccount == Spec => []LiveTasksHaveAccount
<1>1. Inv => LiveTasksHaveAccount
  BY DEF Inv
<1> QED BY <1>1, Inductive, PTL

\* A write in flight, and one to be reconciled, has its account.
THEOREM WritesKeepAccount == Spec => []WritesHaveAccount
<1>1. Inv => WritesHaveAccount
  BY DEF Inv
<1> QED BY <1>1, Inductive, PTL

\* The setting and the active rows agree at every commit of a switch.
THEOREM SettingStaysConsistent == Spec => []SettingIsConsistent
<1>1. ASSUME NEW a \in Targets
      PROVE  Consistent(Provider(a), {a} \ {Local})
  <2>1. CASE a = Local
    BY <2>1 DEF Consistent, Provider
  <2>2. CASE a # Local
    BY <2>2 DEF Consistent, Provider, Targets
  <2> QED BY <2>1, <2>2
<1>2. Init => SettingIsConsistent
  BY <1>1 DEF Init, SettingIsConsistent
<1>3. SettingIsConsistent /\ [Next]_vars => SettingIsConsistent'
  <2> SUFFICES ASSUME SettingIsConsistent, [Next]_vars PROVE SettingIsConsistent'
    OBVIOUS
  <2>1. CASE \E s \in Switches, a \in Targets : SwitchDefault(s, a)
    BY <1>1, <2>1 DEF SwitchDefault, SettingIsConsistent
  <2>2. CASE ~(\E s \in Switches, a \in Targets : SwitchDefault(s, a))
    <3>1. active' = active /\ setting' = setting
      BY <2>2 DEF Next, vars, config, ReadSetting, ReadAccounts, InitFails, InstallClients,
         Crash, Start, LeaseLapses, LeaseRenewed, PinDefault, PinChosen, Admit, InsertRow,
         Submitted, InsertJob, Rejected, TakeLease, StartWriting, CommitIndex, WriteFails,
         EndWrite, Reconcile, Settle, Retry, DeleteAccount
    <3> QED BY <3>1 DEF SettingIsConsistent, Consistent
  <2> QED BY <2>1, <2>2
<1> QED BY <1>2, <1>3, PTL DEF Spec

--------------------------------------------------------------------------------
(* The copy in memory.  While nothing has disturbed an initialisation at most   *)
(* one is under way, and the accounts it has read are those of the last switch: *)
(* a switch that starts while another is under way disturbs both.               *)

Undisturbed ==
  ~disturbed =>
    /\ \A i, j \in Inits : Reading(i) /\ Reading(j) => i = j
    /\ \A i \in Inits : init[i].at = "accounts" => init[i].active = active

\* The process reads its settings before it serves anybody.
BootFirst ==
  \A i \in Inits : Reading(i) => (i = Boot <=> ~up)

Memory == BootFirst /\ Undisturbed /\ MemoryFollowsSetting

\* Steps that are not of an initialisation leave it, the setting and memory alone.
LEMMA MemoryKept ==
  ASSUME Memory, UNCHANGED <<active, current, up, init, disturbed>>
  PROVE  Memory'
BY DEF Memory, BootFirst, Undisturbed, MemoryFollowsSetting, Reading

LEMMA SwitchKeepsMemory ==
  ASSUME TypeOK, Memory, NEW s \in Switches, NEW a \in Targets, SwitchDefault(s, a)
  PROVE  Memory'
<1>1. s \in Inits /\ s # Boot /\ up /\ up' /\ init[s].at = "idle"
  BY NamesDiffer DEF Inits, SwitchDefault
<1>2. /\ Reading(s)' /\ init'[s].at = "committed"
      /\ \A i \in Inits \ {s} : init'[i] = init[i]
  BY <1>1 DEF SwitchDefault, Reading, TypeOK
<1>3. BootFirst'
  BY <1>1, <1>2 DEF Memory, BootFirst, Reading
<1>4. ~disturbed' => \A i \in Inits \ {s} : ~Reading(i)
  BY DEF SwitchDefault
<1>5. Undisturbed'
  BY <1>2, <1>4 DEF Undisturbed, Reading
<1> QED BY <1>1, <1>2, <1>3, <1>5 DEF Memory, MemoryFollowsSetting

LEMMA InitKeepsMemory ==
  ASSUME TypeOK, Memory, NEW i \in Inits,
         ReadSetting(i) \/ ReadAccounts(i) \/ InitFails(i) \/ InstallClients(i)
  PROVE  Memory'
<1>1. \A j \in Inits \ {i} : init'[j] = init[j]
  BY DEF ReadSetting, ReadAccounts, InitFails, InstallClients, TypeOK
<1>2. active' = active /\ Reading(i)
  BY DEF ReadSetting, ReadAccounts, InitFails, InstallClients, Reading, config
<1>3. CASE ReadSetting(i) \/ ReadAccounts(i)
  <2>1. /\ init'[i].at \in {"setting", "accounts"}
        /\ init'[i].at = "accounts" => init'[i].active = active
        /\ UNCHANGED <<current, up, disturbed>>
    BY <1>3 DEF ReadSetting, ReadAccounts, TypeOK
  <2>2. Reading(i)' /\ \A j \in Inits : Reading(j)' <=> Reading(j)
    BY <1>1, <1>2, <2>1 DEF Reading
  <2> QED BY <1>1, <1>2, <2>1, <2>2 DEF Memory, BootFirst, Undisturbed, MemoryFollowsSetting
<1>4. CASE InitFails(i)
  <2>1. /\ ~Reading(i)' /\ init'[i].at = "idle" /\ UNCHANGED <<current, up>>
        /\ disturbed' = (disturbed \/ i # Boot)
    BY <1>4 DEF InitFails, TypeOK, Reading, Idle
  <2>2. ~disturbed' => ~up /\ ~up'
    BY <1>2, <2>1 DEF Memory, BootFirst
  <2>3. BootFirst' /\ Undisturbed'
    BY <1>1, <1>2, <2>1 DEF Memory, BootFirst, Undisturbed, Reading
  <2> QED BY <2>2, <2>3 DEF Memory, MemoryFollowsSetting
<1>5. CASE InstallClients(i)
  <2>1. /\ ~Reading(i)' /\ init'[i].at = "idle" /\ up' = TRUE
        /\ disturbed' = disturbed /\ current' = Chosen(init[i].active)
        /\ init[i].at = "accounts"
    BY <1>5 DEF InstallClients, TypeOK, Reading, Idle
  <2>2. ~disturbed => \A j \in Inits : ~Reading(j)'
    BY <1>1, <1>2, <2>1 DEF Memory, Undisturbed, Reading
  <2>3. ~up => \A j \in Inits : ~Reading(j)'
    <3>1. ~up => \A j \in Inits : Reading(j) => j = i
      BY <1>2 DEF Memory, BootFirst
    <3> QED BY <1>1, <2>1, <3>1 DEF Reading
  <2>4. BootFirst'
    <3> SUFFICES ASSUME NEW j \in Inits, Reading(j)'
                 PROVE  j # Boot
      BY <2>1 DEF BootFirst
    <3>1. up /\ Reading(j)
      BY <1>1, <2>1, <2>3 DEF Reading
    <3> QED BY <3>1 DEF Memory, BootFirst
  <2>5. ~disturbed => init[i].active = active
    BY <2>1 DEF Memory, Undisturbed
  <2> QED BY <1>1, <1>2, <2>1, <2>2, <2>4, <2>5 DEF Memory, Undisturbed, MemoryFollowsSetting, Reading
<1> QED BY <1>3, <1>4, <1>5

LEMMA RestartKeepsMemory ==
  ASSUME TypeOK, Memory, Crash \/ Start
  PROVE  Memory'
<1>1. CASE Crash
  BY <1>1 DEF Crash, Memory, BootFirst, Undisturbed, MemoryFollowsSetting, Reading, Idle, Inits
<1>2. CASE Start
  <2>1. /\ ~up /\ ~up' /\ init'[Boot].at = "committed" /\ UNCHANGED <<active, disturbed>>
        /\ \A j \in Inits \ {Boot} : init'[j] = init[j]
    BY <1>2 DEF Start, TypeOK, Inits, config
  <2>2. \A j \in Inits \ {Boot} : ~Reading(j)'
    BY <2>1 DEF Memory, BootFirst, Reading
  <2> QED BY <2>1, <2>2 DEF Memory, BootFirst, Undisturbed, MemoryFollowsSetting, Reading
<1> QED BY <1>1, <1>2

\* The default target in memory is the configured one whenever nothing is rebuilding
\* it and nothing has gone wrong since the last start or the last switch that ran
\* alone (switchStorageAccount, StorageManager.init).
THEOREM MemoryKeepsFollowing == Spec => []MemoryFollowsSetting
<1>1. Init => Memory
  <2> SUFFICES ASSUME Init PROVE Memory
    OBVIOUS
  <2>1. \A i \in Inits : ~Reading(i) /\ init[i].at = "idle"
    BY DEF Init, Reading, Idle
  <2>2. PICK a \in Targets : active = {a} \ {Local} /\ current = a
    BY DEF Init
  <2>3. current = Chosen(active)
    BY <2>2 DEF Chosen
  <2> QED BY <2>1, <2>3 DEF Memory, BootFirst, Undisturbed, MemoryFollowsSetting
<1>2. TypeOK /\ Memory /\ [Next]_vars => Memory'
  <2> SUFFICES ASSUME TypeOK, Memory, [Next]_vars PROVE Memory'
    OBVIOUS
  <2>1. CASE \E s \in Switches, a \in Targets : SwitchDefault(s, a)
    BY <2>1, SwitchKeepsMemory
  <2>2. CASE \E i \in Inits :
               ReadSetting(i) \/ ReadAccounts(i) \/ InitFails(i) \/ InstallClients(i)
    BY <2>2, InitKeepsMemory
  <2>3. CASE Crash \/ Start
    BY <2>3, RestartKeepsMemory
  <2>4. CASE UNCHANGED <<active, current, up, init, disturbed>>
    BY <2>4, MemoryKept
  <2>5. CASE \/ \E l \in Leases : LeaseLapses(l) \/ LeaseRenewed(l)
             \/ \E a \in Accounts : DeleteAccount(a)
             \/ UNCHANGED vars
    BY <2>4, <2>5 DEF LeaseLapses, LeaseRenewed, DeleteAccount, vars, config, process
  <2>6. ASSUME NEW w \in Work,
               \/ PinDefault(w) \/ Admit(w) \/ InsertRow(w) \/ Submitted(w) \/ InsertJob(w)
               \/ \E a \in Targets : PinChosen(w, a)
               \/ Rejected(w) \/ TakeLease(w) \/ StartWriting(w) \/ CommitIndex(w)
               \/ WriteFails(w) \/ EndWrite(w) \/ Reconcile(w) \/ Settle(w) \/ Retry(w)
        PROVE  Memory'
    <3>1. UNCHANGED <<config, process>>
      BY <2>6 DEF PinDefault, Admit, InsertRow, Submitted, InsertJob, PinChosen, Rejected,
         TakeLease, StartWriting, CommitIndex, WriteFails, EndWrite, Reconcile, Settle, Retry
    <3> QED BY <2>4, <3>1 DEF config, process
  <2> QED BY <2>1, <2>2, <2>3, <2>5, <2>6 DEF Next
<1>3. Memory => MemoryFollowsSetting
  BY DEF Memory
<1> QED BY <1>1, <1>2, <1>3, TypesHold, PTL DEF Spec

--------------------------------------------------------------------------------
(* Jobs that have lost their account.                                           *)

LEMMA OrphansAreRetried ==
  ASSUME Inv, Next, NEW j \in Jobs, j \in Orphans', j \notin Orphans
  PROVE  status[j] = "resumable"
<1>1. j \in Work /\ j \notin Uploads /\ j \notin Tasks
  BY NamesDiffer DEF Work
<1>2. status'[j] = "live" /\ ~Exists(target[j])' /\ (status[j] = "live" => Exists(target[j]))
  BY DEF Orphans
<1>3. CASE \/ \E s \in Switches, a \in Targets : SwitchDefault(s, a)
           \/ \E i \in Inits : ReadSetting(i) \/ ReadAccounts(i) \/ InitFails(i) \/ InstallClients(i)
           \/ Start
           \/ \E l \in Leases : LeaseLapses(l) \/ LeaseRenewed(l)
  <2>1. UNCHANGED <<rows, status, target>>
    BY <1>3 DEF SwitchDefault, ReadSetting, ReadAccounts, InitFails, InstallClients, Start,
       LeaseLapses, LeaseRenewed, config, usage
  <2> QED BY <1>2, <2>1 DEF Exists
<1>4. CASE Crash
  <2>1. rows' = rows /\ status' = status
    BY <1>4 DEF Crash, config
  <2>2. target'[j] = target[j]
    BY <1>1, <1>2, <1>4, <2>1 DEF Crash
  <2> QED BY <1>2, <2>1, <2>2 DEF Exists
<1>5. CASE \E a \in Accounts : DeleteAccount(a)
  <2>1. PICK a \in Accounts : DeleteAccount(a)
    BY <1>5
  <2>2. status' = status /\ target' = target /\ rows' = rows \ {a} /\ ~JobRefuses(a)
    BY <2>1 DEF DeleteAccount, usage
  <2> QED BY <1>2, <2>2 DEF JobRefuses, Exists
<1>6. ASSUME NEW w \in Work,
             \/ PinDefault(w) \/ Admit(w) \/ InsertRow(w) \/ Submitted(w) \/ InsertJob(w)
             \/ \E a \in Targets : PinChosen(w, a)
             \/ Rejected(w) \/ TakeLease(w) \/ StartWriting(w) \/ CommitIndex(w)
             \/ WriteFails(w) \/ EndWrite(w) \/ Reconcile(w) \/ Settle(w) \/ Retry(w)
      PROVE  status[j] = "resumable"
  <2>1. /\ rows' = rows
        /\ status \in [Work -> {"none", "live", "resumable", "done"}]
        /\ target \in [Work -> Targets]
    BY <1>6 DEF Inv, TypeOK, PinDefault, Admit, InsertRow, Submitted, InsertJob, PinChosen,
       Rejected, TakeLease, StartWriting, CommitIndex, WriteFails, EndWrite, Reconcile,
       Settle, Retry, config
  <2>2. CASE PinDefault(w) \/ Rejected(w) \/ \E a \in Targets : PinChosen(w, a)
    <3>1. status' = status /\ status[w] = "none"
      BY <2>2 DEF PinDefault, Rejected, PinChosen, Inv, Submission
    <3>2. j # w /\ target'[j] = target[j]
      BY <1>1, <1>2, <2>1, <2>2, <3>1 DEF PinDefault, Rejected, PinChosen
    <3> QED BY <1>2, <2>1, <3>1, <3>2 DEF Exists
  <2>3. CASE EndWrite(w)
    <3>1. status' = status /\ target'[j] = target[j]
      BY <1>1, <2>1, <2>3 DEF EndWrite
    <3> QED BY <1>2, <2>1, <3>1 DEF Exists
  <2>4. CASE \/ Admit(w) \/ Submitted(w) \/ TakeLease(w) \/ StartWriting(w) \/ CommitIndex(w)
             \/ WriteFails(w) \/ Reconcile(w)
    BY <1>2, <2>1, <2>4 DEF Admit, Submitted, TakeLease, StartWriting, CommitIndex, WriteFails,
       Reconcile, Exists
  <2>5. CASE InsertRow(w) \/ InsertJob(w)
    BY <1>1, <1>2, <2>1, <2>5 DEF InsertRow, InsertJob, Exists
  <2>6. CASE Settle(w) \/ Retry(w)
    BY <1>1, <1>2, <2>1, <2>6 DEF Settle, Retry, Exists
  <2> QED BY <1>6, <2>2, <2>3, <2>4, <2>5, <2>6
<1> QED BY <1>3, <1>4, <1>5, <1>6 DEF Next

\* A job that is live loses its account by one way only, the retry of a job whose
\* account was deleted after it ended: deletions see every job that is not finished
\* (deleteStorageAccount, createJob, retryTelegramBackgroundJob).
THEOREM OrphansComeFromRetries == Spec => OnlyRetryOrphans
<1>1. Inv /\ [Next]_vars => [\A j \in Orphans' \ Orphans : status[j] = "resumable"]_vars
  <2> SUFFICES ASSUME Inv, Next, NEW j \in Orphans' \ Orphans PROVE status[j] = "resumable"
    OBVIOUS
  <2>1. j \in Jobs
    BY DEF Orphans
  <2> QED BY <2>1, OrphansAreRetried
<1> QED BY <1>1, Inductive, PTL DEF Spec, OnlyRetryOrphans
================================================================================
