---------------------------- MODULE StorageAccounts ----------------------------
(***************************************************************************)
(* Storage accounts: which of them is the default target of new work, the  *)
(* copy of that choice in the storage manager's memory, the work that uses *)
(* an account, and the deletion of an account beside all of it             *)
(* (storageAccountLifecycle.ts, storageAccountLease.ts,                    *)
(* storageAccountOperation.ts, StorageManager in storage.ts and the        *)
(* admission of work in the upload routes and the bots).                   *)
(*                                                                         *)
(* A transaction that locks the account's row FOR UPDATE (a switch, a      *)
(* deletion) excludes every transaction that takes FOR KEY SHARE on it (a  *)
(* lock for use, and the foreign key check of an inserted lease, session,  *)
(* task or journal row), so each of these is one step here.                *)
(***************************************************************************)
EXTENDS Naturals, FiniteSets

CONSTANTS
  Accounts,       \* rows of storage_accounts that exist at first
  Types,          \* kinds of provider (s3, webdav, ...)
  TypeOf,         \* storage_accounts.type
  Local,          \* the server's own disk, the target without an account
  Switches,       \* requests that change the default target
  Boot,           \* the initialisation of the process
  Uploads,        \* web uploads: one request, no row of their own
  Tasks,          \* chunk sessions and transfer tasks: rows with a foreign key
  Jobs,           \* Telegram jobs: the account is a JSON parameter
  Leases,         \* ids of storage_account_leases
  MaxCrashes      \* bound: process crashes

Work    == Uploads \cup Tasks \cup Jobs
Targets == Accounts \cup {Local}
Inits   == Switches \cup {Boot}
Nobody  == "nobody"

ASSUME NamesDiffer ==
  /\ TypeOf \in [Accounts -> Types]
  /\ Local \notin Accounts /\ Local \notin Types
  /\ Boot \notin Switches /\ Nobody \notin Work
  /\ Uploads \cap Tasks = {} /\ (Uploads \cup Tasks) \cap Jobs = {}
  /\ MaxCrashes \in Nat

VARIABLES
  rows,       \* ids in storage_accounts
  active,     \* rows with is_active
  setting,    \* system_settings.active_storage_provider
  current,    \* StorageManager.activeAccountId (Local for null)
  up,         \* the process serves requests
  init,       \* per Inits: how far the request is, what it has read
  status,     \* per Work: the state of its row
  target,     \* per Work: the account it was pinned to
  admission,  \* per Work: how far its submission is
  write,      \* per Work: how far its permanent write is
  journal,    \* Work whose write reconciliation is pending
  lease,      \* per lease id: the unreleased lease it names, if any
  crashes,    \* counts crashes, for the bound
  disturbed   \* history: an initialisation failed or was overtaken

config    == <<rows, active, setting>>
process   == <<current, up, init, crashes, disturbed>>
usage     == <<status, target, admission, write, journal, lease>>
vars      == <<config, process, usage>>

Idle == [at |-> "idle", setting |-> Local, active |-> {}]

\* The default target according to a provider name and the active rows.
Provider(a)    == IF a = Local THEN Local ELSE TypeOf[a]
Consistent(p, as) ==
  \/ p = Local /\ as = {}
  \/ \E a \in Accounts : as = {a} /\ TypeOf[a] = p
Chosen(as) == IF as = {} THEN Local ELSE CHOOSE a \in as : TRUE

Exists(a)   == a = Local \/ a \in rows
Reading(i)  == init[i].at \in {"committed", "setting", "accounts"}

\* A lease that is released or deleted with its account refuses nothing.
NoLease == [of |-> Local, holder |-> Nobody, purpose |-> "write", expired |-> FALSE]

TypeOK ==
  /\ rows \subseteq Accounts /\ active \subseteq rows
  /\ setting \in Types \cup {Local}
  /\ current \in Targets
  /\ up \in BOOLEAN /\ disturbed \in BOOLEAN /\ crashes \in 0 .. MaxCrashes
  /\ init \in [Inits ->
       [at : {"idle", "committed", "setting", "accounts"},
        setting : Types \cup {Local}, active : SUBSET Accounts]]
  /\ status \in [Work -> {"none", "live", "resumable", "done"}]
  /\ target \in [Work -> Targets]
  /\ admission \in [Work -> {"idle", "pinned", "admitted", "created"}]
  /\ write \in [Work -> {"idle", "leased", "writing", "ended"}]
  /\ journal \subseteq Tasks \cup Jobs
  /\ lease \in [Leases -> [of : Targets, holder : Work \cup {Nobody},
                           purpose : {"admission", "write"}, expired : BOOLEAN]]

Init ==
  /\ rows = Accounts
  /\ \E a \in Targets :
       /\ active = {a} \ {Local}
       /\ setting = Provider(a)
       /\ current = a
  /\ up = TRUE
  /\ init = [i \in Inits |-> Idle]
  /\ status = [w \in Work |-> "none"]
  /\ target = [w \in Work |-> Local]
  /\ admission = [w \in Work |-> "idle"]
  /\ write = [w \in Work |-> "idle"]
  /\ journal = {}
  /\ lease = [l \in Leases |-> NoLease]
  /\ crashes = 0
  /\ disturbed = FALSE

--------------------------------------------------------------------------------
(***************************************************************************)
(* The default target.  A switch, once its probe has succeeded, commits    *)
(* the new default and then rebuilds the memory from later queries.        *)
(***************************************************************************)
\* Slip: the other accounts keep their mark.
SwitchAdds(s, a) ==
  /\ up /\ init[s].at = "idle"
  /\ Exists(a)
  /\ active' = active \cup ({a} \ {Local})
  /\ setting' = Provider(a)
  /\ init' = [init EXCEPT ![s].at = "committed"]
  /\ disturbed' = \E i \in Inits \ {s} : Reading(i)
  /\ UNCHANGED <<rows, usage, current, up, crashes>>

SwitchDefault(s, a) ==
  /\ up /\ init[s].at = "idle"
  /\ Exists(a)
  /\ active' = {a} \ {Local}
  /\ setting' = Provider(a)
  /\ init' = [init EXCEPT ![s].at = "committed"]
  /\ disturbed' = \E i \in Inits \ {s} : Reading(i)
  /\ UNCHANGED <<rows, usage, current, up, crashes>>

ReadSetting(i) ==
  /\ init[i].at = "committed"
  /\ init' = [init EXCEPT ![i].at = "setting", ![i].setting = setting]
  /\ UNCHANGED <<config, usage, current, up, crashes, disturbed>>

ReadAccounts(i) ==
  /\ init[i].at = "setting"
  /\ Consistent(init[i].setting, active)
  /\ init' = [init EXCEPT ![i].at = "accounts", ![i].active = active]
  /\ UNCHANGED <<config, usage, current, up, crashes, disturbed>>

\* A query throws, or the setting and the accounts were read on two sides of
\* another switch.  At start-up this ends the process.
InitFails(i) ==
  /\ Reading(i)
  /\ init' = [init EXCEPT ![i] = Idle]
  /\ disturbed' = (disturbed \/ i # Boot)
  /\ UNCHANGED <<config, usage, current, up, crashes>>

\* Slip: only an active account is installed; local stays what memory holds.
InstallActiveOnly(i) ==
  /\ init[i].at = "accounts"
  /\ current' = IF init[i].active = {} THEN current ELSE Chosen(init[i].active)
  /\ init' = [init EXCEPT ![i] = Idle]
  /\ up' = TRUE
  /\ UNCHANGED <<config, usage, crashes, disturbed>>

\* From the last query to the end nothing awaits.
InstallClients(i) ==
  /\ init[i].at = "accounts"
  /\ current' = Chosen(init[i].active)
  /\ init' = [init EXCEPT ![i] = Idle]
  /\ up' = TRUE
  /\ UNCHANGED <<config, usage, crashes, disturbed>>

Crash ==
  /\ up /\ crashes < MaxCrashes
  /\ crashes' = crashes + 1
  /\ up' = FALSE
  /\ disturbed' = FALSE
  /\ init' = [i \in Inits |-> Idle]
  /\ current' = Local
  /\ admission' = [w \in Work |-> "idle"]
  /\ write' = [w \in Work |-> "idle"]
  /\ lease' = [l \in Leases |-> [lease[l] EXCEPT !.holder = Nobody]]
  /\ target' = [w \in Work |-> IF status[w] = "none" THEN Local ELSE target[w]]
  /\ UNCHANGED <<config, status, journal>>

Start ==
  /\ ~up /\ init[Boot].at = "idle"
  /\ init' = [init EXCEPT ![Boot].at = "committed"]
  /\ UNCHANGED <<config, usage, current, up, crashes, disturbed>>

--------------------------------------------------------------------------------
(***************************************************************************)
(* Leases.                                                                 *)
(***************************************************************************)
\* acquireStorageAccountLease: the local disk needs none, and there is none
\* without a row.
Acquire(w, a, why) ==
  \/ a = Local /\ UNCHANGED lease
  \/ /\ a \in rows
     /\ \E l \in Leases :
          /\ lease[l].of = Local
          /\ lease' = [lease EXCEPT ![l] = [of |-> a, holder |-> w,
                                           purpose |-> why, expired |-> FALSE]]

\* release(): when the statement fails the row stays, and nobody holds it.
Release(w, why) ==
  LET held(l) == lease[l].holder = w /\ lease[l].purpose = why IN
  \/ lease' = [l \in Leases |-> IF held(l) THEN NoLease ELSE lease[l]]
  \/ lease' = [l \in Leases |->
                IF held(l) THEN [lease[l] EXCEPT !.holder = Nobody] ELSE lease[l]]

\* expires_at passes: no renewal has succeeded for the lifetime of a lease.
LeaseLapses(l) ==
  /\ lease[l].of # Local /\ ~lease[l].expired
  /\ lease' = [lease EXCEPT ![l].expired = TRUE]
  /\ UNCHANGED <<config, process, status, target, admission, write, journal>>

\* The renewal asks for an unreleased row only.
LeaseRenewed(l) ==
  /\ lease[l].holder # Nobody /\ lease[l].expired
  /\ lease' = [lease EXCEPT ![l].expired = FALSE]
  /\ UNCHANGED <<config, process, status, target, admission, write, journal>>

--------------------------------------------------------------------------------
(***************************************************************************)
(* Submission.                                                             *)
(***************************************************************************)
\* The default target is read from memory, in one turn.
PinDefault(w) ==
  /\ up /\ admission[w] = "idle" /\ status[w] = "none" /\ write[w] = "idle"
  /\ target' = [target EXCEPT ![w] = current]
  /\ admission' = [admission EXCEPT ![w] = "pinned"]
  /\ UNCHANGED <<config, process, status, write, journal, lease>>

\* A web request names its target; its account is locked.
\* A chunked upload takes its lease under the lock, a simple one later.
PinChosen(w, a) ==
  /\ up /\ admission[w] = "idle" /\ status[w] = "none" /\ write[w] = "idle"
  /\ Exists(a)
  /\ target' = [target EXCEPT ![w] = a]
  /\ \/ /\ w \in Uploads
        /\ admission' = [admission EXCEPT ![w] = "pinned"]
        /\ UNCHANGED lease
     \/ /\ w \in Tasks
        /\ admission' = [admission EXCEPT ![w] = "admitted"]
        /\ Acquire(w, a, "admission")
  /\ UNCHANGED <<config, process, status, write, journal>>

\* The bots lock the default account they pinned and lease it.
Admit(w) ==
  /\ w \in Tasks /\ admission[w] = "pinned"
  /\ Acquire(w, target[w], "admission")
  /\ admission' = [admission EXCEPT ![w] = "admitted"]
  /\ UNCHANGED <<config, process, status, target, write, journal>>

\* A chunked upload to the default target comes here without a lease: the
\* foreign key alone refuses an account that has gone.
InsertRow(w) ==
  /\ w \in Tasks /\ admission[w] \in {"pinned", "admitted"}
  /\ Exists(target[w])
  /\ status' = [status EXCEPT ![w] = "live"]
  /\ admission' = [admission EXCEPT ![w] = "created"]
  /\ UNCHANGED <<config, process, target, write, journal, lease>>

Submitted(w) ==
  /\ admission[w] = "created"
  /\ admission' = [admission EXCEPT ![w] = "idle"]
  /\ Release(w, "admission")
  /\ UNCHANGED <<config, process, status, target, write, journal>>

\* Slip: the job is inserted without the lock on its account.
InsertJobUnlocked(j) ==
  /\ j \in Jobs /\ admission[j] = "pinned"
  /\ status' = [status EXCEPT ![j] = "live"]
  /\ admission' = [admission EXCEPT ![j] = "idle"]
  /\ UNCHANGED <<config, process, target, write, journal, lease>>

\* createJob: the lock and the insert are one transaction.
InsertJob(j) ==
  /\ j \in Jobs /\ admission[j] = "pinned"
  /\ Exists(target[j])
  /\ status' = [status EXCEPT ![j] = "live"]
  /\ admission' = [admission EXCEPT ![j] = "idle"]
  /\ UNCHANGED <<config, process, target, write, journal, lease>>

\* The account has gone, or any other error before the row is inserted.
Rejected(w) ==
  /\ admission[w] \in {"pinned", "admitted"} /\ write[w] = "idle"
  /\ admission' = [admission EXCEPT ![w] = "idle"]
  /\ target' = [target EXCEPT ![w] = Local]
  /\ Release(w, "admission")
  /\ UNCHANGED <<config, process, status, write, journal>>

--------------------------------------------------------------------------------
(***************************************************************************)
(* Work on an account.                                                     *)
(***************************************************************************)
\* Finding the client of the target in memory may only fail earlier; the lease
\* wants the row.
TakeLease(w) ==
  /\ up /\ write[w] = "idle"
  /\ \/ w \in Uploads /\ admission[w] = "pinned"
     \/ status[w] = "live" /\ w \notin journal
  /\ Acquire(w, target[w], "write")
  /\ write' = [write EXCEPT ![w] = "leased"]
  /\ UNCHANGED <<config, process, status, target, admission, journal>>

\* The object is written from here on.  A web upload keeps no journal; a
\* cancelled job may still be in the middle of an item.
StartWriting(w) ==
  /\ write[w] = "leased"
  /\ Exists(target[w])
  /\ w \in Tasks => status[w] = "live"
  /\ write' = [write EXCEPT ![w] = "writing"]
  /\ journal' = journal \cup ({w} \ Uploads)
  /\ UNCHANGED <<config, process, status, target, admission, lease>>

\* The index row has a foreign key too.
CommitIndex(w) ==
  /\ write[w] = "writing"
  /\ Exists(target[w])
  /\ write' = [write EXCEPT ![w] = "ended"]
  /\ journal' = journal \ {w}
  /\ UNCHANGED <<config, process, status, target, admission, lease>>

\* A failed write is compensated, or its journal waits for an operator.
WriteFails(w) ==
  /\ write[w] \in {"leased", "writing"}
  /\ write' = [write EXCEPT ![w] = "ended"]
  /\ journal' \in {journal, journal \ {w}}
  /\ UNCHANGED <<config, process, status, target, admission, lease>>

EndWrite(w) ==
  /\ write[w] = "ended"
  /\ write' = [write EXCEPT ![w] = "idle"]
  /\ Release(w, "write")
  /\ IF w \in Uploads
     THEN /\ admission' = [admission EXCEPT ![w] = "idle"]
          /\ target' = [target EXCEPT ![w] = Local]
     ELSE UNCHANGED <<admission, target>>
  /\ UNCHANGED <<config, process, status, journal>>

Reconcile(w) ==
  /\ up /\ w \in journal /\ write[w] = "idle"
  /\ journal' = journal \ {w}
  /\ UNCHANGED <<config, process, status, target, admission, write, lease>>

\* Completion, failure and cancellation; a failed or cancelled task that can be
\* retried and a job that ended with errors are resumable.
Settle(w) ==
  /\ up /\ status[w] \in {"live", "resumable"}
  /\ \E s \in {"resumable", "done"} : status' = [status EXCEPT ![w] = s]
  /\ UNCHANGED <<config, process, target, admission, write, journal, lease>>

\* A retried job is not asked whether its account is still there.
Retry(w) ==
  /\ up /\ status[w] = "resumable"
  /\ w \in journal => w \in Jobs
  /\ status' = [status EXCEPT ![w] = "live"]
  /\ UNCHANGED <<config, process, target, admission, write, journal, lease>>

--------------------------------------------------------------------------------
(***************************************************************************)
(* Deletion of an account.                                                 *)
(***************************************************************************)
\* Slip: only an unfinished task refuses, as an unfinished job does.
LiveTask(a)       == \E t \in Tasks : target[t] = a /\ status[t] = "live"
\* Slip: as in the preview of a deletion, a lease that has lapsed does not count.
UnexpiredLease(a) == \E l \in Leases : lease[l].of = a /\ ~lease[l].expired

JobRefuses(a)     == \E j \in Jobs : target[j] = a /\ status[j] = "live"
TaskRefuses(a)    == \E t \in Tasks : target[t] = a /\ status[t] \in {"live", "resumable"}
LeaseRefuses(a)   == \E l \in Leases : lease[l].of = a
JournalRefuses(a) == \E w \in journal : target[w] = a

\* Slip: the mark of the default is not looked at, only memory.
DeleteMarked(a) ==
  /\ up /\ a \in rows
  /\ current # a
  /\ ~JobRefuses(a) /\ ~TaskRefuses(a)
  /\ ~LeaseRefuses(a) /\ ~JournalRefuses(a)
  /\ rows' = rows \ {a}
  /\ UNCHANGED <<active, setting, process, usage>>

DeleteAccount(a) ==
  /\ up /\ a \in rows \ active
  /\ current # a
  /\ ~JobRefuses(a) /\ ~TaskRefuses(a)
  /\ ~LeaseRefuses(a) /\ ~JournalRefuses(a)
  /\ rows' = rows \ {a}
  /\ UNCHANGED <<active, setting, process, usage>>

Next ==
  \/ \E s \in Switches, a \in Targets : SwitchDefault(s, a)
  \/ \E i \in Inits : ReadSetting(i) \/ ReadAccounts(i) \/ InitFails(i) \/ InstallClients(i)
  \/ Crash \/ Start
  \/ \E l \in Leases : LeaseLapses(l) \/ LeaseRenewed(l)
  \/ \E w \in Work :
       \/ PinDefault(w) \/ Admit(w) \/ InsertRow(w) \/ Submitted(w) \/ InsertJob(w)
       \/ \E a \in Targets : PinChosen(w, a)
       \/ Rejected(w) \/ TakeLease(w) \/ StartWriting(w) \/ CommitIndex(w)
       \/ WriteFails(w) \/ EndWrite(w) \/ Reconcile(w) \/ Settle(w) \/ Retry(w)
  \/ \E a \in Accounts : DeleteAccount(a)

Spec == Init /\ [][Next]_vars

--------------------------------------------------------------------------------
(***************************************************************************)
(* Properties.                                                             *)
(***************************************************************************)
\* A session or task that can still run, or be retried, has its account: no
\* deletion passes it, and none is admitted to an account that has gone,
\* whatever target stale memory offered it.
LiveTasksHaveAccount ==
  \A t \in Tasks : status[t] \in {"live", "resumable"} => Exists(target[t])

\* While an object is being written, and while the outcome of a write is to be
\* reconciled, the account is there: the index row and the compensation find it.
WritesHaveAccount ==
  \A w \in Work : write[w] \in {"leased", "writing"} \/ w \in journal => Exists(target[w])

\* The two places that hold the default target agree at every commit: the
\* start-up check of the setting against the active rows never fails on them.
SettingIsConsistent == Consistent(setting, active)

\* When no switch is rebuilding memory, new work goes to the configured
\* default, unless the last initialisation failed or overlapped another.
MemoryFollowsSetting ==
  up /\ ~disturbed /\ (\A i \in Inits : ~Reading(i)) => current = Chosen(active)

\* An unfinished job loses its account in one way only: it had ended with
\* failures, the account was deleted, and the job is retried.
Orphans == {j \in Jobs : status[j] = "live" /\ ~Exists(target[j])}
OnlyRetryOrphans ==
  [][\A j \in Orphans' \ Orphans : status[j] = "resumable"]_vars
================================================================================
