----------------------------- MODULE AdmissionPool -----------------------------
(***************************************************************************)
(* The pool of database connections, and who holds one while asking for    *)
(* another.  An admission locks the row of its account in a transaction    *)
(* and, before the transaction ends, takes its lease through the pool; a   *)
(* scan of subscriptions and a recovery hold the connection that has their *)
(* advisory lock while they query; a switch or a deletion of an account    *)
(* waits with its connection for the row.  The pool has no timeout.        *)
(***************************************************************************)
EXTENDS Naturals, Sequences, FiniteSets

CONSTANTS Requests, Connections

\* What each kind of request does with connections and with the row of the account.
Chunk  == <<"open", "share", "open", "close", "commit", "close", "open", "close", "open", "close">>
Bot    == <<"open", "share", "open", "close", "commit", "open", "close", "close", "open", "close">>
Upload == <<"open", "share", "commit", "close", "open", "close", "open", "close">>
Worker == <<"open", "open", "close", "open", "close", "close">>
Switch == <<"open", "own", "commit", "close">>

\* All but the first hold a connection while they wait for another, or for the row.
Programs == <<Upload, Switch, Worker, Bot, Chunk>>

VARIABLES kind, at, pending

poolVars == <<kind, at, pending>>

Done(r) == SubSeq(Programs[kind[r]], 1, at[r])
Following(r) == IF at[r] < Len(Programs[kind[r]]) THEN Programs[kind[r]][at[r] + 1] ELSE "end"
Count(r, op) == Cardinality({i \in 1 .. at[r] : Done(r)[i] = op})

\* Connections that a request holds, and those in use.
Held(r) == Count(r, "open") - Count(r, "close")
InUse == Cardinality({p \in Requests \X {1, 2} : p[2] <= Held(p[1])})

\* Requests whose transaction holds the row, in the mode they asked for.
Locked(r, mode) == Count(r, mode) > Count(r, "commit")

Ended(r) == at[r] = Len(Programs[kind[r]])

TypeOK == /\ kind \in [Requests -> DOMAIN Programs]
          /\ \A r \in Requests : at[r] \in 0 .. Len(Programs[kind[r]])
          /\ \A i \in 1 .. Len(pending) : pending[i] \in Requests

\* Requests of any kinds, as many as come.  Which request is of which does not matter.
Init == /\ kind \in {k \in [Requests -> DOMAIN Programs] : \A r, s \in Requests : r < s => k[r] <= k[s]}
        /\ at = [r \in Requests |-> 0]
        /\ pending = <<>>

Advance(r) == at' = [at EXCEPT ![r] = @ + 1]

\* A connection is asked for, and given to whoever waits longest.
Ask(r) == /\ Following(r) = "open" /\ \A i \in 1 .. Len(pending) : pending[i] # r
          /\ pending' = Append(pending, r)
          /\ UNCHANGED <<kind, at>>

Serve == /\ pending # <<>> /\ InUse < Connections
         /\ Advance(Head(pending))
         /\ pending' = Tail(pending)
         /\ UNCHANGED kind

Step(r, op) == /\ Following(r) = op
               /\ Advance(r)
               /\ UNCHANGED <<kind, pending>>

\* FOR KEY SHARE goes past a FOR UPDATE that only waits.
LockForUse(r) == /\ \A s \in Requests \ {r} : ~Locked(s, "own")
                 /\ Step(r, "share")

LockForSwitch(r) == /\ \A s \in Requests \ {r} : ~Locked(s, "own") /\ ~Locked(s, "share")
                    /\ Step(r, "own")

\* The account is gone, or of another provider: the transaction is rolled back.
Refused(r) == /\ Following(r) = "share" /\ \A s \in Requests \ {r} : ~Locked(s, "own")
              /\ at' = [at EXCEPT ![r] = Len(Programs[kind[r]])]
              /\ UNCHANGED <<kind, pending>>

Commit(r) == Step(r, "commit")
Release(r) == Step(r, "close")

Next == \/ Serve
        \/ \E r \in Requests : \/ Ask(r) \/ LockForUse(r) \/ LockForSwitch(r)
                               \/ Refused(r) \/ Commit(r) \/ Release(r)

\* Nothing gives way any more: each connection is held by a request that waits for another
\* or for the row, as many of them as there are connections.
Exhausted ==
  /\ Cardinality({r \in Requests : Held(r) > 0}) = Connections
  /\ \A r \in Requests : Held(r) > 0 =>
       \/ Following(r) = "open"
       \/ Following(r) \in {"share", "own"} /\ \E s \in Requests \ {r} : Locked(s, "own") \/ Locked(s, "share")
  /\ \E r \in Requests : Held(r) > 0 /\ Following(r) = "open"

\* Every request has been answered.
Answered == \A r \in Requests : Ended(r)
=============================================================================
