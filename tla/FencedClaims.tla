---------------------------- MODULE FencedClaims ----------------------------
(***************************************************************************)
(* The claim table of the Operation Event Store and the fenced appends it  *)
(* guards (session/operation_store.py, session/sqlite.py).                 *)
(*                                                                         *)
(* Every store call is one transaction, but the SQLite store reads the     *)
(* clock for acquire and renew BEFORE it waits for the database lock, so   *)
(* the time such a call compares with may be stale when its transaction    *)
(* runs.  A call is therefore two steps here: BeginAcquire and BeginRenew  *)
(* put the call and the time it read into calls, Acquire and Renew are the *)
(* transactions.  The fenced append and the releases read nothing outside  *)
(* their transaction and are one step.  The in-memory and JSONL stores     *)
(* read the clock under their lock, which is the case of no delay.         *)
(*                                                                         *)
(* Any lease ever handed out may be presented at any time: a worker that   *)
(* stalled, a heartbeat that outlives its task, an old handler that        *)
(* finally returns.  The clock is the wall clock (time.time) and may be    *)
(* set back.  verify_fenced_claim changes nothing and has no action.       *)
(***************************************************************************)
EXTENDS ClaimRows, Sequences, FiniteSets

CONSTANTS
    Owners,      \* owner tokens, one per worker attempt
    Keys,        \* (claim_type, resource_id) pairs
    Lease,       \* lease_seconds, in clock ticks
    MaxClock,    \* bound on the clock
    MaxGen,      \* bound on the generations handed out
    MaxLog,      \* bound on the appended batches
    MaxCalls     \* bound on the concurrent acquire and renew calls

ASSUME ClaimsAssumption ==
    /\ NoOwner \notin Owners
    /\ Lease \in Nat \ {0}
    /\ MaxClock \in Nat
    /\ MaxGen \in Nat
    /\ MaxLog \in Nat
    /\ MaxCalls \in Nat

VARIABLES
    claims,      \* the claim table: a row for every key
    leases,      \* every ClaimLease handed out
    calls,       \* acquire and renew calls that have read the clock
    log,         \* the fenced batches appended, oldest first
    clock        \* time.time()

vars == <<claims, leases, calls, log, clock>>

Rows == [owner : Owners \cup {NoOwner}, expires : Nat, gen : Nat]
LeaseRecords == [key : Keys, owner : Owners, gen : Nat]
Calls == [op : {"acquire", "renew"}, key : Keys, owner : Owners, gen : Nat, now : Nat]

TypeOK ==
    /\ claims \in [Keys -> Rows]
    /\ leases \subseteq LeaseRecords
    /\ calls \subseteq Calls
    /\ log \in Seq(LeaseRecords)
    /\ clock \in Nat

Init ==
    /\ claims = [k \in Keys |-> AbsentRow]
    /\ leases = {}
    /\ calls = {}
    /\ log = << >>
    /\ clock = 1

-----------------------------------------------------------------------------
\* A call with the time it read; gen is 0 for an acquire.
Call(op, key, owner, gen) ==
    [op |-> op, key |-> key, owner |-> owner, gen |-> gen, now |-> clock]

BeginAcquire(o, k) ==
    /\ Cardinality(calls) < MaxCalls
    /\ calls' = calls \cup {Call("acquire", k, o, 0)}
    /\ UNCHANGED <<claims, leases, log, clock>>

BeginRenew(l) ==
    /\ Cardinality(calls) < MaxCalls
    /\ calls' = calls \cup {Call("renew", l.key, l.owner, l.gen)}
    /\ UNCHANGED <<claims, leases, log, clock>>

\* acquire_fenced_claim, and try_acquire_claim, which is the same transaction.
Acquire(c) ==
    /\ c.op = "acquire"
    /\ calls' = calls \ {c}
    /\ LET row == claims[c.key]
           new == AcquiredRow(row, c.owner, c.now, Lease)
       IN IF AcquireRefused(row, c.owner, c.now)
          THEN UNCHANGED <<claims, leases>>
          ELSE /\ new.gen <= MaxGen
               /\ claims' = [claims EXCEPT ![c.key] = new]
               /\ leases' = leases \cup {[key |-> c.key, owner |-> c.owner, gen |-> new.gen]}
    /\ UNCHANGED <<log, clock>>

\* renew_fenced_claim: FALSE, and no change, once the lease is not current.
Renew(c) ==
    /\ c.op = "renew"
    /\ calls' = calls \ {c}
    /\ claims' = IF LeaseCurrent(claims[c.key], c.owner, c.gen, c.now)
                 THEN [claims EXCEPT ![c.key] = RenewedRow(@, c.now, Lease)]
                 ELSE claims
    /\ UNCHANGED <<leases, log, clock>>

\* Mutant: the append checks the owner and the generation before it is queued
\* for the lock, and not again.
FencedAppendUnchecked(l) ==
    /\ Len(log) < MaxLog
    /\ log' = Append(log, l)
    /\ UNCHANGED <<claims, leases, calls, clock>>

\* append_batch_if_fenced_claim: refused (no change) unless the lease is
\* current; the append and the renewal of the lease commit together.
FencedAppend(l) ==
    /\ Len(log) < MaxLog
    /\ LeaseCurrent(claims[l.key], l.owner, l.gen, clock)
    /\ log' = Append(log, l)
    /\ claims' = [claims EXCEPT ![l.key] = RenewedRow(@, clock, Lease)]
    /\ UNCHANGED <<leases, calls, clock>>

\* release_fenced_claim compares owner and generation, not the expiry.
ReleaseFenced(l) ==
    /\ Names(claims[l.key], l.owner, l.gen)
    /\ claims' = [claims EXCEPT ![l.key] = ReleasedRow(@)]
    /\ UNCHANGED <<leases, calls, log, clock>>

\* release_claim compares the owner only, so a second release by the owner
\* of a released row burns another generation.
ReleaseClaim(o, k) ==
    /\ claims[k].owner = o
    /\ claims[k].gen < MaxGen
    /\ claims' = [claims EXCEPT ![k] = ReleasedRow(@)]
    /\ UNCHANGED <<leases, calls, log, clock>>

\* Time passes, or the wall clock is set back.
SetClock ==
    /\ \E t \in {clock - 1, clock + 1} : t \in 1..MaxClock /\ clock' = t
    /\ UNCHANGED <<claims, leases, calls, log>>

Next ==
    \/ \E o \in Owners, k \in Keys : BeginAcquire(o, k) \/ ReleaseClaim(o, k)
    \/ \E l \in leases : BeginRenew(l) \/ FencedAppend(l) \/ ReleaseFenced(l)
    \/ \E c \in calls : Acquire(c) \/ Renew(c)
    \/ SetClock

Spec == Init /\ [][Next]_vars

-----------------------------------------------------------------------------
\* Two leases of one key with the same generation have the same owner, so
\* the fencing token alone tells two workers apart (ClaimLease.fencing_token).
OneOwnerPerGeneration ==
    \A l1, l2 \in leases :
        l1.key = l2.key /\ l1.gen = l2.gen => l1.owner = l2.owner

\* The batches appended under one key carry generations that never go back:
\* once a newer worker has appended, an older one appends nothing, however
\* late its call arrives and whatever the clock does.
AppendsInGenerationOrder ==
    \A i, j \in 1..Len(log) :
        i < j /\ log[i].key = log[j].key => log[i].gen <= log[j].gen

\* A fenced append is made under the newest lease handed out for its key: a
\* worker that was replaced cannot append even before its successor does.
AppendUnderNewestLease ==
    [][ log' # log =>
          \A l \in leases : l.key = log'[Len(log')].key => l.gen <= log'[Len(log')].gen ]_vars

\* "an expired worker can therefore never make its old lease current again
\* merely because a newer owner has already released it" (ClaimLease): a
\* lease that no longer names its row never names it again.
LostLeaseStaysLost ==
    [][ \A l \in leases : ~Names(claims[l.key], l.owner, l.gen)
            => ~Names(claims'[l.key], l.owner, l.gen) ]_vars

=============================================================================
