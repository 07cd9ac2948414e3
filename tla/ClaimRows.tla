----------------------------- MODULE ClaimRows -----------------------------
(***************************************************************************)
(* One row of the claim table of the Operation Event Store                 *)
(* (session/operation_store.py, session/sqlite.py): the owner token, the   *)
(* time the lease expires and the generation, which is the fencing token.  *)
(* A row that was never inserted is AbsentRow: its generation is 0 and its *)
(* lease has expired, so the first acquire yields generation 1 as the code *)
(* does for a missing row.                                                 *)
(*                                                                         *)
(* A ClaimLease is what an acquire hands out, an (owner, generation) pair. *)
(***************************************************************************)
EXTENDS Integers

CONSTANT NoOwner    \* the owner of a row that was never inserted

AbsentRow == [owner |-> NoOwner, expires |-> 0, gen |-> 0]

\* The row is held: its lease is still running at time t.
Held(row, t) == row.expires > t

\* acquire_fenced_claim: another owner's running lease refuses the caller.
AcquireRefused(row, owner, t) == row.owner # owner /\ Held(row, t)

\* Mutant: a lease that ran out is taken over without a new generation.
AcquiredRowReused(row, owner, t, lease) ==
    [owner |-> owner, expires |-> t + lease, gen |-> IF row.gen = 0 THEN 1 ELSE row.gen]

\* The owner of a running lease re-acquires its own generation; an expired,
\* released or missing row yields the next one.
AcquiredRow(row, owner, t, lease) ==
    [ owner   |-> owner,
      expires |-> t + lease,
      gen     |-> IF row.owner = owner /\ Held(row, t) THEN row.gen ELSE row.gen + 1 ]

\* The lease names the owner and the generation of the row.
Names(row, owner, gen) == row.owner = owner /\ row.gen = gen

\* Mutant: the generation is not compared.
LeaseCurrentByOwner(row, owner, gen, t) == row.owner = owner /\ Held(row, t)

\* The condition renew, verify and the fenced append share.
LeaseCurrent(row, owner, gen, t) == Names(row, owner, gen) /\ Held(row, t)

RenewedRow(row, t, lease) == [row EXCEPT !.expires = t + lease]

\* Mutant: a release deletes the row, so generations start over.
ReleasedRowDeleted(row) == AbsentRow

\* Release keeps the row and its owner, and burns one generation, so that no
\* lease handed out before it names the row again.
ReleasedRow(row) == [owner |-> row.owner, expires |-> 0, gen |-> row.gen + 1]

=============================================================================
