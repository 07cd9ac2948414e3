----------------------------- MODULE FairLocks -----------------------------
(***************************************************************************)
(* The two locks of the Tool scheduler (tool_runtime.py) as values: the    *)
(* priority semaphore and the fair read-write lock.  Every method runs     *)
(* under a mutex that is never held across an await, so each is one step.  *)
(* A waiter is the caller's name; the callers whose future an operation    *)
(* resolves are its "woken" set.                                           *)
(***************************************************************************)
EXTENDS Integers, Sequences, FiniteSets, SequencesExt

Semaphore(n) == [value |-> n, queue |-> <<>>]
RWLock == [readers |-> 0, writer |-> FALSE, queue |-> <<>>]

Waiter(who, rank) == [who |-> who, rank |-> rank]
Names(queue) == {queue[i].who : i \in 1..Len(queue)}

\* The queue without the waiter of that name, if it is there.
Without(queue, who) ==
    IF who \in Names(queue)
    THEN RemoveAt(queue, CHOOSE i \in 1..Len(queue) : queue[i].who = who)
    ELSE queue

-----------------------------------------------------------------------------
(* _FairPrioritySemaphore; the rank of a waiter is its priority. *)

\* _grant_locked
SemGrant(s) ==
    LET n == IF s.value < Len(s.queue) THEN s.value ELSE Len(s.queue)
    IN [lock  |-> [value |-> s.value - n, queue |-> SubSeq(s.queue, n + 1, Len(s.queue))],
        woken |-> Names(SubSeq(s.queue, 1, n))]

\* The heap pops by falling priority, then by arrival.
SemAcquire(s, who, priority) ==
    LET ahead == Cardinality({i \in 1..Len(s.queue) : s.queue[i].rank >= priority})
    IN SemGrant([s EXCEPT !.queue = InsertAt(@, ahead + 1, Waiter(who, priority))])

SemRelease(s) == SemGrant([s EXCEPT !.value = @ + 1])

\* Mutant: a grant that raced with the timeout is not given back.
SemGiveUpNoReturn(s, who, granted) ==
    SemGrant([s EXCEPT !.queue = Without(@, who)])

\* The except clause of acquire: a slot granted in the race is returned.
SemGiveUp(s, who, granted) ==
    IF granted THEN SemRelease(s)
    ELSE SemGrant([s EXCEPT !.queue = Without(@, who)])

-----------------------------------------------------------------------------
(* _FairAsyncRWLock; the rank of a waiter is its access. *)

\* _grant_locked: the writer at the head, or the readers in front of the
\* first writer.
RWGrant(l) ==
    LET readers == {i \in 1..Len(l.queue) : \A j \in 1..i : l.queue[j].rank = "read"}
        n == Cardinality(readers)
    IN IF l.writer \/ l.queue = <<>> THEN [lock |-> l, woken |-> {}]
       ELSE IF l.queue[1].rank = "write"
       THEN IF l.readers = 0
            THEN [lock  |-> [l EXCEPT !.writer = TRUE, !.queue = Tail(@)],
                  woken |-> {l.queue[1].who}]
            ELSE [lock |-> l, woken |-> {}]
       ELSE [lock  |-> [l EXCEPT !.readers = @ + n, !.queue = SubSeq(@, n + 1, Len(@))],
             woken |-> Names(SubSeq(l.queue, 1, n))]

RWAcquire(l, who, access) ==
    RWGrant([l EXCEPT !.queue = Append(@, Waiter(who, access))])

Freed(l, access) ==
    IF access = "read" THEN [l EXCEPT !.readers = @ - 1] ELSE [l EXCEPT !.writer = FALSE]

RWRelease(l, access) == RWGrant(Freed(l, access))

\* The except clause of acquire.
RWGiveUp(l, who, access, granted) ==
    LET rest == [l EXCEPT !.queue = Without(@, who)]
    IN RWGrant(IF granted THEN Freed(rest, access) ELSE rest)

=============================================================================
