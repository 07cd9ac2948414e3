---------------------------- MODULE EventStream ----------------------------
(***************************************************************************)
(* The bounded event stream between a producer that cannot wait and one    *)
(* consumer (event_stream.py).  Facts (lifecycle, tool and terminal        *)
(* events) must be delivered or make the stream fail; updates (deltas and  *)
(* progress snapshots) may be merged or dropped when the consumer is slow. *)
(*                                                                         *)
(* push, end and fail run without an await and are one step each; so is    *)
(* what the iterator does between two awaits.  Sizes are abstract units,   *)
(* and merging two deltas adds theirs.  The gauges and the observability   *)
(* callbacks are left out: they change nothing the stream reads.           *)
(***************************************************************************)
EXTENDS Naturals, Sequences, FiniteSets, SequencesExt

CONSTANTS
    MaxEvents,    \* max_buffer_size
    MaxBytes,     \* max_buffer_bytes
    DeltaKeys,    \* coalesce keys whose updates are concatenated
    SnapshotKeys, \* coalesce keys whose newest update replaces the older one
    Sizes,        \* sizes of events
    MaxPushes     \* bound on the pushes

Keys == DeltaKeys \cup SnapshotKeys
NoKey == "no_key"

ASSUME StreamAssumption ==
    /\ MaxEvents \in Nat \ {0, 1} /\ MaxBytes \in Nat \ {0}
    /\ DeltaKeys \cap SnapshotKeys = {} /\ NoKey \notin Keys
    /\ Sizes \subseteq Nat \ {0}
    /\ MaxPushes \in Nat

VARIABLES
    policy,       \* slow_consumer_policy; never changes
    queue,        \* the buffered events, without the end marker
    pending,      \* _pending_by_key: the id of a buffered event, 0 for none
    done,         \* _done
    marker,       \* the end marker: "none", "queued", or "taken" by the iterator
    result,       \* the future: "pending", "value" or "error"
    out,          \* what the consumer was given
    accepted,     \* the ids of the facts a push returned for
    pushes        \* the pushes so far; the id of an event is its number

streamVars == <<policy, queue, pending, done, marker, result, out, accepted, pushes>>

Entries == [id : Nat, key : Keys \cup {NoKey}, size : Nat, droppable : BOOLEAN,
            terminal : BOOLEAN]

StreamTypeOK ==
    /\ policy \in {"drop_oldest", "error"}
    /\ queue \in Seq(Entries) /\ out \in Seq(Entries)
    /\ pending \in [Keys -> Nat]
    /\ done \in BOOLEAN
    /\ marker \in {"none", "queued", "taken"}
    /\ result \in {"pending", "value", "error"}
    /\ accepted \in Seq(Nat) /\ pushes \in Nat
    /\ done <=> marker # "none"
    /\ done <=> result # "pending"

StreamInit ==
    /\ policy \in {"drop_oldest", "error"}
    /\ queue = << >> /\ out = << >> /\ accepted = << >>
    /\ pushes = 0
    /\ pending = [k \in Keys |-> 0]
    /\ done = FALSE /\ marker = "none" /\ result = "pending"

-----------------------------------------------------------------------------
Ids(q) == {q[i].id : i \in DOMAIN q}
\* _queued_bytes, which the code adds up as events come and go.
TotalSize(q) == FoldLeft(LAMBDA sum, e : sum + e.size, 0, q)

Event(key, size, droppable, terminal) ==
    [id |-> pushes + 1, key |-> key, size |-> size, droppable |-> droppable,
     terminal |-> terminal]

\* Mutant: eviction takes whatever is oldest.
EvictableAny(q, keep) == {i \in DOMAIN q : q[i].id # keep}

\* What _drop_oldest may evict: updates, but not the protected one.
Evictable(q, keep) == {i \in DOMAIN q : q[i].droppable /\ q[i].id # keep}

\* The elements of q at the positions S, in their order.
Kept(q, S) ==
    LET upTo[n \in 0..Len(q)] ==
            IF n = 0 THEN << >>
            ELSE IF n \in S THEN Append(upTo[n - 1], q[n])
            ELSE upTo[n - 1]
    IN  upTo[Len(q)]

\* q after n evictions, oldest first.
Evict(q, n, keep) ==
    LET victims == {i \in Evictable(q, keep) :
                        Cardinality({j \in Evictable(q, keep) : j <= i}) <= n}
    IN  Kept(q, DOMAIN q \ victims)

Overflows(q, size) == Len(q) + 1 > MaxEvents \/ TotalSize(q) + size > MaxBytes

\* _make_room: evict until an event of this size fits, or nothing is left.
RoomFor(q, size) ==
    LET all == Cardinality(Evictable(q, 0))
        enough == {n \in 0..all : ~Overflows(Evict(q, n, 0), size)}
    IN  Evict(q, IF enough = {} THEN all ELSE CHOOSE n \in enough : \A m \in enough : n <= m, 0)

\* _trim_bytes after a merge: evict others while the bytes exceed the limit and
\* more than one event is left, then the merged update itself.
Trim(q, keep) ==
    LET all == Cardinality(Evictable(q, keep))
        enough == {n \in 0..all : LET r == Evict(q, n, keep)
                                  IN  TotalSize(r) <= MaxBytes \/ Len(r) <= 1}
        left == Evict(q, IF enough = {} THEN all
                         ELSE CHOOSE n \in enough : \A m \in enough : n <= m, keep)
    IN  IF TotalSize(left) > MaxBytes THEN Kept(left, {i \in DOMAIN left : left[i].id # keep})
                                      ELSE left

\* The buffer becomes q; a key of an event that left the buffer is forgotten.
SetBuffer(q) ==
    /\ queue' = q
    /\ pending' = [k \in Keys |-> IF pending[k] \in Ids(q) THEN pending[k] ELSE 0]

\* Mutant: the failure reaches result() but does not wake the iterator.
TerminateQuietly(q) ==
    /\ done' = TRUE /\ result' = "error"
    /\ SetBuffer(q)
    /\ UNCHANGED <<marker, accepted>>

\* _terminate_with_error.
TerminateWithError(q) ==
    /\ done' = TRUE /\ result' = "error" /\ marker' = "queued"
    /\ SetBuffer(q)
    /\ UNCHANGED accepted

\* The event is put into the buffer q; a terminal event also ends the stream.
Enqueue(q, e) ==
    /\ queue' = Append(q, e)
    /\ pending' = [k \in Keys |-> CASE k = e.key -> e.id
                                    [] k # e.key /\ pending[k] \in Ids(q) -> pending[k]
                                    [] OTHER -> 0]
    /\ accepted' = IF e.droppable THEN accepted ELSE Append(accepted, e.id)
    /\ IF e.terminal THEN done' = TRUE /\ result' = "value" /\ marker' = "queued"
                     ELSE UNCHANGED <<done, result, marker>>

\* The update is dropped; evictions made for it stay.
DropIncoming(q) == SetBuffer(q) /\ UNCHANGED <<done, result, marker, accepted>>

\* e is merged into the buffered update of its key, in that one's place.
Coalesce(e) ==
    LET at == CHOOSE i \in DOMAIN queue : queue[i].id = pending[e.key]
        sum == IF e.key \in DeltaKeys THEN queue[at].size + e.size ELSE e.size
        merged(size) == [queue EXCEPT ![at].size = size]
    IN  IF sum > MaxBytes /\ policy = "error"
        THEN TerminateWithError(queue)
        ELSE /\ SetBuffer(Trim(merged(IF sum > MaxBytes THEN e.size ELSE sum), pending[e.key]))
             /\ UNCHANGED <<done, result, marker, accepted>>

\* _push_open.
PushOpen(e) ==
    CASE e.size > MaxBytes ->
            IF e.droppable /\ policy = "drop_oldest" THEN DropIncoming(queue)
                                                     ELSE TerminateWithError(queue)
      [] e.size <= MaxBytes /\ ~Overflows(queue, e.size) -> Enqueue(queue, e)
      [] OTHER ->
            CASE e.key \in Keys /\ pending[e.key] # 0 -> Coalesce(e)
              [] ~(e.key \in Keys /\ pending[e.key] # 0) /\ policy = "error" /\ ~e.terminal ->
                    TerminateWithError(queue)
              [] OTHER ->
                    LET room == RoomFor(queue, e.size)
                    IN  CASE ~Overflows(room, e.size) -> Enqueue(room, e)
                          [] Overflows(room, e.size) /\ e.droppable -> DropIncoming(room)
                          [] OTHER -> TerminateWithError(room)

Push(e) ==
    /\ ~done /\ pushes < MaxPushes
    /\ PushOpen(e)
    /\ pushes' = pushes + 1
    /\ UNCHANGED <<policy, out>>

PushUpdate == \E k \in Keys, s \in Sizes : Push(Event(k, s, TRUE, FALSE))
PushFact == \E s \in Sizes : Push(Event(NoKey, s, FALSE, FALSE))
PushTerminal == \E s \in Sizes : Push(Event(NoKey, s, FALSE, TRUE))

\* fail, and a push whose event or whose callbacks are malformed.
Fail ==
    /\ ~done
    /\ TerminateWithError(queue)
    /\ UNCHANGED <<policy, out, pushes>>

\* end: a stream without a terminal event.
End ==
    /\ ~done
    /\ done' = TRUE /\ result' = "value" /\ marker' = "queued"
    /\ UNCHANGED <<policy, queue, pending, out, accepted, pushes>>

\* _iterate yields the next event.
Take ==
    /\ queue # << >>
    /\ out' = Append(out, Head(queue))
    /\ SetBuffer(Tail(queue))
    /\ UNCHANGED <<policy, done, marker, result, accepted, pushes>>

\* _iterate meets the end marker, which is behind every event.
TakeMarker ==
    /\ queue = << >> /\ marker = "queued"
    /\ marker' = "taken"
    /\ UNCHANGED <<policy, queue, pending, done, result, out, accepted, pushes>>

StreamNext == PushUpdate \/ PushFact \/ PushTerminal \/ Fail \/ End \/ Take \/ TakeMarker

\* The event loop schedules the consumer's task.
StreamSpec == StreamInit /\ [][StreamNext]_streamVars /\ WF_streamVars(Take \/ TakeMarker)

-----------------------------------------------------------------------------
FactIds(q) == Kept([i \in DOMAIN q |-> q[i].id], {i \in DOMAIN q : ~q[i].droppable})

\* Lifecycle, tool and terminal events are "structural facts": each one that
\* push accepted is delivered or still buffered, once and in push order,
\* whatever was merged, evicted or trimmed around it.
FactsInOrder == FactIds(out) \o FactIds(queue) = accepted

\* Once the stream is over, the iterator stops: no failure, backpressure or
\* malformed terminal leaves the consumer waiting.
ConsumerStops == done ~> marker = "taken"

=============================================================================
