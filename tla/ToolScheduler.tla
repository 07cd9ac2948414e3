--------------------------- MODULE ToolScheduler ---------------------------
(***************************************************************************)
(* The Tool runtime (tool_runtime.py, retry/tool.py): a batch of calls is  *)
(* checked and guarded, each call takes the execution barrier, its         *)
(* resource locks, the cross-process lock, a tenant slot and a parallel    *)
(* slot, in this order, runs its handler, gives everything back, and turns *)
(* what happened into a result.  Calls of one process share a scheduler;   *)
(* the processes share the SQLite lock table.                              *)
(*                                                                         *)
(* A call may be interrupted at every await: by its cancellation token or  *)
(* its timeout, which _execute turns into a result, or by the cancellation *)
(* of its asyncio task, which leaves no result at all: the Run's task was  *)
(* cancelled, or a sibling's task failed and took the batch with it.  What *)
(* a call waits for or holds is its position on Path(c).                   *)
(***************************************************************************)
EXTENDS FairLocks

CONSTANTS
    Calls,          \* tool calls
    Requested,      \* the sets of calls that the models may ask for
    ProcessOf,      \* call -> process
    BatchOf,        \* call -> <<batch, index of the call in it>>
    KeysOf,         \* call -> its resource keys, as the tool returns them
    KeyOrder,       \* all resource keys in sorted order
    AccessOf,       \* call -> "read" or "write" on its keys
    Exclusive,      \* calls of execution_mode "exclusive"
    Never,          \* calls with replay_policy "never"
    Effectful,      \* calls of a tool that _tool_may_have_side_effect
    PriorityOf,     \* call -> priority
    TenantLimit,    \* slots of the tenant, in each process
    ParallelLimit,  \* max_parallel_tools
    AttemptsOf,     \* call -> 1 + max_retries of its retry policy
    MaxInterrupts,  \* bound on cancellations by token and timeouts
    MaxLapses,      \* bound on cross-process leases that run out or fail to renew
    MaxBreaks       \* bound on batches that are broken off

ASSUME LimitAssumption == TenantLimit \in Nat \ {0} /\ ParallelLimit \in Nat \ {0}
ASSUME CallAssumption ==
    /\ IsFiniteSet(Calls) /\ Never \subseteq Effectful /\ Effectful \subseteq Calls
    /\ \A c \in Calls : AccessOf[c] \in {"read", "write"}

Processes == {ProcessOf[c] : c \in Calls}
Keys == {KeyOrder[i] : i \in 1..Len(KeyOrder)}

\* Every key is once in the order, and no key is one of the other things to wait for.
ASSUME KeyAssumption ==
    /\ KeyOrder \in Seq(Keys) /\ IsInjective(KeyOrder)
    /\ Keys \cap {"barrier", "table", "tenant", "parallel"} = {}

VARIABLES
    rw,         \* <<process, "barrier" or key>> -> read-write lock
    sem,        \* <<process, "tenant" or "parallel">> -> semaphore
    rows,       \* tool_resource_locks: unexpired [key, owner, access]
    lastToken,  \* tool_resource_fencing_state.last_token
    call,       \* what each call is doing
    effects,    \* history: committed side effects of a call
    faults      \* interrupts and lapses so far, and the batches broken off

vars == <<rw, sem, rows, lastToken, call, effects, faults>>

\* at is how far the call is on its Path; token its fencing token; hb its
\* heartbeat; handler whether the handler was entered in this attempt and in
\* any attempt; why how the attempt ended; out the result ("absent": the task
\* ended without one).
NewCall ==
    [pc |-> "new", at |-> 0, granted |-> FALSE, token |-> 0, hb |-> "none",
     attempt |-> 0, entered |-> FALSE, everEntered |-> FALSE, started |-> FALSE,
     committed |-> FALSE, why |-> "none", out |-> "none"]

Endings == {"none", "ok", "raised", "retryable", "not_committed", "lost", "lost_unknown",
            "lock_timeout", "interrupted", "cancelled"}

CallStates ==
    [ pc : {"new", "queued", "waiting", "running", "unwind", "backoff", "after", "ended"},
      at : Nat, granted : BOOLEAN, token : Nat, hb : {"none", "alive", "failed"},
      attempt : Nat, entered : BOOLEAN, everEntered : BOOLEAN, started : BOOLEAN,
      committed : BOOLEAN, why : Endings,
      out : {"none", "ok", "error", "unknown", "absent", "not_executed"} ]

\* The locks are left to GrantsAccountedFor.
TypeOK ==
    /\ call \in [Calls -> CallStates]
    /\ effects \in [Calls -> Nat]
    /\ lastToken \in Nat
    /\ \A r \in rows : r.owner \in Calls /\ r.access = AccessOf[r.owner]

\* Mutant: the keys are taken in the order the tool returned them.
PathUnsorted(c) ==
    <<"barrier">> \o KeysOf[c] \o (IF KeysOf[c] = <<>> THEN <<>> ELSE <<"table">>)
        \o <<"tenant", "parallel">>

\* _resource_keys: the keys of the call, sorted, each once.
SortedKeys(c) ==
    LET upTo[n \in 0..Len(KeyOrder)] ==
            IF n = 0 THEN <<>>
            ELSE IF KeyOrder[n] \in ToSet(KeysOf[c]) THEN Append(upTo[n - 1], KeyOrder[n])
            ELSE upTo[n - 1]
    IN upTo[Len(KeyOrder)]

\* ToolScheduler.acquire: the order in which a call takes what it needs.
Path(c) ==
    <<"barrier">>
        \o SortedKeys(c)
        \o (IF KeysOf[c] = <<>> THEN <<>> ELSE <<"table">>)
        \o <<"tenant", "parallel">>

Access(c, r) ==
    IF r = "barrier" THEN IF c \in Exclusive THEN "write" ELSE "read" ELSE AccessOf[c]

IsSem(r) == r \in {"tenant", "parallel"}

\* Given back are the first n entries of the path.
Holds(c, r) == \E i \in 1..call[c].at : Path(c)[i] = r
Awaits(c, r) == call[c].pc = "waiting" /\ Path(c)[call[c].at + 1] = r

Init ==
    /\ rw = [x \in Processes \X (Keys \cup {"barrier"}) |-> RWLock]
    /\ sem = [x \in Processes \X {"tenant", "parallel"} |->
                 Semaphore(IF x[2] = "tenant" THEN TenantLimit ELSE ParallelLimit)]
    /\ rows = {}
    /\ lastToken = 0
    /\ \E asked \in Requested :
          call = [c \in Calls |-> IF c \in asked THEN NewCall ELSE [NewCall EXCEPT !.pc = "ended"]]
    /\ effects = [c \in Calls |-> 0]
    /\ faults = [interrupts |-> 0, lapses |-> 0, broken |-> {}]

\* The calls in woken resume once they are scheduled.
Wake(f, woken) == [c \in Calls |-> IF c \in woken THEN [f[c] EXCEPT !.granted = TRUE] ELSE f[c]]

-----------------------------------------------------------------------------
(* dispatch_many: checks, guards and groups *)

Siblings(c) == {d \in Calls : BatchOf[d][1] = BatchOf[c][1]}
Earlier(c) == {d \in Siblings(c) : BatchOf[d][2] < BatchOf[c][2]}

\* dispatch_many was left by an exception, or is about to be.
Broken(c) == BatchOf[c][1] \in faults.broken

Rejected == [NewCall EXCEPT !.pc = "ended", !.out = "error"]

\* A duplicate id, an unknown tool or bad arguments: the whole batch is
\* refused before any guard.
RejectBatch(c) ==
    /\ \A d \in Siblings(c) : call[d].pc = "new"
    /\ ~Broken(c)
    /\ call' = [d \in Calls |-> IF d \in Siblings(c)
                                THEN Rejected ELSE call[d]]
    /\ UNCHANGED <<rw, sem, rows, lastToken, effects, faults>>

\* Authorization and the before hook, call by call; then every call of the
\* batch that was let through is queued.
Guard(c) ==
    /\ call[c].pc = "new" /\ ~Broken(c)
    /\ \A d \in Earlier(c) : call[d].pc # "new"
    /\ \/ call' = [call EXCEPT ![c].pc = "queued"]
       \/ call' = [call EXCEPT ![c] = Rejected]
    /\ UNCHANGED <<rw, sem, rows, lastToken, effects, faults>>

\* _run_group: an exclusive call waits for the calls before it and holds back
\* the calls after it.
MayRun(c) ==
    /\ \A d \in Siblings(c) : call[d].pc # "new"
    /\ \A d \in Earlier(c) : c \in Exclusive \/ d \in Exclusive => call[d].pc = "ended"

-----------------------------------------------------------------------------
(* ToolScheduler.acquire *)

\* The call asks for the next entry of its path; at is what it has by now.
Ask(c, at, f) ==
    LET r == Path(c)[at + 1]
        x == <<ProcessOf[c], r>>
        next == [f EXCEPT ![c].pc = "waiting", ![c].at = at, ![c].granted = FALSE]
    IN IF r = "table"
       THEN call' = next /\ UNCHANGED <<rw, sem>>
       ELSE IF IsSem(r)
       THEN LET got == SemAcquire(sem[x], c, PriorityOf[c])
            IN sem' = [sem EXCEPT ![x] = got.lock] /\ call' = Wake(next, got.woken) /\ UNCHANGED rw
       ELSE LET got == RWAcquire(rw[x], c, Access(c, r))
            IN rw' = [rw EXCEPT ![x] = got.lock] /\ call' = Wake(next, got.woken) /\ UNCHANGED sem

Enter(c) ==
    /\ \/ call[c].pc = "queued" /\ MayRun(c) /\ ~Broken(c)
       \/ call[c].pc = "backoff"
    /\ Ask(c, 0, [call EXCEPT ![c].attempt = @ + 1, ![c].entered = FALSE,
                              ![c].committed = FALSE, ![c].why = "none"])
    /\ UNCHANGED <<rows, lastToken, effects, faults>>

\* A granted call goes on; the last grant completes the _ScheduleLease.
Resume(c) ==
    /\ call[c].pc = "waiting" /\ call[c].granted
    /\ LET at == call[c].at + 1
       IN IF at = Len(Path(c))
          THEN /\ call' = [call EXCEPT ![c].pc = "running", ![c].at = at,
                                       ![c].granted = FALSE, ![c].started = TRUE]
               /\ UNCHANGED <<rw, sem>>
          ELSE Ask(c, at, call)
    /\ UNCHANGED <<rows, lastToken, effects, faults>>

Conflict(a, b) == a = "write" \/ b = "write"

\* Mutant: the token is counted up only once.
NewTokenSame == IF lastToken = 0 THEN 1 ELSE lastToken

NewToken == lastToken + 1

\* SQLiteResourceLockBackend._try_acquire_sync: all keys in one transaction.
TryTable(c) ==
    /\ Awaits(c, "table")
    /\ \A r \in rows : r.key \in ToSet(KeysOf[c]) => ~Conflict(r.access, AccessOf[c])
    /\ rows' = rows \cup {[key |-> k, owner |-> c, access |-> AccessOf[c]] : k \in ToSet(KeysOf[c])}
    /\ lastToken' = NewToken
    /\ Ask(c, call[c].at + 1, [call EXCEPT ![c].token = NewToken, ![c].hb = "alive"])
    /\ UNCHANGED <<effects, faults>>

\* The wait ends without a lease: the deadline of the locks or an interruption.
\* Where the grant raced, it is given back.
GiveUp(c, why, f) ==
    LET r == Path(c)[call[c].at + 1]
        x == <<ProcessOf[c], r>>
        next == [f EXCEPT ![c].pc = "unwind", ![c].why = why, ![c].granted = FALSE]
    IN IF r = "table"
       THEN call' = next /\ UNCHANGED <<rw, sem>>
       ELSE IF IsSem(r)
       THEN LET got == SemGiveUp(sem[x], c, call[c].granted)
            IN sem' = [sem EXCEPT ![x] = got.lock] /\ call' = Wake(next, got.woken) /\ UNCHANGED rw
       ELSE LET got == RWGiveUp(rw[x], c, Access(c, r), call[c].granted)
            IN rw' = [rw EXCEPT ![x] = got.lock] /\ call' = Wake(next, got.woken) /\ UNCHANGED sem

LockTimeout(c) ==
    /\ call[c].pc = "waiting"
    /\ GiveUp(c, "lock_timeout", call)
    /\ UNCHANGED <<rows, lastToken, effects, faults>>

-----------------------------------------------------------------------------
(* execute_once: the handler *)

EndAttempt(c, why) == call' = [call EXCEPT ![c].pc = "unwind", ![c].why = why]

\* tool_execution_dispatch_start is emitted and the handler entered; a sink
\* that fails or a refused admission ends the attempt before.
Dispatch(c) ==
    /\ call[c].pc = "running" /\ ~call[c].entered
    /\ \/ call' = [call EXCEPT ![c].entered = TRUE, ![c].everEntered = TRUE]
       \/ EndAttempt(c, "raised")
    /\ UNCHANGED <<rw, sem, rows, lastToken, effects, faults>>

\* The side effect happens outside.
Commit(c) ==
    /\ call[c].pc = "running" /\ call[c].entered /\ ~call[c].committed
    /\ call' = [call EXCEPT ![c].committed = TRUE]
    /\ effects' = [effects EXCEPT ![c] = @ + 1]
    /\ UNCHANGED <<rw, sem, rows, lastToken, faults>>

\* The handler returns, or raises; RetryableToolError and
\* DefinitelyNotCommittedToolError say that there was no side effect.
HandlerEnds(c) ==
    /\ call[c].pc = "running" /\ call[c].entered
    /\ \E why \in {"ok", "raised", "retryable", "not_committed"} :
          /\ why = "ok" => call[c].committed
          /\ why \in {"retryable", "not_committed"} => ~call[c].committed
          /\ EndAttempt(c, why)
    /\ UNCHANGED <<rw, sem, rows, lastToken, effects, faults>>

\* The lease of a call runs out while its process is stalled.
Lapse(c) ==
    /\ call[c].hb # "none" /\ \E r \in rows : r.owner = c
    /\ faults.lapses < MaxLapses
    /\ faults' = [faults EXCEPT !.lapses = @ + 1]
    /\ rows' = {r \in rows : r.owner # c}
    /\ UNCHANGED <<rw, sem, lastToken, call, effects>>

\* _renew_distributed finds fewer rows than keys, or the renewal itself fails
\* while the rows are still there.
HeartbeatFails(c) ==
    /\ call[c].hb = "alive"
    /\ \/ (~\E r \in rows : r.owner = c) /\ UNCHANGED faults
       \/ /\ faults.lapses < MaxLapses
          /\ faults' = [faults EXCEPT !.lapses = @ + 1]
    /\ call' = [call EXCEPT ![c].hb = "failed"]
    /\ UNCHANGED <<rw, sem, rows, lastToken, effects>>

\* execute_once sees the failed heartbeat first and cancels the handler.
NoticeLost(c) ==
    /\ call[c].pc = "running" /\ call[c].hb = "failed"
    /\ EndAttempt(c, IF c \in Never \/ call[c].committed THEN "lost_unknown" ELSE "lost")
    /\ UNCHANGED <<rw, sem, rows, lastToken, effects, faults>>

-----------------------------------------------------------------------------
(* _ScheduleLease.release and the results of _execute *)

\* Everything on the path up to n goes back.
Released(c, n) ==
    LET mine == {Path(c)[i] : i \in 1..n} \ {"table"}
        p == ProcessOf[c]
        newRw == [x \in DOMAIN rw |-> IF x[1] = p /\ x[2] \in mine
                                      THEN RWRelease(rw[x], Access(c, x[2]))
                                      ELSE [lock |-> rw[x], woken |-> {}]]
        newSem == [x \in DOMAIN sem |-> IF x[1] = p /\ x[2] \in mine
                                        THEN SemRelease(sem[x])
                                        ELSE [lock |-> sem[x], woken |-> {}]]
    IN [rw |-> [x \in DOMAIN rw |-> newRw[x].lock],
        sem |-> [x \in DOMAIN sem |-> newSem[x].lock],
        woken |-> UNION ({newRw[x].woken : x \in DOMAIN rw} \cup {newSem[x].woken : x \in DOMAIN sem})]

\* A heartbeat that failed behind the handler's back overrides how the attempt
\* ended, once the lease was complete, unless the whole task was cancelled.
Ending(c) ==
    IF \/ call[c].hb # "failed" \/ call[c].at < Len(Path(c))
       \/ call[c].why \in {"lost", "lost_unknown", "cancelled"}
    THEN call[c].why
    ELSE IF c \in Never \/ call[c].why = "ok" THEN "lost_unknown" ELSE "lost"

\* Mutant: an exception of the handler is an ordinary error.
ResultPlainError(c, why) ==
    CASE why = "ok" -> "ok"
      [] why = "lost_unknown" -> "unknown"
      [] why = "interrupted" /\ c \in Never /\ call[c].started -> "unknown"
      [] why = "cancelled" -> "absent"
      [] OTHER -> "error"

\* _execute: the result of a call whose last attempt ended.  A cancelled task
\* passes the cancellation on.
Result(c, why) ==
    CASE why = "ok" -> "ok"
      [] why = "lost_unknown" -> "unknown"
      [] why = "interrupted" /\ c \in Never /\ call[c].started -> "unknown"
      [] why = "raised" /\ c \in Effectful /\ call[c].everEntered -> "unknown"
      [] why = "cancelled" -> "absent"
      [] OTHER -> "error"

\* A task that ended without a result.
Gone(c) == [NewCall EXCEPT !.pc = "ended", !.out = "absent", !.at = call[c].at]

\* release, then retry with backoff or the result.
Unwind(c) ==
    /\ call[c].pc = "unwind"
    /\ LET got  == Released(c, call[c].at)
           why  == Ending(c)
           done == [call[c] EXCEPT !.at = 0, !.hb = "none", !.token = 0, !.why = "none"]
       IN /\ rw' = got.rw
          /\ sem' = got.sem
          /\ rows' = {r \in rows : r.owner # c}
          /\ call' = Wake([call EXCEPT ![c] =
                        IF why = "retryable" /\ call[c].attempt < AttemptsOf[c]
                        THEN [done EXCEPT !.pc = "backoff"]
                        ELSE IF why = "cancelled"
                        THEN [NewCall EXCEPT !.pc = "ended", !.out = Result(c, why)]
                        ELSE [done EXCEPT !.pc = "after", !.out = Result(c, why)]], got.woken)
    /\ UNCHANGED <<lastToken, effects, faults>>

\* _after: the hook may replace a result, but neither an uncertain outcome nor
\* a confirmed commit of a tool with side effects.  tool_execution_end stages
\* the result before its listeners run.
After(c) ==
    /\ call[c].pc = "after"
    /\ \E out \in {"ok", "error"} \cup {call[c].out} :
          /\ call[c].out = "unknown" => out = "unknown"
          /\ call[c].out = "ok" /\ c \in Effectful => out = "ok"
          /\ call' = [call EXCEPT ![c] = [NewCall EXCEPT !.pc = "ended", !.out = out, !.at = call[c].at]]
    /\ UNCHANGED <<rw, sem, rows, lastToken, effects, faults>>

-----------------------------------------------------------------------------
\* The call's token is cancelled, or the call times out: _execute cancels the
\* execution, waits for it and gives a result.
Interrupt(c) ==
    /\ faults.interrupts < MaxInterrupts
    /\ faults' = [faults EXCEPT !.interrupts = @ + 1]
    /\ \/ call[c].pc = "waiting" /\ GiveUp(c, "interrupted", call)
       \/ /\ call[c].pc \in {"running", "backoff"}
          /\ EndAttempt(c, "interrupted")
          /\ UNCHANGED <<rw, sem>>
    /\ UNCHANGED <<rows, lastToken, effects>>

\* The interruption hits release while it waits for the heartbeat to stop:
\* nothing is released, and the lease counts as released.
InterruptRelease(c) ==
    /\ call[c].pc = "unwind" /\ call[c].hb # "none" /\ call[c].why # "cancelled"
    /\ faults.interrupts < MaxInterrupts
    /\ faults' = [faults EXCEPT !.interrupts = @ + 1]
    /\ call' = [call EXCEPT ![c].pc = "after", ![c].hb = "none", ![c].why = "none",
                            ![c].out = Result(c, "interrupted")]
    /\ UNCHANGED <<rw, sem, rows, lastToken, effects>>

\* Batches that may still be broken off.
BreakBatch(c) ==
    /\ Broken(c) \/ Cardinality(faults.broken) < MaxBreaks
    /\ faults' = [faults EXCEPT !.broken = @ \cup {BatchOf[c][1]}]

\* The Run's task is cancelled from outside (also when a listener of
\* tool_execution_end passes a cancellation on), or a listener fails while the
\* calls are still being guarded.
BreakOff(c) ==
    /\ call[c].pc # "ended" /\ ~Broken(c)
    /\ BreakBatch(c)
    /\ UNCHANGED <<rw, sem, rows, lastToken, call, effects>>

\* A listener failed on a partial result of the call: _execute, which has the
\* result, raises that error in its place.
ObserverFails(c) ==
    /\ call[c].pc = "after" /\ call[c].everEntered
    /\ BreakBatch(c)
    /\ call' = [call EXCEPT ![c] = Gone(c)]
    /\ UNCHANGED <<rw, sem, rows, lastToken, effects>>

\* _run_group cancels the tasks that are not done; later groups never start.
\* A task that is cancelled while release waits for the heartbeat to stop
\* releases nothing.
CancelTask(c) ==
    /\ Broken(c) /\ call[c].why # "cancelled"
    /\ \/ /\ call[c].pc \in {"new", "queued", "after"}
          /\ call' = [call EXCEPT ![c] = Gone(c)]
          /\ UNCHANGED <<rw, sem>>
       \/ call[c].pc = "waiting" /\ GiveUp(c, "cancelled", call)
       \/ /\ call[c].pc \in {"running", "backoff", "unwind"}
          /\ EndAttempt(c, "cancelled")
          /\ UNCHANGED <<rw, sem>>
       \/ /\ call[c].pc = "unwind" /\ call[c].hb # "none"
          /\ call' = [call EXCEPT ![c] = Gone(c)]
          /\ UNCHANGED <<rw, sem>>
    /\ UNCHANGED <<rows, lastToken, effects, faults>>

\* Agent._handle_run_failure: calls of the broken batch that staged no result
\* are answered with tool_not_executed_due_run_error.
RepairBatch(c) ==
    /\ Broken(c) /\ \A d \in Siblings(c) : call[d].pc = "ended"
    /\ \E d \in Siblings(c) : call[d].out = "absent"
    /\ call' = [d \in Calls |-> IF d \in Siblings(c) /\ call[d].out = "absent"
                                THEN [call[d] EXCEPT !.out = "not_executed"] ELSE call[d]]
    /\ UNCHANGED <<rw, sem, rows, lastToken, effects, faults>>

Next ==
    \E c \in Calls :
        \/ RejectBatch(c) \/ Guard(c) \/ Enter(c) \/ Resume(c) \/ TryTable(c)
        \/ LockTimeout(c) \/ Dispatch(c) \/ Commit(c) \/ HandlerEnds(c)
        \/ Lapse(c) \/ HeartbeatFails(c) \/ NoticeLost(c) \/ Unwind(c) \/ After(c)
        \/ Interrupt(c) \/ InterruptRelease(c)
        \/ BreakOff(c) \/ ObserverFails(c) \/ CancelTask(c) \/ RepairBatch(c)

Spec == Init /\ [][Next]_vars

-----------------------------------------------------------------------------
Holders(p, r) ==
    {c \in Calls : ProcessOf[c] = p /\ (Holds(c, r) \/ (Awaits(c, r) /\ call[c].granted))}

\* However a grant races with a timeout or an interruption, no slot is lost or
\* given twice: every lock and semaphore is taken exactly by the calls that
\* hold it, and these may hold it together.
GrantsAccountedFor ==
    /\ \A x \in DOMAIN sem :
          sem[x].value + Cardinality(Holders(x[1], x[2]))
              = IF x[2] = "tenant" THEN TenantLimit ELSE ParallelLimit
    /\ \A x \in DOMAIN rw :
          LET H == Holders(x[1], x[2])
          IN /\ rw[x].writer = (\E c \in H : Access(c, x[2]) = "write")
             /\ rw[x].readers = Cardinality({c \in H : Access(c, x[2]) = "read"})
             /\ \A c, d \in H : c = d \/ ~Conflict(Access(c, x[2]), Access(d, x[2]))

\* Calls never wait for each other in a circle, and no wake-up is missed: when
\* calls of a process are queued, one of its calls can go on by itself (a call
\* that waits for another process's lease polls the table).
NoCircularWait ==
    \A p \in Processes :
        LET mine == {c \in Calls : ProcessOf[c] = p}
        IN (\E c \in mine : call[c].pc = "waiting") =>
              \E c \in mine : \/ call[c].pc \in {"running", "unwind"}
                              \/ call[c].pc = "waiting" /\ (call[c].granted \/ Awaits(c, "table"))
                              \/ call[c].pc \in {"after", "ended"} /\ call[c].at > 0

\* A committed side effect of a tool that must not be replayed is not repeated
\* by a retry, and whatever timeouts, cancelled tokens, lost leases, handlers
\* and hooks do, its result is the success or an unknown outcome, never an
\* ordinary failure.  Only where the whole batch was broken off, by a failed
\* listener or the cancellation of the Run's task, does it end without a result,
\* and the Run's repair then says that it was not executed.
HonestOutcome ==
    \A c \in Never :
        /\ effects[c] <= 1
        /\ effects[c] = 1 /\ call[c].pc = "ended" =>
              \/ call[c].out \in {"ok", "unknown"}
              \/ Broken(c) /\ call[c].out \in {"absent", "not_executed"}

\* When a lease ran out and another process took its keys, the newer owner has
\* the larger fencing token, so that a resource can turn the older one away.
NewerOwnerFencesOlder ==
    \A c, d \in Calls :
        (/\ c # d /\ call[c].token > 0 /\ call[d].token > 0
         /\ Conflict(AccessOf[c], AccessOf[d])
         /\ \E r \in rows : r.owner = d /\ r.key \in ToSet(KeysOf[c]))
            => call[c].token < call[d].token

=============================================================================
