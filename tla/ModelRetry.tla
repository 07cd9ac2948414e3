----------------------------- MODULE ModelRetry -----------------------------
(***************************************************************************)
(* Model calls with retries (retry/model.py RetryingStreamFn) through one  *)
(* circuit breaker (retry/circuit_breaker.py) that concurrent calls share. *)
(*                                                                         *)
(* The breaker's methods hold a lock and are one step each; while an       *)
(* attempt runs, any number of steps of other calls happen.  The events of *)
(* an attempt are buffered and published only if it was the last one.  The *)
(* notifications model_retry_* are left out, but their sink may raise.     *)
(***************************************************************************)
EXTENDS Naturals, Sequences, FiniteSets

CONSTANTS
    Calls,           \* concurrent model calls
    FailureThreshold,\* failure_threshold
    RecoveryTimeout, \* recovery_timeout_seconds, in clock ticks
    MaxRetries,      \* max_retries
    MaxTime         \* bound on the clock

ASSUME RetryAssumption ==
    /\ FailureThreshold \in Nat \ {0} /\ RecoveryTimeout \in Nat \ {0}
    /\ MaxRetries \in Nat /\ MaxTime \in Nat

VARIABLES
    breaker,         \* the CircuitBreaker
    call,            \* the state of each call
    now

retryVars == <<breaker, call, now>>

Finals == {"ok", "transient", "permanent"}

\* In out, the terminal event; an event of attempt n is n.
TerminalEvent == 0

\* probing: the attempt was admitted in half-open; out: what was published.
NewCall == [pc |-> "gate", retries |-> 0, final |-> "ok", probing |-> FALSE, out |-> << >>]

RetryTypeOK ==
    /\ breaker \in [state : {"closed", "open", "half_open"}, failures : Nat, opened : Nat,
                    inflight : BOOLEAN]
    /\ now \in Nat
    /\ DOMAIN call = Calls
    /\ \A c \in Calls :
          /\ call[c].pc \in {"gate", "attempt", "record", "backoff", "done", "failed"}
          /\ call[c].retries \in 0..MaxRetries
          /\ call[c].final \in Finals
          /\ call[c].probing => call[c].pc \in {"attempt", "record"}

RetryInit ==
    /\ breaker = [state |-> "closed", failures |-> 0, opened |-> 0, inflight |-> FALSE]
    /\ call = [c \in Calls |-> NewCall]
    /\ now = 0

-----------------------------------------------------------------------------
\* before_call.
Refuses ==
    \/ breaker.state = "open" /\ now - breaker.opened < RecoveryTimeout
    \/ breaker.state = "half_open" /\ breaker.inflight

Admitted ==
    IF breaker.state = "closed" THEN breaker
    ELSE [breaker EXCEPT !.state = "half_open", !.inflight = TRUE]

RecordedSuccess == [breaker EXCEPT !.state = "closed", !.failures = 0, !.inflight = FALSE]

RecordedFailure ==
    LET f == [breaker EXCEPT !.inflight = FALSE, !.failures = @ + 1]
    IN  IF f.state = "half_open" \/ f.failures >= FailureThreshold
        THEN [f EXCEPT !.state = "open", !.opened = now] ELSE f

\* The call is over: only what it published matters from here on.
Ended(pc, out) == [NewCall EXCEPT !.pc = pc, !.out = out]

\* A refusal is a permanent error: it is published, not retried, not recorded.
Gate(c) ==
    /\ call[c].pc = "gate"
    /\ IF Refuses
       THEN /\ call' = [call EXCEPT ![c] = Ended("done", Append(@.out, TerminalEvent))]
            /\ UNCHANGED breaker
       ELSE /\ breaker' = Admitted
            /\ call' = [call EXCEPT ![c].pc = "attempt",
                                    ![c].probing = breaker.state # "closed"]
    /\ UNCHANGED now

\* The attempt yields a terminal event: an answer, a transient error, or an
\* error or abort that is not retried.
AttemptReturns(c) ==
    /\ call[c].pc = "attempt"
    /\ \E final \in Finals : call' = [call EXCEPT ![c].pc = "record", ![c].final = final]
    /\ UNCHANGED <<breaker, now>>

Publish(c) == Ended("done", call[c].out \o <<call[c].retries + 1, TerminalEvent>>)

\* Mutant: the events of a failed attempt are published before the retry.
RetryPublishes(c) == [call[c] EXCEPT !.pc = "backoff", !.retries = @ + 1, !.probing = FALSE,
                                     !.out = Append(@, call[c].retries + 1)]

\* Mutant: the retry is not counted.
RetryUncounted(c) == [call[c] EXCEPT !.pc = "backoff", !.probing = FALSE]

Retry(c) == [call[c] EXCEPT !.pc = "backoff", !.retries = @ + 1, !.probing = FALSE]

\* Record the outcome and schedule a retry, unless the retries or the time
\* for them are used up, or the sink of the notification raises.
RecordAttempt(c) ==
    /\ call[c].pc = "record"
    /\ breaker' = IF call[c].final = "transient" THEN RecordedFailure ELSE RecordedSuccess
    /\ \/ call' = [call EXCEPT ![c] = Publish(c)]
       \/ /\ call[c].final = "transient" /\ call[c].retries < MaxRetries
          /\ call' = [call EXCEPT ![c] = Retry(c)]
       \/ call' = [call EXCEPT ![c] = Ended("failed", @.out)]
    /\ UNCHANGED now

BackoffEnds(c) ==
    /\ call[c].pc = "backoff"
    /\ call' = [call EXCEPT ![c].pc = "gate"]
    /\ UNCHANGED <<breaker, now>>

\* The token is cancelled during the backoff: an aborted message ends the call.
BackoffCancelled(c) ==
    /\ call[c].pc = "backoff"
    /\ call' = [call EXCEPT ![c] = Ended("done", Append(@.out, TerminalEvent))]
    /\ UNCHANGED <<breaker, now>>

\* The attempt or a sink raises, or the consumer abandons the stream and the
\* task is cancelled: output.fail.
CallFails(c) ==
    /\ call[c].pc \in {"gate", "attempt", "record", "backoff"}
    /\ call' = [call EXCEPT ![c] = Ended("failed", @.out)]
    /\ UNCHANGED <<breaker, now>>

\* The host makes the next call with the same breaker.
NextCall(c) ==
    /\ call[c].pc \in {"done", "failed"}
    /\ call' = [call EXCEPT ![c] = NewCall]
    /\ UNCHANGED <<breaker, now>>

TimePasses == now < MaxTime /\ now' = now + 1 /\ UNCHANGED <<breaker, call>>

CallStep(c) == Gate(c) \/ AttemptReturns(c) \/ RecordAttempt(c) \/ BackoffEnds(c)

RetryNext ==
    \/ \E c \in Calls : CallStep(c) \/ BackoffCancelled(c) \/ CallFails(c) \/ NextCall(c)
    \/ TimePasses

\* The event loop runs the tasks, and attempts end (the provider's timeout).
RetrySpec == RetryInit /\ [][RetryNext]_retryVars /\ \A c \in Calls : WF_retryVars(CallStep(c))

-----------------------------------------------------------------------------
\* A failed attempt never enters the agent's context: whatever was retried,
\* the consumer sees the events of one attempt, followed by the terminal one.
OnlyLastAttempt ==
    \A c \in Calls : call[c].out \in
        {<< >>, <<TerminalEvent>>} \cup {<<n, TerminalEvent>> : n \in 1..(MaxRetries + 1)}

\* A call ends: retries are finite although the breaker and other calls
\* interfere.
CallEnds == \A c \in Calls : call[c].pc = "gate" ~> call[c].pc \in {"done", "failed"}

=============================================================================
