---------------------------- MODULE ModelRouter ----------------------------
(***************************************************************************)
(* The resilient model router (model_routing.py): a HealthRegistry shared  *)
(* by concurrent routes, and the candidate loop of one route, which falls  *)
(* over to the next candidate until something visible was published.       *)
(*                                                                         *)
(* Each registry call holds a coroutine lock and is one step; any number   *)
(* of other routes run while an attempt streams.  The ranking is an        *)
(* arbitrary order of arbitrary eligible candidates: requirements, quality *)
(* and cost decide it.  Telemetry is left out.                             *)
(***************************************************************************)
EXTENDS Naturals, Sequences, FiniteSets, SequencesExt

CONSTANTS
    Candidates,      \* candidate ids
    Routes,          \* concurrent stream calls
    NoCandidate,     \* no attempt under way
    Threshold,       \* failure_threshold
    Cooldown,        \* cooldown_seconds, in clock ticks
    MaxAttempts,     \* max_attempts of a route
    MaxClock         \* bound on the clock

ASSUME RouterAssumption ==
    /\ NoCandidate \notin Candidates /\ "terminal" \notin Candidates
    /\ IsFiniteSet(Candidates)
    /\ Threshold \in Nat \ {0} /\ Cooldown \in Nat
    /\ MaxAttempts \in Nat \ {0} /\ MaxClock \in Nat

VARIABLES
    health,      \* the HealthRegistry: a _MutableHealth for every candidate
    route,       \* the state of each route
    clock

vars == <<health, route, clock>>

Outcomes == {"success", "retryable_error", "non_retryable_error", "cancelled", "deadline_exceeded"}

\* probing: the attempt was admitted as a half-open probe.  buffered: events
\* held back; out: the candidates whose events were published, then the
\* terminal event.
NewRoute == [pc |-> "rank", ranked |-> << >>, candidate |-> NoCandidate, probing |-> FALSE,
             attempts |-> 0, buffered |-> FALSE, visible |-> FALSE, outcome |-> "success",
             out |-> << >>, cancelled |-> FALSE, late |-> FALSE]

RouteStates ==
    [ pc        : {"rank", "next", "attempt", "record", "done", "gone"},
      ranked    : Seq(Candidates),
      candidate : Candidates \cup {NoCandidate},
      probing   : BOOLEAN,
      attempts  : 0..MaxAttempts,
      buffered  : BOOLEAN,
      visible   : BOOLEAN,
      outcome   : Outcomes,
      out       : Seq(Candidates \cup {"terminal"}),
      cancelled : BOOLEAN,
      late      : BOOLEAN ]

TypeOK ==
    /\ health \in [Candidates -> [status : {"closed", "open", "half_open"}, failures : Nat,
                                  opened : Nat, probe : BOOLEAN]]
    /\ clock \in Nat
    /\ route \in [Routes -> RouteStates]

Init ==
    /\ health = [c \in Candidates |-> [status |-> "closed", failures |-> 0, opened |-> 0,
                                       probe |-> FALSE]]
    /\ route = [r \in Routes |-> NewRoute]
    /\ clock = 0

-----------------------------------------------------------------------------
\* HealthRegistry.  _refresh: an open candidate becomes half-open in time.
Refreshed(h) ==
    IF h.status = "open" /\ clock - h.opened >= Cooldown
    THEN [h EXCEPT !.status = "half_open", !.probe = FALSE] ELSE h

Opened(h) == [h EXCEPT !.status = "open", !.opened = clock, !.probe = FALSE]

\* try_acquire, on a refreshed state.
Admits(h) == h.status = "closed" \/ (h.status = "half_open" /\ ~h.probe)

AfterSuccess(h) == [status |-> "closed", failures |-> 0, opened |-> 0, probe |-> FALSE]

\* Mutant: the failure of a probe does not count.
AfterFailureUncounted(h) ==
    LET f == Refreshed(h) IN
    CASE f.status \in {"half_open", "open"} -> Opened([f EXCEPT !.failures = 0])
      [] OTHER -> IF f.failures + 1 >= Threshold THEN Opened([f EXCEPT !.failures = @ + 1])
                                                 ELSE [f EXCEPT !.failures = @ + 1]

AfterFailure(h) ==
    LET f == Refreshed(h) IN
    CASE f.status = "half_open" ->
            Opened([f EXCEPT !.failures = IF @ + 1 > Threshold THEN @ + 1 ELSE Threshold])
      [] f.status = "open" -> Opened(f)
      [] OTHER -> IF f.failures + 1 >= Threshold
                  THEN Opened([f EXCEPT !.failures = @ + 1])
                  ELSE [f EXCEPT !.failures = @ + 1, !.probe = FALSE]

AfterCancel(h) == [h EXCEPT !.probe = FALSE]

\* What the route records about the candidate it tried.
Recorded(h, outcome) ==
    CASE outcome = "success" -> AfterSuccess(h)
      [] outcome = "cancelled" -> AfterCancel(h)
      [] OTHER -> AfterFailure(h)

-----------------------------------------------------------------------------
\* The route is over: only what it published matters from here on.
Over(pc, out) == [NewRoute EXCEPT !.pc = pc, !.out = out]

\* The terminal event, behind the held back events of the last attempt.
Finished(r, flush) ==
    Over("done", route[r].out \o (IF flush THEN <<route[r].candidate>> ELSE << >>)
                             \o <<"terminal">>)

\* snapshots refreshes every candidate; rank leaves the open ones out.
Rank(r) ==
    /\ route[r].pc = "rank"
    /\ health' = [c \in Candidates |-> Refreshed(health[c])]
    /\ \E S \in SUBSET {c \in Candidates : health'[c].status # "open"} :
          \E order \in SetToSeqs(S) :
             route' = [route EXCEPT ![r] = IF @.cancelled THEN Finished(r, FALSE)
                                           ELSE [@ EXCEPT !.pc = "next", !.ranked = order]]
    /\ UNCHANGED clock

\* The head of the candidate loop: budget, cancellation and deadline first.
Exhausted(r) ==
    \/ route[r].ranked = << >> \/ route[r].attempts >= MaxAttempts
    \/ route[r].cancelled \/ route[r].late

GiveUp(r) ==
    /\ route[r].pc = "next" /\ Exhausted(r)
    /\ route' = [route EXCEPT ![r] = Finished(r, FALSE)]
    /\ UNCHANGED <<health, clock>>

TryCandidate(r) ==
    /\ route[r].pc = "next" /\ ~Exhausted(r)
    /\ LET c == Head(route[r].ranked)
           h == Refreshed(health[c])
           rest == [route[r] EXCEPT !.ranked = Tail(@)]
       IN  IF Admits(h)
           THEN /\ health' = [health EXCEPT ![c] = [h EXCEPT !.probe = h.status = "half_open"]]
                /\ route' = [route EXCEPT ![r] =
                      [rest EXCEPT !.pc = "attempt", !.candidate = c, !.attempts = @ + 1,
                                   !.probing = h.status = "half_open",
                                   !.buffered = FALSE, !.visible = FALSE]]
           ELSE /\ health' = [health EXCEPT ![c] = h]
                /\ route' = [route EXCEPT ![r] = rest]
    /\ UNCHANGED clock

\* The candidate streams an event: held back until one is visible.
StreamHidden(r) ==
    /\ route[r].pc = "attempt" /\ ~route[r].visible
    /\ route' = [route EXCEPT ![r].buffered = TRUE]
    /\ UNCHANGED <<health, clock>>

StreamVisible(r) ==
    /\ route[r].pc = "attempt" /\ ~route[r].visible
    /\ route' = [route EXCEPT ![r].visible = TRUE, ![r].buffered = FALSE,
                              ![r].out = Append(@, route[r].candidate)]
    /\ UNCHANGED <<health, clock>>

\* _attempt_outcome: a cancelled token wins; the deadline interrupts a wait.
AttemptEnds(r, outcome) ==
    /\ route[r].pc = "attempt"
    /\ (outcome = "deadline_exceeded") => route[r].late
    /\ route' = [route EXCEPT ![r].pc = "record",
                              ![r].outcome = IF route[r].cancelled THEN "cancelled" ELSE outcome]
    /\ UNCHANGED <<health, clock>>

\* Mutant: a retryable error fails over even after visible output.
FailsOverAlways(r) == route[r].outcome = "retryable_error"

FailsOver(r) == route[r].outcome = "retryable_error" /\ ~route[r].visible

\* Record the outcome, then publish the result or try the next candidate.  A
\* deadline without visible output leaves the loop and discards the buffer,
\* as does a cancellation.
RecordOutcome(r) ==
    /\ route[r].pc = "record"
    /\ health' = [health EXCEPT ![route[r].candidate] = Recorded(@, route[r].outcome)]
    /\ route' = [route EXCEPT ![r] =
          IF FailsOver(r)
          THEN [@ EXCEPT !.pc = "next", !.candidate = NoCandidate, !.probing = FALSE,
                         !.buffered = FALSE]
          ELSE Finished(r, /\ route[r].buffered
                           /\ route[r].outcome \in {"success", "non_retryable_error"})]
    /\ UNCHANGED clock

\* The consumer abandons the stream: the task is cancelled at an await.
TaskCancelled(r) ==
    /\ route[r].pc \notin {"done", "gone"}
    /\ route' = [route EXCEPT ![r] = Over("gone", @.out)]
    /\ UNCHANGED <<health, clock>>

CancelToken(r) ==
    /\ route[r].pc \notin {"done", "gone"} /\ ~route[r].cancelled
    /\ route' = [route EXCEPT ![r].cancelled = TRUE]
    /\ UNCHANGED <<health, clock>>

PassDeadline(r) ==
    /\ route[r].pc \notin {"done", "gone"} /\ ~route[r].late
    /\ route' = [route EXCEPT ![r].late = TRUE]
    /\ UNCHANGED <<health, clock>>

\* The host makes the next stream call with the same registry.
NextRoute(r) ==
    /\ route[r].pc \in {"done", "gone"}
    /\ route' = [route EXCEPT ![r] = NewRoute]
    /\ UNCHANGED <<health, clock>>

Tick ==
    /\ clock < MaxClock
    /\ clock' = clock + 1
    /\ UNCHANGED <<health, route>>

\* What the router does by itself.
RouteStep(r) ==
    \/ Rank(r) \/ GiveUp(r) \/ TryCandidate(r) \/ RecordOutcome(r)
    \/ AttemptEnds(r, "deadline_exceeded")

ProviderStep(r) ==
    \/ StreamHidden(r) \/ StreamVisible(r)
    \/ \E o \in Outcomes \ {"deadline_exceeded"} : AttemptEnds(r, o)

Next ==
    \/ \E r \in Routes : RouteStep(r) \/ ProviderStep(r) \/ TaskCancelled(r) \/ CancelToken(r)
                         \/ PassDeadline(r) \/ NextRoute(r)
    \/ Tick

Spec == Init /\ [][Next]_vars

-----------------------------------------------------------------------------
Published(r) == {route[r].out[i] : i \in DOMAIN route[r].out} \ {"terminal"}

\* The content of two models is never spliced into one assistant message: the
\* published events of a route come from one candidate, however many it tried,
\* and a finished route published exactly one terminal event, as its last.
NoSplice ==
    \A r \in Routes :
        /\ Cardinality(Published(r)) <= 1
        /\ \A i \in DOMAIN route[r].out :
              route[r].out[i] = "terminal" <=> route[r].pc = "done" /\ i = Len(route[r].out)

\* A candidate is open or half-open only after Threshold failures without a
\* success in between, and a closed one is below it, whatever late outcomes of
\* earlier attempts are recorded.
BreakerConsistent ==
    \A c \in Candidates : health[c].failures >= Threshold <=> health[c].status # "closed"

=============================================================================
