------------------------- MODULE ModelCalls_proofs --------------------------
(***************************************************************************)
(* The path of a model call, for any candidates, calls, queues and limits: *)
(* the router publishes the events of one candidate, the retry loop those  *)
(* of one attempt, and the bounded stream between them and the agent loses *)
(* no fact.                                                                *)
(*                                                                         *)
(* Nothing relates a route to the health of its candidate, so the two      *)
(* arguments about the router are independent.                             *)
(***************************************************************************)
EXTENDS ModelRouter, ModelRetry, EventStream, FiniteSetTheorems, SequenceTheorems,
        WellFoundedInduction, TLAPS

-----------------------------------------------------------------------------
(* The router *)

HealthStates == [status : {"closed", "open", "half_open"}, failures : Nat,
                 opened : Nat, probe : BOOLEAN]

\* What a route has published: nothing or the events of one candidate, and
\* then the terminal event once it is done.
OneCandidate(events) == events = << >> \/ (Len(events) = 1 /\ events[1] \in Candidates)

ThenTerminal(events) == /\ Len(events) \in {1, 2} /\ events[Len(events)] = "terminal"
                        /\ Len(events) = 2 => events[1] \in Candidates

OutOK(s) ==
    /\ s.pc \in {"rank", "next"} => s.out = << >>
    /\ s.pc \in {"attempt", "record"} =>
          /\ s.candidate \in Candidates
          /\ IF s.visible THEN Len(s.out) = 1 /\ s.out[1] = s.candidate /\ ~s.buffered
                          ELSE s.out = << >>
    /\ s.pc = "gone" => OneCandidate(s.out)
    /\ s.pc = "done" => ThenTerminal(s.out)

\* The inductive invariant about the routes.
RoutesOK == \A r \in Routes : OutOK(route[r])

-----------------------------------------------------------------------------
\* An order of the candidates is a sequence of candidates.
LEMMA OrderIsSeq ==
  ASSUME NEW S \in SUBSET Candidates, NEW order \in SetToSeqs(S)
  PROVE  order \in Seq(Candidates)
<1>1. Cardinality(S) \in Nat
  BY RouterAssumption, FS_Subset, FS_CardinalityType
<1>2. order \in [1..Cardinality(S) -> Candidates]
  BY DEF SetToSeqs
<1> QED
  BY <1>1, <1>2

\* The registry's operations keep the type of a record, and the record
\* consistent with its count of failures.
Consistent(h) == h.failures >= Threshold <=> h.status # "closed"

LEMMA HealthFacts ==
  ASSUME NEW h \in HealthStates, NEW outcome \in Outcomes, clock \in Nat
  PROVE  /\ Refreshed(h) \in HealthStates
         /\ \A b \in BOOLEAN : [Refreshed(h) EXCEPT !.probe = b] \in HealthStates
         /\ Recorded(h, outcome) \in HealthStates
         /\ Consistent(h) => /\ Consistent(Refreshed(h))
                             /\ \A b \in BOOLEAN : Consistent([Refreshed(h) EXCEPT !.probe = b])
                             /\ Consistent(Recorded(h, outcome))
<1> USE RouterAssumption DEF HealthStates, Consistent
<1>1. /\ Refreshed(h) \in HealthStates
      /\ Consistent(h) => Consistent(Refreshed(h))
  BY DEF Refreshed
<1>2. /\ AfterFailure(h) \in HealthStates
      /\ Consistent(h) => Consistent(AfterFailure(h))
  <2> DEFINE f == Refreshed(h)
  <2>1. f \in HealthStates /\ (Consistent(h) => Consistent(f))
    BY <1>1
  <2> HIDE DEF f
  <2>2. \A n \in Nat : n >= Threshold =>
          /\ Opened([f EXCEPT !.failures = n]) \in HealthStates
          /\ Consistent(Opened([f EXCEPT !.failures = n]))
    BY <2>1 DEF Opened
  <2>3. CASE f.status = "half_open"
    <3> DEFINE n == IF f.failures + 1 > Threshold THEN f.failures + 1 ELSE Threshold
    <3>1. AfterFailure(h) = Opened([f EXCEPT !.failures = n])
      BY <2>1, <2>3 DEF AfterFailure, f
    <3>2. n \in Nat /\ n >= Threshold
      BY <2>1
    <3> QED
      BY <2>2, <3>1, <3>2
  <2>4. CASE f.status = "open"
    <3>1. AfterFailure(h) = Opened(f)
      BY <2>4 DEF AfterFailure, f
    <3> QED
      BY <2>1, <2>4, <3>1 DEF Opened
  <2>5. CASE f.status = "closed"
    <3>1. CASE f.failures + 1 >= Threshold
      <4>1. AfterFailure(h) = Opened([f EXCEPT !.failures = f.failures + 1])
        BY <2>1, <2>5, <3>1 DEF AfterFailure, f
      <4> QED
        BY <2>1, <2>2, <3>1, <4>1
    <3>2. CASE ~(f.failures + 1 >= Threshold)
      <4>1. AfterFailure(h) = [f EXCEPT !.failures = @ + 1, !.probe = FALSE]
        BY <2>1, <2>5, <3>2 DEF AfterFailure, f
      <4>2. [f EXCEPT !.failures = @ + 1, !.probe = FALSE] \in HealthStates
        <5>1. f \in HealthStates /\ f.failures + 1 \in Nat
          BY <2>1
        <5> QED
          BY <5>1
      <4>3. Consistent([f EXCEPT !.failures = @ + 1, !.probe = FALSE])
        BY <2>1, <2>5, <3>2
      <4> QED
        BY <4>1, <4>2, <4>3
    <3> QED
      BY <3>1, <3>2
  <2> QED
    BY <2>1, <2>3, <2>4, <2>5
<1>3. \A b \in BOOLEAN :
        /\ [Refreshed(h) EXCEPT !.probe = b] \in HealthStates
        /\ Consistent(h) => Consistent([Refreshed(h) EXCEPT !.probe = b])
  <2> DEFINE f == Refreshed(h)
  <2> HIDE DEF f
  <2>1. f \in HealthStates /\ (Consistent(h) => Consistent(f))
    BY <1>1 DEF f
  <2>2. \A b \in BOOLEAN : /\ [f EXCEPT !.probe = b] \in HealthStates
                           /\ Consistent(h) => Consistent([f EXCEPT !.probe = b])
    BY <2>1
  <2> QED
    BY <2>2 DEF f
<1>4. /\ Recorded(h, outcome) \in HealthStates
      /\ Consistent(h) => Consistent(Recorded(h, outcome))
  <2>1. CASE outcome = "success"
    BY <2>1 DEF Recorded, AfterSuccess
  <2>2. CASE outcome = "cancelled"
    BY <2>2 DEF Recorded, AfterCancel
  <2>3. CASE outcome \notin {"success", "cancelled"}
    BY <1>2, <2>3 DEF Recorded
  <2> QED
    BY <2>1, <2>2, <2>3
<1> QED
  BY <1>1, <1>3, <1>4

-----------------------------------------------------------------------------
\* A route that is over, and one that gives up or finishes, is a route again.
LEMMA OverFacts ==
  ASSUME NEW pc \in {"done", "gone"}, NEW events \in Seq(Candidates \cup {"terminal"})
  PROVE  /\ Over(pc, events) \in RouteStates
         /\ Over(pc, events).pc = pc
         /\ Over(pc, events).out = events
<1>1. 0 \in 0..MaxAttempts /\ << >> \in Seq(Candidates)
  BY RouterAssumption
<1>2. NewRoute \in RouteStates
  BY <1>1 DEF NewRoute, RouteStates, Outcomes
<1> QED
  BY <1>2 DEF Over, RouteStates

LEMMA FinishedFacts ==
  ASSUME TypeOK, RoutesOK, NEW r \in Routes, NEW flush \in BOOLEAN,
         route[r].pc \in {"rank", "next", "attempt", "record"},
         flush => route[r].pc = "record" /\ route[r].buffered
  PROVE  Finished(r, flush) \in RouteStates /\ OutOK(Finished(r, flush))
<1> DEFINE sent == route[r].out \o (IF flush THEN <<route[r].candidate>> ELSE << >>)
           events == sent \o <<"terminal">>
<1>1. route[r] \in RouteStates /\ OutOK(route[r])
  BY DEF TypeOK, RoutesOK
<1>2. sent \in Seq(Candidates \cup {"terminal"}) /\ OneCandidate(sent)
  <2>1. CASE flush
    <3>1. route[r].out = << >> /\ route[r].candidate \in Candidates
      BY <1>1, <2>1 DEF OutOK, RouteStates
    <3>2. sent = <<route[r].candidate>>
      BY <2>1, <3>1
    <3>3. <<route[r].candidate>> \in Seq(Candidates \cup {"terminal"})
      BY <3>1
    <3>4. OneCandidate(<<route[r].candidate>>)
      BY <3>1 DEF OneCandidate
    <3> QED
      BY <3>2, <3>3, <3>4
  <2>2. CASE ~flush
    <3>1. sent = route[r].out
      BY <1>1, <2>2 DEF RouteStates
    <3> QED
      BY <1>1, <3>1 DEF OutOK, OneCandidate, RouteStates
  <2> QED
    BY <2>1, <2>2
<1> HIDE DEF sent
<1>3. events \in Seq(Candidates \cup {"terminal"}) /\ ThenTerminal(events)
  <2>1. <<"terminal">> \in Seq(Candidates \cup {"terminal"})
    OBVIOUS
  <2>2. events \in Seq(Candidates \cup {"terminal"}) /\ Len(events) = Len(sent) + 1
    BY <1>2, <2>1
  <2>3. \A i \in 1..Len(events) : events[i] = IF i <= Len(sent) THEN sent[i] ELSE "terminal"
    BY <1>2, <2>1
  <2>4. Len(sent) \in {0, 1}
    BY <1>2 DEF OneCandidate
  <2> HIDE DEF events
  <2> QED
    BY <1>2, <2>2, <2>3, <2>4 DEF OneCandidate, ThenTerminal
<1>4. Finished(r, flush) = Over("done", events)
  BY DEF Finished, sent
<1> HIDE DEF events
<1> QED
  BY <1>3, <1>4, OverFacts DEF OutOK

-----------------------------------------------------------------------------
Inv == TypeOK /\ BreakerConsistent /\ RoutesOK

LEMMA InvInit == Init => Inv
<1> SUFFICES ASSUME Init PROVE Inv
  OBVIOUS
<1> USE RouterAssumption DEF Init
<1>1. TypeOK
  <2>1. NewRoute \in RouteStates
    BY DEF NewRoute, RouteStates, Outcomes
  <2> QED
    BY <2>1 DEF TypeOK
<1>2. BreakerConsistent
  BY DEF BreakerConsistent
<1>3. RoutesOK
  BY DEF RoutesOK, OutOK, NewRoute
<1> QED
  BY <1>1, <1>2, <1>3 DEF Inv

\* A step that changes one route and leaves the registry alone keeps the
\* invariant if the new state of the route is a legal one.
LEMMA OneRoute ==
  ASSUME Inv, NEW r \in Routes, NEW s \in RouteStates, OutOK(s),
         route' = [route EXCEPT ![r] = s], UNCHANGED <<health, clock>>
  PROVE  Inv'
<1>1. TypeOK'
  BY DEF Inv, TypeOK
<1>2. BreakerConsistent'
  BY DEF Inv, BreakerConsistent
<1>3. RoutesOK'
  BY DEF Inv, TypeOK, RoutesOK
<1> QED
  BY <1>1, <1>2, <1>3 DEF Inv

\* A step that changes one route and the registry.
LEMMA RouteAndHealth ==
  ASSUME Inv, NEW r \in Routes, NEW s \in RouteStates, OutOK(s),
         route' = [route EXCEPT ![r] = s], UNCHANGED clock,
         health' \in [Candidates -> HealthStates],
         \A c \in Candidates : Consistent(health'[c])
  PROVE  Inv'
<1>1. TypeOK'
  BY DEF Inv, TypeOK, HealthStates
<1>2. BreakerConsistent'
  BY DEF BreakerConsistent, Consistent
<1>3. RoutesOK'
  BY DEF Inv, TypeOK, RoutesOK
<1> QED
  BY <1>1, <1>2, <1>3 DEF Inv

LEMMA InvNext == Inv /\ [Next]_vars => Inv'
<1> SUFFICES ASSUME Inv, [Next]_vars PROVE Inv'
  OBVIOUS
<1>t. /\ health \in [Candidates -> HealthStates]
      /\ route \in [Routes -> RouteStates]
      /\ clock \in Nat
      /\ \A c \in Candidates : Consistent(health[c])
      /\ \A q \in Routes : OutOK(route[q])
  BY DEF Inv, TypeOK, HealthStates, BreakerConsistent, Consistent, RoutesOK
<1>1. ASSUME NEW r \in Routes, Rank(r) PROVE Inv'
  <2>1. PICK S \in SUBSET {c \in Candidates : health'[c].status # "open"} :
          \E order \in SetToSeqs(S) :
             route' = [route EXCEPT ![r] = IF @.cancelled THEN Finished(r, FALSE)
                                           ELSE [@ EXCEPT !.pc = "next", !.ranked = order]]
    BY <1>1 DEF Rank
  <2>2. PICK order \in SetToSeqs(S) :
             route' = [route EXCEPT ![r] = IF @.cancelled THEN Finished(r, FALSE)
                                           ELSE [@ EXCEPT !.pc = "next", !.ranked = order]]
    BY <2>1
  <2>3. order \in Seq(Candidates)
    BY OrderIsSeq
  <2> DEFINE s == IF route[r].cancelled THEN Finished(r, FALSE)
                  ELSE [route[r] EXCEPT !.pc = "next", !.ranked = order]
  <2>4. s \in RouteStates /\ OutOK(s)
    <3>1. CASE route[r].cancelled
      BY <1>1, <3>1, FinishedFacts DEF Rank, Inv
    <3>2. CASE ~route[r].cancelled
      <4>1. route[r] \in RouteStates /\ OutOK(route[r]) /\ route[r].pc = "rank"
        BY <1>1, <1>t DEF Rank
      <4>2. [route[r] EXCEPT !.pc = "next", !.ranked = order] \in RouteStates
        BY <2>3, <4>1 DEF RouteStates
      <4>3. OutOK([route[r] EXCEPT !.pc = "next", !.ranked = order])
        BY <4>1 DEF OutOK, RouteStates
      <4> QED
        BY <3>2, <4>2, <4>3
    <3> QED
      BY <3>1, <3>2
  <2>5. /\ health' \in [Candidates -> HealthStates]
        /\ \A c \in Candidates : Consistent(health'[c])
    <3>1. health' = [c \in Candidates |-> Refreshed(health[c])]
      BY <1>1 DEF Rank
    <3>2. \A c \in Candidates : Refreshed(health[c]) \in HealthStates
                                 /\ Consistent(Refreshed(health[c]))
      <4> TAKE c \in Candidates
      <4> QED
        BY <1>t, HealthFacts DEF Outcomes
    <3> QED
      BY <3>1, <3>2
  <2> QED
    BY <1>1, <2>2, <2>4, <2>5, RouteAndHealth DEF Rank
<1>2. ASSUME NEW r \in Routes, GiveUp(r) PROVE Inv'
  BY <1>2, OneRoute, FinishedFacts DEF GiveUp, Inv
<1>3. ASSUME NEW r \in Routes, TryCandidate(r) PROVE Inv'
  <2> DEFINE c == Head(route[r].ranked)
             h == Refreshed(health[c])
             rest == [route[r] EXCEPT !.ranked = Tail(@)]
             tried == [rest EXCEPT !.pc = "attempt", !.candidate = c, !.attempts = @ + 1,
                                   !.probing = h.status = "half_open",
                                   !.buffered = FALSE, !.visible = FALSE]
  <2>1. /\ route[r] \in RouteStates /\ OutOK(route[r]) /\ route[r].pc = "next"
        /\ route[r].ranked # << >> /\ route[r].attempts < MaxAttempts
    BY <1>3, <1>t, RouterAssumption DEF TryCandidate, Exhausted, RouteStates
  <2>2. c \in Candidates /\ Tail(route[r].ranked) \in Seq(Candidates)
    BY <2>1 DEF RouteStates
  <2>3. health[c] \in HealthStates /\ Consistent(health[c]) /\ clock \in Nat
    BY <1>t, <2>2
  <2>4. /\ h \in HealthStates /\ Consistent(h)
        /\ \A b \in BOOLEAN : [h EXCEPT !.probe = b] \in HealthStates
                              /\ Consistent([h EXCEPT !.probe = b])
    BY <2>3, HealthFacts DEF Outcomes
  <2>5. rest \in RouteStates /\ OutOK(rest)
    BY <2>1, <2>2 DEF RouteStates, OutOK
  <2>6. tried \in RouteStates /\ OutOK(tried)
    <3>1. /\ rest.pc = "next" /\ rest.out = << >> /\ rest.attempts + 1 \in 0..MaxAttempts
          /\ rest \in RouteStates
      BY <2>1, <2>5, RouterAssumption DEF RouteStates, OutOK
    <3>2. (h.status = "half_open") \in BOOLEAN
      OBVIOUS
    <3> HIDE DEF rest, h, c
    <3>3. tried \in RouteStates
      BY <2>2, <3>1, <3>2 DEF RouteStates
    <3>4. OutOK(tried)
      BY <2>2, <3>1 DEF RouteStates, OutOK
    <3> QED
      BY <3>3, <3>4
  <2>7. UNCHANGED clock
    BY <1>3 DEF TryCandidate
  <2>8. CASE Admits(h)
    <3>1. /\ health' = [health EXCEPT ![c] = [h EXCEPT !.probe = h.status = "half_open"]]
          /\ route' = [route EXCEPT ![r] = tried]
      BY <1>3, <2>8 DEF TryCandidate
    <3> DEFINE b == h.status = "half_open"
    <3>2. b \in BOOLEAN
      OBVIOUS
    <3>3. health' = [health EXCEPT ![c] = [h EXCEPT !.probe = b]]
      BY <3>1
    <3> HIDE DEF b, h, c, tried, rest
    <3>4. /\ health' \in [Candidates -> HealthStates]
          /\ \A d \in Candidates : Consistent(health'[d])
      BY <1>t, <2>2, <2>4, <3>2, <3>3
    <3> QED
      BY <2>6, <2>7, <3>1, <3>4, RouteAndHealth
  <2>9. CASE ~Admits(h)
    <3>1. /\ health' = [health EXCEPT ![c] = h]
          /\ route' = [route EXCEPT ![r] = rest]
      BY <1>3, <2>9 DEF TryCandidate
    <3> HIDE DEF h, c, rest
    <3>2. /\ health' \in [Candidates -> HealthStates]
          /\ \A d \in Candidates : Consistent(health'[d])
      BY <1>t, <2>2, <2>4, <3>1
    <3> QED
      BY <2>5, <2>7, <3>1, <3>2, RouteAndHealth
  <2> QED
    BY <2>8, <2>9
<1>4. ASSUME NEW r \in Routes, RecordOutcome(r) PROVE Inv'
  <2> DEFINE next == [route[r] EXCEPT !.pc = "next", !.candidate = NoCandidate,
                                      !.probing = FALSE, !.buffered = FALSE]
             flush == /\ route[r].buffered
                      /\ route[r].outcome \in {"success", "non_retryable_error"}
             s == IF FailsOver(r) THEN next ELSE Finished(r, flush)
             c == route[r].candidate
  <2>1. route[r] \in RouteStates /\ OutOK(route[r]) /\ route[r].pc = "record"
    BY <1>4, <1>t DEF RecordOutcome
  <2>2. c \in Candidates /\ route[r].outcome \in Outcomes
    BY <2>1 DEF OutOK, RouteStates
  <2>3. s \in RouteStates /\ OutOK(s)
    <3>1. CASE FailsOver(r)
      BY <2>1, <3>1 DEF FailsOver, RouteStates, OutOK
    <3>2. CASE ~FailsOver(r)
      <4>1. flush \in BOOLEAN /\ (flush => route[r].buffered)
        OBVIOUS
      <4> HIDE DEF flush
      <4> QED
        BY <2>1, <3>2, <4>1, FinishedFacts DEF Inv
    <3> QED
      BY <3>1, <3>2
  <2>4. health' = [health EXCEPT ![c] = Recorded(health[c], route[r].outcome)]
    BY <1>4 DEF RecordOutcome
  <2>5. /\ Recorded(health[c], route[r].outcome) \in HealthStates
        /\ Consistent(Recorded(health[c], route[r].outcome))
    BY <1>t, <2>2, HealthFacts
  <2>6. /\ health' \in [Candidates -> HealthStates]
        /\ \A d \in Candidates : Consistent(health'[d])
    BY <1>t, <2>2, <2>4, <2>5
  <2>7. route' = [route EXCEPT ![r] = s] /\ UNCHANGED clock
    BY <1>4 DEF RecordOutcome
  <2> HIDE DEF s
  <2> QED
    BY <2>3, <2>6, <2>7, RouteAndHealth
<1>5. ASSUME NEW r \in Routes, NEW o \in Outcomes, AttemptEnds(r, o) PROVE Inv'
  <2> DEFINE s == [route[r] EXCEPT !.pc = "record",
                     !.outcome = IF route[r].cancelled THEN "cancelled" ELSE o]
  <2>1. s \in RouteStates /\ OutOK(s)
    BY <1>5, <1>t DEF AttemptEnds, RouteStates, OutOK, Outcomes
  <2>2. route' = [route EXCEPT ![r] = s]
    BY <1>5, <1>t DEF AttemptEnds
  <2> HIDE DEF s
  <2> QED
    BY <1>5, <2>1, <2>2, OneRoute DEF AttemptEnds
<1>6. ASSUME NEW r \in Routes, StreamHidden(r) PROVE Inv'
  <2> DEFINE s == [route[r] EXCEPT !.buffered = TRUE]
  <2>1. s \in RouteStates /\ OutOK(s)
    BY <1>6, <1>t DEF StreamHidden, RouteStates, OutOK
  <2>2. route' = [route EXCEPT ![r] = s]
    BY <1>6, <1>t DEF StreamHidden
  <2> HIDE DEF s
  <2> QED
    BY <1>6, <2>1, <2>2, OneRoute DEF StreamHidden
<1>7. ASSUME NEW r \in Routes, StreamVisible(r) PROVE Inv'
  <2> DEFINE s == [route[r] EXCEPT !.visible = TRUE, !.buffered = FALSE,
                                   !.out = Append(route[r].out, route[r].candidate)]
  <2>1. s \in RouteStates /\ OutOK(s)
    BY <1>7, <1>t DEF StreamVisible, RouteStates, OutOK
  <2>2. route' = [route EXCEPT ![r] = s]
    BY <1>7, <1>t DEF StreamVisible
  <2> HIDE DEF s
  <2> QED
    BY <1>7, <2>1, <2>2, OneRoute DEF StreamVisible
<1>8. ASSUME NEW r \in Routes, TaskCancelled(r) PROVE Inv'
  <2>1. Over("gone", route[r].out) \in RouteStates /\ OutOK(Over("gone", route[r].out))
    <3>1. /\ route[r] \in RouteStates /\ OutOK(route[r])
          /\ route[r].pc \notin {"done", "gone"}
      BY <1>8, <1>t DEF TaskCancelled
    <3>2. route[r].out \in Seq(Candidates \cup {"terminal"}) /\ OneCandidate(route[r].out)
      BY <3>1 DEF RouteStates, OutOK, OneCandidate
    <3> QED
      BY <3>2, OverFacts DEF OutOK
  <2> QED
    BY <1>8, <2>1, OneRoute DEF TaskCancelled
<1>9. ASSUME NEW r \in Routes, CancelToken(r) \/ PassDeadline(r) PROVE Inv'
  <2>1. /\ [route[r] EXCEPT !.cancelled = TRUE] \in RouteStates
        /\ OutOK([route[r] EXCEPT !.cancelled = TRUE])
        /\ [route[r] EXCEPT !.late = TRUE] \in RouteStates
        /\ OutOK([route[r] EXCEPT !.late = TRUE])
    BY <1>t DEF RouteStates, OutOK
  <2>2. \/ route' = [route EXCEPT ![r] = [route[r] EXCEPT !.cancelled = TRUE]]
        \/ route' = [route EXCEPT ![r] = [route[r] EXCEPT !.late = TRUE]]
    BY <1>9, <1>t DEF CancelToken, PassDeadline
  <2> QED
    BY <1>9, <2>1, <2>2, OneRoute DEF CancelToken, PassDeadline
<1>10. ASSUME NEW r \in Routes, NextRoute(r) PROVE Inv'
  <2>1. NewRoute \in RouteStates /\ OutOK(NewRoute)
    BY RouterAssumption DEF NewRoute, RouteStates, Outcomes, OutOK
  <2> QED
    BY <1>10, <2>1, OneRoute DEF NextRoute
<1>11. CASE Tick
  BY <1>11 DEF Tick, Inv, TypeOK, BreakerConsistent, RoutesOK
<1>12. CASE UNCHANGED vars
  BY <1>12 DEF vars, Inv, TypeOK, BreakerConsistent, RoutesOK
<1> QED
  BY <1>1, <1>2, <1>3, <1>4, <1>5, <1>6, <1>7, <1>8, <1>9, <1>10, <1>11, <1>12
     DEF Next, RouteStep, ProviderStep, Outcomes

-----------------------------------------------------------------------------
\* The states of the registry, the routes and the clock keep their types.
THEOREM TypeCorrect == Spec => []TypeOK
<1>1. Inv => TypeOK
  BY DEF Inv
<1> QED
  BY <1>1, InvInit, InvNext, PTL DEF Spec

\* Whatever late outcomes routes record, a candidate is closed exactly while
\* it is below Threshold failures (HealthRegistry.record_failure, _refresh).
THEOREM BreakerConsistentHolds == Spec => []BreakerConsistent
<1>1. Inv => BreakerConsistent
  BY DEF Inv
<1> QED
  BY <1>1, InvInit, InvNext, PTL DEF Spec

LEMMA RoutesOKNoSplice == TypeOK /\ RoutesOK => NoSplice
<1> SUFFICES ASSUME TypeOK, RoutesOK, NEW r \in Routes
             PROVE  /\ Cardinality(Published(r)) <= 1
                    /\ \A i \in DOMAIN route[r].out :
                          route[r].out[i] = "terminal"
                            <=> route[r].pc = "done" /\ i = Len(route[r].out)
  BY DEF NoSplice
<1> DEFINE events == route[r].out
<1>1. route[r] \in RouteStates /\ OutOK(route[r])
  BY DEF TypeOK, RoutesOK
<1>2. /\ events \in Seq(Candidates \cup {"terminal"})
      /\ IF route[r].pc = "done" THEN ThenTerminal(events) ELSE OneCandidate(events)
  BY <1>1 DEF OutOK, OneCandidate, RouteStates
<1>3. Published(r) = {} \/ \E c \in Candidates : Published(r) = {c}
  BY <1>2, RouterAssumption DEF Published, OneCandidate, ThenTerminal
<1>4. Cardinality(Published(r)) <= 1
  <2>1. CASE Published(r) = {}
    BY <2>1, FS_EmptySet
  <2>2. ASSUME NEW c, Published(r) = {c} PROVE Cardinality(Published(r)) <= 1
    <3>1. Cardinality({c}) = 1
      BY FS_Singleton, Zenon
    <3> QED
      BY <2>2, <3>1
  <2> QED
    BY <1>3, <2>1, <2>2
<1>5. \A i \in DOMAIN events : events[i] = "terminal" <=> route[r].pc = "done" /\ i = Len(events)
  BY <1>2, RouterAssumption DEF OneCandidate, ThenTerminal
<1> QED
  BY <1>4, <1>5

\* However many candidates a route tries, the consumer sees the events of one
\* of them and one terminal event (the candidate loop of stream).
THEOREM NoSpliceHolds == Spec => []NoSplice
<1>1. Inv => NoSplice
  BY RoutesOKNoSplice DEF Inv
<1> QED
  BY <1>1, InvInit, InvNext, PTL DEF Spec

-----------------------------------------------------------------------------
(* The retry loop *)

\* What a call has published: nothing, a terminal event, or the events of one
\* attempt and the terminal event.
OneAttempt(events) ==
    \/ events = << >>
    \/ events = <<TerminalEvent>>
    \/ \E n \in 1..(MaxRetries + 1) : events = <<n, TerminalEvent>>

CallStates == [pc : {"gate", "attempt", "record", "backoff", "done", "failed"},
               retries : 0..MaxRetries, final : Finals, probing : BOOLEAN, out : Seq(Nat)]

\* The inductive invariant: a call publishes nothing before it is over.
CallsOK ==
    /\ call \in [Calls -> CallStates]
    /\ \A c \in Calls : /\ OneAttempt(call[c].out)
                        /\ call[c].pc \notin {"done", "failed"} => call[c].out = << >>

LEMMA CallsInit ==
  ASSUME MaxRetries \in Nat, RetryInit
  PROVE  CallsOK
BY DEF RetryInit, NewCall, Finals, CallsOK, CallStates, OneAttempt

\* A step that gives one call a good record keeps the invariant.
LEMMA OneCall ==
  ASSUME CallsOK, NEW c \in Calls, NEW s \in CallStates, call' = [call EXCEPT ![c] = s],
         OneAttempt(s.out), s.pc \notin {"done", "failed"} => s.out = << >>
  PROVE  CallsOK'
<1>1. call' \in [Calls -> CallStates]
  BY DEF CallsOK
<1>2. ASSUME NEW d \in Calls
      PROVE  OneAttempt(call'[d].out) /\ (call'[d].pc \notin {"done", "failed"} => call'[d].out = << >>)
  <2>1. call'[d] = IF d = c THEN s ELSE call[d]
    BY DEF CallsOK
  <2> QED
    BY <2>1 DEF CallsOK
<1> QED
  BY <1>1, <1>2, Zenon DEF CallsOK

\* The end of a call that published these events.
LEMMA CallOver ==
  ASSUME MaxRetries \in Nat, NEW pc \in {"done", "failed"}, NEW events \in Seq(Nat)
  PROVE  Ended(pc, events) \in CallStates /\ Ended(pc, events).out = events
         /\ Ended(pc, events).pc = pc
<1>1. 0 \in 0..MaxRetries /\ << >> \in Seq(Nat)
  OBVIOUS
<1>2. NewCall \in CallStates
  BY <1>1 DEF NewCall, Finals, CallStates
<1> QED
  BY <1>2 DEF Ended, CallStates

LEMMA CallEnded ==
  ASSUME MaxRetries \in Nat, CallsOK, NEW c \in Calls, NEW pc \in {"done", "failed"},
         NEW events \in Seq(Nat), OneAttempt(events),
         call' = [call EXCEPT ![c] = Ended(pc, events)]
  PROVE  CallsOK'
<1> DEFINE s == Ended(pc, events)
<1>1. s \in CallStates /\ s.out = events /\ s.pc = pc
  BY CallOver
<1> HIDE DEF s
<1>2. OneAttempt(s.out) /\ (s.pc \notin {"done", "failed"} => s.out = << >>)
  BY <1>1
<1>3. call' = [call EXCEPT ![c] = s]
  BY DEF s
<1> QED
  BY <1>1, <1>2, <1>3, OneCall

LEMMA CallsNext ==
  ASSUME MaxRetries \in Nat, CallsOK, [RetryNext]_retryVars
  PROVE  CallsOK'
<1>1. CASE UNCHANGED retryVars
  BY <1>1 DEF retryVars, CallsOK, OneAttempt, CallStates
<1>2. CASE TimePasses
  BY <1>2 DEF TimePasses, CallsOK, OneAttempt, CallStates
<1>3. ASSUME NEW c \in Calls,
             CallStep(c) \/ BackoffCancelled(c) \/ CallFails(c) \/ NextCall(c)
      PROVE  CallsOK'
  <2> DEFINE s == call[c]
  <2>0. /\ s \in CallStates /\ OneAttempt(s.out)
        /\ s.pc \notin {"done", "failed"} => s.out = << >>
    BY DEF CallsOK
  <2>1. /\ << >> \in Seq(Nat) /\ <<TerminalEvent>> \in Seq(Nat)
        /\ OneAttempt(<< >>) /\ OneAttempt(<<TerminalEvent>>)
    BY DEF OneAttempt, TerminalEvent
  <2>2. Append(<< >>, TerminalEvent) = <<TerminalEvent>>
    BY DEF TerminalEvent
  <2>3. ASSUME Gate(c) PROVE CallsOK'
    <3>1. s.pc = "gate" /\ s.out = << >>
      BY <2>0, <2>3 DEF Gate
    <3>2. CASE Refuses
      <4>1. call' = [call EXCEPT ![c] = Ended("done", <<TerminalEvent>>)]
        BY <2>2, <2>3, <3>1, <3>2 DEF Gate
      <4> QED
        BY <2>1, <4>1, CallEnded
    <3>3. CASE ~Refuses
      <4> DEFINE t == [s EXCEPT !.pc = "attempt", !.probing = breaker.state # "closed"]
      <4>1. call' = [call EXCEPT ![c] = t]
        BY <2>3, <3>3 DEF Gate, CallsOK, CallStates
      <4>2. t \in CallStates /\ t.out = << >>
        BY <2>0, <3>1 DEF CallStates
      <4> HIDE DEF t
      <4> QED
        BY <2>1, <4>1, <4>2, OneCall
    <3> QED
      BY <3>2, <3>3
  <2>4. ASSUME AttemptReturns(c) PROVE CallsOK'
    <3>1. PICK final \in Finals : call' = [call EXCEPT ![c].pc = "record", ![c].final = final]
      BY <2>4 DEF AttemptReturns
    <3> DEFINE t == [s EXCEPT !.pc = "record", !.final = final]
    <3>2. call' = [call EXCEPT ![c] = t]
      BY <3>1 DEF CallsOK, CallStates
    <3>3. t \in CallStates /\ t.out = << >>
      BY <2>0, <2>4 DEF AttemptReturns, CallStates
    <3> HIDE DEF t
    <3> QED
      BY <2>1, <3>2, <3>3, OneCall
  <2>5. ASSUME RecordAttempt(c) PROVE CallsOK'
    <3>1. s.pc = "record" /\ s.out = << >>
      BY <2>0, <2>5 DEF RecordAttempt
    <3>2. CASE call' = [call EXCEPT ![c] = Publish(c)]
      <4> DEFINE n == s.retries + 1
      <4>1. n \in 1..(MaxRetries + 1)
        BY <2>0 DEF CallStates
      <4>2. s.out \o <<n, TerminalEvent>> = <<n, TerminalEvent>>
        BY <3>1, <4>1 DEF TerminalEvent
      <4>3. <<n, TerminalEvent>> \in Seq(Nat)
        BY <4>1 DEF TerminalEvent
      <4>4. OneAttempt(<<n, TerminalEvent>>)
        BY <4>1 DEF OneAttempt
      <4>5. Publish(c) = Ended("done", <<n, TerminalEvent>>)
        BY <4>2 DEF Publish
      <4> HIDE DEF n
      <4> QED
        BY <3>2, <4>3, <4>4, <4>5, CallEnded
    <3>3. CASE /\ s.final = "transient" /\ s.retries < MaxRetries
               /\ call' = [call EXCEPT ![c] = Retry(c)]
      <4>1. Retry(c) \in CallStates /\ Retry(c).out = << >>
        <5>1. s.retries + 1 \in 0..MaxRetries
          BY <2>0, <3>3 DEF CallStates
        <5> QED
          BY <2>0, <3>1, <5>1 DEF Retry, CallStates
      <4> QED
        BY <2>1, <3>3, <4>1, OneCall
    <3>4. CASE call' = [call EXCEPT ![c] = Ended("failed", s.out)]
      BY <2>1, <3>1, <3>4, CallEnded
    <3>5. call' = [call EXCEPT ![c] = Ended("failed", @.out)]
             => call' = [call EXCEPT ![c] = Ended("failed", s.out)]
      OBVIOUS
    <3> QED
      BY <2>5, <3>2, <3>3, <3>4, <3>5 DEF RecordAttempt
  <2>6. ASSUME BackoffEnds(c) PROVE CallsOK'
    <3> DEFINE t == [s EXCEPT !.pc = "gate"]
    <3>1. call' = [call EXCEPT ![c] = t]
      BY <2>6 DEF BackoffEnds, CallsOK, CallStates
    <3>2. t \in CallStates /\ t.out = << >>
      BY <2>0, <2>6 DEF BackoffEnds, CallStates
    <3> HIDE DEF t
    <3> QED
      BY <2>1, <3>1, <3>2, OneCall
  <2>7. ASSUME BackoffCancelled(c) PROVE CallsOK'
    <3>1. s.out = << >>
      BY <2>0, <2>7 DEF BackoffCancelled
    <3>2. call' = [call EXCEPT ![c] = Ended("done", <<TerminalEvent>>)]
      BY <2>2, <2>7, <3>1 DEF BackoffCancelled
    <3> QED
      BY <2>1, <3>2, CallEnded
  <2>8. ASSUME CallFails(c) PROVE CallsOK'
    <3>1. s.out = << >>
      BY <2>0, <2>8 DEF CallFails
    <3>2. call' = [call EXCEPT ![c] = Ended("failed", << >>)]
      BY <2>8, <3>1 DEF CallFails
    <3> QED
      BY <2>1, <3>2, CallEnded
  <2>9. ASSUME NextCall(c) PROVE CallsOK'
    <3>1. NewCall \in CallStates /\ NewCall.out = << >>
      BY DEF NewCall, Finals, CallStates
    <3> QED
      BY <2>1, <2>9, <3>1, OneCall DEF NextCall
  <2> QED
    BY <1>3, <2>3, <2>4, <2>5, <2>6, <2>7, <2>8, <2>9 DEF CallStep
<1> QED
  BY <1>1, <1>2, <1>3 DEF RetryNext

\* RetryingStreamFn publishes the events of the last attempt only, whatever the
\* breaker, the sinks and the other calls do meanwhile.
THEOREM OnlyLastAttemptHolds == RetrySpec => []OnlyLastAttempt
<1>1. RetryInit => CallsOK
  BY CallsInit, RetryAssumption
<1>2. CallsOK /\ [RetryNext]_retryVars => CallsOK'
  BY CallsNext, RetryAssumption
<1>3. CallsOK => OnlyLastAttempt
  BY DEF CallsOK, OneAttempt, OnlyLastAttempt
<1> QED
  BY <1>1, <1>2, <1>3, PTL DEF RetrySpec

-----------------------------------------------------------------------------
(* Induction over the length of a queue *)

LEMMA NatMin ==
  ASSUME NEW S \in SUBSET Nat, S # {}
  PROVE  \E m \in S : \A y \in S : m <= y
<1> DEFINE less == OpToRel(<, Nat)
<1>1. IsWellFoundedOn(less, Nat)
  BY NatLessThanWellFounded
<1>2. \A x \in Nat, y \in Nat : <<x, y>> \in less <=> x < y
  BY DEF OpToRel
<1> HIDE DEF less
<1>3. PICK m \in S : \A y \in S : <<y, m>> \notin less
  BY <1>1, WFMin
<1>4. m \in Nat /\ \A y \in S : y \in Nat /\ ~(y < m)
  BY <1>2, <1>3
<1> QED
  BY <1>3, <1>4

LEMMA SetInduction ==
  ASSUME NEW T \in SUBSET Nat, 0 \in T, \A n \in T : n + 1 \in T
  PROVE  T = Nat
<1> SUFFICES ASSUME Nat \ T # {} PROVE FALSE
  OBVIOUS
<1>1. PICK m \in Nat \ T : \A y \in Nat \ T : m <= y
  BY NatMin
<1>2. m \in Nat /\ m # 0 /\ m - 1 \in Nat /\ (m - 1) + 1 = m /\ ~(m <= m - 1)
  BY <1>1
<1>3. m - 1 \in T
  BY <1>1, <1>2
<1> QED
  BY <1>1, <1>2, <1>3

\* A queue that is not empty is a shorter queue and its last event.
LEMMA LastOfQueue ==
  ASSUME NEW E, NEW n \in Nat, NEW q \in Seq(E), Len(q) = n + 1
  PROVE  \E p \in Seq(E), e \in E : q = Append(p, e) /\ Len(p) = n
<1> DEFINE p == [i \in 1..n |-> q[i]]
<1>1. p \in Seq(E) /\ Len(p) = n
  OBVIOUS
<1>2. q[n + 1] \in E
  OBVIOUS
<1>3. q = Append(p, q[n + 1])
  OBVIOUS
<1> HIDE DEF p
<1> QED
  BY <1>1, <1>2, <1>3

-----------------------------------------------------------------------------
(* What Kept computes *)

\* One step of Kept, and its run h along the first m elements of q.
Keep(S, x, n, e) == IF n \in S THEN Append(x, e) ELSE x
KeptRun(q, S, m, h) ==
    h = [n \in 0..m |-> IF n = 0 THEN << >> ELSE Keep(S, h[n - 1], n, q[n])]

LEMMA KeptRunExists ==
  ASSUME NEW q, NEW S, NEW m \in Nat
  PROVE  \E h : KeptRun(q, S, m, h)
<1> DEFINE T == {k \in Nat : \E h : KeptRun(q, S, k, h)}
<1>1. 0 \in T
  <2> DEFINE h == [n \in 0..0 |-> << >>]
  <2>1. KeptRun(q, S, 0, h)
    BY DEF KeptRun
  <2> HIDE DEF h
  <2> QED
    BY <2>1
<1>2. ASSUME NEW k \in T PROVE k + 1 \in T
  <2>1. PICK h : KeptRun(q, S, k, h)
    OBVIOUS
  <2> DEFINE g == [n \in 0..(k + 1) |->
                     IF n = k + 1 THEN Keep(S, h[k], k + 1, q[k + 1]) ELSE h[n]]
  <2>2. ASSUME NEW n \in 0..(k + 1)
        PROVE  g[n] = IF n = 0 THEN << >> ELSE Keep(S, g[n - 1], n, q[n])
    <3>1. CASE n = k + 1
      BY <3>1
    <3>2. CASE n # k + 1
      BY <2>1, <3>2 DEF KeptRun
    <3> QED
      BY <3>1, <3>2
  <2>3. KeptRun(q, S, k + 1, g)
    BY <2>2 DEF KeptRun
  <2>4. k + 1 \in Nat
    OBVIOUS
  <2> HIDE DEF g
  <2>5. \E f : KeptRun(q, S, k + 1, f)
    BY <2>3
  <2> QED
    BY <2>4, <2>5, Zenon
<1> HIDE DEF T
<1>3. T = Nat
  <2>1. T \in SUBSET Nat
    BY DEF T
  <2> QED
    BY <1>1, <1>2, <2>1, SetInduction
<1> QED
  BY <1>3 DEF T

LEMMA KeptIsRun ==
  ASSUME NEW q, NEW S, Len(q) \in Nat
  PROVE  \E h : /\ Kept(q, S) = h[Len(q)]
                /\ h[0] = << >>
                /\ \A n \in 1..Len(q) : h[n] = IF n \in S THEN Append(h[n - 1], q[n]) ELSE h[n - 1]
<1> DEFINE m == Len(q)
<1>1. \E f : KeptRun(q, S, m, f)
  BY KeptRunExists
<1> DEFINE h == CHOOSE f : KeptRun(q, S, m, f)
<1>2. KeptRun(q, S, m, h)
  BY <1>1
<1>3. Kept(q, S) = h[m]
  BY <1>1 DEF Kept, KeptRun, Keep
<1> HIDE DEF h
<1>4. ASSUME NEW n \in 0..m PROVE h[n] = IF n = 0 THEN << >> ELSE Keep(S, h[n - 1], n, q[n])
  <2>1. h = [k \in 0..m |-> IF k = 0 THEN << >> ELSE Keep(S, h[k - 1], k, q[k])]
    BY <1>2 DEF KeptRun
  <2> QED
    BY <2>1, Zenon
<1>5. 0 \in 0..m /\ \A n \in 1..m : n \in 0..m /\ n # 0
  OBVIOUS
<1> QED
  BY <1>3, <1>4, <1>5 DEF Keep

LEMMA KeptNone ==
  ASSUME NEW S
  PROVE  Kept(<< >>, S) = << >>
<1>1. Len(<< >>) = 0 /\ Len(<< >>) \in Nat
  OBVIOUS
<1> QED
  BY <1>1, KeptIsRun

LEMMA KeptAppend ==
  ASSUME NEW E, NEW q \in Seq(E), NEW e \in E, NEW S, NEW R,
         \A i \in 1..Len(q) : i \in S <=> i \in R
  PROVE  Kept(Append(q, e), S)
            = IF Len(q) + 1 \in S THEN Append(Kept(q, R), e) ELSE Kept(q, R)
<1> DEFINE p == Append(q, e)
           m == Len(q)
<1>1. /\ m \in Nat /\ Len(p) = m + 1 /\ p[m + 1] = e
      /\ \A i \in 1..m : p[i] = q[i]
  OBVIOUS
<1> HIDE DEF p
<1>2. \E h : /\ Kept(p, S) = h[m + 1]
             /\ h[0] = << >>
             /\ \A n \in 1..(m + 1) : h[n] = IF n \in S THEN Append(h[n - 1], p[n]) ELSE h[n - 1]
  <2>1. Len(p) \in Nat
    BY <1>1
  <2>2. \E h : /\ Kept(p, S) = h[Len(p)]
               /\ h[0] = << >>
               /\ \A n \in 1..Len(p) : h[n] = IF n \in S THEN Append(h[n - 1], p[n]) ELSE h[n - 1]
    BY <2>1, KeptIsRun, Zenon
  <2> QED
    BY <1>1, <2>2, Zenon
<1>3. PICK h : /\ Kept(p, S) = h[m + 1]
               /\ h[0] = << >>
               /\ \A n \in 1..(m + 1) : h[n] = IF n \in S THEN Append(h[n - 1], p[n]) ELSE h[n - 1]
  BY <1>2, Zenon
<1>4. PICK g : /\ Kept(q, R) = g[m]
               /\ g[0] = << >>
               /\ \A n \in 1..m : g[n] = IF n \in R THEN Append(g[n - 1], q[n]) ELSE g[n - 1]
  BY <1>1, KeptIsRun
<1> HIDE DEF m
<1> DEFINE T == {n \in Nat : n <= m => h[n] = g[n]}
<1>5. 0 \in T
  BY <1>3, <1>4
<1>6. ASSUME NEW n \in T PROVE n + 1 \in T
  <2> SUFFICES ASSUME n + 1 <= m PROVE h[n + 1] = g[n + 1]
    OBVIOUS
  <2>1. n \in Nat /\ n + 1 \in 1..m /\ n + 1 \in 1..(m + 1) /\ (n + 1) - 1 = n /\ n <= m
    BY <1>1
  <2>2. h[n] = g[n] /\ p[n + 1] = q[n + 1] /\ (n + 1 \in S <=> n + 1 \in R)
    BY <1>1, <2>1 DEF m
  <2>3. h[n + 1] = IF n + 1 \in S THEN Append(h[n], p[n + 1]) ELSE h[n]
    BY <1>3, <2>1
  <2>4. g[n + 1] = IF n + 1 \in R THEN Append(g[n], q[n + 1]) ELSE g[n]
    BY <1>4, <2>1
  <2> QED
    BY <2>2, <2>3, <2>4
<1> HIDE DEF T
<1>7. T = Nat
  <2>1. T \in SUBSET Nat
    BY DEF T
  <2> QED
    BY <1>5, <1>6, <2>1, SetInduction
<1>8. h[m] = g[m]
  BY <1>1, <1>7 DEF T
<1>9. m + 1 \in 1..(m + 1) /\ (m + 1) - 1 = m
  BY <1>1
<1>10. h[m + 1] = IF m + 1 \in S THEN Append(h[m], p[m + 1]) ELSE h[m]
  BY <1>3, <1>9
<1> QED
  BY <1>1, <1>3, <1>4, <1>8, <1>10 DEF m, p

\* What is kept was in the queue.
LEMMA KeptWasThere ==
  ASSUME NEW E, NEW S, NEW q \in Seq(E)
  PROVE  Kept(q, S) \in Seq(E)
<1> DEFINE T == {n \in Nat : \A p \in Seq(E) : Len(p) = n => Kept(p, S) \in Seq(E)}
<1>1. 0 \in T
  <2> SUFFICES ASSUME NEW p \in Seq(E), Len(p) = 0 PROVE Kept(p, S) \in Seq(E)
    OBVIOUS
  <2>1. p = << >> /\ << >> \in Seq(E)
    OBVIOUS
  <2> QED
    BY <2>1, KeptNone
<1>2. ASSUME NEW n \in T PROVE n + 1 \in T
  <2> SUFFICES ASSUME NEW r \in Seq(E), Len(r) = n + 1 PROVE Kept(r, S) \in Seq(E)
    OBVIOUS
  <2>1. PICK p \in Seq(E), e \in E : r = Append(p, e) /\ Len(p) = n
    BY LastOfQueue
  <2>2. Kept(p, S) \in Seq(E)
    BY <2>1
  <2>3. Kept(r, S) = IF Len(p) + 1 \in S THEN Append(Kept(p, S), e) ELSE Kept(p, S)
    BY <2>1, KeptAppend
  <2> QED
    BY <2>2, <2>3
<1> HIDE DEF T
<1>3. T = Nat
  <2>1. T \in SUBSET Nat
    BY DEF T
  <2> QED
    BY <1>1, <1>2, <2>1, SetInduction
<1> QED
  BY <1>3 DEF T

-----------------------------------------------------------------------------
(* The facts of a queue *)

LEMMA NoFacts == FactIds(<< >>) = << >>
<1>1. [i \in DOMAIN << >> |-> (<< >>)[i].id] = << >>
  OBVIOUS
<1> QED
  BY <1>1, KeptNone DEF FactIds

LEMMA FactsAppend ==
  ASSUME NEW q \in Seq(Entries), NEW e \in Entries
  PROVE  FactIds(Append(q, e))
            = IF e.droppable THEN FactIds(q) ELSE Append(FactIds(q), e.id)
<1> DEFINE p == Append(q, e)
           m == Len(q)
           qids == [i \in DOMAIN q |-> q[i].id]
           pids == [i \in DOMAIN p |-> p[i].id]
           qfacts == {i \in DOMAIN q : ~q[i].droppable}
           pfacts == {i \in DOMAIN p : ~p[i].droppable}
<1>1. /\ m \in Nat /\ DOMAIN q = 1..m /\ DOMAIN p = 1..(m + 1) /\ p[m + 1] = e
      /\ \A i \in 1..m : p[i] = q[i] /\ q[i] \in Entries
      /\ \A i \in 1..(m + 1) : p[i] \in Entries
  OBVIOUS
<1>2. e.id \in Nat /\ \A i \in 1..m : q[i].id \in Nat
  BY <1>1 DEF Entries
<1> HIDE DEF p, m
<1>3. qids \in Seq(Nat) /\ Len(qids) = m
  BY <1>1, <1>2
<1>4. pids = Append(qids, e.id)
  BY <1>1, <1>2
<1>5. /\ \A i \in 1..m : i \in pfacts <=> i \in qfacts
      /\ m + 1 \in pfacts <=> ~e.droppable
  BY <1>1
<1> HIDE DEF qids, pids, qfacts, pfacts
<1>6. Kept(Append(qids, e.id), pfacts)
        = IF m + 1 \in pfacts THEN Append(Kept(qids, qfacts), e.id) ELSE Kept(qids, qfacts)
  <2>1. \A i \in 1..Len(qids) : i \in pfacts <=> i \in qfacts
    BY <1>3, <1>5, Zenon
  <2>2. Kept(Append(qids, e.id), pfacts)
          = IF Len(qids) + 1 \in pfacts THEN Append(Kept(qids, qfacts), e.id)
                                        ELSE Kept(qids, qfacts)
    <3> DEFINE x == e.id
    <3>1. x \in Nat
      BY <1>2
    <3> HIDE DEF x
    <3>2. Kept(Append(qids, x), pfacts)
            = IF Len(qids) + 1 \in pfacts THEN Append(Kept(qids, qfacts), x)
                                          ELSE Kept(qids, qfacts)
      BY <1>3, <2>1, <3>1, KeptAppend
    <3> QED
      BY <3>2 DEF x
  <2> QED
    BY <1>3, <2>2
<1>7. FactIds(p) = Kept(pids, pfacts) /\ FactIds(q) = Kept(qids, qfacts)
  BY DEF FactIds, qids, pids, qfacts, pfacts
<1> QED
  BY <1>4, <1>5, <1>6, <1>7 DEF p

LEMMA FactsType ==
  ASSUME NEW q \in Seq(Entries)
  PROVE  FactIds(q) \in Seq(Nat)
<1> DEFINE ids == [i \in DOMAIN q |-> q[i].id]
<1>1. ASSUME NEW i \in 1..Len(q) PROVE q[i].id \in Nat
  <2>1. q[i] \in Entries
    OBVIOUS
  <2> QED
    BY <2>1 DEF Entries
<1>2. ids \in Seq(Nat)
  BY <1>1
<1> HIDE DEF ids
<1> QED
  BY <1>2, KeptWasThere DEF FactIds, ids

LEMMA AppendBehind ==
  ASSUME NEW s \in Seq(Nat), NEW t \in Seq(Nat), NEW k \in Nat
  PROVE  Append(s \o t, k) = s \o Append(t, k)
<1>1. <<k>> \in Seq(Nat) /\ s \o t \in Seq(Nat)
  OBVIOUS
<1>2. (s \o t) \o <<k>> = s \o (t \o <<k>>)
  BY <1>1, ConcatAssociative
<1>3. \A r \in Seq(Nat) : Append(r, k) = r \o <<k>>
  OBVIOUS
<1> QED
  BY <1>1, <1>2, <1>3

\* The facts of one queue behind another.
LEMMA FactsConcat ==
  ASSUME NEW p \in Seq(Entries), NEW q \in Seq(Entries)
  PROVE  FactIds(p \o q) = FactIds(p) \o FactIds(q)
<1> DEFINE T == {n \in Nat : \A r \in Seq(Entries) :
                     Len(r) = n => FactIds(p \o r) = FactIds(p) \o FactIds(r)}
<1>1. 0 \in T
  <2> SUFFICES ASSUME NEW r \in Seq(Entries), Len(r) = 0
               PROVE  FactIds(p \o r) = FactIds(p) \o FactIds(r)
    OBVIOUS
  <2>1. r = << >> /\ p \o r = p
    OBVIOUS
  <2>2. FactIds(p) \o << >> = FactIds(p)
    BY FactsType
  <2> QED
    BY <2>1, <2>2, NoFacts
<1>2. ASSUME NEW n \in T PROVE n + 1 \in T
  <2> SUFFICES ASSUME NEW s \in Seq(Entries), Len(s) = n + 1
               PROVE  FactIds(p \o s) = FactIds(p) \o FactIds(s)
    OBVIOUS
  <2>1. PICK r \in Seq(Entries), e \in Entries : s = Append(r, e) /\ Len(r) = n
    BY LastOfQueue
  <2>2. FactIds(p \o r) = FactIds(p) \o FactIds(r)
    BY <2>1
  <2>3. p \o s = Append(p \o r, e) /\ p \o r \in Seq(Entries)
    BY <2>1
  <2> DEFINE fp == FactIds(p)
             fr == FactIds(r)
  <2>4. fp \in Seq(Nat) /\ fr \in Seq(Nat) /\ e.id \in Nat
    BY FactsType DEF Entries
  <2>5. FactIds(p \o s) = IF e.droppable THEN fp \o fr ELSE Append(fp \o fr, e.id)
    BY <2>2, <2>3, FactsAppend
  <2>6. FactIds(s) = IF e.droppable THEN fr ELSE Append(fr, e.id)
    BY <2>1, FactsAppend
  <2> HIDE DEF fp, fr
  <2>7. Append(fp \o fr, e.id) = fp \o Append(fr, e.id)
    BY <2>4, AppendBehind
  <2>8. FactIds(p \o s) = fp \o FactIds(s)
    BY <2>5, <2>6, <2>7
  <2> QED
    BY <2>8 DEF fp
<1> HIDE DEF T
<1>3. T = Nat
  <2>1. T \in SUBSET Nat
    BY DEF T
  <2> QED
    BY <1>1, <1>2, <2>1, SetInduction
<1> QED
  BY <1>3 DEF T

\* Leaving out updates leaves out no fact.
LEMMA FactsKept ==
  ASSUME NEW q \in Seq(Entries), NEW S, \A i \in 1..Len(q) : i \in S \/ q[i].droppable
  PROVE  FactIds(Kept(q, S)) = FactIds(q)
<1> DEFINE T == {n \in Nat : \A r \in Seq(Entries) :
                     Len(r) = n /\ (\A i \in 1..Len(r) : i \in S \/ r[i].droppable)
                        => FactIds(Kept(r, S)) = FactIds(r)}
<1>1. 0 \in T
  <2> SUFFICES ASSUME NEW r \in Seq(Entries), Len(r) = 0
               PROVE  FactIds(Kept(r, S)) = FactIds(r)
    OBVIOUS
  <2>1. r = << >>
    OBVIOUS
  <2> QED
    BY <2>1, KeptNone
<1>2. ASSUME NEW n \in T PROVE n + 1 \in T
  <2> SUFFICES ASSUME NEW s \in Seq(Entries), Len(s) = n + 1,
                      \A i \in 1..Len(s) : i \in S \/ s[i].droppable
               PROVE  FactIds(Kept(s, S)) = FactIds(s)
    OBVIOUS
  <2>1. PICK r \in Seq(Entries), e \in Entries : s = Append(r, e) /\ Len(r) = n
    BY LastOfQueue
  <2>2. /\ \A i \in 1..Len(r) : i \in 1..Len(s) /\ s[i] = r[i]
        /\ n + 1 \in 1..Len(s) /\ s[n + 1] = e
    BY <2>1
  <2>3. FactIds(Kept(r, S)) = FactIds(r)
    BY <2>1, <2>2
  <2>4. n + 1 \in S \/ e.droppable
    BY <2>2
  <2>5. Kept(s, S) = IF n + 1 \in S THEN Append(Kept(r, S), e) ELSE Kept(r, S)
    BY <2>1, KeptAppend
  <2>6. Kept(r, S) \in Seq(Entries)
    BY KeptWasThere
  <2>7. FactIds(s) = IF e.droppable THEN FactIds(r) ELSE Append(FactIds(r), e.id)
    BY <2>1, FactsAppend
  <2>8. CASE n + 1 \in S
    BY <2>3, <2>5, <2>6, <2>7, <2>8, FactsAppend
  <2>9. CASE n + 1 \notin S
    BY <2>3, <2>4, <2>5, <2>7, <2>9
  <2> QED
    BY <2>8, <2>9
<1> HIDE DEF T
<1>3. T = Nat
  <2>1. T \in SUBSET Nat
    BY DEF T
  <2> QED
    BY <1>1, <1>2, <2>1, SetInduction
<1> QED
  BY <1>3 DEF T

-----------------------------------------------------------------------------
(* The stream *)

\* What may be buffered when limit events were pushed: an event that is found
\* under a key is an update.
Buffered(limit, found) ==
    {e \in Entries : /\ e.id \in 1..limit
                            /\ \A k \in Keys : found[k] = e.id => e.droppable}

\* The inductive invariant.
StreamOK ==
    /\ pushes \in Nat
    /\ pending \in [Keys -> 0..pushes]
    /\ queue \in Seq(Buffered(pushes, pending))
    /\ out \in Seq(Entries)
    /\ FactsInOrder

LEMMA StreamStarts ==
  ASSUME StreamInit
  PROVE  StreamOK
<1>1. pushes = 0 /\ queue = << >> /\ out = << >> /\ accepted = << >>
  BY DEF StreamInit
<1>2. pending \in [Keys -> 0..0]
  BY DEF StreamInit
<1>3. FactsInOrder
  <2>1. << >> \o << >> = << >>
    OBVIOUS
  <2> QED
    BY <1>1, <2>1, NoFacts DEF FactsInOrder
<1> QED
  BY <1>1, <1>2, <1>3 DEF StreamOK

\* A queue whose elements are in a larger set is a queue over that set.
LEMMA WiderQueue ==
  ASSUME NEW A, NEW B, NEW q \in Seq(A), \A i \in 1..Len(q) : q[i] \in B
  PROVE  q \in Seq(B)
OBVIOUS

LEMMA BufferedAreEntries ==
  ASSUME NEW limit, NEW found, NEW q \in Seq(Buffered(limit, found))
  PROVE  q \in Seq(Entries) /\ \A i \in 1..Len(q) : q[i] \in Buffered(limit, found)
<1>1. \A i \in 1..Len(q) : q[i] \in Buffered(limit, found)
  OBVIOUS
<1>2. \A i \in 1..Len(q) : q[i] \in Entries
  BY <1>1 DEF Buffered
<1> QED
  BY <1>1, <1>2, WiderQueue

\* The buffer loses updates only: SetBuffer with the facts of the old one.
LEMMA BufferSet ==
  ASSUME StreamOK, NEW q \in Seq(Buffered(pushes, pending)),
         FactIds(q) = FactIds(queue),
         SetBuffer(q), pushes' \in {pushes, pushes + 1},
         UNCHANGED <<out, accepted>>
  PROVE  StreamOK'
<1>1. pushes' \in Nat /\ \A x \in 0..pushes : x \in 0..pushes'
  BY DEF StreamOK
<1>2. queue' = q /\ \A k \in Keys : pending'[k] \in {0, pending[k]}
  BY DEF SetBuffer
<1>3. pending' \in [Keys -> 0..pushes']
  <2>1. \A k \in Keys : pending[k] \in 0..pushes' /\ 0 \in 0..pushes'
    BY <1>1 DEF StreamOK
  <2> QED
    BY <2>1 DEF SetBuffer
<1>4. queue' \in Seq(Buffered(pushes', pending'))
  <2>1. ASSUME NEW i \in 1..Len(q) PROVE q[i] \in Buffered(pushes', pending')
    <3>1. q[i] \in Buffered(pushes, pending)
      BY BufferedAreEntries
    <3>2. q[i].id \in 1..pushes /\ q[i].id \in 1..pushes' /\ q[i].id # 0
      BY <1>1, <3>1 DEF Buffered, StreamOK
    <3>3. \A k \in Keys : pending'[k] = q[i].id => pending[k] = q[i].id
      BY <1>2, <3>2
    <3> QED
      BY <3>1, <3>2, <3>3 DEF Buffered
  <2> QED
    BY <1>2, <2>1, WiderQueue
<1>5. (FactsInOrder)'
  <2>1. FactIds(out') \o FactIds(queue') = accepted'
    BY <1>2 DEF StreamOK, FactsInOrder
  <2> QED
    BY <2>1 DEF FactsInOrder
<1>6. out' \in Seq(Entries)
  BY DEF StreamOK
<1> QED
  BY <1>1, <1>3, <1>4, <1>5, <1>6 DEF StreamOK

\* Pushed events: updates have a key, facts and terminal events have none.
Pushed(e) ==
    /\ e \in Entries /\ e.id = pushes + 1
    /\ IF e.droppable THEN e.key \in Keys ELSE e.key = NoKey

LEMMA Enqueued ==
  ASSUME NoKey \notin Keys,
         StreamOK, NEW q \in Seq(Buffered(pushes, pending)), NEW e,
         FactIds(q) = FactIds(queue), Pushed(e),
         Enqueue(q, e), pushes' = pushes + 1, out' = out
  PROVE  StreamOK'
<1>1. /\ pushes \in Nat /\ pushes' \in Nat /\ e \in Entries /\ e.id = pushes'
      /\ e.id \in 0..pushes' /\ e.droppable \in BOOLEAN /\ e.id \in Nat
  BY DEF StreamOK, Pushed, Entries
<1>2. queue' = Append(q, e)
  BY DEF Enqueue
<1>3. pending' = [k \in Keys |-> CASE k = e.key -> e.id
                                          [] k # e.key /\ pending[k] \in Ids(q) -> pending[k]
                                          [] OTHER -> 0]
  BY DEF Enqueue
<1>4. ASSUME NEW k \in Keys
      PROVE  \/ k = e.key /\ pending'[k] = e.id
             \/ k # e.key /\ (pending'[k] = pending[k] \/ pending'[k] = 0)
  <2>1. pending'[k] = CASE k = e.key -> e.id
                        [] k # e.key /\ pending[k] \in Ids(q) -> pending[k]
                        [] OTHER -> 0
    BY <1>3
  <2> QED
    BY <2>1
<1>5. \A k \in Keys : pending[k] \in 0..pushes
  BY DEF StreamOK
<1>6. pending' \in [Keys -> 0..pushes']
  <2>1. ASSUME NEW k \in Keys PROVE pending'[k] \in 0..pushes'
    BY <1>1, <1>4, <1>5
  <2> QED
    BY <1>3, <2>1
<1>7. queue' \in Seq(Buffered(pushes', pending'))
  <2>1. ASSUME NEW i \in 1..Len(q) PROVE q[i] \in Buffered(pushes', pending')
    <3>1. q[i] \in Buffered(pushes, pending)
      BY BufferedAreEntries
    <3>2. q[i].id \in 1..pushes
      BY <3>1 DEF Buffered
    <3>3. q[i].id \in 1..pushes' /\ q[i].id # 0 /\ q[i].id # e.id
      BY <1>1, <3>2
    <3>4. \A k \in Keys : pending'[k] = q[i].id => pending[k] = q[i].id
      BY <1>4, <3>3
    <3> QED
      BY <3>1, <3>3, <3>4 DEF Buffered
  <2>2. e \in Buffered(pushes', pending')
    <3>1. e.id \in 1..pushes'
      BY <1>1
    <3>2. ASSUME NEW k \in Keys, pending'[k] = e.id, ~e.droppable PROVE FALSE
      <4>1. k # e.key
        BY <3>2 DEF Pushed
      <4>2. pending'[k] = pending[k] \/ pending'[k] = 0
        BY <1>4, <4>1
      <4> QED
        BY <1>1, <1>5, <3>2, <4>2
    <3> QED
      BY <1>1, <3>1, <3>2 DEF Buffered
  <2>3. q \in Seq(Buffered(pushes', pending'))
    BY <2>1, WiderQueue
  <2> QED
    BY <1>2, <2>2, <2>3
<1>8. (FactsInOrder)'
  <2> DEFINE f == FactIds(out)
             g == FactIds(q)
  <2>1. q \in Seq(Entries) /\ out \in Seq(Entries)
    BY BufferedAreEntries DEF StreamOK
  <2>2. f \in Seq(Nat) /\ g \in Seq(Nat)
    BY <2>1, FactsType
  <2>3. f \o g = accepted
    BY DEF StreamOK, FactsInOrder
  <2>4. FactIds(queue') = IF e.droppable THEN g ELSE Append(g, e.id)
    BY <1>1, <1>2, <2>1, FactsAppend
  <2>5. accepted' = IF e.droppable THEN accepted ELSE Append(accepted, e.id)
    BY DEF Enqueue
  <2>6. f = FactIds(out')
    OBVIOUS
  <2> HIDE DEF f, g
  <2>7. Append(f \o g, e.id) = f \o Append(g, e.id)
    BY <1>1, <2>2, AppendBehind
  <2>8. f \o FactIds(queue') = accepted'
    BY <2>3, <2>4, <2>5, <2>7
  <2> QED
    BY <2>6, <2>8 DEF FactsInOrder
<1>9. out' \in Seq(Entries)
  BY DEF StreamOK
<1> QED
  BY <1>1, <1>6, <1>7, <1>8, <1>9 DEF StreamOK

\* _drop_oldest, however often and whatever it protects.
LEMMA EvictKeepsFacts ==
  ASSUME NEW q \in Seq(Buffered(pushes, pending)), NEW n, NEW keep
  PROVE  /\ Evict(q, n, keep) \in Seq(Buffered(pushes, pending))
         /\ FactIds(Evict(q, n, keep)) = FactIds(q)
<1> DEFINE victims == {i \in Evictable(q, keep) :
                         Cardinality({j \in Evictable(q, keep) : j <= i}) <= n}
           left == DOMAIN q \ victims
<1>1. Evict(q, n, keep) = Kept(q, left)
  BY DEF Evict
<1>2. \A i \in 1..Len(q) : i \in left \/ q[i].droppable
  BY DEF Evictable
<1> HIDE DEF left
<1>3. q \in Seq(Entries)
  BY BufferedAreEntries
<1>4. Kept(q, left) \in Seq(Buffered(pushes, pending))
  BY KeptWasThere
<1>5. FactIds(Kept(q, left)) = FactIds(q)
  BY <1>2, <1>3, FactsKept
<1> QED
  BY <1>1, <1>4, <1>5

LEMMA RoomKeepsFacts ==
  ASSUME NEW q \in Seq(Buffered(pushes, pending)), NEW size
  PROVE  /\ RoomFor(q, size) \in Seq(Buffered(pushes, pending))
         /\ FactIds(RoomFor(q, size)) = FactIds(q)
<1> DEFINE all == Cardinality(Evictable(q, 0))
           enough == {n \in 0..all : ~Overflows(Evict(q, n, 0), size)}
           n == IF enough = {} THEN all ELSE CHOOSE n \in enough : \A m \in enough : n <= m
<1>1. RoomFor(q, size) = Evict(q, n, 0)
  BY DEF RoomFor
<1> HIDE DEF n
<1> QED
  BY <1>1, EvictKeepsFacts

\* _trim_bytes may also remove the protected event, which is an update.
LEMMA TrimKeepsFacts ==
  ASSUME NEW q \in Seq(Buffered(pushes, pending)), NEW k \in Keys
  PROVE  /\ Trim(q, pending[k]) \in Seq(Buffered(pushes, pending))
         /\ FactIds(Trim(q, pending[k])) = FactIds(q)
<1> DEFINE keep == pending[k]
           others(r) == {i \in DOMAIN r : r[i].id # keep}
           all == Cardinality(Evictable(q, keep))
           enough == {n \in 0..all : LET r == Evict(q, n, keep)
                                     IN  TotalSize(r) <= MaxBytes \/ Len(r) <= 1}
           m == IF enough = {} THEN all ELSE CHOOSE n \in enough : \A l \in enough : n <= l
           r == Evict(q, m, keep)
<1>1. Trim(q, keep) = IF TotalSize(r) > MaxBytes THEN Kept(r, others(r)) ELSE r
  BY DEF Trim
<1> HIDE DEF m
<1>2. r \in Seq(Buffered(pushes, pending)) /\ FactIds(r) = FactIds(q)
  BY EvictKeepsFacts
<1>3. Trim(q, keep) \in {r, Kept(r, others(r))}
  BY <1>1
<1> HIDE DEF r
<1>4. r \in Seq(Entries) /\ \A i \in 1..Len(r) : r[i] \in Buffered(pushes, pending)
  BY <1>2, BufferedAreEntries
<1>5. \A i \in 1..Len(r) : i \in others(r) \/ r[i].droppable
  BY <1>4 DEF Buffered
<1> HIDE DEF others
<1>6. Kept(r, others(r)) \in Seq(Buffered(pushes, pending))
  BY <1>2, KeptWasThere
<1>7. FactIds(Kept(r, others(r))) = FactIds(r)
  BY <1>4, <1>5, FactsKept
<1> QED
  BY <1>2, <1>3, <1>6, <1>7 DEF keep

\* A merge changes a size only.
LEMMA MergeKeepsFacts ==
  ASSUME NEW q \in Seq(Buffered(pushes, pending)), NEW at, NEW size, at \in DOMAIN q => size \in Nat
  PROVE  /\ [q EXCEPT ![at].size = size] \in Seq(Buffered(pushes, pending))
         /\ FactIds([q EXCEPT ![at].size = size]) = FactIds(q)
<1> DEFINE r == [q EXCEPT ![at].size = size]
<1>1. q \in Seq(Entries) /\ \A i \in 1..Len(q) : q[i] \in Buffered(pushes, pending)
  BY BufferedAreEntries
<1>2. DOMAIN r = DOMAIN q /\ DOMAIN q = 1..Len(q) /\ Len(q) \in Nat
  OBVIOUS
<1>3. ASSUME NEW i \in 1..Len(q)
      PROVE  r[i] \in Buffered(pushes, pending) /\ r[i].id = q[i].id /\ r[i].droppable = q[i].droppable
  <2>1. q[i] \in Buffered(pushes, pending) /\ q[i] \in Entries
    BY <1>1 DEF Buffered
  <2>2. CASE i = at
    <3>1. r[i] = [q[i] EXCEPT !.size = size] /\ size \in Nat
      BY <1>2, <2>2
    <3>2. /\ [q[i] EXCEPT !.size = size] \in Entries
          /\ [q[i] EXCEPT !.size = size].id = q[i].id
          /\ [q[i] EXCEPT !.size = size].droppable = q[i].droppable
      BY <2>1, <3>1 DEF Entries
    <3> HIDE DEF r
    <3> QED
      BY <2>1, <3>1, <3>2 DEF Buffered
  <2>3. CASE i # at
    <3>1. r[i] = q[i]
      BY <1>2, <2>3
    <3> QED
      BY <2>1, <3>1
  <2> QED
    BY <2>2, <2>3
<1>4. r \in Seq(Buffered(pushes, pending))
  <2>1. r \in [1..Len(q) -> Buffered(pushes, pending)]
    <3>1. r = [i \in 1..Len(q) |-> r[i]]
      BY <1>2
    <3> QED
      BY <1>3, <3>1
  <2> QED
    BY <1>2, <2>1
<1>5. [i \in DOMAIN r |-> r[i].id] = [i \in DOMAIN q |-> q[i].id]
  BY <1>2, <1>3
<1>6. {i \in DOMAIN r : ~r[i].droppable} = {i \in DOMAIN q : ~q[i].droppable}
  BY <1>2, <1>3
<1> HIDE DEF r
<1>7. FactIds(r) = FactIds(q)
  BY <1>5, <1>6 DEF FactIds
<1> QED
  BY <1>4, <1>7 DEF r

\* A step that ends the stream or drops an update keeps the buffer's facts.
LEMMA Terminated ==
  ASSUME StreamOK, NEW q \in Seq(Buffered(pushes, pending)),
         FactIds(q) = FactIds(queue),
         TerminateWithError(q) \/ DropIncoming(q),
         pushes' \in {pushes, pushes + 1}, out' = out
  PROVE  StreamOK'
<1>1. SetBuffer(q) /\ accepted' = accepted
  BY DEF TerminateWithError, DropIncoming
<1> QED
  BY <1>1, BufferSet

LEMMA Coalesced ==
  ASSUME StreamOK, NEW e, e \in Entries, e.key \in Keys, Coalesce(e),
         pushes' = pushes + 1, out' = out
  PROVE  StreamOK'
<1> DEFINE at == CHOOSE i \in DOMAIN queue : queue[i].id = pending[e.key]
           sum == IF e.key \in DeltaKeys THEN queue[at].size + e.size ELSE e.size
           size == IF sum > MaxBytes THEN e.size ELSE sum
           merged == [queue EXCEPT ![at].size = size]
<1>1. queue \in Seq(Buffered(pushes, pending)) /\ e.size \in Nat
  BY DEF StreamOK, Entries
<1>2. \/ TerminateWithError(queue)
      \/ /\ SetBuffer(Trim(merged, pending[e.key]))
         /\ UNCHANGED <<done, result, marker, accepted>>
  BY DEF Coalesce
<1> HIDE DEF at
<1>3. at \in DOMAIN queue => size \in Nat
  <2> SUFFICES ASSUME at \in DOMAIN queue PROVE sum \in Nat
    BY <1>1
  <2>1. queue[at] \in Buffered(pushes, pending)
    BY <1>1
  <2>2. queue[at].size \in Nat
    BY <2>1 DEF Buffered, Entries
  <2> QED
    BY <1>1, <2>2
<1> HIDE DEF size
<1>4. merged \in Seq(Buffered(pushes, pending)) /\ FactIds(merged) = FactIds(queue)
  BY <1>1, <1>3, MergeKeepsFacts
<1> HIDE DEF merged
<1> DEFINE left == Trim(merged, pending[e.key])
<1>5. left \in Seq(Buffered(pushes, pending)) /\ FactIds(left) = FactIds(queue)
  BY <1>4, TrimKeepsFacts
<1> HIDE DEF left
<1>6. CASE TerminateWithError(queue)
  BY <1>1, <1>6, Terminated
<1>7. CASE SetBuffer(left) /\ accepted' = accepted
  BY <1>5, <1>7, BufferSet
<1> QED
  BY <1>2, <1>6, <1>7 DEF left

LEMMA PushKeeps ==
  ASSUME NoKey \notin Keys, StreamOK, NEW e, Pushed(e), Push(e)
  PROVE  StreamOK'
<1> DEFINE room == RoomFor(queue, e.size)
<1>1. pushes' = pushes + 1 /\ out' = out /\ PushOpen(e)
  BY DEF Push
<1>2. queue \in Seq(Buffered(pushes, pending)) /\ e \in Entries
  BY DEF StreamOK, Pushed
<1>3. room \in Seq(Buffered(pushes, pending)) /\ FactIds(room) = FactIds(queue)
  BY <1>2, RoomKeepsFacts
<1>4. \/ DropIncoming(queue) \/ TerminateWithError(queue)
      \/ Enqueue(queue, e)
      \/ e.key \in Keys /\ Coalesce(e)
      \/ Enqueue(room, e)
      \/ DropIncoming(room) \/ TerminateWithError(room)
  BY <1>1, Zenon DEF PushOpen
<1> HIDE DEF room
<1>5. CASE DropIncoming(queue) \/ TerminateWithError(queue)
  BY <1>1, <1>2, <1>5, Terminated
<1>6. CASE Enqueue(queue, e)
  BY <1>1, <1>2, <1>6, Enqueued
<1>7. CASE e.key \in Keys /\ Coalesce(e)
  BY <1>1, <1>2, <1>7, Coalesced
<1>8. CASE Enqueue(room, e)
  BY <1>1, <1>3, <1>8, Enqueued
<1>9. CASE DropIncoming(room) \/ TerminateWithError(room)
  BY <1>1, <1>3, <1>9, Terminated
<1> QED
  BY <1>4, <1>5, <1>6, <1>7, <1>8, <1>9

LEMMA TakeKeeps ==
  ASSUME StreamOK, Take
  PROVE  StreamOK'
<1> DEFINE e == Head(queue)
           q == Tail(queue)
<1>1. /\ queue # << >> /\ out' = Append(out, e) /\ queue' = q
      /\ SetBuffer(q) /\ pushes' = pushes /\ accepted' = accepted
  BY DEF Take, SetBuffer
<1>2. /\ queue \in Seq(Buffered(pushes, pending)) /\ queue \in Seq(Entries)
      /\ out \in Seq(Entries)
  BY BufferedAreEntries DEF StreamOK
<1>3. /\ q \in Seq(Buffered(pushes, pending)) /\ q \in Seq(Entries)
      /\ e \in Entries /\ <<e>> \in Seq(Entries)
      /\ queue = <<e>> \o q /\ Append(out, e) = out \o <<e>>
  <2>1. q \in Seq(Buffered(pushes, pending)) /\ q \in Seq(Entries)
    BY <1>1, <1>2
  <2>2. e \in Entries
    BY <1>1, <1>2
  <2>3. queue = <<e>> \o q
    BY <1>1, <1>2
  <2> HIDE DEF e, q
  <2>4. <<e>> \in Seq(Entries)
    BY <2>2
  <2>5. Append(out, e) = out \o <<e>>
    BY <1>2, <2>2
  <2> QED
    BY <2>1, <2>2, <2>3, <2>4, <2>5
<1> HIDE DEF e, q
<1>4. pushes' \in Nat
  BY <1>1 DEF StreamOK
<1>5. \A k \in Keys : pending'[k] \in {0, pending[k]}
  BY <1>1 DEF SetBuffer
<1>6. pending' \in [Keys -> 0..pushes']
  <2>1. \A k \in Keys : pending[k] \in 0..pushes' /\ 0 \in 0..pushes'
    BY <1>1, <1>4 DEF StreamOK
  <2> QED
    BY <1>1, <2>1 DEF SetBuffer
<1>7. queue' \in Seq(Buffered(pushes', pending'))
  <2>1. ASSUME NEW i \in 1..Len(q) PROVE q[i] \in Buffered(pushes', pending')
    <3>1. q[i] \in Buffered(pushes, pending)
      BY <1>3, BufferedAreEntries
    <3>2. q[i].id # 0
      BY <3>1 DEF Buffered
    <3>3. \A k \in Keys : pending'[k] = q[i].id => pending[k] = q[i].id
      BY <1>5, <3>2
    <3> QED
      BY <1>1, <3>1, <3>3 DEF Buffered
  <2> QED
    BY <1>1, <1>3, <2>1, WiderQueue
<1>8. out' \in Seq(Entries)
  BY <1>1, <1>2, <1>3
<1>9. (FactsInOrder)'
  <2> DEFINE f == FactIds(out)
             g == FactIds(<<e>>)
             h == FactIds(q)
  <2>1. f \in Seq(Nat) /\ g \in Seq(Nat) /\ h \in Seq(Nat)
    BY <1>2, <1>3, FactsType
  <2>2. FactIds(out') = f \o g /\ FactIds(queue) = g \o h
    BY <1>1, <1>2, <1>3, FactsConcat
  <2>3. f \o FactIds(queue) = accepted
    BY DEF StreamOK, FactsInOrder
  <2>4. FactIds(queue') = h
    BY <1>1
  <2> HIDE DEF f, g, h
  <2>5. (f \o g) \o h = f \o (g \o h)
    BY <2>1, ConcatAssociative
  <2>6. FactIds(out') \o FactIds(queue') = accepted'
    BY <1>1, <2>2, <2>3, <2>4, <2>5
  <2> QED
    BY <2>6 DEF FactsInOrder
<1> QED
  BY <1>4, <1>6, <1>7, <1>8, <1>9 DEF StreamOK

LEMMA StreamContinues ==
  ASSUME NoKey \notin Keys, Sizes \subseteq Nat, StreamOK, [StreamNext]_streamVars
  PROVE  StreamOK'
<1>1. ASSUME UNCHANGED <<queue, pending, out, accepted, pushes>> PROVE StreamOK'
  <2>1. (FactsInOrder)'
    <3>1. FactIds(out') \o FactIds(queue') = accepted'
      BY <1>1 DEF StreamOK, FactsInOrder
    <3> QED
      BY <3>1 DEF FactsInOrder
  <2> QED
    BY <1>1, <2>1 DEF StreamOK
<1>2. ASSUME NEW key \in Keys \cup {NoKey}, NEW s \in Sizes,
             NEW droppable \in BOOLEAN, NEW terminal \in BOOLEAN,
             droppable <=> key \in Keys,
             Push(Event(key, s, droppable, terminal))
      PROVE  StreamOK'
  <2> DEFINE e == Event(key, s, droppable, terminal)
  <2>1. pushes + 1 \in Nat /\ s \in Nat
    BY DEF StreamOK
  <2>2. /\ e \in Entries /\ e.id = pushes + 1 /\ e.key = key /\ e.droppable = droppable
    BY <2>1 DEF Event, Entries
  <2> HIDE DEF e
  <2>3. Pushed(e)
    BY <1>2, <2>2 DEF Pushed
  <2> QED
    BY <1>2, <2>3, PushKeeps DEF e
<1>3. CASE PushUpdate
  BY <1>2, <1>3 DEF PushUpdate
<1>4. CASE PushFact
  BY <1>2, <1>4 DEF PushFact
<1>5. CASE PushTerminal
  BY <1>2, <1>5 DEF PushTerminal
<1>6. CASE Fail
  <2>1. queue \in Seq(Buffered(pushes, pending))
    BY DEF StreamOK
  <2> QED
    BY <1>6, <2>1, Terminated DEF Fail
<1>7. CASE End
  BY <1>1, <1>7 DEF End
<1>8. CASE Take
  BY <1>8, TakeKeeps
<1>9. CASE TakeMarker
  BY <1>1, <1>9 DEF TakeMarker
<1>10. CASE UNCHANGED streamVars
  BY <1>1, <1>10 DEF streamVars
<1> QED
  BY <1>3, <1>4, <1>5, <1>6, <1>7, <1>8, <1>9, <1>10 DEF StreamNext

\* Every structural fact that push accepted is delivered or buffered, once and in
\* push order, for any limits, keys, sizes and number of pushes: _make_room,
\* _trim_bytes and a merge touch updates only.
THEOREM FactsInOrderHolds == StreamSpec => []FactsInOrder
<1>1. StreamInit => StreamOK
  BY StreamStarts
<1>2. StreamOK /\ [StreamNext]_streamVars => StreamOK'
  BY StreamContinues, StreamAssumption
<1>3. StreamOK => FactsInOrder
  BY DEF StreamOK
<1> QED
  BY <1>1, <1>2, <1>3, PTL DEF StreamSpec

=============================================================================
