----------------------------- MODULE RunLedger -----------------------------
(***************************************************************************)
(* The event stream of one Autonomous Run                                  *)
(* (harness/autonomous_durability.py) and the record it decodes to.  The   *)
(* record is folded along with the stream: Apply is the body of _decode    *)
(* for one row, and `ok` turns FALSE for good where _decode would raise,   *)
(* after which no load of the Run succeeds.                                *)
(*                                                                         *)
(* Of the six resources of PlanResourceUsage three are kept: the plan      *)
(* steps, the step attempts and the model calls.  tool_calls are charged   *)
(* inside a step attempt, tokens and cost with the model calls, by the     *)
(* same comparisons.                                                       *)
(***************************************************************************)
EXTENDS Naturals, Sequences, SequencesExt, Functions

Resources == {"plan_steps", "step_attempts", "model_calls"}
NoUsage == [r \in Resources |-> 0]
Usage(r, n) == [NoUsage EXCEPT ![r] = n]
Plus(u, v) == [r \in Resources |-> u[r] + v[r]]

\* _assert_usage_within_budget, _assert_settlement_within_reservation
AtMost(u, v) == \A r \in Resources : u[r] <= v[r]

NoStatus == "none"
NoRun == [exists |-> FALSE, ok |-> TRUE, bound |-> FALSE, linked |-> FALSE, dispatchable |-> FALSE,
          closed |-> FALSE, status |-> NoStatus, text |-> NoStatus, plan_ids |-> << >>,
          settled |-> NoUsage, active |-> << >>, rounds |-> 0, actions |-> 0]

\* The reservations that are neither settled nor released, as a function from their ids.
Reserved(run) == DOMAIN run.active

\* AutonomousRunRecord.resource_usage: a reservation counts in full until it is settled.
ResourceUsage(run) ==
    [r \in Resources |->
        run.settled[r] + SumFunction([id \in Reserved(run) |-> run.active[id][r]])]

Terminal(run) == run.status # NoStatus \/ run.closed

\* AutonomousRunRecord.remaining_budget, for the two budgets of the closed loop.
RoundsLeft(run, max) == IF run.rounds >= max THEN 0 ELSE max - run.rounds
ActionsLeft(run, max) == IF run.actions >= max THEN 0 ELSE max - run.actions
Remaining(run, budget, r) ==
    LET used == ResourceUsage(run)[r] IN IF used >= budget[r] THEN 0 ELSE budget[r] - used

LatestPlan(run) == Last(run.plan_ids)

(* Events **************************************************************)
Initialized == [type |-> "initialized"]
PlanBound(p) == [type |-> "bound", plan |-> p]
PlanRegistered(p) == [type |-> "registered", plan |-> p]
Linked == [type |-> "linked"]
Dispatchable == [type |-> "dispatchable"]
ResourceReserved(id, amount) == [type |-> "reserved", id |-> id, amount |-> amount]
ResourceSettled(id, actual) == [type |-> "settled", id |-> id, amount |-> actual]
ResourceReleased(id) == [type |-> "released", id |-> id]
LoopEvent(kind, round) == [type |-> "loop", kind |-> kind, round |-> round]
SegmentFinished == [type |-> "segment"]
Finalized(status, text) == [type |-> "finalized", status |-> status, text |-> text]
AdmissionClosed == [type |-> "closed"]

\* What _decode accepts next.
Accepts(run, e, budget) ==
    /\ run.exists = (e.type # "initialized")
    /\ ~Terminal(run)
    /\ CASE e.type = "bound" -> ~run.bound /\ run.plan_ids = << >>
         [] e.type = "linked" -> run.bound /\ ~run.linked
         [] e.type = "dispatchable" -> run.linked /\ ~run.dispatchable
         [] e.type = "reserved" -> /\ e.id \notin Reserved(run)
                                   /\ AtMost(Plus(ResourceUsage(run), e.amount), budget)
         [] e.type = "settled" -> e.id \in Reserved(run) /\ AtMost(e.amount, run.active[e.id])
         [] e.type = "released" -> e.id \in Reserved(run)
         [] e.type = "finalized" -> run.bound
         [] e.type = "closed" -> ~run.bound /\ ~run.linked /\ ~run.dispatchable
         [] OTHER -> TRUE

Without(active, id) == [i \in DOMAIN active \ {id} |-> active[i]]
With(active, id, amount) == [i \in DOMAIN active \cup {id} |-> IF i = id THEN amount ELSE active[i]]

Fold(run, e) ==
    CASE e.type = "initialized" -> [run EXCEPT !.exists = TRUE]
      [] e.type = "bound" -> [run EXCEPT !.bound = TRUE, !.plan_ids = <<e.plan>>]
      [] e.type = "registered" ->
            IF e.plan \in ToSet(run.plan_ids) THEN run ELSE [run EXCEPT !.plan_ids = Append(@, e.plan)]
      [] e.type = "linked" -> [run EXCEPT !.linked = TRUE]
      [] e.type = "dispatchable" -> [run EXCEPT !.dispatchable = TRUE]
      [] e.type = "reserved" -> [run EXCEPT !.active = With(@, e.id, e.amount)]
      [] e.type = "settled" -> [run EXCEPT !.active = Without(@, e.id), !.settled = Plus(@, e.amount)]
      [] e.type = "released" -> [run EXCEPT !.active = Without(@, e.id)]
      [] e.type = "loop" ->
            [run EXCEPT !.rounds = @ + (IF e.kind = "correction_planned" THEN 1 ELSE 0),
                        !.actions = @ + (IF e.kind = "action_started" /\ e.round > 0 THEN 1 ELSE 0)]
      [] e.type = "finalized" -> [run EXCEPT !.status = e.status, !.text = e.text]
      [] e.type = "closed" -> [run EXCEPT !.closed = TRUE]
      [] OTHER -> run

Apply(run, e, budget) ==
    IF run.ok /\ Accepts(run, e, budget) THEN Fold(run, e) ELSE [run EXCEPT !.ok = FALSE]

\* The events bootstrap appends together for the first Plan.
Published(run, p, budget) ==
    Apply(Apply(Apply(run, PlanBound(p), budget), Linked, budget), Dispatchable, budget)
=============================================================================
