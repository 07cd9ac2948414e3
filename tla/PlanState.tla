----------------------------- MODULE PlanState -----------------------------
(***************************************************************************)
(* A Multi Intent Plan as data: the dependency graph with its trusted      *)
(* policies (planning/graph.py, planning/types.py), and the reducer of the *)
(* Plan events (planning/state_machine.py).                                *)
(*                                                                         *)
(* A step is its own intent, so the policies are sets of steps.  Arguments *)
(* and results are left out: what they decide (whether the arguments of a  *)
(* step resolve, whether its preconditions hold) is the same whenever it   *)
(* is asked, since the results of succeeded steps never change, and is a   *)
(* value of Preparations chosen once for each step.  The topological order *)
(* only says which of several eligible steps comes first; users of this    *)
(* module take any of them.                                                *)
(***************************************************************************)
EXTENDS Integers, FiniteSets, Sequences

CONSTANTS
    SourceOrder,     \* the steps in the order of the plan, a sequence
    NeedsApproval,   \* steps whose policy requires_approval
    Write,           \* steps whose policy is a write
    Never,           \* steps with replay_policy "never"
    Contracted,      \* steps with a result_contract
    ParallelOk,      \* steps whose side effects may run in parallel
    Requires         \* step -> steps whose intent its policy names before it

Steps == {SourceOrder[i] : i \in 1..Len(SourceOrder)}

\* IntentPlanPolicy refuses other policies when it is built: a write is
\* approved and never replayed, only a side effect can be parallel to another.
PolicyOK ==
    /\ Write \subseteq NeedsApproval \cap Never
    /\ ParallelOk \subseteq Never
    /\ Requires \in [Steps -> SUBSET Steps]

ASSUME PolicyAssumption ==
    /\ SourceOrder \in Seq(Steps) /\ Cardinality(Steps) = Len(SourceOrder)
    /\ NeedsApproval \cup Never \cup Contracted \subseteq Steps
    /\ PolicyOK

\* What preparing a step finds: it can be dispatched, or the event that says
\* why not.
Preparations == {"ok", "step_arguments_invalid", "step_precondition_failed",
                 "step_not_applicable"}

-----------------------------------------------------------------------------
(* The dependency graph *)

Before(a, b) ==
    \E i, j \in 1..Len(SourceOrder) :
        i < j /\ SourceOrder[i] = a /\ SourceOrder[j] = b

\* is_ancestor, by paths of any length.
Ancestors(deps, s) ==
    LET above[n \in 0..Len(SourceOrder)] ==
            IF n = 0 THEN deps[s] ELSE above[n - 1] \cup UNION {deps[d] : d \in above[n - 1]}
    IN above[Len(SourceOrder)]

\* _sort raises when no order exists.
Acyclic(deps) == \A s \in Steps : s \notin Ancestors(deps, s)

\* Mutant: only the writes are put in order, not the other "never" steps.
BoundDependenciesWritesOnly(hints) ==
    [s \in Steps |->
        hints[s] \cup Requires[s]
            \cup {p \in Steps : s \in Write /\ p \in Write /\ Before(p, s)}]

\* bind_trusted_dependencies: the planner's hints, what the policies require,
\* and every earlier side effect unless both may run in parallel.
BoundDependencies(hints) ==
    [s \in Steps |->
        hints[s] \cup Requires[s]
            \cup {p \in Steps : /\ s \in Never /\ p \in Never /\ Before(p, s)
                                /\ ~(s \in ParallelOk /\ p \in ParallelOk)}]

\* PlanValidator.validate, as far as it looks at the graph.
Valid(deps) ==
    /\ Acyclic(deps)
    /\ \A s \in Steps : Requires[s] \subseteq Ancestors(deps, s)

-----------------------------------------------------------------------------
(* Step states *)

Statuses == {"pending", "waiting_approval", "running", "succeeded", "failed",
             "skipped", "not_applicable", "manual_intervention"}

\* PlanStepState.  appr is the approval_id ("request" is the stable id the
\* executor makes up itself, "id" one of the product), hash whether an
\* approval_action_hash is bound, receipt whether there is a consumed
\* PlanApprovalReceipt, valid the verdict about the result.
NewStep ==
    [status |-> "pending", attempts |-> 0, appr |-> "none", hash |-> FALSE,
     receipt |-> FALSE, result |-> FALSE, error |-> FALSE, valid |-> "none"]

StepStates ==
    [ status : Statuses, attempts : Nat, appr : {"none", "request", "id"}, hash : BOOLEAN,
      receipt : BOOLEAN, result : BOOLEAN, error : BOOLEAN, valid : {"none", "passed", "failed"} ]

PlanStates == [steps : [Steps -> StepStates], version : Nat]

InitialState == [steps |-> [s \in Steps |-> NewStep], version |-> 0]

StatusIn(st, S) == {s \in Steps : st.steps[s].status \in S}

Failures == {"failed", "skipped", "not_applicable", "manual_intervention"}

\* PlanExecutionState.phase
Phase(st) ==
    LET has == {st.steps[s].status : s \in Steps}
    IN IF "manual_intervention" \in has THEN "manual_intervention"
       ELSE IF has \subseteq {"succeeded", "not_applicable"} THEN "completed"
       ELSE IF "running" \in has THEN "running"
       ELSE IF "waiting_approval" \in has THEN "waiting_approval"
       ELSE IF has \cap {"failed", "skipped"} # {} /\ "pending" \notin has THEN "failed"
       ELSE "pending"

DependenciesMet(deps, st, s) == deps[s] \subseteq StatusIn(st, {"succeeded"})

ReadySteps(deps, st) == {s \in StatusIn(st, {"pending"}) : DependenciesMet(deps, st, s)}

BlockedSteps(deps, st) ==
    {s \in StatusIn(st, {"pending"}) : deps[s] \cap StatusIn(st, Failures) # {}}

-----------------------------------------------------------------------------
(* The reducer: TaskStateMachine.apply *)

\* An event; appr, version and target are those of an approval and a recovery.
Event(type, s) == [type |-> type, step |-> s, appr |-> "none", version |-> 0]
ApprovalEvent(type, s, appr, version) ==
    [type |-> type, step |-> s, appr |-> appr, version |-> version]

AcceptsApproval(st, e) ==
    LET cur == st.steps[e.step]
    IN CASE e.type = "step_waiting_approval" ->
                /\ cur.status = "pending"
                /\ e.step \in NeedsApproval
                /\ ~cur.receipt
         [] e.type = "step_approval_granted" ->
                /\ cur.status \in {"pending", "waiting_approval"}
                /\ e.version = st.version
         [] e.type = "step_approval_denied" ->
                /\ cur.status \in {"pending", "waiting_approval"}
                /\ cur.appr = "none" \/ e.appr = "none" \/ cur.appr = e.appr

\* step_started: dependencies done, and an approved step within the time of
\* its consumed receipt; expired holds the steps whose receipt has run out.
AcceptsStart(deps, st, s, expired) ==
    /\ st.steps[s].status = "pending"
    /\ DependenciesMet(deps, st, s)
    /\ s \in NeedsApproval => st.steps[s].receipt /\ s \notin expired

AcceptsOutcome(st, e) ==
    LET cur == st.steps[e.step]
    IN CASE e.type = "step_succeeded" ->
                /\ cur.status = "running"
                /\ e.step \in Contracted => cur.valid = "passed"
         [] e.type = "step_outcome_unknown" -> cur.status = "running" /\ e.step \in Never
         [] e.type \in {"step_validation_passed", "step_validation_failed",
                        "step_failed", "step_recovered"} -> cur.status = "running"

\* Skipped, or found to be impossible or unnecessary before its dispatch.
AcceptsEnd(st, s) == st.steps[s].status \in {"pending", "waiting_approval"}

ApprovalTypes == {"step_waiting_approval", "step_approval_granted", "step_approval_denied"}
EndTypes == {"step_skipped", "step_arguments_invalid", "step_precondition_failed",
             "step_not_applicable"}

Accepts(deps, st, e, expired) ==
    IF e.type \in ApprovalTypes THEN AcceptsApproval(st, e)
    ELSE IF e.type = "step_started" THEN AcceptsStart(deps, st, e.step, expired)
    ELSE IF e.type \in EndTypes THEN AcceptsEnd(st, e.step)
    ELSE AcceptsOutcome(st, e)

Approved(cur, e) ==
    CASE e.type = "step_waiting_approval" ->
            [cur EXCEPT !.status = "waiting_approval", !.appr = e.appr, !.hash = TRUE]
      [] e.type = "step_approval_granted" ->
            [cur EXCEPT !.status = "pending", !.appr = "id", !.hash = TRUE,
                        !.receipt = TRUE, !.error = FALSE]
      [] e.type = "step_approval_denied" ->
            [cur EXCEPT !.status = "failed", !.hash = TRUE, !.error = TRUE,
                        !.appr = IF e.appr = "none" THEN cur.appr ELSE e.appr]

Ended(cur, type) ==
    [cur EXCEPT
        !.status = CASE type = "step_skipped" -> "skipped"
                     [] type = "step_not_applicable" -> "not_applicable"
                     [] OTHER -> "failed",
        !.appr   = IF type = "step_not_applicable" /\ ~cur.receipt THEN "none" ELSE @,
        !.error  = TRUE]

\* Mutant: an interrupted step is replayed whatever its policy says.
RecoveredReplayed(cur, s) == [cur EXCEPT !.status = "pending", !.valid = "none"]

\* step_recovered: a safe step is replayed, a "never" step goes to a person.
Recovered(cur, s) ==
    [cur EXCEPT !.status = IF s \in Never THEN "manual_intervention" ELSE "pending",
                !.valid  = "none",
                !.error  = s \in Never]

Outcome(cur, e) ==
    CASE e.type = "step_validation_passed" -> [cur EXCEPT !.valid = "passed"]
      [] e.type = "step_validation_failed" ->
            [cur EXCEPT !.status = IF e.step \in Never THEN "manual_intervention" ELSE "failed",
                        !.valid = "failed", !.error = TRUE]
      [] e.type = "step_succeeded" ->
            [cur EXCEPT !.status = "succeeded", !.result = TRUE, !.error = FALSE]
      [] e.type = "step_failed" -> [cur EXCEPT !.status = "failed", !.error = TRUE]
      [] e.type = "step_outcome_unknown" ->
            [cur EXCEPT !.status = "manual_intervention", !.error = TRUE]

Updated(cur, e) ==
    IF e.type \in ApprovalTypes THEN Approved(cur, e)
    ELSE IF e.type \in EndTypes THEN Ended(cur, e.type)
    ELSE IF e.type = "step_recovered" THEN Recovered(cur, e.step)
    ELSE IF e.type = "step_started"
         THEN [cur EXCEPT !.status = "running", !.attempts = @ + 1,
                          !.error = FALSE, !.valid = "none"]
    ELSE Outcome(cur, e)

Apply(st, e) ==
    [steps |-> [st.steps EXCEPT ![e.step] = Updated(@, e)], version |-> st.version + 1]

-----------------------------------------------------------------------------
\* What state_from_dict requires of one step when a saved state is loaded.
CoherentStep(deps, st, s) ==
    LET cur == st.steps[s]
    IN /\ cur.status \in Statuses \ {"pending", "skipped"} => DependenciesMet(deps, st, s)
       /\ cur.status = "waiting_approval" =>
             /\ s \in NeedsApproval /\ ~cur.receipt
             /\ cur.attempts = 0 /\ ~cur.result /\ ~cur.error
       /\ cur.status \in {"running", "succeeded", "manual_intervention"} =>
             /\ cur.attempts >= 1
             /\ s \in NeedsApproval => cur.appr # "none" /\ cur.receipt
       /\ cur.appr # "none" => s \in NeedsApproval /\ cur.hash
       /\ cur.hash /\ cur.status # "waiting_approval" => cur.appr # "none"
       /\ cur.appr # "none" /\ ~cur.receipt =>
             cur.status \in {"waiting_approval", "failed"}
       /\ cur.status \in {"pending", "running"} => ~cur.result /\ ~cur.error
       /\ cur.status = "succeeded" => ~cur.error
       /\ cur.status \in Failures => ~cur.result /\ cur.error
       /\ cur.valid = "failed" => cur.status \in {"failed", "manual_intervention"}
       /\ cur.valid = "passed" => cur.status \in {"running", "succeeded"}
       /\ cur.status = "succeeded" /\ s \in Contracted => cur.valid = "passed"
       /\ s \in NeedsApproval /\ cur.status = "failed" /\ cur.attempts > 0 =>
             cur.receipt

Coherent(deps, st) == \A s \in Steps : CoherentStep(deps, st, s)

=============================================================================
