--------------------------- MODULE PlanExecution ---------------------------
(***************************************************************************)
(* The execution of a durable Plan by several workers: the Plan store and  *)
(* its completion outbox (planning/store.py), DurablePlanWorkflow.execute  *)
(* (harness/plans.py), the PlanExecutor (planning/executor.py), the        *)
(* approval barrier (planning/approval.py), the Tool bridge                *)
(* (harness/plan_tool_runtime.py) and the polling worker                   *)
(* (harness/plan_worker.py).                                               *)
(*                                                                         *)
(* A worker loads the Plan, then takes the plan_execution claim, then runs *)
(* the executor, whose every transition is appended under that claim and   *)
(* the journal head the worker last saw.  The rows of the claim table are  *)
(* those of ClaimRows at time 0 with lease 1: Lapse is the time a lease    *)
(* runs out.  Each execution makes a new owner token, so a held row        *)
(* refuses everybody.                                                      *)
(***************************************************************************)
EXTENDS PlanState, ClaimRows

CONSTANTS
    Workers,        \* processes that poll the store or resume the Plan
    Hints,          \* dependency hints the planner may produce
    Prepared,       \* step -> what preparing its arguments may find
    DenialIds,      \* approval ids a denial may come with: "id", "none" or both
    MaxParallel,    \* max_parallel_steps
    MaxAttempts,    \* bound on the attempts of one step
    MaxGen,         \* bound on the generations of a claim
    MaxFaults       \* bound on crashes, lapses, errors and cancellations

ASSUME ExecutionAssumption ==
    /\ Hints \subseteq [Steps -> SUBSET Steps]
    /\ DenialIds \subseteq {"id", "none"}
    /\ MaxParallel \in Nat /\ MaxAttempts \in Nat /\ MaxGen \in Nat /\ MaxFaults \in Nat

VARIABLES
    deps,       \* the dependencies the policies and the planner agreed on
    prep,       \* what preparing each step finds
    rec,        \* the DurablePlanRecord the journal replays to
    exec,       \* the plan_execution claim
    compl,      \* the plan_completion claim
    worker,     \* what each worker holds in memory
    backend,    \* the product's approval backend
    expired,    \* steps whose approval receipt has run out
    ran,        \* history: how often the handler of a step was dispatched
    told,       \* history: what the completion handler was given
    faults      \* faults so far

vars == <<deps, prep, rec, exec, compl, worker, backend, expired, ran, told, faults>>

NoEnvelope == [gen |-> 0, version |-> 0]
NoTasks == [s \in Steps |-> "none"]

Idle ==
    [pc |-> "idle", mem |-> InitialState, head |-> 0, lease |-> 0, asked |-> {},
     tasks |-> NoTasks, env |-> NoEnvelope, given |-> 0]

Deliverable == {"waiting_approval", "completed", "failed", "manual_intervention"}

\* HybridRequestPlanner.plan binds the trusted dependencies to the planner's
\* answer and validates the Plan.
Planned(h) == deps = BoundDependencies(h) /\ Valid(deps)

\* initialize stores the Plan, invisible to workers at first.
NewRecord ==
    [st |-> InitialState, head |-> 1, dispatchable |-> FALSE,
     env |-> NoEnvelope, pending |-> FALSE]

Envelopes == [gen : Nat, version : Nat]

PlanRecords ==
    [ st : PlanStates, head : Nat, dispatchable : BOOLEAN, env : Envelopes, pending : BOOLEAN ]

ClaimRowStates == [owner : Workers \cup {NoOwner}, expires : {0, 1}, gen : Nat]

\* A worker executes the Plan from "loaded" to "batch" and delivers its
\* completion from "claim" to "told".
WorkerStates ==
    [ pc    : {"idle", "loaded", "recover", "loop", "consumed", "batch",
               "claim", "claimed", "telling", "told"},
      mem   : PlanStates,
      head  : Nat,
      lease : Nat,
      asked : SUBSET Steps,
      tasks : [Steps -> {"none", "queued", "dispatched", "checked", "done"}],
      env   : Envelopes,
      given : Nat ]

\* The states of a receipt in the product's approval backend.
BackendStates == {"none", "open", "granted", "denied", "consumed"}

TypeOK ==
    /\ deps \in [Steps -> SUBSET Steps] /\ prep \in [Steps -> Preparations]
    /\ rec \in PlanRecords
    /\ exec \in ClaimRowStates /\ compl \in ClaimRowStates
    /\ worker \in [Workers -> WorkerStates]
    /\ backend \in [Steps -> BackendStates] /\ expired \in SUBSET Steps
    /\ ran \in [Steps -> Nat] /\ told \in SUBSET Nat /\ faults \in Nat

Init ==
    /\ \E h \in Hints : Planned(h)
    /\ prep \in [Steps -> Preparations] /\ \A s \in Steps : prep[s] \in Prepared[s]
    /\ rec = NewRecord
    /\ exec = AbsentRow
    /\ compl = AbsentRow
    /\ worker = [w \in Workers |-> Idle]
    /\ backend \in [Steps -> BackendStates] /\ \A s \in Steps : backend[s] = "none"
    /\ expired = {}
    /\ ran = [s \in Steps |-> 0]
    /\ told = {}
    /\ faults = 0

-----------------------------------------------------------------------------
(* The store *)

\* mark_dispatchable
MarkDispatchable ==
    /\ ~rec.dispatchable
    /\ rec' = [rec EXCEPT !.dispatchable = TRUE, !.head = @ + 1]
    /\ UNCHANGED <<deps, prep, exec, compl, worker, backend, expired, ran, told, faults>>

\* append_event: the event, and in the same batch a new completion envelope
\* when the Plan is in a phase that is delivered.
Recorded(r, st) ==
    LET new == Phase(st) \in Deliverable
    IN [r EXCEPT !.st = st, !.head = @ + 1, !.pending = @ \/ new,
                 !.env = IF new THEN [gen |-> @.gen + 1, version |-> st.version] ELSE @]

\* The worker's claim is current and nobody has appended since it last looked.
MayAppend(w) ==
    /\ LeaseCurrent(exec, w, worker[w].lease, 0)
    /\ rec.head = worker[w].head

\* The execution raises: its tasks are cancelled, the claim is released if it
\* is still the worker's (the finally clause of execute).
Abort(w) ==
    /\ worker' = [worker EXCEPT ![w] = Idle]
    /\ exec' = IF Names(exec, w, worker[w].lease) THEN ReleasedRow(exec) ELSE exec
    /\ UNCHANGED rec

\* _transition with persist as its sink: the reducer in memory, then the fenced
\* append.  next is the worker afterwards.
Transition(w, e, next) ==
    IF Accepts(deps, worker[w].mem, e, expired) /\ MayAppend(w)
    THEN LET st == Apply(worker[w].mem, e)
         IN /\ rec' = Recorded(rec, st)
            /\ worker' = [worker EXCEPT ![w] = [next EXCEPT !.mem = st, !.head = rec.head + 1]]
            /\ UNCHANGED exec
    ELSE Abort(w)

Same(w) == worker[w]
TaskAt(w, s, t) == [worker[w] EXCEPT !.tasks[s] = t]

-----------------------------------------------------------------------------
(* DurablePlanWorkflow.execute *)

\* list_runnable_plans, or a host that resumes a waiting Plan; the record is
\* loaded before the claim is taken.
Load(w) ==
    /\ worker[w].pc = "idle"
    /\ rec.dispatchable
    /\ Phase(rec.st) \in {"pending", "running", "waiting_approval"}
    /\ worker' = [worker EXCEPT ![w] = [Idle EXCEPT !.pc = "loaded", !.mem = rec.st, !.head = rec.head]]
    /\ UNCHANGED <<deps, prep, rec, exec, compl, backend, expired, ran, told, faults>>

\* A held claim refuses the worker, and a state that cannot be loaded raises.
AcquireExecution(w) ==
    /\ worker[w].pc = "loaded"
    /\ IF Held(exec, 0)
       THEN worker' = [worker EXCEPT ![w] = Idle] /\ UNCHANGED exec
       ELSE LET row == AcquiredRow(exec, w, 0, 1)
            IN /\ row.gen <= MaxGen
               /\ IF Coherent(deps, worker[w].mem)
                  THEN /\ exec' = row
                       /\ worker' = [worker EXCEPT ![w].pc = "recover", ![w].lease = row.gen]
                  ELSE exec' = ReleasedRow(row) /\ worker' = [worker EXCEPT ![w] = Idle]
    /\ UNCHANGED <<deps, prep, rec, compl, backend, expired, ran, told, faults>>

\* The heartbeat finds the claim lost and cancels the execution.
NoticeLostLease(w) ==
    /\ worker[w].pc \in {"recover", "loop", "consumed", "batch"}
    /\ ~LeaseCurrent(exec, w, worker[w].lease, 0)
    /\ Abort(w)
    /\ UNCHANGED <<deps, prep, compl, backend, expired, ran, told, faults>>

-----------------------------------------------------------------------------
(* PlanExecutor.execute *)

\* _recover_running_steps
RecoverStep(w) ==
    /\ worker[w].pc = "recover"
    /\ LET running == StatusIn(worker[w].mem, {"running"})
       IN IF running = {}
          THEN worker' = [worker EXCEPT ![w].pc = "loop"] /\ UNCHANGED <<rec, exec>>
          ELSE \E s \in running : Transition(w, Event("step_recovered", s), Same(w))
    /\ UNCHANGED <<deps, prep, compl, backend, expired, ran, told, faults>>

\* _skip_blocked_steps
SkipBlocked(w) ==
    /\ worker[w].pc = "loop"
    /\ \E s \in BlockedSteps(deps, worker[w].mem) :
          Transition(w, Event("step_skipped", s), Same(w))
    /\ UNCHANGED <<deps, prep, compl, backend, expired, ran, told, faults>>

\* Steps whose approval is asked for, once in one execution.
ToAsk(w) ==
    LET mem == worker[w].mem
    IN (StatusIn(mem, {"waiting_approval"})
          \cup {s \in ReadySteps(deps, mem) \cap NeedsApproval : ~mem.steps[s].receipt})
       \ worker[w].asked

Asking(w, s) ==
    /\ worker[w].pc = "loop"
    /\ BlockedSteps(deps, worker[w].mem) = {}
    /\ s \in ToAsk(w)

Asked(w, s) == [worker[w] EXCEPT !.asked = @ \cup {s}]

\* _prepare_context: the arguments do not resolve, a precondition fails, or
\* the authorization action cannot be built.
PrepareFails(w, s) ==
    /\ Asking(w, s)
    /\ \E type \in {"step_arguments_invalid", prep[s]} \ {"ok"} :
          Transition(w, Event(type, s), Same(w))
    /\ UNCHANGED <<deps, prep, compl, backend, expired, ran, told, faults>>

\* The barrier answers "pending": the backend has a request for the step now.
AskPending(w, s) ==
    /\ Asking(w, s) /\ prep[s] = "ok"
    /\ backend[s] \in {"none", "open"}
    /\ backend' = [backend EXCEPT ![s] = "open"]
    /\ IF worker[w].mem.steps[s].status = "waiting_approval"
       THEN worker' = [worker EXCEPT ![w] = Asked(w, s)] /\ UNCHANGED <<rec, exec>>
       ELSE Transition(w, ApprovalEvent("step_waiting_approval", s, "id", 0), Asked(w, s))
    /\ UNCHANGED <<deps, prep, compl, expired, ran, told, faults>>

\* A denial may come with or without the id of the request.
AskDenied(w, s) ==
    /\ Asking(w, s) /\ prep[s] = "ok"
    /\ backend[s] = "denied"
    /\ \E id \in DenialIds :
          Transition(w, ApprovalEvent("step_approval_denied", s, id, 0), Asked(w, s))
    /\ UNCHANGED <<deps, prep, compl, backend, expired, ran, told, faults>>

\* _consume_receipt: the backend marks the receipt consumed ...
ConsumeReceipt(w, s) ==
    /\ Asking(w, s) /\ prep[s] = "ok"
    /\ backend[s] = "granted"
    /\ backend' = [backend EXCEPT ![s] = "consumed"]
    /\ worker' = [worker EXCEPT ![w] = [Asked(w, s) EXCEPT !.pc = "consumed", !.tasks[s] = "queued"]]
    /\ UNCHANGED <<deps, prep, rec, exec, compl, expired, ran, told, faults>>

\* ... and the grant is appended after that.
RecordGrant(w) ==
    /\ worker[w].pc = "consumed"
    /\ \E s \in Steps :
          /\ worker[w].tasks[s] = "queued"
          /\ Transition(w, ApprovalEvent("step_approval_granted", s, "id", worker[w].mem.version),
                        [worker[w] EXCEPT !.pc = "loop", !.tasks = NoTasks])
    /\ UNCHANGED <<deps, prep, compl, backend, expired, ran, told, faults>>

\* The barrier raises: a receipt that is consumed already, or a broken answer.
\* A pending step is left waiting under the request id before the error goes on.
AskRaises(w, s) ==
    /\ Asking(w, s) /\ prep[s] = "ok"
    /\ \/ backend[s] = "consumed" /\ UNCHANGED faults
       \/ faults < MaxFaults /\ faults' = faults + 1
    /\ IF worker[w].mem.steps[s].status = "pending" /\ MayAppend(w)
       THEN /\ rec' = Recorded(rec, Apply(worker[w].mem, ApprovalEvent("step_waiting_approval", s, "request", 0)))
            /\ exec' = ReleasedRow(exec)
            /\ worker' = [worker EXCEPT ![w] = Idle]
       ELSE Abort(w)
    /\ UNCHANGED <<deps, prep, compl, backend, expired, ran, told>>

\* Ready steps that need no approval or have their receipt.
Executable(w) ==
    {s \in ReadySteps(deps, worker[w].mem) :
        s \in NeedsApproval => worker[w].mem.steps[s].receipt}

LoopSettled(w) ==
    worker[w].pc = "loop" /\ BlockedSteps(deps, worker[w].mem) = {} /\ ToAsk(w) = {}

\* _execute_batch: up to max_parallel_steps tasks.
StartBatch(w) ==
    /\ LoopSettled(w)
    /\ \E B \in SUBSET Executable(w) :
          /\ B # {}
          /\ Cardinality(B) = MaxParallel \/ (B = Executable(w) /\ Cardinality(B) <= MaxParallel)
          /\ worker' = [worker EXCEPT ![w].pc = "batch",
                          ![w].tasks = [s \in Steps |-> IF s \in B THEN "queued" ELSE "none"]]
    /\ UNCHANGED <<deps, prep, rec, exec, compl, backend, expired, ran, told, faults>>

\* Nothing left to do: the claim is renewed once more and released.
FinishExecution(w) ==
    /\ LoopSettled(w) /\ Executable(w) = {}
    /\ Abort(w)
    /\ UNCHANGED <<deps, prep, compl, backend, expired, ran, told, faults>>

-----------------------------------------------------------------------------
(* _execute_one *)

\* The step turns out to be impossible or unnecessary before its dispatch.
StepNotDispatched(w, s) ==
    /\ worker[w].pc = "batch" /\ worker[w].tasks[s] = "queued"
    /\ \E type \in Preparations \ {"ok"} :
          /\ type = prep[s] \/ (type = "step_arguments_invalid" /\ s \in NeedsApproval)
          /\ Transition(w, Event(type, s), TaskAt(w, s, "done"))
    /\ UNCHANGED <<deps, prep, compl, backend, expired, ran, told, faults>>

\* step_started is stored, then the handler is dispatched.
Dispatch(w, s) ==
    /\ worker[w].pc = "batch" /\ worker[w].tasks[s] = "queued" /\ prep[s] = "ok"
    /\ worker[w].mem.steps[s].attempts < MaxAttempts
    /\ ran' = IF Accepts(deps, worker[w].mem, Event("step_started", s), expired) /\ MayAppend(w)
              THEN [ran EXCEPT ![s] = @ + 1] ELSE ran
    /\ Transition(w, Event("step_started", s), TaskAt(w, s, "dispatched"))
    /\ UNCHANGED <<deps, prep, compl, backend, expired, told, faults>>

\* The handler raises.  Unless the error says that nothing was committed, the
\* outcome of a "never" step is unknown; a safe step may say so by mistake.
HandlerRaises(w, s) ==
    /\ worker[w].tasks[s] = "dispatched"
    /\ \E type \in {"step_failed", "step_outcome_unknown"} :
          Transition(w, Event(type, s), TaskAt(w, s, "done"))
    /\ UNCHANGED <<deps, prep, compl, backend, expired, ran, told, faults>>

\* The handler returns and a contract is checked; the verdict is stored first.
ValidateResult(w, s) ==
    /\ worker[w].tasks[s] = "dispatched" /\ s \in Contracted
    /\ \/ Transition(w, Event("step_validation_passed", s), TaskAt(w, s, "checked"))
       \/ Transition(w, Event("step_validation_failed", s), TaskAt(w, s, "done"))
    /\ UNCHANGED <<deps, prep, compl, backend, expired, ran, told, faults>>

Succeed(w, s) ==
    /\ worker[w].tasks[s] = IF s \in Contracted THEN "checked" ELSE "dispatched"
    /\ Transition(w, Event("step_succeeded", s), TaskAt(w, s, "done"))
    /\ UNCHANGED <<deps, prep, compl, backend, expired, ran, told, faults>>

BatchDone(w) ==
    /\ worker[w].pc = "batch"
    /\ \A s \in Steps : worker[w].tasks[s] \in {"none", "done"}
    /\ worker' = [worker EXCEPT ![w].pc = "loop", ![w].tasks = NoTasks]
    /\ UNCHANGED <<deps, prep, rec, exec, compl, backend, expired, ran, told, faults>>

-----------------------------------------------------------------------------
(* The completion outbox: _deliver_completion *)

\* The scan sees a Plan that is not to be executed and has a completion.
FindCompletion(w) ==
    /\ worker[w].pc = "idle"
    /\ rec.dispatchable /\ rec.pending /\ Phase(rec.st) \in Deliverable
    /\ worker' = [worker EXCEPT ![w].pc = "claim"]
    /\ UNCHANGED <<deps, prep, rec, exec, compl, backend, expired, ran, told, faults>>

AcquireCompletion(w) ==
    /\ worker[w].pc = "claim"
    /\ IF ~rec.pending \/ Held(compl, 0)
       THEN worker' = [worker EXCEPT ![w] = Idle] /\ UNCHANGED compl
       ELSE LET row == AcquiredRow(compl, w, 0, 1)
            IN /\ row.gen <= MaxGen
               /\ compl' = row
               /\ worker' = [worker EXCEPT ![w].pc = "claimed", ![w].lease = row.gen]
    /\ UNCHANGED <<deps, prep, rec, exec, backend, expired, ran, told, faults>>

ReleaseCompletion(w) ==
    /\ compl' = IF Names(compl, w, worker[w].lease) THEN ReleasedRow(compl) ELSE compl
    /\ worker' = [worker EXCEPT ![w] = Idle]

\* The state and the envelope are read under the claim.
LoadCompletion(w) ==
    /\ worker[w].pc = "claimed"
    /\ IF rec.pending
       THEN /\ worker' = [worker EXCEPT ![w].pc = "telling", ![w].env = rec.env,
                                        ![w].given = rec.st.version]
            /\ UNCHANGED compl
       ELSE ReleaseCompletion(w)
    /\ UNCHANGED <<deps, prep, rec, exec, backend, expired, ran, told, faults>>

\* The completion handler stores its projection, or raises.
InvokeHandler(w) ==
    /\ worker[w].pc = "telling"
    /\ \/ /\ told' = told \cup {worker[w].given}
          /\ worker' = [worker EXCEPT ![w].pc = "told"]
          /\ UNCHANGED <<compl, faults>>
       \/ /\ faults < MaxFaults /\ faults' = faults + 1
          /\ ReleaseCompletion(w)
          /\ UNCHANGED told
    /\ UNCHANGED <<deps, prep, rec, exec, backend, expired, ran>>

\* Mutant: the envelope that is acknowledged is not compared.
AckCompletionAny(w) ==
    /\ worker[w].pc = "told"
    /\ rec' = IF LeaseCurrent(compl, w, worker[w].lease, 0)
              THEN [rec EXCEPT !.pending = FALSE, !.head = @ + 1] ELSE rec
    /\ ReleaseCompletion(w)
    /\ UNCHANGED <<deps, prep, exec, backend, expired, ran, told, faults>>

\* ack_completion: refused once a newer envelope has replaced the delivered one.
AckCompletion(w) ==
    /\ worker[w].pc = "told"
    /\ rec' = IF rec.pending /\ rec.env = worker[w].env /\ LeaseCurrent(compl, w, worker[w].lease, 0)
              THEN [rec EXCEPT !.pending = FALSE, !.head = @ + 1] ELSE rec
    /\ ReleaseCompletion(w)
    /\ UNCHANGED <<deps, prep, exec, backend, expired, ran, told, faults>>

-----------------------------------------------------------------------------
(* The outside *)

\* A person decides about an open request.
Decide(s) ==
    /\ backend[s] = "open"
    /\ \E d \in {"granted", "denied"} : backend' = [backend EXCEPT ![s] = d]
    /\ UNCHANGED <<deps, prep, rec, exec, compl, worker, expired, ran, told, faults>>

ReceiptExpires(s) ==
    /\ backend[s] = "consumed" /\ s \notin expired
    /\ expired' = expired \cup {s}
    /\ UNCHANGED <<deps, prep, rec, exec, compl, worker, backend, ran, told, faults>>

\* A process dies; its claims stay until they lapse.
Crash(w) ==
    /\ worker[w].pc # "idle"
    /\ faults < MaxFaults /\ faults' = faults + 1
    /\ worker' = [worker EXCEPT ![w] = Idle]
    /\ UNCHANGED <<deps, prep, rec, exec, compl, backend, expired, ran, told>>

\* The user cancels, the store fails, or the budget of the run is used up.
ExecutionStops(w) ==
    /\ worker[w].pc \in {"recover", "loop", "consumed", "batch"}
    /\ faults < MaxFaults /\ faults' = faults + 1
    /\ Abort(w)
    /\ UNCHANGED <<deps, prep, compl, backend, expired, ran, told>>

\* A claim runs out: that of a dead worker, or of one whose heartbeat starves.
Abandoned(row) ==
    \A w \in Workers : ~(worker[w].pc # "idle" /\ Names(row, w, worker[w].lease))

Lapse ==
    /\ \/ Held(exec, 0) /\ exec' = [exec EXCEPT !.expires = 0] /\ UNCHANGED compl
          /\ faults' = IF Abandoned(exec) THEN faults ELSE faults + 1
       \/ Held(compl, 0) /\ compl' = [compl EXCEPT !.expires = 0] /\ UNCHANGED exec
          /\ faults' = IF Abandoned(compl) THEN faults ELSE faults + 1
    /\ faults' <= MaxFaults
    /\ UNCHANGED <<deps, prep, rec, worker, backend, expired, ran, told>>

Next ==
    \/ MarkDispatchable \/ Lapse
    \/ \E s \in Steps : Decide(s) \/ ReceiptExpires(s)
    \/ \E w \in Workers :
          \/ Load(w) \/ AcquireExecution(w) \/ NoticeLostLease(w) \/ RecoverStep(w)
          \/ SkipBlocked(w) \/ RecordGrant(w) \/ StartBatch(w) \/ BatchDone(w)
          \/ FinishExecution(w) \/ FindCompletion(w) \/ AcquireCompletion(w)
          \/ LoadCompletion(w) \/ InvokeHandler(w) \/ AckCompletion(w)
          \/ Crash(w) \/ ExecutionStops(w)
          \/ \E s \in Steps :
                \/ PrepareFails(w, s) \/ AskPending(w, s) \/ AskDenied(w, s)
                \/ ConsumeReceipt(w, s) \/ AskRaises(w, s) \/ StepNotDispatched(w, s)
                \/ Dispatch(w, s) \/ HandlerRaises(w, s) \/ ValidateResult(w, s)
                \/ Succeed(w, s)

Spec == Init /\ [][Next]_vars

-----------------------------------------------------------------------------
\* A "never" step is dispatched at most once, whoever crashes, loses its claim
\* or takes the Plan over (replay_policy, step_recovered).
NeverStepOnce == \A s \in Never : ran[s] <= 1

\* Two steps with side effects are never under way together unless both
\* policies allow it, whatever the planner hinted.
SideEffectsInOrder ==
    \A a, b \in StatusIn(rec.st, {"running"}) \cap Never :
        a = b \/ {a, b} \subseteq ParallelOk

\* A Plan at rest whose completion is acknowledged has told the completion
\* handler about exactly this state, not about an earlier one.
AcknowledgedStateWasTold ==
    rec.env.gen > 0 /\ ~rec.pending /\ Phase(rec.st) \in Deliverable
        => rec.st.version \in told

=============================================================================
