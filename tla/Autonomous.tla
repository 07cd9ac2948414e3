----------------------------- MODULE Autonomous -----------------------------
(***************************************************************************)
(* One autonomous task of one Session: the Hosts that may open the Session *)
(* (harness/durable_agent_host.py, factory.py, session_runtime.py,         *)
(* startup_recovery.py), the runner that plans, executes, validates,       *)
(* corrects and answers (harness/autonomous.py, planning/closed_loop.py),  *)
(* and what they share: the Run's ledger, its Plans, the Conversation and  *)
(* the three kinds of lease (autonomous_durability.py).                    *)
(*                                                                         *)
(* A Host is a process: it crashes and comes back, and it may stall while  *)
(* its leases expire and go on afterwards.  A retry loop around a          *)
(* compare-and-swap is one step here: it loads, checks and appends against *)
(* the same head; one that is tried once and conflicts is left out.  A     *)
(* Plan is one step, safe to repeat or not; how a Plan of many steps runs  *)
(* is module PlanExecution.                                                *)
(***************************************************************************)
EXTENDS RunLedger, FiniteSets

CONSTANTS
    Hosts,          \* processes that can open the Session
    NoHost,
    MaxRounds,      \* max_correction_rounds
    MaxActions,     \* max_correction_actions
    MaxPlans,       \* bound: Plans the planner and the replanner make
    MaxFaults,      \* bound: crashes, and leases that expire under a live Host
    Deployments     \* the settings to check, as records of
                    \*   budget      the Run's ClosedLoopBudget: [Resources -> Nat]
                    \*   ticket      the most model calls the Usage Meter reserves for a stage
                    \*   mode        "submit": submit_task, "prompt": a routed prompt
                    \*   unsafe      whether a Plan may be unsafe to repeat: a subset of BOOLEAN
                    \*   gated       an unsafe Plan is a write, which requires an approval;
                    \*               otherwise it is a never-replay step that is not a write
                    \*   deadline    whether max_duration_seconds is set
                    \*   uncertain   whether another Operation of the Session sends a Write

VARIABLES
    dep,        \* the deployment
    run,        \* the Run, as its ledger decodes
    plans,      \* the Plans; a Plan's id is its index, a "draft" is known to its maker only
    conv,       \* the Conversation operation of the Run
    writer,     \* the Session Writer claim: the Host it names, or NoHost
    controller, \* the Run Controller claim: the Host it names, or NoHost
    hosts,      \* the locals of each Host
    uncertain,  \* the Write of another Operation: open while its outcome is not known;
                \* history: beside, the Hosts whose last inspection was before the Write
    late,       \* the wall-clock deadline has passed
    spent,      \* history: step attempts started and model attempts made
    faults

vars == <<dep, run, plans, conv, writer, controller, hosts, uncertain, late, spent, faults>>
env == <<dep, uncertain, late>>

ASSUME AutonomousAssumption ==
    /\ NoHost \notin Hosts
    /\ \A d \in Deployments : /\ d.budget \in [Resources -> Nat] /\ d.ticket \in Nat
                              /\ d.mode \in {"submit", "prompt"} /\ d.unsafe \subseteq BOOLEAN
                              /\ {d.gated, d.deadline, d.uncertain} \subseteq BOOLEAN
    /\ {MaxRounds, MaxActions, MaxPlans, MaxFaults} \subseteq Nat

\* The stages that run under the controller lease.
ControllerStages == {"result_validator", "replanner", "synthesizer"}

\* A Host that does nothing.  via is the call it serves: "prompt", "submit" or "startup".
Down == [pc |-> "down", via |-> "none", writes |-> FALSE, controls |-> FALSE, holds |-> FALSE,
         stage |-> "none", ticket |-> << >>, size |-> 0, calls |-> 0, outcome |-> "none", plan |-> 0, draft |-> 0, phase |-> "failed", round |-> 0,
         rounds |-> 0, actions |-> 0, status |-> NoStatus, text |-> NoStatus]
NoConversation == [phase |-> "none", shown |-> << >>, status |-> NoStatus, text |-> NoStatus]

Draft(unsafe) == [unsafe |-> unsafe, approved |-> FALSE, phase |-> "draft", attempts |-> 0,
                 lease |-> NoHost, generation |-> 0, pending |-> FALSE]

Init ==
    /\ dep \in Deployments
    /\ run = NoRun
    /\ plans = << >>
    /\ conv = NoConversation
    /\ writer = NoHost /\ controller = NoHost
    /\ hosts = [h \in Hosts |-> Down]
    /\ uncertain = [open |-> FALSE, beside |-> {}]
    /\ late = FALSE
    /\ spent = NoUsage
    /\ faults = 0

(* Leases: a claim is fenced by its generation, so a Host that crashed, or *)
(* whose claim expired, holds nothing even if it is named in the row.      *)
Writes(h) == hosts[h].writes /\ writer = h
Controls(h) == hosts[h].controls /\ controller = h
HoldsPlan(h) == hosts[h].holds /\ plans[hosts[h].plan].lease = h
\* _append_events and _assert_controller_current: only the controller's stages are fenced.
MayCharge(h) == hosts[h].stage \in ControllerStages => Controls(h)

At(h, pc) == hosts[h].pc = pc
Local(h, update) == hosts' = [hosts EXCEPT ![h] = update]
Go(h, pc) == Local(h, [hosts[h] EXCEPT !.pc = pc])
GoStage(h, stage) == Local(h, [hosts[h] EXCEPT !.pc = "reserve", !.stage = stage])
Append1(e) == run' = Apply(run, e, dep.budget)

\* A write or never-replay Plan: not safe to correct automatically.
Unsafe(p) == plans[p].unsafe
\* A write always requires an approval; a never-replay step that is no write may not.
Unapproved(p) == Unsafe(p) /\ dep.gated /\ ~plans[p].approved
Deliverable == {"completed", "failed", "waiting_approval", "manual_intervention"}
\* A Plan event and, when the Plan becomes deliverable, its next completion envelope.
Moved(plan, phase) ==
    IF phase \in Deliverable
    THEN [plan EXCEPT !.phase = phase, !.generation = @ + 1, !.pending = TRUE]
    ELSE [plan EXCEPT !.phase = phase]
Unleased(h, plan) == IF hosts[h].holds /\ plan.lease = h THEN [plan EXCEPT !.lease = NoHost] ELSE plan
ReleasePlan(h) ==
    plans' = IF HoldsPlan(h) THEN [plans EXCEPT ![hosts[h].plan] = Unleased(h, @)] ELSE plans

(* The end of one call of a Host ******************************************)
\* The call returns or raises: the controller claim is given up, memory of the call is gone.
Returned(h, pc) ==
    /\ controller' = IF Controls(h) THEN NoHost ELSE controller
    /\ Local(h, [Down EXCEPT !.pc = pc, !.writes = hosts[h].writes])

\* Startup recovery turns a raised error into a report that blocks the Host.
Raise(h) ==
    /\ Returned(h, IF hosts[h].via = "startup" THEN "blocked" ELSE "idle")
    /\ ReleasePlan(h)
    /\ UNCHANGED <<env, conv, writer, spent, faults>>

-----------------------------------------------------------------------------
(* Opening a Host: DurableHostFactory.create, startup recovery             *)

\* The Session is claimed; a Host that is recovered again forgets what it saw before.
Inspecting(h, update) ==
    /\ Local(h, update)
    /\ uncertain' = [open |-> uncertain.open, beside |-> uncertain.beside \ {h}]
    /\ UNCHANGED <<dep, late, run, plans, conv, controller, spent, faults>>

Open(h) ==
    /\ At(h, "down")
    /\ writer = NoHost
    /\ writer' = h
    /\ Inspecting(h, [Down EXCEPT !.pc = "inspect", !.writes = TRUE])

\* Recovery is run again on a blocked Host, its writer lease verified first.
RetryRecovery(h) ==
    /\ At(h, "blocked") /\ Writes(h)
    /\ Inspecting(h, [hosts[h] EXCEPT !.pc = "inspect"])
    /\ UNCHANGED writer

\* inspect_all: every Operation of the Session, out of one load of its events.
InspectAll(h) ==
    /\ At(h, "inspect")
    /\ Go(h, IF uncertain.open THEN "blocked" ELSE "recover")
    /\ UNCHANGED <<env, run, plans, conv, writer, controller, spent, faults>>

\* What recovery comes to once the Session is found safe: an unfinished task is resumed.
Resumption(h) ==
    IF conv.phase = "running" THEN [hosts[h] EXCEPT !.pc = "acquire", !.via = "startup"]
    ELSE [hosts[h] EXCEPT !.pc = "idle"]

\* Mutant: the Session was inspected a moment ago.
RecoverAllTrusting(h) ==
    /\ At(h, "recover")
    /\ Local(h, Resumption(h))
    /\ UNCHANGED <<env, run, plans, conv, writer, controller, spent, faults>>

\* recover_all inspects the Session once more before it resumes anything.
RecoverAll(h) ==
    /\ At(h, "recover")
    /\ Local(h, IF uncertain.open THEN [hosts[h] EXCEPT !.pc = "blocked"] ELSE Resumption(h))
    /\ UNCHANGED <<env, run, plans, conv, writer, controller, spent, faults>>

\* A Host that was found safe, or serves since.
Recovered(h) == hosts[h].pc \notin {"down", "inspect", "recover", "blocked"}

\* An approved Write of another Operation is stored as submitting.  The claim that fences it
\* is that of its approval: a Host that lost the Session may still begin it.
BeginWrite(h) ==
    /\ dep.uncertain /\ ~uncertain.open
    /\ Recovered(h) /\ hosts[h].via # "startup"
    /\ uncertain' = [open |-> TRUE, beside |-> {g \in Hosts : Recovered(g)}]
    /\ UNCHANGED <<dep, late, run, plans, conv, writer, controller, hosts, spent, faults>>

\* The outcome is known: from the sender, or from a reconciliation after a timeout, an error
\* or the sender's death left it unknown.
SettleWrite ==
    /\ uncertain.open
    /\ uncertain' = [open |-> FALSE, beside |-> {}]
    /\ UNCHANGED <<dep, late, run, plans, conv, writer, controller, hosts, spent, faults>>

-----------------------------------------------------------------------------
(* A task enters: a routed prompt, or submit_task under a request id *)

\* _prompt_impl: open_pre_route_admission.
Prompt(h) ==
    /\ At(h, "idle") /\ dep.mode = "prompt" /\ Writes(h)
    /\ ~run.exists
    /\ Append1(Initialized)
    /\ Local(h, [hosts[h] EXCEPT !.pc = "reserve", !.via = "prompt", !.stage = "router"])
    /\ UNCHANGED <<env, plans, conv, writer, controller, spent, faults>>

\* submit_task: a request that is bound already is resumed.
Submit(h) ==
    /\ At(h, "idle") /\ dep.mode = "submit" /\ Writes(h)
    /\ conv.phase # "completed"
    /\ Local(h, [hosts[h] EXCEPT !.pc = IF run.linked THEN "acquire" ELSE "prepare", !.via = "submit"])
    /\ UNCHANGED <<env, run, plans, conv, writer, controller, spent, faults>>

\* resume_autonomous_plan, called for an unfinished task.
Resume(h) ==
    /\ At(h, "idle") /\ dep.mode = "prompt" /\ Writes(h)
    /\ conv.phase = "running"
    /\ Local(h, [hosts[h] EXCEPT !.pc = "acquire", !.via = "submit"])
    /\ UNCHANGED <<env, run, plans, conv, writer, controller, spent, faults>>

\* prepare: open_admission is idempotent, and a Run that is bound has its Plan.
Prepare(h) ==
    /\ At(h, "prepare")
    /\ IF run.bound
       THEN /\ UNCHANGED run
            /\ Local(h, [hosts[h] EXCEPT !.pc = "bootstrap", !.draft = Head(run.plan_ids)])
       ELSE /\ run' = IF run.exists THEN run ELSE Apply(run, Initialized, dep.budget)
            /\ GoStage(h, "planner")
    /\ UNCHANGED <<env, plans, conv, writer, controller, spent, faults>>

-----------------------------------------------------------------------------
(* One model stage: _reserve_model_stage, _dispatch_reserved_model_callback,*)
(* _settle_model_stage around a callback                                    *)

Settled(h) == [hosts[h] EXCEPT !.stage = "none", !.ticket = << >>, !.size = 0, !.calls = 0,
                               !.outcome = "none"]
\* The closed loop ends with a status, and the answer is synthesized.
Concluded(h, status) ==
    [hosts[h] EXCEPT !.pc = "reserve", !.stage = "synthesizer", !.status = status,
                     !.ticket = << >>, !.size = 0, !.calls = 0, !.outcome = "none",
                     !.draft = 0, !.phase = "failed", !.round = 0, !.rounds = 0, !.actions = 0]
Conclude(h, status) == Local(h, Concluded(h, status))

\* A failed validation of an unsafe initial action needs a human.
GiveUp(h) == IF Unsafe(hosts[h].plan) THEN "manual_intervention" ELSE "failed"

CloseAdmission(r) == IF r.bound \/ Terminal(r) THEN r ELSE Apply(r, AdmissionClosed, dep.budget)

\* Mutant: a synthesizer without budget raises like the others.
StageFailsStranded(h, why, now) ==
    \/ /\ hosts[h].stage \in {"result_validator", "replanner"}
       /\ run' = now
       /\ Conclude(h, GiveUp(h))
       /\ UNCHANGED <<env, plans, conv, writer, controller, spent, faults>>
    \/ /\ hosts[h].stage \in {"router", "planner", "synthesizer"}
       /\ run' = now
       /\ Raise(h)

\* The exception of a stage in the ledger `now`; `why` is "budget", "lost" or "raised".
StageFails(h, why, now) ==
    \/ /\ hosts[h].stage = "router"
       /\ run' = CloseAdmission(now)
       /\ Raise(h)
    \/ /\ hosts[h].stage = "planner"
       /\ run' = IF hosts[h].via = "prompt" THEN CloseAdmission(now) ELSE now
       /\ Raise(h)
    \/ /\ hosts[h].stage \in {"result_validator", "replanner"}
       /\ run' = now
       /\ Conclude(h, GiveUp(h))
       /\ UNCHANGED <<env, plans, conv, writer, controller, spent, faults>>
    \* A depleted budget must not keep an executed Run from its answer.
    \/ /\ hosts[h].stage = "synthesizer" /\ why # "lost" /\ (why = "budget" \/ late)
       /\ run' = now
       /\ Local(h, [Settled(h) EXCEPT !.pc = "segment", !.text = "default"])
       /\ UNCHANGED <<env, plans, conv, writer, controller, spent, faults>>
    \/ /\ hosts[h].stage = "synthesizer" /\ why # "budget"
       /\ run' = now
       /\ Raise(h)

TicketId(r) == <<"model", CHOOSE n \in 1..(Cardinality(Reserved(r)) + 1) :
                             /\ <<"model", n>> \notin Reserved(r)
                             /\ \A m \in 1..(n - 1) : <<"model", m>> \in Reserved(r)>>

Reservable(h) == ~Terminal(run) /\ ~late /\ Remaining(run, dep.budget, "model_calls") >= 1

ReserveStage(h) ==
    /\ At(h, "reserve")
    /\ Reservable(h) /\ MayCharge(h)
    /\ \E k \in 1..dep.ticket :
          /\ k <= Remaining(run, dep.budget, "model_calls")
          /\ Append1(ResourceReserved(TicketId(run), Usage("model_calls", k)))
          /\ Local(h, [hosts[h] EXCEPT !.pc = "dispatch", !.ticket = TicketId(run), !.size = k])
    /\ UNCHANGED <<env, plans, conv, writer, controller, spent, faults>>

ReserveRefused(h) ==
    /\ At(h, "reserve")
    /\ \/ ~Reservable(h) /\ StageFails(h, "budget", run)
       \/ ~MayCharge(h) /\ StageFails(h, "lost", run)

\* The provider attempts of the callback, admitted one by one up to the ticket
\* (ModelAttemptAdmissionScope).  The usage of an attempt may stay unknown.
DispatchStage(h) ==
    /\ At(h, "dispatch")
    /\ ~(late /\ hosts[h].stage \in {"router", "planner"})
    /\ \E n \in 0..hosts[h].size, outcome \in {"returned", "raised", "unknown"} :
          /\ outcome = "unknown" => n > 0
          /\ spent' = [spent EXCEPT !["model_calls"] = @ + n]
          /\ faults' = IF outcome = "raised" /\ n = 0 THEN faults + 1 ELSE faults
          /\ faults' <= MaxFaults
          /\ Local(h, [hosts[h] EXCEPT !.pc = "settle", !.calls = n, !.outcome = outcome])
    /\ UNCHANGED <<env, run, plans, conv, writer, controller>>

\* The deadline passes before the Router or the Planner is called.  The Router's ticket is
\* released; the meter reports no usage for the Planner's, which settles nothing.
DispatchLate(h) ==
    /\ At(h, "dispatch") /\ late /\ hosts[h].stage \in {"router", "planner"}
    /\ Local(h, [hosts[h] EXCEPT !.pc = "settle", !.calls = 0,
                    !.outcome = IF hosts[h].stage = "planner" THEN "unknown" ELSE "raised"])
    /\ UNCHANGED <<env, run, plans, conv, writer, controller, spent, faults>>

\* Mutant: the meter is not checked against the attempts observed.
ActualUnchecked(h) == 0..hosts[h].size

\* What the Usage Meter may report for the ticket and the attempts observed.
Actual(h) == hosts[h].calls..hosts[h].size
\* Usage that is unknown, or a Run that ended meanwhile, keeps the reservation.
Settleable(h) == hosts[h].outcome # "unknown" /\ ~Terminal(run) /\ MayCharge(h)

\* The Router's ticket is released if it was never used; every other one is settled.
Settlement(h, actual) ==
    IF hosts[h].stage = "router" /\ hosts[h].calls = 0
    THEN ResourceReleased(hosts[h].ticket)
    ELSE ResourceSettled(hosts[h].ticket, Usage("model_calls", actual))

SettleFails(h) ==
    /\ At(h, "settle") /\ ~Settleable(h)
    /\ StageFails(h, IF hosts[h].outcome = "unknown" THEN "budget" ELSE IF MayCharge(h) THEN "raised" ELSE "lost", run)

SettleRaised(h) ==
    /\ At(h, "settle") /\ Settleable(h) /\ hosts[h].outcome = "raised"
    /\ \E actual \in Actual(h) :
          StageFails(h, "raised", Apply(run, Settlement(h, actual), dep.budget))

SettleStage(h) ==
    /\ At(h, "settle") /\ Settleable(h) /\ hosts[h].outcome = "returned"
    /\ \E actual \in Actual(h) : Append1(Settlement(h, actual))
    /\ Local(h, [Settled(h) EXCEPT !.pc = hosts[h].stage])
    /\ UNCHANGED <<env, plans, conv, writer, controller, spent, faults>>

-----------------------------------------------------------------------------
(* Route, plan, and publish the task *)

\* finish_route_admission: only a Plan decision keeps the admission open.
RouteDecided(h) ==
    /\ At(h, "router")
    /\ \/ /\ Go(h, "prepare")
          /\ UNCHANGED <<run, controller>>
       \/ /\ run' = CloseAdmission(run)
          /\ Returned(h, "idle")
    /\ UNCHANGED <<env, plans, conv, writer, spent, faults>>

\* The Planner answers, and the steps of its Plan are reserved before the Plan exists.
PlanMade(h) ==
    /\ At(h, "planner")
    /\ Len(plans) < MaxPlans
    /\ \E unsafe \in dep.unsafe : plans' = Append(plans, Draft(unsafe))
    /\ ~Terminal(run) /\ ~late /\ Remaining(run, dep.budget, "plan_steps") >= 1
    /\ Append1(ResourceReserved(<<"steps", Len(plans) + 1>>, Usage("plan_steps", 1)))
    /\ Local(h, [hosts[h] EXCEPT !.pc = "bootstrap", !.draft = Len(plans) + 1])
    /\ UNCHANGED <<env, conv, writer, controller, spent, faults>>

PlanRefused(h) ==
    /\ At(h, "planner")
    /\ Len(plans) = MaxPlans \/ Terminal(run) \/ late \/ Remaining(run, dep.budget, "plan_steps") < 1
    /\ run' = IF hosts[h].via = "prompt" THEN CloseAdmission(run) ELSE run
    /\ Raise(h)

\* AutonomousConversationProjector.bootstrap: Plan, Run and Conversation in one transaction,
\* fenced by the writer claim.  A conflict is a success only if all three agree already.
Bootstrap(h) ==
    /\ At(h, "bootstrap")
    /\ ~run.bound /\ ~late /\ Writes(h)
    /\ plans' = [plans EXCEPT ![hosts[h].draft].phase = "pending"]
    /\ run' = Published(run, hosts[h].draft, dep.budget)
    /\ conv' = [conv EXCEPT !.phase = "running"]
    /\ Local(h, [hosts[h] EXCEPT !.pc = "acquire", !.draft = 0])
    /\ UNCHANGED <<env, writer, controller, spent, faults>>

BootstrapAgain(h) ==
    /\ At(h, "bootstrap")
    /\ run.bound /\ Head(run.plan_ids) = hosts[h].draft
    /\ Local(h, [hosts[h] EXCEPT !.pc = "acquire", !.draft = 0])
    /\ UNCHANGED <<env, run, plans, conv, writer, controller, spent, faults>>

BootstrapFails(h) ==
    /\ At(h, "bootstrap")
    /\ IF run.bound THEN Head(run.plan_ids) # hosts[h].draft ELSE late \/ ~Writes(h)
    /\ UNCHANGED run
    /\ Raise(h)

-----------------------------------------------------------------------------
(* The Run Controller: resume and run_prepared up to the closed loop *)

\* Mutant: the answer of a finalized Run is rendered again.
RestoredRendered(h) == [hosts[h] EXCEPT !.pc = "project", !.status = run.status, !.text = "default"]

\* A Run that has its answer is restored, never executed again.
Restored(h) == [hosts[h] EXCEPT !.pc = "project", !.status = run.status, !.text = run.text]

\* The caller's snapshot of the Run, taken before the lease.
LoadRun(h) ==
    /\ At(h, "acquire")
    /\ hosts[h].via = "submit" => Writes(h)
    /\ run.status = NoStatus /\ ~late
    /\ Go(h, "claim")
    /\ UNCHANGED <<env, run, plans, conv, writer, controller, spent, faults>>

\* Another controller may have finalized the Run since.
AcquireController(h) ==
    /\ At(h, "claim")
    /\ controller = NoHost
    /\ controller' = h
    /\ Local(h, [hosts[h] EXCEPT !.pc = "reload", !.controls = TRUE])
    /\ UNCHANGED <<env, run, plans, conv, writer, spent, faults>>

RestoreAnswer(h) ==
    /\ At(h, "acquire")
    /\ hosts[h].via = "submit" => Writes(h)
    /\ run.status # NoStatus
    /\ Local(h, Restored(h))
    /\ UNCHANGED <<env, run, plans, conv, writer, controller, spent, faults>>

AcquireFails(h) ==
    /\ \/ /\ At(h, "acquire")
          /\ \/ hosts[h].via = "submit" /\ ~Writes(h)
             \/ run.status = NoStatus /\ late
       \/ At(h, "claim") /\ controller # NoHost
    /\ UNCHANGED run
    /\ Raise(h)

\* The Run and its latest Plan are loaded again under the lease.
Reload(h) ==
    /\ At(h, "reload") /\ Controls(h)
    /\ \/ /\ run.status # NoStatus
          /\ controller' = NoHost
          /\ Local(h, [Restored(h) EXCEPT !.controls = FALSE])
       \/ /\ run.status = NoStatus /\ ~late
          /\ Local(h, [hosts[h] EXCEPT !.pc = "action", !.plan = LatestPlan(run),
                          !.rounds = RoundsLeft(run, MaxRounds), !.actions = ActionsLeft(run, MaxActions)])
          /\ UNCHANGED controller
    /\ UNCHANGED <<env, run, plans, conv, writer, spent, faults>>

ReloadFails(h) ==
    /\ At(h, "reload")
    /\ ~Controls(h) \/ (run.status = NoStatus /\ late)
    /\ UNCHANGED run
    /\ Raise(h)

-----------------------------------------------------------------------------
(* ClosedLoopExecutor.run_action over a Plan: workflow.execute *)

\* Mutant: loop events are appended without the controller lease.
EmittedUnfenced(h, kind, round) == run' = Apply(run, LoopEvent(kind, round), dep.budget)

\* emit: an event the store refuses is dropped; the loop goes on.
Emitted(h, kind, round) ==
    run' = IF Controls(h) THEN Apply(run, LoopEvent(kind, round), dep.budget) ELSE run

StartAction(h) ==
    /\ At(h, "action")
    /\ Emitted(h, "action_started", hosts[h].round)
    /\ Go(h, "execute")
    /\ UNCHANGED <<env, plans, conv, writer, controller, spent, faults>>

\* The action executor raises.  A safe action's error is validated against the phase of
\* the last execution that returned; an unsafe one may have been dispatched.
ActionFails(h) ==
    /\ Local(h, [(IF Unsafe(hosts[h].plan) THEN Concluded(h, "manual_intervention")
                  ELSE [hosts[h] EXCEPT !.pc = "validate"]) EXCEPT !.holds = FALSE])
    /\ ReleasePlan(h)
    /\ UNCHANGED <<env, run, conv, writer, controller, faults>>

ActionReturns(h, phase) == [hosts[h] EXCEPT !.pc = "validate", !.phase = phase, !.holds = FALSE]

\* Another execution holds the Plan.
ExecuteConflicts(h) ==
    /\ At(h, "execute")
    /\ plans[hosts[h].plan].lease # NoHost
    /\ ActionFails(h)
    /\ UNCHANGED spent

\* What a Plan with nothing to dispatch returns: it has ended, was left with an unknown outcome,
\* or its request is pending or was denied.
Settles(p) ==
    IF plans[p].phase = "running" THEN IF Unsafe(p) THEN {"manual_intervention"} ELSE {}
    ELSE IF plans[p].phase \in {"pending", "waiting_approval"}
         THEN IF Unapproved(p) THEN {"waiting_approval", "failed"} ELSE {}
         ELSE {plans[p].phase} \cap Deliverable

ExecuteSettled(h) ==
    /\ At(h, "execute")
    /\ LET p == hosts[h].plan
       IN /\ plans[p].lease = NoHost
          /\ \E phase \in Settles(p) :
                /\ plans' = IF phase = plans[p].phase THEN plans ELSE [plans EXCEPT ![p] = Moved(@, phase)]
                /\ Local(h, ActionReturns(h, phase))
    /\ UNCHANGED <<env, run, conv, writer, controller, spent, faults>>

\* Mutant: a write found running is started again like a read.
ExecutePlanReplays(h) ==
    /\ At(h, "execute")
    /\ LET p == hosts[h].plan
       IN /\ plans[p].lease = NoHost
          /\ plans[p].phase \in {"pending", "waiting_approval", "running"} /\ ~Unapproved(p)
          /\ plans' = [plans EXCEPT ![p].lease = h]
    /\ Local(h, [hosts[h] EXCEPT !.pc = "step_reserve", !.holds = TRUE])
    /\ UNCHANGED <<env, run, conv, writer, controller, spent, faults>>

ExecutePlan(h) ==
    /\ At(h, "execute")
    /\ LET p == hosts[h].plan
       IN /\ plans[p].lease = NoHost
          /\ \/ plans[p].phase \in {"pending", "waiting_approval"} /\ ~Unapproved(p)
             \/ plans[p].phase = "running" /\ ~Unsafe(p)
          /\ plans' = [plans EXCEPT ![p].lease = h]
    /\ Local(h, [hosts[h] EXCEPT !.pc = "step_reserve", !.holds = TRUE])
    /\ UNCHANGED <<env, run, conv, writer, controller, spent, faults>>

\* reserve_step: an attempt that was reserved and never started keeps its reservation.
AttemptId(h) == <<"step", hosts[h].plan, plans[hosts[h].plan].attempts + 1>>
AttemptAdmitted(h) ==
    /\ Controls(h) /\ ~run.closed
    /\ AttemptId(h) \notin Reserved(run) =>
          run.status = NoStatus /\ ~late /\ Remaining(run, dep.budget, "step_attempts") >= 1

ReserveStep(h) ==
    /\ At(h, "step_reserve") /\ AttemptAdmitted(h)
    /\ run' = IF AttemptId(h) \in Reserved(run) THEN run
              ELSE Apply(run, ResourceReserved(AttemptId(h), Usage("step_attempts", 1)), dep.budget)
    /\ Go(h, "step_start")
    /\ UNCHANGED <<env, plans, conv, writer, controller, spent, faults>>

ReserveStepFails(h) ==
    /\ At(h, "step_reserve") /\ ~AttemptAdmitted(h)
    /\ ActionFails(h)
    /\ UNCHANGED spent

\* step_started is stored under the Plan's lease, then the step runs.
StartStep(h) ==
    /\ At(h, "step_start") /\ HoldsPlan(h)
    /\ plans' = [plans EXCEPT ![hosts[h].plan].phase = "running", ![hosts[h].plan].attempts = @ + 1]
    /\ spent' = [spent EXCEPT !["step_attempts"] = @ + 1]
    /\ Go(h, "step_end")
    /\ UNCHANGED <<env, run, conv, writer, controller, faults>>

\* The step of a write that fails without proof of no commit is an unknown outcome.
EndStep(h) ==
    /\ At(h, "step_end") /\ HoldsPlan(h)
    /\ \E phase \in {"completed", "failed"} \cup (IF Unsafe(hosts[h].plan) THEN {"manual_intervention"} ELSE {}) :
          /\ plans' = [plans EXCEPT ![hosts[h].plan] = Unleased(h, Moved(@, phase))]
          /\ Local(h, ActionReturns(h, phase))
    /\ UNCHANGED <<env, run, conv, writer, controller, spent, faults>>

StepLosesLease(h) ==
    /\ hosts[h].pc \in {"step_start", "step_end"} /\ ~HoldsPlan(h)
    /\ ActionFails(h)
    /\ UNCHANGED spent

-----------------------------------------------------------------------------
(* Validate, correct *)

Unchanged == UNCHANGED <<env, conv, writer, controller, spent, faults>>

\* A Plan that waits or is uncertain is not shown to the validator.
Validate(h) ==
    /\ At(h, "validate")
    /\ IF hosts[h].phase \in {"waiting_approval", "manual_intervention"}
       THEN Conclude(h, hosts[h].phase)
       ELSE GoStage(h, "result_validator")
    /\ UNCHANGED <<run, plans>> /\ Unchanged

\* A Plan that did not complete cannot be called valid: that is a validator error.
ResultValidated(h) ==
    /\ At(h, "result_validator")
    /\ \/ Conclude(h, IF hosts[h].phase = "completed" THEN "completed" ELSE GiveUp(h))
       \/ Conclude(h, "manual_intervention")
       \/ IF Unsafe(hosts[h].plan) \/ hosts[h].round >= hosts[h].rounds
          THEN Conclude(h, GiveUp(h))
          ELSE GoStage(h, "replanner")
    /\ UNCHANGED <<run, plans>> /\ Unchanged

NoCorrection(h) ==
    /\ At(h, "replanner")
    /\ Conclude(h, "failed")
    /\ UNCHANGED <<run, plans>> /\ Unchanged

\* correct: the new Plan's steps are reserved ...
ReserveCorrection(h) ==
    /\ At(h, "replanner") /\ Len(plans) < MaxPlans
    /\ Controls(h) /\ ~Terminal(run) /\ ~late /\ Remaining(run, dep.budget, "plan_steps") >= 1
    /\ \E unsafe \in dep.unsafe : plans' = Append(plans, Draft(unsafe))
    /\ Append1(ResourceReserved(<<"steps", Len(plans) + 1>>, Usage("plan_steps", 1)))
    /\ Local(h, [hosts[h] EXCEPT !.pc = "register", !.draft = Len(plans) + 1])
    /\ Unchanged

\* ... and register_plan_atomic publishes Plan and Run linkage together.
RegisterCorrection(h) ==
    /\ At(h, "register")
    /\ IF Controls(h) /\ run.dispatchable
       THEN /\ plans' = [plans EXCEPT ![hosts[h].draft].phase = "pending"]
            /\ Append1(PlanRegistered(hosts[h].draft))
            /\ Go(h, "registered")
       ELSE UNCHANGED <<run, plans>> /\ Conclude(h, "failed")
    /\ Unchanged

\* The closed loop's own boundary: no write, and one action of the budget.
CheckCorrection(h) ==
    /\ At(h, "registered")
    /\ IF Unsafe(hosts[h].draft)
       THEN UNCHANGED run /\ Conclude(h, "manual_intervention")
       ELSE IF hosts[h].actions - hosts[h].round < 1
            THEN UNCHANGED run /\ Conclude(h, "failed")
            ELSE /\ Emitted(h, "correction_planned", hosts[h].round + 1)
                 /\ Local(h, [hosts[h] EXCEPT !.pc = "action", !.round = @ + 1,
                                              !.plan = hosts[h].draft, !.draft = 0])
    /\ UNCHANGED plans /\ Unchanged

-----------------------------------------------------------------------------
(* Answer: synthesize, finish the segment, finalize, project, acknowledge *)

\* The model's wording; it differs from the deterministic "default" one.
Synthesized(h) ==
    /\ At(h, "synthesizer")
    /\ Local(h, [hosts[h] EXCEPT !.pc = "segment", !.text = "model"])
    /\ UNCHANGED <<run, plans>> /\ Unchanged

\* The controller's call ends with a result that the Host projects.
ToProjection(h) ==
    /\ controller' = IF Controls(h) THEN NoHost ELSE controller
    /\ Local(h, [hosts[h] EXCEPT !.pc = "project", !.controls = FALSE])
    /\ UNCHANGED <<env, plans, conv, writer, spent, faults>>

FinishSegment(h) ==
    /\ At(h, "segment") /\ Controls(h)
    /\ Append1(SegmentFinished)
    /\ IF hosts[h].status = "waiting_approval"
       THEN ToProjection(h)
       ELSE Go(h, "finalize") /\ UNCHANGED plans /\ Unchanged

FinalizeRun(h) ==
    /\ At(h, "finalize") /\ Controls(h)
    /\ run.status = NoStatus
    /\ Append1(Finalized(hosts[h].status, hosts[h].text))
    /\ ToProjection(h)

AnswerRefused(h) ==
    /\ hosts[h].pc \in {"segment", "finalize"} /\ ~Controls(h)
    /\ UNCHANGED run
    /\ Raise(h)

\* AutonomousConversationProjector.finalize: once, under the writer claim.
ProjectFinal(h) ==
    /\ At(h, "project") /\ hosts[h].status # "waiting_approval"
    /\ \/ /\ conv.phase = "running" /\ Writes(h)
          /\ conv' = [conv EXCEPT !.phase = "completed", !.status = hosts[h].status, !.text = hosts[h].text]
       \/ conv.phase = "completed" /\ conv.text = hosts[h].text /\ UNCHANGED conv
    /\ Go(h, "ack")
    /\ UNCHANGED <<env, run, plans, writer, controller, spent, faults>>

Generation(h) == plans[hosts[h].plan].generation

\* project_waiting: keyed by the generation of the Plan's completion when it is loaded.
ProjectWaiting(h) ==
    /\ At(h, "project") /\ hosts[h].status = "waiting_approval"
    /\ conv.phase = "running"
    /\ \/ /\ Generation(h) \notin DOMAIN conv.shown /\ Writes(h)
          /\ conv' = [conv EXCEPT !.shown = With(@, Generation(h), hosts[h].text)]
       \/ /\ Generation(h) \in DOMAIN conv.shown
          /\ conv.shown[Generation(h)] = hosts[h].text
          /\ UNCHANGED conv
    /\ Go(h, "ack")
    /\ UNCHANGED <<env, run, plans, writer, controller, spent, faults>>

\* The claim is lost, or the projection is there already with other words.
ProjectFails(h) ==
    /\ At(h, "project")
    /\ IF hosts[h].status # "waiting_approval"
       THEN IF conv.phase = "completed" THEN conv.text # hosts[h].text ELSE ~Writes(h)
       ELSE \/ conv.phase # "running"
            \/ IF Generation(h) \in DOMAIN conv.shown THEN conv.shown[Generation(h)] # hosts[h].text
               ELSE ~Writes(h)
    /\ UNCHANGED run
    /\ Raise(h)

\* acknowledge_run_completions: every envelope that is pending now.
Acknowledge(h) ==
    /\ At(h, "ack")
    /\ plans' = [p \in DOMAIN plans |->
                    IF p \in ToSet(run.plan_ids) THEN [plans[p] EXCEPT !.pending = FALSE] ELSE plans[p]]
    /\ Returned(h, "idle")
    /\ UNCHANGED <<env, run, conv, writer, spent, faults>>

-----------------------------------------------------------------------------
(* Time, failures, and the people around the Run *)

InLoop(h) ==
    \/ hosts[h].pc \in {"action", "execute", "step_reserve", "step_start", "step_end", "validate",
                        "result_validator", "replanner", "register", "registered"}
    \/ hosts[h].stage \in {"result_validator", "replanner"}

\* asyncio.timeout around the closed loop.
Timeout(h) ==
    /\ InLoop(h) /\ late
    /\ UNCHANGED run
    /\ Raise(h)

\* The heartbeat finds the controller lease lost and cancels the closed loop.
NoticeLostController(h) ==
    /\ hosts[h].controls /\ controller # h
    /\ UNCHANGED run
    /\ Raise(h)

Deadline ==
    /\ dep.deadline /\ run.exists /\ ~late
    /\ late' = TRUE
    /\ UNCHANGED <<dep, uncertain, run, plans, conv, writer, controller, hosts, spent, faults>>

Approve(p) ==
    /\ plans[p].phase = "waiting_approval" /\ Unapproved(p)
    /\ plans' = [plans EXCEPT ![p].approved = TRUE]
    /\ UNCHANGED <<env, run, conv, writer, controller, hosts, spent, faults>>

\* The process dies; the rows of its claims stay, and a Write it was sending stays open.
Crash(h) ==
    /\ ~At(h, "down") /\ faults < MaxFaults
    /\ faults' = faults + 1
    /\ Local(h, Down)
    /\ UNCHANGED <<env, run, plans, conv, writer, controller, spent>>

\* DurableHostLifecycle.close cancels what runs and releases the writer claim.
\* A Host that lost the claim is of no more use and is closed in any case.
Close(h) ==
    /\ ~At(h, "down")
    /\ IF hosts[h].pc \in {"idle", "blocked"} /\ ~Writes(h)
       THEN UNCHANGED faults
       ELSE faults < MaxFaults /\ faults' = faults + 1
    /\ ReleasePlan(h)
    /\ controller' = IF Controls(h) THEN NoHost ELSE controller
    /\ writer' = IF Writes(h) THEN NoHost ELSE writer
    /\ Local(h, Down)
    /\ UNCHANGED <<env, run, conv, spent>>

\* A Host that stalls loses every claim it holds, and goes on where it was.
Stall(h) ==
    /\ Writes(h) /\ faults < MaxFaults
    /\ faults' = faults + 1
    /\ writer' = NoHost
    /\ controller' = IF Controls(h) THEN NoHost ELSE controller
    /\ ReleasePlan(h)
    /\ UNCHANGED <<env, run, conv, hosts, spent>>

\* A claim whose holder is gone expires.
ExpireWriter ==
    /\ writer # NoHost /\ ~Writes(writer)
    /\ writer' = NoHost
    /\ UNCHANGED <<env, run, plans, conv, controller, hosts, spent, faults>>

ExpireController ==
    /\ controller # NoHost /\ ~Controls(controller)
    /\ controller' = NoHost
    /\ UNCHANGED <<env, run, plans, conv, writer, hosts, spent, faults>>

ExpirePlan(p) ==
    /\ LET h == plans[p].lease IN h # NoHost /\ ~(hosts[h].holds /\ hosts[h].plan = p)
    /\ plans' = [plans EXCEPT ![p].lease = NoHost]
    /\ UNCHANGED <<env, run, conv, writer, controller, hosts, spent, faults>>

ModelStage(h) ==
    \/ ReserveStage(h) \/ ReserveRefused(h) \/ DispatchStage(h) \/ DispatchLate(h)
    \/ SettleFails(h) \/ SettleRaised(h) \/ SettleStage(h)

Publish(h) ==
    \/ RouteDecided(h) \/ PlanMade(h) \/ PlanRefused(h)
    \/ Bootstrap(h) \/ BootstrapAgain(h) \/ BootstrapFails(h)

Control(h) ==
    \/ LoadRun(h) \/ AcquireController(h) \/ RestoreAnswer(h) \/ AcquireFails(h) \/ Reload(h) \/ ReloadFails(h)
    \/ StartAction(h) \/ ExecuteConflicts(h) \/ ExecuteSettled(h) \/ ExecutePlan(h)
    \/ ReserveStep(h) \/ ReserveStepFails(h) \/ StartStep(h) \/ EndStep(h) \/ StepLosesLease(h)
    \/ Validate(h) \/ ResultValidated(h)
    \/ NoCorrection(h) \/ ReserveCorrection(h) \/ RegisterCorrection(h) \/ CheckCorrection(h)

Answer(h) ==
    \/ Synthesized(h) \/ FinishSegment(h) \/ FinalizeRun(h) \/ AnswerRefused(h)
    \/ ProjectFinal(h) \/ ProjectWaiting(h) \/ ProjectFails(h) \/ Acknowledge(h)

\* What a live Host does next, the redelivery of the task and a new recovery included.
HostStep(h) ==
    \/ RetryRecovery(h) \/ InspectAll(h) \/ RecoverAll(h) \/ Submit(h) \/ Resume(h) \/ Prepare(h)
    \/ ModelStage(h) \/ Publish(h) \/ Control(h) \/ Answer(h)

Environment ==
    \/ SettleWrite \/ Deadline \/ ExpireWriter \/ ExpireController
    \/ \E p \in DOMAIN plans : Approve(p) \/ ExpirePlan(p)

Next ==
    \/ \E h \in Hosts : \/ Open(h) \/ Prompt(h) \/ HostStep(h) \/ BeginWrite(h)
                        \/ Timeout(h) \/ NoticeLostController(h) \/ Crash(h) \/ Stall(h) \/ Close(h)
    \/ Environment

\* A Host goes on, a stopped one is opened again, one without the claim is closed, a claim
\* nobody renews expires, and a Write of another Operation is settled.
Fairness ==
    /\ \A h \in Hosts : /\ WF_vars(HostStep(h)) /\ WF_vars(Open(h))
                        /\ WF_vars(Close(h) /\ UNCHANGED faults)
    /\ WF_vars(ExpireWriter) /\ WF_vars(ExpireController) /\ WF_vars(SettleWrite)

Spec == Init /\ [][Next]_vars /\ Fairness

-----------------------------------------------------------------------------
(* Properties *)

\* Every model attempt and every step attempt the Run's controllers ever made is charged: what
\* was spent stays within the ledger's usage, and the usage within the budget, through crashes,
\* stalled Hosts, unknown usage and settlements that fail (reserve_resources, settle_resources).
LedgerCovers ==
    /\ AtMost(spent, ResourceUsage(run))
    /\ AtMost(ResourceUsage(run), dep.budget)

\* No interleaving appends an event that makes the Run unreadable, and Conversation, Run and
\* Plan appear together: a published Plan is in a linked Run with a Conversation
\* (_decode, bootstrap, register_plan_atomic).
LedgerReplays ==
    /\ run.ok
    /\ run.linked = run.dispatchable
    /\ (conv.phase # "none") = run.linked
    /\ \A p \in DOMAIN plans : (plans[p].phase # "draft") = (p \in ToSet(run.plan_ids))

\* The answer the Conversation shows is the one the Run was finalized with, whichever Host
\* finalized and whichever one projects (AutonomousConversationProjector.finalize, resume).
AnswerIsLedgers ==
    conv.phase = "completed" => run.status # NoStatus /\ conv.text = run.text /\ conv.status = run.status

\* A Run is finalized as completed only if one of its Plans did (_autonomous_status).
CompletedHasPlan == run.status = "completed" => \E p \in DOMAIN plans : plans[p].phase = "completed"

\* The task's answer is one and true: crashes, stale controllers and reopened Hosts neither
\* change it nor have it worded again, and "completed" is said of a Plan that completed.
AnswerIsTrue == AnswerIsLedgers /\ CompletedHasPlan

\* A write or never-replay Plan is dispatched at most once, whoever resumes the Run (resume, execute_action).
WritesOnce == \A p \in DOMAIN plans : Unsafe(p) => plans[p].attempts <= 1

\* A Host that serves or resumes beside a Write of unknown outcome saw the Session before that
\* Write began: a Write that was left open, or begun by a Host that lost the Session while this
\* one inspected it, holds up its recovery (inspect_all, recover_all).  A Host that was recovered
\* before goes on, its own Write unknown or not: only the startup report is asked.
StartupBarrier ==
    uncertain.open => \A h \in Hosts : Recovered(h) => h \in uncertain.beside

\* "Corrections are accepted only after ... the closed-loop safety boundary agree that every
\* automatically repeated action is read-only and replay-safe" (harness/autonomous.py): a
\* never-replay Plan that nobody approves runs only as the Run's first one.
NoUnsafeCorrection ==
    \A p \in DOMAIN plans :
        Unsafe(p) /\ ~plans[p].approved /\ plans[p].attempts > 0 => p = Head(run.plan_ids)

\* Without a deadline, a task that was accepted gets its answer or waits for an approval:
\* no budget, crash, lost lease or failing callback strands it (submit_task, resume).
RunSettles ==
    (conv.phase = "running" /\ ~dep.deadline)
        ~> (conv.phase = "completed" \/ \E p \in DOMAIN plans : Unapproved(p) /\ plans[p].phase = "waiting_approval")
=============================================================================
