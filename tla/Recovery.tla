------------------------------ MODULE Recovery ------------------------------
(***************************************************************************)
(* Recovery of an Operation whose process died: the planner and the fenced *)
(* executor of session/resume.py, with the write reconciliation callback   *)
(* of harness/recovery.py, which calls the Write service.                  *)
(*                                                                         *)
(* The log a recovery worker finds is any prefix of what a run of the host *)
(* appends (Runs).  The worker takes the operation_recovery lease, plans   *)
(* from the log, carries the plan out and plans again.  Its lease may run  *)
(* out while it works and another worker may take over; an approver may    *)
(* still decide about a waiting Approval.                                  *)
(*                                                                         *)
(* _commit_specs loads, replays and appends with compare and set and the   *)
(* lease, and loads again on a conflict: its effect is that of one step    *)
(* (Commit).  The plan it carries out was made in an earlier step and may  *)
(* be stale.  consume_approval and resume_write have no callback in        *)
(* build_recovery_callbacks, so such a plan ends the attempt.              *)
(***************************************************************************)
EXTENDS WriteService

CONSTANTS
    RunKinds,       \* the kinds of host run whose logs are recovered
    MaxRecoveries   \* bound on the generations of the operation_recovery claim

ASSUME RecoveryAssumption ==
    /\ RunKinds \subseteq {"tool", "tool_write", "guarded", "direct"}
    /\ MaxRecoveries \in Nat

VARIABLES
    rclaim,         \* the operation_recovery claim row
    rec,            \* the recovery attempt each worker is in
    toolRuns        \* how often the tool of the call was executed

rvars == <<svars, rclaim, rec, toolRuns>>

-----------------------------------------------------------------------------
\* The planner.
WriteAction(o) ==
    CASE o.write.state \in {"submitting", "outcome_unknown", "reconciling"} -> "reconcile_write"
      [] o.write.state = "waiting_approval" ->
            CASE o.approval.state = "none" -> "manual_intervention"
              [] o.approval.state = "waiting" -> "wait_for_approval"
              [] o.approval.state = "approved" -> "consume_approval"
              [] o.approval.state \in {"consumed", "resume_started"} -> "resume_approved_write"
              [] o.approval.state \in {"rejected", "expired", "resume_cancelled"} ->
                    "finalize_rejected_approval"
              [] OTHER -> "manual_intervention"
      [] o.write.state \in {"prepared", "approved"} -> "resume_approved_write"
      [] OTHER -> "none"

ApprovalAction(o) ==
    CASE o.approval.resume = "unregistered" /\ o.approval.state = "consumed" -> "none"
      [] o.approval.state = "waiting" -> "wait_for_approval"
      [] o.approval.state = "approved" -> "consume_approval"
      [] o.approval.state \in {"consumed", "resume_started"} -> "resume_approved_write"
      [] o.approval.state \in {"rejected", "expired"} -> "finalize_rejected_approval"
      [] o.approval.state = "resume_failed" -> "manual_intervention"
      [] OTHER -> "none"

\* Mutant: a dispatched tool is run again whatever its replay policy.
ToolActionReplays(o) ==
    CASE o.tool.phase = "completed" -> "materialize_tool_result"
      [] o.tool.phase = "outcome_unknown" -> "reconcile_tool"
      [] o.tool.phase = "intent_recorded" -> "execute_tool"
      [] o.tool.phase = "dispatch_started" -> "replay_safe_tool"
      [] OTHER -> "manual_intervention"

ToolAction(o) ==
    CASE o.tool.phase = "completed" -> "materialize_tool_result"
      [] o.tool.phase = "outcome_unknown" -> "reconcile_tool"
      [] o.tool.phase = "intent_recorded" -> "execute_tool"
      [] o.tool.phase = "dispatch_started" ->
            IF o.tool.safe THEN "replay_safe_tool" ELSE "reconcile_tool"
      [] OTHER -> "manual_intervention"

\* OperationRecoveryPlanner.plan.  A chain has one action at a time.
Plan(o) ==
    CASE o.phase \in Terminal -> "none"
      [] o.phase \notin Terminal /\ WriteAction(o) # "none" -> WriteAction(o)
      [] o.phase \notin Terminal /\ WriteAction(o) = "none" /\ ApprovalAction(o) # "none" ->
            ApprovalAction(o)
      [] OTHER ->
            CASE o.requests > 0 -> "retry_model_request"
              [] o.requests = 0 /\ o.transcript = "error" -> "manual_intervention"
              [] o.requests = 0 /\ o.transcript = "call" -> ToolAction(o)
              [] o.requests = 0 /\ o.transcript \in {"user", "answered", "broken"} ->
                    "continue_model"
              [] o.requests = 0 /\ o.transcript = "final" -> "finish_operation"

Unattended == {"none", "manual_intervention", "wait_for_approval", "consume_approval",
               "resume_approved_write"}

-----------------------------------------------------------------------------
\* The batches the executor commits.
ResultMessage == MessageEvent("message_appended", "toolResult")

RequestSpecs(kind) ==
    (IF kind = "retry_model_request" THEN <<Event("model_request_failed")>> ELSE << >>)
        \o <<Event("model_request_started")>>

\* _finalize_rejected_approval: what is still missing of the closed chain.
FinalizeSpecs(o) ==
    (IF o.tool.phase = "none" THEN <<ToolIntent(FALSE)>> ELSE << >>) \o
    (IF o.tool.phase # "completed"
     THEN <<ToolResultEvent("tool_completed", "error", 0)>> ELSE << >>) \o
    (IF o.transcript = "call" THEN <<ResultMessage>> ELSE << >>) \o
    (IF o.approval.state \in {"rejected", "expired"}
     THEN <<Event("approval_resume_cancelled")>> ELSE << >>) \o
    (IF o.write.state = "waiting_approval" THEN <<WriteFailed(TRUE, 0)>> ELSE << >>)

\* The first batch of a plan; reconcile_write appends through the service.
FirstSpecs(o, kind, token) ==
    CASE kind \in {"retry_model_request", "continue_model"} -> RequestSpecs(kind)
      [] kind \in {"execute_tool", "replay_safe_tool"} -> <<Event("tool_dispatch_started")>>
      [] kind = "reconcile_tool" -> <<FencedEvent("tool_reconcile_started", token)>>
      [] kind = "materialize_tool_result" -> <<ResultMessage>>
      [] kind = "finalize_rejected_approval" -> FinalizeSpecs(o)
      [] kind = "finish_operation" -> <<OperationFinished("completed")>>

-----------------------------------------------------------------------------
\* What a host appends: the batches of a run, in order.
ModelCall(safe) == << <<Event("model_request_started")>>,
                      <<MessageEvent("model_request_completed", "call")>>,
                      <<ToolIntent(safe)>> >>
Answer == << <<Event("model_request_started")>>,
             <<MessageEvent("model_request_completed", "final")>> >>
FinalAnswer == Answer \o << <<OperationFinished("completed")>> >>

\* The recorder appends the result of a tool together with its message, or,
\* for a loop that does not pass the message along, in two batches.
ToolEnded(result) ==
    ToolResultEvent(IF result = "unknown" THEN "tool_outcome_unknown" ELSE "tool_completed",
                    result, 0)
ToolEnd(result) == << <<ToolEnded(result), ResultMessage>> >>
SplitToolEnd(result) == << <<ToolEnded(result)>>, <<ResultMessage>> >>

ToolRun(safe, end) ==
    ModelCall(safe) \o << <<Event("tool_dispatch_started")>> >> \o end \o FinalAnswer

WriteEnd(result) ==
    CASE result = "ok" -> <<FencedEvent("write_succeeded", 0)>>
      [] result = "error" -> <<WriteFailed(FALSE, 0)>>
      [] result = "unknown" -> <<Event("write_outcome_unknown")>>

\* A tool whose handler prepares and executes a Write without an Approval.
ToolWriteRun(safe, result) ==
    ModelCall(safe) \o
    << <<Event("tool_dispatch_started")>>,
       PrepareSpecs(FALSE, TRUE), <<Event("write_submitting")>>, WriteEnd(result) >> \o
    ToolEnd(result) \o FinalAnswer

\* ApprovalResumeGateway.request: the assistant's call and all that depends on
\* it are one batch; its tool is never replayed.
GuardedRequest ==
    << MessageEvent("message_appended", "call"), WritePrepared(TRUE), Event("approval_requested"),
       Event("approval_resume_registered"), Event("write_waiting_approval"), ToolIntent(FALSE) >>

\* approve_and_resume.  An unknown outcome leaves the resume open.  After
\* another failure the result of the tool is stored under a lease that the
\* gateway has released, which the store refuses.
GuardedEnd(result) ==
    CASE result = "ok" -> ToolEnd("ok") \o Answer \o
            << <<FencedEvent("approval_resume_completed", 1)>>, <<OperationFinished("completed")>> >>
      [] result = "error" -> << <<FencedEvent("approval_resume_failed", 1)>> >>
      [] result = "unknown" -> << >>

\* The Write succeeded and the last Model Request failed.
GuardedModelFails ==
    ToolEnd("ok") \o << <<Event("model_request_started")>>, <<Event("model_request_failed")>>,
                       <<FencedEvent("approval_resume_failed", 1)>> >>

GuardedRun(result, end) ==
    << GuardedRequest, <<Event("approval_granted")>>,
       <<Event("approval_consumed"), FencedEvent("approval_resume_started", 1),
         Event("write_approved"), Event("tool_dispatch_started"), Event("write_submitting")>>,
       WriteEnd(result) >> \o end

\* reject_and_finish.
GuardedRejection ==
    << GuardedRequest, <<Event("approval_rejected")>>,
       <<WriteFailed(TRUE, 0), ToolResultEvent("tool_completed", "error", 0), ResultMessage>>,
       <<OperationFinished("cancelled")>> >>

\* An approved Write that no tool call is bound to.
DirectWriteRun ==
    << PrepareSpecs(TRUE, FALSE), <<Event("approval_granted")>>,
       <<Event("approval_consumed"), Event("write_approved"), Event("write_submitting")>>,
       WriteEnd("ok") >> \o FinalAnswer

Results == {"ok", "error", "unknown"}

Runs(kind) ==
    CASE kind = "tool" -> {ToolRun(safe, ToolEnd(r)) : safe \in BOOLEAN, r \in Results} \cup
                          {ToolRun(safe, SplitToolEnd(r)) : safe \in BOOLEAN, r \in Results}
      [] kind = "tool_write" -> {ToolWriteRun(safe, r) : safe \in BOOLEAN, r \in Results}
      [] kind = "guarded" -> {GuardedRun(r, GuardedEnd(r)) : r \in Results} \cup
                             {GuardedRun("ok", GuardedModelFails), GuardedRejection,
                              << GuardedRequest, <<Event("approval_expired")>> >>}
      [] kind = "direct" -> {DirectWriteRun}

\* The Operation after the first n batches of a run.
Prefix(run, n) ==
    LET after[i \in 0..n] ==
            IF i = 0 THEN StartedOperation ELSE ReplayWithSpecs(after[i - 1], run[i])
    IN  after[n]

\* The crash states: the log ends after any batch the reducer accepted.
CrashStates ==
    {o \in UNION {{Prefix(run, n) : n \in 0..Len(run)} : run \in UNION {Runs(k) : k \in RunKinds}} :
        o.phase # "rejected"}

\* What the external system may be in when the process died.
EffectsAt(o) ==
    LET none == [sent |-> 0, inflight |-> 0, applied |-> 0]
        inflight == [sent |-> 1, inflight |-> 1, applied |-> 0]
        applied == [sent |-> 1, inflight |-> 0, applied |-> 1]
        dropped == [sent |-> 1, inflight |-> 0, applied |-> 0]
    IN  CASE o.write.state = "submitting" -> {none, inflight, applied, dropped}
          [] o.write.state = "outcome_unknown" -> {inflight, applied, dropped}
          [] o.write.state = "succeeded" -> {applied}
          [] o.write.state = "failed" -> {IF o.approval.state = "rejected" THEN none ELSE dropped}
          [] OTHER -> {none}

ToolRunsAt(o) ==
    CASE o.tool.phase \in {"none", "intent_recorded"} -> {0}
      [] o.tool.phase = "dispatch_started" -> {0, 1}
      [] OTHER -> {1}

RIdle == [pc |-> "idle", kind |-> "none", gen |-> 0, result |-> "none"]

RInit ==
    /\ op \in CrashStates
    /\ effect \in EffectsAt(op)
    /\ toolRuns \in ToolRunsAt(op)
    /\ ver = 1
    /\ late = FALSE
    /\ claim = AbsentRow
    /\ rclaim = AbsentRow
    /\ call = [w \in Workers |-> Idle]
    /\ rec = [w \in Workers |-> RIdle]

RTypeOK ==
    /\ TypeOK
    /\ rclaim \in [owner : Workers \cup {NoOwner}, expires : {0, 1}, gen : 0..(2 * MaxRecoveries)]
    /\ DOMAIN rec = Workers
    /\ \A w \in Workers :
          /\ rec[w].pc \in {"idle", "plan", "act", "model", "answered", "tool", "check", "store",
                            "write", "writing", "release"}
          /\ rec[w].gen \in 0..rclaim.gen
          /\ rec[w].result \in ToolResults \cup Transcripts \cup {"failed"}
    /\ toolRuns \in Nat

-----------------------------------------------------------------------------
RGoto(w, pc) == [rec EXCEPT ![w].pc = pc]
HoldsRecovery(w) == LeaseCurrent(rclaim, w, rec[w].gen, 0)

\* Mutant: the lease is not compared.
CommitUnfenced(w, specs, next) ==
    /\ IF ReplayWithSpecs(op, specs) # Rejected
       THEN op' = ReplayWithSpecs(op, specs) /\ ver' = ver + Len(specs) /\ rec' = next
       ELSE UNCHANGED <<op, ver>> /\ rec' = RGoto(w, "release")
    /\ UNCHANGED <<late, claim, call, effect, rclaim, toolRuns>>

\* _commit_specs: a lost lease and a rejected batch raise, and the attempt
\* ends in the finally clause of resume.
Commit(w, specs, next) ==
    /\ IF HoldsRecovery(w) /\ ReplayWithSpecs(op, specs) # Rejected
       THEN /\ op' = ReplayWithSpecs(op, specs)
            /\ ver' = ver + Len(specs)
            /\ rec' = next
       ELSE /\ UNCHANGED <<op, ver>>
            /\ rec' = RGoto(w, "release")
    /\ UNCHANGED <<late, claim, call, effect, rclaim, toolRuns>>

\* resume: take the lease, or report that the Operation is being recovered.
StartRecovery(w) ==
    /\ rec[w].pc = "idle" /\ call[w].pc = "idle"
    /\ ~Held(rclaim, 0)
    /\ rclaim.gen < MaxRecoveries
    /\ rclaim' = AcquiredRow(rclaim, w, 0, 1)
    /\ rec' = [rec EXCEPT ![w] = [RIdle EXCEPT !.pc = "plan", !.gen = rclaim.gen + 1]]
    /\ UNCHANGED <<svars, toolRuns>>

PlanNext(w) ==
    /\ rec[w].pc = "plan"
    /\ rec' = [rec EXCEPT ![w].kind = Plan(op),
                          ![w].pc = IF Plan(op) \in Unattended THEN "release" ELSE "act"]
    /\ UNCHANGED <<svars, rclaim, toolRuns>>

\* Where the executor goes on after the first batch of a plan.
AfterFirst(kind) ==
    CASE kind \in {"retry_model_request", "continue_model"} -> "model"
      [] kind \in {"execute_tool", "replay_safe_tool"} -> "tool"
      [] kind = "reconcile_tool" -> "check"
      [] OTHER -> "plan"

Act(w) ==
    /\ rec[w].pc = "act" /\ rec[w].kind # "reconcile_write"
    /\ Commit(w, FirstSpecs(op, rec[w].kind, rec[w].gen), RGoto(w, AfterFirst(rec[w].kind)))

\* _assert_claim before and after the write callback.
ActOnWrite(w) ==
    /\ rec[w].pc = "act" /\ rec[w].kind = "reconcile_write"
    /\ rec' = RGoto(w, IF HoldsRecovery(w) THEN "write" ELSE "release")
    /\ UNCHANGED <<svars, rclaim, toolRuns>>

CallReconcile(w) ==
    /\ rec[w].pc = "write"
    /\ ReadForReconcile(w)
    /\ rec' = RGoto(w, "writing")
    /\ UNCHANGED <<rclaim, toolRuns>>

\* write_not_uncertain: reconcile takes its lease, raises and releases it.
ReconcileRefused(w) ==
    /\ rec[w].pc = "write"
    /\ op.write.state \notin {"outcome_unknown", "reconciling"}
    /\ \/ Held(claim, 0) /\ UNCHANGED claim
       \/ ~Held(claim, 0) /\ claim.gen < MaxGen /\ claim' = ReleasedRow(AcquiredRow(claim, w, 0, 1))
    /\ rec' = RGoto(w, "release")
    /\ UNCHANGED <<op, ver, late, call, effect, rclaim, toolRuns>>

\* The service call returns, or raises out of the attempt.
ReconcileReturns(w) ==
    /\ rec[w].pc = "writing" /\ call[w].pc = "idle"
    /\ \/ HoldsRecovery(w) /\ rec' = RGoto(w, "plan")
       \/ rec' = RGoto(w, "release")
    /\ UNCHANGED <<svars, rclaim, toolRuns>>

\* The model answers (with a tool call only where the request policy shows
\* tools), or the callback or the validation of the answer raises.
ModelAnswers(w) ==
    /\ rec[w].pc = "model"
    /\ \E m \in {"final", "failed"} \cup (IF op.transcript = "user" THEN {"call"} ELSE {}) :
          rec' = [rec EXCEPT ![w].pc = "answered", ![w].result = m]
    /\ UNCHANGED <<svars, rclaim, toolRuns>>

StoreAnswer(w) ==
    /\ rec[w].pc = "answered"
    /\ IF rec[w].result = "failed"
       THEN Commit(w, <<Event("model_request_failed")>>, RGoto(w, "release"))
       ELSE Commit(w, <<MessageEvent("model_request_completed", rec[w].result)>>, RGoto(w, "plan"))

\* The tool runs: it returns a result or its callback raises.
ExecuteTool(w) ==
    /\ rec[w].pc = "tool"
    /\ toolRuns' = toolRuns + 1
    /\ \/ \E r \in Results : rec' = [rec EXCEPT ![w].pc = "store", ![w].result = r]
       \/ rec' = RGoto(w, "release")
    /\ UNCHANGED <<svars, rclaim>>

CheckTool(w) ==
    /\ rec[w].pc = "check"
    /\ \/ \E r \in Results : rec' = [rec EXCEPT ![w].pc = "store", ![w].result = r]
       \/ rec' = RGoto(w, "release")
    /\ UNCHANGED <<svars, rclaim, toolRuns>>

\* _store_tool_result: the result event and its message in one batch.
StoreResult(w) ==
    /\ rec[w].pc = "store"
    /\ LET type == IF rec[w].kind = "reconcile_tool" THEN "tool_reconciled" ELSE "tool_completed"
       IN  Commit(w, <<ToolResultEvent(type, rec[w].result, rec[w].gen), ResultMessage>>,
                  RGoto(w, "plan"))

ReleaseRecovery(w) ==
    /\ rec[w].pc = "release"
    /\ rclaim' = IF Names(rclaim, w, rec[w].gen) THEN ReleasedRow(rclaim) ELSE rclaim
    /\ rec' = [rec EXCEPT ![w] = RIdle]
    /\ UNCHANGED <<svars, toolRuns>>

\* The task is cancelled, or the store raises or gives up on its conflicts.
RecoveryCancelled(w) ==
    /\ rec[w].pc \in {"plan", "act", "model", "answered", "store", "write"}
    /\ rec' = RGoto(w, "release")
    /\ UNCHANGED <<svars, rclaim, toolRuns>>

\* The worker dies; its leases run on.
CrashRecovery(w) ==
    /\ rec[w].pc # "idle"
    /\ rec' = [rec EXCEPT ![w] = RIdle]
    /\ call' = [call EXCEPT ![w] = Idle]
    /\ UNCHANGED <<op, ver, late, claim, effect, rclaim, toolRuns>>

RecoveryLapses ==
    /\ Held(rclaim, 0)
    /\ rclaim' = [rclaim EXCEPT !.expires = 0]
    /\ UNCHANGED <<svars, rec, toolRuns>>

\* A worker outside recovery decides about the Approval; a worker in the
\* write callback runs the steps of reconcile.
ServiceStep(w) ==
    /\ \/ rec[w].pc = "idle" /\ (BeginGrant(w) \/ BeginReject(w) \/ BeginExpire(w))
       \/ rec[w].pc = "idle" /\ StoreStep(w)
       \/ rec[w].pc = "writing" /\ call[w].pc # "idle" /\ (ReconcileStep(w) \/ StoreStep(w))
    /\ UNCHANGED <<rclaim, rec, toolRuns>>

RecoveryStep(w) ==
    \/ StartRecovery(w) \/ PlanNext(w) \/ Act(w) \/ ActOnWrite(w) \/ CallReconcile(w)
    \/ ReconcileRefused(w) \/ ReconcileReturns(w) \/ ModelAnswers(w) \/ StoreAnswer(w)
    \/ ExecuteTool(w) \/ CheckTool(w) \/ StoreResult(w) \/ ReleaseRecovery(w)
    \/ RecoveryCancelled(w) \/ CrashRecovery(w)

RNext ==
    \/ \E w \in Workers : RecoveryStep(w) \/ ServiceStep(w)
    \/ RecoveryLapses
    \/ Environment /\ UNCHANGED <<rclaim, rec, toolRuns>>

RSpec == RInit /\ [][RNext]_rvars

-----------------------------------------------------------------------------
\* The tool call of the Operation gets exactly one result message, and at most
\* one Model Request is open: neither a stale plan nor a worker that was
\* replaced adds a second one, and a retry closes the interrupted request in
\* the batch that starts its own.
TranscriptIntact == op.transcript # "broken" /\ op.requests <= 1

\* A tool that is not declared safe to replay runs at most once, counting the
\* run the crash interrupted.
UnsafeToolOnce == ~op.tool.safe => toolRuns <= 1

\* The tool result the model is shown agrees with the verdict on the Write
\* the tool call is bound to.
ResultMatchesWrite ==
    op.write.tool /\ op.write.state \in {"succeeded", "failed"} /\ op.tool.phase = "completed"
        => VerdictOf(op.tool.result) = op.write.state

\* An Operation recovery has completed left nothing open: the transcript ends
\* in the answer of the model, the tool is completed and the Write settled.
CompletedIsClosed ==
    op.phase = "completed" =>
        /\ op.transcript = "final"
        /\ op.tool.phase \in {"none", "completed"}
        /\ op.write.state \in {"none", "succeeded", "failed"}
        /\ effect.inflight = 0

=============================================================================
