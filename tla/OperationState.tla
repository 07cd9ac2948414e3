--------------------------- MODULE OperationState ---------------------------
(***************************************************************************)
(* The reducer of one durable Operation (session/operation_state.py):      *)
(* replaying the event log rebuilds the Operation, and the services replay *)
(* a candidate batch before they append it.                                *)
(*                                                                         *)
(* An Operation is the chain the program builds for one guarded tool call: *)
(* one assistant tool call, its Tool Intent, one Write and one Approval.   *)
(* Names, arguments, hashes and policies are left out: what a chain binds  *)
(* together always agrees here, so only the presence of a binding is kept. *)
(* A fencing token of 0 stands for None.                                   *)
(***************************************************************************)
EXTENDS Naturals, Sequences

Terminal == {"completed", "failed", "cancelled"}
Phases == {"running", "waiting_approval", "ready_to_resume", "executing_write", "outcome_unknown",
           "rejected"} \cup Terminal

ToolPhases == {"none", "intent_recorded", "dispatch_started", "completed", "outcome_unknown"}
ToolResults == {"none", "ok", "error", "unknown"}

ApprovalStates == {"none", "waiting", "approved", "consumed", "rejected", "expired",
                   "resume_started", "resume_completed", "resume_failed", "resume_cancelled"}
ResumeStates == {"unregistered", "registered", "started", "completed", "failed", "cancelled"}

WriteStates == {"none", "prepared", "waiting_approval", "approved", "submitting", "succeeded",
                "failed", "outcome_unknown", "reconciling"}

\* The messages, as far as they matter: "call" ends in an assistant message
\* with the tool call, "answered" in its one tool result, "final" and "error"
\* in an assistant message without a call; in "broken" the call has a second
\* result, an orphan result or a later message before its result.
Transcripts == {"user", "call", "answered", "final", "error", "broken"}

ToolRecords == [phase : ToolPhases, safe : BOOLEAN, result : ToolResults, token : Nat]
ApprovalRecords == [state : ApprovalStates, resume : ResumeStates, bound : BOOLEAN, token : Nat]
WriteRecords == [state : WriteStates, approval : BOOLEAN, tool : BOOLEAN, token : Nat]

Operations ==
    [ phase : Phases, requests : Nat, transcript : Transcripts,
      tool : ToolRecords, approval : ApprovalRecords, write : WriteRecords ]

\* After operation_started and the user message.
StartedOperation ==
    [ phase      |-> "running",
      requests   |-> 0,
      transcript |-> "user",
      tool       |-> [phase |-> "none", safe |-> FALSE, result |-> "none", token |-> 0],
      approval   |-> [state |-> "none", resume |-> "unregistered", bound |-> FALSE, token |-> 0],
      write      |-> [state |-> "none", approval |-> FALSE, tool |-> FALSE, token |-> 0] ]

\* What replaying a log that holds a rejected event gives: an
\* OperationLogInvariantError on every later load.
Rejected == [StartedOperation EXCEPT !.phase = "rejected"]

-----------------------------------------------------------------------------
\* Events.
Event(type) == [type |-> type]
FencedEvent(type, token) == [type |-> type, token |-> token]
MessageEvent(type, message) == [type |-> type, message |-> message]
ToolResultEvent(type, result, token) == [type |-> type, result |-> result, token |-> token]
\* safe: the replay policy of the tool is "safe" and not "never".
ToolIntent(safe) == [type |-> "tool_intent_recorded", safe |-> safe]
WritePrepared(bound) == [type |-> "write_prepared", tool |-> bound]
WriteFailed(denied, token) == [type |-> "write_failed", denied |-> denied, token |-> token]
OperationFinished(outcome) == [type |-> "operation_finished", outcome |-> outcome]

MessageEvents == {"message_appended", "model_request_started", "model_request_completed",
                  "model_request_failed"}
ToolEvents == {"tool_intent_recorded", "tool_dispatch_started", "tool_reconcile_started",
               "tool_completed", "tool_outcome_unknown", "tool_reconciled"}
ApprovalEvents == {"approval_requested", "approval_resume_registered", "approval_granted",
                   "approval_consumed", "approval_rejected", "approval_expired",
                   "approval_resume_started", "approval_resume_reentered",
                   "approval_resume_completed", "approval_resume_failed",
                   "approval_resume_cancelled"}
WriteEvents == {"write_prepared", "write_waiting_approval", "write_approved", "write_submitting",
                "write_succeeded", "write_failed", "write_outcome_unknown", "write_reconciling",
                "write_reconcile_reentered", "write_reconcile_failed",
                "write_reconcile_deferred"}

\* _validate_terminal_fencing_token: no token recorded, or exactly that one.
TerminalToken(expected, token) == expected = 0 \/ token = expected

\* A reentry needs a token, strictly above the recorded one.
ReentryToken(recorded, token) == token > recorded

-----------------------------------------------------------------------------
\* Messages and Model Requests.  requests counts the started ones.
TranscriptAfter(t, message) ==
    CASE message = "toolResult" -> IF t = "call" THEN "answered" ELSE "broken"
      [] message = "call" -> IF t = "user" THEN "call" ELSE "broken"
      [] OTHER -> IF t \in {"user", "answered"} THEN message ELSE "broken"

MessageAccepted(op, e) ==
    e.type \in {"model_request_completed", "model_request_failed"} => op.requests > 0

MessageApplied(op, e) ==
    CASE e.type = "message_appended" ->
            [op EXCEPT !.transcript = TranscriptAfter(@, e.message)]
      [] e.type = "model_request_started" -> [op EXCEPT !.requests = @ + 1]
      [] e.type = "model_request_completed" ->
            [op EXCEPT !.requests = @ - 1, !.transcript = TranscriptAfter(@, e.message)]
      [] e.type = "model_request_failed" -> [op EXCEPT !.requests = @ - 1]

-----------------------------------------------------------------------------
\* Tools.
\* The outcome a Tool Result event claims for the Write bound to the tool.
VerdictOf(result) ==
    CASE result = "ok" -> "succeeded" [] result = "error" -> "failed"
      [] OTHER -> "outcome_unknown"

\* Mutant: the verdict on the Write is not compared.
ResultAgreesWithEvent(op, e) == (e.type = "tool_outcome_unknown") <=> (e.result = "unknown")

\* _validate_tool_write_result_consistency.
ResultAgreesWithWrite(op, e) ==
    /\ (e.type = "tool_outcome_unknown") <=> (e.result = "unknown")
    /\ op.write.tool /\ op.write.state \in {"succeeded", "failed", "outcome_unknown"}
          => VerdictOf(e.result) = op.write.state

ToolAccepted(op, e) ==
    CASE e.type = "tool_intent_recorded" -> op.tool.phase = "none"
      [] e.type = "tool_dispatch_started" ->
            /\ op.tool.phase \in {"intent_recorded", "dispatch_started"}
            /\ op.approval.bound => op.approval.state \in {"consumed", "resume_started"}
      [] e.type = "tool_reconcile_started" ->
            op.tool.phase = "outcome_unknown" /\ ReentryToken(op.tool.token, e.token)
      [] e.type \in {"tool_completed", "tool_outcome_unknown"} ->
            /\ op.tool.phase \in {"intent_recorded", "dispatch_started"}
            /\ ResultAgreesWithWrite(op, e)
      [] e.type = "tool_reconciled" ->
            /\ op.tool.phase \in {"outcome_unknown", "dispatch_started"}
            /\ TerminalToken(op.tool.token, e.token)
            /\ ResultAgreesWithWrite(op, e)

ToolApplied(op, e) ==
    CASE e.type = "tool_intent_recorded" ->
            [op EXCEPT !.tool.phase = "intent_recorded", !.tool.safe = e.safe]
      [] e.type = "tool_dispatch_started" -> [op EXCEPT !.tool.phase = "dispatch_started"]
      [] e.type = "tool_reconcile_started" -> [op EXCEPT !.tool.token = e.token]
      [] e.type = "tool_outcome_unknown" ->
            [op EXCEPT !.tool.phase = "outcome_unknown", !.tool.result = e.result]
      [] e.type \in {"tool_completed", "tool_reconciled"} ->
            [op EXCEPT !.tool.phase = "completed", !.tool.result = e.result]

-----------------------------------------------------------------------------
\* Approvals (_reduce_approval_event).
\* _validate_registered_approval_dependencies.
ResumeDependencies(op) ==
    /\ op.approval.bound
    /\ op.write.state # "none" /\ op.write.approval /\ op.write.tool
    /\ op.tool.phase # "none"

ResumeCompletable(op) ==
    /\ ResumeDependencies(op)
    /\ op.write.state = "succeeded"
    /\ op.tool.phase = "completed"
    /\ op.transcript \in {"answered", "final", "error"}

ApprovalAccepted(op, e) ==
    LET a == op.approval IN
    CASE e.type = "approval_requested" -> a.state = "none"
      [] e.type = "approval_resume_registered" ->
            /\ a.state # "none" /\ a.resume = "unregistered"
            /\ op.write.state # "none" /\ op.write.tool
            /\ op.transcript \in {"call", "answered", "broken"}
      [] e.type \in {"approval_granted", "approval_rejected", "approval_expired"} ->
            a.state = "waiting"
      [] e.type = "approval_consumed" -> a.state = "approved"
      [] e.type = "approval_resume_started" ->
            /\ a.state = "consumed" /\ a.resume \in {"registered", "started"}
            /\ ResumeDependencies(op)
      [] e.type = "approval_resume_reentered" ->
            a.state = "resume_started" /\ ReentryToken(a.token, e.token)
      [] e.type = "approval_resume_completed" ->
            /\ a.state = "resume_started"
            /\ ResumeCompletable(op)
            /\ TerminalToken(a.token, e.token)
      [] e.type = "approval_resume_failed" ->
            a.state = "resume_started" /\ TerminalToken(a.token, e.token)
      [] e.type = "approval_resume_cancelled" ->
            a.state \in {"waiting", "rejected", "expired"}

ApprovalMoved(op, state, resume, phase) ==
    [op EXCEPT !.approval.state = state, !.approval.resume = resume, !.phase = phase]

ApprovalApplied(op, e) ==
    LET a == op.approval IN
    CASE e.type = "approval_requested" ->
            ApprovalMoved(op, "waiting", "unregistered", "waiting_approval")
      [] e.type = "approval_resume_registered" ->
            [ApprovalMoved(op, a.state, "registered",
                           IF a.state = "waiting" THEN "waiting_approval" ELSE op.phase)
                EXCEPT !.approval.bound = TRUE]
      [] e.type = "approval_granted" -> ApprovalMoved(op, "approved", a.resume, "ready_to_resume")
      [] e.type = "approval_consumed" -> ApprovalMoved(op, "consumed", a.resume, "ready_to_resume")
      [] e.type = "approval_rejected" -> ApprovalMoved(op, "rejected", "cancelled", "running")
      [] e.type = "approval_expired" -> ApprovalMoved(op, "expired", "cancelled", "running")
      [] e.type = "approval_resume_started" ->
            [ApprovalMoved(op, "resume_started", "started", "executing_write")
                EXCEPT !.approval.token = e.token]
      [] e.type = "approval_resume_reentered" ->
            [ApprovalMoved(op, "resume_started", a.resume, "executing_write")
                EXCEPT !.approval.token = e.token]
      [] e.type = "approval_resume_completed" ->
            ApprovalMoved(op, "resume_completed", "completed", "running")
      [] e.type = "approval_resume_failed" -> ApprovalMoved(op, "resume_failed", "failed", "running")
      [] e.type = "approval_resume_cancelled" ->
            ApprovalMoved(op, "resume_cancelled", "cancelled", "running")

-----------------------------------------------------------------------------
\* Writes (_reduce_write_event).
\* _validate_write_against_finished_tool.
WriteAgreesWithTool(op, outcome) ==
    op.write.tool /\ op.tool.phase \in {"completed", "outcome_unknown"}
        => VerdictOf(op.tool.result) = outcome

Settles(op, token, outcome) ==
    /\ op.write.state \in {"submitting", "reconciling"}
    /\ op.write.state = "reconciling" => TerminalToken(op.write.token, token)
    /\ WriteAgreesWithTool(op, outcome)

WriteAccepted(op, e) ==
    LET w == op.write IN
    CASE e.type = "write_prepared" -> w.state = "none"
      [] e.type = "write_waiting_approval" -> w.state = "prepared" /\ op.approval.state # "none"
      [] e.type = "write_approved" ->
            /\ w.state \in {"prepared", "waiting_approval"}
            /\ w.approval => op.approval.state \in {"consumed", "resume_started"}
      [] e.type = "write_submitting" ->
            w.state = "approved" /\ (w.tool => op.tool.phase = "dispatch_started")
      [] e.type = "write_succeeded" -> Settles(op, e.token, "succeeded")
      [] e.type = "write_failed" ->
            \/ w.state = "waiting_approval" /\ e.denied
            \/ Settles(op, e.token, "failed")
      [] e.type = "write_outcome_unknown" ->
            w.state = "submitting" /\ WriteAgreesWithTool(op, "outcome_unknown")
      [] e.type = "write_reconciling" -> w.state = "outcome_unknown"
      [] e.type = "write_reconcile_reentered" ->
            w.state = "reconciling" /\ ReentryToken(w.token, e.token)
      [] e.type \in {"write_reconcile_failed", "write_reconcile_deferred"} ->
            w.state = "reconciling" /\ TerminalToken(w.token, e.token)

WriteMoved(op, state, phase) == [op EXCEPT !.write.state = state, !.phase = phase]

WriteApplied(op, e) ==
    CASE e.type = "write_prepared" ->
            [op EXCEPT !.write.state = "prepared", !.write.tool = e.tool]
      [] e.type = "write_waiting_approval" ->
            [WriteMoved(op, "waiting_approval", "waiting_approval") EXCEPT !.write.approval = TRUE]
      [] e.type = "write_approved" -> WriteMoved(op, "approved", "ready_to_resume")
      [] e.type = "write_submitting" -> WriteMoved(op, "submitting", "executing_write")
      [] e.type = "write_succeeded" -> WriteMoved(op, "succeeded", "running")
      [] e.type = "write_failed" -> WriteMoved(op, "failed", "running")
      [] e.type \in {"write_outcome_unknown", "write_reconcile_failed",
                     "write_reconcile_deferred"} ->
            WriteMoved(op, "outcome_unknown", "outcome_unknown")
      [] e.type \in {"write_reconciling", "write_reconcile_reentered"} ->
            [WriteMoved(op, "reconciling", "outcome_unknown") EXCEPT !.write.token = e.token]

-----------------------------------------------------------------------------
\* The terminal event.
Unresolved(op) ==
    \/ op.tool.phase \in {"intent_recorded", "dispatch_started", "outcome_unknown"}
    \/ op.write.state \in {"prepared", "waiting_approval", "approved", "submitting",
                           "outcome_unknown", "reconciling"}
    \/ op.approval.state \in {"waiting", "approved", "resume_started", "consumed"}

\* Mutant: the open facts are not looked at.
FinishAcceptedOpen(op, e) == op.requests = 0 /\ op.transcript \notin {"call", "broken"}

FinishAccepted(op, e) ==
    /\ op.requests = 0
    /\ op.transcript \notin {"call", "broken"}
    /\ ~Unresolved(op)
    /\ e.outcome = "completed" => op.transcript # "error"

-----------------------------------------------------------------------------
\* reduce_operation_event.
Accepts(op, e) ==
    /\ op.phase \notin Terminal
    /\ CASE e.type \in MessageEvents -> MessageAccepted(op, e)
         [] e.type \in ToolEvents -> ToolAccepted(op, e)
         [] e.type \in ApprovalEvents -> ApprovalAccepted(op, e)
         [] e.type \in WriteEvents -> WriteAccepted(op, e)
         [] e.type = "operation_finished" -> FinishAccepted(op, e)

Applied(op, e) ==
    CASE e.type \in MessageEvents -> MessageApplied(op, e)
      [] e.type \in ToolEvents -> ToolApplied(op, e)
      [] e.type \in ApprovalEvents -> ApprovalApplied(op, e)
      [] e.type \in WriteEvents -> WriteApplied(op, e)
      [] e.type = "operation_finished" -> [op EXCEPT !.phase = e.outcome]

Reduce(op, e) == IF op.phase # "rejected" /\ Accepts(op, e) THEN Applied(op, e) ELSE Rejected

\* replay_operation_with_specs: the state after a batch, or Rejected.
ReplayWithSpecs(op, specs) ==
    LET after[n \in 0..Len(specs)] == IF n = 0 THEN op ELSE Reduce(after[n - 1], specs[n])
    IN  after[Len(specs)]

=============================================================================
