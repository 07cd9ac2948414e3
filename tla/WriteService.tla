---------------------------- MODULE WriteService ----------------------------
(***************************************************************************)
(* The Approval and Write services over the event log of one Operation     *)
(* (approval/state_machine.py, writes/state_machine.py) together with the  *)
(* recorder that commits the result of the tool call a Write is bound to   *)
(* (session/recorder.py).                                                  *)
(*                                                                         *)
(* Every call of a service loads the log, computes the events it wants to  *)
(* append, replays them, and appends them if the log has not grown since   *)
(* (compare and set), the deadline has not passed and the lease it names   *)
(* is current.  A call is a load step and an append step, and any number   *)
(* of other calls may run between the two.  The external write happens     *)
(* between two such transactions, and a worker may crash anywhere.         *)
(*                                                                         *)
(* Role and identity checks pass: they depend on nothing that changes.     *)
(* The write_reconcile lease is held or not (lease time 1, clock 0); its   *)
(* owner token is fresh on every call, so a held row refuses everyone.     *)
(***************************************************************************)
EXTENDS OperationState, ClaimRows, FiniteSets

CONSTANTS
    Workers,     \* processes or tasks that call the services
    MaxGen       \* bound on the generations of the write_reconcile claim

ASSUME WriteServiceAssumption == NoOwner \notin Workers /\ MaxGen \in Nat

VARIABLES
    op,          \* the Operation the log replays to
    ver,         \* the sequence number of the last event in the log
    late,        \* the deadline of the Approval has passed
    claim,       \* the write_reconcile claim row
    call,        \* the service call each worker is in
    effect       \* the external system: requests sent, in flight and applied

svars == <<op, ver, late, claim, call, effect>>

Pcs == {"idle", "append", "submitted", "handling", "finish", "cleanup", "report",
        "acquire", "enter", "checking", "verdict", "release"}
Kinds == {"none", "service", "execute", "finish", "cleanup", "report", "enter", "verdict"}

Idle == [pc |-> "idle", kind |-> "none", specs |-> << >>, ver |-> 0, deadline |-> FALSE, gen |-> 0]

\* A user message and nothing else; or an assistant message with a tool call
\* whose intent, or whose intent and dispatch, the recorder has appended.
WithTool(phase) == [StartedOperation EXCEPT !.transcript = "call", !.tool.phase = phase]

Init ==
    /\ op \in {StartedOperation, WithTool("intent_recorded"), WithTool("dispatch_started")}
    /\ ver = 1
    /\ late = FALSE
    /\ claim = AbsentRow
    /\ call = [w \in Workers |-> Idle]
    /\ effect = [sent |-> 0, inflight |-> 0, applied |-> 0]

\* The events of the services and of the recorder.  A service never appends
\* write_failed as a denial: that is the gateway's.
ServiceEvents ==
    [type : {"approval_requested", "approval_granted", "approval_rejected", "approval_consumed",
             "approval_expired", "write_waiting_approval", "write_approved", "write_submitting",
             "write_outcome_unknown", "tool_dispatch_started"}]
        \cup [type : {"write_prepared"}, tool : BOOLEAN]
        \cup [type : {"write_succeeded", "write_reconciling", "write_reconcile_reentered",
                      "write_reconcile_failed", "write_reconcile_deferred"}, token : Nat]
        \cup [type : {"write_failed"}, denied : {FALSE}, token : Nat]
        \cup [type : {"tool_completed", "tool_outcome_unknown"}, result : ToolResults, token : Nat]
        \cup [type : {"message_appended"}, message : {"toolResult"}]

CallStates ==
    [ pc : Pcs, kind : Kinds, specs : Seq(ServiceEvents), ver : Nat, deadline : BOOLEAN, gen : Nat ]

TypeOK ==
    /\ op \in Operations
    /\ ver \in Nat
    /\ late \in BOOLEAN
    /\ claim \in [owner : Workers \cup {NoOwner}, expires : {0, 1}, gen : Nat]
    /\ call \in [Workers -> CallStates]
    /\ effect \in [sent : Nat, inflight : Nat, applied : Nat]

-----------------------------------------------------------------------------
\* The store.
HoldsLease(w) == LeaseCurrent(claim, w, call[w].gen, 0)

\* Mutant: the append does not compare the deadline.
StoreAcceptsLate(w) == call[w].ver = ver /\ (call[w].gen > 0 => HoldsLease(w))

\* append_batch and append_batch_if_fenced_claim commit the batch of w.
StoreAccepts(w) ==
    /\ call[w].ver = ver
    /\ call[w].deadline => ~late
    /\ call[w].gen > 0 => HoldsLease(w)

\* The call of w becomes an append of specs against the log it has loaded.
LoadedCall(w, kind, specs, deadline) ==
    [call[w] EXCEPT !.pc = "append", !.kind = kind, !.specs = specs, !.ver = ver,
                    !.deadline = deadline]

\* A call that only reads and appends one batch: a rejected batch raises and
\* leaves nothing behind, so the call is not a step then.
Load(w, kind, specs, deadline) ==
    /\ call[w].pc = "idle"
    /\ ReplayWithSpecs(op, specs) # Rejected
    /\ call' = [call EXCEPT ![w] = LoadedCall(w, kind, specs, deadline)]
    /\ UNCHANGED <<op, ver, late, claim, effect>>

Goto(w, pc) == [call EXCEPT ![w].pc = pc]

\* The worker holds an event to append and has still to load the log.
Holding(w, pc, e) == [call EXCEPT ![w].pc = pc, ![w].specs = <<e>>]

-----------------------------------------------------------------------------
\* Approval service.
BeginGrant(w) ==
    op.approval.state = "waiting" /\ ~late
        /\ Load(w, "service", <<Event("approval_granted")>>, TRUE)

BeginReject(w) ==
    op.approval.state = "waiting" /\ ~late
        /\ Load(w, "service", <<Event("approval_rejected")>>, TRUE)

BeginConsume(w) ==
    op.approval.state = "approved" /\ Load(w, "service", <<Event("approval_consumed")>>, TRUE)

\* get, and a transition refused for its deadline, expire a waiting Approval.
BeginExpire(w) ==
    op.approval.state = "waiting" /\ late
        /\ Load(w, "service", <<Event("approval_expired")>>, FALSE)

-----------------------------------------------------------------------------
\* Write service: prepare.
PrepareSpecs(requiresApproval, bound) ==
    <<WritePrepared(bound)>> \o
    (IF requiresApproval
     THEN <<Event("approval_requested"), Event("write_waiting_approval")>>
     ELSE <<Event("write_approved")>>)

\* A Write with the same idempotency key is returned, not prepared again.
BeginPrepare(w) ==
    /\ op.write.state = "none"
    /\ \E requiresApproval \in BOOLEAN :
          Load(w, "service", PrepareSpecs(requiresApproval, op.tool.phase # "none"), FALSE)

-----------------------------------------------------------------------------
\* Write service: execute.
Executable(o) ==
    /\ \/ o.write.state = "approved"
       \/ o.write.state = "waiting_approval" /\ o.approval.state \in {"approved", "consumed"}
    /\ o.write.tool => o.tool.phase # "none"

\* _tool_dispatch_specs.
DispatchSpecs(o) ==
    IF o.write.tool /\ o.tool.phase = "intent_recorded"
    THEN <<Event("tool_dispatch_started")>> ELSE << >>

\* Consume the Approval, approve the Write, start the Tool Dispatch and claim
\* the Write in one batch.
ExecuteSpecs(o) ==
    (IF o.write.state = "waiting_approval" /\ o.approval.state = "approved"
     THEN <<Event("approval_consumed")>> ELSE << >>) \o
    (IF o.write.state = "waiting_approval" THEN <<Event("write_approved")>> ELSE << >>) \o
    DispatchSpecs(o) \o <<Event("write_submitting")>>

BeginExecute(w) ==
    /\ Executable(op)
    /\ Load(w, "execute", ExecuteSpecs(op),
            op.write.state = "waiting_approval" /\ op.approval.state = "approved")

\* The handler is called once the claim is in the log.
CallHandler(w) ==
    /\ call[w].pc = "submitted"
    /\ call' = Goto(w, "handling")
    /\ effect' = [effect EXCEPT !.sent = @ + 1, !.inflight = @ + 1]
    /\ UNCHANGED <<op, ver, late, claim>>

\* The event execute appends for what the handler did.
FinishWith(w, e) ==
    /\ call[w].pc = "handling"
    /\ call' = Holding(w, "finish", e)
    /\ UNCHANGED <<op, ver, late, claim, effect>>

HandlerReturns(w) == effect.applied > 0 /\ FinishWith(w, FencedEvent("write_succeeded", 0))

\* DefinitelyNotCommittedToolError: the only exception that proves failure.
HandlerNotCommitted(w) ==
    effect.sent > effect.inflight + effect.applied /\ FinishWith(w, WriteFailed(FALSE, 0))

\* Mutant: an exception of the handler is taken for a failure of the Write.
HandlerRaisesFailure(w) == FinishWith(w, WriteFailed(FALSE, 0))

\* Any other exception, a timeout included.
HandlerRaises(w) == FinishWith(w, Event("write_outcome_unknown"))

\* The task is cancelled in the handler, or while the success is appended,
\* which the append may survive (see AppendBatch).
ExecuteCancelled(w) ==
    /\ \/ call[w].pc = "handling"
       \/ /\ call[w].pc \in {"finish", "append"}
          /\ call[w].specs = <<FencedEvent("write_succeeded", 0)>>
    /\ call' = Goto(w, "cleanup")
    /\ UNCHANGED <<op, ver, late, claim, effect>>

\* What execute reports to the tool layer, whose recorder appends it.
Report(w, result) ==
    IF op.write.tool
    THEN [call EXCEPT ![w] = [Idle EXCEPT !.pc = "report",
              !.specs = <<ToolResultEvent(IF result = "unknown" THEN "tool_outcome_unknown"
                                          ELSE "tool_completed", result, 0)>>]]
    ELSE [call EXCEPT ![w] = Idle]

\* _finish_transition: a Write no longer submitting, or a rejected event, is
\* an exception; after a success it is an unknown outcome to be marked.
FinishFails(w) ==
    IF call[w].specs[1].type = "write_succeeded" THEN Goto(w, "cleanup") ELSE Report(w, "unknown")

BeginFinish(w) ==
    /\ call[w].pc = "finish"
    /\ call' = IF call[w].specs[1].type = "write_succeeded" /\ op.write.state = "succeeded"
               THEN Report(w, "ok")
               ELSE IF op.write.state = "submitting" /\ ReplayWithSpecs(op, call[w].specs) # Rejected
               THEN [call EXCEPT ![w] = LoadedCall(w, "finish", call[w].specs, FALSE)]
               ELSE FinishFails(w)
    /\ UNCHANGED <<op, ver, late, claim, effect>>

\* _mark_outcome_unknown_if_submitting.
BeginCleanup(w) ==
    /\ call[w].pc = "cleanup"
    /\ call' = IF /\ op.write.state = "submitting"
                  /\ ReplayWithSpecs(op, <<Event("write_outcome_unknown")>>) # Rejected
               THEN [call EXCEPT ![w] =
                        LoadedCall(w, "cleanup", <<Event("write_outcome_unknown")>>, FALSE)]
               ELSE Report(w, "unknown")
    /\ UNCHANGED <<op, ver, late, claim, effect>>

\* _record_tool_result_message: the report and its message, nothing if the
\* message is there.  A call that lost a race builds the batch again from the
\* report, which is its first event as long as the tool call is open.
ReportSpecs(w) ==
    (IF op.tool.phase \in {"intent_recorded", "dispatch_started"}
     THEN <<call[w].specs[1]>> ELSE << >>)
        \o <<MessageEvent("message_appended", "toolResult")>>

BeginReport(w) ==
    /\ call[w].pc = "report"
    /\ call' = IF op.transcript = "call" /\ ReplayWithSpecs(op, ReportSpecs(w)) # Rejected
               THEN [call EXCEPT ![w] = LoadedCall(w, "report", ReportSpecs(w), FALSE)]
               ELSE [call EXCEPT ![w] = Idle]
    /\ UNCHANGED <<op, ver, late, claim, effect>>

-----------------------------------------------------------------------------
\* Mutant: a Write left in reconciling is not entered again.
EnterEventOnce(state, token) == FencedEvent("write_reconciling", token)

\* Write service: reconcile.  The record is read before the lease is taken.
EnterEvent(state, token) ==
    FencedEvent(IF state = "outcome_unknown" THEN "write_reconciling"
                ELSE "write_reconcile_reentered", token)

ReadForReconcile(w) ==
    /\ call[w].pc = "idle"
    /\ op.write.state \in {"outcome_unknown", "reconciling"}
    /\ call' = Holding(w, "acquire", EnterEvent(op.write.state, 0))
    /\ UNCHANGED <<op, ver, late, claim, effect>>

\* A held claim refuses the call: write_reconcile_claimed.
AcquireReconcile(w) ==
    /\ call[w].pc = "acquire"
    /\ IF Held(claim, 0)
       THEN call' = [call EXCEPT ![w] = Idle] /\ UNCHANGED claim
       ELSE /\ claim.gen < MaxGen
            /\ claim' = AcquiredRow(claim, w, 0, 1)
            /\ call' = [call EXCEPT ![w].pc = "enter", ![w].gen = claim.gen + 1,
                          ![w].specs = <<[call[w].specs[1] EXCEPT !.token = claim.gen + 1]>>]
    /\ UNCHANGED <<op, ver, late, effect>>

\* _finish_transition requires the state the record had before the acquire.
BeginEnter(w) ==
    /\ call[w].pc = "enter"
    /\ LET required == IF call[w].specs[1].type = "write_reconciling"
                       THEN "outcome_unknown" ELSE "reconciling"
       IN  call' = IF op.write.state = required /\ ReplayWithSpecs(op, call[w].specs) # Rejected
                   THEN [call EXCEPT ![w] = LoadedCall(w, "enter", call[w].specs, FALSE)]
                   ELSE Goto(w, "release")
    /\ UNCHANGED <<op, ver, late, claim, effect>>

\* What the external system may truthfully answer now.
Answers ==
    {"unknown"} \cup (IF effect.applied > 0 THEN {"succeeded"} ELSE {})
                \cup (IF effect.inflight = 0 /\ effect.applied = 0 THEN {"failed"} ELSE {})

\* Only an explicit answer settles the Write: pending, not found and unknown
\* statuses defer it.
VerdictEvent(answer, token) ==
    CASE answer = "succeeded" -> FencedEvent("write_succeeded", token)
      [] answer = "failed" -> WriteFailed(FALSE, token)
      [] OTHER -> FencedEvent("write_reconcile_deferred", token)

ReconcileAnswers(w) ==
    /\ call[w].pc = "checking"
    /\ \E answer \in Answers :
          call' = Holding(w, "verdict", VerdictEvent(answer, call[w].gen))
    /\ UNCHANGED <<op, ver, late, claim, effect>>

ReconcileRaises(w) ==
    /\ call[w].pc = "checking"
    /\ call' = Holding(w, "verdict", FencedEvent("write_reconcile_failed", call[w].gen))
    /\ UNCHANGED <<op, ver, late, claim, effect>>

\* A cancelled reconciliation appends nothing and gives its lease back.
ReconcileCancelled(w) ==
    /\ call[w].pc \in {"enter", "checking", "verdict"}
    /\ call' = Goto(w, "release")
    /\ UNCHANGED <<op, ver, late, claim, effect>>

\* _assert_reconcile_claim, then _finish_transition.
BeginVerdict(w) ==
    /\ call[w].pc = "verdict"
    /\ call' = IF /\ HoldsLease(w)
                  /\ op.write.state = "reconciling"
                  /\ ReplayWithSpecs(op, call[w].specs) # Rejected
               THEN [call EXCEPT ![w] = LoadedCall(w, "verdict", call[w].specs, FALSE)]
               ELSE Goto(w, "release")
    /\ UNCHANGED <<op, ver, late, claim, effect>>

ReleaseReconcile(w) ==
    /\ call[w].pc = "release"
    /\ claim' = IF Names(claim, w, call[w].gen) THEN ReleasedRow(claim) ELSE claim
    /\ call' = [call EXCEPT ![w] = Idle]
    /\ UNCHANGED <<op, ver, late, effect>>

-----------------------------------------------------------------------------
\* The append transaction, and where each kind of call goes on.
AfterAppend(w) ==
    CASE call[w].kind = "execute" -> Goto(w, "submitted")
      [] call[w].kind = "finish" ->
            Report(w, CASE call[w].specs[1].type = "write_succeeded" -> "ok"
                        [] call[w].specs[1].type = "write_failed" -> "error"
                        [] OTHER -> "unknown")
      [] call[w].kind = "cleanup" -> Report(w, "unknown")
      [] call[w].kind = "enter" -> Goto(w, "checking")
      [] call[w].kind = "verdict" -> Goto(w, "release")
      [] OTHER -> [call EXCEPT ![w] = Idle]

\* Mutant: a lost race for the claim is taken for the claim.
AfterConflictProceeds(w) == Goto(w, IF call[w].kind = "execute" THEN "submitted" ELSE "cleanup")

\* A conflict is loaded again (or, after _MAX_CONFLICT_RETRIES, given up: see
\* AppendFails); a call that began idle starts over.
AfterConflict(w) ==
    CASE call[w].kind \in {"service", "execute"} -> [call EXCEPT ![w] = Idle]
      [] OTHER -> Goto(w, call[w].kind)

\* The append raised anything else.
AfterFailure(w) ==
    CASE call[w].kind \in {"service", "execute", "report"} -> [call EXCEPT ![w] = Idle]
      [] call[w].kind = "finish" -> FinishFails(w)
      [] call[w].kind = "cleanup" -> Report(w, "unknown")
      [] call[w].kind \in {"enter", "verdict"} -> Goto(w, "release")

\* A task cancelled while its append commits does not see the commit.
AppendBatch(w) ==
    /\ call[w].pc = "append"
    /\ StoreAccepts(w)
    /\ op' = ReplayWithSpecs(op, call[w].specs)
    /\ ver' = ver + Len(call[w].specs)
    /\ \/ call' = AfterAppend(w)
       \/ /\ call[w].kind = "finish" /\ call[w].specs[1].type = "write_succeeded"
          /\ call' = Goto(w, "cleanup")
    /\ UNCHANGED <<late, claim, effect>>

AppendConflicts(w) ==
    /\ call[w].pc = "append"
    /\ call[w].ver # ver
    /\ call[w].gen > 0 => HoldsLease(w)
    /\ call' = AfterConflict(w)
    /\ UNCHANGED <<op, ver, late, claim, effect>>

\* The lease is lost.
AppendFenced(w) ==
    /\ call[w].pc = "append"
    /\ call[w].gen > 0 /\ ~HoldsLease(w)
    /\ call' = AfterFailure(w)
    /\ UNCHANGED <<op, ver, late, claim, effect>>

\* The deadline has passed: the Approval service then expires the Approval
\* if it still waits, execute only raises.
AppendLate(w) ==
    /\ call[w].pc = "append"
    /\ call[w].ver = ver
    /\ call[w].deadline /\ late
    /\ call' = [call EXCEPT ![w] =
                   IF call[w].kind = "service" /\ op.approval.state = "waiting"
                   THEN LoadedCall(w, "service", <<Event("approval_expired")>>, FALSE) ELSE Idle]
    /\ UNCHANGED <<op, ver, late, claim, effect>>

\* The store raises, or the conflict retries are exhausted.
AppendFails(w) ==
    /\ call[w].pc = "append"
    /\ call' = AfterFailure(w)
    /\ UNCHANGED <<op, ver, late, claim, effect>>

-----------------------------------------------------------------------------
\* The process dies: what it held in memory is gone, its lease runs on.
Crash(w) ==
    /\ call[w].pc # "idle"
    /\ call' = [call EXCEPT ![w] = Idle]
    /\ UNCHANGED <<op, ver, late, claim, effect>>

PassDeadline ==
    /\ ~late
    /\ late' = TRUE
    /\ UNCHANGED <<op, ver, claim, call, effect>>

LeaseLapses ==
    /\ Held(claim, 0)
    /\ claim' = [claim EXCEPT !.expires = 0]
    /\ UNCHANGED <<op, ver, late, call, effect>>

\* The external system applies a request in flight, or drops it for good.
ExternalResolves ==
    /\ effect.inflight > 0
    /\ \/ effect' = [effect EXCEPT !.inflight = @ - 1, !.applied = @ + 1]
       \/ effect' = [effect EXCEPT !.inflight = @ - 1]
    /\ UNCHANGED <<op, ver, late, claim, call>>

ApprovalCall(w) == BeginGrant(w) \/ BeginReject(w) \/ BeginConsume(w) \/ BeginExpire(w)

ExecuteStep(w) ==
    \/ BeginPrepare(w) \/ BeginExecute(w) \/ CallHandler(w)
    \/ HandlerReturns(w) \/ HandlerNotCommitted(w) \/ HandlerRaises(w)
    \/ ExecuteCancelled(w) \/ BeginFinish(w) \/ BeginCleanup(w) \/ BeginReport(w)

ReconcileStep(w) ==
    \/ ReadForReconcile(w) \/ AcquireReconcile(w) \/ BeginEnter(w)
    \/ ReconcileAnswers(w) \/ ReconcileRaises(w) \/ ReconcileCancelled(w)
    \/ BeginVerdict(w) \/ ReleaseReconcile(w)

StoreStep(w) ==
    AppendBatch(w) \/ AppendConflicts(w) \/ AppendFenced(w) \/ AppendLate(w) \/ AppendFails(w)

Environment == PassDeadline \/ LeaseLapses \/ ExternalResolves

Next ==
    \/ \E w \in Workers :
          ApprovalCall(w) \/ ExecuteStep(w) \/ ReconcileStep(w) \/ StoreStep(w) \/ Crash(w)
    \/ Environment

Spec == Init /\ [][Next]_svars

-----------------------------------------------------------------------------

\* The external write is requested at most once, however many workers race
\* for the claim, crash, retry or reconcile.
SentOnce == effect.sent <= 1

\* A Write recorded as succeeded has happened, one recorded as failed has
\* not and never will: a lost answer, a timeout, a cancellation or a crash
\* ends in outcome_unknown, never in a wrong verdict.
VerdictIsTrue ==
    /\ op.write.state = "succeeded" => effect.applied = 1
    /\ op.write.state = "failed" => effect.applied = 0 /\ effect.inflight = 0

\* An Approval is granted, rejected or consumed only before its deadline, even
\* by a call that loaded the log in time and was delayed.
DecidedInTime ==
    [][ late /\ op'.approval.state # op.approval.state
            => op.approval.state \in {"none", "waiting"}
               /\ op'.approval.state \in {"waiting", "expired"} ]_svars

=============================================================================
