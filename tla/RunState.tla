------------------------------ MODULE RunState ------------------------------
(***************************************************************************)
(* The state of a Run and its reducer (runtime/states.py, invariants.py,   *)
(* reducer.py), and the translation of Agent events into Runtime events    *)
(* (runtime/tracker.py).  A Runtime event is [type, call, info]: the Tool  *)
(* Call it names and the field its reduction looks at (a stop reason, a    *)
(* tool's error code or the outcome of the Run).                           *)
(***************************************************************************)
EXTENDS Naturals, Sequences

TerminalPhases == {"completed", "failed", "cancelled", "suspended"}
OpenToolPhases == {"queued", "executing", "retry_backoff"}

Event(type) == [type |-> type, call |-> 0, info |-> "none"]
ToolEvent(type, call, info) == [type |-> type, call |-> call, info |-> info]

\* `asking` is the tracker's own memory of an open model request, not part of the state
NoRun == [phase |-> "idle", failure |-> "none", tools |-> << >>, asking |-> FALSE]

Terminal(s) == s.phase \in TerminalPhases
OpenTools(s) == {c \in DOMAIN s.tools : s.tools[c] \in OpenToolPhases}

ToolPhaseAfter ==
    [tool_dispatch_started |-> "executing", tool_retry_scheduled |-> "retry_backoff",
     tool_retry_attempt_started |-> "executing", tool_retry_finished |-> "executing"]

\* the tool's phase after tool_finished, by the error code of its result
FinishedPhase(info) ==
    CASE info = "ok" -> "succeeded"
      [] info = "tool_cancelled" -> "cancelled"
      [] info = "outcome_unknown" -> "outcome_unknown"
      [] OTHER -> "failed"

PhaseAfter ==
    [run_interrupted |-> "suspended", routing_started |-> "routing", routing_finished |-> "running",
     turn_started |-> "requesting_model", model_request_started |-> "requesting_model",
     model_response_finished |-> "running", model_retry_scheduled |-> "retrying",
     model_retry_attempt_started |-> "requesting_model", model_retry_finished |-> "requesting_model",
     context_compaction_started |-> "compacting", context_compaction_finished |-> "requesting_model",
     tool_started |-> "executing_tools", turn_finished |-> "running",
     approval_required |-> "waiting_approval", approval_granted |-> "running",
     approval_rejected |-> "running", outcome_unknown |-> "outcome_unknown",
     budget_exceeded |-> "running"]

\* Mutant: a truncated response is not a failure.
FailureAfterNoLength(s, e) ==
    CASE e.type = "model_response_finished" /\ e.info = "error" -> "model_error"
      [] e.type = "model_response_finished" /\ e.info = "aborted" -> "cancelled"
      [] e.type = "budget_exceeded" -> "budget_exceeded"
      [] OTHER -> s.failure
FailureAfter(s, e) ==
    CASE e.type = "run_interrupted" -> "process_interrupted"
      [] e.type = "model_response_finished" /\ e.info = "error" -> "model_error"
      [] e.type = "model_response_finished" /\ e.info = "aborted" -> "cancelled"
      [] e.type = "model_response_finished" /\ e.info = "length" -> "model_output_truncated"
      [] e.type = "approval_rejected" -> "approval_rejected"
      [] e.type = "outcome_unknown" -> "outcome_unknown"
      [] e.type = "budget_exceeded" -> "budget_exceeded"
      [] OTHER -> s.failure

FinalPhase(s, outcome) ==
    CASE outcome = "completed" /\ s.failure = "none" -> "completed"
      [] outcome = "cancelled" \/ s.failure = "cancelled" -> "cancelled"
      [] OTHER -> "failed"

ToolEvents == DOMAIN ToolPhaseAfter \cup {"tool_finished"}

\* the events validate_runtime_transition and the reducer refuse
Rejects(s, e) ==
    \/ e.type = "run_started" /\ s.phase \notin TerminalPhases \cup {"idle"}
    \/ e.type # "run_started" /\ s.phase \in TerminalPhases \cup {"idle"}
    \/ e.type \in ToolEvents /\ e.call \notin OpenTools(s)
    \/ e.type \in {"approval_granted", "approval_rejected"} /\ s.phase # "waiting_approval"
    \/ e.type = "tool_started" /\ e.call \in DOMAIN s.tools
    \/ e.type = "run_finished" /\ FinalPhase(s, e.info) = "completed" /\ OpenTools(s) # {}

\* a call the Run has not met enters it as queued
WithQueued(tools, call) ==
    [c \in DOMAIN tools \cup {call} |-> IF c \in DOMAIN tools THEN tools[c] ELSE "queued"]

Reduce(s, e) ==
    CASE e.type = "run_started" -> [NoRun EXCEPT !.phase = "running", !.asking = s.asking]
      [] e.type = "run_finished" -> [s EXCEPT !.phase = FinalPhase(s, e.info)]
      [] e.type = "tool_started" -> [s EXCEPT !.phase = PhaseAfter[e.type],
                                              !.tools = WithQueued(s.tools, e.call)]
      [] e.type = "tool_finished" ->
             LET t == [s.tools EXCEPT ![e.call] = FinishedPhase(e.info)]
                 open == \E c \in DOMAIN t : t[c] \in OpenToolPhases
             IN [s EXCEPT !.phase = IF open THEN "executing_tools" ELSE "running", !.tools = t]
      [] e.type \in DOMAIN ToolPhaseAfter ->
             [s EXCEPT !.phase = "executing_tools", !.tools[e.call] = ToolPhaseAfter[e.type]]
      [] OTHER -> [s EXCEPT !.phase = PhaseAfter[e.type], !.failure = FailureAfter(s, e)]

(***************************************************************************)
(* The tracker as a listener: what it appends for an Agent event.  Agent   *)
(* events carry the same fields; names that only differ by a suffix keep   *)
(* the Runtime name here.                                                  *)
(***************************************************************************)
Converted(s, e, cancelled) ==
    CASE e.type = "agent_start" ->
             IF s.phase # "idle" /\ ~Terminal(s) THEN << >> ELSE <<Event("run_started")>>
      [] e.type = "agent_end" ->
             LET outcome == CASE cancelled \/ s.failure = "cancelled" -> "cancelled"
                              [] s.failure # "none" -> "failed"
                              [] OTHER -> "completed"
             IN <<ToolEvent("run_finished", 0, outcome)>>
      [] e.type = "assistant_start" -> IF s.asking THEN << >> ELSE <<Event("model_request_started")>>
      [] e.type = "message" -> << >>
      [] OTHER -> <<e>>

\* _active_model_identity: set by the request, cleared by the response
Asking(s, e) == CASE e.type = "model_request_started" -> TRUE
                  [] e.type = "model_response_finished" -> FALSE
                  [] OTHER -> s.asking

Refuses(s, es) == es # << >> /\ Rejects(s, es[1])
Tracked(s, e, cancelled) ==
    LET es == Converted(s, e, cancelled)
        t == IF es = << >> THEN s ELSE Reduce(s, es[1])
    IN [t EXCEPT !.asking = Asking(s, e)]
=============================================================================
