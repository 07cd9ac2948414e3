----------------------------- MODULE AgentLoop -----------------------------
(***************************************************************************)
(* One Agent (agent.py), its low-level loop (loop.py), the Runtime tracker *)
(* that listens to it (runtime/tracker.py) and the router in front of it   *)
(* (routing/routed_agent.py).  Every event the loop emits is a step: the   *)
(* Agent updates its state, then awaits the tracker and an observer; the   *)
(* tracker's append or the observer may raise, and the task may be         *)
(* cancelled there.  Tools of a batch run side by side.                    *)
(***************************************************************************)
EXTENDS Compaction, RunState

CONSTANTS
    Users,          \* user messages: each is sent once, as a prompt, by steer() or by follow_up()
    Deployments,    \* the configurations of the Agent to check, as records of
                    \*   routed      whether it is called through a RoutedAgent
                    \*   mode        "all" or "one": how its queues are drained
                    \*   turns       max_turns
                    \*   tools       max_tool_calls
                    \*   attempts    attempts of one Tool Call
                    \*   batches     the sequences of raw call ids the model may answer with
                    \*   keep, window    the compactor's recent messages and available tokens
                    \*   runs        bound: runs of the Agent
    IdWidth,        \* bound: the raw call ids and the length of a batch
    MaxFaults       \* bound: failing or cancelled steps

\* Agent.__init__ refuses budgets that are not positive, the compactors a window without messages.
ASSUME AgentAssumption ==
    /\ MaxFaults \in Nat /\ IdWidth \in Nat
    /\ \A d \in Deployments :
          /\ d.turns \in Nat \ {0} /\ d.tools \in Nat \ {0}
          /\ d.keep \in Nat \ {0} /\ d.window \in Nat
          /\ \A raw \in d.batches : raw \in Seq(0 .. IdWidth) /\ Len(raw) <= IdWidth

VARIABLES
    dep,        \* the deployment
    agent,      \* AgentState: the messages and the staged results
    steering, followUp,     \* the two queues
    loop,       \* the locals of the running loop
    run,        \* the tracker's RunState, as replayed from its store
    token,      \* the cancellation token is cancelled
    faults,     \* faults met so far
    runs,       \* runs started
    sent,       \* user messages handed to the Agent
    lost,       \* history: user messages a failure, a reset or a restart may have discarded
    told,       \* history: the result each tool_execution_end carried
    ran         \* history: calls whose handler was entered

vars == <<dep, agent, steering, followUp, loop, run, token, faults, runs, sent, lost, told, ran>>

IdleAgent(messages) == [messages |-> messages, staged |-> {}]
NoReply == AssistantMessage(<< >>, "none")
IdleLoop == [pc |-> "idle", ctx |-> << >>, given |-> << >>, pend |-> << >>, skip |-> FALSE, first |-> TRUE,
             turns |-> 0, used |-> 0, denied |-> FALSE, attempts |-> 0, reply |-> NoReply,
             refused |-> FALSE, more |-> FALSE, over |-> FALSE, index |-> 1, call |-> << >>,
             stream |-> "asked", aborted |-> FALSE]

Init ==
    /\ dep \in Deployments
    /\ agent = IdleAgent(<< >>)
    /\ steering = << >> /\ followUp = << >>
    /\ loop = IdleLoop
    /\ run = NoRun
    /\ token = FALSE
    /\ faults = 0 /\ runs = 0
    /\ sent = {} /\ lost = {} /\ told = {} /\ ran = {}

Ids(messages) == {messages[i].id : i \in {j \in DOMAIN messages : messages[j].role = "user"}}
At(pc) == loop.pc = pc
Go(pc) == [loop EXCEPT !.pc = pc]
Idle == loop.pc = "idle"
InCleanup == loop.pc \in {"fail_start", "fail_message", "fail_turn", "fail_end"}
Taken(queue) == IF dep.mode = "all" \/ queue = << >> THEN Len(queue) ELSE 1
Drained(queue) == SubSeq(queue, 1, Taken(queue))
Left(queue) == SubSeq(queue, Taken(queue) + 1, Len(queue))

(***************************************************************************)
(* Emitting an event.                                                      *)
(***************************************************************************)
\* raise: what the listeners throw; stored: the tracker had appended by then
Calm == [raise |-> "none", stored |-> TRUE]
Faults == {Calm} \cup IF faults < MaxFaults THEN [raise : {"error", "cancel"}, stored : BOOLEAN]
                                            ELSE {}
Struck(f) == faults' = IF f = Calm THEN faults ELSE faults + 1

\* the `finally` of _run_with_lifecycle
Settled(a) == agent' = IdleAgent(a.messages) /\ loop' = IdleLoop

\* an exception leaves the loop (or the cleanup) with Agent state a
Raise(kind, a) ==
    /\ token' = (token \/ kind = "cancel")
    /\ lost' = lost \cup Ids(loop.pend)
    /\ IF InCleanup THEN Settled(a)
       ELSE /\ agent' = a
            /\ loop' = [IdleLoop EXCEPT !.pc = "fail", !.aborted = (token \/ kind = "cancel")]

\* a is the Agent state that _process_event leaves, l the loop if no listener raises
Emit(e, a, l) ==
    \E f \in Faults :
        LET refused == f.stored /\ Refuses(run, Converted(run, e, token)) IN
        /\ Struck(f)
        /\ run' = IF f.stored /\ ~refused THEN Tracked(run, e, token) ELSE run
        /\ IF f.raise # "none" THEN Raise(f.raise, a)
           ELSE IF refused THEN Raise("error", a)
           ELSE agent' = a /\ loop' = l /\ UNCHANGED <<token, lost>>

\* tool_execution_end: the result is staged first; an error of a listener is
\* only recorded, a cancellation is raised after every listener was called
EmitToolEnd(c, kind, code, l) ==
    \E f \in Faults :
        LET e == ToolEvent("tool_finished", c, code)
            refused == f.stored /\ Refuses(run, Converted(run, e, token))
            a == [agent EXCEPT !.staged = @ \cup {ToolResult(c, kind)}]
        IN /\ Struck(f)
           /\ told' = told \cup {<<c, kind>>}
           /\ run' = IF f.stored /\ ~refused THEN Tracked(run, e, token) ELSE run
           /\ IF f.raise = "cancel" THEN Raise("cancel", a)
              ELSE agent' = a /\ loop' = l /\ UNCHANGED <<token, lost>>

\* message_start and message_end of m; the staged copy goes once the listeners returned
EmitMessage(m, e, l) ==
    LET appended == [agent EXCEPT !.messages = Append(@, m)]
        done == IF m.role = "result"
                THEN [appended EXCEPT !.staged = {r \in @ : r.call # m.call}] ELSE appended
    IN \/ \E f \in Faults :
             LET refused == f.stored /\ Refuses(run, Converted(run, e, token)) IN
             /\ Struck(f)
             /\ run' = IF f.stored /\ ~refused THEN Tracked(run, e, token) ELSE run
             /\ IF f.raise # "none" THEN Raise(f.raise, appended)
                ELSE IF refused THEN Raise("error", appended)
                ELSE agent' = done /\ loop' = l /\ UNCHANGED <<token, lost>>
       \/ /\ faults < MaxFaults            \* the listener of message_start raises
          /\ faults' = faults + 1
          /\ run' = run
          /\ Raise("error", agent)

Hold == UNCHANGED <<dep, runs, sent>>
Queues == UNCHANGED <<steering, followUp>>
History == UNCHANGED <<told, ran>>
Alone == Hold /\ Queues /\ History

(***************************************************************************)
(* Entry points.                                                           *)
(***************************************************************************)
\* _run_prompt_messages: repair the old history, copy it, start the lifecycle
StartRun(prompts, skip, cancelled) ==
    LET history == Repaired(agent.messages) IN
    /\ agent' = IdleAgent(history)
    /\ loop' = [IdleLoop EXCEPT !.pc = "agent_start", !.ctx = history \o prompts,
                                !.pend = prompts, !.skip = skip]
    /\ token' = cancelled

Counted == runs < dep.runs /\ runs' = runs + 1 /\ UNCHANGED faults

Prompt(u) ==
    /\ Idle /\ ~dep.routed /\ Counted
    /\ u \notin sent /\ sent' = sent \cup {u}
    /\ StartRun(<<UserMessage(u)>>, FALSE, FALSE)
    /\ UNCHANGED <<dep, run, lost>> /\ Queues /\ History

\* continue_run: after an assistant message only queued messages can continue
ContinueRun ==
    /\ Idle /\ ~dep.routed /\ Counted
    /\ agent.messages # << >>
    /\ \/ /\ Last(agent.messages).role # "assistant"
          /\ StartRun(<< >>, FALSE, FALSE)
          /\ Queues
       \/ /\ Last(agent.messages).role = "assistant"
          /\ steering # << >>
          /\ StartRun(Drained(steering), TRUE, FALSE)
          /\ steering' = Left(steering) /\ UNCHANGED followUp
       \/ /\ Last(agent.messages).role = "assistant"
          /\ steering = << >> /\ followUp # << >>
          /\ StartRun(Drained(followUp), FALSE, FALSE)
          /\ followUp' = Left(followUp) /\ UNCHANGED steering
    /\ UNCHANGED <<dep, run, sent, lost>> /\ History

Steer(u) ==
    /\ u \notin sent /\ sent' = sent \cup {u}
    /\ steering' = Append(steering, UserMessage(u))
    /\ UNCHANGED <<dep, agent, followUp, loop, run, token, faults, runs, lost>> /\ History

FollowUp(u) ==
    /\ u \notin sent /\ sent' = sent \cup {u}
    /\ followUp' = Append(followUp, UserMessage(u))
    /\ UNCHANGED <<dep, agent, steering, loop, run, token, faults, runs, lost>> /\ History

Abort ==
    /\ ~Idle /\ ~token
    /\ token' = TRUE
    /\ UNCHANGED <<dep, agent, steering, followUp, loop, run, faults, runs, sent, lost>> /\ History

Reset ==
    /\ Idle /\ agent.messages # << >>
    /\ agent' = IdleAgent(<< >>)
    /\ steering' = << >> /\ followUp' = << >>
    /\ lost' = sent /\ told' = {} /\ ran' = {}
    /\ UNCHANGED <<dep, loop, run, token, faults, runs, sent>>

(***************************************************************************)
(* The router in front of the Agent.                                       *)
(***************************************************************************)
\* the coroutine goes on to make its last record of the Run
Settling(place) == [IdleLoop EXCEPT !.pc = place]
Settlement ==
    [settle_completed |-> ToolEvent("run_finished", 0, "completed"),
     settle_failed |-> ToolEvent("run_finished", 0, "failed"),
     settle_cancelled |-> ToolEvent("run_finished", 0, "cancelled"),
     settle_approval |-> Event("approval_required"),
     settle_unknown |-> Event("outcome_unknown")]

\* one awaited record_external: when the store raises or the caller is cancelled there,
\* the coroutine ends, the Run stays as it is and the users it was given are dropped
RecordExternal(e, l, given) ==
    \E f \in Faults :
        /\ Struck(f)
        /\ run' = IF f.stored THEN Reduce(run, e) ELSE run
        /\ loop' = IF f = Calm THEN l ELSE IdleLoop
        /\ lost' = lost \cup (given \ Ids(loop'.pend))

\* a Run that is still open refuses the next routed prompt (run_already_active)
RoutedPrompt(u) ==
    /\ Idle /\ dep.routed /\ runs < dep.runs /\ runs' = runs + 1
    /\ ~Rejects(run, Event("run_started"))
    /\ u \notin sent /\ sent' = sent \cup {u}
    /\ RecordExternal(Event("run_started"),
                      [IdleLoop EXCEPT !.pc = "route_open", !.pend = <<UserMessage(u)>>], {u})
    /\ token' = FALSE
    /\ UNCHANGED <<dep, agent>> /\ Queues /\ History

\* the Operation is started with the repaired history
RouteOpens ==
    /\ At("route_open")
    /\ RecordExternal(Event("routing_started"), Go("routing"), Ids(loop.pend))
    /\ agent' = IF loop'.pc = "idle" THEN agent ELSE [agent EXCEPT !.messages = Repaired(@)]
    /\ UNCHANGED token /\ Alone

\* the decision: answer by the Agent, answer without it, wait for an approval, fail
AfterRoute(decision) ==
    CASE decision = "agent" -> Go("route_agent")
      [] decision = "answered" -> Settling("settle_completed")
      [] decision = "approval" -> Settling("settle_approval")
      [] decision = "blocked" -> Settling("settle_failed")
      [] decision = "error" -> Settling(IF token THEN "settle_cancelled" ELSE "settle_failed")
RouteDecided(decision) ==
    /\ At("routing")
    /\ token => decision = "error"
    /\ RecordExternal(Event("routing_finished"), AfterRoute(decision), Ids(loop.pend))
    /\ UNCHANGED <<agent, token>> /\ Alone

\* Agent.prompt looks at the token first: cancelled by now, it raises and nobody ends the Run
EnterAgent ==
    /\ At("route_agent")
    /\ \/ ~token /\ StartRun(loop.pend, FALSE, FALSE) /\ UNCHANGED <<faults, lost>>
       \/ /\ token /\ loop' = IdleLoop /\ faults' = faults + 1
          /\ lost' = lost \cup Ids(loop.pend)
          /\ UNCHANGED <<agent, token>>
    /\ UNCHANGED run /\ Alone

RunSettles ==
    /\ loop.pc \in DOMAIN Settlement
    /\ RecordExternal(Settlement[loop.pc], IdleLoop, {})
    /\ UNCHANGED <<agent, token>> /\ Alone

(***************************************************************************)
(* An approval (harness/approval.py), while the Agent itself is idle: the  *)
(* grant is recorded before the Write, the end of the Run after the Write, *)
(* its result and the final model request.  An approval that is taken up   *)
(* again after a cancellation is left out.                                 *)
(***************************************************************************)
ApprovalGranted ==
    /\ Idle /\ run.phase = "waiting_approval"
    /\ \E f \in Faults :
          /\ Struck(f)
          /\ run' = IF f.stored THEN Reduce(run, Event("approval_granted")) ELSE run
          /\ loop' = CASE f.raise = "none" -> Settling("approving")
                       [] f.raise = "error" -> Settling("settle_failed")
                       [] f.raise = "cancel" -> IdleLoop
    /\ UNCHANGED <<agent, token, lost>> /\ Alone

\* the Approval cannot be consumed (expired, another consumer): the Run fails unapproved
ApprovalRefused ==
    /\ Idle /\ run.phase = "waiting_approval"
    /\ loop' = Settling("settle_failed")
    /\ UNCHANGED <<agent, run, token, faults, lost>> /\ Alone

\* the approved Write and the final request return or raise; a cancellation is not caught
ApprovedWriteEnds(outcome) ==
    /\ At("approving")
    /\ \/ /\ loop' = Settling(outcome)
          /\ UNCHANGED faults
       \/ /\ faults < MaxFaults /\ faults' = faults + 1
          /\ loop' = IdleLoop
    /\ UNCHANGED <<agent, run, token, lost>> /\ Alone

ApprovalRejected ==
    /\ Idle /\ run.phase = "waiting_approval"
    /\ RecordExternal(Event("approval_rejected"), Settling("settle_cancelled"), {})
    /\ UNCHANGED <<agent, token>> /\ Alone

\* RuntimeRecoveryManager.recover at the start of a process: the queues are gone
Restart ==
    /\ Idle /\ run.phase \notin TerminalPhases \cup {"idle"}
    /\ run' = [Reduce(run, Event("run_interrupted")) EXCEPT !.asking = FALSE]
    /\ steering' = << >> /\ followUp' = << >>
    /\ lost' = lost \cup Ids(steering) \cup Ids(followUp)
    /\ UNCHANGED <<agent, loop, token, faults>> /\ Hold /\ History

(***************************************************************************)
(* The turns of the loop.                                                  *)
(***************************************************************************)
AgentStart == At("agent_start") /\ Emit(Event("agent_start"), agent, Go("first_turn")) /\ Alone
FirstTurn == At("first_turn") /\ Emit(Event("turn_started"), agent, Go("prompts")) /\ Alone

EmitPrompt ==
    /\ At("prompts") /\ loop.pend # << >>
    /\ EmitMessage(Head(loop.pend), Event("message"), [loop EXCEPT !.pend = Tail(@)])
    /\ Alone

\* the first poll of the steering queue, skipped when continue_run has just drained it
PollSteering ==
    /\ At("prompts") /\ loop.pend = << >>
    /\ loop' = [loop EXCEPT !.pc = "turn", !.pend = IF loop.skip THEN << >> ELSE Drained(steering)]
    /\ steering' = IF loop.skip THEN steering ELSE Left(steering)
    /\ UNCHANGED <<agent, followUp, run, token, faults, lost>> /\ Hold /\ History

TurnsSpent == loop.turns >= dep.turns

\* the top of the inner loop: one Turn is charged before every model request
BeginTurn ==
    /\ At("turn")
    /\ LET charged == [loop EXCEPT !.pc = "inject", !.turns = @ + 1, !.first = FALSE] IN
       IF loop.first THEN loop' = charged /\ UNCHANGED <<agent, run, token, faults, lost>>
       ELSE IF TurnsSpent THEN Emit(Event("budget_exceeded"), agent, Go("agent_end"))
       ELSE Emit(Event("turn_started"), agent, charged)
    /\ Alone

\* drained steering and follow-up messages enter the conversation
Inject ==
    /\ At("inject") /\ loop.pend # << >>
    /\ EmitMessage(Head(loop.pend), Event("message"),
                   [loop EXCEPT !.pend = Tail(@), !.ctx = Append(@, Head(loop.pend))])
    /\ Alone

RequestModel ==
    /\ At("inject") /\ loop.pend = << >>
    /\ Emit(Event("model_request_started"), agent, [loop EXCEPT !.pc = "model", !.stream = "asked",
                                                !.ctx = Repaired(@), !.given = Repaired(loop.ctx)])
    /\ Alone

\* events of the stream are forwarded as they come (one retry or one compaction a request)
StreamStep ==
    {<<"asked", "model_retry_scheduled", "retrying">>,
     <<"retrying", "model_retry_attempt_started", "retried">>,
     <<"retried", "model_retry_finished", "again">>,
     <<"compacting", "context_compaction_finished", "again">>}
ForwardStreamEvent ==
    /\ At("model")
    /\ \E step \in StreamStep :
          /\ loop.stream = step[1]
          /\ Emit(Event(step[2]), agent, [loop EXCEPT !.stream = step[3]])
    /\ Alone

\* the Provider reports a context overflow: the replacement is sent, the overflow is the
\* answer, or the stream fails because the replacement does not verify
Overflow ==
    /\ At("model") /\ loop.stream = "asked"
    /\ LET new == Compacted(loop.given, dep.keep, dep.window)
           failed == AssistantMessage(<< >>, "error")
       IN CASE ~Verified(loop.given, new) ->
                  faults < MaxFaults /\ faults' = faults + 1 /\ Raise("error", agent) /\ UNCHANGED run
            [] Verified(loop.given, new) /\ ~WorthSending(loop.given, new, dep.window) ->
                  /\ loop' = [loop EXCEPT !.pc = "reply", !.reply = failed, !.ctx = Append(@, failed),
                                          !.call = << >>]
                  /\ UNCHANGED <<agent, run, token, faults, lost>>
            [] OTHER -> Emit(Event("context_compaction_started"), agent,
                             [loop EXCEPT !.stream = "compacting", !.given = new])
    /\ Alone

\* _preflight_assistant_tool_batch: ids that are missing or taken are replaced; the
\* uuid4 of the code is a number that no earlier message and no raw id has
FreshId(i) == (IdWidth + 1) * (Len(loop.ctx) + 1) + i
Preflight(raw) ==
    [i \in DOMAIN raw |->
        IF \/ raw[i] = 0 \/ raw[i] \in CallIds(loop.ctx)
           \/ \E j \in 1 .. i - 1 : raw[j] = raw[i]
        THEN FreshId(i) ELSE raw[i]]

\* the terminal event of the stream; `denied` is any other error of the batch
ModelReplies(raw, stop, denied) ==
    /\ At("model") /\ loop.stream \in {"asked", "again"}
    /\ denied => raw # << >> /\ stop = "stop"
    /\ LET calls == Sanitized(Preflight(raw), stop)
           reply == AssistantMessage(calls, stop)
       IN loop' = [loop EXCEPT !.pc = "reply", !.reply = reply, !.given = << >>,
                               !.ctx = Append(@, reply),
                               !.refused = denied \/ (calls # << >> /\ calls # raw),
                               !.call = [c \in ToSet(calls) |-> [phase |-> "new", kind |-> "none", tries |-> 0]]]
    /\ UNCHANGED <<agent, run, token, faults, lost>> /\ Alone

\* the batch is refused as a whole, or charged as a whole
ToolBudgetShort == loop.used + Len(loop.reply.calls) > dep.tools
AfterReply ==
    IF loop.reply.calls = << >> THEN [Go("turn_end") EXCEPT !.more = FALSE]
    ELSE IF ToolBudgetShort THEN [Go("deny") EXCEPT !.over = TRUE, !.more = FALSE]
    ELSE [loop EXCEPT !.used = @ + Len(loop.reply.calls),
                      !.pc = IF loop.refused \/ loop.reply.stop = "length" THEN "refuse" ELSE "guard",
                      !.more = loop.reply.stop # "length"]

CommitReply ==
    /\ At("reply")
    /\ EmitMessage(loop.reply, ToolEvent("model_response_finished", 0, loop.reply.stop), AfterReply)
    /\ Alone

DenyBudget == At("deny") /\ Emit(Event("budget_exceeded"), agent, Go("refuse")) /\ Alone

Current == loop.reply.calls[loop.index]
BatchLeft == loop.index <= Len(loop.reply.calls)
Noted(c, phase, kind) == [loop EXCEPT !.call[c].phase = phase, !.call[c].kind = kind]

\* a refused batch: a start, an end and a result for every call, in order
RefuseStart ==
    /\ At("refuse") /\ BatchLeft /\ loop.call[Current].phase = "new"
    /\ Emit(ToolEvent("tool_started", Current, "none"), agent, Noted(Current, "queued", "none"))
    /\ Alone
RefuseEnd ==
    /\ At("refuse") /\ BatchLeft /\ loop.call[Current].phase = "queued"
    /\ EmitToolEnd(Current, "skipped", "refused", Noted(Current, "ended", "skipped"))
    /\ Hold /\ Queues /\ UNCHANGED ran
RefuseResult ==
    /\ At("refuse") /\ BatchLeft /\ loop.call[Current].phase = "ended"
    /\ EmitMessage(ToolResult(Current, "skipped"), Event("message"), [loop EXCEPT !.index = @ + 1])
    /\ Alone

(***************************************************************************)
(* A dispatched batch (ToolDispatchRuntime.dispatch_many).                 *)
(***************************************************************************)
\* authorization and the before hook, call by call; a blocked call ends at once
GuardStart ==
    /\ At("guard") /\ BatchLeft /\ loop.call[Current].phase = "new"
    /\ Emit(ToolEvent("tool_started", Current, "none"), agent, Noted(Current, "queued", "none"))
    /\ Alone
GuardBlocks ==
    /\ At("guard") /\ BatchLeft /\ loop.call[Current].phase = "queued"
    /\ EmitToolEnd(Current, "skipped", "refused", [Noted(Current, "ended", "skipped") EXCEPT !.index = @ + 1])
    /\ Hold /\ Queues /\ UNCHANGED ran
GuardPasses ==
    /\ At("guard") /\ BatchLeft /\ loop.call[Current].phase = "queued"
    /\ loop' = [loop EXCEPT !.index = @ + 1]
    /\ UNCHANGED <<agent, run, token, faults, lost>> /\ Alone
GuardDone ==
    /\ At("guard") /\ ~BatchLeft
    /\ loop' = Go("tools")
    /\ UNCHANGED <<agent, run, token, faults, lost>> /\ Alone

\* the handler of c is entered: the event comes first
Dispatch(c) ==
    /\ At("tools") /\ loop.call[c].phase = "queued" /\ ~token
    /\ Emit(ToolEvent("tool_dispatch_started", c, "none"), agent,
            [Noted(c, "running", "none") EXCEPT !.call[c].tries = 1, !.attempts = @ + 1])
    /\ ran' = IF loop'.pc = "tools" THEN ran \cup {c} ELSE ran
    /\ Hold /\ Queues /\ UNCHANGED told

HandlerReturns(c, kind) ==
    /\ At("tools") /\ loop.call[c].phase = "running"
    /\ loop' = Noted(c, "finished", kind)
    /\ UNCHANGED <<agent, run, token, faults, lost>> /\ Alone

ScheduleRetry(c) ==
    /\ At("tools") /\ loop.call[c].phase = "running" /\ loop.call[c].tries < dep.attempts
    /\ Emit(ToolEvent("tool_retry_scheduled", c, "none"), agent, Noted(c, "backoff", "none"))
    /\ Alone

\* Mutant: the budget is compared one too late.
RetryAdmittedLate == ~loop.denied /\ loop.used <= dep.tools
\* try_consume_retry_attempt, under its lock
RetryAdmitted == ~loop.denied /\ loop.used < dep.tools
Retry(c) ==
    /\ At("tools") /\ loop.call[c].phase = "backoff" /\ ~token
    /\ IF RetryAdmitted
       THEN Emit(ToolEvent("tool_dispatch_started", c, "none"), agent,
                 [Noted(c, "running", "none") EXCEPT !.call[c].tries = @ + 1, !.used = @ + 1,
                                                     !.attempts = @ + 1])
       ELSE LET l == [Noted(c, "finished", "failed") EXCEPT !.denied = TRUE] IN
            IF loop.denied THEN loop' = l /\ UNCHANGED <<agent, run, token, faults, lost>>
            ELSE Emit(Event("budget_exceeded"), agent, l)
    /\ Alone

\* the cancelled token reaches a call: before dispatch it is skipped, afterwards unknown
CallCancelled(c) ==
    /\ At("tools") /\ token /\ loop.call[c].phase \in {"queued", "running", "backoff"}
    /\ loop' = Noted(c, "finished", IF loop.call[c].phase = "queued" THEN "skipped" ELSE "unknown")
    /\ UNCHANGED <<agent, run, token, faults, lost>> /\ Alone

CodeOf(kind) == CASE kind = "done" -> "ok" [] kind = "unknown" -> "outcome_unknown"
                  [] kind = "skipped" -> "tool_cancelled" [] OTHER -> "tool_error"
EndCall(c) ==
    /\ At("tools") /\ loop.call[c].phase = "finished"
    /\ EmitToolEnd(c, loop.call[c].kind, CodeOf(loop.call[c].kind), Noted(c, "ended", loop.call[c].kind))
    /\ Hold /\ Queues /\ UNCHANGED ran

\* every slot is filled; the batch may end the run if all its results ask for it
GatherCalls(terminate) ==
    /\ At("tools") /\ \A c \in DOMAIN loop.call : loop.call[c].phase = "ended"
    /\ terminate => \A c \in DOMAIN loop.call : loop.call[c].kind = "done"
    /\ loop' = [loop EXCEPT !.pc = "results", !.index = 1, !.over = loop.denied,
                            !.more = ~terminate /\ ~loop.denied]
    /\ UNCHANGED <<agent, run, token, faults, lost>> /\ Alone

EmitResult ==
    /\ At("results") /\ BatchLeft
    /\ EmitMessage(ToolResult(Current, loop.call[Current].kind), Event("message"),
                   [loop EXCEPT !.index = @ + 1])
    /\ Alone

(***************************************************************************)
(* The end of a Turn and of the run.                                       *)
(***************************************************************************)
BatchResults == [i \in DOMAIN loop.reply.calls |->
                    ToolResult(loop.reply.calls[i], loop.call[loop.reply.calls[i]].kind)]

KeepResults ==
    /\ loop.pc \in {"refuse", "results"} /\ ~BatchLeft
    /\ loop' = [loop EXCEPT !.pc = "turn_end", !.ctx = @ \o BatchResults, !.index = 1]
    /\ UNCHANGED <<agent, run, token, faults, lost>> /\ Alone

EndTurn == At("turn_end") /\ Emit(Event("turn_finished"), agent, Go("after")) /\ Alone

MustEnd == loop.reply.stop # "stop" \/ loop.over

\* should_stop_after_turn, the Turn budget, steering, and follow-ups last
StopAfterTurn ==
    /\ At("after")
    /\ loop' = Go("agent_end")
    /\ UNCHANGED <<agent, run, token, faults, lost>> /\ Alone
TurnBudget ==
    /\ At("after") /\ ~MustEnd /\ TurnsSpent /\ loop.more
    /\ Emit(Event("budget_exceeded"), agent, Go("agent_end"))
    /\ Alone
\* Mutant: follow-ups are drained together with the steering messages.
NextTurnDrainsBoth ==
    /\ At("after") /\ ~MustEnd /\ ~TurnsSpent
    /\ LET more == loop.more \/ steering # << >> IN
       /\ steering' = Left(steering)
       /\ followUp' = Left(followUp)
       /\ loop' = [loop EXCEPT !.pc = IF more \/ followUp # << >> THEN "turn" ELSE "agent_end",
                               !.pend = IF more THEN Drained(steering) ELSE Drained(followUp)]
    /\ UNCHANGED <<agent, run, token, faults, lost>> /\ Hold /\ History
NextTurn ==
    /\ At("after") /\ ~MustEnd /\ ~TurnsSpent
    /\ LET more == loop.more \/ steering # << >> IN
       /\ steering' = Left(steering)
       /\ followUp' = IF more THEN followUp ELSE Left(followUp)
       /\ loop' = [loop EXCEPT !.pc = IF more \/ followUp # << >> THEN "turn" ELSE "agent_end",
                               !.pend = IF more THEN Drained(steering) ELSE Drained(followUp)]
    /\ UNCHANGED <<agent, run, token, faults, lost>> /\ Hold /\ History

AgentEnd ==
    /\ At("agent_end")
    /\ Emit(Event("agent_end"), IdleAgent(agent.messages), IdleLoop)
    /\ Alone

(***************************************************************************)
(* Failure: the provider raises, the task is cancelled while it waits, and *)
(* the cleanup of _handle_run_failure.                                     *)
(***************************************************************************)
Interrupted(kind) ==
    /\ loop.pc \in {"model", "tools"} /\ faults < MaxFaults
    /\ kind = "error" => At("model")
    /\ faults' = faults + 1
    /\ Raise(kind, agent)
    /\ UNCHANGED run /\ Alone

RepairTranscript ==
    /\ At("fail")
    /\ \E kept \in {Materialized(agent.messages, agent.staged)} :
          agent' = [agent EXCEPT !.messages = Repaired(kept), !.staged = {}]
    /\ loop' = Go("fail_start")
    /\ UNCHANGED <<run, token, faults, lost>> /\ Alone

Failure == AssistantMessage(<< >>, IF loop.aborted THEN "aborted" ELSE "error")
FailStart == At("fail_start") /\ Emit(Event("assistant_start"), agent, Go("fail_message")) /\ Alone
FailMessage ==
    /\ At("fail_message")
    /\ EmitMessage(Failure, ToolEvent("model_response_finished", 0, Failure.stop), Go("fail_turn"))
    /\ Alone
FailTurn == At("fail_turn") /\ Emit(Event("turn_finished"), agent, Go("fail_end")) /\ Alone
FailEnd ==
    /\ At("fail_end")
    /\ Emit(Event("agent_end"), IdleAgent(agent.messages), IdleLoop)
    /\ Alone

(***************************************************************************)
(* Next and fairness.                                                      *)
(***************************************************************************)
Stops == {"stop", "error", "aborted", "length"}
Turn ==
    \/ AgentStart \/ FirstTurn \/ EmitPrompt \/ PollSteering \/ BeginTurn \/ Inject \/ RequestModel
    \/ ForwardStreamEvent \/ Overflow
    \/ \E raw \in dep.batches, stop \in Stops, denied \in BOOLEAN : ModelReplies(raw, stop, denied)
    \/ CommitReply \/ DenyBudget \/ RefuseStart \/ RefuseEnd \/ RefuseResult
    \/ EmitResult \/ KeepResults \/ EndTurn \/ StopAfterTurn \/ TurnBudget \/ NextTurn \/ AgentEnd
    \/ RepairTranscript \/ FailStart \/ FailMessage \/ FailTurn \/ FailEnd
    \/ \E decision \in {"agent", "answered", "approval", "blocked", "error"} : RouteDecided(decision)
    \/ RouteOpens \/ EnterAgent \/ RunSettles
    \/ \E outcome \in {"settle_completed", "settle_failed", "settle_unknown"} : ApprovedWriteEnds(outcome)
Tools ==
    \/ GuardStart \/ GuardBlocks \/ GuardPasses \/ GuardDone
    \/ \E terminate \in BOOLEAN : GatherCalls(terminate)
    \/ \E c \in DOMAIN loop.call :
          \/ Dispatch(c) \/ ScheduleRetry(c) \/ Retry(c) \/ CallCancelled(c) \/ EndCall(c)
          \/ \E kind \in {"done", "failed"} : HandlerReturns(c, kind)
Environment ==
    \/ \E u \in Users : Prompt(u) \/ RoutedPrompt(u) \/ Steer(u) \/ FollowUp(u)
    \/ ContinueRun \/ Abort \/ Reset \/ Restart
    \/ ApprovalGranted \/ ApprovalRefused \/ ApprovalRejected
    \/ \E kind \in {"error", "cancel"} : Interrupted(kind)

Next == Turn \/ Tools \/ Environment
Spec == Init /\ [][Next]_vars /\ WF_vars(Turn \/ Tools)

(***************************************************************************)
(* Properties.                                                             *)
(***************************************************************************)
Conversation == INSTANCE ToolProtocol WITH log <- agent.messages

\* agent.py and loop.py together implement the protocol of a transcript: whatever
\* listener fails or whenever the task is cancelled, nothing is said over an open
\* Tool Call, every call gets exactly one result and is answered in the end, and no
\* call id is used twice.
TranscriptProtocol == Conversation!Protocol

\* agent.py:_materialize_staged_tool_results: a result announced by tool_execution_end
\* is the one the transcript has when the Agent is idle again; the repair after a
\* failed run never replaces it with "not executed".
CommittedResultKept ==
    Idle => \A t \in told : t[1] \in CallIds(agent.messages) =>
                \E i \in DOMAIN agent.messages : agent.messages[i] = ToolResult(t[1], t[2])

\* agent.py:_PendingMessageQueue, loop.py:700: a user message is never delivered twice,
\* and unless a failed run, a refusal, a reset or a restart discarded it, it is in a
\* queue, about to be injected, or in the conversation.
Waiting == steering \o followUp \o loop.pend
Occurrences(u) ==
    Cardinality({i \in DOMAIN Waiting : Waiting[i].id = u})
      + Cardinality({i \in DOMAIN agent.messages : agent.messages[i] = UserMessage(u)})
MessagesOnce == \A u \in sent : Occurrences(u) <= 1 /\ (u \notin lost => Occurrences(u) = 1)

\* runtime/reducer.py: a Run the tracker recorded as completed has no open Tool Call, and
\* the conversation does not end with a failed, aborted or truncated model response; when
\* the Agent is idle the Run is settled, waits for an approval or for the reconciliation of
\* its Write, or was abandoned by its router or its approval, never by the loop: a record of
\* theirs failed or was cancelled, and no Tool Call of the Run was ever started.
LastReply(log) == LET I == {i \in DOMAIN log : log[i].role = "assistant"}
                  IN IF I = {} THEN NoReply ELSE log[CHOOSE i \in I : \A j \in I : j <= i]
Abandoned == dep.routed /\ faults # 0 /\ run.phase \in {"running", "routing"} /\ run.tools = << >>
TruthfulRun ==
    /\ run.phase = "completed" =>
          OpenTools(run) = {} /\ (~dep.routed => loop.reply.stop \in {"none", "stop"})
    /\ Idle /\ run.phase = "completed" /\ ~dep.routed =>
          LastReply(agent.messages).stop \in {"none", "stop"}
    /\ Idle => \/ run.phase \in TerminalPhases \cup {"idle"}
               \/ dep.routed /\ run.phase \in {"waiting_approval", "outcome_unknown"}
               \/ Abandoned

\* loop.py:_RunBudgetState: the attempts of all Tool Calls of a run, retries of parallel
\* calls included, and its Turns stay within the budgets.
WithinBudget == loop.attempts <= dep.tools /\ loop.turns <= dep.turns

\* loop.py:_stream_assistant_response, retry/compaction.py: the loop's context is the
\* conversation the Agent holds, and what the Provider is given, compacted or not, is a
\* closed transcript that ends like it and has, or has summarized, all its Tool Calls.
RequestIsFaithful ==
    At("model") =>
        /\ loop.ctx = agent.messages
        /\ Closed(loop.given) /\ Last(loop.given) = Last(loop.ctx)
        /\ CallIds(loop.ctx) \subseteq CallIds(loop.given) \cup Summarized(loop.given)
=============================================================================
