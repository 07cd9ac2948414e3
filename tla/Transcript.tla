----------------------------- MODULE Transcript -----------------------------
(***************************************************************************)
(* A conversation as a sequence of messages (messages.py) and the pairing  *)
(* of Tool Calls with Tool Results (transcript.py).  A call is identified  *)
(* by a number; 0 stands for an id that is missing or empty.               *)
(***************************************************************************)
EXTENDS Naturals, Sequences, SequencesExt, FiniteSets

\* how a Tool Result came about: the handler's own outcome, a refusal before
\* dispatch, an unknown outcome, or a result written in by a repair
Kinds == {"done", "failed", "unknown", "skipped", "repaired"}

UserMessage(id) == [role |-> "user", id |-> id]
AssistantMessage(calls, stop) == [role |-> "assistant", calls |-> calls, stop |-> stop]
ToolResult(call, kind) == [role |-> "result", call |-> call, kind |-> kind]

CallsOf(m) == IF m.role = "assistant" THEN m.calls ELSE << >>
CallIds(log) == UNION {ToSet(CallsOf(log[i])) : i \in DOMAIN log}
AnsweredAfter(log, i) == {log[j].call : j \in {k \in DOMAIN log : k > i /\ log[k].role = "result"}}

\* the calls that are not in the set answered, in their order
Unanswered(calls, answered) ==
    LET left[n \in 0 .. Len(calls)] ==
            IF n = 0 THEN << >>
            ELSE IF calls[n] \in answered THEN left[n - 1] ELSE Append(left[n - 1], calls[n])
    IN left[Len(calls)]

\* the calls the analysis still has pending at the end of the transcript
Pending(log) ==
    IF \A i \in DOMAIN log : log[i].role = "result" THEN << >>
    ELSE LET open == [i \in DOMAIN log |-> Unanswered(CallsOf(log[i]), AnsweredAfter(log, i))]
         IN open[CHOOSE i \in DOMAIN log :
                     /\ log[i].role # "result"
                     /\ \A j \in i + 1 .. Len(log) : log[j].role = "result"]

\* validate_closed_tool_call_transcript: every result directly follows the message that
\* made its call, with other results of it in between, and no call is left open
Closed(log) ==
    /\ \A i \in DOMAIN log : log[i].role = "result" =>
          \E j \in 1 .. i - 1 : /\ log[i].call \in ToSet(CallsOf(log[j]))
                              /\ \A k \in j + 1 .. i - 1 : log[k].role = "result" /\ log[k].call # log[i].call
    /\ \A i \in DOMAIN log : log[i].role # "result" => Pending(SubSeq(log, 1, i - 1)) = << >>
    /\ Pending(log) = << >>

\* Mutant: the repair returns the messages as they are.
RepairedNone(log) == log
\* repair_unresolved_tool_calls: one synthetic result per pending call, in order
Repaired(log) == log \o [i \in DOMAIN Pending(log) |-> ToolResult(Pending(log)[i], "repaired")]

\* Mutant: the staged results are forgotten.
MaterializedNone(log, staged) == log
\* _materialize_staged_tool_results: the real results that are staged go first
Materialized(log, staged) ==
    LET unknown == ToSet(Pending(log)) \ {r.call : r \in staged}
        known == Unanswered(Pending(log), unknown)
    IN log \o [i \in DOMAIN known |-> CHOOSE r \in staged : r.call = known[i]]

\* sanitize_terminal_assistant_tool_calls
Sanitized(calls, stop) == IF stop \in {"error", "aborted"} THEN << >> ELSE calls
=============================================================================
