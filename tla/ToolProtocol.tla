---------------------------- MODULE ToolProtocol ----------------------------
(***************************************************************************)
(* What a transcript promises to the Provider and to the recovery code:    *)
(* nothing is said while a Tool Call waits for its result, every call gets *)
(* one result, no call id is used twice, and every call is answered in the *)
(* end.  The conversation may be cleared when nothing is pending.          *)
(***************************************************************************)
EXTENDS Transcript

VARIABLE log

Start == log = << >>

\* a user or an assistant message, with new call ids, while nothing is pending
Say ==
    /\ Pending(log) = << >>
    /\ Len(log') = Len(log) + 1
    /\ IsPrefix(log, log')
    /\ Last(log').role \in {"user", "assistant"}
    /\ IsInjective(CallsOf(Last(log')))
    /\ ToSet(CallsOf(Last(log'))) \cap (CallIds(log) \cup {0}) = {}

\* results for some of the pending calls
Answer ==
    \E order \in UNION {SetToSeqs(S) : S \in SUBSET ToSet(Pending(log))} :
        \E kind \in [DOMAIN order -> Kinds] :
            /\ order # << >>
            /\ log' = log \o [i \in DOMAIN order |-> ToolResult(order[i], kind[i])]

Clear == Pending(log) = << >> /\ log' = << >>

ProtocolNext == Say \/ Answer \/ Clear
Protocol == Start /\ [][ProtocolNext]_log /\ WF_log(Answer)
=============================================================================
