----------------------------- MODULE Compaction -----------------------------
(***************************************************************************)
(* Replacing a context the Provider found too long (retry/compaction.py).  *)
(* Every message costs one token, and so does the structured summary,      *)
(* which stands first and keeps the Tool interactions of what it replaces. *)
(* window = 0 selects the sliding window, any other value the token-aware  *)
(* compactor with that many available tokens.                              *)
(***************************************************************************)
EXTENDS Transcript

SummaryMessage(calls) == [role |-> "summary", calls |-> calls]
Summarized(log) == UNION {IF log[i].role = "summary" THEN log[i].calls ELSE {} : i \in DOMAIN log}

\* _message_units: an assistant message and the results of its calls stay together
UnitOf(log, i) == {i} \cup {j \in DOMAIN log : log[j].role = "result" /\ log[j].call \in ToSet(CallsOf(log[i]))}
UnitStarts(log) == {i \in DOMAIN log : log[i].role # "result"}

\* the messages of the selected units, in their order
Retained(log, units) ==
    LET kept == UNION {UnitOf(log, i) : i \in units}
        upTo[n \in 0 .. Len(log)] ==
            IF n = 0 THEN << >>
            ELSE IF n \in kept THEN Append(upTo[n - 1], log[n]) ELSE upTo[n - 1]
    IN upTo[Len(log)]

\* _build_replacement
Replacement(log, units) ==
    LET dropped == UnitStarts(log) \ units
        calls == UNION {ToSet(CallsOf(log[i])) : i \in dropped} \cup Summarized(log)
    IN IF dropped = {} THEN log ELSE <<SummaryMessage(calls)>> \o Retained(log, units)

\* the newest messages must stay (so must the critical ones, which the code tells by their
\* words and which are left out here); older units join, newest first, while they fit
Mandatory(log, keep) == {i \in UnitStarts(log) : \E j \in UnitOf(log, i) : j > Len(log) - keep}
Fits(log, units, window) == Len(Replacement(log, units)) <= window
Selected(log, keep, window) ==
    LET units[n \in 0 .. Len(log)] ==      \* after the newest n messages
            IF n = 0 THEN Mandatory(log, keep)
            ELSE LET more == units[n - 1] \cup {Len(log) - n + 1} IN
                 IF Len(log) - n + 1 \in UnitStarts(log) \ units[n - 1] /\ Fits(log, more, window)
                 THEN more ELSE units[n - 1]
    IN units[Len(log)]

TokenAware(log, keep, window) == Replacement(log, Selected(log, keep, window))

SlidingWindow(log, keep) ==
    SubSeq(log, IF Len(log) > keep THEN Len(log) - keep + 1 ELSE 1, Len(log))

Compacted(log, keep, window) ==
    IF window = 0 THEN SlidingWindow(log, keep) ELSE TokenAware(log, keep, window)

\* Mutant: any replacement is accepted.
VerifiedNot(log, new) == TRUE
\* validate_context_replacement: closed, and no Tool interaction lost
Verified(log, new) == Closed(new) /\ CallIds(log) \subseteq CallIds(new) \cup Summarized(new)

\* a replacement over its budget, or no smaller than the source, is never sent
WorthSending(log, new, window) == Len(new) < Len(log) /\ (window > 0 => Len(new) <= window)
=============================================================================
