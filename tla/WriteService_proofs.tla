------------------------ MODULE WriteService_proofs ------------------------
(***************************************************************************)
(* The Approval and Write services, and recovery on top of them, for any   *)
(* number of workers.                                                      *)
(*                                                                         *)
(* A batch is replayed when it is built and appended only if the log has   *)
(* not grown, so an appended batch is accepted event by event.  What one   *)
(* accepted event keeps is therefore kept by a batch, by induction on its  *)
(* length.  Each event a worker holds carries evidence about the external  *)
(* system (Evidence), which never becomes wrong again.                     *)
(*                                                                         *)
(* Recovery runs beside the services on the same log.  Its invariant RInv  *)
(* speaks of a recovering worker's plan only while the worker holds the    *)
(* lease (RecOK): the plan of a worker that lost it may be stale, but the  *)
(* fence of the append keeps it out of the log.  That RInv holds where     *)
(* recovery starts is a walk along every log a crashed host leaves (Host,  *)
(* Leads): each prefix of it replays to an Operation RInv allows.          *)
(***************************************************************************)
EXTENDS WriteSettlement, Recovery, SequenceTheorems, WellFoundedInduction, TLAPS

Unclaimed == {"none", "prepared", "waiting_approval", "approved"}

\* The phases of an Operation that goes on.
Live == Phases \ (Terminal \cup {"rejected"})

\* What the recorded state of the Write says about the external system x.
WriteOK(o, x) ==
    /\ x.sent > 0 => o.write.state \notin Unclaimed
    /\ o.write.state \in {"outcome_unknown", "reconciling", "succeeded", "failed"} => x.sent > 0
    /\ o.write.state = "succeeded" => x.applied > 0
    /\ o.write.state = "failed" => x.applied = 0 /\ x.inflight = 0

\* What an event that a worker holds says about it.
Evidence(e, x) ==
    /\ e.type \in {"write_outcome_unknown", "write_succeeded", "write_failed"} => x.sent > 0
    /\ e.type = "write_succeeded" => x.applied > 0
    /\ e.type = "write_failed" => x.applied = 0 /\ x.inflight = 0

EffectOK(x) == x.sent <= 1 /\ x.inflight + x.applied <= x.sent

Decisions == {"approval_granted", "approval_rejected", "approval_consumed"}
Entries == {"write_reconciling", "write_reconcile_reentered"}

AllEvidence(specs, x) == \A i \in 1..Len(specs) : Evidence(specs[i], x)
DecidesNothing(specs) == \A i \in 1..Len(specs) : specs[i].type \notin Decisions
LastType(specs) == specs[Len(specs)].type

\* A worker at the append transaction, with the log at o and v.
AppendOK(c, o, v, x) ==
    /\ c.kind # "none" /\ c.specs # << >> /\ c.ver <= v
    /\ c.ver = v => ReplayWithSpecs(o, c.specs) # Rejected
    /\ c.kind = "execute" => LastType(c.specs) = "write_submitting"
    /\ c.kind = "enter" => LastType(c.specs) \in Entries
    /\ c.kind \in {"finish", "cleanup"} => x.sent > 0
    /\ c.kind \notin {"service", "execute"} => ~c.deadline
    /\ ~c.deadline => DecidesNothing(c.specs)

CallOK(c, o, v, x) ==
    /\ AllEvidence(c.specs, x)
    /\ c.pc = "append" => AppendOK(c, o, v, x)
    /\ c.pc \in {"acquire", "enter", "finish", "verdict", "report"} =>
          c.specs # << >> /\ DecidesNothing(c.specs)
    /\ c.pc \in {"acquire", "enter"} => LastType(c.specs) \in Entries
    /\ c.pc = "acquire" => Len(c.specs) = 1
    /\ c.pc \in {"handling", "finish", "cleanup", "checking"} => x.sent > 0
    /\ c.pc = "submitted" => x.sent = 0 /\ o.write.state \notin Unclaimed

Inv ==
    /\ TypeOK
    /\ op.phase \in Live
    /\ EffectOK(effect)
    /\ WriteOK(op, effect)
    /\ \A w \in Workers : CallOK(call[w], op, ver, effect)
    /\ \A v, w \in Workers : call[v].pc = "submitted" /\ call[w].pc = "submitted" => v = w

-----------------------------------------------------------------------------
(* Replaying a batch *)

\* Induction on the natural numbers, for a set.
LEMMA SetInduction ==
  ASSUME NEW T \in SUBSET Nat, 0 \in T, \A n \in T : n + 1 \in T
  PROVE  T = Nat
<1> SUFFICES ASSUME Nat \ T # {} PROVE FALSE
  OBVIOUS
<1> DEFINE less == OpToRel(<, Nat)
           rest == Nat \ T
<1>1. IsWellFoundedOn(less, Nat)
  BY NatLessThanWellFounded
<1>2. \A x \in Nat, y \in Nat : <<x, y>> \in less <=> x < y
  BY DEF OpToRel
<1>3. rest \subseteq Nat /\ rest # {}
  OBVIOUS
<1> HIDE DEF less, rest
<1>4. PICK m \in rest : \A y \in rest : <<y, m>> \notin less
  BY <1>1, <1>3, WFMin
<1>5. m \in Nat /\ m - 1 \in Nat /\ m - 1 < m
  BY <1>4 DEF rest
<1>6. m - 1 \in rest
  <2>1. (m - 1) + 1 = m
    BY <1>5
  <2> QED
    BY <1>4, <1>5, <2>1 DEF rest
<1>7. <<m - 1, m>> \in less
  BY <1>2, <1>5
<1> QED
  BY <1>4, <1>6, <1>7

\* The states a batch goes through, as the function that ReplayWithSpecs
\* defines by recursion.
Passes(o, specs, h) ==
    h = [n \in 0..Len(specs) |-> IF n = 0 THEN o ELSE Reduce(h[n - 1], specs[n])]

LEMMA ReplayPasses ==
  ASSUME NEW o, NEW specs, Len(specs) \in Nat
  PROVE  \E h : Passes(o, specs, h) /\ ReplayWithSpecs(o, specs) = h[Len(specs)]
<1> DEFINE Upto(k, h) == h = [n \in 0..k |-> IF n = 0 THEN o ELSE Reduce(h[n - 1], specs[n])]
           T == {k \in Nat : \E h : Upto(k, h)}
<1>1. 0 \in T
  <2> DEFINE h == [n \in 0..0 |-> o]
  <2>1. Upto(0, h)
    OBVIOUS
  <2> HIDE DEF h
  <2> QED
    BY <2>1
<1>2. ASSUME NEW k \in T PROVE k + 1 \in T
  <2>1. PICK h : Upto(k, h)
    OBVIOUS
  <2> DEFINE g == [n \in 0..(k + 1) |-> IF n = k + 1 THEN Reduce(h[k], specs[k + 1]) ELSE h[n]]
  <2>2. ASSUME NEW n \in 0..(k + 1)
        PROVE  g[n] = IF n = 0 THEN o ELSE Reduce(g[n - 1], specs[n])
    <3>1. CASE n = k + 1
      BY <3>1
    <3>2. CASE n # k + 1
      BY <2>1, <3>2
    <3> QED
      BY <3>1, <3>2
  <2>3. Upto(k + 1, g)
    BY <2>2
  <2>4. k + 1 \in Nat
    OBVIOUS
  <2> HIDE DEF g
  <2>5. \E f : Upto(k + 1, f)
    BY <2>3
  <2> QED
    BY <2>4, <2>5, Zenon
<1> HIDE DEF T
<1>3. T = Nat
  <2>1. T \in SUBSET Nat
    BY DEF T
  <2> QED
    BY <1>1, <1>2, <2>1, SetInduction
<1>4. \E h : Passes(o, specs, h)
  BY <1>3 DEF T, Passes
<1> DEFINE h == CHOOSE f : Passes(o, specs, f)
<1>5. Passes(o, specs, h)
  BY <1>4
<1>6. ReplayWithSpecs(o, specs) = h[Len(specs)]
  BY DEF ReplayWithSpecs, Passes
<1> QED
  BY <1>5, <1>6

-----------------------------------------------------------------------------
(* The reducer *)

LEMMA WriteMovedFacts ==
  ASSUME NEW o \in Operations, NEW state \in WriteStates, NEW phase \in Phases
  PROVE  /\ WriteMoved(o, state, phase) \in Operations
         /\ WriteMoved(o, state, phase).write.state = state
         /\ WriteMoved(o, state, phase).approval = o.approval
         /\ WriteMoved(o, state, phase).phase = phase
  BY DEF WriteMoved, Operations, WriteRecords

LEMMA ApprovalMovedFacts ==
  ASSUME NEW o \in Operations, NEW state \in ApprovalStates, NEW resume \in ResumeStates,
         NEW phase \in Phases
  PROVE  /\ ApprovalMoved(o, state, resume, phase) \in Operations
         /\ ApprovalMoved(o, state, resume, phase).approval.state = state
         /\ ApprovalMoved(o, state, resume, phase).write = o.write
         /\ ApprovalMoved(o, state, resume, phase).phase = phase
  BY DEF ApprovalMoved, Operations, ApprovalRecords

LEMMA EventFacts ==
  ASSUME NEW e \in ServiceEvents
  PROVE  /\ e.type \in {"approval_requested", "approval_granted", "approval_rejected",
                        "approval_consumed", "approval_expired", "write_waiting_approval",
                        "write_approved", "write_submitting", "write_outcome_unknown",
                        "tool_dispatch_started", "write_prepared", "write_succeeded",
                        "write_reconciling", "write_reconcile_reentered", "write_reconcile_failed",
                        "write_reconcile_deferred", "write_failed", "tool_completed",
                        "tool_outcome_unknown", "message_appended"}
         /\ e.type = "write_prepared" => e.tool \in BOOLEAN
         /\ e.type \in {"write_reconciling", "write_reconcile_reentered"} => e.token \in Nat
         /\ e.type = "write_failed" => ~e.denied
         /\ e.type \in {"tool_completed", "tool_outcome_unknown"} => e.result \in ToolResults
         /\ e.type = "message_appended" => e.message = "toolResult"
  BY DEF ServiceEvents

\* What an accepted event does to the state of the Write and of the Approval.
WriteMove(old, new, type) ==
    CASE type = "write_prepared" -> old = "none" /\ new = "prepared"
      [] type = "write_waiting_approval" -> old = "prepared" /\ new = "waiting_approval"
      [] type = "write_approved" -> old \in {"prepared", "waiting_approval"} /\ new = "approved"
      [] type = "write_submitting" -> old = "approved" /\ new = "submitting"
      [] type = "write_succeeded" -> old \in {"submitting", "reconciling"} /\ new = "succeeded"
      [] type = "write_failed" -> old \in {"submitting", "reconciling"} /\ new = "failed"
      [] type = "write_outcome_unknown" -> old = "submitting" /\ new = "outcome_unknown"
      [] type \in {"write_reconcile_failed", "write_reconcile_deferred"} ->
            old = "reconciling" /\ new = "outcome_unknown"
      [] type = "write_reconciling" -> old = "outcome_unknown" /\ new = "reconciling"
      [] type = "write_reconcile_reentered" -> old = "reconciling" /\ new = "reconciling"
      [] OTHER -> new = old

ApprovalMove(old, new, type) ==
    CASE type = "approval_requested" -> old = "none" /\ new = "waiting"
      [] type = "approval_expired" -> old = "waiting" /\ new = "expired"
      [] type \in Decisions -> TRUE
      [] OTHER -> new = old

LEMMA ReduceFacts ==
  ASSUME NEW o \in Operations, NEW e \in ServiceEvents, Reduce(o, e) # Rejected
  PROVE  /\ Reduce(o, e) \in Operations
         /\ Reduce(o, e).phase \in Live
         /\ WriteMove(o.write.state, Reduce(o, e).write.state, e.type)
         /\ ApprovalMove(o.approval.state, Reduce(o, e).approval.state, e.type)
<1> DEFINE n == Reduce(o, e)
<1>1. Accepts(o, e) /\ n = Applied(o, e) /\ o.phase # "rejected"
  BY DEF Reduce
<1>2. /\ o.write \in WriteRecords /\ o.approval \in ApprovalRecords /\ o.tool \in ToolRecords
      /\ o.transcript \in Transcripts /\ o.phase \in Phases
      /\ o.write.state \in WriteStates /\ o.approval.state \in ApprovalStates
      /\ o.approval.resume \in ResumeStates /\ o.phase \in Live
  BY <1>1 DEF Accepts, Live, Operations, WriteRecords, ApprovalRecords
<1> HIDE DEF n
<1> SUFFICES /\ n \in Operations
             /\ n.phase \in Live
             /\ WriteMove(o.write.state, n.write.state, e.type)
             /\ ApprovalMove(o.approval.state, n.approval.state, e.type)
  BY DEF n
<1> DEFINE types == {"approval_requested", "approval_granted", "approval_rejected",
                     "approval_consumed", "approval_expired"}
<1>0. /\ e.type = "write_prepared" => e.tool \in BOOLEAN
      /\ e.type \in {"write_reconciling", "write_reconcile_reentered"} => e.token \in Nat
      /\ e.type = "write_failed" => ~e.denied
      /\ e.type \in {"tool_completed", "tool_outcome_unknown"} => e.result \in ToolResults
      /\ e.type = "message_appended" => e.message = "toolResult"
  BY EventFacts
<1>3. CASE e.type = "message_appended"
  <2>1. n = MessageApplied(o, e)
    BY <1>1, <1>3 DEF Applied, MessageEvents, ToolEvents, ApprovalEvents, WriteEvents
  <2>2. n = [o EXCEPT !.transcript = TranscriptAfter(o.transcript, e.message)]
    BY <2>1, <1>3 DEF MessageApplied
  <2>3. TranscriptAfter(o.transcript, e.message) \in Transcripts
    BY <1>0, <1>3 DEF TranscriptAfter, Transcripts
  <2>4. n \in Operations /\ n.write = o.write /\ n.approval = o.approval /\ n.phase = o.phase
    BY <2>2, <2>3 DEF Operations
  <2> QED
    BY <1>2, <1>3, <2>4 DEF WriteMove, ApprovalMove, Decisions
<1>4. CASE e.type = "tool_dispatch_started"
  <2>0. n = ToolApplied(o, e)
    BY <1>1, <1>4 DEF Applied, MessageEvents, ToolEvents, ApprovalEvents, WriteEvents
  <2>1. n = [o EXCEPT !.tool.phase = "dispatch_started"]
    BY <2>0, <1>4 DEF ToolApplied
  <2>2. n \in Operations /\ n.write = o.write /\ n.approval = o.approval /\ n.phase = o.phase
    BY <2>1 DEF Operations, ToolRecords, ToolPhases
  <2> QED
    BY <1>2, <1>4, <2>2 DEF WriteMove, ApprovalMove, Decisions
<1>5. CASE e.type \in {"tool_completed", "tool_outcome_unknown"}
  <2>0. n = ToolApplied(o, e)
    BY <1>1, <1>5 DEF Applied, MessageEvents, ToolEvents, ApprovalEvents, WriteEvents
  <2>1. PICK phase \in ToolPhases : n = [o EXCEPT !.tool.phase = phase, !.tool.result = e.result]
    <3>1. CASE e.type = "tool_completed"
      BY <2>0, <3>1 DEF ToolApplied, ToolPhases
    <3>2. CASE e.type = "tool_outcome_unknown"
      BY <2>0, <3>2 DEF ToolApplied, ToolPhases
    <3> QED
      BY <1>5, <3>1, <3>2
  <2>2. n \in Operations /\ n.write = o.write /\ n.approval = o.approval /\ n.phase = o.phase
    BY <1>0, <1>5, <2>1 DEF Operations, ToolRecords
  <2> QED
    BY <1>2, <1>5, <2>2 DEF WriteMove, ApprovalMove, Decisions
<1>6. CASE e.type \in types
  <2>1. ApprovalAccepted(o, e) /\ n = ApprovalApplied(o, e)
    <3>1. /\ e.type \notin MessageEvents /\ e.type \notin ToolEvents /\ e.type \in ApprovalEvents
          /\ e.type \notin WriteEvents /\ e.type # "operation_finished"
      BY <1>6 DEF MessageEvents, ToolEvents, ApprovalEvents, WriteEvents
    <3>2. ApprovalAccepted(o, e)
      BY <1>1, <3>1 DEF Accepts
    <3>3. n = ApprovalApplied(o, e)
      BY <1>1, <3>1 DEF Applied
    <3> QED
      BY <3>2, <3>3
  <2>2. PICK state \in ApprovalStates, resume \in ResumeStates, phase \in Live :
           /\ n = ApprovalMoved(o, state, resume, phase)
           /\ e.type = "approval_requested" => state = "waiting"
           /\ e.type = "approval_expired" => state = "expired"
    <3>1. CASE e.type = "approval_requested"
      <4>1. n = ApprovalMoved(o, "waiting", "unregistered", "waiting_approval")
        BY <2>1, <3>1 DEF ApprovalApplied
      <4> QED
        BY <4>1, <3>1 DEF ApprovalStates, ResumeStates, Phases, Live, Terminal
    <3>2. CASE e.type = "approval_granted"
      <4>1. n = ApprovalMoved(o, "approved", o.approval.resume, "ready_to_resume")
        BY <2>1, <3>2 DEF ApprovalApplied
      <4> QED
        BY <4>1, <3>2, <1>2 DEF ApprovalStates, Phases, Live, Terminal
    <3>3. CASE e.type = "approval_consumed"
      <4>1. n = ApprovalMoved(o, "consumed", o.approval.resume, "ready_to_resume")
        BY <2>1, <3>3 DEF ApprovalApplied
      <4> QED
        BY <4>1, <3>3, <1>2 DEF ApprovalStates, Phases, Live, Terminal
    <3>4. CASE e.type = "approval_rejected"
      <4>1. n = ApprovalMoved(o, "rejected", "cancelled", "running")
        BY <2>1, <3>4 DEF ApprovalApplied
      <4> QED
        BY <4>1, <3>4 DEF ApprovalStates, ResumeStates, Phases, Live, Terminal
    <3>5. CASE e.type = "approval_expired"
      <4>1. n = ApprovalMoved(o, "expired", "cancelled", "running")
        BY <2>1, <3>5 DEF ApprovalApplied
      <4> QED
        BY <4>1, <3>5 DEF ApprovalStates, ResumeStates, Phases, Live, Terminal
    <3> QED
      BY <1>6, <3>1, <3>2, <3>3, <3>4, <3>5
  <2>3. n \in Operations /\ n.write = o.write /\ n.approval.state = state /\ n.phase = phase
    BY <2>2, ApprovalMovedFacts DEF Live
  <2>4. /\ e.type = "approval_requested" => o.approval.state = "none"
        /\ e.type = "approval_expired" => o.approval.state = "waiting"
    BY <1>6, <2>1 DEF ApprovalAccepted
  <2> QED
    BY <1>6, <2>2, <2>3, <2>4 DEF WriteMove, ApprovalMove, Decisions
<1>7. CASE e.type \in WriteEvents
  <2>1. WriteAccepted(o, e) /\ n = WriteApplied(o, e)
    BY <1>1, <1>7 DEF Accepts, Applied, MessageEvents, ToolEvents, ApprovalEvents, WriteEvents
  <2>2. CASE e.type = "write_prepared"
    <3>1. o.write.state = "none"
      BY <2>1, <2>2 DEF WriteAccepted
    <3>2. n = [o EXCEPT !.write.state = "prepared", !.write.tool = e.tool]
      BY <2>1, <2>2 DEF WriteApplied
    <3>3. n \in Operations /\ n.write.state = "prepared" /\ n.approval = o.approval /\ n.phase = o.phase
      BY <1>0, <2>2, <3>2 DEF Operations, WriteRecords, WriteStates
    <3> QED
      BY <1>2, <2>2, <3>1, <3>3 DEF WriteMove, ApprovalMove, Decisions
  <2>3. CASE e.type = "write_waiting_approval"
    <3>1. o.write.state = "prepared"
      BY <2>1, <2>3 DEF WriteAccepted
    <3> DEFINE m == WriteMoved(o, "waiting_approval", "waiting_approval")
    <3>2. n = [m EXCEPT !.write.approval = TRUE]
      BY <2>1, <2>3 DEF WriteApplied
    <3>3. m \in Operations /\ m.write.state = "waiting_approval" /\ m.approval = o.approval
          /\ m.phase = "waiting_approval"
      BY WriteMovedFacts DEF WriteStates, Phases
    <3> HIDE DEF m
    <3>4. n \in Operations /\ n.write.state = "waiting_approval" /\ n.approval = o.approval
          /\ n.phase = "waiting_approval"
      BY <3>2, <3>3 DEF Operations, WriteRecords
    <3> QED
      BY <2>3, <3>1, <3>4 DEF WriteMove, ApprovalMove, Decisions, Live, Phases, Terminal
  <2>4. CASE e.type \in {"write_reconciling", "write_reconcile_reentered"}
    <3>1. o.write.state = IF e.type = "write_reconciling" THEN "outcome_unknown" ELSE "reconciling"
      BY <2>1, <2>4 DEF WriteAccepted
    <3> DEFINE m == WriteMoved(o, "reconciling", "outcome_unknown")
    <3>2. n = [m EXCEPT !.write.token = e.token]
      BY <2>1, <2>4 DEF WriteApplied
    <3>3. m \in Operations /\ m.write.state = "reconciling" /\ m.approval = o.approval
          /\ m.phase = "outcome_unknown"
      BY WriteMovedFacts DEF WriteStates, Phases
    <3> HIDE DEF m
    <3>4. n \in Operations /\ n.write.state = "reconciling" /\ n.approval = o.approval
          /\ n.phase = "outcome_unknown"
      BY <1>0, <2>4, <3>2, <3>3 DEF Operations, WriteRecords
    <3> QED
      BY <2>4, <3>1, <3>4 DEF WriteMove, ApprovalMove, Decisions, Live, Phases, Terminal
  <2>5. CASE e.type \notin {"write_prepared", "write_waiting_approval", "write_reconciling",
                            "write_reconcile_reentered"}
    <3>1. PICK state \in WriteStates, phase \in Live :
            /\ n = WriteMoved(o, state, phase)
            /\ state = CASE e.type = "write_approved" -> "approved"
                         [] e.type = "write_submitting" -> "submitting"
                         [] e.type = "write_succeeded" -> "succeeded"
                         [] e.type = "write_failed" -> "failed"
                         [] OTHER -> "outcome_unknown"
      BY <1>7, <2>1, <2>5 DEF WriteApplied, WriteEvents, WriteStates, Phases, Live, Terminal
    <3>2. n \in Operations /\ n.write.state = state /\ n.approval = o.approval /\ n.phase = phase
      BY <3>1, WriteMovedFacts DEF Live
    <3>3. CASE e.type = "write_approved"
      BY <2>1, <3>1, <3>2, <3>3 DEF WriteAccepted, WriteMove, ApprovalMove, Decisions
    <3>4. CASE e.type = "write_submitting"
      BY <2>1, <3>1, <3>2, <3>4 DEF WriteAccepted, WriteMove, ApprovalMove, Decisions
    <3>5. CASE e.type = "write_succeeded"
      BY <2>1, <3>1, <3>2, <3>5 DEF WriteAccepted, Settles, WriteMove, ApprovalMove, Decisions
    <3>6. CASE e.type = "write_failed"
      BY <1>0, <2>1, <3>1, <3>2, <3>6 DEF WriteAccepted, Settles, WriteMove, ApprovalMove, Decisions
    <3>7. CASE e.type = "write_outcome_unknown"
      BY <2>1, <3>1, <3>2, <3>7 DEF WriteAccepted, WriteMove, ApprovalMove, Decisions
    <3>8. CASE e.type \in {"write_reconcile_failed", "write_reconcile_deferred"}
      BY <2>1, <3>1, <3>2, <3>8 DEF WriteAccepted, WriteMove, ApprovalMove, Decisions
    <3> QED
      BY <1>7, <2>5, <3>3, <3>4, <3>5, <3>6, <3>7, <3>8 DEF WriteEvents
  <2> QED
    BY <2>2, <2>3, <2>4, <2>5
<1> QED
  BY <1>3, <1>4, <1>5, <1>6, <1>7, EventFacts DEF WriteEvents

LEMMA RejectedStays ==
  ASSUME NEW e
  PROVE  Reduce(Rejected, e) = Rejected
<1>1. Rejected.phase = "rejected"
  BY DEF Rejected, StartedOperation
<1> QED
  BY <1>1 DEF Reduce

\* One accepted event and the external system.
LEMMA EventKeeps ==
  ASSUME NEW o, NEW n, NEW e, NEW x \in [sent : Nat, inflight : Nat, applied : Nat],
         WriteMove(o.write.state, n.write.state, e.type), WriteOK(o, x), Evidence(e, x),
         e \in ServiceEvents
  PROVE  /\ WriteOK(n, x)
         /\ o.write.state \notin Unclaimed => n.write.state \notin Unclaimed
  BY EventFacts DEF WriteMove, WriteOK, Evidence, Unclaimed

\* The states the Approval may reach in a batch without a decision.
ApprovalDrifts(old, new) ==
    new # old => old \in {"none", "waiting"} /\ new \in {"waiting", "expired"}

\* A batch that replays, event by event.
LEMMA BatchFacts ==
  ASSUME NEW o \in Operations, NEW specs \in Seq(ServiceEvents), specs # << >>,
         NEW x \in [sent : Nat, inflight : Nat, applied : Nat],
         ReplayWithSpecs(o, specs) # Rejected, o.phase \in Live,
         WriteOK(o, x), AllEvidence(specs, x)
  PROVE  LET n == ReplayWithSpecs(o, specs) IN
         /\ n \in Operations /\ n.phase \in Live /\ WriteOK(n, x)
         /\ o.write.state \notin Unclaimed => n.write.state \notin Unclaimed
         /\ LastType(specs) = "write_submitting" =>
               o.write.state \in Unclaimed /\ n.write.state = "submitting"
         /\ LastType(specs) \in Entries => n.write.state = "reconciling"
         /\ DecidesNothing(specs) => ApprovalDrifts(o.approval.state, n.approval.state)
<1> DEFINE len == Len(specs)
<1>1. len \in Nat /\ len > 0 /\ \A i \in 1..len : specs[i] \in ServiceEvents
  OBVIOUS
<1>2. PICK h : Passes(o, specs, h) /\ ReplayWithSpecs(o, specs) = h[len]
  BY <1>1, ReplayPasses
<1>3. h[0] = o /\ \A i \in 1..len : h[i] = Reduce(h[i - 1], specs[i])
  BY <1>1, <1>2 DEF Passes
<1> DEFINE Good(n) ==
      h[n] # Rejected =>
        /\ h[n] \in Operations /\ h[n].phase \in Live /\ WriteOK(h[n], x)
        /\ o.write.state \notin Unclaimed => h[n].write.state \notin Unclaimed
        /\ DecidesNothing(specs) => ApprovalDrifts(o.approval.state, h[n].approval.state)
           T == {n \in Nat : n <= len => Good(n)}
<1> HIDE DEF len
<1>4. 0 \in T
  BY <1>1, <1>3 DEF ApprovalDrifts
<1>5. ASSUME NEW i \in 1..len, Good(i - 1), h[i] # Rejected
      PROVE  /\ Good(i)
             /\ h[i - 1] # Rejected /\ h[i - 1].write.state \in WriteStates
             /\ WriteMove(h[i - 1].write.state, h[i].write.state, specs[i].type)
  <2>1. h[i] = Reduce(h[i - 1], specs[i]) /\ specs[i] \in ServiceEvents
    BY <1>1, <1>3
  <2>2. h[i - 1] # Rejected
    BY <1>5, <2>1, RejectedStays
  <2>3. h[i - 1] \in Operations
    BY <1>5, <2>2
  <2>4. /\ h[i] \in Operations /\ h[i].phase \in Live
        /\ WriteMove(h[i - 1].write.state, h[i].write.state, specs[i].type)
        /\ ApprovalMove(h[i - 1].approval.state, h[i].approval.state, specs[i].type)
    BY <1>5, <2>1, <2>3, ReduceFacts
  <2>5. Evidence(specs[i], x)
    BY DEF AllEvidence, len
  <2>6. /\ WriteOK(h[i], x)
        /\ h[i - 1].write.state \notin Unclaimed => h[i].write.state \notin Unclaimed
    BY <1>5, <2>1, <2>2, <2>4, <2>5, EventKeeps
  <2>7. DecidesNothing(specs) => ApprovalDrifts(h[i - 1].approval.state, h[i].approval.state)
    BY <2>1, <2>4, EventFacts DEF DecidesNothing, ApprovalMove, ApprovalDrifts, Decisions, len
  <2>8. DecidesNothing(specs) => ApprovalDrifts(o.approval.state, h[i].approval.state)
    BY <1>5, <2>2, <2>7 DEF ApprovalDrifts
  <2>9. h[i - 1].write.state \in WriteStates
    BY <2>3 DEF Operations, WriteRecords
  <2> QED
    BY <1>5, <2>2, <2>4, <2>6, <2>8, <2>9
<1> HIDE DEF Good
<1>6. ASSUME NEW n \in T PROVE n + 1 \in T
  <2>1. n \in Nat /\ (n <= len => Good(n)) /\ n + 1 \in Nat
    OBVIOUS
  <2> SUFFICES ASSUME n + 1 <= len PROVE Good(n + 1)
    BY <2>1
  <2>2. n + 1 \in 1..len /\ (n + 1) - 1 = n /\ Good(n)
    BY <1>1, <2>1
  <2>3. CASE h[n + 1] = Rejected
    BY <2>3 DEF Good
  <2>4. CASE h[n + 1] # Rejected
    <3> DEFINE m == n + 1
    <3>1. m \in 1..len /\ Good(m - 1) /\ h[m] # Rejected
      BY <2>2, <2>4
    <3> HIDE DEF m
    <3>2. Good(m)
      BY <3>1, <1>5
    <3> QED
      BY <3>2 DEF m
  <2> QED
    BY <2>3, <2>4
<1>7. T = Nat
  <2> HIDE DEF T
  <2>1. T \in SUBSET Nat
    BY DEF T
  <2> QED
    BY <1>4, <1>6, <2>1, SetInduction
<1>8. Good(len) /\ Good(len - 1) /\ len \in 1..len
  <2>1. len \in T /\ len - 1 \in T
    BY <1>1, <1>7
  <2> QED
    BY <1>1, <2>1
<1> HIDE DEF T
<1>9. /\ h[len - 1] # Rejected /\ h[len - 1].write.state \in WriteStates
      /\ WriteMove(h[len - 1].write.state, h[len].write.state, LastType(specs))
  BY <1>2, <1>5, <1>8 DEF LastType, len
<1>10. LastType(specs) = "write_submitting" =>
          o.write.state \in Unclaimed /\ h[len].write.state = "submitting"
  BY <1>8, <1>9 DEF Good, WriteMove, Unclaimed
<1>11. LastType(specs) \in Entries => h[len].write.state = "reconciling"
  BY <1>9 DEF WriteMove, Entries
<1> QED
  BY <1>2, <1>8, <1>10, <1>11 DEF Good

\* A batch of one event.
LEMMA SingleReplay ==
  ASSUME NEW o, NEW e
  PROVE  ReplayWithSpecs(o, <<e>>) = Reduce(o, e)
<1>1. Len(<<e>>) = 1 /\ Len(<<e>>) \in Nat /\ <<e>>[1] = e
  OBVIOUS
<1> DEFINE s == <<e>>
<1> HIDE DEF s
<1>2. PICK h : Passes(o, s, h) /\ ReplayWithSpecs(o, s) = h[Len(s)]
  BY <1>1, ReplayPasses DEF s
<1>3. h[0] = o /\ h[1] = Reduce(h[0], s[1])
  BY <1>1, <1>2 DEF Passes, s
<1> QED
  BY <1>1, <1>2, <1>3 DEF s

-----------------------------------------------------------------------------
(* The calls of the workers *)

Effects == [sent : Nat, inflight : Nat, applied : Nat]
Claims == [owner : Workers \cup {NoOwner}, expires : {0, 1}, gen : Nat]

\* A call that satisfies the invariant and does not claim the Write.
GoodCall(c, o, v, x) == c \in CallStates /\ CallOK(c, o, v, x) /\ c.pc # "submitted"

LEMMA IdleGood ==
  ASSUME NEW o, NEW v, NEW x
  PROVE  GoodCall(Idle, o, v, x)
<1>1. << >> \in Seq(ServiceEvents) /\ Len(<< >>) = 0
  OBVIOUS
<1>2. Idle \in CallStates /\ Idle.pc = "idle" /\ Idle.specs = << >>
  BY <1>1 DEF Idle, CallStates, Pcs, Kinds
<1> QED
  BY <1>1, <1>2 DEF GoodCall, CallOK, AllEvidence

LEMMA GotoGood ==
  ASSUME NEW c \in CallStates, NEW o, NEW v, NEW x, CallOK(c, o, v, x),
         NEW pc \in {"release", "cleanup", "checking", "handling", "finish", "enter", "verdict",
                     "report"},
         pc \in {"finish", "enter", "verdict", "report"} =>
            c.specs # << >> /\ DecidesNothing(c.specs),
         pc = "enter" => LastType(c.specs) \in Entries,
         pc \in {"handling", "finish", "cleanup", "checking"} => x.sent > 0
  PROVE  GoodCall([c EXCEPT !.pc = pc], o, v, x)
<1> DEFINE d == [c EXCEPT !.pc = pc]
<1>1. d \in CallStates
  BY DEF CallStates, Pcs
<1>2. d.pc = pc /\ d.specs = c.specs
  BY DEF CallStates
<1> HIDE DEF d
<1>3. CallOK(d, o, v, x)
  BY <1>2 DEF CallOK
<1> QED
  BY <1>1, <1>2, <1>3 DEF GoodCall, d

LEMMA OneEvent ==
  ASSUME NEW e \in ServiceEvents
  PROVE  /\ <<e>> \in Seq(ServiceEvents) /\ <<e>> # << >> /\ Len(<<e>>) = 1 /\ <<e>>[1] = e
         /\ LastType(<<e>>) = e.type
         /\ e.type \notin Decisions => DecidesNothing(<<e>>)
         /\ \A x : Evidence(e, x) => AllEvidence(<<e>>, x)
<1>1. <<e>> \in Seq(ServiceEvents) /\ <<e>> # << >> /\ Len(<<e>>) = 1 /\ <<e>>[1] = e
  OBVIOUS
<1>2. \A i \in 1..1 : i = 1
  OBVIOUS
<1> QED
  BY <1>1, <1>2 DEF LastType, DecidesNothing, AllEvidence

LEMMA HoldGood ==
  ASSUME NEW c \in CallStates, NEW o, NEW v, NEW x, NEW e \in ServiceEvents, Evidence(e, x),
         NEW pc \in {"acquire", "enter", "finish", "verdict", "report"}, e.type \notin Decisions,
         pc \in {"acquire", "enter"} => e.type \in Entries, pc = "finish" => x.sent > 0
  PROVE  GoodCall([c EXCEPT !.pc = pc, !.specs = <<e>>], o, v, x)
<1> DEFINE d == [c EXCEPT !.pc = pc, !.specs = <<e>>]
<1>1. d \in CallStates
  BY OneEvent DEF CallStates, Pcs
<1>2. d.pc = pc /\ d.specs = <<e>>
  BY DEF CallStates
<1> HIDE DEF d
<1>3. CallOK(d, o, v, x)
  BY <1>2, OneEvent DEF CallOK
<1> QED
  BY <1>1, <1>2, <1>3 DEF GoodCall, d

LEMMA LoadGood ==
  ASSUME TypeOK, NEW w \in Workers, NEW kind \in Kinds \ {"none"}, NEW specs \in Seq(ServiceEvents),
         NEW deadline \in BOOLEAN, specs # << >>, ReplayWithSpecs(op, specs) # Rejected,
         AllEvidence(specs, effect),
         kind = "execute" => LastType(specs) = "write_submitting",
         kind = "enter" => LastType(specs) \in Entries,
         kind \in {"finish", "cleanup"} => effect.sent > 0,
         kind \notin {"service", "execute"} => ~deadline,
         ~deadline => DecidesNothing(specs)
  PROVE  GoodCall(LoadedCall(w, kind, specs, deadline), op, ver, effect)
<1> DEFINE d == LoadedCall(w, kind, specs, deadline)
<1>0. call[w] \in CallStates /\ ver \in Nat
  BY DEF TypeOK
<1>1. d \in CallStates
  BY <1>0 DEF LoadedCall, CallStates, Pcs
<1>2. d.pc = "append" /\ d.kind = kind /\ d.specs = specs /\ d.ver = ver /\ d.deadline = deadline
  BY <1>0 DEF LoadedCall, CallStates
<1> HIDE DEF d
<1>3. AppendOK(d, op, ver, effect)
  BY <1>0, <1>2 DEF AppendOK
<1>4. CallOK(d, op, ver, effect)
  BY <1>2, <1>3 DEF CallOK
<1> QED
  BY <1>1, <1>2, <1>4 DEF GoodCall, d

\* What execute reports is a call without evidence.
LEMMA ReportGood ==
  ASSUME TypeOK, NEW w \in Workers, NEW result \in ToolResults, NEW o, NEW v, NEW x
  PROVE  \E c : GoodCall(c, o, v, x) /\ Report(w, result) = [call EXCEPT ![w] = c]
<1>1. CASE ~op.write.tool
  BY <1>1, IdleGood DEF Report
<1>2. CASE op.write.tool
  <2> DEFINE e == ToolResultEvent(IF result = "unknown" THEN "tool_outcome_unknown"
                                  ELSE "tool_completed", result, 0)
             c == [Idle EXCEPT !.pc = "report", !.specs = <<e>>]
  <2>1. Report(w, result) = [call EXCEPT ![w] = c]
    BY <1>2 DEF Report
  <2>2. e \in ServiceEvents /\ e.type \in {"tool_outcome_unknown", "tool_completed"}
    BY DEF ToolResultEvent, ServiceEvents
  <2>3. Idle \in CallStates
    BY IdleGood DEF GoodCall
  <2> HIDE DEF e
  <2>4. Evidence(e, x) /\ e.type \notin Decisions
    BY <2>2 DEF Evidence, Decisions
  <2>5. GoodCall(c, o, v, x)
    BY <2>2, <2>3, <2>4, HoldGood
  <2> QED
    BY <2>1, <2>5
<1> QED
  BY <1>1, <1>2

\* One call moves on, and nothing else but the claim changes.
LEMMA CallKeeps ==
  ASSUME Inv, NEW w \in Workers, NEW c, GoodCall(c, op, ver, effect),
         call' = [call EXCEPT ![w] = c], UNCHANGED <<op, ver, late, effect>>, claim' \in Claims
  PROVE  Inv'
<1>1. c \in CallStates /\ CallOK(c, op, ver, effect) /\ c.pc # "submitted"
  BY DEF GoodCall
<1>2. TypeOK'
  BY <1>1 DEF Inv, TypeOK, Claims
<1>3. \A v \in Workers : call'[v] = IF v = w THEN c ELSE call[v]
  BY DEF Inv, TypeOK
<1>4. \A v \in Workers : CallOK(call'[v], op, ver, effect)
  BY <1>1, <1>3 DEF Inv
<1>5. op' = op /\ ver' = ver /\ effect' = effect
  OBVIOUS
<1>6. \A v \in Workers : CallOK(call[v], op, ver, effect)'
  BY <1>4, <1>5
<1>7. (op.phase \in Live /\ EffectOK(effect) /\ WriteOK(op, effect))'
  BY <1>5 DEF Inv
<1>8. \A u, v \in Workers : call'[u].pc = "submitted" /\ call'[v].pc = "submitted" => u = v
  BY <1>1, <1>3 DEF Inv
<1> QED
  BY <1>2, <1>6, <1>7, <1>8 DEF Inv

\* The same with a case distinction on what the call becomes.
LEMMA MoveKeeps ==
  ASSUME Inv, NEW w \in Workers,
         \E c : GoodCall(c, op, ver, effect) /\ call' = [call EXCEPT ![w] = c],
         UNCHANGED <<op, ver, late, claim, effect>>
  PROVE  Inv'
<1>1. PICK c : GoodCall(c, op, ver, effect) /\ call' = [call EXCEPT ![w] = c]
  OBVIOUS
<1>2. claim' \in Claims
  BY DEF Inv, TypeOK, Claims
<1> QED
  BY <1>1, <1>2, CallKeeps

-----------------------------------------------------------------------------
(* Init and the steps *)

LEMMA InvInit == Init => Inv
<1> SUFFICES ASSUME Init PROVE Inv
  OBVIOUS
<1>1. StartedOperation \in Operations
  BY DEF StartedOperation, Operations, Phases, Transcripts, ToolRecords, ToolPhases, ToolResults,
         ApprovalRecords, ApprovalStates, ResumeStates, WriteRecords, WriteStates
<1>2. ASSUME NEW phase \in ToolPhases
      PROVE  /\ WithTool(phase) \in Operations
             /\ WithTool(phase).write = StartedOperation.write
             /\ WithTool(phase).phase = StartedOperation.phase
  BY <1>1 DEF WithTool, Operations, Transcripts, ToolRecords
<1>3. /\ op \in Operations
      /\ op.write = StartedOperation.write /\ op.phase = StartedOperation.phase
  BY <1>1, <1>2 DEF Init, ToolPhases
<1>4. op.phase \in Live /\ op.write.state = "none"
  BY <1>3 DEF StartedOperation, Live, Phases, Terminal
<1>5. /\ effect \in Effects /\ effect.sent = 0 /\ effect.inflight = 0 /\ effect.applied = 0
      /\ claim \in Claims
  BY DEF Init, Effects, Claims, AbsentRow
<1>6. \A w \in Workers : call[w] = Idle
  BY DEF Init
<1>7. \A w \in Workers : GoodCall(call[w], op, ver, effect)
  BY <1>6, IdleGood
<1>8. call \in [Workers -> CallStates]
  BY <1>7 DEF Init, GoodCall
<1>9. TypeOK
  BY <1>3, <1>5, <1>8 DEF TypeOK, Init, Effects, Claims
<1>10. EffectOK(effect) /\ WriteOK(op, effect)
  BY <1>4, <1>5 DEF EffectOK, WriteOK
<1> QED
  BY <1>4, <1>7, <1>9, <1>10 DEF Inv, GoodCall

LEMMA LoadKeeps ==
  ASSUME Inv, NEW w \in Workers, NEW kind \in {"service", "execute"},
         NEW specs \in Seq(ServiceEvents), NEW deadline \in BOOLEAN, specs # << >>,
         AllEvidence(specs, effect), Load(w, kind, specs, deadline),
         kind = "execute" => LastType(specs) = "write_submitting",
         ~deadline => DecidesNothing(specs)
  PROVE  Inv'
<1>1. TypeOK /\ kind \in Kinds \ {"none"} /\ ReplayWithSpecs(op, specs) # Rejected
  BY DEF Inv, Kinds, Load
<1>2. GoodCall(LoadedCall(w, kind, specs, deadline), op, ver, effect)
  BY <1>1, LoadGood
<1> QED
  BY <1>2, MoveKeeps DEF Load

\* An event of the Approval service is no evidence about the Write.
LEMMA ApprovalKeeps ==
  ASSUME Inv, NEW w \in Workers, ApprovalCall(w)
  PROVE  Inv'
<1> DEFINE Single(type) == <<Event(type)>>
<1>1. ASSUME NEW type \in {"approval_granted", "approval_rejected", "approval_consumed",
                           "approval_expired"}
      PROVE  /\ Event(type) \in ServiceEvents /\ Event(type).type = type
             /\ \A x : Evidence(Event(type), x)
  BY DEF Event, ServiceEvents, Evidence
<1>2. ASSUME NEW type \in {"approval_granted", "approval_rejected", "approval_consumed",
                           "approval_expired"}
      PROVE  /\ Single(type) \in Seq(ServiceEvents) /\ Single(type) # << >>
             /\ AllEvidence(Single(type), effect)
             /\ type = "approval_expired" => DecidesNothing(Single(type))
  BY <1>1, OneEvent DEF Decisions
<1> HIDE DEF Single
<1>3. CASE BeginGrant(w)
  <2>1. Load(w, "service", Single("approval_granted"), TRUE)
    BY <1>3 DEF BeginGrant, Single
  <2> QED
    BY <1>2, <2>1, LoadKeeps
<1>4. CASE BeginReject(w)
  <2>1. Load(w, "service", Single("approval_rejected"), TRUE)
    BY <1>4 DEF BeginReject, Single
  <2> QED
    BY <1>2, <2>1, LoadKeeps
<1>5. CASE BeginConsume(w)
  <2>1. Load(w, "service", Single("approval_consumed"), TRUE)
    BY <1>5 DEF BeginConsume, Single
  <2> QED
    BY <1>2, <2>1, LoadKeeps
<1>6. CASE BeginExpire(w)
  <2>1. Load(w, "service", Single("approval_expired"), FALSE)
    BY <1>6 DEF BeginExpire, Single
  <2> QED
    BY <1>2, <2>1, LoadKeeps
<1> QED
  BY <1>3, <1>4, <1>5, <1>6 DEF ApprovalCall

\* Every event of a batch of these is no evidence either.
LEMMA PlainBatch ==
  ASSUME NEW S \in SUBSET ServiceEvents, NEW specs \in Seq(S), NEW x,
         \A e \in S : e.type \notin {"write_outcome_unknown", "write_succeeded", "write_failed"}
  PROVE  /\ specs \in Seq(ServiceEvents) /\ AllEvidence(specs, x)
         /\ (\A e \in S : e.type \notin Decisions) => DecidesNothing(specs)
<1>1. \A i \in 1..Len(specs) : specs[i] \in S
  OBVIOUS
<1>2. specs \in Seq(ServiceEvents)
  OBVIOUS
<1> QED
  BY <1>1, <1>2 DEF AllEvidence, Evidence, DecidesNothing

LEMMA PrepareKeeps ==
  ASSUME Inv, NEW w \in Workers, BeginPrepare(w)
  PROVE  Inv'
<1> DEFINE bound == op.tool.phase # "none"
           S == {WritePrepared(bound), Event("approval_requested"),
                 Event("write_waiting_approval"), Event("write_approved")}
<1>1. PICK requiresApproval \in BOOLEAN :
        Load(w, "service", PrepareSpecs(requiresApproval, bound), FALSE)
  BY DEF BeginPrepare
<1> DEFINE specs == PrepareSpecs(requiresApproval, bound)
<1>2. bound \in BOOLEAN
  OBVIOUS
<1> HIDE DEF bound
<1>3. S \in SUBSET ServiceEvents
  <2>1. WritePrepared(bound) \in ServiceEvents
    BY <1>2 DEF WritePrepared, ServiceEvents
  <2>2. /\ Event("approval_requested") \in ServiceEvents
        /\ Event("write_waiting_approval") \in ServiceEvents
        /\ Event("write_approved") \in ServiceEvents
    BY DEF Event, ServiceEvents
  <2> QED
    BY <2>1, <2>2
<1>4. \A e \in S : e.type \in {"write_prepared", "approval_requested", "write_waiting_approval",
                              "write_approved"}
  BY DEF WritePrepared, Event
<1>5. specs \in Seq(S) /\ specs # << >>
  <2> DEFINE p == WritePrepared(bound)
             a == Event("approval_requested")
             b == Event("write_waiting_approval")
             c == Event("write_approved")
  <2>1. p \in S /\ a \in S /\ b \in S /\ c \in S
    OBVIOUS
  <2>2. specs = <<p>> \o (IF requiresApproval THEN <<a, b>> ELSE <<c>>)
    BY DEF PrepareSpecs
  <2> HIDE DEF S, p, a, b, c, specs
  <2>3. <<p>> \in Seq(S) /\ <<a, b>> \in Seq(S) /\ <<c>> \in Seq(S) /\ Len(<<p>>) = 1
    BY <2>1
  <2>4. CASE requiresApproval
    <3> DEFINE s == <<p>>
               r == <<a, b>>
    <3>1. s \in Seq(S) /\ r \in Seq(S) /\ Len(s) = 1 /\ specs = s \o r
      BY <2>2, <2>3, <2>4
    <3> HIDE DEF s, r
    <3> QED
      BY <3>1
  <2>5. CASE ~requiresApproval
    <3> DEFINE s == <<p>>
               r == <<c>>
    <3>1. s \in Seq(S) /\ r \in Seq(S) /\ Len(s) = 1 /\ specs = s \o r
      BY <2>2, <2>3, <2>5
    <3> HIDE DEF s, r
    <3> QED
      BY <3>1
  <2> QED
    BY <2>4, <2>5
<1> HIDE DEF S, specs
<1>6. specs \in Seq(ServiceEvents) /\ AllEvidence(specs, effect) /\ DecidesNothing(specs)
  BY <1>3, <1>4, <1>5, PlainBatch DEF Decisions
<1>7. Load(w, "service", specs, FALSE)
  BY <1>1 DEF specs
<1> QED
  BY <1>5, <1>6, <1>7, LoadKeeps

LEMMA ExecuteKeeps ==
  ASSUME Inv, NEW w \in Workers, BeginExecute(w)
  PROVE  Inv'
<1> DEFINE deadline == op.write.state = "waiting_approval" /\ op.approval.state = "approved"
           submit == Event("write_submitting")
           others == {Event("write_approved"), Event("tool_dispatch_started"), submit}
           S == IF deadline THEN others \cup {Event("approval_consumed")} ELSE others
           first == IF deadline THEN <<Event("approval_consumed")>> ELSE << >>
           second == IF op.write.state = "waiting_approval" THEN <<Event("write_approved")>> ELSE << >>
           third == DispatchSpecs(op)
           specs == ExecuteSpecs(op)
<1>1. Load(w, "execute", specs, deadline) /\ deadline \in BOOLEAN
  BY DEF BeginExecute
<1>2. specs = first \o second \o third \o <<submit>>
  BY DEF ExecuteSpecs
<1>3. S \in SUBSET ServiceEvents
  BY DEF Event, ServiceEvents
<1>4. /\ \A e \in S : e.type \in {"write_approved", "tool_dispatch_started", "write_submitting",
                                  "approval_consumed"}
      /\ ~deadline => \A e \in S : e.type # "approval_consumed"
      /\ submit.type = "write_submitting" /\ submit \in S
  BY DEF Event
<1>5. first \in Seq(S) /\ second \in Seq(S) /\ third \in Seq(S)
  <2>1. << >> \in Seq(S)
    OBVIOUS
  <2>2. Event("write_approved") \in S /\ Event("tool_dispatch_started") \in S
    OBVIOUS
  <2>3. deadline => Event("approval_consumed") \in S
    OBVIOUS
  <2> HIDE DEF S, deadline
  <2>4. first \in Seq(S)
    BY <2>1, <2>3
  <2>5. second \in Seq(S)
    BY <2>1, <2>2
  <2>6. third \in Seq(S)
    BY <2>1, <2>2 DEF DispatchSpecs
  <2> QED
    BY <2>4, <2>5, <2>6
<1> HIDE DEF deadline, S, first, second, third, specs, submit
<1>6. specs \in Seq(S) /\ specs # << >> /\ LastType(specs) = "write_submitting"
  <2> DEFINE r == first \o second \o third
             s == <<submit>>
  <2>1. r \in Seq(S)
    BY <1>5
  <2>2. s \in Seq(S) /\ Len(s) = 1 /\ s[1] = submit
    BY <1>4
  <2>3. specs = r \o s
    BY <1>2
  <2> HIDE DEF r, s
  <2>4. specs \in Seq(S) /\ Len(specs) = Len(r) + 1 /\ specs[Len(r) + 1] = submit
    <3>1. specs \in Seq(S) /\ Len(specs) = Len(r) + 1 /\ Len(r) \in Nat
      <4>1. r \o s \in Seq(S) /\ Len(r \o s) = Len(r) + Len(s)
        BY <2>1, <2>2, ConcatProperties, Zenon
      <4>2. Len(r) \in Nat
        BY <2>1
      <4> QED
        BY <2>2, <2>3, <4>1, <4>2
    <3>2. specs[Len(r) + 1] = s[(Len(r) + 1) - Len(r)]
      BY <2>1, <2>2, <2>3, <3>1, ConcatProperties
    <3>3. (Len(r) + 1) - Len(r) = 1
      BY <3>1
    <3> QED
      BY <2>2, <3>1, <3>2, <3>3
  <2> QED
    BY <1>4, <2>4 DEF LastType
<1>7. /\ specs \in Seq(ServiceEvents) /\ AllEvidence(specs, effect)
      /\ ~deadline => DecidesNothing(specs)
  BY <1>3, <1>4, <1>6, PlainBatch DEF Decisions
<1> QED
  BY <1>1, <1>6, <1>7, LoadKeeps

\* The handler is called: no event in any call claims to know its outcome.
LEMMA HandlerKeeps ==
  ASSUME Inv, NEW w \in Workers, CallHandler(w)
  PROVE  Inv'
<1> USE DEF Effects
<1>1. /\ call[w] \in CallStates /\ call[w].pc = "submitted" /\ effect \in Effects
      /\ CallOK(call[w], op, ver, effect) /\ op.write.state \in WriteStates
  BY DEF Inv, TypeOK, CallHandler, Operations, WriteRecords
<1>2. effect.sent = 0 /\ op.write.state \notin Unclaimed
  BY <1>1 DEF CallOK
<1>3. effect.inflight = 0 /\ effect.applied = 0 /\ op.write.state = "submitting"
  BY <1>1, <1>2 DEF Inv, EffectOK, WriteOK, Unclaimed, WriteStates
<1>4. effect' \in Effects /\ effect'.sent = 1 /\ effect'.inflight = 1 /\ effect'.applied = 0
  <2>1. effect' = [effect EXCEPT !.sent = 1, !.inflight = 1]
    BY <1>2, <1>3 DEF CallHandler
  <2> QED
    BY <1>1, <1>3, <2>1
<1> DEFINE d == [call[w] EXCEPT !.pc = "handling"]
<1>5. d \in CallStates /\ d.pc = "handling" /\ d.specs = call[w].specs
  BY <1>1 DEF CallStates, Pcs
<1>6. call' = [call EXCEPT ![w] = d]
  BY DEF CallHandler, Goto
<1> HIDE DEF d
<1>7. \A v \in Workers : call'[v] = IF v = w THEN d ELSE call[v]
  BY <1>6 DEF Inv, TypeOK
<1>8. TypeOK'
  BY <1>4, <1>5, <1>6 DEF Inv, TypeOK, CallHandler
<1>9. EffectOK(effect) ' /\ WriteOK(op, effect)' /\ (op.phase \in Live)'
  BY <1>3, <1>4 DEF Inv, EffectOK, WriteOK, Unclaimed, CallHandler
<1>10. ASSUME NEW v \in Workers
       PROVE  CallOK(call'[v], op, ver, effect') /\ call'[v].pc # "submitted"
  <2>1. AllEvidence(call[v].specs, effect)
    BY DEF Inv, CallOK
  <2>2. AllEvidence(call[v].specs, effect')
    BY <1>2, <1>3, <1>4, <2>1 DEF AllEvidence, Evidence
  <2>3. CASE v = w
    BY <1>4, <1>5, <1>7, <2>2, <2>3 DEF CallOK
  <2>4. CASE v # w
    <3>1. call'[v] = call[v] /\ CallOK(call[v], op, ver, effect) /\ call[v].pc # "submitted"
      BY <1>1, <1>7, <2>4 DEF Inv
    <3>2. call[v].pc = "append" => AppendOK(call[v], op, ver, effect')
      BY <1>4, <3>1 DEF CallOK, AppendOK
    <3> QED
      BY <1>4, <2>2, <3>1, <3>2 DEF CallOK
  <2> QED
    BY <2>3, <2>4
<1>11. op' = op /\ ver' = ver
  BY DEF CallHandler
<1>12. \A v \in Workers : CallOK(call[v], op, ver, effect)'
  BY <1>10, <1>11
<1> QED
  BY <1>8, <1>9, <1>10, <1>12 DEF Inv

\* A worker holds the event e from now on.
LEMMA HoldKeeps ==
  ASSUME Inv, NEW w \in Workers, NEW e \in ServiceEvents, Evidence(e, effect),
         NEW pc \in {"acquire", "finish", "verdict"}, e.type \notin Decisions,
         pc = "acquire" => e.type \in Entries, pc = "finish" => effect.sent > 0,
         call' = Holding(w, pc, e), UNCHANGED <<op, ver, late, claim, effect>>
  PROVE  Inv'
<1> DEFINE d == [call[w] EXCEPT !.pc = pc, !.specs = <<e>>]
<1>1. call[w] \in CallStates
  BY DEF Inv, TypeOK
<1>2. GoodCall(d, op, ver, effect)
  BY <1>1, HoldGood
<1>3. call' = [call EXCEPT ![w] = d]
  BY <1>1 DEF Holding, Inv, TypeOK
<1> QED
  BY <1>2, <1>3, MoveKeeps

LEMMA HandlingKeeps ==
  ASSUME Inv, NEW w \in Workers,
         HandlerReturns(w) \/ HandlerNotCommitted(w) \/ HandlerRaises(w)
  PROVE  Inv'
<1> USE DEF Effects
<1>1. /\ call[w].pc = "handling" /\ effect \in Effects
      /\ CallOK(call[w], op, ver, effect) /\ EffectOK(effect)
  BY DEF Inv, TypeOK, HandlerReturns, HandlerNotCommitted, HandlerRaises, FinishWith
<1>2. effect.sent = 1
  BY <1>1 DEF CallOK, EffectOK
<1>3. CASE HandlerReturns(w)
  <2> DEFINE e == FencedEvent("write_succeeded", 0)
  <2>1. e \in ServiceEvents /\ e.type = "write_succeeded"
    BY DEF FencedEvent, ServiceEvents
  <2>2. Evidence(e, effect) /\ e.type \notin Decisions
    BY <1>2, <1>3, <2>1 DEF Evidence, Decisions, HandlerReturns
  <2>3. call' = Holding(w, "finish", e) /\ UNCHANGED <<op, ver, late, claim, effect>>
    BY <1>3 DEF HandlerReturns, FinishWith
  <2> HIDE DEF e
  <2> QED
    BY <1>2, <2>1, <2>2, <2>3, HoldKeeps
<1>4. CASE HandlerNotCommitted(w)
  <2> DEFINE e == WriteFailed(FALSE, 0)
  <2>1. e \in ServiceEvents /\ e.type = "write_failed"
    BY DEF WriteFailed, ServiceEvents
  <2>2. effect.inflight = 0 /\ effect.applied = 0
    BY <1>1, <1>2, <1>4 DEF HandlerNotCommitted
  <2>4. call' = Holding(w, "finish", e) /\ UNCHANGED <<op, ver, late, claim, effect>>
    BY <1>4 DEF HandlerNotCommitted, FinishWith
  <2> HIDE DEF e
  <2>3. Evidence(e, effect) /\ e.type \notin Decisions
    BY <1>2, <2>1, <2>2 DEF Evidence, Decisions
  <2> QED
    BY <1>2, <2>1, <2>3, <2>4, HoldKeeps
<1>5. CASE HandlerRaises(w)
  <2> DEFINE e == Event("write_outcome_unknown")
  <2>1. e \in ServiceEvents /\ e.type = "write_outcome_unknown"
    BY DEF Event, ServiceEvents
  <2>2. Evidence(e, effect) /\ e.type \notin Decisions
    BY <1>2, <2>1 DEF Evidence, Decisions
  <2>3. call' = Holding(w, "finish", e) /\ UNCHANGED <<op, ver, late, claim, effect>>
    BY <1>5 DEF HandlerRaises, FinishWith
  <2> HIDE DEF e
  <2> QED
    BY <1>2, <2>1, <2>2, <2>3, HoldKeeps
<1> QED
  BY <1>3, <1>4, <1>5

\* Goto as the change of one call.
LEMMA GotoCall ==
  ASSUME TypeOK, NEW w \in Workers, NEW pc
  PROVE  Goto(w, pc) = [call EXCEPT ![w] = [call[w] EXCEPT !.pc = pc]]
  BY DEF Goto, TypeOK

\* The success that was not confirmed is to be marked as unknown.
LEMMA CleanupGood ==
  ASSUME Inv, NEW w \in Workers, effect.sent > 0
  PROVE  \E c : GoodCall(c, op, ver, effect) /\ Goto(w, "cleanup") = [call EXCEPT ![w] = c]
<1> DEFINE c == [call[w] EXCEPT !.pc = "cleanup"]
<1>1. GoodCall(c, op, ver, effect)
  BY GotoGood DEF Inv, TypeOK
<1>2. Goto(w, "cleanup") = [call EXCEPT ![w] = c]
  BY GotoCall DEF Inv
<1> QED
  BY <1>1, <1>2

LEMMA FinishFailsGood ==
  ASSUME Inv, NEW w \in Workers, effect.sent > 0
  PROVE  \E c : GoodCall(c, op, ver, effect) /\ FinishFails(w) = [call EXCEPT ![w] = c]
<1>1. CASE call[w].specs[1].type = "write_succeeded"
  BY <1>1, CleanupGood DEF FinishFails
<1>2. CASE call[w].specs[1].type # "write_succeeded"
  BY <1>2, ReportGood DEF FinishFails, ToolResults, Inv
<1> QED
  BY <1>1, <1>2

LEMMA CancelledKeeps ==
  ASSUME Inv, NEW w \in Workers, ExecuteCancelled(w)
  PROVE  Inv'
<1>1. effect.sent > 0
  <2>1. CallOK(call[w], op, ver, effect)
    BY DEF Inv
  <2>2. CASE call[w].pc \in {"handling", "finish"}
    BY <2>1, <2>2 DEF CallOK
  <2>3. CASE call[w].specs = <<FencedEvent("write_succeeded", 0)>>
    <3>1. Len(call[w].specs) = 1 /\ call[w].specs[1].type = "write_succeeded"
      BY <2>3 DEF FencedEvent
    <3>2. Evidence(call[w].specs[1], effect)
      BY <2>1, <3>1 DEF CallOK, AllEvidence
    <3> QED
      BY <3>1, <3>2 DEF Evidence
  <2> QED
    BY <2>2, <2>3 DEF ExecuteCancelled
<1> QED
  BY <1>1, CleanupGood, MoveKeeps DEF ExecuteCancelled

LEMMA BeginFinishKeeps ==
  ASSUME Inv, NEW w \in Workers, BeginFinish(w)
  PROVE  Inv'
<1>1. /\ TypeOK /\ call[w] \in CallStates /\ call[w].pc = "finish"
      /\ CallOK(call[w], op, ver, effect)
  BY DEF Inv, TypeOK, BeginFinish
<1>2. effect.sent > 0 /\ call[w].specs # << >> /\ DecidesNothing(call[w].specs)
      /\ AllEvidence(call[w].specs, effect) /\ call[w].specs \in Seq(ServiceEvents)
  BY <1>1 DEF CallOK, CallStates
<1>3. CASE call[w].specs[1].type = "write_succeeded" /\ op.write.state = "succeeded"
  <2>1. call' = Report(w, "ok")
    BY <1>3 DEF BeginFinish
  <2>2. \E c : GoodCall(c, op, ver, effect) /\ Report(w, "ok") = [call EXCEPT ![w] = c]
    BY <1>1, ReportGood DEF ToolResults
  <2> QED
    BY <2>1, <2>2, MoveKeeps DEF BeginFinish
<1>4. CASE /\ ~(call[w].specs[1].type = "write_succeeded" /\ op.write.state = "succeeded")
           /\ op.write.state = "submitting" /\ ReplayWithSpecs(op, call[w].specs) # Rejected
  <2>1. call' = [call EXCEPT ![w] = LoadedCall(w, "finish", call[w].specs, FALSE)]
    BY <1>4 DEF BeginFinish
  <2>2. GoodCall(LoadedCall(w, "finish", call[w].specs, FALSE), op, ver, effect)
    BY <1>1, <1>2, <1>4, LoadGood DEF Kinds
  <2> QED
    BY <2>1, <2>2, MoveKeeps DEF BeginFinish
<1>5. CASE /\ ~(call[w].specs[1].type = "write_succeeded" /\ op.write.state = "succeeded")
           /\ ~(op.write.state = "submitting" /\ ReplayWithSpecs(op, call[w].specs) # Rejected)
  <2>1. call' = FinishFails(w)
    BY <1>5 DEF BeginFinish
  <2> QED
    BY <1>2, <2>1, FinishFailsGood, MoveKeeps DEF BeginFinish
<1> QED
  BY <1>3, <1>4, <1>5

LEMMA BeginCleanupKeeps ==
  ASSUME Inv, NEW w \in Workers, BeginCleanup(w)
  PROVE  Inv'
<1> DEFINE e == Event("write_outcome_unknown")
           d == LoadedCall(w, "cleanup", <<e>>, FALSE)
<1>1. TypeOK /\ effect.sent > 0
  BY DEF Inv, BeginCleanup, CallOK
<1>2. e \in ServiceEvents /\ e.type = "write_outcome_unknown"
  BY DEF Event, ServiceEvents
<1>3. Evidence(e, effect) /\ e.type \notin Decisions
  BY <1>1, <1>2 DEF Evidence, Decisions
<1>4. CASE op.write.state = "submitting" /\ ReplayWithSpecs(op, <<e>>) # Rejected
  <2>1. call' = [call EXCEPT ![w] = d]
    BY <1>4 DEF BeginCleanup
  <2> HIDE DEF e
  <2>2. /\ <<e>> \in Seq(ServiceEvents) /\ <<e>> # << >> /\ DecidesNothing(<<e>>)
        /\ AllEvidence(<<e>>, effect)
    BY <1>2, <1>3, OneEvent
  <2>3. GoodCall(d, op, ver, effect)
    BY <1>1, <1>4, <2>2, LoadGood DEF Kinds
  <2> HIDE DEF d
  <2> QED
    BY <2>1, <2>3, MoveKeeps DEF BeginCleanup
<1>5. CASE ~(op.write.state = "submitting" /\ ReplayWithSpecs(op, <<e>>) # Rejected)
  <2>1. call' = Report(w, "unknown")
    BY <1>5 DEF BeginCleanup
  <2>2. \E c : GoodCall(c, op, ver, effect) /\ Report(w, "unknown") = [call EXCEPT ![w] = c]
    BY <1>1, ReportGood DEF ToolResults
  <2> QED
    BY <2>1, <2>2, MoveKeeps DEF BeginCleanup
<1> QED
  BY <1>4, <1>5

LEMMA BeginReportKeeps ==
  ASSUME Inv, NEW w \in Workers, BeginReport(w)
  PROVE  Inv'
<1> DEFINE first == call[w].specs[1]
           e == MessageEvent("message_appended", "toolResult")
           specs == ReportSpecs(w)
           d == LoadedCall(w, "report", specs, FALSE)
<1>1. /\ TypeOK /\ call[w].specs \in Seq(ServiceEvents) /\ call[w].specs # << >>
      /\ AllEvidence(call[w].specs, effect) /\ DecidesNothing(call[w].specs)
  BY DEF Inv, TypeOK, BeginReport, CallOK, CallStates
<1>2. first \in ServiceEvents /\ Evidence(first, effect) /\ first.type \notin Decisions
  BY <1>1 DEF AllEvidence, DecidesNothing
<1>3. e \in ServiceEvents /\ e.type = "message_appended"
  BY DEF MessageEvent, ServiceEvents
<1>4. Evidence(e, effect) /\ e.type \notin Decisions
  BY <1>3 DEF Evidence, Decisions
<1> DEFINE r == IF op.tool.phase \in {"intent_recorded", "dispatch_started"}
                THEN <<first>> ELSE << >>
           s == <<e>>
           S == {first, e}
<1>5. specs = r \o s
  BY DEF ReportSpecs
<1> HIDE DEF first, e, specs
<1>6. r \in Seq(S) /\ s \in Seq(S) /\ Len(s) = 1
  <2>1. first \in S /\ e \in S
    OBVIOUS
  <2> HIDE DEF S
  <2>2. s \in Seq(S) /\ Len(s) = 1
    BY <2>1
  <2>3. <<first>> \in Seq(S) /\ << >> \in Seq(S)
    BY <2>1
  <2> QED
    BY <2>2, <2>3
<1>a. S \subseteq ServiceEvents
  BY <1>2, <1>3
<1> HIDE DEF r, s, S
<1>7. specs \in Seq(S) /\ Len(specs) = Len(r) + 1 /\ Len(r) \in Nat
  <2>1. r \o s \in Seq(S) /\ Len(r \o s) = Len(r) + Len(s)
    BY <1>6, ConcatProperties, Zenon
  <2>2. Len(r) \in Nat
    BY <1>6
  <2> QED
    BY <1>5, <1>6, <2>1, <2>2
<1>b. specs \in Seq(ServiceEvents) /\ specs # << >> /\ \A i \in 1..Len(specs) : specs[i] \in S
  BY <1>a, <1>7
<1>8. AllEvidence(specs, effect) /\ DecidesNothing(specs)
  BY <1>2, <1>4, <1>b DEF AllEvidence, DecidesNothing, S
<1>9. CASE op.transcript = "call" /\ ReplayWithSpecs(op, specs) # Rejected
  <2>1. call' = [call EXCEPT ![w] = d]
    BY <1>9 DEF BeginReport, specs
  <2>2. GoodCall(d, op, ver, effect)
    BY <1>1, <1>b, <1>8, <1>9, LoadGood DEF Kinds
  <2> HIDE DEF d
  <2> QED
    BY <2>1, <2>2, MoveKeeps DEF BeginReport
<1>10. CASE ~(op.transcript = "call" /\ ReplayWithSpecs(op, specs) # Rejected)
  <2>1. call' = [call EXCEPT ![w] = Idle]
    BY <1>10 DEF BeginReport, specs
  <2> QED
    BY <2>1, IdleGood, MoveKeeps DEF BeginReport
<1> QED
  BY <1>9, <1>10

-----------------------------------------------------------------------------
(* Reconciliation *)

LEMMA ReadKeeps ==
  ASSUME Inv, NEW w \in Workers, ReadForReconcile(w)
  PROVE  Inv'
<1> DEFINE e == EnterEvent(op.write.state, 0)
<1>1. e \in ServiceEvents /\ e.type \in Entries
  BY DEF EnterEvent, FencedEvent, ServiceEvents, Entries
<1>2. call' = Holding(w, "acquire", e) /\ UNCHANGED <<op, ver, late, claim, effect>>
  BY DEF ReadForReconcile
<1> HIDE DEF e
<1>3. Evidence(e, effect) /\ e.type \notin Decisions
  BY <1>1 DEF Evidence, Decisions, Entries
<1> QED
  BY <1>1, <1>2, <1>3, HoldKeeps

LEMMA AcquireKeeps ==
  ASSUME Inv, NEW w \in Workers, AcquireReconcile(w)
  PROVE  Inv'
<1>1. /\ TypeOK /\ call[w] \in CallStates /\ claim \in Claims /\ call[w].pc = "acquire"
      /\ CallOK(call[w], op, ver, effect) /\ UNCHANGED <<op, ver, late, effect>>
  BY DEF Inv, TypeOK, Claims, AcquireReconcile
<1>2. CASE Held(claim, 0)
  <2>1. call' = [call EXCEPT ![w] = Idle] /\ claim' = claim
    BY <1>2 DEF AcquireReconcile
  <2> QED
    BY <1>1, <2>1, IdleGood, CallKeeps
<1>3. CASE ~Held(claim, 0)
  <2> DEFINE e == call[w].specs[1]
             g == claim.gen + 1
             f == [e EXCEPT !.token = g]
             d == [call[w] EXCEPT !.pc = "enter", !.gen = g, !.specs = <<f>>]
  <2>1. claim' = AcquiredRow(claim, w, 0, 1) /\ g \in Nat
    BY <1>1, <1>3 DEF AcquireReconcile, Claims
  <2>2. call' = [call EXCEPT ![w].pc = "enter", ![w].gen = g, ![w].specs = <<f>>]
    BY <1>3 DEF AcquireReconcile
  <2>3. e \in ServiceEvents /\ e.type \in Entries
    BY <1>1 DEF CallOK, CallStates, LastType
  <2> HIDE DEF g, e
  <2>4. f \in ServiceEvents /\ f.type \in Entries
    <3>1. e \in [type : {"write_succeeded", "write_reconciling", "write_reconcile_reentered",
                         "write_reconcile_failed", "write_reconcile_deferred"}, token : Nat]
      BY <2>3 DEF ServiceEvents, Entries
    <3>2. f \in [type : {"write_succeeded", "write_reconciling", "write_reconcile_reentered",
                         "write_reconcile_failed", "write_reconcile_deferred"}, token : Nat]
      BY <2>1, <3>1
    <3>3. f.type = e.type
      BY <3>1
    <3> QED
      BY <2>3, <3>2, <3>3 DEF ServiceEvents
  <2> HIDE DEF f
  <2>5. Evidence(f, effect) /\ f.type \notin Decisions
    BY <2>4 DEF Evidence, Decisions, Entries
  <2>6. call' = [call EXCEPT ![w] = d]
    BY <1>1, <2>2 DEF TypeOK
  <2> DEFINE b == [call[w] EXCEPT !.gen = g]
  <2>7. b \in CallStates
    BY <1>1, <2>1 DEF CallStates
  <2>8. d = [b EXCEPT !.pc = "enter", !.specs = <<f>>]
    BY <1>1 DEF CallStates
  <2> HIDE DEF b
  <2>9. GoodCall(d, op, ver, effect)
    BY <2>4, <2>5, <2>7, <2>8, HoldGood
  <2>10. claim' \in Claims
    BY <1>1, <2>1 DEF AcquiredRow, Claims, Held
  <2> HIDE DEF d
  <2> QED
    BY <1>1, <2>6, <2>9, <2>10, CallKeeps
<1> QED
  BY <1>2, <1>3

LEMMA ReleaseGood ==
  ASSUME Inv, NEW w \in Workers
  PROVE  \E c : GoodCall(c, op, ver, effect) /\ Goto(w, "release") = [call EXCEPT ![w] = c]
<1> DEFINE c == [call[w] EXCEPT !.pc = "release"]
<1>1. GoodCall(c, op, ver, effect)
  BY GotoGood DEF Inv, TypeOK
<1>2. Goto(w, "release") = [call EXCEPT ![w] = c]
  BY GotoCall DEF Inv
<1> QED
  BY <1>1, <1>2

\* What a worker holds is loaded as it is.
LEMMA LoadHeld ==
  ASSUME Inv, NEW w \in Workers, call[w].pc \in {"enter", "verdict"},
         ReplayWithSpecs(op, call[w].specs) # Rejected
  PROVE  GoodCall(LoadedCall(w, call[w].pc, call[w].specs, FALSE), op, ver, effect)
<1>1. TypeOK /\ call[w] \in CallStates /\ CallOK(call[w], op, ver, effect)
  BY DEF Inv, TypeOK
<1>2. /\ call[w].specs \in Seq(ServiceEvents) /\ call[w].specs # << >>
      /\ AllEvidence(call[w].specs, effect) /\ DecidesNothing(call[w].specs)
      /\ call[w].pc = "enter" => LastType(call[w].specs) \in Entries
  BY <1>1 DEF CallOK, CallStates
<1> QED
  BY <1>1, <1>2, LoadGood DEF Kinds

LEMMA BeginEnterKeeps ==
  ASSUME Inv, NEW w \in Workers, BeginEnter(w)
  PROVE  Inv'
<1> DEFINE d == LoadedCall(w, "enter", call[w].specs, FALSE)
<1>1. \/ call' = [call EXCEPT ![w] = d] /\ ReplayWithSpecs(op, call[w].specs) # Rejected
      \/ call' = Goto(w, "release")
  BY DEF BeginEnter
<1>2. call[w].pc = "enter" /\ UNCHANGED <<op, ver, late, claim, effect>>
  BY DEF BeginEnter
<1>3. ReplayWithSpecs(op, call[w].specs) # Rejected => GoodCall(d, op, ver, effect)
  BY <1>2, LoadHeld
<1> HIDE DEF d
<1> QED
  BY <1>1, <1>2, <1>3, ReleaseGood, MoveKeeps

LEMMA BeginVerdictKeeps ==
  ASSUME Inv, NEW w \in Workers, BeginVerdict(w)
  PROVE  Inv'
<1> DEFINE d == LoadedCall(w, "verdict", call[w].specs, FALSE)
<1>1. \/ call' = [call EXCEPT ![w] = d] /\ ReplayWithSpecs(op, call[w].specs) # Rejected
      \/ call' = Goto(w, "release")
  BY DEF BeginVerdict
<1>2. call[w].pc = "verdict" /\ UNCHANGED <<op, ver, late, claim, effect>>
  BY DEF BeginVerdict
<1>3. ReplayWithSpecs(op, call[w].specs) # Rejected => GoodCall(d, op, ver, effect)
  BY <1>2, LoadHeld
<1> HIDE DEF d
<1> QED
  BY <1>1, <1>2, <1>3, ReleaseGood, MoveKeeps

\* An answer is evidence, and it stays true: the request was sent, and it is
\* applied, or it is neither applied nor in flight.
LEMMA CheckingKeeps ==
  ASSUME Inv, NEW w \in Workers, ReconcileAnswers(w) \/ ReconcileRaises(w)
  PROVE  Inv'
<1> USE DEF Effects
<1>1. /\ call[w] \in CallStates /\ call[w].pc = "checking" /\ effect \in Effects
      /\ UNCHANGED <<op, ver, late, claim, effect>> /\ call[w].gen \in Nat
  BY DEF Inv, TypeOK, CallStates, ReconcileAnswers, ReconcileRaises
<1>2. effect.sent > 0
  BY <1>1 DEF Inv, CallOK
<1>3. PICK e \in ServiceEvents :
         /\ call' = Holding(w, "verdict", e)
         /\ e.type \in {"write_succeeded", "write_failed", "write_reconcile_deferred",
                        "write_reconcile_failed"}
         /\ e.type = "write_succeeded" => effect.applied > 0
         /\ e.type = "write_failed" => effect.inflight = 0 /\ effect.applied = 0
  <2>1. CASE ReconcileRaises(w)
    <3> DEFINE e == FencedEvent("write_reconcile_failed", call[w].gen)
    <3>1. e \in ServiceEvents /\ e.type = "write_reconcile_failed"
      BY <1>1 DEF FencedEvent, ServiceEvents
    <3>2. call' = Holding(w, "verdict", e)
      BY <2>1 DEF ReconcileRaises
    <3> HIDE DEF e
    <3> QED
      BY <3>1, <3>2
  <2>2. CASE ReconcileAnswers(w)
    <3>1. PICK answer \in Answers :
            call' = Holding(w, "verdict", VerdictEvent(answer, call[w].gen))
      BY <2>2 DEF ReconcileAnswers
    <3> DEFINE e == VerdictEvent(answer, call[w].gen)
    <3>2. CASE answer = "succeeded"
      <4>1. e = FencedEvent("write_succeeded", call[w].gen) /\ effect.applied > 0
        BY <3>2 DEF VerdictEvent, Answers
      <4> HIDE DEF e
      <4>2. e \in ServiceEvents /\ e.type = "write_succeeded"
        <5> DEFINE g == call[w].gen
        <5>1. e = [type |-> "write_succeeded", token |-> g] /\ g \in Nat
          BY <1>1, <4>1 DEF FencedEvent
        <5> HIDE DEF g
        <5> QED
          BY <5>1 DEF ServiceEvents
      <4> QED
        BY <3>1, <4>1, <4>2 DEF e
    <3>3. CASE answer = "failed"
      <4>1. e = WriteFailed(FALSE, call[w].gen) /\ effect.inflight = 0 /\ effect.applied = 0
        BY <3>3 DEF VerdictEvent, Answers
      <4>2. e \in ServiceEvents /\ e.type = "write_failed"
        BY <1>1, <4>1 DEF WriteFailed, ServiceEvents
      <4> HIDE DEF e
      <4> QED
        BY <3>1, <4>1, <4>2 DEF e
    <3>4. CASE answer = "unknown"
      <4>1. e = FencedEvent("write_reconcile_deferred", call[w].gen)
        BY <3>4 DEF VerdictEvent
      <4> HIDE DEF e
      <4>2. e \in ServiceEvents /\ e.type = "write_reconcile_deferred"
        <5> DEFINE g == call[w].gen
        <5>1. e = [type |-> "write_reconcile_deferred", token |-> g] /\ g \in Nat
          BY <1>1, <4>1 DEF FencedEvent
        <5> HIDE DEF g
        <5> QED
          BY <5>1 DEF ServiceEvents
      <4> QED
        BY <3>1, <4>1, <4>2 DEF e
    <3> QED
      BY <3>2, <3>3, <3>4 DEF Answers
  <2> QED
    BY <2>1, <2>2
<1>4. Evidence(e, effect) /\ e.type \notin Decisions
  BY <1>2, <1>3 DEF Evidence, Decisions
<1> QED
  BY <1>1, <1>3, <1>4, HoldKeeps

LEMMA GiveUpKeeps ==
  ASSUME Inv, NEW w \in Workers, ReconcileCancelled(w) \/ Crash(w)
  PROVE  Inv'
<1>1. CASE ReconcileCancelled(w)
  BY <1>1, ReleaseGood, MoveKeeps DEF ReconcileCancelled
<1>2. CASE Crash(w)
  <2>1. call' = [call EXCEPT ![w] = Idle] /\ UNCHANGED <<op, ver, late, claim, effect>>
    BY <1>2 DEF Crash
  <2> QED
    BY <2>1, IdleGood, MoveKeeps
<1> QED
  BY <1>1, <1>2

LEMMA ReleaseKeeps ==
  ASSUME Inv, NEW w \in Workers, ReleaseReconcile(w)
  PROVE  Inv'
<1>1. claim \in Claims /\ UNCHANGED <<op, ver, late, effect>> /\ call' = [call EXCEPT ![w] = Idle]
  BY DEF Inv, TypeOK, Claims, ReleaseReconcile
<1>2. ReleasedRow(claim) \in Claims
  BY <1>1 DEF Claims, ReleasedRow
<1>3. claim' \in Claims
  BY <1>1, <1>2 DEF ReleaseReconcile
<1> QED
  BY <1>1, <1>3, IdleGood, CallKeeps

-----------------------------------------------------------------------------
(* The append transaction *)

\* A call that goes on after its append did not commit.
LEMMA ConflictKeeps ==
  ASSUME Inv, NEW w \in Workers, AppendConflicts(w)
  PROVE  Inv'
<1>1. /\ call[w] \in CallStates /\ call[w].pc = "append" /\ call[w].kind \in Kinds
      /\ CallOK(call[w], op, ver, effect) /\ TypeOK
  BY DEF Inv, TypeOK, AppendConflicts, CallStates
<1>2. AppendOK(call[w], op, ver, effect)
  BY <1>1 DEF CallOK
<1>3. CASE call[w].kind \in {"service", "execute"}
  <2>1. call' = [call EXCEPT ![w] = Idle]
    BY <1>3 DEF AppendConflicts, AfterConflict
  <2> QED
    BY <2>1, IdleGood, MoveKeeps DEF AppendConflicts
<1>4. CASE call[w].kind \notin {"service", "execute"}
  <2> DEFINE pc == call[w].kind
             d == [call[w] EXCEPT !.pc = pc]
  <2>1. call' = [call EXCEPT ![w] = d]
    BY <1>1, <1>4, GotoCall DEF AppendConflicts, AfterConflict
  <2>2. pc \in {"finish", "cleanup", "report", "enter", "verdict"}
    BY <1>1, <1>2, <1>4 DEF Kinds, AppendOK
  <2>3. /\ call[w].specs # << >> /\ DecidesNothing(call[w].specs)
        /\ pc = "enter" => LastType(call[w].specs) \in Entries
        /\ pc \in {"finish", "cleanup"} => effect.sent > 0
    BY <1>2, <1>4 DEF AppendOK
  <2> HIDE DEF pc
  <2>4. GoodCall(d, op, ver, effect)
    BY <1>1, <2>2, <2>3, GotoGood
  <2> HIDE DEF d
  <2> QED
    BY <2>1, <2>4, MoveKeeps DEF AppendConflicts
<1> QED
  BY <1>3, <1>4

LEMMA FailureKeeps ==
  ASSUME Inv, NEW w \in Workers, AppendFenced(w) \/ AppendFails(w)
  PROVE  Inv'
<1>1. /\ call[w] \in CallStates /\ call[w].pc = "append" /\ call[w].kind \in Kinds
      /\ CallOK(call[w], op, ver, effect) /\ TypeOK
      /\ call' = AfterFailure(w) /\ UNCHANGED <<op, ver, late, claim, effect>>
  BY DEF Inv, TypeOK, AppendFenced, AppendFails, CallStates
<1>2. AppendOK(call[w], op, ver, effect)
  BY <1>1 DEF CallOK
<1>3. CASE call[w].kind \in {"service", "execute", "report"}
  <2>1. call' = [call EXCEPT ![w] = Idle]
    BY <1>1, <1>3 DEF AfterFailure
  <2> QED
    BY <1>1, <2>1, IdleGood, MoveKeeps
<1>4. CASE call[w].kind = "finish"
  <2>1. call' = FinishFails(w)
    BY <1>1, <1>4 DEF AfterFailure
  <2>2. effect.sent > 0
    BY <1>2, <1>4 DEF AppendOK
  <2> QED
    BY <1>1, <2>1, <2>2, FinishFailsGood, MoveKeeps
<1>5. CASE call[w].kind = "cleanup"
  <2>1. call' = Report(w, "unknown")
    BY <1>1, <1>5 DEF AfterFailure
  <2>2. \E c : GoodCall(c, op, ver, effect) /\ Report(w, "unknown") = [call EXCEPT ![w] = c]
    BY <1>1, ReportGood DEF ToolResults
  <2> QED
    BY <1>1, <2>1, <2>2, MoveKeeps
<1>6. CASE call[w].kind \in {"enter", "verdict"}
  <2>1. call' = Goto(w, "release")
    BY <1>1, <1>6 DEF AfterFailure
  <2> QED
    BY <1>1, <2>1, ReleaseGood, MoveKeeps
<1> QED
  BY <1>1, <1>2, <1>3, <1>4, <1>5, <1>6 DEF Kinds, AppendOK

LEMMA LateKeeps ==
  ASSUME Inv, NEW w \in Workers, AppendLate(w)
  PROVE  Inv'
<1> DEFINE e == Event("approval_expired")
           d == LoadedCall(w, "service", <<e>>, FALSE)
<1>1. TypeOK /\ op \in Operations /\ op.phase \in Live
  BY DEF Inv, TypeOK
<1>2. e \in ServiceEvents /\ e.type = "approval_expired"
  BY DEF Event, ServiceEvents
<1>3. CASE call[w].kind = "service" /\ op.approval.state = "waiting"
  <2>1. call' = [call EXCEPT ![w] = d]
    BY <1>3 DEF AppendLate
  <2> HIDE DEF e
  <2>2. Accepts(op, e)
    <3>1. /\ e.type \notin MessageEvents /\ e.type \notin ToolEvents /\ e.type \in ApprovalEvents
          /\ e.type \notin WriteEvents /\ e.type # "operation_finished"
      BY <1>2 DEF MessageEvents, ToolEvents, ApprovalEvents, WriteEvents
    <3>2. ApprovalAccepted(op, e)
      BY <1>2, <1>3 DEF ApprovalAccepted
    <3> QED
      BY <1>1, <3>1, <3>2 DEF Accepts, Live
  <2>3. Reduce(op, e) = ApprovalMoved(op, "expired", "cancelled", "running")
    <3>1. Reduce(op, e) = Applied(op, e)
      BY <1>1, <2>2 DEF Reduce, Live
    <3>2. Applied(op, e) = ApprovalApplied(op, e)
      BY <1>2 DEF Applied, MessageEvents, ToolEvents, ApprovalEvents, WriteEvents
    <3>3. ApprovalApplied(op, e) = ApprovalMoved(op, "expired", "cancelled", "running")
      BY <1>2 DEF ApprovalApplied
    <3> QED
      BY <3>1, <3>2, <3>3
  <2>4. ReplayWithSpecs(op, <<e>>) # Rejected
    <3>1. Reduce(op, e).phase = "running"
      <4>1. "expired" \in ApprovalStates /\ "cancelled" \in ResumeStates /\ "running" \in Phases
        BY DEF ApprovalStates, ResumeStates, Phases
      <4>2. ApprovalMoved(op, "expired", "cancelled", "running").phase = "running"
        BY <1>1, <4>1, ApprovalMovedFacts
      <4> QED
        BY <2>3, <4>2
    <3>2. Rejected.phase = "rejected"
      BY DEF Rejected, StartedOperation
    <3> QED
      BY <3>1, <3>2, SingleReplay
  <2>5. Evidence(e, effect) /\ e.type \notin Decisions
    BY <1>2 DEF Evidence, Decisions
  <2>6. /\ <<e>> \in Seq(ServiceEvents) /\ <<e>> # << >> /\ DecidesNothing(<<e>>)
        /\ AllEvidence(<<e>>, effect)
    BY <1>2, <2>5, OneEvent
  <2>7. GoodCall(d, op, ver, effect)
    BY <1>1, <2>4, <2>6, LoadGood DEF Kinds
  <2> HIDE DEF d
  <2> QED
    BY <2>1, <2>7, MoveKeeps DEF AppendLate
<1>4. CASE ~(call[w].kind = "service" /\ op.approval.state = "waiting")
  <2>1. call' = [call EXCEPT ![w] = Idle]
    BY <1>4 DEF AppendLate
  <2> QED
    BY <2>1, IdleGood, MoveKeeps DEF AppendLate
<1> QED
  BY <1>3, <1>4

\* What an append does to the Operation.
LEMMA AppendedOperation ==
  ASSUME Inv, NEW w \in Workers, AppendBatch(w)
  PROVE  /\ op' \in Operations /\ op'.phase \in Live /\ WriteOK(op', effect)
         /\ op.write.state \notin Unclaimed => op'.write.state \notin Unclaimed
         /\ call[w].kind = "execute" =>
               op.write.state \in Unclaimed /\ op'.write.state = "submitting"
         /\ call[w].kind = "enter" => op'.write.state = "reconciling"
         /\ ~call[w].deadline => ApprovalDrifts(op.approval.state, op'.approval.state)
<1> DEFINE specs == call[w].specs
<1>1. /\ op \in Operations /\ specs \in Seq(ServiceEvents) /\ effect \in Effects
      /\ op.phase \in Live /\ WriteOK(op, effect) /\ AllEvidence(specs, effect)
      /\ AppendOK(call[w], op, ver, effect)
  BY DEF Inv, TypeOK, CallStates, CallOK, AppendBatch, Effects
<1>2. specs # << >> /\ ReplayWithSpecs(op, specs) # Rejected
  BY <1>1 DEF AppendOK, AppendBatch, StoreAccepts
<1>3. op' = ReplayWithSpecs(op, specs)
  BY DEF AppendBatch
<1> HIDE DEF specs
<1>4. /\ op' \in Operations /\ op'.phase \in Live /\ WriteOK(op', effect)
      /\ op.write.state \notin Unclaimed => op'.write.state \notin Unclaimed
      /\ LastType(specs) = "write_submitting" =>
            op.write.state \in Unclaimed /\ op'.write.state = "submitting"
      /\ LastType(specs) \in Entries => op'.write.state = "reconciling"
      /\ DecidesNothing(specs) => ApprovalDrifts(op.approval.state, op'.approval.state)
  BY <1>1, <1>2, <1>3, BatchFacts DEF Effects
<1> QED
  BY <1>1, <1>4 DEF AppendOK, specs

\* The log has grown: every other call that waits to append is refused.
LEMMA OthersKeep ==
  ASSUME Inv, NEW w \in Workers, AppendBatch(w), NEW v \in Workers
  PROVE  CallOK(call[v], op', ver', effect)
<1>1. /\ call[v] \in CallStates /\ CallOK(call[v], op, ver, effect)
      /\ call[w].specs \in Seq(ServiceEvents) /\ call[w].specs # << >>
      /\ ver \in Nat /\ call[v].ver \in Nat
  BY DEF Inv, TypeOK, CallStates, CallOK, AppendOK, AppendBatch
<1>2. ver' \in Nat /\ ver < ver'
  BY <1>1 DEF AppendBatch
<1>3. call[v].pc = "append" => AppendOK(call[v], op', ver', effect)
  BY <1>1, <1>2 DEF CallOK, AppendOK
<1>4. op.write.state \notin Unclaimed => op'.write.state \notin Unclaimed
  BY AppendedOperation
<1> QED
  BY <1>1, <1>3, <1>4 DEF CallOK

LEMMA AppendKeeps ==
  ASSUME Inv, NEW w \in Workers, AppendBatch(w)
  PROVE  Inv'
<1> USE DEF Effects
<1>1. /\ TypeOK /\ call[w] \in CallStates /\ call[w].pc = "append" /\ effect \in Effects
      /\ AppendOK(call[w], op, ver, effect) /\ CallOK(call[w], op', ver', effect)
      /\ call[w].specs \in Seq(ServiceEvents) /\ ver \in Nat /\ call[w].kind \in Kinds
  BY OthersKeep DEF Inv, TypeOK, CallStates, CallOK, AppendBatch
<1>2. /\ op' \in Operations /\ op'.phase \in Live /\ WriteOK(op', effect)
      /\ ver' \in Nat /\ UNCHANGED <<late, claim, effect>>
  BY <1>1, AppendedOperation DEF AppendBatch
<1>3. PICK c \in CallStates :
        /\ CallOK(c, op', ver', effect) /\ call' = [call EXCEPT ![w] = c]
        /\ c.pc = "submitted" => op.write.state \in Unclaimed
  <2> SUFFICES \/ \E c : GoodCall(c, op', ver', effect) /\ call' = [call EXCEPT ![w] = c]
               \/ \E c \in CallStates :
                     /\ CallOK(c, op', ver', effect) /\ call' = [call EXCEPT ![w] = c]
                     /\ op.write.state \in Unclaimed
    BY DEF GoodCall
  <2>1. CASE call' = Goto(w, "cleanup") /\ call[w].kind = "finish"
    <3>1. effect.sent > 0
      BY <1>1, <2>1 DEF AppendOK
    <3>2. GoodCall([call[w] EXCEPT !.pc = "cleanup"], op', ver', effect)
      BY <1>1, <3>1, GotoGood
    <3>3. call' = [call EXCEPT ![w] = [call[w] EXCEPT !.pc = "cleanup"]]
      BY <1>1, <2>1, GotoCall
    <3> QED
      BY <3>2, <3>3
  <2>2. CASE call' = AfterAppend(w)
    <3>1. CASE call[w].kind = "execute"
      <4> DEFINE d == [call[w] EXCEPT !.pc = "submitted"]
      <4>1. call' = [call EXCEPT ![w] = d]
        BY <1>1, <2>2, <3>1, GotoCall DEF AfterAppend
      <4>2. d \in CallStates /\ d.pc = "submitted" /\ d.specs = call[w].specs
        BY <1>1 DEF CallStates, Pcs
      <4>3. op.write.state \in Unclaimed /\ op'.write.state = "submitting"
        BY <3>1, AppendedOperation
      <4>4. effect.sent = 0 /\ op'.write.state \notin Unclaimed
        BY <1>1, <4>3 DEF Inv, WriteOK, Unclaimed
      <4> HIDE DEF d
      <4>5. CallOK(d, op', ver', effect)
        BY <1>1, <4>2, <4>4 DEF CallOK
      <4> QED
        BY <4>1, <4>2, <4>3, <4>5
    <3>2. CASE call[w].kind \in {"finish", "cleanup"}
      <4>1. \E result \in ToolResults : call' = Report(w, result)
        BY <2>2, <3>2 DEF AfterAppend, ToolResults
      <4>2. PICK result \in ToolResults : call' = Report(w, result)
        BY <4>1
      <4>3. \E c : GoodCall(c, op', ver', effect) /\ Report(w, result) = [call EXCEPT ![w] = c]
        <5>1. \A o, v, x : \E c :
                 GoodCall(c, o, v, x) /\ Report(w, result) = [call EXCEPT ![w] = c]
          BY <1>1, ReportGood
        <5> QED
          BY <5>1
      <4> QED
        BY <4>2, <4>3
    <3>3. CASE call[w].kind = "enter"
      <4>1. call' = Goto(w, "checking")
        BY <2>2, <3>3 DEF AfterAppend
      <4>2. effect.sent > 0
        BY <1>2, <3>3, AppendedOperation DEF WriteOK
      <4>3. GoodCall([call[w] EXCEPT !.pc = "checking"], op', ver', effect)
        BY <1>1, <4>2, GotoGood
      <4>4. call' = [call EXCEPT ![w] = [call[w] EXCEPT !.pc = "checking"]]
        BY <1>1, <4>1, GotoCall
      <4> QED
        BY <4>3, <4>4
    <3>4. CASE call[w].kind = "verdict"
      <4>1. call' = Goto(w, "release")
        BY <2>2, <3>4 DEF AfterAppend
      <4>2. GoodCall([call[w] EXCEPT !.pc = "release"], op', ver', effect)
        BY <1>1, GotoGood
      <4>3. call' = [call EXCEPT ![w] = [call[w] EXCEPT !.pc = "release"]]
        BY <1>1, <4>1, GotoCall
      <4> QED
        BY <4>2, <4>3
    <3>5. CASE call[w].kind \in {"none", "service", "report"}
      <4>1. call' = [call EXCEPT ![w] = Idle]
        BY <2>2, <3>5 DEF AfterAppend
      <4> QED
        BY <4>1, IdleGood
    <3> QED
      BY <1>1, <3>1, <3>2, <3>3, <3>4, <3>5 DEF Kinds
  <2> QED
    BY <2>1, <2>2 DEF AppendBatch
<1>4. \A v \in Workers : call'[v] = IF v = w THEN c ELSE call[v]
  BY <1>1, <1>3 DEF TypeOK
<1>5. TypeOK'
  BY <1>1, <1>2, <1>3 DEF TypeOK
<1>6. \A v \in Workers : CallOK(call'[v], op', ver', effect)
  BY <1>3, <1>4, OthersKeep
<1>7. \A v \in Workers : CallOK(call[v], op, ver, effect)'
  BY <1>2, <1>6
<1>8. (op.phase \in Live /\ EffectOK(effect) /\ WriteOK(op, effect))'
  BY <1>2 DEF Inv
<1>9. ASSUME NEW u \in Workers, NEW v \in Workers, call'[u].pc = "submitted",
             call'[v].pc = "submitted"
      PROVE  u = v
  <2>1. ASSUME NEW y \in Workers, y # w, call[y].pc = "submitted" PROVE c.pc # "submitted"
    BY <1>3, <2>1 DEF Inv, CallOK
  <2> QED
    BY <1>4, <1>9, <2>1 DEF Inv
<1> QED
  BY <1>5, <1>7, <1>8, <1>9 DEF Inv

-----------------------------------------------------------------------------
(* The environment *)

\* The external system decides about the request: a worker that holds a
\* failure has seen that nothing is in flight.
LEMMA ResolveKeeps ==
  ASSUME Inv, ExternalResolves
  PROVE  Inv'
<1> USE DEF Effects
<1>1. effect \in Effects /\ effect.inflight > 0 /\ UNCHANGED <<op, ver, late, claim, call>>
  BY DEF Inv, TypeOK, ExternalResolves
<1>2. effect.inflight = 1 /\ effect.sent = 1 /\ effect.applied = 0
  BY <1>1 DEF Inv, EffectOK
<1>3. /\ effect' \in Effects /\ effect'.sent = effect.sent /\ effect'.inflight = 0
      /\ effect'.applied \in {0, 1}
  <2>1. \/ effect' = [effect EXCEPT !.inflight = 0, !.applied = 1]
        \/ effect' = [effect EXCEPT !.inflight = 0]
    BY <1>2 DEF ExternalResolves
  <2> QED
    BY <1>1, <1>2, <2>1
<1>4. TypeOK' /\ (op.phase \in Live)' /\ EffectOK(effect)'
  BY <1>1, <1>2, <1>3 DEF Inv, TypeOK, EffectOK
<1>5. WriteOK(op, effect)'
  BY <1>1, <1>2, <1>3 DEF Inv, WriteOK
<1>6. ASSUME NEW v \in Workers PROVE CallOK(call[v], op, ver, effect')
  <2>1. CallOK(call[v], op, ver, effect)
    BY DEF Inv
  <2>2. AllEvidence(call[v].specs, effect')
    BY <1>2, <1>3, <2>1 DEF CallOK, AllEvidence, Evidence
  <2>3. call[v].pc = "append" => AppendOK(call[v], op, ver, effect')
    BY <1>3, <2>1 DEF CallOK, AppendOK
  <2> QED
    BY <1>3, <2>1, <2>2, <2>3 DEF CallOK
<1>7. \A v \in Workers : CallOK(call[v], op, ver, effect)'
  BY <1>1, <1>6
<1> QED
  BY <1>1, <1>4, <1>5, <1>7 DEF Inv

LEMMA InvNext == Inv /\ [Next]_svars => Inv'
<1> SUFFICES ASSUME Inv, [Next]_svars PROVE Inv'
  OBVIOUS
<1>1. ASSUME NEW w \in Workers, ApprovalCall(w) PROVE Inv'
  BY <1>1, ApprovalKeeps
<1>2. ASSUME NEW w \in Workers, ExecuteStep(w) PROVE Inv'
  BY <1>2, PrepareKeeps, ExecuteKeeps, HandlerKeeps, HandlingKeeps, CancelledKeeps,
     BeginFinishKeeps, BeginCleanupKeeps, BeginReportKeeps DEF ExecuteStep
<1>3. ASSUME NEW w \in Workers, ReconcileStep(w) PROVE Inv'
  BY <1>3, ReadKeeps, AcquireKeeps, BeginEnterKeeps, CheckingKeeps, GiveUpKeeps,
     BeginVerdictKeeps, ReleaseKeeps DEF ReconcileStep
<1>4. ASSUME NEW w \in Workers, StoreStep(w) PROVE Inv'
  BY <1>4, AppendKeeps, ConflictKeeps, FailureKeeps, LateKeeps DEF StoreStep
<1>5. ASSUME NEW w \in Workers, Crash(w) PROVE Inv'
  BY <1>5, GiveUpKeeps
<1>6. CASE PassDeadline \/ LeaseLapses
  <2>1. late' \in BOOLEAN /\ claim' \in Claims
    BY <1>6 DEF Inv, TypeOK, Claims, PassDeadline, LeaseLapses
  <2>2. op' = op /\ ver' = ver /\ call' = call /\ effect' = effect
    BY <1>6 DEF PassDeadline, LeaseLapses
  <2>3. TypeOK'
    BY <2>1, <2>2 DEF Inv, TypeOK, Claims
  <2> QED
    BY <2>2, <2>3 DEF Inv
<1>7. CASE ExternalResolves
  BY <1>7, ResolveKeeps
<1>8. CASE UNCHANGED svars
  <2>1. /\ op' = op /\ ver' = ver /\ call' = call /\ effect' = effect
        /\ late' = late /\ claim' = claim
    BY <1>8 DEF svars
  <2>2. TypeOK'
    BY <2>1 DEF Inv, TypeOK
  <2> QED
    BY <2>1, <2>2 DEF Inv
<1> QED
  BY <1>1, <1>2, <1>3, <1>4, <1>5, <1>6, <1>7, <1>8 DEF Next, Environment

-----------------------------------------------------------------------------
(* Theorems *)

LEMMA Invariance == Spec => []Inv
  BY InvInit, InvNext, PTL DEF Spec

\* The Operation, the claim row and the calls of the workers stay of their
\* types; in particular no append leaves a log that replays to a rejection.
THEOREM TypeCorrect == Spec => []TypeOK
<1>1. Inv => TypeOK
  BY DEF Inv
<1> QED
  BY <1>1, Invariance, PTL

\* Writes execute claims the Write in the log before it calls the handler:
\* however many workers race, crash and retry, one request is sent.
THEOREM SentOnceHolds == Spec => []SentOnce
<1>1. Inv => SentOnce
  BY DEF Inv, EffectOK, SentOnce
<1> QED
  BY <1>1, Invariance, PTL

\* The recorded verdict on the Write is what the external system did.
THEOREM VerdictIsTrueHolds == Spec => []VerdictIsTrue
<1>1. Inv => VerdictIsTrue
  <2> SUFFICES ASSUME Inv PROVE VerdictIsTrue
    OBVIOUS
  <2>1. effect \in Effects
    BY DEF Inv, TypeOK, Effects
  <2> QED
    BY <2>1 DEF Inv, EffectOK, WriteOK, VerdictIsTrue, Effects
<1> QED
  BY <1>1, Invariance, PTL

\* After the deadline an Approval is not granted, rejected or consumed: the
\* store compares the deadline again in the transaction that appends.
THEOREM DecidedInTimeHolds == Spec => DecidedInTime
<1> DEFINE A == late /\ op'.approval.state # op.approval.state
                  => op.approval.state \in {"none", "waiting"}
                     /\ op'.approval.state \in {"waiting", "expired"}
<1>1. Inv /\ [Next]_svars => [A]_svars
  <2> SUFFICES ASSUME Inv, Next, late, op'.approval.state # op.approval.state
               PROVE  /\ op.approval.state \in {"none", "waiting"}
                      /\ op'.approval.state \in {"waiting", "expired"}
    OBVIOUS
  <2>1. op' # op
    OBVIOUS
  <2>2. PICK w \in Workers : AppendBatch(w)
    BY <2>1 DEF Next, ApprovalCall, ExecuteStep, ReconcileStep, StoreStep, Crash, Environment,
       BeginGrant, BeginReject, BeginConsume, BeginExpire, BeginPrepare, BeginExecute, Load,
       CallHandler, HandlerReturns, HandlerNotCommitted, HandlerRaises, FinishWith,
       ExecuteCancelled, BeginFinish, BeginCleanup, BeginReport, ReadForReconcile,
       AcquireReconcile, BeginEnter, ReconcileAnswers, ReconcileRaises, ReconcileCancelled,
       BeginVerdict, ReleaseReconcile, AppendConflicts, AppendFenced, AppendLate, AppendFails,
       PassDeadline, LeaseLapses, ExternalResolves
  <2>3. ~call[w].deadline
    BY <2>2 DEF AppendBatch, StoreAccepts
  <2>4. ApprovalDrifts(op.approval.state, op'.approval.state)
    BY <2>2, <2>3, AppendedOperation
  <2> QED
    BY <2>4 DEF ApprovalDrifts
<1> QED
  BY <1>1, Invariance, PTL DEF Spec, DecidedInTime

\* The specification with bounded faults that the run checks for progress is
\* one of this module, so the theorems hold of it too.
THEOREM SettlementRefines == LSpec => Spec
<1>1. LInit => Init
  BY DEF LInit
<1>2. LNext => Next
  BY DEF LNext, Next, Progress, ReconcileStep, StoreStep, Environment
<1>3. [LNext]_lvars => [Next]_svars
  BY <1>2 DEF lvars
<1> QED
  BY <1>1, <1>3, PTL DEF LSpec, Spec


-----------------------------------------------------------------------------
(* Replaying batches *)

LEMMA PassesSteps ==
  ASSUME NEW o, NEW specs, NEW h, Len(specs) \in Nat, Passes(o, specs, h)
  PROVE  h[0] = o /\ \A i \in 1..Len(specs) : h[i] = Reduce(h[i - 1], specs[i])
<1> DEFINE k == Len(specs)
<1> HIDE DEF k
<1>1. h = [n \in 0..k |-> IF n = 0 THEN o ELSE Reduce(h[n - 1], specs[n])] /\ k \in Nat
  BY DEF Passes, k
<1>2. h[0] = o /\ \A i \in 1..k : h[i] = Reduce(h[i - 1], specs[i])
  BY <1>1
<1> QED
  BY <1>2 DEF k

LEMMA EmptyReplay ==
  ASSUME NEW o
  PROVE  ReplayWithSpecs(o, << >>) = o
<1> DEFINE s == << >>
<1>1. Len(s) = 0
  OBVIOUS
<1> HIDE DEF s
<1>2. PICK h : Passes(o, s, h) /\ ReplayWithSpecs(o, s) = h[Len(s)]
  BY <1>1, ReplayPasses
<1>3. h[0] = o
  BY <1>1, <1>2 DEF Passes
<1> QED
  BY <1>1, <1>2, <1>3 DEF s

\* A batch is replayed piece by piece.
LEMMA ReplayConcat ==
  ASSUME NEW o, NEW S, NEW s \in Seq(S), NEW t \in Seq(S)
  PROVE  ReplayWithSpecs(o, s \o t) = ReplayWithSpecs(ReplayWithSpecs(o, s), t)
<1> DEFINE st == s \o t
           m == Len(s)
           k == Len(t)
<1>1. /\ m \in Nat /\ k \in Nat /\ Len(st) = m + k
      /\ \A i \in 1..m : st[i] = s[i]
      /\ \A i \in 1..k : st[m + i] = t[i]
  OBVIOUS
<1> HIDE DEF st, m, k
<1>2. PICK h : Passes(o, st, h) /\ ReplayWithSpecs(o, st) = h[Len(st)]
  BY <1>1, ReplayPasses
<1>3. PICK f : Passes(o, s, f) /\ ReplayWithSpecs(o, s) = f[m]
  BY <1>1, ReplayPasses DEF m
<1>4. PICK g : Passes(f[m], t, g) /\ ReplayWithSpecs(f[m], t) = g[k]
  BY <1>1, ReplayPasses DEF k
<1>5. /\ h[0] = o /\ \A i \in 1..(m + k) : h[i] = Reduce(h[i - 1], st[i])
      /\ f[0] = o /\ \A i \in 1..m : f[i] = Reduce(f[i - 1], s[i])
      /\ g[0] = f[m] /\ \A i \in 1..k : g[i] = Reduce(g[i - 1], t[i])
  <2>1. h[0] = o /\ \A i \in 1..(m + k) : h[i] = Reduce(h[i - 1], st[i])
    BY <1>1, <1>2, PassesSteps
  <2>2. f[0] = o /\ \A i \in 1..m : f[i] = Reduce(f[i - 1], s[i])
    BY <1>1, <1>3, PassesSteps DEF m
  <2>3. g[0] = f[m] /\ \A i \in 1..k : g[i] = Reduce(g[i - 1], t[i])
    BY <1>1, <1>4, PassesSteps DEF k
  <2> QED
    BY <2>1, <2>2, <2>3
<1>6. \A i \in Nat : i <= m => h[i] = f[i]
  <2> DEFINE T == {i \in Nat : i <= m => h[i] = f[i]}
  <2>1. T \in SUBSET Nat /\ 0 \in T
    BY <1>5
  <2>2. ASSUME NEW i \in T PROVE i + 1 \in T
    <3> SUFFICES ASSUME i + 1 <= m PROVE h[i + 1] = f[i + 1]
      OBVIOUS
    <3>1. i + 1 \in 1..m /\ i + 1 \in 1..(m + k) /\ (i + 1) - 1 = i /\ h[i] = f[i]
      BY <1>1
    <3> QED
      BY <1>1, <1>5, <3>1
  <2> HIDE DEF T
  <2>3. T = Nat
    BY <2>1, <2>2, SetInduction
  <2> QED
    BY <2>3 DEF T
<1>7. \A i \in Nat : i <= k => h[m + i] = g[i]
  <2> DEFINE T == {i \in Nat : i <= k => h[m + i] = g[i]}
  <2>1. T \in SUBSET Nat /\ 0 \in T
    BY <1>1, <1>5, <1>6
  <2>2. ASSUME NEW i \in T PROVE i + 1 \in T
    <3> SUFFICES ASSUME i + 1 <= k PROVE h[m + (i + 1)] = g[i + 1]
      OBVIOUS
    <3>1. /\ m + (i + 1) \in 1..(m + k) /\ (m + (i + 1)) - 1 = m + i /\ i + 1 \in 1..k
          /\ (i + 1) - 1 = i /\ h[m + i] = g[i]
      BY <1>1
    <3> QED
      BY <1>1, <1>5, <3>1
  <2> HIDE DEF T
  <2>3. T = Nat
    BY <2>1, <2>2, SetInduction
  <2> QED
    BY <2>3 DEF T
<1> QED
  <2>1. h[m + k] = g[k]
    BY <1>1, <1>7
  <2> QED
    BY <1>1, <1>2, <1>3, <1>4, <2>1 DEF st

LEMMA ReplayTwo ==
  ASSUME NEW o, NEW a, NEW b
  PROVE  ReplayWithSpecs(o, <<a, b>>) = Reduce(Reduce(o, a), b)
<1> DEFINE s == <<a, b>>
<1>1. Len(s) = 2 /\ Len(s) \in Nat /\ s[1] = a /\ s[2] = b
  OBVIOUS
<1> HIDE DEF s
<1>2. PICK h : Passes(o, s, h) /\ ReplayWithSpecs(o, s) = h[Len(s)]
  BY <1>1, ReplayPasses
<1>3. h[0] = o /\ h[1] = Reduce(h[0], s[1]) /\ h[2] = Reduce(h[1], s[2])
  BY <1>1, <1>2 DEF Passes
<1> QED
  BY <1>1, <1>2, <1>3 DEF s

LEMMA ReplayThree ==
  ASSUME NEW o, NEW a, NEW b, NEW c
  PROVE  ReplayWithSpecs(o, <<a, b, c>>) = Reduce(Reduce(Reduce(o, a), b), c)
<1> DEFINE s == <<a, b, c>>
<1>1. Len(s) = 3 /\ Len(s) \in Nat /\ s[1] = a /\ s[2] = b /\ s[3] = c
  OBVIOUS
<1> HIDE DEF s
<1>2. PICK h : Passes(o, s, h) /\ ReplayWithSpecs(o, s) = h[Len(s)]
  BY <1>1, ReplayPasses
<1>3. h[0] = o /\ \A i \in 1..Len(s) : h[i] = Reduce(h[i - 1], s[i])
  <2>1. Len(s) \in Nat /\ Passes(o, s, h)
    BY <1>1, <1>2
  <2> QED
    BY <2>1, PassesSteps
<1>4. h[1] = Reduce(h[0], s[1]) /\ h[2] = Reduce(h[1], s[2]) /\ h[3] = Reduce(h[2], s[3])
  BY <1>1, <1>3
<1> QED
  BY <1>1, <1>2, <1>3, <1>4 DEF s

-----------------------------------------------------------------------------
(* What each kind of event does when it is accepted *)

Going == Phases \ (Terminal \cup {"rejected"})

LEMMA Accepted ==
  ASSUME NEW o, NEW e, Reduce(o, e) # Rejected
  PROVE  /\ o.phase # "rejected" /\ o.phase \notin Terminal
         /\ e.type \in MessageEvents => MessageAccepted(o, e) /\ Reduce(o, e) = MessageApplied(o, e)
         /\ e.type \in ToolEvents => ToolAccepted(o, e) /\ Reduce(o, e) = ToolApplied(o, e)
         /\ e.type \in ApprovalEvents => ApprovalAccepted(o, e) /\ Reduce(o, e) = ApprovalApplied(o, e)
         /\ e.type \in WriteEvents => WriteAccepted(o, e) /\ Reduce(o, e) = WriteApplied(o, e)
         /\ e.type = "operation_finished" =>
               FinishAccepted(o, e) /\ Reduce(o, e) = [o EXCEPT !.phase = e.outcome]
<1>1. o.phase # "rejected" /\ Accepts(o, e) /\ Reduce(o, e) = Applied(o, e)
  BY DEF Reduce
<1>2. CASE e.type \in MessageEvents
  <2>1. e.type \notin ToolEvents \cup ApprovalEvents \cup WriteEvents \cup {"operation_finished"}
    BY <1>2 DEF MessageEvents, ToolEvents, ApprovalEvents, WriteEvents
  <2> QED
    BY <1>1, <1>2, <2>1 DEF Accepts, Applied
<1>3. CASE e.type \in ToolEvents
  <2>1. e.type \notin MessageEvents \cup ApprovalEvents \cup WriteEvents \cup {"operation_finished"}
    BY <1>3 DEF MessageEvents, ToolEvents, ApprovalEvents, WriteEvents
  <2> QED
    BY <1>1, <1>3, <2>1 DEF Accepts, Applied
<1>4. CASE e.type \in ApprovalEvents
  <2>1. e.type \notin MessageEvents \cup ToolEvents \cup WriteEvents \cup {"operation_finished"}
    BY <1>4 DEF MessageEvents, ToolEvents, ApprovalEvents, WriteEvents
  <2> QED
    BY <1>1, <1>4, <2>1 DEF Accepts, Applied
<1>5. CASE e.type \in WriteEvents
  <2>1. e.type \notin MessageEvents \cup ToolEvents \cup ApprovalEvents \cup {"operation_finished"}
    BY <1>5 DEF MessageEvents, ToolEvents, ApprovalEvents, WriteEvents
  <2> QED
    BY <1>1, <1>5, <2>1 DEF Accepts, Applied
<1>6. CASE e.type = "operation_finished"
  <2>1. e.type \notin MessageEvents \cup ToolEvents \cup ApprovalEvents \cup WriteEvents
    BY <1>6 DEF MessageEvents, ToolEvents, ApprovalEvents, WriteEvents
  <2> QED
    BY <1>1, <1>6, <2>1 DEF Accepts, Applied
<1> QED
  BY <1>1, <1>2, <1>3, <1>4, <1>5, <1>6 DEF Accepts

LEMMA MessageFacts ==
  ASSUME NEW o \in Operations, NEW e, e.type \in MessageEvents, Reduce(o, e) # Rejected,
         e.type \in {"message_appended", "model_request_completed"} =>
            e.message \in {"toolResult", "call", "final"}
  PROVE  /\ Reduce(o, e) \in Operations /\ o.phase \in Going
         /\ Reduce(o, e).phase = o.phase /\ Reduce(o, e).tool = o.tool
         /\ Reduce(o, e).approval = o.approval /\ Reduce(o, e).write = o.write
         /\ Reduce(o, e).requests =
               CASE e.type = "model_request_started" -> o.requests + 1
                 [] e.type = "message_appended" -> o.requests
                 [] OTHER -> o.requests - 1
         /\ Reduce(o, e).transcript =
               IF e.type \in {"message_appended", "model_request_completed"}
               THEN TranscriptAfter(o.transcript, e.message) ELSE o.transcript
         /\ e.type \in {"model_request_completed", "model_request_failed"} => o.requests > 0
<1> DEFINE n == Reduce(o, e)
<1>1. MessageAccepted(o, e) /\ n = MessageApplied(o, e) /\ o.phase \in Going
  BY Accepted DEF Going, Operations
<1>2. /\ o.requests \in Nat /\ o.transcript \in Transcripts
      /\ e.type \in {"model_request_completed", "model_request_failed"} =>
            o.requests > 0 /\ o.requests - 1 \in Nat
  BY <1>1 DEF MessageAccepted, Operations
<1> HIDE DEF n
<1>3. e.type \in {"message_appended", "model_request_completed"} =>
         TranscriptAfter(o.transcript, e.message) \in Transcripts
  BY <1>2 DEF TranscriptAfter, Transcripts
<1>4. CASE e.type = "message_appended"
  <2>1. n = [o EXCEPT !.transcript = TranscriptAfter(o.transcript, e.message)]
    BY <1>1, <1>4 DEF MessageApplied
  <2>2. /\ n \in Operations /\ n.phase = o.phase /\ n.tool = o.tool /\ n.approval = o.approval
        /\ n.write = o.write /\ n.requests = o.requests
        /\ n.transcript = TranscriptAfter(o.transcript, e.message)
    BY <1>3, <1>4, <2>1 DEF Operations
  <2> QED
    BY <1>1, <1>4, <2>2 DEF n
<1>5. CASE e.type = "model_request_started"
  <2>1. n = [o EXCEPT !.requests = o.requests + 1]
    BY <1>1, <1>5 DEF MessageApplied
  <2>2. /\ n \in Operations /\ n.phase = o.phase /\ n.tool = o.tool /\ n.approval = o.approval
        /\ n.write = o.write /\ n.requests = o.requests + 1 /\ n.transcript = o.transcript
    BY <1>2, <2>1 DEF Operations
  <2> QED
    BY <1>1, <1>5, <2>2 DEF n
<1>6. CASE e.type = "model_request_completed"
  <2>1. n = [o EXCEPT !.requests = o.requests - 1, !.transcript = TranscriptAfter(o.transcript, e.message)]
    BY <1>1, <1>6 DEF MessageApplied
  <2>2. /\ n \in Operations /\ n.phase = o.phase /\ n.tool = o.tool /\ n.approval = o.approval
        /\ n.write = o.write /\ n.requests = o.requests - 1
        /\ n.transcript = TranscriptAfter(o.transcript, e.message)
    BY <1>2, <1>3, <1>6, <2>1 DEF Operations
  <2> QED
    BY <1>1, <1>2, <1>6, <2>2 DEF n
<1>7. CASE e.type = "model_request_failed"
  <2>1. n = [o EXCEPT !.requests = o.requests - 1]
    BY <1>1, <1>7 DEF MessageApplied
  <2>2. /\ n \in Operations /\ n.phase = o.phase /\ n.tool = o.tool /\ n.approval = o.approval
        /\ n.write = o.write /\ n.requests = o.requests - 1 /\ n.transcript = o.transcript
    BY <1>2, <1>7, <2>1 DEF Operations
  <2> QED
    BY <1>1, <1>2, <1>7, <2>2 DEF n
<1> QED
  BY <1>4, <1>5, <1>6, <1>7 DEF MessageEvents

ResultEvents == {"tool_completed", "tool_outcome_unknown", "tool_reconciled"}

LEMMA ToolFacts ==
  ASSUME NEW o \in Operations, NEW e, e.type \in ToolEvents, Reduce(o, e) # Rejected,
         e.type = "tool_intent_recorded" => e.safe \in BOOLEAN,
         e.type = "tool_reconcile_started" => e.token \in Nat,
         e.type \in ResultEvents => e.result \in ToolResults
  PROVE  /\ Reduce(o, e) \in Operations /\ o.phase \in Going
         /\ Reduce(o, e).phase = o.phase /\ Reduce(o, e).requests = o.requests
         /\ Reduce(o, e).transcript = o.transcript
         /\ Reduce(o, e).approval = o.approval /\ Reduce(o, e).write = o.write
         /\ e.type = "tool_intent_recorded" =>
               /\ o.tool.phase = "none" /\ Reduce(o, e).tool.phase = "intent_recorded"
               /\ Reduce(o, e).tool.safe = e.safe /\ Reduce(o, e).tool.result = o.tool.result
         /\ e.type # "tool_intent_recorded" =>
               /\ o.tool.phase \in {"intent_recorded", "dispatch_started", "outcome_unknown"}
               /\ Reduce(o, e).tool.phase \in {"dispatch_started", "outcome_unknown", "completed"}
               /\ Reduce(o, e).tool.safe = o.tool.safe
         /\ e.type = "tool_dispatch_started" =>
               Reduce(o, e).tool.phase = "dispatch_started" /\ Reduce(o, e).tool.result = o.tool.result
         /\ e.type = "tool_reconcile_started" =>
               Reduce(o, e).tool.phase = "outcome_unknown" /\ Reduce(o, e).tool.result = o.tool.result
         /\ e.type \in ResultEvents =>
               /\ Reduce(o, e).tool.phase =
                     IF e.type = "tool_outcome_unknown" THEN "outcome_unknown" ELSE "completed"
               /\ Reduce(o, e).tool.result = e.result
               /\ ResultAgreesWithWrite(o, e)
<1> DEFINE n == Reduce(o, e)
<1>1. ToolAccepted(o, e) /\ n = ToolApplied(o, e) /\ o.phase \in Going
  BY Accepted DEF Going, Operations
<1>2. o.tool \in ToolRecords
  BY DEF Operations
<1> HIDE DEF n
<1> DEFINE Rest == /\ n \in Operations /\ n.phase = o.phase /\ n.requests = o.requests
                   /\ n.transcript = o.transcript /\ n.approval = o.approval /\ n.write = o.write
<1>4. CASE e.type = "tool_intent_recorded"
  <2>1. n = [o EXCEPT !.tool.phase = "intent_recorded", !.tool.safe = e.safe]
    BY <1>1, <1>4 DEF ToolApplied
  <2>2. o.tool.phase = "none"
    BY <1>1, <1>4 DEF ToolAccepted
  <2>3. Rest
    BY <1>2, <1>4, <2>1 DEF Operations, ToolRecords, ToolPhases
  <2>4. n.tool.phase = "intent_recorded" /\ n.tool.safe = e.safe /\ n.tool.result = o.tool.result
    BY <1>2, <2>1 DEF Operations, ToolRecords
  <2> QED
    BY <1>1, <1>4, <2>2, <2>3, <2>4 DEF n, ResultEvents
<1>5. CASE e.type = "tool_dispatch_started"
  <2>1. n = [o EXCEPT !.tool.phase = "dispatch_started"]
    BY <1>1, <1>5 DEF ToolApplied
  <2>2. o.tool.phase \in {"intent_recorded", "dispatch_started"}
    BY <1>1, <1>5 DEF ToolAccepted
  <2>3. Rest
    BY <1>2, <2>1 DEF Operations, ToolRecords, ToolPhases
  <2>4. n.tool.phase = "dispatch_started" /\ n.tool.safe = o.tool.safe /\ n.tool.result = o.tool.result
    BY <1>2, <2>1 DEF Operations, ToolRecords
  <2> QED
    BY <1>1, <1>5, <2>2, <2>3, <2>4 DEF n, ResultEvents
<1>6. CASE e.type = "tool_reconcile_started"
  <2>1. n = [o EXCEPT !.tool.token = e.token]
    BY <1>1, <1>6 DEF ToolApplied
  <2>2. o.tool.phase = "outcome_unknown"
    BY <1>1, <1>6 DEF ToolAccepted
  <2>3. Rest
    BY <1>2, <1>6, <2>1 DEF Operations, ToolRecords
  <2>4. n.tool.phase = o.tool.phase /\ n.tool.safe = o.tool.safe /\ n.tool.result = o.tool.result
    BY <1>2, <2>1 DEF Operations, ToolRecords
  <2> QED
    BY <1>1, <1>6, <2>2, <2>3, <2>4 DEF n, ResultEvents
<1>7. CASE e.type \in ResultEvents
  <2> DEFINE phase == IF e.type = "tool_outcome_unknown" THEN "outcome_unknown" ELSE "completed"
  <2>1. n = [o EXCEPT !.tool.phase = phase, !.tool.result = e.result]
    BY <1>1, <1>7 DEF ToolApplied, ResultEvents
  <2>2. /\ o.tool.phase \in {"intent_recorded", "dispatch_started", "outcome_unknown"}
        /\ ResultAgreesWithWrite(o, e)
    <3>1. CASE e.type = "tool_completed"
      BY <1>1, <3>1 DEF ToolAccepted
    <3>2. CASE e.type = "tool_outcome_unknown"
      BY <1>1, <3>2 DEF ToolAccepted
    <3>3. CASE e.type = "tool_reconciled"
      BY <1>1, <3>3 DEF ToolAccepted
    <3> QED
      BY <1>7, <3>1, <3>2, <3>3 DEF ResultEvents
  <2>0. phase \in {"outcome_unknown", "completed"}
    OBVIOUS
  <2> HIDE DEF phase
  <2>3. Rest
    BY <1>2, <1>7, <2>0, <2>1 DEF Operations, ToolRecords, ToolPhases
  <2>4. n.tool.phase = phase /\ n.tool.safe = o.tool.safe /\ n.tool.result = e.result
    BY <1>2, <2>1 DEF Operations, ToolRecords
  <2> QED
    BY <1>1, <1>7, <2>0, <2>2, <2>3, <2>4 DEF n, ResultEvents, phase
<1> QED
  BY <1>4, <1>5, <1>6, <1>7 DEF ToolEvents, ResultEvents

LEMMA ApprovalFacts ==
  ASSUME NEW o \in Operations, NEW e, e.type \in ApprovalEvents, Reduce(o, e) # Rejected,
         e.type \in {"approval_resume_started", "approval_resume_reentered"} => e.token \in Nat
  PROVE  /\ Reduce(o, e) \in Operations /\ o.phase \in Going /\ Reduce(o, e).phase \in Going
         /\ Reduce(o, e).requests = o.requests /\ Reduce(o, e).transcript = o.transcript
         /\ Reduce(o, e).tool = o.tool /\ Reduce(o, e).write = o.write
<1> DEFINE n == Reduce(o, e)
           Good(m) == /\ m \in Operations /\ m.phase \in Going
                      /\ m.requests = o.requests /\ m.transcript = o.transcript
                      /\ m.tool = o.tool /\ m.write = o.write
<1>1. n = ApprovalApplied(o, e) /\ o.phase \in Going
  BY Accepted DEF Going, Operations
<1>2. o.approval \in ApprovalRecords
  BY DEF Operations
<1>3. ASSUME NEW state \in ApprovalStates, NEW resume \in ResumeStates, NEW phase \in Going
      PROVE  Good(ApprovalMoved(o, state, resume, phase))
  BY <1>2 DEF ApprovalMoved, Operations, ApprovalRecords, Going
<1>4. ASSUME NEW m, Good(m), NEW k \in Nat PROVE Good([m EXCEPT !.approval.token = k])
  BY <1>4 DEF Operations, ApprovalRecords
<1>5. ASSUME NEW m, Good(m) PROVE Good([m EXCEPT !.approval.bound = TRUE])
  BY <1>5 DEF Operations, ApprovalRecords
<1>6. /\ o.approval.state \in ApprovalStates /\ o.approval.resume \in ResumeStates
      /\ {"waiting", "approved", "consumed", "rejected", "expired", "resume_started",
          "resume_completed", "resume_failed", "resume_cancelled"} \subseteq ApprovalStates
      /\ {"unregistered", "registered", "cancelled", "started", "completed", "failed"}
            \subseteq ResumeStates
      /\ {"waiting_approval", "ready_to_resume", "running", "executing_write"} \subseteq Going
  BY <1>2 DEF ApprovalRecords, ApprovalStates, ResumeStates, Going, Phases, Terminal
<1> HIDE DEF n, Good
<1>7. Good(n)
  <2>1. CASE e.type = "approval_requested"
    <3>1. n = ApprovalMoved(o, "waiting", "unregistered", "waiting_approval")
      BY <1>1, <2>1 DEF ApprovalApplied
    <3> QED
      BY <1>3, <1>6, <3>1
  <2>2. CASE e.type = "approval_resume_registered"
    <3> DEFINE phase == IF o.approval.state = "waiting" THEN "waiting_approval" ELSE o.phase
               m == ApprovalMoved(o, o.approval.state, "registered", phase)
    <3>1. n = [m EXCEPT !.approval.bound = TRUE]
      BY <1>1, <2>2 DEF ApprovalApplied
    <3>2. phase \in Going
      BY <1>1, <1>6
    <3> HIDE DEF phase
    <3>3. Good(m)
      BY <1>3, <1>6, <3>2
    <3> HIDE DEF m
    <3> QED
      BY <1>5, <3>1, <3>3
  <2>3. CASE e.type = "approval_granted"
    <3>1. n = ApprovalMoved(o, "approved", o.approval.resume, "ready_to_resume")
      BY <1>1, <2>3 DEF ApprovalApplied
    <3> QED
      BY <1>3, <1>6, <3>1
  <2>4. CASE e.type = "approval_consumed"
    <3>1. n = ApprovalMoved(o, "consumed", o.approval.resume, "ready_to_resume")
      BY <1>1, <2>4 DEF ApprovalApplied
    <3> QED
      BY <1>3, <1>6, <3>1
  <2>5. CASE e.type = "approval_rejected"
    <3>1. n = ApprovalMoved(o, "rejected", "cancelled", "running")
      BY <1>1, <2>5 DEF ApprovalApplied
    <3> QED
      BY <1>3, <1>6, <3>1
  <2>6. CASE e.type = "approval_expired"
    <3>1. n = ApprovalMoved(o, "expired", "cancelled", "running")
      BY <1>1, <2>6 DEF ApprovalApplied
    <3> QED
      BY <1>3, <1>6, <3>1
  <2>7. CASE e.type = "approval_resume_started"
    <3> DEFINE m == ApprovalMoved(o, "resume_started", "started", "executing_write")
    <3>1. n = [m EXCEPT !.approval.token = e.token]
      BY <1>1, <2>7 DEF ApprovalApplied
    <3>2. Good(m)
      BY <1>3, <1>6
    <3> HIDE DEF m
    <3> QED
      BY <1>4, <2>7, <3>1, <3>2
  <2>8. CASE e.type = "approval_resume_reentered"
    <3> DEFINE m == ApprovalMoved(o, "resume_started", o.approval.resume, "executing_write")
    <3>1. n = [m EXCEPT !.approval.token = e.token]
      BY <1>1, <2>8 DEF ApprovalApplied
    <3>2. Good(m)
      BY <1>3, <1>6
    <3> HIDE DEF m
    <3> QED
      BY <1>4, <2>8, <3>1, <3>2
  <2>9. CASE e.type = "approval_resume_completed"
    <3>1. n = ApprovalMoved(o, "resume_completed", "completed", "running")
      BY <1>1, <2>9 DEF ApprovalApplied
    <3> QED
      BY <1>3, <1>6, <3>1
  <2>10. CASE e.type = "approval_resume_failed"
    <3>1. n = ApprovalMoved(o, "resume_failed", "failed", "running")
      BY <1>1, <2>10 DEF ApprovalApplied
    <3> QED
      BY <1>3, <1>6, <3>1
  <2>11. CASE e.type = "approval_resume_cancelled"
    <3>1. n = ApprovalMoved(o, "resume_cancelled", "cancelled", "running")
      BY <1>1, <2>11 DEF ApprovalApplied
    <3> QED
      BY <1>3, <1>6, <3>1
  <2> QED
    BY <2>1, <2>2, <2>3, <2>4, <2>5, <2>6, <2>7, <2>8, <2>9, <2>10, <2>11 DEF ApprovalEvents
<1> QED
  BY <1>1, <1>7 DEF n, Good

LEMMA WriteFacts ==
  ASSUME NEW o \in Operations, NEW e, e.type \in WriteEvents, Reduce(o, e) # Rejected,
         e.type = "write_prepared" => e.tool \in BOOLEAN,
         e.type \in Entries => e.token \in Nat
  PROVE  /\ Reduce(o, e) \in Operations /\ o.phase \in Going /\ Reduce(o, e).phase \in Going
         /\ Reduce(o, e).requests = o.requests /\ Reduce(o, e).transcript = o.transcript
         /\ Reduce(o, e).tool = o.tool /\ Reduce(o, e).approval = o.approval
         /\ Reduce(o, e).write.tool = IF e.type = "write_prepared" THEN e.tool ELSE o.write.tool
         /\ \/ e.type = "write_failed" /\ o.write.state = "waiting_approval"
            \/ WriteMove(o.write.state, Reduce(o, e).write.state, e.type)
         /\ e.type = "write_failed" => Reduce(o, e).write.state = "failed"
         /\ e.type = "write_failed" /\ o.write.state = "waiting_approval" => e.denied
         /\ e.type = "write_succeeded" => WriteAgreesWithTool(o, "succeeded")
         /\ e.type = "write_failed" /\ o.write.state # "waiting_approval" =>
               WriteAgreesWithTool(o, "failed")
<1> DEFINE n == Reduce(o, e)
           Good(m, state) ==
               /\ m \in Operations /\ m.phase \in Going
               /\ m.requests = o.requests /\ m.transcript = o.transcript
               /\ m.tool = o.tool /\ m.approval = o.approval
               /\ m.write.tool = o.write.tool /\ m.write.state = state
           Done == /\ n \in Operations /\ n.phase \in Going
                   /\ n.requests = o.requests /\ n.transcript = o.transcript
                   /\ n.tool = o.tool /\ n.approval = o.approval
                   /\ n.write.tool = IF e.type = "write_prepared" THEN e.tool ELSE o.write.tool
                   /\ \/ e.type = "write_failed" /\ o.write.state = "waiting_approval"
                      \/ WriteMove(o.write.state, n.write.state, e.type)
                   /\ e.type = "write_failed" => n.write.state = "failed"
                   /\ e.type = "write_failed" /\ o.write.state = "waiting_approval" => e.denied
                   /\ e.type = "write_succeeded" => WriteAgreesWithTool(o, "succeeded")
                   /\ e.type = "write_failed" /\ o.write.state # "waiting_approval" =>
                         WriteAgreesWithTool(o, "failed")
<1>1. WriteAccepted(o, e) /\ n = WriteApplied(o, e) /\ o.phase \in Going
  BY Accepted DEF Going, Operations
<1>2. o.write \in WriteRecords
  BY DEF Operations
<1>3. ASSUME NEW state \in WriteStates, NEW phase \in Going
      PROVE  Good(WriteMoved(o, state, phase), state)
  BY <1>2 DEF WriteMoved, Operations, WriteRecords, Going
<1>4. ASSUME NEW m, NEW state, Good(m, state), NEW k \in Nat
      PROVE  Good([m EXCEPT !.write.token = k], state)
  BY <1>4 DEF Operations, WriteRecords
<1>5. ASSUME NEW m, NEW state, Good(m, state) PROVE Good([m EXCEPT !.write.approval = TRUE], state)
  BY <1>5 DEF Operations, WriteRecords
<1>6. /\ {"prepared", "waiting_approval", "approved", "submitting", "succeeded", "failed",
          "outcome_unknown", "reconciling"} \subseteq WriteStates
      /\ {"waiting_approval", "ready_to_resume", "running", "executing_write", "outcome_unknown"}
            \subseteq Going
  BY DEF WriteStates, Going, Phases, Terminal
<1> HIDE DEF n
<1>7. ASSUME NEW state, Good(n, state), e.type # "write_prepared",
             e.type \notin {"write_failed", "write_succeeded"},
             WriteMove(o.write.state, state, e.type)
      PROVE  Done
  BY <1>7
<1> HIDE DEF Good
<1>8. CASE e.type = "write_prepared"
  <2>1. n = [o EXCEPT !.write.state = "prepared", !.write.tool = e.tool]
    BY <1>1, <1>8 DEF WriteApplied
  <2>2. /\ n \in Operations /\ n.phase = o.phase /\ n.requests = o.requests
        /\ n.transcript = o.transcript /\ n.tool = o.tool /\ n.approval = o.approval
        /\ n.write.tool = e.tool /\ n.write.state = "prepared"
    BY <1>2, <1>6, <1>8, <2>1 DEF Operations, WriteRecords
  <2>3. o.write.state = "none"
    BY <1>1, <1>8 DEF WriteAccepted
  <2> QED
    BY <1>1, <1>8, <2>2, <2>3 DEF WriteMove, n
<1>9. CASE e.type = "write_waiting_approval"
  <2> DEFINE m == WriteMoved(o, "waiting_approval", "waiting_approval")
  <2>1. n = [m EXCEPT !.write.approval = TRUE] /\ o.write.state = "prepared"
    BY <1>1, <1>9 DEF WriteApplied, WriteAccepted
  <2>2. Good(m, "waiting_approval")
    BY <1>3, <1>6
  <2> HIDE DEF m
  <2>3. Good(n, "waiting_approval") /\ WriteMove(o.write.state, "waiting_approval", e.type)
    BY <1>5, <1>9, <2>1, <2>2 DEF WriteMove
  <2>4. Done
    BY <1>7, <1>9, <2>3
  <2> QED
    BY <1>1, <2>4 DEF n
<1>10. CASE e.type \in Entries
  <2> DEFINE m == WriteMoved(o, "reconciling", "outcome_unknown")
  <2>1. n = [m EXCEPT !.write.token = e.token]
    BY <1>1, <1>10 DEF WriteApplied, Entries
  <2>2. o.write.state = IF e.type = "write_reconciling" THEN "outcome_unknown" ELSE "reconciling"
    <3>1. CASE e.type = "write_reconciling"
      BY <1>1, <3>1 DEF WriteAccepted
    <3>2. CASE e.type = "write_reconcile_reentered"
      BY <1>1, <3>2 DEF WriteAccepted
    <3> QED
      BY <1>10, <3>1, <3>2 DEF Entries
  <2>3. Good(m, "reconciling")
    BY <1>3, <1>6
  <2> HIDE DEF m
  <2>4. Good(n, "reconciling")
    BY <1>4, <1>10, <2>1, <2>3
  <2>5. WriteMove(o.write.state, "reconciling", e.type)
    BY <1>10, <2>2 DEF WriteMove, Entries
  <2>6. Done
    BY <1>7, <1>10, <2>4, <2>5 DEF Entries
  <2> QED
    BY <1>1, <2>6 DEF n
<1>11. CASE e.type \in {"write_succeeded", "write_failed"}
  <2> DEFINE v == IF e.type = "write_succeeded" THEN "succeeded" ELSE "failed"
  <2>0. v \in WriteStates
    BY <1>6
  <2>1. n = WriteMoved(o, v, "running")
    BY <1>1, <1>11 DEF WriteApplied
  <2>2. \/ Settles(o, e.token, v)
        \/ e.type = "write_failed" /\ o.write.state = "waiting_approval" /\ e.denied
    BY <1>1, <1>11 DEF WriteAccepted
  <2>3. \/ o.write.state \in {"submitting", "reconciling"} /\ WriteAgreesWithTool(o, v)
        \/ e.type = "write_failed" /\ o.write.state = "waiting_approval" /\ e.denied
    BY <2>2 DEF Settles
  <2> HIDE DEF v
  <2>4. Good(n, v)
    BY <1>3, <1>6, <2>0, <2>1
  <2>5. Done
    BY <1>11, <2>3, <2>4 DEF WriteMove, Good, v
  <2> QED
    BY <1>1, <2>5 DEF n
<1>12. CASE e.type = "write_approved"
  <2>1. n = WriteMoved(o, "approved", "ready_to_resume") /\ o.write.state \in {"prepared", "waiting_approval"}
    BY <1>1, <1>12 DEF WriteApplied, WriteAccepted
  <2>2. Good(n, "approved") /\ WriteMove(o.write.state, "approved", e.type)
    BY <1>3, <1>6, <1>12, <2>1 DEF WriteMove
  <2>3. Done
    BY <1>7, <1>12, <2>2
  <2> QED
    BY <1>1, <2>3 DEF n
<1>13. CASE e.type = "write_submitting"
  <2>1. n = WriteMoved(o, "submitting", "executing_write") /\ o.write.state = "approved"
    BY <1>1, <1>13 DEF WriteApplied, WriteAccepted
  <2>2. Good(n, "submitting") /\ WriteMove(o.write.state, "submitting", e.type)
    BY <1>3, <1>6, <1>13, <2>1 DEF WriteMove
  <2>3. Done
    BY <1>7, <1>13, <2>2
  <2> QED
    BY <1>1, <2>3 DEF n
<1>14. CASE e.type \in {"write_outcome_unknown", "write_reconcile_failed", "write_reconcile_deferred"}
  <2>1. n = WriteMoved(o, "outcome_unknown", "outcome_unknown")
    BY <1>1, <1>14 DEF WriteApplied
  <2>2. o.write.state = IF e.type = "write_outcome_unknown" THEN "submitting" ELSE "reconciling"
    <3>1. CASE e.type = "write_outcome_unknown"
      BY <1>1, <3>1 DEF WriteAccepted
    <3>2. CASE e.type = "write_reconcile_failed"
      BY <1>1, <3>2 DEF WriteAccepted
    <3>3. CASE e.type = "write_reconcile_deferred"
      BY <1>1, <3>3 DEF WriteAccepted
    <3> QED
      BY <1>14, <3>1, <3>2, <3>3
  <2>3. Good(n, "outcome_unknown")
    BY <1>3, <1>6, <2>1
  <2>4. WriteMove(o.write.state, "outcome_unknown", e.type)
    BY <1>14, <2>2 DEF WriteMove
  <2>5. Done
    BY <1>7, <1>14, <2>3, <2>4
  <2> QED
    BY <1>1, <2>5 DEF n
<1> QED
  BY <1>8, <1>9, <1>10, <1>11, <1>12, <1>13, <1>14 DEF WriteEvents, Entries

LEMMA FinishFacts ==
  ASSUME NEW o \in Operations, NEW e, e.type = "operation_finished", Reduce(o, e) # Rejected,
         e.outcome \in Terminal
  PROVE  /\ Reduce(o, e) \in Operations /\ o.phase \in Going /\ Reduce(o, e).phase = e.outcome
         /\ Reduce(o, e).requests = o.requests /\ Reduce(o, e).transcript = o.transcript
         /\ Reduce(o, e).tool = o.tool /\ Reduce(o, e).write = o.write
         /\ o.tool.phase \in {"none", "completed"}
         /\ o.write.state \in {"none", "succeeded", "failed"}
<1> DEFINE n == Reduce(o, e)
<1>1. FinishAccepted(o, e) /\ n = [o EXCEPT !.phase = e.outcome] /\ o.phase \in Going
  BY Accepted DEF Going, Operations
<1>2. o.tool.phase \in ToolPhases /\ o.write.state \in WriteStates
  BY DEF Operations, ToolRecords, WriteRecords
<1>3. o.tool.phase \in {"none", "completed"} /\ o.write.state \in {"none", "succeeded", "failed"}
  BY <1>1, <1>2 DEF FinishAccepted, Unresolved, ToolPhases, WriteStates
<1>4. /\ n \in Operations /\ n.phase = e.outcome /\ n.requests = o.requests
      /\ n.transcript = o.transcript /\ n.tool = o.tool /\ n.write = o.write
  BY <1>1 DEF Operations, Phases
<1> QED
  BY <1>1, <1>3, <1>4

-----------------------------------------------------------------------------
(* The invariant of recovery *)

\* The events that the approver and reconcile append during recovery.
QuietEvents ==
    [type : {"approval_granted", "approval_rejected", "approval_expired"}]
        \cup [type : {"write_succeeded", "write_reconciling", "write_reconcile_reentered",
                      "write_reconcile_failed", "write_reconcile_deferred"}, token : Nat]
        \cup [type : {"write_failed"}, denied : {FALSE}, token : Nat]

Verdicts == {"write_succeeded", "write_failed"}
Uncertain == {"submitting", "outcome_unknown", "reconciling"}

\* The log a host or a recovery leaves behind.  A Write that still waits for its
\* Approval is only ever denied, so a result given for its tool is an error.
LogOK(o) ==
    /\ o.phase # "rejected"
    /\ o.transcript # "broken"
    /\ o.requests \in {0, 1}
    /\ o.requests = 1 => o.transcript \in {"user", "answered"}
    /\ o.write.tool /\ o.tool.phase = "completed" =>
          /\ o.write.state \in {"succeeded", "failed"} => VerdictOf(o.tool.result) = o.write.state
          /\ o.write.state = "waiting_approval" => o.tool.result = "error"
    /\ o.phase = "completed" =>
          /\ o.transcript = "final"
          /\ o.tool.phase \in {"none", "completed"}
          /\ o.write.state \in {"none", "succeeded", "failed"}

\* Only an uncertain Write may be in flight.
FlightOK(o, x) ==
    /\ x.inflight + x.applied <= 1
    /\ o.write.state \notin Uncertain => x.inflight = 0

\* A service call during recovery, with the log at o and v: it appends at most
\* one quiet event, and a verdict only once nothing is in flight.
Serving(c, o, v, x) ==
    /\ c \in CallStates
    /\ c.pc \in {"idle", "append", "acquire", "enter", "checking", "verdict", "release"}
    /\ c.kind \in {"none", "service", "enter", "verdict"}
    /\ \/ c.specs = << >>
       \/ \E e \in QuietEvents : c.specs = <<e>> /\ (e.type \in Verdicts => x.inflight = 0)
    /\ c.pc \in {"append", "acquire", "enter", "verdict"} => c.specs # << >>
    /\ c.pc = "acquire" => c.specs[1].type \in Entries
    /\ c.pc = "append" =>
          c.kind # "none" /\ c.ver <= v /\ (c.ver = v => ReplayWithSpecs(o, c.specs) # Rejected)

ToolKinds == {"execute_tool", "replay_safe_tool", "reconcile_tool", "materialize_tool_result"}
Attended == {"retry_model_request", "continue_model", "finalize_rejected_approval",
             "finish_operation", "reconcile_write"} \cup ToolKinds

RecStates ==
    [ pc : {"idle", "plan", "act", "model", "answered", "tool", "check", "store", "write",
            "writing", "release"},
      kind : Attended \cup Unattended, gen : Nat,
      result : ToolResults \cup Transcripts \cup {"failed"} ]

RecTyped(r, row) ==
    /\ r \in RecStates
    /\ r.gen <= row.gen /\ r.gen <= MaxRecoveries
    /\ r.pc # "idle" => r.gen > 0
    /\ r.pc = "act" => r.kind \in Attended
    /\ r.pc = "answered" => r.result \in {"final", "failed", "call"}
    /\ r.pc = "store" => r.result \in Results

\* What the worker that holds the lease knows of the log from its plan on.
RecOK(r, o) ==
    /\ r.pc = "act" =>
          /\ r.kind = "retry_model_request" => o.requests = 1
          /\ r.kind = "continue_model" => o.requests = 0 /\ o.transcript \in {"user", "answered"}
          /\ r.kind \in ToolKinds => o.transcript = "call" /\ o.write.state # "waiting_approval"
          /\ r.kind = "execute_tool" => o.tool.phase = "intent_recorded"
          /\ r.kind = "replay_safe_tool" => o.tool.safe
          /\ r.kind = "finish_operation" => o.transcript = "final"
    /\ r.pc \in {"model", "answered"} => o.requests = 1
    /\ r.pc = "answered" /\ r.result = "call" => o.transcript = "user"
    /\ r.pc \in {"tool", "check", "store"} =>
          o.transcript = "call" /\ o.write.state # "waiting_approval"

\* A worker goes on to run a tool without its lease, so this holds of all.
ToolOK(o, runs, r) ==
    /\ o.tool.phase \in {"none", "intent_recorded"} =>
          runs = 0 /\ \A w \in Workers : r[w].pc # "tool"
    /\ ~o.tool.safe =>
          /\ runs <= 1
          /\ \A w \in Workers : r[w].pc = "tool" => runs = 0
          /\ \A v, w \in Workers : r[v].pc = "tool" /\ r[w].pc = "tool" => v = w

RInv ==
    /\ op \in Operations /\ ver \in Nat /\ late \in BOOLEAN /\ claim \in Claims
    /\ effect \in Effects /\ toolRuns \in Nat
    /\ rclaim \in Claims /\ rclaim.gen <= 2 * MaxRecoveries
    /\ call \in [Workers -> CallStates] /\ rec \in [Workers -> RecStates]
    /\ LogOK(op)
    /\ FlightOK(op, effect)
    /\ \A w \in Workers : Serving(call[w], op, ver, effect)
    /\ \A w \in Workers : RecTyped(rec[w], rclaim)
    /\ \A w \in Workers : HoldsRecovery(w) => RecOK(rec[w], op)
    /\ ToolOK(op, toolRuns, rec)

-----------------------------------------------------------------------------
(* Events of recovery *)

LEMMA RejectedPhase == Rejected.phase = "rejected"
  BY DEF Rejected, StartedOperation

\* What a quiet event leaves alone.
Quiet(o, n) ==
    /\ n \in Operations /\ LogOK(n)
    /\ n.requests = o.requests /\ n.transcript = o.transcript /\ n.tool = o.tool
    /\ n.write.state = "waiting_approval" => o.write.state = "waiting_approval"

LEMMA QuietFacts ==
  ASSUME NEW o \in Operations, LogOK(o), NEW e \in QuietEvents, Reduce(o, e) # Rejected
  PROVE  /\ Quiet(o, Reduce(o, e))
         /\ e.type \notin Verdicts /\ o.write.state \in Uncertain =>
               Reduce(o, e).write.state \in Uncertain
<1> DEFINE n == Reduce(o, e)
<1>1. CASE e.type \in {"approval_granted", "approval_rejected", "approval_expired"}
  <2>1. e.type \in ApprovalEvents
    BY <1>1 DEF ApprovalEvents
  <2>2. /\ n \in Operations /\ n.phase \in Going /\ n.requests = o.requests
        /\ n.transcript = o.transcript /\ n.tool = o.tool /\ n.write = o.write
    BY <1>1, <2>1, ApprovalFacts
  <2> HIDE DEF n
  <2>3. LogOK(n)
    BY <2>2 DEF LogOK, Going, Terminal
  <2> QED
    BY <2>2, <2>3 DEF Quiet, n
<1>2. CASE e.type \notin {"approval_granted", "approval_rejected", "approval_expired"}
  <2>1. /\ e.type \in {"write_succeeded", "write_reconciling", "write_reconcile_reentered",
                       "write_reconcile_failed", "write_reconcile_deferred", "write_failed"}
        /\ e.type \in Entries => e.token \in Nat
        /\ e.type = "write_failed" => ~e.denied
    BY <1>2 DEF QuietEvents, Entries
  <2>2. e.type \in WriteEvents /\ e.type # "write_prepared"
    BY <2>1 DEF WriteEvents
  <2>3. /\ n \in Operations /\ n.phase \in Going /\ n.requests = o.requests
        /\ n.transcript = o.transcript /\ n.tool = o.tool /\ n.write.tool = o.write.tool
        /\ \/ e.type = "write_failed" /\ o.write.state = "waiting_approval"
           \/ WriteMove(o.write.state, n.write.state, e.type)
        /\ e.type = "write_failed" => o.write.state # "waiting_approval"
        /\ e.type = "write_succeeded" => WriteAgreesWithTool(o, "succeeded")
        /\ e.type = "write_failed" /\ o.write.state # "waiting_approval" =>
              WriteAgreesWithTool(o, "failed")
    BY <2>1, <2>2, WriteFacts
  <2> HIDE DEF n
  <2>4. /\ e.type = "write_succeeded" => n.write.state = "succeeded"
        /\ e.type = "write_failed" => n.write.state = "failed"
        /\ e.type \notin Verdicts => n.write.state \in {"outcome_unknown", "reconciling"}
    BY <2>1, <2>3 DEF WriteMove, Verdicts
  <2>5. LogOK(n)
    BY <2>1, <2>3, <2>4 DEF LogOK, Going, Terminal, WriteAgreesWithTool, Verdicts
  <2> QED
    BY <2>1, <2>3, <2>4, <2>5 DEF Quiet, Verdicts, Uncertain, n
<1> QED
  BY <1>1, <1>2

LEMMA QuietRec ==
  ASSUME NEW o, NEW n, Quiet(o, n), NEW r, RecOK(r, o)
  PROVE  RecOK(r, n)
  BY DEF Quiet, RecOK

-----------------------------------------------------------------------------
(* Service calls *)

LEMMA ServingIdle ==
  ASSUME NEW o, NEW v, NEW x
  PROVE  Serving(Idle, o, v, x)
<1>1. Idle \in CallStates
  BY IdleGood DEF GoodCall
<1>2. Idle.pc = "idle" /\ Idle.specs = << >> /\ Idle.kind = "none"
  BY DEF Idle
<1> QED
  BY <1>1, <1>2 DEF Serving

LEMMA QuietService == QuietEvents \subseteq ServiceEvents
  BY DEF QuietEvents, ServiceEvents

\* The call goes on without its batch.
LEMMA ServingGoto ==
  ASSUME NEW c, NEW o, NEW v, NEW x, Serving(c, o, v, x),
         NEW pc \in {"enter", "checking", "verdict", "release"},
         pc \in {"enter", "verdict"} => c.specs # << >>
  PROVE  Serving([c EXCEPT !.pc = pc], o, v, x)
<1> DEFINE d == [c EXCEPT !.pc = pc]
<1>1. c \in CallStates
  BY DEF Serving
<1>2. d \in CallStates /\ d.pc = pc /\ d.specs = c.specs /\ d.kind = c.kind
  BY <1>1 DEF CallStates, Pcs
<1> HIDE DEF d
<1> QED
  BY <1>2 DEF Serving, d

\* The call takes up an event.
LEMMA ServingHolds ==
  ASSUME NEW c, NEW o, NEW v, NEW x, Serving(c, o, v, x), NEW g \in Nat,
         NEW e \in QuietEvents, e.type \in Verdicts => x.inflight = 0,
         NEW pc \in {"acquire", "enter", "verdict"}, pc = "acquire" => e.type \in Entries
  PROVE  Serving([c EXCEPT !.pc = pc, !.specs = <<e>>, !.gen = g], o, v, x)
<1> DEFINE d == [c EXCEPT !.pc = pc, !.specs = <<e>>, !.gen = g]
<1>1. c \in CallStates /\ e \in ServiceEvents
  BY QuietService DEF Serving
<1>2. <<e>> \in Seq(ServiceEvents) /\ <<e>> # << >> /\ <<e>>[1] = e
  BY <1>1
<1>3. d \in CallStates /\ d.pc = pc /\ d.specs = <<e>> /\ d.kind = c.kind
  BY <1>1, <1>2 DEF CallStates, Pcs
<1> HIDE DEF d
<1> QED
  BY <1>2, <1>3 DEF Serving, d

\* The call loads the log and has a batch the log takes.
LEMMA ServingLoads ==
  ASSUME NEW w \in Workers, Serving(call[w], op, ver, effect), ver \in Nat,
         NEW kind \in {"service", "enter", "verdict"},
         NEW e \in QuietEvents, e.type \in Verdicts => effect.inflight = 0,
         Reduce(op, e) # Rejected, NEW deadline \in BOOLEAN
  PROVE  Serving(LoadedCall(w, kind, <<e>>, deadline), op, ver, effect)
<1> DEFINE d == LoadedCall(w, kind, <<e>>, deadline)
<1>1. call[w] \in CallStates /\ e \in ServiceEvents
  BY QuietService DEF Serving
<1>2. <<e>> \in Seq(ServiceEvents) /\ <<e>> # << >>
  BY <1>1
<1>3. d \in CallStates /\ d.pc = "append" /\ d.specs = <<e>> /\ d.kind = kind /\ d.ver = ver
  BY <1>1, <1>2 DEF LoadedCall, CallStates, Pcs, Kinds
<1>4. ReplayWithSpecs(op, <<e>>) # Rejected
  BY SingleReplay
<1> HIDE DEF d
<1>5. Serving(d, op, ver, effect)
  BY <1>2, <1>3, <1>4 DEF Serving
<1> QED
  BY <1>5 DEF d

\* The log has grown: a call that waits to append no longer can.
LEMMA ServingLater ==
  ASSUME NEW c, NEW o, NEW v \in Nat, NEW x, Serving(c, o, v, x), NEW n, NEW u \in Nat, u > v
  PROVE  Serving(c, n, u, x)
<1>1. c.ver \in Nat
  BY DEF Serving, CallStates
<1> QED
  BY <1>1 DEF Serving

-----------------------------------------------------------------------------
(* Steps of the services and of the environment *)

\* One call moves on, and nothing else but the claim changes.
LEMMA ServiceMoves ==
  ASSUME RInv, NEW w \in Workers, NEW c, Serving(c, op, ver, effect),
         call' = [call EXCEPT ![w] = c], UNCHANGED <<op, ver, late, effect, rclaim, rec, toolRuns>>,
         claim' \in Claims
  PROVE  RInv'
<1>1. c \in CallStates /\ call \in [Workers -> CallStates]
  BY DEF Serving, RInv
<1>2. call' \in [Workers -> CallStates] /\ \A v \in Workers : call'[v] = IF v = w THEN c ELSE call[v]
  BY <1>1
<1>3. \A v \in Workers : Serving(call'[v], op, ver, effect)
  BY <1>2 DEF RInv
<1>4. /\ op' = op /\ ver' = ver /\ late' = late /\ effect' = effect /\ rclaim' = rclaim
      /\ rec' = rec /\ toolRuns' = toolRuns
  OBVIOUS
<1>5. \A v \in Workers : Serving(call[v], op, ver, effect)'
  BY <1>3, <1>4
<1>6. \A v \in Workers : RecTyped(rec[v], rclaim)'
  BY <1>4 DEF RInv, RecTyped
<1>7. \A v \in Workers : (HoldsRecovery(v) => RecOK(rec[v], op))'
  BY <1>4 DEF RInv, HoldsRecovery
<1>8. ToolOK(op, toolRuns, rec)' /\ LogOK(op)' /\ FlightOK(op, effect)'
  BY <1>4 DEF RInv
<1> QED
  BY <1>2, <1>4, <1>5, <1>6, <1>7, <1>8 DEF RInv

\* The same where the claim stays.
LEMMA ServiceMoved ==
  ASSUME RInv, NEW w \in Workers,
         \E c : Serving(c, op, ver, effect) /\ call' = [call EXCEPT ![w] = c],
         UNCHANGED <<op, ver, late, claim, effect, rclaim, rec, toolRuns>>
  PROVE  RInv'
<1>1. PICK c : Serving(c, op, ver, effect) /\ call' = [call EXCEPT ![w] = c]
  OBVIOUS
<1>2. claim' \in Claims
  BY DEF RInv
<1> QED
  BY <1>1, <1>2, ServiceMoves

Beside == <<rclaim, rec, toolRuns>>

LEMMA RApprovalKeeps ==
  ASSUME RInv, NEW w \in Workers, BeginGrant(w) \/ BeginReject(w) \/ BeginExpire(w),
         UNCHANGED Beside
  PROVE  RInv'
<1>1. PICK type \in {"approval_granted", "approval_rejected", "approval_expired"},
           deadline \in BOOLEAN : Load(w, "service", <<Event(type)>>, deadline)
  <2>1. CASE BeginGrant(w)
    BY <2>1 DEF BeginGrant
  <2>2. CASE BeginReject(w)
    BY <2>2 DEF BeginReject
  <2>3. CASE BeginExpire(w)
    BY <2>3 DEF BeginExpire
  <2> QED
    BY <2>1, <2>2, <2>3
<1> DEFINE e == Event(type)
<1>2. e \in QuietEvents /\ e.type \notin Verdicts
  BY DEF Event, QuietEvents, Verdicts
<1> HIDE DEF e
<1>3. Load(w, "service", <<e>>, deadline)
  BY <1>1 DEF e
<1>4. Reduce(op, e) # Rejected
  BY <1>3, SingleReplay DEF Load
<1>5. Serving(call[w], op, ver, effect) /\ ver \in Nat
  BY DEF RInv
<1>6. Serving(LoadedCall(w, "service", <<e>>, deadline), op, ver, effect)
  BY <1>2, <1>4, <1>5, ServingLoads
<1> QED
  BY <1>3, <1>6, ServiceMoved DEF Load, Beside

LEMMA ReadServes ==
  ASSUME RInv, NEW w \in Workers, ReadForReconcile(w)
  PROVE  \E c : Serving(c, op, ver, effect) /\ call' = [call EXCEPT ![w] = c]
<1> DEFINE e == EnterEvent(op.write.state, 0)
           d == [call[w] EXCEPT !.pc = "acquire", !.specs = <<e>>, !.gen = call[w].gen]
<1>1. e \in QuietEvents /\ e.type \in Entries /\ e.type \notin Verdicts
  BY DEF EnterEvent, FencedEvent, QuietEvents, Entries, Verdicts
<1> HIDE DEF e
<1>2. Serving(call[w], op, ver, effect) /\ call[w] \in CallStates /\ call[w].gen \in Nat
  BY DEF RInv, CallStates
<1>3. Serving(d, op, ver, effect)
  BY <1>1, <1>2, ServingHolds
<1>4. call' = [call EXCEPT ![w] = d]
  <2>1. call' = [call EXCEPT ![w].pc = "acquire", ![w].specs = <<e>>]
    BY DEF ReadForReconcile, Holding, e
  <2> QED
    BY <1>2, <2>1 DEF RInv, CallStates
<1> HIDE DEF d
<1> QED
  BY <1>3, <1>4

LEMMA RAcquireKeeps ==
  ASSUME RInv, NEW w \in Workers, AcquireReconcile(w), UNCHANGED Beside
  PROVE  RInv'
<1>1. /\ call[w] \in CallStates /\ call \in [Workers -> CallStates] /\ claim \in Claims
      /\ call[w].pc = "acquire" /\ Serving(call[w], op, ver, effect)
      /\ UNCHANGED <<op, ver, late, effect, rclaim, rec, toolRuns>>
  BY DEF RInv, AcquireReconcile, Beside
<1>2. CASE Held(claim, 0)
  <2>1. call' = [call EXCEPT ![w] = Idle] /\ claim' = claim
    BY <1>2 DEF AcquireReconcile
  <2> QED
    BY <1>1, <2>1, ServingIdle, ServiceMoves
<1>3. CASE ~Held(claim, 0)
  <2> DEFINE a == call[w].specs[1]
             g == claim.gen + 1
             f == [a EXCEPT !.token = g]
             d == [call[w] EXCEPT !.pc = "enter", !.specs = <<f>>, !.gen = g]
  <2>1. claim' = AcquiredRow(claim, w, 0, 1) /\ g \in Nat
    BY <1>1, <1>3 DEF AcquireReconcile, Claims
  <2>2. call' = [call EXCEPT ![w].pc = "enter", ![w].gen = g, ![w].specs = <<f>>]
    BY <1>3 DEF AcquireReconcile
  <2>3. a \in QuietEvents /\ a.type \in Entries
    <3>1. PICK e \in QuietEvents : call[w].specs = <<e>>
      BY <1>1 DEF Serving
    <3> QED
      BY <1>1, <3>1 DEF Serving
  <2> HIDE DEF g, a
  <2>4. f \in QuietEvents /\ f.type \in Entries /\ f.type \notin Verdicts
    <3> DEFINE E == [type : {"write_succeeded", "write_reconciling", "write_reconcile_reentered",
                             "write_reconcile_failed", "write_reconcile_deferred"}, token : Nat]
    <3>1. a \in E
      BY <2>3 DEF QuietEvents, Entries
    <3>2. f \in E /\ f.type = a.type
      BY <2>1, <3>1
    <3> QED
      BY <2>3, <3>2 DEF QuietEvents, Entries, Verdicts
  <2> HIDE DEF f
  <2>5. Serving(d, op, ver, effect)
    BY <1>1, <2>1, <2>4, ServingHolds
  <2>6. call' = [call EXCEPT ![w] = d]
    BY <1>1, <2>2 DEF CallStates
  <2>7. claim' \in Claims
    BY <1>1, <2>1 DEF AcquiredRow, Claims, Held
  <2> HIDE DEF d
  <2> QED
    BY <1>1, <2>5, <2>6, <2>7, ServiceMoves
<1> QED
  BY <1>2, <1>3

\* The batch a call holds, which is one quiet event.
LEMMA HeldEvent ==
  ASSUME RInv, NEW w \in Workers, call[w].pc \in {"append", "enter", "verdict"}
  PROVE  \E e \in QuietEvents : call[w].specs = <<e>> /\ (e.type \in Verdicts => effect.inflight = 0)
  BY DEF RInv, Serving

LEMMA RBeginKeeps ==
  ASSUME RInv, NEW w \in Workers, BeginEnter(w) \/ BeginVerdict(w), UNCHANGED Beside
  PROVE  RInv'
<1>1. PICK kind \in {"enter", "verdict"} :
        /\ call[w].pc = kind
        /\ \/ /\ ReplayWithSpecs(op, call[w].specs) # Rejected
              /\ call' = [call EXCEPT ![w] = LoadedCall(w, kind, call[w].specs, FALSE)]
           \/ call' = Goto(w, "release")
        /\ UNCHANGED <<op, ver, late, claim, effect>>
  <2>1. CASE BeginEnter(w)
    BY <2>1 DEF BeginEnter
  <2>2. CASE BeginVerdict(w)
    BY <2>2 DEF BeginVerdict
  <2> QED
    BY <2>1, <2>2
<1>2. Serving(call[w], op, ver, effect) /\ ver \in Nat /\ call \in [Workers -> CallStates]
  BY DEF RInv
<1>3. CASE call' = Goto(w, "release")
  <2>1. call' = [call EXCEPT ![w] = [call[w] EXCEPT !.pc = "release"]]
    BY <1>3 DEF Goto
  <2>2. Serving([call[w] EXCEPT !.pc = "release"], op, ver, effect)
    BY <1>2, ServingGoto
  <2> QED
    BY <1>1, <2>1, <2>2, ServiceMoved DEF Beside
<1>4. CASE /\ ReplayWithSpecs(op, call[w].specs) # Rejected
           /\ call' = [call EXCEPT ![w] = LoadedCall(w, kind, call[w].specs, FALSE)]
  <2>1. PICK e \in QuietEvents : call[w].specs = <<e>> /\ (e.type \in Verdicts => effect.inflight = 0)
    BY <1>1, HeldEvent
  <2>2. Reduce(op, e) # Rejected
    BY <1>4, <2>1, SingleReplay
  <2>3. Serving(LoadedCall(w, kind, <<e>>, FALSE), op, ver, effect)
    BY <1>2, <2>1, <2>2, ServingLoads
  <2> QED
    BY <1>1, <1>4, <2>1, <2>3, ServiceMoved DEF Beside
<1> QED
  BY <1>1, <1>3, <1>4

LEMMA FencedQuiet ==
  ASSUME NEW g \in Nat,
         NEW type \in {"write_succeeded", "write_reconciling", "write_reconcile_reentered",
                       "write_reconcile_failed", "write_reconcile_deferred"}
  PROVE  FencedEvent(type, g) \in QuietEvents /\ FencedEvent(type, g).type = type
  BY DEF FencedEvent, QuietEvents

LEMMA RCheckingKeeps ==
  ASSUME RInv, NEW w \in Workers, ReconcileAnswers(w) \/ ReconcileRaises(w), UNCHANGED Beside
  PROVE  RInv'
<1>1. /\ call[w] \in CallStates /\ call[w].gen \in Nat /\ effect \in Effects
      /\ call \in [Workers -> CallStates] /\ Serving(call[w], op, ver, effect)
      /\ effect.inflight + effect.applied <= 1
  BY DEF RInv, CallStates, FlightOK
<1>2. PICK e \in QuietEvents :
        call' = Holding(w, "verdict", e) /\ (e.type \in Verdicts => effect.inflight = 0)
  <2>1. CASE ReconcileAnswers(w)
    <3>1. PICK answer \in Answers : call' = Holding(w, "verdict", VerdictEvent(answer, call[w].gen))
      BY <2>1 DEF ReconcileAnswers
    <3> DEFINE e == VerdictEvent(answer, call[w].gen)
    <3>2. answer \in {"unknown", "succeeded", "failed"}
      BY <3>1 DEF Answers
    <3>3. CASE answer = "unknown"
      <4>1. e = FencedEvent("write_reconcile_deferred", call[w].gen)
        BY <3>3 DEF VerdictEvent
      <4>2. e \in QuietEvents /\ e.type \notin Verdicts
        BY <1>1, <4>1, FencedQuiet DEF Verdicts
      <4> QED
        BY <3>1, <4>2
    <3>4. CASE answer = "succeeded"
      <4>1. e = FencedEvent("write_succeeded", call[w].gen)
        BY <3>4 DEF VerdictEvent
      <4>2. e \in QuietEvents
        BY <1>1, <4>1, FencedQuiet
      <4>3. effect.applied > 0
        BY <3>1, <3>4 DEF Answers
      <4>4. effect.inflight = 0
        BY <1>1, <4>3 DEF Effects
      <4> QED
        BY <3>1, <4>2, <4>4
    <3>5. CASE answer = "failed"
      <4>1. e = WriteFailed(FALSE, call[w].gen)
        BY <3>5 DEF VerdictEvent
      <4>2. e \in QuietEvents
        BY <1>1, <4>1 DEF WriteFailed, QuietEvents
      <4>3. effect.inflight = 0
        BY <3>1, <3>5 DEF Answers
      <4> QED
        BY <3>1, <4>2, <4>3
    <3> QED
      BY <3>2, <3>3, <3>4, <3>5
  <2>2. CASE ReconcileRaises(w)
    <3> DEFINE e == FencedEvent("write_reconcile_failed", call[w].gen)
    <3>1. call' = Holding(w, "verdict", e)
      BY <2>2 DEF ReconcileRaises
    <3>2. e \in QuietEvents /\ e.type \notin Verdicts
      BY <1>1 DEF FencedEvent, QuietEvents, Verdicts
    <3> QED
      BY <3>1, <3>2
  <2> QED
    BY <2>1, <2>2
<1> DEFINE d == [call[w] EXCEPT !.pc = "verdict", !.specs = <<e>>, !.gen = call[w].gen]
<1>3. Serving(d, op, ver, effect)
  BY <1>1, <1>2, ServingHolds
<1>4. call' = [call EXCEPT ![w] = d]
  BY <1>1, <1>2 DEF Holding, CallStates
<1> HIDE DEF d
<1>5. UNCHANGED <<op, ver, late, claim, effect>>
  BY DEF ReconcileAnswers, ReconcileRaises
<1> QED
  BY <1>3, <1>4, <1>5, ServiceMoved DEF Beside

LEMMA RReleaseKeeps ==
  ASSUME RInv, NEW w \in Workers, ReleaseReconcile(w), UNCHANGED Beside
  PROVE  RInv'
<1>1. claim' \in Claims
  BY DEF RInv, ReleaseReconcile, ReleasedRow, Claims
<1>2. call' = [call EXCEPT ![w] = Idle] /\ UNCHANGED <<op, ver, late, effect, rclaim, rec, toolRuns>>
  BY DEF ReleaseReconcile, Beside
<1> QED
  BY <1>1, <1>2, ServingIdle, ServiceMoves

\* Where a call goes on: it gives up, or it tries again.
LEMMA RGotoKeeps ==
  ASSUME RInv, NEW w \in Workers, NEW pc \in {"enter", "checking", "verdict", "release"},
         call' = Goto(w, pc), pc \in {"enter", "verdict"} => call[w].specs # << >>,
         UNCHANGED <<op, ver, late, claim, effect>>, UNCHANGED Beside
  PROVE  RInv'
<1>1. Serving(call[w], op, ver, effect) /\ call \in [Workers -> CallStates]
  BY DEF RInv
<1>2. call' = [call EXCEPT ![w] = [call[w] EXCEPT !.pc = pc]]
  BY DEF Goto
<1>3. Serving([call[w] EXCEPT !.pc = pc], op, ver, effect)
  BY <1>1, ServingGoto
<1> QED
  BY <1>2, <1>3, ServiceMoved DEF Beside

LEMMA RLostKeeps ==
  ASSUME RInv, NEW w \in Workers, AppendConflicts(w) \/ AppendFenced(w) \/ AppendFails(w),
         UNCHANGED Beside
  PROVE  RInv'
<1>1. /\ call[w].pc = "append" /\ UNCHANGED <<op, ver, late, claim, effect>>
      /\ call' = AfterConflict(w) \/ call' = AfterFailure(w)
  BY DEF AppendConflicts, AppendFenced, AppendFails
<1>2. call[w].kind \in {"service", "enter", "verdict"} /\ call[w].specs # << >>
  BY <1>1 DEF RInv, Serving
<1>3. CASE call[w].kind = "service"
  <2>1. call' = [call EXCEPT ![w] = Idle]
    BY <1>1, <1>3 DEF AfterConflict, AfterFailure
  <2> QED
    BY <1>1, <2>1, ServingIdle, ServiceMoved DEF Beside
<1>4. CASE call[w].kind \in {"enter", "verdict"}
  <2>1. call' = Goto(w, call[w].kind) \/ call' = Goto(w, "release")
    BY <1>1, <1>4 DEF AfterConflict, AfterFailure
  <2>2. PICK pc \in {"enter", "verdict", "release"} : call' = Goto(w, pc)
    BY <1>4, <2>1
  <2> QED
    BY <1>1, <1>2, <2>2, RGotoKeeps
<1> QED
  BY <1>2, <1>3, <1>4

LEMMA RLateKeeps ==
  ASSUME RInv, NEW w \in Workers, AppendLate(w), UNCHANGED Beside
  PROVE  RInv'
<1> DEFINE e == Event("approval_expired")
           d == LoadedCall(w, "service", <<e>>, FALSE)
<1>1. /\ op \in Operations /\ ver \in Nat /\ Serving(call[w], op, ver, effect)
      /\ call[w].pc = "append" /\ call[w].ver = ver
  BY DEF RInv, AppendLate
<1>2. e \in QuietEvents /\ e.type = "approval_expired" /\ e.type \notin Verdicts
  BY DEF Event, QuietEvents, Verdicts
<1>3. CASE call[w].kind = "service" /\ op.approval.state = "waiting"
  <2>1. call' = [call EXCEPT ![w] = d]
    BY <1>3 DEF AppendLate
  <2> HIDE DEF e
  <2>2. op.phase # "rejected" /\ op.phase \notin Terminal
    <3>1. PICK f \in QuietEvents : call[w].specs = <<f>>
      BY <1>1, HeldEvent
    <3>2. Reduce(op, f) # Rejected
      BY <1>1, <3>1, SingleReplay DEF Serving
    <3> QED
      BY <3>2, Accepted
  <2>3. Accepts(op, e)
    <3>1. /\ e.type \notin MessageEvents /\ e.type \notin ToolEvents /\ e.type \in ApprovalEvents
          /\ e.type \notin WriteEvents /\ e.type # "operation_finished"
      BY <1>2 DEF MessageEvents, ToolEvents, ApprovalEvents, WriteEvents
    <3>2. ApprovalAccepted(op, e)
      BY <1>2, <1>3 DEF ApprovalAccepted
    <3> QED
      BY <2>2, <3>1, <3>2 DEF Accepts
  <2>4. Reduce(op, e) = ApprovalMoved(op, "expired", "cancelled", "running")
    <3>1. Reduce(op, e) = Applied(op, e)
      BY <2>2, <2>3 DEF Reduce
    <3>2. Applied(op, e) = ApprovalApplied(op, e)
      BY <1>2 DEF Applied, MessageEvents, ToolEvents, ApprovalEvents, WriteEvents
    <3>3. ApprovalApplied(op, e) = ApprovalMoved(op, "expired", "cancelled", "running")
      BY <1>2 DEF ApprovalApplied
    <3> QED
      BY <3>1, <3>2, <3>3
  <2>5. Reduce(op, e) # Rejected
    <3>1. "expired" \in ApprovalStates /\ "cancelled" \in ResumeStates /\ "running" \in Phases
      BY DEF ApprovalStates, ResumeStates, Phases
    <3>2. ApprovalMoved(op, "expired", "cancelled", "running").phase = "running"
      BY <1>1, <3>1, ApprovalMovedFacts
    <3> QED
      BY <2>4, <3>2, RejectedPhase
  <2>6. Serving(d, op, ver, effect)
    BY <1>1, <1>2, <2>5, ServingLoads
  <2> HIDE DEF d
  <2> QED
    BY <2>1, <2>6, ServiceMoved DEF AppendLate, Beside
<1>4. CASE ~(call[w].kind = "service" /\ op.approval.state = "waiting")
  <2>1. call' = [call EXCEPT ![w] = Idle]
    BY <1>4 DEF AppendLate
  <2> QED
    BY <2>1, ServingIdle, ServiceMoved DEF AppendLate, Beside
<1> QED
  BY <1>3, <1>4

\* A quiet event is appended.
LEMMA RAppendKeeps ==
  ASSUME RInv, NEW w \in Workers, AppendBatch(w), UNCHANGED Beside
  PROVE  RInv'
<1>1. /\ op \in Operations /\ LogOK(op) /\ ver \in Nat /\ Serving(call[w], op, ver, effect)
      /\ FlightOK(op, effect) /\ call[w].pc = "append" /\ call[w].ver = ver
      /\ call \in [Workers -> CallStates]
  BY DEF RInv, AppendBatch, StoreAccepts
<1>2. PICK e \in QuietEvents : call[w].specs = <<e>> /\ (e.type \in Verdicts => effect.inflight = 0)
  BY <1>1, HeldEvent
<1>3. op' = Reduce(op, e) /\ Reduce(op, e) # Rejected /\ Len(<<e>>) = 1
  BY <1>1, <1>2, SingleReplay DEF AppendBatch, Serving
<1>4. ver' = ver + 1 /\ ver' \in Nat /\ ver' > ver
  BY <1>1, <1>2, <1>3 DEF AppendBatch
<1>5. /\ Quiet(op, op')
      /\ e.type \notin Verdicts /\ op.write.state \in Uncertain => op'.write.state \in Uncertain
  BY <1>1, <1>3, QuietFacts
<1>6. /\ late' = late /\ claim' = claim /\ effect' = effect /\ rclaim' = rclaim /\ rec' = rec
      /\ toolRuns' = toolRuns
  BY DEF AppendBatch, Beside
<1>7. FlightOK(op, effect)'
  BY <1>1, <1>2, <1>5, <1>6 DEF FlightOK
<1>8. \A v \in Workers : Serving(call[v], op', ver', effect)
  BY <1>1, <1>4, ServingLater DEF RInv
<1>9. PICK c : Serving(c, op', ver', effect) /\ call' = [call EXCEPT ![w] = c]
  <2>1. call[w].kind \in {"service", "enter", "verdict"} /\ call' = AfterAppend(w)
    BY <1>1 DEF Serving, AppendBatch
  <2>2. CASE call[w].kind = "service"
    <3>1. call' = [call EXCEPT ![w] = Idle]
      BY <2>1, <2>2 DEF AfterAppend
    <3> QED
      BY <3>1, ServingIdle
  <2>3. CASE call[w].kind = "enter"
    <3>1. call' = [call EXCEPT ![w] = [call[w] EXCEPT !.pc = "checking"]]
      BY <2>1, <2>3 DEF AfterAppend, Goto
    <3>2. Serving([call[w] EXCEPT !.pc = "checking"], op', ver', effect)
      BY <1>8, ServingGoto
    <3> QED
      BY <3>1, <3>2
  <2>4. CASE call[w].kind = "verdict"
    <3>1. call' = [call EXCEPT ![w] = [call[w] EXCEPT !.pc = "release"]]
      BY <2>1, <2>4 DEF AfterAppend, Goto
    <3>2. Serving([call[w] EXCEPT !.pc = "release"], op', ver', effect)
      BY <1>8, ServingGoto
    <3> QED
      BY <3>1, <3>2
  <2> QED
    BY <2>1, <2>2, <2>3, <2>4
<1>10. c \in CallStates /\ call' \in [Workers -> CallStates]
  BY <1>1, <1>9 DEF Serving
<1>11. \A v \in Workers : Serving(call'[v], op', ver', effect')
  BY <1>1, <1>6, <1>8, <1>9
<1>12. \A v \in Workers : (HoldsRecovery(v) => RecOK(rec[v], op))'
  <2> SUFFICES ASSUME NEW v \in Workers, HoldsRecovery(v)' PROVE RecOK(rec[v], op')
    BY <1>6
  <2>1. HoldsRecovery(v)
    BY <1>6 DEF HoldsRecovery
  <2> QED
    BY <1>5, <2>1, QuietRec DEF RInv
<1>13. ToolOK(op, toolRuns, rec)'
  <2>1. op'.tool = op.tool
    BY <1>5 DEF Quiet
  <2> QED
    BY <1>6, <2>1 DEF RInv, ToolOK
<1>14. \A v \in Workers : RecTyped(rec[v], rclaim)'
  BY <1>6 DEF RInv, RecTyped
<1>15. op' \in Operations /\ LogOK(op)'
  BY <1>5 DEF Quiet
<1> QED
  BY <1>4, <1>6, <1>7, <1>10, <1>11, <1>12, <1>13, <1>14, <1>15 DEF RInv

LEMMA RServiceKeeps ==
  ASSUME RInv, NEW w \in Workers, ServiceStep(w)
  PROVE  RInv'
<1>1. UNCHANGED Beside
  BY DEF ServiceStep, Beside
<1>2. ASSUME StoreStep(w) PROVE RInv'
  <2>1. CASE AppendBatch(w)
    BY <1>1, <2>1, RAppendKeeps
  <2>2. CASE AppendConflicts(w) \/ AppendFenced(w) \/ AppendFails(w)
    BY <1>1, <2>2, RLostKeeps
  <2>3. CASE AppendLate(w)
    BY <1>1, <2>3, RLateKeeps
  <2> QED
    BY <1>2, <2>1, <2>2, <2>3 DEF StoreStep
<1>3. ASSUME ReconcileStep(w) PROVE RInv'
  <2>1. CASE ReadForReconcile(w)
    BY <1>1, <2>1, ReadServes, ServiceMoved DEF ReadForReconcile, Beside
  <2>2. CASE AcquireReconcile(w)
    BY <1>1, <2>2, RAcquireKeeps
  <2>3. CASE BeginEnter(w) \/ BeginVerdict(w)
    BY <1>1, <2>3, RBeginKeeps
  <2>4. CASE ReconcileAnswers(w) \/ ReconcileRaises(w)
    BY <1>1, <2>4, RCheckingKeeps
  <2>5. CASE ReconcileCancelled(w)
    BY <1>1, <2>5, RGotoKeeps DEF ReconcileCancelled
  <2>6. CASE ReleaseReconcile(w)
    BY <1>1, <2>6, RReleaseKeeps
  <2> QED
    BY <1>3, <2>1, <2>2, <2>3, <2>4, <2>5, <2>6 DEF ReconcileStep
<1>4. ASSUME BeginGrant(w) \/ BeginReject(w) \/ BeginExpire(w) PROVE RInv'
  BY <1>1, <1>4, RApprovalKeeps
<1> QED
  BY <1>2, <1>3, <1>4 DEF ServiceStep

LEMMA REnvironmentKeeps ==
  ASSUME RInv, Environment, UNCHANGED <<rclaim, rec, toolRuns>>
  PROVE  RInv'
<1>1. /\ op' = op /\ ver' = ver /\ call' = call /\ rclaim' = rclaim /\ rec' = rec
      /\ toolRuns' = toolRuns
  BY DEF Environment, PassDeadline, LeaseLapses, ExternalResolves
<1>2. late' \in BOOLEAN /\ claim' \in Claims
  BY DEF RInv, Environment, PassDeadline, LeaseLapses, ExternalResolves, Claims
<1>3. /\ effect' \in Effects /\ effect'.inflight + effect'.applied <= 1
      /\ effect.inflight = 0 => effect'.inflight = 0
  <2>1. CASE effect' = effect
    BY <2>1 DEF RInv, FlightOK
  <2>2. CASE ExternalResolves
    <3>1. effect \in Effects /\ effect.inflight + effect.applied <= 1 /\ effect.inflight > 0
      BY <2>2 DEF RInv, FlightOK, ExternalResolves
    <3>2. \/ effect' = [effect EXCEPT !.inflight = effect.inflight - 1, !.applied = effect.applied + 1]
          \/ effect' = [effect EXCEPT !.inflight = effect.inflight - 1]
      BY <2>2 DEF ExternalResolves
    <3>3. effect.inflight \in Nat /\ effect.applied \in Nat /\ effect.inflight - 1 \in Nat
      BY <3>1 DEF Effects
    <3>4. /\ effect' \in Effects /\ effect'.inflight = effect.inflight - 1
          /\ effect'.applied \in {effect.applied, effect.applied + 1}
      <4> DEFINE x == effect
                 i == effect.inflight - 1
                 a == effect.applied + 1
      <4>1. x \in Effects /\ i \in Nat /\ a \in Nat
        BY <3>1, <3>3
      <4> HIDE DEF x, i, a
      <4>2. effect' = [x EXCEPT !.inflight = i, !.applied = a] \/ effect' = [x EXCEPT !.inflight = i]
        BY <3>2 DEF x, i, a
      <4>3. effect' \in Effects /\ effect'.inflight = i /\ effect'.applied \in {x.applied, a}
        BY <4>1, <4>2 DEF Effects
      <4> QED
        BY <4>3 DEF x, i, a
    <3> QED
      BY <3>1, <3>3, <3>4
  <2> QED
    BY <2>1, <2>2 DEF Environment, PassDeadline, LeaseLapses
<1>4. FlightOK(op, effect)'
  BY <1>1, <1>3 DEF RInv, FlightOK
<1>5. \A w \in Workers : Serving(call[w], op, ver, effect')
  BY <1>3 DEF RInv, Serving
<1>6. \A w \in Workers : Serving(call[w], op, ver, effect)'
  BY <1>1, <1>5
<1>7. \A w \in Workers : RecTyped(rec[w], rclaim)'
  BY <1>1 DEF RInv, RecTyped
<1>8. \A w \in Workers : (HoldsRecovery(w) => RecOK(rec[w], op))'
  BY <1>1 DEF RInv, HoldsRecovery
<1>9. ToolOK(op, toolRuns, rec)' /\ LogOK(op)'
  BY <1>1 DEF RInv
<1> QED
  BY <1>1, <1>2, <1>3, <1>4, <1>6, <1>7, <1>8, <1>9 DEF RInv

-----------------------------------------------------------------------------
(* Steps of recovery that append nothing *)

LEMMA ToolMoves ==
  ASSUME NEW o, NEW runs, NEW r \in [Workers -> RecStates], ToolOK(o, runs, r),
         NEW w \in Workers, NEW d, d.pc # "tool"
  PROVE  ToolOK(o, runs, [r EXCEPT ![w] = d])
<1>1. \A v \in Workers : [r EXCEPT ![w] = d][v] = IF v = w THEN d ELSE r[v]
  OBVIOUS
<1> DEFINE s == [r EXCEPT ![w] = d]
<1> HIDE DEF s
<1>2. \A v \in Workers : s[v].pc = "tool" => r[v].pc = "tool"
  BY <1>1 DEF s
<1>3. ToolOK(o, runs, s)
  BY <1>2 DEF ToolOK
<1> QED
  BY <1>3 DEF s

\* A worker goes on with r; the row of the claim keeps or loses its holder.
LEMMA RecoveryMoves ==
  ASSUME RInv, NEW w \in Workers, NEW r, rec' = [rec EXCEPT ![w] = r],
         UNCHANGED <<op, ver, late, effect>>, claim' \in Claims,
         call' \in [Workers -> CallStates],
         \A v \in Workers : Serving(call'[v], op, ver, effect),
         rclaim' \in Claims, rclaim'.gen <= 2 * MaxRecoveries, rclaim.gen <= rclaim'.gen,
         RecTyped(r, rclaim'),
         LeaseCurrent(rclaim', w, r.gen, 0) => RecOK(r, op),
         \A v \in Workers \ {w} : LeaseCurrent(rclaim', v, rec[v].gen, 0) => HoldsRecovery(v),
         toolRuns' \in Nat, ToolOK(op, toolRuns', rec')
  PROVE  RInv'
<1>1. rec \in [Workers -> RecStates] /\ r \in RecStates /\ rclaim \in Claims
  BY DEF RInv, RecTyped
<1>2. \A v \in Workers : rec'[v] = IF v = w THEN r ELSE rec[v]
  BY <1>1
<1>3. op' = op /\ ver' = ver /\ late' = late /\ effect' = effect
  OBVIOUS
<1>4. \A v \in Workers : Serving(call[v], op, ver, effect)'
  BY <1>3
<1>5. \A v \in Workers : RecTyped(rec[v], rclaim)'
  <2> SUFFICES ASSUME NEW v \in Workers PROVE RecTyped(rec'[v], rclaim')
    OBVIOUS
  <2>1. CASE v = w
    BY <1>2, <2>1
  <2>2. CASE v # w
    <3>1. rec'[v] = rec[v] /\ RecTyped(rec[v], rclaim)
      BY <1>2, <2>2 DEF RInv
    <3>2. rclaim.gen \in Nat /\ rclaim'.gen \in Nat /\ rec[v].gen \in Nat
      BY <1>1 DEF Claims, RecStates
    <3> QED
      BY <3>1, <3>2 DEF RecTyped
  <2> QED
    BY <2>1, <2>2
<1>6. \A v \in Workers : (HoldsRecovery(v) => RecOK(rec[v], op))'
  <2> SUFFICES ASSUME NEW v \in Workers, LeaseCurrent(rclaim', v, rec'[v].gen, 0)
               PROVE  RecOK(rec'[v], op)
    BY <1>3 DEF HoldsRecovery
  <2>1. CASE v = w
    BY <1>2, <2>1
  <2>2. CASE v # w
    BY <1>2, <2>2 DEF RInv
  <2> QED
    BY <2>1, <2>2
<1>7. rec' \in [Workers -> RecStates]
  BY <1>1
<1>8. ToolOK(op, toolRuns, rec)' /\ LogOK(op)' /\ FlightOK(op, effect)'
  BY <1>3 DEF RInv
<1> QED
  BY <1>3, <1>4, <1>5, <1>6, <1>7, <1>8 DEF RInv

\* The usual case: the worker moves, and neither the lease nor a tool run does.
LEMMA RecoveryGoes ==
  ASSUME RInv, NEW w \in Workers, NEW r, rec' = [rec EXCEPT ![w] = r],
         UNCHANGED <<svars, rclaim, toolRuns>>, RecTyped(r, rclaim),
         r.gen = rec[w].gen, HoldsRecovery(w) => RecOK(r, op), r.pc # "tool"
  PROVE  RInv'
<1>1. /\ op' = op /\ ver' = ver /\ late' = late /\ effect' = effect /\ claim' = claim
      /\ call' = call /\ rclaim' = rclaim /\ toolRuns' = toolRuns
  BY DEF svars
<1>2. /\ claim \in Claims /\ call \in [Workers -> CallStates] /\ rclaim \in Claims
      /\ rclaim.gen <= 2 * MaxRecoveries /\ toolRuns \in Nat /\ rec \in [Workers -> RecStates]
      /\ ToolOK(op, toolRuns, rec) /\ \A v \in Workers : Serving(call[v], op, ver, effect)
  BY DEF RInv
<1>3. ToolOK(op, toolRuns, rec')
  BY <1>2, ToolMoves
<1>4. rclaim.gen <= rclaim.gen
  BY <1>2 DEF Claims
<1> QED
  BY <1>1, <1>2, <1>3, <1>4, RecoveryMoves DEF HoldsRecovery

LEMMA RecOKPlan ==
  ASSUME NEW r, NEW o, r.pc \in {"idle", "plan", "release", "write", "writing"}
  PROVE  RecOK(r, o)
  BY DEF RecOK

\* A worker goes where nothing is known of the log.
LEMMA RGotoMoves ==
  ASSUME RInv, NEW w \in Workers, rec[w].pc # "idle",
         NEW pc \in {"plan", "release", "write", "writing"},
         rec' = RGoto(w, pc), UNCHANGED <<svars, rclaim, toolRuns>>
  PROVE  RInv'
<1> DEFINE r == [rec[w] EXCEPT !.pc = pc]
<1>1. rec[w] \in RecStates /\ RecTyped(rec[w], rclaim)
  BY DEF RInv
<1>2. rec' = [rec EXCEPT ![w] = r]
  BY DEF RGoto
<1>3. r \in RecStates /\ r.pc = pc /\ r.gen = rec[w].gen /\ r.kind = rec[w].kind
  BY <1>1 DEF RecStates
<1> HIDE DEF r
<1>4. RecTyped(r, rclaim)
  BY <1>1, <1>3 DEF RecTyped
<1>5. RecOK(r, op) /\ r.pc # "tool"
  BY <1>3, RecOKPlan
<1> QED
  BY <1>2, <1>3, <1>4, <1>5, RecoveryGoes

LEMMA PlanFacts ==
  ASSUME NEW o \in Operations, LogOK(o)
  PROVE  /\ Plan(o) \in Attended \cup Unattended
         /\ Plan(o) = "retry_model_request" => o.requests = 1
         /\ Plan(o) = "continue_model" => o.requests = 0 /\ o.transcript \in {"user", "answered"}
         /\ Plan(o) \in ToolKinds => o.transcript = "call" /\ o.write.state # "waiting_approval"
         /\ Plan(o) = "execute_tool" => o.tool.phase = "intent_recorded"
         /\ Plan(o) = "replay_safe_tool" => o.tool.safe
         /\ Plan(o) = "finish_operation" => o.transcript = "final"
<1>1. /\ o.write.state \in WriteStates /\ o.approval.state \in ApprovalStates
      /\ o.tool.phase \in ToolPhases /\ o.transcript \in Transcripts
      /\ o.requests \in {0, 1} /\ o.transcript # "broken"
  BY DEF Operations, WriteRecords, ApprovalRecords, ToolRecords, LogOK
<1> DEFINE idle == {"none", "manual_intervention", "wait_for_approval", "consume_approval",
                    "resume_approved_write", "finalize_rejected_approval", "reconcile_write"}
<1>2. WriteAction(o) \in idle /\ (WriteAction(o) = "none" => o.write.state # "waiting_approval")
  <2>1. CASE o.write.state = "waiting_approval"
    BY <1>1, <2>1 DEF WriteAction, ApprovalStates
  <2>2. CASE o.write.state # "waiting_approval"
    BY <1>1, <2>2 DEF WriteAction, WriteStates
  <2> QED
    BY <2>1, <2>2
<1>3. ApprovalAction(o) \in idle
  BY <1>1 DEF ApprovalAction, ApprovalStates
<1>4. /\ ToolAction(o) \in ToolKinds \cup {"manual_intervention"}
      /\ ToolAction(o) = "execute_tool" => o.tool.phase = "intent_recorded"
      /\ ToolAction(o) = "replay_safe_tool" => o.tool.safe
  BY <1>1 DEF ToolAction, ToolPhases, ToolKinds
<1> DEFINE inner == CASE o.requests > 0 -> "retry_model_request"
              [] o.requests = 0 /\ o.transcript = "error" -> "manual_intervention"
              [] o.requests = 0 /\ o.transcript = "call" -> ToolAction(o)
              [] o.requests = 0 /\ o.transcript \in {"user", "answered", "broken"} ->
                    "continue_model"
              [] o.requests = 0 /\ o.transcript = "final" -> "finish_operation"
<1>5. \/ Plan(o) \in idle
      \/ WriteAction(o) = "none" /\ Plan(o) = inner
  <2>1. CASE o.phase \in Terminal
    BY <2>1 DEF Plan
  <2>2. CASE o.phase \notin Terminal /\ WriteAction(o) # "none"
    <3>1. Plan(o) = WriteAction(o)
      BY <2>2 DEF Plan
    <3> QED
      BY <1>2, <3>1
  <2>3. CASE o.phase \notin Terminal /\ WriteAction(o) = "none" /\ ApprovalAction(o) # "none"
    <3>1. Plan(o) = ApprovalAction(o)
      BY <2>3 DEF Plan
    <3> QED
      BY <1>3, <3>1
  <2>4. CASE o.phase \notin Terminal /\ WriteAction(o) = "none" /\ ApprovalAction(o) = "none"
    <3>1. Plan(o) = inner
      BY <2>4 DEF Plan
    <3> QED
      BY <2>4, <3>1
  <2> QED
    BY <2>1, <2>2, <2>3, <2>4
<1>6. \/ inner = "retry_model_request" /\ o.requests = 1
      \/ inner = "manual_intervention"
      \/ inner = ToolAction(o) /\ o.transcript = "call"
      \/ inner = "continue_model" /\ o.requests = 0 /\ o.transcript \in {"user", "answered"}
      \/ inner = "finish_operation" /\ o.transcript = "final"
  <2>1. CASE o.requests = 1
    BY <2>1
  <2>2. CASE o.requests = 0 /\ o.transcript = "error"
    BY <2>2
  <2>3. CASE o.requests = 0 /\ o.transcript = "call"
    BY <2>3
  <2>4. CASE o.requests = 0 /\ o.transcript \in {"user", "answered"}
    BY <2>4
  <2>5. CASE o.requests = 0 /\ o.transcript = "final"
    BY <2>5
  <2> QED
    BY <1>1, <2>1, <2>2, <2>3, <2>4, <2>5 DEF Transcripts
<1> HIDE DEF inner
<1>7. CASE Plan(o) \in idle
  BY <1>7 DEF Attended, Unattended, ToolKinds
<1>8. CASE WriteAction(o) = "none" /\ Plan(o) = inner
  BY <1>2, <1>4, <1>6, <1>8 DEF Attended, Unattended, ToolKinds
<1> QED
  BY <1>5, <1>7, <1>8

LEMMA PlanKeeps ==
  ASSUME RInv, NEW w \in Workers, PlanNext(w)
  PROVE  RInv'
<1> DEFINE kind == Plan(op)
           r == [rec[w] EXCEPT !.kind = kind, !.pc = IF kind \in Unattended THEN "release" ELSE "act"]
<1>1. rec[w] \in RecStates /\ RecTyped(rec[w], rclaim) /\ op \in Operations /\ LogOK(op)
      /\ rec \in [Workers -> RecStates] /\ rec[w].pc = "plan"
  BY DEF RInv, PlanNext
<1>2. /\ kind \in Attended \cup Unattended
      /\ kind = "retry_model_request" => op.requests = 1
      /\ kind = "continue_model" => op.requests = 0 /\ op.transcript \in {"user", "answered"}
      /\ kind \in ToolKinds => op.transcript = "call" /\ op.write.state # "waiting_approval"
      /\ kind = "execute_tool" => op.tool.phase = "intent_recorded"
      /\ kind = "replay_safe_tool" => op.tool.safe
      /\ kind = "finish_operation" => op.transcript = "final"
  BY <1>1, PlanFacts
<1>3. rec' = [rec EXCEPT ![w].kind = kind, ![w].pc = IF kind \in Unattended THEN "release" ELSE "act"]
  BY DEF PlanNext
<1> HIDE DEF kind
<1>4. rec' = [rec EXCEPT ![w] = r]
  BY <1>1, <1>3
<1>5. /\ r \in RecStates /\ r.kind = kind /\ r.gen = rec[w].gen
      /\ r.pc = IF kind \in Unattended THEN "release" ELSE "act"
  BY <1>1, <1>2 DEF RecStates
<1> HIDE DEF r
<1>6. RecTyped(r, rclaim)
  BY <1>1, <1>2, <1>5 DEF RecTyped
<1>7. RecOK(r, op) /\ r.pc # "tool"
  BY <1>2, <1>5 DEF RecOK
<1> QED
  BY <1>4, <1>5, <1>6, <1>7, RecoveryGoes DEF PlanNext

LEMMA LeaveKeeps ==
  ASSUME RInv, NEW w \in Workers,
         ActOnWrite(w) \/ ReconcileReturns(w) \/ RecoveryCancelled(w)
  PROVE  RInv'
<1>1. PICK pc \in {"plan", "release", "write"} :
        /\ rec[w].pc # "idle" /\ rec' = RGoto(w, pc) /\ UNCHANGED <<svars, rclaim, toolRuns>>
  <2>1. CASE ActOnWrite(w)
    BY <2>1 DEF ActOnWrite
  <2>2. CASE ReconcileReturns(w)
    BY <2>2 DEF ReconcileReturns
  <2>3. CASE RecoveryCancelled(w)
    BY <2>3 DEF RecoveryCancelled
  <2> QED
    BY <2>1, <2>2, <2>3
<1> QED
  BY <1>1, RGotoMoves

LEMMA ResultMoves ==
  ASSUME RInv, NEW w \in Workers, NEW pc \in {"answered", "store"}, NEW result,
         pc = "answered" => /\ rec[w].pc = "model" /\ result \in {"final", "failed", "call"}
                            /\ result = "call" => op.transcript = "user",
         pc = "store" => rec[w].pc \in {"tool", "check"} /\ result \in Results,
         NEW r, r = [rec[w] EXCEPT !.pc = pc, !.result = result]
  PROVE  /\ RecTyped(r, rclaim) /\ r.gen = rec[w].gen /\ r.pc # "tool"
         /\ HoldsRecovery(w) => RecOK(r, op)
<1>1. /\ rec[w] \in RecStates /\ RecTyped(rec[w], rclaim) /\ rec \in [Workers -> RecStates]
      /\ HoldsRecovery(w) => RecOK(rec[w], op)
  BY DEF RInv
<1>2. result \in ToolResults \cup Transcripts \cup {"failed"}
  BY DEF ToolResults, Transcripts, Results
<1>4. r \in RecStates /\ r.pc = pc /\ r.result = result /\ r.gen = rec[w].gen /\ r.kind = rec[w].kind
  BY <1>1, <1>2 DEF RecStates
<1>5. RecTyped(r, rclaim)
  BY <1>1, <1>4 DEF RecTyped
<1>6. HoldsRecovery(w) => RecOK(r, op)
  BY <1>1, <1>4 DEF RecOK
<1> QED
  BY <1>4, <1>5, <1>6

LEMMA ModelAnswersKeeps ==
  ASSUME RInv, NEW w \in Workers, ModelAnswers(w)
  PROVE  RInv'
<1>1. PICK m \in {"final", "failed", "call"} :
        /\ m = "call" => op.transcript = "user"
        /\ rec' = [rec EXCEPT ![w].pc = "answered", ![w].result = m]
  BY DEF ModelAnswers
<1>2. rec[w].pc = "model" /\ UNCHANGED <<svars, rclaim, toolRuns>> /\ rec \in [Workers -> RecStates]
  BY DEF ModelAnswers, RInv
<1> DEFINE r == [rec[w] EXCEPT !.pc = "answered", !.result = m]
<1>3. rec' = [rec EXCEPT ![w] = r]
  BY <1>1, <1>2
<1>4. /\ RecTyped(r, rclaim) /\ r.gen = rec[w].gen /\ r.pc # "tool"
      /\ HoldsRecovery(w) => RecOK(r, op)
  BY <1>1, <1>2, ResultMoves
<1> HIDE DEF r
<1> QED
  BY <1>2, <1>3, <1>4, RecoveryGoes

LEMMA CheckToolKeeps ==
  ASSUME RInv, NEW w \in Workers, CheckTool(w)
  PROVE  RInv'
<1>1. rec[w].pc = "check" /\ UNCHANGED <<svars, rclaim, toolRuns>> /\ rec \in [Workers -> RecStates]
  BY DEF CheckTool, RInv
<1>2. CASE rec' = RGoto(w, "release")
  BY <1>1, <1>2, RGotoMoves
<1>3. CASE \E res \in Results : rec' = [rec EXCEPT ![w].pc = "store", ![w].result = res]
  <2>1. PICK res \in Results : rec' = [rec EXCEPT ![w].pc = "store", ![w].result = res]
    BY <1>3
  <2> DEFINE r == [rec[w] EXCEPT !.pc = "store", !.result = res]
  <2>2. rec' = [rec EXCEPT ![w] = r]
    BY <1>1, <2>1
  <2>3. /\ RecTyped(r, rclaim) /\ r.gen = rec[w].gen /\ r.pc # "tool"
        /\ HoldsRecovery(w) => RecOK(r, op)
    BY <1>1, <2>1, ResultMoves
  <2> HIDE DEF r
  <2> QED
    BY <1>1, <2>2, <2>3, RecoveryGoes
<1> QED
  BY <1>2, <1>3 DEF CheckTool

\* The tool may run without the lease.
LEMMA ExecuteToolKeeps ==
  ASSUME RInv, NEW w \in Workers, ExecuteTool(w)
  PROVE  RInv'
<1>1. /\ rec[w].pc = "tool" /\ toolRuns' = toolRuns + 1
      /\ op' = op /\ ver' = ver /\ late' = late /\ effect' = effect /\ claim' = claim
      /\ call' = call /\ rclaim' = rclaim
  BY DEF ExecuteTool, svars
<1>2. /\ \A v \in Workers : Serving(call[v], op, ver, effect)
      /\ claim \in Claims /\ call \in [Workers -> CallStates] /\ rclaim \in Claims
      /\ rclaim.gen <= 2 * MaxRecoveries /\ toolRuns \in Nat /\ rec \in [Workers -> RecStates]
      /\ ToolOK(op, toolRuns, rec) /\ rec[w] \in RecStates /\ RecTyped(rec[w], rclaim)
      /\ rclaim.gen <= rclaim.gen
  BY DEF RInv, Claims
<1>3. ASSUME NEW r, rec' = [rec EXCEPT ![w] = r], RecTyped(r, rclaim), r.gen = rec[w].gen,
             r.pc # "tool", HoldsRecovery(w) => RecOK(r, op)
      PROVE  RInv'
  <2>0. ToolOK(op, toolRuns', rec')
    <3>1. \A v \in Workers : rec'[v].pc = "tool" => v # w /\ rec[v].pc = "tool"
      BY <1>2, <1>3
    <3>2. op.tool.phase \notin {"none", "intent_recorded"}
      BY <1>1, <1>2 DEF ToolOK
    <3>3. ~op.tool.safe => toolRuns = 0 /\ \A v \in Workers : rec'[v].pc # "tool"
      BY <1>1, <1>2, <3>1 DEF ToolOK
    <3> QED
      BY <1>1, <3>2, <3>3 DEF ToolOK
  <2>1. toolRuns' \in Nat
    BY <1>1, <1>2
  <2> QED
    BY <1>1, <1>2, <1>3, <2>0, <2>1, RecoveryMoves DEF HoldsRecovery
<1>4. CASE rec' = RGoto(w, "release")
  <2> DEFINE r == [rec[w] EXCEPT !.pc = "release"]
  <2>1. rec' = [rec EXCEPT ![w] = r]
    BY <1>4 DEF RGoto
  <2>2. r \in RecStates /\ r.pc = "release" /\ r.gen = rec[w].gen /\ r.kind = rec[w].kind
    BY <1>2 DEF RecStates
  <2> HIDE DEF r
  <2>3. RecTyped(r, rclaim) /\ RecOK(r, op)
    BY <1>1, <1>2, <2>2, RecOKPlan DEF RecTyped
  <2> QED
    BY <1>3, <2>1, <2>2, <2>3
<1>5. CASE \E res \in Results : rec' = [rec EXCEPT ![w].pc = "store", ![w].result = res]
  <2>1. PICK res \in Results : rec' = [rec EXCEPT ![w].pc = "store", ![w].result = res]
    BY <1>5
  <2> DEFINE r == [rec[w] EXCEPT !.pc = "store", !.result = res]
  <2>2. rec' = [rec EXCEPT ![w] = r]
    BY <1>2, <2>1
  <2>3. /\ RecTyped(r, rclaim) /\ r.gen = rec[w].gen /\ r.pc # "tool"
        /\ HoldsRecovery(w) => RecOK(r, op)
    BY <1>1, <2>1, ResultMoves
  <2> HIDE DEF r
  <2> QED
    BY <1>3, <2>2, <2>3
<1> QED
  BY <1>4, <1>5 DEF ExecuteTool

LEMMA StartKeeps ==
  ASSUME RInv, NEW w \in Workers, StartRecovery(w)
  PROVE  RInv'
<1> DEFINE g == rclaim.gen + 1
           r == [RIdle EXCEPT !.pc = "plan", !.gen = g]
<1>1. /\ op' = op /\ ver' = ver /\ late' = late /\ effect' = effect /\ claim' = claim
      /\ call' = call /\ toolRuns' = toolRuns /\ rclaim' = AcquiredRow(rclaim, w, 0, 1)
      /\ rec' = [rec EXCEPT ![w] = r] /\ ~Held(rclaim, 0) /\ rclaim.gen < MaxRecoveries
  BY DEF StartRecovery, svars
<1>2. /\ \A v \in Workers : Serving(call[v], op, ver, effect)
      /\ claim \in Claims /\ call \in [Workers -> CallStates] /\ rclaim \in Claims
      /\ toolRuns \in Nat /\ rec \in [Workers -> RecStates] /\ ToolOK(op, toolRuns, rec)
      /\ rclaim.gen \in Nat /\ MaxRecoveries \in Nat
  BY RecoveryAssumption DEF RInv, Claims
<1>3. rclaim' = [owner |-> w, expires |-> 1, gen |-> g]
  BY <1>1, <1>2 DEF AcquiredRow
<1>4. g \in Nat /\ g > rclaim.gen /\ g <= MaxRecoveries /\ g <= 2 * MaxRecoveries
  BY <1>1, <1>2
<1> HIDE DEF g
<1>5. rclaim' \in Claims /\ rclaim'.gen = g /\ rclaim'.owner = w
  BY <1>3, <1>4 DEF Claims
<1>6. r \in RecStates /\ r.pc = "plan" /\ r.gen = g
  BY <1>4 DEF RIdle, RecStates, Unattended, ToolResults
<1> HIDE DEF r
<1>7. RecTyped(r, rclaim') /\ RecOK(r, op)
  BY <1>2, <1>4, <1>5, <1>6, RecOKPlan DEF RecTyped
<1>8. ToolOK(op, toolRuns', rec')
  BY <1>1, <1>2, <1>6, ToolMoves
<1>9. \A v \in Workers \ {w} : ~LeaseCurrent(rclaim', v, rec[v].gen, 0)
  BY <1>5 DEF LeaseCurrent, Names
<1>10. rclaim.gen <= rclaim'.gen /\ rclaim'.gen <= 2 * MaxRecoveries
  BY <1>2, <1>4, <1>5
<1> QED
  BY <1>1, <1>2, <1>5, <1>7, <1>8, <1>9, <1>10, RecoveryMoves

\* The lease is given back or runs out: nobody holds it then.
LEMMA ReleaseRecoveryKeeps ==
  ASSUME RInv, NEW w \in Workers, ReleaseRecovery(w)
  PROVE  RInv'
<1>1. /\ op' = op /\ ver' = ver /\ late' = late /\ effect' = effect /\ claim' = claim
      /\ call' = call /\ toolRuns' = toolRuns /\ rec[w].pc = "release"
      /\ rclaim' = IF Names(rclaim, w, rec[w].gen) THEN ReleasedRow(rclaim) ELSE rclaim
      /\ rec' = [rec EXCEPT ![w] = RIdle]
  BY DEF ReleaseRecovery, svars
<1>2. /\ \A v \in Workers : Serving(call[v], op, ver, effect)
      /\ claim \in Claims /\ call \in [Workers -> CallStates] /\ rclaim \in Claims
      /\ toolRuns \in Nat /\ rec \in [Workers -> RecStates] /\ ToolOK(op, toolRuns, rec)
      /\ rclaim.gen \in Nat /\ MaxRecoveries \in Nat /\ rclaim.gen <= 2 * MaxRecoveries
      /\ RecTyped(rec[w], rclaim) /\ rec[w].gen \in Nat
  BY RecoveryAssumption DEF RInv, Claims, RecStates
<1>3. RIdle \in RecStates /\ RIdle.pc = "idle" /\ RIdle.gen = 0
  BY DEF RIdle, RecStates, Unattended, ToolResults
<1>4. /\ rclaim' \in Claims /\ rclaim.gen <= rclaim'.gen /\ rclaim'.gen <= 2 * MaxRecoveries
      /\ \A v \in Workers : LeaseCurrent(rclaim', v, rec[v].gen, 0) => HoldsRecovery(v)
  <2>1. CASE Names(rclaim, w, rec[w].gen)
    <3>1. rclaim' = [owner |-> rclaim.owner, expires |-> 0, gen |-> rclaim.gen + 1]
      BY <1>1, <2>1 DEF ReleasedRow
    <3>2. rclaim.gen <= MaxRecoveries /\ MaxRecoveries > 0
      BY <1>1, <1>2, <2>1 DEF Names, RecTyped
    <3>3. rclaim' \in Claims /\ rclaim'.gen = rclaim.gen + 1 /\ rclaim'.expires = 0
      BY <1>2, <3>1 DEF Claims
    <3>4. \A v \in Workers : ~LeaseCurrent(rclaim', v, rec[v].gen, 0)
      BY <3>3 DEF LeaseCurrent, Held
    <3> QED
      BY <1>2, <3>2, <3>3, <3>4
  <2>2. CASE ~Names(rclaim, w, rec[w].gen)
    BY <1>1, <1>2, <2>2 DEF HoldsRecovery
  <2> QED
    BY <2>1, <2>2
<1>5. RecTyped(RIdle, rclaim') /\ RecOK(RIdle, op)
  BY <1>2, <1>3, <1>4, RecOKPlan DEF RecTyped, Claims
<1>6. ToolOK(op, toolRuns', rec')
  BY <1>1, <1>2, <1>3, ToolMoves
<1> QED
  BY <1>1, <1>2, <1>4, <1>5, <1>6, RecoveryMoves

LEMMA CrashKeeps ==
  ASSUME RInv, NEW w \in Workers, CrashRecovery(w)
  PROVE  RInv'
<1>1. /\ op' = op /\ ver' = ver /\ late' = late /\ effect' = effect /\ claim' = claim
      /\ call' = [call EXCEPT ![w] = Idle] /\ toolRuns' = toolRuns /\ rclaim' = rclaim
      /\ rec' = [rec EXCEPT ![w] = RIdle]
  BY DEF CrashRecovery
<1>2. /\ \A v \in Workers : Serving(call[v], op, ver, effect)
      /\ claim \in Claims /\ call \in [Workers -> CallStates] /\ rclaim \in Claims
      /\ toolRuns \in Nat /\ rec \in [Workers -> RecStates] /\ ToolOK(op, toolRuns, rec)
      /\ rclaim.gen \in Nat /\ MaxRecoveries \in Nat /\ rclaim.gen <= 2 * MaxRecoveries
  BY RecoveryAssumption DEF RInv, Claims
<1>3. RIdle \in RecStates /\ RIdle.pc = "idle" /\ RIdle.gen = 0
  BY DEF RIdle, RecStates, Unattended, ToolResults
<1>4. RecTyped(RIdle, rclaim') /\ RecOK(RIdle, op)
  BY <1>1, <1>2, <1>3, RecOKPlan DEF RecTyped
<1>5. ToolOK(op, toolRuns', rec')
  BY <1>1, <1>2, <1>3, ToolMoves
<1>6. Idle \in CallStates
  BY IdleGood DEF GoodCall
<1>7. call' \in [Workers -> CallStates] /\ \A v \in Workers : Serving(call'[v], op, ver, effect)
  BY <1>1, <1>2, <1>6, ServingIdle
<1>8. rclaim'.gen <= 2 * MaxRecoveries /\ rclaim.gen <= rclaim'.gen
  BY <1>1, <1>2
<1> QED
  BY <1>1, <1>2, <1>4, <1>5, <1>7, <1>8, RecoveryMoves DEF HoldsRecovery

LEMMA LapseKeeps ==
  ASSUME RInv, RecoveryLapses
  PROVE  RInv'
<1>1. /\ op' = op /\ ver' = ver /\ late' = late /\ effect' = effect /\ claim' = claim
      /\ call' = call /\ toolRuns' = toolRuns /\ rec' = rec
      /\ rclaim' = [rclaim EXCEPT !.expires = 0]
  BY DEF RecoveryLapses, svars
<1>2. rclaim' \in Claims /\ rclaim'.gen = rclaim.gen /\ rclaim'.expires = 0
  BY <1>1 DEF RInv, Claims
<1>3. \A v \in Workers : ~HoldsRecovery(v)'
  BY <1>2 DEF HoldsRecovery, LeaseCurrent, Held
<1>4. \A v \in Workers : RecTyped(rec[v], rclaim)'
  BY <1>1, <1>2 DEF RInv, RecTyped
<1>5. \A v \in Workers : Serving(call[v], op, ver, effect)'
  BY <1>1 DEF RInv
<1>6. (LogOK(op) /\ FlightOK(op, effect) /\ ToolOK(op, toolRuns, rec))'
  BY <1>1 DEF RInv
<1> QED
  BY <1>1, <1>2, <1>3, <1>4, <1>5, <1>6 DEF RInv

\* The write callback begins, or is refused.
LEMMA CallbackKeeps ==
  ASSUME RInv, NEW w \in Workers, CallReconcile(w) \/ ReconcileRefused(w)
  PROVE  RInv'
<1>1. PICK pc \in {"writing", "release"} :
        /\ op' = op /\ ver' = ver /\ late' = late /\ effect' = effect /\ toolRuns' = toolRuns
        /\ rclaim' = rclaim /\ rec[w].pc = "write" /\ rec' = RGoto(w, pc)
  BY DEF CallReconcile, ReconcileRefused, ReadForReconcile
<1>2. /\ \A v \in Workers : Serving(call[v], op, ver, effect)
      /\ claim \in Claims /\ call \in [Workers -> CallStates] /\ rclaim \in Claims
      /\ toolRuns \in Nat /\ rec \in [Workers -> RecStates] /\ ToolOK(op, toolRuns, rec)
      /\ rec[w] \in RecStates /\ RecTyped(rec[w], rclaim) /\ rclaim.gen <= rclaim.gen
      /\ rclaim.gen <= 2 * MaxRecoveries
  BY DEF RInv, Claims
<1> DEFINE r == [rec[w] EXCEPT !.pc = pc]
<1>3. rec' = [rec EXCEPT ![w] = r]
  BY <1>1 DEF RGoto
<1>4. r \in RecStates /\ r.pc = pc /\ r.gen = rec[w].gen /\ r.kind = rec[w].kind
  BY <1>2 DEF RecStates
<1> HIDE DEF r
<1>5. RecTyped(r, rclaim) /\ RecOK(r, op)
  BY <1>1, <1>2, <1>4, RecOKPlan DEF RecTyped
<1>6. ToolOK(op, toolRuns', rec')
  <2>1. r.pc # "tool" /\ toolRuns' = toolRuns
    BY <1>1, <1>4
  <2>2. ToolOK(op, toolRuns, [rec EXCEPT ![w] = r])
    BY <1>2, <2>1, ToolMoves
  <2> QED
    BY <1>3, <2>1, <2>2
<1>7. claim' \in Claims
  BY <1>2 DEF CallReconcile, ReadForReconcile, ReconcileRefused, ReleasedRow, AcquiredRow, Claims
<1>8. call' \in [Workers -> CallStates] /\ \A v \in Workers : Serving(call'[v], op, ver, effect)
  <2>1. CASE CallReconcile(w)
    <3>1. PICK c : Serving(c, op, ver, effect) /\ call' = [call EXCEPT ![w] = c]
      BY <2>1, ReadServes DEF CallReconcile
    <3>2. c \in CallStates
      BY <3>1 DEF Serving
    <3> QED
      BY <1>2, <3>1, <3>2
  <2>2. CASE ReconcileRefused(w)
    BY <1>2, <2>2 DEF ReconcileRefused
  <2> QED
    BY <2>1, <2>2
<1> QED
  BY <1>1, <1>2, <1>3, <1>5, <1>6, <1>7, <1>8, RecoveryMoves DEF HoldsRecovery

-----------------------------------------------------------------------------
(* Commits *)

\* The tool does not go back, and nobody changes its replay policy.
LEMMA ToolLater ==
  ASSUME NEW o, NEW n, NEW runs \in Nat, NEW r, ToolOK(o, runs, r),
         o.tool.phase = "none" \/ n.tool.safe = o.tool.safe,
         n.tool.phase \in {"none", "intent_recorded"} => o.tool.phase \in {"none", "intent_recorded"}
  PROVE  ToolOK(n, runs, r)
<1>1. CASE o.tool.phase \in {"none", "intent_recorded"}
  BY <1>1 DEF ToolOK
<1>2. CASE o.tool.phase \notin {"none", "intent_recorded"}
  BY <1>2 DEF ToolOK
<1> QED
  BY <1>1, <1>2

\* The holder w appends a batch that leads to n and goes on with r.
LEMMA CommitKeeps ==
  ASSUME RInv, NEW w \in Workers, HoldsRecovery(w), NEW n \in Operations, op' = n,
         ver' \in Nat, ver' > ver \/ (ver' = ver /\ n = op),
         UNCHANGED <<late, claim, call, effect, rclaim, toolRuns>>,
         NEW r, rec' = [rec EXCEPT ![w] = r], RecTyped(r, rclaim), r.gen = rec[w].gen,
         LogOK(n), FlightOK(n, effect), RecOK(r, n), ToolOK(n, toolRuns, rec')
  PROVE  RInv'
<1>1. /\ late' = late /\ claim' = claim /\ call' = call /\ effect' = effect /\ rclaim' = rclaim
      /\ toolRuns' = toolRuns
  OBVIOUS
<1>2. rec \in [Workers -> RecStates] /\ r \in RecStates /\ ver \in Nat
  BY DEF RInv, RecTyped
<1>3. rec' \in [Workers -> RecStates] /\ \A v \in Workers : rec'[v] = IF v = w THEN r ELSE rec[v]
  BY <1>2
<1>4. \A v \in Workers : Serving(call[v], n, ver', effect)
  BY <1>2, ServingLater DEF RInv
<1>5. \A v \in Workers : Serving(call[v], op, ver, effect)'
  BY <1>1, <1>4
<1>6. \A v \in Workers : RecTyped(rec[v], rclaim)'
  BY <1>1, <1>3 DEF RInv
<1>7. \A v \in Workers : (HoldsRecovery(v) => RecOK(rec[v], op))'
  <2> SUFFICES ASSUME NEW v \in Workers, LeaseCurrent(rclaim, v, rec'[v].gen, 0) PROVE RecOK(rec'[v], n)
    BY <1>1 DEF HoldsRecovery
  <2>1. v = w
    BY DEF HoldsRecovery, LeaseCurrent, Names
  <2> QED
    BY <1>3, <2>1
<1>8. ToolOK(op, toolRuns, rec)' /\ LogOK(op)' /\ FlightOK(op, effect)'
  BY <1>1
<1> QED
  BY <1>1, <1>3, <1>5, <1>6, <1>7, <1>8 DEF RInv

\* What is left to show of a commit: that the batch keeps the log.
LEMMA CommitCases ==
  ASSUME RInv, NEW w \in Workers, rec[w].pc # "idle", NEW specs, Len(specs) \in Nat,
         Len(specs) > 0 \/ ReplayWithSpecs(op, specs) = op,
         NEW pc \in {"plan", "release", "model", "tool", "check"}, Commit(w, specs, RGoto(w, pc)),
         HoldsRecovery(w) /\ ReplayWithSpecs(op, specs) # Rejected =>
            /\ ReplayWithSpecs(op, specs) \in Operations
            /\ LogOK(ReplayWithSpecs(op, specs))
            /\ FlightOK(ReplayWithSpecs(op, specs), effect)
            /\ RecOK([rec[w] EXCEPT !.pc = pc], ReplayWithSpecs(op, specs))
            /\ ToolOK(ReplayWithSpecs(op, specs), toolRuns, [rec EXCEPT ![w] = [rec[w] EXCEPT !.pc = pc]])
  PROVE  RInv'
<1> DEFINE n == ReplayWithSpecs(op, specs)
           r == [rec[w] EXCEPT !.pc = pc]
<1>1. rec[w] \in RecStates /\ RecTyped(rec[w], rclaim) /\ ver \in Nat
  BY DEF RInv
<1>2. CASE HoldsRecovery(w) /\ n # Rejected
  <2>1. /\ op' = n /\ ver' = ver + Len(specs) /\ rec' = [rec EXCEPT ![w] = r]
        /\ UNCHANGED <<late, claim, call, effect, rclaim, toolRuns>>
    BY <1>2 DEF Commit, RGoto
  <2>2. r \in RecStates /\ r.pc = pc /\ r.gen = rec[w].gen /\ r.kind = rec[w].kind
    BY <1>1 DEF RecStates
  <2>3. /\ n \in Operations /\ LogOK(n) /\ FlightOK(n, effect) /\ RecOK(r, n)
        /\ ToolOK(n, toolRuns, rec')
    BY <1>2, <2>1
  <2>4. ver' \in Nat /\ (ver' > ver \/ (ver' = ver /\ n = op))
    BY <1>1, <2>1
  <2> HIDE DEF n, r
  <2>5. RecTyped(r, rclaim)
    BY <1>1, <2>2 DEF RecTyped
  <2> QED
    BY <1>2, <2>1, <2>2, <2>3, <2>4, <2>5, CommitKeeps
<1>3. CASE ~(HoldsRecovery(w) /\ n # Rejected)
  <2>1. rec' = RGoto(w, "release") /\ UNCHANGED <<svars, rclaim, toolRuns>>
    BY <1>3 DEF Commit, svars
  <2> QED
    BY <2>1, RGotoMoves
<1> QED
  BY <1>2, <1>3

\* The worker does not go on to run a tool, and the tool does not go back.
LEMMA ToolAfter ==
  ASSUME RInv, NEW w \in Workers, NEW n, NEW r, r.pc # "tool",
         op.tool.phase = "none" \/ n.tool.safe = op.tool.safe,
         n.tool.phase \in {"none", "intent_recorded"} => op.tool.phase \in {"none", "intent_recorded"}
  PROVE  ToolOK(n, toolRuns, [rec EXCEPT ![w] = r])
<1>1. toolRuns \in Nat /\ rec \in [Workers -> RecStates] /\ ToolOK(op, toolRuns, rec)
  BY DEF RInv
<1>2. ToolOK(n, toolRuns, rec)
  BY <1>1, ToolLater
<1> QED
  BY <1>1, <1>2, ToolMoves

\* An event a batch holds only sometimes.
LEMMA OptionalEvent ==
  ASSUME NEW b \in BOOLEAN, NEW S, NEW e \in S, NEW t, t = IF b THEN <<e>> ELSE << >>, NEW o
  PROVE  /\ t \in Seq(S) /\ Len(t) = IF b THEN 1 ELSE 0
         /\ ReplayWithSpecs(o, t) = IF b THEN Reduce(o, e) ELSE o
<1>1. CASE b
  <2>1. t = <<e>>
    BY <1>1
  <2> QED
    BY <1>1, <2>1, SingleReplay
<1>2. CASE ~b
  <2>1. t = << >>
    BY <1>2
  <2> QED
    BY <1>2, <2>1, EmptyReplay
<1> QED
  BY <1>1, <1>2

LEMMA WorkerAt ==
  ASSUME RInv, NEW w \in Workers, NEW pc
  PROVE  LET r == [rec[w] EXCEPT !.pc = pc] IN r.pc = pc /\ r.kind = rec[w].kind /\ r.result = rec[w].result
  BY DEF RInv, RecStates

LEMMA RequestKeeps ==
  ASSUME RInv, NEW w \in Workers, Act(w), rec[w].kind \in {"retry_model_request", "continue_model"}
  PROVE  RInv'
<1> DEFINE kind == rec[w].kind
           specs == RequestSpecs(kind)
           f == Event("model_request_failed")
           s == Event("model_request_started")
           o == IF kind = "retry_model_request" THEN Reduce(op, f) ELSE op
           n == ReplayWithSpecs(op, specs)
           r == [rec[w] EXCEPT !.pc = "model"]
<1>1. rec[w].pc = "act" /\ Commit(w, specs, RGoto(w, "model"))
  BY DEF Act, FirstSpecs, AfterFirst
<1>2. op \in Operations /\ LogOK(op) /\ FlightOK(op, effect) /\ (HoldsRecovery(w) => RecOK(rec[w], op))
  BY DEF RInv
<1>3. f.type = "model_request_failed" /\ s.type = "model_request_started"
  BY DEF Event
<1> HIDE DEF f, s
<1>4. n = Reduce(o, s) /\ Len(specs) \in Nat /\ Len(specs) > 0
  <2> DEFINE S == {f, s}
             b == kind = "retry_model_request"
             first == IF b THEN <<f>> ELSE << >>
             second == <<s>>
  <2>1. specs = first \o second
    BY DEF RequestSpecs, f, s
  <2>2. b \in BOOLEAN /\ f \in S /\ s \in S /\ o = IF b THEN Reduce(op, f) ELSE op
    OBVIOUS
  <2> HIDE DEF S, specs, o, b
  <2>3. /\ first \in Seq(S) /\ Len(first) = IF b THEN 1 ELSE 0
        /\ ReplayWithSpecs(op, first) = o
    BY <2>2, OptionalEvent
  <2>4. second \in Seq(S) /\ Len(second) = 1 /\ ReplayWithSpecs(o, second) = Reduce(o, s)
    BY <2>2, SingleReplay
  <2> HIDE DEF first, second
  <2>5. first \in Seq(S) /\ second \in Seq(S)
    BY <2>3, <2>4
  <2>6. /\ ReplayWithSpecs(op, first \o second) = ReplayWithSpecs(ReplayWithSpecs(op, first), second)
        /\ Len(first \o second) = Len(first) + Len(second)
    BY <2>5, ReplayConcat
  <2> QED
    BY <2>1, <2>2, <2>3, <2>4, <2>5, <2>6
<1> HIDE DEF specs, o, n
<1>5. ASSUME HoldsRecovery(w), n # Rejected
      PROVE  /\ n \in Operations /\ LogOK(n) /\ FlightOK(n, effect) /\ RecOK(r, n)
             /\ ToolOK(n, toolRuns, [rec EXCEPT ![w] = r])
  <2>1. o # Rejected
    BY <1>4, <1>5, RejectedStays
  <2>2. /\ o \in Operations /\ o.requests = 0 /\ o.transcript \in {"user", "answered"}
        /\ o.phase = op.phase /\ o.tool = op.tool /\ o.write = op.write
    <3>1. CASE kind = "retry_model_request"
      <4>1. o = Reduce(op, f) /\ f.type \in MessageEvents
        BY <1>3, <3>1 DEF o, MessageEvents
      <4>2. /\ o \in Operations /\ o.phase = op.phase /\ o.tool = op.tool /\ o.write = op.write
            /\ o.requests = op.requests - 1 /\ o.transcript = op.transcript
        BY <1>2, <1>3, <2>1, <4>1, MessageFacts
      <4>3. op.requests = 1
        BY <1>1, <1>2, <1>5, <3>1 DEF RecOK
      <4> QED
        BY <1>2, <4>2, <4>3 DEF LogOK
    <3>2. CASE kind # "retry_model_request"
      BY <1>1, <1>2, <1>5, <3>2 DEF RecOK, o
    <3> QED
      BY <3>1, <3>2
  <2>3. s.type \in MessageEvents
    BY <1>3 DEF MessageEvents
  <2>4. /\ n \in Operations /\ n.phase = op.phase /\ n.tool = op.tool /\ n.write = op.write
        /\ n.requests = 1 /\ n.transcript \in {"user", "answered"} /\ op.phase \in Going
    BY <1>3, <1>4, <1>5, <2>2, <2>3, MessageFacts
  <2>5. LogOK(n) /\ FlightOK(n, effect)
    BY <1>2, <2>4 DEF LogOK, FlightOK, Going, Terminal
  <2>6. r.pc = "model" /\ r.kind = kind
    BY WorkerAt
  <2> HIDE DEF r
  <2>7. RecOK(r, n)
    BY <2>4, <2>6 DEF RecOK
  <2>8. ToolOK(n, toolRuns, [rec EXCEPT ![w] = r])
    BY <2>4, <2>6, ToolAfter
  <2> QED
    BY <2>4, <2>5, <2>7, <2>8
<1> QED
  BY <1>1, <1>4, <1>5, CommitCases DEF n

\* A batch of one event.
LEMMA SingleCommit ==
  ASSUME RInv, NEW w \in Workers, rec[w].pc # "idle", NEW e,
         NEW pc \in {"plan", "release", "model", "tool", "check"},
         Commit(w, <<e>>, RGoto(w, pc)),
         NEW n, n = Reduce(op, e),
         HoldsRecovery(w) /\ n # Rejected =>
            /\ n \in Operations /\ LogOK(n) /\ FlightOK(n, effect)
            /\ RecOK([rec[w] EXCEPT !.pc = pc], n)
            /\ ToolOK(n, toolRuns, [rec EXCEPT ![w] = [rec[w] EXCEPT !.pc = pc]])
  PROVE  RInv'
<1> DEFINE specs == <<e>>
<1>1. Len(specs) \in Nat /\ Len(specs) > 0 /\ ReplayWithSpecs(op, specs) = n
  BY SingleReplay
<1>2. Commit(w, specs, RGoto(w, pc))
  OBVIOUS
<1> HIDE DEF specs
<1> QED
  BY <1>1, <1>2, CommitCases

LEMMA DispatchKeeps ==
  ASSUME RInv, NEW w \in Workers, Act(w), rec[w].kind \in {"execute_tool", "replay_safe_tool"}
  PROVE  RInv'
<1> DEFINE e == Event("tool_dispatch_started")
           n == Reduce(op, e)
           r == [rec[w] EXCEPT !.pc = "tool"]
<1>1. rec[w].pc = "act" /\ Commit(w, <<e>>, RGoto(w, "tool"))
  BY DEF Act, FirstSpecs, AfterFirst
<1>2. /\ op \in Operations /\ LogOK(op) /\ FlightOK(op, effect)
      /\ HoldsRecovery(w) => RecOK(rec[w], op)
      /\ toolRuns \in Nat /\ rec \in [Workers -> RecStates] /\ ToolOK(op, toolRuns, rec)
  BY DEF RInv
<1>3. e.type = "tool_dispatch_started" /\ e.type \in ToolEvents /\ e.type \notin ResultEvents
  BY DEF Event, ToolEvents, ResultEvents
<1> HIDE DEF e
<1>4. ASSUME HoldsRecovery(w), n # Rejected
      PROVE  /\ n \in Operations /\ LogOK(n) /\ FlightOK(n, effect) /\ RecOK(r, n)
             /\ ToolOK(n, toolRuns, [rec EXCEPT ![w] = r])
  <2>1. /\ n \in Operations /\ op.phase \in Going /\ n.phase = op.phase
        /\ n.requests = op.requests /\ n.transcript = op.transcript
        /\ n.write = op.write /\ n.tool.phase = "dispatch_started"
        /\ n.tool.safe = op.tool.safe
    BY <1>2, <1>3, <1>4, ToolFacts
  <2>2. r.pc = "tool" /\ r.kind = rec[w].kind
    BY WorkerAt
  <2>3. /\ op.transcript = "call" /\ op.write.state # "waiting_approval"
        /\ rec[w].kind = "execute_tool" => op.tool.phase = "intent_recorded"
        /\ rec[w].kind = "replay_safe_tool" => op.tool.safe
    BY <1>1, <1>2, <1>4 DEF RecOK, ToolKinds
  <2> HIDE DEF n, r
  <2>4. LogOK(n) /\ FlightOK(n, effect)
    BY <1>2, <2>1 DEF LogOK, FlightOK, Going, Terminal
  <2>5. RecOK(r, n)
    BY <2>1, <2>2, <2>3 DEF RecOK
  <2> DEFINE s == [rec EXCEPT ![w] = r]
  <2>6. \A v \in Workers : s[v] = IF v = w THEN r ELSE rec[v]
    BY <1>2
  <2> HIDE DEF s
  <2>7. ToolOK(n, toolRuns, s)
    <3>1. CASE op.tool.safe
      BY <2>1, <3>1 DEF ToolOK
    <3>2. CASE ~op.tool.safe
      <4>1. op.tool.phase = "intent_recorded"
        BY <2>3, <3>2
      <4>2. toolRuns = 0 /\ \A v \in Workers : rec[v].pc # "tool"
        BY <1>2, <4>1 DEF ToolOK
      <4> QED
        BY <2>1, <2>6, <4>2 DEF ToolOK
    <3> QED
      BY <3>1, <3>2
  <2> QED
    BY <2>1, <2>4, <2>5, <2>7 DEF s
<1> HIDE DEF n
<1>5. n = Reduce(op, e)
  BY DEF n
<1> QED
  BY <1>1, <1>4, <1>5, SingleCommit

LEMMA ReconcileToolKeeps ==
  ASSUME RInv, NEW w \in Workers, Act(w), rec[w].kind = "reconcile_tool"
  PROVE  RInv'
<1> DEFINE e == FencedEvent("tool_reconcile_started", rec[w].gen)
           n == Reduce(op, e)
           r == [rec[w] EXCEPT !.pc = "check"]
<1>1. rec[w].pc = "act" /\ Commit(w, <<e>>, RGoto(w, "check"))
  BY DEF Act, FirstSpecs, AfterFirst
<1>2. /\ op \in Operations /\ LogOK(op) /\ FlightOK(op, effect)
      /\ HoldsRecovery(w) => RecOK(rec[w], op)
      /\ rec[w].gen \in Nat
  BY DEF RInv, RecStates
<1>3. /\ e.type = "tool_reconcile_started" /\ e.type \in ToolEvents /\ e.type \notin ResultEvents
      /\ e.token \in Nat
  BY <1>2 DEF FencedEvent, ToolEvents, ResultEvents
<1> HIDE DEF e
<1>4. ASSUME HoldsRecovery(w), n # Rejected
      PROVE  /\ n \in Operations /\ LogOK(n) /\ FlightOK(n, effect) /\ RecOK(r, n)
             /\ ToolOK(n, toolRuns, [rec EXCEPT ![w] = r])
  <2>1. /\ n \in Operations /\ op.phase \in Going /\ n.phase = op.phase
        /\ n.requests = op.requests /\ n.transcript = op.transcript
        /\ n.write = op.write /\ n.tool.phase = "outcome_unknown"
        /\ n.tool.safe = op.tool.safe
    BY <1>2, <1>3, <1>4, ToolFacts
  <2>2. r.pc = "check" /\ r.kind = rec[w].kind
    BY WorkerAt
  <2>3. op.transcript = "call" /\ op.write.state # "waiting_approval"
    BY <1>1, <1>2, <1>4 DEF RecOK, ToolKinds
  <2> HIDE DEF n, r
  <2>4. LogOK(n) /\ FlightOK(n, effect)
    BY <1>2, <2>1 DEF LogOK, FlightOK, Going, Terminal
  <2>5. RecOK(r, n)
    BY <2>1, <2>2, <2>3 DEF RecOK
  <2>6. ToolOK(n, toolRuns, [rec EXCEPT ![w] = r])
    BY <2>1, <2>2, ToolAfter
  <2> QED
    BY <2>1, <2>4, <2>5, <2>6
<1> HIDE DEF n
<1>5. n = Reduce(op, e)
  BY DEF n
<1> QED
  BY <1>1, <1>4, <1>5, SingleCommit

LEMMA MaterializeKeeps ==
  ASSUME RInv, NEW w \in Workers, Act(w), rec[w].kind = "materialize_tool_result"
  PROVE  RInv'
<1> DEFINE e == ResultMessage
           n == Reduce(op, e)
           r == [rec[w] EXCEPT !.pc = "plan"]
<1>1. rec[w].pc = "act" /\ Commit(w, <<e>>, RGoto(w, "plan"))
  BY DEF Act, FirstSpecs, AfterFirst
<1>2. /\ op \in Operations /\ LogOK(op) /\ FlightOK(op, effect)
      /\ HoldsRecovery(w) => RecOK(rec[w], op)
  BY DEF RInv
<1>3. e.type = "message_appended" /\ e.type \in MessageEvents /\ e.message = "toolResult"
  BY DEF ResultMessage, MessageEvent, MessageEvents
<1> HIDE DEF e
<1>4. ASSUME HoldsRecovery(w), n # Rejected
      PROVE  /\ n \in Operations /\ LogOK(n) /\ FlightOK(n, effect) /\ RecOK(r, n)
             /\ ToolOK(n, toolRuns, [rec EXCEPT ![w] = r])
  <2>1. /\ n \in Operations /\ op.phase \in Going /\ n.phase = op.phase
        /\ n.requests = op.requests /\ n.transcript = TranscriptAfter(op.transcript, e.message)
        /\ n.write = op.write /\ n.tool = op.tool
    BY <1>2, <1>3, <1>4, MessageFacts
  <2>2. r.pc = "plan"
    BY WorkerAt
  <2>3. n.transcript = "answered"
    BY <1>1, <1>2, <1>3, <1>4, <2>1 DEF RecOK, ToolKinds, TranscriptAfter
  <2> HIDE DEF n, r
  <2>4. LogOK(n) /\ FlightOK(n, effect)
    BY <1>2, <2>1, <2>3 DEF LogOK, FlightOK, Going, Terminal
  <2>5. RecOK(r, n)
    BY <2>2, RecOKPlan
  <2>6. ToolOK(n, toolRuns, [rec EXCEPT ![w] = r])
    BY <2>1, <2>2, ToolAfter
  <2> QED
    BY <2>1, <2>4, <2>5, <2>6
<1> HIDE DEF n
<1>5. n = Reduce(op, e)
  BY DEF n
<1> QED
  BY <1>1, <1>4, <1>5, SingleCommit

LEMMA FinishKeeps ==
  ASSUME RInv, NEW w \in Workers, Act(w), rec[w].kind = "finish_operation"
  PROVE  RInv'
<1> DEFINE e == OperationFinished("completed")
           n == Reduce(op, e)
           r == [rec[w] EXCEPT !.pc = "plan"]
<1>1. rec[w].pc = "act" /\ Commit(w, <<e>>, RGoto(w, "plan"))
  BY DEF Act, FirstSpecs, AfterFirst
<1>2. /\ op \in Operations /\ LogOK(op) /\ FlightOK(op, effect)
      /\ HoldsRecovery(w) => RecOK(rec[w], op)
  BY DEF RInv
<1>3. e.type = "operation_finished" /\ e.outcome = "completed" /\ e.outcome \in Terminal
  BY DEF OperationFinished, Terminal
<1> HIDE DEF e
<1>4. ASSUME HoldsRecovery(w), n # Rejected
      PROVE  /\ n \in Operations /\ LogOK(n) /\ FlightOK(n, effect) /\ RecOK(r, n)
             /\ ToolOK(n, toolRuns, [rec EXCEPT ![w] = r])
  <2>1. /\ n \in Operations /\ op.phase \in Going /\ n.phase = "completed"
        /\ n.requests = op.requests /\ n.transcript = op.transcript
        /\ n.write = op.write /\ n.tool = op.tool
        /\ op.tool.phase \in {"none", "completed"}
        /\ op.write.state \in {"none", "succeeded", "failed"}
    BY <1>2, <1>3, <1>4, FinishFacts
  <2>2. r.pc = "plan"
    BY WorkerAt
  <2>3. op.transcript = "final"
    BY <1>1, <1>2, <1>4 DEF RecOK
  <2> HIDE DEF n, r
  <2>4. LogOK(n) /\ FlightOK(n, effect)
    BY <1>2, <2>1, <2>3 DEF LogOK, FlightOK
  <2>5. RecOK(r, n)
    BY <2>2, RecOKPlan
  <2>6. ToolOK(n, toolRuns, [rec EXCEPT ![w] = r])
    BY <2>1, <2>2, ToolAfter
  <2> QED
    BY <2>1, <2>4, <2>5, <2>6
<1> HIDE DEF n
<1>5. n = Reduce(op, e)
  BY DEF n
<1> QED
  BY <1>1, <1>4, <1>5, SingleCommit

LEMMA StoreAnswerKeeps ==
  ASSUME RInv, NEW w \in Workers, StoreAnswer(w)
  PROVE  RInv'
<1> DEFINE failed == rec[w].result = "failed"
           e == IF failed THEN Event("model_request_failed")
                ELSE MessageEvent("model_request_completed", rec[w].result)
           pc == IF failed THEN "release" ELSE "plan"
           n == Reduce(op, e)
           r == [rec[w] EXCEPT !.pc = pc]
<1>1. rec[w].pc = "answered" /\ Commit(w, <<e>>, RGoto(w, pc))
  BY DEF StoreAnswer
<1>2. /\ op \in Operations /\ LogOK(op) /\ FlightOK(op, effect)
      /\ HoldsRecovery(w) => RecOK(rec[w], op)
      /\ rec[w].result \in {"final", "failed", "call"}
  BY <1>1 DEF RInv, RecTyped
<1>3. /\ e.type \in MessageEvents /\ pc \in {"release", "plan"}
      /\ failed => e.type = "model_request_failed"
      /\ ~failed => e.type = "model_request_completed" /\ e.message = rec[w].result
  BY DEF Event, MessageEvent, MessageEvents
<1> HIDE DEF e, pc
<1>4. ASSUME HoldsRecovery(w), n # Rejected
      PROVE  /\ n \in Operations /\ LogOK(n) /\ FlightOK(n, effect) /\ RecOK(r, n)
             /\ ToolOK(n, toolRuns, [rec EXCEPT ![w] = r])
  <2>1. e.type \in {"message_appended", "model_request_completed"} =>
            e.message \in {"toolResult", "call", "final"}
    BY <1>2, <1>3
  <2>2. /\ n \in Operations /\ op.phase \in Going /\ n.phase = op.phase
        /\ n.requests = op.requests - 1
        /\ n.transcript = IF failed THEN op.transcript
                          ELSE TranscriptAfter(op.transcript, rec[w].result)
        /\ n.write = op.write /\ n.tool = op.tool
    BY <1>2, <1>3, <1>4, <2>1, MessageFacts
  <2>3. op.requests = 1 /\ (rec[w].result = "call" => op.transcript = "user")
    BY <1>1, <1>2, <1>4 DEF RecOK
  <2>4. n.requests = 0 /\ n.transcript # "broken"
    BY <1>2, <2>2, <2>3 DEF TranscriptAfter, LogOK
  <2>5. r.pc = pc
    BY WorkerAt
  <2> HIDE DEF n, r
  <2>6. LogOK(n) /\ FlightOK(n, effect)
    BY <1>2, <2>2, <2>4 DEF LogOK, FlightOK, Going, Terminal
  <2>7. RecOK(r, n)
    BY <1>3, <2>5, RecOKPlan
  <2>8. ToolOK(n, toolRuns, [rec EXCEPT ![w] = r])
    BY <1>3, <2>2, <2>5, ToolAfter
  <2> QED
    BY <2>2, <2>6, <2>7, <2>8
<1> HIDE DEF n
<1>5. n = Reduce(op, e)
  BY DEF n
<1> QED
  BY <1>1, <1>3, <1>4, <1>5, SingleCommit

LEMMA StoreResultKeeps ==
  ASSUME RInv, NEW w \in Workers, StoreResult(w)
  PROVE  RInv'
<1> DEFINE type == IF rec[w].kind = "reconcile_tool" THEN "tool_reconciled" ELSE "tool_completed"
           e == ToolResultEvent(type, rec[w].result, rec[w].gen)
           m == ResultMessage
           specs == <<e, m>>
           o == Reduce(op, e)
           n == Reduce(o, m)
           r == [rec[w] EXCEPT !.pc = "plan"]
<1>1. rec[w].pc = "store" /\ Commit(w, specs, RGoto(w, "plan"))
  BY DEF StoreResult
<1>2. /\ op \in Operations /\ LogOK(op) /\ FlightOK(op, effect)
      /\ HoldsRecovery(w) => RecOK(rec[w], op)
      /\ rec[w].result \in Results
  BY <1>1 DEF RInv, RecTyped
<1>3. /\ e.type \in {"tool_reconciled", "tool_completed"} /\ e.type \in ToolEvents
      /\ e.type \in ResultEvents /\ e.result = rec[w].result /\ e.result \in ToolResults
  BY <1>2 DEF ToolResultEvent, ToolEvents, ResultEvents, Results, ToolResults
<1>4. m.type = "message_appended" /\ m.type \in MessageEvents /\ m.message = "toolResult"
  BY DEF ResultMessage, MessageEvent, MessageEvents
<1>5. ReplayWithSpecs(op, specs) = n /\ Len(specs) = 2
  BY ReplayTwo
<1> HIDE DEF e, m, specs
<1>6. ASSUME HoldsRecovery(w), n # Rejected
      PROVE  /\ n \in Operations /\ LogOK(n) /\ FlightOK(n, effect) /\ RecOK(r, n)
             /\ ToolOK(n, toolRuns, [rec EXCEPT ![w] = r])
  <2>1. o # Rejected
    BY <1>6, RejectedStays
  <2>2. /\ o \in Operations /\ op.phase \in Going /\ o.phase = op.phase
        /\ o.requests = op.requests /\ o.transcript = op.transcript
        /\ o.write = op.write /\ o.tool.phase = "completed" /\ o.tool.safe = op.tool.safe
        /\ o.tool.result = e.result /\ ResultAgreesWithWrite(op, e)
    BY <1>2, <1>3, <2>1, ToolFacts
  <2> HIDE DEF o
  <2>3. /\ n \in Operations /\ n.phase = o.phase /\ n.requests = o.requests
        /\ n.transcript = TranscriptAfter(o.transcript, m.message)
        /\ n.write = o.write /\ n.tool = o.tool
    BY <1>4, <1>6, <2>2, MessageFacts
  <2>4. r.pc = "plan"
    BY WorkerAt
  <2>5. n.transcript = "answered" /\ op.write.state # "waiting_approval"
    BY <1>1, <1>2, <1>4, <1>6, <2>2, <2>3 DEF RecOK, TranscriptAfter
  <2> HIDE DEF n, r
  <2>6. LogOK(n)
    BY <1>2, <2>2, <2>3, <2>5 DEF LogOK, Going, Terminal, ResultAgreesWithWrite
  <2>7. FlightOK(n, effect)
    BY <1>2, <2>2, <2>3 DEF FlightOK
  <2>8. RecOK(r, n)
    BY <2>4, RecOKPlan
  <2>9. ToolOK(n, toolRuns, [rec EXCEPT ![w] = r])
    BY <2>2, <2>3, <2>4, ToolAfter
  <2> QED
    BY <2>3, <2>6, <2>7, <2>8, <2>9
<1> HIDE DEF n
<1>7. Len(specs) \in Nat /\ Len(specs) > 0
  BY <1>5
<1> QED
  BY <1>1, <1>5, <1>6, <1>7, CommitCases

\* An event that a batch s is continued with only sometimes.
LEMMA StageReplay ==
  ASSUME NEW S, NEW s \in Seq(S), NEW e \in S, NEW b \in BOOLEAN, NEW o
  PROVE  /\ s \o (IF b THEN <<e>> ELSE << >>) \in Seq(S)
         /\ Len(s \o (IF b THEN <<e>> ELSE << >>)) = Len(s) + (IF b THEN 1 ELSE 0)
         /\ ReplayWithSpecs(o, s \o (IF b THEN <<e>> ELSE << >>)) =
               IF b THEN Reduce(ReplayWithSpecs(o, s), e) ELSE ReplayWithSpecs(o, s)
<1> DEFINE r == IF b THEN <<e>> ELSE << >>
           p == ReplayWithSpecs(o, s)
<1>1. r \in Seq(S) /\ Len(r) = IF b THEN 1 ELSE 0
  OBVIOUS
<1>2. ReplayWithSpecs(p, r) = IF b THEN Reduce(p, e) ELSE p
  BY OptionalEvent
<1> HIDE DEF r
<1>3. r \in Seq(S)
  BY <1>1
<1>4. s \o r \in Seq(S) /\ Len(s \o r) = Len(s) + Len(r)
  BY <1>3
<1>5. ReplayWithSpecs(o, s \o r) = ReplayWithSpecs(p, r)
  BY <1>3, ReplayConcat
<1> QED
  BY <1>1, <1>2, <1>4, <1>5 DEF r

\* The five stages of _finalize_rejected_approval, one after another.
Stage(b, o, e) == IF b THEN Reduce(o, e) ELSE o
Closing1(o) == Stage(o.tool.phase = "none", o, ToolIntent(FALSE))
Closing2(o) == Stage(o.tool.phase # "completed", Closing1(o),
                     ToolResultEvent("tool_completed", "error", 0))
Closing3(o) == Stage(o.transcript = "call", Closing2(o), ResultMessage)
Closing4(o) == Stage(o.approval.state \in {"rejected", "expired"}, Closing3(o),
                     Event("approval_resume_cancelled"))
Closing5(o) == Stage(o.write.state = "waiting_approval", Closing4(o), WriteFailed(TRUE, 0))

LEMMA FinalizeReplay ==
  ASSUME NEW o
  PROVE  /\ ReplayWithSpecs(o, FinalizeSpecs(o)) = Closing5(o)
         /\ Len(FinalizeSpecs(o)) \in Nat
         /\ Len(FinalizeSpecs(o)) > 0 \/ Closing5(o) = o
<1> DEFINE e1 == ToolIntent(FALSE)
           e2 == ToolResultEvent("tool_completed", "error", 0)
           e3 == ResultMessage
           e4 == Event("approval_resume_cancelled")
           e5 == WriteFailed(TRUE, 0)
           S == {e1, e2, e3, e4, e5}
           b1 == o.tool.phase = "none"
           b2 == o.tool.phase # "completed"
           b3 == o.transcript = "call"
           b4 == o.approval.state \in {"rejected", "expired"}
           b5 == o.write.state = "waiting_approval"
           s1 == IF b1 THEN <<e1>> ELSE << >>
           s2 == s1 \o (IF b2 THEN <<e2>> ELSE << >>)
           s3 == s2 \o (IF b3 THEN <<e3>> ELSE << >>)
           s4 == s3 \o (IF b4 THEN <<e4>> ELSE << >>)
           s5 == s4 \o (IF b5 THEN <<e5>> ELSE << >>)
<1>1. /\ b1 \in BOOLEAN /\ b2 \in BOOLEAN /\ b3 \in BOOLEAN /\ b4 \in BOOLEAN /\ b5 \in BOOLEAN
      /\ e1 \in S /\ e2 \in S /\ e3 \in S /\ e4 \in S /\ e5 \in S
  OBVIOUS
<1>2. FinalizeSpecs(o) = s5
  BY DEF FinalizeSpecs
<1>3. /\ Closing1(o) = Stage(b1, o, e1) /\ Closing2(o) = Stage(b2, Closing1(o), e2)
      /\ Closing3(o) = Stage(b3, Closing2(o), e3) /\ Closing4(o) = Stage(b4, Closing3(o), e4)
      /\ Closing5(o) = Stage(b5, Closing4(o), e5)
  BY DEF Closing1, Closing2, Closing3, Closing4, Closing5
<1> HIDE DEF S, b1, b2, b3, b4, b5, e1, e2, e3, e4, e5
<1>4. /\ s1 \in Seq(S) /\ Len(s1) = (IF b1 THEN 1 ELSE 0)
      /\ ReplayWithSpecs(o, s1) = Stage(b1, o, e1)
  BY <1>1, OptionalEvent DEF Stage
<1> HIDE DEF s1
<1>5. /\ s2 \in Seq(S) /\ Len(s2) = Len(s1) + (IF b2 THEN 1 ELSE 0)
      /\ ReplayWithSpecs(o, s2) = Stage(b2, ReplayWithSpecs(o, s1), e2)
  <2>1. s1 \in Seq(S) /\ e2 \in S /\ b2 \in BOOLEAN
    BY <1>1, <1>4
  <2> QED
    BY <2>1, StageReplay DEF Stage
<1> HIDE DEF s2
<1>6. /\ s3 \in Seq(S) /\ Len(s3) = Len(s2) + (IF b3 THEN 1 ELSE 0)
      /\ ReplayWithSpecs(o, s3) = Stage(b3, ReplayWithSpecs(o, s2), e3)
  <2>1. s2 \in Seq(S) /\ e3 \in S /\ b3 \in BOOLEAN
    BY <1>1, <1>5
  <2> QED
    BY <2>1, StageReplay DEF Stage
<1> HIDE DEF s3
<1>7. /\ s4 \in Seq(S) /\ Len(s4) = Len(s3) + (IF b4 THEN 1 ELSE 0)
      /\ ReplayWithSpecs(o, s4) = Stage(b4, ReplayWithSpecs(o, s3), e4)
  <2>1. s3 \in Seq(S) /\ e4 \in S /\ b4 \in BOOLEAN
    BY <1>1, <1>6
  <2> QED
    BY <2>1, StageReplay DEF Stage
<1> HIDE DEF s4
<1>8. /\ s5 \in Seq(S) /\ Len(s5) = Len(s4) + (IF b5 THEN 1 ELSE 0)
      /\ ReplayWithSpecs(o, s5) = Stage(b5, ReplayWithSpecs(o, s4), e5)
  <2>1. s4 \in Seq(S) /\ e5 \in S /\ b5 \in BOOLEAN
    BY <1>1, <1>7
  <2> QED
    BY <2>1, StageReplay DEF Stage
<1> HIDE DEF s5
<1>9. ReplayWithSpecs(o, s5) = Closing5(o)
  BY <1>3, <1>4, <1>5, <1>6, <1>7, <1>8
<1>10. Len(s5) \in Nat /\ (b1 \/ b2 \/ b3 \/ b4 \/ b5 => Len(s5) > 0)
  BY <1>4, <1>5, <1>6, <1>7, <1>8
<1>11. b1 \/ b2 \/ b3 \/ b4 \/ b5 \/ Closing5(o) = o
  BY <1>3 DEF Stage
<1> QED
  BY <1>2, <1>9, <1>10, <1>11

\* What the closed chain is: the tool has its error result, the call its
\* answer, and the Write that waited has failed.
LEMMA FinalizeFacts ==
  ASSUME NEW o \in Operations, LogOK(o), NEW n, n = ReplayWithSpecs(o, FinalizeSpecs(o)), n # Rejected
  PROVE  /\ n \in Operations /\ LogOK(n)
         /\ o.tool.phase = "none" \/ n.tool.safe = o.tool.safe
         /\ n.tool.phase = "completed"
         /\ n.write.state \in {o.write.state, "failed"}
         /\ n.write.state = o.write.state \/ o.write.state = "waiting_approval"
<1> DEFINE e1 == ToolIntent(FALSE)
           e2 == ToolResultEvent("tool_completed", "error", 0)
           e3 == ResultMessage
           e4 == Event("approval_resume_cancelled")
           e5 == WriteFailed(TRUE, 0)
           o1 == Closing1(o)
           o2 == Closing2(o)
           o3 == Closing3(o)
           o4 == Closing4(o)
           o5 == Closing5(o)
<1>1. /\ e1.type = "tool_intent_recorded" /\ e1.type \in ToolEvents /\ e1.safe \in BOOLEAN
      /\ e1.type \notin ResultEvents
      /\ e2.type = "tool_completed" /\ e2.type \in ToolEvents /\ e2.result = "error"
      /\ e2.result \in ToolResults /\ e2.type \in ResultEvents
      /\ e3.type = "message_appended" /\ e3.type \in MessageEvents /\ e3.message = "toolResult"
      /\ e4.type = "approval_resume_cancelled" /\ e4.type \in ApprovalEvents
      /\ e5.type = "write_failed" /\ e5.type \in WriteEvents /\ e5.type \notin Entries
  BY DEF ToolIntent, ToolResultEvent, ResultMessage, MessageEvent, Event, WriteFailed, ToolEvents,
         MessageEvents, ApprovalEvents, WriteEvents, ResultEvents, ToolResults, Entries
<1>2. n = o5
  BY FinalizeReplay
<1> HIDE DEF e1, e2, e3, e4, e5
<1> HIDE DEF o1, o2, o3, o4, o5
<1>0. /\ o1 = IF o.tool.phase = "none" THEN Reduce(o, e1) ELSE o
      /\ o2 = IF o.tool.phase # "completed" THEN Reduce(o1, e2) ELSE o1
      /\ o3 = IF o.transcript = "call" THEN Reduce(o2, e3) ELSE o2
      /\ o4 = IF o.approval.state \in {"rejected", "expired"} THEN Reduce(o3, e4) ELSE o3
      /\ o5 = IF o.write.state = "waiting_approval" THEN Reduce(o4, e5) ELSE o4
  BY DEF Closing1, Closing2, Closing3, Closing4, Closing5, Stage, o1, o2, o3, o4, o5,
         e1, e2, e3, e4, e5
<1>3. o5 # Rejected /\ o4 # Rejected /\ o3 # Rejected /\ o2 # Rejected /\ o1 # Rejected
  BY <1>0, <1>2, RejectedStays
<1> DEFINE Kept(m) == m \in Operations /\ m.requests = o.requests /\ m.write = o.write
           Open == o.phase \in Going
<1>4. /\ Kept(o1) /\ o1.approval = o.approval /\ o1.phase = o.phase /\ o1.transcript = o.transcript
      /\ o.tool.phase = "none" => Open /\ o1.tool.phase = "intent_recorded"
      /\ o.tool.phase # "none" => o1.tool = o.tool
  <2>1. CASE o.tool.phase = "none"
    <3>1. o1 = Reduce(o, e1)
      BY <1>0, <2>1
    <3>2. /\ o1 \in Operations /\ o.phase \in Going
          /\ o1.phase = o.phase /\ o1.requests = o.requests
          /\ o1.transcript = o.transcript
          /\ o1.approval = o.approval /\ o1.write = o.write
          /\ o1.tool.phase = "intent_recorded"
      BY <1>1, <1>3, <3>1, ToolFacts
    <3> QED
      BY <2>1, <3>2
  <2>2. CASE o.tool.phase # "none"
    BY <1>0, <2>2
  <2> QED
    BY <2>1, <2>2
<1>5. /\ Kept(o2) /\ o2.approval = o.approval /\ o2.phase = o.phase /\ o2.transcript = o.transcript
      /\ o2.tool.phase = "completed" /\ (o.tool.phase = "none" \/ o2.tool.safe = o.tool.safe)
      /\ o.tool.phase # "completed" =>
            Open /\ o2.tool.result = "error" /\ ResultAgreesWithWrite(o1, e2)
      /\ o.tool.phase = "completed" => o2.tool = o.tool
  <2>1. CASE o.tool.phase # "completed"
    <3>1. o2 = Reduce(o1, e2)
      BY <1>0, <2>1
    <3>2. /\ o2 \in Operations /\ o1.phase \in Going
          /\ o2.phase = o1.phase /\ o2.requests = o1.requests
          /\ o2.transcript = o1.transcript
          /\ o2.approval = o1.approval /\ o2.write = o1.write
          /\ o2.tool.safe = o1.tool.safe /\ o2.tool.phase = "completed"
          /\ o2.tool.result = "error" /\ ResultAgreesWithWrite(o1, e2)
      BY <1>1, <1>3, <1>4, <3>1, ToolFacts
    <3> QED
      BY <1>4, <2>1, <3>2
  <2>2. CASE o.tool.phase = "completed"
    BY <1>0, <1>4, <2>2
  <2> QED
    BY <2>1, <2>2
<1>6. /\ o2.tool.phase = "completed"
      /\ o.write.tool => /\ o.write.state \in {"succeeded", "failed"} =>
                                VerdictOf(o2.tool.result) = o.write.state
                         /\ o.write.state = "waiting_approval" => o2.tool.result = "error"
  <2>1. CASE o.tool.phase # "completed"
    BY <1>1, <1>4, <1>5, <2>1 DEF ResultAgreesWithWrite
  <2>2. CASE o.tool.phase = "completed"
    BY <1>5, <2>2 DEF LogOK
  <2> QED
    BY <2>1, <2>2
<1>7. /\ Kept(o3) /\ o3.approval = o.approval /\ o3.phase = o.phase /\ o3.tool = o2.tool
      /\ o.transcript = "call" => o3.transcript = "answered" /\ Open
      /\ o.transcript # "call" => o3.transcript = o.transcript
  <2>1. CASE o.transcript = "call"
    <3>1. o3 = Reduce(o2, e3)
      BY <1>0, <2>1
    <3>2. /\ o3 \in Operations /\ o2.phase \in Going /\ o3.phase = o2.phase /\ o3.tool = o2.tool
          /\ o3.approval = o2.approval /\ o3.write = o2.write /\ o3.requests = o2.requests
          /\ o3.transcript = TranscriptAfter(o2.transcript, "toolResult")
      BY <1>1, <1>3, <1>5, <3>1, MessageFacts
    <3> QED
      BY <1>5, <2>1, <3>2 DEF TranscriptAfter
  <2>2. CASE o.transcript # "call"
    BY <1>0, <1>5, <2>2
  <2> QED
    BY <2>1, <2>2
<1>8. /\ Kept(o4) /\ o4.tool = o2.tool /\ o4.transcript = o3.transcript
      /\ o4.phase = o.phase \/ (Open /\ o4.phase \in Going)
  <2>1. CASE o.approval.state \in {"rejected", "expired"}
    <3>1. o4 = Reduce(o3, e4)
      BY <1>0, <2>1
    <3>2. /\ o4 \in Operations /\ o3.phase \in Going /\ o4.phase \in Going /\ o4.tool = o3.tool
          /\ o4.write = o3.write /\ o4.requests = o3.requests /\ o4.transcript = o3.transcript
      BY <1>1, <1>3, <1>7, <3>1, ApprovalFacts
    <3> QED
      BY <1>7, <3>2
  <2>2. CASE o.approval.state \notin {"rejected", "expired"}
    BY <1>0, <1>7, <2>2
  <2> QED
    BY <2>1, <2>2
<1>9. /\ o5 \in Operations /\ o5.requests = o.requests /\ o5.tool = o2.tool
      /\ o5.transcript = o3.transcript /\ o5.write.tool = o.write.tool
      /\ o5.phase = o.phase \/ (Open /\ o5.phase \in Going)
      /\ IF o.write.state = "waiting_approval" THEN o5.write.state = "failed"
                                               ELSE o5.write.state = o.write.state
  <2>1. CASE o.write.state = "waiting_approval"
    <3>1. o5 = Reduce(o4, e5)
      BY <1>0, <2>1
    <3>2. e5.type # "write_prepared"
      BY <1>1
    <3>3. /\ o5 \in Operations /\ o4.phase \in Going /\ o5.phase \in Going /\ o5.tool = o4.tool
          /\ o5.write.tool = o4.write.tool /\ o5.requests = o4.requests
          /\ o5.transcript = o4.transcript /\ o5.write.state = "failed"
      BY <1>1, <1>3, <1>8, <3>1, <3>2, WriteFacts
    <3> QED
      BY <1>8, <2>1, <3>3
  <2>2. CASE o.write.state # "waiting_approval"
    BY <1>0, <1>8, <2>2
  <2> QED
    BY <2>1, <2>2
<1>10. LogOK(o5)
  <2>1. CASE o5.phase \in Going
    BY <1>6, <1>7, <1>9, <2>1 DEF LogOK, Going, Terminal, VerdictOf
  <2>2. CASE o5.phase \notin Going
    <3>1. o5.phase = o.phase /\ ~Open
      BY <1>9, <2>2
    <3>2. o.tool.phase = "completed" /\ o.transcript # "call"
      BY <1>5, <1>7, <3>1
    <3> QED
      BY <1>5, <1>6, <1>7, <1>9, <3>1, <3>2 DEF LogOK, VerdictOf
  <2> QED
    BY <2>1, <2>2
<1> QED
  BY <1>2, <1>5, <1>6, <1>9, <1>10

LEMMA FinalizeKeeps ==
  ASSUME RInv, NEW w \in Workers, Act(w), rec[w].kind = "finalize_rejected_approval"
  PROVE  RInv'
<1> DEFINE specs == FinalizeSpecs(op)
           n == ReplayWithSpecs(op, specs)
           r == [rec[w] EXCEPT !.pc = "plan"]
<1>1. rec[w].pc = "act" /\ Commit(w, specs, RGoto(w, "plan"))
  BY DEF Act, FirstSpecs, AfterFirst
<1>2. op \in Operations /\ LogOK(op) /\ FlightOK(op, effect)
  BY DEF RInv
<1>3. Len(specs) \in Nat /\ (Len(specs) > 0 \/ n = op)
  BY FinalizeReplay
<1>4. ASSUME n # Rejected
      PROVE  /\ n \in Operations /\ LogOK(n) /\ FlightOK(n, effect) /\ RecOK(r, n)
             /\ ToolOK(n, toolRuns, [rec EXCEPT ![w] = r])
  <2>1. /\ n \in Operations /\ LogOK(n)
        /\ op.tool.phase = "none" \/ n.tool.safe = op.tool.safe
        /\ n.tool.phase = "completed"
        /\ n.write.state \in {op.write.state, "failed"}
        /\ n.write.state = op.write.state \/ op.write.state = "waiting_approval"
    BY <1>2, <1>4, FinalizeFacts
  <2>2. r.pc = "plan"
    BY WorkerAt
  <2> HIDE DEF n, r
  <2>3. FlightOK(n, effect)
    BY <1>2, <2>1 DEF FlightOK, Uncertain
  <2>4. RecOK(r, n)
    BY <2>2, RecOKPlan
  <2>5. ToolOK(n, toolRuns, [rec EXCEPT ![w] = r])
    BY <2>1, <2>2, ToolAfter
  <2> QED
    BY <2>1, <2>3, <2>4, <2>5
<1> HIDE DEF specs
<1> QED
  BY <1>1, <1>3, <1>4, CommitCases

LEMMA ActKeeps ==
  ASSUME RInv, NEW w \in Workers, Act(w)
  PROVE  RInv'
<1>1. rec[w].kind \in Attended /\ rec[w].kind # "reconcile_write"
  BY DEF Act, RInv, RecTyped
<1>2. CASE rec[w].kind \in {"retry_model_request", "continue_model"}
  BY <1>2, RequestKeeps
<1>3. CASE rec[w].kind \in {"execute_tool", "replay_safe_tool"}
  BY <1>3, DispatchKeeps
<1>4. CASE rec[w].kind = "reconcile_tool"
  BY <1>4, ReconcileToolKeeps
<1>5. CASE rec[w].kind = "materialize_tool_result"
  BY <1>5, MaterializeKeeps
<1>6. CASE rec[w].kind = "finalize_rejected_approval"
  BY <1>6, FinalizeKeeps
<1>7. CASE rec[w].kind = "finish_operation"
  BY <1>7, FinishKeeps
<1> QED
  BY <1>1, <1>2, <1>3, <1>4, <1>5, <1>6, <1>7 DEF Attended, ToolKinds

\* Every step of recovery keeps the invariant.
LEMMA RecoveryKeeps ==
  ASSUME RInv, [RNext]_rvars
  PROVE  RInv'
<1>1. ASSUME NEW w \in Workers, RecoveryStep(w) PROVE RInv'
  <2>1. CASE StartRecovery(w)
    BY <2>1, StartKeeps
  <2>2. CASE PlanNext(w)
    BY <2>2, PlanKeeps
  <2>3. CASE Act(w)
    BY <2>3, ActKeeps
  <2>4. CASE ActOnWrite(w) \/ ReconcileReturns(w) \/ RecoveryCancelled(w)
    BY <2>4, LeaveKeeps
  <2>5. CASE CallReconcile(w) \/ ReconcileRefused(w)
    BY <2>5, CallbackKeeps
  <2>6. CASE ModelAnswers(w)
    BY <2>6, ModelAnswersKeeps
  <2>7. CASE StoreAnswer(w)
    BY <2>7, StoreAnswerKeeps
  <2>8. CASE ExecuteTool(w)
    BY <2>8, ExecuteToolKeeps
  <2>9. CASE CheckTool(w)
    BY <2>9, CheckToolKeeps
  <2>10. CASE StoreResult(w)
    BY <2>10, StoreResultKeeps
  <2>11. CASE ReleaseRecovery(w)
    BY <2>11, ReleaseRecoveryKeeps
  <2>12. CASE CrashRecovery(w)
    BY <2>12, CrashKeeps
  <2> QED
    BY <1>1, <2>1, <2>2, <2>3, <2>4, <2>5, <2>6, <2>7, <2>8, <2>9, <2>10, <2>11, <2>12
       DEF RecoveryStep
<1>2. ASSUME NEW w \in Workers, ServiceStep(w) PROVE RInv'
  BY <1>2, RServiceKeeps
<1>3. CASE RecoveryLapses
  BY <1>3, LapseKeeps
<1>4. CASE Environment /\ UNCHANGED <<rclaim, rec, toolRuns>>
  BY <1>4, REnvironmentKeeps
<1>5. CASE UNCHANGED rvars
  <2>1. /\ op' = op /\ ver' = ver /\ late' = late /\ claim' = claim /\ call' = call
        /\ effect' = effect /\ rclaim' = rclaim /\ rec' = rec /\ toolRuns' = toolRuns
    BY <1>5 DEF rvars, svars
  <2> QED
    BY <2>1 DEF RInv, HoldsRecovery
<1> QED
  BY <1>1, <1>2, <1>3, <1>4, <1>5 DEF RNext

-----------------------------------------------------------------------------
(* The logs a host leaves behind *)

Fine(o) == o = Rejected \/ (o \in Operations /\ LogOK(o))

\* Where a host is: its transcript t and open Model Requests r, and a place p.
\* Up to "open" and "waiting" the tool has no result, and only at "waiting"
\* the Write may wait for its Approval.
Host(o, t, r, p) ==
    \/ o = Rejected
    \/ /\ o \in Operations /\ LogOK(o) /\ o.transcript = t /\ o.requests = r
       /\ p \in {"open", "done"} => o.write.state # "waiting_approval"
       /\ p \in {"open", "waiting"} => o.tool.phase # "completed"

LEMMA HostFine ==
  ASSUME NEW o, NEW t, NEW r, NEW p, Host(o, t, r, p)
  PROVE  Fine(o)
  BY DEF Host, Fine

\* A message or a Model Request, where the transcript allows it.
LEMMA HostMessage ==
  ASSUME NEW o, NEW t, NEW r \in Nat, NEW p, Host(o, t, r, p), NEW e, e.type \in MessageEvents,
         e.type \in {"message_appended", "model_request_completed"} =>
            e.message \in {"toolResult", "call", "final"},
         NEW t2, NEW r2,
         \/ e.type = "model_request_started" /\ r = 0 /\ r2 = 1 /\ t2 = t /\ t \in {"user", "answered"}
         \/ e.type = "model_request_failed" /\ r = 1 /\ r2 = 0 /\ t2 = t
         \/ /\ e.type = "model_request_completed" /\ r = 1 /\ r2 = 0
            /\ t2 = TranscriptAfter(t, e.message) /\ t2 # "broken"
         \/ /\ e.type = "message_appended" /\ r = 0 /\ r2 = 0
            /\ t2 = TranscriptAfter(t, e.message) /\ t2 # "broken"
  PROVE  Host(Reduce(o, e), t2, r2, p)
<1> DEFINE n == Reduce(o, e)
<1>1. CASE n = Rejected
  BY <1>1 DEF Host
<1>2. CASE n # Rejected
  <2>1. /\ o \in Operations /\ LogOK(o) /\ o.transcript = t /\ o.requests = r
        /\ p \in {"open", "done"} => o.write.state # "waiting_approval"
        /\ p \in {"open", "waiting"} => o.tool.phase # "completed"
    BY <1>2, RejectedStays DEF Host
  <2>2. /\ n \in Operations /\ o.phase \in Going /\ n.phase = o.phase /\ n.tool = o.tool
        /\ n.write = o.write
        /\ n.requests = CASE e.type = "model_request_started" -> o.requests + 1
                 [] e.type = "message_appended" -> o.requests
                 [] OTHER -> o.requests - 1
        /\ n.transcript = IF e.type \in {"message_appended", "model_request_completed"}
                          THEN TranscriptAfter(o.transcript, e.message) ELSE o.transcript
    BY <1>2, <2>1, MessageFacts
  <2> HIDE DEF n
  <2>3. n.requests = r2 /\ n.transcript = t2
    BY <2>1, <2>2
  <2>4. r2 = 1 => t2 \in {"user", "answered"}
    OBVIOUS
  <2>5. LogOK(n)
    BY <2>1, <2>2, <2>3, <2>4 DEF LogOK, Going, Terminal
  <2>6. Host(n, t2, r2, p)
    BY <2>1, <2>2, <2>3, <2>5 DEF Host
  <2> QED
    BY <2>6 DEF n
<1> QED
  BY <1>1, <1>2

\* The intent and the dispatch of the tool.
LEMMA HostTool ==
  ASSUME NEW o, NEW t, NEW r, NEW p, Host(o, t, r, p), NEW e,
         e.type \in {"tool_intent_recorded", "tool_dispatch_started"},
         e.type = "tool_intent_recorded" => e.safe \in BOOLEAN
  PROVE  Host(Reduce(o, e), t, r, p)
<1> DEFINE n == Reduce(o, e)
<1>1. CASE n = Rejected
  BY <1>1 DEF Host
<1>2. CASE n # Rejected
  <2>1. /\ o \in Operations /\ LogOK(o) /\ o.transcript = t /\ o.requests = r
        /\ p \in {"open", "done"} => o.write.state # "waiting_approval"
    BY <1>2, RejectedStays DEF Host
  <2>2. e.type \in ToolEvents /\ e.type \notin ResultEvents
    BY DEF ToolEvents, ResultEvents
  <2>3. /\ n \in Operations /\ o.phase \in Going /\ n.phase = o.phase /\ n.write = o.write
        /\ n.requests = o.requests /\ n.transcript = o.transcript
        /\ n.tool.phase \in {"intent_recorded", "dispatch_started"}
    BY <1>2, <2>1, <2>2, ToolFacts
  <2> HIDE DEF n
  <2>4. LogOK(n)
    BY <2>1, <2>3 DEF LogOK, Going, Terminal
  <2>5. Host(n, t, r, p)
    BY <2>1, <2>3, <2>4 DEF Host
  <2> QED
    BY <2>5 DEF n
<1> QED
  BY <1>1, <1>2

\* The result of the tool: the Write no longer waits.
LEMMA HostResult ==
  ASSUME NEW o, NEW t, NEW r, NEW p \in {"open", "done"}, Host(o, t, r, p), NEW e,
         e.type \in ResultEvents, e.result \in ToolResults
  PROVE  Host(Reduce(o, e), t, r, "done")
<1> DEFINE n == Reduce(o, e)
<1>1. CASE n = Rejected
  BY <1>1 DEF Host
<1>2. CASE n # Rejected
  <2>1. /\ o \in Operations /\ LogOK(o) /\ o.transcript = t /\ o.requests = r
        /\ o.write.state # "waiting_approval"
    BY <1>2, RejectedStays DEF Host
  <2>2. e.type \in ToolEvents /\ e.type \notin {"tool_intent_recorded", "tool_reconcile_started"}
    BY DEF ToolEvents, ResultEvents
  <2>3. /\ n \in Operations /\ o.phase \in Going /\ n.phase = o.phase /\ n.write = o.write
        /\ n.requests = o.requests /\ n.transcript = o.transcript
        /\ n.tool.result = e.result /\ ResultAgreesWithWrite(o, e)
    BY <1>2, <2>1, <2>2, ToolFacts
  <2> HIDE DEF n
  <2>4. LogOK(n)
    BY <2>1, <2>3 DEF LogOK, Going, Terminal, ResultAgreesWithWrite
  <2>5. Host(n, t, r, "done")
    BY <2>1, <2>3, <2>4 DEF Host
  <2> QED
    BY <2>5 DEF n
<1> QED
  BY <1>1, <1>2

LEMMA HostApproval ==
  ASSUME NEW o, NEW t, NEW r, NEW p, Host(o, t, r, p), NEW e, e.type \in ApprovalEvents,
         e.type \in {"approval_resume_started", "approval_resume_reentered"} => e.token \in Nat
  PROVE  Host(Reduce(o, e), t, r, p)
<1> DEFINE n == Reduce(o, e)
<1>1. CASE n = Rejected
  BY <1>1 DEF Host
<1>2. CASE n # Rejected
  <2>1. /\ o \in Operations /\ LogOK(o) /\ o.transcript = t /\ o.requests = r
        /\ p \in {"open", "done"} => o.write.state # "waiting_approval"
        /\ p \in {"open", "waiting"} => o.tool.phase # "completed"
    BY <1>2, RejectedStays DEF Host
  <2>2. /\ n \in Operations /\ n.phase \in Going /\ n.write = o.write /\ n.tool = o.tool
        /\ n.requests = o.requests /\ n.transcript = o.transcript
    BY <1>2, <2>1, ApprovalFacts
  <2> HIDE DEF n
  <2>3. LogOK(n)
    BY <2>1, <2>2 DEF LogOK, Going, Terminal
  <2>4. Host(n, t, r, p)
    BY <2>1, <2>2, <2>3 DEF Host
  <2> QED
    BY <2>4 DEF n
<1> QED
  BY <1>1, <1>2

\* The Write, before the tool has a result.
LEMMA HostWrite ==
  ASSUME NEW o, NEW t, NEW r, NEW p \in {"open", "waiting"}, Host(o, t, r, p), NEW e,
         e.type \in {"write_prepared", "write_waiting_approval", "write_approved", "write_submitting",
                     "write_succeeded", "write_failed", "write_outcome_unknown"},
         e.type = "write_prepared" => e.tool \in BOOLEAN,
         NEW q, q = IF e.type = "write_waiting_approval" THEN "waiting" ELSE "open"
  PROVE  Host(Reduce(o, e), t, r, q)
<1> DEFINE n == Reduce(o, e)
<1>1. CASE n = Rejected
  BY <1>1 DEF Host
<1>2. CASE n # Rejected
  <2>1. /\ o \in Operations /\ LogOK(o) /\ o.transcript = t /\ o.requests = r
        /\ o.tool.phase # "completed"
    BY <1>2, RejectedStays DEF Host
  <2>2. e.type \in WriteEvents /\ e.type \notin Entries
    BY DEF WriteEvents, Entries
  <2>3. /\ n \in Operations /\ n.phase \in Going /\ n.tool = o.tool
        /\ n.requests = o.requests /\ n.transcript = o.transcript
        /\ \/ e.type = "write_failed" /\ o.write.state = "waiting_approval"
           \/ WriteMove(o.write.state, n.write.state, e.type)
        /\ e.type = "write_failed" => n.write.state = "failed"
    BY <1>2, <2>1, <2>2, WriteFacts
  <2> HIDE DEF n
  <2>4. e.type # "write_waiting_approval" => n.write.state # "waiting_approval"
    BY <2>3 DEF WriteMove
  <2>5. LogOK(n)
    BY <2>1, <2>3 DEF LogOK, Going, Terminal
  <2>6. Host(n, t, r, q)
    BY <2>1, <2>3, <2>4, <2>5 DEF Host
  <2> QED
    BY <2>6 DEF n
<1> QED
  BY <1>1, <1>2

LEMMA HostFinish ==
  ASSUME NEW o, NEW t, NEW r, NEW p, Host(o, t, r, p), NEW e, e.type = "operation_finished",
         e.outcome \in Terminal, e.outcome = "completed" => t = "final"
  PROVE  Host(Reduce(o, e), t, r, p)
<1> DEFINE n == Reduce(o, e)
<1>1. CASE n = Rejected
  BY <1>1 DEF Host
<1>2. CASE n # Rejected
  <2>1. /\ o \in Operations /\ LogOK(o) /\ o.transcript = t /\ o.requests = r
        /\ p \in {"open", "done"} => o.write.state # "waiting_approval"
        /\ p \in {"open", "waiting"} => o.tool.phase # "completed"
    BY <1>2, RejectedStays DEF Host
  <2>2. /\ n \in Operations /\ n.phase = e.outcome /\ n.write = o.write /\ n.tool = o.tool
        /\ n.requests = o.requests /\ n.transcript = o.transcript
        /\ o.tool.phase \in {"none", "completed"}
        /\ o.write.state \in {"none", "succeeded", "failed"}
    BY <1>2, <2>1, FinishFacts
  <2> HIDE DEF n
  <2>3. LogOK(n)
    BY <2>1, <2>2 DEF LogOK, Terminal
  <2>4. Host(n, t, r, p)
    BY <2>1, <2>2, <2>3 DEF Host
  <2> QED
    BY <2>4 DEF n
<1> QED
  BY <1>1, <1>2

-----------------------------------------------------------------------------
(* Walking along a run *)

\* h holds the Operations after the first batches of the run, from o on.
Walk(o, run, n, h) == h[0] = o /\ \A i \in 1..n : h[i] = ReplayWithSpecs(h[i - 1], run[i])

\* The batches of the run take a host from one place to another, and the log
\* is fine after each of them.
Leads(run, t, r, p, t2, r2, p2) ==
    /\ \E S : run \in Seq(S)
    /\ \A o, h : \A n \in 0..Len(run) :
          Host(o, t, r, p) /\ Walk(o, run, n, h) =>
             Fine(h[n]) /\ (n = Len(run) => Host(h[n], t2, r2, p2))

LEMMA LeadsOne ==
  ASSUME NEW batch, NEW t, NEW r, NEW p, NEW t2, NEW r2, NEW p2,
         \A o : Host(o, t, r, p) => Host(ReplayWithSpecs(o, batch), t2, r2, p2)
  PROVE  Leads(<<batch>>, t, r, p, t2, r2, p2)
<1> DEFINE run == <<batch>>
<1>1. run \in Seq({batch}) /\ Len(run) = 1 /\ run[1] = batch
  OBVIOUS
<1> HIDE DEF run
<1>2. ASSUME NEW o, NEW h, NEW n \in 0..Len(run), Host(o, t, r, p), Walk(o, run, n, h)
      PROVE  Fine(h[n]) /\ (n = Len(run) => Host(h[n], t2, r2, p2))
  <2>1. CASE n = 0
    BY <1>1, <1>2, <2>1, HostFine DEF Walk
  <2>2. CASE n = 1
    <3>1. h[1] = ReplayWithSpecs(o, batch)
      BY <1>1, <1>2, <2>2 DEF Walk
    <3> QED
      BY <1>2, <2>2, <3>1, HostFine
  <2> QED
    BY <1>1, <2>1, <2>2
<1>3. Leads(run, t, r, p, t2, r2, p2)
  BY <1>1, <1>2 DEF Leads
<1> QED
  BY <1>3 DEF run

LEMMA LeadsOn ==
  ASSUME NEW x, NEW y, NEW t, NEW r, NEW p, NEW t1, NEW r1, NEW p1, NEW t2, NEW r2, NEW p2,
         Leads(x, t, r, p, t1, r1, p1), Leads(y, t1, r1, p1, t2, r2, p2)
  PROVE  Leads(x \o y, t, r, p, t2, r2, p2)
<1> DEFINE xy == x \o y
           m == Len(x)
           k == Len(y)
<1>1. PICK S1 : x \in Seq(S1)
  BY DEF Leads
<1>2. PICK S2 : y \in Seq(S2)
  BY DEF Leads
<1> DEFINE S == S1 \cup S2
<1>3. x \in Seq(S) /\ y \in Seq(S)
  BY <1>1, <1>2, SeqMonotonic
<1> HIDE DEF S
<1>4. /\ xy \in Seq(S) /\ m \in Nat /\ k \in Nat /\ Len(xy) = m + k
      /\ \A i \in 1..m : xy[i] = x[i]
      /\ \A i \in 1..k : xy[m + i] = y[i]
  BY <1>3
<1> HIDE DEF xy, m, k
<1>5. ASSUME NEW o, NEW h, NEW n \in 0..Len(xy), Host(o, t, r, p), Walk(o, xy, n, h)
      PROVE  Fine(h[n]) /\ (n = Len(xy) => Host(h[n], t2, r2, p2))
  <2>1. n \in Nat /\ n <= m + k
    BY <1>4, <1>5
  <2>2. CASE n < m
    <3>1. Walk(o, x, n, h) /\ n \in 0..Len(x)
      BY <1>4, <1>5, <2>1, <2>2 DEF Walk, m
    <3>2. Fine(h[n])
      BY <1>5, <3>1 DEF Leads
    <3> QED
      BY <1>4, <2>1, <2>2, <3>2
  <2>3. CASE n >= m
    <3> DEFINE g == [i \in 0..k |-> h[m + i]]
               j == n - m
    <3>1. Walk(o, x, m, h) /\ m \in 0..Len(x)
      BY <1>4, <1>5, <2>1, <2>3 DEF Walk, m
    <3>2. Host(h[m], t1, r1, p1)
      BY <1>5, <3>1 DEF Leads, m
    <3>3. j \in 0..k /\ g[0] = h[m] /\ m + j = n
      BY <1>4, <2>1, <2>3
    <3>4. ASSUME NEW i \in 1..j PROVE g[i] = ReplayWithSpecs(g[i - 1], y[i])
      <4>1. /\ i \in 0..k /\ i - 1 \in 0..k /\ m + i \in 1..n /\ (m + i) - 1 = m + (i - 1) /\ i \in 1..k
        BY <1>4, <2>1, <2>3, <3>3
      <4>2. h[m + i] = ReplayWithSpecs(h[(m + i) - 1], xy[m + i])
        BY <1>5, <4>1 DEF Walk
      <4>3. g[i] = h[m + i] /\ g[i - 1] = h[m + (i - 1)] /\ xy[m + i] = y[i]
        BY <1>4, <4>1
      <4> QED
        BY <4>1, <4>2, <4>3
    <3>5. g[j] = h[n]
      BY <3>3
    <3> HIDE DEF g, j
    <3>6. Walk(h[m], y, j, g) /\ j \in 0..Len(y)
      BY <3>3, <3>4 DEF Walk, k
    <3>7. Fine(g[j]) /\ (j = k => Host(g[j], t2, r2, p2))
      BY <3>2, <3>6 DEF Leads, k
    <3>8. n = Len(xy) => j = k
      BY <1>4, <3>3 DEF j
    <3> QED
      BY <3>5, <3>7, <3>8
  <2> QED
    BY <1>4, <2>1, <2>2, <2>3
<1>6. Leads(xy, t, r, p, t2, r2, p2)
  BY <1>4, <1>5 DEF Leads
<1> QED
  BY <1>6 DEF xy

LEMMA ConcatEqual ==
  ASSUME NEW S, NEW x \in Seq(S), NEW y \in Seq(S), NEW z \in Seq(S), Len(z) = Len(x) + Len(y),
         \A i \in 1..Len(x) : z[i] = x[i], \A i \in 1..Len(y) : z[Len(x) + i] = y[i]
  PROVE  z = x \o y
<1> DEFINE c == x \o y
<1>1. /\ c \in Seq(S) /\ Len(c) = Len(x) + Len(y) /\ Len(x) \in Nat /\ Len(y) \in Nat
      /\ \A i \in 1..Len(x) : c[i] = x[i]
      /\ \A i \in 1..Len(y) : c[Len(x) + i] = y[i]
  OBVIOUS
<1> HIDE DEF c
<1>2. ASSUME NEW i \in 1..Len(z) PROVE z[i] = c[i]
  <2>1. CASE i <= Len(x)
    BY <1>1, <2>1
  <2>2. CASE i > Len(x)
    <3>1. i - Len(x) \in 1..Len(y) /\ Len(x) + (i - Len(x)) = i
      BY <1>1, <2>2
    <3> QED
      BY <1>1, <3>1
  <2> QED
    BY <1>1, <2>1, <2>2
<1> QED
  BY <1>1, <1>2, SeqEqual DEF c

LEMMA TupleTwo ==
  ASSUME NEW a, NEW b
  PROVE  <<a, b>> = <<a>> \o <<b>>
<1> DEFINE S == {a, b}
           x == <<a>>
           y == <<b>>
           z == <<a, b>>
<1>1. x \in Seq(S) /\ y \in Seq(S) /\ z \in Seq(S)
  OBVIOUS
<1>2. /\ Len(x) = 1 /\ Len(y) = 1 /\ Len(z) = 2
      /\ x[1] = a
      /\ y[1] = b
      /\ z[1] = a /\ z[2] = b
  OBVIOUS
<1> HIDE DEF S, x, y, z
<1>3. Len(z) = Len(x) + Len(y)
  BY <1>2
<1>4. \A i \in 1..Len(x) : z[i] = x[i]
  BY <1>2
<1>5. \A i \in 1..Len(y) : z[Len(x) + i] = y[i]
  BY <1>2
<1>6. z = x \o y
  BY <1>1, <1>3, <1>4, <1>5, ConcatEqual
<1> QED
  BY <1>6 DEF x, y, z

LEMMA TupleThree ==
  ASSUME NEW a, NEW b, NEW c
  PROVE  <<a, b, c>> = <<a>> \o <<b, c>>
<1> DEFINE S == {a, b, c}
           x == <<a>>
           y == <<b, c>>
           z == <<a, b, c>>
<1>1. x \in Seq(S) /\ y \in Seq(S) /\ z \in Seq(S)
  OBVIOUS
<1>2. /\ Len(x) = 1 /\ Len(y) = 2 /\ Len(z) = 3
      /\ x[1] = a
      /\ y[1] = b /\ y[2] = c
      /\ z[1] = a /\ z[2] = b /\ z[3] = c
  OBVIOUS
<1> HIDE DEF S, x, y, z
<1>3. Len(z) = Len(x) + Len(y)
  BY <1>2
<1>4. \A i \in 1..Len(x) : z[i] = x[i]
  BY <1>2
<1>5. \A i \in 1..Len(y) : z[Len(x) + i] = y[i]
  BY <1>2
<1>6. z = x \o y
  BY <1>1, <1>3, <1>4, <1>5, ConcatEqual
<1> QED
  BY <1>6 DEF x, y, z

LEMMA TupleFour ==
  ASSUME NEW a, NEW b, NEW c, NEW d
  PROVE  <<a, b, c, d>> = <<a>> \o <<b, c, d>>
<1> DEFINE S == {a, b, c, d}
           x == <<a>>
           y == <<b, c, d>>
           z == <<a, b, c, d>>
<1>1. x \in Seq(S) /\ y \in Seq(S) /\ z \in Seq(S)
  OBVIOUS
<1>2. /\ Len(x) = 1 /\ Len(y) = 3 /\ Len(z) = 4
      /\ x[1] = a
      /\ y[1] = b /\ y[2] = c /\ y[3] = d
      /\ z[1] = a /\ z[2] = b /\ z[3] = c /\ z[4] = d
  OBVIOUS
<1> HIDE DEF S, x, y, z
<1>3. Len(z) = Len(x) + Len(y)
  BY <1>2
<1>4. \A i \in 1..Len(x) : z[i] = x[i]
  BY <1>2
<1>5. \A i \in 1..Len(y) : z[Len(x) + i] = y[i]
  BY <1>2
<1>6. z = x \o y
  BY <1>1, <1>3, <1>4, <1>5, ConcatEqual
<1> QED
  BY <1>6 DEF x, y, z

\* A prefix of a run is a walk from the start of the Operation.
LEMMA PrefixWalks ==
  ASSUME NEW run, NEW n \in Nat
  PROVE  \E h : Walk(StartedOperation, run, n, h) /\ Prefix(run, n) = h[n]
<1> DEFINE Upto(k, h) == h = [i \in 0..k |-> IF i = 0 THEN StartedOperation
                                             ELSE ReplayWithSpecs(h[i - 1], run[i])]
           T == {k \in Nat : \E h : Upto(k, h)}
<1>1. 0 \in T
  <2> DEFINE h == [i \in 0..0 |-> StartedOperation]
  <2>1. Upto(0, h)
    OBVIOUS
  <2> HIDE DEF h
  <2> QED
    BY <2>1
<1>2. ASSUME NEW k \in T PROVE k + 1 \in T
  <2>1. PICK h : Upto(k, h)
    OBVIOUS
  <2> DEFINE g == [i \in 0..(k + 1) |-> IF i = k + 1 THEN ReplayWithSpecs(h[k], run[k + 1]) ELSE h[i]]
  <2>2. ASSUME NEW i \in 0..(k + 1)
        PROVE  g[i] = IF i = 0 THEN StartedOperation ELSE ReplayWithSpecs(g[i - 1], run[i])
    <3>1. CASE i = k + 1
      BY <3>1
    <3>2. CASE i # k + 1
      BY <2>1, <3>2
    <3> QED
      BY <3>1, <3>2
  <2>3. Upto(k + 1, g)
    BY <2>2
  <2>4. k + 1 \in Nat
    OBVIOUS
  <2> HIDE DEF g
  <2>5. \E f : Upto(k + 1, f)
    BY <2>3
  <2> QED
    BY <2>4, <2>5, Zenon
<1> HIDE DEF T
<1>3. T = Nat
  <2>1. T \in SUBSET Nat
    BY DEF T
  <2> QED
    BY <1>1, <1>2, <2>1, SetInduction
<1>4. \E h : Upto(n, h)
  BY <1>3 DEF T
<1> DEFINE h == CHOOSE f : Upto(n, f)
<1>5. Upto(n, h)
  BY <1>4
<1>6. Prefix(run, n) = h[n]
  BY DEF Prefix
<1> HIDE DEF h
<1>7. Walk(StartedOperation, run, n, h)
  BY <1>5 DEF Walk
<1> QED
  BY <1>6, <1>7

LEMMA ReplayFive ==
  ASSUME NEW o, NEW a, NEW b, NEW c, NEW d, NEW e
  PROVE  ReplayWithSpecs(o, <<a, b, c, d, e>>) = Reduce(Reduce(Reduce(Reduce(Reduce(o, a), b), c), d), e)
<1> DEFINE s == <<a, b, c, d, e>>
<1>1. Len(s) = 5 /\ Len(s) \in Nat /\ s[1] = a /\ s[2] = b /\ s[3] = c /\ s[4] = d /\ s[5] = e
  OBVIOUS
<1> HIDE DEF s
<1>2. PICK h : Passes(o, s, h) /\ ReplayWithSpecs(o, s) = h[Len(s)]
  BY <1>1, ReplayPasses
<1>3. h[0] = o /\ \A i \in 1..Len(s) : h[i] = Reduce(h[i - 1], s[i])
  <2>1. Len(s) \in Nat /\ Passes(o, s, h)
    BY <1>1, <1>2
  <2> QED
    BY <2>1, PassesSteps
<1>4. /\ h[1] = Reduce(h[0], s[1]) /\ h[2] = Reduce(h[1], s[2]) /\ h[3] = Reduce(h[2], s[3])
      /\ h[4] = Reduce(h[3], s[4]) /\ h[5] = Reduce(h[4], s[5])
  BY <1>1, <1>3
<1> QED
  BY <1>1, <1>2, <1>3, <1>4 DEF s

LEMMA ReplaySix ==
  ASSUME NEW o, NEW a, NEW b, NEW c, NEW d, NEW e, NEW f
  PROVE  ReplayWithSpecs(o, <<a, b, c, d, e, f>>) =
            Reduce(Reduce(Reduce(Reduce(Reduce(Reduce(o, a), b), c), d), e), f)
<1> DEFINE s == <<a, b, c, d, e, f>>
<1>1. /\ Len(s) = 6 /\ Len(s) \in Nat /\ s[1] = a /\ s[2] = b /\ s[3] = c /\ s[4] = d /\ s[5] = e
      /\ s[6] = f
  OBVIOUS
<1> HIDE DEF s
<1>2. PICK h : Passes(o, s, h) /\ ReplayWithSpecs(o, s) = h[Len(s)]
  BY <1>1, ReplayPasses
<1>3. h[0] = o /\ \A i \in 1..Len(s) : h[i] = Reduce(h[i - 1], s[i])
  <2>1. Len(s) \in Nat /\ Passes(o, s, h)
    BY <1>1, <1>2
  <2> QED
    BY <2>1, PassesSteps
<1>4. /\ h[1] = Reduce(h[0], s[1]) /\ h[2] = Reduce(h[1], s[2]) /\ h[3] = Reduce(h[2], s[3])
      /\ h[4] = Reduce(h[3], s[4]) /\ h[5] = Reduce(h[4], s[5]) /\ h[6] = Reduce(h[5], s[6])
  BY <1>1, <1>3
<1> QED
  BY <1>1, <1>2, <1>3, <1>4 DEF s

\* A batch of one event.
LEMMA LeadsEvent ==
  ASSUME NEW e, NEW t, NEW r, NEW p, NEW t2, NEW r2, NEW p2,
         \A o : Host(o, t, r, p) => Host(Reduce(o, e), t2, r2, p2)
  PROVE  Leads(<< <<e>> >>, t, r, p, t2, r2, p2)
<1>1. \A o : Host(o, t, r, p) => Host(ReplayWithSpecs(o, <<e>>), t2, r2, p2)
  BY SingleReplay
<1> QED
  BY <1>1, LeadsOne

LEMMA LeadsTwo ==
  ASSUME NEW a, NEW b, NEW t, NEW r, NEW p, NEW t1, NEW r1, NEW p1, NEW t2, NEW r2, NEW p2,
         Leads(<<a>>, t, r, p, t1, r1, p1), Leads(<<b>>, t1, r1, p1, t2, r2, p2)
  PROVE  Leads(<<a, b>>, t, r, p, t2, r2, p2)
  BY LeadsOn, TupleTwo

LEMMA LeadsThree ==
  ASSUME NEW a, NEW b, NEW c, NEW t, NEW r, NEW p, NEW t1, NEW r1, NEW p1, NEW t2, NEW r2, NEW p2,
         Leads(<<a>>, t, r, p, t1, r1, p1), Leads(<<b, c>>, t1, r1, p1, t2, r2, p2)
  PROVE  Leads(<<a, b, c>>, t, r, p, t2, r2, p2)
<1> DEFINE x == <<a>>
           y == <<b, c>>
<1>1. Leads(x, t, r, p, t1, r1, p1) /\ Leads(y, t1, r1, p1, t2, r2, p2) /\ <<a, b, c>> = x \o y
  BY TupleThree
<1> HIDE DEF x, y
<1>2. Leads(x \o y, t, r, p, t2, r2, p2)
  BY <1>1, LeadsOn
<1> QED
  BY <1>1, <1>2

LEMMA LeadsFour ==
  ASSUME NEW a, NEW b, NEW c, NEW d, NEW t, NEW r, NEW p, NEW t1, NEW r1, NEW p1,
         NEW t2, NEW r2, NEW p2,
         Leads(<<a>>, t, r, p, t1, r1, p1), Leads(<<b, c, d>>, t1, r1, p1, t2, r2, p2)
  PROVE  Leads(<<a, b, c, d>>, t, r, p, t2, r2, p2)
<1> DEFINE x == <<a>>
           y == <<b, c, d>>
<1>1. Leads(x, t, r, p, t1, r1, p1) /\ Leads(y, t1, r1, p1, t2, r2, p2) /\ <<a, b, c, d>> = x \o y
  BY TupleFour
<1> HIDE DEF x, y
<1>2. Leads(x \o y, t, r, p, t2, r2, p2)
  BY <1>1, LeadsOn
<1> QED
  BY <1>1, <1>2

LEMMA LeadsNowhere ==
  ASSUME NEW t, NEW r, NEW p
  PROVE  Leads(<< >>, t, r, p, t, r, p)
<1> DEFINE run == << >>
<1>1. run \in Seq({}) /\ Len(run) = 0
  OBVIOUS
<1> HIDE DEF run
<1>2. ASSUME NEW o, NEW h, NEW n \in 0..Len(run), Host(o, t, r, p), Walk(o, run, n, h)
      PROVE  Fine(h[n]) /\ (n = Len(run) => Host(h[n], t, r, p))
  <2>1. n = 0 /\ h[0] = o
    BY <1>1, <1>2 DEF Walk
  <2> QED
    BY <1>2, <2>1, HostFine
<1>3. Leads(run, t, r, p, t, r, p)
  BY <1>1, <1>2 DEF Leads
<1> QED
  BY <1>3 DEF run

-----------------------------------------------------------------------------
(* The batches of a host *)

LEMMA StartedLeads ==
  ASSUME NEW t \in {"user", "answered"}, NEW p
  PROVE  Leads(<< <<Event("model_request_started")>> >>, t, 0, p, t, 1, p)
<1> DEFINE e == Event("model_request_started")
<1>1. e.type = "model_request_started" /\ e.type \in MessageEvents
  BY DEF Event, MessageEvents
<1> HIDE DEF e
<1>2. \A o : Host(o, t, 0, p) => Host(Reduce(o, e), t, 1, p)
  BY <1>1, HostMessage
<1>3. Leads(<< <<e>> >>, t, 0, p, t, 1, p)
  BY <1>2, LeadsEvent
<1> QED
  BY <1>3 DEF e

LEMMA AnsweredLeads ==
  ASSUME NEW t \in {"user", "answered"}, NEW p, NEW m \in {"call", "final"}, m = "call" => t = "user"
  PROVE  Leads(<< <<MessageEvent("model_request_completed", m)>> >>, t, 1, p, m, 0, p)
<1> DEFINE e == MessageEvent("model_request_completed", m)
<1>1. /\ e.type = "model_request_completed" /\ e.type \in MessageEvents /\ e.message = m
      /\ TranscriptAfter(t, m) = m /\ m # "broken"
  BY DEF MessageEvent, MessageEvents, TranscriptAfter
<1> HIDE DEF e
<1>2. \A o : Host(o, t, 1, p) => Host(Reduce(o, e), m, 0, p)
  BY <1>1, HostMessage
<1>3. Leads(<< <<e>> >>, t, 1, p, m, 0, p)
  BY <1>2, LeadsEvent
<1> QED
  BY <1>3 DEF e

LEMMA IntentLeads ==
  ASSUME NEW safe \in BOOLEAN, NEW t, NEW r, NEW p
  PROVE  Leads(<< <<ToolIntent(safe)>> >>, t, r, p, t, r, p)
<1> DEFINE e == ToolIntent(safe)
<1>1. e.type = "tool_intent_recorded" /\ e.safe \in BOOLEAN
  BY DEF ToolIntent
<1> HIDE DEF e
<1>2. \A o : Host(o, t, r, p) => Host(Reduce(o, e), t, r, p)
  BY <1>1, HostTool
<1>3. Leads(<< <<e>> >>, t, r, p, t, r, p)
  BY <1>2, LeadsEvent
<1> QED
  BY <1>3 DEF e

LEMMA DispatchLeads ==
  ASSUME NEW t, NEW r, NEW p
  PROVE  Leads(<< <<Event("tool_dispatch_started")>> >>, t, r, p, t, r, p)
<1> DEFINE e == Event("tool_dispatch_started")
<1>1. e.type = "tool_dispatch_started"
  BY DEF Event
<1> HIDE DEF e
<1>2. \A o : Host(o, t, r, p) => Host(Reduce(o, e), t, r, p)
  BY <1>1, HostTool
<1>3. Leads(<< <<e>> >>, t, r, p, t, r, p)
  BY <1>2, LeadsEvent
<1> QED
  BY <1>3 DEF e

LEMMA FinishLeads ==
  ASSUME NEW outcome \in Terminal, NEW t, outcome = "completed" => t = "final", NEW r, NEW p
  PROVE  Leads(<< <<OperationFinished(outcome)>> >>, t, r, p, t, r, p)
<1> DEFINE e == OperationFinished(outcome)
<1>1. e.type = "operation_finished" /\ e.outcome = outcome
  BY DEF OperationFinished
<1> HIDE DEF e
<1>2. \A o : Host(o, t, r, p) => Host(Reduce(o, e), t, r, p)
  BY <1>1, HostFinish
<1>3. Leads(<< <<e>> >>, t, r, p, t, r, p)
  BY <1>2, LeadsEvent
<1> QED
  BY <1>3 DEF e

LEMMA ModelCallLeads ==
  ASSUME NEW safe \in BOOLEAN
  PROVE  Leads(ModelCall(safe), "user", 0, "open", "call", 0, "open")
<1> DEFINE a == <<Event("model_request_started")>>
           b == <<MessageEvent("model_request_completed", "call")>>
           c == <<ToolIntent(safe)>>
<1>1. Leads(<<a>>, "user", 0, "open", "user", 1, "open")
  BY StartedLeads
<1>2. Leads(<<b>>, "user", 1, "open", "call", 0, "open")
  BY AnsweredLeads
<1>3. Leads(<<c>>, "call", 0, "open", "call", 0, "open")
  BY IntentLeads
<1>4. ModelCall(safe) = <<a, b, c>>
  BY DEF ModelCall
<1> HIDE DEF a, b, c
<1>5. Leads(<<b, c>>, "user", 1, "open", "call", 0, "open")
  BY <1>2, <1>3, LeadsTwo
<1>6. Leads(<<a, b, c>>, "user", 0, "open", "call", 0, "open")
  BY <1>1, <1>5, LeadsThree
<1> QED
  BY <1>4, <1>6

LEMMA AnswerLeads ==
  ASSUME NEW t \in {"user", "answered"}, NEW p
  PROVE  Leads(Answer, t, 0, p, "final", 0, p)
<1> DEFINE a == <<Event("model_request_started")>>
           b == <<MessageEvent("model_request_completed", "final")>>
<1>1. Leads(<<a>>, t, 0, p, t, 1, p)
  BY StartedLeads
<1>2. Leads(<<b>>, t, 1, p, "final", 0, p)
  BY AnsweredLeads
<1>3. Answer = <<a, b>>
  BY DEF Answer
<1> HIDE DEF a, b
<1> QED
  BY <1>1, <1>2, <1>3, LeadsTwo

LEMMA FinalAnswerLeads ==
  ASSUME NEW t \in {"user", "answered"}, NEW p
  PROVE  Leads(FinalAnswer, t, 0, p, "final", 0, p)
<1> DEFINE f == << <<OperationFinished("completed")>> >>
<1>1. Leads(f, "final", 0, p, "final", 0, p)
  BY FinishLeads DEF Terminal
<1>2. FinalAnswer = Answer \o f
  BY DEF FinalAnswer
<1> HIDE DEF f
<1> QED
  BY <1>1, <1>2, AnswerLeads, LeadsOn

\* The end of a tool, in one batch or in two.
LEMMA EndEvents ==
  ASSUME NEW result \in Results
  PROVE  /\ \A o : Host(o, "call", 0, "open") => Host(Reduce(o, ToolEnded(result)), "call", 0, "done")
         /\ \A o : Host(o, "call", 0, "done") => Host(Reduce(o, ResultMessage), "answered", 0, "done")
<1> DEFINE e == ToolEnded(result)
           m == ResultMessage
<1>1. e.type \in ResultEvents /\ e.result \in ToolResults
  BY DEF ToolEnded, ToolResultEvent, ResultEvents, Results, ToolResults
<1>2. /\ m.type = "message_appended" /\ m.type \in MessageEvents /\ m.message = "toolResult"
      /\ TranscriptAfter("call", m.message) = "answered"
  BY DEF ResultMessage, MessageEvent, MessageEvents, TranscriptAfter
<1> HIDE DEF e, m
<1>3. \A o : Host(o, "call", 0, "open") => Host(Reduce(o, e), "call", 0, "done")
  BY <1>1, HostResult
<1>4. \A o : Host(o, "call", 0, "done") => Host(Reduce(o, m), "answered", 0, "done")
  BY <1>2, HostMessage
<1> QED
  BY <1>3, <1>4 DEF e, m

LEMMA ToolEndLeads ==
  ASSUME NEW result \in Results
  PROVE  Leads(ToolEnd(result), "call", 0, "open", "answered", 0, "done")
<1> DEFINE e == ToolEnded(result)
           m == ResultMessage
<1>1. /\ \A o : Host(o, "call", 0, "open") => Host(Reduce(o, e), "call", 0, "done")
      /\ \A o : Host(o, "call", 0, "done") => Host(Reduce(o, m), "answered", 0, "done")
  BY EndEvents
<1>2. ToolEnd(result) = << <<e, m>> >>
  BY DEF ToolEnd
<1> HIDE DEF e, m
<1>3. \A o : Host(o, "call", 0, "open") => Host(ReplayWithSpecs(o, <<e, m>>), "answered", 0, "done")
  BY <1>1, ReplayTwo
<1> QED
  BY <1>2, <1>3, LeadsOne

LEMMA SplitToolEndLeads ==
  ASSUME NEW result \in Results
  PROVE  Leads(SplitToolEnd(result), "call", 0, "open", "answered", 0, "done")
<1> DEFINE e == ToolEnded(result)
           m == ResultMessage
<1>1. /\ \A o : Host(o, "call", 0, "open") => Host(Reduce(o, e), "call", 0, "done")
      /\ \A o : Host(o, "call", 0, "done") => Host(Reduce(o, m), "answered", 0, "done")
  BY EndEvents
<1>2. SplitToolEnd(result) = << <<e>>, <<m>> >>
  BY DEF SplitToolEnd
<1> HIDE DEF e, m
<1>3. Leads(<< <<e>> >>, "call", 0, "open", "call", 0, "done")
  BY <1>1, LeadsEvent
<1>4. Leads(<< <<m>> >>, "call", 0, "done", "answered", 0, "done")
  BY <1>1, LeadsEvent
<1>5. Leads(<< <<e>>, <<m>> >>, "call", 0, "open", "answered", 0, "done")
  BY <1>3, <1>4, LeadsTwo
<1> QED
  BY <1>2, <1>5

LEMMA WriteEndLeads ==
  ASSUME NEW result \in Results, NEW t, NEW r
  PROVE  Leads(<<WriteEnd(result)>>, t, r, "open", t, r, "open")
<1>1. PICK e : /\ WriteEnd(result) = <<e>>
               /\ e.type \in {"write_succeeded", "write_failed", "write_outcome_unknown"}
  <2>1. CASE result = "ok"
    BY <2>1 DEF WriteEnd, FencedEvent
  <2>2. CASE result = "error"
    BY <2>2 DEF WriteEnd, WriteFailed
  <2>3. CASE result = "unknown"
    BY <2>3 DEF WriteEnd, Event
  <2> QED
    BY <2>1, <2>2, <2>3 DEF Results
<1>2. \A o : Host(o, t, r, "open") => Host(Reduce(o, e), t, r, "open")
  BY <1>1, HostWrite
<1> QED
  BY <1>1, <1>2, LeadsEvent

LEMMA ToolRunLeads ==
  ASSUME NEW safe \in BOOLEAN, NEW end, Leads(end, "call", 0, "open", "answered", 0, "done")
  PROVE  Leads(ToolRun(safe, end), "user", 0, "open", "final", 0, "done")
<1> DEFINE d == << <<Event("tool_dispatch_started")>> >>
           m == ModelCall(safe)
           f == FinalAnswer
<1>1. Leads(m, "user", 0, "open", "call", 0, "open") /\ Leads(d, "call", 0, "open", "call", 0, "open")
      /\ Leads(f, "answered", 0, "done", "final", 0, "done")
  BY ModelCallLeads, DispatchLeads, FinalAnswerLeads
<1>2. ToolRun(safe, end) = ((m \o d) \o end) \o f
  BY DEF ToolRun
<1> HIDE DEF d, m, f
<1>3. Leads(m \o d, "user", 0, "open", "call", 0, "open")
  BY <1>1, LeadsOn
<1>4. Leads((m \o d) \o end, "user", 0, "open", "answered", 0, "done")
  BY <1>3, LeadsOn
<1> QED
  BY <1>1, <1>2, <1>4, LeadsOn

\* A Write that needs no Approval.
LEMMA PlainPrepareLeads ==
  ASSUME NEW t, NEW r
  PROVE  Leads(<<PrepareSpecs(FALSE, TRUE)>>, t, r, "open", t, r, "open")
<1> DEFINE a == WritePrepared(TRUE)
           b == Event("write_approved")
<1>1. a.type = "write_prepared" /\ a.tool \in BOOLEAN /\ b.type = "write_approved"
  BY DEF WritePrepared, Event
<1>2. PrepareSpecs(FALSE, TRUE) = <<a>> \o <<b>>
  BY DEF PrepareSpecs
<1> HIDE DEF a, b
<1>3. PrepareSpecs(FALSE, TRUE) = <<a, b>>
  BY <1>2, TupleTwo
<1>4. /\ \A o : Host(o, t, r, "open") => Host(Reduce(o, a), t, r, "open")
      /\ \A o : Host(o, t, r, "open") => Host(Reduce(o, b), t, r, "open")
  BY <1>1, HostWrite
<1>5. \A o : Host(o, t, r, "open") => Host(ReplayWithSpecs(o, <<a, b>>), t, r, "open")
  BY <1>4, ReplayTwo
<1> QED
  BY <1>3, <1>5, LeadsOne

LEMMA GuardedPrepareLeads ==
  ASSUME NEW t, NEW r
  PROVE  Leads(<<PrepareSpecs(TRUE, FALSE)>>, t, r, "open", t, r, "waiting")
<1> DEFINE a == WritePrepared(FALSE)
           b == Event("approval_requested")
           c == Event("write_waiting_approval")
<1>1. /\ a.type = "write_prepared" /\ a.tool \in BOOLEAN /\ b.type = "approval_requested"
      /\ c.type = "write_waiting_approval" /\ b.type \in ApprovalEvents
  BY DEF WritePrepared, Event, ApprovalEvents
<1>2. PrepareSpecs(TRUE, FALSE) = <<a>> \o <<b, c>>
  BY DEF PrepareSpecs
<1> HIDE DEF a, b, c
<1>3. PrepareSpecs(TRUE, FALSE) = <<a, b, c>>
  BY <1>2, TupleThree
<1>4. /\ \A o : Host(o, t, r, "open") => Host(Reduce(o, a), t, r, "open")
      /\ \A o : Host(o, t, r, "open") => Host(Reduce(o, c), t, r, "waiting")
  BY <1>1, HostWrite
<1>5. \A o : Host(o, t, r, "open") => Host(Reduce(o, b), t, r, "open")
  BY <1>1, HostApproval
<1>6. \A o : Host(o, t, r, "open") => Host(ReplayWithSpecs(o, <<a, b, c>>), t, r, "waiting")
  BY <1>4, <1>5, ReplayThree
<1> QED
  BY <1>3, <1>6, LeadsOne

LEMMA SubmitLeads ==
  ASSUME NEW t, NEW r
  PROVE  Leads(<< <<Event("write_submitting")>> >>, t, r, "open", t, r, "open")
<1> DEFINE e == Event("write_submitting")
<1>1. e.type = "write_submitting"
  BY DEF Event
<1> HIDE DEF e
<1>2. \A o : Host(o, t, r, "open") => Host(Reduce(o, e), t, r, "open")
  BY <1>1, HostWrite
<1>3. Leads(<< <<e>> >>, t, r, "open", t, r, "open")
  BY <1>2, LeadsEvent
<1> QED
  BY <1>3 DEF e

LEMMA ToolWriteRunLeads ==
  ASSUME NEW safe \in BOOLEAN, NEW result \in Results
  PROVE  Leads(ToolWriteRun(safe, result), "user", 0, "open", "final", 0, "done")
<1> DEFINE m == ModelCall(safe)
           f == FinalAnswer
           x == ToolEnd(result)
           a == <<Event("tool_dispatch_started")>>
           b == PrepareSpecs(FALSE, TRUE)
           c == <<Event("write_submitting")>>
           d == WriteEnd(result)
           w == <<a, b, c, d>>
<1>1. /\ Leads(m, "user", 0, "open", "call", 0, "open")
      /\ Leads(f, "answered", 0, "done", "final", 0, "done")
      /\ Leads(x, "call", 0, "open", "answered", 0, "done")
  BY ModelCallLeads, FinalAnswerLeads, ToolEndLeads
<1>2. /\ Leads(<<a>>, "call", 0, "open", "call", 0, "open")
      /\ Leads(<<b>>, "call", 0, "open", "call", 0, "open")
      /\ Leads(<<c>>, "call", 0, "open", "call", 0, "open")
      /\ Leads(<<d>>, "call", 0, "open", "call", 0, "open")
  BY DispatchLeads, PlainPrepareLeads, SubmitLeads, WriteEndLeads
<1>3. ToolWriteRun(safe, result) = ((m \o w) \o x) \o f
  BY DEF ToolWriteRun
<1> HIDE DEF m, f, x, a, b, c, d
<1>4. Leads(<<c, d>>, "call", 0, "open", "call", 0, "open")
  BY <1>2, LeadsTwo
<1>5. Leads(<<b, c, d>>, "call", 0, "open", "call", 0, "open")
  BY <1>2, <1>4, LeadsThree
<1>6. Leads(w, "call", 0, "open", "call", 0, "open")
  BY <1>2, <1>5, LeadsFour
<1> HIDE DEF w
<1>7. Leads(m \o w, "user", 0, "open", "call", 0, "open")
  BY <1>1, <1>6, LeadsOn
<1>8. Leads((m \o w) \o x, "user", 0, "open", "answered", 0, "done")
  BY <1>1, <1>7, LeadsOn
<1> QED
  BY <1>1, <1>3, <1>8, LeadsOn

LEMMA ApprovalLeads ==
  ASSUME NEW e, e.type \in ApprovalEvents,
         e.type \in {"approval_resume_started", "approval_resume_reentered"} => e.token \in Nat,
         NEW t, NEW r, NEW p
  PROVE  Leads(<< <<e>> >>, t, r, p, t, r, p)
<1>1. \A o : Host(o, t, r, p) => Host(Reduce(o, e), t, r, p)
  BY HostApproval
<1> QED
  BY <1>1, LeadsEvent

LEMMA DirectRunLeads == Leads(DirectWriteRun, "user", 0, "open", "final", 0, "open")
<1> DEFINE g == Event("approval_granted")
           u == Event("approval_consumed")
           v == Event("write_approved")
           s == Event("write_submitting")
           a == PrepareSpecs(TRUE, FALSE)
           b == <<g>>
           c == <<u, v, s>>
           d == WriteEnd("ok")
           w == <<a, b, c, d>>
           f == FinalAnswer
<1>1. /\ g.type = "approval_granted" /\ u.type = "approval_consumed" /\ v.type = "write_approved"
      /\ s.type = "write_submitting" /\ g.type \in ApprovalEvents /\ u.type \in ApprovalEvents
  BY DEF Event, ApprovalEvents
<1>2. DirectWriteRun = w \o f
  BY DEF DirectWriteRun
<1> HIDE DEF g, u, v, s
<1>3. /\ Leads(<<a>>, "user", 0, "open", "user", 0, "waiting")
      /\ Leads(<<d>>, "user", 0, "open", "user", 0, "open")
      /\ Leads(f, "user", 0, "open", "final", 0, "open")
  BY GuardedPrepareLeads, WriteEndLeads, FinalAnswerLeads DEF Results
<1>4. Leads(<<b>>, "user", 0, "waiting", "user", 0, "waiting")
  BY <1>1, ApprovalLeads
<1>5. \A o : Host(o, "user", 0, "waiting") => Host(Reduce(o, u), "user", 0, "waiting")
  BY <1>1, HostApproval
<1>6. /\ \A o : Host(o, "user", 0, "waiting") => Host(Reduce(o, v), "user", 0, "open")
      /\ \A o : Host(o, "user", 0, "open") => Host(Reduce(o, s), "user", 0, "open")
  BY <1>1, HostWrite
<1>7. Leads(<<c>>, "user", 0, "waiting", "user", 0, "open")
  <2>1. \A o : Host(o, "user", 0, "waiting") => Host(ReplayWithSpecs(o, c), "user", 0, "open")
    BY <1>5, <1>6, ReplayThree
  <2> HIDE DEF c
  <2> QED
    BY <2>1, LeadsOne
<1> HIDE DEF a, b, c, d, f
<1>8. Leads(<<c, d>>, "user", 0, "waiting", "user", 0, "open")
  BY <1>3, <1>7, LeadsTwo
<1>9. Leads(<<b, c, d>>, "user", 0, "waiting", "user", 0, "open")
  BY <1>4, <1>8, LeadsThree
<1>10. Leads(w, "user", 0, "open", "user", 0, "open")
  BY <1>3, <1>9, LeadsFour
<1> HIDE DEF w
<1> QED
  BY <1>2, <1>3, <1>10, LeadsOn

-----------------------------------------------------------------------------
(* The runs of the approval gateway *)

LEMMA RequestLeads == Leads(<<GuardedRequest>>, "user", 0, "open", "call", 0, "waiting")
<1> DEFINE a == MessageEvent("message_appended", "call")
           b == WritePrepared(TRUE)
           c == Event("approval_requested")
           d == Event("approval_resume_registered")
           e == Event("write_waiting_approval")
           f == ToolIntent(FALSE)
           batch == <<a, b, c, d, e, f>>
<1>1. /\ a.type = "message_appended" /\ a.type \in MessageEvents /\ a.message = "call"
      /\ TranscriptAfter("user", "call") = "call"
      /\ b.type = "write_prepared" /\ b.tool \in BOOLEAN
      /\ c.type = "approval_requested" /\ c.type \in ApprovalEvents
      /\ d.type = "approval_resume_registered" /\ d.type \in ApprovalEvents
      /\ e.type = "write_waiting_approval"
      /\ f.type = "tool_intent_recorded" /\ f.safe \in BOOLEAN
  BY DEF MessageEvent, WritePrepared, Event, ToolIntent, MessageEvents, ApprovalEvents, TranscriptAfter
<1>2. GuardedRequest = batch
  BY DEF GuardedRequest
<1> HIDE DEF a, b, c, d, e, f
<1>3. \A o : Host(o, "user", 0, "open") => Host(Reduce(o, a), "call", 0, "open")
  BY <1>1, HostMessage
<1>4. /\ \A o : Host(o, "call", 0, "open") => Host(Reduce(o, b), "call", 0, "open")
      /\ \A o : Host(o, "call", 0, "open") => Host(Reduce(o, e), "call", 0, "waiting")
  BY <1>1, HostWrite
<1>5. /\ \A o : Host(o, "call", 0, "open") => Host(Reduce(o, c), "call", 0, "open")
      /\ \A o : Host(o, "call", 0, "open") => Host(Reduce(o, d), "call", 0, "open")
  BY <1>1, HostApproval
<1>6. \A o : Host(o, "call", 0, "waiting") => Host(Reduce(o, f), "call", 0, "waiting")
  BY <1>1, HostTool
<1>7. \A o : Host(o, "user", 0, "open") => Host(ReplayWithSpecs(o, batch), "call", 0, "waiting")
  BY <1>3, <1>4, <1>5, <1>6, ReplaySix
<1> HIDE DEF batch
<1>8. Leads(<<batch>>, "user", 0, "open", "call", 0, "waiting")
  BY <1>7, LeadsOne
<1> QED
  BY <1>2, <1>8

LEMMA GuardedRunLeads ==
  ASSUME NEW result \in Results, NEW end, NEW t2, NEW r2, NEW p2,
         Leads(end, "call", 0, "open", t2, r2, p2)
  PROVE  Leads(GuardedRun(result, end), "user", 0, "open", t2, r2, p2)
<1> DEFINE g == Event("approval_granted")
           u == Event("approval_consumed")
           q == FencedEvent("approval_resume_started", 1)
           v == Event("write_approved")
           y == Event("tool_dispatch_started")
           s == Event("write_submitting")
           a == GuardedRequest
           b == <<g>>
           c == <<u, q, v, y, s>>
           d == WriteEnd(result)
           w == <<a, b, c, d>>
<1>1. /\ g.type = "approval_granted" /\ u.type = "approval_consumed" /\ v.type = "write_approved"
      /\ s.type = "write_submitting" /\ g.type \in ApprovalEvents /\ u.type \in ApprovalEvents
      /\ q.type \in ApprovalEvents /\ q.token \in Nat /\ y.type = "tool_dispatch_started"
  BY DEF Event, FencedEvent, ApprovalEvents
<1>2. GuardedRun(result, end) = w \o end
  BY DEF GuardedRun
<1> HIDE DEF g, u, q, v, y, s
<1>3. /\ Leads(<<a>>, "user", 0, "open", "call", 0, "waiting")
      /\ Leads(<<d>>, "call", 0, "open", "call", 0, "open")
  BY RequestLeads, WriteEndLeads
<1>4. Leads(<<b>>, "call", 0, "waiting", "call", 0, "waiting")
  BY <1>1, ApprovalLeads
<1>5. /\ \A o : Host(o, "call", 0, "waiting") => Host(Reduce(o, u), "call", 0, "waiting")
      /\ \A o : Host(o, "call", 0, "waiting") => Host(Reduce(o, q), "call", 0, "waiting")
  BY <1>1, HostApproval
<1>6. /\ \A o : Host(o, "call", 0, "waiting") => Host(Reduce(o, v), "call", 0, "open")
      /\ \A o : Host(o, "call", 0, "open") => Host(Reduce(o, s), "call", 0, "open")
  BY <1>1, HostWrite
<1>7. \A o : Host(o, "call", 0, "open") => Host(Reduce(o, y), "call", 0, "open")
  BY <1>1, HostTool
<1>8. Leads(<<c>>, "call", 0, "waiting", "call", 0, "open")
  <2>1. \A o : Host(o, "call", 0, "waiting") => Host(ReplayWithSpecs(o, c), "call", 0, "open")
    BY <1>5, <1>6, <1>7, ReplayFive
  <2> HIDE DEF c
  <2> QED
    BY <2>1, LeadsOne
<1> HIDE DEF a, b, c, d
<1>9. Leads(<<c, d>>, "call", 0, "waiting", "call", 0, "open")
  BY <1>3, <1>8, LeadsTwo
<1>10. Leads(<<b, c, d>>, "call", 0, "waiting", "call", 0, "open")
  BY <1>4, <1>9, LeadsThree
<1>11. Leads(w, "user", 0, "open", "call", 0, "open")
  BY <1>3, <1>10, LeadsFour
<1> HIDE DEF w
<1> QED
  BY <1>2, <1>11, LeadsOn

LEMMA GuardedEndLeads ==
  ASSUME NEW result \in Results
  PROVE  \E t2, r2, p2 : Leads(GuardedEnd(result), "call", 0, "open", t2, r2, p2)
<1>1. CASE result = "ok"
  <2> DEFINE e == FencedEvent("approval_resume_completed", 1)
             f == OperationFinished("completed")
             x == ToolEnd("ok")
             y == Answer
             z == << <<e>>, <<f>> >>
  <2>1. e.type = "approval_resume_completed" /\ e.type \in ApprovalEvents
    BY DEF FencedEvent, ApprovalEvents
  <2>2. /\ Leads(x, "call", 0, "open", "answered", 0, "done")
        /\ Leads(y, "answered", 0, "done", "final", 0, "done")
        /\ Leads(<< <<f>> >>, "final", 0, "done", "final", 0, "done")
    BY ToolEndLeads, AnswerLeads, FinishLeads DEF Results, Terminal
  <2>3. GuardedEnd(result) = (x \o y) \o z
    BY <1>1 DEF GuardedEnd
  <2> HIDE DEF e, f
  <2>4. Leads(<< <<e>> >>, "final", 0, "done", "final", 0, "done")
    BY <2>1, ApprovalLeads
  <2>5. Leads(z, "final", 0, "done", "final", 0, "done")
    BY <2>2, <2>4, LeadsTwo
  <2> HIDE DEF x, y, z
  <2>6. Leads(x \o y, "call", 0, "open", "final", 0, "done")
    BY <2>2, LeadsOn
  <2>7. Leads((x \o y) \o z, "call", 0, "open", "final", 0, "done")
    BY <2>5, <2>6, LeadsOn
  <2> QED
    BY <2>3, <2>7
<1>2. CASE result = "error"
  <2> DEFINE e == FencedEvent("approval_resume_failed", 1)
  <2>1. e.type = "approval_resume_failed" /\ e.type \in ApprovalEvents
    BY DEF FencedEvent, ApprovalEvents
  <2>2. GuardedEnd(result) = << <<e>> >>
    BY <1>2 DEF GuardedEnd
  <2> HIDE DEF e
  <2>3. Leads(<< <<e>> >>, "call", 0, "open", "call", 0, "open")
    BY <2>1, ApprovalLeads
  <2> QED
    BY <2>2, <2>3
<1>3. CASE result = "unknown"
  <2>1. GuardedEnd(result) = << >>
    BY <1>3 DEF GuardedEnd
  <2> QED
    BY <2>1, LeadsNowhere
<1> QED
  BY <1>1, <1>2, <1>3 DEF Results

LEMMA ModelFailsLeads ==
  Leads(GuardedModelFails, "call", 0, "open", "answered", 0, "done")
<1> DEFINE s == Event("model_request_started")
           f == Event("model_request_failed")
           e == FencedEvent("approval_resume_failed", 1)
           x == ToolEnd("ok")
           z == << <<s>>, <<f>>, <<e>> >>
<1>1. /\ f.type = "model_request_failed" /\ f.type \in MessageEvents
      /\ e.type = "approval_resume_failed" /\ e.type \in ApprovalEvents
  BY DEF Event, FencedEvent, MessageEvents, ApprovalEvents
<1>2. /\ Leads(x, "call", 0, "open", "answered", 0, "done")
      /\ Leads(<< <<s>> >>, "answered", 0, "done", "answered", 1, "done")
  BY ToolEndLeads, StartedLeads DEF Results
<1>3. GuardedModelFails = x \o z
  BY DEF GuardedModelFails
<1> HIDE DEF s, f, e
<1>4. \A o : Host(o, "answered", 1, "done") => Host(Reduce(o, f), "answered", 0, "done")
  BY <1>1, HostMessage
<1>5. Leads(<< <<f>> >>, "answered", 1, "done", "answered", 0, "done")
  BY <1>4, LeadsEvent
<1>6. Leads(<< <<e>> >>, "answered", 0, "done", "answered", 0, "done")
  BY <1>1, ApprovalLeads
<1>7. Leads(<< <<f>>, <<e>> >>, "answered", 1, "done", "answered", 0, "done")
  BY <1>5, <1>6, LeadsTwo
<1>8. Leads(z, "answered", 0, "done", "answered", 0, "done")
  BY <1>2, <1>7, LeadsThree
<1> HIDE DEF x, z
<1> QED
  BY <1>2, <1>3, <1>8, LeadsOn

LEMMA RejectionLeads == Leads(GuardedRejection, "user", 0, "open", "answered", 0, "done")
<1> DEFINE g == Event("approval_rejected")
           v == WriteFailed(TRUE, 0)
           e == ToolResultEvent("tool_completed", "error", 0)
           m == ResultMessage
           a == GuardedRequest
           b == <<g>>
           c == <<v, e, m>>
           d == <<OperationFinished("cancelled")>>
<1>1. /\ g.type = "approval_rejected" /\ g.type \in ApprovalEvents /\ v.type = "write_failed"
      /\ e.type \in ResultEvents /\ e.result \in ToolResults
      /\ m.type = "message_appended" /\ m.type \in MessageEvents /\ m.message = "toolResult"
      /\ TranscriptAfter("call", "toolResult") = "answered"
  BY DEF Event, WriteFailed, ToolResultEvent, ResultMessage, MessageEvent, ApprovalEvents,
         MessageEvents, ResultEvents, ToolResults, TranscriptAfter
<1>2. /\ Leads(<<a>>, "user", 0, "open", "call", 0, "waiting")
      /\ Leads(<<d>>, "answered", 0, "done", "answered", 0, "done")
  BY RequestLeads, FinishLeads DEF Terminal
<1>3. GuardedRejection = <<a, b, c, d>>
  BY DEF GuardedRejection
<1> HIDE DEF g, v, e, m
<1>4. Leads(<<b>>, "call", 0, "waiting", "call", 0, "waiting")
  BY <1>1, ApprovalLeads
<1>5. \A o : Host(o, "call", 0, "waiting") => Host(Reduce(o, v), "call", 0, "open")
  BY <1>1, HostWrite
<1>6. \A o : Host(o, "call", 0, "open") => Host(Reduce(o, e), "call", 0, "done")
  BY <1>1, HostResult
<1>7. \A o : Host(o, "call", 0, "done") => Host(Reduce(o, m), "answered", 0, "done")
  BY <1>1, HostMessage
<1>8. Leads(<<c>>, "call", 0, "waiting", "answered", 0, "done")
  <2>1. \A o : Host(o, "call", 0, "waiting") => Host(ReplayWithSpecs(o, c), "answered", 0, "done")
    BY <1>5, <1>6, <1>7, ReplayThree
  <2> HIDE DEF c
  <2> QED
    BY <2>1, LeadsOne
<1> HIDE DEF a, b, c, d
<1>9. Leads(<<c, d>>, "call", 0, "waiting", "answered", 0, "done")
  BY <1>2, <1>8, LeadsTwo
<1>10. Leads(<<b, c, d>>, "call", 0, "waiting", "answered", 0, "done")
  BY <1>4, <1>9, LeadsThree
<1> QED
  BY <1>2, <1>3, <1>10, LeadsFour

LEMMA ExpiryLeads ==
  Leads(<< GuardedRequest, <<Event("approval_expired")>> >>, "user", 0, "open", "call", 0, "waiting")
<1> DEFINE e == Event("approval_expired")
           a == GuardedRequest
           b == <<e>>
<1>1. e.type = "approval_expired" /\ e.type \in ApprovalEvents
  BY DEF Event, ApprovalEvents
<1>2. Leads(<<a>>, "user", 0, "open", "call", 0, "waiting")
  BY RequestLeads
<1> HIDE DEF e
<1>3. Leads(<<b>>, "call", 0, "waiting", "call", 0, "waiting")
  BY <1>1, ApprovalLeads
<1> HIDE DEF a, b
<1>4. Leads(<<a, b>>, "user", 0, "open", "call", 0, "waiting")
  BY <1>2, <1>3, LeadsTwo
<1> QED
  BY <1>4 DEF a, b, e

-----------------------------------------------------------------------------
(* Where recovery starts *)

LEMMA RunsLead ==
  ASSUME NEW kind \in {"tool", "tool_write", "guarded", "direct"}, NEW run \in Runs(kind)
  PROVE  \E t2, r2, p2 : Leads(run, "user", 0, "open", t2, r2, p2)
<1>1. CASE kind = "tool"
  <2>1. \/ \E safe \in BOOLEAN, r \in Results : run = ToolRun(safe, ToolEnd(r))
        \/ \E safe \in BOOLEAN, r \in Results : run = ToolRun(safe, SplitToolEnd(r))
    BY <1>1 DEF Runs
  <2>2. ASSUME NEW safe \in BOOLEAN, NEW r \in Results, run = ToolRun(safe, ToolEnd(r))
        PROVE  Leads(run, "user", 0, "open", "final", 0, "done")
    BY <2>2, ToolEndLeads, ToolRunLeads
  <2>3. ASSUME NEW safe \in BOOLEAN, NEW r \in Results, run = ToolRun(safe, SplitToolEnd(r))
        PROVE  Leads(run, "user", 0, "open", "final", 0, "done")
    BY <2>3, SplitToolEndLeads, ToolRunLeads
  <2> QED
    BY <2>1, <2>2, <2>3
<1>2. CASE kind = "tool_write"
  <2>1. \E safe \in BOOLEAN, r \in Results : run = ToolWriteRun(safe, r)
    BY <1>2 DEF Runs
  <2> QED
    BY <2>1, ToolWriteRunLeads
<1>3. CASE kind = "guarded"
  <2>1. \/ \E r \in Results : run = GuardedRun(r, GuardedEnd(r))
        \/ run = GuardedRun("ok", GuardedModelFails)
        \/ run = GuardedRejection
        \/ run = << GuardedRequest, <<Event("approval_expired")>> >>
    BY <1>3 DEF Runs
  <2>2. ASSUME NEW r \in Results, run = GuardedRun(r, GuardedEnd(r))
        PROVE  \E t2, r2, p2 : Leads(run, "user", 0, "open", t2, r2, p2)
    <3>1. PICK t2, r2, p2 : Leads(GuardedEnd(r), "call", 0, "open", t2, r2, p2)
      BY GuardedEndLeads
    <3>2. Leads(GuardedRun(r, GuardedEnd(r)), "user", 0, "open", t2, r2, p2)
      BY <3>1, GuardedRunLeads
    <3> QED
      BY <2>2, <3>2
  <2>3. CASE run = GuardedRun("ok", GuardedModelFails)
    <3>1. Leads(GuardedRun("ok", GuardedModelFails), "user", 0, "open", "answered", 0, "done")
      BY ModelFailsLeads, GuardedRunLeads DEF Results
    <3> QED
      BY <2>3, <3>1
  <2>4. CASE run = GuardedRejection
    BY <2>4, RejectionLeads
  <2>5. CASE run = << GuardedRequest, <<Event("approval_expired")>> >>
    BY <2>5, ExpiryLeads
  <2> QED
    BY <2>1, <2>2, <2>3, <2>4, <2>5
<1>4. CASE kind = "direct"
  BY <1>4, DirectRunLeads DEF Runs
<1> QED
  BY <1>1, <1>2, <1>3, <1>4

LEMMA StartIsHost == Host(StartedOperation, "user", 0, "open")
<1> DEFINE o == StartedOperation
<1>1. o \in Operations
  BY DEF StartedOperation, Operations, ToolRecords, ApprovalRecords, WriteRecords, Phases, Transcripts,
         ToolPhases, ToolResults, ApprovalStates, ResumeStates, WriteStates
<1>2. /\ o.phase = "running" /\ o.transcript = "user" /\ o.requests = 0 /\ o.tool.phase = "none"
      /\ o.write.state = "none"
  BY DEF StartedOperation
<1> HIDE DEF o
<1> QED
  BY <1>1, <1>2 DEF Host, LogOK, o

\* Every log a host leaves behind is one LogOK describes.
LEMMA CrashFacts ==
  ASSUME NEW o \in CrashStates
  PROVE  o \in Operations /\ LogOK(o)
<1>1. PICK kind \in RunKinds : \E run \in Runs(kind) : \E n \in 0..Len(run) :
          o = Prefix(run, n) /\ o.phase # "rejected"
  BY DEF CrashStates
<1>2. PICK run \in Runs(kind) : \E n \in 0..Len(run) : o = Prefix(run, n) /\ o.phase # "rejected"
  BY <1>1
<1>3. PICK n \in 0..Len(run) : o = Prefix(run, n) /\ o.phase # "rejected"
  BY <1>2
<1>4. kind \in {"tool", "tool_write", "guarded", "direct"}
  BY RecoveryAssumption
<1>5. PICK t2, r2, p2 : Leads(run, "user", 0, "open", t2, r2, p2)
  BY <1>4, RunsLead
<1>6. n \in Nat
  BY <1>5 DEF Leads
<1>7. PICK h : Walk(StartedOperation, run, n, h) /\ Prefix(run, n) = h[n]
  BY <1>6, PrefixWalks
<1>8. Fine(h[n])
  BY <1>5, <1>7, StartIsHost DEF Leads
<1>9. o # Rejected
  BY <1>3, RejectedPhase
<1> QED
  BY <1>3, <1>7, <1>8, <1>9 DEF Fine

LEMMA RecoveryStarts == RInit => RInv
<1> SUFFICES ASSUME RInit PROVE RInv
  OBVIOUS
<1>1. op \in Operations /\ LogOK(op)
  BY CrashFacts DEF RInit
<1>2. /\ effect \in Effects /\ effect.inflight + effect.applied <= 1
      /\ op.write.state \notin Uncertain => effect.inflight = 0
  <2> DEFINE none == [sent |-> 0, inflight |-> 0, applied |-> 0]
             inflight == [sent |-> 1, inflight |-> 1, applied |-> 0]
             applied == [sent |-> 1, inflight |-> 0, applied |-> 1]
             dropped == [sent |-> 1, inflight |-> 0, applied |-> 0]
  <2>1. /\ effect \in {none, inflight, applied, dropped}
        /\ op.write.state \notin Uncertain => effect \in {none, applied, dropped}
    BY <1>1 DEF RInit, EffectsAt, Uncertain
  <2>2. /\ \A x \in {none, inflight, applied, dropped} : x \in Effects /\ x.inflight + x.applied <= 1
        /\ \A x \in {none, applied, dropped} : x.inflight = 0
    BY DEF Effects
  <2> QED
    BY <2>1, <2>2
<1>3. FlightOK(op, effect)
  BY <1>2 DEF FlightOK
<1>4. toolRuns \in {0, 1} /\ (op.tool.phase \in {"none", "intent_recorded"} => toolRuns = 0)
  BY DEF RInit, ToolRunsAt
<1>5. /\ ver = 1 /\ late = FALSE /\ claim = AbsentRow /\ rclaim = AbsentRow
      /\ call = [w \in Workers |-> Idle] /\ rec = [w \in Workers |-> RIdle]
  BY DEF RInit
<1>6. claim \in Claims /\ rclaim \in Claims /\ rclaim.gen = 0 /\ rclaim.expires = 0
  BY <1>5 DEF AbsentRow, Claims
<1>7. Idle \in CallStates
  BY IdleGood DEF GoodCall
<1>8. call \in [Workers -> CallStates] /\ \A w \in Workers : Serving(call[w], op, ver, effect)
  BY <1>5, <1>7, ServingIdle
<1>9. RIdle \in RecStates /\ RIdle.pc = "idle" /\ RIdle.gen = 0
  BY DEF RIdle, RecStates, Unattended, ToolResults
<1>10. MaxRecoveries \in Nat /\ 0 <= 2 * MaxRecoveries
  BY RecoveryAssumption
<1>11. rec \in [Workers -> RecStates] /\ \A w \in Workers : RecTyped(rec[w], rclaim)
  BY <1>5, <1>6, <1>9, <1>10 DEF RecTyped
<1>12. \A w \in Workers : ~HoldsRecovery(w)
  BY <1>6 DEF HoldsRecovery, LeaseCurrent, Held
<1>13. ToolOK(op, toolRuns, rec)
  BY <1>4, <1>5, <1>9 DEF ToolOK
<1>14. ver \in Nat /\ late \in BOOLEAN /\ toolRuns \in Nat /\ rclaim.gen <= 2 * MaxRecoveries
  <2>1. late = FALSE /\ ver = 1
    BY <1>5
  <2>2. late \in BOOLEAN
    BY <2>1, Zenon
  <2>3. ver \in Nat
    BY <2>1
  <2>4. toolRuns \in Nat
    BY <1>4
  <2>5. rclaim.gen <= 2 * MaxRecoveries
    BY <1>6, <1>10
  <2> QED
    BY <2>2, <2>3, <2>4, <2>5
<1>15. effect \in Effects
  BY <1>2
<1> QED
  BY <1>1, <1>3, <1>6, <1>8, <1>11, <1>12, <1>13, <1>14, <1>15 DEF RInv

-----------------------------------------------------------------------------
(* Recovery, for any number of workers *)

LEMMA RecoveryInvariance == RSpec => []RInv
<1>1. RInv /\ [RNext]_rvars => RInv'
  BY RecoveryKeeps
<1> QED
  BY <1>1, RecoveryStarts, PTL DEF RSpec

\* The Operation, both lease rows, the calls of the services and the places of
\* the recovering workers stay of their types; no batch that the executor or a
\* service commits replays to a rejection.
THEOREM RecoveryTypeCorrect == RSpec => []RTypeOK
<1>1. RInv => RTypeOK
  <2> SUFFICES ASSUME RInv PROVE RTypeOK
    OBVIOUS
  <2>1. TypeOK
    BY DEF RInv, TypeOK, Claims, Effects
  <2>2. rclaim \in [owner : Workers \cup {NoOwner}, expires : {0, 1}, gen : 0..(2 * MaxRecoveries)]
    BY RecoveryAssumption DEF RInv, Claims
  <2>3. ASSUME NEW w \in Workers
        PROVE  /\ rec[w].pc \in {"idle", "plan", "act", "model", "answered", "tool", "check", "store",
                                 "write", "writing", "release"}
               /\ rec[w].gen \in 0..rclaim.gen
               /\ rec[w].result \in ToolResults \cup Transcripts \cup {"failed"}
    BY DEF RInv, RecTyped, RecStates, Claims
  <2> QED
    BY <2>1, <2>2, <2>3 DEF RInv, RTypeOK
<1> QED
  BY <1>1, RecoveryInvariance, PTL

\* RecoveryExecutor appends what the host did not: however often recovery is
\* cut short and taken over, the messages stay in the order a model accepts
\* and at most one Model Request is open.
THEOREM TranscriptIntactHolds == RSpec => []TranscriptIntact
<1>1. RInv => TranscriptIntact
  BY DEF RInv, LogOK, TranscriptIntact
<1> QED
  BY <1>1, RecoveryInvariance, PTL

\* The planner repeats only a tool whose replay policy is safe: the host and
\* all the workers that recover after it run any other tool at most once.
THEOREM UnsafeToolOnceHolds == RSpec => []UnsafeToolOnce
<1>1. RInv => UnsafeToolOnce
  BY DEF RInv, ToolOK, UnsafeToolOnce
<1> QED
  BY <1>1, RecoveryInvariance, PTL

\* Recovery materializes the tool result of a guarded Write from the settled
\* Write: the result the model is shown is the verdict in the log.
THEOREM ResultMatchesWriteHolds == RSpec => []ResultMatchesWrite
<1>1. RInv => ResultMatchesWrite
  BY DEF RInv, LogOK, ResultMatchesWrite
<1> QED
  BY <1>1, RecoveryInvariance, PTL

\* finalize closes what is open before it completes the Operation: a completed
\* Operation ends in an answer, its tool has a result, its Write is settled and
\* no request to the external system is in flight.
THEOREM CompletedIsClosedHolds == RSpec => []CompletedIsClosed
<1>1. RInv => CompletedIsClosed
  BY DEF RInv, LogOK, FlightOK, CompletedIsClosed, Uncertain
<1> QED
  BY <1>1, RecoveryInvariance, PTL
============================================================================
