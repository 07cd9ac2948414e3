-------------------------- MODULE WriteSettlement --------------------------
(***************************************************************************)
(* Progress of the Write service: an uncertain Write is settled, provided  *)
(* faults stop.  Faults are crashes, store errors, a reconciliation that   *)
(* raises, is cancelled or knows no answer, and a lease that lapses under  *)
(* a live worker (its heartbeat was starved): at most MaxFaults happen.    *)
(***************************************************************************)
EXTENDS WriteService

CONSTANT MaxFaults     \* bound on the faults of a behaviour

ASSUME FaultsAssumption == MaxFaults \in Nat

VARIABLE faults        \* the faults so far

lvars == <<svars, faults>>

LInit == Init /\ faults = 0

NoFault == UNCHANGED faults
OneFault == faults < MaxFaults /\ faults' = faults + 1

Defers(w) == call'[w].specs[1].type = "write_reconcile_deferred"

\* No live call uses the lease, so nothing renews it.
Abandoned == \A w \in Workers : call[w].gen # claim.gen

\* The steps a live worker takes to reconcile.
Progress(w) ==
    \/ ReadForReconcile(w) \/ AcquireReconcile(w) \/ BeginEnter(w) \/ BeginVerdict(w)
    \/ ReleaseReconcile(w) \/ (ReconcileAnswers(w) /\ ~Defers(w))
    \/ AppendBatch(w) \/ AppendConflicts(w) \/ AppendFenced(w) \/ AppendLate(w)

LNext ==
    \/ \E w \in Workers : (ApprovalCall(w) \/ ExecuteStep(w) \/ Progress(w)) /\ NoFault
    \/ \E w \in Workers :
          (Crash(w) \/ AppendFails(w) \/ ReconcileRaises(w) \/ ReconcileCancelled(w)) /\ OneFault
    \/ \E w \in Workers : ReconcileAnswers(w) /\ Defers(w) /\ OneFault
    \/ LeaseLapses /\ (IF Abandoned THEN NoFault ELSE OneFault)
    \/ (PassDeadline \/ ExternalResolves) /\ NoFault

\* Workers are scheduled, and somebody calls reconcile again as long as the
\* Write is uncertain: startup recovery reports it and blocks the Session until
\* then.  The external system decides about a request; the lease of a dead
\* worker runs out.
Fairness ==
    /\ \A w \in Workers : WF_lvars(Progress(w) /\ NoFault)
    /\ WF_lvars(ExternalResolves /\ NoFault)
    /\ WF_lvars(LeaseLapses /\ Abandoned /\ NoFault)

LSpec == LInit /\ [][LNext]_lvars /\ Fairness

\* A Write whose outcome is unknown is eventually recorded as succeeded or
\* failed (writes/state_machine.py reconcile): a reconciler that crashed is
\* replaced, a deferred answer is asked for again.  A Write bound to a tool
\* call is left out: once the call was answered as unknown, the reducer
\* refuses the verdict.
UnknownIsSettled ==
    op.write.state = "outcome_unknown" /\ ~op.write.tool
        ~> op.write.state \in {"succeeded", "failed"}

=============================================================================
