-------------------------- MODULE MCPlanExecution --------------------------
(***************************************************************************)
(* A Plan of three steps: a reads and has a result contract, b has a side  *)
(* effect without approval, c is an approved write that needs a.           *)
(***************************************************************************)
EXTENDS PlanExecution, TLC

MCSourceOrder == <<"a", "b", "c">>
MCRequires == [s \in {"a", "b", "c"} |-> IF s = "c" THEN {"a"} ELSE {}]
MCHints == {[s \in {"a", "b", "c"} |-> {}]}
MCPrepared ==
    [s \in {"a", "b", "c"} |->
        CASE s = "a" -> {"ok"}
          [] s = "b" -> {"ok", "step_precondition_failed"}
          [] s = "c" -> {"ok", "step_not_applicable"}]
WorkerSymmetry == Permutations(Workers)
=============================================================================
