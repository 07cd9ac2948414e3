--------------------------- MODULE MCAutonomous ---------------------------
(* Two Hosts and one fault; the deployments tell the cases apart.          *)
EXTENDS Autonomous

MCBudget(steps, attempts, calls) ==
    [r \in Resources |-> CASE r = "plan_steps" -> steps
                           [] r = "step_attempts" -> attempts
                           [] r = "model_calls" -> calls]

\* A write that waits for its approval.
Approved == [mode |-> "submit", unsafe |-> {TRUE}, gated |-> TRUE, deadline |-> FALSE,
             uncertain |-> FALSE, budget |-> MCBudget(1, 2, 1), ticket |-> 1]
\* Reads, with one round of correction.
Corrected == [mode |-> "submit", unsafe |-> {FALSE}, gated |-> FALSE, deadline |-> FALSE,
              uncertain |-> FALSE, budget |-> MCBudget(2, 2, 1), ticket |-> 1]
\* A routed prompt for a never-replay step; its stages share one budget and one deadline.
Routed == [mode |-> "prompt", unsafe |-> {TRUE}, gated |-> FALSE, deadline |-> TRUE,
           uncertain |-> FALSE, budget |-> MCBudget(1, 1, 2), ticket |-> 2]
\* A read of one attempt, beside the Writes of another Operation.
Beside == [Corrected EXCEPT !.uncertain = TRUE, !.budget = MCBudget(1, 1, 1)]

\* Plans that are safe to repeat, and never-replay ones that are not writes: no approvals.
Mixed == [Corrected EXCEPT !.unsafe = BOOLEAN]

MCDeployments == {Approved, Corrected, Routed, Beside}
MCMixed == {Mixed}
=============================================================================
