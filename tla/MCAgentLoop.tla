---------------------------- MODULE MCAgentLoop ----------------------------
(***************************************************************************)
(* Four deployments: two turns with queued messages, a batch whose retries *)
(* compete for the tool budget, two runs with malformed call ids, and two  *)
(* runs behind a router.                                                   *)
(***************************************************************************)
EXTENDS AgentLoop

Base == [routed |-> FALSE, mode |-> "one", turns |-> 2, tools |-> 3, attempts |-> 1,
         batches |-> {<< >>, <<1, 2>>}, runs |-> 1, keep |-> 1, window |-> 4]
MCDeployments ==
    {[Base EXCEPT !.tools = 2],
     [Base EXCEPT !.turns = 1, !.attempts = 2, !.batches = {<<1, 2>>}, !.mode = "all"],
     [Base EXCEPT !.turns = 1, !.batches = {<< >>, <<0>>, <<1, 1>>}, !.runs = 2, !.window = 0],
     [Base EXCEPT !.turns = 1, !.routed = TRUE, !.batches = {<< >>}, !.runs = 2]}
=============================================================================
