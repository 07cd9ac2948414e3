---------------------------- MODULE MCModelRetry ----------------------------
(* Instance of ModelRetry: three overlapping calls, a breaker that opens     *)
(* after two failures, one retry per call.                                   *)
EXTENDS ModelRetry
=============================================================================
