--------------------------- MODULE MCWriteService ---------------------------
(* Instance of WriteSettlement: two workers race on one Write, with two      *)
(* faults.  MaxGen is large enough never to stop a worker: if it did, the    *)
(* Write would stay unsettled.                                               *)
EXTENDS WriteSettlement
=============================================================================
