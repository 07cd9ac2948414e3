--------------------------- MODULE MCEventStream ---------------------------
(* Instance of EventStream: room for three events and four units, one delta  *)
(* key, one snapshot key; an event of five units never fits.                 *)
EXTENDS EventStream
=============================================================================
