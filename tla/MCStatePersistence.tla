------------------------- MODULE MCStatePersistence -------------------------
(* StatePersistence for TLC: two handlers, of which either may clear the   *)
(* query log, and one restart, safety and liveness together.               *)
EXTENDS StatePersistence
=============================================================================
