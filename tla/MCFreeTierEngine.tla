-------------------------- MODULE MCFreeTierEngine --------------------------
(* Model values for TLC.                                                   *)
EXTENDS FreeTierEngine

CONSTANTS k1, k2, u1
=============================================================================
