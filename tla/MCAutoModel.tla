----------------------------- MODULE MCAutoModel -----------------------------
(* Three models, of which 2 is the free twin of 1: it is shown under 1's   *)
(* name. Two strategies (the third differs from "balanced" only in picking *)
(* the first), two weights, two windows, conversations of two lengths, one *)
(* of which fits the smaller window; two changes.                          *)
EXTENDS AutoModel

Twin == [m \in Models |-> IF m = 2 THEN 1 ELSE m]
=============================================================================
