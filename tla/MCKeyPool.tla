----------------------------- MODULE MCKeyPool -----------------------------
(* Model values for TLC.  The requests are interchangeable.                *)
EXTENDS KeyPool, TLC

CONSTANTS c1, c2

MCSetups == {[strategy |-> "round_robin", cools403 |-> FALSE],
             [strategy |-> "health", cools403 |-> TRUE],
             [strategy |-> "failover", cools403 |-> TRUE]}
MCSymmetry == Permutations(Callers)
=============================================================================
