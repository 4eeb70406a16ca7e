------------------------- MODULE MCPluginSupervisor -------------------------
(* Constants of the bounded instance of PluginSupervisor.                  *)
EXTENDS PluginSupervisor

CONSTANTS m1, bad

\* A usable manifest, and a broken one with the same entry.
MCEntry == [m \in Manifests |-> IF m = bad THEN m1 ELSE m]
=============================================================================
