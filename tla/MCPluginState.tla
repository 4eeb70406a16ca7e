--------------------------- MODULE MCPluginState ---------------------------
(* Model values for TLC: two processes and their handlers.                 *)
EXTENDS PluginState

CONSTANTS p1, p2, h1, h2
=============================================================================
