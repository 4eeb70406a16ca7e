---------------------------- MODULE MCCatalogue -----------------------------
(* One source, saved twice, and one plugin that starts once, with the      *)
(* callback of its model list; at most one request for a list fails. The   *)
(* plugin's model is forced to the source first.                           *)
EXTENDS Catalogue

MCForced == [p \in Plugins |-> CHOOSE s \in Sources : TRUE]
=============================================================================
