------------------------- MODULE MCProviderService -------------------------
(* Model values for TLC: a first setting, one with another port and one    *)
(* with another key on the same port.                                      *)
EXTENDS ProviderService

CONSTANTS k1, k2, k3, p1, p2, s1, s2, u1, u2

MCFirst == [port |-> p1, key |-> s1]
MCConfigs == {MCFirst, [port |-> p2, key |-> s1], [port |-> p1, key |-> s2]}
=============================================================================
