---------------------------- MODULE MCStreamResume ----------------------------
(* One chat request beside the streams that share its slots. *)
EXTENDS StreamResume, TLC
=============================================================================
