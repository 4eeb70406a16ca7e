------------------------------ MODULE EventStream ------------------------------
(***************************************************************************)
(* What a streamed reply promises its client, whichever of the event       *)
(* protocols (Claude Messages, OpenAI Responses) carries it: it begins     *)
(* once, its items are numbered in the order they appear, an item grows    *)
(* only while it is open and is closed once, and the reply ends once, with *)
(* nothing left open.                                                      *)
(***************************************************************************)
EXTENDS Naturals, Sequences, SequencesExt

CONSTANT Kinds  \* what an item may be

VARIABLES
    phase,  \* "idle", "on", "over"
    items,  \* the reply's items so far
    cut     \* the upstream broke off without saying how it ends

vars == <<phase, items, cut>>

Open == {i \in DOMAIN items : items[i].open}

Init == phase = "idle" /\ items = << >> /\ cut = FALSE

Begin == /\ phase = "idle" /\ phase' = "on"
         /\ UNCHANGED <<items, cut>>

Add == /\ phase = "on"
       /\ \E k \in Kinds :
              items' = Append(items, [kind |-> k, data |-> << >>, open |-> TRUE])
       /\ UNCHANGED <<phase, cut>>

Grow == /\ phase = "on" /\ DOMAIN items' = DOMAIN items
        /\ \E i \in Open : \E more \in {items'[i].data} :
               /\ IsStrictPrefix(items[i].data, more)
               /\ items' = [items EXCEPT ![i].data = more]
        /\ UNCHANGED <<phase, cut>>

Close == /\ phase = "on"
         /\ \E i \in Open : items' = [items EXCEPT ![i].open = FALSE]
         /\ UNCHANGED <<phase, cut>>

\* a reply whose upstream broke off may end with items open, or before it began
End == /\ \/ phase = "on" /\ Open = {}
          \/ phase # "over" /\ cut
       /\ phase' = "over"
       /\ UNCHANGED <<items, cut>>

BreakOff == cut' = TRUE /\ UNCHANGED <<phase, items>>

Next == Begin \/ Add \/ Grow \/ Close \/ End \/ BreakOff

Spec == Init /\ [][Next]_vars
=============================================================================
