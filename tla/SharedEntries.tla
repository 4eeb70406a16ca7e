---------------------------- MODULE SharedEntries ----------------------------
(***************************************************************************)
(* What processes that share one file of on/off entries promise each other *)
(* although there is no lock between them.  A call that changes an entry   *)
(* replaces the whole file by something that the file has said during the  *)
(* call, with this one entry set.  So what others have written before the  *)
(* call is never lost; what they write during the call may be.  Calls of   *)
(* one process lose nothing of each other's: none of them replaces the     *)
(* file by something that is older than what another one has written.      *)
(***************************************************************************)
CONSTANTS
  Procs,   \* processes
  Actors,  \* the callers in a process
  Ids,     \* entries
  None     \* no such entry in the file

VARIABLES
  file,    \* the entries of the file
  since    \* since[p][a]: what a call of p may still merge into; {} when there is no call

vars == <<file, since>>

Init ==
  /\ file = [i \in Ids |-> None]
  /\ since = [p \in Procs |-> [a \in Actors |-> {}]]

Begin(p, a) ==
  /\ since[p][a] = {} /\ since' = [since EXCEPT ![p][a] = {file}]
  /\ UNCHANGED file

\* A call may end without having changed the file.
End(p, a) ==
  /\ since[p][a] # {} /\ since' = [since EXCEPT ![p][a] = {}]
  /\ UNCHANGED file

\* The calls of the process have to merge into this content or later ones; those of others
\* may, but need not.
Replaced(p) ==
  [q \in Procs |-> [b \in Actors |->
     IF since[q][b] = {} THEN {} ELSE (IF q = p THEN {} ELSE since[q][b]) \cup {file'}]]

\* A call replaces the file, and ends or goes on.
Replace(p, a) ==
  /\ \E old \in since[p][a], i \in Ids, v \in BOOLEAN \cup {None} :
       file' = [old EXCEPT ![i] = v]
  /\ since' \in {Replaced(p), [Replaced(p) EXCEPT ![p][a] = {}]}

Next == \E p \in Procs, a \in Actors : Begin(p, a) \/ End(p, a) \/ Replace(p, a)

Spec == Init /\ [][Next]_vars
=============================================================================
