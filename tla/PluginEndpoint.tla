---------------------------- MODULE PluginEndpoint ----------------------------
(***************************************************************************)
(* What the supervisor of a plugin promises those who call the plugin: one *)
(* process at a time, and an endpoint whose URL and one-time token belong  *)
(* to the same process.  A process is started only when no other one is    *)
(* left, except those that somebody is already on the way to kill; once it *)
(* is on record, nothing of an older one is offered any more; an endpoint  *)
(* is offered only for the process on record, and is withdrawn before the  *)
(* record changes.  It is not promised that the process offered is alive.  *)
(***************************************************************************)
CONSTANTS
  Children,  \* processes, each with the URL and the token of its start
  None       \* no process

VARIABLES
  serving,   \* the processes that nobody is about to kill
  started,   \* the process that was started and is not on record yet
  token,     \* the process on record, whose token calls carry
  offered    \* the process whose URL callers are given

vars == <<serving, started, token, offered>>

Init == serving = {} /\ started = None /\ token = None /\ offered = None

Start(c) ==
  /\ serving = {} /\ started = None /\ c \notin {token, offered}
  /\ serving' = {c} /\ started' = c
  /\ UNCHANGED <<token, offered>>

Record ==
  /\ started # None
  /\ token' = started /\ started' = None /\ offered' = None
  /\ UNCHANGED serving

Offer ==
  /\ started = None /\ token # None /\ offered = None
  /\ offered' = token
  /\ UNCHANGED <<serving, started, token>>

Withdraw == offered' = None /\ UNCHANGED <<serving, started, token>>

\* The process ends by itself, or its end is decided.
End == serving' = {} /\ UNCHANGED <<started, token, offered>>

\* A start that came to nothing: the process is ended and its token is void.
Abandon ==
  /\ started = None /\ offered = None
  /\ serving' = {} /\ token' = None
  /\ UNCHANGED <<started, offered>>

Next == (\E c \in Children : Start(c)) \/ Record \/ Offer \/ Withdraw \/ End \/ Abandon

Spec == Init /\ [][Next]_vars
=============================================================================
