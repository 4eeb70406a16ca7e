------------------------ MODULE PluginSupervisorProofs ------------------------
(***************************************************************************)
(* Proofs about PluginSupervisor, for every set of manifests, of children  *)
(* and every channel capacity: type correctness, and the safety invariants *)
(* of the life cycle from one inductive invariant, Safe; and that the      *)
(* supervisor implements PluginEndpoint, step by step.                     *)
(***************************************************************************)
EXTENDS PluginSupervisor, SequenceTheorems, TLAPS

-----------------------------------------------------------------------------
(* Type correctness.                                                       *)

\* What SetStatus leaves behind is well typed whatever status it was asked for.
LEMMA SetStatusType ==
  ASSUME TypeOK, NEW s \in Statuses, SetStatus(s)
  PROVE  /\ enabled' \in BOOLEAN /\ status' \in Statuses
         /\ pid' \in Children \cup {None}
         /\ auth' \in Children \cup {None}
         /\ url' \in Children \cup {None}
BY DEF SetStatus, TypeOK, pluginVars, Statuses

\* Reading a line leaves a queue of lines that fits the channel.
LEMMA TailType ==
  ASSUME lines \in Seq(Lines), Len(lines) <= ChanCap, lines # <<>>
  PROVE  /\ Tail(lines) \in Seq(Lines) /\ Len(Tail(lines)) <= ChanCap
         /\ Head(lines) \in Lines
<1>1. /\ Head(lines) \in Lines /\ Tail(lines) \in Seq(Lines)
      /\ Len(Tail(lines)) = Len(lines) - 1
  BY HeadTailProperties
<1>2. Len(lines) \in Nat
  BY LenProperties
<1>3. Len(Tail(lines)) <= ChanCap
  BY <1>1, <1>2, ChanAssumption
<1>4. QED
  BY <1>1, <1>3

LEMMA NoLinesType == <<>> \in Seq(Lines) /\ Len(<<>>) <= ChanCap
BY ChanAssumption

\* Moving one control point, and starting or ending a request, stay within ActStates.
LEMMA SetType ==
  ASSUME act \in [Actors -> ActStates], NEW a \in Actors, NEW pc \in ActPCs, Set(a, pc)
  PROVE  act' \in [Actors -> ActStates]
BY DEF Set, ActStates

LEMMA BeginType ==
  ASSUME act \in [Actors -> ActStates], NEW a \in Actors, NEW pc \in ActPCs,
         NEW kind \in {"none", "off", "delete", "gone", "close"}
  PROVE  [act EXCEPT ![a].pc = pc, ![a].kind = kind] \in [Actors -> ActStates]
BY DEF ActStates

LEMMA VictimType ==
  ASSUME act \in [Actors -> ActStates], NEW a \in Actors, NEW pc \in ActPCs,
         NEW c \in Children \cup {None}
  PROVE  [act EXCEPT ![a].pc = pc, ![a].victim = c] \in [Actors -> ActStates]
BY DEF ActStates

\* Leaving a spawn cycle resets the supervisor's locals and drops its channel.
LEMMA EndCycleType ==
  ASSUME NEW pc \in SupPCs, NEW then \in {"spawn", "markStarting", "markFatal", "done"},
         EndCycle(pc, then)
  PROVE  sup' \in SupStates /\ lines' \in Seq(Lines) /\ Len(lines') <= ChanCap
BY NoLinesType DEF EndCycle, SupStates

LEMMA ErrOfType == \A m \in Manifests : ErrOf(m) \in Broken \cup {None, ReadError}
BY DEF ErrOf

\* Init and every action keep the variables within their types.
LEMMA TypeInit == Init => TypeOK
<1> SUFFICES ASSUME Init PROVE TypeOK
  OBVIOUS
<1>1. manErr \in Broken \cup {None, ReadError}
  BY ErrOfType DEF Init
<1>2. sup \in SupStates
  BY DEF Init, SupStates, SupPCs
<1>3. act \in [Actors -> ActStates]
  BY DEF Init, ActStates, ActPCs
<1>4. lines \in Seq(Lines) /\ Len(lines) <= ChanCap
  BY NoLinesType DEF Init
<1>5. QED
  BY <1>1, <1>2, <1>3, <1>4 DEF Init, TypeOK, Statuses

LEMMA TypePreserved == TypeOK /\ [Next]_vars => TypeOK'
<1> SUFFICES ASSUME TypeOK, [Next]_vars PROVE TypeOK'
  OBVIOUS
<1>1. CASE SupTop
  <2>0. \A pc \in SupPCs : [sup EXCEPT !.pc = pc] \in SupStates
    BY DEF TypeOK, SupStates
  <2>1. sup' \in SupStates
    <3>1. CASE sup' = [sup EXCEPT !.pc = "kill", !.then = "spawn"]
      BY <3>1 DEF TypeOK, SupStates, SupPCs
    <3>2. CASE \E pc \in {"done", "markDisabled", "markBroken"} : Goto(pc)
      BY <2>0, <3>2 DEF Goto, SupPCs
    <3>3. QED
      BY <1>1, <3>1, <3>2 DEF SupTop
  <2>2. QED
    BY <1>1, <2>1 DEF SupTop, TypeOK, pluginVars, manVars, managerVars, childVars
<1>2. CASE SupMark
  <2>1. PICK s \in Statuses, pc \in SupPCs : SetStatus(s) /\ Goto(pc)
    BY <1>2 DEF SupMark, Statuses, SupPCs
  <2>2. sup' \in SupStates
    BY <2>1 DEF Goto, TypeOK, SupStates
  <2>3. QED
    BY <1>2, <2>1, <2>2, SetStatusType DEF SupMark, TypeOK, manVars, managerVars, childVars
<1>3. CASE SupParkedRetry
  <2>1. sup' \in SupStates
    BY <1>3 DEF SupParkedRetry, Goto, TypeOK, SupStates, SupPCs
  <2>2. QED
    BY <1>3, <2>1 DEF SupParkedRetry, TypeOK, pluginVars, manVars, managerVars, childVars
<1>4. CASE SupBrokenRetry
  BY <1>4, ErrOfType DEF SupBrokenRetry, Goto, TypeOK, SupStates, SupPCs, pluginVars, managerVars, childVars
<1>5. CASE SupStopWaiting
  BY <1>5 DEF SupStopWaiting, Goto, TypeOK, SupStates, SupPCs, pluginVars, manVars, managerVars, childVars
<1>6. CASE SupKill
  <2>1. sup' \in SupStates
    BY <1>6, ManifestAssumption DEF SupKill, TypeOK, SupStates, SupPCs
  <2>2. QED
    BY <1>6, <2>1 DEF SupKill, TypeOK, manVars, managerVars
<1>7. ASSUME NEW c \in FreshChildren, SupSpawn(c) PROVE TypeOK'
  <2>1. sup' \in SupStates
    BY <1>7 DEF FreshChildren, SupSpawn, TypeOK, SupStates, SupPCs
  <2>2. QED
    BY <1>7, <2>1 DEF FreshChildren, SupSpawn, TypeOK, pluginVars, manVars, managerVars
<1>9. CASE SupAdopt
  BY <1>9 DEF SupAdopt, Goto, TypeOK, SupStates, SupPCs, manVars, managerVars, childVars
<1>10. ASSUME NEW pc \in {"failCheck", "backoff"}, Abort(pc) PROVE TypeOK'
  BY <1>10, NoLinesType DEF Abort, EndCycle, TypeOK, SupStates, SupPCs, manVars, managerVars
<1>11. CASE SupAwaitTimeout
  BY <1>10, <1>11 DEF SupAwaitTimeout
<1>12. CASE SupAwaitEof
  BY <1>10, <1>12 DEF SupAwaitEof
<1>13. CASE SupAwaitLine
  <2>1. lines # <<>> /\ Tail(lines) \in Seq(Lines) /\ Len(Tail(lines)) <= ChanCap
    BY <1>13, TailType DEF SupAwaitLine, TypeOK
  <2>2. CASE Head(lines) = "log"
    BY <1>13, <2>1, <2>2 DEF SupAwaitLine, TypeOK, pluginVars, manVars, managerVars
  <2>3. CASE Head(lines) \in {"forged", "fatal"}
    BY <1>10, <1>13, <2>3 DEF SupAwaitLine
  <2>4. CASE Head(lines) \in {"ready", "need_config"} /\ (closed \/ ~enabled)
    BY <1>10, <1>13, <2>4 DEF SupAwaitLine, TypeOK
  <2>5. CASE Head(lines) \in {"ready", "need_config"} /\ ~closed /\ enabled
    BY <1>13, <2>1, <2>5 DEF SupAwaitLine, Goto, TypeOK, SupStates, SupPCs, Statuses, manVars, managerVars
  <2>6. QED
    BY <1>13, <2>2, <2>3, <2>4, <2>5 DEF SupAwaitLine
<1>14. CASE SupFailCheck
  <2>1. sup' \in SupStates
    BY <1>14 DEF SupFailCheck, Goto, TypeOK, SupStates, SupPCs
  <2>2. QED
    BY <1>14, <2>1 DEF SupFailCheck, TypeOK, pluginVars, manVars, managerVars, childVars
<1>15. CASE SupBackoffTimer
  <2>1. sup' \in SupStates
    BY <1>15 DEF SupBackoffTimer, Goto, TypeOK, SupStates, SupPCs
  <2>2. QED
    BY <1>15, <2>1 DEF SupBackoffTimer, TypeOK, pluginVars, manVars, managerVars, childVars
<1>16. CASE SupBackoffRetry
  <2>1. sup' \in SupStates
    BY <1>16 DEF SupBackoffRetry, Goto, TypeOK, SupStates, SupPCs
  <2>2. QED
    BY <1>16, <2>1 DEF SupBackoffRetry, TypeOK, pluginVars, manVars, managerVars, childVars
<1>17. CASE SupDrain
  <2>1. sup' \in SupStates
    BY <1>17 DEF SupDrain, Goto, TypeOK, SupStates, SupPCs
  <2>2. QED
    BY <1>17, <2>1 DEF SupDrain, TypeOK, pluginVars, manVars, managerVars, childVars
<1>18. CASE SupSpawnFails \/ SupBadEntry
  <2>1. sup' \in SupStates /\ lines' \in Seq(Lines) /\ Len(lines') <= ChanCap
    BY <1>18, EndCycleType DEF SupSpawnFails, SupBadEntry, SupBadEntry, SupPCs
  <2>2. QED
    BY <1>18, <2>1 DEF SupSpawnFails, SupBadEntry, SupBadEntry, TypeOK, pluginVars, manVars, managerVars
<1>19. CASE SupStableExit
  <2>1. sup' \in SupStates /\ lines' \in Seq(Lines) /\ Len(lines') <= ChanCap
    BY EndCycleType, <1>19 DEF SupStableExit, SupPCs
  <2>2. QED
    BY <1>19, <2>1 DEF SupStableExit, TypeOK, pluginVars, manVars, managerVars
<1>20. CASE SupStableRetry
  <2>1. sup' \in SupStates /\ lines' \in Seq(Lines) /\ Len(lines') <= ChanCap
    BY EndCycleType, <1>20 DEF SupStableRetry, SupPCs
  <2>2. QED
    BY <1>20, <2>1 DEF SupStableRetry, TypeOK, pluginVars, manVars, managerVars
<1>21. CASE SupStableStop
  <2>1. sup' \in SupStates /\ lines' \in Seq(Lines) /\ Len(lines') <= ChanCap
    BY EndCycleType, <1>21 DEF SupStableStop, SupPCs
  <2>2. QED
    BY <1>21, <2>1 DEF SupStableStop, TypeOK, pluginVars, manVars, managerVars
<1>22. CASE SupStableEof
  <2>1. sup' \in SupStates /\ lines' \in Seq(Lines) /\ Len(lines') <= ChanCap
    BY EndCycleType, <1>22 DEF SupStableEof, SupPCs
  <2>2. QED
    BY <1>22, <2>1 DEF SupStableEof, TypeOK, pluginVars, manVars, managerVars
<1>23. CASE SupStableLine
  <2>1. Tail(lines) \in Seq(Lines) /\ Len(Tail(lines)) <= ChanCap
    BY <1>23, TailType DEF SupStableLine, TypeOK
  <2>2. sup' \in SupStates /\ lines' \in Seq(Lines) /\ Len(lines') <= ChanCap
    <3>1. CASE Head(lines) = "fatal"
      BY EndCycleType, <1>23, <3>1 DEF SupStableLine, SupPCs
    <3>2. CASE Head(lines) # "fatal"
      BY <1>23, <2>1, <3>2 DEF SupStableLine, Goto, TypeOK, SupStates, SupPCs
    <3>3. QED
      BY <3>1, <3>2
  <2>3. QED
    BY <1>23, <2>2 DEF SupStableLine, TypeOK, pluginVars, manVars, managerVars
<1>24. CASE SupReadyCommit
  <2>1. sup' \in SupStates /\ lines' \in Seq(Lines) /\ Len(lines') <= ChanCap
    BY EndCycleType, <1>24 DEF SupReadyCommit, SupPCs
  <2>2. url' \in Children \cup {None} /\ status' \in Statuses
    BY <1>24 DEF SupReadyCommit, TypeOK, SupStates, Statuses
  <2>3. QED
    BY <1>24, <2>1, <2>2 DEF SupReadyCommit, TypeOK, manVars, managerVars
<1>25. CASE ChildPrints
  <2>1. PICK l \in Lines : lines' = Append(lines, l)
    BY <1>25 DEF ChildPrints
  <2>2. lines' \in Seq(Lines) /\ Len(lines') = Len(lines) + 1
    BY <2>1, AppendProperties DEF TypeOK
  <2>3. Len(lines) \in Nat
    BY LenProperties DEF TypeOK
  <2>4. Len(lines') <= ChanCap
    BY <1>25, <2>2, <2>3, ChanAssumption DEF ChildPrints
  <2>5. QED
    BY <1>25, <2>2, <2>4 DEF ChildPrints, TypeOK, pluginVars, manVars, managerVars
<1>26. CASE ChildDies
  BY <1>26 DEF ChildDies, TypeOK, pluginVars, manVars, managerVars
<1>27. CASE ToggleOn
  <2>1. PICK pc \in ActPCs : Set("operator", pc)
    BY <1>27 DEF ToggleOn, ActPCs
  <2>2. act' \in [Actors -> ActStates]
    BY <2>1, SetType DEF Actors, TypeOK
  <2>3. QED
    BY <1>27, <2>2 DEF ToggleOn, TypeOK, manVars, managerVars, childVars
<1>28. CASE ToggleOff
  <2>1. act' \in [Actors -> ActStates]
    BY <1>28, BeginType DEF ToggleOff, Actors, ActPCs, TypeOK
  <2>2. QED
    BY <1>28, <2>1 DEF ToggleOff, TypeOK, manVars, managerVars, childVars
<1>29. CASE DeleteBegin
  <2>1. act' \in [Actors -> ActStates]
    BY <1>29, BeginType DEF DeleteBegin, Actors, ActPCs, TypeOK
  <2>2. QED
    BY <1>29, <2>1 DEF DeleteBegin, TypeOK, manVars, managerVars, childVars
<1>30. CASE ScanGone
  <2>1. act' \in [Actors -> ActStates]
    BY <1>30, BeginType DEF ScanGone, Actors, ActPCs, TypeOK
  <2>2. QED
    BY <1>30, <2>1 DEF ScanGone, TypeOK, manVars, childVars
<1>31. ASSUME NEW a \in Editors, EnsurePlugin(a) PROVE TypeOK'
  <2>1. act' = act \/ Set(a, "signal")
    BY <1>31 DEF EnsurePlugin
  <2>2. act' \in [Actors -> ActStates]
    BY <2>1, SetType DEF Actors, Editors, ActPCs, TypeOK
  <2>3. QED
    BY <1>31, <2>2, ErrOfType DEF EnsurePlugin, TypeOK, pluginVars, managerVars, childVars
<1>32. CASE CloseBegin
  <2>1. act' \in [Actors -> ActStates]
    BY <1>32, BeginType DEF CloseBegin, Actors, ActPCs, TypeOK
  <2>2. QED
    BY <1>32, <2>1 DEF CloseBegin, TypeOK, pluginVars, manVars, childVars
<1>33. ASSUME NEW a \in Actors, ActorStep(a) PROVE TypeOK'
  <2>1. CASE ActStop(a)
    <3>1. act' \in [Actors -> ActStates]
      BY <2>1, SetType DEF ActStop, ActPCs, TypeOK
    <3>2. QED
      BY <2>1, <3>1 DEF ActStop, TypeOK, pluginVars, manVars, childVars
  <2>2. CASE ActTake(a)
    <3>1. act' \in [Actors -> ActStates]
      BY <2>2, VictimType DEF ActTake, ActPCs, TypeOK
    <3>2. QED
      BY <2>2, <3>1 DEF ActTake, TypeOK, manVars, managerVars, childVars
  <2>3. CASE ActKill(a)
    <3>1. AfterKill(act[a].kind) \in ActPCs
      BY DEF AfterKill, ActPCs
    <3>2. act' \in [Actors -> ActStates]
      BY <2>3, <3>1, VictimType DEF ActKill, TypeOK
    <3>3. QED
      BY <2>3, <3>2 DEF ActKill, TypeOK, pluginVars, manVars, managerVars
  <2>4. CASE ActMark(a)
    <3>1. PICK s \in Statuses, pc \in ActPCs : SetStatus(s) /\ Set(a, pc)
      BY <2>4 DEF ActMark, Statuses, ActPCs
    <3>2. act' \in [Actors -> ActStates]
      BY <3>1, SetType DEF TypeOK
    <3>3. QED
      BY <2>4, <3>1, <3>2, SetStatusType DEF ActMark, TypeOK, manVars, managerVars, childVars
  <2>5. CASE ActSignal(a)
    <3>1. act' \in [Actors -> ActStates]
      BY <2>5, SetType DEF ActSignal, ActPCs, TypeOK
    <3>2. QED
      BY <2>5, <3>1 DEF ActSignal, SignalRetry, TypeOK, pluginVars, manVars, managerVars, childVars
  <2>6. CASE ActUnregister(a)
    <3>1. act' \in [Actors -> ActStates]
      BY <2>6, SetType DEF ActUnregister, ActPCs, TypeOK
    <3>2. QED
      BY <2>6, <3>1 DEF ActUnregister, TypeOK, pluginVars, manVars, childVars
  <2>7. CASE ActSame(a)
    <3>1. act' \in [Actors -> ActStates]
      BY <2>7, SetType DEF ActSame, ActPCs, TypeOK
    <3>2. QED
      BY <2>7, <3>1 DEF ActSame, TypeOK, pluginVars, manVars, managerVars, childVars
  <2>8. QED
    BY <1>33, <2>1, <2>2, <2>3, <2>4, <2>5, <2>6, <2>7 DEF ActorStep
<1>34. CASE UNCHANGED vars
  BY <1>34 DEF vars, TypeOK, pluginVars, manVars, managerVars, childVars
<1>35. QED
  BY <1>1, <1>2, <1>3, <1>4, <1>5, <1>6, <1>7, <1>9, <1>11, <1>12, <1>13, <1>14,
     <1>15, <1>16, <1>17, <1>18, <1>19, <1>20, <1>21, <1>22, <1>23, <1>24, <1>25, <1>26, <1>27,
     <1>28, <1>29, <1>30, <1>31, <1>32, <1>33, <1>34
     DEF Next, Supervisor, Child, Requests

\* Init and every action keep the variables within their types.
THEOREM TypeCorrect == Spec => []TypeOK
BY TypeInit, TypePreserved, PTL DEF Spec

-----------------------------------------------------------------------------
(* What updates of act do to each actor.                                   *)

LEMMA SetFacts ==
  ASSUME act \in [Actors -> ActStates], NEW a \in Actors, NEW pc, Set(a, pc)
  PROVE  \A b \in Actors : /\ act'[b].pc = IF b = a THEN pc ELSE act[b].pc
                           /\ act'[b].kind = act[b].kind
                           /\ act'[b].victim = act[b].victim
BY DEF Set, ActStates

\* A request begins only at an idle actor, and announces no victim.
LEMMA RequestFacts ==
  ASSUME TypeOK, Requests
  PROVE  \A b \in Actors :
           /\ act'[b].victim = act[b].victim
           /\ act[b].pc # "idle" => act'[b] = act[b]
           /\ act'[b] = act[b] \/ act'[b].pc \in {"idle", "same", "signal", "markStarting", "take", "stop"}
           /\ act'[b].kind = "delete" => act[b].kind = "delete" \/ DeleteBegin
<1> USE DEF TypeOK
<1>1. CASE ToggleOn
  BY <1>1 DEF ToggleOn, Set, Actors, ActStates
<1>2. CASE ToggleOff
  BY <1>2 DEF ToggleOff, Actors, ActStates
<1>3. CASE DeleteBegin
  BY <1>3 DEF DeleteBegin, Actors, ActStates
<1>4. CASE ScanGone
  BY <1>4 DEF ScanGone, Actors, ActStates
<1>5. ASSUME NEW a \in Editors, EnsurePlugin(a)
      PROVE  \A b \in Actors :
               /\ act'[b].victim = act[b].victim
               /\ act[b].pc # "idle" => act'[b] = act[b]
               /\ act'[b] = act[b] \/ act'[b].pc = "signal"
               /\ act'[b].kind = act[b].kind
  BY <1>5 DEF EnsurePlugin, Set, Actors, Editors, ActStates
<1>6. CASE CloseBegin
  BY <1>6 DEF CloseBegin, Actors, ActStates
<1>7. QED
  BY <1>1, <1>2, <1>3, <1>4, <1>5, <1>6 DEF Requests

-----------------------------------------------------------------------------
(* What each goroutine leaves alone.                                       *)

LEMMA SupervisorFrame ==
  ASSUME Supervisor
  PROVE  UNCHANGED <<enabled, registered, closed, stopped, act>>
<1> USE DEF managerVars, pluginVars, childVars
<1>1. \A pc : Abort(pc) => UNCHANGED <<enabled, registered, closed, stopped, act>>
  BY DEF Abort
<1>2. \A s : SetStatus(s) => UNCHANGED enabled
  BY DEF SetStatus
<1>3. QED
  BY <1>1, <1>2
     DEF Supervisor, SupTop, SupMark, SupParkedRetry, SupBrokenRetry, SupStopWaiting, SupKill,
         SupSpawn, SupSpawnFails, SupBadEntry, SupAdopt, SupAwaitTimeout, SupAwaitEof, SupAwaitLine,
         SupFailCheck, SupBackoffTimer, SupBackoffRetry, SupDrain, SupStableExit, SupStableRetry,
         SupStableStop, SupStableEof, SupStableLine, SupReadyCommit

LEMMA ChildFrame ==
  ASSUME Child
  PROVE  /\ UNCHANGED <<pluginVars, manVars, managerVars, retry, sup, act>>
         /\ live' \subseteq live
BY DEF Child, ChildPrints, ChildDies

LEMMA RequestFrame ==
  ASSUME Requests
  PROVE  UNCHANGED <<status, pid, auth, url, stopped, retry, sup, live, lines>>
BY DEF Requests, ToggleOn, ToggleOff, DeleteBegin, ScanGone, EnsurePlugin, CloseBegin,
       pluginVars, managerVars, childVars

LEMMA ActorFrame ==
  ASSUME NEW a \in Actors, ActorStep(a)
  PROVE  /\ UNCHANGED <<enabled, auth, man, manErr, closed, sup, lines>>
         /\ live' \subseteq live /\ url' \in {url, None}
<1>1. \A s : SetStatus(s) => UNCHANGED <<enabled, auth>> /\ url' \in {url, None}
  BY DEF SetStatus, pluginVars
<1>2. QED
  BY <1>1 DEF ActorStep, ActStop, ActTake, ActKill, ActSame, ActMark, ActSignal, ActUnregister,
              pluginVars, manVars, managerVars, childVars

-----------------------------------------------------------------------------
(* Safe, conjunct by conjunct.                                             *)

LEMMA SafeInit == Init => Safe
<1> SUFFICES ASSUME Init PROVE Safe
  OBVIOUS
<1>1. TypeOK
  BY TypeInit
<1>2. NoOrphanChild /\ VictimsAreTaken /\ CycleInv /\ WakeupInv /\ KillInv
  BY DEF Init, NoOrphanChild, VictimsAreTaken, CycleInv, WakeupInv, KillInv
<1>3. DeleteInv
  BY DEF Init, DeleteInv, Deleting, Actors
<1>4. QED
  BY <1>1, <1>2, <1>3 DEF Safe

LEMMA VictimsPreserved ==
  ASSUME TypeOK, VictimsAreTaken, [Next]_vars
  PROVE  VictimsAreTaken'
<1> USE DEF VictimsAreTaken
<1>1. CASE Supervisor
  BY <1>1, SupervisorFrame
<1>2. CASE Child
  BY <1>2, ChildFrame
<1>3. CASE Requests
  BY <1>3, RequestFacts
<1>4. ASSUME NEW a \in Actors, ActorStep(a) PROVE VictimsAreTaken'
  <2> USE DEF TypeOK
  <2>1. CASE ActStop(a)
    BY <2>1, SetFacts DEF ActStop
  <2>2. CASE ActTake(a)
    BY <2>2 DEF ActTake, ActStates
  <2>3. CASE ActKill(a)
    BY <2>3 DEF ActKill, ActStates
  <2>4. CASE ActMark(a)
    BY <2>4, SetFacts DEF ActMark
  <2>5. CASE ActSignal(a)
    BY <2>5, SetFacts DEF ActSignal
  <2>6. CASE ActUnregister(a)
    BY <2>6, SetFacts DEF ActUnregister
  <2>7. CASE ActSame(a)
    BY <2>7, SetFacts DEF ActSame
  <2>8. QED
    BY <1>4, <2>1, <2>2, <2>3, <2>4, <2>5, <2>6, <2>7 DEF ActorStep
<1>5. CASE UNCHANGED vars
  BY <1>5 DEF vars
<1>6. QED
  BY <1>1, <1>2, <1>3, <1>4, <1>5 DEF Next

\* The supervisor records a pid before it forgets the child, and clears a pid
\* only with the kill of that child.
LEMMA OrphansPreserved ==
  ASSUME TypeOK, NoOrphanChild, CycleInv, VictimsAreTaken, [Next]_vars
  PROVE  NoOrphanChild'
<1> USE DEF NoOrphanChild, Doomed
<1>1. CASE Supervisor
  <2>1. act' = act
    BY <1>1, SupervisorFrame
  <2>2. CASE SupKill
    BY <2>1, <2>2 DEF SupKill, TypeOK, SupStates
  <2>3. ASSUME NEW c \in FreshChildren, SupSpawn(c) PROVE NoOrphanChild'
    BY <2>1, <2>3 DEF SupSpawn, pluginVars, TypeOK, SupStates
  <2>4. CASE SupAdopt
    BY <2>1, <2>4, SentinelAssumption DEF SupAdopt, childVars, CycleInv, TypeOK
  <2>5. ASSUME NEW pc, Abort(pc), sup.pc = "await" PROVE NoOrphanChild'
    BY <2>1, <2>5 DEF Abort
  <2>6. CASE sup.pc # "adopt" /\ UNCHANGED <<pid, live>>
    BY <2>1, <2>6
  <2>7. \A t : SetStatus(t) => UNCHANGED pid
    BY DEF SetStatus, pluginVars
  <2>8. QED
    BY <1>1, <2>2, <2>3, <2>4, <2>5, <2>6, <2>7
       DEF Supervisor, SupTop, SupMark, SupParkedRetry, SupBrokenRetry, SupStopWaiting,
           SupSpawnFails, SupBadEntry, SupAwaitTimeout, SupAwaitEof, SupAwaitLine, SupFailCheck,
           SupBackoffTimer, SupBackoffRetry, SupDrain, SupStableExit, SupStableRetry,
           SupStableStop, SupStableEof, SupStableLine, SupReadyCommit, pluginVars, childVars
<1>2. CASE Child
  BY <1>2, ChildFrame DEF pluginVars
<1>3. CASE Requests
  BY <1>3, RequestFrame, RequestFacts
<1>4. ASSUME NEW a \in Actors, ActorStep(a) PROVE NoOrphanChild'
  <2> USE DEF TypeOK, pluginVars, childVars
  <2>0. sup' = sup /\ live' \subseteq live
    BY <1>4, ActorFrame
  <2>1. CASE ActStop(a)
    BY <2>0, <2>1, SetFacts DEF ActStop
  <2>2. CASE ActTake(a)
    <3>1. \A b \in Actors \ {a} : act'[b].victim = act[b].victim
      BY <2>2 DEF ActTake, ActStates
    <3>2. act'[a].victim = pid /\ act[a].victim = None
      BY <2>2 DEF ActTake, ActStates, VictimsAreTaken
    <3>3. QED
      BY <2>0, <2>2, <3>1, <3>2, SentinelAssumption DEF ActTake
  <2>3. CASE ActKill(a)
    <3>1. \A b \in Actors \ {a} : act'[b].victim = act[b].victim
      BY <2>3 DEF ActKill, ActStates
    <3>2. QED
      BY <2>0, <2>3, <3>1 DEF ActKill
  <2>4. CASE ActMark(a)
    <3>1. PICK pc : Set(a, pc)
      BY <2>4 DEF ActMark
    <3>2. UNCHANGED pid
      BY <2>4 DEF ActMark, SetStatus
    <3>3. QED
      BY <2>0, <2>4, <3>1, <3>2, SetFacts DEF ActMark
  <2>5. CASE ActSignal(a)
    BY <2>0, <2>5, SetFacts DEF ActSignal
  <2>6. CASE ActUnregister(a)
    BY <2>0, <2>6, SetFacts DEF ActUnregister
  <2>7. CASE ActSame(a)
    BY <2>0, <2>7, SetFacts DEF ActSame
  <2>8. QED
    BY <1>4, <2>1, <2>2, <2>3, <2>4, <2>5, <2>6, <2>7 DEF ActorStep
<1>5. CASE UNCHANGED vars
  BY <1>5 DEF vars, pluginVars, childVars
<1>6. QED
  BY <1>1, <1>2, <1>3, <1>4, <1>5 DEF Next

\* Another goroutine can take the pid and drop the endpoint; only the supervisor
\* writes a pid, a token or an endpoint of a cycle.
LEMMA CyclePreserved ==
  ASSUME TypeOK, CycleInv, [Next]_vars
  PROVE  CycleInv'
<1> USE DEF CycleInv
<1>1. CASE Supervisor
  <2> USE DEF TypeOK, SupStates, pluginVars, childVars
  <2>1. CASE SupTop
    BY <2>1 DEF SupTop, Goto
  <2>2. CASE SupMark
    <3>1. PICK s \in Statuses, pc \in {"parked", "brokenWait", "backoff", "top"} :
              SetStatus(s) /\ Goto(pc)
      BY <2>2 DEF SupMark, Statuses
    <3>2. sup'.pc = pc /\ url' \in {url, None} /\ auth' = auth
      BY <3>1 DEF SetStatus, Goto
    <3>3. QED
      BY <3>2
  <2>3. CASE SupKill
    BY <2>3 DEF SupKill
  <2>4. ASSUME NEW c \in FreshChildren, SupSpawn(c) PROVE CycleInv'
    BY <2>4, SentinelAssumption DEF SupSpawn, FreshChildren
  <2>5. CASE SupAdopt
    BY <2>5 DEF SupAdopt, Goto
  <2>6. ASSUME NEW pc \in {"failCheck", "backoff"}, Abort(pc), sup.pc = "await" PROVE CycleInv'
    BY <2>6 DEF Abort, EndCycle
  <2>7. CASE SupAwaitLine
    <3>1. CASE Head(lines) = "log"
      BY <2>7, <3>1 DEF SupAwaitLine
    <3>2. CASE /\ Head(lines) \in {"ready", "need_config"} /\ ~closed /\ enabled
      BY <2>7, <3>2 DEF SupAwaitLine, Goto
    <3>3. QED
      BY <2>6, <2>7, <3>1, <3>2 DEF SupAwaitLine
  <2>8. CASE SupDrain
    BY <2>8 DEF SupDrain, Goto
  <2>9. ASSUME NEW pc \in {"markError", "kill", "backoff"}, NEW then, EndCycle(pc, then),
               UNCHANGED pluginVars
        PROVE CycleInv'
    BY <2>9 DEF EndCycle
  <2>10. CASE SupStableLine
    <3>1. CASE Head(lines) = "fatal"
      BY <2>9, <2>10, <3>1 DEF SupStableLine
    <3>2. CASE Head(lines) # "fatal"
      BY <2>10, <3>2 DEF SupStableLine, Goto
    <3>3. QED
      BY <3>1, <3>2
  <2>11. CASE SupReadyCommit
    BY <2>11 DEF SupReadyCommit, EndCycle
  <2>12. ASSUME NEW pc \in {"top", "done", "markError", "backoff"}, Goto(pc), UNCHANGED pluginVars
         PROVE CycleInv'
    BY <2>12 DEF Goto
  <2>13. QED
    BY <1>1, <2>1, <2>2, <2>3, <2>4, <2>5, <2>6, <2>7, <2>8, <2>9, <2>10, <2>11, <2>12
       DEF Supervisor, SupParkedRetry, SupBrokenRetry, SupStopWaiting, SupSpawnFails, SupBadEntry,
           SupAwaitTimeout, SupAwaitEof, SupFailCheck, SupBackoffTimer, SupBackoffRetry,
           SupStableExit, SupStableRetry, SupStableStop, SupStableEof
<1>2. CASE Child
  BY <1>2, ChildFrame DEF pluginVars
<1>3. CASE Requests
  BY <1>3, RequestFrame
<1>4. ASSUME NEW a \in Actors, ActorStep(a) PROVE CycleInv'
  <2>1. UNCHANGED <<auth, sup>> /\ url' \in {url, None}
    BY <1>4, ActorFrame
  <2>2. pid' \in {pid, None}
    <3>1. \A s : SetStatus(s) => UNCHANGED pid
      BY DEF SetStatus, pluginVars
    <3>2. QED
      BY <1>4, <3>1 DEF ActorStep, ActStop, ActTake, ActKill, ActSame, ActMark, ActSignal, ActUnregister,
                        pluginVars
  <2>3. status' = status \/ status' # "running"
    <3>1. \A s : SetStatus(s) => status' \in {status, s}
      BY DEF SetStatus, pluginVars
    <3>2. QED
      BY <1>4, <3>1 DEF ActorStep, ActStop, ActTake, ActKill, ActSame, ActMark, ActSignal, ActUnregister,
                        pluginVars
  <2>4. QED
    BY <2>1, <2>2, <2>3
<1>5. CASE UNCHANGED vars
  BY <1>5 DEF vars, pluginVars
<1>6. QED
  BY <1>1, <1>2, <1>3, <1>4, <1>5 DEF Next

\* The supervisor decides to sleep on what it read; from then on the goroutine
\* that changes the field owes it a signal.
LEMMA WakeupPreserved ==
  ASSUME TypeOK, WakeupInv, [Next]_vars
  PROVE  WakeupInv'
<1> USE DEF WakeupInv, Editors
<1>1. CASE Supervisor
  <2> USE DEF TypeOK, SupStates, pluginVars, manVars, managerVars, childVars
  <2>0. act' = act /\ enabled' = enabled
    BY <1>1, SupervisorFrame
  <2>1. CASE SupTop
    <3>1. sup'.pc \in {"done", "kill"} \/ (sup'.pc = "markDisabled" /\ ~enabled)
            \/ (sup'.pc = "markBroken" /\ manErr # None)
      BY <2>1 DEF SupTop, Goto
    <3>2. manErr' = manErr
      BY <2>1 DEF SupTop
    <3>3. QED
      BY <2>0, <3>1, <3>2
  <2>2. CASE SupMark
    <3>1. UNCHANGED <<retry, manErr>>
      BY <2>2 DEF SupMark
    <3>2. sup'.pc = "parked" => sup.pc = "markDisabled"
      BY <2>2 DEF SupMark, Goto
    <3>3. sup'.pc = "brokenWait" => sup.pc = "markBroken"
      BY <2>2 DEF SupMark, Goto
    <3>4. sup'.pc \notin {"markDisabled", "markBroken"}
      BY <2>2 DEF SupMark, Goto
    <3>5. QED
      BY <2>0, <3>1, <3>2, <3>3, <3>4
  <2>3. ASSUME NEW pc \in SupPCs \ {"markDisabled", "parked", "markBroken", "brokenWait"}, Goto(pc)
        PROVE  WakeupInv'
    BY <2>3 DEF Goto
  <2>4. ASSUME NEW pc \in SupPCs \ {"markDisabled", "parked", "markBroken", "brokenWait"},
               NEW then, EndCycle(pc, then)
        PROVE  WakeupInv'
    BY <2>4 DEF EndCycle
  <2>5. CASE SupKill
    BY <2>5 DEF SupKill
  <2>6. ASSUME NEW c \in FreshChildren, SupSpawn(c) PROVE WakeupInv'
    BY <2>6 DEF SupSpawn
  <2>7. CASE SupAwaitLine
    <3>1. CASE Head(lines) = "log"
      BY <2>7, <3>1 DEF SupAwaitLine
    <3>2. CASE Head(lines) # "log"
      BY <2>3, <2>4, <2>7, <3>2 DEF SupAwaitLine, Abort, SupPCs
    <3>3. QED
      BY <3>1, <3>2
  <2>8. CASE SupStableLine
    <3>1. CASE sup' = sup
      BY <2>8, <3>1 DEF SupStableLine
    <3>2. CASE sup' # sup
      BY <2>3, <2>4, <2>8, <3>2 DEF SupStableLine, SupPCs
    <3>3. QED
      BY <3>1, <3>2
  <2>9. QED
    BY <1>1, <2>1, <2>2, <2>3, <2>4, <2>5, <2>6, <2>7, <2>8
       DEF Supervisor, SupPCs, SupParkedRetry, SupBrokenRetry, SupStopWaiting, SupSpawnFails, SupBadEntry,
           SupAdopt, SupAwaitTimeout, SupAwaitEof, SupFailCheck, SupBackoffTimer,
           SupBackoffRetry, SupDrain, SupStableExit, SupStableRetry, SupStableStop,
           SupStableEof, SupReadyCommit, Abort
<1>2. CASE Child
  BY <1>2, ChildFrame DEF pluginVars, manVars
<1>3. CASE Requests
  <2> USE DEF TypeOK, manVars, pluginVars, Actors
  <2>0. UNCHANGED <<retry, sup>>
    BY <1>3, RequestFrame
  <2>1. CASE ToggleOn
    BY <2>0, <2>1, RequestFacts DEF ToggleOn, Set, ActStates
  <2>2. ASSUME NEW a \in Editors, EnsurePlugin(a) PROVE WakeupInv'
    BY <2>0, <2>2 DEF EnsurePlugin, Editors, Set, ActStates
  <2>3. ASSUME UNCHANGED <<man, manErr>>, enabled' = enabled \/ ~enabled'
        PROVE  WakeupInv'
    BY <1>3, <2>0, <2>3, RequestFacts
  <2>4. QED
    BY <1>3, <2>1, <2>2, <2>3 DEF Requests, ToggleOff, DeleteBegin, ScanGone, CloseBegin
<1>4. ASSUME NEW a \in Actors, ActorStep(a) PROVE WakeupInv'
  <2> USE DEF TypeOK, Actors
  <2>0. UNCHANGED <<enabled, manErr, sup>>
    BY <1>4, ActorFrame
  <2>1. CASE ActSignal(a)
    BY <2>0, <2>1 DEF ActSignal, SignalRetry
  <2>2. CASE ActMark(a)
    BY <2>0, <2>2, SetFacts DEF ActMark
  <2>3. ASSUME UNCHANGED retry, act[a].pc \notin {"markStarting", "signal"},
               \A b \in Actors \ {a} : act'[b] = act[b]
        PROVE  WakeupInv'
    BY <2>0, <2>3
  <2>4. CASE ActStop(a) \/ ActTake(a) \/ ActKill(a) \/ ActUnregister(a)
    <3>1. UNCHANGED retry /\ act[a].pc \notin {"markStarting", "signal"}
      BY <2>4 DEF ActStop, ActTake, ActKill, ActUnregister
    <3>2. \A b \in Actors \ {a} : act'[b] = act[b]
      BY <2>4 DEF ActStop, ActTake, ActKill, ActUnregister, Set
    <3>3. QED
      BY <2>3, <3>1, <3>2
  <2>5. CASE ActSame(a)
    BY <2>0, <2>5, SetFacts DEF ActSame
  <2>6. QED
    BY <1>4, <2>1, <2>2, <2>4, <2>5 DEF ActorStep
<1>5. CASE UNCHANGED vars
  BY <1>5 DEF vars, pluginVars, manVars
<1>6. QED
  BY <1>1, <1>2, <1>3, <1>4, <1>5 DEF Next

LEMMA DeletePreserved ==
  ASSUME TypeOK, DeleteInv, [Next]_vars
  PROVE  DeleteInv'
<1> USE DEF DeleteInv, Deleting
<1>1. CASE Supervisor
  BY <1>1, SupervisorFrame
<1>2. CASE Child
  BY <1>2, ChildFrame DEF pluginVars, managerVars
<1>3. CASE Requests
  <2> USE DEF TypeOK, managerVars, Actors, ActStates
  <2>0. stopped' = stopped
    BY <1>3, RequestFrame
  <2>1. CASE ToggleOn
    BY <2>0, <2>1 DEF ToggleOn, Set
  <2>2. CASE ToggleOff
    BY <2>0, <2>2 DEF ToggleOff
  <2>3. CASE DeleteBegin
    BY <2>0, <2>3 DEF DeleteBegin
  <2>4. CASE ScanGone
    BY <2>0, <2>4 DEF ScanGone
  <2>5. ASSUME NEW a \in Editors, EnsurePlugin(a) PROVE DeleteInv'
    BY <2>0, <2>5 DEF EnsurePlugin, Editors, Set, pluginVars
  <2>6. CASE CloseBegin
    BY <2>0, <2>6 DEF CloseBegin, pluginVars
  <2>7. QED
    BY <1>3, <2>1, <2>2, <2>3, <2>4, <2>5, <2>6 DEF Requests
<1>4. ASSUME NEW a \in Actors, ActorStep(a) PROVE DeleteInv'
  <2> USE DEF TypeOK, managerVars, Actors, ActStates
  <2>0. UNCHANGED <<enabled, closed>>
    BY <1>4, ActorFrame
  <2>1. CASE ActStop(a)
    <3>1. \A b \in Actors : /\ act'[b].pc = IF b = a THEN "take" ELSE act[b].pc
                            /\ act'[b].kind = act[b].kind
      BY <2>1, SetFacts DEF ActStop, ActPCs
    <3>2. stopped' /\ registered' = registered /\ act[a].pc = "stop"
      BY <2>1 DEF ActStop
    <3>3. Deleting <=> Deleting'
      BY <3>1, <3>2
    <3>4. QED
      BY <2>0, <3>1, <3>2, <3>3
  <2>2. CASE ActTake(a)
    BY <2>0, <2>2 DEF ActTake
  <2>3. CASE ActKill(a)
    <3>1. \A b \in Actors : /\ act'[b].pc = IF b = a THEN AfterKill(act[a].kind) ELSE act[b].pc
                            /\ act'[b].kind = act[b].kind
      BY <2>3 DEF ActKill
    <3>2. UNCHANGED <<registered, stopped>> /\ act[a].pc = "kill"
      BY <2>3 DEF ActKill
    <3>3. /\ AfterKill(act[a].kind) # "stop"
          /\ AfterKill(act[a].kind) = "unregister" <=> act[a].kind = "delete"
      BY DEF AfterKill
    <3>4. Deleting <=> Deleting'
      BY <3>1, <3>2, <3>3
    <3>5. QED
      BY <2>0, <3>1, <3>2, <3>3, <3>4
  <2>4. CASE ActMark(a)
    BY <2>0, <2>4 DEF ActMark, Set
  <2>5. CASE ActSignal(a)
    BY <2>0, <2>5 DEF ActSignal, Set
  <2>6. CASE ActUnregister(a)
    BY <2>0, <2>6 DEF ActUnregister, Set
  <2>7. CASE ActSame(a)
    BY <2>0, <2>7 DEF ActSame, Set
  <2>8. QED
    BY <1>4, <2>1, <2>2, <2>3, <2>4, <2>5, <2>6, <2>7 DEF ActorStep
<1>5. CASE UNCHANGED vars
  BY <1>5 DEF vars, pluginVars, managerVars
<1>6. QED
  BY <1>1, <1>2, <1>3, <1>4, <1>5 DEF Next

\* A kill is announced with the field it goes by; the pid it will take is
\* dropped by nobody else, and a startup in progress looks at the fields itself.
LEMMA KillPreserved ==
  ASSUME TypeOK, CycleInv, DeleteInv, KillInv, [Next]_vars
  PROVE  KillInv'
<1> USE DEF KillInv, TakePending
<1>1. CASE Supervisor
  <2> USE DEF TypeOK, SupStates, pluginVars
  <2>0. UNCHANGED <<enabled, closed, act>>
    BY <1>1, SupervisorFrame
  <2>1. CASE SupTop
    <3>1. sup'.pc \in {"done", "markDisabled"} => ~enabled \/ closed
      BY <2>1 DEF SupTop, Goto
    <3>2. sup'.pc \notin {"parked"} /\ sup.pc = "top" /\ pid' = pid
      BY <2>1 DEF SupTop, Goto
    <3>3. QED
      BY <2>0, <3>1, <3>2
  <2>2. CASE SupMark
    <3>1. UNCHANGED pid
      BY <2>2 DEF SupMark, SetStatus
    <3>2. sup'.pc = "parked" => sup.pc = "markDisabled"
      BY <2>2 DEF SupMark, Goto
    <3>3. sup'.pc \notin {"markDisabled", "done"} /\ sup.pc # "await"
      BY <2>2 DEF SupMark, Goto
    <3>4. QED
      BY <2>0, <3>1, <3>2, <3>3
  <2>3. CASE SupStopWaiting
    BY <2>0, <2>3 DEF SupStopWaiting, Goto, DeleteInv
  <2>4. CASE SupKill
    BY <2>0, <2>4 DEF SupKill
  <2>5. ASSUME NEW c \in FreshChildren, SupSpawn(c) PROVE KillInv'
    BY <2>0, <2>5 DEF SupSpawn
  <2>6. CASE SupAdopt
    BY <2>0, <2>6 DEF SupAdopt, Goto
  <2>7. ASSUME NEW pc \in {"failCheck", "backoff"}, Abort(pc), sup.pc = "await" PROVE KillInv'
    BY <2>0, <2>7 DEF Abort, EndCycle, CycleInv
  <2>8. CASE SupAwaitLine
    <3>1. CASE Head(lines) = "log"
      BY <2>0, <2>8, <3>1 DEF SupAwaitLine
    <3>2. CASE Head(lines) \in {"ready", "need_config"} /\ ~closed /\ enabled
      BY <2>0, <2>8, <3>2 DEF SupAwaitLine, Goto
    <3>3. QED
      BY <2>7, <2>8, <3>1, <3>2 DEF SupAwaitLine
  <2>9. ASSUME NEW pc \in SupPCs \ {"markDisabled", "parked", "done"},
               sup.pc # "await", UNCHANGED pid, Goto(pc) \/ \E then : EndCycle(pc, then)
        PROVE  KillInv'
    BY <2>0, <2>9 DEF Goto, EndCycle
  <2>10. CASE SupStableLine
    <3>1. CASE sup' = sup
      BY <2>0, <2>10, <3>1 DEF SupStableLine
    <3>2. CASE sup' # sup
      BY <2>9, <2>10, <3>2 DEF SupStableLine, SupPCs
    <3>3. QED
      BY <3>1, <3>2
  <2>11. QED
    BY <1>1, <2>1, <2>2, <2>3, <2>4, <2>5, <2>6, <2>7, <2>8, <2>9, <2>10
       DEF Supervisor, SupPCs, SupParkedRetry, SupBrokenRetry, SupSpawnFails, SupBadEntry, SupAwaitTimeout,
           SupAwaitEof, SupFailCheck, SupBackoffTimer, SupBackoffRetry, SupDrain, SupStableExit,
           SupStableRetry, SupStableStop, SupStableEof, SupReadyCommit
<1>2. CASE Child
  BY <1>2, ChildFrame DEF pluginVars, managerVars
<1>3. CASE Requests
  <2>0. UNCHANGED <<pid, sup>>
    BY <1>3, RequestFrame
  <2>1. TakePending => TakePending'
    BY <1>3, RequestFacts
  <2>2. (~enabled' \/ closed') => ~enabled \/ closed \/ TakePending'
    <3> USE DEF TypeOK, pluginVars, managerVars, Actors, ActStates
    <3>1. CASE ToggleOn
      BY <3>1 DEF ToggleOn
    <3>2. CASE ToggleOff
      BY <3>2 DEF ToggleOff
    <3>3. CASE DeleteBegin
      BY <3>3 DEF DeleteBegin
    <3>4. CASE ScanGone
      BY <3>4 DEF ScanGone
    <3>5. ASSUME NEW a \in Editors, EnsurePlugin(a) PROVE UNCHANGED <<enabled, closed>>
      BY <3>5 DEF EnsurePlugin
    <3>6. CASE CloseBegin
      BY <3>6 DEF CloseBegin, DeleteInv
    <3>7. QED
      BY <1>3, <3>1, <3>2, <3>3, <3>4, <3>5, <3>6 DEF Requests
  <2>3. QED
    BY <2>0, <2>1, <2>2
<1>4. ASSUME NEW a \in Actors, ActorStep(a) PROVE KillInv'
  <2> USE DEF TypeOK
  <2>0. UNCHANGED <<enabled, closed, sup>>
    BY <1>4, ActorFrame
  <2>1. CASE ActStop(a)
    BY <2>0, <2>1, SetFacts DEF ActStop, pluginVars
  <2>2. CASE ActTake(a)
    BY <2>0, <2>2 DEF ActTake
  <2>3. CASE ActKill(a)
    <3>1. act[a].pc = "kill" /\ \A b \in Actors \ {a} : act'[b].pc = act[b].pc
      BY <2>3 DEF ActKill, ActStates
    <3>2. QED
      BY <2>0, <2>3, <3>1 DEF ActKill, pluginVars
  <2>4. CASE ActMark(a)
    <3>1. UNCHANGED pid
      BY <2>4 DEF ActMark, SetStatus, pluginVars
    <3>2. QED
      BY <2>0, <2>4, <3>1, SetFacts DEF ActMark
  <2>5. CASE ActSignal(a)
    BY <2>0, <2>5, SetFacts DEF ActSignal, pluginVars
  <2>6. CASE ActUnregister(a)
    BY <2>0, <2>6, SetFacts DEF ActUnregister, pluginVars
  <2>7. CASE ActSame(a)
    BY <2>0, <2>7, SetFacts DEF ActSame, pluginVars
  <2>8. QED
    BY <1>4, <2>1, <2>2, <2>3, <2>4, <2>5, <2>6, <2>7 DEF ActorStep
<1>5. CASE UNCHANGED vars
  BY <1>5 DEF vars, pluginVars, managerVars
<1>6. QED
  BY <1>1, <1>2, <1>3, <1>4, <1>5 DEF Next

-----------------------------------------------------------------------------
(* The theorems.                                                           *)

\* Safe is an invariant: every conjunct is preserved by every action.
THEOREM Safety == Spec => []Safe
<1>1. Safe /\ [Next]_vars => Safe'
  BY TypePreserved, OrphansPreserved, VictimsPreserved, CyclePreserved, WakeupPreserved,
     DeletePreserved, KillPreserved DEF Safe
<1>2. QED
  BY SafeInit, <1>1, PTL DEF Spec

\* No child is ever out of reach: spawn, adoption and kill hand each process on.
THEOREM NoOrphan == Spec => []NoOrphanChild
<1>1. Safe => NoOrphanChild
  BY DEF Safe
<1>2. QED
  BY Safety, <1>1, PTL

\* However often the plugin is respawned, at most one live child is not condemned:
\* the pid is still unset while a new child waits to be recorded.
THEOREM NoPileUp == Spec => []ChildrenDoNotPileUp
<1>1. Safe => ChildrenDoNotPileUp
  BY SentinelAssumption DEF Safe, NoOrphanChild, CycleInv, ChildrenDoNotPileUp, TypeOK
<1>2. QED
  BY Safety, <1>1, PTL

\* The router is never given the endpoint of one child and the token of another.
THEOREM TokenMatches == Spec => []EndpointHasItsToken
<1>1. Safe => EndpointHasItsToken
  BY DEF Safe, CycleInv, EndpointHasItsToken
<1>2. QED
  BY Safety, <1>1, PTL

\* A sleeping supervisor is always owed the signal that wakes it.
THEOREM NoMissedWakeup == Spec => []NoLostWakeup
<1>1. Safe => NoLostWakeup
  BY DEF Safe, WakeupInv, NoLostWakeup
<1>2. QED
  BY Safety, <1>1, PTL

\* A supervisor at rest has left no process that nobody is about to kill.
THEOREM RestIsClean == Spec => []RestLeavesNoChild
<1>1. Safe => RestLeavesNoChild
  BY SentinelAssumption DEF Safe, NoOrphanChild, KillInv, RestLeavesNoChild, TypeOK
<1>2. QED
  BY Safety, <1>1, PTL

-----------------------------------------------------------------------------
(* The supervisor keeps the promise of PluginEndpoint, step by step.       *)

\* What the variables of PluginEndpoint stand for.
Serving == {c \in live : ~Doomed(c)}
Started == IF sup.pc = "adopt" THEN sup.kid ELSE None

\* A child that nobody is about to kill is the one the supervisor deals with now.
LEMMA OneServes ==
  ASSUME Safe
  PROVE  /\ Started # None => pid = None
         /\ \A c \in Serving : c = IF Started = None THEN pid ELSE Started
         /\ pid = None /\ Started = None => Serving = {}
BY SentinelAssumption DEF Safe, NoOrphanChild, CycleInv, TypeOK, SupStates, Serving, Started

\* At most one process serves: to lose one of them is to lose all.
LEMMA AllOrNothing ==
  ASSUME Safe, Serving' \subseteq Serving
  PROVE  Serving' \in {{}, Serving}
<1>1. PICK d : \A c \in Serving : c = d
  BY OneServes
<1>2. QED
  BY <1>1

LEMMA SupervisorServing ==
  ASSUME Supervisor
  PROVE  Serving' = {c \in live' : ~Doomed(c)}
<1>1. act' = act
  BY SupervisorFrame
<1>2. QED
  BY <1>1 DEF Serving, Doomed

\* The actions of PluginEndpoint, with its variables as the supervisor has them.
LEMMA PromiseSteps ==
  /\ \A c \in Children :
       /\ Serving = {} /\ Started = None /\ c \notin {auth, Listed}
       /\ Serving' = {c} /\ Started' = c /\ auth' = auth /\ Listed' = Listed
       => Promise!Next
  /\ /\ Started # None /\ auth' = Started /\ Started' = None /\ Listed' = None
     /\ Serving' = Serving
     => Promise!Next
  /\ /\ Started = None /\ auth # None /\ Listed = None /\ Listed' = auth
     /\ Serving' = Serving /\ Started' = Started /\ auth' = auth
     => Promise!Next
  /\ /\ Listed' = None /\ Serving' = Serving /\ Started' = Started /\ auth' = auth
     => Promise!Next
  /\ /\ Serving' = {} /\ Started' = Started /\ auth' = auth /\ Listed' = Listed
     => Promise!Next
  /\ /\ Started = None /\ Listed = None /\ Serving' = {} /\ auth' = None
     /\ Started' = Started /\ Listed' = Listed
     => Promise!Next
  /\ /\ Serving' = Serving /\ Started' = Started /\ auth' = auth /\ Listed' = Listed
     => UNCHANGED Promise!vars
BY DEF Promise!Next, Promise!Start, Promise!Record, Promise!Offer, Promise!Withdraw, Promise!End,
       Promise!Abandon, Promise!vars, Serving, Started

\* Steps that only take a process or the endpoint away.
LEMMA PromiseLosses ==
  ASSUME Safe, Started' = Started, auth' = auth,
         \/ Serving' \subseteq Serving /\ Listed' = Listed
         \/ Serving' = Serving /\ Listed' \in {None, Listed}
  PROVE  [Promise!Next]_(Promise!vars)
<1>1. CASE Serving' \subseteq Serving /\ Listed' = Listed
  BY <1>1, AllOrNothing, PromiseSteps
<1>2. CASE Serving' = Serving /\ Listed' \in {None, Listed}
  BY <1>2, PromiseSteps
<1>3. QED
  BY <1>1, <1>2

\* setStatus never offers an endpoint: it can only withdraw one.
LEMMA StatusWithdraws ==
  ASSUME NEW s, s # "running", SetStatus(s), UNCHANGED registered
  PROVE  Listed' \in {None, Listed} /\ auth' = auth
BY DEF SetStatus, Listed, pluginVars

LEMMA SupervisorKeepsPromise ==
  ASSUME Safe, Supervisor
  PROVE  [Promise!Next]_(Promise!vars)
<1> USE SentinelAssumption DEF TypeOK, SupStates, pluginVars, childVars
<1>0. /\ UNCHANGED registered
      /\ Serving' = {c \in live' : ~Doomed(c)}
      /\ TypeOK /\ CycleInv
  BY SupervisorFrame, SupervisorServing DEF Safe
<1>1. ASSUME UNCHANGED <<status, auth, url>>, live' \subseteq live, Started' = Started
      PROVE  [Promise!Next]_(Promise!vars)
  <2>1. Serving' \subseteq Serving
    BY <1>0, <1>1 DEF Serving
  <2>2. Listed' = Listed
    BY <1>0, <1>1 DEF Listed
  <2>3. QED
    BY <1>1, <2>1, <2>2, PromiseLosses
<1>2. ASSUME NEW pc \in SupPCs, pc # "adopt", sup.pc # "adopt",
             Goto(pc) \/ \E then : EndCycle(pc, then),
             UNCHANGED <<status, auth, url, live>>
      PROVE  [Promise!Next]_(Promise!vars)
  <2>1. Started' = Started
    BY <1>0, <1>2 DEF Goto, EndCycle, Started
  <2>2. QED
    BY <1>1, <1>2, <2>1
<1>3. CASE SupTop
  <2>1. Started' = Started
    BY <1>0, <1>3 DEF SupTop, Goto, Started
  <2>2. QED
    BY <1>1, <1>3, <2>1 DEF SupTop
<1>4. CASE SupMark
  <2>1. PICK s \in Statuses \ {"running"}, pc \in {"parked", "brokenWait", "backoff", "top"} :
            SetStatus(s) /\ Goto(pc)
    BY <1>4 DEF SupMark, Statuses
  <2>2. Started' = Started
    BY <1>0, <1>4, <2>1 DEF Goto, Started, SupMark
  <2>3. Serving' = Serving
    BY <1>0, <1>4 DEF SupMark, Serving
  <2>4. Listed' \in {None, Listed} /\ auth' = auth
    BY <1>0, <2>1, StatusWithdraws
  <2>5. QED
    BY <2>2, <2>3, <2>4, PromiseLosses
<1>5. CASE SupKill
  <2>1. Started' = Started
    BY <1>0, <1>5 DEF SupKill, Started
  <2>2. QED
    BY <1>1, <1>5, <2>1 DEF SupKill
<1>6. ASSUME NEW c \in FreshChildren, SupSpawn(c) PROVE [Promise!Next]_(Promise!vars)
  <2>1. Serving = {} /\ Started = None
    BY <1>0, <1>6, OneServes DEF SupSpawn, Started, CycleInv
  <2>2. c \in Children /\ c \notin {auth, Listed} /\ ~Doomed(c)
    BY <1>6 DEF FreshChildren, Listed, Doomed
  <2>3. Serving' = {c}
    BY <1>0, <1>6, <2>1, <2>2 DEF SupSpawn, Serving
  <2>4. Started' = c
    BY <1>0, <1>6 DEF SupSpawn, Started
  <2>5. auth' = auth /\ Listed' = Listed
    BY <1>0, <1>6 DEF SupSpawn, Listed
  <2>6. QED
    BY <2>1, <2>2, <2>3, <2>4, <2>5, PromiseSteps
<1>7. CASE SupAdopt
  <2>1. Started # None /\ Started = sup.kid
    BY <1>0, <1>7 DEF SupAdopt, Started, CycleInv
  <2>2. auth' = sup.kid /\ Started' = None /\ Listed' = None
    BY <1>0, <1>7 DEF SupAdopt, Goto, Started, Listed
  <2>3. Serving' = Serving
    BY <1>0, <1>7 DEF SupAdopt, Serving
  <2>4. QED
    BY <2>1, <2>2, <2>3, PromiseSteps
<1>8. ASSUME NEW pc \in {"failCheck", "backoff"}, Abort(pc), sup.pc = "await"
      PROVE  [Promise!Next]_(Promise!vars)
  <2>1. Started = None /\ Started' = None /\ Listed = None /\ Listed' = None
    BY <1>0, <1>8 DEF Abort, EndCycle, Started, Listed, CycleInv
  <2>2. CASE pid = sup.kid
    <3>1. Serving' = {} /\ auth' = None
      BY <1>0, <1>8, <2>1, <2>2, OneServes DEF Abort, Serving
    <3>2. QED
      BY <2>1, <3>1, PromiseSteps
  <2>3. CASE pid # sup.kid
    <3>1. live' \subseteq live /\ UNCHANGED <<status, auth, url>>
      BY <1>8, <2>3 DEF Abort
    <3>2. QED
      BY <1>1, <2>1, <3>1
  <2>4. QED
    BY <2>2, <2>3
<1>9. ASSUME sup.pc \in {"await", "readyCommit"}, Listed = None, status' = "running", url' = sup.kid,
             sup'.pc # "adopt", UNCHANGED <<auth, live>>
      PROVE  [Promise!Next]_(Promise!vars)
  <2>1. auth = sup.kid /\ auth # None /\ Started = None /\ Started' = None
    BY <1>0, <1>9 DEF Started, CycleInv
  <2>2. Serving' = Serving
    BY <1>0, <1>9 DEF Serving
  <2>3. Listed' \in {None, auth}
    BY <1>0, <1>9, <2>1 DEF Listed
  <2>4. QED
    BY <1>9, <2>1, <2>2, <2>3, PromiseSteps
<1>10. CASE SupAwaitLine
  <2>1. CASE Head(lines) = "log"
    BY <1>0, <1>1, <1>10, <2>1 DEF SupAwaitLine, Started
  <2>2. CASE Head(lines) = "ready" /\ ~closed /\ enabled
    <3>1. sup.pc = "await" /\ Listed = None
      BY <1>0, <1>10 DEF SupAwaitLine, CycleInv, Listed
    <3>2. status' = "running" /\ url' = sup.kid /\ sup'.pc # "adopt" /\ UNCHANGED <<auth, live>>
      BY <1>0, <1>10, <2>2 DEF SupAwaitLine, Goto
    <3>3. QED
      BY <1>9, <3>1, <3>2
  <2>3. CASE Head(lines) = "need_config" /\ ~closed /\ enabled
    <3>1. Listed' \in {None, Listed} /\ UNCHANGED <<auth, live>> /\ Started' = Started
      BY <1>0, <1>10, <2>3 DEF SupAwaitLine, Goto, Listed, Started
    <3>2. Serving' = Serving
      BY <1>0, <3>1 DEF Serving
    <3>3. QED
      BY <3>1, <3>2, PromiseLosses
  <2>4. QED
    BY <1>8, <1>10, <2>1, <2>2, <2>3 DEF SupAwaitLine
<1>11. CASE SupStableLine
  <2>1. CASE sup' = sup
    BY <1>1, <1>11, <2>1 DEF SupStableLine, Started
  <2>2. CASE sup' # sup
    BY <1>2, <1>11, <2>2 DEF SupStableLine, SupPCs
  <2>3. QED
    BY <2>1, <2>2
<1>12. CASE SupReadyCommit
  <2>1. Listed = None
    BY <1>0, <1>12 DEF SupReadyCommit, CycleInv, Listed
  <2>2. QED
    BY <1>9, <1>12, <2>1 DEF SupReadyCommit, EndCycle
<1>13. QED
  BY <1>2, <1>3, <1>4, <1>5, <1>6, <1>7, <1>8, <1>10, <1>11, <1>12
     DEF Supervisor, SupPCs, SupParkedRetry, SupBrokenRetry, SupStopWaiting, SupSpawnFails, SupBadEntry,
         SupAwaitTimeout, SupAwaitEof, SupFailCheck, SupBackoffTimer, SupBackoffRetry, SupDrain,
         SupStableExit, SupStableRetry, SupStableStop, SupStableEof

LEMMA ActorKeepsPromise ==
  ASSUME Safe, NEW a \in Actors, ActorStep(a)
  PROVE  [Promise!Next]_(Promise!vars)
<1> USE DEF TypeOK, pluginVars, managerVars, childVars
<1>0. /\ Started' = Started /\ auth' = auth /\ live' \subseteq live
      /\ TypeOK /\ VictimsAreTaken
  BY ActorFrame DEF Started, Safe
<1>1. ASSUME NEW pc, Set(a, pc), UNCHANGED <<status, url, registered>>
      PROVE  [Promise!Next]_(Promise!vars)
  <2>1. Serving' \subseteq Serving /\ Listed' = Listed
    BY <1>0, <1>1, SetFacts DEF Serving, Doomed, Listed
  <2>2. QED
    BY <1>0, <2>1, PromiseLosses
<1>2. CASE ActTake(a)
  <2>1. \A b \in Actors : act[b].victim # None => act'[b].victim = act[b].victim
    BY <1>0, <1>2 DEF ActTake, ActStates, VictimsAreTaken
  <2>2. Serving' \subseteq Serving
    BY <1>0, <1>2, <2>1, SentinelAssumption DEF Serving, Doomed
  <2>3. Listed' = Listed
    BY <1>2 DEF ActTake, Listed
  <2>4. QED
    BY <1>0, <2>2, <2>3, PromiseLosses
<1>3. CASE ActKill(a)
  <2>1. \A b \in Actors \ {a} : act'[b].victim = act[b].victim
    BY <1>0, <1>3 DEF ActKill, ActStates
  <2>2. Serving' \subseteq Serving
    BY <1>0, <1>3, <2>1 DEF ActKill, Serving, Doomed
  <2>3. Listed' = Listed
    BY <1>3 DEF ActKill, Listed
  <2>4. QED
    BY <1>0, <2>2, <2>3, PromiseLosses
<1>4. CASE ActMark(a)
  <2>1. PICK s \in Statuses \ {"running"}, pc \in ActPCs : SetStatus(s) /\ Set(a, pc)
    BY <1>4 DEF ActMark, Statuses, ActPCs
  <2>2. Listed' \in {None, Listed}
    BY <1>4, <2>1, StatusWithdraws DEF ActMark
  <2>3. Serving' = Serving
    BY <1>0, <1>4, <2>1, SetFacts DEF ActMark, Serving, Doomed
  <2>4. QED
    BY <1>0, <2>2, <2>3, PromiseLosses
<1>5. CASE ActUnregister(a)
  <2>1. Listed' = None
    BY <1>5 DEF ActUnregister, Listed
  <2>2. Serving' = Serving
    BY <1>0, <1>5, SetFacts DEF ActUnregister, Serving, Doomed
  <2>3. QED
    BY <1>0, <2>1, <2>2, PromiseLosses
<1>6. QED
  BY <1>1, <1>2, <1>3, <1>4, <1>5, <1>0
     DEF ActorStep, ActStop, ActSame, ActSignal

LEMMA RequestKeepsPromise ==
  ASSUME Safe, Requests
  PROVE  [Promise!Next]_(Promise!vars)
<1>1. Started' = Started /\ auth' = auth /\ live' = live /\ UNCHANGED <<status, url>>
  BY RequestFrame DEF Started
<1>2. registered' = registered \/ ~registered'
  BY DEF Requests, ToggleOn, ToggleOff, DeleteBegin, ScanGone, EnsurePlugin, CloseBegin, managerVars
<1>3. Serving' = Serving
  BY <1>1, RequestFacts DEF Serving, Doomed, Safe
<1>4. Listed' \in {None, Listed}
  BY <1>1, <1>2 DEF Listed
<1>5. QED
  BY <1>1, <1>3, <1>4, PromiseLosses

LEMMA ChildKeepsPromise ==
  ASSUME Safe, Child
  PROVE  [Promise!Next]_(Promise!vars)
<1>1. Started' = Started /\ auth' = auth /\ Listed' = Listed /\ live' \subseteq live
  BY ChildFrame DEF Started, Listed, pluginVars, managerVars
<1>2. Serving' \subseteq Serving
  BY <1>1, ChildFrame DEF Serving, Doomed
<1>3. QED
  BY <1>1, <1>2, PromiseLosses

\* The supervisor implements PluginEndpoint: whatever goroutines interfere with it, each of its
\* steps starts, records, offers, withdraws, ends or abandons a process as promised to those
\* who call the plugin, or is one they cannot tell from no step.
THEOREM Implements == Spec => OffersAsPromised
<1>1. Init => Promise!Init
  BY DEF Init, Promise!Init, Listed
<1>2. Safe /\ [Next]_vars => [Promise!Next]_(Promise!vars)
  <2> SUFFICES ASSUME Safe, [Next]_vars PROVE [Promise!Next]_(Promise!vars)
    OBVIOUS
  <2>1. CASE UNCHANGED vars
    <3>1. Serving' = Serving /\ Started' = Started /\ auth' = auth /\ Listed' = Listed
      BY <2>1 DEF vars, pluginVars, managerVars, childVars, Serving, Started, Doomed, Listed
    <3>2. QED
      BY <3>1, PromiseSteps
  <2>2. QED
    BY <2>1, SupervisorKeepsPromise, ChildKeepsPromise, RequestKeepsPromise, ActorKeepsPromise DEF Next
<1>3. QED
  BY Safety, <1>1, <1>2, PTL DEF Spec, OffersAsPromised, Promise!Spec
=============================================================================
