------------------------ MODULE FreeTierEngineProofs ------------------------
(***************************************************************************)
(* Proofs about FreeTierEngine, for every set of users and process ids,    *)
(* every number of strikes and every bound: type correctness, that WARP is *)
(* given up only after a run of empty pools, and that a fallback leaves    *)
(* the manager with an engine that is not in WARP mode.                    *)
(***************************************************************************)
EXTENDS FreeTierEngine, TLAPS

Counts == [calls : 0 .. MaxCalls, faults : 0 .. MaxFaults]
Confs == [enabled : BOOLEAN, warp : BOOLEAN, auto : BOOLEAN]
Fallbacks == [strikes : 0 .. Strikes, applied : BOOLEAN]

LEMMA ActorFacts == Dog \in Actors /\ Boot \in Actors /\ Dog # Boot /\ Users \subseteq Actors
BY DEF Dog, Boot, Actors

-----------------------------------------------------------------------------
(* Type correctness.                                                       *)

LEMMA IdleType ==
  ASSUME NEW pc \in {"idle", "probe", "stop", "health", "config", "reset"},
         NEW job \in {"none", "start", "stop", "restart", "fallback"}
  PROVE  /\ Idle \in OpStates /\ Idle.pc = "idle" /\ Idle.job = "none"
         /\ [Idle EXCEPT !.pc = pc] \in OpStates
         /\ [Idle EXCEPT !.pc = pc].pc = pc /\ [Idle EXCEPT !.pc = pc].job = "none"
         /\ [Idle EXCEPT !.pc = pc, !.job = job] \in OpStates
         /\ [Idle EXCEPT !.pc = pc, !.job = job].pc = pc
         /\ [Idle EXCEPT !.pc = pc, !.job = job].job = job
BY DEF Idle, OpStates

LEMMA GoneType == Gone \in ProcStates /\ Gone.life = "gone" /\ ~Gone.warp
BY DEF Gone, ProcStates

\* A call that goes on with something else keeps its job, and no other call moves.
LEMMA CallGoes ==
  ASSUME op \in [Actors -> OpStates], NEW a \in Actors,
         NEW pc \in {"write", "spawn", "record", "wait", "stop", "kill", "drain", "probe", "mark"},
         Goto(a, pc)
  PROVE  /\ op' \in [Actors -> OpStates]
         /\ op'[a].pc = pc /\ op'[a].job = op[a].job /\ op'[a].pid = op[a].pid
         /\ \A b \in Actors : b # a => op'[b] = op[b]
<1>1. op[a] \in OpStates
  OBVIOUS
<1>2. /\ [op[a] EXCEPT !.pc = pc] \in OpStates
      /\ [op[a] EXCEPT !.pc = pc].pc = pc /\ [op[a] EXCEPT !.pc = pc].job = op[a].job
      /\ [op[a] EXCEPT !.pc = pc].pid = op[a].pid
  BY <1>1 DEF OpStates
<1>3. op' = [op EXCEPT ![a] = [op[a] EXCEPT !.pc = pc]]
  BY DEF Goto
<1>4. QED
  BY <1>2, <1>3

\* The same when it takes up or lays down a process.
LEMMA CallCarries ==
  ASSUME op \in [Actors -> OpStates], NEW a \in Actors,
         NEW pc \in {"record", "wait", "kill", "drain"}, NEW k \in Pids \cup {None},
         op' = [op EXCEPT ![a].pc = pc, ![a].pid = k]
  PROVE  /\ op' \in [Actors -> OpStates]
         /\ op'[a].pc = pc /\ op'[a].job = op[a].job /\ op'[a].pid = k
         /\ \A b \in Actors : b # a => op'[b] = op[b]
<1>1. op[a] \in OpStates
  OBVIOUS
<1>2. /\ [op[a] EXCEPT !.pc = pc, !.pid = k] \in OpStates
      /\ [op[a] EXCEPT !.pc = pc, !.pid = k].pc = pc
      /\ [op[a] EXCEPT !.pc = pc, !.pid = k].job = op[a].job
      /\ [op[a] EXCEPT !.pc = pc, !.pid = k].pid = k
  BY <1>1 DEF OpStates
<1>3. op' = [op EXCEPT ![a] = [op[a] EXCEPT !.pc = pc, !.pid = k]]
  OBVIOUS
<1>4. QED
  BY <1>2, <1>3

\* Start returns to its caller.
LEMMA CallReturns ==
  ASSUME op \in [Actors -> OpStates], NEW a \in Actors, Return(a)
  PROVE  /\ op' \in [Actors -> OpStates]
         /\ op[a].job = "fallback" => op'[a].pc = "mark" /\ op'[a].job = "fallback"
         /\ op[a].job # "fallback" => op'[a] = Idle
         /\ \A b \in Actors : b # a => op'[b] = op[b]
<1>1. op[a] \in OpStates /\ Idle \in OpStates
  BY IdleType
<1>2. /\ [op[a] EXCEPT !.pc = "mark"] \in OpStates
      /\ [op[a] EXCEPT !.pc = "mark"].pc = "mark"
      /\ [op[a] EXCEPT !.pc = "mark"].job = op[a].job
  BY <1>1 DEF OpStates
<1>3. op' = [op EXCEPT ![a] = IF op[a].job = "fallback" THEN [op[a] EXCEPT !.pc = "mark"]
                              ELSE Idle]
  BY DEF Return
<1>4. QED
  BY <1>1, <1>2, <1>3

\* A call begins or ends.
LEMMA CallIs ==
  ASSUME op \in [Actors -> OpStates], NEW a \in Actors, NEW o \in OpStates,
         op' = [op EXCEPT ![a] = o]
  PROVE  /\ op' \in [Actors -> OpStates] /\ op'[a] = o
         /\ \A b \in Actors : b # a => op'[b] = op[b]
OBVIOUS

\* Saving the setting succeeds, and the watchdog goes on to Restart, or it fails.
LEMMA SaveOutcome ==
  ASSUME op \in [Actors -> OpStates], FallbackConfig
  PROVE  /\ op' \in [Actors -> OpStates] /\ op'[Dog].pc \in {"stop", "idle"}
         /\ \A b \in Actors : b # Dog => op'[b] = op[b]
<1>1. CASE Goto(Dog, "stop")
  BY <1>1, CallGoes, ActorFacts
<1>2. CASE op' = [op EXCEPT ![Dog] = Idle]
  BY <1>2, CallIs, IdleType, ActorFacts
<1>3. QED
  BY <1>1, <1>2 DEF FallbackConfig

LEMMA CountTypes ==
  ASSUME count \in Counts
  PROVE  /\ count.calls < MaxCalls => [count EXCEPT !.calls = count.calls + 1] \in Counts
         /\ count.faults < MaxFaults => [count EXCEPT !.faults = count.faults + 1] \in Counts
<1>1. /\ count.calls < MaxCalls => count.calls + 1 \in 0 .. MaxCalls
      /\ count.faults < MaxFaults => count.faults + 1 \in 0 .. MaxFaults
  BY EngineAssumption DEF Counts
<1>2. QED
  BY <1>1 DEF Counts

\* What the observation of a round makes of the strikes.
LEMMA ObserveType ==
  ASSUME fb \in Fallbacks, NEW h \in [present : BOOLEAN, usable : BOOLEAN],
         NEW new, new = Observe(h)
  PROVE  /\ new.strikes \in Nat /\ new.applied = fb.applied
         /\ h.usable => new.strikes = 0
         /\ ~h.usable /\ h.present => new.strikes = fb.strikes + 1
         /\ ~h.usable /\ ~h.present => new.strikes = fb.strikes
         /\ [new EXCEPT !.strikes = IF @ > Strikes THEN Strikes ELSE @] \in Fallbacks
         /\ [new EXCEPT !.strikes = IF @ > Strikes THEN Strikes ELSE @].applied = fb.applied
         /\ [new EXCEPT !.strikes = IF @ > Strikes THEN Strikes ELSE @].strikes
              = IF new.strikes > Strikes THEN Strikes ELSE new.strikes
<1>1. fb.strikes \in Nat /\ fb.strikes + 1 \in Nat /\ Strikes \in Nat /\ fb.applied \in BOOLEAN
  BY EngineAssumption DEF Fallbacks
<1>2. /\ new \in [strikes : Nat, applied : BOOLEAN] /\ new.applied = fb.applied
      /\ h.usable => new.strikes = 0
      /\ ~h.usable /\ h.present => new.strikes = fb.strikes + 1
      /\ ~h.usable /\ ~h.present => new.strikes = fb.strikes
  BY <1>1 DEF Observe, Fallbacks
<1>3. (IF new.strikes > Strikes THEN Strikes ELSE new.strikes) \in 0 .. Strikes
  BY <1>1, <1>2
<1>4. QED
  BY <1>2, <1>3 DEF Fallbacks

LEMMA HealthTypes ==
  ASSUME proc \in [Pids -> ProcStates]
  PROVE  Healths \subseteq [present : BOOLEAN, usable : BOOLEAN]
BY DEF Healths, ProcStates

LEMMA TypeInit == Init => TypeOK
<1> SUFFICES ASSUME Init PROVE TypeOK
  OBVIOUS
<1>1. op \in [Actors -> OpStates]
  BY IdleType DEF Init
<1>2. proc \in [Pids -> ProcStates]
  <2>1. PICK left \in {Gone, [life |-> "up", warp |-> TRUE, pool |-> FALSE]} :
          proc = [k \in Pids |-> IF k = CHOOSE j \in Pids : TRUE THEN left ELSE Gone]
    BY Zenon DEF Init
  <2>2. [life |-> "up", warp |-> TRUE, pool |-> FALSE] \in ProcStates
    BY DEF ProcStates
  <2>3. QED
    BY <2>1, <2>2, GoneType, Zenon
<1>3. /\ pid = None /\ conf = [enabled |-> TRUE, warp |-> TRUE, auto |-> TRUE] /\ file = FALSE
      /\ fb = [strikes |-> 0, applied |-> FALSE] /\ count = [calls |-> 0, faults |-> 0]
      /\ run = 0 /\ disturbed = FALSE
  BY DEF Init, NoFallback
<1>4. 0 \in 0 .. Strikes /\ 0 \in 0 .. MaxCalls /\ 0 \in 0 .. MaxFaults
  BY EngineAssumption
<1>5. QED
  BY <1>1, <1>2, <1>3, <1>4 DEF TypeOK

LEMMA TypeStep == TypeOK /\ [Next]_vars => TypeOK'
<1> SUFFICES ASSUME TypeOK, [Next]_vars PROVE TypeOK'
  OBVIOUS
<1> USE DEF TypeOK
<1>0. op \in [Actors -> OpStates] /\ count \in Counts /\ conf \in Confs /\ fb \in Fallbacks
  BY DEF Counts, Confs, Fallbacks
<1>1. ASSUME NEW a \in Actors, StartProbe(a) PROVE TypeOK'
  BY <1>1, CallReturns, CallGoes DEF StartProbe
<1>2. ASSUME NEW a \in Actors, WriteEngineConfig(a) PROVE TypeOK'
  BY <1>2, CallGoes DEF WriteEngineConfig
<1>3. ASSUME NEW a \in Actors, Spawn(a) PROVE TypeOK'
  <2> DEFINE k == CHOOSE k \in Unused : TRUE
  <2>1. k \in Pids
    BY <1>3 DEF Spawn, Unused
  <2>2. op' = [op EXCEPT ![a].pc = "record", ![a].pid = k]
    BY <1>3 DEF Spawn
  <2>3. proc' = [proc EXCEPT ![k] = [life |-> "registering", warp |-> file, pool |-> FALSE]]
    BY <1>3 DEF Spawn
  <2> HIDE DEF k
  <2>4. op' \in [Actors -> OpStates]
    BY <2>1, <2>2, CallCarries
  <2>5. proc' \in [Pids -> ProcStates]
    BY <2>3 DEF ProcStates
  <2>6. QED
    BY <1>3, <2>4, <2>5 DEF Spawn
<1>4. ASSUME NEW a \in Actors, Record(a) PROVE TypeOK'
  <2>1. op' \in [Actors -> OpStates]
    BY <1>4, CallCarries DEF Record
  <2>2. op[a].pid \in Pids \cup {None}
    BY DEF OpStates
  <2>3. QED
    BY <1>4, <2>1, <2>2 DEF Record
<1>5. ASSUME NEW a \in Actors, WaitForPort(a) PROVE TypeOK'
  BY <1>5, CallReturns DEF WaitForPort
<1>6. ASSUME NEW a \in Actors, WaitTimesOut(a) PROVE TypeOK'
  BY <1>0, <1>6, CallReturns, CountTypes DEF WaitTimesOut, Counts
<1>7. ASSUME NEW a \in Actors, StopTake(a) PROVE TypeOK'
  BY <1>7, CallCarries DEF StopTake
<1>8. ASSUME NEW a \in Actors, StopKill(a) PROVE TypeOK'
  <2>1. op' \in [Actors -> OpStates]
    BY <1>8, CallCarries DEF StopKill
  <2>2. proc' \in [Pids -> ProcStates]
    BY <1>8, GoneType DEF StopKill
  <2>3. QED
    BY <1>8, <2>1, <2>2 DEF StopKill
<1>9. ASSUME NEW a \in Actors, StopDrain(a) PROVE TypeOK'
  BY <1>9, CallGoes, IdleType, CallIs DEF StopDrain
<1>10. ASSUME NEW a \in Actors, StartFails(a) PROVE TypeOK'
  BY <1>0, <1>10, CallReturns, CountTypes DEF StartFails, Counts
<1>11. ASSUME WatchdogTick PROVE TypeOK'
  BY <1>11, IdleType, CallIs, ActorFacts DEF WatchdogTick
<1>12. ASSUME Judge PROVE TypeOK'
  <2>1. \E o \in OpStates : op' = [op EXCEPT ![Dog] = o]
    BY <1>12, IdleType DEF Judge
  <2>2. op' \in [Actors -> OpStates]
    BY <2>1, CallIs, ActorFacts
  <2>3. fb' \in Fallbacks
    BY <1>0, <1>12, ObserveType, HealthTypes DEF Judge
  <2>4. run' \in 0 .. Strikes
    BY <1>12, EngineAssumption DEF Judge
  <2>5. QED
    BY <1>12, <2>2, <2>3, <2>4 DEF Judge, Fallbacks
<1>13. ASSUME FallbackConfig PROVE TypeOK'
  <2>1. op' \in [Actors -> OpStates]
    BY <1>13, SaveOutcome
  <2>2. conf' \in Confs
    BY <1>0, <1>13 DEF FallbackConfig, Confs
  <2>3. disturbed' \in BOOLEAN
    BY <1>13 DEF FallbackConfig
  <2>4. QED
    BY <1>13, <2>1, <2>2, <2>3 DEF FallbackConfig, Confs
<1>14. ASSUME FallbackMark PROVE TypeOK'
  <2>1. op' \in [Actors -> OpStates]
    BY <1>14, CallIs, IdleType, ActorFacts DEF FallbackMark
  <2>2. fb' \in Fallbacks
    BY <1>0, <1>14 DEF FallbackMark, Fallbacks
  <2>3. run' \in 0 .. Strikes
    BY <1>14, EngineAssumption DEF FallbackMark
  <2>4. QED
    BY <1>14, <2>1, <2>2, <2>3 DEF FallbackMark, Fallbacks
<1>15. ASSUME NEW u \in Users, PanelSteps(u) PROVE TypeOK'
  <2>1. u \in Actors
    BY ActorFacts
  <2>2. Call(u)
    BY <1>15 DEF PanelSteps, Request, ChangeSettings, RetryWarp, WriteConfigOnly
  <2>3. count' \in Counts /\ disturbed' \in BOOLEAN
    BY <1>0, <1>15, <2>2, CountTypes
       DEF Call, PanelSteps, Request, ChangeSettings, RetryWarp, WriteConfigOnly, SwitchesOn
  <2>4. CASE Request(u)
    <3>1. op' \in [Actors -> OpStates]
      <4>1. PICK job \in {"start", "stop", "restart"} :
              op' = [op EXCEPT ![u] = [Idle EXCEPT !.pc = IF job = "start" THEN "probe"
                                                          ELSE "stop", !.job = job]]
        BY <2>4 DEF Request
      <4> DEFINE pc == IF job = "start" THEN "probe" ELSE "stop"
      <4>2. /\ pc \in {"idle", "probe", "stop", "health", "config", "reset"}
            /\ job \in {"none", "start", "stop", "restart", "fallback"}
        OBVIOUS
      <4>3. op' = [op EXCEPT ![u] = [Idle EXCEPT !.pc = pc, !.job = job]]
        BY <4>1
      <4> HIDE DEF pc
      <4>4. [Idle EXCEPT !.pc = pc, !.job = job] \in OpStates
        BY <4>2 DEF Idle, OpStates
      <4>5. QED
        BY <2>1, <4>3, <4>4, CallIs
    <3>2. QED
      BY <2>3, <2>4, <3>1 DEF Request, Counts
  <2>5. CASE ChangeSettings(u)
    <3>1. PICK switch \in {"enabled", "warp", "auto"} :
            conf' = [conf EXCEPT ![switch] = ~conf[switch]]
      BY <2>5 DEF ChangeSettings
    <3>2. conf' \in Confs
      BY <1>0, <3>1 DEF Confs
    <3>3. UNCHANGED <<proc, pid, file, fb, op, run>>
      BY <2>5 DEF ChangeSettings
    <3>4. QED
      BY <2>3, <3>2, <3>3 DEF Counts, Confs
  <2>6. CASE RetryWarp(u)
    <3>1. op' \in [Actors -> OpStates]
      BY <2>1, <2>6, IdleType, CallIs DEF RetryWarp
    <3>2. QED
      BY <2>3, <2>6, <3>1 DEF RetryWarp, Counts
  <2>7. CASE WriteConfigOnly(u)
    BY <2>3, <2>7 DEF WriteConfigOnly, Counts
  <2>8. QED
    BY <1>15, <2>4, <2>5, <2>6, <2>7 DEF PanelSteps
<1>16. ASSUME NEW u \in Users, ResetWarpFallback(u) PROVE TypeOK'
  BY <1>16, CallGoes, ActorFacts, EngineAssumption DEF ResetWarpFallback, NoFallback
<1>17. ASSUME NEW k \in Pids, Listen(k) PROVE TypeOK'
  <2>1. PICK full \in BOOLEAN :
          proc' = [proc EXCEPT ![k] = IF PortOpen THEN Gone
                                      ELSE [proc[k] EXCEPT !.life = "up", !.pool = full]]
    BY <1>17 DEF Listen
  <2>2. [proc[k] EXCEPT !.life = "up", !.pool = full] \in ProcStates
    <3>1. proc[k] \in ProcStates
      OBVIOUS
    <3> HIDE DEF TypeOK
    <3>2. QED
      BY <3>1 DEF ProcStates
  <2>3. proc' \in [Pids -> ProcStates]
    <3>1. CASE PortOpen
      <4>1. proc' = [proc EXCEPT ![k] = Gone]
        BY <2>1, <3>1
      <4>2. QED
        BY <4>1, GoneType
    <3>2. CASE ~PortOpen
      <4> DEFINE new == [proc[k] EXCEPT !.life = "up", !.pool = full]
      <4>1. proc' = [proc EXCEPT ![k] = new]
        BY <2>1, <3>2
      <4>2. new \in ProcStates
        BY <2>2
      <4> HIDE DEF new
      <4>3. QED
        BY <4>1, <4>2
    <3>3. QED
      BY <3>1, <3>2
  <2>4. QED
    BY <1>17, <2>3 DEF Listen
<1>18. ASSUME NEW k \in Pids, PoolChanges(k) PROVE TypeOK'
  <2>1. proc' = [proc EXCEPT ![k] = [proc[k] EXCEPT !.pool = ~proc[k].pool]]
    BY <1>18 DEF PoolChanges
  <2>2. proc[k] \in ProcStates
    OBVIOUS
  <2>3. [proc[k] EXCEPT !.pool = ~proc[k].pool] \in ProcStates
    <3> HIDE DEF TypeOK
    <3>1. proc[k].pool \in BOOLEAN
      BY <2>2 DEF ProcStates
    <3>2. (~proc[k].pool) \in BOOLEAN
      OBVIOUS
    <3>3. QED
      BY <2>2, <3>2 DEF ProcStates
  <2>4. proc' \in [Pids -> ProcStates]
    BY <2>1, <2>3
  <2>5. QED
    BY <1>18, <2>4 DEF PoolChanges
<1>19. ASSUME NEW k \in Pids, Crash(k) PROVE TypeOK'
  BY <1>0, <1>19, GoneType, CountTypes DEF Crash, Counts
<1>20. CASE UNCHANGED vars
  BY <1>20 DEF vars
<1>21. QED
  BY <1>1, <1>2, <1>3, <1>4, <1>5, <1>6, <1>7, <1>8, <1>9, <1>10, <1>11, <1>12, <1>13, <1>14,
     <1>15, <1>16, <1>17, <1>18, <1>19, <1>20
     DEF Next, StartSteps, StopSteps, DogSteps

\* Calls, processes, settings and counters stay in their ranges, in every state of every
\* run of the manager (core/manager/freetier_engine.go, freetier_warp_fallback.go).
THEOREM TypeCorrect == Spec => []TypeOK
<1>1. Init => TypeOK
  BY TypeInit
<1>2. TypeOK /\ [Next]_vars => TypeOK'
  BY TypeStep
<1>3. QED
  BY <1>1, <1>2, PTL DEF Spec

-----------------------------------------------------------------------------
(* WARP is given up only after a run of empty pools.                       *)

\* The strikes never run ahead of the rounds that judged the pool empty, as long as the
\* fallback is not applied.  Once it is, the rounds start anew but the strikes stay, and
\* nobody looks at them before a retry clears them.
StrikesBacked == ~fb.applied => fb.strikes <= run

\* FallbackNeedsARun alone is not inductive: the round that falls back counts on the strikes.
Backed == StrikesBacked /\ FallbackNeedsARun

\* Neither strikes nor rounds change, and the watchdog does not set out to fall back.
LEMMA BackedAside ==
  ASSUME Backed, UNCHANGED <<fb, run>>, op'[Dog].pc = "config" => op[Dog].pc = "config"
  PROVE  Backed'
BY DEF Backed, StrikesBacked, FallbackNeedsARun, At

\* A call of Start, Stop or Restart is none of the rounds of the watchdog.
LEMMA CallsDoNotJudge ==
  ASSUME TypeOK, NEW a \in Actors, StartSteps(a) \/ StopSteps(a) \/ StartFails(a)
  PROVE  /\ UNCHANGED <<fb, run, conf, disturbed>>
         /\ a = Dog => op'[Dog].pc # "config"
         /\ a = Dog /\ op'[Dog].pc = "mark" => op'[Dog].job = "fallback"
         /\ \A b \in Actors : b # a => op'[b] = op[b]
<1> USE ActorFacts DEF TypeOK
<1>1. CASE StartProbe(a)
  BY <1>1, CallReturns, CallGoes, IdleType DEF StartProbe
<1>2. CASE WriteEngineConfig(a)
  BY <1>2, CallGoes DEF WriteEngineConfig
<1>3. CASE Spawn(a)
  <2> DEFINE k == CHOOSE k \in Unused : TRUE
  <2>1. k \in Pids /\ op' = [op EXCEPT ![a].pc = "record", ![a].pid = k]
    BY <1>3 DEF Spawn, Unused
  <2> HIDE DEF k
  <2>2. QED
    BY <1>3, <2>1, CallCarries DEF Spawn
<1>4. CASE Record(a)
  BY <1>4, CallCarries DEF Record
<1>5. CASE WaitForPort(a)
  BY <1>5, CallReturns, IdleType DEF WaitForPort
<1>6. CASE WaitTimesOut(a)
  BY <1>6, CallReturns, IdleType DEF WaitTimesOut
<1>7. CASE StopTake(a)
  BY <1>7, CallCarries DEF StopTake
<1>8. CASE StopKill(a)
  BY <1>8, CallCarries DEF StopKill
<1>9. CASE StopDrain(a)
  BY <1>9, CallGoes, CallIs, IdleType DEF StopDrain
<1>10. CASE StartFails(a)
  BY <1>10, CallReturns, IdleType DEF StartFails
<1>11. QED
  BY <1>1, <1>2, <1>3, <1>4, <1>5, <1>6, <1>7, <1>8, <1>9, <1>10 DEF StartSteps, StopSteps

LEMMA BackedInit == Init => Backed
<1> SUFFICES ASSUME Init PROVE Backed
  OBVIOUS
<1>1. op[Dog].pc = "idle"
  BY ActorFacts, IdleType DEF Init
<1>2. fb.strikes = 0 /\ run = 0
  BY DEF Init, NoFallback
<1>3. QED
  BY <1>1, <1>2 DEF Backed, StrikesBacked, FallbackNeedsARun, At

\* A round of the watchdog.
LEMMA BackedJudge == ASSUME TypeOK, Backed, Judge PROVE Backed'
<1>0. fb \in Fallbacks /\ op \in [Actors -> OpStates] /\ run \in 0 .. Strikes /\ Strikes \in Nat
  BY EngineAssumption DEF TypeOK, Fallbacks
<1>1. CASE op' = [op EXCEPT ![Dog] = Idle] /\ UNCHANGED <<fb, run>>
  <2>1. op'[Dog].pc = "idle"
    BY <1>0, <1>1, CallIs, IdleType, ActorFacts
  <2>2. QED
    BY <1>1, <2>1, BackedAside
<1>2. CASE \E h \in Healths :
             /\ conf.warp /\ conf.auto /\ ~fb.applied
             /\ fb' = [Observe(h) EXCEPT !.strikes = IF @ > Strikes THEN Strikes ELSE @]
             /\ run' = IF h.usable THEN 0
                       ELSE IF h.present /\ run < Strikes THEN run + 1 ELSE run
             /\ op' = [op EXCEPT ![Dog] =
                         IF h.present /\ ~h.usable /\ Observe(h).strikes >= Strikes
                         THEN [Idle EXCEPT !.pc = "config", !.job = "fallback"] ELSE Idle]
  <2>1. PICK h \in Healths :
          /\ ~fb.applied
          /\ fb' = [Observe(h) EXCEPT !.strikes = IF @ > Strikes THEN Strikes ELSE @]
          /\ run' = IF h.usable THEN 0
                    ELSE IF h.present /\ run < Strikes THEN run + 1 ELSE run
          /\ op' = [op EXCEPT ![Dog] =
                      IF h.present /\ ~h.usable /\ Observe(h).strikes >= Strikes
                      THEN [Idle EXCEPT !.pc = "config", !.job = "fallback"] ELSE Idle]
    BY <1>2
  <2> DEFINE new == Observe(h)
  <2>2. h \in [present : BOOLEAN, usable : BOOLEAN]
    BY HealthTypes DEF TypeOK
  <2>3. /\ new.strikes \in Nat
        /\ h.usable => new.strikes = 0
        /\ ~h.usable /\ h.present => new.strikes = fb.strikes + 1
        /\ ~h.usable /\ ~h.present => new.strikes = fb.strikes
        /\ fb'.strikes = IF new.strikes > Strikes THEN Strikes ELSE new.strikes
    BY <1>0, <2>1, <2>2, ObserveType
  <2>4. op'[Dog].pc = "config" => h.present /\ ~h.usable /\ new.strikes >= Strikes
    BY <1>0, <2>1, ActorFacts, IdleType
  <2>5. fb.strikes <= run /\ fb.strikes \in Nat
    BY <1>0, <2>1 DEF Backed, StrikesBacked, Fallbacks
  <2> HIDE DEF new
  <2>6. fb'.strikes <= run'
    BY <1>0, <2>1, <2>2, <2>3, <2>5
  <2>7. op'[Dog].pc = "config" => run' >= Strikes
    BY <1>0, <2>1, <2>2, <2>3, <2>4, <2>5
  <2>8. QED
    BY <2>6, <2>7 DEF Backed, StrikesBacked, FallbackNeedsARun, At
<1>3. QED
  BY <1>1, <1>2 DEF Judge

LEMMA BackedStep == TypeOK /\ Backed /\ [Next]_vars => Backed'
<1> SUFFICES ASSUME TypeOK, Backed, [Next]_vars PROVE Backed'
  OBVIOUS
<1>0. op \in [Actors -> OpStates]
  BY DEF TypeOK
<1>1. ASSUME NEW a \in Actors, StartSteps(a) \/ StopSteps(a) \/ StartFails(a) PROVE Backed'
  <2>1. UNCHANGED <<fb, run>> /\ (a = Dog \/ op'[Dog] = op[Dog])
    BY <1>1, CallsDoNotJudge, ActorFacts
  <2>2. op'[Dog].pc = "config" => op[Dog].pc = "config"
    BY <1>1, <2>1, CallsDoNotJudge
  <2>3. QED
    BY <2>1, <2>2, BackedAside
<1>2. CASE WatchdogTick
  <2>1. op'[Dog].pc # "config"
    BY <1>0, <1>2, ActorFacts, IdleType, CallIs DEF WatchdogTick
  <2>2. QED
    BY <1>2, <2>1, BackedAside DEF WatchdogTick
<1>3. CASE Judge
  BY <1>3, BackedJudge
<1>4. CASE FallbackConfig
  <2>1. op'[Dog].pc \in {"stop", "idle"}
    BY <1>0, <1>4, SaveOutcome
  <2>2. QED
    BY <1>4, <2>1, BackedAside DEF FallbackConfig
<1>5. CASE FallbackMark
  <2>1. op'[Dog].pc = "idle"
    BY <1>0, <1>5, CallIs, ActorFacts, IdleType DEF FallbackMark
  <2>2. fb'.applied
    BY <1>5 DEF FallbackMark, TypeOK
  <2>3. QED
    BY <2>1, <2>2 DEF Backed, StrikesBacked, FallbackNeedsARun, At
<1>6. ASSUME NEW u \in Users, PanelSteps(u) PROVE Backed'
  <2>1. u \in Actors /\ u # Dog
    BY ActorFacts, EngineAssumption
  <2>2. UNCHANGED <<fb, run>>
    BY <1>6 DEF PanelSteps, Request, ChangeSettings, RetryWarp, WriteConfigOnly
  <2>3. op'[Dog] = op[Dog]
    BY <1>0, <1>6, <2>1, ActorFacts
       DEF PanelSteps, Request, ChangeSettings, RetryWarp, WriteConfigOnly
  <2>4. QED
    BY <2>2, <2>3, BackedAside
<1>7. ASSUME NEW u \in Users, ResetWarpFallback(u) PROVE Backed'
  <2>1. u \in Actors /\ u # Dog
    BY ActorFacts, EngineAssumption
  <2>2. op'[Dog] = op[Dog]
    BY <1>0, <1>7, <2>1, ActorFacts, CallGoes DEF ResetWarpFallback
  <2>3. fb'.strikes = 0 /\ run' = run /\ run \in Nat
    BY <1>7, EngineAssumption DEF ResetWarpFallback, NoFallback, TypeOK
  <2>4. QED
    BY <2>2, <2>3 DEF Backed, StrikesBacked, FallbackNeedsARun, At
<1>8. ASSUME NEW k \in Pids, Listen(k) \/ PoolChanges(k) \/ Crash(k) PROVE Backed'
  BY <1>8, BackedAside DEF Listen, PoolChanges, Crash
<1>9. CASE UNCHANGED vars
  BY <1>9, BackedAside DEF vars
<1>10. QED
  BY <1>1, <1>2, <1>3, <1>4, <1>5, <1>6, <1>7, <1>8, <1>9 DEF Next, DogSteps

\* The watchdog switches WARP off only when as many rounds as there are strikes have judged
\* the pool empty and none in between has judged it usable, whatever restarts, retries and
\* changes of the settings came between the rounds (maybeAutoFallbackWarp).
THEOREM GivesUpOnARun == Spec => []FallbackNeedsARun
<1>1. Init => Backed
  BY BackedInit
<1>2. TypeOK /\ Backed /\ [Next]_vars => Backed'
  BY BackedStep
<1>3. Backed => FallbackNeedsARun
  BY DEF Backed
<1>4. QED
  BY <1>1, <1>2, <1>3, TypeCorrect, PTL DEF Spec

-----------------------------------------------------------------------------
(* A fallback leaves the manager with an engine without WARP.              *)

\* The watchdog has saved the setting of a fallback, and nothing has disturbed it.
Committed == FallingBack /\ op[Dog].pc # "config" /\ ~disturbed

\* What holds from then on.  The property speaks of the end only: until then every Start,
\* whoever called it, writes an engine's file without WARP, starts a process without WARP,
\* and what the manager remembers once the old process was taken is such a process.
SwitchedOff == ~conf.warp
WrittenOff == \A b \in Actors : op[b].pc = "spawn" => ~file
StartedOff == \A b \in Actors : op[b].pc = "record" => op[b].pid \in Pids /\ ~proc[op[b].pid].warp
RememberedOff == op[Dog].pc # "stop" /\ pid # None => ~proc[pid].warp

GoesAsPlanned == SwitchedOff /\ WrittenOff /\ StartedOff /\ RememberedOff

Undisturbed == Committed => GoesAsPlanned

\* Steps that start no process, and come to start one only with the file written.
LEMMA PlanStays ==
  ASSUME TypeOK, GoesAsPlanned, ~conf'.warp, file' => file,
         \A b \in Actors : \/ op'[b] = op[b]
                           \/ op'[b].pc # "record" /\ (op'[b].pc = "spawn" => ~file'),
         \A k \in Pids : proc'[k].warp => proc[k].warp,
         pid' = None \/ (pid' = pid /\ (op[Dog].pc = "stop" => op'[Dog].pc = "stop"))
  PROVE  GoesAsPlanned'
<1> USE ActorFacts
<1>1. WrittenOff'
  BY DEF GoesAsPlanned, WrittenOff
<1>2. StartedOff'
  BY DEF GoesAsPlanned, StartedOff
<1>3. RememberedOff'
  BY DEF GoesAsPlanned, RememberedOff, TypeOK
<1>4. QED
  BY <1>1, <1>2, <1>3 DEF GoesAsPlanned, SwitchedOff

\* A call of Start, Stop or Restart, the fallback's own or anybody's.
LEMMA CallsGoAsPlanned ==
  ASSUME TypeOK, GoesAsPlanned, NEW a \in Actors,
         StartSteps(a) \/ StopSteps(a) \/ StartFails(a)
  PROVE  GoesAsPlanned'
<1> USE ActorFacts
<1>0. op \in [Actors -> OpStates] /\ pid \in Pids \cup {None} /\ proc \in [Pids -> ProcStates]
  BY DEF TypeOK
<1>1. (\A b \in Actors : b # a => op'[b] = op[b]) /\ ~conf'.warp
  BY CallsDoNotJudge DEF GoesAsPlanned, SwitchedOff
<1>2. ASSUME op[a].pc # "stop", UNCHANGED <<pid, file>>, op'[a].pc \notin {"spawn", "record"},
             \A k \in Pids : proc'[k].warp => proc[k].warp
      PROVE  GoesAsPlanned'
  BY <1>1, <1>2, PlanStays
<1>3. CASE StartProbe(a)
  <2>1. op'[a].pc \in {"mark", "idle", "write"}
    BY <1>0, <1>3, CallReturns, CallGoes, IdleType DEF StartProbe
  <2>2. QED
    BY <1>2, <1>3, <2>1 DEF StartProbe, At
<1>4. CASE WriteEngineConfig(a)
  <2>1. ~file' /\ UNCHANGED <<pid, proc>>
    BY <1>4 DEF WriteEngineConfig, GoesAsPlanned, SwitchedOff
  <2>2. op'[a].pc = "spawn" /\ op[a].pc = "write"
    BY <1>0, <1>4, CallGoes DEF WriteEngineConfig, At
  <2>3. op[Dog].pc = "stop" => op'[Dog].pc = "stop"
    BY <1>1, <2>2
  <2>4. QED
    BY <1>1, <2>1, <2>2, <2>3, PlanStays
<1>5. CASE Spawn(a)
  <2> DEFINE k == CHOOSE k \in Unused : TRUE
  <2>1. /\ k \in Unused /\ op' = [op EXCEPT ![a].pc = "record", ![a].pid = k]
        /\ proc' = [proc EXCEPT ![k] = [life |-> "registering", warp |-> file, pool |-> FALSE]]
        /\ UNCHANGED <<pid, file>> /\ op[a].pc = "spawn"
    BY <1>5 DEF Spawn, At
  <2> HIDE DEF k
  <2>2. k \in Pids /\ pid # k /\ \A b \in Actors : op[b].pid # k
    BY <2>1 DEF Unused
  <2>3. ~file
    BY <2>1 DEF GoesAsPlanned, WrittenOff
  <2>4. op'[a].pc = "record" /\ op'[a].pid = k
    BY <1>0, <2>1, <2>2, CallCarries
  <2>5. ~proc'[k].warp /\ \A j \in Pids : j # k => proc'[j] = proc[j]
    BY <1>0, <2>1, <2>2, <2>3
  <2>6. WrittenOff'
    BY <2>1, <2>3 DEF WrittenOff
  <2>7. StartedOff'
    BY <1>1, <2>2, <2>4, <2>5 DEF GoesAsPlanned, StartedOff
  <2>8. op[Dog].pc = "stop" => op'[Dog].pc = "stop"
    BY <1>1, <2>1
  <2>9. RememberedOff'
    BY <1>0, <2>1, <2>2, <2>5, <2>8 DEF GoesAsPlanned, RememberedOff
  <2>10. QED
    BY <1>1, <2>6, <2>7, <2>9 DEF GoesAsPlanned, SwitchedOff
<1>6. CASE Record(a)
  <2>1. /\ op[a].pid \in Pids /\ ~proc[op[a].pid].warp /\ pid' = op[a].pid
        /\ UNCHANGED <<proc, file>>
    BY <1>6 DEF Record, At, GoesAsPlanned, StartedOff
  <2>2. op'[a].pc = "wait"
    BY <1>0, <1>6, CallCarries DEF Record
  <2>3. WrittenOff' /\ StartedOff'
    BY <1>1, <2>1, <2>2 DEF GoesAsPlanned, WrittenOff, StartedOff
  <2>4. QED
    BY <1>1, <2>1, <2>3 DEF GoesAsPlanned, SwitchedOff, RememberedOff
<1>7. CASE WaitForPort(a) \/ WaitTimesOut(a) \/ StartFails(a)
  <2>1. op'[a].pc \in {"mark", "idle"}
    BY <1>0, <1>7, CallReturns, IdleType DEF WaitForPort, WaitTimesOut, StartFails
  <2>2. QED
    BY <1>2, <1>7, <2>1 DEF WaitForPort, WaitTimesOut, StartFails, At
<1>8. CASE StopTake(a)
  <2>1. op'[a].pc = "kill"
    BY <1>0, <1>8, CallCarries DEF StopTake
  <2>2. pid' = None /\ UNCHANGED <<proc, file>>
    BY <1>8 DEF StopTake
  <2>3. QED
    BY <1>1, <2>1, <2>2, PlanStays
<1>9. CASE StopKill(a)
  <2>1. op'[a].pc = "drain"
    BY <1>0, <1>9, CallCarries DEF StopKill
  <2>2. \A k \in Pids : proc'[k].warp => proc[k].warp
    BY <1>9, GoneType DEF StopKill
  <2>3. QED
    BY <1>2, <1>9, <2>1, <2>2 DEF StopKill, At
<1>10. CASE StopDrain(a)
  <2>1. op'[a].pc \in {"probe", "idle"}
    BY <1>0, <1>10, CallGoes, CallIs, IdleType DEF StopDrain
  <2>2. QED
    BY <1>2, <1>10, <2>1 DEF StopDrain, At
<1>11. QED
  BY <1>3, <1>4, <1>5, <1>6, <1>7, <1>8, <1>9, <1>10 DEF StartSteps, StopSteps

\* Calls neither begin a fallback nor save its setting.
LEMMA CallsOnlyContinue ==
  ASSUME TypeOK, NEW a \in Actors, StartSteps(a) \/ StopSteps(a) \/ StartFails(a), Committed'
  PROVE  Committed
<1> USE ActorFacts
<1>0. op \in [Actors -> OpStates]
  BY DEF TypeOK
<1>1. op[a].pc \in {"probe", "write", "spawn", "record", "wait", "stop", "kill", "drain"}
  BY DEF StartSteps, StopSteps, StartProbe, WriteEngineConfig, Spawn, Record, WaitForPort,
         WaitTimesOut, StopTake, StopKill, StopDrain, StartFails, At
<1>2. op'[a].job = "fallback" => op[a].job = "fallback"
  <2> USE <1>0
  <2>1. CASE StartProbe(a) \/ WaitForPort(a) \/ WaitTimesOut(a) \/ StartFails(a)
    BY <2>1, CallReturns, CallGoes, IdleType
       DEF StartProbe, WaitForPort, WaitTimesOut, StartFails
  <2>2. CASE WriteEngineConfig(a)
    BY <2>2, CallGoes DEF WriteEngineConfig
  <2>3. CASE Spawn(a)
    <3> DEFINE k == CHOOSE k \in Unused : TRUE
    <3>1. k \in Pids /\ op' = [op EXCEPT ![a].pc = "record", ![a].pid = k]
      BY <2>3 DEF Spawn, Unused
    <3> HIDE DEF k
    <3>2. QED
      BY <3>1, CallCarries
  <2>4. CASE Record(a)
    BY <2>4, CallCarries DEF Record
  <2>5. CASE StopTake(a)
    BY <2>5, CallCarries DEF StopTake, TypeOK
  <2>6. CASE StopKill(a)
    BY <2>6, CallCarries DEF StopKill
  <2>7. CASE StopDrain(a)
    BY <2>7, CallGoes, CallIs, IdleType DEF StopDrain
  <2>8. QED
    BY <2>1, <2>2, <2>3, <2>4, <2>5, <2>6, <2>7 DEF StartSteps, StopSteps
<1>3. disturbed' = disturbed /\ \A b \in Actors : b # a => op'[b] = op[b]
  BY CallsDoNotJudge
<1>4. QED
  BY <1>1, <1>2, <1>3 DEF Committed, FallingBack

\* Nothing but a fallback comes to the point where one is noted as done.
MarksFallbacks == At(Dog, "mark") => FallingBack

LEMMA MarksStep == TypeOK /\ MarksFallbacks /\ [Next]_vars => MarksFallbacks'
<1> SUFFICES ASSUME TypeOK, MarksFallbacks, [Next]_vars PROVE MarksFallbacks'
  OBVIOUS
<1> USE ActorFacts DEF MarksFallbacks, FallingBack, At
<1>0. op \in [Actors -> OpStates]
  BY DEF TypeOK
<1>1. ASSUME NEW a \in Actors, StartSteps(a) \/ StopSteps(a) \/ StartFails(a)
      PROVE  MarksFallbacks'
  <2>1. CASE a = Dog
    BY <1>1, <2>1, CallsDoNotJudge
  <2>2. CASE a # Dog
    <3>1. op'[Dog] = op[Dog]
      BY <1>1, <2>2, CallsDoNotJudge
    <3>2. QED
      BY <3>1
  <2>3. QED
    BY <2>1, <2>2
<1>2. CASE WatchdogTick
  BY <1>0, <1>2, IdleType, CallIs DEF WatchdogTick
<1>3. CASE Judge
  <2> DEFINE falls == [Idle EXCEPT !.pc = "config", !.job = "fallback"]
  <2>1. op' = [op EXCEPT ![Dog] = Idle] \/ op' = [op EXCEPT ![Dog] = falls]
    BY <1>3 DEF Judge
  <2>2. Idle.pc = "idle" /\ falls.pc = "config"
    BY IdleType
  <2> HIDE DEF falls
  <2>3. op'[Dog].pc \in {"idle", "config"}
    BY <1>0, <2>1, <2>2
  <2>4. QED
    BY <2>3
<1>4. CASE FallbackConfig
  BY <1>0, <1>4, SaveOutcome
<1>5. CASE FallbackMark
  BY <1>0, <1>5, IdleType, CallIs DEF FallbackMark
<1>6. ASSUME NEW u \in Users, PanelSteps(u) \/ ResetWarpFallback(u) PROVE MarksFallbacks'
  <2>1. u \in Actors /\ u # Dog
    BY EngineAssumption
  <2>2. op'[Dog] = op[Dog]
    BY <1>0, <1>6, <2>1, CallGoes
       DEF PanelSteps, Request, ChangeSettings, RetryWarp, WriteConfigOnly, ResetWarpFallback
  <2>3. QED
    BY <2>2
<1>7. ASSUME NEW k \in Pids, Listen(k) \/ PoolChanges(k) \/ Crash(k) PROVE MarksFallbacks'
  BY <1>7 DEF Listen, PoolChanges, Crash
<1>8. CASE UNCHANGED vars
  BY <1>8 DEF vars
<1>9. QED
  BY <1>1, <1>2, <1>3, <1>4, <1>5, <1>6, <1>7, <1>8 DEF Next, DogSteps

LEMMA UndisturbedInit == Init => Undisturbed
<1> SUFFICES ASSUME Init PROVE Undisturbed
  OBVIOUS
<1>1. op[Dog].job = "none"
  BY ActorFacts, IdleType DEF Init
<1>2. QED
  BY <1>1 DEF Undisturbed, Committed, FallingBack

\* The setting is saved: whoever is past the engine's file now is the disturbance noted.
LEMMA FallbackCommits ==
  ASSUME TypeOK, FallbackConfig, Committed'
  PROVE  GoesAsPlanned'
<1> USE ActorFacts
<1>0. op \in [Actors -> OpStates] /\ conf \in Confs
  BY DEF TypeOK, Confs
<1>1. op' # [op EXCEPT ![Dog] = Idle]
  BY <1>0, IdleType, CallIs DEF Committed, FallingBack
<1>2. /\ conf' = [conf EXCEPT !.warp = FALSE] /\ Goto(Dog, "stop")
      /\ disturbed' = (\E b \in Actors \ {Dog} : Launching(b))
  BY <1>1 DEF FallbackConfig
<1>3. op'[Dog].pc = "stop" /\ \A b \in Actors : b # Dog => op'[b] = op[b]
  BY <1>0, <1>2, CallGoes
<1>4. \A b \in Actors : op'[b].pc \notin {"spawn", "record"}
  BY <1>2, <1>3 DEF Committed, Launching
<1>5. ~conf'.warp
  BY <1>0, <1>2 DEF Confs
<1>6. QED
  BY <1>3, <1>4, <1>5 DEF GoesAsPlanned, SwitchedOff, WrittenOff, StartedOff, RememberedOff

LEMMA UndisturbedStep == TypeOK /\ Undisturbed /\ [Next]_vars => Undisturbed'
<1> SUFFICES ASSUME TypeOK, Undisturbed, [Next]_vars, Committed' PROVE GoesAsPlanned'
  BY DEF Undisturbed
<1> USE ActorFacts
<1>0. op \in [Actors -> OpStates] /\ conf \in Confs /\ proc \in [Pids -> ProcStates]
  BY DEF TypeOK, Confs
<1>1. ASSUME NEW a \in Actors, StartSteps(a) \/ StopSteps(a) \/ StartFails(a)
      PROVE  GoesAsPlanned'
  BY <1>1, CallsOnlyContinue, CallsGoAsPlanned DEF Undisturbed
<1>2. CASE WatchdogTick
  <2>1. op'[Dog].job # "fallback"
    BY <1>0, <1>2, IdleType, CallIs DEF WatchdogTick
  <2>2. QED
    BY <2>1 DEF Committed, FallingBack
<1>3. CASE Judge
  <2> DEFINE falls == [Idle EXCEPT !.pc = "config", !.job = "fallback"]
  <2>1. op' = [op EXCEPT ![Dog] = Idle] \/ op' = [op EXCEPT ![Dog] = falls]
    BY <1>3 DEF Judge
  <2>2. Idle.job = "none" /\ falls.pc = "config"
    BY IdleType
  <2> HIDE DEF falls
  <2>3. op'[Dog].job = "none" \/ op'[Dog].pc = "config"
    BY <1>0, <2>1, <2>2
  <2>4. QED
    BY <2>3 DEF Committed, FallingBack
<1>4. CASE FallbackConfig
  BY <1>4, FallbackCommits
<1>5. CASE FallbackMark
  <2>1. op'[Dog].job = "none"
    BY <1>0, <1>5, CallIs, IdleType DEF FallbackMark
  <2>2. QED
    BY <2>1 DEF Committed, FallingBack
<1>6. ASSUME NEW u \in Users, PanelSteps(u) PROVE GoesAsPlanned'
  <2>1. u \in Actors /\ u # Dog
    BY EngineAssumption
  <2>2. op'[Dog] = op[Dog] /\ UNCHANGED <<pid, proc>>
    BY <1>0, <1>6, <2>1 DEF PanelSteps, Request, ChangeSettings, RetryWarp, WriteConfigOnly
  <2>3. disturbed' = disturbed \/ disturbed' = (disturbed \/ (FallingBack /\ conf'.warp))
    BY <1>6 DEF PanelSteps, Request, ChangeSettings, RetryWarp, WriteConfigOnly, SwitchesOn
  <2>4. ~disturbed /\ Committed /\ GoesAsPlanned
    <3>1. ~disturbed
      BY <2>3, Zenon DEF Committed
    <3>2. QED
      BY <2>2, <3>1 DEF Committed, FallingBack, Undisturbed
  <2>5. ~conf'.warp
    <3>1. CASE Request(u) \/ WriteConfigOnly(u)
      BY <2>4, <3>1 DEF Request, WriteConfigOnly, GoesAsPlanned, SwitchedOff
    <3>2. CASE ChangeSettings(u) \/ RetryWarp(u)
      BY <2>4, <3>2 DEF ChangeSettings, RetryWarp, SwitchesOn, Committed
    <3>3. QED
      BY <1>6, <3>1, <3>2 DEF PanelSteps
  <2>6. file' => file
    BY <1>6, <2>4 DEF PanelSteps, Request, ChangeSettings, RetryWarp, WriteConfigOnly,
                      GoesAsPlanned, SwitchedOff
  <2>7. \A b \in Actors : op'[b] = op[b] \/ op'[b].pc \notin {"spawn", "record"}
    <3>1. CASE Request(u)
      <4>1. PICK job \in {"start", "stop", "restart"} :
              op' = [op EXCEPT ![u] = [Idle EXCEPT !.pc = IF job = "start" THEN "probe"
                                                          ELSE "stop", !.job = job]]
        BY <3>1 DEF Request
      <4>2. [Idle EXCEPT !.pc = IF job = "start" THEN "probe" ELSE "stop", !.job = job].pc
              \in {"probe", "stop"}
        BY DEF Idle
      <4>3. QED
        BY <1>0, <2>1, <4>1, <4>2
    <3>2. CASE RetryWarp(u)
      BY <1>0, <2>1, <3>2, IdleType, CallIs DEF RetryWarp
    <3>3. CASE ChangeSettings(u) \/ WriteConfigOnly(u)
      BY <3>3 DEF ChangeSettings, WriteConfigOnly
    <3>4. QED
      BY <1>6, <3>1, <3>2, <3>3 DEF PanelSteps
  <2>8. QED
    BY <2>2, <2>4, <2>5, <2>6, <2>7, PlanStays
<1>7. ASSUME NEW u \in Users, ResetWarpFallback(u) PROVE GoesAsPlanned'
  <2>1. u \in Actors /\ u # Dog
    BY EngineAssumption
  <2>2. /\ op'[u].pc = "stop" /\ \A b \in Actors : b # u => op'[b] = op[b]
        /\ UNCHANGED <<pid, proc, conf, file, disturbed>>
    BY <1>0, <1>7, <2>1, CallGoes DEF ResetWarpFallback
  <2>3. GoesAsPlanned
    BY <2>1, <2>2 DEF Committed, FallingBack, Undisturbed
  <2>4. QED
    BY <2>1, <2>2, <2>3, PlanStays DEF GoesAsPlanned, SwitchedOff
<1>8. ASSUME NEW k \in Pids, Listen(k) \/ PoolChanges(k) \/ Crash(k) PROVE GoesAsPlanned'
  <2>1. UNCHANGED <<pid, conf, file, op, disturbed>>
    BY <1>8 DEF Listen, PoolChanges, Crash
  <2>2. GoesAsPlanned
    BY <2>1 DEF Committed, FallingBack, Undisturbed
  <2>3. \A j \in Pids : proc'[j].warp => proc[j].warp
    <3>1. CASE Listen(k)
      <4>1. PICK full \in BOOLEAN :
              proc' = [proc EXCEPT ![k] = IF PortOpen THEN Gone
                                          ELSE [proc[k] EXCEPT !.life = "up", !.pool = full]]
        BY <3>1 DEF Listen
      <4>2. [proc[k] EXCEPT !.life = "up", !.pool = full].warp = proc[k].warp
        BY <1>0 DEF ProcStates
      <4>3. QED
        BY <1>0, <4>1, <4>2, GoneType, Zenon
    <3>2. CASE PoolChanges(k)
      BY <1>0, <3>2 DEF PoolChanges, ProcStates
    <3>3. CASE Crash(k)
      BY <1>0, <3>3, GoneType DEF Crash
    <3>4. QED
      BY <1>8, <3>1, <3>2, <3>3
  <2>4. QED
    BY <2>1, <2>2, <2>3, PlanStays DEF GoesAsPlanned, SwitchedOff
<1>9. CASE UNCHANGED vars
  BY <1>9 DEF vars, Undisturbed, Committed, FallingBack, GoesAsPlanned, SwitchedOff, WrittenOff,
              StartedOff, RememberedOff
<1>10. QED
  BY <1>1, <1>2, <1>3, <1>4, <1>5, <1>6, <1>7, <1>8, <1>9 DEF Next, DogSteps

\* When the watchdog notes a fallback as done, the engine that the manager remembers does not
\* run in WARP mode, whatever calls of Start, Stop and Restart crossed the fallback, unless
\* WARP was switched on since or a Start had written the engine's file before the setting was
\* saved (maybeAutoFallbackWarp, RestartFreeTierEngine, WriteEngineConfig).
THEOREM FallsBackForGood == Spec => []FallbackTakesEffect
<1>1. Init => Undisturbed /\ MarksFallbacks
  <2>1. Init => op[Dog].pc = "idle"
    BY ActorFacts, IdleType DEF Init
  <2>2. QED
    BY <2>1, UndisturbedInit DEF MarksFallbacks, At
<1>2. TypeOK /\ (Undisturbed /\ MarksFallbacks) /\ [Next]_vars => (Undisturbed /\ MarksFallbacks)'
  BY UndisturbedStep, MarksStep
<1>3. Undisturbed /\ MarksFallbacks => FallbackTakesEffect
  BY DEF Undisturbed, MarksFallbacks, Committed, GoesAsPlanned, RememberedOff,
         FallbackTakesEffect, At
<1>4. QED
  BY <1>1, <1>2, <1>3, TypeCorrect, PTL DEF Spec

=============================================================================
