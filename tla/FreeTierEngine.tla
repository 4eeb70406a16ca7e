--------------------------- MODULE FreeTierEngine ---------------------------
(***************************************************************************)
(* The manager runs the free tier engine, an external program on port      *)
(* 40080, as a child: core/manager/freetier_engine.go.  A watchdog looks   *)
(* at it every 30 seconds and, when its WARP pool is seen empty several    *)
(* times, switches WARP off so that requests with keys go out directly:    *)
(* core/manager/freetier_warp_fallback.go.                                 *)
(*                                                                         *)
(* Nothing keeps the calls of Start, Stop and Restart apart: the goroutine *)
(* of the program's start, the watchdog and the panel's requests run them  *)
(* side by side, and e.mu covers only the fields.  The engine registers    *)
(* its WARP exits, for up to 90 seconds, before it listens; one that finds *)
(* the port taken exits.  It outlives the manager.                         *)
(***************************************************************************)
EXTENDS Naturals

CONSTANTS
  Users,        \* goroutines of panel requests
  Pids,         \* process ids; one in use is not given out again
  Strikes,      \* warpFallbackStrikes
  MaxCalls,     \* bound on panel requests
  MaxFaults,    \* bound on crashes of the engine, failures to start it and waits for
                \* its port that end while it still registers
  None          \* no process

Boot == "boot"      \* the goroutine in main that starts the engine once
Dog == "dog"        \* WatchdogFreeTierEngine
Actors == Users \cup {Boot, Dog}

\* Every request of the panel has a goroutine of its own.
ASSUME EngineAssumption ==
  /\ Strikes \in Nat \ {0} /\ MaxCalls \in Nat /\ MaxFaults \in Nat
  /\ None \notin Pids
  /\ Boot \notin Users /\ Dog \notin Users

VARIABLES
  proc,     \* proc[k]: the process with id k; warp is what its config.json said
  pid,      \* e.pid
  conf,     \* the panel's settings: engine_enabled, engine_warp_enabled, _auto_fallback
  file,     \* warp.enabled in the engine's config.json
  fb,       \* m.warpFallback: strikes, applied
  op,       \* op[a]: the call of a in progress
  count,    \* bounds used up so far
  run,      \* history: rounds that judged the pool empty since one that judged it usable
  disturbed \* history: since the fallback saved its setting, WARP was switched on again; or
            \* a Start was then past its writing of the engine's file

vars == <<proc, pid, conf, file, fb, op, count, run, disturbed>>

Gone == [life |-> "gone", warp |-> FALSE, pool |-> FALSE]
Idle == [pc |-> "idle", job |-> "none", pid |-> None]
NoFallback == [strikes |-> 0, applied |-> FALSE]

\* A process of an earlier manager may still be listening.
Init ==
  /\ \E left \in {Gone, [life |-> "up", warp |-> TRUE, pool |-> FALSE]} :
        proc = [k \in Pids |-> IF k = CHOOSE j \in Pids : TRUE THEN left ELSE Gone]
  /\ pid = None
  /\ conf = [enabled |-> TRUE, warp |-> TRUE, auto |-> TRUE]
  /\ file = FALSE
  /\ fb = NoFallback
  /\ op = [a \in Actors |-> IF a = Boot THEN [Idle EXCEPT !.pc = "probe", !.job = "start"]
                            ELSE Idle]
  /\ count = [calls |-> 0, faults |-> 0]
  /\ run = 0 /\ disturbed = FALSE

Up(k) == proc[k].life = "up"
PortOpen == \E k \in Pids : Up(k)
At(a, pc) == op[a].pc = pc
Goto(a, pc) == op' = [op EXCEPT ![a].pc = pc]
FallingBack == op[Dog].job = "fallback"
Working(a) == ~At(a, "idle")

\* What the caller of Start goes on with when it returns.
Return(a) ==
  op' = [op EXCEPT ![a] = IF @.job = "fallback" THEN [@ EXCEPT !.pc = "mark"] ELSE Idle]

-----------------------------------------------------------------------------
(* StartFreeTierEngine.                                                    *)

\* Somebody listens: taken for the engine, whoever started it.
StartProbe(a) ==
  /\ At(a, "probe")
  /\ IF PortOpen THEN Return(a) ELSE Goto(a, "write")
  /\ UNCHANGED <<proc, pid, conf, file, fb, count, run, disturbed>>

\* WriteEngineConfig takes the settings as they are now.
WriteEngineConfig(a) ==
  /\ At(a, "write")
  /\ file' = conf.warp
  /\ Goto(a, "spawn")
  /\ UNCHANGED <<proc, pid, conf, fb, count, run, disturbed>>

\* The program is not installed, its configuration not writable, or it does not start.
StartFails(a) ==
  /\ op[a].pc \in {"write", "spawn"} /\ count.faults < MaxFaults
  /\ count' = [count EXCEPT !.faults = @ + 1]
  /\ Return(a)
  /\ UNCHANGED <<proc, pid, conf, file, fb, run, disturbed>>

\* Process ids are interchangeable: any unused one will do.
Unused == {k \in Pids : proc[k] = Gone /\ pid # k /\ \A b \in Actors : op[b].pid # k}

Spawn(a) ==
  /\ At(a, "spawn") /\ Unused # {}
  /\ LET k == CHOOSE k \in Unused : TRUE
     IN
       /\ proc' = [proc EXCEPT ![k] = [life |-> "registering", warp |-> file, pool |-> FALSE]]
       /\ op' = [op EXCEPT ![a].pc = "record", ![a].pid = k]
  /\ UNCHANGED <<pid, conf, file, fb, count, run, disturbed>>

\* The new process takes the place of whichever was remembered.
Record(a) ==
  /\ At(a, "record")
  /\ pid' = op[a].pid
  /\ op' = [op EXCEPT ![a].pc = "wait", ![a].pid = None]
  /\ UNCHANGED <<proc, conf, file, fb, count, run, disturbed>>

WaitForPort(a) ==
  /\ At(a, "wait") /\ PortOpen
  /\ Return(a)
  /\ UNCHANGED <<proc, pid, conf, file, fb, count, run, disturbed>>

\* After 20 seconds, or 95 when WARP is on: the process is left to itself.
WaitTimesOut(a) ==
  /\ At(a, "wait") /\ ~PortOpen
  /\ \/ count.faults < MaxFaults /\ count' = [count EXCEPT !.faults = @ + 1]
     \/ (\A k \in Pids : proc[k] = Gone) /\ UNCHANGED count
  /\ Return(a)
  /\ UNCHANGED <<proc, pid, conf, file, fb, run, disturbed>>

-----------------------------------------------------------------------------
(* StopFreeTierEngine and RestartFreeTierEngine.                           *)

StopTake(a) ==
  /\ At(a, "stop")
  /\ pid' = None
  /\ op' = [op EXCEPT ![a].pc = "kill", ![a].pid = pid]
  /\ UNCHANGED <<proc, conf, file, fb, count, run, disturbed>>

\* runner.Kill, when a process was remembered.
StopKill(a) ==
  /\ At(a, "kill")
  /\ proc' = [k \in Pids |-> IF k = op[a].pid THEN Gone ELSE proc[k]]
  /\ op' = [op EXCEPT ![a].pc = "drain", ![a].pid = None]
  /\ UNCHANGED <<pid, conf, file, fb, count, run, disturbed>>

\* waitPortClosed: the port is closed, or five seconds have passed.  Restart goes on
\* with Start either way.
StopDrain(a) ==
  /\ At(a, "drain")
  /\ IF op[a].job = "stop" THEN op' = [op EXCEPT ![a] = Idle] ELSE Goto(a, "probe")
  /\ UNCHANGED <<proc, pid, conf, file, fb, count, run, disturbed>>

-----------------------------------------------------------------------------
(* WatchdogFreeTierEngine and maybeAutoFallbackWarp.                       *)

\* Mutant: an engine that has gone is not brought back.
WatchdogTickOnlyHealth ==
  /\ At(Dog, "idle") /\ conf.enabled /\ PortOpen
  /\ op' = [op EXCEPT ![Dog] = [Idle EXCEPT !.pc = "health"]]
  /\ UNCHANGED <<proc, pid, conf, file, fb, count, run, disturbed>>

\* One round.  The port is closed while an engine registers, too.
WatchdogTick ==
  /\ At(Dog, "idle") /\ conf.enabled
  /\ op' = [op EXCEPT ![Dog] = IF PortOpen THEN [Idle EXCEPT !.pc = "health"]
                               ELSE [Idle EXCEPT !.pc = "stop", !.job = "restart"]]
  /\ UNCHANGED <<proc, pid, conf, file, fb, count, run, disturbed>>

\* Mutant: strikes add up although the pool was usable in between.
ObserveSum(h) ==
  IF h.present /\ ~h.usable THEN [fb EXCEPT !.strikes = @ + 1] ELSE fb

\* What an observation [present, usable] does to the strikes, and whether it is the
\* last that the fallback needs.
Observe(h) ==
  IF h.usable THEN [fb EXCEPT !.strikes = 0]
  ELSE IF h.present THEN [fb EXCEPT !.strikes = @ + 1] ELSE fb

\* fetchEngineHealth: what the process on the port says, if it answers.
Healths == {[present |-> proc[k].warp, usable |-> proc[k].warp /\ proc[k].pool] :
              k \in {j \in Pids : Up(j)}}

\* Judging an observation, in the section before the settings are written.
Judge ==
  /\ At(Dog, "health")
  /\ \/ /\ \E h \in Healths :
             IF conf.warp /\ conf.auto /\ ~fb.applied
             THEN LET new == Observe(h)
                      falls == h.present /\ ~h.usable /\ new.strikes >= Strikes
                  IN /\ fb' = [new EXCEPT !.strikes = IF @ > Strikes THEN Strikes ELSE @]
                     /\ run' = IF h.usable THEN 0
                               ELSE IF h.present /\ run < Strikes THEN run + 1 ELSE run
                     /\ op' = [op EXCEPT ![Dog] =
                                 IF falls THEN [Idle EXCEPT !.pc = "config", !.job = "fallback"]
                                 ELSE Idle]
             ELSE op' = [op EXCEPT ![Dog] = Idle] /\ UNCHANGED <<fb, run>>
     \/ op' = [op EXCEPT ![Dog] = Idle] /\ UNCHANGED <<fb, run>>   \* no answer
  /\ UNCHANGED <<proc, pid, conf, file, count, disturbed>>

\* A Start that has written the engine's file and not yet recorded the process.
Launching(a) == op[a].pc \in {"spawn", "record"}

\* Mutant: the engine is restarted although the setting was not saved.
FallbackConfigGoesOn ==
  /\ At(Dog, "config")
  /\ conf' \in {[conf EXCEPT !.warp = FALSE], conf}
  /\ disturbed' = (\E b \in Actors \ {Dog} : Launching(b))
  /\ Goto(Dog, "stop")
  /\ UNCHANGED <<proc, pid, file, fb, count, run>>

\* ConfigSet("engine_warp_enabled", "false"), then Restart.  When the file cannot be
\* written nothing is done: the strikes stay, and the next round tries again.
FallbackConfig ==
  /\ At(Dog, "config")
  /\ \/ /\ conf' = [conf EXCEPT !.warp = FALSE]
        /\ disturbed' = (\E b \in Actors \ {Dog} : Launching(b))
        /\ Goto(Dog, "stop")
     \/ /\ op' = [op EXCEPT ![Dog] = Idle]
        /\ UNCHANGED <<conf, disturbed>>
  /\ UNCHANGED <<proc, pid, file, fb, count, run>>

\* The fallback counts as applied, also when the restart failed.
FallbackMark ==
  /\ At(Dog, "mark")
  /\ fb' = [fb EXCEPT !.applied = TRUE]
  /\ op' = [op EXCEPT ![Dog] = Idle]
  /\ run' = 0 /\ disturbed' = FALSE
  /\ UNCHANGED <<proc, pid, conf, file, count>>

-----------------------------------------------------------------------------
(* The panel.                                                              *)

Call(u) ==
  /\ u \in Users /\ At(u, "idle") /\ count.calls < MaxCalls
  /\ count' = [count EXCEPT !.calls = @ + 1]

\* The history of a change of the settings.
SwitchesOn == disturbed' = (disturbed \/ (FallingBack /\ conf'.warp))

\* /free-tier/start, stop and restart.
Request(u) ==
  /\ Call(u)
  /\ \E job \in {"start", "stop", "restart"} :
       op' = [op EXCEPT ![u] = [Idle EXCEPT !.pc = IF job = "start" THEN "probe" ELSE "stop",
                                            !.job = job]]
  /\ UNCHANGED <<proc, pid, conf, file, fb, run, disturbed>>

\* The switches of the engine, of WARP and of the fallback.
ChangeSettings(u) ==
  /\ Call(u)
  /\ \E switch \in {"enabled", "warp", "auto"} : conf' = [conf EXCEPT ![switch] = ~@]
  /\ SwitchesOn
  /\ UNCHANGED <<proc, pid, file, fb, op, run>>

\* "Retry WARP": switch it on ...
RetryWarp(u) ==
  /\ Call(u)
  /\ conf' = [conf EXCEPT !.warp = TRUE]
  /\ SwitchesOn
  /\ op' = [op EXCEPT ![u] = [Idle EXCEPT !.pc = "reset", !.job = "restart"]]
  /\ UNCHANGED <<proc, pid, file, fb, run>>

\* ... forget what was decided, and restart the engine.
ResetWarpFallback(u) ==
  /\ At(u, "reset")
  /\ fb' = NoFallback
  /\ Goto(u, "stop")
  /\ UNCHANGED <<proc, pid, conf, file, count, run, disturbed>>

\* /free-tier/config writes the engine's file without a restart.
WriteConfigOnly(u) ==
  /\ Call(u)
  /\ file' = conf.warp
  /\ UNCHANGED <<proc, pid, conf, fb, op, run, disturbed>>

-----------------------------------------------------------------------------
(* The engine, as far as the manager can tell.                             *)

\* Registered: it listens, or finds the port taken and exits.
Listen(k) ==
  /\ proc[k].life = "registering"
  /\ \E full \in IF proc[k].warp THEN BOOLEAN ELSE {FALSE} :
       proc' = [proc EXCEPT ![k] = IF PortOpen THEN Gone
                                   ELSE [@ EXCEPT !.life = "up", !.pool = full]]
  /\ UNCHANGED <<pid, conf, file, fb, op, count, run, disturbed>>

\* The exits of the pool burn out or recover.
PoolChanges(k) ==
  /\ Up(k) /\ proc[k].warp
  /\ proc' = [proc EXCEPT ![k].pool = ~@]
  /\ UNCHANGED <<pid, conf, file, fb, op, count, run, disturbed>>

Crash(k) ==
  /\ Up(k) /\ count.faults < MaxFaults
  /\ count' = [count EXCEPT !.faults = @ + 1]
  /\ proc' = [proc EXCEPT ![k] = Gone]
  /\ UNCHANGED <<pid, conf, file, fb, op, run, disturbed>>

StartSteps(a) ==
  \/ StartProbe(a) \/ WriteEngineConfig(a) \/ Spawn(a) \/ Record(a)
  \/ WaitForPort(a) \/ WaitTimesOut(a)
StopSteps(a) == StopTake(a) \/ StopKill(a) \/ StopDrain(a)
DogSteps == WatchdogTick \/ Judge \/ FallbackConfig \/ FallbackMark
PanelSteps(u) ==
  Request(u) \/ ChangeSettings(u) \/ RetryWarp(u) \/ WriteConfigOnly(u)

Next ==
  \/ \E a \in Actors : StartSteps(a) \/ StopSteps(a) \/ StartFails(a)
  \/ DogSteps
  \/ \E u \in Users : PanelSteps(u) \/ ResetWarpFallback(u)
  \/ \E k \in Pids : Listen(k) \/ PoolChanges(k) \/ Crash(k)

Spec == Init /\ [][Next]_vars

\* Goroutines run, the watchdog's ticker ticks and answers, an engine that registers
\* gets to listen or exits.  A wait beats it MaxFaults times at most.
Fairness ==
  /\ \A a \in Actors : WF_vars(StartSteps(a)) /\ WF_vars(StopSteps(a))
  /\ WF_vars(DogSteps)
  /\ \A u \in Users : WF_vars(ResetWarpFallback(u))
  /\ \A k \in Pids : WF_vars(Listen(k))
FairSpec == Spec /\ Fairness

-----------------------------------------------------------------------------
(* Properties.                                                             *)

ProcStates == [life : {"gone", "registering", "up"}, warp : BOOLEAN, pool : BOOLEAN]
OpStates == [pc : {"idle", "probe", "write", "spawn", "record", "wait", "stop", "kill",
                   "drain", "health", "config", "mark", "reset"},
             job : {"none", "start", "stop", "restart", "fallback"},
             pid : Pids \cup {None}]

TypeOK ==
  /\ proc \in [Pids -> ProcStates]
  /\ pid \in Pids \cup {None}
  /\ conf \in [enabled : BOOLEAN, warp : BOOLEAN, auto : BOOLEAN]
  /\ file \in BOOLEAN
  /\ fb \in [strikes : 0..Strikes, applied : BOOLEAN]
  /\ op \in [Actors -> OpStates]
  /\ count \in [calls : 0..MaxCalls, faults : 0..MaxFaults]
  /\ run \in 0..Strikes /\ disturbed \in BOOLEAN

\* WARP is given up only after the pool was seen empty Strikes times without having been
\* seen usable in between: a pool that comes and goes is never taken for a dead one
\* (maybeAutoFallbackWarp), also when restarts and retries come between the rounds.
FallbackNeedsARun == At(Dog, "config") => run >= Strikes

\* When the watchdog notes the fallback as done, the engine that the manager remembers does
\* not run in WARP mode any more, whichever calls of Start, Stop and Restart crossed it and
\* however often the saving of the setting failed before.  It does when WARP was switched on
\* again since, or when a Start in flight had put the old mode into the engine's file before
\* the setting was saved.  (An engine that is not remembered: FallbackFreesTheKeys.)
FallbackTakesEffect ==
  At(Dog, "mark") /\ ~disturbed /\ pid # None => ~proc[pid].warp

\* maybeAutoFallbackWarp is there to restart the engine without WARP "so that keys are
\* directly usable": when it is done, with the same exceptions, no engine in WARP mode
\* holds the port.
\* (The code does not keep to this: README, section 3.)
FallbackFreesTheKeys ==
  At(Dog, "mark") /\ ~disturbed => ~\E k \in Pids : Up(k) /\ proc[k].warp

\* An engine that stays enabled is brought back after crashes, failed starts, slow
\* registrations and panel requests: in the end it serves and goes on serving.
EngineServes == <>[]conf.enabled => <>[]PortOpen
=============================================================================
