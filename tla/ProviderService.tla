-------------------------- MODULE ProviderService --------------------------
(***************************************************************************)
(* The manager process (port 40000) runs the provider service (port 50080) *)
(* as a child process: core/manager/providerservice.go.                    *)
(*                                                                         *)
(* Start and Stop are called by users through the panel and by the         *)
(* watchdog, with nothing but the short sections under p.mu to keep them   *)
(* apart: looking at the port, starting the process, asking it to shut     *)
(* down and waiting for it all happen outside the lock.  The child itself  *)
(* listens on its port some time after it was started and exits when the   *)
(* port is taken.  It does not notice that the manager has died.           *)
(***************************************************************************)
EXTENDS Naturals, FiniteSets

CONSTANTS
  Users,        \* concurrent panel requests
  Pids,         \* process ids; one in use is not given out again
  Configs,      \* values of the settings the child is started with: port and key
  FirstConf,    \* the settings when the manager starts
  MaxCalls,     \* bound on panel requests
  MaxChanges,   \* bound on changes of the settings
  MaxFaults,    \* bound on crashes, cleanups, failures to start a process and
                \* restarts of the manager
  None          \* no process, no settings

ASSUME ServiceAssumption ==
  /\ MaxCalls \in Nat /\ MaxChanges \in Nat /\ MaxFaults \in Nat
  /\ FirstConf \in Configs
  /\ None \notin Pids /\ None \notin Configs

Watch == "watch"
Actors == Users \cup {Watch}

VARIABLES
  child,    \* child[k]: the process with id k
  pid,      \* p.pid
  spawn,    \* p.spawnPort, p.spawnKey
  stopped,  \* p.stopped
  recent,   \* less than 15 seconds have passed since p.lastTry
  conf,     \* the settings in the configuration file
  op,       \* op[a]: the call of a in progress
  count,    \* bounds used up so far
  asked,    \* history: what users asked for last
  overlap   \* history: a Start began while another was in progress, or the manager
            \* was restarted while a child was running

vars == <<child, pid, spawn, stopped, recent, conf, op, count, asked, overlap>>

Dead == [st |-> "dead", cfg |-> None]
Idle == [pc |-> "idle", cfg |-> None, victim |-> None, child |-> None, restart |-> FALSE]

Init ==
  /\ child = [k \in Pids |-> Dead]
  /\ pid = None /\ spawn = None /\ stopped = FALSE /\ recent = FALSE
  /\ conf = FirstConf
  /\ op = [a \in Actors |-> Idle]
  /\ count = [calls |-> 0, changes |-> 0, faults |-> 0]
  /\ asked = "start"
  /\ overlap = FALSE

Alive(k) == k # None /\ child[k].st # "dead"

\* The process that listens on a port, if there is one.
Holds(k, port) == child[k].st \in {"up", "leaving"} /\ child[k].cfg.port = port
PortFree(port) == ~\E k \in Pids : Holds(k, port)

\* POST /api/admin/shutdown reaches whoever listens there and accepts the key.
AfterShutdown(c) ==
  [k \in Pids |-> IF child[k].st = "up" /\ child[k].cfg = c
                  THEN [child[k] EXCEPT !.st = "leaving"] ELSE child[k]]

At(a, pc) == op[a].pc = pc
Starting(a) == op[a].pc \in {"check", "spawn", "record"}
Return(a) == op' = [op EXCEPT ![a] = Idle]

\* A panel request begins; the watchdog's own calls begin where its round says so.
Begin(a, pc) ==
  \/ /\ a \in Users /\ At(a, "idle") /\ count.calls < MaxCalls
     /\ count' = [count EXCEPT !.calls = @ + 1]
     /\ asked' = pc
  \/ a = Watch /\ At(a, pc) /\ UNCHANGED <<count, asked>>

-----------------------------------------------------------------------------
(* Start.                                                                  *)

\* Mutant: a child that is running is not noticed.
StartBeginBlind(a) ==
  /\ Begin(a, "start")
  /\ stopped' = FALSE
  /\ op' = [op EXCEPT ![a] = [Idle EXCEPT !.pc = "check", !.cfg = conf]]
  /\ recent' = TRUE
  /\ overlap' = (overlap \/ \E b \in Actors \ {a} : Starting(b))
  /\ UNCHANGED <<child, pid, spawn, conf>>

\* Mutant: the mark left by Stop is not cleared.
StartBeginKeepsStop(a) ==
  /\ Begin(a, "start")
  /\ IF Alive(pid)
     THEN Return(a) /\ UNCHANGED <<recent, overlap>>
     ELSE /\ op' = [op EXCEPT ![a] = [Idle EXCEPT !.pc = "check", !.cfg = conf]]
          /\ recent' = TRUE
          /\ overlap' = (overlap \/ \E b \in Actors \ {a} : Starting(b))
  /\ UNCHANGED <<child, pid, spawn, stopped, conf>>

\* Under the lock: nothing to do, or take the settings and go on without it.
StartBegin(a) ==
  /\ Begin(a, "start")
  /\ stopped' = FALSE
  /\ IF Alive(pid)
     THEN Return(a) /\ UNCHANGED <<recent, overlap>>
     ELSE /\ op' = [op EXCEPT ![a] = [Idle EXCEPT !.pc = "check", !.cfg = conf]]
          /\ recent' = TRUE
          /\ overlap' = (overlap \/ \E b \in Actors \ {a} : Starting(b))
  /\ UNCHANGED <<child, pid, spawn, conf>>

\* The port is taken: give up.
StartCheck(a) ==
  /\ At(a, "check")
  /\ IF PortFree(op[a].cfg.port)
     THEN op' = [op EXCEPT ![a].pc = "spawn"] ELSE Return(a)
  /\ UNCHANGED <<child, pid, spawn, stopped, recent, conf, count, asked, overlap>>

\* A free id is one no process has and no call or record remembers.
Spawn(a) ==
  /\ At(a, "spawn")
  /\ \E k \in Pids :
       /\ ~Alive(k) /\ k # pid
       /\ \A b \in Actors : op[b].victim # k /\ op[b].child # k
       /\ child' = [child EXCEPT ![k] = [st |-> "booting", cfg |-> op[a].cfg]]
       /\ op' = [op EXCEPT ![a].pc = "record", ![a].child = k]
  /\ UNCHANGED <<pid, spawn, stopped, recent, conf, count, asked, overlap>>

SpawnFails(a) ==
  /\ At(a, "spawn") /\ count.faults < MaxFaults
  /\ count' = [count EXCEPT !.faults = @ + 1]
  /\ Return(a)
  /\ UNCHANGED <<child, pid, spawn, stopped, recent, conf, asked, overlap>>

Record(a) ==
  /\ At(a, "record")
  /\ pid' = op[a].child /\ spawn' = op[a].cfg
  /\ Return(a)
  /\ UNCHANGED <<child, stopped, recent, conf, count, asked, overlap>>

-----------------------------------------------------------------------------
(* Stop.                                                                   *)

\* Under the lock: take the id and what it was started with.
StopTake(a) ==
  /\ Begin(a, "stop")
  /\ pid' = None /\ stopped' = TRUE
  /\ op' = [op EXCEPT ![a] =
              IF pid # None
              THEN [Idle EXCEPT !.pc = "post", !.cfg = spawn, !.victim = pid,
                                !.restart = a = Watch]
              ELSE [Idle EXCEPT !.pc = IF a = Watch THEN "start" ELSE "idle"]]
  /\ UNCHANGED <<child, spawn, recent, conf, overlap>>

\* Ask for a graceful exit.
StopPost(a) ==
  /\ At(a, "post")
  /\ child' = AfterShutdown(op[a].cfg)
  /\ op' = [op EXCEPT ![a].pc = "wait"]
  /\ UNCHANGED <<pid, spawn, stopped, recent, conf, count, asked, overlap>>

\* The process has exited, or has not within three seconds and is killed, which
\* takes effect a little later.  The watchdog goes on to start the next one.
StopWait(a) ==
  /\ At(a, "wait")
  /\ LET v == op[a].victim IN
       child' = [child EXCEPT ![v] =
                   IF @.st = "up" THEN [@ EXCEPT !.st = "leaving"]
                   ELSE IF @.st = "booting" THEN Dead ELSE @]
  /\ op' = [op EXCEPT ![a] = [Idle EXCEPT !.pc = IF op[a].restart THEN "start" ELSE "idle"]]
  /\ UNCHANGED <<pid, spawn, stopped, recent, conf, count, asked, overlap>>

-----------------------------------------------------------------------------
(* The watchdog's round, and time.                                         *)

\* Mutant: a running child is never compared with the settings.
WatchTickNoCompare ==
  /\ At(Watch, "idle") /\ ~stopped /\ ~Alive(pid) /\ ~recent
  /\ op' = [op EXCEPT ![Watch].pc = "start"]
  /\ UNCHANGED <<child, pid, spawn, stopped, recent, conf, count, asked, overlap>>

\* What the round decides from its look under the lock; what it does comes later.
WatchTick ==
  /\ At(Watch, "idle") /\ ~stopped
  /\ IF Alive(pid) THEN spawn # conf ELSE ~recent
  /\ op' = [op EXCEPT ![Watch].pc = IF Alive(pid) THEN "stop" ELSE "start"]
  /\ UNCHANGED <<child, pid, spawn, stopped, recent, conf, count, asked, overlap>>

TimePasses ==
  /\ recent /\ recent' = FALSE
  /\ UNCHANGED <<child, pid, spawn, stopped, conf, op, count, asked, overlap>>

-----------------------------------------------------------------------------
(* The world: the child, the settings, the manager.                        *)

\* The child listens; it exits at once when its port is taken.
Bind(k) ==
  /\ child[k].st = "booting"
  /\ child' = [child EXCEPT ![k] = IF PortFree(@.cfg.port) THEN [@ EXCEPT !.st = "up"]
                                   ELSE Dead]
  /\ UNCHANGED <<pid, spawn, stopped, recent, conf, op, count, asked, overlap>>

Exit(k) ==
  /\ child[k].st = "leaving"
  /\ child' = [child EXCEPT ![k] = Dead]
  /\ UNCHANGED <<pid, spawn, stopped, recent, conf, op, count, asked, overlap>>

Crash(k) ==
  /\ child[k].st \in {"booting", "up"} /\ count.faults < MaxFaults
  /\ count' = [count EXCEPT !.faults = @ + 1]
  /\ child' = [child EXCEPT ![k] = Dead]
  /\ UNCHANGED <<pid, spawn, stopped, recent, conf, op, asked, overlap>>

\* A cleanup of the data directory shuts down the service it finds.
Clean ==
  /\ count.faults < MaxFaults /\ ~PortFree(conf.port)
  /\ count' = [count EXCEPT !.faults = @ + 1]
  /\ child' = AfterShutdown(conf)
  /\ UNCHANGED <<pid, spawn, stopped, recent, conf, op, asked, overlap>>

ChangeSettings ==
  /\ count.changes < MaxChanges
  /\ count' = [count EXCEPT !.changes = @ + 1]
  /\ \E c \in Configs \ {conf} : conf' = c
  /\ UNCHANGED <<child, pid, spawn, stopped, recent, op, asked, overlap>>

\* The manager dies, with whatever it was doing, and is started again.
RestartManager ==
  /\ count.faults < MaxFaults
  /\ count' = [count EXCEPT !.faults = @ + 1]
  /\ pid' = None /\ spawn' = None /\ stopped' = FALSE /\ recent' = FALSE
  /\ op' = [a \in Actors |-> Idle]
  /\ asked' = "start"
  /\ overlap' = (overlap \/ \E k \in Pids : Alive(k))
  /\ UNCHANGED <<child, conf>>

-----------------------------------------------------------------------------
CallStep(a) ==
  \/ a = Watch /\ (StartBegin(a) \/ StopTake(a))
  \/ StartCheck(a) \/ Spawn(a) \/ SpawnFails(a) \/ Record(a)
  \/ StopPost(a) \/ StopWait(a)

UserCall == \E u \in Users : StartBegin(u) \/ StopTake(u)

Next ==
  \/ UserCall
  \/ \E a \in Actors : CallStep(a)
  \/ WatchTick \/ TimePasses
  \/ \E k \in Pids : Bind(k) \/ Exit(k) \/ Crash(k)
  \/ Clean \/ ChangeSettings \/ RestartManager

Spec == Init /\ [][Next]_vars

\* Calls go on, the ticker fires, time passes, a started process gets to listen
\* and a process that was killed exits.
Fairness ==
  /\ \A a \in Actors : WF_vars(CallStep(a))
  /\ WF_vars(WatchTick) /\ WF_vars(TimePasses)
  /\ \A k \in Pids : WF_vars(Bind(k)) /\ WF_vars(Exit(k))

FairSpec == Spec /\ Fairness

-----------------------------------------------------------------------------
(* Properties.                                                             *)

ChildStates ==
  [st : {"booting", "up", "leaving"}, cfg : Configs] \cup {Dead}

OpStates ==
  [pc : {"idle", "start", "stop", "check", "spawn", "record", "post", "wait"},
   cfg : Configs \cup {None}, victim : Pids \cup {None}, child : Pids \cup {None},
   restart : BOOLEAN]

\* A call that is over remembers no process: a stale id must never be killed later.
TypeOK ==
  /\ child \in [Pids -> ChildStates]
  /\ pid \in Pids \cup {None} /\ spawn \in Configs \cup {None}
  /\ stopped \in BOOLEAN /\ recent \in BOOLEAN
  /\ conf \in Configs
  /\ op \in [Actors -> OpStates]
  /\ count \in [calls : 0 .. MaxCalls, changes : 0 .. MaxChanges,
                faults : 0 .. MaxFaults]
  /\ asked \in {"start", "stop"} /\ overlap \in BOOLEAN
  /\ \A a \in Actors :
       op[a].pc \in {"idle", "start", "stop"} => op[a].victim = None /\ op[a].child = None

\* Every running child is one the manager knows: recorded, about to be recorded, being
\* stopped, or on its way out.  That can only fail when two Starts ran at the same time
\* or the manager itself was restarted; Stops may interleave as they like.
NoLostChild ==
  overlap \/ \A k \in Pids :
    Alive(k) => \/ k = pid \/ child[k].st = "leaving"
                \/ \E a \in Actors : op[a].child = k \/ op[a].victim = k

\* The process named by pid runs with the settings remembered for it, so that Stop
\* speaks to the right port and the watchdog compares the right thing.
RecordMatches == Alive(pid) => child[pid].cfg = spawn

\* Once users, settings and faults come to rest, and unless users asked for it to be
\* stopped, somebody serves the configured port: whatever raced, nothing is stuck.
ServiceComesBack ==
  <>[](asked = "stop" \/ \E k \in Pids : child[k].st = "up" /\ Holds(k, conf.port))

\* Then, too, it is the manager's own child and it runs with the current settings,
\* unless a child was lost.
SettingsReachTheChild ==
  <>[](asked = "stop" \/ overlap \/
        (pid # None /\ child[pid] = [st |-> "up", cfg |-> conf] /\ spawn = conf))

\* CHANGELOG.md:163 says that the watchdog does not start by mistake what was stopped by
\* hand.  When no call is in progress and the last thing users asked for is a stop,
\* nothing runs.
\* (The code does not keep to this: README, section 3.)
StopHolds ==
  (asked = "stop" /\ \A a \in Actors : At(a, "idle")) =>
     \A k \in Pids : child[k].st \in {"dead", "leaving"}
=============================================================================
