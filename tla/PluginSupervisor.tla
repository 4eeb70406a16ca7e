-------------------------- MODULE PluginSupervisor --------------------------
(***************************************************************************)
(* The life cycle of one provider plugin inside one manager process, as    *)
(* core/manager/pluginprovider/manager.go runs it: the supervisor          *)
(* goroutine, the child process it spawns, and the three kinds of          *)
(* goroutine that interfere with it: the operator's handlers (Toggle and   *)
(* Delete, one at a time because both hold toggleMu), the directory        *)
(* watcher (scan and ensurePlugin) and Close.                              *)
(*                                                                         *)
(* An action is one critical section of Manager.mu, one channel operation  *)
(* or one call on a process: the code releases mu between those, so each   *)
(* gap is a place where another goroutine may run.                         *)
(*                                                                         *)
(* A child stands for everything one spawn cycle draws afresh: the process *)
(* id, the one-time token and the port it will listen on.  The lengths of  *)
(* the timers are abstracted: a timer may fire whenever it is armed.       *)
(***************************************************************************)
EXTENDS Naturals, Sequences

CONSTANTS
  Manifests,   \* contents provider.json can have
  Broken,      \* those that parseManifest or validateManifest rejects
  Entry,       \* Entry[m]: the entry and api_version that m declares
  Children,    \* identities of spawn cycles, reused once nothing refers to them
  ChanCap,     \* capacity of the stdout line channel
  Arrivals,    \* the kinds of request that arrive, of AllRequests
  None,        \* no child, no error
  ReadError    \* manErr after provider.json could not be read

ASSUME ManifestAssumption ==
  /\ Broken \subseteq Manifests
  /\ Entry \in [Manifests -> Manifests]
ASSUME SentinelAssumption ==
  /\ None \notin Children /\ None \notin Manifests
  /\ ReadError \notin Manifests /\ ReadError # None
AllRequests == {"on", "off", "delete", "gone", "ensure", "close"}

ASSUME ArrivalAssumption == Arrivals \subseteq AllRequests
ASSUME ChanAssumption == ChanCap \in Nat \ {0}

Statuses == {"disabled", "starting", "running", "need_config", "error"}

\* "forged" is a ready line whose token, id or port fails the check; "log" is
\* any line parseReadyLine does not take for a state line.
Lines == {"ready", "need_config", "fatal", "forged", "log"}

\* "operator" is whoever holds toggleMu; "watcher" is the scan that found the
\* directory gone or changed; "editor" is a handler that saves provider.json.
Actors == {"operator", "watcher", "editor", "closer"}
Editors == {"watcher", "editor"}

VARIABLES
  enabled, status, pid, auth, url,  \* fields of the plugin, under Manager.mu
  man, manErr,                      \* p.man (with p.raw) and p.manErr
  registered,                       \* the plugin is in m.plugins
  closed,                           \* m.closed, with m.ctx cancelled
  stopped,                          \* stopCh is closed
  retry,                            \* retryCh (capacity 1) holds a signal
  sup,                              \* the supervisor goroutine
  act,                              \* the other goroutines, by actor
  live,                             \* children whose process is alive
  lines                             \* stdoutCh of the current spawn cycle

pluginVars  == <<enabled, status, pid, auth, url>>
manVars     == <<man, manErr>>
managerVars == <<registered, closed, stopped>>
childVars   == <<live, lines>>
vars == <<pluginVars, manVars, managerVars, retry, sup, act, childVars>>

-----------------------------------------------------------------------------
(* Helpers.                                                                *)

ErrOf(m) == IF m \in Broken THEN m ELSE None

SupPCs ==
  {"top", "markDisabled", "parked", "markBroken", "brokenWait", "kill",
   "spawn", "adopt", "await", "failCheck", "markError", "backoff", "drain",
   "stable", "markStarting", "readyCommit", "markFatal", "done"}

ActPCs ==
  {"idle", "stop", "take", "kill", "unregister", "same", "markDisabled",
   "markStarting", "signal"}

\* Control moves on, the rest of the supervisor's locals stay.
Goto(pc) == sup' = [sup EXCEPT !.pc = pc]

\* The supervisor leaves a spawn cycle: nobody reads that cycle's channels again.
EndCycle(pc, then) ==
  /\ sup' = [pc |-> pc, kid |-> None, entry |-> None, then |-> then]
  /\ lines' = <<>>

\* setStatus: while the plugin is disabled only "disabled" may be written, and
\* "error" also drops the endpoint.
SetStatus(s) ==
  IF ~enabled /\ s # "disabled"
  THEN UNCHANGED pluginVars
  ELSE /\ status' = s
       /\ url' = IF s = "error" THEN None ELSE url
       /\ UNCHANGED <<enabled, pid, auth>>

\* signalRetry: a send that does not block on the channel of capacity 1.
SignalRetry == retry' = TRUE

\* The endpoint RunningPlugins lists for the router, None when it lists none.
Listed == IF registered /\ status = "running" THEN url ELSE None

-----------------------------------------------------------------------------
Init ==
  /\ enabled \in BOOLEAN
  /\ status = "starting"
  /\ pid = None /\ auth = None /\ url = None
  /\ man \in Manifests
  /\ manErr = ErrOf(man)
  /\ registered = TRUE /\ closed = FALSE /\ stopped = FALSE
  /\ retry = FALSE
  /\ sup = [pc |-> "top", kid |-> None, entry |-> None, then |-> "spawn"]
  /\ act = [a \in Actors |-> [pc |-> "idle", kind |-> "none", victim |-> None]]
  /\ live = {} /\ lines = <<>>

-----------------------------------------------------------------------------
(* The supervisor goroutine: supervise.                                    *)

\* Mutant: the old child is not reaped before a new one is spawned.
SupTopNoReap ==
  /\ sup.pc = "top" /\ ~closed /\ enabled /\ manErr = None
  /\ Goto("spawn")
  /\ UNCHANGED <<pluginVars, manVars, managerVars, retry, act, childVars>>

\* The head of the outer loop: one critical section reads closed, enabled and
\* manErr, and everything up to the next spawn goes by what it read.
SupTop ==
  /\ sup.pc = "top"
  /\ \/ closed /\ Goto("done")
     \/ ~closed /\ ~enabled /\ Goto("markDisabled")
     \/ ~closed /\ enabled /\ manErr # None /\ Goto("markBroken")
     \/ /\ ~closed /\ enabled /\ manErr = None
        /\ sup' = [sup EXCEPT !.pc = "kill", !.then = "spawn"]
  /\ UNCHANGED <<pluginVars, manVars, managerVars, retry, act, childVars>>

\* Every setStatus of the supervisor, with the place it goes on to.
SupMark ==
  /\ \/ sup.pc = "markDisabled" /\ SetStatus("disabled") /\ Goto("parked")
     \/ sup.pc = "markBroken"   /\ SetStatus("error")    /\ Goto("brokenWait")
     \/ sup.pc = "markError"    /\ SetStatus("error")    /\ Goto("backoff")
     \/ sup.pc = "markStarting" /\ SetStatus("starting") /\ Goto("top")
     \/ sup.pc = "markFatal"    /\ SetStatus("error")    /\ Goto("top")
  /\ UNCHANGED <<manVars, managerVars, retry, act, childVars>>

\* Parked while disabled; a retry signal sends it round the loop.
SupParkedRetry ==
  /\ sup.pc = "parked" /\ retry
  /\ retry' = FALSE /\ Goto("top")
  /\ UNCHANGED <<pluginVars, manVars, managerVars, act, childVars>>

\* Waiting on a broken manifest: a retry signal makes it read the file again.
\* The file can have been edited to anything, or be unreadable just now.
SupBrokenRetry ==
  /\ sup.pc = "brokenWait" /\ retry
  /\ retry' = FALSE /\ Goto("top")
  /\ \/ \E m \in Manifests : man' = m /\ manErr' = ErrOf(m)
     \/ man' = man /\ manErr' = ReadError
  /\ UNCHANGED <<pluginVars, managerVars, act, childVars>>

\* stopCh closed while waiting with no child of its own to kill.
SupStopWaiting ==
  /\ sup.pc \in {"parked", "brokenWait", "backoff"} /\ stopped
  /\ Goto("done")
  /\ UNCHANGED <<pluginVars, manVars, managerVars, retry, act, childVars>>

\* killCurrent by the supervisor, which does nothing else until the kill is done.
\* Before it kills on the way to a spawn it has read the entry to start.
SupKill ==
  /\ sup.pc = "kill"
  /\ pid' = None /\ live' = live \ {pid}
  /\ sup' = [sup EXCEPT !.pc = sup.then, !.then = "spawn",
                        !.entry = IF sup.then = "spawn" THEN Entry[man] ELSE None]
  /\ UNCHANGED <<enabled, status, auth, url, manVars, managerVars, retry, act,
                 lines>>

\* The manifest broke after the head of the loop: an entry that is not a path in
\* the plugin's directory fails before anything is killed.
SupBadEntry ==
  /\ sup.pc = "kill" /\ sup.then = "spawn" /\ man \in Broken
  /\ EndCycle("markError", "spawn")
  /\ UNCHANGED <<pluginVars, manVars, managerVars, retry, act, live>>

\* Identities nothing refers to any more.
FreshChildren ==
  Children \ (live \cup {pid, auth, url, sup.kid}
                   \cup {act[a].victim : a \in Actors})

\* The channels of the cycle are made anew and the process starts, or fails to.
SupSpawn(c) ==
  /\ sup.pc = "spawn"
  /\ live' = live \cup {c}
  /\ sup' = [sup EXCEPT !.pc = "adopt", !.kid = c]
  /\ UNCHANGED <<pluginVars, manVars, managerVars, retry, act, lines>>

SupSpawnFails ==
  /\ sup.pc = "spawn"
  /\ EndCycle("markError", "spawn")
  /\ UNCHANGED <<pluginVars, manVars, managerVars, retry, act, live>>

\* Mutant: the endpoint of the last cycle is left in place.
SupAdoptStaleUrl ==
  /\ sup.pc = "adopt"
  /\ pid' = sup.kid /\ auth' = sup.kid
  /\ Goto("await")
  /\ UNCHANGED <<enabled, status, url, manVars, managerVars, retry, act, childVars>>

\* Only now does the plugin record the process it owns.
SupAdopt ==
  /\ sup.pc = "adopt"
  /\ pid' = sup.kid /\ auth' = sup.kid /\ url' = None
  /\ Goto("await")
  /\ UNCHANGED <<enabled, status, manVars, managerVars, retry, act, childVars>>

\* Mutant: the cleanup forgets the child without killing it.
AbortNoKill(next) ==
  /\ pid'  = IF pid = sup.kid THEN None ELSE pid
  /\ auth' = IF pid = sup.kid THEN None ELSE auth
  /\ EndCycle(next, "spawn")
  /\ UNCHANGED <<enabled, status, url, manVars, managerVars, retry, act, live>>

\* The cleanup closure: forget the child if it is still the current one, kill it.
Abort(next) ==
  /\ pid'  = IF pid = sup.kid THEN None ELSE pid
  /\ auth' = IF pid = sup.kid THEN None ELSE auth
  /\ live' = live \ {sup.kid}
  /\ EndCycle(next, "spawn")
  /\ UNCHANGED <<enabled, status, url, manVars, managerVars, retry, act>>

\* Mutant: the start waits without a timer.
SupAwaitNoTimer ==
  /\ sup.pc = "await" /\ (closed \/ stopped)
  /\ Abort("failCheck")

\* The startup timer, or the cancellation of m.ctx or stopCh.
SupAwaitTimeout ==
  /\ sup.pc = "await"
  /\ Abort("failCheck")

\* stdout ends before any state line.
SupAwaitEof ==
  /\ sup.pc = "await" /\ lines = <<>>
  /\ Abort("failCheck")

\* Mutant: a good line is taken without looking at enabled and closed again.
SupAwaitLineUnchecked ==
  /\ sup.pc = "await" /\ lines # <<>> /\ Head(lines) \in {"ready", "need_config"}
  /\ lines' = Tail(lines)
  /\ IF Head(lines) = "ready"
     THEN status' = "running" /\ url' = sup.kid
     ELSE status' = "need_config" /\ url' = url
  /\ Goto("drain")
  /\ UNCHANGED <<enabled, pid, auth, manVars, managerVars, retry, act, live>>

\* One line of stdout during startup: anything but a state line is skipped, a
\* line that fails the check or reports a fatal error ends the attempt, and so
\* does a good one once the plugin is disabled or the manager closed.
SupAwaitLine ==
  /\ sup.pc = "await" /\ lines # <<>>
  /\ \/ /\ Head(lines) = "log"
        /\ lines' = Tail(lines)
        /\ UNCHANGED <<pluginVars, manVars, managerVars, retry, sup, act, live>>
     \/ /\ Head(lines) \in {"forged", "fatal"}
        /\ Abort("failCheck")
     \/ /\ Head(lines) \in {"ready", "need_config"} /\ (closed \/ ~enabled)
        /\ Abort("backoff")
     \/ /\ Head(lines) \in {"ready", "need_config"} /\ ~closed /\ enabled
        /\ lines' = Tail(lines)
        /\ IF Head(lines) = "ready"
           THEN status' = "running" /\ url' = sup.kid
           ELSE status' = "need_config" /\ url' = url
        /\ Goto("drain")
        /\ UNCHANGED <<enabled, pid, auth, manVars, managerVars, retry, act, live>>

\* fail: nothing is reported once the plugin is disabled or the manager closed.
SupFailCheck ==
  /\ sup.pc = "failCheck"
  /\ Goto(IF ~enabled \/ closed THEN "backoff" ELSE "markError")
  /\ UNCHANGED <<pluginVars, manVars, managerVars, retry, act, childVars>>

\* The backoff wait ends with its timer or with a retry signal.
SupBackoffTimer ==
  /\ sup.pc = "backoff"
  /\ Goto("top")
  /\ UNCHANGED <<pluginVars, manVars, managerVars, retry, act, childVars>>

SupBackoffRetry ==
  /\ sup.pc = "backoff" /\ retry
  /\ retry' = FALSE /\ Goto("top")
  /\ UNCHANGED <<pluginVars, manVars, managerVars, act, childVars>>

\* A retry signal that arrived during the spawn is dropped.
SupDrain ==
  /\ sup.pc = "drain"
  /\ retry' = FALSE /\ Goto("stable")
  /\ UNCHANGED <<pluginVars, manVars, managerVars, act, childVars>>

(* The stable state: one select over four channels.                        *)

\* watchExit saw the process end.
SupStableExit ==
  /\ sup.pc = "stable" /\ sup.kid \notin live
  /\ EndCycle("markError", "spawn")
  /\ UNCHANGED <<pluginVars, manVars, managerVars, retry, act, live>>

SupStableRetry ==
  /\ sup.pc = "stable" /\ retry
  /\ retry' = FALSE
  /\ EndCycle("kill", "markStarting")
  /\ UNCHANGED <<pluginVars, manVars, managerVars, act, live>>

SupStableStop ==
  /\ sup.pc = "stable" /\ stopped
  /\ EndCycle("kill", "done")
  /\ UNCHANGED <<pluginVars, manVars, managerVars, retry, act, live>>

\* Mutant: the supervisor returns when stdout ends.
SupStableEofReturns ==
  /\ sup.pc = "stable" /\ lines = <<>>
  /\ EndCycle("done", "spawn")
  /\ UNCHANGED <<pluginVars, manVars, managerVars, retry, act, live>>

\* stdoutCh is closed: treated as an exit, and the status is left as it is.
\* The scanner closes it when the process is gone, and also when the process
\* closes its stdout or prints a line longer than the scanner's buffer.
SupStableEof ==
  /\ sup.pc = "stable" /\ lines = <<>>
  /\ EndCycle("backoff", "spawn")
  /\ UNCHANGED <<pluginVars, manVars, managerVars, retry, act, live>>

\* handleStdoutLine, as far as its first critical section.
SupStableLine ==
  /\ sup.pc = "stable" /\ lines # <<>>
  /\ IF Head(lines) = "fatal"
     THEN EndCycle("kill", "markFatal")
     ELSE /\ lines' = Tail(lines)
          /\ IF Head(lines) = "ready" /\ ~closed /\ enabled /\ status # "running"
             THEN Goto("readyCommit")
             ELSE sup' = sup
  /\ UNCHANGED <<pluginVars, manVars, managerVars, retry, act, live>>

\* handleStdoutLine, its second critical section: nothing is checked again, and
\* the caller leaves the stable state.
SupReadyCommit ==
  /\ sup.pc = "readyCommit"
  /\ url' = sup.kid /\ status' = "running"
  /\ EndCycle("top", "spawn")
  /\ UNCHANGED <<enabled, pid, auth, manVars, managerVars, retry, act, live>>

Supervisor ==
  \/ SupTop \/ SupMark \/ SupParkedRetry \/ SupBrokenRetry \/ SupStopWaiting
  \/ SupKill \/ SupBadEntry
  \/ \E c \in FreshChildren : SupSpawn(c)
  \/ SupSpawnFails \/ SupAdopt
  \/ SupAwaitTimeout \/ SupAwaitEof \/ SupAwaitLine \/ SupFailCheck
  \/ SupBackoffTimer \/ SupBackoffRetry \/ SupDrain
  \/ SupStableExit \/ SupStableRetry \/ SupStableStop \/ SupStableEof
  \/ SupStableLine \/ SupReadyCommit

-----------------------------------------------------------------------------
(* The child, as its supervisor sees it.                                   *)

\* The current child prints a line; scanStdout drops it when the channel is full.
ChildPrints ==
  /\ sup.kid \in live /\ Len(lines) < ChanCap
  /\ \E l \in Lines : lines' = Append(lines, l)
  /\ UNCHANGED <<pluginVars, manVars, managerVars, retry, sup, act, live>>

\* A child dies of itself.
ChildDies ==
  /\ \E c \in live : live' = live \ {c}
  /\ UNCHANGED <<pluginVars, manVars, managerVars, retry, sup, act, lines>>

Child == ChildPrints \/ ChildDies

-----------------------------------------------------------------------------
(* The other goroutines.                                                   *)

Set(a, pc) == act' = [act EXCEPT ![a].pc = pc]

\* toggle(id, TRUE), its first critical section.
ToggleOn ==
  /\ "on" \in Arrivals /\ act["operator"].pc = "idle" /\ registered
  /\ enabled' = TRUE
  /\ Set("operator", IF enabled THEN "same" ELSE "markStarting")
  /\ UNCHANGED <<status, pid, auth, url, manVars, managerVars, retry, sup,
                 childVars>>

\* toggle(id, FALSE), its first critical section.
ToggleOff ==
  /\ "off" \in Arrivals /\ act["operator"].pc = "idle" /\ registered
  /\ enabled' = FALSE
  /\ act' = IF enabled
            THEN [act EXCEPT !["operator"].pc = "take", !["operator"].kind = "off"]
            ELSE act
  /\ UNCHANGED <<status, pid, auth, url, manVars, managerVars, retry, sup,
                 childVars>>

\* Delete, its second critical section.
DeleteBegin ==
  /\ "delete" \in Arrivals /\ act["operator"].pc = "idle" /\ registered
  /\ enabled' = FALSE
  /\ act' = [act EXCEPT !["operator"].pc = "stop", !["operator"].kind = "delete"]
  /\ UNCHANGED <<status, pid, auth, url, manVars, managerVars, retry, sup,
                 childVars>>

\* scan finds the directory gone: disabled and dropped from the map at once.
ScanGone ==
  /\ "gone" \in Arrivals /\ act["watcher"].pc = "idle" /\ registered /\ ~closed
  /\ enabled' = FALSE /\ registered' = FALSE
  /\ act' = [act EXCEPT !["watcher"].pc = "stop", !["watcher"].kind = "gone"]
  /\ UNCHANGED <<status, pid, auth, url, manVars, closed, stopped, retry, sup,
                 childVars>>

\* scan or SaveConfig hands ensurePlugin a content of provider.json that differs
\* from the one in memory.
EnsurePlugin(a) ==
  /\ "ensure" \in Arrivals /\ act[a].pc = "idle" /\ registered
  /\ \E m \in Manifests \ {man} :
       /\ man' = m /\ manErr' = ErrOf(m)
       /\ IF \/ ErrOf(m) # manErr
             \/ ErrOf(m) = None /\ Entry[m] # Entry[man]
          THEN Set(a, "signal")
          ELSE act' = act
  /\ UNCHANGED <<pluginVars, managerVars, retry, sup, childVars>>

\* Mutant: Close kills the child but does not close stopCh.
CloseBeginNoStop ==
  /\ "close" \in Arrivals /\ act["closer"].pc = "idle" /\ ~closed
  /\ closed' = TRUE
  /\ act' = [act EXCEPT !["closer"].pc = "take", !["closer"].kind = "close"]
  /\ UNCHANGED <<pluginVars, manVars, registered, stopped, retry, sup, childVars>>

\* Close: no new work, and m.ctx is cancelled.
CloseBegin ==
  /\ "close" \in Arrivals /\ act["closer"].pc = "idle" /\ ~closed
  /\ closed' = TRUE
  /\ act' = IF registered
            THEN [act EXCEPT !["closer"].pc = "stop", !["closer"].kind = "close"]
            ELSE act
  /\ UNCHANGED <<pluginVars, manVars, registered, stopped, retry, sup, childVars>>

\* stopPlugin: closes stopCh, once.
ActStop(a) ==
  /\ act[a].pc = "stop"
  /\ stopped' = TRUE
  /\ Set(a, "take")
  /\ UNCHANGED <<pluginVars, manVars, registered, closed, retry, sup, childVars>>

\* killCurrent in another goroutine: the same two halves.
ActTake(a) ==
  /\ act[a].pc = "take"
  /\ pid' = None
  /\ act' = [act EXCEPT ![a].pc = "kill", ![a].victim = pid]
  /\ UNCHANGED <<enabled, status, auth, url, manVars, managerVars, retry, sup,
                 childVars>>

AfterKill(kind) ==
  CASE kind = "off" -> "markDisabled" [] kind = "delete" -> "unregister" [] OTHER -> "idle"

ActKill(a) ==
  /\ act[a].pc = "kill"
  /\ live' = live \ {act[a].victim}
  /\ act' = [act EXCEPT ![a].pc = AfterKill(act[a].kind), ![a].victim = None]
  /\ UNCHANGED <<pluginVars, manVars, managerVars, retry, sup, lines>>

\* Mutant: enabling sets the status and sends no signal.
ActMarkNoSignal(a) ==
  /\ \/ act[a].pc = "markDisabled" /\ SetStatus("disabled") /\ Set(a, "idle")
     \/ act[a].pc = "markStarting" /\ SetStatus("starting") /\ Set(a, "idle")
  /\ UNCHANGED <<manVars, managerVars, retry, sup, childVars>>

\* Asking for what is already so only wakes a supervisor whose plugin is not up:
\* the status is read with no lock held, and a torn read equals neither of these.
ActSame(a) ==
  /\ act[a].pc = "same"
  /\ Set(a, IF status \in {"running", "need_config"} THEN "idle" ELSE "signal")
  /\ UNCHANGED <<pluginVars, manVars, managerVars, retry, sup, childVars>>

\* The two setStatus calls of toggle.
ActMark(a) ==
  /\ \/ act[a].pc = "markDisabled" /\ SetStatus("disabled") /\ Set(a, "idle")
     \/ act[a].pc = "markStarting" /\ SetStatus("starting") /\ Set(a, "signal")
  /\ UNCHANGED <<manVars, managerVars, retry, sup, childVars>>

ActSignal(a) ==
  /\ act[a].pc = "signal"
  /\ SignalRetry /\ Set(a, "idle")
  /\ UNCHANGED <<pluginVars, manVars, managerVars, sup, childVars>>

\* Delete takes the plugin out of the map after its directory is removed.
ActUnregister(a) ==
  /\ act[a].pc = "unregister"
  /\ registered' = FALSE /\ Set(a, "idle")
  /\ UNCHANGED <<pluginVars, manVars, closed, stopped, retry, sup, childVars>>

ActorStep(a) ==
  ActStop(a) \/ ActTake(a) \/ ActKill(a) \/ ActSame(a) \/ ActMark(a) \/ ActSignal(a)
    \/ ActUnregister(a)

Requests ==
  \/ ToggleOn \/ ToggleOff \/ DeleteBegin \/ ScanGone \/ CloseBegin
  \/ \E a \in Editors : EnsurePlugin(a)

-----------------------------------------------------------------------------
Next ==
  \/ Supervisor
  \/ Child
  \/ Requests
  \/ \E a \in Actors : ActorStep(a)

Spec == Init /\ [][Next]_vars

\* Goroutines are scheduled; armed timers fire; select chooses at random among
\* ready channels, so one that stays ready is chosen; the end of a process
\* reaches the two goroutines that read its pipe and wait for it.  Nothing is
\* assumed of requests or of what a child prints, nor that a start succeeds.
Fairness ==
  /\ WF_vars(Supervisor)
  /\ WF_vars(SupAwaitTimeout)
  /\ WF_vars(SupStableExit)
  /\ WF_vars(SupStableRetry)
  /\ WF_vars(SupStableStop)
  /\ \A a \in Actors : WF_vars(ActorStep(a))

FairSpec == Spec /\ Fairness

-----------------------------------------------------------------------------
(* Properties.                                                             *)

\* The locals of the supervisor, and those of another goroutine.
SupStates == [pc : SupPCs, kid : Children \cup {None}, entry : Manifests \cup {None},
              then : {"spawn", "markStarting", "markFatal", "done"}]
ActStates == [pc : ActPCs, kind : {"none", "off", "delete", "gone", "close"},
              victim : Children \cup {None}]

\* Every variable ranges over what the Go types allow it.
TypeOK ==
  /\ enabled \in BOOLEAN /\ status \in Statuses
  /\ pid \in Children \cup {None}
  /\ auth \in Children \cup {None}
  /\ url \in Children \cup {None}
  /\ man \in Manifests
  /\ manErr \in Broken \cup {None, ReadError}
  /\ registered \in BOOLEAN /\ closed \in BOOLEAN /\ stopped \in BOOLEAN
  /\ retry \in BOOLEAN
  /\ sup \in SupStates
  /\ act \in [Actors -> ActStates]
  /\ live \subseteq Children
  /\ lines \in Seq(Lines) /\ Len(lines) <= ChanCap

\* Somebody has taken c out of p.pid and is about to kill it.
Doomed(c) == \E a \in Actors : act[a].victim = c

\* An actor has announced a kill but has not taken the pid yet.
TakePending == \E a \in Actors : act[a].pc \in {"stop", "take"}

\* A process that is alive is never lost: it is the recorded child, or the one
\* that a spawn in progress is about to record, or a kill is on its way to it.
\* The pid is recorded well after the process starts, and a kill clears it well
\* before the process ends, with no lock held over either gap.
NoOrphanChild ==
  \A c \in live : \/ c = pid
                 \/ (c = sup.kid /\ sup.pc = "adopt")
                 \/ Doomed(c)

\* Starts, crashes, config restarts and toggles never pile processes up: of two
\* live children at least one is about to be killed.
ChildrenDoNotPileUp ==
  \A c, d \in live : c = d \/ Doomed(c) \/ Doomed(d)

\* What Endpoint and RunningPlugins hand to the router belongs together: the
\* token goes to the process that was given it, never to an older or newer one.
EndpointHasItsToken == status = "running" /\ url # None => auth = url

\* The supervisor never sleeps through the event it waits for: parked although
\* enabled, or on a broken manifest although it was repaired, it has a wake-up
\* in its channel or the goroutine that changed the field is about to send one.
NoLostWakeup ==
  /\ sup.pc = "parked" /\ enabled =>
       retry \/ act["operator"].pc \in {"markStarting", "signal"}
  /\ sup.pc = "brokenWait" /\ manErr = None =>
       retry \/ \E a \in Editors : act[a].pc = "signal"

\* A supervisor that parked or ended leaves no process behind, except one that
\* another goroutine is already on its way to kill.
RestLeavesNoChild ==
  sup.pc \in {"parked", "done"} =>
    \A c \in live : Doomed(c) \/ (c = pid /\ TakePending)

\* PluginEndpoint, the promise to the callers of the plugin: one process at a time that is
\* not about to be killed, and an endpoint offered only with the token of the process on
\* record, withdrawn before another one takes its place.
Promise == INSTANCE PluginEndpoint WITH
  serving <- {c \in live : ~Doomed(c)},
  started <- IF sup.pc = "adopt" THEN sup.kid ELSE None,
  token   <- auth,
  offered <- Listed
OffersAsPromised == Promise!Spec

(* Why these hold: the invariant that every action preserves.              *)

\* Only a kill in flight names a victim.
VictimsAreTaken == \A a \in Actors : act[a].victim # None => act[a].pc = "kill"

\* What the phase of the spawn cycle says of the recorded child and endpoint.
CycleInv ==
  /\ sup.pc \in {"spawn", "adopt"} => pid = None
  /\ sup.pc = "await" => pid \in {None, sup.kid} /\ url = None
  /\ sup.pc \in {"await", "drain", "stable", "readyCommit"} => auth = sup.kid
  /\ sup.pc \in {"adopt", "await", "drain", "stable", "readyCommit"} => sup.kid # None
  /\ sup.pc = "readyCommit" => status # "running"
  /\ url # None => auth = url

\* NoLostWakeup from the moment the supervisor has decided to sleep.
WakeupInv ==
  /\ sup.pc \in {"markDisabled", "parked"} /\ enabled =>
       retry \/ act["operator"].pc \in {"markStarting", "signal"}
  /\ sup.pc \in {"markBroken", "brokenWait"} /\ manErr = None =>
       retry \/ \E a \in Editors : act[a].pc = "signal"

Deleting ==
  act["operator"].kind = "delete" /\ act["operator"].pc \in {"stop", "take", "kill", "unregister"}

\* stopCh is closed only for a plugin that cannot be enabled any more.
DeleteInv ==
  /\ Deleting \/ ~registered => ~enabled
  /\ \A a \in Actors : act[a].kind = "delete" => a = "operator"
  /\ \A a \in Actors : act[a].pc = "unregister" => a = "operator" /\ Deleting
  /\ stopped \/ (\E a \in Actors : act[a].pc = "stop") => closed \/ ~registered \/ Deleting

\* Whoever disables the plugin or closes the manager kills the recorded child,
\* or leaves that to the startup the supervisor is in.
KillInv ==
  /\ (~enabled \/ closed) /\ pid # None => TakePending \/ sup.pc = "await"
  /\ sup.pc \in {"markDisabled", "parked", "done"} => pid = None \/ TakePending

\* The conjunction of all of it is inductive: the safety properties follow from
\* it, and each action of the four goroutines preserves it from any state.
Safe ==
  TypeOK /\ NoOrphanChild /\ VictimsAreTaken /\ CycleInv /\ WakeupInv /\ DeleteInv /\ KillInv

\* A plugin that stays disabled ends up without a process and shown as disabled,
\* whatever the supervisor was doing when it was switched off.
DisabledStops ==
  <>[](~enabled /\ ~closed) => <>[](live = {} /\ (registered => status = "disabled"))

\* toggle writes "starting" in a critical section of its own, after the one that enabled
\* the plugin.  A child that has reported meanwhile lives on under that status, unlisted,
\* when the retry signal that follows is dropped as one of the startup.
SetBack == sup.pc = "stable" /\ status = "starting"

\* The recorded child is alive and the router is offered it, or it waits for its settings.
Serves == pid \in live /\ (Listed = pid \/ status = "need_config" \/ SetBack)

\* A plugin that stays enabled with a good manifest is served by a live child or tried
\* again, for ever: no dropped ready line, silent child, failed start, crash or race
\* leaves its supervisor waiting for what will not come.
EnabledRecovers ==
  <>[](enabled /\ manErr = None /\ ~stopped /\ ~closed) =>
    []<>(sup.pc = "spawn" \/ Serves)

\* An endpoint whose process is gone does not stay listed for ever.
DeadEndpointDelisted ==
  \A c \in Children : (Listed = c /\ c \notin live) ~> (Listed # c \/ closed)

\* docs/PLUGIN-PROVIDERS.md:203 says a crashed plugin leaves the catalogue at once
\* and comes back when its restart is ready: while its supervisor waits out the
\* backoff, no process that is gone is listed.
\* (The code does not keep to this: README, section 3.)
CrashedIsDelisted == sup.pc = "backoff" /\ ~closed => Listed \in live \cup {None}

\* The comment at manager.go:524 says that a retry signal which arrived during the
\* spawn may be dropped, because the child was started from the latest manifest:
\* with nothing pending, the child in the stable state runs the entry declared.
\* (The code does not keep to this: README, section 3.)
LatestManifestRuns ==
  sup.pc = "stable" /\ manErr = None /\ ~retry /\ (\A a \in Editors : act[a].pc = "idle") =>
    sup.entry = Entry[man]

\* Close ends the supervisor and every process, and they stay ended.
CloseStops == closed ~> [](sup.pc = "done" /\ live = {})
=============================================================================
