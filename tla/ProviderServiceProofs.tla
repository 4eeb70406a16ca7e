------------------------ MODULE ProviderServiceProofs ------------------------
(***************************************************************************)
(* Proofs about ProviderService, for every set of users, process ids and   *)
(* settings and every bound: type correctness, that the record of a child  *)
(* matches the child, and that a child is lost only when Starts overlap or *)
(* the manager is restarted.                                               *)
(***************************************************************************)
EXTENDS ProviderService, TLAPS

-----------------------------------------------------------------------------
(* What a call carries along.                                              *)

Carries(o) ==
  /\ o.pc \in {"idle", "start", "stop"} => o.child = None /\ o.victim = None
  /\ o.pc \in {"check", "spawn"} => o.child = None /\ o.victim = None /\ o.cfg \in Configs
  /\ o.pc = "record" => o.child \in Pids /\ o.victim = None /\ o.cfg \in Configs
  /\ o.pc \in {"post", "wait"} => o.child = None /\ o.victim \in Pids

CallsTyped == op \in [Actors -> OpStates] /\ \A a \in Actors : Carries(op[a])

\* The inductive form of type correctness.
Typed == TypeOK /\ CallsTyped

\* Between two calls, or before one of the watchdog's, an actor remembers no process.
LEMMA IdleCarries ==
  ASSUME NEW pc \in {"idle", "start", "stop"}
  PROVE  /\ [Idle EXCEPT !.pc = pc] \in OpStates /\ Carries([Idle EXCEPT !.pc = pc])
         /\ [Idle EXCEPT !.pc = pc].pc = pc
         /\ Idle \in OpStates /\ Carries(Idle) /\ Idle.pc = "idle"
BY DEF Idle, OpStates, Carries

\* An actor that does not carry a process has none to lose.
LEMMA NothingCarried ==
  ASSUME NEW o \in OpStates, Carries(o), o.pc \in {"idle", "start", "stop", "check", "spawn"}
  PROVE  o.child = None /\ o.victim = None
BY DEF Carries

\* A step of one call.
LEMMA CallMoves ==
  ASSUME Typed, NEW a \in Actors, NEW o \in OpStates, Carries(o), op' = [op EXCEPT ![a] = o]
  PROVE  /\ CallsTyped' /\ op'[a] = o /\ \A b \in Actors : b # a => op'[b] = op[b]
<1>1. op'[a] = o /\ \A b \in Actors : b # a => op'[b] = op[b]
  BY DEF Typed, CallsTyped
<1>2. op' \in [Actors -> OpStates]
  BY DEF Typed, CallsTyped
<1>3. \A b \in Actors : Carries(op'[b])
  BY <1>1 DEF Typed, CallsTyped
<1>4. QED
  BY <1>1, <1>2, <1>3 DEF CallsTyped, Carries

LEMMA CallReturns ==
  ASSUME Typed, NEW a \in Actors, Return(a)
  PROVE  /\ CallsTyped' /\ op'[a] = Idle /\ \A b \in Actors : b # a => op'[b] = op[b]
<1>1. Idle \in OpStates /\ Carries(Idle)
  BY IdleCarries
<1>2. QED
  BY <1>1, CallMoves DEF Return

\* What was typed stays so where nothing changes.
LEMMA CallsAside == ASSUME Typed, op' = op PROVE CallsTyped'
BY DEF Typed, CallsTyped, Carries

\* TypeOK says of a call what Carries says when it is over.
LEMMA TypedParts ==
  ASSUME CallsTyped',
         child' \in [Pids -> ChildStates],
         pid' \in Pids \cup {None}, spawn' \in Configs \cup {None},
         stopped' \in BOOLEAN, recent' \in BOOLEAN, conf' \in Configs,
         count' \in [calls : 0 .. MaxCalls, changes : 0 .. MaxChanges, faults : 0 .. MaxFaults],
         asked' \in {"start", "stop"}, overlap' \in BOOLEAN
  PROVE  Typed'
BY DEF Typed, TypeOK, CallsTyped, Carries

-----------------------------------------------------------------------------
(* Type correctness.                                                       *)

LEMMA DeadType == Dead \in ChildStates /\ Dead.st = "dead"
BY DEF Dead, ChildStates

\* A child that is not dead has settings, and keeps them when it is asked to leave.
LEMMA LivingChild ==
  ASSUME NEW c \in ChildStates, c.st # "dead", NEW st \in {"booting", "up", "leaving"}
  PROVE  /\ c.cfg \in Configs /\ c.st \in {"booting", "up", "leaving"}
         /\ [c EXCEPT !.st = st] \in ChildStates
         /\ [c EXCEPT !.st = st].st = st /\ [c EXCEPT !.st = st].cfg = c.cfg
<1>1. c \in [st : {"booting", "up", "leaving"}, cfg : Configs]
  BY DeadType DEF ChildStates
<1>2. QED
  BY <1>1 DEF ChildStates

\* A step that starts no process: what lives was living, with the same settings, and what
\* was leaving does not come back.
NoneNew ==
  \A k \in Pids : child'[k].st # "dead" =>
    /\ child[k].st # "dead" /\ child'[k].cfg = child[k].cfg
    /\ child[k].st = "leaving" => child'[k].st = "leaving"

\* A shutdown request makes its child leave and no other change.
LEMMA ShutdownType ==
  ASSUME child \in [Pids -> ChildStates], NEW c, child' = AfterShutdown(c)
  PROVE  /\ child' \in [Pids -> ChildStates]
         /\ NoneNew
<1>1. ASSUME NEW k \in Pids, child[k].st = "up"
      PROVE  /\ [child[k] EXCEPT !.st = "leaving"] \in ChildStates
             /\ [child[k] EXCEPT !.st = "leaving"].st = "leaving"
             /\ [child[k] EXCEPT !.st = "leaving"].cfg = child[k].cfg
  <2>1. child[k] \in ChildStates /\ child[k].st # "dead"
    BY <1>1
  <2>2. QED
    BY <2>1, LivingChild
<1>2. QED
  BY <1>1 DEF AfterShutdown, NoneNew

LEMMA CountTypes ==
  ASSUME Typed
  PROVE  /\ count.calls < MaxCalls => [count EXCEPT !.calls = count.calls + 1]
              \in [calls : 0 .. MaxCalls, changes : 0 .. MaxChanges, faults : 0 .. MaxFaults]
         /\ count.changes < MaxChanges => [count EXCEPT !.changes = count.changes + 1]
              \in [calls : 0 .. MaxCalls, changes : 0 .. MaxChanges, faults : 0 .. MaxFaults]
         /\ count.faults < MaxFaults => [count EXCEPT !.faults = count.faults + 1]
              \in [calls : 0 .. MaxCalls, changes : 0 .. MaxChanges, faults : 0 .. MaxFaults]
<1>1. count \in [calls : 0 .. MaxCalls, changes : 0 .. MaxChanges, faults : 0 .. MaxFaults]
  BY DEF Typed, TypeOK
<1>2. /\ count.calls < MaxCalls => count.calls + 1 \in 0 .. MaxCalls
      /\ count.changes < MaxChanges => count.changes + 1 \in 0 .. MaxChanges
      /\ count.faults < MaxFaults => count.faults + 1 \in 0 .. MaxFaults
  BY <1>1, ServiceAssumption
<1>3. QED
  BY <1>1, <1>2

LEMMA TypedInit == Init => Typed
<1> SUFFICES ASSUME Init PROVE Typed
  OBVIOUS
<1>1. Idle \in OpStates /\ Carries(Idle)
  BY IdleCarries
<1>2. CallsTyped
  BY <1>1 DEF Init, CallsTyped
<1>3. child \in [Pids -> ChildStates]
  BY DeadType DEF Init
<1>4. count \in [calls : 0 .. MaxCalls, changes : 0 .. MaxChanges, faults : 0 .. MaxFaults]
  BY ServiceAssumption DEF Init
<1>5. QED
  BY <1>2, <1>3, <1>4, ServiceAssumption DEF Init, Typed, TypeOK, CallsTyped, Carries

\* How a call begins: from rest, or where the watchdog's round left it.
LEMMA BeginType ==
  ASSUME Typed, NEW a \in Actors, NEW pc \in {"start", "stop"}, Begin(a, pc)
  PROVE  /\ op[a].pc \in {"idle", pc}
         /\ asked' \in {"start", "stop"}
         /\ count' \in [calls : 0 .. MaxCalls, changes : 0 .. MaxChanges, faults : 0 .. MaxFaults]
<1>1. CASE a = Watch /\ At(a, pc) /\ UNCHANGED <<count, asked>>
  BY <1>1 DEF At, Typed, TypeOK
<1>2. CASE /\ a \in Users /\ At(a, "idle") /\ count.calls < MaxCalls
           /\ count' = [count EXCEPT !.calls = @ + 1]
           /\ asked' = pc
  BY <1>2, CountTypes DEF At
<1>3. QED
  BY <1>1, <1>2 DEF Begin

\* What a Start that goes on carries.
LEMMA CheckCarries ==
  ASSUME NEW c \in Configs
  PROVE  /\ [Idle EXCEPT !.pc = "check", !.cfg = c] \in OpStates
         /\ Carries([Idle EXCEPT !.pc = "check", !.cfg = c])
         /\ [Idle EXCEPT !.pc = "check", !.cfg = c].pc = "check"
         /\ [Idle EXCEPT !.pc = "check", !.cfg = c].child = None
         /\ [Idle EXCEPT !.pc = "check", !.cfg = c].victim = None
BY DEF Idle, OpStates, Carries

LEMMA StartBeginType == ASSUME Typed, NEW a \in Actors, StartBegin(a) PROVE Typed'
<1>1. /\ asked' \in {"start", "stop"}
      /\ count' \in [calls : 0 .. MaxCalls, changes : 0 .. MaxChanges, faults : 0 .. MaxFaults]
  BY BeginType DEF StartBegin
<1>2. CASE Alive(pid)
  <2>1. CallsTyped'
    BY <1>2, CallReturns DEF StartBegin
  <2>2. QED
    BY <1>1, <1>2, <2>1, TypedParts DEF StartBegin, Typed, TypeOK
<1>3. CASE ~Alive(pid)
  <2>1. conf \in Configs /\ op' = [op EXCEPT ![a] = [Idle EXCEPT !.pc = "check", !.cfg = conf]]
    BY <1>3 DEF StartBegin, Typed, TypeOK
  <2>2. CallsTyped'
    BY <2>1, CheckCarries, CallMoves
  <2>3. recent' \in BOOLEAN /\ overlap' \in BOOLEAN
    BY <1>3 DEF StartBegin, Typed, TypeOK
  <2>4. QED
    BY <1>1, <2>2, <2>3, TypedParts DEF StartBegin, Typed, TypeOK
<1>4. QED
  BY <1>2, <1>3

LEMMA StartCheckType == ASSUME Typed, NEW a \in Actors, StartCheck(a) PROVE Typed'
<1>1. op[a] \in OpStates /\ Carries(op[a]) /\ op[a].pc = "check"
  BY DEF StartCheck, At, Typed, CallsTyped
<1>2. [op[a] EXCEPT !.pc = "spawn"] \in OpStates /\ Carries([op[a] EXCEPT !.pc = "spawn"])
  BY <1>1 DEF OpStates, Carries
<1>3. op' = [op EXCEPT ![a] = [op[a] EXCEPT !.pc = "spawn"]] \/ Return(a)
  BY DEF StartCheck, Typed, CallsTyped
<1>4. CallsTyped'
  BY <1>2, <1>3, CallMoves, CallReturns
<1>5. QED
  BY <1>4, TypedParts DEF StartCheck, Typed, TypeOK

\* A new process takes an id that no record and no other call remembers.
LEMMA SpawnType ==
  ASSUME Typed, NEW a \in Actors, Spawn(a)
  PROVE  /\ Typed'
         /\ \E k \in Pids :
              /\ ~Alive(k) /\ k # pid /\ \A b \in Actors : op[b].child # k
              /\ child'[k].cfg = op[a].cfg /\ child'[k].st # "dead"
              /\ \A j \in Pids : j # k => child'[j] = child[j]
              /\ op'[a].child = k /\ op'[a].cfg = op[a].cfg /\ op'[a].pc = "record"
              /\ op'[a].victim = None
              /\ \A b \in Actors : b # a => op'[b] = op[b]
<1>1. PICK k \in Pids :
        /\ ~Alive(k) /\ k # pid /\ \A b \in Actors : op[b].victim # k /\ op[b].child # k
        /\ child' = [child EXCEPT ![k] = [st |-> "booting", cfg |-> op[a].cfg]]
        /\ op' = [op EXCEPT ![a].pc = "record", ![a].child = k]
  BY DEF Spawn
<1> DEFINE o == [op[a] EXCEPT !.pc = "record", !.child = k]
<1>2. op[a] \in OpStates /\ Carries(op[a]) /\ op[a].pc = "spawn"
  BY DEF Spawn, At, Typed, CallsTyped
<1>3. op[a].cfg \in Configs /\ op[a].victim = None
  BY <1>2 DEF Carries
<1>4. /\ o \in OpStates /\ o.pc = "record" /\ o.child = k /\ o.cfg = op[a].cfg
      /\ o.victim = None
  BY <1>2, <1>3 DEF OpStates
<1>5. op' = [op EXCEPT ![a] = o]
  BY <1>1 DEF Typed, CallsTyped
<1> HIDE DEF o
<1>6. Carries(o)
  BY <1>3, <1>4 DEF Carries
<1>7. CallsTyped' /\ op'[a] = o /\ \A b \in Actors : b # a => op'[b] = op[b]
  BY <1>4, <1>5, <1>6, CallMoves
<1>8. [st |-> "booting", cfg |-> op[a].cfg] \in ChildStates
  BY <1>3 DEF ChildStates
<1>9. /\ child' \in [Pids -> ChildStates]
      /\ child'[k].cfg = op[a].cfg /\ child'[k].st # "dead"
      /\ \A j \in Pids : j # k => child'[j] = child[j]
  BY <1>1, <1>8 DEF Typed, TypeOK
<1>10. Typed'
  BY <1>7, <1>9, TypedParts DEF Spawn, Typed, TypeOK
<1>11. QED
  BY <1>1, <1>4, <1>7, <1>9, <1>10

LEMMA SpawnFailsType == ASSUME Typed, NEW a \in Actors, SpawnFails(a) PROVE Typed'
BY CallReturns, CountTypes, TypedParts DEF SpawnFails, Typed, TypeOK

LEMMA RecordType ==
  ASSUME Typed, NEW a \in Actors, Record(a)
  PROVE  /\ Typed' /\ op'[a] = Idle /\ \A b \in Actors : b # a => op'[b] = op[b]
<1>1. op[a].child \in Pids /\ op[a].cfg \in Configs
  BY DEF Record, At, Typed, CallsTyped, Carries
<1>2. CallsTyped' /\ op'[a] = Idle /\ \A b \in Actors : b # a => op'[b] = op[b]
  BY CallReturns DEF Record
<1>3. QED
  BY <1>1, <1>2, TypedParts DEF Record, Typed, TypeOK

\* Stop takes the recorded process along, if there is one.
LEMMA StopTakeType ==
  ASSUME Typed, NEW a \in Actors, StopTake(a)
  PROVE  /\ Typed' /\ \A b \in Actors : b # a => op'[b] = op[b]
         /\ op[a].pc \in {"idle", "stop"}
         /\ op'[a].pc \in {"idle", "start", "post"} /\ (pid # None => op'[a].victim = pid)
<1>1. /\ asked' \in {"start", "stop"} /\ op[a].pc \in {"idle", "stop"}
      /\ count' \in [calls : 0 .. MaxCalls, changes : 0 .. MaxChanges, faults : 0 .. MaxFaults]
  BY BeginType DEF StopTake
<1>2. CASE pid # None
  <2> DEFINE o == [Idle EXCEPT !.pc = "post", !.cfg = spawn, !.victim = pid,
                               !.restart = a = Watch]
  <2>1. pid \in Pids /\ spawn \in Configs \cup {None} /\ (a = Watch) \in BOOLEAN
    BY <1>2 DEF Typed, TypeOK
  <2>2. op' = [op EXCEPT ![a] = o]
    BY <1>2 DEF StopTake
  <2>3. o \in OpStates /\ o.pc = "post" /\ o.child = None /\ o.victim = pid
    BY <2>1 DEF Idle, OpStates
  <2> HIDE DEF o
  <2>4. Carries(o)
    BY <2>1, <2>3 DEF Carries
  <2>5. CallsTyped' /\ op'[a] = o /\ \A b \in Actors : b # a => op'[b] = op[b]
    BY <2>2, <2>3, <2>4, CallMoves
  <2>6. Typed'
    BY <1>1, <2>5, TypedParts DEF StopTake, Typed, TypeOK
  <2>7. QED
    BY <1>1, <2>3, <2>5, <2>6
<1>3. CASE pid = None
  <2>1. PICK pc \in {"idle", "start"} : op' = [op EXCEPT ![a] = [Idle EXCEPT !.pc = pc]]
    BY <1>3 DEF StopTake
  <2>2. /\ CallsTyped' /\ op'[a].pc = pc /\ \A b \in Actors : b # a => op'[b] = op[b]
    BY <2>1, IdleCarries, CallMoves
  <2>3. Typed'
    BY <1>1, <2>2, TypedParts DEF StopTake, Typed, TypeOK
  <2>4. QED
    BY <1>1, <1>3, <2>2, <2>3
<1>4. QED
  BY <1>2, <1>3

LEMMA StopPostType ==
  ASSUME Typed, NEW a \in Actors, StopPost(a)
  PROVE  /\ Typed' /\ NoneNew /\ op'[a].victim = op[a].victim /\ op'[a].child = op[a].child
         /\ op'[a].pc = "wait" /\ \A b \in Actors : b # a => op'[b] = op[b]
<1> DEFINE o == [op[a] EXCEPT !.pc = "wait"]
<1>1. op[a] \in OpStates /\ Carries(op[a]) /\ op[a].pc = "post"
  BY DEF StopPost, At, Typed, CallsTyped
<1>2. o \in OpStates /\ o.pc = "wait" /\ o.victim = op[a].victim /\ o.child = op[a].child
  BY <1>1 DEF OpStates
<1>3. op' = [op EXCEPT ![a] = o]
  BY DEF StopPost, Typed, CallsTyped
<1> HIDE DEF o
<1>4. Carries(o)
  BY <1>1, <1>2 DEF Carries
<1>5. CallsTyped' /\ op'[a] = o /\ \A b \in Actors : b # a => op'[b] = op[b]
  BY <1>2, <1>3, <1>4, CallMoves
<1>6. child' \in [Pids -> ChildStates] /\ NoneNew
  BY ShutdownType DEF StopPost, Typed, TypeOK
<1>7. QED
  BY <1>2, <1>5, <1>6, TypedParts DEF StopPost, Typed, TypeOK

\* After the wait the process is gone, or on its way out.
LEMMA StopWaitType ==
  ASSUME Typed, NEW a \in Actors, StopWait(a)
  PROVE  /\ Typed' /\ NoneNew /\ child'[op[a].victim].st \in {"dead", "leaving"}
         /\ op[a].child = None /\ op'[a].pc \in {"start", "idle"}
         /\ \A b \in Actors : b # a => op'[b] = op[b]
<1> DEFINE v == op[a].victim
<1>1. op[a].child = None /\ v \in Pids
  BY DEF StopWait, At, Typed, CallsTyped, Carries
<1>2. child' = [child EXCEPT ![v] = IF child[v].st = "up" THEN [child[v] EXCEPT !.st = "leaving"]
                                    ELSE IF child[v].st = "booting" THEN Dead ELSE child[v]]
  BY DEF StopWait
<1>3. child[v] \in ChildStates /\ child[v].st \in {"dead", "booting", "up", "leaving"}
  <2>1. child[v] \in ChildStates
    BY <1>1 DEF Typed, TypeOK
  <2>2. child[v] = Dead \/ child[v].st \in {"booting", "up", "leaving"}
    BY <2>1 DEF ChildStates
  <2>3. QED
    BY <2>1, <2>2, DeadType
<1>4. child[v].st = "up" => /\ [child[v] EXCEPT !.st = "leaving"] \in ChildStates
                            /\ [child[v] EXCEPT !.st = "leaving"].st = "leaving"
                            /\ [child[v] EXCEPT !.st = "leaving"].cfg = child[v].cfg
  BY <1>3, LivingChild
<1>5. \A k \in Pids : k # v => child'[k] = child[k]
  BY <1>1, <1>2 DEF Typed, TypeOK
<1>6. /\ child'[v] \in ChildStates /\ child'[v].st \in {"dead", "leaving"}
      /\ child'[v].st # "dead" => child[v].st # "dead" /\ child'[v].cfg = child[v].cfg
  BY <1>1, <1>2, <1>3, <1>4, DeadType DEF Typed, TypeOK
<1>7. child' \in [Pids -> ChildStates] /\ NoneNew
  <2>1. NoneNew
    BY <1>5, <1>6 DEF NoneNew
  <2>2. child' \in [Pids -> ChildStates]
    BY <1>2, <1>3, <1>4, DeadType DEF Typed, TypeOK
  <2>3. QED
    BY <2>1, <2>2
<1> HIDE DEF v
<1>8. PICK pc \in {"start", "idle"} : op' = [op EXCEPT ![a] = [Idle EXCEPT !.pc = pc]]
  BY DEF StopWait
<1>9. CallsTyped' /\ op'[a].pc = pc /\ \A b \in Actors : b # a => op'[b] = op[b]
  BY <1>8, IdleCarries, CallMoves
<1>10. Typed'
  BY <1>7, <1>9, TypedParts DEF StopWait, Typed, TypeOK
<1>11. QED
  BY <1>1, <1>6, <1>7, <1>9, <1>10 DEF v

LEMMA WatchTickType ==
  ASSUME Typed, WatchTick
  PROVE  /\ Typed' /\ op[Watch].pc = "idle" /\ op'[Watch].pc \in {"start", "stop"}
         /\ \A b \in Actors : b # Watch => op'[b] = op[b]
<1>1. Watch \in Actors /\ op[Watch] \in OpStates /\ Carries(op[Watch]) /\ op[Watch].pc = "idle"
  BY DEF Actors, WatchTick, At, Typed, CallsTyped
<1>2. PICK pc \in {"start", "stop"} : op' = [op EXCEPT ![Watch].pc = pc]
  BY DEF WatchTick
<1> DEFINE o == [op[Watch] EXCEPT !.pc = pc]
<1>3. o \in OpStates /\ o.pc = pc /\ o.victim = None /\ o.child = None
  BY <1>1 DEF OpStates, Carries
<1>4. op' = [op EXCEPT ![Watch] = o]
  BY <1>2 DEF Typed, CallsTyped
<1> HIDE DEF o
<1>5. Carries(o)
  BY <1>3 DEF Carries
<1>6. CallsTyped' /\ op'[Watch] = o /\ \A b \in Actors : b # Watch => op'[b] = op[b]
  BY <1>1, <1>3, <1>4, <1>5, CallMoves
<1>7. QED
  BY <1>1, <1>3, <1>6, TypedParts DEF WatchTick, Typed, TypeOK

LEMMA TimePassesType == ASSUME Typed, TimePasses PROVE Typed'
BY CallsAside, TypedParts DEF TimePasses, Typed, TypeOK

\* The child binds its port or exits; it exits when it was asked to, or dies.
LEMMA ChildType ==
  ASSUME Typed, NEW k \in Pids, Bind(k) \/ Exit(k) \/ Crash(k)
  PROVE  Typed' /\ NoneNew
<1>1. \/ child' = [child EXCEPT ![k] = Dead]
      \/ child[k].st = "booting" /\ child' = [child EXCEPT ![k] = [child[k] EXCEPT !.st = "up"]]
  BY DEF Bind, Exit, Crash
<1>2. child[k] \in ChildStates
  BY DEF Typed, TypeOK
<1>3. child[k].st = "booting" => /\ [child[k] EXCEPT !.st = "up"] \in ChildStates
                                 /\ [child[k] EXCEPT !.st = "up"].cfg = child[k].cfg
  BY <1>2, LivingChild
<1>4. child' \in [Pids -> ChildStates]
  BY <1>1, <1>3, DeadType DEF Typed, TypeOK
<1>5. NoneNew
  BY <1>1, <1>3, DeadType DEF NoneNew, Typed, TypeOK
<1>6. count' \in [calls : 0 .. MaxCalls, changes : 0 .. MaxChanges, faults : 0 .. MaxFaults]
  BY CountTypes DEF Bind, Exit, Crash, Typed, TypeOK
<1>7. Typed'
  BY <1>4, <1>6, CallsAside, TypedParts DEF Bind, Exit, Crash, Typed, TypeOK
<1>8. QED
  BY <1>5, <1>7

LEMMA CleanType == ASSUME Typed, Clean PROVE Typed' /\ NoneNew
<1>1. child' \in [Pids -> ChildStates] /\ NoneNew
  BY ShutdownType DEF Clean, Typed, TypeOK
<1>2. QED
  BY <1>1, CallsAside, CountTypes, TypedParts DEF Clean, Typed, TypeOK

LEMMA ChangeSettingsType == ASSUME Typed, ChangeSettings PROVE Typed'
BY CallsAside, CountTypes, TypedParts DEF ChangeSettings, Typed, TypeOK

LEMMA RestartType == ASSUME Typed, RestartManager PROVE Typed'
<1>1. CallsTyped'
  BY IdleCarries DEF RestartManager, CallsTyped, Carries
<1>2. overlap' \in BOOLEAN
  BY DEF RestartManager, Typed, TypeOK
<1>3. QED
  BY <1>1, <1>2, CountTypes, TypedParts DEF RestartManager, Typed, TypeOK

LEMMA TypedStep == Typed /\ [Next]_vars => Typed'
<1> SUFFICES ASSUME Typed, [Next]_vars PROVE Typed'
  OBVIOUS
<1>1. ASSUME NEW a \in Actors, StartBegin(a) \/ StopTake(a) PROVE Typed'
  BY <1>1, StartBeginType, StopTakeType
<1>2. ASSUME NEW a \in Actors, CallStep(a) PROVE Typed'
  BY <1>1, <1>2, StartCheckType, SpawnType, SpawnFailsType, RecordType, StopPostType, StopWaitType
  DEF CallStep
<1>3. ASSUME NEW k \in Pids, Bind(k) \/ Exit(k) \/ Crash(k) PROVE Typed'
  BY <1>3, ChildType
<1>4. CASE WatchTick \/ TimePasses \/ Clean \/ ChangeSettings \/ RestartManager
  BY <1>4, WatchTickType, TimePassesType, CleanType, ChangeSettingsType, RestartType
<1>5. CASE UNCHANGED vars
  BY <1>5, CallsAside, TypedParts DEF vars, Typed, TypeOK
<1>6. QED
  BY <1>1, <1>2, <1>3, <1>4, <1>5 DEF Next, UserCall, Actors

\* The manager keeps its types; a call that is over remembers no process, so that no stale
\* process id is stopped later.
THEOREM TypeCorrect == Spec => []TypeOK
<1>1. Typed => TypeOK
  BY DEF Typed
<1>2. QED
  BY <1>1, TypedInit, TypedStep, PTL DEF Spec

-----------------------------------------------------------------------------
(* The record of a child matches the child.                                *)

\* Until it is recorded, a child runs with the settings its Start will record.
RecordsMatch ==
  /\ RecordMatches
  /\ \A a \in Actors : At(a, "record") /\ Alive(op[a].child) =>
       child[op[a].child].cfg = op[a].cfg

\* Where no process is started, what matched still does.
LEMMA MatchAside ==
  ASSUME Typed, RecordsMatch, NoneNew, UNCHANGED spawn, pid' = pid \/ pid' = None,
         \A a \in Actors : op'[a].pc = "record" => op'[a] = op[a]
  PROVE  RecordsMatch'
<1>1. \A k \in Pids : Alive(k)' => Alive(k) /\ child'[k].cfg = child[k].cfg
  BY DEF NoneNew, Alive
<1>2. RecordMatches'
  BY <1>1 DEF RecordsMatch, RecordMatches, Typed, TypeOK, Alive
<1>3. ASSUME NEW a \in Actors, At(a, "record")', Alive(op[a].child)'
      PROVE  child'[op'[a].child].cfg = op'[a].cfg
  <2>1. op'[a] = op[a] /\ At(a, "record") /\ op[a].child \in Pids
    BY <1>3 DEF At, Typed, CallsTyped, Carries
  <2>2. QED
    BY <1>1, <1>3, <2>1 DEF RecordsMatch, Alive
<1>4. QED
  BY <1>2, <1>3 DEF RecordsMatch, At, Alive

LEMMA NoChange == child' = child => NoneNew
BY DEF NoneNew

\* A new process has an id nobody remembers.
LEMMA MatchSpawn == ASSUME Typed, RecordsMatch, NEW a \in Actors, Spawn(a) PROVE RecordsMatch'
<1>1. PICK k \in Pids :
        /\ ~Alive(k) /\ k # pid /\ \A b \in Actors : op[b].child # k
        /\ child'[k].cfg = op[a].cfg /\ child'[k].st # "dead"
        /\ \A j \in Pids : j # k => child'[j] = child[j]
        /\ op'[a].child = k /\ op'[a].cfg = op[a].cfg /\ op'[a].pc = "record"
        /\ op'[a].victim = None
        /\ \A b \in Actors : b # a => op'[b] = op[b]
  BY SpawnType
<1>2. pid' = pid /\ spawn' = spawn
  BY DEF Spawn
<1>3. RecordMatches'
  BY <1>1, <1>2 DEF RecordsMatch, RecordMatches, Alive, Typed, TypeOK
<1>4. ASSUME NEW b \in Actors, op'[b].pc = "record", Alive(op[b].child)'
      PROVE  child'[op'[b].child].cfg = op'[b].cfg
  <2>1. CASE b = a
    BY <1>1, <2>1
  <2>2. CASE b # a
    <3>1. op'[b] = op[b] /\ op[b].child # k /\ op[b].child \in Pids
      BY <1>1, <1>4, <2>2 DEF Typed, CallsTyped, Carries
    <3>2. QED
      BY <1>1, <1>4, <3>1 DEF RecordsMatch, Alive, At
  <2>3. QED
    BY <2>1, <2>2
<1>5. QED
  BY <1>3, <1>4 DEF RecordsMatch, At, Alive

LEMMA MatchRecord == ASSUME Typed, RecordsMatch, NEW a \in Actors, Record(a) PROVE RecordsMatch'
<1>1. /\ op'[a] = Idle /\ Idle.pc = "idle" /\ \A b \in Actors : b # a => op'[b] = op[b]
      /\ pid' = op[a].child /\ spawn' = op[a].cfg /\ child' = child /\ op[a].pc = "record"
  BY RecordType DEF Record, At, Idle
<1>2. RecordMatches'
  BY <1>1 DEF RecordsMatch, RecordMatches, Alive, At
<1>3. ASSUME NEW b \in Actors, op'[b].pc = "record", Alive(op[b].child)'
      PROVE  child'[op'[b].child].cfg = op'[b].cfg
  <2>1. b # a /\ op'[b] = op[b]
    BY <1>1, <1>3
  <2>2. QED
    BY <1>1, <1>3, <2>1 DEF RecordsMatch, Alive, At
<1>4. QED
  BY <1>2, <1>3 DEF RecordsMatch, At, Alive

\* How the calls other than Spawn and Record move: none comes to record a process.
LEMMA OtherCalls ==
  ASSUME Typed, NEW a \in Actors,
         \/ StartBegin(a) \/ StopTake(a) \/ StartCheck(a) \/ SpawnFails(a)
         \/ StopPost(a) \/ StopWait(a)
  PROVE  /\ op'[a].pc # "record" /\ \A b \in Actors : b # a => op'[b] = op[b]
         /\ NoneNew /\ spawn' = spawn /\ (pid' = pid \/ pid' = None)
<1>1. Idle.pc = "idle"
  BY DEF Idle
<1>2. CASE StartBegin(a)
  <2>1. CASE Alive(pid)
    BY <1>1, <1>2, <2>1, CallReturns, NoChange DEF StartBegin
  <2>2. CASE ~Alive(pid)
    <3>1. conf \in Configs /\ op' = [op EXCEPT ![a] = [Idle EXCEPT !.pc = "check", !.cfg = conf]]
      BY <1>2, <2>2 DEF StartBegin, Typed, TypeOK
    <3>2. op'[a].pc = "check" /\ \A b \in Actors : b # a => op'[b] = op[b]
      BY <3>1, CheckCarries, CallMoves
    <3>3. QED
      BY <1>2, <3>2, NoChange DEF StartBegin
  <2>3. QED
    BY <2>1, <2>2
<1>3. CASE StopTake(a)
  BY <1>3, StopTakeType, NoChange DEF StopTake
<1>4. CASE StartCheck(a)
  <2>1. op'[a].pc # "record" /\ \A b \in Actors : b # a => op'[b] = op[b]
    <3>1. CASE Return(a)
      BY <1>1, <3>1, CallReturns
    <3>2. CASE op' = [op EXCEPT ![a].pc = "spawn"]
      BY <3>2 DEF Typed, CallsTyped, OpStates
    <3>3. QED
      BY <1>4, <3>1, <3>2 DEF StartCheck
  <2>2. QED
    BY <1>4, <2>1, NoChange DEF StartCheck
<1>5. CASE SpawnFails(a)
  BY <1>1, <1>5, CallReturns, NoChange DEF SpawnFails
<1>6. CASE StopPost(a)
  BY <1>6, StopPostType DEF StopPost
<1>7. CASE StopWait(a)
  BY <1>7, StopWaitType DEF StopWait
<1>8. QED
  BY <1>2, <1>3, <1>4, <1>5, <1>6, <1>7

LEMMA MatchStep == Typed /\ RecordsMatch /\ [Next]_vars => RecordsMatch'
<1> SUFFICES ASSUME Typed, RecordsMatch, [Next]_vars PROVE RecordsMatch'
  OBVIOUS
<1>1. ASSUME NEW a \in Actors,
             \/ StartBegin(a) \/ StopTake(a) \/ StartCheck(a) \/ SpawnFails(a)
             \/ StopPost(a) \/ StopWait(a)
      PROVE  RecordsMatch'
  BY <1>1, OtherCalls, MatchAside
<1>2. ASSUME NEW a \in Actors, Spawn(a) \/ Record(a) PROVE RecordsMatch'
  BY <1>2, MatchSpawn, MatchRecord
<1>3. ASSUME NEW k \in Pids, Bind(k) \/ Exit(k) \/ Crash(k) PROVE RecordsMatch'
  BY <1>3, ChildType, MatchAside DEF Bind, Exit, Crash
<1>4. CASE Clean
  BY <1>4, CleanType, MatchAside DEF Clean
<1>5. CASE WatchTick
  BY <1>5, WatchTickType, NoChange, MatchAside DEF WatchTick
<1>6. CASE TimePasses \/ ChangeSettings
  BY <1>6, NoChange, MatchAside DEF TimePasses, ChangeSettings
<1>7. CASE RestartManager
  <2>1. pid' = None /\ \A a \in Actors : op'[a].pc = "idle"
    BY <1>7 DEF RestartManager, Idle
  <2>2. QED
    BY <2>1 DEF RecordsMatch, RecordMatches, Alive, At
<1>8. CASE UNCHANGED vars
  BY <1>8, NoChange, MatchAside DEF vars
<1>9. QED
  BY <1>1, <1>2, <1>3, <1>4, <1>5, <1>6, <1>7, <1>8 DEF Next, UserCall, CallStep, Actors

\* The process that is recorded runs with the settings remembered for it: Stop sends its
\* request to the right port with the right key, and the watchdog compares the right thing.
THEOREM RecordIsRight == Spec => []RecordMatches
<1>1. Init => Typed /\ RecordsMatch
  <2>1. Init => \A a \in Actors : op[a].pc = "idle"
    BY DEF Init, Idle
  <2>2. QED
    BY <2>1, TypedInit DEF Init, RecordsMatch, RecordMatches, Alive, At
<1>2. Typed /\ RecordsMatch /\ [Next]_vars => (Typed /\ RecordsMatch)'
  BY TypedStep, MatchStep
<1>3. Typed /\ RecordsMatch => RecordMatches
  BY DEF RecordsMatch
<1>4. QED
  BY <1>1, <1>2, <1>3, PTL DEF Spec

-----------------------------------------------------------------------------
(* No child is lost.  As long as no two Starts ran at the same time and    *)
(* the manager was not restarted over a living child, a Start that has     *)
(* seen no living child is the only one, and the record still names none,  *)
(* so that what it writes there replaces nothing.                          *)

OneStarts == \A a, b \in Actors : Starting(a) /\ Starting(b) => a = b
StartsAlone == \A a \in Actors : Starting(a) => ~Alive(pid)

KnownAll == overlap \/ (OneStarts /\ StartsAlone /\ NoLostChild)

\* A call that holds on to a process.
HoldsOn(a, k) == op[a].child = k \/ op[a].victim = k

\* A step loses no child if it starts none and none of the processes it lets go of, by a
\* call or by the record, lives on.
LEMMA KnownAside ==
  ASSUME Typed, KnownAll, NoneNew, overlap' = overlap,
         pid' = pid \/ (pid' = None /\ (pid # None => \E a \in Actors : op'[a].victim = pid)),
         \A a \in Actors : Starting(a)' => Starting(a),
         \A a \in Actors, k \in Pids :
           HoldsOn(a, k) => HoldsOn(a, k)' \/ child'[k].st \in {"dead", "leaving"}
  PROVE  KnownAll'
<1> SUFFICES ASSUME ~overlap PROVE OneStarts' /\ StartsAlone' /\ NoLostChild'
  BY DEF KnownAll
<1>1. OneStarts /\ StartsAlone /\ NoLostChild
  BY DEF KnownAll
<1>2. \A k \in Pids : Alive(k)' => Alive(k)
  BY DEF NoneNew, Alive
<1>3. OneStarts'
  BY <1>1 DEF OneStarts
<1>4. StartsAlone'
  BY <1>1, <1>2 DEF StartsAlone, Alive, Typed, TypeOK
<1>5. ASSUME NEW k \in Pids, Alive(k)'
      PROVE  \/ k = pid' \/ child'[k].st = "leaving"
             \/ \E a \in Actors : HoldsOn(a, k)'
  <2>1. Alive(k) /\ (child[k].st = "leaving" => child'[k].st = "leaving")
    BY <1>5, <1>2 DEF NoneNew, Alive
  <2>2. k = pid \/ child[k].st = "leaving" \/ \E a \in Actors : HoldsOn(a, k)
    BY <1>1, <2>1 DEF NoLostChild, HoldsOn
  <2>3. CASE k = pid
    <3>1. k # None
      BY <2>1 DEF Alive
    <3>2. pid' = k \/ \E a \in Actors : op'[a].victim = k
      BY <2>3, <3>1
    <3>3. QED
      BY <2>3, <3>2 DEF HoldsOn
  <2>4. CASE \E a \in Actors : HoldsOn(a, k)
    BY <1>5, <2>4 DEF Alive
  <2>5. QED
    BY <2>1, <2>2, <2>3, <2>4
<1>6. NoLostChild'
  BY <1>5 DEF NoLostChild, HoldsOn
<1>7. QED
  BY <1>3, <1>4, <1>6

\* Start, when it goes on, is the only one, or the overlap is noted.
LEMMA KnownStartBegin == ASSUME Typed, KnownAll, NEW a \in Actors, StartBegin(a) PROVE KnownAll'
<1>1. op[a].child = None /\ op[a].victim = None /\ ~Starting(a)
  <2>1. op[a] \in OpStates /\ Carries(op[a]) /\ op[a].pc \in {"idle", "start"}
    BY BeginType DEF StartBegin, Typed, CallsTyped
  <2>2. QED
    BY <2>1, NothingCarried DEF Starting
<1>2. /\ NoneNew /\ child' = child /\ pid' = pid
      /\ \A b \in Actors : b # a => op'[b] = op[b]
  BY OtherCalls, NoChange DEF StartBegin
<1>3. \A k \in Pids : ~HoldsOn(a, k)
  BY <1>1, ServiceAssumption DEF HoldsOn
<1>4. CASE Alive(pid)
  <2>1. op'[a].pc = "idle"
    BY <1>4, CallReturns DEF StartBegin, Idle
  <2>2. \A b \in Actors : Starting(b)' => Starting(b)
    BY <1>2, <2>1 DEF Starting
  <2>3. overlap' = overlap
    BY <1>4 DEF StartBegin
  <2>4. QED
    BY <1>2, <1>3, <2>2, <2>3, KnownAside DEF HoldsOn
<1>5. CASE ~Alive(pid)
  <2> SUFFICES ASSUME ~overlap' PROVE OneStarts' /\ StartsAlone' /\ NoLostChild'
    BY DEF KnownAll
  <2>1. ~overlap /\ \A b \in Actors \ {a} : ~Starting(b)
    BY <1>5 DEF StartBegin
  <2>2. \A b \in Actors : b # a => ~Starting(b)'
    BY <1>2, <2>1 DEF Starting
  <2>3. OneStarts' /\ StartsAlone'
    BY <1>2, <1>5, <2>2 DEF OneStarts, StartsAlone, Alive
  <2>4. NoLostChild
    BY <2>1 DEF KnownAll
  <2>5. NoLostChild'
    BY <1>2, <1>3, <2>1, <2>4 DEF NoLostChild, HoldsOn, Alive
  <2>6. QED
    BY <2>3, <2>5
<1>6. QED
  BY <1>4, <1>5

LEMMA KnownSpawn == ASSUME Typed, KnownAll, NEW a \in Actors, Spawn(a) PROVE KnownAll'
<1>1. PICK k \in Pids :
        /\ ~Alive(k) /\ k # pid /\ \A b \in Actors : op[b].child # k
        /\ child'[k].cfg = op[a].cfg /\ child'[k].st # "dead"
        /\ \A j \in Pids : j # k => child'[j] = child[j]
        /\ op'[a].child = k /\ op'[a].cfg = op[a].cfg /\ op'[a].pc = "record"
        /\ op'[a].victim = None
        /\ \A b \in Actors : b # a => op'[b] = op[b]
  BY SpawnType
<1>2. /\ pid' = pid /\ overlap' = overlap /\ Starting(a) /\ pid \in Pids \cup {None}
      /\ op[a].child = None /\ op[a].victim = None
  BY DEF Spawn, At, Starting, Typed, TypeOK, CallsTyped, Carries
<1> SUFFICES ASSUME ~overlap PROVE OneStarts' /\ StartsAlone' /\ NoLostChild'
  BY <1>2 DEF KnownAll
<1>3. OneStarts /\ StartsAlone /\ NoLostChild
  BY DEF KnownAll
<1>4. \A b \in Actors : Starting(b)' => Starting(b)
  BY <1>1, <1>2 DEF Starting
<1>5. Alive(pid)' => Alive(pid)
  BY <1>1, <1>2 DEF Alive
<1>6. OneStarts' /\ StartsAlone'
  BY <1>3, <1>4, <1>5 DEF OneStarts, StartsAlone
<1>7. ASSUME NEW j \in Pids, Alive(j)'
      PROVE  \/ j = pid' \/ child'[j].st = "leaving"
             \/ \E b \in Actors : op'[b].child = j \/ op'[b].victim = j
  <2>1. CASE j = k
    BY <1>1, <2>1
  <2>2. CASE j # k
    <3>1. Alive(j) /\ child'[j] = child[j]
      BY <1>1, <1>7, <2>2 DEF Alive
    <3>2. op[a].child # j /\ op[a].victim # j
      BY <1>2, ServiceAssumption
    <3>3. QED
      BY <1>1, <1>2, <1>3, <3>1, <3>2 DEF NoLostChild
  <2>3. QED
    BY <2>1, <2>2
<1>8. NoLostChild'
  BY <1>7 DEF NoLostChild
<1>9. QED
  BY <1>6, <1>8

\* The record a Start overwrites names no living process.
LEMMA KnownRecord == ASSUME Typed, KnownAll, NEW a \in Actors, Record(a) PROVE KnownAll'
<1>1. /\ op'[a] = Idle /\ \A b \in Actors : b # a => op'[b] = op[b]
      /\ pid' = op[a].child /\ child' = child /\ overlap' = overlap
      /\ Starting(a) /\ op[a].victim = None
  BY RecordType DEF Record, At, Starting, Typed, CallsTyped, Carries
<1> SUFFICES ASSUME ~overlap PROVE OneStarts' /\ StartsAlone' /\ NoLostChild'
  BY <1>1 DEF KnownAll
<1>2. OneStarts /\ StartsAlone /\ NoLostChild
  BY DEF KnownAll
<1>3. \A b \in Actors : ~Starting(b)'
  BY <1>1, <1>2 DEF OneStarts, Starting, Idle
<1>4. OneStarts' /\ StartsAlone'
  BY <1>3 DEF OneStarts, StartsAlone
<1>5. ~Alive(pid)
  BY <1>1, <1>2 DEF StartsAlone
<1>6. ASSUME NEW j \in Pids, Alive(j)'
      PROVE  \/ j = pid' \/ child'[j].st = "leaving"
             \/ \E b \in Actors : op'[b].child = j \/ op'[b].victim = j
  <2>1. Alive(j) /\ j # pid /\ j # None
    BY <1>1, <1>5, <1>6 DEF Alive
  <2>2. QED
    BY <1>1, <1>2, <2>1 DEF NoLostChild
<1>7. NoLostChild'
  BY <1>6 DEF NoLostChild
<1>8. QED
  BY <1>4, <1>7

\* The other calls: what a Stop takes from the record it holds on to, until the process is
\* dead or on its way out.
LEMMA KnownOther ==
  ASSUME Typed, KnownAll, NEW a \in Actors,
         StopTake(a) \/ StartCheck(a) \/ SpawnFails(a) \/ StopPost(a) \/ StopWait(a)
  PROVE  KnownAll'
<1>1. /\ NoneNew /\ overlap' = overlap /\ \A b \in Actors : b # a => op'[b] = op[b]
  BY OtherCalls DEF StopTake, StartCheck, SpawnFails, StopPost, StopWait
<1>2. op[a] \in OpStates /\ Carries(op[a])
  BY DEF Typed, CallsTyped
<1>3. /\ Starting(a)' => Starting(a)
      /\ \A k \in Pids : HoldsOn(a, k) => HoldsOn(a, k)' \/ child'[k].st \in {"dead", "leaving"}
      /\ pid' = pid \/ (pid' = None /\ (pid # None => op'[a].victim = pid))
  <2>1. CASE StopTake(a)
    <3>1. op[a].child = None /\ op[a].victim = None
      BY <1>2, <2>1, StopTakeType, NothingCarried
    <3>2. ~Starting(a)' /\ pid' = None /\ (pid # None => op'[a].victim = pid)
      BY <2>1, StopTakeType DEF StopTake, Starting
    <3>3. \A k \in Pids : ~HoldsOn(a, k)
      BY <3>1, ServiceAssumption DEF HoldsOn
    <3>4. QED
      BY <3>2, <3>3
  <2>2. CASE StartCheck(a) \/ SpawnFails(a)
    <3>1. op[a].child = None /\ op[a].victim = None /\ Starting(a) /\ pid' = pid
      BY <1>2, <2>2, NothingCarried DEF StartCheck, SpawnFails, At, Starting
    <3>2. QED
      BY <3>1, ServiceAssumption DEF HoldsOn
  <2>3. CASE StopPost(a)
    BY <2>3, StopPostType DEF StopPost, Starting, HoldsOn
  <2>4. CASE StopWait(a)
    BY <2>4, StopWaitType, ServiceAssumption DEF StopWait, Starting, HoldsOn
  <2>5. QED
    BY <2>1, <2>2, <2>3, <2>4
<1>4. \A b \in Actors : Starting(b)' => Starting(b)
  BY <1>1, <1>3 DEF Starting
<1>5. \A b \in Actors, k \in Pids :
        HoldsOn(b, k) => HoldsOn(b, k)' \/ child'[k].st \in {"dead", "leaving"}
  BY <1>1, <1>3 DEF HoldsOn
<1>6. QED
  BY <1>1, <1>3, <1>4, <1>5, KnownAside

\* What happens outside the calls.
LEMMA KnownOutside ==
  ASSUME Typed, KnownAll, NoneNew, UNCHANGED <<op, pid, overlap>>
  PROVE  KnownAll'
<1>1. \A a \in Actors : Starting(a)' => Starting(a)
  BY DEF Starting
<1>2. \A a \in Actors, k \in Pids : HoldsOn(a, k) => HoldsOn(a, k)'
  BY DEF HoldsOn
<1>3. QED
  BY <1>1, <1>2, KnownAside

LEMMA KnownTick == ASSUME Typed, KnownAll, WatchTick PROVE KnownAll'
<1>1. /\ op[Watch].pc = "idle" /\ op'[Watch].pc \in {"start", "stop"}
      /\ \A b \in Actors : b # Watch => op'[b] = op[b]
      /\ NoneNew /\ pid' = pid /\ overlap' = overlap
  BY WatchTickType, NoChange DEF WatchTick
<1>2. \A a \in Actors : Starting(a)' => Starting(a)
  BY <1>1 DEF Starting
<1>3. op[Watch].child = None /\ op[Watch].victim = None
  BY <1>1, NothingCarried DEF Typed, CallsTyped, Actors
<1>4. \A a \in Actors, k \in Pids : HoldsOn(a, k) => HoldsOn(a, k)'
  BY <1>1, <1>3, ServiceAssumption DEF HoldsOn
<1>5. QED
  BY <1>1, <1>2, <1>4, KnownAside

\* A restart of the manager is noted when a child lives.
LEMMA KnownRestart == ASSUME Typed, KnownAll, RestartManager PROVE KnownAll'
<1>1. \A a \in Actors : ~Starting(a)'
  BY DEF RestartManager, Starting, Idle
<1>2. OneStarts' /\ StartsAlone'
  BY <1>1 DEF OneStarts, StartsAlone
<1>3. ~overlap' => \A k \in Pids : ~Alive(k)'
  BY DEF RestartManager, Alive
<1>4. QED
  BY <1>2, <1>3 DEF KnownAll, NoLostChild

LEMMA KnownStep == Typed /\ KnownAll /\ [Next]_vars => KnownAll'
<1> SUFFICES ASSUME Typed, KnownAll, [Next]_vars PROVE KnownAll'
  OBVIOUS
<1>1. ASSUME NEW a \in Actors, StartBegin(a) \/ StopTake(a) PROVE KnownAll'
  BY <1>1, KnownStartBegin, KnownOther
<1>2. ASSUME NEW a \in Actors, CallStep(a) PROVE KnownAll'
  BY <1>1, <1>2, KnownSpawn, KnownRecord, KnownOther DEF CallStep
<1>3. ASSUME NEW k \in Pids, Bind(k) \/ Exit(k) \/ Crash(k) PROVE KnownAll'
  BY <1>3, ChildType, KnownOutside DEF Bind, Exit, Crash
<1>4. CASE Clean
  BY <1>4, CleanType, KnownOutside DEF Clean
<1>5. CASE WatchTick \/ RestartManager
  BY <1>5, KnownTick, KnownRestart
<1>6. CASE TimePasses \/ ChangeSettings
  BY <1>6, NoChange, KnownOutside DEF TimePasses, ChangeSettings
<1>7. CASE UNCHANGED vars
  BY <1>7, NoChange, KnownOutside DEF vars
<1>8. QED
  BY <1>1, <1>2, <1>3, <1>4, <1>5, <1>6, <1>7 DEF Next, UserCall, Actors

\* Whatever Starts, Stops, rounds of the watchdog, crashes and cleanups interleave, a child
\* that runs is recorded, carried by a call or on its way out, unless two Starts ran at the
\* same time or the manager was restarted over it.
THEOREM NoneLost == Spec => []NoLostChild
<1>1. Init => Typed /\ KnownAll
  <2>1. Init => \A a \in Actors : ~Starting(a)
    BY DEF Init, Idle, Starting
  <2>2. Init => \A k \in Pids : ~Alive(k)
    BY DeadType DEF Init, Alive
  <2>3. QED
    BY <2>1, <2>2, TypedInit DEF KnownAll, OneStarts, StartsAlone, NoLostChild
<1>2. Typed /\ KnownAll /\ [Next]_vars => (Typed /\ KnownAll)'
  BY TypedStep, KnownStep
<1>3. Typed /\ KnownAll => NoLostChild
  BY DEF KnownAll, NoLostChild
<1>4. QED
  BY <1>1, <1>2, <1>3, PTL DEF Spec
=============================================================================
