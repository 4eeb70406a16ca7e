-------------------------- MODULE PluginStateProofs --------------------------
(***************************************************************************)
(* Proofs about PluginState, for every set of processes, handlers and      *)
(* plugins and every bound: type correctness, that the writers of one      *)
(* process never undo each other's entries in the file they share with     *)
(* other processes, that a follower's write leaves the entry it follows as *)
(* it is, and that PluginState implements SharedEntries.                   *)
(***************************************************************************)
EXTENDS PluginState, TLAPS

Entries == BOOLEAN \cup {None}
Scans == [seen : SUBSET Ids, snap : Files, todo : SUBSET Ids]
OpTable == [Procs -> [Actors -> OpStates]]

-----------------------------------------------------------------------------
(* What a call carries along.                                              *)

Working == {"toggle", "load", "write", "verify", "remove", "unregister"}
Changing == {"toggle", "load", "write", "verify"}

\* A call that is past its beginning is about a plugin, and a follower wants of it what it
\* expects to find in the file: an entry.
Carries(a, o) ==
  /\ o.pc \in Working => o.id \in Ids
  /\ a = Watch /\ o.pc \in Changing => o.want # None /\ o.expect = o.want

CallsCarry == \A p \in Procs, a \in Actors : Carries(a, op[p][a])

\* A round of the watcher takes up only plugins with an entry.
RoundsFollow == \A p \in Procs : \A i \in scan[p].todo : scan[p].snap[i] # None

Renames ==
  [proc : Procs \cup {None}, id : Ids \cup {None}, follow : BOOLEAN, overtook : SUBSET Procs]

\* All the variables but the calls, the rounds and the history of contents.
Kept ==
  /\ file \in Files /\ dirs \subseteq Ids
  /\ mem \in [Procs -> [Ids -> BOOLEAN]]
  /\ reg \in [Procs -> SUBSET Ids]
  /\ cache \in [Procs -> Files]
  /\ calls \in 0 .. MaxCalls
  /\ intent \in Files
  /\ last \in Renames

Rounds == scan \in [Procs -> Scans] /\ RoundsFollow

\* The inductive form of type correctness.
Typed == Kept /\ Rounds /\ op \in OpTable /\ CallsCarry

LEMMA ActorFacts == Watch \in Actors /\ Handlers \subseteq Actors /\ \A h \in Handlers : h # Watch
BY SharingAssumption DEF Actors

LEMMA NoEntries == [i \in Ids |-> None] \in Files
BY DEF Files

LEMMA AttemptFacts == 0 \in 0 .. MaxAttempts - 1
BY SharingAssumption

\* The first states of a call.
LEMMA IdleType ==
  /\ Idle \in OpStates /\ Idle.pc = "idle" /\ Idle.id = None /\ Idle.want = None
  /\ Idle.expect = None /\ Idle.tries = 0
BY NoEntries, AttemptFacts DEF Idle, OpStates

Phases == {"idle", "remove", "unregister", "load", "write", "verify", "apply", "snapshot",
           "follow", "toggle"}

LEMMA FieldTypes ==
  ASSUME NEW o \in OpStates
  PROVE  /\ o.pc \in Phases /\ o.id \in Ids \cup {None} /\ o.want \in Entries
         /\ o.expect \in Entries /\ o.base \in Files /\ o.tries \in 0 .. MaxAttempts - 1
BY DEF OpStates, Phases, Entries

\* A call that goes on to pc.
LEMMA StepTo ==
  ASSUME NEW o \in OpStates, NEW pc \in Phases
  PROVE  /\ [o EXCEPT !.pc = pc] \in OpStates
         /\ [o EXCEPT !.pc = pc].pc = pc /\ [o EXCEPT !.pc = pc].id = o.id
         /\ [o EXCEPT !.pc = pc].want = o.want /\ [o EXCEPT !.pc = pc].expect = o.expect
         /\ [o EXCEPT !.pc = pc].base = o.base
BY DEF OpStates, Phases

\* A step of one call leaves all others alone.
Moves(p, a, o) ==
  /\ op'[p][a] = o
  /\ \A q \in Procs, b \in Actors : q # p \/ b # a => op'[q][b] = op[q][b]

LEMMA CallMoves ==
  ASSUME op \in OpTable, CallsCarry, NEW p \in Procs, NEW a \in Actors,
         NEW o \in OpStates, Carries(a, o), op' = [op EXCEPT ![p][a] = o]
  PROVE  op' \in OpTable /\ CallsCarry' /\ Moves(p, a, o)
<1>1. op' \in OpTable /\ Moves(p, a, o)
  BY DEF OpTable, Moves
<1>2. \A q \in Procs, b \in Actors : Carries(b, op'[q][b])
  BY <1>1 DEF CallsCarry, Moves
<1>3. QED
  BY <1>1, <1>2 DEF CallsCarry, Carries

\* The same, for the forms in which the actions say it.
LEMMA CallGoes ==
  ASSUME op \in OpTable, CallsCarry, NEW p \in Procs, NEW a \in Actors, NEW pc \in Phases,
         Goto(p, a, pc), Carries(a, [op[p][a] EXCEPT !.pc = pc])
  PROVE  /\ op' \in OpTable /\ CallsCarry' /\ Moves(p, a, [op[p][a] EXCEPT !.pc = pc])
         /\ op'[p][a].pc = pc
<1>1. op[p][a] \in OpStates
  BY DEF OpTable
<1>2. op' = [op EXCEPT ![p][a] = [op[p][a] EXCEPT !.pc = pc]]
  BY DEF Goto, OpTable
<1> DEFINE o == [op[p][a] EXCEPT !.pc = pc]
<1>3. o \in OpStates /\ o.pc = pc /\ Carries(a, o)
  BY <1>1, StepTo
<1> HIDE DEF o
<1>4. op' \in OpTable /\ CallsCarry' /\ Moves(p, a, o)
  BY <1>2, <1>3, CallMoves DEF o
<1>5. op'[p][a].pc = pc
  BY <1>3, <1>4 DEF Moves
<1>6. QED
  BY <1>4, <1>5 DEF o

LEMMA CallReturns ==
  ASSUME op \in OpTable, CallsCarry, NEW p \in Procs, NEW a \in Actors, Return(p, a)
  PROVE  /\ op' \in OpTable /\ CallsCarry' /\ op'[p][a].pc \in {"idle", "follow"}
         /\ Moves(p, a, op'[p][a])
<1> DEFINE o == IF a = Watch THEN [Idle EXCEPT !.pc = "follow"] ELSE Idle
<1>1. o \in OpStates /\ o.pc \in {"idle", "follow"}
  BY IdleType, StepTo DEF Phases
<1>2. Carries(a, o)
  BY <1>1 DEF Carries, Working, Changing
<1>3. op' = [op EXCEPT ![p][a] = o]
  BY DEF Return
<1> HIDE DEF o
<1>4. op' \in OpTable /\ CallsCarry' /\ Moves(p, a, o)
  BY <1>1, <1>2, <1>3, CallMoves
<1>5. op'[p][a] = o
  BY <1>4 DEF Moves
<1>6. QED
  BY <1>1, <1>4, <1>5

-----------------------------------------------------------------------------
(* Type correctness.                                                       *)

LEMMA EntrySet ==
  ASSUME NEW t \in Files, NEW i \in Ids, NEW v \in Entries
  PROVE  [t EXCEPT ![i] = v] \in Files
BY DEF Files, Entries

LEMMA TypedInit == Init => Typed
<1> SUFFICES ASSUME Init PROVE Typed
  OBVIOUS
<1> USE NoEntries
<1>1. op \in OpTable
  BY IdleType DEF Init, OpTable
<1>2. CallsCarry
  BY IdleType DEF Init, CallsCarry, Carries, Working, Changing
<1>3. scan \in [Procs -> Scans] /\ RoundsFollow
  BY DEF Init, Scans, RoundsFollow
<1>4. /\ file \in Files /\ dirs \subseteq Ids /\ intent \in Files
      /\ mem \in [Procs -> [Ids -> BOOLEAN]] /\ reg \in [Procs -> SUBSET Ids]
      /\ cache \in [Procs -> Files]
  BY DEF Init
<1>5. last \in Renames
  BY DEF Init, Renames
<1>6. calls \in 0 .. MaxCalls
  BY SharingAssumption DEF Init
<1>7. QED
  BY <1>1, <1>2, <1>3, <1>4, <1>5, <1>6 DEF Typed, Kept, Rounds


LEMMA TypedParts == Typed <=> Kept /\ Rounds /\ op \in OpTable /\ CallsCarry
BY DEF Typed

LEMMA TypedAgain == Kept' /\ Rounds' /\ op' \in OpTable /\ CallsCarry' => Typed'
BY DEF Typed, OpTable, OpStates, Files

LEMMA RoundsStay ==
  ASSUME Rounds, UNCHANGED scan
  PROVE  Rounds'
BY DEF Rounds, RoundsFollow

LEMMA TypedToggle ==
  ASSUME Typed, NEW p \in UserProcs, NEW h \in Handlers, NEW i \in Ids, NEW v \in BOOLEAN,
         UserToggle(p, h, i, v)
  PROVE  Typed'
<1>0. Kept /\ Rounds /\ op \in OpTable /\ CallsCarry
  BY TypedParts
<1>1. p \in Procs /\ h \in Actors /\ h # Watch
  BY SharingAssumption, ActorFacts
<1>2. op' \in OpTable /\ CallsCarry'
  <2>1. CASE mem[p][i] = v
    <3>1. op' = op
      BY <2>1 DEF UserToggle
    <3>2. QED
      BY <3>1, <1>0 DEF CallsCarry, Carries
  <2>2. CASE mem[p][i] # v
    <3> DEFINE o == [Idle EXCEPT !.pc = "load", !.id = i, !.want = v]
    <3>1. op' = [op EXCEPT ![p][h] = o]
      BY <2>2 DEF UserToggle
    <3>2. o \in OpStates /\ o.id = i
      BY IdleType DEF OpStates
    <3>3. Carries(h, o)
      BY <3>2, <1>1 DEF Carries
    <3> HIDE DEF o
    <3>4. QED
      BY <3>1, <3>2, <3>3, <1>0, <1>1, CallMoves
  <2>3. QED
    BY <2>1, <2>2
<1>3. Kept'
  <2>1. mem' \in [Procs -> [Ids -> BOOLEAN]]
    BY <1>0, <1>1 DEF UserToggle, Kept
  <2>2. calls' \in 0 .. MaxCalls
    BY <1>0, SharingAssumption DEF UserToggle, Kept
  <2>3. intent' \in Files
    <3>1. [intent EXCEPT ![i] = v] \in Files
      BY <1>0, EntrySet DEF Kept, Entries
    <3>2. QED
      BY <3>1, <1>0 DEF UserToggle, Kept
  <2>4. QED
    BY <2>1, <2>2, <2>3, <1>0 DEF UserToggle, Kept
<1>4. Rounds'
  BY <1>0, RoundsStay DEF UserToggle
<1>5. QED
  BY <1>2, <1>3, <1>4, TypedAgain

LEMMA TypedDelete ==
  ASSUME Typed, NEW p \in UserProcs, NEW h \in Handlers, NEW i \in Ids, UserDelete(p, h, i)
  PROVE  Typed'
<1>0. Kept /\ Rounds /\ op \in OpTable /\ CallsCarry
  BY TypedParts
<1>1. p \in Procs /\ h \in Actors /\ h # Watch
  BY SharingAssumption, ActorFacts
<1>2. op' \in OpTable /\ CallsCarry'
  <2> DEFINE o == [Idle EXCEPT !.pc = "remove", !.id = i]
  <2>1. op' = [op EXCEPT ![p][h] = o]
    BY DEF UserDelete
  <2>2. o \in OpStates /\ o.id = i
    BY IdleType DEF OpStates
  <2>3. Carries(h, o)
    BY <2>2, <1>1 DEF Carries
  <2> HIDE DEF o
  <2>4. QED
    BY <2>1, <2>2, <2>3, <1>0, <1>1, CallMoves
<1>3. Kept'
  <2>1. mem' \in [Procs -> [Ids -> BOOLEAN]]
    BY <1>0, <1>1 DEF UserDelete, Kept
  <2>2. calls' \in 0 .. MaxCalls
    BY <1>0, SharingAssumption DEF UserDelete, Kept
  <2>3. QED
    BY <2>1, <2>2, <1>0 DEF UserDelete, Kept
<1>4. Rounds'
  BY <1>0, RoundsStay DEF UserDelete
<1>5. QED
  BY <1>2, <1>3, <1>4, TypedAgain

LEMMA TypedCall ==
  ASSUME Typed, NEW p \in Procs, NEW h \in Handlers, CallStep(p, h)
  PROVE  Typed'
<1>0. Kept /\ Rounds /\ op \in OpTable /\ CallsCarry
  BY TypedParts
<1>1. h \in Actors /\ h # Watch
  BY ActorFacts
<1>2. op[p][h] \in OpStates /\ Carries(h, op[p][h])
  BY <1>0, <1>1 DEF OpTable, CallsCarry
<1>3. Rounds'
  BY <1>0, RoundsStay DEF CallStep, RemoveDir, Unregister
<1>4. op[p][h].id \in Ids
  BY <1>2 DEF CallStep, RemoveDir, Unregister, At, Carries, Working
<1>5. ASSUME NEW pc \in {"unregister", "load"} PROVE Carries(h, [op[p][h] EXCEPT !.pc = pc])
  <2>1. [op[p][h] EXCEPT !.pc = pc].id \in Ids
    BY <1>2, <1>4, StepTo DEF Phases
  <2>2. QED
    BY <2>1, <1>1 DEF Carries
<1>6. op' \in OpTable /\ CallsCarry'
  <2>1. PICK pc \in {"unregister", "load"} : Goto(p, h, pc)
    BY DEF CallStep, RemoveDir, Unregister
  <2>2. Carries(h, [op[p][h] EXCEPT !.pc = pc]) /\ pc \in Phases
    BY <1>5 DEF Phases
  <2>3. QED
    BY <2>1, <2>2, <1>0, <1>1, CallGoes
<1>7. Kept'
  BY <1>0 DEF CallStep, RemoveDir, Unregister, Kept
<1>8. QED
  BY <1>3, <1>6, <1>7, TypedAgain

LEMMA TypedInstall ==
  ASSUME Typed, NEW i \in Ids, Install(i)
  PROVE  Typed'
<1>0. Kept /\ Rounds /\ op \in OpTable /\ CallsCarry
  BY TypedParts
<1>1. calls' \in 0 .. MaxCalls
  BY <1>0, SharingAssumption DEF Install, Kept
<1>2. Kept'
  BY <1>0, <1>1 DEF Install, Kept
<1>3. op' = op /\ UNCHANGED scan
  BY DEF Install
<1>4. op' \in OpTable /\ CallsCarry' /\ Rounds'
  BY <1>0, <1>3, RoundsStay DEF CallsCarry, Carries
<1>5. QED
  BY <1>2, <1>4, TypedAgain

\* The call that reads the file and merges its entry into it.
LEMMA TypedLoad ==
  ASSUME Typed, NEW p \in Procs, NEW a \in Actors, Load(p, a)
  PROVE  Typed'
<1> DEFINE o == op[p][a]
<1>0. Kept /\ Rounds /\ op \in OpTable /\ CallsCarry
  BY TypedParts
<1>1. o \in OpStates /\ Carries(a, o) /\ o.pc = "load"
  BY <1>0 DEF OpTable, CallsCarry, Load, At
<1>2. Rounds'
  BY <1>0, RoundsStay DEF Load
<1>3. CASE o.expect # None /\ file[o.id] # o.expect
  <2>1. Return(p, a) /\ UNCHANGED <<cache, last>>
    BY <1>3 DEF Load
  <2>2. op' \in OpTable /\ CallsCarry'
    BY <2>1, <1>0, CallReturns
  <2>3. Kept'
    BY <2>1, <1>0 DEF Load, Kept
  <2>4. QED
    BY <1>2, <2>2, <2>3, TypedAgain
<1>4. CASE ~(o.expect # None /\ file[o.id] # o.expect)
  <2>0. o.id \in Ids /\ o.want \in Entries /\ file \in Files /\ cache[p] \in Files
    BY <1>0, <1>1, FieldTypes DEF Carries, Working, Kept
  <2>1. /\ cache' = [cache EXCEPT ![p] = [cache[p] EXCEPT ![o.id] = o.want]]
        /\ op' = [op EXCEPT ![p][a] = [o EXCEPT !.pc = "write",
                                                !.base = [file EXCEPT ![o.id] = o.want]]]
    <3>1. /\ cache' = [cache EXCEPT ![p][o.id] = o.want]
          /\ op' = [op EXCEPT ![p][a].pc = "write", ![p][a].base = [file EXCEPT ![o.id] = o.want]]
      BY <1>4 DEF Load
    <3>2. cache' = [cache EXCEPT ![p] = [cache[p] EXCEPT ![o.id] = o.want]]
      BY <1>0, <3>1 DEF Kept
    <3>3. op' = [op EXCEPT ![p][a] = [o EXCEPT !.pc = "write",
                                               !.base = [file EXCEPT ![o.id] = o.want]]]
      BY <1>0, <3>1 DEF OpTable
    <3>4. QED
      BY <3>2, <3>3
  <2>2. [file EXCEPT ![o.id] = o.want] \in Files /\ [cache[p] EXCEPT ![o.id] = o.want] \in Files
    BY <2>0, EntrySet
  <2> DEFINE n == [o EXCEPT !.pc = "write", !.base = [file EXCEPT ![o.id] = o.want]]
  <2>3. n \in OpStates /\ n.id = o.id /\ n.want = o.want /\ n.expect = o.expect
    BY <1>1, <2>2 DEF OpStates
  <2>4. Carries(a, n)
    BY <1>1, <2>0, <2>3 DEF Carries, Changing
  <2> HIDE DEF n
  <2>5. op' \in OpTable /\ CallsCarry'
    BY <1>0, <2>1, <2>3, <2>4, CallMoves DEF n
  <2>6. last' \in Renames
    <3>1. last' = [last EXCEPT !.overtook = last.overtook \ {p}]
      BY <1>4 DEF Load, InTime
    <3>2. QED
      BY <1>0, <3>1 DEF Kept, Renames
  <2>7. Kept'
    BY <1>0, <2>1, <2>2, <2>6 DEF Load, Kept
  <2>8. QED
    BY <1>2, <2>5, <2>7, TypedAgain
<1>5. QED
  BY <1>3, <1>4

LEMMA TypedWrite ==
  ASSUME Typed, NEW p \in Procs, NEW a \in Actors, Write(p, a)
  PROVE  Typed'
<1>0. Kept /\ Rounds /\ op \in OpTable /\ CallsCarry
  BY TypedParts
<1>1. op[p][a] \in OpStates /\ Carries(a, op[p][a]) /\ op[p][a].pc = "write"
  BY <1>0 DEF OpTable, CallsCarry, Write, At
<1>2. Rounds'
  BY <1>0, RoundsStay DEF Write
<1>3. Kept'
  <2>1. file' \in Files
    BY <1>1, FieldTypes DEF Write
  <2>2. last' \in Renames
    BY <1>1, FieldTypes DEF Write, Renames
  <2>3. QED
    BY <1>0, <2>1, <2>2 DEF Write, Kept
<1>4. op' \in OpTable /\ CallsCarry'
  <2>1. CASE Return(p, a)
    BY <1>0, <2>1, CallReturns
  <2>2. CASE Goto(p, a, "verify")
    <3>1. Carries(a, [op[p][a] EXCEPT !.pc = "verify"])
      BY <1>1, StepTo DEF Phases, Carries, Working, Changing
    <3>2. QED
      BY <1>0, <2>2, <3>1, CallGoes DEF Phases
  <2>3. QED
    BY <2>1, <2>2 DEF Write
<1>5. QED
  BY <1>2, <1>3, <1>4, TypedAgain

LEMMA TypedWriteFails ==
  ASSUME Typed, NEW p \in Procs, NEW a \in Actors, WriteFails(p, a)
  PROVE  Typed'
<1>0. Kept /\ Rounds /\ op \in OpTable /\ CallsCarry
  BY TypedParts
<1>1. op' \in OpTable /\ CallsCarry'
  BY <1>0, CallReturns DEF WriteFails
<1>2. Rounds'
  BY <1>0, RoundsStay DEF WriteFails
<1>3. Kept'
  BY <1>0 DEF WriteFails, Kept
<1>4. QED
  BY <1>1, <1>2, <1>3, TypedAgain

LEMMA TypedVerify ==
  ASSUME Typed, NEW p \in Procs, NEW a \in Actors, Verify(p, a)
  PROVE  Typed'
<1> DEFINE o == op[p][a]
<1>0. Kept /\ Rounds /\ op \in OpTable /\ CallsCarry
  BY TypedParts
<1>1. o \in OpStates /\ Carries(a, o) /\ o.pc = "verify"
  BY <1>0 DEF OpTable, CallsCarry, Verify, At
<1>2. Rounds'
  BY <1>0, RoundsStay DEF Verify
<1>3. CASE file[o.id] = o.want \/ o.tries + 1 = MaxAttempts
  <2>1. Return(p, a) /\ intent' = IF a = Watch THEN intent ELSE [intent EXCEPT ![o.id] = o.want]
    BY <1>3 DEF Verify
  <2>2. op' \in OpTable /\ CallsCarry'
    BY <2>1, <1>0, CallReturns
  <2>3. [intent EXCEPT ![o.id] = o.want] \in Files
    BY <1>0, <1>1, FieldTypes, EntrySet DEF Carries, Working, Kept
  <2>4. intent' \in Files
    BY <2>1, <2>3, <1>0 DEF Kept
  <2>5. Kept'
    BY <2>4, <1>0 DEF Verify, Kept
  <2>6. QED
    BY <1>2, <2>2, <2>5, TypedAgain
<1>4. CASE ~(file[o.id] = o.want \/ o.tries + 1 = MaxAttempts)
  <2> DEFINE n == [o EXCEPT !.pc = "load", !.tries = o.tries + 1]
  <2>1. op' = [op EXCEPT ![p][a] = n] /\ UNCHANGED intent
    BY <1>0, <1>4 DEF Verify, OpTable
  <2>2. o.tries + 1 \in 0 .. MaxAttempts - 1
    BY <1>1, <1>4, FieldTypes, SharingAssumption
  <2>3. n \in OpStates /\ n.id = o.id /\ n.want = o.want /\ n.expect = o.expect
    BY <1>1, <2>2 DEF OpStates
  <2>4. Carries(a, n)
    BY <1>1, <2>3 DEF Carries, Working, Changing
  <2> HIDE DEF n
  <2>5. op' \in OpTable /\ CallsCarry'
    BY <1>0, <2>1, <2>3, <2>4, CallMoves
  <2>6. Kept'
    BY <1>0, <2>1 DEF Verify, Kept
  <2>7. QED
    BY <1>2, <2>5, <2>6, TypedAgain
<1>5. QED
  BY <1>3, <1>4

\* The watcher: reading the directories and registering what was read.
LEMMA TypedScan ==
  ASSUME Typed, NEW p \in Procs, ScanRead(p) \/ ScanApply(p)
  PROVE  Typed'
<1>0. Kept /\ Rounds /\ op \in OpTable /\ CallsCarry
  BY TypedParts
<1>1. Watch \in Actors
  BY ActorFacts
<1>2. ASSUME NEW pc \in {"apply", "snapshot"}, Goto(p, Watch, pc)
      PROVE  op' \in OpTable /\ CallsCarry'
  <2>1. Carries(Watch, [op[p][Watch] EXCEPT !.pc = pc]) /\ pc \in Phases
    <3>1. pc \in Phases /\ pc \notin Working /\ pc \notin Changing
      BY DEF Phases, Working, Changing
    <3>2. op[p][Watch] \in OpStates
      BY <1>0, <1>1 DEF OpTable
    <3>3. [op[p][Watch] EXCEPT !.pc = pc].pc = pc
      BY <3>1, <3>2, StepTo
    <3>4. QED
      BY <3>1, <3>3 DEF Carries
  <2>2. QED
    BY <1>0, <1>1, <1>2, <2>1, CallGoes
<1>3. op' \in OpTable /\ CallsCarry'
  BY <1>2 DEF ScanRead, ScanApply
<1>4. CASE ScanRead(p)
  <2>1. Kept'
    BY <1>0, <1>4 DEF ScanRead, Kept
  <2>2. scan' = [scan EXCEPT ![p] = [scan[p] EXCEPT !.seen = dirs]]
    BY <1>4, <1>0 DEF ScanRead, Rounds, Scans
  <2>3. /\ [scan[p] EXCEPT !.seen = dirs] \in Scans
        /\ [scan[p] EXCEPT !.seen = dirs].todo = scan[p].todo
        /\ [scan[p] EXCEPT !.seen = dirs].snap = scan[p].snap
    BY <1>0 DEF Rounds, Scans, Kept
  <2>4. scan' \in [Procs -> Scans]
    BY <2>2, <2>3, <1>0 DEF Rounds
  <2>5. \A q \in Procs : scan'[q].todo = scan[q].todo /\ scan'[q].snap = scan[q].snap
    BY <2>2, <2>3, <1>0 DEF Rounds
  <2>6. Rounds'
    BY <2>4, <2>5, <1>0 DEF Rounds, RoundsFollow
  <2>7. QED
    BY <1>3, <2>1, <2>6, TypedAgain
<1>5. CASE ScanApply(p)
  <2>1. scan[p].seen \subseteq Ids
    BY <1>0 DEF Rounds, Scans
  <2>2. reg' \in [Procs -> SUBSET Ids]
    BY <1>0, <1>5, <2>1 DEF ScanApply, Kept
  <2>3. mem' \in [Procs -> [Ids -> BOOLEAN]]
    <3> DEFINE m == [i \in Ids |->
                       IF i \in scan[p].seen \ reg[p] THEN cache[p][i] # FALSE ELSE mem[p][i]]
    <3>1. m \in [Ids -> BOOLEAN]
      <4>1. ASSUME NEW i \in Ids
            PROVE  (IF i \in scan[p].seen \ reg[p] THEN cache[p][i] # FALSE ELSE mem[p][i]) \in BOOLEAN
        <5>1. mem[p][i] \in BOOLEAN
          BY <1>0 DEF Kept
        <5>2. QED
          BY <5>1
      <4>2. QED
        BY <4>1
    <3>2. mem' = [mem EXCEPT ![p] = m]
      BY <1>5 DEF ScanApply
    <3> HIDE DEF m
    <3>3. QED
      BY <3>1, <3>2, <1>0 DEF Kept
  <2>4. Kept'
    BY <1>0, <1>5, <2>2, <2>3 DEF ScanApply, Kept
  <2>5. Rounds'
    BY <1>0, <1>5, RoundsStay DEF ScanApply
  <2>6. QED
    BY <1>3, <2>4, <2>5, TypedAgain
<1>6. QED
  BY <1>4, <1>5

\* The watcher: what is to follow, as the file is now.
LEMMA TypedSnapshot ==
  ASSUME Typed, NEW p \in Procs, FollowSnapshot(p)
  PROVE  Typed'
<1>0. Kept /\ Rounds /\ op \in OpTable /\ CallsCarry
  BY TypedParts
<1>1. op' \in OpTable /\ CallsCarry'
  <2>1. "follow" \in Phases /\ "follow" \notin Working /\ "follow" \notin Changing
    BY DEF Phases, Working, Changing
  <2>2. op[p][Watch] \in OpStates /\ Watch \in Actors
    BY <1>0, ActorFacts DEF OpTable
  <2>3. [op[p][Watch] EXCEPT !.pc = "follow"].pc = "follow"
    BY <2>1, <2>2, StepTo
  <2>4. Carries(Watch, [op[p][Watch] EXCEPT !.pc = "follow"])
    BY <2>1, <2>3 DEF Carries
  <2>5. QED
    BY <1>0, <2>1, <2>2, <2>4, CallGoes DEF FollowSnapshot
<1>2. Kept'
  BY <1>0 DEF FollowSnapshot, Kept
<1>3. Rounds'
  <2> DEFINE todo == {i \in reg[p] : file[i] # None /\ file[i] # mem[p][i]}
             r == [seen |-> {}, snap |-> file, todo |-> todo]
  <2>1. todo \subseteq Ids /\ \A i \in todo : file[i] # None
    BY <1>0 DEF Kept
  <2>2. scan' = [scan EXCEPT ![p] = r]
    BY DEF FollowSnapshot
  <2> HIDE DEF todo
  <2>3. r \in Scans /\ r.todo = todo /\ r.snap = file
    BY <2>1, <1>0 DEF Scans, Kept
  <2> HIDE DEF r
  <2>4. scan' \in [Procs -> Scans] /\ scan'[p] = r /\ \A q \in Procs : q # p => scan'[q] = scan[q]
    BY <2>2, <2>3, <1>0 DEF Rounds
  <2>5. QED
    BY <2>1, <2>3, <2>4, <1>0 DEF Rounds, RoundsFollow
<1>4. QED
  BY <1>1, <1>2, <1>3, TypedAgain

\* The watcher: the next plugin to follow, or the end of the round.
LEMMA TypedNextOne ==
  ASSUME Typed, NEW p \in Procs, FollowNext(p)
  PROVE  Typed'
<1>0. Kept /\ Rounds /\ op \in OpTable /\ CallsCarry
  BY TypedParts
<1>1. Watch \in Actors /\ op[p][Watch] \in OpStates /\ scan[p] \in Scans
  BY <1>0, ActorFacts DEF OpTable, Rounds
<1>2. Kept'
  BY <1>0 DEF FollowNext, Kept
<1>3. CASE /\ scan[p].todo = {}
           /\ scan' = [scan EXCEPT ![p].snap = [i \in Ids |-> None]]
           /\ Goto(p, Watch, "idle")
  <2>1. "idle" \in Phases /\ "idle" \notin Working /\ "idle" \notin Changing
    BY DEF Phases, Working, Changing
  <2>2. [op[p][Watch] EXCEPT !.pc = "idle"].pc = "idle"
    BY <1>1, <2>1, StepTo
  <2>3. Carries(Watch, [op[p][Watch] EXCEPT !.pc = "idle"])
    BY <2>1, <2>2 DEF Carries
  <2>4. op' \in OpTable /\ CallsCarry'
    BY <1>0, <1>1, <1>3, <2>1, <2>3, CallGoes
  <2> DEFINE r == [scan[p] EXCEPT !.snap = [i \in Ids |-> None]]
  <2>5. scan' = [scan EXCEPT ![p] = r]
    BY <1>0, <1>3 DEF Rounds, Scans
  <2>6. r \in Scans /\ r.todo = {}
    BY <1>1, <1>3, NoEntries DEF Scans
  <2> HIDE DEF r
  <2>7. Rounds'
    BY <2>5, <2>6, <1>0 DEF Rounds, RoundsFollow
  <2>8. QED
    BY <1>2, <2>4, <2>7, TypedAgain
<1>4. ASSUME NEW i \in scan[p].todo,
             scan' = [scan EXCEPT ![p].todo = @ \ {i}],
             op' = IF file[i] # scan[p].snap[i] THEN op
                   ELSE [op EXCEPT ![p][Watch] =
                           [Idle EXCEPT !.pc = "toggle", !.id = i, !.want = file[i],
                                        !.expect = file[i]]]
      PROVE  Typed'
  <2>1. i \in Ids /\ scan[p].snap[i] # None /\ file[i] \in Entries
    BY <1>0, <1>1 DEF Scans, Rounds, RoundsFollow, Kept, Files, Entries
  <2>2. op' \in OpTable /\ CallsCarry'
    <3>1. CASE op' = op
      BY <1>0, <3>1 DEF CallsCarry, Carries
    <3>2. CASE op' # op
      <4> DEFINE o == [Idle EXCEPT !.pc = "toggle", !.id = i, !.want = file[i], !.expect = file[i]]
      <4>1. file[i] # None /\ op' = [op EXCEPT ![p][Watch] = o]
        BY <1>4, <2>1, <3>2
      <4>2. o \in OpStates /\ o.id = i /\ o.want = file[i] /\ o.expect = file[i]
        BY IdleType, <2>1 DEF OpStates, Entries
      <4>3. Carries(Watch, o)
        BY <4>1, <4>2, <2>1 DEF Carries
      <4> HIDE DEF o
      <4>4. QED
        BY <1>0, <1>1, <4>1, <4>2, <4>3, CallMoves
    <3>3. QED
      BY <3>1, <3>2
  <2> DEFINE r == [scan[p] EXCEPT !.todo = scan[p].todo \ {i}]
  <2>3. scan' = [scan EXCEPT ![p] = r]
    BY <1>0, <1>4 DEF Rounds, Scans
  <2>4. r \in Scans /\ r.todo \subseteq scan[p].todo /\ r.snap = scan[p].snap
    BY <1>1 DEF Scans
  <2> HIDE DEF r
  <2>5. Rounds'
    BY <2>3, <2>4, <1>0 DEF Rounds, RoundsFollow
  <2>6. QED
    BY <1>2, <2>2, <2>5, TypedAgain
<1>5. QED
  BY <1>3, <1>4 DEF FollowNext

\* The watcher: following, once the plugin's calls are done.
LEMMA TypedFollow ==
  ASSUME Typed, NEW p \in Procs, FollowToggle(p)
  PROVE  Typed'
<1> DEFINE o == op[p][Watch]
<1>0. Kept /\ Rounds /\ op \in OpTable /\ CallsCarry
  BY TypedParts
<1>1. Watch \in Actors /\ o \in OpStates /\ Carries(Watch, o) /\ o.pc = "toggle"
  BY <1>0, ActorFacts DEF OpTable, CallsCarry, FollowToggle, At
<1>2. Rounds'
  BY <1>0, RoundsStay DEF FollowToggle
<1>3. CASE Return(p, Watch) /\ UNCHANGED mem
  <2>1. op' \in OpTable /\ CallsCarry'
    BY <1>0, <1>1, <1>3, CallReturns
  <2>2. Kept'
    BY <1>0, <1>3 DEF FollowToggle, Kept
  <2>3. QED
    BY <1>2, <2>1, <2>2, TypedAgain
<1>4. CASE mem' = [mem EXCEPT ![p][o.id] = o.want] /\ Goto(p, Watch, "load")
  <2>1. o.id \in Ids /\ o.want \in Entries /\ o.want # None /\ o.expect = o.want
    BY <1>1, FieldTypes DEF Carries, Working, Changing
  <2>2. Carries(Watch, [o EXCEPT !.pc = "load"])
    BY <1>1, <2>1, StepTo DEF Carries, Phases
  <2>3. op' \in OpTable /\ CallsCarry'
    BY <1>0, <1>1, <1>4, <2>2, CallGoes DEF Phases
  <2>4. mem' \in [Procs -> [Ids -> BOOLEAN]]
    BY <1>0, <1>4, <2>1 DEF Kept, Entries
  <2>5. Kept'
    BY <1>0, <2>4 DEF FollowToggle, Kept
  <2>6. QED
    BY <1>2, <2>3, <2>5, TypedAgain
<1>5. QED
  BY <1>3, <1>4 DEF FollowToggle

LEMMA TypedStep == Typed /\ [Next]_vars => Typed'
<1> SUFFICES ASSUME Typed, [Next]_vars PROVE Typed'
  OBVIOUS
<1>1. CASE UserCall
  BY <1>1, TypedToggle, TypedDelete DEF UserCall
<1>2. CASE \E i \in Ids : Install(i)
  BY <1>2, TypedInstall
<1>3. CASE \E p \in Procs : WatchStep(p)
  BY <1>3, TypedScan, TypedSnapshot, TypedNextOne, TypedFollow DEF WatchStep
<1>4. CASE \E p \in Procs, h \in Handlers : CallStep(p, h)
  BY <1>4, TypedCall
<1>5. CASE \E p \in Procs, a \in Actors : WriteStep(p, a)
  BY <1>5, TypedLoad, TypedWrite, TypedWriteFails, TypedVerify DEF WriteStep
<1>6. CASE UNCHANGED vars
  BY <1>6 DEF vars, Typed, Kept, Rounds, OpTable, CallsCarry, Carries, RoundsFollow
<1>7. QED
  BY <1>1, <1>2, <1>3, <1>4, <1>5, <1>6 DEF Next

-----------------------------------------------------------------------------
(* Merging.  A call keeps stateMu from its reading of the file to its      *)
(* rename, so a process has one writer at a time, and what that writer has *)
(* merged into stays what the file says for as long as no other process    *)
(* renames its own file over it.                                           *)

OneWriter ==
  \A p \in Procs, a, b \in Actors : At(p, a, "write") /\ At(p, b, "write") => a = b

\* The file a call is about to rename into place is the file as it is, but for the plugin's
\* entry; a follower's does not even change that one.
MergesInto(a, o) ==
  /\ \A j \in Ids : j # o.id => o.base[j] = file[j]
  /\ a = Watch => o.base = file

Fresh ==
  \A p \in Procs, a \in Actors :
    At(p, a, "write") /\ p \notin last.overtook => MergesInto(a, op[p][a])

Merging == OneWriter /\ Fresh

\* Steps other than reading and renaming the file leave the writers at their work.
WritersStay ==
  \A p \in Procs, a \in Actors : op'[p][a].pc = "write" => op'[p][a] = op[p][a]

LEMMA MovesAside ==
  ASSUME NEW p \in Procs, NEW a \in Actors, NEW o, Moves(p, a, o), o.pc # "write"
  PROVE  WritersStay
BY DEF Moves, WritersStay

LEMMA GoesAside ==
  ASSUME op \in OpTable, NEW p \in Procs, NEW a \in Actors,
         NEW pc \in Phases \ {"write"}, Goto(p, a, pc)
  PROVE  WritersStay
<1> DEFINE o == [op[p][a] EXCEPT !.pc = pc]
<1>1. op[p][a] \in OpStates
  BY DEF OpTable
<1>2. o.pc # "write"
  BY <1>1, StepTo
<1>3. Moves(p, a, o)
  BY DEF Goto, OpTable, Moves
<1> HIDE DEF o
<1>4. QED
  BY <1>2, <1>3, MovesAside

LEMMA ReturnsAside ==
  ASSUME op \in OpTable, CallsCarry, NEW p \in Procs, NEW a \in Actors, Return(p, a)
  PROVE  WritersStay
BY CallReturns, MovesAside

LEMMA MergingStays ==
  ASSUME Merging, WritersStay, UNCHANGED <<file, last>>
  PROVE  Merging'
<1>1. OneWriter'
  BY DEF Merging, OneWriter, WritersStay, At
<1>2. Fresh'
  BY DEF Merging, Fresh, MergesInto, WritersStay, At
<1>3. QED
  BY <1>1, <1>2 DEF Merging

\* The steps that neither read nor rename the file.
LEMMA AsideSteps ==
  ASSUME Typed,
         \/ UserCall
         \/ \E i \in Ids : Install(i)
         \/ \E p \in Procs : \/ WatchStep(p)
                             \/ \E h \in Handlers : CallStep(p, h)
                             \/ \E a \in Actors : WriteFails(p, a) \/ Verify(p, a)
  PROVE  WritersStay /\ UNCHANGED <<file, last>>
<1>0. op \in OpTable /\ CallsCarry
  BY TypedParts
<1>1. Watch \in Actors /\ Handlers \subseteq Actors /\ UserProcs \subseteq Procs
  BY ActorFacts, SharingAssumption
<1>2. ASSUME op' = op PROVE WritersStay
  BY <1>2 DEF WritersStay
<1>3. ASSUME NEW p \in UserProcs, NEW h \in Handlers, NEW i \in Ids, NEW v \in BOOLEAN,
             UserToggle(p, h, i, v)
      PROVE  WritersStay /\ UNCHANGED <<file, last>>
  <2>1. UNCHANGED <<file, last>>
    BY <1>3 DEF UserToggle
  <2>2. CASE mem[p][i] = v
    BY <1>2, <1>3, <2>1, <2>2 DEF UserToggle
  <2>3. CASE mem[p][i] # v
    <3> DEFINE o == [Idle EXCEPT !.pc = "load", !.id = i, !.want = v]
    <3>1. op' = [op EXCEPT ![p][h] = o]
      BY <1>3, <2>3 DEF UserToggle
    <3>2. o.pc # "write"
      BY DEF Idle
    <3> HIDE DEF o
    <3>3. Moves(p, h, o)
      BY <1>0, <1>1, <3>1 DEF OpTable, Moves
    <3>4. QED
      BY <1>1, <2>1, <3>2, <3>3, MovesAside
  <2>4. QED
    BY <2>2, <2>3
<1>4. ASSUME NEW p \in UserProcs, NEW h \in Handlers, NEW i \in Ids, UserDelete(p, h, i)
      PROVE  WritersStay /\ UNCHANGED <<file, last>>
  <2> DEFINE o == [Idle EXCEPT !.pc = "remove", !.id = i]
  <2>1. op' = [op EXCEPT ![p][h] = o] /\ UNCHANGED <<file, last>>
    BY <1>4 DEF UserDelete
  <2>2. o.pc # "write"
    BY DEF Idle
  <2> HIDE DEF o
  <2>3. Moves(p, h, o)
    BY <1>0, <1>1, <2>1 DEF OpTable, Moves
  <2>4. QED
    BY <1>1, <2>1, <2>2, <2>3, MovesAside
<1>5. ASSUME NEW i \in Ids, Install(i) PROVE WritersStay /\ UNCHANGED <<file, last>>
  BY <1>2, <1>5 DEF Install
<1>6. ASSUME NEW p \in Procs, NEW h \in Handlers, CallStep(p, h)
      PROVE  WritersStay /\ UNCHANGED <<file, last>>
  <2>1. PICK pc \in Phases \ {"write"} : Goto(p, h, pc)
    BY <1>6 DEF CallStep, RemoveDir, Unregister, Phases
  <2>2. WritersStay
    BY <1>0, <1>1, <2>1, GoesAside
  <2>3. QED
    BY <1>6, <2>2 DEF CallStep, RemoveDir, Unregister
<1>7. ASSUME NEW p \in Procs, NEW a \in Actors, WriteFails(p, a)
      PROVE  WritersStay /\ UNCHANGED <<file, last>>
  BY <1>0, <1>7, ReturnsAside DEF WriteFails
<1>8. ASSUME NEW p \in Procs, NEW a \in Actors, Verify(p, a)
      PROVE  WritersStay /\ UNCHANGED <<file, last>>
  <2>1. UNCHANGED <<file, last>>
    BY <1>8 DEF Verify
  <2>2. CASE Return(p, a)
    BY <1>0, <2>1, <2>2, ReturnsAside
  <2>3. CASE op' = [op EXCEPT ![p][a].pc = "load", ![p][a].tries = op[p][a].tries + 1]
    <3> DEFINE o == [op[p][a] EXCEPT !.pc = "load", !.tries = op[p][a].tries + 1]
    <3>1. o.pc # "write"
      BY <1>0 DEF OpTable, OpStates
    <3>2. op' = [op EXCEPT ![p][a] = o]
      BY <1>0, <2>3 DEF OpTable
    <3> HIDE DEF o
    <3>3. Moves(p, a, o)
      BY <1>0, <3>2 DEF OpTable, Moves
    <3>4. QED
      BY <2>1, <3>1, <3>3, MovesAside
  <2>4. QED
    BY <1>8, <2>2, <2>3 DEF Verify
<1>9. ASSUME NEW p \in Procs, WatchStep(p) PROVE WritersStay /\ UNCHANGED <<file, last>>
  <2>1. UNCHANGED <<file, last>>
    BY <1>9 DEF WatchStep, ScanRead, ScanApply, FollowSnapshot, FollowNext, FollowToggle
  <2>2. ASSUME NEW pc \in {"apply", "snapshot", "follow", "idle", "load"}, Goto(p, Watch, pc)
        PROVE  WritersStay
    BY <1>0, <1>1, <2>2, GoesAside DEF Phases
  <2>3. CASE ScanRead(p) \/ ScanApply(p) \/ FollowSnapshot(p)
    BY <2>1, <2>2, <2>3 DEF ScanRead, ScanApply, FollowSnapshot
  <2>4. CASE FollowNext(p)
    <3>1. CASE Goto(p, Watch, "idle")
      BY <2>1, <2>2, <3>1
    <3>2. CASE op' = op
      BY <1>2, <2>1, <3>2
    <3>3. ASSUME NEW i \in Ids \cup scan[p].todo,
                 op' = [op EXCEPT ![p][Watch] =
                          [Idle EXCEPT !.pc = "toggle", !.id = i, !.want = file[i],
                                       !.expect = file[i]]]
          PROVE  WritersStay
      <4> DEFINE o == [Idle EXCEPT !.pc = "toggle", !.id = i, !.want = file[i], !.expect = file[i]]
      <4>1. o.pc # "write"
        BY DEF Idle
      <4>2. op' = [op EXCEPT ![p][Watch] = o]
        BY <3>3
      <4> HIDE DEF o
      <4>3. Moves(p, Watch, o)
        BY <1>0, <1>1, <4>2 DEF OpTable, Moves
      <4>4. QED
        BY <1>1, <4>1, <4>3, MovesAside
    <3>4. QED
      BY <2>1, <2>4, <3>1, <3>2, <3>3 DEF FollowNext
  <2>5. CASE FollowToggle(p)
    <3>1. CASE Return(p, Watch)
      BY <1>0, <1>1, <2>1, <3>1, ReturnsAside
    <3>2. CASE Goto(p, Watch, "load")
      BY <2>1, <2>2, <3>2
    <3>3. QED
      BY <2>5, <3>1, <3>2 DEF FollowToggle
  <2>6. QED
    BY <1>9, <2>3, <2>4, <2>5 DEF WatchStep
<1>10. QED
  BY <1>3, <1>4, <1>5, <1>6, <1>7, <1>8, <1>9 DEF UserCall

\* Reading the file: no other call of the process is writing, and the copy is fresh.
LEMMA MergingLoad ==
  ASSUME Typed, Merging, NEW p \in Procs, NEW a \in Actors, Load(p, a)
  PROVE  Merging'
<1> DEFINE o == op[p][a]
<1>0. Kept /\ op \in OpTable /\ CallsCarry
  BY TypedParts
<1>1. o \in OpStates /\ Carries(a, o) /\ o.pc = "load" /\ UNCHANGED file
  BY <1>0 DEF OpTable, CallsCarry, Load, At
<1>2. CASE Return(p, a) /\ UNCHANGED last
  BY <1>0, <1>1, <1>2, ReturnsAside, MergingStays
<1>3. CASE /\ ~(o.expect # None /\ file[o.id] # o.expect)
           /\ op' = [op EXCEPT ![p][a].pc = "write",
                               ![p][a].base = [file EXCEPT ![o.id] = o.want]]
           /\ InTime(p)
  <2> DEFINE n == [o EXCEPT !.pc = "write", !.base = [file EXCEPT ![o.id] = o.want]]
  <2>0. last'.overtook = last.overtook \ {p}
    BY <1>0, <1>3 DEF InTime, Kept, Renames
  <2>1. op' = [op EXCEPT ![p][a] = n]
    BY <1>0, <1>3 DEF OpTable
  <2>2. n.id = o.id /\ n.base = [file EXCEPT ![o.id] = o.want]
    BY <1>1 DEF OpStates
  <2>3. \A j \in Ids : j # n.id => n.base[j] = file[j]
    BY <1>0, <2>2 DEF Kept, Files
  <2>4. ASSUME a = Watch PROVE n.base = file
    <3>1. o.id \in Ids /\ file[o.id] = o.want
      BY <1>1, <1>3, <2>4 DEF Carries, Changing, Working
    <3>2. [file EXCEPT ![o.id] = o.want] = file
      BY <1>0, <3>1 DEF Kept, Files
    <3>3. QED
      BY <2>2, <3>2
  <2> HIDE DEF n
  <2>5. Moves(p, a, n)
    BY <1>0, <2>1 DEF OpTable, Moves
  <2>6. \A b \in Actors : op[p][b].pc # "write"
    BY DEF Load, StateMuHeld, At
  <2>7. OneWriter'
    BY <2>5, <2>6 DEF Merging, OneWriter, At, Moves
  <2>8. ASSUME NEW q \in Procs, NEW b \in Actors, op'[q][b].pc = "write", q \notin last'.overtook
        PROVE  MergesInto(b, op[q][b])'
    <3>1. CASE q = p /\ b = a
      BY <1>1, <2>3, <2>4, <2>5, <3>1 DEF MergesInto, Moves
    <3>2. CASE q # p \/ b # a
      <4>1. op'[q][b] = op[q][b]
        BY <2>5, <3>2 DEF Moves
      <4>2. q \notin last.overtook
        BY <2>0, <2>6, <2>8, <4>1
      <4>3. MergesInto(b, op[q][b])
        BY <2>8, <4>1, <4>2 DEF Merging, Fresh, At
      <4>4. QED
        BY <1>1, <4>1, <4>3 DEF MergesInto
    <3>3. QED
      BY <3>1, <3>2
  <2>9. Fresh'
    BY <2>8 DEF Fresh, At, MergesInto
  <2>10. QED
    BY <2>7, <2>9 DEF Merging
<1>4. QED
  BY <1>2, <1>3 DEF Load

\* Renaming: the process has no other writer, and the writers of the others are overtaken.
LEMMA MergingWrite ==
  ASSUME Typed, Merging, NEW p \in Procs, NEW a \in Actors, Write(p, a)
  PROVE  Merging'
<1>0. op \in OpTable /\ CallsCarry
  BY TypedParts
<1>1. WritersStay
  BY <1>0, ReturnsAside, GoesAside DEF Write, Phases
<1>2. op'[p][a].pc # "write"
  <2>1. CASE Return(p, a)
    BY <1>0, <2>1, CallReturns
  <2>2. CASE Goto(p, a, "verify")
    <3>1. op' = [op EXCEPT ![p][a] = [op[p][a] EXCEPT !.pc = "verify"]]
      BY <1>0, <2>2 DEF Goto, OpTable
    <3>2. op[p][a] \in OpStates /\ "verify" \in Phases
      BY <1>0 DEF OpTable, Phases
    <3>3. [op[p][a] EXCEPT !.pc = "verify"].pc = "verify"
      BY <3>2, StepTo
    <3>4. op'[p][a] = [op[p][a] EXCEPT !.pc = "verify"]
      BY <1>0, <3>1 DEF OpTable
    <3>5. QED
      BY <3>3, <3>4
  <2>3. QED
    BY <2>1, <2>2 DEF Write
<1>3. OneWriter'
  BY <1>1 DEF Merging, OneWriter, WritersStay, At
<1>4. \A b \in Actors : op'[p][b].pc # "write"
  BY <1>1, <1>2 DEF Merging, OneWriter, WritersStay, At, Write
<1>5. ASSUME NEW q \in Procs, NEW b \in Actors, op'[q][b].pc = "write"
      PROVE  q \in last'.overtook
  <2>1. q # p /\ op[q][b].pc = "write"
    BY <1>1, <1>4, <1>5 DEF WritersStay
  <2>2. last'.overtook = {r \in Procs \ {p} : StateMuHeld(r)}
    BY DEF Write
  <2>3. QED
    BY <2>1, <2>2 DEF StateMuHeld, At
<1>6. Fresh'
  BY <1>5 DEF Fresh, At
<1>7. QED
  BY <1>3, <1>6 DEF Merging

LEMMA MergingStep == Typed /\ Merging /\ [Next]_vars => Merging'
<1> SUFFICES ASSUME Typed, Merging, [Next]_vars PROVE Merging'
  OBVIOUS
<1>1. CASE \E p \in Procs, a \in Actors : Load(p, a)
  BY <1>1, MergingLoad
<1>2. CASE \E p \in Procs, a \in Actors : Write(p, a)
  BY <1>2, MergingWrite
<1>3. CASE UNCHANGED vars
  BY <1>3 DEF vars, Merging, OneWriter, Fresh, MergesInto, At
<1>4. CASE Next /\ ~(\E p \in Procs, a \in Actors : Load(p, a) \/ Write(p, a))
  BY <1>4, AsideSteps, MergingStays DEF Next, WriteStep
<1>5. QED
  BY <1>1, <1>2, <1>3, <1>4

LEMMA MergingInit == Init => Merging
BY IdleType DEF Init, Merging, OneWriter, Fresh, At

LEMMA MergingAlways == Spec => [](Typed /\ Merging)
<1>1. Init => Typed /\ Merging
  BY TypedInit, MergingInit
<1>2. Typed /\ Merging /\ [Next]_vars => (Typed /\ Merging)'
  BY TypedStep, MergingStep
<1>3. QED
  BY <1>1, <1>2, PTL DEF Spec

\* What a rename does to the file when no other process's came between its reading and it.
LEMMA RenameKeeps ==
  ASSUME Typed, Merging, [Next]_vars
  PROVE  \/ UNCHANGED file
         \/ last'.proc \in last.overtook
         \/ /\ \A j \in Ids : j # last'.id => file'[j] = file[j]
            /\ last'.follow => file' = file
<1>1. CASE \E p \in Procs, a \in Actors : Write(p, a)
  <2>1. PICK p \in Procs, a \in Actors : Write(p, a)
    BY <1>1
  <2>2. /\ file' = op[p][a].base
        /\ last'.proc = p /\ last'.id = op[p][a].id /\ (last'.follow <=> a = Watch)
        /\ At(p, a, "write")
    BY <2>1 DEF Write
  <2>3. p \notin last.overtook => MergesInto(a, op[p][a])
    BY <2>2 DEF Merging, Fresh
  <2>4. QED
    BY <2>2, <2>3 DEF MergesInto
<1>2. CASE \E p \in Procs, a \in Actors : Load(p, a)
  BY <1>2 DEF Load
<1>3. CASE UNCHANGED vars
  BY <1>3 DEF vars
<1>4. CASE Next /\ ~(\E p \in Procs, a \in Actors : Load(p, a) \/ Write(p, a))
  BY <1>4, AsideSteps DEF Next, WriteStep
<1>5. QED
  BY <1>1, <1>2, <1>3, <1>4

\* mergeStateWrite holds stateMu from reading the file to renaming the new one over it:
\* however many calls of one process write at once, none of them undoes the entry another
\* one of them wrote.  Only a rename of another process in between can be undone.
THEOREM WritersMerge == Spec => WritersOfOneProcessMerge
<1>1. Typed /\ Merging /\ [Next]_vars =>
        [\A j \in Ids : file'[j] # file[j] /\ j # last'.id
           => last'.proc \in last.overtook]_<<file, last>>
  BY RenameKeeps
<1>2. QED
  BY <1>1, MergingAlways, PTL DEF Spec, WritersOfOneProcessMerge

\* toggleFollow compares the entry with what its decision was based on at the moment it
\* merges: its write leaves the entry as the file has it, unless another process renamed
\* its own file between this comparison and the rename.
THEOREM FollowersKeep == Spec => FollowKeepsTheEntry
<1>1. Typed /\ Merging /\ [Next]_vars =>
        [last'.follow /\ file'[last'.id] # file[last'.id]
           => last'.proc \in last.overtook]_<<file, last>>
  BY RenameKeeps
<1>2. QED
  BY <1>1, MergingAlways, PTL DEF Spec, FollowKeepsTheEntry

-----------------------------------------------------------------------------
(* The promise of SharedEntries.  What a call is about to put in place is  *)
(* something the file has said since the call began and since the process  *)
(* replaced the file last, with the plugin's entry set.                    *)

SinceTyped == since \in [Procs -> [Actors -> SUBSET Files]]

\* The history is kept for just the calls that may still come to a rename.
OpenCalls == \A p \in Procs, a \in Actors : op[p][a].pc \in Working <=> since[p][a] # {}

SeesFile == \A p \in Procs, a \in Actors : since[p][a] # {} => file \in since[p][a]

Merged(o, old) == o.base = [old EXCEPT ![o.id] = o.want]

MergesSeen ==
  \A p \in Procs, a \in Actors :
    At(p, a, "write") => \E old \in since[p][a] : Merged(op[p][a], old)

Tracked == SinceTyped /\ OpenCalls /\ SeesFile /\ MergesSeen

\* A step of the promise, or none.
PromiseStep == [Promise!Next]_(Promise!vars)

LEMMA TrackedInit == Init => Tracked
BY IdleType DEF Init, Tracked, SinceTyped, OpenCalls, SeesFile, MergesSeen, At, Working, Files

LEMMA GoesOn ==
  ASSUME op \in OpTable, NEW p \in Procs, NEW a \in Actors, NEW pc \in Phases, Goto(p, a, pc)
  PROVE  Moves(p, a, [op[p][a] EXCEPT !.pc = pc]) /\ op'[p][a].pc = pc
<1> DEFINE o == [op[p][a] EXCEPT !.pc = pc]
<1>1. op[p][a] \in OpStates
  BY DEF OpTable
<1>2. o.pc = pc
  BY <1>1, StepTo
<1>3. Moves(p, a, o)
  BY DEF Goto, OpTable, Moves
<1> HIDE DEF o
<1>4. op'[p][a].pc = pc
  BY <1>2, <1>3 DEF Moves
<1>5. QED
  BY <1>3, <1>4 DEF o

LEMMA SeenStays ==
  ASSUME MergesSeen, WritersStay,
         \A p \in Procs, a \in Actors : op'[p][a].pc = "write" => since[p][a] \subseteq since'[p][a]
  PROVE  MergesSeen'
<1>1. ASSUME NEW p \in Procs, NEW a \in Actors, op'[p][a].pc = "write"
      PROVE  \E old \in since'[p][a] : Merged(op'[p][a], old)
  <2>1. op'[p][a] = op[p][a]
    BY <1>1 DEF WritersStay
  <2>2. op[p][a].pc = "write"
    BY <1>1, <2>1
  <2>3. PICK old \in since[p][a] : Merged(op[p][a], old)
    BY <2>2 DEF MergesSeen, At
  <2>4. Merged(op'[p][a], old)
    BY <2>1, <2>3, Zenon
  <2>5. QED
    BY <1>1, <2>3, <2>4
<1>2. QED
  BY <1>1, Zenon DEF MergesSeen, At, Merged

\* A call that goes on, outside its rename, with no word of the file.
LEMMA TrackedStays ==
  ASSUME Tracked, WritersStay, UNCHANGED <<file, since>>,
         \A p \in Procs, a \in Actors : op'[p][a].pc \in Working <=> op[p][a].pc \in Working
  PROVE  Tracked' /\ PromiseStep
<1>1. SinceTyped' /\ SeesFile' /\ PromiseStep
  BY DEF Tracked, SinceTyped, SeesFile, PromiseStep, Promise!vars
<1>2. OpenCalls'
  BY DEF Tracked, OpenCalls
<1>3. MergesSeen'
  BY SeenStays DEF Tracked
<1>4. QED
  BY <1>1, <1>2, <1>3 DEF Tracked

\* The same for a call of which one knows where it goes.
LEMMA TrackedGoes ==
  ASSUME Tracked, op \in OpTable, NEW p \in Procs, NEW a \in Actors, NEW o, Moves(p, a, o),
         o.pc # "write", o.pc \in Working <=> op[p][a].pc \in Working, UNCHANGED <<file, since>>
  PROVE  Tracked' /\ PromiseStep
<1>1. WritersStay
  BY MovesAside
<1>2. \A q \in Procs, b \in Actors : op'[q][b].pc \in Working <=> op[q][b].pc \in Working
  BY DEF Moves
<1>3. QED
  BY <1>1, <1>2, TrackedStays

LEMMA TrackedOpens ==
  ASSUME Tracked, file \in Files, NEW p \in Procs, NEW a \in Actors, NEW o, Moves(p, a, o),
         o.pc \in Working, o.pc # "write", op[p][a].pc \notin Working,
         Opens(p, a), UNCHANGED file
  PROVE  Tracked' /\ PromiseStep
<1>1. since[p][a] = {}
  BY DEF Tracked, OpenCalls
<1>2. Promise!Begin(p, a)
  BY <1>1 DEF Promise!Begin, Opens
<1>3. SinceTyped'
  BY DEF Tracked, SinceTyped, Opens
<1>4. /\ since'[p][a] = {file}
      /\ \A q \in Procs, b \in Actors : q # p \/ b # a => since'[q][b] = since[q][b]
  BY DEF Tracked, SinceTyped, Opens
<1>5. OpenCalls'
  BY <1>4 DEF Tracked, OpenCalls, Moves
<1>6. SeesFile'
  BY <1>4 DEF Tracked, SeesFile
<1>7. MergesSeen'
  <2>1. WritersStay
    BY MovesAside
  <2>2. op'[p][a].pc # "write"
    BY DEF Moves
  <2>3. \A q \in Procs, b \in Actors : op'[q][b].pc = "write" => since[q][b] \subseteq since'[q][b]
    BY <1>4, <2>2
  <2>4. QED
    BY <2>1, <2>3, SeenStays DEF Tracked
<1>8. QED
  BY <1>2, <1>3, <1>5, <1>6, <1>7 DEF Tracked, PromiseStep, Promise!Next

LEMMA TrackedCloses ==
  ASSUME Tracked, NEW p \in Procs, NEW a \in Actors, NEW o, Moves(p, a, o),
         o.pc \notin Working, op[p][a].pc \in Working, Closes(p, a), UNCHANGED file
  PROVE  Tracked' /\ PromiseStep
<1>0. "write" \in Working
  BY DEF Working
<1>1. since[p][a] # {}
  BY DEF Tracked, OpenCalls
<1>2. Promise!End(p, a)
  BY <1>1 DEF Promise!End, Closes
<1>3. SinceTyped'
  BY DEF Tracked, SinceTyped, Closes
<1>4. /\ since'[p][a] = {}
      /\ \A q \in Procs, b \in Actors : q # p \/ b # a => since'[q][b] = since[q][b]
  BY DEF Tracked, SinceTyped, Closes
<1>5. OpenCalls'
  BY <1>4 DEF Tracked, OpenCalls, Moves
<1>6. SeesFile'
  BY <1>4 DEF Tracked, SeesFile
<1>7. MergesSeen'
  <2>1. WritersStay
    BY <1>0, MovesAside
  <2>2. op'[p][a].pc # "write"
    BY <1>0 DEF Moves
  <2>3. \A q \in Procs, b \in Actors : op'[q][b].pc = "write" => since[q][b] \subseteq since'[q][b]
    BY <1>4, <2>2
  <2>4. QED
    BY <2>1, <2>3, SeenStays DEF Tracked
<1>8. QED
  BY <1>2, <1>3, <1>5, <1>6, <1>7 DEF Tracked, PromiseStep, Promise!Next

\* Reading under stateMu: the copy is the file as it is.
LEMMA TrackedLoad ==
  ASSUME Typed, Tracked, NEW p \in Procs, NEW a \in Actors, Load(p, a)
  PROVE  Tracked' /\ PromiseStep
<1> DEFINE o == op[p][a]
<1>0. Kept /\ op \in OpTable /\ CallsCarry
  BY TypedParts
<1>1. o \in OpStates /\ o.pc = "load" /\ o.pc \in Working /\ UNCHANGED file
  BY <1>0 DEF OpTable, Load, At, Working
<1>2. CASE Return(p, a) /\ Closes(p, a)
  <2>1. Moves(p, a, op'[p][a]) /\ op'[p][a].pc \notin Working
    BY <1>0, <1>2, CallReturns DEF Working
  <2>2. QED
    BY <1>1, <1>2, <2>1, TrackedCloses
<1>3. CASE /\ op' = [op EXCEPT ![p][a].pc = "write",
                               ![p][a].base = [file EXCEPT ![o.id] = o.want]]
           /\ UNCHANGED since
  <2> DEFINE n == [o EXCEPT !.pc = "write", !.base = [file EXCEPT ![o.id] = o.want]]
  <2>1. op' = [op EXCEPT ![p][a] = n]
    BY <1>0, <1>3 DEF OpTable
  <2>2. n.pc = "write" /\ n.id = o.id /\ n.want = o.want
        /\ n.base = [file EXCEPT ![o.id] = o.want]
    BY <1>1 DEF OpStates
  <2>3. Merged(n, file)
    BY <2>2 DEF Merged
  <2> HIDE DEF n
  <2>4. Moves(p, a, n)
    BY <1>0, <2>1 DEF OpTable, Moves
  <2>5. file \in since[p][a]
    BY <1>1 DEF Tracked, OpenCalls, SeesFile
  <2>6. SinceTyped' /\ SeesFile' /\ PromiseStep
    <3>1. UNCHANGED <<file, since>>
      BY <1>1, <1>3
    <3>2. SinceTyped' /\ SeesFile'
      BY <3>1 DEF Tracked, SinceTyped, SeesFile
    <3>3. PromiseStep
      BY <3>1 DEF PromiseStep, Promise!vars
    <3>4. QED
      BY <3>2, <3>3
  <2>7. OpenCalls'
    <3>1. n.pc \in Working /\ UNCHANGED since
      BY <1>3, <2>2 DEF Working
    <3>2. \A q \in Procs, b \in Actors : op'[q][b].pc \in Working <=> op[q][b].pc \in Working
      BY <1>1, <2>4, <3>1 DEF Moves
    <3>3. QED
      BY <3>1, <3>2 DEF Tracked, OpenCalls
  <2>8. ASSUME NEW q \in Procs, NEW b \in Actors, op'[q][b].pc = "write"
        PROVE  \E old \in since'[q][b] : Merged(op'[q][b], old)
    <3>1. CASE q = p /\ b = a
      <4>1. op'[q][b] = n
        BY <2>4, <3>1 DEF Moves
      <4>2. Merged(op'[q][b], file)
        BY <2>3, <4>1, Zenon
      <4>3. QED
        BY <1>3, <2>5, <3>1, <4>2
    <3>2. CASE q # p \/ b # a
      <4>1. op'[q][b] = op[q][b]
        BY <2>4, <3>2 DEF Moves
      <4>2. PICK old \in since[q][b] : Merged(op[q][b], old)
        BY <2>8, <4>1 DEF Tracked, MergesSeen, At
      <4>3. Merged(op'[q][b], old)
        BY <4>1, <4>2, Zenon
      <4>4. QED
        BY <1>3, <4>2, <4>3
    <3>3. QED
      BY <3>1, <3>2
  <2>9. MergesSeen'
    BY <2>8, Zenon DEF MergesSeen, At, Merged
  <2>10. QED
    BY <2>6, <2>7, <2>9 DEF Tracked
<1>4. QED
  BY <1>2, <1>3 DEF Load

\* Renaming: the calls of the process that are under way start from here, those of others may.
LEMMA TrackedWrite ==
  ASSUME Typed, Merging, Tracked, NEW p \in Procs, NEW a \in Actors, Write(p, a)
  PROVE  Tracked' /\ PromiseStep
<1> DEFINE o == op[p][a]
           done == o.want = None
<1>0. Kept /\ op \in OpTable /\ CallsCarry
  BY TypedParts
<1>1. o \in OpStates /\ Carries(a, o) /\ o.pc = "write" /\ file' = o.base
  BY <1>0 DEF OpTable, CallsCarry, Write, At
<1>2. o.id \in Ids /\ o.want \in BOOLEAN \cup {None} /\ file' \in Files
  BY <1>1, FieldTypes DEF Carries, Working, Entries
<1>3. PICK old \in since[p][a] : Merged(o, old)
  BY <1>1 DEF Tracked, MergesSeen, At
<1>4. since[p][a] # {}
  BY <1>3
<1>5. /\ done => since' = [Renamed(p) EXCEPT ![p][a] = {}] /\ Return(p, a)
      /\ ~done => since' = Renamed(p) /\ Goto(p, a, "verify")
  BY DEF Write
<1>6. Promise!Replace(p, a)
  <2>1. file' = [old EXCEPT ![o.id] = o.want]
    BY <1>1, <1>3 DEF Merged
  <2>2. Promise!Replaced(p) = Renamed(p)
    BY DEF Promise!Replaced, Renamed
  <2>3. since' \in {Promise!Replaced(p), [Promise!Replaced(p) EXCEPT ![p][a] = {}]}
    BY <1>5, <2>2
  <2>4. QED
    BY <1>2, <1>3, <2>1, <2>3 DEF Promise!Replace
<1>7. ASSUME NEW q \in Procs, NEW b \in Actors
      PROVE  /\ since[q][b] = {} => Renamed(p)[q][b] = {}
             /\ since[q][b] # {} => file' \in Renamed(p)[q][b]
             /\ since[q][b] # {} /\ q # p => since[q][b] \subseteq Renamed(p)[q][b]
  <2>1. Renamed(p)[q][b] = IF since[q][b] = {} THEN {}
                           ELSE (IF q = p THEN {} ELSE since[q][b]) \cup {file'}
    BY DEF Renamed
  <2>2. QED
    BY <2>1
<1>8. Renamed(p) \in [Procs -> [Actors -> SUBSET Files]]
  BY <1>2 DEF Renamed, Tracked, SinceTyped
<1>9. /\ SinceTyped'
      /\ \A q \in Procs, b \in Actors :
           q # p \/ b # a => since'[q][b] = Renamed(p)[q][b]
      /\ since'[p][a] = IF done THEN {} ELSE Renamed(p)[p][a]
  <2>1. CASE done
    BY <1>5, <1>8, <2>1 DEF SinceTyped
  <2>2. CASE ~done
    BY <1>5, <1>8, <2>2 DEF SinceTyped
  <2>3. QED
    BY <2>1, <2>2
<1>10. op'[p][a].pc \in Working <=> ~done
  <2>1. CASE done
    BY <1>0, <1>5, <2>1, CallReturns DEF Working
  <2>2. CASE ~done
    <3>1. op'[p][a].pc = "verify"
      BY <1>0, <1>5, <2>2, GoesOn DEF Phases
    <3>2. QED
      BY <2>2, <3>1 DEF Working
  <2>3. QED
    BY <2>1, <2>2
<1>11. \A q \in Procs, b \in Actors : q # p \/ b # a => op'[q][b] = op[q][b]
  <2>1. CASE done
    BY <1>0, <1>5, <2>1, CallReturns DEF Moves
  <2>2. CASE ~done
    BY <1>0, <1>5, <2>2, GoesOn DEF Moves, Phases
  <2>3. QED
    BY <2>1, <2>2
<1> HIDE DEF done
<1>12. OpenCalls'
  <2>1. ASSUME NEW q \in Procs, NEW b \in Actors
        PROVE  op'[q][b].pc \in Working <=> since'[q][b] # {}
    <3>1. CASE q = p /\ b = a
      <4>1. Renamed(p)[p][a] # {}
        BY <1>4, <1>7
      <4>2. since'[p][a] # {} <=> ~done
        BY <1>9, <4>1
      <4>3. QED
        BY <1>10, <3>1, <4>2
    <3>2. CASE q # p \/ b # a
      <4>1. op'[q][b] = op[q][b] /\ since'[q][b] = Renamed(p)[q][b]
        BY <1>9, <1>11, <3>2
      <4>2. since'[q][b] # {} <=> since[q][b] # {}
        BY <1>7, <4>1
      <4>3. QED
        BY <4>1, <4>2 DEF Tracked, OpenCalls
    <3>3. QED
      BY <3>1, <3>2
  <2>2. QED
    BY <2>1 DEF OpenCalls
<1>13. SeesFile'
  <2>1. ASSUME NEW q \in Procs, NEW b \in Actors, since'[q][b] # {} PROVE file' \in since'[q][b]
    <3>1. since'[q][b] = Renamed(p)[q][b]
      BY <1>9, <2>1
    <3>2. since[q][b] # {}
      BY <1>7, <2>1, <3>1
    <3>3. QED
      BY <1>7, <3>1, <3>2
  <2>2. QED
    BY <2>1 DEF SeesFile
<1>14. MergesSeen'
  <2>1. WritersStay
    BY <1>0, ReturnsAside, GoesAside DEF Write, Phases
  <2>2. \A b \in Actors : op'[p][b].pc # "write"
    <3>1. \A b \in Actors : b # a => op[p][b].pc # "write"
      BY <1>1 DEF Merging, OneWriter, At
    <3>2. op'[p][a].pc # "write"
      <4>1. CASE Return(p, a)
        BY <1>0, <4>1, CallReturns
      <4>2. CASE Goto(p, a, "verify")
        BY <1>0, <4>2, GoesOn DEF Phases
      <4>3. QED
        BY <4>1, <4>2 DEF Write
    <3>3. QED
      BY <1>11, <3>1, <3>2
  <2>3. ASSUME NEW q \in Procs, NEW b \in Actors, op'[q][b].pc = "write"
        PROVE  since[q][b] \subseteq since'[q][b]
    <3>1. q # p
      BY <2>2, <2>3
    <3>2. since'[q][b] = Renamed(p)[q][b]
      BY <1>9, <3>1
    <3>3. QED
      BY <1>7, <3>1, <3>2
  <2>4. QED
    BY <2>1, <2>3, SeenStays DEF Tracked
<1>15. QED
  BY <1>6, <1>9, <1>12, <1>13, <1>14 DEF Tracked, PromiseStep, Promise!Next

\* The two, for the forms in which the actions say them.
LEMMA TrackedGoto ==
  ASSUME Tracked, op \in OpTable, NEW p \in Procs, NEW a \in Actors,
         NEW pc \in Phases \ {"write"}, Goto(p, a, pc),
         pc \in Working <=> op[p][a].pc \in Working, UNCHANGED <<file, since>>
  PROVE  Tracked' /\ PromiseStep
<1> DEFINE o == [op[p][a] EXCEPT !.pc = pc]
<1>1. Moves(p, a, o)
  BY GoesOn
<1>2. o.pc = pc
  BY StepTo DEF OpTable
<1> HIDE DEF o
<1>3. QED
  BY <1>1, <1>2, TrackedGoes

LEMMA TrackedReturns ==
  ASSUME Tracked, op \in OpTable, CallsCarry, NEW p \in Procs, NEW a \in Actors,
         op[p][a].pc \in Working, Return(p, a), Closes(p, a), UNCHANGED file
  PROVE  Tracked' /\ PromiseStep
<1>1. Moves(p, a, op'[p][a]) /\ op'[p][a].pc \in {"idle", "follow"}
  BY CallReturns
<1> DEFINE o == op'[p][a]
<1>2. Moves(p, a, o) /\ o.pc \notin Working
  BY <1>1 DEF Working
<1> HIDE DEF o
<1>3. QED
  BY <1>2, TrackedCloses

\* A call of a user begins, or there is nothing to do.
LEMMA TrackedUser == ASSUME Typed, Tracked, UserCall PROVE Tracked' /\ PromiseStep
<1>0. Kept /\ op \in OpTable
  BY TypedParts
<1>1. Handlers \subseteq Actors /\ UserProcs \subseteq Procs
  BY ActorFacts, SharingAssumption
<1>2. ASSUME NEW p \in UserProcs, NEW h \in Handlers, NEW i \in Ids, NEW v \in BOOLEAN,
             UserToggle(p, h, i, v)
      PROVE  Tracked' /\ PromiseStep
  <2>1. CASE mem[p][i] = v
    <3>1. op' = op /\ UNCHANGED <<file, since>>
      BY <1>2, <2>1 DEF UserToggle
    <3>2. WritersStay
      BY <3>1 DEF WritersStay
    <3>3. QED
      BY <3>1, <3>2, TrackedStays
  <2>2. CASE mem[p][i] # v
    <3> DEFINE o == [Idle EXCEPT !.pc = "load", !.id = i, !.want = v]
    <3>1. op' = [op EXCEPT ![p][h] = o] /\ Opens(p, h) /\ UNCHANGED file
      BY <1>2, <2>2 DEF UserToggle
    <3>2. o.pc \in Working /\ o.pc # "write"
      BY DEF Idle, Working
    <3> HIDE DEF o
    <3>3. Moves(p, h, o)
      BY <1>0, <1>1, <3>1 DEF OpTable, Moves
    <3>4. op[p][h].pc \notin Working
      BY <1>2 DEF UserToggle, At, Working
    <3>5. QED
      BY <1>0, <1>1, <3>1, <3>2, <3>3, <3>4, TrackedOpens DEF Kept
  <2>3. QED
    BY <2>1, <2>2
<1>3. ASSUME NEW p \in UserProcs, NEW h \in Handlers, NEW i \in Ids, UserDelete(p, h, i)
      PROVE  Tracked' /\ PromiseStep
  <2> DEFINE o == [Idle EXCEPT !.pc = "remove", !.id = i]
  <2>1. op' = [op EXCEPT ![p][h] = o] /\ Opens(p, h) /\ UNCHANGED file
    BY <1>3 DEF UserDelete
  <2>2. o.pc \in Working /\ o.pc # "write"
    BY DEF Idle, Working
  <2> HIDE DEF o
  <2>3. Moves(p, h, o)
    BY <1>0, <1>1, <2>1 DEF OpTable, Moves
  <2>4. op[p][h].pc \notin Working
    BY <1>3 DEF UserDelete, At, Working
  <2>5. QED
    BY <1>0, <1>1, <2>1, <2>2, <2>3, <2>4, TrackedOpens DEF Kept
<1>4. QED
  BY <1>2, <1>3 DEF UserCall

\* The rounds of a watcher, and the calls it begins.
LEMMA TrackedWatch ==
  ASSUME Typed, Tracked, NEW p \in Procs, WatchStep(p)
  PROVE  Tracked' /\ PromiseStep
<1>0. Kept /\ op \in OpTable /\ CallsCarry
  BY TypedParts
<1>1. Watch \in Actors
  BY ActorFacts
<1>2. CASE ScanRead(p) \/ ScanApply(p) \/ FollowSnapshot(p)
  <2>1. PICK pc \in {"apply", "snapshot", "follow"} :
          Goto(p, Watch, pc) /\ UNCHANGED <<file, since>>
    BY <1>2 DEF ScanRead, ScanApply, FollowSnapshot
  <2>2. op[p][Watch].pc \in {"idle", "apply", "snapshot"}
    BY <1>2 DEF ScanRead, ScanApply, FollowSnapshot, At
  <2>3. pc \in Phases \ {"write"} /\ pc \notin Working /\ op[p][Watch].pc \notin Working
    BY <2>2 DEF Phases, Working
  <2>4. QED
    BY <1>0, <1>1, <2>1, <2>3, TrackedGoto
<1>3. CASE FollowNext(p)
  <2>1. op[p][Watch].pc \notin Working /\ UNCHANGED file
    BY <1>3 DEF FollowNext, At, Working
  <2>2. CASE Goto(p, Watch, "idle") /\ UNCHANGED since
    <3>1. "idle" \in Phases \ {"write"} /\ "idle" \notin Working
      BY DEF Phases, Working
    <3>2. QED
      BY <1>0, <1>1, <2>1, <2>2, <3>1, TrackedGoto
  <2>3. CASE UNCHANGED <<op, since>>
    <3>1. WritersStay
      BY <2>3 DEF WritersStay
    <3>2. QED
      BY <2>1, <2>3, <3>1, TrackedStays
  <2>4. ASSUME NEW i \in scan[p].todo, Opens(p, Watch),
               op' = [op EXCEPT ![p][Watch] =
                        [Idle EXCEPT !.pc = "toggle", !.id = i, !.want = file[i],
                                     !.expect = file[i]]]
        PROVE  Tracked' /\ PromiseStep
    <3> DEFINE o == [Idle EXCEPT !.pc = "toggle", !.id = i, !.want = file[i], !.expect = file[i]]
    <3>1. o.pc \in Working /\ o.pc # "write"
      BY DEF Idle, Working
    <3>2. op' = [op EXCEPT ![p][Watch] = o]
      BY <2>4
    <3> HIDE DEF o
    <3>3. Moves(p, Watch, o)
      BY <1>0, <1>1, <3>2 DEF OpTable, Moves
    <3>4. QED
      BY <1>0, <1>1, <2>1, <2>4, <3>1, <3>3, TrackedOpens DEF Kept
  <2>5. QED
    BY <1>3, <2>2, <2>3, <2>4 DEF FollowNext
<1>4. CASE FollowToggle(p)
  <2>1. op[p][Watch].pc \in Working /\ UNCHANGED file
    BY <1>4 DEF FollowToggle, At, Working
  <2>2. CASE Return(p, Watch) /\ Closes(p, Watch)
    BY <1>0, <1>1, <2>1, <2>2, TrackedReturns
  <2>3. CASE Goto(p, Watch, "load") /\ UNCHANGED since
    <3>1. "load" \in Phases \ {"write"} /\ "load" \in Working
      BY DEF Phases, Working
    <3>2. QED
      BY <1>0, <1>1, <2>1, <2>3, <3>1, TrackedGoto
  <2>4. QED
    BY <1>4, <2>2, <2>3 DEF FollowToggle
<1>5. QED
  BY <1>2, <1>3, <1>4 DEF WatchStep

\* The end of a write, and Delete on its way to its cleanup of the entry.
LEMMA TrackedVerify ==
  ASSUME Typed, Tracked, NEW p \in Procs, NEW a \in Actors, Verify(p, a)
  PROVE  Tracked' /\ PromiseStep
<1>0. op \in OpTable /\ CallsCarry
  BY TypedParts
<1>1. op[p][a].pc \in Working /\ UNCHANGED file
  BY DEF Verify, At, Working
<1>2. CASE Return(p, a) /\ Closes(p, a)
  BY <1>0, <1>1, <1>2, TrackedReturns
<1>3. CASE /\ op' = [op EXCEPT ![p][a].pc = "load", ![p][a].tries = op[p][a].tries + 1]
           /\ UNCHANGED since
  <2> DEFINE o == [op[p][a] EXCEPT !.pc = "load", !.tries = op[p][a].tries + 1]
  <2>1. o.pc \in Working /\ o.pc # "write"
    BY <1>0 DEF OpTable, OpStates, Working
  <2>2. op' = [op EXCEPT ![p][a] = o]
    BY <1>0, <1>3 DEF OpTable
  <2> HIDE DEF o
  <2>3. Moves(p, a, o)
    BY <1>0, <2>2 DEF OpTable, Moves
  <2>4. QED
    BY <1>0, <1>1, <1>3, <2>1, <2>3, TrackedGoes
<1>4. QED
  BY <1>2, <1>3 DEF Verify

LEMMA TrackedCall ==
  ASSUME Typed, Tracked, NEW p \in Procs, NEW h \in Handlers, CallStep(p, h)
  PROVE  Tracked' /\ PromiseStep
<1>0. op \in OpTable /\ h \in Actors
  BY TypedParts, ActorFacts
<1>1. PICK pc \in {"unregister", "load"} : Goto(p, h, pc) /\ UNCHANGED <<file, since>>
  BY DEF CallStep, RemoveDir, Unregister
<1>2. op[p][h].pc \in Working
  BY DEF CallStep, RemoveDir, Unregister, At, Working
<1>3. pc \in Phases \ {"write"} /\ pc \in Working
  BY DEF Phases, Working
<1>4. QED
  BY <1>0, <1>1, <1>2, <1>3, TrackedGoto

LEMMA TrackedStep == Typed /\ Merging /\ Tracked /\ [Next]_vars => Tracked' /\ PromiseStep
<1> SUFFICES ASSUME Typed, Merging, Tracked, [Next]_vars PROVE Tracked' /\ PromiseStep
  OBVIOUS
<1>0. op \in OpTable /\ CallsCarry
  BY TypedParts
<1>1. CASE UNCHANGED <<op, file, since>>
  <2>1. WritersStay
    BY <1>1 DEF WritersStay
  <2>2. QED
    BY <1>1, <2>1, TrackedStays
<1>2. CASE UserCall
  BY <1>2, TrackedUser
<1>3. ASSUME NEW p \in Procs, NEW a \in Actors, WriteFails(p, a)
      PROVE  Tracked' /\ PromiseStep
  <2>1. /\ op[p][a].pc \in Working /\ UNCHANGED file
        /\ Return(p, a) /\ Closes(p, a)
    BY <1>3 DEF WriteFails, At, Working
  <2>2. QED
    BY <1>0, <2>1, TrackedReturns
<1>4. CASE \E p \in Procs, a \in Actors : WriteStep(p, a)
  BY <1>3, <1>4, TrackedLoad, TrackedWrite, TrackedVerify DEF WriteStep
<1>5. CASE \E p \in Procs : WatchStep(p) \/ \E h \in Handlers : CallStep(p, h)
  BY <1>5, TrackedWatch, TrackedCall
<1>6. CASE UNCHANGED vars \/ \E i \in Ids : Install(i)
  BY <1>1, <1>6 DEF vars, Install
<1>7. QED
  BY <1>2, <1>4, <1>5, <1>6 DEF Next

LEMMA TrackedAlways == Spec => [](Typed /\ Merging /\ Tracked)
<1>1. Init => Typed /\ Merging /\ Tracked
  BY TypedInit, MergingInit, TrackedInit
<1>2. Typed /\ Merging /\ Tracked /\ [Next]_vars => (Typed /\ Merging /\ Tracked)'
  BY TypedStep, MergingStep, TrackedStep
<1>3. QED
  BY <1>1, <1>2, PTL DEF Spec

\* Whatever the processes do to the directory and the file, in any order, every call
\* of toggle and Delete and every round of applyStateChanges keeps to its types.
THEOREM TypeCorrect == Spec => []TypeOK
<1>1. Typed /\ Tracked => TypeOK
  BY DEF Typed, Kept, Renames, Rounds, Scans, OpTable, Tracked, SinceTyped, TypeOK
<1>2. QED
  BY <1>1, TrackedAlways, PTL

\* manager.go:755-796, mergeStateWrite under stateMu, with toggle and Delete around it: what a
\* call renames into place is something that the file has said during the call, with the
\* plugin's entry set, and never older than what its own process has put there last.  So of
\* what was in the file when the call began nothing is lost, whichever processes write.
THEOREM Implements == Spec => MergesAsPromised
<1>1. Init => Promise!Init
  BY DEF Init, Promise!Init
<1>2. Typed /\ Merging /\ Tracked /\ [Next]_vars => [Promise!Next]_(Promise!vars)
  BY TrackedStep DEF PromiseStep
<1>3. QED
  BY <1>1, <1>2, TrackedAlways, PTL DEF Spec, MergesAsPromised, Promise!Spec

=============================================================================
