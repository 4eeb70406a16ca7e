---------------------------- MODULE PluginState ----------------------------
(***************************************************************************)
(* The on/off state of the plugins, which every opencode2api process keeps *)
(* in memory and shares with the others through one file,                  *)
(* providers/.plugin-state.json: core/manager/pluginprovider/manager.go,   *)
(* toggle, applyStateChanges, mergeStateWrite and Delete.                  *)
(*                                                                         *)
(* A process runs handlers (user calls) and one watcher (the scan and the  *)
(* following of the file).  They share stateMu, held from reading the file *)
(* to replacing it, and one toggleMu per plugin; between processes there   *)
(* is no lock at all.  Reading the file and renaming a new one over it are *)
(* each atomic.  Starting and killing the plugin's process is the business *)
(* of PluginSupervisor; here it is the time that passes between the change *)
(* of the field and the write of the file.                                 *)
(***************************************************************************)
EXTENDS Naturals, FiniteSets

CONSTANTS
  Procs,        \* the processes that share the directory
  Handlers,     \* concurrent user calls per process
  UserProcs,    \* the processes that serve user calls
  Ids,          \* plugins
  MaxAttempts,  \* stateWriteMaxAttempts
  MaxCalls,     \* bound on user calls, installations included
  RenameFails,  \* whether replacing the file may fail for good
  None          \* no entry, no expectation

Watch == "watch"    \* the watcher of a process, a goroutine of its own

ASSUME SharingAssumption ==
  /\ UserProcs \subseteq Procs
  /\ Watch \notin Handlers
  /\ MaxAttempts \in Nat \ {0} /\ MaxCalls \in Nat
  /\ RenameFails \in BOOLEAN
  /\ None \notin BOOLEAN /\ None \notin Ids /\ None \notin Procs

Actors == Handlers \cup {Watch}
Files == [Ids -> BOOLEAN \cup {None}]

VARIABLES
  file,    \* the entries of the state file
  dirs,    \* plugins whose directory with its provider.json exists
  mem,     \* mem[p][i]: p.enabled
  reg,     \* reg[p]: the keys of m.plugins
  cache,   \* cache[p]: m.state, read once and written with each change
  op,      \* op[p][a]: the call in progress
  scan,    \* scan[p]: the locals of the watcher's round
  calls,   \* number of user calls so far
  intent,  \* history: what the last user call to return asked for each plugin
  last,    \* history: who replaced the file last, for which plugin, following or not, and
           \* which processes had read it and were about to rename theirs: they are overtaken
  since    \* history: since[p][a]: what the file has said while the call lasts, from
           \* the last time on that the process replaced it

vars == <<file, dirs, mem, reg, cache, op, scan, calls, intent, last, since>>

Idle == [pc |-> "idle", id |-> None, want |-> None, expect |-> None,
         base |-> [i \in Ids |-> None], tries |-> 0]

-----------------------------------------------------------------------------
Init ==
  /\ file = [i \in Ids |-> None]
  /\ dirs = Ids
  /\ mem = [p \in Procs |-> [i \in Ids |-> TRUE]]
  /\ reg = [p \in Procs |-> Ids]
  /\ cache = [p \in Procs |-> file]
  /\ op = [p \in Procs |-> [a \in Actors |-> Idle]]
  /\ scan = [p \in Procs |-> [seen |-> {}, snap |-> file, todo |-> {}]]
  /\ calls = 0
  /\ intent = [i \in Ids |-> None]
  /\ last = [proc |-> None, id |-> None, follow |-> FALSE, overtook |-> {}]
  /\ since = [p \in Procs |-> [a \in Actors |-> {}]]

\* The call of actor a goes on to pc, with or without other changes of its locals.
At(p, a, pc) == op[p][a].pc = pc
Goto(p, a, pc) == op' = [op EXCEPT ![p][a].pc = pc]

\* The call returns: a handler becomes free, the watcher goes on with its round.
Return(p, a) ==
  op' = [op EXCEPT ![p][a] =
           IF a = Watch THEN [Idle EXCEPT !.pc = "follow"] ELSE Idle]

\* The histories of a call that begins, of one that ends, and of a rename by p.
Opens(p, a) == since' = [since EXCEPT ![p][a] = {file}]
Closes(p, a) == since' = [since EXCEPT ![p][a] = {}]
Renamed(p) ==
  [q \in Procs |-> [b \in Actors |->
     IF since[q][b] = {} THEN {} ELSE (IF q = p THEN {} ELSE since[q][b]) \cup {file'}]]

\* Some call of p holds plugin i's toggleMu.
Busy(p, i) ==
  \E a \in Actors : op[p][a].id = i
    /\ op[p][a].pc \in {"load", "write", "verify", "remove", "unregister"}

\* Some call of p holds stateMu, which it takes to read the file and keeps until
\* it has renamed the new one into place.
StateMuHeld(p) == \E a \in Actors : At(p, a, "write")

\* p has read the file: nobody has overtaken what it is about to rename.
InTime(p) == last' = [last EXCEPT !.overtook = @ \ {p}]

-----------------------------------------------------------------------------
(* Calls of users.                                                         *)

\* Toggle.  Asking for what the field already says writes nothing.
UserToggle(p, h, i, v) ==
  /\ calls < MaxCalls /\ calls' = calls + 1
  /\ At(p, h, "idle") /\ i \in reg[p] /\ ~Busy(p, i)
  /\ mem' = [mem EXCEPT ![p][i] = v]
  /\ IF mem[p][i] = v
     THEN intent' = [intent EXCEPT ![i] = v] /\ UNCHANGED <<op, since>>
     ELSE /\ op' = [op EXCEPT ![p][h] = [Idle EXCEPT !.pc = "load", !.id = i, !.want = v]]
          /\ Opens(p, h)
          /\ UNCHANGED intent
  /\ UNCHANGED <<file, dirs, reg, cache, scan, last>>

\* Delete, up to the point where the plugin is disabled.
UserDelete(p, h, i) ==
  /\ calls < MaxCalls /\ calls' = calls + 1
  /\ At(p, h, "idle") /\ i \in reg[p] /\ ~Busy(p, i)
  /\ mem' = [mem EXCEPT ![p][i] = FALSE]
  /\ op' = [op EXCEPT ![p][h] = [Idle EXCEPT !.pc = "remove", !.id = i]]
  /\ Opens(p, h)
  /\ UNCHANGED <<file, dirs, reg, cache, scan, intent, last>>

\* The directory is removed, or stays when five attempts fail.
RemoveDir(p, h) ==
  /\ At(p, h, "remove")
  /\ dirs' \in {dirs \ {op[p][h].id}, dirs}
  /\ Goto(p, h, "unregister")
  /\ UNCHANGED <<file, mem, reg, cache, scan, calls, intent, last, since>>

Unregister(p, h) ==
  /\ At(p, h, "unregister")
  /\ reg' = [reg EXCEPT ![p] = @ \ {op[p][h].id}]
  /\ Goto(p, h, "load")
  /\ UNCHANGED <<file, dirs, mem, cache, scan, calls, intent, last, since>>

\* A user puts a plugin's directory (back) in place.
Install(i) ==
  /\ calls < MaxCalls /\ calls' = calls + 1
  /\ i \notin dirs /\ dirs' = dirs \cup {i}
  /\ UNCHANGED <<file, mem, reg, cache, op, scan, intent, last, since>>

-----------------------------------------------------------------------------
(* Writing the file: mergeStateWrite, and the cleanup at the end of Delete. *)

\* Mutant: the entry is merged into what the process remembers, not into the file.
LoadRemembered(p, a) ==
  /\ At(p, a, "load") /\ ~StateMuHeld(p)
  /\ LET o == op[p][a] IN
       IF o.expect # None /\ file[o.id] # o.expect
       THEN Return(p, a) /\ Closes(p, a) /\ UNCHANGED <<cache, last>>
       ELSE /\ cache' = [cache EXCEPT ![p][o.id] = o.want]
            /\ op' = [op EXCEPT ![p][a].pc = "write",
                                ![p][a].base = [cache[p] EXCEPT ![o.id] = o.want]]
            /\ InTime(p) /\ UNCHANGED since
  /\ UNCHANGED <<file, dirs, mem, reg, scan, calls, intent>>

\* Mutant: the follower writes without comparing first.
LoadNoCAS(p, a) ==
  /\ At(p, a, "load") /\ ~StateMuHeld(p)
  /\ LET o == op[p][a] IN
       /\ cache' = [cache EXCEPT ![p][o.id] = o.want]
       /\ op' = [op EXCEPT ![p][a].pc = "write",
                           ![p][a].base = [file EXCEPT ![o.id] = o.want]]
  /\ InTime(p)
  /\ UNCHANGED <<file, dirs, mem, reg, scan, calls, intent, since>>

\* Read the file and merge the one entry into it.  A follower gives up when the
\* entry is no longer what its decision was based on.
Load(p, a) ==
  /\ At(p, a, "load") /\ ~StateMuHeld(p)
  /\ LET o == op[p][a] IN
       IF o.expect # None /\ file[o.id] # o.expect
       THEN Return(p, a) /\ Closes(p, a) /\ UNCHANGED <<cache, last>>
       ELSE /\ cache' = [cache EXCEPT ![p][o.id] = o.want]
            /\ op' = [op EXCEPT ![p][a].pc = "write",
                                ![p][a].base = [file EXCEPT ![o.id] = o.want]]
            /\ InTime(p) /\ UNCHANGED since
  /\ UNCHANGED <<file, dirs, mem, reg, scan, calls, intent>>

\* Rename the merged file into place.  Only a toggle verifies what it wrote.
Write(p, a) ==
  /\ At(p, a, "write")
  /\ file' = op[p][a].base
  /\ last' = [proc |-> p, id |-> op[p][a].id, follow |-> a = Watch,
              overtook |-> {q \in Procs \ {p} : StateMuHeld(q)}]
  /\ IF op[p][a].want = None
     THEN Return(p, a) /\ since' = [Renamed(p) EXCEPT ![p][a] = {}]
     ELSE Goto(p, a, "verify") /\ since' = Renamed(p)
  /\ UNCHANGED <<dirs, mem, reg, cache, scan, calls, intent>>

\* The rename keeps failing: the call ends with a warning in the log.
WriteFails(p, a) ==
  /\ RenameFails /\ At(p, a, "write")
  /\ Return(p, a) /\ Closes(p, a)
  /\ UNCHANGED <<file, dirs, mem, reg, cache, scan, calls, intent, last>>

\* Read it once more without the lock; start over if the entry is not there.
Verify(p, a) ==
  /\ At(p, a, "verify")
  /\ LET o == op[p][a] IN
       IF file[o.id] = o.want \/ o.tries + 1 = MaxAttempts
       THEN /\ Return(p, a) /\ Closes(p, a)
            /\ intent' = IF a = Watch THEN intent ELSE [intent EXCEPT ![o.id] = o.want]
       ELSE /\ op' = [op EXCEPT ![p][a].pc = "load", ![p][a].tries = o.tries + 1]
            /\ UNCHANGED <<intent, since>>
  /\ UNCHANGED <<file, dirs, mem, reg, cache, scan, calls, last>>

-----------------------------------------------------------------------------
(* The watcher's round: scan, then applyStateChanges.                      *)

\* The directories are read, with no lock.
ScanRead(p) ==
  /\ At(p, Watch, "idle")
  /\ scan' = [scan EXCEPT ![p].seen = dirs]
  /\ Goto(p, Watch, "apply")
  /\ UNCHANGED <<file, dirs, mem, reg, cache, calls, intent, last, since>>

\* Plugins seen are registered, with the state this process remembers, and
\* plugins not seen are dropped.
ScanApply(p) ==
  /\ At(p, Watch, "apply")
  /\ reg' = [reg EXCEPT ![p] = scan[p].seen]
  /\ mem' = [mem EXCEPT ![p] = [i \in Ids |->
                IF i \in scan[p].seen \ reg[p] THEN cache[p][i] # FALSE ELSE mem[p][i]]]
  /\ Goto(p, Watch, "snapshot")
  /\ UNCHANGED <<file, dirs, cache, scan, calls, intent, last, since>>

\* Mutant: the follower compares with the state it remembers, not with the field.
FollowSnapshotCached(p) ==
  /\ At(p, Watch, "snapshot")
  /\ scan' = [scan EXCEPT ![p] = [seen |-> {}, snap |-> file,
                todo |-> {i \in reg[p] : file[i] # None /\ file[i] # cache[p][i]
                                          /\ cache[p][i] # None}]]
  /\ Goto(p, Watch, "follow")
  /\ UNCHANGED <<file, dirs, mem, reg, cache, calls, intent, last, since>>

\* applyStateChanges: which plugins differ from the file as it is now.
FollowSnapshot(p) ==
  /\ At(p, Watch, "snapshot")
  /\ scan' = [scan EXCEPT ![p] = [seen |-> {}, snap |-> file,
                todo |-> {i \in reg[p] : file[i] # None /\ file[i] # mem[p][i]}]]
  /\ Goto(p, Watch, "follow")
  /\ UNCHANGED <<file, dirs, mem, reg, cache, calls, intent, last, since>>

\* The next of them: skipped when the file has changed since.
FollowNext(p) ==
  /\ At(p, Watch, "follow")
  /\ \/ /\ scan[p].todo = {}
        /\ scan' = [scan EXCEPT ![p].snap = [i \in Ids |-> None]]
        /\ Goto(p, Watch, "idle") /\ UNCHANGED since
     \/ \E i \in scan[p].todo :
          /\ scan' = [scan EXCEPT ![p].todo = @ \ {i}]
          /\ IF file[i] # scan[p].snap[i] THEN UNCHANGED <<op, since>>
             ELSE /\ op' = [op EXCEPT ![p][Watch] =
                              [Idle EXCEPT !.pc = "toggle", !.id = i, !.want = file[i],
                                           !.expect = file[i]]]
                  /\ Opens(p, Watch)
  /\ UNCHANGED <<file, dirs, mem, reg, cache, calls, intent, last>>

\* toggleFollow, once it has toggleMu.
FollowToggle(p) ==
  /\ At(p, Watch, "toggle")
  /\ LET o == op[p][Watch] IN
       /\ ~Busy(p, o.id)
       /\ IF o.id \notin reg[p] \/ mem[p][o.id] = o.want
          THEN Return(p, Watch) /\ Closes(p, Watch) /\ UNCHANGED mem
          ELSE /\ mem' = [mem EXCEPT ![p][o.id] = o.want]
               /\ Goto(p, Watch, "load") /\ UNCHANGED since
  /\ UNCHANGED <<file, dirs, reg, cache, scan, calls, intent, last>>

-----------------------------------------------------------------------------
UserCall ==
  \E p \in UserProcs, h \in Handlers, i \in Ids :
    UserDelete(p, h, i) \/ \E v \in BOOLEAN : UserToggle(p, h, i, v)

CallStep(p, h) == RemoveDir(p, h) \/ Unregister(p, h)
WriteStep(p, a) == Load(p, a) \/ Write(p, a) \/ WriteFails(p, a) \/ Verify(p, a)
WatchStep(p) ==
  ScanRead(p) \/ ScanApply(p) \/ FollowSnapshot(p) \/ FollowNext(p) \/ FollowToggle(p)

Next ==
  \/ UserCall
  \/ \E i \in Ids : Install(i)
  \/ \E p \in Procs : \/ WatchStep(p)
                      \/ \E h \in Handlers : CallStep(p, h)
                      \/ \E a \in Actors : WriteStep(p, a)

Spec == Init /\ [][Next]_vars

\* Calls that were begun go on, and the watcher's ticker keeps firing.
Fairness ==
  \A p \in Procs :
    /\ WF_vars(WatchStep(p))
    /\ \A h \in Handlers : WF_vars(CallStep(p, h))
    /\ \A a \in Actors : WF_vars(WriteStep(p, a))

FairSpec == Spec /\ Fairness

-----------------------------------------------------------------------------
(* Properties.                                                             *)

OpStates ==
  [pc : {"idle", "remove", "unregister", "load", "write", "verify", "apply", "snapshot",
         "follow", "toggle"},
   id : Ids \cup {None}, want : BOOLEAN \cup {None}, expect : BOOLEAN \cup {None},
   base : Files, tries : 0 .. MaxAttempts - 1]

\* The file, the memories and the calls range over what the code can put there.
TypeOK ==
  /\ file \in Files /\ dirs \subseteq Ids
  /\ mem \in [Procs -> [Ids -> BOOLEAN]]
  /\ reg \in [Procs -> SUBSET Ids]
  /\ cache \in [Procs -> Files]
  /\ op \in [Procs -> [Actors -> OpStates]]
  /\ scan \in [Procs -> [seen : SUBSET Ids, snap : Files, todo : SUBSET Ids]]
  /\ calls \in 0 .. MaxCalls
  /\ intent \in Files
  /\ last \in [proc : Procs \cup {None}, id : Ids \cup {None}, follow : BOOLEAN,
              overtook : SUBSET Procs]
  /\ since \in [Procs -> [Actors -> SUBSET Files]]

\* A write replaces the whole file but changes one plugin's entry.  It can undo
\* another entry only when another process renamed its file between this one's
\* read and its rename; writers of one process never undo each other.
WritersOfOneProcessMerge ==
  [][\A j \in Ids : file'[j] # file[j] /\ j # last'.id
        => last'.proc \in last.overtook]_<<file, last>>

\* SharedEntries, the promise among all processes: mergeStateWrite replaces the file by
\* something that the file has said during the call, with one entry set, and by nothing
\* older than what the process itself wrote last.
Promise == INSTANCE SharedEntries
MergesAsPromised == Promise!Spec

\* Following is only that: a follower's write leaves the entry as the file has it, whoever
\* wrote it during the kill that came first, in this process or another.  Only a rename by
\* another process after the follower has compared and read the file can be undone.
FollowKeepsTheEntry ==
  [][last'.follow /\ file'[last'.id] # file[last'.id]
        => last'.proc \in last.overtook]_<<file, last>>

\* Once users stop, every process comes round to what the file says.
EveryProcessFollows ==
  <>[](\A p \in Procs, i \in Ids :
         i \in reg[p] /\ file[i] # None => mem[p][i] = file[i])

\* Nothing is in progress except rounds of the watchers that found nothing to do.
Quiet == \A p \in Procs, a \in Actors :
           op[p][a].pc \in {"idle", "apply", "snapshot", "follow"} /\ scan[p].todo = {}

\* docs/PLUGIN-PROVIDERS.md:216: a user's toggle takes effect unconditionally, the
\* user's intent must win.  At rest the file says what was last asked for (a plugin
\* without an entry is enabled).
\* (The code does not keep to this: README, section 3.)
UserIntentWins ==
  Quiet => \A i \in Ids : intent[i] # None => (file[i] # FALSE) = intent[i]
=============================================================================
