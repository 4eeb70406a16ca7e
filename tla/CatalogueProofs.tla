--------------------------- MODULE CatalogueProofs ---------------------------
(***************************************************************************)
(* Proofs about Catalogue, for every set of sources, plugins and savers    *)
(* and every bound: type correctness, that a save and a change of plugins  *)
(* do not lose each other's vendors, and that what was fetched of a source *)
(* stays in the catalogue.                                                 *)
(***************************************************************************)
EXTENDS Catalogue, TLAPS

PluginMaps == [Plugins -> Nat \cup {None}]

-----------------------------------------------------------------------------
(* What the operators make of well typed arguments.                        *)

\* The vendors made of a configuration and of the plugins are a list of vendors.
LEMMA JoinType ==
  ASSUME NEW c \in Configs, NEW p \in PluginMaps
  PROVE  Join(Enabled(c), p) \in Lists
<1>1. Enabled(c) \in [Sources -> Nat \cup {None}]
  BY DEF Configs, Entry, Keys, Enabled
<1>2. QED
  BY <1>1 DEF Join, Lists, Ids, PluginMaps

\* A saved form, with the keys it leaves empty taken from the file, is a configuration.
LEMMA KeepKeysType ==
  ASSUME NEW form \in Forms, NEW old \in Configs
  PROVE  KeepKeys(form, old) \in Configs
<1> DEFINE Kept(s) == IF form[s] # None /\ form[s].keys = 0 /\ old[s] # None
                      THEN [form[s] EXCEPT !.keys = old[s].keys]
                      ELSE form[s]
<1>1. ASSUME NEW s \in Sources PROVE Kept(s) \in Entry
  BY DEF Forms, Configs, Entry
<1>2. QED
  BY <1>1 DEF KeepKeys, Configs

\* Keeping the entries of some ids of a list yields a list.
LEMMA OnlyType ==
  ASSUME NEW l \in Lists, NEW ids
  PROVE  Only(l, ids) \in Lists
BY DEF Only, Lists

\* ... which has exactly the entries that the list has for these ids.
LEMMA OnlyRegistered ==
  ASSUME NEW l, NEW ids
  PROVE  Registered(Only(l, ids)) = Registered(l) \cap ids
BY DEF Only, Registered

LEMMA NoVendorsType == NoVendors \in Lists /\ Registered(NoVendors) = {}
BY DEF NoVendors, Lists, Registered

\* Ending a call, or one of its two rebuilds, touches the actor alone: it is idle, or has a
\* rebuild before it.
LEMMA FinishKeeps ==
  ASSUME NEW a \in Actors, op \in [Actors -> OpStates], Finish(a)
  PROVE  /\ op' \in [Actors -> OpStates]
         /\ op'[a].pc \in {"idle", "rebuild"}
         /\ \A b \in Actors : b # a => op'[b] = op[b]
<1>1. Idle \in OpStates /\ Idle.pc = "idle"
  BY DEF Idle, OpStates
<1>2. CASE op[a].left > 1
  <2>1. op[a].left - 1 \in 0..2
    BY <1>2 DEF OpStates
  <2>2. QED
    BY <1>2, <2>1 DEF Finish, OpStates
<1>3. CASE ~(op[a].left > 1)
  BY <1>1, <1>3 DEF Finish
<1>4. QED
  BY <1>2, <1>3

-----------------------------------------------------------------------------
(* Type correctness.                                                       *)

LEMMA TypeInit == Init => TypeOK
<1> SUFFICES ASSUME Init PROVE TypeOK
  OBVIOUS
<1>1. file \in Configs
  <2>1. [keys |-> 1, on |-> TRUE] \in Entry /\ None \in Entry
    BY DEF Entry, Keys
  <2>2. QED
    BY <2>1 DEF Init, Configs, NoSources
<1>2. watched \in Configs /\ cfg \in Configs
  BY <1>1 DEF Init
<1>3. {running, sig, plug} \subseteq PluginMaps
  BY DEF Init, Stopped, PluginMaps
<1>4. {vendors, lastGood, catalog, cache} \subseteq Lists
  BY <1>2, <1>3, JoinType, NoVendorsType DEF Init, PluginMaps
<1>5. op \in [Actors -> OpStates] /\ \A a \in Actors : op[a].pc = "idle"
  BY DEF Init, Idle, OpStates
<1>6. refresh \in RefreshStates
  BY NoVendorsType DEF Init, NoRefresh, RefreshStates
<1>7. QED
  BY <1>1, <1>2, <1>3, <1>4, <1>5, <1>6 DEF Init, TypeOK, PluginMaps

\* A call that moves on keeps the table of calls well typed.
LEMMA MoveType ==
  ASSUME TypeOK, NEW a \in Actors, NEW o \in OpStates, op' = [op EXCEPT ![a] = o],
         o.pc \in {"save", "apply", "replace"} => o.seen \in Configs,
         o.pc \in {"sign", "store"} => o.seen \in PluginMaps
  PROVE  /\ op' \in [Actors -> OpStates]
         /\ \A b \in Actors :
              /\ op'[b].pc \in {"save", "apply", "replace"} => op'[b].seen \in Configs
              /\ op'[b].pc \in {"sign", "store"} => op'[b].seen \in PluginMaps
BY DEF TypeOK, PluginMaps

\* So does one that ends.
LEMMA FinishType ==
  ASSUME TypeOK, NEW a \in Actors, Finish(a)
  PROVE  /\ op' \in [Actors -> OpStates]
         /\ \A b \in Actors :
              /\ op'[b].pc \in {"save", "apply", "replace"} => op'[b].seen \in Configs
              /\ op'[b].pc \in {"sign", "store"} => op'[b].seen \in PluginMaps
<1>1. op \in [Actors -> OpStates]
  BY DEF TypeOK
<1>2. QED
  BY <1>1, FinishKeeps DEF TypeOK, PluginMaps

LEMMA IdleType == Idle \in OpStates /\ Idle.pc = "idle"
BY DEF Idle, OpStates

\* A save, and the two ways in which a process takes it over.
LEMMA LoadType == ASSUME TypeOK, NEW a \in Actors, Load(a) PROVE TypeOK'
<1>1. [pc |-> "save", seen |-> file, left |-> 0] \in OpStates
  BY DEF TypeOK, OpStates
<1>2. count' \in [saves : Nat, changes : Nat, faults : Nat, lists : Nat]
  BY DEF TypeOK, Load
<1>3. QED
  BY <1>1, <1>2, MoveType
  DEF TypeOK, Load, settings, plugins, agg, history, PluginMaps

LEMMA SaveType == ASSUME TypeOK, NEW a \in Actors, Save(a) PROVE TypeOK'
<1>1. PICK form \in Forms :
        /\ file' = KeepKeys(form, op[a].seen)
        /\ op' = [op EXCEPT ![a] = IF role = "panel"
                                   THEN [pc |-> "apply", seen |-> file', left |-> 2]
                                   ELSE Idle]
  BY DEF Save
<1>2. op[a].seen \in Configs
  BY DEF Save, At, TypeOK
<1>3. file' \in Configs
  BY <1>1, <1>2, KeepKeysType
<1>4. [pc |-> "apply", seen |-> file', left |-> 2] \in OpStates
  BY <1>3 DEF OpStates
<1>5. /\ op' \in [Actors -> OpStates]
      /\ \A b \in Actors :
           /\ op'[b].pc \in {"save", "apply", "replace"} => op'[b].seen \in Configs
           /\ op'[b].pc \in {"sign", "store"} => op'[b].seen \in PluginMaps
  <2>1. CASE role = "panel"
    BY <1>1, <1>3, <1>4, <2>1, MoveType
  <2>2. CASE role # "panel"
    BY <1>1, <2>2, IdleType, MoveType
  <2>3. QED
    BY <2>1, <2>2
<1>6. QED
  BY <1>3, <1>5 DEF TypeOK, Save, plugins, agg, history, PluginMaps

LEMMA ApplyType == ASSUME TypeOK, NEW a \in Actors, Apply(a) PROVE TypeOK'
<1>1. op[a] \in OpStates /\ op[a].seen \in Configs
  BY DEF Apply, At, TypeOK
<1>2. [op[a] EXCEPT !.pc = "rebuild", !.seen = None] \in OpStates
  BY <1>1 DEF OpStates
<1>3. op' = [op EXCEPT ![a] = [op[a] EXCEPT !.pc = "rebuild", !.seen = None]]
  BY DEF Apply, TypeOK
<1>4. [op[a] EXCEPT !.pc = "rebuild", !.seen = None].pc = "rebuild"
  BY <1>1 DEF OpStates
<1>5. cfg' \in Configs
  BY <1>1 DEF Apply, TypeOK
<1>6. QED
  BY <1>2, <1>3, <1>4, <1>5, MoveType
  DEF TypeOK, Apply, plugins, agg, history, PluginMaps

LEMMA WatchType == ASSUME TypeOK, Watch PROVE TypeOK'
<1>1. [pc |-> "apply", seen |-> file, left |-> 1] \in OpStates
  BY DEF TypeOK, OpStates
<1>2. Watcher \in Actors
  BY DEF Actors
<1>3. QED
  BY <1>1, <1>2, MoveType DEF TypeOK, Watch, plugins, agg, history, PluginMaps

\* A call of syncPlugins, from the change that asks for it to the new plugin vendors.
LEMMA PluginChangesType == ASSUME TypeOK, NEW p \in Plugins, PluginChanges(p) PROVE TypeOK'
<1>1. p \in Actors /\ op[p] \in OpStates
  BY DEF Actors, TypeOK
<1>2. [op[p] EXCEPT !.pc = "read"] \in OpStates /\ [op[p] EXCEPT !.pc = "read"].pc = "read"
  BY <1>1 DEF OpStates
<1>3. op' = [op EXCEPT ![p] = [op[p] EXCEPT !.pc = "read"]]
  BY DEF PluginChanges, TypeOK
<1>4. count.changes \in Nat /\ count' \in [saves : Nat, changes : Nat, faults : Nat, lists : Nat]
  BY DEF TypeOK, PluginChanges
<1>5. running' \in PluginMaps
  BY <1>4 DEF TypeOK, PluginChanges, PluginMaps
<1>6. QED
  BY <1>1, <1>2, <1>3, <1>4, <1>5, MoveType
  DEF TypeOK, PluginChanges, settings, agg, history, PluginMaps

LEMMA ModelsReadyType == ASSUME TypeOK, ModelsReady PROVE TypeOK'
<1>1. Models \in Actors /\ op[Models] \in OpStates
  BY DEF Actors, TypeOK
<1>2. /\ [op[Models] EXCEPT !.pc = "read"] \in OpStates
      /\ [op[Models] EXCEPT !.pc = "read"].pc = "read"
  BY <1>1 DEF OpStates
<1>3. op' = [op EXCEPT ![Models] = [op[Models] EXCEPT !.pc = "read"]]
  BY DEF ModelsReady, TypeOK
<1>4. count' \in [saves : Nat, changes : Nat, faults : Nat, lists : Nat]
  BY DEF TypeOK, ModelsReady
<1>5. QED
  BY <1>1, <1>2, <1>3, <1>4, MoveType
  DEF TypeOK, ModelsReady, settings, plugins, agg, history, PluginMaps

LEMMA SyncReadType == ASSUME TypeOK, NEW a \in Actors, SyncRead(a) PROVE TypeOK'
<1>1. op[a] \in OpStates /\ running \in PluginMaps
  BY DEF TypeOK, PluginMaps
<1>2. /\ [op[a] EXCEPT !.pc = "sign", !.seen = running] \in OpStates
      /\ [op[a] EXCEPT !.pc = "sign", !.seen = running].pc = "sign"
      /\ [op[a] EXCEPT !.pc = "sign", !.seen = running].seen = running
  BY <1>1 DEF OpStates, PluginMaps
<1>3. op' = [op EXCEPT ![a] = [op[a] EXCEPT !.pc = "sign", !.seen = running]]
  BY DEF SyncRead, TypeOK
<1>4. QED
  BY <1>1, <1>2, <1>3, MoveType
  DEF TypeOK, SyncRead, settings, plugins, agg, history, PluginMaps

LEMMA SyncSignType == ASSUME TypeOK, NEW a \in Actors, SyncSign(a) PROVE TypeOK'
<1>1. op[a] \in OpStates /\ op[a].seen \in PluginMaps
  BY DEF SyncSign, At, TypeOK, PluginMaps
<1>2. /\ op' \in [Actors -> OpStates]
      /\ \A b \in Actors :
           /\ op'[b].pc \in {"save", "apply", "replace"} => op'[b].seen \in Configs
           /\ op'[b].pc \in {"sign", "store"} => op'[b].seen \in PluginMaps
  <2>1. CASE op[a].seen = sig
    BY <2>1, FinishType DEF SyncSign
  <2>2. CASE op[a].seen # sig
    <3>1. /\ [op[a] EXCEPT !.pc = "store"] \in OpStates
          /\ [op[a] EXCEPT !.pc = "store"].pc = "store"
          /\ [op[a] EXCEPT !.pc = "store"].seen = op[a].seen
      BY <1>1 DEF OpStates
    <3>2. op' = [op EXCEPT ![a] = [op[a] EXCEPT !.pc = "store"]]
      BY <2>2 DEF SyncSign, TypeOK
    <3>3. QED
      BY <1>1, <3>1, <3>2, MoveType
  <2>3. QED
    BY <2>1, <2>2
<1>3. QED
  BY <1>1, <1>2 DEF TypeOK, SyncSign, settings, agg, history, PluginMaps

LEMMA SyncStoreType == ASSUME TypeOK, NEW a \in Actors, SyncStore(a) PROVE TypeOK'
<1>1. op[a] \in OpStates /\ op[a].seen \in PluginMaps
  BY DEF SyncStore, At, TypeOK, PluginMaps
<1>2. /\ [op[a] EXCEPT !.pc = "rebuild", !.seen = None] \in OpStates
      /\ [op[a] EXCEPT !.pc = "rebuild", !.seen = None].pc = "rebuild"
  BY <1>1 DEF OpStates
<1>3. op' = [op EXCEPT ![a] = [op[a] EXCEPT !.pc = "rebuild", !.seen = None]]
  BY DEF SyncStore, TypeOK
<1>4. QED
  BY <1>1, <1>2, <1>3, MoveType
  DEF TypeOK, SyncStore, settings, agg, history, PluginMaps

\* A rebuild of the vendors.
LEMMA RebuildReadType == ASSUME TypeOK, NEW a \in Actors, RebuildRead(a) PROVE TypeOK'
<1>1. op[a] \in OpStates /\ cfg \in Configs
  BY DEF TypeOK
<1>2. /\ [op[a] EXCEPT !.pc = "replace", !.seen = cfg] \in OpStates
      /\ [op[a] EXCEPT !.pc = "replace", !.seen = cfg].pc = "replace"
      /\ [op[a] EXCEPT !.pc = "replace", !.seen = cfg].seen = cfg
  BY <1>1 DEF OpStates
<1>3. op' = [op EXCEPT ![a] = [op[a] EXCEPT !.pc = "replace", !.seen = cfg]]
  BY DEF RebuildRead, TypeOK
<1>4. QED
  BY <1>1, <1>2, <1>3, MoveType
  DEF TypeOK, RebuildRead, settings, plugins, agg, history, PluginMaps

LEMMA RebuildReplaceType == ASSUME TypeOK, NEW a \in Actors, RebuildReplace(a) PROVE TypeOK'
<1> DEFINE new == Join(Enabled(op[a].seen), plug)
<1>1. new \in Lists
  BY JoinType DEF RebuildReplace, At, TypeOK, PluginMaps
<1>2. /\ vendors' = new
      /\ lastGood' = Only(lastGood, Registered(new))
      /\ catalog' = Only(lastGood, Registered(new))
      /\ got' = got \cap Registered(new) /\ earned' = earned \cap Registered(new)
      /\ Finish(a)
  BY DEF RebuildReplace, ReplaceAll
<1> HIDE DEF new
<1>3. {vendors', lastGood', catalog'} \subseteq Lists
  BY <1>1, <1>2, OnlyType DEF TypeOK
<1>4. QED
  BY <1>2, <1>3, FinishType DEF TypeOK, RebuildReplace, settings, plugins, PluginMaps

\* A refresh of the catalogue.
LEMMA RefreshBeginType == ASSUME TypeOK, RefreshBegin PROVE TypeOK'
<1>1. refresh' \in RefreshStates
  BY NoVendorsType DEF TypeOK, RefreshBegin, RefreshStates, Registered
<1>2. QED
  BY <1>1 DEF TypeOK, RefreshBegin, settings, plugins, agg

LEMMA FetchOkType == ASSUME TypeOK, NEW i \in Ids, FetchOk(i) PROVE TypeOK'
<1>1. refresh.snap[i] \in Nat \cup {None} /\ refresh.parts \in Lists
  BY DEF TypeOK, RefreshStates, Lists
<1>2. lastGood' \in Lists /\ [refresh.parts EXCEPT ![i] = refresh.snap[i]] \in Lists
  BY <1>1 DEF TypeOK, FetchOk, Lists
<1>3. refresh' \in RefreshStates
  BY <1>2 DEF TypeOK, FetchOk, RefreshStates
<1>4. QED
  BY <1>2, <1>3 DEF TypeOK, FetchOk, settings, plugins

LEMMA FetchFailsType == ASSUME TypeOK, NEW i \in Ids, FetchFails(i) PROVE TypeOK'
<1>1. lastGood[i] \in Nat \cup {None} /\ refresh.parts \in Lists
  BY DEF TypeOK, RefreshStates, Lists
<1>2. [refresh.parts EXCEPT ![i] = lastGood[i]] \in Lists
  BY <1>1 DEF Lists
<1>3. refresh' \in RefreshStates
  BY <1>2 DEF TypeOK, FetchFails, RefreshStates
<1>4. count' \in [saves : Nat, changes : Nat, faults : Nat, lists : Nat]
  BY DEF TypeOK, FetchFails
<1>5. QED
  BY <1>3, <1>4 DEF TypeOK, FetchFails, settings, plugins, agg, history

LEMMA RefreshEndType == ASSUME TypeOK, RefreshEnd PROVE TypeOK'
<1>1. refresh.parts \in Lists
  BY DEF TypeOK, RefreshStates
<1>2. refresh' \in RefreshStates
  BY NoVendorsType DEF TypeOK, RefreshEnd, NoRefresh, RefreshStates
<1>3. QED
  BY <1>1, <1>2 DEF TypeOK, RefreshEnd, settings, plugins

LEMMA PublishType == ASSUME TypeOK, Publish PROVE TypeOK'
<1>1. refresh' \in RefreshStates
  BY NoVendorsType DEF TypeOK, Publish, NoRefresh, RefreshStates
<1>2. QED
  BY <1>1 DEF TypeOK, Publish, settings, plugins, agg, history

LEMMA TypeStep == TypeOK /\ [Next]_vars => TypeOK'
<1> SUFFICES ASSUME TypeOK, [Next]_vars PROVE TypeOK'
  OBVIOUS
<1>1. ASSUME NEW a \in Savers, Load(a) PROVE TypeOK'
  BY <1>1, LoadType DEF Actors
<1>2. ASSUME NEW p \in Plugins, PluginChanges(p) PROVE TypeOK'
  BY <1>2, PluginChangesType
<1>3. ASSUME NEW a \in Actors, Move(a) PROVE TypeOK'
  BY <1>3, SaveType, ApplyType, SyncReadType, SyncSignType, SyncStoreType, RebuildReadType,
     RebuildReplaceType DEF Move
<1>4. ASSUME NEW i \in Ids, FetchOk(i) \/ FetchFails(i) PROVE TypeOK'
  BY <1>4, FetchOkType, FetchFailsType
<1>5. CASE ModelsReady \/ Watch \/ RefreshBegin \/ RefreshEnd \/ Publish
  BY <1>5, ModelsReadyType, WatchType, RefreshBeginType, RefreshEndType, PublishType
<1>6. CASE UNCHANGED vars
  BY <1>6 DEF vars, settings, plugins, agg, history, TypeOK
<1>7. QED
  BY <1>1, <1>2, <1>3, <1>4, <1>5, <1>6 DEF Next

\* The variables of the catalogue keep their types: in particular the actors that save or
\* apply a configuration carry one, and those of syncPlugins a signature.
THEOREM TypeCorrect == Spec => []TypeOK
BY TypeInit, TypeStep, PTL DEF Spec

-----------------------------------------------------------------------------
(* Settings and plugins are joined (plugin_vendors.go:82-84).  The mutex   *)
(* lets one rebuild read and replace at a time; a configuration that       *)
(* changes after it was read is joined by the rebuild of whoever changed   *)
(* it, which is then still to come.                                        *)

OneReplaces == \A a, b \in Actors : At(a, "replace") /\ At(b, "replace") => a = b

RedoneIfStale ==
  \A a \in Actors :
    At(a, "replace") /\ op[a].seen # cfg => \E b \in Actors : At(b, "rebuild")

Joined == OneReplaces /\ RedoneIfStale /\ NeitherLosesTheOther

\* Before the first step the vendors are those of the file, and no plugin runs.
LEMMA JoinedInit == Init => Joined
<1> SUFFICES ASSUME Init PROVE Joined
  OBVIOUS
<1>1. \A a \in Actors : op[a].pc = "idle"
  BY DEF Init, Idle
<1>2. vendors = Join(Enabled(cfg), plug)
  BY DEF Init
<1>3. QED
  BY <1>1, <1>2 DEF Joined, OneReplaces, RedoneIfStale, NeitherLosesTheOther, At

\* What touches neither the vendors nor what they are made of, and no rebuild, disturbs
\* nothing; it may ask for a rebuild.
LEMMA JoinedAside ==
  ASSUME Joined, NEW a \in Actors, UNCHANGED <<cfg, plug, vendors>>,
         op[a].pc \notin {"rebuild", "replace"}, op'[a].pc # "replace",
         \A b \in Actors : b # a => op'[b] = op[b]
  PROVE  Joined'
<1>1. \A b \in Actors : op'[b].pc = "replace" => b # a /\ op'[b] = op[b]
  OBVIOUS
<1>2. \A b \in Actors : op[b].pc = "rebuild" => op'[b].pc = "rebuild"
  OBVIOUS
<1>3. OneReplaces' /\ RedoneIfStale'
  BY <1>1, <1>2 DEF Joined, OneReplaces, RedoneIfStale, At
<1>4. Settled' => Settled
  BY DEF Settled
<1>5. Enabled(cfg)' = Enabled(cfg)
  BY DEF Enabled
<1>6. NeitherLosesTheOther'
  BY <1>4, <1>5 DEF Joined, NeitherLosesTheOther, Join
<1>7. QED
  BY <1>3, <1>6 DEF Joined

\* Nor does what leaves the calls alone.
LEMMA JoinedIdle ==
  ASSUME Joined, UNCHANGED <<cfg, plug, vendors, op>>
  PROVE  Joined'
BY DEF Joined, OneReplaces, RedoneIfStale, NeitherLosesTheOther, Settled, At, Enabled, Join

\* Whoever changes a part of the vendors asks for the rebuild that joins it.
LEMMA JoinedAsks ==
  ASSUME Joined, NEW a \in Actors, op[a].pc \notin {"rebuild", "replace"},
         op'[a].pc = "rebuild", \A b \in Actors : b # a => op'[b] = op[b]
  PROVE  Joined'
<1>1. OneReplaces'
  <2>1. \A b \in Actors : op'[b].pc = "replace" => op[b].pc = "replace"
    OBVIOUS
  <2>2. QED
    BY <2>1 DEF Joined, OneReplaces, At
<1>2. RedoneIfStale' /\ ~Settled'
  BY DEF RedoneIfStale, Settled, At
<1>3. QED
  BY <1>1, <1>2 DEF Joined, NeitherLosesTheOther

\* A rebuild reads the configuration when no other is under way, ...
LEMMA JoinedRead == ASSUME TypeOK, Joined, NEW a \in Actors, RebuildRead(a) PROVE Joined'
<1>1. /\ \A b \in Actors : op[b].pc # "replace"
      /\ op'[a].pc = "replace" /\ op'[a].seen = cfg /\ cfg' = cfg
      /\ \A b \in Actors : b # a => op'[b] = op[b]
  BY DEF RebuildRead, Rebuilding, At, TypeOK, OpStates, settings
<1>2. OneReplaces' /\ RedoneIfStale' /\ ~Settled'
  BY <1>1 DEF OneReplaces, RedoneIfStale, Settled, At
<1>3. QED
  BY <1>2 DEF Joined, NeitherLosesTheOther

\* ... and if nothing is left to rebuild afterwards, what it read is what there still is.
LEMMA JoinedReplace == ASSUME TypeOK, Joined, NEW a \in Actors, RebuildReplace(a) PROVE Joined'
<1>1. /\ op[a].pc = "replace" /\ cfg' = cfg /\ plug' = plug
      /\ vendors' = Join(Enabled(op[a].seen), plug)
  BY DEF RebuildReplace, ReplaceAll, At, settings, plugins
<1>2. /\ op'[a].pc \in {"idle", "rebuild"}
      /\ \A b \in Actors : b # a => op'[b] = op[b]
  BY FinishKeeps DEF RebuildReplace, TypeOK
<1>3. \A b \in Actors : op'[b].pc # "replace"
  BY <1>1, <1>2 DEF Joined, OneReplaces, At
<1>4. NeitherLosesTheOther'
  <2> SUFFICES ASSUME Settled' PROVE vendors' = Join(Enabled(cfg'), plug')
    BY DEF NeitherLosesTheOther, Join, Enabled
  <2>1. \A b \in Actors : op[b].pc # "rebuild"
    BY <1>1, <1>2 DEF Settled
  <2>2. op[a].seen = cfg
    BY <1>1, <2>1 DEF Joined, RedoneIfStale, At
  <2>3. QED
    BY <1>1, <2>2
<1>5. QED
  BY <1>3, <1>4 DEF Joined, OneReplaces, RedoneIfStale, At

LEMMA JoinedStep == TypeOK /\ Joined /\ [Next]_vars => Joined'
<1> SUFFICES ASSUME TypeOK, Joined, [Next]_vars PROVE Joined'
  OBVIOUS
<1>1. ASSUME NEW a \in Savers, Load(a) PROVE Joined'
  BY <1>1, JoinedAside DEF Load, At, Actors, TypeOK, settings, plugins, agg
<1>2. ASSUME NEW p \in Plugins, PluginChanges(p) PROVE Joined'
  BY <1>2, JoinedAside DEF PluginChanges, At, Actors, TypeOK, OpStates, settings, agg
<1>3. ASSUME NEW a \in Actors, Save(a) PROVE Joined'
  <2>1. PICK form \in Forms :
          op' = [op EXCEPT ![a] = IF role = "panel"
                                  THEN [pc |-> "apply", seen |-> KeepKeys(form, op[a].seen),
                                        left |-> 2]
                                  ELSE Idle]
    BY <1>3 DEF Save
  <2>2. op'[a].pc \in {"apply", "idle"} /\ \A b \in Actors : b # a => op'[b] = op[b]
    BY <2>1 DEF TypeOK, Idle
  <2>3. op[a].pc = "save" /\ UNCHANGED <<cfg, plug, vendors>>
    BY <1>3 DEF Save, At, plugins, agg
  <2>4. QED
    BY <2>2, <2>3, JoinedAside
<1>4. ASSUME NEW a \in Actors, Apply(a) \/ SyncStore(a) PROVE Joined'
  BY <1>4, JoinedAsks DEF Apply, SyncStore, At, TypeOK, OpStates
<1>5. ASSUME NEW a \in Actors, SyncRead(a) PROVE Joined'
  BY <1>5, JoinedAside DEF SyncRead, At, TypeOK, OpStates, settings, plugins, agg
<1>6. ASSUME NEW a \in Actors, SyncSign(a) PROVE Joined'
  <2>1. /\ op[a].pc = "sign" /\ UNCHANGED <<cfg, plug, vendors>>
        /\ op'[a].pc # "replace" /\ \A b \in Actors : b # a => op'[b] = op[b]
    BY <1>6, FinishKeeps DEF SyncSign, At, TypeOK, OpStates, settings, agg
  <2>2. QED
    BY <2>1, JoinedAside
<1>7. ASSUME NEW a \in Actors, RebuildRead(a) \/ RebuildReplace(a) PROVE Joined'
  BY <1>7, JoinedRead, JoinedReplace
<1>8. CASE ModelsReady
  BY <1>8, JoinedAside DEF ModelsReady, At, Actors, TypeOK, OpStates, settings, plugins, agg
<1>9. CASE Watch
  BY <1>9, JoinedAside DEF Watch, At, Actors, TypeOK, plugins, agg
<1>10. CASE RefreshBegin \/ RefreshEnd \/ Publish
  BY <1>10, JoinedIdle DEF RefreshBegin, RefreshEnd, Publish, settings, plugins, agg
<1>11. ASSUME NEW i \in Ids, FetchOk(i) \/ FetchFails(i) PROVE Joined'
  BY <1>11, JoinedIdle DEF FetchOk, FetchFails, settings, plugins, agg
<1>12. CASE UNCHANGED vars
  BY <1>12, JoinedIdle DEF vars, settings, plugins, agg
<1>13. QED
  BY <1>1, <1>2, <1>3, <1>4, <1>5, <1>6, <1>7, <1>8, <1>9, <1>10, <1>11, <1>12
  DEF Next, Move

\* plugin_vendors.go:82-84: neither a save nor a change of plugins loses the vendors of the
\* other, however they cross.
THEOREM VendorsJoined == Spec => []NeitherLosesTheOther
<1>1. Init => TypeOK /\ Joined
  BY TypeInit, JoinedInit
<1>2. TypeOK /\ Joined /\ [Next]_vars => (TypeOK /\ Joined)'
  BY TypeStep, JoinedStep
<1>3. TypeOK /\ Joined => NeitherLosesTheOther
  BY DEF Joined
<1>4. QED
  BY <1>1, <1>2, <1>3, PTL DEF Spec

-----------------------------------------------------------------------------
(* What was fetched stays (aggregator.go:21-24).  A vendor whose models    *)
(* were fetched while it is registered is in lastGood, from which a failed *)
(* request and a rebuild of the vendors take them again; while a refresh   *)
(* is under way it is still to be asked or already in the new catalogue.   *)

Remembered ==
  /\ earned \cup got \subseteq Registered(vendors) \cap Registered(lastGood)
  /\ KeepsItsModels

Fetching ==
  /\ refresh.pc # "fetch" => refresh.todo = {}
  /\ refresh.todo \subseteq Registered(refresh.snap)
  /\ refresh.pc = "fetch" =>
       earned \cup got \subseteq refresh.todo \cup Registered(refresh.parts)

Kept == Remembered /\ Fetching

LEMMA KeptInit == Init => Kept
BY NoVendorsType
DEF Init, Kept, Remembered, Fetching, KeepsItsModels, NoRefresh

\* Only ReplaceAll and the refresh touch what the invariant is about.
LEMMA KeptAside ==
  ASSUME Kept, UNCHANGED <<agg, refresh, history>>
  PROVE  Kept'
BY DEF Kept, Remembered, Fetching, KeepsItsModels, Registered, agg, history

\* ReplaceAll forgets a vendor in all three places at once.
LEMMA KeptReplace == ASSUME Kept, NEW a \in Actors, RebuildReplace(a) PROVE Kept'
<1> DEFINE new == Join(Enabled(op[a].seen), plug)
<1>1. /\ vendors' = new
      /\ lastGood' = Only(lastGood, Registered(new))
      /\ catalog' = Only(lastGood, Registered(new))
      /\ got' = got \cap Registered(new) /\ earned' = earned \cap Registered(new)
      /\ refresh' = refresh
  BY DEF RebuildReplace, ReplaceAll
<1> HIDE DEF new
<1>2. /\ Registered(lastGood') = Registered(lastGood) \cap Registered(new)
      /\ Registered(catalog') = Registered(lastGood) \cap Registered(new)
  BY <1>1, OnlyRegistered
<1>3. Remembered'
  BY <1>1, <1>2 DEF Kept, Remembered, KeepsItsModels, Registered
<1>4. Fetching'
  BY <1>1 DEF Kept, Fetching, Registered
<1>5. QED
  BY <1>3, <1>4 DEF Kept

\* A refresh starts with all that is registered, and so with all that was fetched before.
LEMMA KeptBegin == ASSUME TypeOK, Kept, RefreshBegin PROVE Kept'
<1>1. /\ refresh'.pc = "fetch" /\ refresh'.todo = Registered(vendors)
      /\ refresh'.snap = vendors /\ got' = {} /\ earned' = earned
      /\ UNCHANGED <<vendors, lastGood, catalog>>
  BY DEF RefreshBegin, agg
<1>2. Remembered'
  BY <1>1 DEF Kept, Remembered, KeepsItsModels, Registered
<1>3. Fetching'
  BY <1>1 DEF Kept, Remembered, Fetching, Registered
<1>4. QED
  BY <1>2, <1>3 DEF Kept

\* An answer is taken into lastGood and into the new catalogue; a failure takes what
\* lastGood has.
LEMMA KeptFetchOk == ASSUME TypeOK, Kept, NEW i \in Ids, FetchOk(i) PROVE Kept'
<1>1. i \in refresh.todo /\ refresh.snap[i] # None /\ refresh.pc = "fetch"
  BY DEF FetchOk, Kept, Fetching, Registered
<1>2. /\ lastGood' = [lastGood EXCEPT ![i] = refresh.snap[i]]
      /\ refresh'.pc = "fetch" /\ refresh'.snap = refresh.snap
      /\ refresh'.todo = refresh.todo \ {i}
      /\ refresh'.parts = [refresh.parts EXCEPT ![i] = refresh.snap[i]]
      /\ got' \subseteq got \cup {i}
      /\ i \notin Registered(vendors) => got' = got
      /\ UNCHANGED <<vendors, catalog, earned>>
  BY <1>1 DEF FetchOk, TypeOK, RefreshStates
<1>3. Registered(lastGood') = Registered(lastGood) \cup {i}
  BY <1>1, <1>2 DEF TypeOK, Lists, Registered
<1>4. Registered(refresh'.parts) = Registered(refresh.parts) \cup {i}
  BY <1>1, <1>2 DEF TypeOK, RefreshStates, Lists, Registered
<1>5. Remembered'
  BY <1>2, <1>3 DEF Kept, Remembered, KeepsItsModels, Registered
<1>6. Fetching'
  BY <1>1, <1>2, <1>4 DEF Kept, Fetching, Registered
<1>7. QED
  BY <1>5, <1>6 DEF Kept

LEMMA KeptFetchFails == ASSUME TypeOK, Kept, NEW i \in Ids, FetchFails(i) PROVE Kept'
<1>1. i \in refresh.todo /\ refresh.pc = "fetch"
  BY DEF FetchFails, Kept, Fetching
<1>2. /\ refresh'.pc = "fetch" /\ refresh'.snap = refresh.snap
      /\ refresh'.todo = refresh.todo \ {i}
      /\ refresh'.parts = [refresh.parts EXCEPT ![i] = lastGood[i]]
      /\ UNCHANGED <<vendors, lastGood, catalog, got, earned>>
  BY <1>1 DEF FetchFails, TypeOK, RefreshStates, agg, history
<1>3. /\ Registered(refresh.parts) \ {i} \subseteq Registered(refresh'.parts)
      /\ i \in Registered(lastGood) => i \in Registered(refresh'.parts)
  BY <1>2 DEF TypeOK, RefreshStates, Lists, Registered
<1>4. Remembered'
  BY <1>2 DEF Kept, Remembered, KeepsItsModels, Registered
<1>5. Fetching'
  BY <1>1, <1>2, <1>3 DEF Kept, Remembered, Fetching, Registered
<1>6. QED
  BY <1>4, <1>5 DEF Kept

\* When all were asked the new catalogue has what was fetched now and before.
LEMMA KeptEnd == ASSUME TypeOK, Kept, RefreshEnd PROVE Kept'
<1>1. /\ refresh.pc = "fetch" /\ refresh.todo = {} /\ catalog' = refresh.parts
      /\ refresh'.pc = "publish" /\ refresh'.todo = {} /\ refresh'.snap = NoVendors
      /\ earned' = earned \cup got
      /\ UNCHANGED <<vendors, lastGood, got>>
  BY DEF RefreshEnd, NoRefresh
<1>2. earned \cup got \subseteq Registered(refresh.parts)
  BY <1>1 DEF Kept, Fetching
<1>3. Remembered'
  BY <1>1, <1>2 DEF Kept, Remembered, KeepsItsModels, Registered
<1>4. Fetching'
  BY <1>1 DEF Fetching
<1>5. QED
  BY <1>3, <1>4 DEF Kept

LEMMA KeptPublish == ASSUME Kept, Publish PROVE Kept'
<1>1. /\ refresh'.pc = "idle" /\ refresh'.todo = {} /\ UNCHANGED <<agg, history>>
  BY DEF Publish, NoRefresh
<1>2. QED
  BY <1>1 DEF Kept, Remembered, Fetching, KeepsItsModels, Registered, agg, history

LEMMA KeptStep == TypeOK /\ Kept /\ [Next]_vars => Kept'
<1> SUFFICES ASSUME TypeOK, Kept, [Next]_vars PROVE Kept'
  OBVIOUS
<1>1. ASSUME NEW a \in Savers, Load(a) PROVE Kept'
  BY <1>1, KeptAside DEF Load
<1>2. ASSUME NEW p \in Plugins, PluginChanges(p) PROVE Kept'
  BY <1>2, KeptAside DEF PluginChanges
<1>3. ASSUME NEW a \in Actors, Save(a) \/ Apply(a) PROVE Kept'
  BY <1>3, KeptAside DEF Save, Apply
<1>4. ASSUME NEW a \in Actors, SyncRead(a) \/ SyncSign(a) \/ SyncStore(a) PROVE Kept'
  BY <1>4, KeptAside DEF SyncRead, SyncSign, SyncStore
<1>5. ASSUME NEW a \in Actors, RebuildRead(a) PROVE Kept'
  BY <1>5, KeptAside DEF RebuildRead
<1>6. ASSUME NEW a \in Actors, RebuildReplace(a) PROVE Kept'
  BY <1>6, KeptReplace
<1>7. CASE ModelsReady \/ Watch
  BY <1>7, KeptAside DEF ModelsReady, Watch
<1>8. CASE RefreshBegin \/ RefreshEnd \/ Publish
  BY <1>8, KeptBegin, KeptEnd, KeptPublish
<1>9. ASSUME NEW i \in Ids, FetchOk(i) \/ FetchFails(i) PROVE Kept'
  BY <1>9, KeptFetchOk, KeptFetchFails
<1>10. CASE UNCHANGED vars
  BY <1>10, KeptAside DEF vars
<1>11. QED
  BY <1>1, <1>2, <1>3, <1>4, <1>5, <1>6, <1>7, <1>8, <1>9, <1>10 DEF Next, Move

\* aggregator.go:21-24: the models that were fetched of a source stay in the catalogue for
\* as long as the source is registered, through rebuilds and failed requests.
THEOREM ModelsKept == Spec => []KeepsItsModels
<1>1. Init => TypeOK /\ Kept
  BY TypeInit, KeptInit
<1>2. TypeOK /\ Kept /\ [Next]_vars => (TypeOK /\ Kept)'
  BY TypeStep, KeptStep
<1>3. TypeOK /\ Kept => KeepsItsModels
  BY DEF Kept, Remembered
<1>4. QED
  BY <1>1, <1>2, <1>3, PTL DEF Spec
=============================================================================
