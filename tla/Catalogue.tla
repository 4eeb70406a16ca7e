----------------------------- MODULE Catalogue ------------------------------
(***************************************************************************)
(* The model catalogue of a process: which vendors (custom sources and     *)
(* plugins) are registered with its aggregator, what they last answered,   *)
(* and the list that /v1/models shows.  core/aggregator/aggregator.go,     *)
(* plugin_vendors.go, custom_providers.go, config.go, models_source.go,    *)
(* core/router/router.go.                                                  *)
(*                                                                         *)
(* Two processes share config.json and each keeps a catalogue of its own:  *)
(* the panel's process, whose handler saves the custom sources, and the    *)
(* provider service, which runs the plugins and serves the models.  role   *)
(* says which of the two the module describes.                             *)
(***************************************************************************)
EXTENDS Naturals, FiniteSets

CONSTANTS
  Sources,      \* ids of custom sources
  Plugins,      \* ids of plugins; each has a supervisor goroutine
  Savers,       \* requests that save the custom sources
  Forced,       \* routing.model_provider_map: the vendor that a name is forced to
  Default,      \* routing.default_provider, or None
  MaxSaves,     \* bound on saves
  MaxChanges,   \* bound on starts and stops of plugins
  MaxFaults,    \* bound on failed requests for a model list
  None

ASSUME CatalogueAssumption ==
  /\ MaxSaves \in Nat /\ MaxChanges \in Nat /\ MaxFaults \in Nat
  /\ Sources \cap Plugins = {}
  /\ None \notin Sources \cup Plugins
  /\ Default \in Sources \cup Plugins \cup {None}
  /\ DOMAIN Forced \subseteq Sources \cup Plugins \cup {None}
  /\ Forced \in [DOMAIN Forced -> Sources \cup Plugins]

Ids == Sources \cup Plugins
Watcher == "watcher"    \* the goroutine of startConfigWatcher
Models == "models"      \* the plugins' callback that model lists are ready
Actors == Savers \cup Plugins \cup {Watcher, Models}

Keys == {0, 1}                                     \* 0: no key
Entry == [keys : Keys, on : BOOLEAN] \cup {None}   \* a source in config.json
Configs == [Sources -> Entry]
Lists == [Ids -> Nat \cup {None}]                  \* per vendor: None or which revision

VARIABLES
  role,       \* "service" or "panel"
  file,       \* providers in config.json
  watched,    \* lastData of the watcher
  cfg,        \* providersCfg
  running,    \* the plugins that run, and which start of each
  sig,        \* lastPluginSig
  plug,       \* pluginVendors
  vendors,    \* Aggregator.vendors
  lastGood,   \* Aggregator.lastGood
  catalog,    \* Aggregator.catalog
  cache,      \* modelsCache
  op,         \* op[a]: the call of a in progress
  refresh,    \* the refresh that holds catalogRefreshMu
  count,      \* bounds used up so far
  got, earned \* history: fetched during this refresh; shown since; both while registered

settings == <<file, watched, cfg>>
plugins == <<running, sig, plug>>
agg == <<vendors, lastGood, catalog>>
history == <<got, earned>>
vars == <<role, settings, plugins, agg, cache, op, refresh, count, history>>

NoSources == [s \in Sources |-> None]
NoVendors == [i \in Ids |-> None]
Stopped == [p \in Plugins |-> None]
Idle == [pc |-> "idle", seen |-> None, left |-> 0]
NoRefresh == [pc |-> "idle", todo |-> {}, snap |-> NoVendors, parts |-> NoVendors]
Registered(v) == {i \in Ids : v[i] # None}

\* What newAggregator and rebuildVendors make of a configuration: a vendor for each
\* entry that is not disabled.
Enabled(c) == [s \in Sources |-> IF c[s] # None /\ c[s].on THEN c[s].keys ELSE None]
Join(c, p) == [i \in Ids |-> IF i \in Sources THEN c[i] ELSE p[i]]

Init ==
  /\ role \in {"service", "panel"}
  /\ file \in {NoSources, [s \in Sources |-> [keys |-> 1, on |-> TRUE]]}
  /\ watched = file /\ cfg = file
  /\ running = Stopped /\ sig = Stopped /\ plug = Stopped
  /\ vendors = Join(Enabled(cfg), Stopped)
  /\ lastGood = NoVendors /\ catalog = NoVendors /\ cache = NoVendors
  /\ op = [a \in Actors |-> Idle]
  /\ refresh = NoRefresh
  /\ count = [saves |-> 0, changes |-> 0, faults |-> 0, lists |-> 0]
  /\ got = {} /\ earned = {}

At(a, pc) == op[a].pc = pc

-----------------------------------------------------------------------------
(* Saving the custom sources: applyCustomProvidersSave.                    *)

\* The form holds the whole table; keys left empty keep the old ones.
Forms == [Sources -> [keys : Keys, on : BOOLEAN] \cup {None}]

Load(a) ==
  /\ At(a, "idle") /\ count.saves < MaxSaves
  /\ count' = [count EXCEPT !.saves = @ + 1]
  /\ op' = [op EXCEPT ![a] = [pc |-> "save", seen |-> file, left |-> 0]]
  /\ UNCHANGED <<role, settings, plugins, agg, cache, refresh, history>>

KeepKeys(form, old) ==
  [s \in Sources |-> IF form[s] # None /\ form[s].keys = 0 /\ old[s] # None
                     THEN [form[s] EXCEPT !.keys = old[s].keys]
                     ELSE form[s]]

\* The service's process has no saves of its own: for it the saver is another process.
Save(a) ==
  /\ At(a, "save")
  /\ \E form \in Forms :
       LET new == KeepKeys(form, op[a].seen)
       IN
         /\ file' = new
         /\ op' = [op EXCEPT ![a] = IF role = "panel"
                                    THEN [pc |-> "apply", seen |-> new, left |-> 2]
                                    ELSE Idle]
  /\ UNCHANGED <<role, watched, cfg, plugins, agg, cache, refresh, count, history>>

\* applyConfig; an empty list of providers is nil, and leaves providersCfg alone.
Apply(a) ==
  /\ At(a, "apply")
  /\ cfg' = IF op[a].seen = NoSources THEN cfg ELSE op[a].seen
  /\ op' = [op EXCEPT ![a].pc = "rebuild", ![a].seen = None]
  /\ UNCHANGED <<role, file, watched, plugins, agg, cache, refresh, count, history>>

\* Every three seconds: the file is compared with what was read last.
Watch ==
  /\ At(Watcher, "idle") /\ file # watched
  /\ watched' = file
  /\ op' = [op EXCEPT ![Watcher] = [pc |-> "apply", seen |-> file, left |-> 1]]
  /\ UNCHANGED <<role, file, cfg, plugins, agg, cache, refresh, count, history>>

-----------------------------------------------------------------------------
(* Plugins: syncPlugins, called by each supervisor at a change.            *)

PluginChanges(p) ==
  /\ role = "service" /\ At(p, "idle") /\ count.changes < MaxChanges
  /\ count' = [count EXCEPT !.changes = @ + 1]
  /\ running' = [running EXCEPT ![p] = IF @ = None THEN count.changes ELSE None]
  /\ op' = [op EXCEPT ![p].pc = "read"]
  /\ UNCHANGED <<role, settings, sig, plug, agg, cache, refresh, history>>

\* Some plugins' model lists are ready: onPluginModelRefresh.
ModelsReady ==
  /\ role = "service" /\ At(Models, "idle") /\ running # Stopped /\ count.lists = 0
  /\ count' = [count EXCEPT !.lists = @ + 1]
  /\ op' = [op EXCEPT ![Models].pc = "read"]
  /\ UNCHANGED <<role, settings, plugins, agg, cache, refresh, history>>

\* What an actor's call goes on with when its rebuild or sync is over; savers and Models
\* then ask for a refresh, which RefreshBegin does at any time.
Finish(a) ==
  op' = IF op[a].left > 1 THEN [op EXCEPT ![a].pc = "rebuild", ![a].left = @ - 1]
                          ELSE [op EXCEPT ![a] = Idle]

SyncRead(a) ==
  /\ At(a, "read")
  /\ op' = [op EXCEPT ![a].pc = "sign", ![a].seen = running]
  /\ UNCHANGED <<role, settings, plugins, agg, cache, refresh, count, history>>

\* Under pluginSigMu: the same signature as the last one ends the call.
SyncSign(a) ==
  /\ At(a, "sign")
  /\ sig' = op[a].seen
  /\ IF op[a].seen = sig
     THEN Finish(a)
     ELSE op' = [op EXCEPT ![a].pc = "store"]
  /\ UNCHANGED <<role, settings, running, plug, agg, cache, refresh, count, history>>

SyncStore(a) ==
  /\ At(a, "store")
  /\ plug' = op[a].seen
  /\ op' = [op EXCEPT ![a].pc = "rebuild", ![a].seen = None]
  /\ UNCHANGED <<role, settings, running, sig, agg, cache, refresh, count, history>>

-----------------------------------------------------------------------------
(* rebuildVendors: under rebuildVendorsMu.                                 *)

Rebuilding == \E a \in Actors : At(a, "replace")

\* Mutant: rebuilds are not kept apart.
RebuildReadAnyTime(a) ==
  /\ At(a, "rebuild")
  /\ op' = [op EXCEPT ![a].pc = "replace", ![a].seen = cfg]
  /\ UNCHANGED <<role, settings, plugins, agg, cache, refresh, count, history>>

RebuildRead(a) ==
  /\ At(a, "rebuild") /\ ~Rebuilding
  /\ op' = [op EXCEPT ![a].pc = "replace", ![a].seen = cfg]
  /\ UNCHANGED <<role, settings, plugins, agg, cache, refresh, count, history>>

Only(list, ids) == [i \in Ids |-> IF i \in ids THEN list[i] ELSE None]

\* Mutant: the catalogue is emptied until the next refresh.
ReplaceAllClears(new) ==
  /\ vendors' = new
  /\ lastGood' = Only(lastGood, Registered(new))
  /\ catalog' = NoVendors
  /\ got' = got \cap Registered(new) /\ earned' = earned \cap Registered(new)

\* Aggregator.ReplaceAll: what the vendors still registered answered last.
ReplaceAll(new) ==
  /\ vendors' = new
  /\ lastGood' = Only(lastGood, Registered(new))
  /\ catalog' = Only(lastGood, Registered(new))
  /\ got' = got \cap Registered(new) /\ earned' = earned \cap Registered(new)

RebuildReplace(a) ==
  /\ At(a, "replace")
  /\ ReplaceAll(Join(Enabled(op[a].seen), plug))
  /\ Finish(a)
  /\ UNCHANGED <<role, settings, plugins, cache, refresh, count>>

-----------------------------------------------------------------------------
(* Refreshing the catalogue: one call at a time, under catalogRefreshMu.   *)

\* By the timer, after applyConfig, from /v1/models and on demand.  The ten seconds that
\* refreshModelCatalogIfDue leaves after a refresh are time only: a refresh on demand does
\* not wait for them.
RefreshBegin ==
  /\ refresh.pc = "idle"
  /\ refresh' = [pc |-> "fetch", todo |-> Registered(vendors), snap |-> vendors,
                 parts |-> NoVendors]
  /\ got' = {}
  /\ UNCHANGED <<role, settings, plugins, agg, cache, op, count, earned>>

\* The vendor with id i answers, or not; under Aggregator.mu.
FetchOk(i) ==
  /\ i \in refresh.todo
  /\ lastGood' = [lastGood EXCEPT ![i] = refresh.snap[i]]
  /\ refresh' = [refresh EXCEPT !.todo = @ \ {i}, !.parts[i] = refresh.snap[i]]
  /\ got' = IF i \in Registered(vendors) THEN got \cup {i} ELSE got
  /\ UNCHANGED <<role, settings, plugins, vendors, catalog, cache, op, count, earned>>

FetchFails(i) ==
  /\ i \in refresh.todo /\ count.faults < MaxFaults
  /\ count' = [count EXCEPT !.faults = @ + 1]
  /\ refresh' = [refresh EXCEPT !.todo = @ \ {i}, !.parts[i] = lastGood[i]]
  /\ UNCHANGED <<role, settings, plugins, agg, cache, op, history>>

RefreshEnd ==
  /\ refresh.pc = "fetch" /\ refresh.todo = {}
  /\ catalog' = refresh.parts
  /\ refresh' = [NoRefresh EXCEPT !.pc = "publish"]
  /\ earned' = earned \cup got
  /\ UNCHANGED <<role, settings, plugins, vendors, lastGood, cache, op, count, got>>

\* Mutant: the list is published once only.
PublishOnce ==
  /\ refresh.pc = "publish"
  /\ cache' = IF cache # NoVendors THEN cache ELSE catalog
  /\ refresh' = NoRefresh
  /\ UNCHANGED <<role, settings, plugins, agg, op, count, history>>

\* syncModelsFromAggregator: an empty catalogue changes nothing.
Publish ==
  /\ refresh.pc = "publish"
  /\ cache' = IF catalog = NoVendors THEN cache ELSE catalog
  /\ refresh' = NoRefresh
  /\ UNCHANGED <<role, settings, plugins, agg, op, count, history>>

Move(a) ==
  \/ a \in Savers /\ Save(a)
  \/ Apply(a) \/ SyncRead(a) \/ SyncSign(a) \/ SyncStore(a)
  \/ RebuildRead(a) \/ RebuildReplace(a)

Next ==
  \/ \E a \in Savers : Load(a)
  \/ \E p \in Plugins : PluginChanges(p)
  \/ ModelsReady \/ Watch
  \/ \E a \in Actors : Move(a)
  \/ RefreshBegin \/ RefreshEnd \/ Publish
  \/ \E i \in Ids : FetchOk(i) \/ FetchFails(i)

Spec == Init /\ [][Next]_vars

\* Goroutines run on, requests for model lists are answered or time out, and the two
\* tickers, of the watcher and of startModelRefresh, never stop.
Fairness ==
  /\ \A a \in Actors : WF_vars(Move(a))
  /\ WF_vars(Watch)
  /\ WF_vars(RefreshBegin) /\ WF_vars(RefreshEnd) /\ WF_vars(Publish)
  /\ \A i \in Ids : WF_vars(FetchOk(i))

FairSpec == Spec /\ Fairness

-----------------------------------------------------------------------------
(* Router.candidates. A model's name is the vendor that its prefix says,   *)
(* or None for a name without a prefix, which no vendor lists.             *)

\* The vendor the name is forced to and whoever lists the model, if registered; or else
\* the vendor of the prefix, and of a name without one the default vendor.
Candidates(name) ==
  LET forced == {Forced[n] : n \in DOMAIN Forced \cap {name}}
      listed == Registered(catalog) \cap {name}
      found  == (forced \cup listed) \cap Registered(vendors)
      other  == IF name = None THEN Default ELSE name
  IN IF found # {} THEN found ELSE {other} \cap Registered(vendors)

\* The models listModelsHandler shows.
Shown == Registered(cache)

-----------------------------------------------------------------------------
OpStates == [pc : {"idle", "save", "apply", "read", "sign", "store", "rebuild", "replace"},
             seen : Configs \cup [Plugins -> Nat \cup {None}] \cup {None}, left : 0..2]
RefreshStates == [pc : {"idle", "fetch", "publish"}, todo : SUBSET Ids, snap : Lists,
                  parts : Lists]

TypeOK ==
  /\ role \in {"service", "panel"}
  /\ file \in Configs /\ watched \in Configs /\ cfg \in Configs
  /\ {running, sig, plug} \subseteq [Plugins -> Nat \cup {None}]
  /\ {vendors, lastGood, catalog, cache} \subseteq Lists
  /\ op \in [Actors -> OpStates]
  /\ \A a \in Actors :
       /\ op[a].pc \in {"save", "apply", "replace"} => op[a].seen \in Configs
       /\ op[a].pc \in {"sign", "store"} => op[a].seen \in [Plugins -> Nat \cup {None}]
  /\ refresh \in RefreshStates
  /\ count \in [saves : Nat, changes : Nat, faults : Nat, lists : Nat]
  /\ got \subseteq Ids /\ earned \subseteq Ids

Settled == \A a \in Actors : op[a].pc \notin {"rebuild", "replace"}

\* plugin_vendors.go:82-84: settings and plugins are joined in one ReplaceAll, so that
\* neither a save nor a plugin's start or crash, running side by side, loses the vendors of
\* the other: when no rebuild is under way the vendors are those of both.
NeitherLosesTheOther == Settled => vendors = Join(Enabled(cfg), plug)

\* aggregator.go:21-24: a source whose models were fetched stays in the catalogue for as long
\* as it is registered, through failed requests and through rebuilds of the vendors.
KeepsItsModels == earned \subseteq Registered(catalog)

\* When saving is over, the service comes to serve what the file says, and every process
\* comes to show exactly the models of its vendors, each of which the router then sends to
\* its source (alone, if the name is not forced to another vendor), and names without a
\* prefix to a default vendor that is enabled, after whatever rebuilds, refreshes and
\* failures crossed each other. Two exceptions, both in the code: a file without sources is
\* not applied, and a catalogue without models is not shown.
ComesToShowIt ==
  <>[](/\ role = "service" /\ file # NoSources =>
            /\ \A s \in Sources : vendors[s] = Enabled(file)[s]
            /\ /\ None \notin DOMAIN Forced
               /\ Default \in Sources /\ Enabled(file)[Default] # None
                  => Candidates(None) = {Default}
       /\ vendors # NoVendors => cache = vendors
       /\ vendors # NoVendors =>
            \A i \in Shown : /\ i \in Candidates(i)
                             /\ i \notin DOMAIN Forced => Candidates(i) = {i})

\* docs/API.md:101: clearing the sources takes effect at once.  Here: at the latest when the
\* file has been read again and nothing is under way.
\* (The code does not keep to this: README, section 3.)
ClearTakesEffect ==
  (/\ file = NoSources /\ watched = file
   /\ \A a \in Actors : At(a, "idle"))
    => Registered(vendors) \cap Sources = {}

\* plugin_vendors.go:40-42: when the set of running plugins changes the vendors of plugins
\* are made anew.  Here: when no call of syncPlugins is under way they are the running ones.
\* (The code does not keep to this: README, section 3.)
PluginVendorsFollow ==
  (\A a \in Actors : At(a, "idle")) => plug = running
=============================================================================
