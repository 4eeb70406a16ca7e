# opencode2api: formal models

opencode2api is a gateway that offers an OpenAI-compatible API in front of many
vendors. Two Go processes make it up. The *manager* (port 40000) keeps the
configuration and starts and watches child processes: the provider service, the
plugins, an external free-tier engine. The *provider service* (port 50080) is
the gateway proper: it picks a vendor and a key for a request, forwards it and
streams the reply. The modules here model the parts of both whose correctness
depends on the order in which goroutines, processes and messages happen to meet;
TLC checks them on small instances and TLAPS proves the core of them for all.

Paths below are relative to the repository's `src/`. `PROJECT.json` says, for
every definition, which lines it models.

## 1. Inventory

### Plugin supervisor: `core/manager/pluginprovider/manager.go`

One goroutine per plugin (`supervise`) starts the plugin's process, gives it a
one-time token, waits for a ready line on its stdout, and starts it again when it
ends.

* **State.** Per plugin, under `Manager.mu`: `enabled`, `status`, `pid`, the
  one-time auth token, `URL`, the manifest and its error. Per supervisor:
  `retryCh` (one signal), `stopCh`, and per spawn cycle `stdoutCh` (16 lines) and
  `exitCh`. Per manager: the map of plugins, `closed`.
* **Operations.** `spawnAndReadReady`, `handleStdoutLine`, `setStatus`,
  `killCurrent`, `Toggle`, `Delete`, `SaveConfig`, `scan`, `ensurePlugin`,
  `Close`, `Endpoint`, `RunningPlugins`.
* **Hard.** `mu` is released between nearly all steps: the process runs before
  its pid is recorded, a kill takes the pid under the lock and kills after it, a
  state line is judged in one critical section and acted upon in another; exits
  arrive on two channels that race; the one retry signal is drained in several
  places.
* **Correct when** no process is lost or doubled, endpoint and token belong
  together, a supervisor never sleeps through the event it waits for, a disabled
  or closed plugin ends without a process, and an enabled one is served by a live
  child or tried again.

### Plugin state file: the same file, `providers/.plugin-state.json`

Several opencode2api processes may share one directory of plugins and one file
that says which are on.

* **State.** The file; per process `p.enabled`, `m.plugins`, the remembered file
  `m.state`; the locks `stateMu` (whole file) and `toggleMu` (per plugin), which
  reach no further than their process.
* **Operations.** `toggle`, `mergeStateWrite` (read, merge, rename, verify),
  `applyStateChanges` (follow what others wrote), `Delete`, `scan`.
* **Hard.** No lock between processes; a follower kills a process, for seconds,
  between deciding and writing; a rename may fail; watchers may answer each other
  for ever.
* **Correct when** writers of one process never undo each other, following
  overrides nothing by itself, and everybody ends up agreeing with the file.

### Provider service: `core/manager/providerservice.go`

The manager's child process, started and stopped by panel requests and by a
watchdog.

* **State.** `pid`, `spawnPort`, `spawnKey`, `stopped`, `lastTry`, under `p.mu`;
  the settings in the configuration file; the process and its port.
* **Operations.** `Start`, `Stop`, the watchdog's round, the shutdown request.
* **Hard.** The port probe, the start, the shutdown request and the wait are all
  outside the lock; a child outlives a crash of its manager and keeps the port.
* **Correct when** no child is lost except where the code gives none a chance to
  be found, the remembered settings are the child's, and the service comes back.

### Keys of a custom provider: `vendors/custom/keypool.go`, `custom.go`

* **State.** Per key: disabled, three cooling times (429, 401/403, circuit), the
  run of failures; the pool's `rr`; the provider's `affinity` lists.
* **Operations.** `tryAcquirePrefer`, `recordResult`, `cool`, `authFail`, the
  loops `withKeys` and `withKeysStream`, `ListModels`, `probeKeys`, `ResetKeys`.
* **Hard.** A call holds no lock while it waits, so requests, listings, probes
  and restores change the keys under each other's loops.
* **Correct when** a request calls each key once and gives up only when none is
  left, circuits open for real runs of failures, and no key is out for good.

### Streamed requests: `gateway_timeout.go`, `upstream.go`, `chat_handler.go`

* **State.** The pool of stream slots; per request the attempt, the text shown so
  far, the request body, the upstream connection and three timers.
* **Operations.** `tryAcquireStream`/`releaseStream`, the chain of models
  (`callOpenCodeAPIStream`) and of vendors (`callOpenCodeAPIStreamOnce`),
  `streamWithResume`, `NotifyStreamFailure`.
* **Hard.** Every way an upstream can fail, end, fall silent or be abandoned, at
  every point of a reply, over several upstreams in a row.
* **Correct when** the client sees one ending, no text of two answers is joined,
  the budget of reconnections is used fully and never exceeded, and the slot
  comes back.

### Free tier engine and WARP fallback: `core/manager/freetier_engine.go`, `freetier_warp_fallback.go`

An external program that the manager runs as a child. In WARP mode it registers
exits for up to 90 seconds before it listens.

* **State.** `e.pid`; the panel's settings; `warp.enabled` in the engine's own
  file; `m.warpFallback` (strikes, applied); the process and its port.
* **Operations.** Start, Stop, Restart, the watchdog's round with the judgement
  of the pool, the fallback, the panel's requests.
* **Hard.** Nothing keeps Start, Stop and Restart of several goroutines apart; the
  engine outlives the manager; a crash and a registration look the same.
* **Correct when** an enabled engine comes to serve and goes on serving, WARP is
  given up only for a pool found empty round after round, and giving it up takes
  effect.

### Model catalogue, vendors, configuration file: `core/aggregator/aggregator.go`, `plugin_vendors.go`, `custom_providers.go`, `config.go`, `models_source.go`, `core/router/router.go`

* **State.** `config.json`, shared by two processes; per process `providersCfg`,
  `pluginVendors` with `lastPluginSig`, the aggregator's `vendors`, `lastGood` and
  `catalog`, and `modelsCache`.
* **Operations.** `applyCustomProvidersSave`, `applyConfig`, the watcher,
  `syncPlugins`, `rebuildVendors`, `ReplaceAll`, `Refresh`,
  `syncModelsFromAggregator`, `Candidates`.
* **Hard.** Each list has a lock of its own: saves, plugin changes and refreshes
  that take seconds cross each other.
* **Correct when** no change of one side loses the other's vendors, a model once
  fetched stays while its vendor does, and the list shown comes to be the vendors'.

### Streams, conversations and their conversions: `vendors/custom/proto_*.go`, `sse.go`, `claude.go`, `responses.go`, `convert.go`, `core/protocol/claude_convert.go`

Four vendor protocols are converted to one inner form (OpenAI chat), and that to
three endpoints.

* **State.** Of a stream: the converter's arguments kept back, its buffer, the
  handler's open items, indices and ending. Of a conversation: the client's
  history, and the stored response that `previous_response_id` names.
* **Operations.** One per event or message of each protocol in each direction.
* **Hard.** Protocols differ in what they number, open, close and keep back;
  streams break off anywhere; what one vendor said goes to another at the next
  turn, through a client that leaves things out.
* **Correct when** a client that takes each event at its word ends with what the
  vendor said, a truncation is told, and a vendor reads everything said before,
  once, in order, with a result behind each call.

### Call log: `gateway_timeout.go`, `core/manager/calllog.go`

* **State.** The ring, the lines that wait, the generation, the writer's batch,
  the open file; the current file and its ".1"; the ring's limit.
* **Operations.** `recordCall`, `takePending`, `writeToFile` with rotation,
  `Clear`, `SetMaxRecords`, loading at start; the shell's reading and removal.
* **Hard.** Two processes, two files, a batch in the writer's hand while the log
  is cleared, operations on files that fail one by one.
* **Correct when** nothing cleared comes back, and no record is kept or read twice
  or out of order.

### Auto model: `auto_model.go`, `core/manager/automodel.go`

* **State.** The configuration, the models shown, the current weights of the
  rotation, the limits learned, the request's chain.
* **Operations.** `prepareAuto`, `buildAutoChain`, `autoSWRRPick`,
  `autoNextModel`, `learnContextFailure`.
* **Hard.** Weights and limits outlive the set of candidates they belong to.
* **Correct when** every model that takes part has its turn, and a conversation is
  not sent again where one as long was refused.

### Parts that are not modelled

| Part | Why |
|---|---|
| Plugin model refresh and queries | a goroutine per child asks for its models, and a window of 300 ms merges the announcements; what the announcement starts is a refresh of `Catalogue`, which may come at any time |
| Plugin HTTP API, manifest | thin handlers over the supervisor's operations; validation |
| Manager shell and administration, statistics, metrics, reports | calls of the operating system, request plumbing, counters and sums over files |
| Remote vendor, vendor contract | an HTTP client whose failures are a vendor's in `StreamResume`; interfaces |
| Authentication, diagnosis, startup | stateless or read-only; wiring, once and in order |
| Desktop application, scripts | user interface and packaging |

### How the parts meet

* The plugin supervisor publishes endpoints (`RunningPlugins`), from which
  `syncPlugins` builds vendors; the router orders vendors for a request; a remote
  vendor calls a plugin with its token. In the models: `Listed` is what the
  supervisor hands out, `PluginEndpoint` what it promises of it, and a vendor's
  failures are `Dialled` in `StreamResume`.
* The state file tells the supervisor's `toggle` what to do; starting and killing
  are the time that passes in `PluginState` between the change of the field and
  the write.
* The endpoints a supervisor lists are `running` in `Catalogue`; its vendors are
  what `Router.Candidates` offers a request.
* `AutoModel` chooses the chain of models whose walk, with its vendors, is
  `Dial*` in `StreamResume`. A stream's bytes, once connected, are `ReplyStream`'s
  vendor; what a reply was, streamed or not, is a turn of `Conversation`.
* `ReplyStream` implements the abstract `EventStream`.
* A stream's failure is reported to the key pool (`NotifyStreamFailure`): `blamed`
  in `StreamResume`, `StreamEnds` in `KeyPool`.
* The manager starts the provider service with the settings of the configuration
  file, and the watchdog notices when they differ.

## 2. Modules

| Module | Models | Checked by |
|---|---|---|
| `PluginSupervisor` | life cycle of one plugin | `MCPluginSupervisor`, 2 runs |
| `PluginSupervisorProofs` | theorems about it | TLAPS |
| `PluginEndpoint` | what the supervisor promises those who call the plugin (abstract) | as a property of `PluginSupervisor`, and TLAPS |
| `PluginState` | the on/off file shared by processes | `MCPluginState` |
| `PluginStateProofs` | theorems about it | TLAPS |
| `SharedEntries` | what processes that share the file promise each other (abstract) | as a property of `PluginState`, and TLAPS |
| `ProviderService` | manager and its child process | `MCProviderService` |
| `ProviderServiceProofs` | theorems about it | TLAPS |
| `KeyPool` | keys of a custom provider | `MCKeyPool` |
| `KeyPoolProofs` | theorems about it | TLAPS |
| `StreamResume` | a streamed request over its upstreams | `MCStreamResume` |
| `StreamResumeProofs` | theorems about it, and about `AutoModel` | TLAPS |
| `FreeTierEngine` | the external engine, its watchdog and the fallback | `MCFreeTierEngine` |
| `FreeTierEngineProofs` | theorems about it | TLAPS |
| `Catalogue` | vendors, model lists and configuration of a process | `MCCatalogue` |
| `CatalogueProofs` | theorems about it | TLAPS |
| `EventStream` | what a streamed reply promises its client (abstract) | as a property of `ReplyStream`, and TLAPS |
| `ReplyStream` | a streamed reply through converter and handler | `MCReplyStream` |
| `Conversation` | the conversions of requests and whole replies, turn by turn | `MCConversation` |
| `CallLog` | the gateway's call log and its readers | `MCCallLog` |
| `ReplyProofs` | theorems about it, and about `ReplyStream` | TLAPS |
| `AutoModel` | the virtual model: candidates, rotation, chain, limits | `MCAutoModel` |

The `MC` modules only hold what a configuration needs: model values, values of
operator constants, symmetry. Definitions whose comment begins with "Mutant" are
plausible mistakes in the definition that follows them. No specification uses
them: they stand there to show what each property is sensitive to.

### PluginSupervisor

An action is one critical section of `Manager.mu`, one channel operation, or one
call on a process; every gap in which the code holds no lock is a gap between
actions.

| Model | Code |
|---|---|
| `sup` | where `supervise` and `spawnAndReadReady` are: program counter, the child and entry of the cycle (`kid`, `entry`), what follows a kill (`then`) |
| `act` | the other goroutines: `operator` (Toggle or Delete, one at a time under `toggleMu`), `watcher` (scan), `editor` (SaveConfig), `closer` (Close) |
| `enabled status pid auth url man manErr registered closed` | the fields of the same names |
| `retry` | `retryCh` holds its one signal |
| `stopped` | `stopCh` is closed |
| `lines` | `stdoutCh` of the cycle |
| `live` | processes that are alive |
| `SupTop` ... `SupReadyCommit` | `supervise`, `spawnAndReadReady`, `handleStdoutLine` |
| `ToggleOn/Off`, `DeleteBegin`, `ScanGone`, `EnsurePlugin`, `CloseBegin`, `Act*` | the handlers, cut at their unlocks |

A child identity stands for all that one spawn cycle draws afresh: pid, token,
port. Identities are reused once nothing refers to them, so a finite set is
enough for endless respawning. Timers may fire whenever they are armed.

`EnabledRecovers` asks of an enabled plugin, again and again, a new spawn or a child
that `Serves`: alive, and listed for the router or waiting for its settings. A
supervisor that waits for ever for a silent child, or rests over a dead one, is
neither. One state is exempt (`SetBack`): the child that a toggle has left under the
status "starting" (see the differences in section 3).

`PluginEndpoint` sees of this the processes that no kill is on its way to, the one
that was started and is not on record, the token on record and the endpoint listed.

### PluginState

`op[p][a]` is the call in progress of handler or watcher `a` in process `p`;
`Load`, `Write`, `WriteFails` and `Verify` are `mergeStateWrite`, with `stateMu`
held from `Load` to `Write`; `ScanRead` to `FollowToggle` are the watcher's round.
`cache` is `m.state`. The histories `intent` and `last` record what the last user
call to return asked for, and who replaced the file last with which processes then
between their reading and their rename (`overtook`); `since` what the file has
said while a call lasts, from the last rename of the call's own process on.

`SharedEntries` knows the file and `since` only: a call begins, ends, or replaces the
file by something that it has said in that time, with one entry set. What was in the
file before the call is therefore never lost, what other processes write during it may
be, and what the process's own calls write during it is not. `PluginState` implements
it with the identity as refinement mapping (`MergesAsPromised`).

### ProviderService

`op[a]` is a panel request or the watchdog's call; `StartBegin`, `StartCheck`,
`Spawn`, `Record` are `Start`, cut where it leaves the lock, and `StopTake`,
`StopPost`, `StopWait` are `Stop`. `WatchTick` is the look under the lock. A
process has a life of its own: it is `booting` until it listens (`Bind`, which
fails when the port is taken), `up`, `leaving` after a shutdown request or a kill,
`dead`. `RestartManager` loses the manager's memory and leaves the processes.

### KeyPool

A request is `Begin`, then `Pick` and `Answered` in turn, with `Mark` between them
where the code marks the key in a critical section of its own; `GiveUp` ends it. A
listing goes through the same loop. `Available` reads the three cooling times;
`Expire` is their end, in any order. `Choice` is `tryAcquirePrefer`: the keys that
offer the model first, then the whole pool. `streak` is a history of failures in a
row, kept apart from `fails` to compare with.

### StreamResume

`Dial*` is `callOpenCodeAPIStream`: `try` walks the vendors of a model and the
models of the chain. `Forward`, `Upstream*`, `TimesOut` and `ClientGone` are the
read loop, one action for each way a line or the end can come; `Settle` is what
follows the loop: the failure is reported, and the reply ends or another
reconnection begins. `wire` is what the client has received; each line remembers
the attempt it came from, which is what the properties are about.

### FreeTierEngine

`op[a]` is the call of the boot goroutine, the watchdog or a panel request;
`StartProbe` to `WaitTimesOut` are `StartFreeTierEngine`, `StopTake` to `StopDrain`
are `StopFreeTierEngine`, and `job` says what follows (`restart` goes on with Start,
`fallback` comes back to `FallbackMark`). `WatchdogTick` is the probe of the port,
`Judge` the reading of `/healthz` with the count of strikes (`Observe`). A process
is `registering`, `up` or `gone` and remembers the mode its file had when it
started. `run` is a history of rounds that found the pool empty, kept apart from
`strikes` to compare with. `FallbackConfig` saves the setting, or fails to and
leaves the strikes for the next round. `disturbed` remembers the two ways in which
WARP may come back under a fallback: it was switched on again since the saving, or a
Start was then past its writing of the engine's file (`Launching`). Any other Start,
Stop or Restart may cross a fallback.

### Catalogue

`Load`, `Save`, `Apply` and the rebuilds after them are `applyCustomProvidersSave`;
`Watch` starts the same for a file changed by the other process; `SyncRead` to
`SyncStore` are `syncPlugins`; `RebuildRead` and `RebuildReplace` are
`rebuildVendors` under its mutex, with `ReplaceAll`; `RefreshBegin` to `Publish`
are a refresh, one answer of a vendor at a time. A vendor's list is the revision of
the entry or start that it belongs to. `got` and `earned` are histories of what was
fetched and has been shown since. `Candidates` is the router's, for a vendor's
prefix or none: names forced to a vendor, names that a vendor lists, the vendor of
the prefix, the default vendor.

### EventStream and ReplyStream

`EventStream` says what either event protocol promises: the reply begins once,
items are numbered as they appear, grow only while open, are closed once, and the
reply ends once with nothing open unless the upstream broke off. `ReplyStream` is
the path of one reply: `Vendor*` are a vendor's events together with the
converter's output for them, `ConverterTail` what it puts out at the end, `Handle`
one turn of a handler's loop (`ClaudeHandles`, `RespHandles`, `ChatHandles`),
`Deliver` one event written, taken by a client (`Takes`) that holds what the events
say and nothing else. Pieces of content are numbers and are never put together, so
that order and ownership stay visible. Its `KeepsPromise` is
`EventStream!Spec` under the mapping from what the client holds.

### Conversation

The operators `ClaudeToOpenAIMessages`, `ResponsesInputToMessages`,
`FixToolCallGaps`, `OpenAIToAnthropic`, `OpenAIToGemini`, `OpenAIToResponses`,
`ToOpenAIResponse`, `OpenAIToClaudeResponse`, `ConvertChatToResponses` are the
functions of the same names, written with folds and maps over sequences. The state
machine around them is a client that speaks and answers some calls, in any order, a
gateway that sends, and a vendor that replies, with another protocol for every turn.
`talk` is what was truly said; the properties compare it with what a vendor reads.
A call's arguments are the call they were made for and the kinds of keys they hold,
known to the built-in tool or others, or text that is no object, or none
(`ArgForms`): `BuildResponseToolCallItem` makes them keys of the item,
`BuildBuiltInToolCallArguments` takes the known keys out of it or the whole item. A
result may be empty, late, or given twice; `ItemToMessages` says what becomes of an
empty one.

### CallLog

`Append1` is `recordCall`; `takePending` and `writeToFile` are the writer's two
halves, with the rotation and its failures (`Rotations`); `Clear`, `ClearMain`,
`ClearPrev` are the clearing, which removes the files one by one;
`removeLogFileRetry` is the shell's; `ReadPrev`, `ReadMain` a reader's two opens.
Records are numbers in the order of calls.

### AutoModel

`prepareAuto` takes candidates, drops those too small (`Eligible`), orders them by
the strategy and, for `balanced`, moves `autoSWRRPick`'s choice to the front.
`AttemptFails` is `autoNextModel`. `owed` is a history of what each model gained
since its last turn, `refused` of the shortest conversation it refused.

## 3. What the runs check

| Run | States | Shows |
|---|---|---|
| `supervisor_safety` | 3.1 million | with every interleaving of supervisor, children, toggles, deletion, edits (also to a broken manifest), the scan and Close: no process is lost (`NoOrphanChild`), no wake-up is lost (`NoLostWakeup`), a supervisor at rest left nothing behind (`RestLeavesNoChild`), and every step is one of `PluginEndpoint` (`OffersAsPromised`). `Safe` is the invariant of the proofs |
| `supervisor_liveness` | 181 thousand | a disabled plugin ends without a process, an enabled one is served by a live child or tried again, for ever (`EnabledRecovers`), a dead endpoint leaves the list, Close ends everything |
| `plugin_state` | 340 thousand | every write merges as `SharedEntries` promises (`MergesAsPromised`), a follower keeps the entry as it is unless another process renamed the file since it read it (`FollowKeepsTheEntry`), and every process comes round to the file |
| `provider_service` | 902 thousand | children are lost only to overlapping Starts or a restart of the manager (`NoLostChild`); the service comes back, also after a restart and a crash of the orphan (`ServiceComesBack`), and changed settings are noticed (`SettingsReachTheChild`) |
| `key_pool` | 2.9 million | giving up means that all available keys were tried, circuits need failures in a row, and no key is out for good when 401/403 cools |
| `stream_resume` | 211 thousand | one ending, no joined answers, each reconnection told all that was shown, slots that match the streams, every stream ends. `Safe` is the invariant of the proofs |
| `free_tier` | 682 thousand | WARP is given up only after a run of empty pools (`FallbackNeedsARun`), giving it up reaches the engine that is remembered (`FallbackTakesEffect`), though its saving may fail and other calls cross it, and an enabled engine comes to serve (`EngineServes`), though calls cross, engines crash and one is left from an earlier manager |
| `catalogue` | 303 thousand | no rebuild loses the other side's vendors (`NeitherLosesTheOther`), models fetched and shown stay while their vendor does (`KeepsItsModels`), and what is served and shown comes to be what is configured and running, and reachable by prefix, by force or by default (`ComesToShowIt`) |
| `reply_stream` | 674 thousand | for each of the four vendor protocols and three endpoints: the client holds what the vendor said (`ContentArrives`), a truncation that the adapter hears of is told, before any item is announced complete, and no other is (`TruncationTold`; of a Responses vendor that is `response.completed` with status incomplete and no calls, not `response.incomplete`), and the events implement `EventStream` (`KeepsPromise`) |
| `conversation` | 1.5 million | over several turns, any endpoint and changing vendors: everything said is read once, in order, with as much of a call's arguments as the endpoint keeps (`ConversationKept`), and each call has its result behind it, given in time, late, twice, empty or never (`EveryCallAnswered`) |
| `call_log` | 227 thousand | what was cleared never comes back (`ClearedStaysCleared`), files, ring and readers have each record once and in order (`LogInOrder`, `ReadInOrder`) |
| `auto_model` | 670 thousand | no model that takes part is passed over for good unless the rotation drops its credit (`NoStarvation`), and a refusal for length is remembered (`OutgrownIsAvoided`) |

`TypeOK` of nine modules is the shape of their variables, and a theorem (`ReplyStream`'s
types are part of `ReplyInv`). `ChildrenDoNotPileUp`, `EndpointHasItsToken`, `GivesUpOnlyWhenSpent`,
`WritersOfOneProcessMerge`, `EachKeyOnce` and `RecordMatches` are theorems without a run; adding one to a
configuration checks it.

### Where the code does not keep to its documents

Some statements of documents and comments are written down as definitions in the
modules although the code does not keep to them. No run lists them; adding one as an
`INVARIANT` (as a `PROPERTY`, for `FailoverKeepsToMain`) makes TLC show a
counterexample; for `PluginVendorsFollow` set `MaxChanges = 2` as well, since it takes
two changes of the plugins.

| Definition | Statement | What the code does |
|---|---|---|
| `PluginSupervisor!CrashedIsDelisted` | a crashed plugin leaves the catalogue at once (`docs/PLUGIN-PROVIDERS.md:203`) | when the end of stdout is seen before the exit (`manager.go:553`), the status stays running, and the dead endpoint listed, for the whole backoff |
| `PluginSupervisor!LatestManifestRuns` | a retry signal of the startup may be dropped because the child runs the latest manifest (comment at `manager.go:524`) | the child runs the entry read at 868, before the save |
| `PluginState!UserIntentWins` | a user's toggle takes effect unconditionally (`docs/PLUGIN-PROVIDERS.md:216`) | a toggle to the remembered state writes nothing (`manager.go:1548`), also when the file says the opposite |
| `ProviderService!StopHolds` | the watchdog does not start what was stopped by hand (`CHANGELOG.md:163`) | a Stop during the watchdog's Start (`providerservice.go:357`) does not hold |
| `KeyPool!FailoverKeepsToMain` | the main key is used while it is available (`keypool.go:6`) | a listing during its cooling time puts it last in the model's list (`keypool.go:158`) |
| `StreamResume!ClientLeavingIsNoKeyFault` | a client that leaves is not the key's fault (comment at `gateway_timeout.go:1015`) | a read error seen before the cancelled context is reported as one |
| `FreeTierEngine!FallbackFreesTheKeys` | the fallback switches WARP off and restarts the engine (`freetier_warp_fallback.go:157`) | an adopted engine has no pid, so that the restart changes nothing, and the fallback is marked as done (216) |
| `Catalogue!ClearTakesEffect` | clearing the custom sources takes effect at once (`docs/API.md:101`) | an empty list is nil to `applyConfig` (`config.go:101`): the sources are served until a restart |
| `Catalogue!PluginVendorsFollow` | when the set of running plugins changes the vendors are made anew (`plugin_vendors.go:40`) | of two calls in flight the older may store its vendors last under the newer signature (56-86) |
| `ReplyStream!UsageIsRecorded` | the usage must reach the call record of a streamed `/v1/messages` (comment at `claude.go:253`) | the handler returns at the finish chunk (504), before the usage chunk of the converters |

Other differences met on the way:

* **Streams.** The request of a reconnection is built upon that of the previous one
  (`gateway_timeout.go:1098`), so the third upstream is told the first text twice. A
  reconnection answered with an error status is read as the stream (708).
  `PreferredKeyIdx` (`upstream_types.go:32`) is read and never set.
* **Supervisor.** A ready line after need_config kills the healthy child and starts
  another (`manager.go:559`, against `docs/PLUGIN-PROVIDERS.md:172`). A toggle sets
  "starting" in a critical section of its own (1556): when the child has reported by
  then and the signal that follows is dropped as one of the startup (525), a healthy
  child lives on unlisted until the next toggle or exit.
* **Plugin models.** The answer of a child that has ended since may be stored over
  the list of its successor, and a refresh asked for in the panel calls back whatever
  Close has done (`manager.go:1307`, against the comment at 113).
* **Free tier engine.** Start is said to be idempotent (`freetier_engine.go:345`),
  but starts a second engine while the first registers; the watchdog kills an engine
  that still registers. A fallback noted as applied is not cleared when the user
  switches WARP on again by the settings. A Start that has written the engine's file
  before the fallback saves its setting may put an engine in WARP mode back, and the
  fallback is noted as applied.
* **Catalogue.** Two saves at once may leave `providersCfg` older than the file; a
  key left blank in a form may be filled with one that was just replaced; a refresh
  that began before a replacement puts a removed vendor's list back into `lastGood`;
  routing that is saved reaches no router before a restart.
* **Conversions.** The Gemini adapter names a call after its function, so two calls
  of one function share an id and both get the last result; it says "stop" for a
  reply with calls. The Responses adapter's stream does not know
  `response.incomplete`, and reads the status of `response.completed` only when there
  were no calls (`proto_responses.go:471`): other truncations become "stop" or
  "tool_calls". Converters take a read error
  for the end of the reply. Claude's tool_use blocks stay open when a stream ends
  without a finish reason. A `previous_response_id` that has expired is ignored in
  silence, and one that is known brings the last reply only. Tool choice "none"
  reaches neither Anthropic nor Gemini vendors. On the Responses endpoint the keys of a
  built-in tool's arguments become keys of the item (`responses.go:401`), in the place
  of its own when they are called alike, and on the way back four known keys of a
  shell call are kept (367), or the whole item when it has none (374), so also for
  empty arguments. A client's empty output is read as "[tool output missing]" behind
  its call (83), and an item that repeats it as the JSON of the item (95-115). The
  late result of a call that a chained request does not hold is passed on without it.
* **Call log.** A rotation between a reader's two opens hides the records that it
  moved; the segment ".1" is not loaded at a restart; a batch whose file cannot be
  opened is dropped, although the comment (`gateway_timeout.go:366`) says that the
  next flush tries again.
* **Auto model.** A refusal by a "-free" model tightens its plain twin's limit and
  not its own (`OutgrownIsAvoided` speaks of models shown under their own name).
  Only the stream of `/v1/responses` and unstreamed calls learn from refusals. The
  feedback window never sees a sample. The rotation drops the credits of all models
  that are no candidates once it remembers more than three times the candidates plus
  eight (`auto_model.go:478`): with twelve models or more, a long request that one
  model holds drops all other credits, and where long and short requests alternate the
  short ones go to the same model every time.

### Bounds, and why they are enough

* **Supervisor.** Two child identities (an old and a new process; the invariants
  speak of two at most), one good and one broken manifest, a channel of one line
  instead of 16 (full and empty are the cases the code tells apart). Requests are
  unbounded. Liveness runs with one manifest. The theorems hold for any number of
  each.
* **PluginState.** Two processes with a handler and a watcher each, two plugins,
  two user calls, two attempts (five in the code). An entry can be undone only by
  a second writer, and there are four of them.
* **ProviderService.** One user beside the watchdog, three processes, three
  settings (two ports, two keys), two panel requests, one change, two faults (a crash,
  a failed start, a restart of the manager), so that the orphan of a restart may crash.
  Three identities let a lost child, a stopped child and a new child exist at once.
* **KeyPool.** Two keys, two requests, two request calls and one listing, probe or
  restore. Setups are `round_robin` without, `health` and `failover` with a
  401/403 cooling time. The threshold is 2, not 3: runs
  below, at and above it are reached. The rotating index counts modulo 2, the number of
  keys, and so meets each of its residues. The two callers are symmetric; the
  properties are of safety only.
* **StreamResume.** One request with two models, two vendors and up to two
  reconnections (three at most in the code), two lines from upstreams in all, and
  the slots shared with any number of other streams up to two. Joining the text
  of two upstreams needs two lines. Bounded lines stand for a reply of any length:
  the code remembers of them only whether there was a first chunk and any text.

* **FreeTierEngine.** Three callers (boot, watchdog, a user), two processes, two
  strikes instead of three, one panel request, and one fault: a crash, a start that
  fails, or a wait that ends while the engine registers. Two processes let a
  doubled start and an adopted engine beside a new one exist.
* **Catalogue.** One source, saved twice (two forms that differ in keys, switch and
  presence), one plugin that starts once beside the callback of its lists, one
  request for a list that fails; the source is the default vendor, and
  the plugin's name is forced to it. Two saves let one rebuild overtake another, a
  plugin beside a source is what a rebuild could lose, and the process is either of
  the two.
* **ReplyStream.** Five events with content and two calls, with or without reasoning
  and token counts: text, thinking, two calls and arguments that alternate between
  them fit in.
* **Conversation.** Two replies with two calls between them (of a function, of the
  built-in shell), each with or without text in front, three turns of the client, and
  two results. Two replies and a third request let what one vendor said go through a
  client to a second and a third; two calls and two results let results come in either
  order, late, and twice for one call. All calls of one conversation hold arguments of
  one kind (known and other keys, other keys only, no JSON, none), since a conversion
  treats each call by itself. An empty result comes alone in its turn.
* **CallLog.** Five records, a file rotated when it holds more than one, two waiting
  lines, rings of one and two, reads of all and of two, two clearings, one restart.
  Five records fill both files and the waiting lines, and make both rotate twice.
* **AutoModel.** Three models, one of which is shown under another's name; weights 5
  and 2, the windows 20 (the default) and 10, conversations of 9 and 18, two
  strategies ("quality" takes the order as it is), two changes, one switch. The
  rotation's map is pruned above `KeepFactor` times the candidates plus `KeepSlack`, three
  and eight in the code, which three models never reach; the run has one and one, so
  that credits are dropped: a request that one model can hold after one that three could.
  A dropped credit starts anew, and `NoStarvation` promises nothing across it.

Deadlock is not checked, but for `Catalogue` and `AutoModel`, because each system may rest: a closed
manager, requests used up, a request that has ended.

### Fairness, and why the code justifies it

Goroutines are scheduled, and each operation between two blocking points ends:
weak fairness of each goroutine's steps. Timers that stay armed fire (the startup
timer, the watchdog's ticker, the stream timers). A `select` chooses at random
among ready channels, so a channel that stays ready is chosen:
`WF(SupStableExit)`, `WF(SupStableStop)`, `WF(SupStableRetry)`. A process that was killed exits, and one
that was started comes to listen or to exit. The engine's registration ends,
requests for model lists are answered or time out, and the tickers of the
configuration watcher and of the model refresh never stop. Nothing is assumed of
users, of what
plugins print, of starts, renames or upstreams succeeding, nor of lines winning
over timers. Requests are unfair; so are faults.

## 4. What is proved

### The plugin supervisor

`PluginSupervisorProofs` proves, for every set of manifests and children and every
channel capacity, under `ManifestAssumption`, `SentinelAssumption`,
`ArrivalAssumption` and `ChanAssumption` (the broken manifests are manifests, the
sentinels are not values, the channel has room):

* `TypeCorrect`: the variables keep their types;
* `Safety`: `Spec => []Safe`;
* `NoOrphan`, `NoPileUp`, `TokenMatches`, `NoMissedWakeup`, `RestIsClean`: the
  five safety properties, from `Safe`;
* `Implements`: `PluginSupervisor` implements `PluginEndpoint`.

**The argument.** None of the five is inductive. That no process is lost needs to
know what each phase of a cycle says of the recorded pid (`CycleInv`): from the
kill to the adoption there is none, and while the ready line is awaited it is the
cycle's child or was taken by a killer. It also needs that only a kill in flight
names a victim (`VictimsAreTaken`). That a supervisor at rest left nothing behind
needs to know who owes the kill: whoever disables or closes has announced it, or
the startup in progress will check again (`KillInv`), and `stopCh` is closed only
for a plugin that cannot be enabled again (`DeleteInv`). That no wake-up is lost
must hold from the moment the supervisor has read the field it goes by, before it
sleeps (`WakeupInv`). `Safe` is the conjunction; each action preserves it, one step
of the proof per action and one lemma per conjunct, with the lemmas on control
points and channels stated once at the top.

For the refinement, the children that serve are those alive that no kill is on its way
to. By `Safe` there is at most one, the recorded child or the one to be recorded
(`OneServes`), so whatever takes one away takes all (`AllOrNothing`), and that is an
`End`. A spawn happens with no pid recorded, hence with nothing serving: a `Start`. The
adoption records the token and drops the endpoint in one critical section: a `Record`.
The two places that publish an endpoint know that it carries the recorded token, and
that none was listed: during the startup because the adoption dropped it, after a late
ready line because the status was seen not to be running and no other goroutine makes
it so: an `Offer`. `setStatus` and the removal from the map only withdraw, and the
cleanup of a failed start, still its own child's, is an `Abandon`.

### Streamed requests

`StreamResumeProofs` proves, under `StreamResumeAssumption` (the set of requests is
finite; numbers of slots, vendors and models are positive; at most three
reconnections, as in the code), for any such numbers and any bound on lines:

* `TypeCorrect`, `SlotsComeBack`, `RepliesEndOnce`, `RepliesAreNotDoubled`,
  `BudgetIsUsed`: the safety invariants of the run, also for many requests that
  compete for the slots, which TLC checks with one request and anonymous others;
* `ResumesAreTold`: the action property `ResumeKnowsAll`.

**The argument.** `Safe` adds to types and slots five statements about one request.
`Begun`: before the first connection nothing is on the wire, and a served request
is within its limit, which makes the histories indexed by attempt well defined.
`Ending`: the reply is open until it is closed, and the loop that forwarded [DONE]
has recorded so, which keeps the code after the loop from closing it again.
`Joined`: lines come from attempts made; text of an earlier attempt means that it
broke off; the wait for a first chunk means that there was no text; a cancelled read
means that the client left. `Spent` and `Told` are the two remaining properties. That
a reply goes on after text only when the upstream broke off (`BrokenText`) is where
the code's two rules meet: silence or the end of the stream after text closes the
reply, and every other cause comes without text. `StepEffect` reduces the fourteen
actions to seven effects on the fields of their request, each part of `Safe` is
proved over these, and `OthersKept` frames the other requests.

### The auto model

The second part of `StreamResumeProofs`, since it is a streamed or plain request that
walks the chain; `AutoModel`'s definitions have names of their own so that one module can
extend both. Under `AutoModelAssumption`: finitely many models, weights from 0 to 10,
positive lengths and windows, any aliases.

* `ChoiceTypeCorrect`: `TypeOK`. A chain has a model to walk to, a credit is an integer,
  a learned limit is positive;
* `LongConversationsAvoidOutgrown`: `OutgrownIsAvoided`.

**The argument.** `OutgrownIsAvoided` speaks of a chain and of refusals, which never meet
in one step. What joins them is `Remembered`: what a model shown under its own name
refused is in the learned limits, no longer than it was, and what another model teaches
under that name only tightens it. Then a chain made of models that hold the conversation
with a tenth to spare has none that refused one as long. `AutoSafe`, the three together,
is inductive. Types take more than they seem to: a sorted list is a CHOOSE, so one has to
exist (`OrderExists`: in a strict total order of a finite set, the number of those before
a member is its place, by counting), and the pick of the rotation pays a sum over the
candidates, which the library folds recursively (`SumExists`, `SumIsInt`: sums of sets of
one more member from those of fewer, and no smallest set for which it is not an integer).

### The plugins' state file

`PluginStateProofs` proves, for every set of processes, handlers and plugins and any
number of attempts and calls, under `SharingAssumption` (users are served by some of
the processes, the watcher is none of the handlers, `None` is no entry, plugin or
process):

* `TypeCorrect`, from `Typed`, which adds what a call carries along: it is about a
  plugin once it is past its beginning, and a follower wants the very entry that it
  expects to find (`CallsCarry`), because a round takes up only plugins that have an
  entry (`RoundsFollow`);
* `WritersMerge` and `FollowersKeep`: the action properties
  `WritersOfOneProcessMerge` and `FollowKeepsTheEntry`;
* `Implements`: `PluginState` implements `SharedEntries`.

**The argument.** All of them speak of a step and need to know what the call that renames
has read before. `Merging` says it for the process: it has one writer at a time
(`OneWriter`, by `stateMu`), and while no other process has renamed its file since the
writer read it (it is not among `last.overtook`), the copy that the writer is about to
rename is the file as it is, but for one entry, and for none at all when the writer is a
follower (`Fresh`). Reading establishes it, a rename leaves its process without a writer
and marks the writers of the others as overtaken, and `WritersStay` frames the
other twelve actions. For the refinement, `Tracked` ties the history to the calls: it is
kept for just the calls that may still come to a rename (`OpenCalls`), it includes the
file as it is (`SeesFile`), and what a writer is about to rename is one of its contents
with the entry set (`MergesSeen`). That a rename forgets the older contents for its own
process only takes nothing from its writers, because it has no other one. Each action then
is a step of `SharedEntries` (`Begin`, `End`, `Replace`) or leaves file and history alone.

### The provider service

`ProviderServiceProofs` proves, for every set of users, process ids and settings,
under `ServiceAssumption`:

* `TypeCorrect`, with what a call carries at each point (`Carries`);
* `RecordIsRight`: the settings remembered are those the recorded process runs with,
  which must hold from the start of the process to its record (`RecordsMatch`);
* `NoneLost`: `NoLostChild`.

**The argument.** Outside the two exceptions that the property names, a Start that has
seen no living child is the only one (`OneStarts`), and the record names no living
process until it writes there (`StartsAlone`): so what it writes replaces nothing
(`KnownAll`). A Stop that has taken the process out of the record holds on to it until
it is on its way out.

### The key pool

`KeyPoolProofs` proves, for every number of keys, every set of callers, any threshold
and any set of strategies and cooling times, under `PoolAssumption`:

* `TypeCorrect`, with what a call holds between picking a key and marking it;
* `KeysRecover`, `CircuitsNeedFailures`: from `Counted`, that the pool's count of a key
  is the history of its failures in a row, and `KeyStep`, what any step may do to a key;
* `GivesUpWhenExhausted`, `NoKeyTwice`: from `CallStep`, what any step may do to a call
  about to pick. The lemmas on `Choice` show that, under each strategy, walking the
  preferred keys and then the pool from the rotating index meets every key that is
  available and not yet tried.

`RRMod`, the modulus of the round-robin counter, may be any positive number, also the
code's 2^64: where the counter wraps, only which of the available keys comes next is
uneven.

### The free tier engine

`FreeTierEngineProofs` proves, for every set of users and process ids and any number
of strikes, under `EngineAssumption`:

* `TypeCorrect`;
* `GivesUpOnARun`: `FallbackNeedsARun`. The strikes never run ahead of the rounds that
  judged the pool empty while the fallback is not applied (`StrikesBacked`); once it is,
  the history starts anew and the strikes stay, and nobody looks at them before a retry
  has cleared them;
* `FallsBackForGood`: `FallbackTakesEffect`.

**The argument** for the last one is the chain that the property's end does not show
(`GoesAsPlanned`): once the fallback has saved its setting, the setting is off until
somebody switches it on, so every Start, whoever called it, writes an engine's file
without WARP, starts a process without WARP, and remembers such a process; and what was
remembered before was taken by the fallback's own Stop. Only a Start that had written
the file before the saving is outside this, and it is what `disturbed` is about. That only a fallback comes to the point where one
is noted (`MarksFallbacks`) completes it.

### The catalogue

`CatalogueProofs` proves, for every set of sources, plugins and savers, under
`CatalogueAssumption`:

* `TypeCorrect`;
* `VendorsJoined`: `NeitherLosesTheOther`. The mutex of `rebuildVendors` lets one actor
  at a time be between reading and replacing (`OneReplaces`), and whoever read a
  configuration that has changed since has the rebuild of the one who changed it
  behind it (`RedoneIfStale`);
* `ModelsKept`: `KeepsItsModels`. What was fetched and shown is kept in `lastGood` for a
  registered vendor (`Remembered`), and during a refresh it is still to be asked for or
  already in the new list (`Fetching`).

### The call log

The first part of `ReplyProofs` proves, for any set of ring sizes, any number of waiting lines and any
length at which a file is rotated, under `CallLogAssumption`:

* `TypeCorrect`;
* `LogKeepsOrder` and `ReadsInOrder`: `LogInOrder` and `ReadInOrder`, from `Ordered`: on
  disk, in the ring, and in a reader's hands the records rise, and what a reader holds
  of the older segment is older than all that is or will be in the newer one
  (`InReader`), which neither property says by itself;
* `ClearedForGood`: `ClearedStaysCleared`, from `Forgotten`: everything there is is newer
  than what was cleared, and a clearing on its way has made older, step by step, what it
  has dealt with already (`ClearingNewer`): the memory with the writer's batch, then the
  newer file.

Sequences are reasoned about through their sets of values (`Below`, `Above`) and
`Rising`, with the lemmas on keeping the newest lines, appending and joining stated
once at the top.

### The stream of a reply

The second part of `ReplyProofs` (a reply becomes a record and a stream; the two modules
share no name) proves, under `ReplyStreamAssumption` (protocols and APIs are among the
code's), for any length of a reply and any number of calls:

* `ReplyInvariant`: the inductive invariant `ReplyInv`;
* `TruncationIsTold`: `TruncationTold`;
* `PromiseIsKept`: `KeepsPromise`, that `ReplyStream` implements `EventStream`.

**The argument.** A handler writes several events in one turn of its loop and the client
takes them one by one, so neither property is inductive: what has to be said is what the
events in flight will do. `Course(cut, cl, es, v)` says that the events `es`, each of
them one the client can take at its word when its turn comes (`Fine`), lead the client
from `cl` to `v`; `View` and, for each protocol, `ClaudeView` and `RespView` say that
this `v` has the items the handler thinks it has, open where the handler holds them open.
A delivery moves the first event over (`CourseNext`), a handler's step appends events
(`CourseMore`). `ClaudeGood` and `RespGood` are that for a handler that is still at work;
`Told` and `RespTold` for one that has returned, `v` being over with the status told.
The handlers' helpers have one lemma each (`ClaudeCloses`, `RespCloses`,
`ClaudeFinishesTold`, ...), and the two loops over calls close their items one after another
(`AllClosedCourse`), each once because the order they are closed in is a list without
repetition (`AscendingFacts`).

The other half is what a handler may expect to be handed. `OutOk` says that the chunks
waiting for it have their finish reason, if any, before nothing but counts and the end,
that the reason fits the vendor's (`Fits`), and that the end is last; `Seen` that the
reason is out and handled, after which no content comes. Each step of the vendor keeps
that (`VendorOnward`), whether its lines are passed on or put out by a converter. Both
halves meet in `ReplyInv`: a Claude handler that saw the reason has returned, a Responses
handler has marked its calls done and remembers the reason, the chat endpoint the status
its frames carried; a stream that ends without one was cut (`HaltFacts`). Then
`FineIsPromised` maps a fine event that is delivered to a step of `EventStream`, and all
other steps of `ReplyStream` to stutters.

### Only model-checked

* Liveness under fairness, and anything with ENABLED, is outside the prover's reach:
  `DisabledStops`, `EnabledRecovers`, `DeadEndpointDelisted`, `CloseStops`,
  `EveryProcessFollows`, `ServiceComesBack`, `SettingsReachTheChild`,
  `EveryStreamEnds`, `EngineServes`, `ComesToShowIt`.
* `ContentArrives` of `ReplyStream`, `ConversationKept` and `EveryCallAnswered` of
  `Conversation`: what they compare is put together by folds and selections over
  sequences, and every step would need an induction over the data.
* `NoStarvation` of `AutoModel`: that the smooth rotation owes nobody more than two rounds
  is an argument about the sum of all credits over every candidate set that was used
  since; no bound is claimed for any number of models, nor for a model whose credit is
  dropped.

## 5. What the models leave out

* **PluginSupervisor.** The lengths of timers, so also the tight loop of a plugin
  that prints a fatal line at once; the reaping of orphans at start; the creation
  of a plugin by the scan, which is the initial state. Plugins share only `mu`,
  so one is enough.
* **PluginState.** The scan's work on one plugin after another is one step; a
  plugin that is registered again keeps its old `toggleMu`.
* **ProviderService.** The cached list of models and `ProxyHandler`; a foreign
  program on the port; the probe's own short bind; the reuse of a pid that is
  still remembered. The settings are read with the watchdog's look. The
  manager's first Start is the watchdog's first round.
* **KeyPool.** The score by which `health` orders keys: any available key may be
  picked. Retry-After lengths. Reading the affinity list is part of the pick. The
  sticky branch, since no caller sets a preferred key. Timeouts and broken
  connections are one answer with 5xx, as the loops treat them alike.
* **StreamResume.** Token counts, the node prefix, the call record; the contents
  of lines beyond their kind. A model without a candidate is a dial that failed.
  The streams of the other two handlers only take and return slots.

* **FreeTierEngine.** The endpoint of cooling keys, the engine's model list, the
  contents of the engine's file beyond `warp.enabled`. A pid is not given out again
  while a process has it.
* **Catalogue.** Prices, capabilities and aliases of models; a plugin's list of
  exposed models; the ten seconds between refreshes, which a refresh on demand does
  not wait for. A vendor's list is whole or absent. The order of candidates by
  priority matters only for models that several vendors list; here each model has
  its vendor's prefix. A name without one is listed by nobody.
* **ReplyStream.** Token numbers, citations, refusal parts, the JSON of events,
  sequence numbers. How the chat endpoint goes on after a broken upstream is
  `StreamResume`.
* **Conversation.** Keys of a built-in tool's arguments that are called as the item's
  own; images, system text, tool declarations and tool choice, the
  reasoning of earlier turns (three adapters drop it), the cleaning of schemas. A
  stored response is known or not at the time of each request, which stands for its
  expiry and eviction.
* **CallLog.** The contents of a record; a batch is written whole or not at all; the
  reader's final sort by time changes nothing where times follow the order of calls.
* **AutoModel.** The estimate of tokens is two lengths; the score is the weight,
  because no sample reaches the feedback window in this version.

## 6. Plan

Order of work, the most important behaviour first:

1. *Done.* The core: `PluginSupervisor` and `StreamResume` with proofs,
   `PluginState`, `ProviderService`, `KeyPool`.
2. *Done.* The rest of the concurrent parts and the conversions: `FreeTierEngine`,
   `Catalogue`, `CallLog`, `AutoModel`, `Conversation`, and `ReplyStream` with the
   abstract `EventStream` that it implements.
3. *Done.* Proofs of the safety and action properties of `Catalogue`, `CallLog`,
   `FreeTierEngine`, `ProviderService`, `KeyPool` and `PluginState`.
4. *Done.* The abstract `SharedEntries`, with the proof that `PluginState` implements it.
5. *Done.* The abstract `PluginEndpoint`, with the proof that `PluginSupervisor`
   implements it.
6. *Done.* The safety of `AutoModel` that speaks of limits.
7. *Done.* `TruncationTold` of `ReplyStream`, and the proof that it implements
   `EventStream`.
