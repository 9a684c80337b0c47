# A verification development of airpcez

airpcez runs large language models on several machines at once. One instance runs on every machine. A
*worker* supervises `rpc-server`; the *host* supervises `llama-server`, polls its nodes, plans how to
spread a model over them and serves a web cockpit. This directory holds TLA+ models of the parts of
airpcez that decide things or keep state, TLC configurations that check them on small instances, and
proofs (TLAPS) about all of them: the process supervisor and its logs, the profile store, the
configuration, the planner, the command line, the launch, the cockpit's tab and the iPad worker. `PROJECT.json` lists the runs, the
mutants (one plausible bug per property, which the property must catch), the source lines behind every
definition, the hazards of the code and the theorems.

Paths below are relative to `src/crates/`.

## Inventory

| component | state it keeps | operations | what is hard |
|---|---|---|---|
| process supervisor (`airpcez/src/supervisor.rs`) | status, kill sender, log ring, behind a mutex; one monitor task per child, two readers | `start`, `stop`, `status`, `recent_logs` | handlers run on several threads; `start` checks and publishes in two lock sections; monitors of older children still run; dropped senders act as messages |
| its promise (`airpcez-core/src/process.rs`) | - | the trait `ProcessBackend` | what a caller may rely on |
| profile store (`airpcez-core/src/profile.rs`, `/profiles` handlers) | `airpcez-profiles.toml` | load, upsert, remove, save | no lock; truncate-then-write; crashes; unreadable files |
| configuration (`airpcez/src/config.rs`, `main.rs`, handlers) | the `Config` under a mutex, `airpcez.toml`, every tab's copy of the settings | load, command line, node changes, apply a profile, save settings | failing saves, crashes, old pages, restarts |
| cluster (`poller.rs`, `cluster.rs`, `model.rs`) | - | poll nodes, totals, order of the RPC endpoints | unreachable nodes, bogus readings, unified memory |
| planner (`airpcez-core/src/planner.rs`) | - | `suggest_plan` | rounding, double counting, alignment of a positional split with the devices |
| launch (`server.rs`, `flags.rs`, `config.rs`) | - | which file a launch loads, which arguments it gives, and what a worker's `rpc-server` serves | directory order, shards, quants, paths against repositories; what a worker serves against what it advertises |
| cockpit (`airpcez/assets/index.html`) | result line, health interval, form | launch a form or a profile, stop, poll readiness, fill the form from a catalog, a plan or a profile, save a profile | answers that are late, lost, or out of order; what a form still holds |
| telemetry (`stats_*.rs`) | - | sample the devices and memory of a node | bogus readings, unified memory, GPUs that are not advertised; in `Cluster`, without the parsing |
| catalog (`catalog.rs`) | - | a list of models | what a pick leaves in the form |
| version detection (`version.rs`) | - | a tool's version | `None` when it is not known; only its comparison is modelled |
| iPad worker (`src/ios`) | `isListening` and an RPC thread, `/stats` listeners, the errors shown | appear, serve, end, fail, suspend, restart | the view appears again; the thread cannot be stopped; results arrive through the main queue |

How they interact: the cockpit sends HTTP requests; handlers lock the configuration briefly, load and
save the profile file without a lock, await the polling of the nodes, and call the supervisor, which
spawns the child and the tasks that watch it. The child's end, a stop and another start meet in the
supervisor's mutex. Health answers come back to the tab in any order.

## Modules

| module | models | state and actions |
|---|---|---|
| `ProcessBackend` | the promise of the trait | `status`, the processes alive, whether a stop is pending; `Start`, `Stop`, `Die`, `Report` |
| `Supervisor` | `TokioSupervisor` | one action per lock section or step outside the lock: `StartCheck`, `Spawn`, `SpawnFails`, `Publish`; `StopTake`, `StopSend`; `ObserveExit`/`RecordExit`, `ObserveKill`/`KillAndReap`/`RecordKill`; `Exit` is the child's own |
| `SupervisorProofs` | theorems about `Supervisor` | see "Proofs" |
| `SupervisorLogs` | reader tasks and the log ring | `ReadLine`, `ReadFails` (a line that is no UTF-8), `ReadEnd`; `Write` and `Close` are the child's |
| `LogProofs` | theorems about `SupervisorLogs` | see "Proofs" |
| `ProfileMap` | what `/profiles` does for one client after another: a map from ids, in which a request changes the entry it names | `Ask`, `Save`, `Done`; `Fail` (a save that stops half way leaves some of the entries, one perhaps cut short) |
| `ProfileStore`, `MCProfileStore` | the store and its handlers | each request: load and change (`Serve`), `Truncate`, `Write`; a read or a write that fails, a crash in a save, what a cut or a mixed file parses to |
| `ProfileProofs` | theorems about `ProfileStore` and its refinement of `ProfileMap` | see "Proofs" |
| `Filters` | `Iterator::filter` and `Vec::retain` | `Retain`: what a sequence holds at the positions that pass, as a recursive function |
| `ConfigStore`, `MCConfigStore` | configuration, handlers, start-up | `Boot`, `Quit`, `AddNode`, `RemoveNode`, `ApplyProfile`, `LoadSettings`, `PostConfig`; a `Save` that fails, or is died in, leaves the old file, one that does not parse, or one that is cut short |
| `ConfigProofs` | theorems about `ConfigStore` | see "Proofs" |
| `Cluster`, `Planner`, `Suggest` | polling, totals, version warnings, endpoint order, an iPad's sample; `suggest_plan` and the catalog; the handler of `/suggest` | functions on clusters; `SuggestHandler` computes a plan |
| `CliArgs` | `apply_cli_overrides` | a function on argument vectors |
| `Slugify` | `slugify` | a function on names; a character is a letter in either case, a dash, or anything else |
| `ModelChoice` | `pick_gguf`, `resolve_model_path`, `resolve_hf_in_cache` | functions on directory listings |
| `Launch` | launch form, profile, request, command line | `TypePath`, `TypeHf`, `PickCatalog`, `PrefillCacheDir`, `FillFormFromPlan`, `FillFormFromProfile`, `LaunchBody`, `ProfileBody`, `LaunchRequestFromProfile`, `ResolveLaunchModel`, `LlamaServerSpec`; composed with `ModelChoice` |
| `WorkerStart` | the two ways a worker starts its `rpc-server` | `Boot`, `Autostart`, `WorkerStartHandler`; composed with `CliArgs` |
| `Inputs`, `MCInputs` | driver of the functions above, composed | an argument vector, a name, a listing, a form or a cluster grows by one element per step; a cluster may be asked for a plan, which is then written into a form |
| `DataLemmas` | - | lemmas for the proofs: inductions, filters, sums, flattening |
| `InputsProofs` | theorems about the functions of `Inputs` | see "Proofs" |
| `Cockpit` | one tab, the handlers behind its buttons, the slot | composed with `ProcessBackend`: `StartServer`, `HostStop`, `Die`, `Report` are steps of the slot; each request is sent, handled and answered in separate steps, and a launch is the form's or a profile's |
| `CockpitProofs` | theorems about `Cockpit` | see "Proofs" |
| `IpadWorker` | `RpcServer`, `StatsHTTPServer`, `rpc_shim_start` and the app around them | `Open`/`AppearAgain` (both `start`s), `Serve`, `ServerEnds`, `EndTask`; `Ready`, `Trouble`, `TroubleTask`; `Suspend`, `Resume`, `Quit` are the system's and the user's |
| `IpadProofs` | theorems about `IpadWorker` | see "Proofs" |

Composition: `Supervisor` implements `ProcessBackend` (`ImplementsBackend`), and `Cockpit` is built on
`ProcessBackend`, so the tab is checked against what the supervisor has been shown to promise when one
start runs at a time. `ProfileStore` implements `ProfileMap`. `Inputs` instantiates the functions that keep no
state and follows values through several of them: the command line into the configuration and on to the
device `rpc-server` is given and `/stats` advertises, a cluster into a plan, a plan into the form, the form
into a profile or a request, and a request into the command line of `llama-server`.

What stays abstract: exit codes, messages, wording, formatting; of the configuration's fields the port
(for all plain settings), the role, the name and the nodes; of a profile its id, name and one content;
of a form the kinds of fields (numbers, texts, selector, checkbox), which the code treats alike; the
`-c`, `-ngl`, ... switches are named by their option. File names of models are told apart by quant and
shard. Memory is MiB and is not near the limits of `u64`.

## Runs

| run | what it asks | bounds and why they are enough |
|---|---|---|
| `supervisor_race` | no child escapes (`NoLeak`), a stored sender is the current run's, `Running` is never a dead end, a quiet supervisor tells the truth; accepted stops and displaced children end, deaths are reported | two starts and two stops at once, three children: a start displaced by a second, with the monitor of a third still to write |
| `supervisor_slot` | with one start at a time: one child, no start while running, `ImplementsBackend` | one starter, two stoppers, three children in sequence |
| `supervisor_double_start` | *violated*: `RejectWhileRunning` with two starts | the comment on the guard |
| `supervisor_logs` | the ring is the tail of each stream; a child's last words get there | three pipes, two lines each, a ring of two: overflow happens within and across streams |
| `profiles` | unique ids, and `ImplementsMap`: only the entry a request names is ever written, whatever is lost when a read or a save fails | one request after another with failing reads and writes and crashes in a save; two ids and the blank one, three names (two with one slug, one with none), one model: up to three profiles, so that a cut can fall in the first, in a middle one or in the last |
| `profiles_stale` | *violated*: `SavesAreFresh` with two requests and no faults | the design document's "any staleness"; a state in which another save is half done does not count |
| `suggest_two_hosts` | *violated*: `SplitAligns` when the planning node is not the plan's host | the comment on `ordered_rpc_endpoints`; the plan knows every GPU of this node, so nothing else shifts the split |
| `config` | disk agrees with memory unless a save failed; a restart then keeps nodes and name, and without flags everything; a node comes and goes only by a request that names it (`NodesOnlyByRequest`), whatever old page is saved; a node that cannot be removed, or is listed twice, came from a profile or from a file someone wrote | one tab, two hosts with and without port, lists of up to two, two ports, two node names (one blank), failing saves and crashes; profiles with a tidy and with a repeated, bare address, a file written with a bare one |
| `inputs` | last pair decides each setting; a worker serves what it advertises; slugs join words; the file picked; a profile runs what its form would, and loading it leaves nothing of the old form; a plan counts no memory twice, its host, remote and expert shares (`SharesFit`) respect memory up to the stated rounding, its split aligns with the devices, its nodes have one version or a warning, and a launch after it is the plan | vectors up to 5 tokens, names up to 6 characters, listings up to 4 of 6 files, every form over two or three values of each kind of field, three disks; up to two registered nodes (hosts, workers and iPads, one asleep, one registered without a port) beside a host with two sizes of RAM, four device lists (one GPU, two, unified, bogus) or none, its GPU hidden or not, its version known or not; the two readings of a Mac's free memory may differ by 900 MiB; the catalog and eight more models |
| `cockpit` | no forgotten interval, a polling tab shows a loaded model as ready, a launch is answered | one process at a time, two polls in flight (answers overtake each other or get lost), one click awaiting its answer (what is said of clicks that overlap is proved, `NoTimerIsLost`), two ports, two intervals |
| `cockpit_overlap` | *violated*: `LoadingIsFollowedUp` | an old "loading" overtakes the "ready" that ended the polling |
| `ipad` | one RPC thread at most; `/stats` says running exactly while a thread's end is not noted, and it gets noted; `/stats` is served or its loss is told | three starts of the RPC server and one replacement of the listener in one run of the app, any number of suspensions and restarts; with or without Metal |

Types are an invariant of the runs of the supervisor, the cockpit and the iPad worker, whose proofs rest on
them. `CHECK_DEADLOCK FALSE` is set where the model really ends: all pipes read, a plan made, an input of full
length. The other runs check deadlock.

### Fairness

* Supervisor: weak fairness on every task the runtime polls (steps of a started call, the send of a stop,
  a monitor). None on new calls, and none on a child's own exit: `StopEndsChild` and `DisplacedChildDies`
  hold although children never exit by themselves.
* Logs: weak fairness on each reader. None on writes; `LastWordsAreKept` starts when the pipe is closed.
* Cockpit: weak fairness on handlers, answers to clicks, the interval, and on what `ProcessBackend`
  promises; strong fairness on the handling and the arrival of a health poll, that is, polls may be lost
  but not all of them. Nobody has to click, and a model never has to load.
* iPad: while the app is active, weak fairness on what is queued for the main actor and on the system
  settling a *new* listener (it becomes ready, fails or waits). None on the RPC server getting its port or
  ending, nor on a waiting listener becoming ready, nor on the user or on suspensions.
* `ProcessBackend`: an accepted stop ends the process and its end is reported; `supervisor_slot` shows
  that the supervisor's fairness gives both.

### What the violations say

* Two concurrent starts both pass "Guard: reject if a process is already running" (`supervisor.rs:43`);
  the second child displaces the first, which the dropped sender then kills (`DisplacedChildDies` holds).
* A profile request that has loaded the file before another's save, and writes after it, takes the other's
  finished change away, against "avoids ... any staleness" in
  `src/docs/superpowers/specs/2026-06-26-model-profiles-design.md:108`.
* The tensor split is computed in an order that is the launch's order only if the node that plans is the
  host it plans for (`SplitAlignsOnHost` holds, `SplitAligns` does not). That holds where the plan knows every
  GPU and every address (`AllTold`). It does not where a GPU is hidden by `advertise_gpu = false` or distrusted
  for a bogus reading, since `llama-server` is told of no `--device` and numbers all GPUs of its machine; nor for a
  node registered without a port, whose endpoint stays `0.0.0.0` (`poller.rs:13`); nor if the poll of the launch
  (`server.rs:441`) answers differently. No text of the repository speaks of these.
* A health answer is applied whenever it arrives; an old one can leave "loading" on the page of a loaded
  model, with the polling over.

One more disagreement needs no counterexample: `--role` takes any next token, even another flag, and all but
"host" mean worker (`config.rs:134`). The plan of the live configuration says so
(`src/docs/superpowers/plans/2026-06-26-airpcez-live-config.md:92`), the comment at `config.rs:100` says that unparseable
values are ignored. `LastPairDecides` states what the code and that plan have, so the run `inputs` shows the
disagreement by passing; it is listed with the findings.

Also seen while modelling, without a run of their own: a profile file that does not parse is replaced by
the next save (the design says "don't clobber"), and so is one that cannot be read for a moment; a cut file that
still parses is taken for all there is; a quant that is not in the cache
falls back to another quant that is; between two split models the order of the directory decides; a
profile's cache types have no field in the form and are lost when it is loaded and launched from there;
`launch_profile` replaces the node list even when the launch is refused; picking from the catalog leaves a
path in the form, and loading a plan leaves an old tensor split; on the iPad a server that cannot have its
port ends without an error; a launch that is answered after a stop starts polling under "stopped". The hazards of `PROJECT.json` have these at their lines.

## Proofs

`SupervisorProofs` proves, for any numbers of callers and children and from `SupervisorAssumption` alone
(starters are not stoppers, `None` is no child):

* `TypeCorrect`, `NoChildLeaks`, `StoredSenderSafe`, `NeverStuckRunning`, `QuietTruth`: the safety half
  of `supervisor_race`;
* `OneChildSafe`, `RejectSafe`, `ImplementsBackendSafely`: the safety half of `supervisor_slot`, under
  the additional hypothesis that there is one starter.

None of these invariants is inductive alone. `NoLeak` needs to know that a monitor which has finished has
a dead child (`ReapedInv`), that it kills only when its channel has resolved (`KillInv`), that a child
between spawn and publication is one starter's alone (`HeldInv`), and that a sender a stopper holds is no
longer stored (`TakenInv`). Their conjunction with the types and with `StoredSenderIsCurrent` and
`RunningIsWatched` is `SupInv`; `InitInv`, `StepInv` and `Invariance` establish it, with lemmas for the
parts by actor. The key step is that a monitor which records an end drops whichever sender is stored:
the child that loses its sender stays reachable because its channel is now closed and its monitor
listens.

For one starter, `SlotInv` adds that nobody passes the guard while `Running`, that nothing is watched
otherwise, and that one child at most is watched. From `SupInv /\ SlotInv`, `BackendStep` maps every
action to a step of `ProcessBackend` or to a stutter: `Publish` to `Start`, `StopTake` to `Stop`, `Exit`
and `KillAndReap` to `Die`, `RecordExit` and `RecordKill` to `Report`.

`IpadProofs` proves `IpadTypes`, `OneThreadOnly` and `RunningHonest` for any numbers of threads and
listeners, without using the assumption on them. `OneThread` alone is not inductive: between the end of a
server and the task that notes it, no thread runs, yet a start must still be refused, or the task of the old
thread would open the guard under the new one. `OneWatched` says so (one thread at most is between its
start and the noting of its end), and `RunningIsHonest` ties it to the guard. Their conjunction with the types is
`IpadInv`, kept by every step: `StartRpcKeeps`, `ThreadKeeps` and `StartHttpKeeps` by part of the app.

`CockpitProofs` proves `CockpitTypes` and `NoTimerIsLost` for any numbers of calls, polls, intervals, ports
and processes, and for clicks that overlap: the types and `NoStrayTimer` are `TabInv`, which every step
keeps (`SlotTypes`, `CallKeepsTab`, `PollKeepsTab`, `TabStep`). That a stopped tab stays quiet is not stated: a
launch that is unanswered when stop is clicked starts its polling afterwards.

`ConfigProofs` proves `FileIsCurrent`, `RestartsGoUnnoticed`, `NodesStayManageable` and `NodesChangeByRequest`
for any hosts, ports, tabs, profiles and numbers of nodes. `DiskAgrees` speaks of a running program only; a
restart needs `FileAgrees`, which holds while the program is down as well, and `HoldConfigs`, that memory, the
file and every page hold records with a configuration's fields and no others. `RestartsGoUnnoticed` and
`NodesChangeByRequest` have one hypothesis, that an unreadable file is no configuration. `NodesStayManageable` has
none: `KnownNodes` asks of the memory, the file and every page that what is untidy in them is so in a
profile's list or in one a user has written, and no handler, no failing save and no restart changes that. The
step behind `NodesChangeByRequest` (`StepByRequest`) shows that a settings page brings back no node, however old
it is, and that a restart brings back none after a save that worked.

`ProfileProofs` proves `ProfileTypes` for any clients, names and stores. Under the hypothesis of the run `profiles`,
one request at a time (`OneClient`), it proves `IdsStayUnique`, `SavesAreFreshAlone` (while the file can be read; its
refuted counterpart `profiles_stale` has two requests) and `ImplementsProfileMap`: from a store without profiles, every
step of the store is a step of `ProfileMap` or a stutter, where a save takes effect when it truncates, and what it
leaves when it stops half way is some of the entries (`KeptRemains`). The inductive invariant `AloneInv` relates what a
request has loaded and changed to the file it is going to replace.

`LogProofs` proves `LogTypes` and `LogsAreTails` for any streams, any capacity and any interleaving. `LogsInv` says
that the lines of a stream are in the ring in order (`InOrder`), that behind each are all later ones that were read
(`Complete`), and that the ring drops nothing before it is full.

`InputsProofs` proves of the functions that keep no state what the run `inputs` checks up to its bounds:

* `PlansFit` (`SharesFit`), `NoMemoryTwice` (`PoolsWithinTotals`) and `LaunchesAreVersioned`
  (`EndpointsAreVersioned`), for clusters of any size and nodes with any memory and devices. `EachPlanFits` does
  the arithmetic of one plan, from lemmas on integer division (`DivBounds`, `TenElevenths`), on the layers a dense
  model leaves to the host when it fits (`PrimaryRemainder`) or spills (`SpillFits`), and on the experts of a mixture
  (`ExpertsFit`). `PoolsAddUp` writes every pool as a sum over the nodes (`GpuPoolIs`, `HostCpuIs`, `RemoteCpuIs`,
  `PoolTotalIs`) and compares them node by node. `PlanIsAnswer` and `ClusterIsNodes` are the invariants that tie the
  plan to the cluster, and the cluster to nodes with names of their own;
* `SplitsAlign` (`SplitAlignsOnHost`), for clusters of any size and any GPUs the plan knows of (`AllTold`). Both sides are written as this node's
  devices, then those of the remote nodes with a GPU, then the CPU-only ones (`SplitDevicesAre`, `LaunchDevicesAre`,
  `CpuEndpointsAre`): filtering twice is filtering once (`KeepTwice`), and what a filter drops contributes nothing to
  the joined sequence (`FlattenKept`);
* `LastPairs` (`LastPairDecides`) and `WorkersServeAdvertised` (`ServesAdvertised`), for command lines of any length:
  by induction over the rounds of the scan, each setting is what the last pair *so far* makes it, and the scan never
  stands on a value (`KeepsUp`, `KeepsUpStep`);
* `PicksAreRight` (`PickIsRight`), for listings of any length without repetitions;
* `SlugsJoin` (`SlugJoinsWords`), for names of any length: by induction over the characters, what has been written
  has the letters and the dashes so far in their places (`HasWords`, `Placed`), and perhaps one dash more, which the
  trimming takes away (`TrimCuts`);
* `ProfilesKeepForms` (`ProfileIsForm`) and `LoadsForgetForms` (`LoadForgetsForm`), for any form, disk and cache
  directory;
* `PlansLaunched` (`PlanIsLaunched`), for the plan of any cluster, model and context length. Its hypothesis is that
  no number is spelled as a blank: `ToString` belongs to TLC, and the provers know nothing of what it returns.

They rest on the assumptions of `Inputs`, which TLC evaluates: nodes have different names (`NamesAssumption`), a
model has layers of at least 1 MiB (`MetasAssumption`), what is usable of a unified GPU is part of the node's free RAM
(`LocalStats::sample` and `gather_devices` each read the free memory, `stats_provider.rs:34` and `:90`, and it is taken not to grow
by more than the planner's headroom in the moment between), this node has its own stats, as `suggest_handler` builds it, and stats
come with an endpoint, as `LocalStats::sample` and the iPad send them (all three `NodesAssumption`), and a numeral is not blank or a word of the selector
(`NumeralsAssumption`). `Retain` is a recursive function rather than `SelectSeq`, of which the provers know nothing.

The induction theorems of the library take an operator as a parameter, which the installed provers cannot
instantiate. `DataLemmas` therefore states induction for sets: a set of numbers that has 0 and all successors
has all numbers (`Induction`), and likewise for finite sets (`FiniteInduction`) and for sequences
(`SequenceInduction`). From these it derives that the equation a recursive function is defined by has a solution
(`RecursionExists`), and what `Picked`, sums and `FlattenSeq` compute.

Every invariant a passing run checks is a theorem. Only model-checked: everything about liveness, including the
fairness half of `ImplementsBackend` (liveness and `ENABLED` are outside the prover).

## Not modelled

Running the system tools and parsing their text (`stats_*.rs`, `version.rs`): what they return is in
`Cluster`, how the text is taken apart is not. Rendering in the page, the lists it only shows and the log
view's polling. Two answers of `/suggest`, or an edit while `btn-save-profile` awaits `/cluster`: the form
is read and written as of one moment (both are listed as hazards). What a running `rpc-server` does when the
configuration changes. That `child.wait()` fails: it does so only for a child somebody else has reaped, and nobody
else does, so `ObserveExit` is for a dead child. A second poll of the nodes in a launch, and the launch end to end:
the node list `launch_profile` replaces and the await on the nodes are in `ConfigStore` and `Cockpit`, not composed. The orphaning of children when airpcez itself dies (nothing is persisted about
them). Network failures between `llama-server` and the RPC endpoints, which is not this code.

## Plan

Done: supervisor, its promise and its proofs; logs; profiles; configuration; cluster, planner and catalog;
the functions from the command line, the form and the cluster to what is started; the cockpit's launches
and health polling; the iPad worker; the proofs of supervisor, logs, profiles, configuration, cockpit, iPad worker and of the functions.

Left, should the repository say what is meant: several clicks at once in the run `cockpit` (nothing says
what the line should show after a stop that overtakes a launch); the launch end to end, with the poll of its own; and `SplitAlignsOnHost` without `AllTold`.
