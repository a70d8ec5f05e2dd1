# LiteyukiBot in TLA+

A verification project kept beside the LiteyukiBot runtime (version 7: `src/src/liteyukibot`
and the packages `kernel`, `cordis` and `adapter-onebot`). TLA+ modules translate the parts of
the program whose correctness depends on the order of steps, and the algorithms that decide
what an input means; TLC checks them on small instances; TLAPS proves the most important
invariants, two refinements among them, for every value of the constants. `PROJECT.json` names,
for every definition, the source lines it stands for.

Contents: 1 the system, 2 the modules, 3 how the code is modelled, 4 the runs, 5 fairness,
6 the proofs, 7 what the checks found, 8 what is not modelled, 9 the plan.

## 1. The system

LiteyukiBot is one process with one asyncio event loop, and a command-line program that edits
its workspace while the bot is down (or up: nothing locks the workspace).

    SnowLuma endpoint <-> SnowLumaClient --EventSubmission--> LiteyukiApp --publish--> EventBus
                              ^   (one per account)                                      |
                              |                                          handler, per ordering key
                         OneBotService <------- action executor <------ actions          v
                                                                    CordisManager -> plugin handlers
                                                                        |                  |
                                                                    CordisScope tree:   command,
                                                                    providers,          resource and
                                                                    disposers           permission
                                                                        |               services
                                                                    ProfileService (SQLite threads)
    CLI -> instance registry / ConfigWorkspace / PluginManager
             -> instances.json, liteyuki.toml, .liteyuki/plugins.json, the interpreter
        -> load_settings, resource packs -> run or debug session -> LiteyukiApp

| Component | State it keeps | Operations | Hard behaviour | What makes it correct |
| --- | --- | --- | --- | --- |
| EventBus `events/bus.py` | admission semaphore and count, ingress queue, queue and worker per ordering key, concurrency semaphore, running operation tasks | `publish`, `subscribe`, dispatcher task, worker tasks, `aclose`, `_force_close` | four kinds of task, timeouts with a grace period, callbacks that ignore cancellation, tasks cancelled before their first step, two kinds of close | order per key, admissions and slots given back exactly once, no event stranded, close ends and leaves nothing |
| CordisScope `scope.py` | tree of scopes, providers, instances, disposers, shared resolution tasks | `child`, `provide`, `own`, `on`, `use`, `aclose` | shared lazy resolution, overlapping closers, failed disposers and retries | one instance, dependents closed first, nothing forgotten, `use` is answered |
| CordisManager `core.py` | plugin scopes, ordered handlers, subscription to the bus, the shared cleanup task | `activate`, `register`, `start`, dispatch, `aclose` | factories that fail or are cancelled half way, or suspend while `aclose` runs | a plugin that is closed has left nothing behind |
| Command, resource services `features/` | registries with owners, a cached longest path | register a batch, remove, resolve, dispatch | ownership while plugins unload, one resource in two registries | both registries agree, one meaning per path |
| ProfileService `profile_service.py` | lock, worker threads, SQLite rows | start, get, set, delete, close | a thread that outlives its cancelled caller | no lost update, no thread after close |
| LiteyukiApp `app.py` | state, references to adapter, Cordis, services, named cleanup operations | `start`, `cancel_start`, `stop` | startup cancelled or failing at any stage, several stops, close operations that outlive a deadline | stopped means clean, order of the cleanup, stop is answered |
| Sessions of the command line `cli.py` | the tasks of a run or debug session | run, debug, signals | deadlines of startup and cleanup that race their end, Ctrl-C | the exit status is true, the session ends |
| SnowLumaClient `snowluma/client.py` | connection, byte budget, event queue, pending calls, send gate, lingering tasks, deferred transport close | `start`, `_run`, `_consume`, `_dispatch_events`, `call`, `close` | reconnects under pending calls, cancellation inside a reservation, a send that ignores cancellation, close with a deadline | budget conserved, close waits for a send, tasks stay visible, calls and closes end |
| OneBotService and conversion `onebot/v11` | reply routes per account | events in, actions out, messages in two formats | routes evicted or cleared while their events are queued, two encodings of one message | an answer goes where its event came from, a message survives both ways |
| Instance registry `instances.py`, workspace `config/workspace.py` | files that several processes share | register, use, remove; init, prepare, upgrade | a lock file, exclusive creation, kills between two writes | changes are atomic, files of the user are kept |
| PluginManager `plugin_manager.py` | distributions, `plugins.json`, `[cordis]` table | `install`, `enable`, `disable`, `remove`, `set_config`, `clear_config` | several files and an interpreter changed one after the other, kills between them | records supported, file and record agree, configurations kept |
| Configuration loader `config/loader.py` | - | load, inspect, explain | six layers that name the same setting, files that include each other | the strongest layer wins, the explanation is true |
| Command grammar, permissions `features/` | - | tokenize, parse, allow | quoting, options that look like values | a command does what its author wrote |
| Resource packs, translator | packs on disk, catalogue | load, reload, write a manifest, translate | files edited while they are read one by one | a catalogue holds whole packs, the last pack wins |
| Kernel tasks, services | owned tasks, published services | spawn, stop, publish | stop with tasks that ignore cancellation | stop ends |

How they interact: the app creates the bus, the Cordis manager and the adapter in this order
and cleans up adapter, bus, Cordis, services, logging. A SnowLuma client submits an event
through the app to `EventBus.publish` and waits for its answer; the bus calls the manager's
handler, which walks the chain of ordered handlers (one of them the command router, which calls
commands and resource providers of plugin scopes) and returns actions that the bus hands to
the OneBot service, which calls a client. The command line selects and prepares a workspace,
then drives the app (`start`, `cancel_start` on a signal, `stop`) or the plugin manager.

`PROJECT.json` lists every component with its status and 40 hazards at the lines where they
bite.

## 2. The modules

| Module | Models | State in code |
| --- | --- | --- |
| `EventBus` | `events/bus.py`, all of `EventBus` | variables are named after the attributes (`_accepting`, `_outstanding`, `_ingress`, `_key_queues`, `_key_workers`...); `worker[k].pc` is the line where the worker of key `k` is suspended; `ops` is `_operation_tasks` |
| `OrderedDelivery` | the promise of `publish`: a line per ordering key, bounded as a whole, answered at the head | abstract, no tasks, queues, semaphores or timers: a line is a relation, who was admitted before whom |
| `EventBusProps` | properties of the bus and its refinement mapping to `OrderedDelivery` | |
| `EventBusProofs` | proofs about `EventBus`: the admissions, then slots, barriers, the shutdown and the order of delivery | |
| `CordisScope` | `scope.py` | `closer[c]` is the stack of the recursive `aclose` calls of task `c`; `task[p]` the shared task of a provider |
| `CordisScopeProofs` | proofs about `CordisScope` | |
| `FeatureHost`, `FeatureHostProps` | `CordisManager` with the features below it: composes the next three modules and what `CordisScope` promises of a scope | `registrations`, `pluginScopes`, `cleanup`... after the attributes; `activation[p]` and `event[e]` say where a factory and a dispatch are suspended |
| `FeatureHostProofs` | proofs about `FeatureHost` and what it is composed of | |
| `CommandRegistry`, `ResourceRegistry` | the registries of `commands_service.py` and `resources_service.py`, as operators on a record | `commands`, `paths`, `longest`, `next` |
| `ProfileService` | `profile_service.py` | `lock` and `waiting` are the asyncio lock, `thread` the worker threads of `_database_tasks`, `row` the stored profile |
| `AppLifecycle` | `start`, `cancel_start`, `stop` and the cleanup of `app.py` | `live` is what is really up, `onebot`, `cordis`, `services` what the app refers to, `closing` the keys of `_cleanup_operations` |
| `AppSession` | what calls the application: `run` and `tests debug` of `cli.py`, or an embedding program; composed with `AppLifecycle` | `session.pc` is the await at which `_run_runtime` or `_run_debug` is suspended |
| `AppSessionProofs` | proofs about `AppLifecycle` under `AppSession` | |
| `SnowLumaClient` | `snowluma/client.py` | `run`, `disp`, `caller`, `closer`, `deferred` say where each task is suspended; `owned` which of them `_task` and `_event_dispatch_task` still refer to; `strays` where the dispatchers are that a later start has replaced; `run.pc = "exit"` and `"lastExit"` are `__aexit__` of the connection, on the way to a retry and for good; `unfinished` is the counter of `asyncio.Queue.task_done` |
| `SnowLumaClientProofs` | proofs about `SnowLumaClient` | |
| `PluginManager`, `PluginManagerProps` | the commands of `plugin_manager.py` | `dist` is the interpreter, `records` `plugins.json`, `enabled` and `config` the `[cordis]` table, `command` the command at work and what it will save |
| `PluginManagerProofs` | proofs about `PluginManager` | |
| `Machine` | processes and directories, shared by the next two | |
| `InstanceRegistry` | `instances.py` | `registry` is `instances.json`, `holder` the holder of the file lock, `call[p]` where a process is between lock, read and replace |
| `AtomicRegistry` | the promise of the registry: each change at one moment | abstract, no lock and no file |
| `ConfigWorkspace` | `config/workspace.py` | `files[d]` is what is in a directory, `work[p]` the process between two changes of it |
| `CommandLine` | the commands of `cli.py` that select, register, initialise and prepare a workspace: composes registry and workspace | `cli[p]` is the command of a process |
| `CommandLineProofs` | proofs about `CommandLine` | |
| `ConfigLayers` | `config/loader.py` and the rules of `config/models.py` | a tree is a function from paths to leaves, a leaf knows its layer |
| `CommandGrammar` | `commands_parsing.py` and the cut of a message into path and arguments | |
| `Permissions` | `permissions.py` | |
| `OneBotMessages` | messages of `onebot/v11/core.py` in both formats and back | |
| `OneBotService` | events to the bus, actions to accounts, reply routes, and what accounts promise of answers | `routes`, `linked`, `queued` after the attributes of the client |
| `ResourcePacks` | `resource_packs.py`, `i18n.py`, and what a catalogue promises | `trees`, `manifests`, `index` are the files, `loader` is where the load is, `translator` what was made of a catalogue |
| `Inputs`, `InputsProps` | composes the seven modules above: a behaviour is about one of five "desks" (settings, commands, messages, events, packs) | |
| `InputsProofs` | proofs about `OneBotService` and `ResourcePacks`, the two parts of `Inputs` with steps | |
| `MCEventBus`, `MCCordisScope`, `MCFeatureHost`, `MCPluginManager`, `MCCommandLine`, `MCInputs` | instances for TLC: model values, trees, scripts, indexes, questions | |

Definitions marked `Mutant:` are plausible mistakes that the model does not make. They sit
beside the definition they replace and show, for each property, that it can fail.

## 3. How the code is modelled

**One action is what a task does between two suspensions.** asyncio switches tasks only where
one suspends, so a longer or a shorter action would be wrong. An `await` that does not suspend
(a free semaphore, a done future) does not end an action. In `EventBus` this gives the chain
`Continue` / `TakeNext` / `BeginDispatch`; in `AppLifecycle` a `stop` that finds a finished
startup task repeats its loop without suspending, which the variable `loop` shows; in
`CordisScope` the recursive `aclose` takes several actions and `loop` holds the event loop for
its task until it suspends.

**Between processes and threads** an action is what one does up to its next change of what the
others see: a file in `InstanceRegistry`, `ConfigWorkspace` and `PluginManager`, the read of one
file in `ResourcePacks`, a transaction of SQLite in `ProfileService`. A process may be killed
between two such actions; the operating system then gives its file lock back.

**Cancellation** is a mark on the task (`cancelled`) that the task receives at its next
suspension. A task cancelled before its first step dies without running any of its `finally`
clauses. A callback may receive its cancellation and go on.

**Timers** are nondeterministic: a timeout may pass whenever the code has armed it.

**Callbacks** (handlers, factories, action executors, providers, disposers, close operations,
sends) are outside the model: they may end, fail, hang and ignore cancellation, and in the run
of the bus with `MayRaise = TRUE` raise `CancelledError` themselves. What a plugin's factory
registers is a script (`FeatureHost!Script`).

**Data** is abstract. An event is a model value with an ordering key; a payload is its size in
slots of the byte budget; a configuration file of a workspace is its version; a plugin version
is a number; a nickname is one of its spellings. Where data is what the code is about it is
kept as far as the code tells it apart: texts of commands and CQ codes are sequences of the
characters that the grammar knows, with one character for any run of others; a configuration is
a function from paths; a pack is its files, each content standing for its bytes and digest.

**Questions.** `Inputs` asks a pure part one question of a bounded set and keeps the answer; the
properties compare the answer with what the question means, said without the algorithm
(`InputsProps`; what accounts and catalogues promise is said in their own modules). A command,
for instance, is built from the items its author meant, in every quoting and option form, with
words before, between and behind the options and "--" at any place or nowhere, and the handler
must be given these items. A message is given in both formats, and both must mean the same.

**History variables**: `admitted` and `released` in the bus (the code's `completed` flag of a
queued event), `made`, `uses`, `tried` and `gone` in the scope, `overtaken` in the feature host,
`told` in registry and plugin manager, `heard`, `issued` and `last` in the OneBot service,
`published` in the packs.

`OrderedDelivery` is implemented through the mapping of `EventBusProps`: who is inside is who
holds an admission (`InBus`), and of two events of a key the one in the hands of the worker is
ahead of what is queued for the key, that is ahead of what is in the ingress queue, and within a
queue the earlier is ahead (`Precedes`). It allows events to be answered or removed out of turn only once the bus is closed, or
within one key when a callback raised `CancelledError`. `AtomicRegistry` is implemented through
the mapping of `CommandLine`: its directory per nickname is read off the records of the
JSON file; the replacement of the file is the moment of the change.

## 4. The runs

`CHECK_DEADLOCK` is off in all runs: a closed bus, a disposed tree, a stopped application or
account, an ended session, an answered question and a finished history of commands rightly do
nothing more.

| Run | Instance | What it shows |
| --- | --- | --- |
| `bus_safety` | 3 events, two with one key, capacity 2, 1 concurrency slot, 2 subscriptions, results with an action, callbacks that may raise, publishers cancelled, both kinds of close | `TypeOK`. `AdmissionAccounting`, `SlotAccounting`: given back exactly once. `NothingStranded`: what the bus owes is in the hands of a task that will serve it. `ClosedMeansQuiet`, `AnswersAreFinal`. `KeepsOrder`: implements `OrderedDelivery` |
| `bus_live` | 4 events, one too large, 1 subscription, callbacks that do not raise | `KeyBarrier`: no operation of a later event of a key while one of an earlier event runs. `EveryoneAnswered`: `aclose` returns whatever callbacks do, and admitted events settle if callbacks end |
| `cordis_scope` | root and plugin scope, a key that depends on another, which depends on itself and may be hidden by the plugin's own, 1 user, 2 closers with 2 calls | `OneInstance`, `CompleteMeansDisposed`, `CloseOrder` (children and dependents first), `NotClosedTwice`, `UsersAnswered` |
| `feature_host` | router, profile feature and a plugin below each other; the plugin's commands extend a path of the resource; the second command of its batch may clash with the router's; the router may take a path of the resource, which the second of its registries then refuses; texts that are a path and texts that go on behind one; 2 events, 1 failing disposer, 1 cancelled caller with its thread, 1 busy database, 2 fields | `RegistriesAgree`, `NothingLeftBehind`, `QuietAfterClose`, `OneFieldAtATime` (no update is lost), `ManagerCloses` |
| `app_lifecycle` | one startup, under run, a debug session, or an embedding program with another caller of stop; 2 calls of stop, 1 cancellation | `StoppedMeansClean`, `CloseOrder`, `NothingForgotten`, `ExitTruth`: no failed or late startup or cleanup is reported as a success. `EveryoneAnswered`: stops and sessions end |
| `snowluma` | 1 caller, 2 slots, queue of 1, events of 1 to 3 slots, 2 starts and closes, 3 connections, 2 events | `SlotsConserved`, also with a dispatcher of an earlier start at the queue. `CleanMeansReleased`: what the account still refers to. `CallsKeepTransport`: who may close the transport under a send, and no call waits on a connection that was replaced. `CallsEnd` |
| `plugin_manager` | 2 bundles, one needs the other, 2 versions with different entry points, 2 configurations, 5 commands, 1 kill | `RecordsSupported`, `ConfigKept`, `SuccessMeansAgreement` |
| `workspace` | 2 processes, one in a container, 2 directories, one of which may turn into a file, 13 commands of which 2 are given, 2 registries and 6 situations to begin with, 1 kill | `RegistryIsAtomic`: implements `AtomicRegistry`. `InitialisedOnce`, `FilesKept`, `BackupFirst` |
| `inputs` | about 15000 configurations of 3 files in 2 directories with environment and command line; 18596 commands; 1183 messages; 2 accounts, 8 payloads, 2 routes, 3 events; 3 packs, 24 workspaces, 3 edits, 2 loads | `StrongestLayerWins`, `CommandsMeanWhatTheySay`, `MessagesSurvive`, `AnswersGoHome`, `CatalogueIsWhole` |
| `cordis_cycle`, `app_stop_spins`, `debug_unbounded` | see section 7 | one statement of a doc or docstring each, violated by the code |

Type invariants are checked for the bus and proved for the bus and the plugin manager; elsewhere
a value of a wrong shape stops TLC.

**The bounds, and why they are enough.**
- *Bus*: two events of one key are what it takes to wait behind another; a third of another
  key competes for the only slot and for capacity; capacity 2 of 3 makes a publisher wait. One
  subscription order suffices, because handlers are kept in a total order; two subscriptions
  let one handler leave a barrier behind for the next. `e1` and `e2` are interchangeable and
  form the symmetry set (in `bus_safety` only: symmetry is not sound for liveness). The
  accounting, the slots and the barrier are proved for all bounds (section 6).
- *Scope*: two levels show every relation of parent and child (the recursion has the same
  form at each level); two closers with two calls show an overlap and a retry.
- *Features*: a chain of three plugins has one to close before another and one to close after;
  the middle one owns the database. Two events give a caller that waits for the lock and one
  that holds it, besides the close that waits for both. Two fields show a lost update. A text
  goes on behind a path with nothing, with words that lead to a longer path, or with others.
- *Application*: the session or a program and a second stopper give a stop that joins another,
  one that follows a failed one and one that runs beside the cleanup of a failed startup.
- *Account*: an event of three slots is clipped to the budget of two; one of two must acquire
  slots one after the other; a second connection, start and close show what the first left
  behind; a third connection gives the account of the second start an event while the
  dispatcher of the first has one in its hands (the first is that of the send at the gate, the
  second ends because a close is waiting there). The invariants are proved for all bounds.
- *Plugins*: five commands are install, disable, enable, a change of configuration and one
  more, so that a stale copy has time to be written back; one kill, at any step of any of
  them, leaves a state that the commands after it must cope with.
- *Workspace*: two commands at the same time or one after the other, of which one may be killed
  anywhere; what they prove of the registry and the files holds for all bounds (section 6).
- *Inputs*: three files give an includer, two siblings and a diamond; two routes and three
  events evict a route while its event is queued; three edits change a pack before, between and
  after the reads of its files.

## 5. Fairness, and why the code justifies it

The event loop runs every ready task and fires every armed timer: weak fairness of what the
program's own tasks do next. It is never assumed that the outside does something, unless the
list says so:

- `EventBus!FairSpec`: the semaphore wakes its waiters, an enqueue timeout passes, dispatcher,
  workers (with their operation timeouts and grace periods) and closer go on. Callbacks need
  not end. The second half of `EveryoneAnswered` has `CallbacksEnd` as a hypothesis of its own.
- `CordisScope!FairSpec`: providers and disposers of plugins end (nothing in the code bounds
  them; `scope.py` awaits them without a timeout), and closers go on.
- `FeatureHost!FairSpec`: the cleanup task and the scopes go on, disposers included; the lock
  is passed on in order; a worker thread runs and ends (SQLite's busy timeout bounds it).
  Factories and handlers need not end.
- `AppSession!FairSession`: while the process lives, the startup and each cleanup go on, the
  deadlines of cleanup and session pass. Nothing is assumed of how long a part takes to close;
  the startup of plugins and adapter ends. `ImpatientSession` drops the last for a startup
  that has swallowed its cancellation: that is what `debug_unbounded` is about.
- `SnowLumaClient!FairSpec`: calls and close go on and their timers fire. Nothing is assumed of
  `_run`, of dispatchers and the callbacks of the host, of the peer, of sends, and of the close
  of a transport: all of them may hang. `CallsEnd` excepts one case, named `TimeoutSwallowed`:
  `asyncio.timeout` cancels once, and a send that swallows that cancellation leaves the call
  waiting for its answer without a bound.

`PluginManager`, `CommandLine` and `Inputs` have no liveness property: a command may be killed
or fail at any step, and a lock that another process keeps is waited for as long as it takes.

## 6. The proofs

**`EventBusProofs`**, for any events, keys, capacity, concurrency, handlers and actions, from
the assumptions `EventsAssumption`, `KeysAssumption`, `BoundsAssumption` (positive capacity and
concurrency, as the constructor demands) and `FlagsAssumption`:

- `TypeCorrect`: `Spec => []TypeOK`;
- `AdmissionsBalance`: `Spec => []AdmissionAccounting`;
- `AnswersFinal`: `Spec => AnswersAreFinal`;
- `AdmissionEndsAtClose`: `Spec => NoAdmissionAfterClose` (in no run: it is proved);
- `Invariance`: the inductive invariant they follow from.

`AdmissionAccounting` is not inductive: a step that releases an event decrements a counter, and
only because that event was admitted and not yet released does the count stay right. So the
invariant also says who is inside: `WaitersWellFormed` (who waits has not been admitted, and
waits once), `InsideAdmitted` (queues and workers hold admitted events only) and
`WorkersWellFormed` (what the local state of a worker says about where it is suspended).
`BusInv` is their conjunction with the types. There is a lemma `...IsGood` for each action that
it preserves `BusInv` and that it changes the admission variables in one of three ways
(`AdmissionStep`: not at all, some admitted events are released, or one event is admitted while
the bus accepts events and has room) and no final answer (`AnswersStay`); one lemma,
`AdmissionStepKeepsAccounting`, then does the arithmetic of cardinalities once.

The second half of `EventBusProofs` has four parts, for the same constants.

`SlotsBalance`, `Spec => []SlotAccounting`, follows the same plan for the concurrency semaphore:
every action leaves the workers that hold a slot alone, lets one take a free slot or lets one
return its own (`SlotStep`).

`BarrierHolds`, `Spec => []KeyBarrier` under `MayRaise = FALSE`. The hypothesis is needed: a callback that raises `CancelledError` itself lets its worker drop its
barriers (section 7). `BarrierInv` has two halves. Until a forced close (`OpenInv`) nobody is
cancelled, an operation of a key is the one its worker awaits or one of its barriers (`Held`),
and each event is in one place only, with its admission (`OnePlace`, `IngressFresh`): so a
worker that takes the next event has waited for all barriers of the last. From a forced close
on (`Frozen`) that no longer holds, but a worker that still awaits an operation is marked
cancelled, so that none begins another one.

`NothingIsStranded`, `Spec => []NothingStranded`, and `CloseLeavesNothing`,
`Spec => []ClosedMeansQuiet`, with callbacks that raise. `NothingStranded` alone does not say why
a queue has a worker when a forced close has marked all of them, nor `ClosedMeansQuiet` why no
worker comes after the drain. `ShutdownInv` adds what each stage of `aclose` has established
(`CloserInv`), that an event is in one place until the drain and in none after it
(`PlacesInv`), that a pending answer belongs to an event that is inside (`AnswerInv`), what a
worker that awaits something can rely on (`Awaited`), and that a worker that outlives the drain
has a cancellation to receive (`QuietInv`). `Serves(k)` is the one description of what a worker
may do to its event, its queue and its mark, which every step of a worker is shown to meet.

`OrderIsKept`, `Spec => KeepsOrder`, is the refinement: every step of the bus is one of
`OrderedDelivery` or leaves its variables alone, also with callbacks that raise. It rests on
`ShutdownInv` and on `GraceInv` (a worker waits out a cancellation of its own only in a forced
close). The argument has two halves. `ServesKeepsOrder` and `DispatcherTurnKeepsOrder` show that
whatever moves an event from ingress to queue to worker leaves the order of the others as it
was (`OrderKept`); this needs that every event inside is in a known place (`NothingStranded`)
and in one only (`PlacesInv`). `Answers(k)` says which events a step of worker k answers, and
with what; `KeyStepRefines` then puts the ways to serve and the ways to answer together, as the
head of a line that is served (`InHandIsFirst`) or as events withdrawn because the bus closes
or a callback raised. `LinesAreOrders` shows that the mapping is not vacuous: at every moment
`Precedes` is a strict total order on the events of a key that are inside.

**`CordisScopeProofs`**, from `TreeAssumption`, for any tree of scopes, any dependencies between
keys, and any number of users, providers and closers:

- `OneInstanceHolds`: `Spec => []OneInstance`;
- `DisposedWhenComplete`: `Spec => []CompleteMeansDisposed`;
- `ClosedOnce`: `Spec => NotClosedTwice`;
- `ClosedInOrder`: `Spec => []CloseOrder`;
- `Invariance`, `OrderInvariance`: the inductive invariants `ScopeInv == World /\ Stacks` and
  `Links /\ OrderInv`.

`World` ties the lists of children and disposers to what was created, made and closed: a scope is
complete or listed by its parent (`Family`), a resource is owned or closed and known until its
scope is complete (`Resources`), a complete scope is empty (`Emptied`). `Stacks` is about the
calls of `aclose`: what each suspended frame relies on (`FrameOK`), and that no child is lost
between the list, the frame's snapshot and the child being closed (`Covered`). It survives the
other tasks because of `Stable`: a closed scope starts no provider and gets no child or
disposer, except from a provider that still runs, which the frame has waited for, and a
disposer leaves its list only into `gone`.

`CloseOrder` needs more, in two cases. A dependent in the same scope stands behind what it uses
in the list of disposers, and the list is called from its end: `Ordered` says so of the list
and of what is left of the snapshot of each suspended `aclose`, except for resources that were
tried (`Called`, `Disposing`). A dependent below lies in a scope that sees this one (`Links`:
what a provider got, or waits for, is in sight of its scope), and `NothingOpenBelow` shows that
such a scope is complete: the scopes that are not complete, without the closing one, form a set
that holds the parents of its members. `Ancestors` is defined for this, without recursion, as
what every such set around a scope contains; `OwnerFound` shows that the walk up to the nearest
provider ends at one when there is any.

**`SnowLumaClientProofs`**, from `AccountAssumption`, for any number of callers, connections,
calls, starts and closes: `TransportKept`, `Spec => []CallsKeepTransport`. Its subject is what
the code does keep: the account's own task for the transport waits for the gate, and `_run`
closes the connection under a send only when that send is one that close has cancelled in vain
(what `docs/specs/onebot-v11-snowluma.md:31` promises beyond that, the code breaks: section 7).
The invariant
`AccountInv` says that an open future belongs to the account's connection or to a call some
close is responsible for (`FuturesOwned`), that a connection is held by the task of `_run`
(`ConnectionOwned`), that a close shuts sends out before it cancels anything (`CloserShuts`),
and that whoever closes the transport holds a closed account until then (`TransportHeld`).
`GateInv` adds that in a closed account a send with the gate is one that close waits for, and
that `_run` leaves a context for good only after close has cancelled it or without a connection.
`CleanIsReleased`, `Spec => []CleanMeansReleased`, needs `ReleaseInv` beside it: the tasks of the
account that are alive are referred to or waited for, also those that a cancelled or late close
let go of (`TasksHeld`), and a transport that is still to be closed shows in the state unless a
close is at work (`StateTells`). It says nothing of the dispatchers that a later start has
replaced, which the account does not count (section 7).

`SlotsAreKept`, `Spec => []SlotsConserved`: the byte budget. The weight of a queue is the last of
its prefix sums, a recursive function. That the prefix sums of any queue exist, and that an event
put at its end or taken from its front changes the last of them by its own size, is shown
without the induction theorems: were it false, there would be a least length where it is (`Least`,
from the well-founded order of the naturals), and the length before it is not one (`Sums`,
`WeightOfAppend`, `WeightOfTail`). `BudgetInv` adds what the equation does not say of itself:
a reservation holds at most what it needs, exactly that when it comes to `put`, and where none
goes on nothing is held (`Holding`). So each way out of `_reserve_event_bytes` and
`_enqueue_event`, cancellation and close included, returns what was taken and no more. Several
dispatchers may take from one queue, and a drain may stop half way (`task_done` raises when a
stray dispatcher has an event of the queue before): `DrainKeepsBudget` says that a drain returns
the slots of exactly what it took off, wherever it stops (`WeightOfRest`).

**`InputsProofs`**, from `RouteAssumption`, for any accounts, payloads and capacity of the
table of reply routes: `ActionsStayHome`, `ChatSpec => []AnswersGoHome`. `ChatSpec` is the part
of `Inputs` that is about events and actions: the step `Chat` of `Inputs` is a `ChatNext`, and
every other step leaves `chatVars` alone. `RouteAssumption` says that the table has room and
that only a payload of a request has a type `request.friend` or `request.group`
(`_normalize_signal_event` begins the type with the post type). `ChatInv` says that events are
known by their numbers (`Numbered`), that a token belongs to one event of one account
(`TokensOwned`), and that the table of a living connection is exactly the newest events with a
token of that connection, oldest first (`RoutesFollow`): that one carries both halves of the
property, that a route leads home and that a route among the newest is there. The first attempt
at the proof failed for a reason: a temporary session whose group id is not a positive integer
has a route, but `send_message` refuses its answer. `Addressable` now says so of the parent too,
and the run's payloads have such a session.

From `PackAssumption`, for any packs, contents of their files, budgets, language files and
numbers of edits and loads: `CataloguesAreWhole`, `PackSpec => []CatalogueIsWhole`. The step
`Load` of `Inputs` is the next-state relation of `PackSpec`, and every other step leaves `packVars`
alone. `PackAssumption` says that the origin of a pack inside a distribution is no name of a
pack in the workspace, that the files of a pack are a function of their paths, and that the
tables of shipped packs and language files are finite. `PackInv` says that a file which was
read for a manifest is one of a tree the pack has had (`WriterSound`), that a manifest which
verifies was written for a whole tree (`ManifestsSound`), that no such tree is forgotten
(`TreesSound`), and that what the load has collected is already as the catalogue has to be
(`LoaderSound`, `CatalogSound`), wherever the files changed under it. The half of the property about
translations does not depend on how the catalogue came to be: `CatalogsSpeak` shows it for
any sequence of packs, since a table of translations updated file by file says of each key what
the last file with that key says. The sums of bytes and the updates are recursive functions of
the length; that they exist, and what their last step does, is shown by the least length that
fails, as for the weight of a queue.

**`PluginManagerProofs`**, for any valid index (`PluginAssumption`), any number of commands and
kills:

- `TypeCorrect`: `Spec => []TypeOK`;
- `RecordsStaySound`: `Spec => []RecordsSupported`;
- `SuccessAgrees`: `Spec => SuccessMeansAgreement`;
- `ConfigIsKept`: `Spec => []ConfigKept` under `StablePoints`;
- `Invariance`: the inductive invariant `TypeOK /\ RecordsSupported /\ CommandSound`.

`CommandSound` says what each step of a command relies on: the records it is going to save are
complete (they contain the dependencies of all they contain), the distributions of those it
enables are there from the step on where they were staged, nothing else needs a bundle that is
being removed, and the table agrees with them. A command that is killed or fails between two
steps leaves `RecordsSupported` true, because distributions are installed before the records
that need them are saved, and uninstalled only once the record is disabled and nothing needs it.
`ClosureProperties` is the lemma on the fixed point behind `resolve` and `_depends_on`.
`MemoryInv`, for `ConfigKept`, says before which step of a command which of its three copies of a
configuration (record, table, what it will save) has what was told last. `StablePoints` says that
a version of a bundle keeps every entry point that versions before and after it have. The run's
index meets it, the code does not ask for it, and without it the property fails (section 7).

**`AppSessionProofs`**, for any number of callers of `stop`, from the assumptions of
`AppLifecycle` and `AppSession`:

- `StoppedIsClean`: `Spec => []StoppedMeansClean`; `ClosedInOrder`: `Spec => []CloseOrder`;
- `PartsAreKept`: `Spec => []NothingForgotten`;
- `ExitIsTrue`: `Spec => []ExitTruth`;
- `AppIsGood`, `SessionIsGood`: the inductive invariants `AppInv` and `SessionInv`.

The properties are not inductive because two cleanups, of a failed startup and of a stop, may be
suspended in the same parts, and what the one observed is stale when it goes on. `FrameOK` says
what each suspended cleanup may still rely on (whoever is at "Cordis" has seen the bus closed),
`Cleaners` which cleanups can exist in which state, `StartupAlone` that nobody brings parts up
beside a stop. `SessionInv` ties the answers of `stop` to the state: a caller that got one was
told what the state says, and only the end of the session sets an exit status.

**`FeatureHostProofs`**, for any chain of plugins, any scripts, events, messages, fields and
words, from `HostAssumption`, `ScriptAssumption` (what the constructors of commands and resources
check), `WordAssumption` and the assumptions of `ProfileService`:

- `NothingStays`: `Spec => []NothingLeftBehind`; `OwnersAreSafe`: its invariant;
- `ServiceIsQuiet`: `Spec => []QuietAfterClose`;
- `FieldsAreApart`: `Spec => OneFieldAtATime`; `ProfileIsSafe`: its invariant;
- `RegistriesAreOne`: `Spec => []RegistriesAgree` under `ResourceAlone`.

`ProfileInv` says who is in the database: one thread, or the caller at the head of the lock that
waits for it (`ThreadsAlone`, `LockHeld`), and nobody after close (`ClosedQuiet`). `ControlInv` is
about activations and scopes: why a scope may be closed (`ClosingsKnown`), who lies below whom
(`Parents`), that nothing comes below a scope that calls its disposers (`BelowGone`), and that an
activation on a closed manager is one that aclose has overtaken (`InFlightOvertaken`); `Sound`
is what a single scope's record keeps. On that rests `FootInv`: whoever is not overtaken holds the
disposer of each handler, resource and command of its own, so that a closed scope, which holds
none, has left none. `ServiceHeld` adds that who called the service has a disposer for it or is
still in the start.

For `RegistriesAgree` the lemmas come first: the registries as values, without any behaviour.
`RegSound` (every path leads to the command that has it, the cached maximum is not exceeded)
implies that the text of a path, whatever follows (`TailsAssumption`: any words), invokes the
command of the longest path it starts with (`PathsInvoke`), and that resolve finds the command of
each path (`PathsResolve`); `AddedSound` and
`WithoutSound` say that a batch and a removal preserve it, `ResourceAdded` and `ResourceRemoved`
the same for both registries. `AgreeInv` carries them through the behaviour: a storage disposer
finds its resource as long as the service is open (`HeldScripted`). `ResourceAlone`, that no
plugin registers a resource and commands of its own, is needed because `unregister_owner` of the
commands would also take those of the resource, which goes only some steps later; the features
of the repository and the run's scripts meet it. `Least`, that a set of naturals has a least
element, stands in for the induction theorems: `MaxOf` and `Bounded` follow from it.

**`CommandLineProofs`**, from `RegistryAssumption` and `CommandAssumption` (what the argument
parser lets through; registries as `_read` accepts them; directories no command has touched),
for any number of processes, nicknames, directories, commands and kills:

- `RegistryImplementsAtomic`: `Spec => RegistryIsAtomic`, a refinement: the step that replaces
  the file is the abstract change, a refusal is the abstract refusal, all others stutter;
- `OneInitialises`, `BackupsComeFirst`, `FilesAreKept`;
- `Invariance`: the inductive invariant `RegistryInv /\ WorkspaceInv /\ CliInv`.

`RegistryInv` says that the lock has one holder, who is going to write its change of exactly
what the file still says. `WorkspaceInv` is an assume-guarantee argument: each process `Relies`
on something in its directory (init, that the file it created is partial or current; upgrade,
that the backup is there), and whatever step any process takes, a directory only gets `Later`.

Only model-checked, in their instances:

- all liveness (`EveryoneAnswered` of the bus and of the sessions, `UsersAnswered`,
  `ManagerCloses`, `CallsEnd`), which is out of the reach of the provers;
- of `Inputs`, the three properties of its pure parts: `StrongestLayerWins`,
  `CommandsMeanWhatTheySay` and `MessagesSurvive` are about recursive algorithms (`LoadFile` over
  files that include files, `SplitAtCommas`, `CqSegments`) whose modules no proof may reach, and
  their questions are those of the instance.

## 7. What the checks found

Each is a statement of a doc or docstring that the code does not keep, shown by a run.

1. `cordis_cycle`: two tasks that resolve two mutually dependent providers at the same time
   wait for each other; the cycle is not detected.
2. `app_stop_spins`: a `stop` called after a startup task was cancelled before its first step,
   and before its done callback ran, never suspends: the event loop hangs.
3. `debug_unbounded`: the cleanup of a debug session is not bounded while a startup swallows
   its cancellation: the cancelled `stop` swallows its own.

Other behaviour that modelling brought to light, without a run of its own. The model has it in
each case, or the property excepts it by name:

- *Bus.* A forced close cancels a worker that waits for a slot before its event is resolved, and
  the publisher gets `CancelledError`, not the status `closed` (`bus.py:593`). A callback that
  raises `CancelledError` lets its worker leave without its barriers (`bus.py:348`).
- *Account.* Four ways in which the code does less than `docs/specs/onebot-v11-snowluma.md:31`
  and `:35` say (TLC found each as a counterexample to that sentence on `SnowLumaClient`).
  Close leaves the transport of a send that ignores its cancellation to a task that waits for
  the gate, but `_run`, cancelled as well, leaves `async with connect` and closes it at once
  (`client.py:376`; the second part of `CallsKeepTransport` says when). A close that is cancelled
  while it waits for its tasks does not drain the queue, and the account reports `stopped` with
  an event in it (`client.py:657`). A second close reports `stopped` while a task that the first
  one left behind still runs (`client.py:235`). After a close that was cancelled at the gate, a
  start replaces a dispatcher that still runs, on the new queue and uncounted (`client.py:155`;
  `strays`, which `CleanMeansReleased` excepts). Besides, a `_run` that gets the gate after a
  cancelled close goes on (`client.py:384`). A reply token dies with its connection though its event may still be
  queued (`client.py:503`).
- *Plugins.* A configuration cleared while its bundle was enabled comes back from an old copy in
  `plugins.json` (`plugin_manager.py:730`). An upgrade whose version drops an entry point leaves
  it in `[cordis].enabled` (`plugin_manager.py:637`). If a later version has the entry point again,
  what was configured for it may not be found: `disable` of the version without it looks only at
  the entry points of the record and leaves the rest in the file (`plugin_manager.py:652`). `ConfigKept` is checked and proved for indexes
  where that does not happen (`StablePoints`).
- *Features.* `aclose` beside a suspended factory lets the factory register what nobody removes
  (`core.py:134`; `overtaken` in `FeatureHost`). A command that was found before a suspension is
  still invoked when its plugin is gone by then.
- *Registry and workspace.* A registered directory that turned into a file makes the registry
  unreadable for every command (`instances.py:223`). `instance list` reads the registry twice
  (`cli.py:585`). An init that is killed leaves an empty `liteyuki.toml`, which asks for an
  upgrade.
- *Conversions.* A number in the data of a medium or of a foreign segment stays one in the array
  format and is a text in the CQ format (`core.py:304`, `core.py:251`); `MessagesSurvive` excepts
  it by name. A media segment with both `url` and `file_id` loses the url on its way back.
  Quotes do not keep a token that starts with "-" from being read as an option; "--" does.
  `explain` of a table that is empty by default knows the default layer only.
- *Packs.* `metadata.yml` is read apart from the verified files (`resource_packs.py:862`), so the
  id and the icon of a pack need not be those of the tree that was verified; `CatalogueIsWhole`
  speaks of the files.
- *Kernel.* `ManagedTasks.stop` puts its timeout around a `gather` that ends only when all tasks
  have (`tasks.py:95`); read, not modelled.

## 8. What is not modelled

Within modelled components:
- *Bus*: payloads, logging, the texts of failures, the byte count of an event (`Oversized`).
- *Scope*: type errors of arguments, and an `aclose` that a provider or disposer calls on its
  own scope.
- *Features*: the actions that handlers collect in their session, loading of entry points, the
  texts of replies, and rows of more than one principal (they are independent). A scope inside
  `FeatureHost` is what `CordisScope` promises and not `CordisScope` itself.
- *Application*: labels of features, status and topology snapshots, the action wrapper.
- *Command line*: the grammar of its arguments, its output, and commands that only inspect.
- *Account*: request bodies and the texts of errors.
- *OneBot service*: its start, close and status, which call those of the accounts in turn.
- *Plugins*: document validation, wheel selection, distributions shared by bundles, yanked
  versions, and two commands at the same time.
- *Configuration*: YAML and TOML syntax, texts of issues, redaction, rendering.
- *Packs*: lexical rules of names, JSON and PNG syntax, and the manifest's own bytes in the
  budgets, which in the code leave less room for the other files.

Components left out, with the reasons in `PROJECT.json`: kernel tasks, services and actions
(only tests use the managed tasks so far), the feature catalogue (an order of activation and
texts), the legacy bridges (not part of the application), release scripts and editor tooling.

## 9. The plan

Written, in this order, the most important behaviour first: `EventBus` with its abstract
specification and proofs, `CordisScope`, `AppLifecycle`, `SnowLumaClient`, `PluginManager` with
its proofs; then `FeatureHost` with registries and profile service, `AppSession`, `CommandLine`
with the registry, the workspace and their proofs, `Inputs` with the pure parts, the proofs
of slots, barrier, transport and scopes, those of the shutdown of the bus, of the application
and of the features, the refinement of the bus, and the proofs of the order of closing, of the
byte budget, of where answers go and of catalogues.

Next, in order:
1. `OneBotService` start, close and status over an abstract account (clean, pending or failed
   after a close), and that `SnowLumaClient` implements this account.
2. `PluginManager` with two commands at the same time, and its documents.
3. `KernelServices`: managed tasks, service registry, action routing.
4. `CordisScope` in `FeatureHost`, as a refinement of the scopes there.

Abstract specifications worth stating: the account of 1, "a tree of resources closed in
dependency order" for the scope, "up, cleaning, clean" for the application.

Theorems worth proving next: that a CQ text read back is the message it was written from, and
that an item of a command survives quoting, with the two scanners as recursive functions of the
position instead of operators.
