# ShelvesHub in TLA+

ShelvesHub is a daemon that injects the Deck Shelves bundle into Steam's CEF
renderer over the DevTools protocol, hosts the bundle's Python backend, serves a
loopback RPC to the injected runtime, and keeps the bundle and itself up to date.
This directory holds TLA+ models of its parts, the TLC runs that check them on
small instances, and the proofs that TLAPS checks for every instance. Everything
is translated from the source; docs and comments are used only as statements to
hold the code to.

## 1. The system

| Part | Source | State | Operations | Modelled in |
|---|---|---|---|---|
| Injection loop | `loader/mod.rs`, `loader/coop_safety.rs` | locals of `run`: collapse counter, settle clock, pause and hot-swap watches, safe mode; locals of `tick` | one iteration: discovery, gates, tick, tally, swap watch, sleep | `InjectionLoop`, `InjectionSpec` |
| Renderer and other loader | `runtime/shelves-host*.js`, Steam, the other loader | globals of the page, UI on screen, localStorage breaker | evaluates of the daemon; reloads, collapses, restarts; the loader's boot | `SteamRenderer` |
| Python backend host | `backend.rs`, `runtime/backend/shelveshub_backend.py` | mutex, child, pipes, request ids, time of last spawn | data call, restart, status; the runner reads, replies, hangs, dies | `BackendHost`, `DataService` |
| Settings store | `store.rs` | primary, backup and temp file | load with repair, save | `SettingsStore`, `SettingsCell` |
| Updates | `loader/mod.rs`, `populate.rs` | bundle file, tag on record, binary, runtime, notice, single-flight flag | periodic and manual check, download, staging, restart | `Updates` |
| RPC server | `rpc.rs` | token, connection threads | dispatch of some forty methods | the methods that act on the parts above |
| Shared state | `state.rs` | atomics and cells | reads and writes | variables of the modules above |
| Host runtime in the page | `runtime/shelves-host.js`, `runtime/shelves-host-api.js` | webpack modules found, `UI`, scan and augment tasks, routes and patches, pruned navigation nodes, side-menu intervals | evaluate, chunked scan, signal, route registration and render, teardown | `SteamUi`, `RouterHook`, `ReactTree`, `HomeNav`, `SideMenu`, composed in `RuntimePage` |
| Bundle gate | prelude in `loader/mod.rs` | poll counter, interval and boot function in globals of the page | wait for `host.ui`, boot, teardown | `BundleGate`, composed in `RuntimePage` |
| Native QAM tab | `runtime/shelves-host-qam.js` | trip breaker, patch, retries, tab, registered panels | patch, insert, arm and clear, register | `QamTab`, composed in `RuntimePage` |
| The hub's panel | `runtime/shelves-host-qam.js`, with the RPC methods it calls | slot and error boundary, optimistic preferences, busy flag, armed restart, log viewer | presses, replies, timers | `PanelSlot`, `RuntimeLog`, composed in `HubPanel` |
| Config file | `config.rs`, two RPC handlers | JSON file | read at start, read-merge-write | planned |
| Preload mode, DevTools client | `loader/preload.rs`, `cdp/` | backoff, ids and replies | alternative loop; request matching | planned |
| Tray, devtools, report, boot movie, logger, installers, site | | none the daemon depends on | | not modelled |

How they interact. The loop thread drives DevTools and reads the bundle file.
RPC threads set the pause flag and restart the backend, write settings, and start
manual update checks; each connection has its own thread and little is locked.
The update check replaces the bundle file, which the loop's hot-swap watch
notices by its modification time. The daemon can die at any point and start
again over a page, files and a backend it does not remember.

What is hard here: the loop acts on a page that Steam, the user and another
loader change between any two of its round trips; ownership of that page is a
protocol of unsynchronised globals; a reply can be lost after the effect; the
child of the backend is shared by threads and may answer late or never; files are
rewritten in place while other threads and crashes come in between. Inside the
page the daemon's evaluates, timers of the runtime, renders of React and chunks
that Steam loads at its leisure follow each other in any order, instances of the
bundle are swapped under them, and the page may be thrown away with only
localStorage left; the panel's calls are served by threads of their own and come
back in any order.

What makes each part correct:

- loop and renderer: one copy of the bundle per page, a foreign claim is
  respected, a paused page is clean, a changed bundle is not forgotten, one
  recovery per outage, cooperative mode recedes under trouble and for good, and
  what is configured is eventually on the page;
- backend: calls do not mix, an answer is the answer of that call, nothing runs
  after its caller was told of a failure, and every call comes back;
- store: settings survive failures, crashes and power losses; readers see whole
  files;
- page: the bundle boots once and on the whole `host.ui`, a swap leaves one owner
  of the home and the screens of the newest instance, the tab is in the menu once
  and only where no dead session warned against it, what the pruning takes out of the
  home comes back when it is shown (until a hot swap stops the pruning), no
  interval fights the user;
- panel: what it shows is what the daemon has once its calls are back, its busy
  flag returns unless the daemon never answers, an update or a warning reaches an
  open view;
- updates: one check at a time, a tag that never hides a release, binary and
  runtime that move together, a truthful notice, eventual freshness.

## 2. Modules

- `SteamRenderer` is the page. `page` is a record of the globals the daemon and
  the runtime read and write (`__SHELVES_LOADER__.injected`,
  `__DECK_SHELVES_OWNER__`, `__SHELVES_HOST__`, `__SHELVES_QAM__`, the stamps, the
  token the runtime captured) with the number and version of the bundle instances
  alive, whether `host.ui` is ready, and the gate of the last evaluate: idle, waiting,
  or an interval that nothing stops. `EvalRuntime`, `EvalBundle` and `EvalTeardown`
  are what the three scripts do to it; `EvalBundle` boots at once or leaves a gate
  that `GateBoots` opens, a teardown does not stop, and the history `crossed`
  remembers whether one met it. Its actions are Steam, the user, the page's own
  timers and the other loader.
- `InjectionLoop` extends it with the loop thread. `pc` walks through
  `discover, gate, probe, owner, loader, tab, stamp, native, read, runtime, bundle,
  marker, confirm, tally, swap, sleep`; every DevTools round trip is an action, so
  the environment acts between any two. A round trip can be refused (no effect) or
  lose its reply (effect, error), as `Faults` allows.
- `InjectionSpec` adds the histories, the fairness and the properties;
  `MCInjection` the model values; `InjectionProofs` and `HostingProofs` the proofs.
- `BackendHost` is `backend.rs` as RPC threads run it: the mutex is held from the
  health check to the reply; a timed-out call kills the child. `DataService` is
  what a caller is promised; `BackendHostProofs` proves it.
- `SettingsStore` cuts load and save at every file operation, over inodes and names,
  so that two writers can hold the same file and a rename moves what somebody still
  writes. Writes fail, and with `"read"` among the faults so does the read of a file
  that is good, which the code takes for a missing one. `SettingsCell` is the durable
  cell it should be; `MCStore` holds symmetries, `StoreProofs` the proof of the
  refinement.
- `Updates` is the check from `try_begin_update_check` to the staged binary, with
  the setters that write the same settings, new releases appearing meanwhile, and
  restarts whose `EnsureBundle` takes an installed loader's bundle, of any release,
  where none is left.

- `SteamUi` is the webpack the runtime captures and its chunked search: modules
  that are there, late or never loaded, the steps of the scan and of the augment
  tasks one per timer, the components they give, `__SHELVES_UI_READY__`, and the
  deferred search for `Focusable`.
- `BundleGate` is the prelude the loader wraps the bundle in, with its globals
  shared by every evaluation, and the teardown of the mounted instance.
- `QamTab` is the breaker in localStorage, the wrap of Steam's tab-list consumer
  and its retries, the insertion and the queue of early panels. `RouterHook` is
  the registry of routes, home patches and the bridge, the one-time insertion of
  the wrapper (one forced render, which may find no ancestor to force and then is
  missed for good), its cached arrays and its re-render by React state. Both use
  `ReactTree`: when a patched component type reaches a mounted node.
- `HomeNav` keeps Steam's tree, the record of what was pruned and the interval with
  its two passes, put back what is shown and take out what is hidden, which the
  teardown of the first instance stops; `SideMenu` closes Steam's main menu during the boot.
- `RuntimePage` composes these into one renderer page after another: the runtime's
  evaluation from its first line to its last is one action (one turn of the page's
  thread), the gate's polls, the scan's steps and every timer and render are
  others, and `NewPage` throws all but the breaker away. `Hosts` says which modes
  publish a host the bundle can register with, `TickHosts` in which pages the tick
  injects, be there a host or not. `MCPage` lists machines.
- `UpdatesProofs`, `PageProofs` and `BootProofs` prove about `Updates` and `RuntimePage`.
- `RuntimeLog` is the queue of warnings and the bounded ring they end up in, between
  the lines the daemon logs itself, one for each request; a viewer reads the newest
  `Window` lines, and `gone` records what nobody can read any more. `PanelSlot` is
  the tab's content (plugin editor, hub view, or the hub in place of an editor that
  threw). `HubPanel` extends both with the panel: every request is a record in
  `calls` that is served, refused, answered or lost in any order, or waits in the
  daemon for ever (`Hang`: curl without a limit, the backend's mutex); an update check
  loads the settings, downloads, and saves what it loaded. `use` chooses what
  the user does in a behaviour, so that each pair of features that can meet meets
  without the product of all; `MCHubPanel` lists the choices and `PanelProofs` proves.

Operators whose comment begins "A slip for" are not part of any specification:
each is a plausible mistake in the definition that follows it, and the property
named beside it in `PROJECT.json` fails when the definition is replaced by it.

## 3. Runs

| Run | Instance | Shows |
|---|---|---|
| `MCSoleHost` | no other loader; Steam restarts, collapses, desktop, pause, two bundle versions | single copy, clean pause, no lost hot swap, marker only over a bundle, hosted in the end |
| `MCCoexist` | other loader, no force; restarts, page reloads, one daemon crash, lost replies | a foreign claim stands and shuts us out; the tab gets there |
| `MCCooperative` | force with safe mode; collapses, page reloads, breaker | receding is final and does come; one recovery per outage |
| `MCBackend` | 2 threads, 3 calls, one larger than the pipe | mutual exclusion, refinement of `DataService`, every call ends unless a write blocks |
| `MCStore` | 1 thread; failed writes, crashes, power losses, damaged primary | refinement of `SettingsCell` |
| `MCUpdates` | loop and one RPC thread, 3 bundle and 3 hub releases, 1 restart | the five update properties |
| `MCPage` | ten machines: sole with late or missing modules and three client shapes, beside a loader with and without force or tab, a loader that comes and goes, a bundle with screens, a home with sections, a side menu; 2 bundle instances per page | the eleven properties of the page |
| `MCHubPanel` | sixteen choices of use; 3 presses, 2 calls in flight, 1 lost or hung, a ring of 3 lines and a window of 2 | reconciled preferences, busy flag, status and log lines that arrive |
| `MCStaleToken` | daemon restarts under a hosted page | **violated** `HostedPageAuthenticates` |
| `MCUpdateFails` | an update whose download fails | **violated** `WorkingBundleStays` |
| `MCGateTwice` | a swap while the gate waits | **violated** `NeverTwoInstances` |
| `MCStaleRoute` | an instance that registers the path of the one before | **violated** `ScreensAreCurrent` |

The violated ones state what a comment or a document says; `PROJECT.json` quotes
it and says how the code differs.

Bounds. `MaxVersion` (2 where bundles are swapped) tells the old bundle from the new
one; `MaxCopies` 2 tells one from several; `Settle` 1 or 0 and thresholds of 2 let
"not yet", "just now" and "after" occur; `MaxBoot` 1 gives a daemon that remembers
nothing. Two threads are enough for a mutex and a flag to fail, three calls for a
late reply of the first to meet the second and the third. The store needs three
inodes for one thread (primary, backup, temp), five for two; two settings of
different length tell old, new and mixed text apart. Three hub releases are needed
for an update staged over a staged one, three bundle releases for a tag that is
ahead of a loader's copy and behind the newest. In the page, caps of the code (600
gate polls, 1200 patch attempts, 400 router tries, 400 misses, 6 closes, 10 s)
become 1 to 4, enough to be reached and not to be; two instances tell a swap; two
tab lists tell one with Steam's Performance tab from one without. `RenderGap =
FALSE` in `MCPage` keeps a registration out of the gap between the wrapper's first
render and its effect, where it stays off the screen (section 5); a swap into a
waiting gate happens, and what comes of it is the exception `crossed` of
`OneInstance` and `HomeHasOneOwner` (`MCGateTwice`). In the panel two calls are
enough for a reply to overtake another, three presses for an edit and a confirmed
restart, a queue of one for a second entry to push the first out, a ring of three and
a window of two for a line to be in the ring and out of sight, and to leave either
before it was read. The runs' state spaces go from some thousands to little more
than a million states and are explored completely.

Fairness. The loop (`WF` on its next step): every wait in it has a timeout and it
runs in a thread of its own; a gate's interval fires within its polls (`WF` on
`GateBoots`); Steam, the user and the other loader owe nothing.
The backend: a thread that holds the lock goes on (`WF`) and `std::sync::Mutex`
does not starve one waiter for ever (`SF` on `Acquire`); the runner owes nothing,
which is why `EndsUnlessWriteBlocks` has an antecedent. Updates: a check goes on to
its end (`WF`), and the loop begins, again and again, checks during which network
and disk work (`SF`); without such checks no update can be promised. `curl` is
called without a time limit, so the first half is an assumption about the
network, listed among the hazards. The store has safety properties only.
The page: its timers share one thread and each keeps firing while the page lives
(`WF` on their union, on the pruning interval and on the side-menu interval); Steam's
chunks, renders and menus, page deaths and the daemon owe nothing. The panel: of the
requests that do not hang the oldest is served and answered or lost (`WF` on
`OldestGoesOn`), the refresh and log intervals, the flush timer and its call go on
(`WF`); whether a call that downloads or needs the backend ever returns is left to
chance, and `BusyReturns` excepts it; the user, the updater and restarts owe nothing.

## 4. Proofs

`tlapm` on the eight modules below checks, for any number of threads, calls, releases
and restarts, any cooldown, request sizes, configuration, thresholds, machines, caps of
the page's timers, queues and presses of the panel, and any fault model but where a
theorem excludes one. Every invariant and action property that a passing run checks is
the property of a theorem, and so are the two refinements.

- `BackendHostProofs`: type correctness, mutual exclusion (`OneCallAtATime`),
  `AnsweredMeansRun`, `QuietBetweenCalls`, and that `BackendHost` implements
  `DataService` (every step maps to a step of it or a stutter, the count of runs
  included, so a run after a reported failure maps to nothing). None of these is
  inductive. The invariant `Inv` adds that calls in progress are distinct,
  numbered and unanswered (`CallsOpen`, `CallsDistinct`, `Unissued`) and that the
  one line in the pipes is the one the waiting thread expects, request, work and
  reply excluding each other (`InFlight`). One lemma per action shows it kept.
- `InjectionProofs`: type correctness of the loop (with `StreakOK`, a streak at
  the threshold has receded, without which the bound on the strikes is not
  inductive), `ClaimStands` (no step rewrites the other loader's claim; the
  lemma `RuntimeKeepsClaim` is about the injected runtime, and `ClaimedByLoader`
  says that a claimed page has its loader) and `RecedeIsFinal` (with
  `RecededForGood` and `ForceVerdictStands`: what a tick decided about force before
  the recede is not acted on in a page born after it).
- `HostingProofs`, of the same loop, what it does to the bundle it hosts. Unlike the
  three before, most of these fail under some failure or event; each theorem excludes
  what the table says, and with any one of these allowed again TLC finds a
  counterexample (section 5 describes the telling ones).

  | Theorem | Property | Excluded | Argument |
  |---|---|---|---|
  | `MarkerHasBundle` | `MarkerMeansBundle` | page reloads | `Marked`: a tick about to write the marker is still in the page it gave the bundle, running or in a gate |
  | `PauseIsClean` | `PausedPageIsClean` | refused round trips | `Paused`: from the reload of the pause to the first open gate the loop is at a point that evaluates nothing |
  | `OneCopy` | `SingleCopy` | refused and lost round trips, daemon crashes; and swaps together with reloads or with a loader but no `native_qam` | `Single`: a copy, or a gate that will boot one, has a marker, or its marker is next; with swaps `HostBeneath` or `Tenant` says why the teardown finds a host to end the copy with; a page where a swap met a waiting gate is `crossed` and excepted by the property, as `MCGateTwice` shows it must be |
  | `ChangeIsPending` | `SwapStaysPending` | refused and lost round trips, daemon crashes | `Watching`: what the page runs, or the tick has read, is on disk or still `Noticed` by the watch |
  | `OneRecovery` | `OneRecoveryPerOutage` | refused round trips, restarts, daemon crashes | `Spent`: after the command the streak stays past its threshold while the UI is collapsed |
  | `ShutOut` | `ClaimShutsOut` | nothing | a tick past its probes has `HostPathTaken`; `Probed` and `Configured` say what the others carry |
  | `HostsAlone` | `NeverHostsOverRunningLoader` | force with its safe mode | without force `BootedIsClaimed`: a loader that runs its copy owns the page; with it `ForceStands`: it never recedes |

- `StoreProofs`: type correctness for any number of threads, and for one thread, with
  every fault of the model but the failed read of a good file (`ReadsWork`; without it
  a load rolls the cell back, section 5), that `SettingsStore` implements
  `SettingsCell` (`StoreIsACell`): of the file operations of a load and a save only
  the rename of a save changes what a load finds, and what a power loss brings back is
  a value the cell had. `Solo` is the invariant: where the thread stands and what its
  file holds there (`Progress`), and that a readable copy is on the disk whenever
  another is being rewritten (`CopyLeft`). `Moves` states the cell's steps in terms of
  files. `NoHalfWrites` is the guarantee `NeverHalfWritten` for one thread without
  power loss and without such reads; no run has it as a property, and two threads
  break it (section 5).
- `UpdatesProofs`: type correctness, `SingleFlight`, `TagHidesNothing`,
  `StagedIsOnDisk` and `RuntimeMovesFirst`. `TagHidesNothing` (a tag that makes a check
  find nothing is over the newest bundle) is far from inductive: the tag comes from
  the check, from a setter's older copy, or stays while the bundle is replaced, lost
  in a failed download, or copied from another loader in any release, so that tag and
  bundle have no fixed order. `TagsInOrder` is what does: a setter's draft, the tag on
  record, the newest release; `BundleHalf` follows the order in which a check learns
  of releases (tag on record, tag read, release resolved, release fetched, the newest)
  and says that what it is about to record is not newer than what it wrote. `HubHalf`
  says the same of package, runtime and binary, and `OneRunner` keeps every other
  check out meanwhile.
- `PageProofs`: `OneInstance`, `HomeHasOneOwner`, `TripStandsDown` and
  `BreakerEngagesAloneOnly`, for any machine. `Boots` says of a page with our host in
  which no teardown met a waiting gate that what waits is the gate's own interval,
  that it waits only while nothing is mounted, and that nothing of an instance is
  there without the marker. Both exceptions of `OneInstance` are needed: a swap into a
  waiting gate is `MCGateTwice`, and where the runtime stood down or only has the tab
  (`~Hosts`) there is no host whose teardown could dispose of the instance before
  (`Teardown`). `Owners` says that the home is marked whenever it has gone through a
  patch. `Quiet` is the strengthening of `TripStandsDown`: with the native path off no
  patch, no retry, no mounted consumer from after a patch and no wrapped component
  below is there from which the tab could come. `SettledIsCurrent` proves
  `SettledPageIsCurrent` under `~RenderGap` (section 5): `Current` says that what is
  registered is on screen or a bump is due as soon as the wrapper is inserted, and
  that only an inserted wrapper listens.
- `BootProofs`: `FullSurfaceAtBoot`, for machines whose React is not among the late
  modules (`ReactIsEarly`, true of every machine of `MCPage`; were React to come first
  and alone, the scan would begin without the rest). `Scanned` follows the signal back
  from the boot to the last augment task, the scan and the cache it began with;
  `CacheGrows` says that no search or load takes a module away again. `FirstClassTab`
  proves `TabIsFirstClass` where Steam's tab enum is not late either (`EnumIsEarly`,
  true of the same machines; with the enum late, or React late, a page can patch
  before it knows the enum and the tab is inserted without its key). `Insertion` and
  `PushedTidy` are about `InsertAt` and the two lists Steam gives; `Listed` keeps
  every list that reached the menu tidy through renders, mounts and patches, and
  `Known` and `Hooks` say that a page that patched knew the enum.
- `PanelProofs`: `PrefsReconcile`, for any choice of use and any bounds, also those at
  which calls pile up or hang. `Trusted` says of every call in flight what its reply,
  or its loss, will teach an open panel: at most one call speaks of the settings, and
  it carries the stored ones, in its answer when it was served and in what it is
  undone to when it was not. The four ways in which the code breaks that (calls that
  overlap, an edit refused after it was shown, a reply lost after the change, an update
  check that saves back older settings) set `tainted`, as does the loss of the first
  `getConfig`. `Joined`
  and `Removed` are the lemmas on queues of calls that grow at the end and lose any one.

The assumptions are those named in the modules (`RendererAssumption`,
`LoopAssumption`, `BackendAssumption`, `NoOneAssumption`, `StoreAssumption`,
`UpdatesAssumption`, `GateAssumption`, `QamAssumption`, `RouterAssumption`,
`MenuAssumption`, `PageAssumption`, `LogAssumption`, `PanelAssumption`): constants
have their types, and no list of Steam's holds our tab or one of its own twice (each
tab of Steam's has its own key).

Only model-checked: everything temporal beyond `[]`, that is `HostedEventually`,
`CoexistTabEventually`, `ChurnRecedes`, `EndsUnlessWriteBlocks`, `UpToDateEventually`,
`BootsEventually`, `ScreensArrive`, `SectionsReturn`, `MenuLeftAlone`, `BusyReturns`,
`StatusArrives` and `LogsArrive`: liveness and ENABLED are outside what the prover
handles. Nothing is stated about the types of `RuntimePage` and `HubPanel`: the proofs
about them carry the few types they need.

## 5. Where code and words part, beyond the runs

Each of these shows by changing a configuration above:

- `NeverHostsOverRunningLoader` in `MCCooperative` with `Events <- BreakerOnly` and
  `Settle = 0`: force recedes in a page the hub itself had claimed, the next tick
  takes its own claim for a sole host's and boots the bundle over the loader's copy
  (`loader/mod.rs:790`; `loader/mod.rs:778-780`, `CHANGELOG.md:39-44`).
- `EveryRequestEnds` in `MCBackend` with `MaxCalls = 1` and `LargeCalls = {1}`: a
  runner that stops reading blocks `write_all`, which has no timeout, under the
  mutex (`backend.rs:167`; `backend.rs:13-14`).
- `NeverHalfWritten` in `MCStore` with `Threads = {t1, t2}`, five inodes, no faults
  and `ThreadSymmetry`: two savers share the one temp name and the first renames
  what the second has just truncated (`store.rs:135`; `store.rs:124-126`).
- `SingleCopy` with `Faults = {"lost"}` in `MCSoleHost`: the bundle ran but its
  evaluate timed out, so no marker is written and the next tick injects again
  (`loader/mod.rs:877`; `CHANGELOG.md:209`).
- `PausedPageIsClean` with `Faults = {"refused"}`: the only reload of the
  transition into pause failed (`loader/mod.rs:276`).
- `SwapStaysPending` with `Faults = {"refused"}`: the watch has moved on before
  the teardown is tried (`loader/mod.rs:419`).
- `MarkerMeansBundle` with `"reload"` among the events: the page navigates between
  the bundle's evaluate and the marker's (`loader/mod.rs:1156`).
- `OneRecoveryPerOutage` with `Faults = {"refused"}` in `MCCooperative`: a failed
  discovery inside the outage starts the count over (`loader/mod.rs:264`).
- `SettledBeforeHosting` with `"reload"` and `Settle = 2` in `MCCoexist`: the settle
  clock outlives the page it measured (`loader/mod.rs:820`;
  `docs/architecture.md:121-125`).
- `SettledPageIsCurrent` with `RenderGap = TRUE` and `Worlds <- SwapWorld` in `MCPage`: a
  registration or a removal between the wrapper's render and its effect bumps nobody
  (`shelves-host.js:1018-1023`).

- `SectionsReturnAlways` with `Worlds <- SectionWorld` in `MCPage`: a hot swap while a
  section is hidden stops the interval that would put its node back, and the
  re-injected runtime never starts it again (`shelves-host-api.js:485`; 408-409: "each
  is recorded and put back the moment its element is visible again").
- `HealsOnlyDamage` with `Faults = {"read"}` and `Damaged = FALSE` in `MCStore`: a good
  primary whose read fails once is taken for a missing one and the older backup, or
  the defaults, are renamed over it (`store.rs:110`; `store.rs:74-75`: "healing from the
  backup when the primary file is missing or corrupt").
- `PrefPersists` with `Uses <- RevertedUse` in `MCHubPanel`: an update check loads all
  settings, downloads, and saves that copy, so a preference stored meanwhile is put
  back although its reply confirmed it (`loader/mod.rs:481`;
  `shelves-host-qam.js:647-649`).

Of the page, read in the source and visible in the modules:

- the guard at `shelves-host.js:54-56` returns before anything is installed, so the
  re-injection that `loader/mod.rs:674-675` describes never brings a new runtime; but
  the side-menu closer above the guard starts again with every evaluation, so after
  a hot swap a menu the user opens is closed for up to ten seconds
  (`shelves-host.js:12-13`: "a later user-opened menu is never fought");
- beside a loader the first insert clears the breaker a sole session tripped
  (`shelves-host-qam.js:999`); a session that dies within `STALE_ARM_MS` of the one
  before never trips it (`shelves-host-qam.js:37-59`);
- without React at the evaluation the scan never starts, `__SHELVES_UI_READY__` never
  comes and every gate runs to its cap; `Focusable` is searched once;
- the nav pruning's stop handler is an unmount handler of the first instance, and
  the guard keeps it from starting again: after a hot swap no section is pruned, and
  the nodes that were out of the tree stay out (`shelves-host-api.js:476-486`, the
  exception `~pruning` of `SectionsReturn`);
- the one forced render that brings our screens into a router that is already
  mounted finds no class ancestor on some trees, logs that and is not tried again:
  the screens wait for Steam to render by itself (`shelves-host.js:1111-1124`,
  `forced = "missed"`, the exception of `ScreensArrive`);
- where the runtime stood down, or only has the tab, there is no host to tear the
  bundle down with: a tick that injects there all the same gets a second instance at
  the next swap (`TickHosts`, the exception `Hosts` of `OneInstance`);
- removing the last route leaves its array in the route list
  (`shelves-host.js:925-946`); a router that mounts late shares one count of tries
  among the polls of all registrations, which therefore give up early
  (`shelves-host.js:1131-1135`);
- an error boundary that has caught an error keeps its fallback when a sound panel is
  registered after a broken one (`shelves-host.js:698-719`, `PanelSlot.Boundary`);
- two patches on one component type undone in registration order leave the first one
  in place (`shelves-host.js:760-779`).

Of the panel:

- the echo of a preference lacks the update status, and `setCfg(r.result)` takes it
  whole: the notice goes until the next refresh (`shelves-host-qam.js:656-658`,
  `Echoed`);
- only a rejected promise undoes an edit; `{ok: false}` or a 401 leaves it shown, and
  the runtime configuration's edits are never undone (`shelves-host-qam.js:268-274`);
- a busy "restart" is never given back; the viewer's own refresh and clear ignore the
  flag, so two calls share it; a poll in flight reopens the viewer after B
  (`Viewing`); the first `getConfig` may overwrite an edit made before it came.

`PrefsReconcile` holds outside the cases its `tainted` names (section 4), and
`BusyReturns` but for a call the daemon never answers: `fetch` has no limit, and
neither have curl (`populate.rs:1107`) and the wait for a backend whose writer is
blocked (`backend.rs:167`).

Of the daemon, read in the source and visible in the modules: its list of loader
globals is narrower than the runtime's (`loader/mod.rs:965`,
`runtime/shelves-host.js:129-141`); confirmed collapses count against force even
with no loader (`loader/mod.rs:246`); an armed breaker counts as a tripped one
(`loader/mod.rs:955`); a status query waits behind a data call (`backend.rs:92`);
a preference set during a download is overwritten by the check's save
(`loader/mod.rs:481`: `UpdaterSaves`, and `SaveTag`, which writes
`local[th].auto`); a half-copied runtime
stays beside the old binary (`populate.rs:1031`: `HubFails` leaves `runtime = 0`).

## 6. Abstractions and what is left out

JSON, JavaScript text, logging and HTTP parsing; polls stand for seconds; versions
are numbers and semver order is their order; the update channel is fixed, and of the
update switches only the master is told apart; the setters of `Updates` use the
store's load and save as single steps, one setter at a time, while `SettingsStore`
looks inside those steps. The file system is taken to journal directory and sizes in
order, and to lose only unsynced bytes. A package without `runtime/`, whose binary
is swapped without one (`populate.rs:1027-1036`), is not modelled: the project's
packages have it. The CEF port re-probe, which only changes where discovery looks,
and the fast/slow cadence of sleeps have no effect in an untimed model. Windows'
variant of the binary swap is not modelled.

The page. Steam and React are external: what its webpack offers, when a chunk
loads, when a patched type reaches a mounted node (`ReactTree`), and the mock in
`examples/harness/steam-mock.js` with the example bundle are read as statements of
what the runtime expects of them. One turn of the page's thread is one action, so
`EvalRuntime` is atomic. Left out: the search predicates themselves (a step finds
its component when its chunk is there), the platform and update calls the API
passes through, `fakeRenderComponent` and the stubs it leaves behind, removal of a
single patch or route (teardown removes them all), the fall back of `findRoute`,
diagnostics, and markup. Steam's list of QAM tabs is one of two, with and without
the Performance tab.

The panel. Styling, labels, focus, translations and toasts are left out, as are
the rows that only show something; a log line is a level and a number, its parsing
is not modelled. A behaviour makes one choice of `use`, and features chosen
apart are not checked together: the choices of `MCHubPanel` pair those that share
state, and the rest is an omission. The daemon's side of a call is one step.

Not modelled: the vendored bundle (`bundle/index.js`, minified third-party output;
the page's modules model what it asks of the runtime), installers, CI and site
scripts, tray, report, boot movie and logger: they keep no state the daemon or the
page acts on, or only run while neither does.

## 7. Plan

1. Composition of `RuntimePage` with `InjectionLoop`: the page of `SteamRenderer`
   as an abstraction of it (`page.copies` of `mounted`, `breaker` of `trip`), with
   `RuntimePage`'s evaluations as the loop's. Both have the gate and both say that a
   teardown leaves it waiting, but that they agree rests on reading, not on a check.
2. `ManualUpdates`: populateBundle, applyUpdate, selfUpdate and the config file's
   read-merge-write beside the automatic check; a lost update between setters; a tag
   that populateBundle records over a bundle it is not the tag of.
3. `PreloadLoop` and `DevToolsClient`: backoff, request and reply ids; and the
   update check as a step of the injection loop that may not return.
4. Version order and release selection as operators against a reference order
   over bounded inputs.
5. Proofs: type correctness of `RuntimePage` and `HubPanel`; that the opening of
   the log viewer and the update notice never show what was not there, as safety halves
   of `LogsArrive` and `StatusArrives`; and, with item 1, that `RuntimePage` implements the
   page of `SteamRenderer`.
