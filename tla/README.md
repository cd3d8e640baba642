# Docker Swarm (classic): a TLA+ verification project

Classic Swarm turns a set of Docker engines into one: a *manager* follows a
discovery backend, connects to every engine it lists, keeps a cache of what the
engines run, and serves the Docker API by picking an engine for each request.
Its state is in memory, shared by many goroutines, and always a little behind
the engines it describes. That is what this project is about: what the tables,
caches, reservations and channels of the manager guarantee however the
goroutines interleave, calls fail and answers arrive late.

Contents:

1. [The system](#1-the-system): parts, state, operations, hazards
2. [The modules](#2-the-modules): how they correspond to the code
3. [The runs](#3-the-runs): what TLC checks, with which bounds and fairness
4. [Where the code disagrees with its own words](#4-where-the-code-disagrees-with-its-own-words)
5. [The proofs](#5-the-proofs): what TLAPS proves, and how
6. [What is not modelled](#6-what-is-not-modelled)
7. [What could come next](#7-what-could-come-next)

`PROJECT.json` lists components, runs, mutants, findings, hazards and theorems,
and for every definition the source lines it stands for.

To check a run: `tlc -config MC_EngineHealth.cfg MC_EngineHealth`. To check the
proofs of a component: `tlapm EngineHealthProofs.tla`.

## 1. The system

| Part | Source | State | Operations that change it | What it talks to |
|---|---|---|---|---|
| Engine health | `cluster/engine.go` | `state`, `failureCount`, `resumeCh`, `stopCh`, API client | every call to the daemon (`CheckConnectionErr`), `updateSpecs`, `ConnectWithClient`, `refreshLoop`, `Disconnect` | all users of an engine; emits `engine_connect`, `engine_reconnect`, `engine_disconnect` |
| Membership | `cluster/swarm/cluster.go` | `engines`, `pendingEngines` | `monitorDiscovery`, `validatePendingEngine`, `monitorPendingEngines`, `removeEngine` | discovery; engine health |
| Container cache | `cluster/engine.go` | `e.containers`, the `Container` objects behind it | `RefreshContainers`, `refreshContainer`, `updateContainer`, `handler`, create, start, remove | daemon; scheduler and API read it |
| Container creation | `cluster/swarm/cluster.go`, `cluster/config.go` | `pendingContainers`, the scheduler's lock | `CreateContainer`, `createContainer`, `RenameContainer`, removals | scheduler; container cache; daemon |
| Scheduler | `scheduler/` | none of its own (the list of nodes of a call) | filters, strategies, `AddContainer` | container cache, reservations |
| Build coordination | `cluster/swarm/build.go` | nodes by session and by build, queues of waiters | `waitSessionNode`, `waitBuildNode`, `startBuild`, the delayed cleanup | API requests of one build |
| Events monitor | `cluster/event_monitor.go`, `engine.go` | the stream, its stop channel | `Start`, `Stop`, restart after an error | daemon; container cache; event handlers |
| Other caches | `engine.go`, `image.go`, `network.go`, `volume.go` | lists of images, networks, volumes | `RefreshImages`, `RefreshNetworks`, `RefreshVolumes` | daemon; lookups by name |
| Watchdog | `cluster/watchdog.go` | a lock | reschedule on `engine_disconnect`, remove duplicates on `engine_reconnect` | container creation, cache |
| Replication | `cli/manage.go`, `api/replica.go`, `api/server.go` | leadership, primary address, installed handler | `run`, `follow`, `SetPrimary`, `getPrimary` | key-value store; API server |
| Cluster-wide operations | `cluster/swarm/cluster.go` | caches of all engines | pull, load, import, remove images, networks, volumes | every engine at once |
| Event distribution | `cluster/events.go`, `event_map.go`, `api_events.go` | sets of handlers, queues of clients | register, unregister, handle | watchdog; API clients |
| API | `api/` | none beyond a request | handlers, proxy, hijack | cluster |
| Discovery, CLI, configuration | `discovery/`, `cli/`, `cluster/config.go` | flags, labels | parsing, polling | everything, at start-up |

What is hard about each part, and the property that answers it. The list with
source lines is `hazards` in `PROJECT.json`.

- **Engine health.** The failure count and the state are changed in separate
  critical sections by every goroutine that gets an answer. Does a healthy
  engine stay below the failure limit (`HealthyBelowLimit`)? Does every
  `engine_disconnect` get one `engine_reconnect`
  (`ReconnectsMatchDisconnects`), on which the watchdog depends? Can a send to
  the one-slot channel block (`NeverBlocksOnResumeCh`)? Does the state follow
  the engine in the end (`StateFollowsEngine`)?
- **Membership.** An address that leaves and returns is a new object, while
  validators of the old one still run. Is an address registered twice
  (`AddrOnce`) or lost (`ListedIsKnown`)? Does a listed engine get in
  (`ListedIsInstalled`)?
- **Container cache.** Answers are applied after the lock was released for the
  call. Is a live container dropped (`LiveStays`), can an entry be used before
  it was inspected (`CachedIsInspected`), and does the cache converge
  (`CatchesUp`)?
- **Container creation.** The place of a container is first a reservation, then
  a cache entry; a request must not fall between the two (`Accounted`), or
  slots, ports, memory and names are given twice (`SlotsRespected`,
  `BridgePortOnce`, `MemoryRespected`, `NameOnce`), also when answers are lost
  and attempts repeated. Does every request end (`RequestsEnd`)?
- **Build coordination.** Requests of one build come in any order and its
  cleanup comes an hour later: lost wake-ups (`SignalsArrive`),
  reference counts (`WaitersCounted`), entries that go too early
  (`RunningBuildFound`) or never (`EverythingForgotten`).
- **Placement.** A request may be tried several times, and every attempt edits
  the expressions of the request. Are the client's own hard ones met each time
  (`HardMet`), soft ones dropped only if they must be and then the
  healthier node preferred (`BestChosen`), and is what is stored with the
  container what the client meant (`ConfigSurvives`)?
- **Watchdog.** Its goroutines run late, in any order, on caches that are behind.
  Is the last copy of a container ever removed, or one forgotten
  (`NeverLost`), and is each on a live engine once all is quiet (`Rescheduled`)?
- **Replication.** Election, follower, set-up and requests meet in one handler
  and one condition variable: two watchdogs (`OneWatchdog`), a leader that
  forwards (`LeaderServes`), lost wake-ups (`NoLostWakeup`), requests that are
  forwarded in circles or wait for ever (`RequestsAnswered`).
- **Cluster-wide operations.** Many engines, one answer: is it true, and do
  the lists agree with it (`ToldTheTruth`), does it come (`Answered`), are the
  lists of networks right (`ListsRight`), do endpoints come back that a request has wiped
  (`EndpointsReturn`)?
- **Lookups.** What a listing shows must be found, and what is ambiguous must not
  be guessed (`LookupsRight`); listings are sorted, cut and
  skipped in that order (`ListingRight`).
- **Events.** Monitors are replaced, restarted and stopped: an installed engine
  must have a follower (`KeepsFollowing`), a removed one must not for ever
  (`MonitoringStops`). A slow client of the API must not lose events unnoticed
  (`NoGap`) nor be left hanging (`CutOffEnds`).

## 2. The modules

One module per component, an `MC_` module that instantiates it for TLC and, for
most, a `...Proofs` module with its theorems; small components share one (section
5). `MC_Requests` composes five modules that share no state, `MC_Resources` three:
in a behaviour one of them moves (`part`) and the others rest, because interleaving
them would add states and no behaviour. An action is what a goroutine does
between two points where another can come in: taking or releasing a lock, a
call to a daemon, a channel operation. Where the code holds a lock over several
statements they are one action.

### EngineHealth

One `Engine` object and the goroutines that talk to its daemon: callers (API
requests, events, watchdog), connectors (`validatePendingEngine`) and the
refresh loop. `site[p]` is the call a goroutine is at, `chk[p]` how far it is
in `CheckConnectionErr`. `Answer` lets a call succeed or fail as the daemon is
`up`; then `incFailureCount` is one critical section, while the way back is
four steps, as in the code: `MarkHealthy`, `SendResume` (blocks when the
channel is full), `EmitReconnect`, `resetFailureCount`. `updateSpecs` is the
locked tail of that function; `ConnectWithClient`, `ValidationComplete`,
`StartIteration`, `StopLoop`, `Disconnect` are named for theirs. `Toggle` is the
environment, and `Hang` an engine that goes silent with a request in its hands: only
the listing of containers has a time limit, so any other request waits for ever. `unmatched` is a history variable that counts events.

### EngineMembership and AddressRegistry

The tables `engines` and `pendingEngines` with one process for
`monitorDiscovery` (`Receive`, the three steps of `removeEngine`, the two of
`addEngine`), one per validator (`Resolve`, `Info`, `Specs`, `List`, `Commit`),
one for `monitorPendingEngines` and one refresh loop per engine. Engine objects
are allocated once and never reused, so that late goroutines keep the object
they started with. A nil dereference ends the process (`crashed`), hence runs
without a check for deadlock.

`AddressRegistry` is what the tables promise: an address is absent, pending or
installed; only a wanted address is added, only a pending one installed, only
an unwanted one removed. `RegistrySpec` says that `EngineMembership` implements
it, with `status` as the refinement mapping.

### ContainerCache

The map `e.containers` and the objects it points to. `cache[c]` names the
goroutine whose object is stored for `c`, `store[q][c]` is that object: what
`ContainerList` (`sum`) and `ContainerInspect` (`info`) said last. Pointers
matter, because `updateContainer` changes in place an object that others have
stored. `RefreshContainers` and `refreshContainer` are `ListAll`/`ListOne`,
`Pick`, `Lookup`, `Inspect`, `Apply`, `Commit`, with `ListFails` and
`InspectFails`; `handler` starts one for an event, `CreateContainer`,
`StartContainer` and `RemoveContainer` do so for the API. The daemon goes
through the states of a container as numbers, and `LoseEvents` is a broken
stream.

### ContainerCreation

Requests that create a container, from the check of the name to the end of the
retries. `CheckCaches` takes the scheduler's lock; `CheckPending`,
`ListContainers`, `UsedMemory` and `Select` run under it, in steps of their own
since the caches change meanwhile (`Learn`, `Drop`). `Select` makes the
reservation in `pending` and releases the lock; `Create` has the daemon create
the container, its answer may be lost; `Refresh` and `Report` are the end of
`Engine.CreateContainer`, `Release` gives the reservation back, and `RetryOS`,
`RetryImage`, `RetryLoop`, `GiveUp` are the retries. Renames (`RenameCheck`,
`RenameCall`, `RenameRefresh`) take no lock. `SlotsFilter`, `PortFilter` and
`weighNodes` are the filters and the weighing, on the list the request has
read; the other filters are a free choice of whether a node is refused. `Sum` is
the loop of `UsedMemory`. `lost` records containers whose request was told that it
failed.

### BuildSyncer

The four maps of `buildSyncer`. `waitSessionNode` and `waitBuildNode` are the
first halves of those functions, up to the release of the lock, `LeaveSession`
and `LeaveBuild` the second, after a signal or a timeout; `startBuild` is one
critical section, `EndBuild` the call of the function it returns and `Cleanup`
its timer. A close of a closed channel makes the build "lost".

### Placement

One request from its labels and environment (`BuildContainerConfig`, `Validate`)
through all its attempts. An expression is a record of key, operator, softness and
the set of strings it matches, so that globs and regular expressions are what they
do. A label is a list of expressions in JSON (`Marshal`), or absent, or something
that does not parse, of which `extractExprs` makes an empty list; `Pick` is a loop
that appends what it keeps (`RemoveAffinity`, the split of the environment).
`HealthFilter` to `WhitelistFilter` and `ApplyFilters` are the chain,
`Spread`, `Binpack` and `First` the strategies; `SelectNodesForContainer` is the
soft and then the hard pass. `setOSTypeConstraint`, `createContainer` (with the
image affinity it adds and removes and the constraint of a local network),
`Created` and `Failed` follow `CreateContainer`; nodes change between attempts
(`NodeChanges`). `stored` is the configuration as the next manager reads it back.
What concurrent requests do to each other is ContainerCreation.

### Watchdog

Engines that fail and return (`Lose`, `Return`), the events the manager makes of
it, the refreshes of the caches (`List`, `Apply`, two steps, so that an answer can
be late) and the goroutines of `Handle`: `removeDuplicateContainers` (`DupRefresh`
before the lock, `DupLock`, `DupTake`, `DupRemove`) and `rescheduleContainers`
(`ReschedLock`, `ReschedTake`, `ReschedCreate`, `ReschedFails`). A container is its
Swarm ID, a copy is that and an engine. `stale` and `failed` are history: what a
late answer brought into a cache, and what could not be created.

### Replication

Several managers. `campaign[m]` is `candidate.campaign` of the election library
(external), `runLoop[m]` the loop of `run`; they meet on unbuffered channels, so a
send and its receipt are one step (`runElected`, `runLost`, `runError`).
`setupReplication` starts them and sets a handler last (`SetHandlerLast`). `follow`
tells the replica its primary (`SetPrimary` with its `Broadcast`), and requests are
at `Dispatch` or `getPrimary`. Sessions expire (`Expire`) noticed or not, managers
crash and start again (`Crash`, at most `MaxCrashes`).

### FanOut, NetworkCache and NetworkEndpoints

`FanOut`: a request that many engines serve. A goroutine per engine (per matching
image for `RemoveImages`) calls the daemon (`Call`), refreshes the list (`List`,
`ApplyListed`) and notes its result (`Report`); `Load` and `Import` copy the stream
through pipes (`Read`, `Write`; without engines what is read goes nowhere,
`NextChunk`), and `Answer` is what the handler says after `wg.Wait`. In `Stall` an
engine goes silent during a call, and its pipe is no longer read.

`NetworkCache`: the lists of networks under `RefreshNetworks`, events and the requests
that create and remove networks. A daemon may do what it is asked and the answer be
lost. Two history variables hold the entries that are wrong for good reason: `late`,
made wrong by an overtaken answer, and `unheard`, wrong since an answer was lost.

`NetworkEndpoints`: who is shown on the networks of one engine, which `RefreshNetworks` empties and `UpdateNetworkContainers` fills
again, from all containers in the loop and from one of them in a request.

### Lookups

`Get` of containers, networks and volumes and the selection of
`getContainersJSON`, as operators on the entries the lists hold (`known`). Those come
from what the daemons have (`there`: a network has one name and one scope, a container
one engine), list by list (`RefreshList`) or one at a time (`RefreshEntry`). A text is
a sequence of words and slashes, since both the leading slash of a container's name and
the one after an engine's are written and taken off by the code; a query is a text with
the sets of IDs it equals (in full or their first twelve digits) and begins. A lookup
returns every entry that the code may return, which iterates over maps. Times are
compared as the daemons write them: `AsText` drops the zeros at the end of the fraction
and ends with `Z`, and `Less` compares these texts. `NewestFirst` is the set of orders
the sort may give. The properties state the reference: what a shown name must find,
and in which order a client may expect a listing.

### EventsMonitor and APIEvents

`EventsMonitor`: the attempts to connect one engine object (`Begin`,
`ConnectWithClient`, which makes a monitor, `StartMonitorEvents`, `Commit`),
`DisconnectEngine`, and per attempt the goroutines that follow the stream
(`StreamBreaks`, `StopReceived`, `Restart`). `APIEvents`: the requests for events
with their queues. `Handle` publishes to all queues, the goroutines of the vendored
`watch` library move events on (`Take` from the limited list, `Offer` to the client's
channel, `Timeout`, `CloseOutChan`), `Receive` to `Unsubscribe` are `getEvents` and its deferred cancel.

## 3. The runs

Runs that must pass:

| Run | Checks | Instance |
|---|---|---|
| `health` | `HealthyBelowLimit`, `ReconnectsMatchDisconnects`, `StateFollowsEngine` | a caller, a connector and the loop; limit 2, counted up to 3 |
| `membership` | `AddrOnce`, `ListedIsKnown`, `RegistrySpec` | an address, 2 daemon IDs, 2 objects, 2 validators |
| `membership_live` | `ListedIsInstalled` | an address, 1 daemon ID, 2 objects, 2 validators |
| `cache` | `CachedIsInspected`, `LiveStays`, `CatchesUp` | a container of 2 states, the first restarting; loop, events monitor, an API request |
| `creation` | `Accounted`, `NameOnce` | 2 requests for a name, 2 nodes, a retry, a rename |
| `creation_places` | `SlotsRespected`, `MemoryRespected` | 3 requests of 3 units; nodes of 8 units, one with 1 slot and one with 9; no retry |
| `creation_live` | `BridgePortOnce`, `RequestsEnd` | 2 requests for a port, a node, a retry |
| `resources` | BuildSyncer: `SignalsArrive` (`BuildSignal`, `SessionSignal`), `WaitersCounted`, `RunningBuildFound`, `EverythingForgotten` | 2 sessions, 3 build IDs, 2 nodes, 2 waiters |
| | NetworkCache: `ListsRight` | 2 engines, a network of either scope |
| | Lookups: `LookupsRight` (`ShownNamesResolve`, `IDsResolve`, `NeverGuesses`), `ListingRight` | 2 engines that may share a name, 2 words, 3 names with and without slashes, 3 container names with an alias, 2 IDs; 3 containers and 3 times in a listing |
| `watchdog` | `NeverLost` (`NotLost`, `StillKnown`), `Rescheduled` | 2 engines, a container |
| `replication` | `OneWatchdog`, `NoLostWakeup`, `LeaderServes`, `RequestsAnswered` | 2 managers, a crash, a request |
| `requests` | Placement: `HardMet`, `BestChosen` (`SoftPreferred`, `HealthOverpowers`), `ConfigSurvives` | 2 nodes in any of 4 states, 16 requests with hard, soft, invalid and contradictory expressions, 3 strategies, 2 retries |
| | FanOut: `ToldTheTruth`, `Answered` | 2 engines, one with 2 matching images, 2 chunks |
| | NetworkEndpoints: `EndpointsReturn` | 2 containers, 2 networks, 2 requests |
| | EventsMonitor and APIEvents: `KeepsFollowing`, `MonitoringStops`, `NoGap`, `CutOffEnds` | 2 attempts, 3 breaks; 2 clients, queues of 2, 3 events |
| | all parts: `TypesOK`, the type invariants of the five modules | |

A name in brackets is a conjunct of the property before it. The `TypeOK` of
EngineHealth, EngineMembership, ContainerCache, ContainerCreation, BuildSyncer,
Replication, Watchdog (`WatchTypeOK`), NetworkCache (`NetTypeOK`) and Lookups
(`LookTypeOK`, in `LookInv`) is proved (section 5), for every instance,
and not checked by a run. The five types of `TypesOK` are proved too, each for its
module's own specification; the run checks them together.

**Why the bounds are enough.** The races are between two users of one thing
(two goroutines at one engine, the old and the new object of one address, two
writers of one container, two requests for one place), so two of each reach
them. The goroutines of the cache share one entry at most, so one container is
enough for its convergence; its safety is proved for any number. Memory needs a
third request, which is the one refused. A count above the failure limit behaves
as the limit (`MaxFailures`). Two objects per address are
one removal and return. Build IDs overlap session IDs because `startBuild`
looks one up in the map of the other. `Objs`, `Validators`, `Containers` and
`MaxVersion` bound allocations that the code does not bound; the proofs do
without the bounds.

A container moves from an engine to another and back, so two engines and one
container reach every order of the watchdog's goroutines; containers meet only in
its lock. Of two managers one leads and one follows, and a crash is a loss of the
lead that nobody reports. A network is wrong in one list because of another
engine's answer: two engines. A queue of two events has an order, and with three
published it is full, overflows and is drained. Two digits of a fraction (`Instants`;
a daemon writes nine) are enough for one fraction to be the beginning of another, and
the names of the lookups have one that begins with a slash and one that begins with
the name of an engine. Three retries' worth of attempts (`CreateRetry` = 2, after
the first and the one for the operating system or the image) visit every branch of
`CreateContainer`. `MaxAttempts`, `MaxBreaks`, `MaxEvents`, `MaxRequests`,
`MaxCrashes` and `Chunks` are bounds of the models, not of the code.

Symmetry is used in runs without liveness only: on objects and validators, on
containers, on requests and on the watchdog's engines, which are alike there.
Deadlock is not checked where requests end (`creation*`, `requests`) or the process
may (`membership*`).

**Fairness, and why the code justifies it.**

- *EngineHealth*: goroutines run on, and a call that does not hang returns (`WF` of
  `Step`, `refreshLoop`). The HTTP client limits the time to connect only
  (`httpclient.go`), so that a call may hang (`Hang`), after which nothing is promised
  of its goroutine. Blocked senders of a
  Go channel are served in order (`SF` of `SendResume`). A daemon that stays up
  does not answer every call of the loop with an error of another kind (`SF` of
  `Answer(Loop)`). That the state follows the engine is claimed unless the loop hangs or
  is stuck, which `health_stuck` shows to be possible.
- *EngineMembership*: all goroutines run on. `InsertAdded` and `Revalidate`
  wait for a free member of the bounded set of validators where the code just
  starts a goroutine, hence `SF`. `ListedIsInstalled` supposes that from some
  time on addresses resolve and daemons answer (`Benign`).
- *ContainerCache*: the refresh loop never ends, events are handled, calls
  return. Convergence supposes that the daemon is left alone and answers. That calls
  return is an assumption about the daemons, here and in ContainerCreation and
  NetworkEndpoints: the code does not enforce it.
- *ContainerCreation*: calls return, and a Go mutex hands itself to a goroutine
  that has waited for a millisecond (`SF` of the two actions that take it).
- *BuildSyncer*: waits have a timeout, builds end, timers fire.
- *Replication*: the goroutines of a live manager and the steps of a request go on.
  Nothing is promised of sessions, crashes or clients; `RequestsAnswered` supposes
  that some manager leads for good and that watches do not fail for ever.
- *FanOut*: goroutines run, calls return unless the engine has gone silent (`Stall`,
  `Due`), the client's stream ends or fails. *NetworkEndpoints*: the refresh loop, a request and the events monitor run.
- *EventsMonitor*: timers fire and a goroutine whose stop channel is closed takes
  that branch. *APIEvents*: goroutines that can run do; no client need come, read
  or leave, and a write to it need not return.

**Mutants.** Every property of a passing run comes with a mutant of a
definition it depends on, written next to it (`Commit_Replace`,
`PortFilter_Info`...): a plausible slip in that code that TLC shows to violate
the property under the same configuration.

## 4. Where the code disagrees with its own words

One run must fail: it states what a comment of the code says and TLC gives the
steps that lead elsewhere. The quotation is in `findings`.

| Run | Source | What happens |
|---|---|---|
| `health_stuck` | `engine.go:437` | A caller fills the one slot of `resumeCh`, the engine is flagged again, and the refresh loop, the only receiver, blocks on its own send |

The models also reach these, which are not runs of their own. Each is a step or
an outcome of a module, and the properties and theorems say what they suppose
of it:

- `engine.go:277`: `Disconnect` of an engine whose address never resolved uses
  a nil events monitor. `EngineMembership` stops (`crashed`).
- `engine.go:523`: an installed engine whose daemon has changed its ID becomes
  pending in the table that nobody re-validates. `ListedIsInstalled` speaks of
  the table, and of daemons that have kept their ID for good.
- `cluster.go:419`: a late validator of a removed object finds its address pending
  again and installs the dead object in place of the new one; the comment at 418
  supposes otherwise. `AddrOnce` holds all the same.
- `engine.go:805`: a refresh stores an inspection over a later one, with no event
  left to correct it. `CatchesUp` speaks of what the daemon lists, which every
  refresh repeats, not of what was inspected.
- `port.go:67`: two requests under way expose one port of one host's network,
  because a reservation has no `Info`. `BridgePortOnce` speaks of the bridge.
- `cluster.go:1118`: a rename checks a name, a request reserves it, the rename
  is done. `NameOnce` speaks of containers that were not renamed.
- `cluster.go:179`: an attempt that is repeated after a lost answer makes a
  second container with one Swarm ID. The properties of creation speak of
  containers not reported as failed (`lost`); `MemoryRespected` also needs that
  nothing is repeated, since `listNodes` (`cluster.go:986`) takes the first
  container for the reservation of the second.
- `node.go:60`: a reservation larger than its node is not counted at all, which
  the strategy `random` can bring about. The theorems on ports and slots
  suppose `Weighed`.
- `build.go:136`: the session is looked up under the ID of the build, so two
  builds of a session may go to two nodes.
- `build.go:151`: a channel is closed twice when a second build comes before
  the woken waiter. `EverythingForgotten` excepts it (`"lost"`).
- `build.go:158`: the cleanup of a build forgets a session that another build
  still uses. `RunningBuildFound` speaks of builds, not of sessions.
- `cluster.go:283`: `RemoveAffinity` takes the client's own hard affinity to the
  image away with the one the code has added. `HardMet` and `ConfigSurvives`
  except it.
- `watchdog.go:148`: "add the container back, so we can retry later": nothing
  retries but another disconnection. `Rescheduled` excepts what failed once.
- `watchdog.go:49`: a refresh that was overtaken shows a copy that is gone, and the
  last one is removed as its duplicate. `NotLost` excepts it (`stale`).
- `replica.go:104`: "give up waiting if the context is canceled": a request that
  waits already is not woken by its cancellation, only by the next primary.
- `manage.go:165`: a manager that lost its first election before the last line of
  `setupReplication` serves requests itself until the next change. `LeaderServes`
  says only that leaders serve.
- `manage.go:326`, `manage.go:333`: `defer candidate.Resign()` and
  `defer cl.CloseWatchQueues()` never run, since `log.Fatal` ends the process.
- `engine.go:473`, `690`, `706`: requests of the refresh loop have no time limit, and an
  engine that goes silent during one keeps its state. `StateFollowsEngine` excepts it.
- `engine.go:1272`, `cluster.go:816`: an engine that stops reading an image holds up
  the copy, and with it the other engines and the answer. `Answered` excepts it, and
  says whom a silent engine holds up.
- `cluster.go:648`: `CreateVolume` without engines answers a success, with `null`.
- `cluster.go:269`: a soft constraint on the network's engine does not count as one on
  the node, so that every attempt adds it again. `ConfigSurvives` bounds how often.
- `engine.go:1191`, `engine.go:603`: when the answer of a daemon is lost after it has
  created or removed a network, no list is written, and those of the other engines stay
  wrong until their refresh. `ListsRight` excepts it (`unheard`).
- `network.go:156`: a network whose name is the ID of another, or its first twelve
  digits, is not found by its name; a volume that is not local and is called
  `engine/name` comes before the volume `name` of that engine (`volume.go:34`).
  `ShownNamesResolve` excepts what goes first.
- `handlers.go:598`: containers are listed as `/engine/name`, which `Get` does not find:
  a client takes the slash off first.
- `sorter.go:25`: "Containers are sorted chronologically by when they were created":
  they are sorted as texts, in which `.5Z` comes after `.52Z`. `ListingRight` excepts
  fractions of which one begins the other.
- `cluster.go:816`: an engine that fails early ends the copy of an image for all
  engines. `ToldTheTruth` shows that the client is told of the failures.
- `engine.go:1645`: connecting or disconnecting a container takes the other
  containers off the networks that are shown, until the refresh loop has passed
  (`EndpointsReturn`).
- `handlers.go:566`: the limit comes before `before`, so both together give fewer
  containers than there are; a `before` that the filters refuse gives none.
- `container.go:154`: a container whose ID and Swarm ID both begin with the word is
  counted twice and not found. A Swarm ID of two copies finds either of them.
- `engine.go:265`: "Disconnect will stop all monitoring of the engine": followers of
  an earlier monitor, and a monitor that a late attempt makes, go on, and two
  followers handle each event twice. `MonitoringStops` says what is stopped.
- `api_events.go:28`: after a queue was full, later events may still be sent before
  the stream ends, so the last ones a client sees may have a gap (`NoGap` excepts
  clients that were cut off). A client that leaves while an event is offered leaves
  the library's goroutine blocked on its channel.

## 5. The proofs

TLAPS proves these for all values of the constants: any number of goroutines,
addresses, engine objects, containers, requests, nodes. The assumptions are the
named `ASSUME`s of the modules: the sets are disjoint from `None` and from each
other, a few are finite, numbers are natural, requests have the fields of a
`ContainerConfig` (`RequestsAssumption`), nodes have some CPUs and memory
(`NodesAssumption`), an image that is removed matches at least once and the engines
are finitely many (`FanOutAssumption`), so are the clients (`EventsAssumption`) and the
containers of a listing (`ListAssumption`), names are texts (`NamesAssumption`), and `CreateRetry` and `MaxRequests`
are natural (`CreateRetryAssumption`, as `cluster.go:107` refuses a negative one;
`RequestsBound`).

| Module | Theorem | Says |
|---|---|---|
| `EngineHealthProofs` | `TypeCorrect`, `HealthySafe`, `EventsMatch` | `TypeOK`, `HealthyBelowLimit`, `ReconnectsMatchDisconnects` |
| | `IndicatorRange` | `HealthIndicator` is in 0..100, positive exactly below the limit |
| | `NothingLost`, `AllRescheduled` | Watchdog: `NeverLost`, `Rescheduled` |
| `EngineMembershipProofs` | `TypeCorrect`, `AddressOnce`, `NoneLost` | `TypeOK`, `AddrOnce`, `ListedIsKnown` |
| | `Refinement` | `Spec => RegistrySpec` |
| `EngineCallsProofs` | `TypeCorrect`, `ConfigPresent`, `NoLiveDropped` | ContainerCache: `TypeOK`, `CachedIsInspected`, `LiveStays` |
| | `AnswersTrue` | FanOut: `ToldTheTruth`, for any number of engines and of images that match |
| | `StreamBounded` | FanOut: `FanTypeOK`, with it that a copy writes only to engines there are |
| `ContainerCreationProofs` | `TypeCorrect`, `AllAccounted` | `TypeOK`, `Accounted` |
| | `PortsOnce`, `SlotsBound` | `BridgePortOnce`, `SlotsRespected`, if no reservation is larger than its node or the strategy weighs (`Weighed`) |
| | `NamesOnce` | `NameOnce`, whatever renames do meanwhile |
| `ContainerCreationMemory` | `MemoryBound` | `MemoryRespected`, if nothing is repeated (`CreateRetry` = 0) and the strategy weighs |
| `ResourcesProofs` | `TypeCorrect`, `NoLostWakeup`, `CountExact`, `BuildRegistered` | BuildSyncer: `TypeOK`, `SignalsArrive`, `WaitersCounted`, `RunningBuildFound` |
| | `NetworkLists`, `NetworksTyped` | NetworkCache: `ListsRight`, `NetTypeOK` |
| | `EndpointsListed` | NetworkEndpoints: `EndTypeOK`, with it that only networks of the list show endpoints |
| | `LookupsCorrect`, `ListingCorrect` | Lookups: `LookupsRight`, `ListingRight`, for any names, IDs, times and limits and lists of any length |
| `PlacementProofs` | `HardAlwaysMet`, `ConfigKept` | `HardMet`, `ConfigSurvives` (`LabelsKept`, `FewAdded`), for any nodes, any request and any number of attempts |
| | `BestNode` | `SoftPreferred`, and `BestChosen` if `FailureRetry` is at most 4 |
| | `RetriesBounded` | `PlaceTypeOK`, with it that the counter never passes `CreateRetry` + 2: the retries for the operating system and the image count too |
| `ManagerProofs` | `TypeCorrect`, `WatchdogOnce`, `WakeupsArrive`, `LeadersServe` | Replication: `TypeOK`, `OneWatchdog`, `NoLostWakeup`, `LeaderServes`, for any number of managers, requests and crashes |
| | `AlwaysFollowed`, `MonitorTyped` | EventsMonitor: `KeepsFollowing`, `MonTypeOK`, for any number of attempts and breaks |
| | `NothingMissed` | APIEvents: `NoGap`, for any number of clients and any limit of the queues |
| | `ListenersCounted` | APIEvents: `EvTypeOK`, and `listenerCount` is the number of requests that are counted, so it never falls below zero |

The arguments:

- **Health.** `HealthyBelowLimit` is inductive with the types, since it already
  excepts the goroutines between `MarkHealthy` and `resetFailureCount`. That
  events match needs a count: `unmatched` is 1 while the engine is unhealthy,
  plus the goroutines that have marked it healthy and not yet emitted
  (`Answering`, a cardinality that each step changes by one at most), and that
  an engine not yet validated has had no event (`Unvalidated`).
- **Watchdog.** `WatchInv` says who holds the lock (`Exclusive`), that what a cache
  shows, or a goroutine of `rescheduleContainers` has listed or taken, is on its
  daemon (`ShownExists`), that what is being removed as a duplicate is shown by
  another engine (`CopyElsewhere`), that somebody still knows every container
  (`StillKnown`), and that a container shown by an unhealthy engine is on the list
  of a goroutine or waits for one that has not begun (`WillBeHandled`). The first
  four make removals safe; the last gives `Rescheduled` when all have ended.
  `stale` and `failed` only grow, so what is excepted once stays so.
- **Membership.** `AddrOnce` alone is not inductive: an insertion must know that
  its address was absent when it was looked up and still is, because only
  `monitorDiscovery` adds (`Hands`); entries are indexed by their object's own
  address and ID (`Keys`); and a listed address that is in no table is on
  `monitorDiscovery`'s list of work (`Work`, `Covered`), which gives
  `ListedIsKnown`. The refinement is proved step by step: insertion is `Add`,
  the commit of a validation `Install`, the deletion `Remove`, the rest
  stutters.
- **Cache.** `Seen` says of every object in reach (in the cache, in a `merged`
  map, in a goroutine's hands) that it is inspected or will be before it is
  passed on. `Known` says that a container held as missing existed when the
  names were read and was absent from a later listing, so it is gone for good:
  the order of the two readings in `RefreshContainers` is what makes the
  deletion safe.
- **Creation.** Lock and reservation follow the program counter (`Held`), a
  container that counts is the one its request has made (`Holding`, `Origin`),
  and is in the cache once the request has seen it there (`Kept`). `Listed` is
  the heart: whoever has read the caches misses only containers that are still
  reserved, because reservations are released under the lock it holds. So the
  list of a node misses nobody (`Counted`, `CountedAll`), only `Select` gives a
  place (`Gains`), and it gives none that the list shows taken. For slots the
  requests on a node are bounded through an injection into what the filter
  counted. For names, `Clear` carries the result of the first half of the check
  over to the second, and a rename is shown to touch no container but its own
  (`RenameEffect`).
- **Memory.** What a node has given is a sum over the requests that are about to
  create on it or have a container there (`Taking`). What `Sum` is has to be proved
  first: the recursion has a solution, it does not depend on the order, it is
  monotone, and the sum of a union is at most the two sums (`SumExists`, `SumAny`,
  `SumMonotone`, `SumUnion`). A request that is not repeated has one container at most (`Once`), what
  `listNodes` has seen is cached while it lives (`SeenLive`), so the used memory of a
  node is at least that of the requests whose containers were seen (`WeighedRight`)
  and, with the reservations, of all that take from it (`TakingCounted`,
  `UsedEnough`). `Select` then adds one request to one node, and `weighNodes` has
  refused it if the sum came out above 100 percent (`SelectFits`); every other step
  leaves `Taking` as it is or smaller.
- **Builds.** A queue without waiters is fresh (`FreshQueue`); then waiters come
  and go one at a time, which the cardinality lemmas `WaiterComes` and
  `WaiterGoes` turn into the count.
- **Networks.** An entry that is wrong has a reason: a late answer, a lost one, or a
  request that is about to delete this very entry (`ShownRight`) or to add it
  (`MissingRight`). That a request writes the right ones needs what the request has
  done at the daemon before (`RequestRight`).
- **Endpoints.** `InspectedRight`: an inspection under way is of one network, and
  names nobody if the daemon does not have that network.
- **Lookups.** `LookInv` adds that the entries are finitely many, without which the
  counts in `Get` mean nothing, and that entries with one ID agree (`OfOneMind`), since
  all come from the same daemons. A lookup by name or prefix returns an entry only if
  it is the only one; that a shown name finds its own entry follows from the order
  of the attempts (`Resolved`, for each kind), for containers with what taking off and
  putting on a slash does to a text (`WithoutSlash`). For the listing, what the order
  of the texts says of the times comes first (`TextOrder`); then any part of a sorted
  list that the limit or `before` leaves is sorted (`PartSorted`), what it leaves out is
  older or in front (`CutOldest`, `OlderFollow`), and how many are in front of `before`
  is a count (`InFront`, `NothingFollows`).
- **Fan-out.** The answer is computed from flags that goroutines set in any order:
  `FlagsRight` says that the flags are exactly what those that are done have noted,
  so that the verdict at the end is a function of the results, not of their order.
  `ListsFollow` says that where a call has succeeded daemon and list agree, unless
  another goroutine of the engine failed, and then the answer is not a success. A
  request with no engine at all is answered as a success by `Pull` and `CreateVolume`;
  the property says so (`Engines = {}`). For the copy of a stream (`PipeInv`): the engines from the
  writer's place on have not had the chunk that is being written, and the order of the
  pipes is one-to-one (`PipesOrdered`), so the place never passes the last pipe.
- **Placement.** `PlaceInv` relates the configuration to what the client sent
  (`Derived`): constraints are the client's followed by what may be added, policies
  and whitelists are untouched, affinities are the client's or lack the one to the
  image (`AffinitiesKept`, which says in which attempts). It needs what the loops of
  `config.go` compute: `Pick` keeps order and elements and removes exactly what was
  appended (`PickElements`, `PickAppend`, `RemoveAdded`), by induction over the
  length (`SetInduction`, from the library's well-foundedness of the natural
  numbers, since its induction theorem takes an operator). Then every filter keeps
  only nodes that meet its expressions (`Filtered`, `SelectedMeets`).
- **Retries.** `RetryInv` says how far the counter can be in each kind of attempt:
  zero up to the one for the operating system, one at most in the one for the
  image, and below `CreateRetry` whenever the loop begins another.
- **The best node.** A strategy finds a node whenever one fits (`FirstExists`, from
  `LexMax`: a finite set has an element that is largest in two numbers), so the
  second pass of `SelectNodesForContainer` is reached only if no node meets the soft
  expressions. Health decides because two degrees that differ, differ by at least 25
  if `FailureRetry` is at most 4 (`DegreeGap`), and ten times that is more than two
  loads of at most 100 each can make up (`LoadIsLight`). With 5 the least difference
  is 20, and a node of degree 100 and load 200 can tie with one of degree 80 and
  load 0: the comment in `spread.go` and `binpack.go` is true up to 4, and the default of the
  flag is 3. `BestInv` carries the choice over the removal of the image affinity
  (`SeenAlike`).
- **Replication.** `LeaderServes` is not inductive: `LoopFollows` adds that a
  manager that is down runs nothing, and that the loop of `run` handles the news of
  a loss before it takes that of the next election. `OneWatchdog` needs that an error comes only after a loss, when the
  watchdog is unregistered already.
- **Events in.** `FollowInv` ties the followers to the attempts: an attempt past
  `StartMonitorEvents` has a follower, which ends only when its monitor's channel is
  closed; a closed channel means that the engine was disconnected, and a
  disconnected engine is never installed again.
- **Events out.** `StreamInv` says of every client that what it was sent, what is
  offered and what waits are together the events since it subscribed (`Whole`,
  `Since`). Each step moves the head of one sequence to the end of the one before,
  or appends to the last (`HeadMoves`, `WholeGrows`, `SinceGrows`). That listeners
  are counted (`QueueInv`) needs that a request is counted exactly between its
  increment and its decrement, one request a step.

Only model-checked: all liveness (`StateFollowsEngine`, `ListedIsInstalled`,
`CatchesUp`, `RequestsEnd`, `EverythingForgotten`, `RequestsAnswered`, `Answered`,
`EndpointsReturn`, `MonitoringStops`, `CutOffEnds`), since fairness and `ENABLED` are
out of the prover's reach; and `TypesOK` as one formula. `MC_Requests` is a choice of
one of five modules that share no state, and each of the five types is proved for
its module's specification, which is all that `TypesOK` says; the theorems are not
joined because the proof modules use the same names for different things.

## 6. What is not modelled

- **Unsynchronised access to maps.** `createContainer`, `RenameContainer`,
  `RANDOMENGINE` and `StartContainer` read or write maps without the lock of
  their writers. Go may end the program on such an access; the models take the
  reads as steps of their own and leave that outcome out.
- **Time.** Back-offs, timers and what time limits there are may elapse at any moment. The
  length of the back-off (`TimeToValidate`, a shift by the failure count) is
  not computed.
- **In ContainerCreation**: a container binds one port on all interfaces; CPUs,
  which the code treats as it treats memory; image pulls, which are a delay.
  Container caches are right about what they contain apart from being late:
  how they become so is ContainerCache.
- **In ContainerCache**: IDs are complete and unique, so the listing of one ID
  returns one container at most.
- **In Watchdog**: every container has a name and the policy on-node-failure; an
  engine that joins for the first time (`engine_connect`) removes duplicates like
  one that returns, and only the latter is a step; endpoints on networks and the
  start of the new container decide nothing and are left out. API requests for the
  same names are not composed with it.
- **In Replication**: the election library and the store are external. The handler
  is read and written as a whole; the code does so without a lock.
- **In FanOut**: one request at a time, and one image or volume; the torn write of
  a shared error is left out, which of several errors is reported is open.
- **Images**: parsing and matching of image references and the filters of image
  listings are operations on strings.
- **Parts that stay out**: HTTP encoding, proxy and hijacked streams in `api/`, the
  polling of a hosted service in `discovery/token`, flag parsing in `cli/`,
  interfaces, stubs and test doubles. They keep no state that outlives a call.

## 7. What could come next

| Step | Models | Properties aimed at |
|---|---|---|
| Watchdog with ContainerCreation | rescheduling beside API requests for the same names | what the leading slash of a rescheduled name does to uniqueness |
| Cache with creation | `Learn` and `Drop` of ContainerCreation implemented by ContainerCache | refinement of what the one module supposes of the other |
| Health with membership | the state of an engine and the table it is in | an engine that is healthy is installed |
