# A TLA+ verification of kube-enn-proxy

kube-enn-proxy runs on every node of a Kubernetes cluster and keeps the node's
IPVS table in step with the cluster's Services and Endpoints. This directory
holds TLA+ modules that model it, TLC configurations that check them on small
instances, and TLAPS proofs of some of their properties for all instances.

`PROJECT.json` lists components, runs, mutants, findings, hazards, theorems and,
for each definition that models code, the lines it models.

## The system

```
 API server
   |  informers (one handler goroutine for Services, one for Endpoints)
   v
 OnServiceAdd/Update/Delete      OnEndpointsAdd/Update/Delete     config.Run x 2
   |  ServiceChangeMap.Update       |  EndpointsChangeMap.Update     | On...Synced
   v                                v                                v
 serviceChanges.Items            endpointsChanges.Items         SyncLoop (ticker)
   |  UpdateServiceMap              |  UpdateEndpointsMap            |
   +----------------> syncProxyRules, under Proxier.mu <-------------+
                          |
        IPVS table, dummy link, held local ports, conntrack, iptables
```

Every callback records the change in a change map and, once the proxier is
`initialized`, calls `syncProxyRules`. So do the ticker and the two config
goroutines when their cache is synced. `syncProxyRules` applies the changes to
`serviceMap` and `endpointsMap`, reads the kernel, and then does one of two
things. Without pending changes it makes a full sync: every service port's
address, sockets, rules and real servers are completed and everything else is
removed. With pending changes it edits the rules of the changed objects only. In
both cases it ends by closing the held ports it did not ask for again and by
flushing UDP flows.

### Inventory

| Part | Source | Status |
|---|---|---|
| Service changes | `pkg/proxy/util/services.go` | modelled: `ProxyTypes`, `ServiceChanges` |
| Endpoints changes | `pkg/proxy/util/endpoints.go` | modelled: `ProxyTypes`, `EndpointsChanges` |
| Callbacks, loop, `syncProxyRules` | `pkg/proxy/ipvs/proxier.go` | modelled: `Proxier` |
| IPVS table, dummy link | `pkg/util/ipvs/ipvs.go` | partly: `Ipvs` (what the proxier calls), the flush of `Masquerade` |
| Local ports | `pkg/proxy/util/ports.go` | modelled: `LocalPorts` |
| Conntrack | `pkg/proxy/util/conntrack.go` | partly: `Conntrack` (what the proxier calls) |
| Node addresses | `pkg/proxy/util/nodes.go` | partly: a call of `Proxier` that answers or fails |
| Informer configs | `pkg/proxy/config` | modelled: `InformerConfig`, under `Server` |
| Server start and shutdown | `app/server.go` | partly: `Server` (Run to its end); `Masquerade` (CleanUpAndExit) |
| Masquerade rules, cleanup | `proxier.go` 1155-1249 | modelled: `Masquerade`; a call that works or fails in `Proxier` |
| iptables wrapper, xtables lock | `pkg/util/coreos/go-iptables` | partly: the calls of `Masquerade`, `XtablesLocks`, `Version` |
| Health check server | `pkg/proxy/healthcheck` | modelled: `HealthCheck` (the proxier never feeds it) |
| Bounded frequency runner, Runner | `pkg/util/async` | modelled: `BoundedFrequencyRunner`, `AsyncRunner` (the calls are commented out) |
| Watchers, broadcaster | `pkg/watchers` | modelled: `Watchers` (the construction is commented out) |
| Version comparison | `pkg/util/version` | partly: `Version` |
| iptables utility | `pkg/util/iptables` | partly: `IptablesRunner`, `XtablesLocks`, `FirewalldSignals`, `SaveFile`, `Version` (nothing imports it) |
| D-Bus, ipvs-tool, options | `pkg/util/dbus`, `tools`, `app/options` | not modelled, see the end |

## Modules

| Module | Models |
|---|---|
| `ProxyTypes` | API objects, `ServiceInfo`, `EndpointsInfo`, and the conversions `serviceToServiceMap` and `endpointsToEndpointsMap` |
| `ServiceChanges`, `EndpointsChanges` | the change maps (`Update`, merge, unmerge) and stale-connection detection |
| `Ipvs` | the table, the translation between the proxier's keys and libipvs's, and the calls of `EnnIpvs` |
| `LocalPorts`, `Conntrack` | which sockets conflict and when a port can be opened; the three kinds of flush |
| `Proxier` | the threads, `mu`, the locks of the change maps, `syncProxyRules`, faults, restarts and the rest of the node |
| `ProxierProperties` | safety, liveness, and what comments and messages say |
| `ObjectView`, `ProxierViews` | an abstract view of a collection of objects, and the maps of `Proxier` as instances of it |
| `ProxierHistory` | `Proxier` with history variables that record which events came too late |
| `Masquerade` | the masquerade rules in the POSTROUTING chain: `EnsureIPtablesMASQ` and `CleanupLeftovers`, command by command |
| `InformerConfig`, `Server` | how objects reach the callbacks, and the process around them from its start to its end |
| `RunnerPromise`, `BoundedFrequencyRunner` | what a bounded frequency runner promises; its loop, timer and rate limiter |
| `AsyncRunner`, `HealthCheck`, `Watchers` | start and stop of loops; the health check server; events through the broadcaster |
| `IptablesRunner`, `XtablesLocks`, `FirewalldSignals` | rule operations under a mutex; the two locks of iptables; rules that firewalld deletes |
| `Version`, `SaveFile` | the order of versions and what follows from it; the reader of `iptables-save` |
| `MCProxier`, `MCHistory`, `MCMasquerade`, `MCServer`, `MCLibrary` | the values of the small instances; `MCLibrary` puts the packages of the last four rows side by side |
| `ProxierProofs` | lemmas about the operators of `ServiceChanges`, `EndpointsChanges` and `Ipvs`; types and loops of `Proxier` |
| `KernelProofs`, `ViewProofs` | proofs about `Proxier`: sockets, rules and real servers; the maps, session affinity and UDP flows |
| `MasqueradeProofs`, `ServerProofs`, `LibraryProofs`, `IptablesProofs`, `TextProofs` | proofs about the other components; `TextProofs` is about `Version` and `SaveFile` |

### How Proxier corresponds to the code

*Threads.* `pc` has an entry for each goroutine that can call `syncProxyRules`.
A handler is `idle`, then `updated` (its `Update` returned that there are
pending changes), then at `sync` if `isInitialized`. The configs and the loop go
to `sync` directly. `mu` is the mutex; `stage` is where its holder is.

*Steps.* `syncProxyRules` is one action for each stretch of code between two
points where another thread can be observed: the two `Update...Map` calls, each
under the lock of its change map; reading the kernel; the unlocked
reads of `len(Items)`, which may disagree; one service port of the full loop at a
time, in any order (Go's map order); `CheckUnusedRule`; one Service item at a
time under its lock, first all rules of its previous state and then each port of
its current one; one changed endpoint port at a time; and the end. While
`stage` is `serviceItems` or `endpointsItems`, the lock of the change map is
held and the corresponding handler waits.

*Locals.* `sync` is the record of the locals of one call. `kernelIpvsMap` and
`nodeIPs` are fields of the Proxier that every sync rebuilds before it reads
them, so they are there too. `kernelClusterMap` survives a failed listing and is
a variable.

*Maps.* A Go map with a small key set is a total function, `Nil` (or the empty
set of endpoints) standing for an absent key. `Items[n]` holds `previous` and
`current`; a map that is nil in Go (skipped service, deleted object) and a map
that is empty are told apart where `reflect.DeepEqual` tells them apart.

*Faults.* Each action takes the system call that fails, or `NoFault`; `MaxFaults`
bounds how many do in a behaviour. A failure has the effect the code gives it:
return, `continue`, a log message, an empty result. `FlushCalls` lets all conntrack
calls of a step fail at once, as they do when the tool is not installed.

*Restarts.* `Crash` is the end of the process at any point, by a kill or a panic
(`GetDummyLink` panics when it cannot add the link). The kernel closes its
sockets and keeps rules, addresses and flows.

*Left out.* The order of endpoints in a list (so an Endpoints update that merely
reorders them, a change for `DeepEqual`, is no change here); names within
namespaces; the weight and scheduler of a rule; IPv6; the text of addresses. The
throttle at `proxier.go:350` delays a sync and is not a state. `Traffic` is a
client's first UDP packet; TCP connections are not tracked.

### How Masquerade corresponds to the code

`chain` is the POSTROUTING chain, a sequence of rules. `MasqRules` are the rules
that the flags can ask for, and `Configs` the lists that `EnsureIPtablesMASQ` goes
through. One process runs at a time: a server (`Start`) or a cleanup
(`CleanUpAndExit`), and `Kill` ends either between any two commands. A server
ensures its rules at the start of the loop, where a failure ends the loop, and in every
tick, where it does not. `EnsureCheck` and `EnsurePrepend` are the two commands
of `PrependUnique`. The cleanup lists the chain once (`doomed` are the numbers to
delete), deletes by number, flushes the table and deletes the link, and
goes on to the next part whatever failed. Other programs insert rules of their own and
flush the chain at any time; they insert no masquerade rule.

Assumed of iptables: a command is atomic and does not outlive the process, `-S`
prints the policy first (so that an index in the list is a rule number), and `-C` and
`--wait` are there (1.4.20 or later). Rules of other programs do not contain both
`ipvs` and `MASQUERADE`. What `syncProxyRules` leaves in the kernel is
arbitrary here; it is the subject of `Proxier`.

### How Server and InformerConfig correspond to the code

`InformerConfig` is parameterised by `Kinds`: `ServiceConfig` and `EndpointsConfig`
are the same code over two types. For each kind `Replace`, `Change` and `Resync` are the
reflector writing to the `DeltaFIFO` (`deltas`, `queue`), with the deduplication of
`queueActionLocked`; `HandleDeltas` pops one name, writes the cache (`indexer`) and
buffers the notifications (`pending`); `Deliver` is the goroutine that calls
`handleAddService` and its siblings; `RunConfig` is `Run` after `waitForCacheSync`.
The informer is vendored code, modelled from its source. An Add and an Update are one
delta `Set`: `HandleDeltas` treats them alike. The filter for resyncs (`isSync`) passes
everything to a single listener with a resync period, so it is not a state.

`Server` adds `Run` (`main`), the goroutine that starts the informers, `SyncLoop`
(`loop`), the signals and the end of the process. A signal kills a process that has not
called `signal.Notify` yet, and one that comes before `Run` reads the channel is
dropped, since the channel has no buffer. `EndpointsWatchConfig` is nil, as nothing
calls `createWatcher`, so that `StopWatcher` ends the process by a panic and `wg.Wait` is never
reached. `syncProxyRules` is one step here and the subject of `Proxier`, where in turn
the events of `ServiceEvent` are the chain that `ChainedEvents` establishes here. The
chain has one exception, which `Proxier` does not have: when a list is read while names
are in the queue, a tombstone can carry an older object than the handler was given last.

### How the library modules correspond to the code

*BoundedFrequencyRunner.* One action per case of the select of `Loop`, the two outcomes of
`TryAccept`, and the end of the function. Time is relative: what is left of the timer, what has
passed since `lastRun`, and how many tokens the bucket has missed. `Fire` and `Pass` are
time; a timer may fire late, and a tick may be in the channel when the timer is set again.
The rate of the limiter is a float32 in the code and taken as exactly one token per
`minInterval` here.

*HealthCheck.* `SyncServices` is one step, since it holds the lock to its end. Connections
outlive their listener, which is how the handler can meet a service that is gone; it panics with the
lock held (`stuck`). `fresh` remembers who was connected to since the last `SyncServices`.

*Watchers.* One object and its events; `goOnUpdate` starts the goroutine of one listener
and `OnUpdate` is when it runs.

*IptablesRunner.* `Call` takes the mutex, `checkRule` and `runCommand` are the commands,
`commandFails` is any other error. `chain` counts the copies of each rule; their order, and with
it the difference between appending and prepending, is left out. Other programs add,
delete, flush, create and remove between any two commands, and `foreign` remembers how many
copies may be theirs. Without `-C` a rule is looked for in the output of `iptables-save`:
`Passes` compares the fields of a line (`SavedAs`) with the arguments (`Args`) as
`checkRuleWithoutCheck` does, by number and as sets, so that a reordered rule passes, and a rule
that is printed in another form never does. `longer` is a chain whose name begins with the name
of the chain: its lines are looked at, too (`iptables.go:445`).

*XtablesLocks.* Any number of commands of four kinds: `iptables-restore` of the utility
(`Restores`), go-iptables before 1.4.20 (`BestEfforts`), and the `iptables` of other programs that
lock a file (`News`) or a socket (`Olds`). `Close` gives back the file, then the socket.
`tryLock` has three outcomes: the lock, a refusal, after which the command runs without it, and any other
error, after which it does not run; the last two leave the file open. `/run` and `/var/run` are one directory, as `lock.go:28` assumes.

*FirewalldSignals.* firewalld and the bus are external: starting is announced before the
rules are deleted, a reload after it, and a full channel loses signals.

*Version, SaveFile.* The functions over abstract texts, called repeatedly: the states are
the calls. A version text is its numbers, their leading zeros and the identifiers of a
pre-release, each of them digits with a value or a word, with a rank in the order of
strings; numbers above `MaxUint` are errors of `ParseUint`. The two iptables decisions start from the
text, errors of `parse` included. A save file is a sequence of bytes of three kinds for `ReadLine`, and a
sequence of lines of six kinds for `GetChainLines`; one of them, a chain without a space behind it,
makes the code panic (`save_restore.go` 55-57).

## Runs

Each run is `tlc -config <Run>.cfg <module>`, with `MCHistory` for `Rules` and `History`,
`MCMasquerade` for `Masq` and `CleanupComplete`, `MCServer` for `Server` and
`SyncedAfterInitialEvents`, `MCLibrary` for `Library`, and `MCProxier` for the others.

| Run | Checks | Instance |
|---|---|---|
| `Rules` | `AffinityFollowsService`, `FullSyncExact` | a UDP port that is renamed, changes number and affinity and keeps its node port, without endpoints; 4 events |
| `Shared` | `NoSocketLeak`, `FullSyncExact` | two services that claim one local external address and port, another process that opens and closes it, and clients; 2 events, 1 failing call (masquerade, dummy link, open, add service) |
| `Restart` | `PendingChangesAreCurrent`, `FullSyncExact`, `NoDisruption`, `ServiceMapIsView`, `EndpointsMapIsView` | a service with a node port; 3 events, 1 restart at any point |
| `Live` | `LoopsVisitEntries`, `ChangesDrained`, `KernelConverges` | a service with a node port; 2 events, 1 failing bind |
| `History` | `MapsExact`, `NoStaleClusterFlows` | a service with a node port, clients of its cluster IP; 3 events |
| `Masq` | `NoDuplicateMasq`, `CleanupExact`, `MasqConverges` | two masquerade rules, two rules of other programs; 3 processes, 3 edits, 1 failing command |
| `Server` | `ChainedEvents`, `SyncedImpliesCached`, `NoSyncCut`, `ShutdownEnds`, `HandlersConverge` | one Service with two versions, no Endpoints; 2 changes, 1 broken watch or resync, 1 signal |
| `Library` | the properties of the library modules, below | see Bounds |

What they show:

- `FullSyncExact`: a full sync without failing calls leaves exactly the rules,
  real servers and bound addresses that the maps ask for, whatever earlier syncs
  or an earlier process left. Rules that need a local port exist exactly when the
  port could be held. Under a key that two service ports claim (`Shared`) the rule
  exists, and its real servers are not determined.
- `NoDisruption`: a full sync, and a sync of Endpoints changes, never removes a
  rule or a real server that the maps ask for. It excepts rules whose local port is
  newly opened or lost, keys that two service ports may claim, and the
  handling of Service changes, which deletes and re-creates rules by design.
- `NoSocketLeak`: the open sockets are exactly the ones the proxier can still
  close, and no two claim one port.
- `ServiceMapIsView`, `EndpointsMapIsView`: `Proxier` implements `ObjectView`. The
  maps may lag and may miss a state, but never return to an older one.
- `MapsExact`: how far the maps can lag. A name is wrong
  only if it had an event between the application of the changes and the lock
  under which they are removed, or after a sync that returned in between. This
  bounds the lost update that `ClearedAfterApplying` exhibits.
- `ChangesDrained`, `KernelConverges`: when events and faults stop, the change maps
  become empty and the kernel comes to match the maps for good.
- `NoStaleClusterFlows`: between syncs no UDP flow to a cluster IP goes to an
  endpoint that is gone. It is about cluster IPs only: `deleteEndpointConnections`
  (`proxier.go:860`) does not flush the flows to node and external addresses. A flow that
  was opened while a rule had no real server is not its subject: the rules that `AddCurrent`
  creates have none before a full sync, even where the endpoints are known.
- `NoDuplicateMasq`: no masquerade rule is in the chain twice, although it is checked
  and inserted in two commands, between which the process may be killed, other programs may
  flush the chain or insert rules of their own.
- `CleanupExact`: a cleanup that finds one masquerade rule at most, and during which
  nothing fails and nobody edits the chain, deletes that rule and no other.
- `MasqConverges`: when edits and faults stop, a server whose loop runs has its
  rules in the chain.
- `AffinityFollowsService`: a changed session affinity reaches the rule, although
  `AddIpvsService` leaves an existing rule alone: the sync deletes the previous rule first.
  It speaks of the moments between syncs when all events have been handled and none was
  late, and of keys that one service port asks for: of two that ask for one key, the first
  to create the rule decides.
- `ChainedEvents`: Adds, Updates and Deletes reach the handler as a chain, each from the
  object that was given last, through broken watches, tombstones and resyncs.
- `SyncedImpliesCached`: when `OnServiceSynced` is called, every initial object that was
  not given to the handler is in the buffer of its listener.
- `HandlersConverge`: once changes stop, the handler has what the cache has and, unless a list
  raced the queue, what the API server has; both Synced callbacks come.
- `ShutdownEnds`: a signal that `Run` receives ends the process, except that `Run` waits for ever
  if `SyncLoop` returned at its start.
- `NoSyncCut`: the panic in `StopWatcher` does not cut a sync of `SyncLoop`. The syncs that the
  callbacks make on the informers' goroutines can be cut by it.

The properties of `Library`, by module:

- `BoundedFrequencyRunner`: `RunnerKeepsPromise` (it implements `RunnerPromise`, liveness
  included), `RequestRemembered`, `TimerArmed`, and `BurstBounded`, by how much a burst exceeds
  `burstRuns`.
- `AsyncRunner`: `LoopsStoppable`. `Watchers`: `QuietListenersCurrent`, a listener that was
  given all it was sent is right unless goroutines overtook each other or a delete came as a
  tombstone, which `servicesDelete` drops.
- `HealthCheck`: `ListenersMatchServices`, and `OnlyOldConnectionsBlock`: the server does block
  for ever when a client asks for a service that is gone, but only on a connection that is older than
  the last `SyncServices`.
- `IptablesRunner`: `RuleAtMostOnce`, of all copies of a rule one at most is the callers';
  `EnsuredRuleIsThere`, an `EnsureRule` that succeeds leaves the rule in the chain, unless it was looked
  for without `-C` and another line can pass for it; `DeletedRuleIsGone`, a `DeleteRule` that succeeds
  leaves copies of other programs at most. The first and the last are about rules whose own line the
  check recognises.
- `XtablesLocks`: `RestoreIsExclusive`, a restore excludes every command that takes a lock (not the
  best effort command that was refused one); `LocksReleased`, no lock outlives its command, and the
  descriptors left open are those of the commands that did not get the lock.
- `FirewalldSignals`: `RulesRestored`. `Version`: `CompareFollowsSemver`, with two
  exceptions (below), and `CapabilitiesAgree`. `SaveFile`: `LinesReadExact` and `ChainsOfTable`.

### Disagreements between the code and what it says

Four runs expect a violation; each checks one sentence of the repository.

| Run | Says | Does |
|---|---|---|
| `ClearedAfterApplying` | `services.go:208`: the changes map is cleared after applying them | a change between `UpdateServiceMap` and the lock at `proxier.go:588` is cleared unapplied |
| `RulesHaveHeldPorts` | `proxier.go:546`: we're holding the port, so it's OK to install ipvs rules | a sync of changes closes the ports of all unchanged services |
| `CleanupComplete` | `options.go:51`: cleanup all ipvs/iptables/ipaddress rules | rules are deleted by the numbers they had before the first deletion; of two masquerade rules one stays |
| `SyncedAfterInitialEvents` | `service_config.go:27`: OnServiceSynced is called once all the initial event handlers were called | it is called when the cache has the objects, which may be before the handlers were called |

Others have no run of their own; they are exceptions of a property above, or seen on the way:

- `initialized` stays false when the Service cache is announced before the Endpoints cache
  (`proxier.go:286` does not call `setInitialized`): only the ticker syncs then.
- A rule that one sync deletes and adds again may lack the real servers that the sync
  skips as known (`proxier.go:951`), until the next full sync: `KernelConverges`.
- `bounded_frequency_runner.go` says "up to bursts"; up to two runs more fit in `minInterval`
  (`BurstBounded`).
- `version.go:242` says absent components count as 0; those absent on the left
  do not: 1.4 is at least 1.4.1. And `version.go` compares an identifier of digits with a word as
  strings, so that 1.0.0--a comes before 1.0.0-1, where Semantic Versioning puts numbers
  first. These are the exceptions of `CompareFollowsSemver`.
- Without `-C`, a rule with the same arguments in another order, or one of a chain with
  a longer name, is taken for the rule (`EnsuredRuleIsThere`), and a rule that `iptables-save` prints in another
  form is added again by every `EnsureRule` (`RuleAtMostOnce`).
- A last line without a newline may be cut short by `ReadLine` (`LinesReadExact`).
- `ipvs-tool` uses the service's port for real servers (`ipvs-tool.go` 196, 250), while its
  documentation shows a port of their own.

### Bounds

`MaxEvents`, `MaxFaults` and `MaxCrashes` bound events, failing calls and
restarts; nothing else is bounded: syncs go on for ever. Two events are an object and its
change or deletion, or one object of each kind; three add the event that arrives
while the first two are being applied, which is what all the windows above need; `Rules`
has four, for a rename after the first sync and another change after that.
One failing call reaches every error path, since each path handles one failure;
one restart reaches every partial kernel state as the initial state of a new
process. One service name is enough where names do not interact; `Shared` has two
for the resources that they share. Model values are not symmetric (addresses
have roles), so no symmetry is used.

Three processes of `Masq` are a server, one with other flags and a cleanup; three
edits put a foreign rule on either side of a masquerade rule and flush the chain.

`Server`: two changes are an object and its change or deletion, and one broken watch or
resync puts a list, a tombstone or a second delivery between any two steps. The Endpoints
informer is there and has no objects; the two kinds share no state. One signal comes
before, while or after `Run` reads the channel.

`Library`: minInterval 2, maxInterval 3 and burst 2 are the smallest intervals that
differ and the smallest burst that is not one run; three channels for `Runner`; two health services
over two ports can swap and share them; two listeners and three events overtake each other;
two callers and three rules, one of them another reordered and one that is saved in another form, with up
to two copies of each, one of them foreign; two restores, two best efforts (each may miss the lock twice)
and a command of each other version; a signal channel of three (10 in the
code; the theorem is for any); 24 version texts around the versions the code asks for,
with all the forms that `parse` tells apart, and 99 as the largest number; all buffers of up to 5 bytes and files of up to 4
lines. One package moves in each behaviour and the others stay in an initial state: they
share nothing.

Deadlock is checked except in `Shared`, where the
loop may have ended at its start and the other threads are then done, in the runs of
`Masquerade`, where no process is left to start, in those of `Server`, where the process ends,
and in `Library`, whose bounded packages stop.

### Fairness

`FairSpec` assumes weak fairness of: the announcement of each synced cache (the
config goroutines wait for a cache that the API server fills); the second half of a callback
and the steps of a running sync (a runnable goroutine runs, and none of these steps
waits for another thread while it holds `mu`, except for the lock of a change map,
which `Update` holds only within one step); some waiting thread taking a free `mu`
(a mutex that is free is taken; no fairness between threads is assumed); and the
loop (the ticker ticks). Informer events, faults, restarts, traffic
and other processes are not fair: they may stop. Liveness is conditional on
`LoopRuns`, because `SyncLoop` returns for good if `EnsureIPtablesMASQ` fails at
its start (`proxier.go:314`).

In `Masquerade` the ticker ticks and a running process takes its next step; starts,
kills, edits and faults are not fair.

In `Server` runnable goroutines run, the API server answers a list, a sync ends and the ticker
fires (weak fairness); the send of the stop meets the select of `SyncLoop` under strong
fairness, since the select chooses at random among its ready cases each time and the ticker cannot win
for ever. Signals and changes are not fair. In `BoundedFrequencyRunner` the loop runs, its function
returns, timers fire and time passes.

`KernelConverges` is about the maps, not about the API objects: a map can
lag for ever behind an object whose last event was lost in the window above.

## Proofs

For every set of services, ports, addresses and objects that satisfies the
assumptions of `ProxyTypes` and `Proxier`, and for every number of events, faults
and restarts:

| Theorem | Module | Statement |
|---|---|---|
| `TypeCorrect` | `ProxierProofs` | `Spec => []TypeOK` |
| `LoopsVisitEntriesCorrect` | `ProxierProofs` | `Spec => []LoopsVisitEntries` |
| `NoSocketLeakCorrect` | `KernelProofs` | `Spec => []NoSocketLeak` |
| `NothingIsDisrupted` | `KernelProofs` | `Spec => NoDisruption` |
| `FullSyncIsExact` | `KernelProofs` | `ExternalApart` gives `Spec => FullSyncExact` |
| `PendingChangesCorrect` | `ViewProofs` | `Spec => []PendingChangesAreCurrent` |
| `ServiceMapRefinement`, `EndpointsMapRefinement` | `ViewProofs` | `Spec => ServiceMapIsView`, `Spec => EndpointsMapIsView` |
| `MapsAreExact` | `ViewProofs` | `HSpec => []MapsExact` |
| `AffinityIsFollowed` | `ViewProofs` | `HSpec => []AffinityFollowsService` |
| `ClusterFlowsAreCurrent` | `ViewProofs` | `AddressesFixed` gives `HSpec => []NoStaleClusterFlows` |
| `NoDuplicateMasqCorrect` | `MasqueradeProofs` | `Spec => []NoDuplicateMasq` |
| `CleanupExactCorrect` | `MasqueradeProofs` | `Spec => []CleanupExact` |
| `EventsAreChained` | `ServerProofs` | `Spec => []ChainedEvents` |
| `SyncedIsCached` | `ServerProofs` | `Spec => []SyncedImpliesCached` |
| `SyncsAreNotCut` | `ServerProofs` | `Spec => []NoSyncCut` |
| `RunnerRefinesPromise` | `LibraryProofs` | the safety part of `RunnerKeepsPromise` |
| `RequestsAreRemembered`, `TimerIsArmed`, `BurstIsBounded` | `LibraryProofs` | `RunnerSpec => []RequestRemembered`, `[]TimerArmed`, `[]BurstBounded` |
| `LoopsAreStoppable` | `LibraryProofs` | `AsyncSpec => []LoopsStoppable` |
| `ListenersAreServices`, `OnlyOldConnectionsBlocked` | `LibraryProofs` | `HealthSpec => []ListenersMatchServices`, `[]OnlyOldConnectionsBlock` |
| `QuietListenersAreCurrent` | `LibraryProofs` | `WatchSpec => []QuietListenersCurrent` |
| `RestoreIsAlone`, `LocksAreReleased` | `LibraryProofs` | `LocksSpec => []RestoreIsExclusive`, `[]LocksReleased` |
| `RulesAreRestored` | `LibraryProofs` | `FwSpec => []RulesRestored`, for any capacity of the channel |
| `RulesAtMostOnce` | `IptablesProofs` | `IptSpec => []RuleAtMostOnce` |
| `EnsuredRulesAreThere`, `DeletedRulesAreGone` | `IptablesProofs` | `IptSpec => EnsuredRuleIsThere`, `IptSpec => DeletedRuleIsGone` |
| `ComparesLikeSemver`, `DecisionsAgree` | `TextProofs` | `VersionSpec => []CompareFollowsSemver`, `[]CapabilitiesAgree` |
| `LinesAreRead`, `ChainsAreOfTable` | `TextProofs` | `SaveSpec => []LinesReadExact`, `[]ChainsOfTable` |

*Assumptions.* The objects are API objects; no address is the empty string, which
a socket uses for any address; node addresses are local addresses; `Nil` is none of
the values it stands beside; the bounds are naturals. For `Masquerade`: the flags ask
for masquerade rules, and no other program's rule is one. For the runner: what `construct`
and the bucket demand of the intervals and the burst. For `Version`: a text has a sequence of
numbers and one of identifiers, and different identifiers are different strings. For
`XtablesLocks`: the four kinds of commands are disjoint. Otherwise only that the values that stand
for nothing are none of the others.

*Type correctness* is not inductive alone: a loop of `syncProxyRules` reads the
entry of a service port it set out for, and reading an absent entry would not be
well typed. The inductive invariant is `Inv == TypeOK /\ LoopsVisitEntries`, with
`LocalsFresh`: while no sync runs its locals are empty, and every loop ends with
nothing left to visit. Without the latter a loop could inherit entries from
the one before it. `LoopsVisitEntries` in turn rests on the lock of the
change map: `ServiceEvent` is disabled in stage `serviceItems`.

*Sockets.* `NoSocketLeak` is inductive given `Inv` and `LocalsFresh`: a loop opens a socket
only if it conflicts with none, and records it in `replacementPortsMap`, which
starts empty; the early return at `GetDummyLink` comes before the first open;
`SyncFinish` closes `portsMap \ replacementPortsMap` and keeps the rest.

*Rules and real servers.* `NoDisruption` needs `ActiveInv`: while no call has failed, the keys
wanted by the service ports a full sync is through with are marked active, so that
`CheckUnusedRule` removes none of them. `FullSyncExact` needs more: `ReadInv`, that what was read of
the kernel is still there when the loop starts; `ProgressInv`, that the active rules are exactly the
wanted ones of the service ports done so far, that a key of only one of them has its real servers, and
that the other keys are as they were read; `NoOrphans`, that a real server belongs to a rule; and
`ApartInv`, that only cluster IPs are bound to the dummy link. The last one holds where no external
address of a Service is the cluster IP of another one (`ExternalApart`). This hypothesis is needed: where
one is, TLC finds a full sync that leaves an address bound that nothing asks for. Nothing in
the code rules such objects out; the instances of the runs have none.

*Refinement.* That an entry changes only to what its object says now follows
from `PendingChangesAreCurrent` and from what merge and unmerge compute, which are
lemmas of `ProxierProofs`: after `UpdateServiceMap` the entry of a pending name is the
current one, or absent when only the previous object had it, or unchanged.

*Exact maps.* `MapsExact` is inductive together with `ServicesApplied` and `EndpointsApplied`: what a
sync is about to remove from a change map it has applied, except for the names with a late
event; and with `ChangesAreReal`: a pending change leads from one object to a different one.

*Session affinity.* `AffinityFollowsService` is about rules after the changes were handled, and
while they are handled a rule may be older than every map. The inductive invariant is `AffinityInv`: as
long as nothing failed, nothing crashed and no event was late, every rule is explained by an entry that
asks for it and has its affinity. That entry is in the service map, or on the previous side of a change
that is not carried out yet. `FullSyncPort` and `AddCurrent` create rules from entries of the map;
`DeletePrevious` deletes the rules of the previous entries of a change, which is where a rule that only
an old entry explains goes away. When nothing is pending only the map is left, and by `MapsExact` it is what
the last events said. The property was first stated for every rule of a service port. The proof attempt showed
that to be wrong where two service ports ask for one key, so the property now excepts such keys.

*Flows.* `NoStaleClusterFlows` is about flows, and a flow comes from a real server, which comes from
the endpoints of a moment. A packet may arrive at any point of a sync, also after the endpoints map has lost an
endpoint and before its server is deleted. The inductive invariant `FlowInv` follows one cluster address
through a sync (`Safe`). While the service port is in the service map (`PresentSafe`), servers and flows lead to
endpoints, or to addresses that the sync keeps in `staleEndpoints` and flushes at its end. A server that is no
endpoint any more is still to be deleted in this sync: its change is pending, its service port is still to be
visited, and the kernel was read with it (`DeletesServers`). After the service port has left the map
(`AbsentSafe`) the same holds of the rule itself, by way of `staleServices` and the deletion of previous rules
(`DeletesRule`). So the last server is gone before `SyncFinish` flushes, and no packet brings a flow back. The
hypothesis `AddressesFixed` is about the objects: a service port has one cluster address (IP, port, protocol),
and no other service port asks for a rule there; the objects of `History` satisfy it. A
cluster IP belongs to one Service for as long as that exists, so the hypothesis excludes two things: a changed
number or protocol under a port's name, and an IP that is given out again after a deletion.
Without it the property fails: when a Service gives the number of one of its UDP ports to another port, the
flows stay, as only removed ports and removed endpoints are flushed, and TLC finds a flow to an address that is no
endpoint of the other port. The proof also showed a condition of the property to be unnecessary: it holds
while an Endpoints change is pending, too.

*Masquerade rules.* `NoDuplicateMasq` needs `AbsentFresh`: what `Exists` found absent is
still absent when it is inserted, since only this process inserts masquerade rules
and a new process checks again. `CleanupExact` needs `NumbersFresh`: during an
undisturbed cleanup the numbers that are left are the positions of the
masquerade rules, of which there is one at most. With two this fails, which is what
`CleanupComplete` exhibits; when another program's rule follows them, its number is the
stale one, and it is deleted instead.

*Events.* `ChainedEvents` speaks about the first event in the buffer of a handler. `ChainInv` says
it of all of them: for each name, the first event in the buffer fits what the handler has, each further one
fits the one before it, and the last one ends at the object in the cache. `DeltaInv` says the same of
the deltas of an item, from the cache to the object of the API server, as long as no list was read while
names were in the queue; and `QueueInv` that the queue has the names with an item, each once.
`SyncedImpliesCached` follows from `FirstListInv`: what is missing of the first list is in the buffer or
among the first `initialCount` names of the queue. `NoSyncCut` follows from `RunInv`: `SyncLoop` has taken
the stop when `Run` goes on to `StopWatcher`.

*The runner.* `RequestRemembered` needs that a refusal is recent (`EmptyBucketIsRecent`): an
empty bucket means that less than minInterval has passed since the last run, so that
`tryRun` always defers a refused request by less than minInterval and never leaves the timer
as it was. `TimerBounds` and `SomethingWakes` keep the timer within maxInterval. `BurstInv` balances the runs of the
last minInterval against the tokens that are left; one more run is possible for a token that came back at once, and
one for a run that is older than the last multiple of minInterval.

*Locks, signals, listeners, rules.* `LocksInv` says which command has which lock at each
place, and how many descriptors each caller of go-iptables has open. `HealthInv` says that a recorded
service has one listener, on the port of its last `SyncServices`, and `BlockedByClosed` that whoever was
connected to since then is recorded. `FwInv` says that what is missing will be reloaded, and that a firewalld that is about to delete
the rules has a start signal not yet past `getDefaultZone`, which is why the handler
makes that call. `WatchInv` says that the latest event is on its way to a listener or was given to it.
`IptInv` says that only the holder of the mutex is not idle, and (`CheckedIsAbsent`) that all copies of the
rule it is about to add are foreign: other programs may add it behind the check.

*Versions and save files.* `CompareFollowsSemver` is an argument about least positions: the comparison stops
at the first component of the left version that differs, the reference at the first that differs in either, and
these are the same unless the latter is beyond the end of the left one. The same argument is made for the
identifiers, on which the two orders agree unless one is a number that is compared as a string. `LinesReadExact` needs
`LinesInv`: `readIndex` is past as many newlines as lines were read. `ChainsOfTable` needs
`ChainsInv`: what `section` says of the lines before `at`, and that a finished reader is behind the end of the
section (`SectionEnded`), after which no line belongs to it (`NothingBehind`). The lengths are bounded by constants, of which the
proofs only use that they are naturals.

*Only model-checked.* Liveness (`ChangesDrained`, `KernelConverges`, `MasqConverges`,
`ShutdownEnds`, `HandlersConverge`, the fairness part of `RunnerKeepsPromise`), which is out of
the prover's reach.

## Not modelled

- `ipvs-tool`: one IPVS call per invocation, argument parsing and printing; no state is kept.
- `pkg/util/dbus`: every function passes its call to the library.
- `app/options`, the construction of the server and the clients: straight-line code that
  reads flags and ends the process on an error.
- How routes become node addresses (`nodes.go`), the text of rules, addresses and versions, and
  regular expressions: conversions that no property distinguishes.
- `BuildServiceMap`, `BuildEndPointsMap`, `revertPorts`, `DeleteEndpointConnections`,
  `DeleteServiceConnections`: older paths that nothing calls.
- `Server` and `Proxier` are not composed: their product is out of TLC's reach. The interface is
  `ChainedEvents` on one side and the events of `Proxier` on the other.
