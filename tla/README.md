# Verification project for ssh-forward

ssh-forward keeps TCP ports forwarded between this machine and every SSH host it
knows. A per-user service holds one *manager* per host. A manager reconciles the
forwarding intent of its host (fixed imports, publications, rules for automatic
imports) with the listeners observed there, runs one goroutine per forward, and
uses one private `ssh` master per host through an *adapter*. The service reads its
configuration, and the hosts it has discovered, from files that the command-line
program edits; commands reach the service over a Unix socket and repair it when
it does not answer.

The modules here model the code under `src/cli/internal`. TLC checks them on
small instances; TLAPS proves the most important properties for every value of
the constants. Every definition that stands for code is tied to its lines in
`PROJECT.json` under `map`.

1. [Inventory](#inventory) of the system
2. [Modules](#modules): which models what, and how state and actions correspond
3. [Runs](#runs), their bounds, and what they show
4. [Fairness](#fairness)
5. [Theorems](#theorems) and the argument behind them
6. [Findings](#findings)
7. [Not modelled](#not-modelled)
8. [Plan](#plan)

To check a run: `tlc -config ManagerPorts.cfg MCManager`. To check the proofs of
a module: `tlapm ManagerProofs.tla`.

## Inventory

### Desired forwards and the reconciliation plan (`core/desired.go`, `core/reconcile.go`, `core/status.go`)

- *State*: none; pure functions of intent, listeners and running workers.
- *Operations*: `normalizeIntent` (defaults, duplicates refused),
  `buildDesiredForwards` (fixed forwards, then automatic ones for listeners that
  a port or directory rule selects), `planReconciliation` (keep, stop, wait, start).
- *Hard*: an import and a publication may want one local port; a publication's
  remote end is itself an observed listener; an automatic forward may become a
  fixed one without a change of behaviour.
- *Correct when*: each key has one desired forward; a publication waits for an
  import on its port; nothing that did not change is restarted.

### Forwarding manager (`core/manager.go`, `core/manager_observe.go`, `core/worker.go`)

- *State*: under `m.mu`: `closed`, `intent`, `reservedLocalPorts`, `discovery`,
  `listeners`, `states`, `forwardWorkers`; each goroutine's position and its
  cancellable context.
- *Operations*: `UpdateIntent`, `Close`, the observer goroutine, the worker
  goroutines (`runForward`, `forwardOnce`, `setForwardState`, `forwardStopped`).
- *Interactions*: calls `Backend.Forward`, `Backend.Observe` and
  `Backend.Close` outside the lock; the Backend calls `ready` and `emit` back.
- *Hard*: a cancelled worker stays registered until it returns; its key may be
  wanted again meanwhile; the reservation of a port is checked and claimed under
  two lock acquisitions; Close races with everything that is queued.
- *Correct when*: one goroutine per key; no desired forward is lost; status tells
  which ports are held; a publication never starts on a held port; after Close
  nothing starts, everything ends, and the transport goes last.

### OpenSSH adapter (`openssh/adapter.go`, `master.go`, `control.go`, `forward.go`, `remote_bind.go`, `observe.go`)

- *State*: `a.mu`, `a.master` (process and `done` channel), `a.closed`; outside
  the program: the ssh processes, the control socket, the listening endpoints.
- *Operations*: `ensureMaster` (start, wait, give up), `Forward`
  (`-O forward`, verify, `ready`, wait, `cancelForward`), `Observe`, `Close`.
- *Hard*: `a.mu` is held across ssh commands; a command may fail after the master
  obeyed it; a master may exit at any time and be replaced while a call waits for
  the lock; a dead Manager's master may still own the socket; sshd may widen a
  bind.
- *Correct when*: a call leaves nothing listening behind; it touches only what it
  installed itself; no ssh process is forgotten; a cancelled call returns.

### Listener scanner (`openssh/scanner.go`, `scanner_script.go`, `scanner.sh`)

- *State*: `knownSSH`, the sockets that were recognised as SSH servers.
- *Operations*: read a snapshot, classify, ask for banners, emit a listener set.
- *Hard*: a port reused by another listener between two snapshots; a stream that
  ends half way; the limit of 256 ports; sockets owned by somebody else.
- *Correct when*: only complete snapshots are emitted; the cache never hides a
  different listener; an SSH server is never offered for forwarding.

### Process handling (`openssh/process.go`, `process_unix.go`)

Wrappers of `os/exec`: process groups, bounded output, exit codes. Their only
effect on the models is the one the adapter's actions have on processes.

### Manager pool (`app/manager_pool.go`)

- *State*: `closed`, `requested`, `managers`, `targets`, under `p.mu`.
- *Operations*: `reload`, `AllStatuses`, `lookup`, `Close`.
- *Interactions*: loads the configuration and the registry, creates, updates and
  closes managers, and gives every manager the published ports of all hosts.
- *Hard*: `reload` has seven early returns, three of them after part of its work
  is done; its context belongs to an HTTP request; Close runs beside it.
- *Correct when*: after a successful reload the managers are exactly the targets
  with the current settings; no manager that runs is forgotten; a failed reload is
  repaired by the next; no host imports onto a port another host publishes.

### Configuration store (`app/config*.go`, `jsonc.go`, `layout.go`)

- *State*: `config.jsonc` and its lock file.
- *Operations*: `editConfig` (lock, read, edit, atomic replace), the edits of
  forwards and rules, `effectiveIntent`.
- *Hard*: several commands edit at once; the service reads without the lock.
- *Correct when*: no edit is lost; a reader sees a whole version; an edit that
  would make the intent invalid is refused.

### Host registry and discovery (`app/host_registry.go`, `host_equivalent.go`, `host_discovery.go`, `host_target.go`, `sshconfig.go`)

- *State*: `discovered-hosts.json` and its lock file.
- *Operations*: `mergeDiscovered`, `EditHost`, `hostTargets`, `collapseSameHosts`.
- *Hard*: names are resolved before the lock is taken, so that an identity may be
  stale when it is merged; several names may be one host; a record's ssh
  configuration may have disappeared.
- *Correct when*: a merge never recreates or changes a record; one target per
  resolved destination, chosen independently of the order of a Go map; an
  ignored host has no runtime.

### Service lifecycle and IPC (`app/service.go`, `service_program.go`, `ipc.go`, `ipc_client.go`, `manager.go`, `runtime.go`)

- *State*: the Unix socket, the HTTP server, the monitor goroutine.
- *Operations*: `listenManager`, `Start`, `Stop`, the five-second reload loop,
  `Connect` (dial, repair, wait).
- *Hard*: two services starting at once; a stale socket; Stop during Start or
  during a reload that holds `p.mu`.
- *Correct when*: at most one service serves the socket; Stop ends everything
  Start began; a client never talks to an incompatible service.

### Doctor, command line, status view, diagnostics

Read-only checks, the argument grammar and text layout. The doctor's probe uses
an adapter of its own and is the one caller that closes an adapter under a running
`Observe`; that use is modelled (`closing.early` in `Adapter`).

### Which failures matter where

| Hazard | Where it bites |
| --- | --- |
| two lock acquisitions for one decision | worker.go:52 and 56; forward.go:34; host_registry.go:65 |
| a late result of something replaced | worker.go:81, 95; control.go:82 |
| a command whose outcome is unknown | forward.go:45, control.go:92 |
| part of the work done, then an error | manager_pool.go:62, 83, 87 |
| a lock held for long | master.go:24, manager_pool.go:31 |
| leftovers of a dead process | master.go:44, ipc.go:22, service.go:94 |
| what was read before a lock is written under it | host_registry.go:65, manager_pool.go:46-50 |
| a command ends between two of its steps | config.go:169, command_forward.go:60 |
| a cached classification of something replaced | scanner.go:169 |

`PROJECT.json` lists each hazard at its line with the properties that cover it.

## Modules

| Module | Stands for | Uses |
| --- | --- | --- |
| `Reconcile` | `desired.go`, `reconcile.go`: pure operators | |
| `Manager` | `manager.go`, `manager_observe.go`, `worker.go`, and the Backend as they see it | EXTENDS `Reconcile` |
| `ForwardLifecycle` | abstract: what a manager promises about its forwards | INSTANCE in `Manager` |
| `Adapter` | the `openssh` adapter with its processes and endpoints | |
| `BackendContract` | abstract: what `core.Backend` promises of `Forward` | INSTANCE in `Adapter` |
| `Scanner` | `scanner.go`, `scanner.sh`, and the services of the host they look at | |
| `HostRegistry` | `host_registry.go`, `host_equivalent.go`, `host_discovery.go` | |
| `ManagerPool` | `manager_pool.go`, with its Managers as open, closing or closed | EXTENDS `HostRegistry` |
| `ConfigStore` | `config*.go`: the edits of `config.jsonc` under its lock | |
| `Service` | `manager.go`, `service.go`, `service_program.go`, `ipc*.go`, and the service manager of the operating system | EXTENDS `ConfigStore` |
| `MCManager`, `MCAdapter`, `MCScanner`, `MCPool`, `MCService` | the instances for TLC | EXTEND the above |
| `ManagerProofs`, `ManagerStepProofs`, `ManagerRefinement`, `AdapterProofs`, `ScannerProofs`, `HostRegistryProofs`, `PoolProofs`, `ServiceProofs` | theorems | EXTEND the above; `PoolProofs` also `HostRegistryProofs` |

### Reconcile

Ports are `1..MaxPort`, and 0 is an omitted port. Executables, directories and
patterns are members of small sets; which pattern matches which directory is the
constant `Match`, in place of the glob library. Sorted Go slices with distinct
ports are sets, Go maps are functions on the set of their keys. Lists that a
caller hands over are still sequences, because `normalizeIntent` refuses
duplicates. `DesiredForwards` is `buildDesiredForwards` and
`PlanReconciliation` is `planReconciliation`.

A bind address is a port: the code fixes the addresses on both sides. Of a
status the models keep state, ports and label; error texts are left out.

### Manager

One action is one critical section of `m.mu`, together with what the goroutine
does up to its next wait.

| Code | State or action |
| --- | --- |
| `m.closed`, `m.ctx` | `closed` |
| `m.intent`, `m.reservedLocalPorts`, `m.listeners`, `m.discovery` | variables of these names |
| `m.states`, `m.forwardWorkers` | functions on the keys present |
| a worker goroutine and its context | `task[<<key, incarnation>>]`: position, target, offset, `cancelled` |
| `newManager` | `Init` |
| `UpdateIntent` | `UpdateIntent(raw)` |
| `Close` | `Close`, then `CloseBackend` for its background half |
| `observe`, `setDiscovery`, `setListeners` | `ObserveStart`, `SetListeners`, `ObserveReturns`, `DiscoveryFailed`, `ObserveRetry` |
| `reconcileForwardsLocked`, `startForwardLocked` | `ReconcileForwards`, inside each action that calls it |
| `runForward`, `forwardOnce` | `CheckReserved`, `ClaimPort`, `Ready`, `ForwardFailed`, `RetryTimer`, `RetryCancelled` |
| `forwardStopped` | `ForwardStopped` |
| `backend.Forward` | `Bind`, `PortConflict`, `TransportError`, `ForwardCancelled` |

Each key has two incarnations of its goroutine, so that an overlap of two
goroutines of one key is a state of the model; that none occurs is a property
(`OneTaskPerKey`), and the proof shows that two are always enough. The
Backend's actions are what `BackendContract` allows: `Bind` is its `Binds`,
`Ready` its `BecomesReady`, `PortConflict` and `TransportError` are calls that
return an error, `ForwardCancelled` is a call that returns after cancellation,
and in all three the endpoint is gone in the step in which the call returns.

The candidate of an import stays below `MaxPort` in the code's guard; the model
keeps that guard in `NextPort`, and a mutant without it breaks `TypeOK`.

### Adapter

`a.mu` is held across ssh commands, so it is explicit: a step that takes it and
a step that releases it are separate actions. A call of `Forward` or `Observe`
is a record with its position, its tuple, the master it refers to and whether its
context is cancelled.

| Code | State or action |
| --- | --- |
| `a.mu` | `mu` |
| `a.master`, `master.done` | `master`, `process[g] = "exited"` |
| `a.closed`, `Close` | `closing`; `CloseCalled`, `CloseAdapter`, `CloseReturns` |
| `ensureMaster` | `ReuseMaster`, `RefuseClosed`, `ReplaceMaster`, `ValidateAlias`, `StartMaster`, `StartMasterFails`, `MasterReady`, `MasterNotReady`, `AbandonMaster` |
| `Forward` before the lock | `LocalPortAvailable`, `LocalPortConflict` |
| `Forward` under the lock | `LockInstallation`, `TransportReplaced`, `InstallForward`, `InstallRejected`, `InstallUncertain`, `MasterRetired` |
| verification, `ready`, the wait | `EndpointReady`, `EndpointNotReady`, `ForwardEnds` |
| `cancelForward` | `CancelSkipped`, `LockCancel`, `CancelForward`, `CancelFails`, `MasterRetired` |
| `Observe` | `ObserveStops`, `ScannerFails` |
| the ssh processes and sockets | `MasterServes`, `MasterExits`, `Installs`, `Removed` |

What the model assumes of OpenSSH, which is not part of the repository:

- a master takes the control socket only when no other one answers there, and a
  command is answered by the one that has it, whichever that is;
- a command whose context is already cancelled does not start;
- a master that was signalled, or got `-O exit`, answers nothing more;
- the endpoints of a master go when it exits;
- a master accepts a forward it has already, and refuses one whose port something
  else has;
- an installation whose outcome is unknown is committed, if at all, before the
  retirement of its master ends.

OpenSSH itself starts a master without its socket when another one has it, and never
gives it the socket later; in the model such a master may get it (`MasterServes`), which
only adds behaviours. That a leftover's endpoint is not handed to a call while another
call for the same tuple is in progress is the Manager's `OneTaskPerKey`.

*Leftovers.* The ssh process of a Manager that died is in a process group of its own and
outlives it. It may be serving, with forwards installed, or still connecting; then
`-O exit` does not reach it, and it may take the socket before the new master does. The
code also ignores the result of `-O exit`, which may fail or time out (`RetireLeftover`
has both outcomes). In each case `-O check` is answered by the leftover and its
installations are made there. `misled` records that the answer which made `a.master`
current was another master's. The code cannot tell, and no action's guard reads it; only
properties and the invariant do.

Only this program's endpoints are modelled. A local port that another program has
is one of the reasons for `LocalPortConflict` and `InstallRejected`.

Masters are numbered, and a number that nobody refers to is used again, so the
number of reconnections is not bounded; `MaxGeneration` bounds the masters that
are referred to at one time. `Init` chooses between the two uses of an adapter. A
manager closes it after every call has returned, which `BackendClosedLast` shows of
`Manager`. The doctor's probe only observes, closes at any time (`closing.early`), and
has a new socket directory, so that there is no leftover.

### Scanner

The script on the host and `scanListeners` take turns, and `turn` says whose turn
it is. Sockets are records of what tells them apart for the code: port, inode,
kind of address, user, what their process shows, and whether they greet as SSH.
Services start and stop between any two steps.

| Code | State or action |
| --- | --- |
| the socket table, `ss`, `readlink`, docker | `ListSockets`, `LookUpOwners` |
| `classify` | `Classify` (`Best`, `Present`, `Fresh`, `AppOf`, `Listeners`, `Probe`, `Remembered`) |
| `read_banner`, one port after the other | `ReadBanner(p)`, `SendBanners` |
| `applyBanners`, `emit` | `Emit` (`Recognised`, `ApplyBanners`) |
| an error or the end of the stream; `Observe` again | `EndScan`, `ObserveAgain` |
| `knownSSH` | `knownSSH`, the sockets, each of which has its port |

`steady` and `recognised` only observe: which sockets were up and alone on their
port since the snapshot, and which greeted while they were shown. Of Linux the
model assumes that an inode is not used again, that only one service has a port
(several workers of it may), and that 127.0.0.1 reaches IPv4 sockets and dual-stack
IPv6 ones.

### HostRegistry and ManagerPool

`reload` holds `p.mu` from its beginning to its end, but the registry, the files
and the Managers do not wait for it; so each part of it between two calls that may
fail or take time is an action.

| Code | State or action |
| --- | --- |
| `discovered-hosts.json` | `registry`: name to setting and identity |
| the temporary files that `-F` names | `files` |
| `hostTargets`, `collapseSameHosts`, the filter of ignored hosts | `Gathered`, `Collapsed`, `Monitored`, in `ResolveTargets` |
| `mergeDiscovered` | `MergeIdentities` (of a reload), `DiscoverHosts` (of discovery) |
| `p.closed`, `p.requested`, `p.managers`, `p.targets` | variables of these names |
| a Manager | `runtime[m]`: the host and target it was created for, its intent, open, closing or closed |
| `reload` up to each of its early returns | `BeginReload`, `ResolveTargets`, `ResolveFails`, `MergeDiscovered`, `MergeFails`, `CloseOutdated`, `DeleteClosed`, `CloseGivesUp`, `SetTargets`, `UpdateIntent`, `UpdateFails`, `CreateTarget`, `CreateFails`, `FinishReload` |
| the end of the request's context | `EndContext`, at any moment |
| `Close` | `ClosePool`; `RuntimeClosed` is the end of a Manager |

What OpenSSH resolves a setting to is the constant `Resolves`; a setting whose
file is gone is not resolved, and any other may fail to be in time. The
configuration is chosen freely at each reload, because commands may have edited it in
any way; an intent is the ports a host publishes and the ports reserved by all. The
registry's own steps are taken while a reload is between its reading and its
merge; at any other time they commute with the pool, and are left to the next
reload.

### ConfigStore and Service

A command is a position in its program. `ConfigStore` has the edit: `Lock`, `Read`,
`Save`, `Unchanged` or `Refuse`, and `Abort` at any point, which frees the lock as
the kernel does. The file is a record of rules per scope, hosts and ignored hosts.
`saved` is the sequence of the commands that replaced the file; its length is the
version of the file.

`Service` adds what a command does next and the process of the service. A reload
is what matters to a command: the version it read, and on whose behalf.

| Code | State or action |
| --- | --- |
| `Connect`: `dialManager`, `socketLive`, `waitManager` | `DialAnswered`, `DialFails` |
| `ensureService`, `installAndStart` | `EnsureService`, `Install`, `StartService` |
| `reinstallService`, `uninstallService` | `UninstallStatus`, `StopService`, `ServiceStopped`, `UninstallService`, `LookAtSocket`, `RemoveSocket` |
| `Session.Reload`, `/reload` | `RequestReload(c)`, `FinishReload`, `FailReload`: once for `Connect`, once for `finishEdit` |
| `listenManager`, `Start` | `ListenManager`, `StartReload`, and `FinishReload` or `FailReload` |
| the monitor | `MonitorReload` |
| `Stop` | `CancelMonitor`, `Shutdown`, `Exit` |
| the service manager | `installed`, `wanted`, `told`; `Restart`; what `Status` may say |

What the model assumes of systemd and launchd: they run one process of the
service at a time; they start it again when it ends while it is wanted; a stop
waits for the process; uninstalling stops the process (launchd) or does not
(systemd). A process that was restarted is of the program of the command that
installed it.

`Connect` reloads, and `finishEdit` reloads again right after it. One of the two
would do; the model has both, because the second reaches whoever answers then.

### How the modules fit together

`Manager` relies on `core.Backend` (status.go:124-128): a forward listens when
`ready` is called and not after `Forward` has returned. `BackendContract` states
that promise, `Adapter` is shown to implement it (`ImplementsContract`, checked
and proved), and `Manager`'s four Backend actions follow it. In the other
direction, `BackendClosedLast` of `Manager` is the assumption of `Adapter` that a
manager closes an idle adapter. What `ImplementsContract` excepts, a leftover that
interferes, the manager does not know of either: its reservations rest on the contract.

`Scanner` emits the listener sets that `SetListeners` of `Manager` takes.
`ManagerPool` sees of a Manager that it accepts intents while it is open
(`UpdateIntent`), and that a closed one ends (`CloseCompletes` of `Manager`,
`CloseFinishes` of `Adapter`): that is `RuntimeClosed`. The reserved ports of
`Manager` are `IntentFor` of the pool. The reload of `Service` is the pool's, from
`BeginReload` to its end; `SettledAfterSuccess` is why "a reload that has read
version n succeeded" means that every host goes by that version. What
`ConfigStore` lets anybody read satisfies what `ManagerPool` assumes of `Config`.

## Runs

State counts are distinct states.

| Run | Question | States |
| --- | --- | --- |
| `manager_ports` | one import and one publication meet on a local port, every way and order | 146,710 |
| `manager_rules` | automatic forwards come and go with listeners and rules | 278,604 |
| `manager_liveness` | does everything that must happen, happen | 35,296 |
| `manager_reservation_race` | *violation*: check and claim of a port are not atomic | |
| `manager_equivalent_intent` | *violation*: an equivalent intent restarts a worker | |
| `adapter_forwards` | two calls compete for two tuples over masters that fail, beside a leftover | 1,161,176 |
| `adapter_liveness` | do cancelled and disconnected calls return, and does Close | 80,392 |
| `adapter_leftover` | *violation*: a call returns, and a leftover listens on for it | |
| `scanner` | is every service offered, and no SSH server, while ports change hands | 637,390 |
| `pool` | reloads that fail anywhere, over a registry that changes | 2,599,534 |
| `pool_status` | *violation*: a reload that gave up blocks the status of all hosts | |
| `service` | two commands edit, connect, repair or uninstall; the service crashes | 644,978 |

**Bounds of the manager runs.** Three ports are the least for which an import has
a preferred port, a fallback port and one more that the publication's remote end
takes; one further offset (`MaxOffset = 1`; the code tries more) is enough for
every branch of the loop: a candidate that is reserved, in conflict, beyond the
last port, or the last one allowed. One import key and one publication key meet
in every order of intents, because intents are chosen freely at each step from the
six of the run: the import alone, with the publication of its port, with that
port reserved by another host, rebound to the last port without and with
fallback, and an invalid list. The rules run has one executable, one directory and one
pattern, and intents for every branch of `Candidates` and `TakenPorts`; the
invalid one has a name that no rule may have. The liveness run has two ports and
two intents, because its graph is explored with every fairness condition.

**What the manager runs show.** `OneTaskPerKey`, `NoLostForward`,
`StatesMatchWorkers` and `HeldPortIsReported` are the four facts on which
`PublicationStartsClear` rests: a worker is in the map from its start to its
return, the port it may hold is in its status although a cancelled worker may no
longer write there, and so a reconcile that reads the status cannot start a
publication on a held port. `WorkersMatchIntent` and `ActiveForwardUndisturbed`
are the two sides of reconciliation: everything that must change does, and nothing
else. `ImplementsLifecycle` is the whole of it, as a refinement.

**Bounds of the adapter runs.** Two callers are the least for which a call's
master is replaced by another one under its feet; an import and a publication
give equal and different targets and both directions; three generations are one for
each call and one being started, beside the leftover. Callers are symmetric: no action
tells two of them apart, and symmetry is used in the safety runs only. The
liveness run has one import and two generations, without symmetry. All have the
adapter of a manager and that of the doctor among their initial states.

**What the adapter runs show.** A call that returns leaves nothing listening, by
any of its error paths (`ReturnLeavesNoEndpoint`); it installs on the master
whose exit it watches (`InstalledOnOwnMaster`) and a late cleanup takes nobody
else's endpoint (`OnlyOwnerRemoves`); no path leaves an ssh process behind
(`NoOrphanMaster`). Each of the first three excepts exactly what a leftover that
answered in place of the adapter's own master can spoil, and `ImplementsContract` the
steps taken while `LeftoverInterferes`; a call whose forward a leftover carried out, or
whose cancel reaches a master that was not up when it was taken for ready, has no
promise. That the exception is needed for the first is the run `adapter_leftover`
(finding 4). `TypeOK` includes that `mu` is held by exactly the call
between its Lock and its Unlock, which is where a forgotten unlock would show.

**Bounds of the scanner run.** Three ports with two sockets each, of which two are
looked at, so that the limit cuts. The first port changes hands between an SSH
server of another user and a service of this one, the second has two workers of
one SSH server that nobody can name, and on the third an SSH server with a name
and a service of another user take turns, under a container's label. Every socket
starts and stops at most once.

**What the scanner run shows.** The two sides of the memory: a service is not
hidden by what listened on its port before (`SteadyListenerOffered`), and an SSH
server is hidden as long as the snapshots show it, even when its later greetings
come late (`RecognisedNeverOffered`); and the memory does not grow
(`KnownBounded`).

**Bounds of the pool runs.** Three names of two machines: an alias that is asked
for, a discovered session to the same machine with a temporary file, and a host of
the configuration. Three configurations add that host, move it to another target
while ignoring the alias, and remove it. Three Managers are one more than the
machines, so that one may be cleaning up; `CreateTarget` needs a free one, and a
number is free again when its Manager has ended and the pool has dropped it.

**What the pool runs show.** A Manager that a reload gave up on is not forgotten
and not doubled (`OneManagerPerHost`); the next reload that succeeds makes up for
everything (`SettledAfterSuccess`); the close of the pool reaches all
(`ClosedPoolRunsNothing`); identities that are merged late do not split a machine
(`KnownHostNotSplit`). In `KnownHostNotSplit` an explicit host whose `-F` file is
gone is left out: nothing remembers its identity.

**Bounds of the service run.** Two commands, each with one of five tasks: a
strict import and a publication that exclude each other, the removal of a rule that may
not be there, ignoring a host, and uninstalling. The service was never installed,
runs in the old or in the new version, or was stopped, and a dead process may have
left its socket; it crashes once (`MaxCrashes`), and one reload fails for a reason of
its own (`MaxTroubles`). The second command is the other one for every race: for
the lock, for the socket, for the installation.

**What the service run shows.** `EveryEditStored`: the file is what the saved edits
make of it in their order, and always valid. `EditTakesEffect`: once a command has
returned without an error, a version of the file holds its edit, and no process
that serves goes by an older one. `SavedEditsApplied`: an edit
that was saved by a command that did not get so far is applied nevertheless. That
commands always succeed is not claimed: two of them that repair or uninstall at
once may make each other fail, see the hazard at service.go:94.

Deadlock is checked in the runs of the manager, the adapter and the scanner, where the
only states without a step of the program are those after Close (`Terminated` and
`Finished` say so; a scanner goes on for ever). `pool` and `service` do not check it: a
closed pool is done, and so are commands that have ended beside a service that is
uninstalled.

## Fairness

*Manager.* A goroutine that can run does (weak fairness of `WorkerStep` per key,
of the observer and of `CloseBackend`); a `Forward` whose context is cancelled
returns (weak fairness of `ForwardCancelled`), which `Adapter` shows as
`CancelledCallReturns`; `Observe` returns when the manager is closed; and
`SetListeners` with the present listeners recurs, because the scanner emits a set
every few seconds. Nothing is assumed of binding, of errors, of intents or of
Close itself.

*Adapter.* Go's mutex hands itself to a waiter that has waited for a
millisecond, so no waiter is overtaken for ever: strong fairness of the steps that
take `a.mu`. Commands end within `controlTimeout`, waits for readiness within
`readyTimeout`: weak fairness of the steps under the lock. A signalled master
exits because it is killed after `waitDelay`. Nothing is assumed of a master that
was not signalled, nor that a caller is ever cancelled.

*Service.* The steps of the process and the restart by the service manager go on
(weak fairness of each), and the ticker of the monitor ticks (weak fairness of
`MonitorReload`). A reload ends: `p.mu` is held only while calls run that have
timeouts. Commands have no fairness: they may stay where they are, or end. Crashes
and failing reloads are bounded, which is the assumption that they stop at some
time; finding 3 is a case in which reloads do not stop failing, and there
`SavedEditsApplied` does not hold for the hosts concerned.

The scanner and the pool have safety properties only.

*A limit.* `WaitingPublicationStarts` is stated for one import in the
publication's way. With two imports that prefer the same published port
(`CompetingIntents` and `CompetingObservations` of `MCManager`), each restart of
one may find the other recorded on the port, and a scheduler that delays workers
between their start and their first claim, while equivalent intents and listener
sets keep arriving, can keep the publication waiting for ever. Weak fairness does
not exclude it; a worker that is scheduled before the next reload does.

## Theorems

All are proved for every `MaxPort`, `MaxOffset`, every set of names, intents
and observations, every set of callers and tuples and every `MaxGeneration`; every
finite set of sockets and every limit; every set of hosts, configurations and
registries; every set of commands and tasks, and every number of crashes: from
the named assumptions of the modules alone.

### Manager

The safety properties are not inductive one by one: that a key has one goroutine
depends on the map and the goroutines agreeing, which depends on every action
that starts one finding no other. The invariant of `ManagerProofs` is

- `RestTyped`: types of the variables a reconcile leaves alone, and where the
  observer can be;
- `Consistent`, on the maps: they are typed; a goroutine runs exactly when it is
  registered (`Linked`), under the key of the forward it runs (`Keyed`), its port
  is in its status (`Reported`), and a status belongs to a worker or to a waiting
  publication (`Stated`);
- unless closed, `Reconciled`: kept workers match what is desired (`Matching`)
  and nothing desired is lost (`NoneLost`).

`Consistent` and `Reconciled` take the maps as parameters. One lemma shows that
`ReconcileForwards` establishes them from maps that are consistent except that one
worker may have gone; each of the four actions that reconcile cites it, and the
steps of a worker have a lemma of their own. `Invariance` is the induction, and
the invariants of the runs follow from it.

`ManagerStepProofs` proves the action properties from the invariant, and the part of
each liveness property that fairness does not decide:

- `Rank` counts the steps a goroutine has left to its end. `RetiringEnds`: a cancelled
  goroutine stays cancelled, no reconcile touches it, and every step of its own lowers
  the rank, so that it takes at most `MaxOffset + 4` of them. `ShutdownEnds`: after
  Close every step lowers the rank of one goroutine or of the observer, or closes the
  transport. What `RetiredWorkerEnds` and `CloseCompletes` add is that the steps are
  taken.
- `ReservedPortsYield`: every reconcile cancels every import that is bound, or about
  to be bound, to a port that is reserved by then. It rests on `Reported`: the
  plan reads ports from the statuses, and a goroutine that may hold a port is
  recorded on it. `ReservedPortYields` adds that the cancelled goroutine ends.

It also proves what does hold where two findings violate what the documentation
says, so that their extent is known for every size of the system: the next
reconcile ends every conflict of a publication and an import (`ConflictsEnd`), and a
repeated intent disturbs nothing but imports recorded on a reserved port
(`RepeatsDisturbLittle`). The second follows from a fixed point: when the running
forwards match what is wanted and their statuses agree with them, the plan for the
same wishes stops only what `UsesReservedPort` selects (`ReconcileRepeats`).

`ManagerRefinement` proves `ImplementsLifecycle`; the mapping needs one more
fact, `ExitCancelled`: a worker that is about to unregister has been cancelled,
hence the abstract name was retiring before it ends.

### Adapter

The invariant of `AdapterProofs` is

- `Typed`: types, who holds the lock, and what a call remembers at each position;
- `Masters`: a master is started only when there is none, only a retirement tells the
  current one to go, one at a time answers, and the current one is up unless the adapter
  was misled (`Replaces`); none is forgotten (`NoOrphanMaster`);
- `Endpoints`: endpoints live on masters that are up; a call's master is the
  current one until it exits, and even afterwards while the call holds the lock
  (`KeepsMaster`); unless the adapter was misled a call has its endpoint until its master
  exits or it cancels (`KeepsEndpoint`); and the two properties about ownership.

`KeepsMaster` is what makes the comparison of generations under the lock
sufficient: a cancel that was sent to the current master was sent to its own.
`OnlyOwnerRemoves` and `ImplementsContract` follow step by step. The steps of the
contract are proved from states without `LeftoverInterferes`: there every call that has
something listening has it on its own master (`ListensInside`), all on one
(`OneTransport`). A leftover may still be about: what a call of which it carries out the
installation does in that step is a step of the contract, too.

Three more theorems say what the runs only show with fairness, or not at all.
`CallsAdvance`: `CallRank` falls with every step of a call, so that no path of
`ensureMaster`, `Forward` or `Observe` loops, and a cancelled call stays cancelled.
`OnlyDoomedAwaited`: whoever waits for a master to exit, which may be while it holds
`a.mu`, waits for one that has exited or been told to. `CloseLeavesNothing`: once
`Close` has taken the lock, every process of the adapter has exited or been told to, and
nobody takes the lock again. For the last two the invariant is extended by `WaitInv`.

### Scanner

A socket that is credited with a greeting may not be the one that greeted: the
script connects to a port, later than the snapshot. The invariant of
`ScannerProofs` says what is true all the same. `GreetingsTrue` and `MemoryTrue`:
whatever was credited with a greeting, or is remembered, is an SSH server or
listens no more, because sockets that share a port are workers of one service
(`PortsShared`) and a closed socket does not come back. `SteadyListed` follows a
steady service through the round, `RecognisedKept` an SSH server from one round to the
next, and `MemoryBounded` says that what is remembered is of one snapshot.
`PresentBounded` counts: the number of lower ports is below the limit and tells
the sockets of a snapshot apart, so that there are no more of them than the limit
(the pigeonhole principle of the library).

### Manager pool

The invariant of `PoolProofs` is

- `RegistryInv`: types of the registry, and `Truthful`: an identity is what OpenSSH
  resolves the setting of its record to, which a merge keeps because it compares the
  settings;
- `ReloadTypes`, `RuntimeTypes`, `TableTypes`: types, and what a reload knows at each of
  its steps;
- `Entries` and `OneManagerPerHost`: an entry of the pool is a Manager that was created
  for that host and the target the pool has for it, and every live Manager has its
  entry. Together they make entries distinct;
- `ClosedPool`: a closed pool runs no reload and no Manager;
- `Updated`: the hosts an update is done with are open and told the intent of the
  configuration that was read.

`SuccessSettles` is `Updated` when nothing is left to do. `MachinesNotSplit` needs, of
the registry, only `Truthful`: names with an identity are grouped by the machine
(`KeyIsMachine`), and a group has one winner.

That is proved in `HostRegistryProofs`: on the names of one machine the preference is
asymmetric, total and transitive. Hence `OneWinnerPerMachine`, for any number of names (the
best by the first criterion that tells them apart, and of equal ones the least); and
`MapOrderIrrelevant`, about the loop
of host_equivalent.go:42-54 itself (`LoopOver`, which the model replaces by the set of
winners): in whatever order Go hands out the names, it ends with that winner.
`NoMachineDropped` draws the conclusion for a reload: every machine is monitored under
exactly one name, unless the ignore list has the preferred one. `ReservedForAll` is the
pool's half of the reservation of ports: after a success every host reserves what any
host publishes.

### Configuration and service

The invariant of `ServiceProofs` is `LockInv` (only the holder of the lock reads and
saves, and what it has read is what the file still says) and `EffectInv`: a command
that is done has its edit in what the process has applied, and in what any
reload under way has read; a reload for a command has read its edit. A reload that
began before an edit and ends after it would set `applied` back were it not for
`p.mu`, which is why the second part is needed; `VersionsAdvance` says that it never
does. `EditsNotLost` is the step by which the file is what the edits make of it, and
`FileAccepted` that it is valid.

`EditsStored` is the whole of `EveryEditStored`. The version of the file after `k` saves
is a fold over the saves, and a fold is a recursive function that TLA+ chooses. The
invariant `ReplayInv` has that function explicitly: `h` `Replays` the saves at any set of
positions, and a save extends it. `ReplayOfPrefix` then identifies the fold with `h`, by
the principle of the least number (where two such functions first differed, they would agree
just before), which needs no induction theorem with an operator for a parameter.
`ReplayInv` also says that what a command has seen is a version which its edit
does not change, since an edit made twice is made once (`EditTwice`); with `EffectInv`
that is `EditsTakeEffect`.

### Model-checked only

The liveness properties (`RetiredWorkerEnds`, `CloseCompletes`,
`ReservedPortYields`, `WaitingPublicationStarts`, `CancelledCallReturns`,
`LostTransportNoticed`, `CloseFinishes`, `SavedEditsApplied`) are checked by TLC: the
prover handles neither fairness nor ENABLED. Of the first three, and of
`CancelledCallReturns`, the part that is not about fairness is proved, as said above.
The four violations are TLC's too.

## Findings

1. **A publication may bind beside an import** (`manager_reservation_race`).
   `forwardOnce` asks `localPortReserved` under one lock (worker.go:52) and
   publishes the port it goes for under the next (worker.go:56). An
   `UpdateIntent` in between that publishes that port sees the import on its
   previous candidate, does not stop it, and starts the publication; then both
   bind. ARCHITECTURE.md:92 says a publication waits for cleanup of a conflicting
   import. The next reconcile repairs it (`ReservedPortYields`, and the theorem
   `ConflictsEnd`), and
   `PublicationStartsClear` still holds, because at the moment the publication
   starts the import holds nothing yet.
2. **An equivalent intent is not always without effect**
   (`manager_equivalent_intent`). An import whose preferred port is reserved is
   first recorded as starting on that port (worker.go:19); a reconcile before it
   has moved to a fallback port cancels and restarts it. manager.go:81-82 says
   that `UpdateIntent` does not disturb forwards that remain desired and may be
   repeated. No active forward is affected (`ActiveForwardUndisturbed`), and no worker
   but an import recorded on a reserved port (the theorem `RepeatsDisturbLittle`).

3. **A reload that gave up takes the status of all hosts with it** (`pool_status`).
   manager_pool.go:16-17 says that remote failures never block other hosts. When the
   context of a reload ends while it waits for a Manager to close
   (manager_pool.go:62), that Manager stays in `p.managers`, closed, under its old
   target. Until a later reload removes it, `AllStatuses` fails for all hosts, and
   the next command takes the service for broken and reinstalls it (manager.go:74).
   If the host is back to its old target before that reload, the Manager is kept and
   every reload ends at its `UpdateIntent`: hosts sorted after it get no update until
   that host changes again or the service is restarted. `OneManagerPerHost` and `SettledAfterSuccess` hold all
   the same: nothing is leaked, and no reload reports success.

4. **A leftover master listens on after its call has returned** (`adapter_leftover`).
   ensureMaster ignores the result of `-O exit` (master.go:45), and takes `-O check`
   for its own master's answer although whoever has the socket answers it. When a dead
   Manager's master was not reached (the command failed or timed out, or that master was
   still connecting), forwards are installed on it. If the outcome of an installation is
   then uncertain, `Forward` stops `a.master` and returns, and the tuple listens on:
   nobody's exit ends it. SECURITY.md:31-34 and ARCHITECTURE.md:111-113 say that the
   retirement closes any committed listeners. `ReturnLeavesNoEndpoint` shows that a
   leftover is the only master on which something can remain.

## Not modelled

- Text: JSON and JSONC, ssh argument parsing, `ssh -G` output, messages, tables.
  Where text decides control (the classification of ssh's error output, a greeting
  that starts with "SSH-") the model takes the classes as outcomes.
- Durations: retry delays, tickers and timeouts are steps that may happen at any
  time. So the time a repair takes, or what a stop leaves when its 3 seconds are
  over, is no property.
- `manager_status.go`: a copy under the read lock; it changes nothing.
- Discovery's reading of the process list: what it finds is the constant `Found`.
- The doctor: read-only checks. Its one use of the adapter is among the initial states of
  `Adapter`.
- The address that sshd binds for a publication: a bind that is not loopback is one of the
  reasons for `EndpointNotReady`, whose cleanup is modelled. The check itself is one
  comparison before `ready`, about which nothing is left to say.
- The argument grammar and the output of the command line.
- Process handling: wrappers of `os/exec`.

## Plan

Done: all components whose code keeps state. Worth doing next, in this order:

1. An abstract specification of the pool for `Service`: hosts with the version they
   go by, which `ManagerPool` with `ConfigStore`'s versions implements, so that
   "applied" of `Service` is a refinement and not a reading of
   `SettledAfterSuccess`.
2. Reserved ports across hosts: `ReservedForAll` and `ReservedPortsYield` are the two
   halves. A module that has several Managers under one pool would join them: no host
   imports onto a port another host publishes, some steps after both have been updated.
3. The repair of the service by several commands at once, with the time they wait
   (`managerStartWait`), to say when a command may fail.
