---------------------------- MODULE ManagerPool ----------------------------
(***************************************************************************)
(* The pool of the service's Managers, one for each monitored host         *)
(* (cli/internal/app/manager_pool.go).  A reload reads the configuration   *)
(* and the registry, closes the Managers of hosts that are gone or         *)
(* changed, and updates or creates the others, one by one; it holds p.mu   *)
(* all the time and returns at the first error.  Its context is that of a  *)
(* request, which ends with the client's patience, or of the service.      *)
(*                                                                         *)
(* A closed Manager goes on in the background until its backend, with the  *)
(* host's control socket, is gone; only the caller stops waiting.          *)
(***************************************************************************)
EXTENDS HostRegistry

CONSTANTS
    Requested,   \* the hosts a request may name (--host)
    MaxManagers, \* bound on the Managers that are alive or referred to
    PoolCloses   \* the service may be stopped

Manager == 1 .. MaxManagers
NoManager == 0

ASSUME RequestedAssumption == Requested \subseteq Name
ASSUME ManagersAssumption == MaxManagers \in Nat \ {0}
ASSUME RulesAssumption == \A c \in Config : c.published \in [Name -> SUBSET Nat]

VARIABLES
    closed,    \* p.closed
    requested, \* p.requested
    managers,  \* p.managers: name -> Manager, for the names it has
    targets,   \* p.targets
    runtime,   \* Manager -> what it was created for, last told, and whether it runs
    reload     \* the reload in progress, which holds p.mu

poolVars == <<closed, requested, managers, targets, runtime, reload>>
vars == <<registryVars, poolVars>>

Empty == [n \in {} |-> Plain(n)]

\* Between reloads, and what a reload knows.
Idle == [pc |-> "idle", over |-> FALSE, conf |-> CHOOSE c \in Config : TRUE, targets |-> Empty,
         resolved |-> Empty, closing |-> NoManager, todo |-> {}]

\* "closing": closed is set, its workers and its backend are not done yet.
Phase == {"none", "open", "closing", "closed"}

Live(m) == runtime[m].phase \in {"open", "closing"}

NoIntent == [published |-> {}, reserved |-> {}]
NoRuntime == [host |-> 0, target |-> Plain(0), intent |-> NoIntent, phase |-> "none"]

Referred(m) == \E n \in DOMAIN managers : managers[n] = m

PoolTypeOK ==
    /\ closed \in BOOLEAN
    /\ requested \subseteq Requested
    /\ DOMAIN managers \subseteq DOMAIN targets /\ \A n \in DOMAIN managers : managers[n] \in Manager
    /\ \A n \in DOMAIN targets : n \in Name /\ targets[n] \in Setting
    /\ \A m \in Manager : runtime[m].phase \in Phase
    /\ \A n \in DOMAIN managers : runtime[managers[n]].phase # "none" /\ runtime[managers[n]].host = n
    /\ reload.pc \in {"idle", "resolve", "merge", "close", "await", "update"}
    /\ reload.pc = "idle" => reload = Idle
    /\ reload.closing # NoManager <=> reload.pc = "await"
    /\ reload.pc = "update" => reload.todo \subseteq DOMAIN targets

(***************************************************************************)
(* The steps of reload.                                                    *)
(***************************************************************************)

\* Every return releases p.mu; an error leaves what was done so far.
Return == reload' = Idle

\* "" names no host.  The commands edit config.jsonc whenever they like
\* (ConfigStore.tla), so that it says anything; if it cannot be read, the reload
\* ends before it has changed anything.
BeginReloadMutant(conf, hosts) ==
    /\ reload.pc = "idle"
    /\ requested' = requested \cup hosts
    /\ reload' = [reload EXCEPT !.pc = "resolve", !.conf = conf]
    /\ UNCHANGED <<registryVars, closed, managers, targets, runtime>>
BeginReload(conf, hosts) ==
    /\ reload.pc = "idle" /\ ~closed
    /\ requested' = requested \cup hosts
    /\ reload' = [reload EXCEPT !.pc = "resolve", !.conf = conf]
    /\ UNCHANGED <<registryVars, closed, managers, targets, runtime>>

\* The context ends: the client has gone, or the monitor is cancelled.
EndContext ==
    /\ reload.pc # "idle" /\ ~reload.over
    /\ reload' = [reload EXCEPT !.over = TRUE]
    /\ UNCHANGED <<registryVars, closed, requested, managers, targets, runtime>>

\* hostTargets.  ssh -G gives nothing once the context is over, and may be late.
ResolveTargets ==
    /\ reload.pc = "resolve"
    /\ LET hosts == Gathered(reload.conf, requested) IN
       \E fresh \in SUBSET Resolvable(hosts) :
          /\ reload.over => fresh = {}
          /\ reload' = [reload EXCEPT
                !.pc = "merge",
                !.targets = Monitored(reload.conf, Collapsed(reload.conf, hosts, fresh)),
                !.resolved = Identified(hosts, fresh)]
    /\ UNCHANGED <<registryVars, closed, requested, managers, targets, runtime>>

\* The registry cannot be read.
ResolveFails ==
    /\ reload.pc = "resolve"
    /\ Return
    /\ UNCHANGED <<registryVars, closed, requested, managers, targets, runtime>>

MergeDiscovered ==
    /\ reload.pc = "merge"
    /\ reload.over => reload.resolved = Empty
    /\ MergeIdentities(reload.resolved)
    /\ reload' = [reload EXCEPT !.pc = "close", !.resolved = Empty]
    /\ UNCHANGED <<files, closed, requested, managers, targets, runtime>>

\* The lock is not free in time, or the registry cannot be read again or written.
MergeFails ==
    /\ reload.pc = "merge" /\ reload.resolved # Empty
    /\ Return
    /\ UNCHANGED <<registryVars, closed, requested, managers, targets, runtime>>

\* Gone, or not what it was: its Manager has to be replaced.
OutdatedMutant(n) == n \notin DOMAIN reload.targets
Outdated(n) == n \in DOMAIN reload.targets => targets[n] # reload.targets[n]

\* The managers are ranged over in no order.
CloseOutdated(n) ==
    /\ reload.pc = "close"
    /\ n \in DOMAIN managers /\ Outdated(n)
    /\ runtime' = [runtime EXCEPT ![managers[n]].phase = IF @ = "open" THEN "closing" ELSE @]
    /\ reload' = [reload EXCEPT !.pc = "await", !.closing = managers[n]]
    /\ UNCHANGED <<registryVars, closed, requested, managers, targets>>

Delete(m) == Restrict(managers, {n \in DOMAIN managers : managers[n] # m})

DeleteClosed ==
    /\ reload.pc = "await" /\ runtime[reload.closing].phase = "closed"
    /\ managers' = Delete(reload.closing)
    /\ runtime' = [runtime EXCEPT ![reload.closing] = NoRuntime]
    /\ reload' = [reload EXCEPT !.pc = "close", !.closing = NoManager]
    /\ UNCHANGED <<registryVars, closed, requested, targets>>

\* Close gives up with the context; the Manager stays in the pool, closed.
CloseGivesUpMutant ==
    /\ reload.pc = "await" /\ reload.over
    /\ Return
    /\ managers' = Delete(reload.closing)
    /\ UNCHANGED <<registryVars, closed, requested, targets, runtime>>
CloseGivesUp ==
    /\ reload.pc = "await" /\ reload.over
    /\ Return
    /\ UNCHANGED <<registryVars, closed, requested, managers, targets, runtime>>

SetTargetsMutant ==
    /\ reload.pc = "close"
    /\ targets' = reload.targets
    /\ reload' = [reload EXCEPT !.pc = "update", !.targets = Empty, !.todo = DOMAIN reload.targets]
    /\ UNCHANGED <<registryVars, closed, requested, managers, runtime>>
SetTargets ==
    /\ reload.pc = "close"
    /\ \A n \in DOMAIN managers : ~Outdated(n)
    /\ targets' = reload.targets
    /\ reload' = [reload EXCEPT !.pc = "update", !.targets = Empty, !.todo = DOMAIN reload.targets]
    /\ UNCHANGED <<registryVars, closed, requested, managers, runtime>>

\* What is published for any monitored host is reserved on this side for all.
IntentFor(n, conf, hosts) ==
    [published |-> conf.published[n], reserved |-> UNION {conf.published[m] : m \in DOMAIN hosts}]

Turn(n) == reload.pc = "update" /\ n \in reload.todo /\ \A m \in reload.todo : n <= m

Advance(n) == reload' = [reload EXCEPT !.todo = @ \ {n}]

UpdateIntent(n) ==
    /\ Turn(n) /\ n \in DOMAIN managers
    /\ ~reload.over /\ runtime[managers[n]].phase = "open"
    /\ runtime' = [runtime EXCEPT ![managers[n]].intent = IntentFor(n, reload.conf, targets)]
    /\ Advance(n)
    /\ UNCHANGED <<registryVars, closed, requested, managers, targets>>

\* The context is over, or the Manager was closed by a reload that gave up.
UpdateFails(n) ==
    /\ Turn(n) /\ n \in DOMAIN managers
    /\ reload.over \/ runtime[managers[n]].phase # "open"
    /\ Return
    /\ UNCHANGED <<registryVars, closed, requested, managers, targets, runtime>>

Unused == {m \in Manager : ~Live(m) /\ ~Referred(m)}

CreateTarget(n) ==
    /\ Turn(n) /\ n \notin DOMAIN managers
    /\ \E m \in Unused :
        /\ \A k \in Unused : m <= k
        /\ managers' = [k \in DOMAIN managers \cup {n} |-> IF k = n THEN m ELSE managers[k]]
        /\ runtime' = [runtime EXCEPT ![m] =
              [host |-> n, target |-> targets[n], intent |-> IntentFor(n, reload.conf, targets), phase |-> "open"]]
    /\ Advance(n)
    /\ UNCHANGED <<registryVars, closed, requested, targets>>

\* No ssh, or a control directory that others can write to.
CreateFails(n) ==
    /\ Turn(n) /\ n \notin DOMAIN managers
    /\ Return
    /\ UNCHANGED <<registryVars, closed, requested, managers, targets, runtime>>

FinishReload ==
    /\ reload.pc = "update" /\ reload.todo = {}
    /\ Return
    /\ UNCHANGED <<registryVars, closed, requested, managers, targets, runtime>>

(***************************************************************************)
(* The Managers, and the end of the pool.                                  *)
(***************************************************************************)

\* Workers and backend are done (Manager.tla, Adapter.tla: they finish).
RuntimeClosed(m) ==
    /\ runtime[m].phase = "closing"
    /\ runtime' = [runtime EXCEPT ![m] = IF Referred(m) THEN [@ EXCEPT !.phase = "closed"] ELSE NoRuntime]
    /\ UNCHANGED <<registryVars, closed, requested, managers, targets, reload>>

\* Close: all Managers at once; a reload that waits for p.mu finds it closed.
ClosePool ==
    /\ PoolCloses /\ reload.pc = "idle" /\ ~closed
    /\ closed' = TRUE
    /\ runtime' = [m \in Manager |->
                     IF Referred(m) /\ runtime[m].phase = "open" THEN [runtime[m] EXCEPT !.phase = "closing"]
                     ELSE runtime[m]]
    /\ UNCHANGED <<registryVars, requested, managers, targets, reload>>

\* Discovery, the user and the files do not wait for p.mu.  While no reload reads
\* the registry or is about to merge, a change is the same as one at the next
\* reading, and is left to it.
RegistryChanges ==
    /\ reload.pc \in {"resolve", "merge"}
    /\ RegistryNext
    /\ UNCHANGED poolVars

PoolInit ==
    /\ RegistryInit
    /\ closed = FALSE /\ requested = {}
    /\ managers = [n \in {} |-> NoManager] /\ targets = Empty
    /\ runtime = [m \in Manager |-> NoRuntime]
    /\ reload = Idle

ReloadSteps ==
    \/ ResolveTargets \/ ResolveFails
    \/ MergeDiscovered \/ MergeFails
    \/ (\E n \in Name : CloseOutdated(n))
    \/ DeleteClosed \/ CloseGivesUp
    \/ SetTargets
    \/ (\E n \in Name : UpdateIntent(n) \/ UpdateFails(n) \/ CreateTarget(n) \/ CreateFails(n))
    \/ FinishReload

PoolNext ==
    \/ (\E conf \in Config, hosts \in {{}} \cup {{h} : h \in Requested} : BeginReload(conf, hosts))
    \/ ReloadSteps
    \/ EndContext
    \/ (\E m \in Manager : RuntimeClosed(m))
    \/ ClosePool
    \/ RegistryChanges

PoolSpec == PoolInit /\ [][PoolNext]_vars

(***************************************************************************)
(* Properties.                                                             *)
(***************************************************************************)

\* A Manager that runs, or is still cleaning up, is the one the pool has for
\* its host: none is forgotten when a reload gives up half way, and no second
\* one shares a host's control socket (manager_pool.go:58-67).
OneManagerPerHost ==
    \A m \in Manager : Live(m) =>
        runtime[m].host \in DOMAIN managers /\ managers[runtime[m].host] = m

\* A reload that returns no error has one open Manager for every target, created
\* for that target and told what the configuration it read says, whatever
\* earlier reloads left undone (manager_pool.go:58-94).
Settled ==
    /\ DOMAIN managers = DOMAIN targets
    /\ \A n \in DOMAIN targets :
        LET r == runtime[managers[n]] IN
        r.phase = "open" /\ r.target = targets[n] /\ r.intent = IntentFor(n, reload.conf, targets)

SettledAfterSuccess == [][FinishReload => Settled]_vars

\* README.md:100-102: targets that OpenSSH resolves to one user and hostname are
\* one host, and a host whose temporary -F file is gone is not split from it,
\* whatever happened to its record in the meantime.  Only an explicit host with
\* a missing file has no identity that is remembered.
NoIdentity(n, conf) == n \in DOMAIN conf.hosts /\ MissingHostConfig(conf.hosts[n])

KnownHostNotSplit ==
    [][ResolveTargets /\ DOMAIN reload'.resolved = Resolvable(Gathered(reload.conf, requested)) =>
        \A n, m \in {k \in DOMAIN reload'.targets : ~NoIdentity(k, reload.conf)} :
            Resolves[reload'.targets[n]] = Resolves[reload'.targets[m]] => n = m]_vars

\* manager_pool.go:124-140: once the pool is closed every Manager is, one that a
\* reload had given up on included, and no reload that was waiting for p.mu
\* starts another (that they end then is Manager.tla's CloseFinishes).
ClosedPoolRunsNothing == closed => \A m \in Manager : runtime[m].phase # "open"

\* manager_pool.go:16-17: what goes wrong with one host never blocks the others:
\* the status request of an open pool is answered (AllStatuses asks every
\* Manager, and a closed one answers with an error).
StatusServed ==
    reload.pc = "idle" /\ ~closed => \A n \in DOMAIN managers : runtime[managers[n]].phase = "open"

============================================================================
