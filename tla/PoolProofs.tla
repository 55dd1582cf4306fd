----------------------------- MODULE PoolProofs -----------------------------
(***************************************************************************)
(* Theorems about the pool of Managers and the registry of hosts, for      *)
(* every set of hosts, every configuration and every order of steps.       *)
(***************************************************************************)
EXTENDS ManagerPool, HostRegistryProofs

(***************************************************************************)
(* The hosts (HostRegistryProofs.tla: a machine has exactly one winner).   *)
(***************************************************************************)

\* What the registry says of a machine is what OpenSSH resolved the setting to.
Truthful ==
    \A n \in DOMAIN registry :
        registry[n].identity # Unknown => registry[n].identity = Resolves[registry[n].setting]

RegistryInv == RegistryTypeOK /\ Truthful

LEMMA GatheredTypes ==
    ASSUME RegistryTypeOK, NEW conf \in Config, NEW extra \in SUBSET Name
    PROVE  /\ DOMAIN Gathered(conf, extra) \subseteq Name
           /\ \A n \in DOMAIN Gathered(conf, extra) : Gathered(conf, extra)[n] \in Setting
<1>1. /\ conf.ignored \subseteq Name /\ DOMAIN conf.hosts \subseteq Name
      /\ \A n \in DOMAIN conf.hosts : conf.hosts[n] \in Setting
    BY ConfigAssumption
<1>2. \A n \in Monitorable(conf) : n \in Name /\ registry[n].setting \in Setting
    BY DEF Monitorable, RegistryTypeOK, Record
<1>3. \A n \in Name : Plain(n) \in Setting
    BY DEF Plain, Setting
<1> QED BY <1>1, <1>2, <1>3 DEF Gathered

\* Whoever has an identity is grouped by it.
LEMMA KeyIsMachine ==
    ASSUME RegistryInv, NEW conf \in Config, NEW extra \in SUBSET Name,
           NEW n \in DOMAIN Gathered(conf, extra), ~NoIdentity(n, conf)
    PROVE  LET hosts == Gathered(conf, extra)
           IN  KeyOf(n, conf, hosts, Resolvable(hosts)) = <<"machine", Resolves[hosts[n]]>>
<1> DEFINE hosts == Gathered(conf, extra)
<1>1. CASE n \in Resolvable(hosts)
    BY <1>1 DEF KeyOf
<1>2. CASE n \notin Resolvable(hosts)
    <2>1. MissingHostConfig(hosts[n])
        BY <1>2 DEF Resolvable
    <2>2. n \notin DOMAIN conf.hosts
        BY <2>1 DEF NoIdentity, Gathered
    <2>3. n \in Monitorable(conf)
        <3>1. ~MissingHostConfig(Plain(n))
            BY IdentityAssumption DEF MissingHostConfig, Plain
        <3> QED BY <2>1, <2>2, <3>1 DEF Gathered
    <2>4. hosts[n] = registry[n].setting
        BY <2>2, <2>3 DEF Gathered
    <2>5. n \in Cached(conf) /\ registry[n].identity = Resolves[hosts[n]]
        BY <2>1, <2>3, <2>4 DEF Cached, Monitorable, RegistryInv, Truthful
    <2> QED BY <1>2, <2>5 DEF KeyOf
<1> QED BY <1>1, <1>2

LEMMA NotSplit ==
    ASSUME RegistryInv, NEW conf \in Config, NEW extra \in SUBSET Name,
           NEW targets2, targets2 = Monitored(conf, Collapsed(conf, Gathered(conf, extra), Resolvable(Gathered(conf, extra)))),
           NEW n \in DOMAIN targets2, NEW m \in DOMAIN targets2,
           ~NoIdentity(n, conf), ~NoIdentity(m, conf),
           Resolves[targets2[n]] = Resolves[targets2[m]]
    PROVE  n = m
<1> DEFINE hosts == Gathered(conf, extra)
           fresh == Resolvable(hosts)
<1>1. /\ n \in Winners(conf, hosts, fresh) /\ m \in Winners(conf, hosts, fresh)
      /\ targets2[n] = hosts[n] /\ targets2[m] = hosts[m]
    BY DEF Monitored, Collapsed, Restrict
<1>2. n \in DOMAIN hosts /\ m \in DOMAIN hosts
    BY <1>1 DEF Winners
<1>3. KeyOf(n, conf, hosts, fresh) = KeyOf(m, conf, hosts, fresh)
    BY <1>1, <1>2, KeyIsMachine
<1>4. DOMAIN hosts \subseteq Name
    BY GatheredTypes DEF RegistryInv
<1> HIDE DEF hosts, fresh
<1> QED BY <1>1, <1>3, <1>4, WinnerIsUnique

(***************************************************************************)
(* The inductive invariant of the pool.                                    *)
(***************************************************************************)

ReloadPC == {"idle", "resolve", "merge", "close", "await", "update"}

\* What a reload knows: settings of names, identities that are what OpenSSH
\* resolves, a configuration, and the Manager it waits for.
ReloadTypes ==
    /\ reload = [pc |-> reload.pc, over |-> reload.over, conf |-> reload.conf, targets |-> reload.targets,
                 resolved |-> reload.resolved, closing |-> reload.closing, todo |-> reload.todo]
    /\ reload.pc \in ReloadPC
    /\ reload.pc = "idle" => reload = Idle
    /\ reload.pc # "idle" => reload.conf \in Config
    /\ reload.closing # NoManager <=> reload.pc = "await"
    /\ reload.pc = "await" => reload.closing \in Manager
    /\ \A n \in DOMAIN reload.targets : n \in Name /\ reload.targets[n] \in Setting
    /\ \A n \in DOMAIN reload.resolved :
          /\ reload.resolved[n] \in Record
          /\ reload.resolved[n].identity = Resolves[reload.resolved[n].setting]
    /\ reload.pc = "update" => reload.todo \subseteq DOMAIN targets

\* The Managers of the pool and those that were created.
RuntimeTypes ==
    /\ DOMAIN runtime = Manager
    /\ \A m \in Manager :
          /\ runtime[m] = [host |-> runtime[m].host, target |-> runtime[m].target,
                           intent |-> runtime[m].intent, phase |-> runtime[m].phase]
          /\ runtime[m].phase \in Phase

TableTypes ==
    /\ closed \in BOOLEAN
    /\ requested \subseteq Requested
    /\ DOMAIN managers \subseteq DOMAIN targets
    /\ \A n \in DOMAIN managers : managers[n] \in Manager
    /\ \A n \in DOMAIN targets : n \in Name /\ targets[n] \in Setting

\* An entry of the pool is a Manager that was created for that host and target.
Entries ==
    \A n \in DOMAIN managers :
        /\ runtime[managers[n]].host = n
        /\ runtime[managers[n]].target = targets[n]
        /\ runtime[managers[n]].phase # "none"

\* A closed pool runs no reload and no Manager.
ClosedPool == closed => reload.pc = "idle" /\ \A m \in Manager : runtime[m].phase # "open"

\* The hosts an update is done with are settled.
Updated ==
    reload.pc = "update" =>
        \A n \in DOMAIN targets \ reload.todo :
            /\ n \in DOMAIN managers
            /\ runtime[managers[n]].phase = "open"
            /\ runtime[managers[n]].intent = IntentFor(n, reload.conf, targets)

Pool == ReloadTypes /\ RuntimeTypes /\ TableTypes /\ Entries /\ OneManagerPerHost /\ ClosedPool /\ Updated

IInv == RegistryInv /\ Pool

(***************************************************************************)
(* The registry.                                                           *)
(***************************************************************************)

LEMMA RegistryInitInv == RegistryInit => RegistryInv
BY DEF RegistryInit, RegistryInv, RegistryTypeOK, Truthful

LEMMA RegistryStepInv ==
    ASSUME RegistryInv, RegistryNext
    PROVE  RegistryInv'
<1>1. CASE \E found \in Found : DiscoverHosts(found[1], found[2])
    <2>1. PICK found \in Found : DiscoverHosts(found[1], found[2])
        BY <1>1
    <2>2. found[1] \in Name /\ found[2] \in Setting
        BY FoundAssumption
    <2>3. [setting |-> found[2], identity |-> Unknown] \in Record
        BY <2>2 DEF Record
    <2> QED BY <2>1, <2>2, <2>3 DEF DiscoverHosts, RegistryInv, RegistryTypeOK, Truthful
<1>2. CASE \E n \in Name : RemoveRecord(n)
    BY <1>2 DEF RemoveRecord, Restrict, RegistryInv, RegistryTypeOK, Truthful
<1>3. CASE \E f \in File : RemoveFile(f)
    BY <1>3 DEF RemoveFile, RegistryInv, RegistryTypeOK, Truthful
<1> QED BY <1>1, <1>2, <1>3 DEF RegistryNext

\* A merge writes nothing but what OpenSSH resolved the very same settings to.
LEMMA MergeInv ==
    ASSUME RegistryInv, ReloadTypes, MergeIdentities(reload.resolved), files' = files
    PROVE  RegistryInv'
BY DEF MergeIdentities, RegistryInv, RegistryTypeOK, Truthful, ReloadTypes

\* What a reload resolves is typed, and truthful.
LEMMA IdentifiedTypes ==
    ASSUME RegistryTypeOK, NEW conf \in Config, NEW extra \in SUBSET Name,
           NEW fresh \in SUBSET Resolvable(Gathered(conf, extra)),
           NEW n \in fresh
    PROVE  LET entry == Identified(Gathered(conf, extra), fresh)[n]
           IN  entry \in Record /\ entry.identity = Resolves[entry.setting]
<1>1. Gathered(conf, extra)[n] \in Setting
    BY GatheredTypes DEF Resolvable
<1>2. Identified(Gathered(conf, extra), fresh)[n] =
        [setting |-> Gathered(conf, extra)[n], identity |-> Resolves[Gathered(conf, extra)[n]]]
    BY DEF Identified
<1>3. Resolves[Gathered(conf, extra)[n]] \in Machine
    BY <1>1, ResolvesAssumption
<1> QED BY <1>1, <1>2, <1>3 DEF Record

LEMMA MonitoredTypes ==
    ASSUME RegistryTypeOK, NEW conf \in Config, NEW extra \in SUBSET Name, NEW fresh,
           NEW n \in DOMAIN Monitored(conf, Collapsed(conf, Gathered(conf, extra), fresh))
    PROVE  /\ n \in Name
           /\ Monitored(conf, Collapsed(conf, Gathered(conf, extra), fresh))[n] \in Setting
<1>1. /\ n \in Winners(conf, Gathered(conf, extra), fresh)
      /\ Monitored(conf, Collapsed(conf, Gathered(conf, extra), fresh))[n] = Gathered(conf, extra)[n]
    BY DEF Monitored, Collapsed, Restrict
<1>2. n \in DOMAIN Gathered(conf, extra)
    BY <1>1 DEF Winners
<1> QED BY <1>1, <1>2, GatheredTypes

(***************************************************************************)
(* One lemma for each step.                                                *)
(***************************************************************************)

LEMMA BeginReloadInv ==
    ASSUME IInv, NEW conf \in Config, NEW hosts \in SUBSET Requested, BeginReload(conf, hosts)
    PROVE  Pool'
<1> USE DEF IInv, RegistryInv, Pool
<1>1. ReloadTypes'
    BY DEF BeginReload, ReloadTypes, ReloadPC
<1>2. RuntimeTypes'
    BY DEF BeginReload, RuntimeTypes, Phase
<1>3. TableTypes'
    BY DEF BeginReload, TableTypes
<1>4. Entries'
    BY DEF BeginReload, Entries
<1>5. OneManagerPerHost'
    BY DEF BeginReload, OneManagerPerHost, Live
<1>6. ClosedPool'
    BY DEF BeginReload, ClosedPool
<1>7. Updated'
    BY DEF BeginReload, Updated
<1> QED BY <1>1, <1>2, <1>3, <1>4, <1>5, <1>6, <1>7

LEMMA EndContextInv ==
    ASSUME IInv, EndContext
    PROVE  Pool'
<1> USE DEF IInv, RegistryInv, Pool
<1>1. ReloadTypes'
    BY DEF EndContext, ReloadTypes, ReloadPC
<1>2. RuntimeTypes'
    BY DEF EndContext, RuntimeTypes, Phase
<1>3. TableTypes'
    BY DEF EndContext, TableTypes
<1>4. Entries'
    BY DEF EndContext, Entries
<1>5. OneManagerPerHost'
    BY DEF EndContext, OneManagerPerHost, Live
<1>6. ClosedPool'
    BY DEF EndContext, ClosedPool
<1>7. Updated'
    BY DEF EndContext, Updated
<1> QED BY <1>1, <1>2, <1>3, <1>4, <1>5, <1>6, <1>7

\* A reload that ends leaves the pool as it is.
LEMMA ReturnInv ==
    ASSUME IInv, reload.pc # "idle", Return, UNCHANGED <<closed, requested, managers, targets, runtime>>
    PROVE  Pool'
<1> USE DEF IInv, RegistryInv, Pool
<1>1. ReloadTypes'
    BY DEF Return, Idle, Empty, NoManager, ReloadTypes, ReloadPC
<1>2. RuntimeTypes'
    BY DEF Return, RuntimeTypes, Phase
<1>3. TableTypes'
    BY DEF Return, TableTypes
<1>4. Entries'
    BY DEF Return, Entries
<1>5. OneManagerPerHost'
    BY DEF Return, OneManagerPerHost, Live
<1>6. ClosedPool'
    BY DEF Return, ClosedPool
<1>7. Updated'
    BY DEF Return, Idle, Empty, NoManager, Updated
<1> QED BY <1>1, <1>2, <1>3, <1>4, <1>5, <1>6, <1>7

LEMMA MergeDiscoveredInv ==
    ASSUME IInv, MergeDiscovered
    PROVE  Pool'
<1> USE DEF IInv, RegistryInv, Pool
<1>1. ReloadTypes'
    BY DEF MergeDiscovered, Empty, ReloadTypes, ReloadPC
<1>2. RuntimeTypes'
    BY DEF MergeDiscovered, RuntimeTypes, Phase
<1>3. TableTypes'
    BY DEF MergeDiscovered, TableTypes
<1>4. Entries'
    BY DEF MergeDiscovered, Entries
<1>5. OneManagerPerHost'
    BY DEF MergeDiscovered, OneManagerPerHost, Live
<1>6. ClosedPool'
    BY DEF MergeDiscovered, ClosedPool
<1>7. Updated'
    BY DEF MergeDiscovered, Updated
<1> QED BY <1>1, <1>2, <1>3, <1>4, <1>5, <1>6, <1>7

LEMMA SetTargetsInv ==
    ASSUME IInv, SetTargets
    PROVE  Pool'
<1> USE DEF IInv, RegistryInv, Pool
<1>1. ReloadTypes'
    BY DEF SetTargets, Outdated, Empty, ReloadTypes, ReloadPC
<1>2. RuntimeTypes'
    BY DEF SetTargets, RuntimeTypes, Phase
<1>3. TableTypes'
    BY DEF SetTargets, Outdated, Empty, TableTypes, RuntimeTypes, ReloadTypes
<1>4. Entries'
    BY DEF SetTargets, Outdated, Empty, Entries
<1>5. OneManagerPerHost'
    BY DEF SetTargets, OneManagerPerHost, Live
<1>6. ClosedPool'
    BY DEF SetTargets, ClosedPool
<1>7. Updated'
    BY DEF SetTargets, Updated
<1> QED BY <1>1, <1>2, <1>3, <1>4, <1>5, <1>6, <1>7

LEMMA CloseOutdatedInv ==
    ASSUME IInv, NEW n \in Name, CloseOutdated(n)
    PROVE  Pool'
<1> USE DEF IInv, RegistryInv, Pool
<1> DEFINE m == managers[n]
           phase == IF runtime[m].phase = "open" THEN "closing" ELSE runtime[m].phase
<1>a. m \in Manager /\ m # NoManager /\ n \in DOMAIN managers
    BY ManagersAssumption DEF CloseOutdated, TableTypes, Manager, NoManager
<1>b. /\ reload.pc = "close" /\ reload' = [reload EXCEPT !.pc = "await", !.closing = m]
      /\ UNCHANGED <<closed, requested, managers, targets>>
    BY DEF CloseOutdated
<1>c. /\ DOMAIN runtime' = Manager
      /\ \A k \in Manager \ {m} : runtime'[k] = runtime[k]
      /\ runtime'[m] = [host |-> runtime[m].host, target |-> runtime[m].target,
                        intent |-> runtime[m].intent, phase |-> phase]
    BY <1>a DEF CloseOutdated, RuntimeTypes
<1>d. phase \in Phase /\ phase # "open" /\ (phase = "none" <=> runtime[m].phase = "none")
    BY <1>a DEF RuntimeTypes, Phase
<1> HIDE DEF m, phase
<1>1. ReloadTypes'
    BY <1>a, <1>b DEF ReloadTypes, ReloadPC, NoManager
<1>2. RuntimeTypes'
    BY <1>a, <1>c, <1>d DEF RuntimeTypes
<1>3. TableTypes'
    BY <1>b DEF TableTypes
<1>4. Entries'
    <2>1. \A k \in DOMAIN managers :
            /\ managers[k] \in Manager
            /\ runtime'[managers[k]].host = runtime[managers[k]].host
            /\ runtime'[managers[k]].target = runtime[managers[k]].target
            /\ runtime'[managers[k]].phase = "none" <=> runtime[managers[k]].phase = "none"
        BY <1>c, <1>d DEF TableTypes
    <2> QED BY <1>b, <2>1 DEF Entries
<1>5. OneManagerPerHost'
    <2>1. runtime[m].host = n /\ managers[n] = m
        BY <1>a DEF Entries, m
    <2>2. \A k \in Manager : Live(k)' => k = m \/ Live(k)
        BY <1>c DEF Live
    <2>3. \A k \in Manager : runtime'[k].host = runtime[k].host
        BY <1>c
    <2> QED BY <1>a, <1>b, <2>1, <2>2, <2>3 DEF OneManagerPerHost
<1>6. ClosedPool'
    BY <1>b DEF ClosedPool
<1>7. Updated'
    BY <1>1, <1>b DEF Updated, ReloadTypes
<1> QED BY <1>1, <1>2, <1>3, <1>4, <1>5, <1>6, <1>7

LEMMA DeleteClosedInv ==
    ASSUME IInv, DeleteClosed
    PROVE  Pool'
<1> USE DEF IInv, RegistryInv, Pool
<1>1. ReloadTypes'
    BY DEF DeleteClosed, ReloadTypes, ReloadPC
<1>2. RuntimeTypes'
    BY DEF DeleteClosed, Delete, Restrict, NoRuntime, NoManager, RuntimeTypes, Phase
<1>3. TableTypes'
    BY DEF DeleteClosed, Delete, Restrict, NoRuntime, NoManager, TableTypes
<1>4. Entries'
    BY DEF DeleteClosed, Delete, Restrict, NoRuntime, NoManager, Entries
<1>5. OneManagerPerHost'
    BY DEF DeleteClosed, Delete, Restrict, NoRuntime, NoManager, OneManagerPerHost, Live
<1>6. ClosedPool'
    BY DEF DeleteClosed, ClosedPool
<1>7. Updated'
    BY DEF DeleteClosed, Updated
<1> QED BY <1>1, <1>2, <1>3, <1>4, <1>5, <1>6, <1>7

LEMMA UpdateIntentInv ==
    ASSUME IInv, NEW n \in Name, UpdateIntent(n)
    PROVE  Pool'
<1> USE DEF IInv, RegistryInv, Pool
<1>1. ReloadTypes'
    BY DEF UpdateIntent, Turn, Advance, ReloadTypes, ReloadPC
<1>2. RuntimeTypes'
    BY DEF UpdateIntent, RuntimeTypes, Phase
<1>3. TableTypes'
    BY DEF UpdateIntent, TableTypes
<1>4. Entries'
    BY DEF UpdateIntent, Entries
<1>5. OneManagerPerHost'
    BY DEF UpdateIntent, OneManagerPerHost, Live
<1>6. ClosedPool'
    BY DEF UpdateIntent, Turn, Advance, ClosedPool
<1>7. Updated'
    BY DEF UpdateIntent, Turn, Advance, Updated, TableTypes, RuntimeTypes, Entries
<1> QED BY <1>1, <1>2, <1>3, <1>4, <1>5, <1>6, <1>7

LEMMA CreateTargetInv ==
    ASSUME IInv, NEW n \in Name, CreateTarget(n)
    PROVE  Pool'
<1> USE DEF IInv, RegistryInv, Pool
<1>1. ReloadTypes'
    BY DEF CreateTarget, Turn, Advance, Unused, Referred, ReloadTypes, ReloadPC
<1>2. RuntimeTypes'
    BY DEF CreateTarget, RuntimeTypes, Phase
<1>3. TableTypes'
    BY DEF CreateTarget, Turn, Advance, Unused, Referred, TableTypes, RuntimeTypes, ReloadTypes
<1>4. Entries'
    BY DEF CreateTarget, Turn, Advance, Unused, Referred, Entries, TableTypes, RuntimeTypes
<1>5. OneManagerPerHost'
    BY DEF CreateTarget, OneManagerPerHost, Live
<1>6. ClosedPool'
    BY DEF CreateTarget, Turn, Advance, Unused, Referred, ClosedPool
<1>7. Updated'
    BY DEF CreateTarget, Turn, Advance, Unused, Referred, Updated, TableTypes, RuntimeTypes
<1> QED BY <1>1, <1>2, <1>3, <1>4, <1>5, <1>6, <1>7

LEMMA RuntimeClosedInv ==
    ASSUME IInv, NEW m \in Manager, RuntimeClosed(m)
    PROVE  Pool'
<1> USE DEF IInv, RegistryInv, Pool
<1>1. ReloadTypes'
    BY DEF RuntimeClosed, ReloadTypes, ReloadPC
<1>2. RuntimeTypes'
    BY DEF RuntimeClosed, NoRuntime, Referred, RuntimeTypes, Phase
<1>3. TableTypes'
    BY DEF RuntimeClosed, TableTypes
<1>4. Entries'
    BY DEF RuntimeClosed, NoRuntime, Referred, Entries
<1>5. OneManagerPerHost'
    BY DEF RuntimeClosed, NoRuntime, Referred, OneManagerPerHost, Live
<1>6. ClosedPool'
    BY DEF RuntimeClosed, NoRuntime, Referred, ClosedPool
<1>7. Updated'
    BY DEF RuntimeClosed, Updated
<1> QED BY <1>1, <1>2, <1>3, <1>4, <1>5, <1>6, <1>7

LEMMA ClosePoolInv ==
    ASSUME IInv, ClosePool
    PROVE  Pool'
<1> USE DEF IInv, RegistryInv, Pool
<1>1. ReloadTypes'
    BY DEF ClosePool, ReloadTypes, ReloadPC
<1>2. RuntimeTypes'
    BY DEF ClosePool, RuntimeTypes, Phase
<1>3. TableTypes'
    BY DEF ClosePool, TableTypes
<1>4. Entries'
    BY DEF ClosePool, Referred, Entries, TableTypes, RuntimeTypes
<1>5. OneManagerPerHost'
    BY DEF ClosePool, OneManagerPerHost, Live
<1>6. ClosedPool'
    BY DEF ClosePool, Referred, ClosedPool, RuntimeTypes, TableTypes, Entries, OneManagerPerHost, Updated, Live, ReloadTypes
<1>7. Updated'
    BY DEF ClosePool, Updated
<1> QED BY <1>1, <1>2, <1>3, <1>4, <1>5, <1>6, <1>7

\* The reads of a reload, of the configuration and of the registry, are typed.
LEMMA ResolveTargetsInv ==
    ASSUME IInv, ResolveTargets
    PROVE  Pool'
<1> USE DEF IInv, RegistryInv, Pool
<1> DEFINE hosts == Gathered(reload.conf, requested)
<1>a. reload.conf \in Config /\ requested \in SUBSET Name /\ reload.pc = "resolve"
    BY RequestedAssumption DEF ResolveTargets, ReloadTypes, TableTypes
<1>b. PICK fresh \in SUBSET Resolvable(hosts) :
        reload' = [reload EXCEPT
            !.pc = "merge",
            !.targets = Monitored(reload.conf, Collapsed(reload.conf, hosts, fresh)),
            !.resolved = Identified(hosts, fresh)]
    BY DEF ResolveTargets
<1>c. UNCHANGED <<closed, requested, managers, targets, runtime>>
    BY DEF ResolveTargets
<1>d. \A n \in DOMAIN Monitored(reload.conf, Collapsed(reload.conf, hosts, fresh)) :
        /\ n \in Name
        /\ Monitored(reload.conf, Collapsed(reload.conf, hosts, fresh))[n] \in Setting
    BY <1>a, MonitoredTypes
<1>e. \A n \in fresh :
        /\ Identified(hosts, fresh)[n] \in Record
        /\ Identified(hosts, fresh)[n].identity = Resolves[Identified(hosts, fresh)[n].setting]
    BY <1>a, IdentifiedTypes
<1>f. DOMAIN Identified(hosts, fresh) = fresh
    BY DEF Identified
<1> HIDE DEF hosts
<1>1. ReloadTypes'
    BY <1>a, <1>b, <1>d, <1>e, <1>f DEF ReloadTypes, ReloadPC
<1>2. RuntimeTypes'
    BY <1>c DEF RuntimeTypes
<1>3. TableTypes'
    BY <1>c DEF TableTypes
<1>4. Entries'
    BY <1>c DEF Entries
<1>5. OneManagerPerHost'
    BY <1>c DEF OneManagerPerHost, Live
<1>6. ClosedPool'
    BY <1>a, <1>c DEF ClosedPool
<1>7. Updated'
    BY <1>a, <1>b DEF Updated, ReloadTypes
<1> QED BY <1>1, <1>2, <1>3, <1>4, <1>5, <1>6, <1>7

\* The registry's own steps do not touch the pool.
LEMMA PoolUnchanged ==
    ASSUME Pool, UNCHANGED poolVars
    PROVE  Pool'
BY DEF Pool, poolVars, ReloadTypes, RuntimeTypes, TableTypes, Entries, OneManagerPerHost, Live, ClosedPool, Updated, IntentFor

LEMMA PoolInitInv == PoolInit => IInv
<1> SUFFICES ASSUME PoolInit PROVE IInv
    OBVIOUS
<1>1. RegistryInv
    BY RegistryInitInv DEF PoolInit
<1>2. ReloadTypes
    BY DEF PoolInit, ReloadTypes, ReloadPC, Idle, Empty, NoManager
<1>3. RuntimeTypes
    BY DEF PoolInit, RuntimeTypes, NoRuntime, Phase
<1>4. TableTypes /\ Entries
    BY DEF PoolInit, TableTypes, Entries, Empty
<1>5. OneManagerPerHost /\ ClosedPool
    BY DEF PoolInit, OneManagerPerHost, Live, NoRuntime, ClosedPool
<1>6. Updated
    BY DEF PoolInit, Updated, Idle
<1> QED BY <1>1, <1>2, <1>3, <1>4, <1>5, <1>6 DEF IInv, Pool

\* The steps that leave the registry alone, or merge into it.
LEMMA RegistryKept ==
    ASSUME IInv, PoolNext
    PROVE  RegistryInv'
<1> USE DEF IInv, Pool
<1>1. CASE UNCHANGED registryVars
    BY <1>1 DEF registryVars, RegistryInv, RegistryTypeOK, Truthful
<1>2. CASE MergeDiscovered
    BY <1>2, MergeInv DEF MergeDiscovered
<1>3. CASE RegistryChanges
    BY <1>3, RegistryStepInv DEF RegistryChanges
<1>4. UNCHANGED registryVars \/ MergeDiscovered \/ RegistryChanges
    BY DEF PoolNext, ReloadSteps, BeginReload, EndContext, ResolveTargets, ResolveFails, MergeFails,
           CloseOutdated, DeleteClosed, CloseGivesUp, SetTargets, UpdateIntent, UpdateFails, CreateTarget, CreateFails, FinishReload,
           RuntimeClosed, ClosePool
<1> QED BY <1>1, <1>2, <1>3, <1>4

LEMMA ReloadStepInv ==
    ASSUME IInv, ReloadSteps
    PROVE  Pool'
<1>1. CASE ResolveTargets
    BY <1>1, ResolveTargetsInv
<1>2. CASE MergeDiscovered
    BY <1>2, MergeDiscoveredInv
<1>3. CASE ResolveFails \/ MergeFails \/ CloseGivesUp \/ FinishReload
    BY <1>3, ReturnInv DEF ResolveFails, MergeFails, CloseGivesUp, FinishReload
<1>4. CASE \E n \in Name : CloseOutdated(n)
    BY <1>4, CloseOutdatedInv
<1>5. CASE DeleteClosed
    BY <1>5, DeleteClosedInv
<1>6. CASE SetTargets
    BY <1>6, SetTargetsInv
<1>7. CASE \E n \in Name : UpdateIntent(n) \/ CreateTarget(n)
    BY <1>7, UpdateIntentInv, CreateTargetInv
<1>8. CASE \E n \in Name : UpdateFails(n) \/ CreateFails(n)
    BY <1>8, ReturnInv DEF UpdateFails, CreateFails, Turn
<1> QED BY <1>1, <1>2, <1>3, <1>4, <1>5, <1>6, <1>7, <1>8 DEF ReloadSteps

LEMMA PoolNextInv ==
    ASSUME IInv, PoolNext
    PROVE  IInv'
<1>1. Pool'
    <2>1. CASE \E conf \in Config, hosts \in {{}} \cup {{h} : h \in Requested} : BeginReload(conf, hosts)
        <3>1. PICK conf \in Config, hosts \in {{}} \cup {{h} : h \in Requested} : BeginReload(conf, hosts)
            BY <2>1
        <3>2. hosts \in SUBSET Requested
            OBVIOUS
        <3> QED BY <3>1, <3>2, BeginReloadInv
    <2>2. CASE ReloadSteps
        BY <2>2, ReloadStepInv
    <2>3. CASE EndContext
        BY <2>3, EndContextInv
    <2>4. CASE \E m \in Manager : RuntimeClosed(m)
        BY <2>4, RuntimeClosedInv
    <2>5. CASE ClosePool
        BY <2>5, ClosePoolInv
    <2>6. CASE RegistryChanges
        BY <2>6, PoolUnchanged DEF RegistryChanges, IInv
    <2> QED BY <2>1, <2>2, <2>3, <2>4, <2>5, <2>6 DEF PoolNext
<1> QED BY <1>1, RegistryKept DEF IInv

(***************************************************************************)
(* Theorems.                                                               *)
(***************************************************************************)

\* The inductive invariant: the pool's table, what each Manager was created
\* for, what a reload knows and how far it is, and that identities are truthful.
THEOREM PoolInvariant == PoolSpec => []IInv
<1>1. IInv /\ UNCHANGED vars => IInv'
    <2> SUFFICES ASSUME IInv, UNCHANGED vars PROVE IInv'
        OBVIOUS
    <2>1. UNCHANGED poolVars /\ UNCHANGED registryVars
        BY DEF vars
    <2>2. Pool'
        BY <2>1, PoolUnchanged DEF IInv
    <2>3. RegistryInv'
        BY <2>1 DEF IInv, registryVars, RegistryInv, RegistryTypeOK, Truthful
    <2> QED BY <2>2, <2>3 DEF IInv
<1>2. IInv /\ [PoolNext]_vars => IInv'
    BY <1>1, PoolNextInv
<1> QED BY PoolInitInv, <1>2, PTL DEF PoolSpec

\* However reloads fail, give up or are cut short, a Manager that runs is the one
\* the pool has for its host (manager_pool.go:58-67).
THEOREM RuntimesBelongToHosts == PoolSpec => []OneManagerPerHost
<1>1. IInv => OneManagerPerHost
    BY DEF IInv, Pool
<1> QED BY <1>1, PoolInvariant, PTL

\* Once the pool is closed none of its Managers is open, and none is created
\* (manager_pool.go:124-140).
THEOREM NothingRunsAfterClose == PoolSpec => []ClosedPoolRunsNothing
<1>1. IInv => ClosedPoolRunsNothing
    BY DEF IInv, Pool, ClosedPool, ClosedPoolRunsNothing
<1> QED BY <1>1, PoolInvariant, PTL

\* What a reload, a target and a Manager of the pool are, in every state between
\* two steps of a reload (manager_pool.go:18-28).
THEOREM PoolTypesHold == PoolSpec => []PoolTypeOK
<1>1. IInv => PoolTypeOK
    <2> SUFFICES ASSUME IInv PROVE PoolTypeOK
        OBVIOUS
    <2> USE DEF IInv, Pool
    <2>1. /\ closed \in BOOLEAN /\ requested \subseteq Requested
          /\ DOMAIN managers \subseteq DOMAIN targets
          /\ \A n \in DOMAIN managers : managers[n] \in Manager
          /\ \A n \in DOMAIN targets : n \in Name /\ targets[n] \in Setting
        BY DEF TableTypes
    <2>2. /\ \A m \in Manager : runtime[m].phase \in Phase
          /\ \A n \in DOMAIN managers : runtime[managers[n]].phase # "none" /\ runtime[managers[n]].host = n
        BY DEF RuntimeTypes, Entries
    <2>3. /\ reload.pc \in {"idle", "resolve", "merge", "close", "await", "update"}
          /\ reload.pc = "idle" => reload = Idle
          /\ reload.closing # NoManager <=> reload.pc = "await"
          /\ reload.pc = "update" => reload.todo \subseteq DOMAIN targets
        BY DEF ReloadTypes, ReloadPC
    <2> QED BY <2>1, <2>2, <2>3 DEF PoolTypeOK
<1> QED BY <1>1, PoolInvariant, PTL

\* A reload that returns no error has settled every host, whatever the reloads
\* before it left undone (manager_pool.go:58-94).
THEOREM SuccessSettles == PoolSpec => SettledAfterSuccess
<1>1. IInv /\ FinishReload => Settled
    <2> SUFFICES ASSUME IInv, FinishReload PROVE Settled
        OBVIOUS
    <2>1. reload.pc = "update" /\ reload.todo = {}
        BY DEF FinishReload
    <2>2. \A n \in DOMAIN targets :
            /\ n \in DOMAIN managers
            /\ runtime[managers[n]].phase = "open"
            /\ runtime[managers[n]].intent = IntentFor(n, reload.conf, targets)
        BY <2>1 DEF IInv, Pool, Updated
    <2>3. DOMAIN managers = DOMAIN targets
        BY <2>2 DEF IInv, Pool, TableTypes
    <2>4. \A n \in DOMAIN managers : runtime[managers[n]].target = targets[n]
        BY DEF IInv, Pool, Entries
    <2> QED BY <2>2, <2>3, <2>4 DEF Settled
<1>2. IInv => [FinishReload => Settled]_vars
    BY <1>1
<1> QED BY <1>2, PoolInvariant, PTL DEF SettledAfterSuccess

\* After a reload without an error every host keeps its imports off the ports
\* that any host publishes, its own and those of hosts that were added, updated or
\* created later in the same reload (manager_pool.go:70-81).
PublishedReserved ==
    \A n, m \in DOMAIN managers :
        runtime[managers[m]].intent.published \subseteq runtime[managers[n]].intent.reserved

THEOREM ReservedForAll == PoolSpec => [][FinishReload => PublishedReserved]_vars
<1>1. Settled => PublishedReserved
    <2> SUFFICES ASSUME Settled, NEW n \in DOMAIN managers, NEW m \in DOMAIN managers
                 PROVE  runtime[managers[m]].intent.published \subseteq runtime[managers[n]].intent.reserved
        BY DEF PublishedReserved
    <2>1. /\ runtime[managers[m]].intent = IntentFor(m, reload.conf, targets)
          /\ runtime[managers[n]].intent = IntentFor(n, reload.conf, targets)
          /\ m \in DOMAIN targets
        BY DEF Settled
    <2>2. /\ runtime[managers[m]].intent.published = reload.conf.published[m]
          /\ runtime[managers[n]].intent.reserved = UNION {reload.conf.published[k] : k \in DOMAIN targets}
        BY <2>1 DEF IntentFor
    <2> QED BY <2>1, <2>2
<1>2. [FinishReload => Settled]_vars => [FinishReload => PublishedReserved]_vars
    BY <1>1
<1> QED BY <1>2, SuccessSettles, PTL DEF SettledAfterSuccess

\* Two monitored hosts never resolve to one machine when OpenSSH resolved all it
\* can, also when one of them is known only by its record (README.md:100-102).
THEOREM MachinesNotSplit == PoolSpec => KnownHostNotSplit
<1> DEFINE Complete == ResolveTargets /\ DOMAIN reload'.resolved = Resolvable(Gathered(reload.conf, requested))
           Distinct == \A n, m \in {k \in DOMAIN reload'.targets : ~NoIdentity(k, reload.conf)} :
                          Resolves[reload'.targets[n]] = Resolves[reload'.targets[m]] => n = m
<1>1. IInv /\ Complete => Distinct
    <2> SUFFICES ASSUME IInv, Complete PROVE Distinct
        OBVIOUS
    <2> DEFINE hosts == Gathered(reload.conf, requested)
    <2>1. reload.conf \in Config /\ requested \in SUBSET Name
        BY RequestedAssumption DEF ResolveTargets, IInv, Pool, ReloadTypes, TableTypes
    <2>2. PICK fresh \in SUBSET Resolvable(hosts) :
            reload' = [reload EXCEPT
                !.pc = "merge",
                !.targets = Monitored(reload.conf, Collapsed(reload.conf, hosts, fresh)),
                !.resolved = Identified(hosts, fresh)]
        BY DEF ResolveTargets
    <2>3. /\ reload'.targets = Monitored(reload.conf, Collapsed(reload.conf, hosts, fresh))
          /\ reload'.resolved = Identified(hosts, fresh)
        BY <2>2 DEF IInv, Pool, ReloadTypes
    <2>4. fresh = Resolvable(hosts)
        BY <2>3 DEF Identified
    <2>5. reload'.targets = Monitored(reload.conf, Collapsed(reload.conf, hosts, Resolvable(hosts)))
        BY <2>3, <2>4
    <2> QED BY <2>1, <2>5, NotSplit DEF IInv
<1>2. IInv => [Complete => Distinct]_vars
    BY <1>1
<1> QED BY <1>2, PoolInvariant, PTL DEF KnownHostNotSplit

\* host_equivalent.go:16-18, manager_pool.go:53: a reload drops no machine.  Of the
\* names it has gathered for one, exactly one becomes a target, however few of them
\* could be resolved; unless the name that the rule prefers is ignored.
SameMachine(n, m, hosts, fresh) ==
    KeyOf(n, reload.conf, hosts, fresh) = KeyOf(m, reload.conf, hosts, fresh)

IgnoredHost(n, hosts) == n \in reload.conf.ignored \/ hosts[n].target \in reload.conf.ignored

MonitoredOnce(n, hosts, fresh) ==
    \E w \in DOMAIN reload'.targets :
        /\ SameMachine(w, n, hosts, fresh)
        /\ reload'.targets[w] = hosts[w]
        /\ \A v \in DOMAIN reload'.targets : SameMachine(v, n, hosts, fresh) => v = w

IgnoredByWinner(n, hosts, fresh) ==
    \E w \in Winners(reload.conf, hosts, fresh) :
        SameMachine(w, n, hosts, fresh) /\ IgnoredHost(w, hosts)

EachMachineOnce ==
    LET hosts == Gathered(reload.conf, requested)
        fresh == DOMAIN reload'.resolved
    IN  \A n \in DOMAIN hosts : MonitoredOnce(n, hosts, fresh) \/ IgnoredByWinner(n, hosts, fresh)

THEOREM NoMachineDropped == PoolSpec => [][ResolveTargets => EachMachineOnce]_vars
<1>1. ASSUME IInv, ResolveTargets PROVE EachMachineOnce
    <2> DEFINE hosts == Gathered(reload.conf, requested)
    <2>1. reload.conf \in Config /\ requested \in SUBSET Name
        BY <1>1, RequestedAssumption DEF ResolveTargets, IInv, Pool, ReloadTypes, TableTypes
    <2>2. PICK fresh \in SUBSET Resolvable(hosts) :
            reload' = [reload EXCEPT
                !.pc = "merge",
                !.targets = Monitored(reload.conf, Collapsed(reload.conf, hosts, fresh)),
                !.resolved = Identified(hosts, fresh)]
        BY <1>1 DEF ResolveTargets
    <2>3. /\ reload'.targets = Monitored(reload.conf, Collapsed(reload.conf, hosts, fresh))
          /\ reload'.resolved = Identified(hosts, fresh)
        BY <1>1, <2>2 DEF IInv, Pool, ReloadTypes
    <2>4. fresh = DOMAIN reload'.resolved
        BY <2>3 DEF Identified
    <2>5. DOMAIN hosts \subseteq Name
        BY <1>1, <2>1, GatheredTypes DEF IInv, RegistryInv
    <2> HIDE DEF hosts
    <2> DEFINE wins == Winners(reload.conf, hosts, fresh)
    <2>6. wins \subseteq DOMAIN hosts
        BY DEF Winners
    <2>7. /\ DOMAIN reload'.targets = {w \in wins : ~IgnoredHost(w, hosts)}
          /\ \A w \in DOMAIN reload'.targets : reload'.targets[w] = hosts[w]
        BY <2>3, <2>6 DEF Monitored, Collapsed, Restrict, IgnoredHost
    <2>8. ASSUME NEW n \in DOMAIN hosts
          PROVE  MonitoredOnce(n, hosts, fresh) \/ IgnoredByWinner(n, hosts, fresh)
        <3>1. PICK w \in wins :
                  /\ SameMachine(w, n, hosts, fresh)
                  /\ \A v \in wins : SameMachine(v, n, hosts, fresh) => v = w
            BY <2>5, OneWinnerPerMachine DEF SameMachine
        <3>2. CASE IgnoredHost(w, hosts)
            BY <3>1, <3>2 DEF IgnoredByWinner
        <3>3. CASE ~IgnoredHost(w, hosts)
            <4>1. w \in DOMAIN reload'.targets
                BY <2>7, <3>1, <3>3
            <4> QED BY <2>7, <3>1, <4>1 DEF MonitoredOnce
        <3> QED BY <3>2, <3>3
    <2> QED BY <2>4, <2>8 DEF EachMachineOnce, hosts
<1>2. IInv => [ResolveTargets => EachMachineOnce]_vars
    BY <1>1
<1> QED BY <1>2, PoolInvariant, PTL

=============================================================================
