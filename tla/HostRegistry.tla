---------------------------- MODULE HostRegistry ----------------------------
(***************************************************************************)
(* The hosts the service monitors (cli/internal/app: host_registry.go,     *)
(* host_equivalent.go, host_discovery.go).  config.jsonc names hosts and   *)
(* ignored hosts; discovered-hosts.json keeps what discovery has found,    *)
(* with the identity OpenSSH resolved it to; the service adds the hosts it *)
(* was asked for.  Of all the names of one machine one is monitored.       *)
(*                                                                         *)
(* The registry changes under a file lock, in one step.  A reload reads it *)
(* and merges identities back later: in between discovery, and the user,   *)
(* may have changed it.                                                    *)
(***************************************************************************)
EXTENDS Naturals, FiniteSets, Functions

CONSTANTS
    Name,      \* names of hosts, which are destinations as well; numbers stand for their order
    Alias,     \* the names that ~/.ssh/config has as a Host
    Bare,      \* the names without a user
    File,      \* configuration files that a -F argument may name
    NoFile,    \* no -F argument
    Machine,   \* users and hostnames
    Unknown,   \* no identity
    Resolves,  \* what OpenSSH resolves a setting to, if it can
    Config,    \* what config.jsonc may say when it is read
    Found      \* the settings discovery may find

Setting == [target : Name, file : File \cup {NoFile}]
Record == [setting : Setting, identity : Machine \cup {Unknown}]

\* A discovered setting is recorded under a name of its own (targetID).
ASSUME NamesAssumption == Name \subseteq Nat /\ Alias \subseteq Name /\ Bare \subseteq Name
ASSUME IdentityAssumption == Unknown \notin Machine /\ NoFile \notin File
ASSUME ResolvesAssumption == Resolves \in [Setting -> Machine]
ASSUME ConfigAssumption ==
    \A c \in Config : /\ c.ignored \subseteq Name
                      /\ DOMAIN c.hosts \subseteq Name
                      /\ \A n \in DOMAIN c.hosts : c.hosts[n] \in Setting
ASSUME FoundAssumption == Found \subseteq Name \X Setting

VARIABLES
    registry, \* discovered-hosts.json: name -> Record, for the names it has
    files     \* the configuration files that exist

registryVars == <<registry, files>>

Registries == UNION {[names -> Record] : names \in SUBSET Name}

RegistryTypeOK ==
    /\ DOMAIN registry \subseteq Name
    /\ \A n \in DOMAIN registry : registry[n] \in Record
    /\ files \subseteq File

Plain(n) == [target |-> n, file |-> NoFile]

MissingHostConfig(setting) == setting.file \in File \ files

(***************************************************************************)
(* hostTargets: every name, before the names of one machine are collapsed. *)
(* conf is the configuration that was read, extra what was asked for.      *)
(***************************************************************************)

\* A discovered host with a missing -F file is as good as gone, unless its
\* identity is known.
Monitorable(conf) ==
    {n \in DOMAIN registry \ DOMAIN conf.hosts :
        MissingHostConfig(registry[n].setting) => registry[n].identity # Unknown}

Cached(conf) == {n \in Monitorable(conf) : MissingHostConfig(registry[n].setting)}

Gathered(conf, extra) ==
    [n \in DOMAIN conf.hosts \cup Monitorable(conf) \cup extra \cup conf.ignored |->
        IF n \in DOMAIN conf.hosts THEN conf.hosts[n]
        ELSE IF n \in Monitorable(conf) THEN registry[n].setting
        ELSE Plain(n)]

(***************************************************************************)
(* collapseSameHosts.  fresh are the names of hosts that ssh -G resolved.  *)
(***************************************************************************)

Resolvable(hosts) == {n \in DOMAIN hosts : ~MissingHostConfig(hosts[n])}

\* The key of a group: an identity, or the name itself.
KeyOf(n, conf, hosts, fresh) ==
    IF n \in fresh THEN <<"machine", Resolves[hosts[n]]>>
    ELSE IF n \in Cached(conf) THEN <<"machine", registry[n].identity>>
    ELSE <<"name", n>>

\* The first criterion that tells two hosts apart decides.
Decides(left, right, otherwise) == IF left # right THEN left ELSE otherwise

PreferHost(n, m, conf, hosts) ==
    Decides(hosts[n].target \in Alias \/ n \in Alias, hosts[m].target \in Alias \/ m \in Alias,
    Decides(n \in DOMAIN conf.hosts, m \in DOMAIN conf.hosts,
    Decides(hosts[n].target \in Bare, hosts[m].target \in Bare,
            n < m)))

\* A route that works is preferred over one that is only remembered.
Prefer(n, m, conf, hosts, fresh) ==
    Decides(n \in fresh, m \in fresh, PreferHost(n, m, conf, hosts))

\* The names no other name of the same machine is preferred to.
Winners(conf, hosts, fresh) ==
    {n \in DOMAIN hosts :
        \A m \in DOMAIN hosts \ {n} :
            KeyOf(m, conf, hosts, fresh) = KeyOf(n, conf, hosts, fresh) => Prefer(n, m, conf, hosts, fresh)}

Collapsed(conf, hosts, fresh) == Restrict(hosts, Winners(conf, hosts, fresh))

\* reload drops what is ignored, by name or by destination, after the collapse.
Monitored(conf, targets) ==
    Restrict(targets, {n \in DOMAIN targets : n \notin conf.ignored /\ targets[n].target \notin conf.ignored})

\* The identities of the names in fresh, for the registry.
Identified(hosts, fresh) == [n \in fresh |-> [setting |-> hosts[n], identity |-> Resolves[hosts[n]]]]

(***************************************************************************)
(* mergeDiscovered, in one step under the file lock.                       *)
(***************************************************************************)

MergeIdentitiesMutant(resolved) ==
    registry' = [n \in DOMAIN registry |->
        IF n \in DOMAIN resolved THEN [registry[n] EXCEPT !.identity = resolved[n].identity] ELSE registry[n]]
\* Only the identity changes, and only where the settings are what was resolved:
\* a removed record is not recreated.
MergeIdentities(resolved) ==
    registry' = [n \in DOMAIN registry |->
        IF n \in DOMAIN resolved /\ resolved[n].setting = registry[n].setting
        THEN resolved[n] ELSE registry[n]]

\* Discovery adds what it does not have under that name.
DiscoverHosts(n, setting) ==
    /\ n \notin DOMAIN registry
    /\ registry' = [m \in DOMAIN registry \cup {n} |->
                      IF m = n THEN [setting |-> setting, identity |-> Unknown] ELSE registry[m]]
    /\ UNCHANGED files

\* The user removes a record, or a session's temporary -F file goes.
RemoveRecord(n) ==
    /\ n \in DOMAIN registry
    /\ registry' = Restrict(registry, DOMAIN registry \ {n})
    /\ UNCHANGED files

RemoveFile(f) ==
    /\ f \in files
    /\ files' = files \ {f}
    /\ UNCHANGED registry

RegistryInit ==
    /\ registry = [n \in {} |-> Plain(n)]
    /\ files = File

RegistryNext ==
    \/ \E found \in Found : DiscoverHosts(found[1], found[2])
    \/ \E n \in Name : RemoveRecord(n)
    \/ \E f \in File : RemoveFile(f)

============================================================================
