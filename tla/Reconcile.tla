----------------------------- MODULE Reconcile -----------------------------
(***************************************************************************)
(* The pure half of cli/internal/core: what one host's forwarding intent   *)
(* and the listeners observed on it say must run (desired.go), and the     *)
(* plan that turns the running workers into that (reconcile.go).           *)
(*                                                                         *)
(* Ports, executables, directories and glob patterns are members of small  *)
(* sets.  A sorted Go slice whose entries have distinct ports is a set,    *)
(* and a Go map is a function on the set of its keys.                      *)
(***************************************************************************)
EXTENDS Integers, Sequences

CONSTANTS
    MaxPort,    \* maximumTCPPort: the ports are 1..MaxPort
    App,        \* valid executable names
    Directory,  \* absolute remote working directories
    Pattern,    \* valid working-directory globs
    Match,      \* glob library: the pairs <<pattern, directory>> that match
    NoName      \* a name the scanner did not learn, or one no rule may have

ASSUME MaxPortAssumption == MaxPort \in Nat \ {0}
ASSUME NoNameAssumption == NoName \notin App \cup Directory \cup Pattern
ASSUME MatchAssumption == Match \subseteq Pattern \X Directory

Port == 1 .. MaxPort
AnyPort == 0 .. MaxPort

Import == "remote_to_local"
Publication == "local_to_remote"

----------------------------------------------------------------------------
(* Types *)

RememberedForward == [remote : Port, local : Port, allowFallback : BOOLEAN]
PublishedForward == [local : Port, remote : Port]

ForwardTarget == [direction : {Import, Publication}, remote : Port, local : Port]

\* desiredForward: automatic is only a label, the rest is behaviour.
DesiredForward ==
    [preferred : ForwardTarget, automatic : BOOLEAN, allowFallback : BOOLEAN]

\* forwardKey: an import is named by its remote port, a publication by its
\* local port, so that rebinding the other end keeps the key.
Key == [direction : {Import, Publication}, port : Port]

Listener == [app : App \cup {NoName}, directory : Directory \cup {NoName}]

\* m.listeners: what is observed, by remote port.
Listeners == UNION {[ports -> Listener] : ports \in SUBSET Port}

\* A normalized ForwardingIntent.
Intent ==
    [remembered : SUBSET RememberedForward,
     published  : SUBSET PublishedForward,
     auto       : SUBSET RememberedForward,
     reserved   : SUBSET Port,
     rules      : SUBSET Pattern,
     ignored    : SUBSET App]

\* ForwardStatus, without the fields that only repeat the key or the intent.
ForwardStatus ==
    [state : {"starting", "active", "failed"},
     local : Port, remote : Port, automatic : BOOLEAN]

----------------------------------------------------------------------------
(* Normalization of the intent a caller hands over: its lists are sequences *)
(* whose ports may be 0 (omitted).                                          *)

RawImport == [remote : AnyPort, local : AnyPort, allowFallback : BOOLEAN]
RawPublication == [local : AnyPort, remote : AnyPort]

RawIntent ==
    [remembered : Seq(RawImport),
     published  : Seq(RawPublication),
     auto       : Seq(RawImport),
     reserved   : SUBSET Port,
     rules      : SUBSET (Pattern \cup {NoName}),
     ignored    : SUBSET (App \cup {NoName})]

\* An omitted local port means the remote port, with fallback.
WithImportDefaults(f) ==
    IF f.local = 0 THEN [f EXCEPT !.local = f.remote, !.allowFallback = TRUE] ELSE f

WithPublicationDefaults(f) == IF f.remote = 0 THEN [f EXCEPT !.remote = f.local] ELSE f

\* No service port is omitted, and no two entries share a service or bind port.
ValidImports(items) ==
    /\ \A i \in DOMAIN items : items[i].remote # 0
    /\ \A i, j \in DOMAIN items : i # j =>
          /\ items[i].remote # items[j].remote
          /\ WithImportDefaults(items[i]).local # WithImportDefaults(items[j]).local

ValidPublications(items) ==
    /\ \A i \in DOMAIN items : items[i].local # 0
    /\ \A i, j \in DOMAIN items : i # j =>
          /\ items[i].local # items[j].local
          /\ WithPublicationDefaults(items[i]).remote # WithPublicationDefaults(items[j]).remote

\* normalizeIntent succeeds; otherwise the caller gets an error and no effect.
ValidIntent(raw) ==
    /\ ValidImports(raw.auto)
    /\ ValidImports(raw.remembered)
    /\ ValidPublications(raw.published)
    /\ NoName \notin raw.rules
    /\ NoName \notin raw.ignored

NormalizeIntent(raw) ==
    [remembered |-> {WithImportDefaults(raw.remembered[i]) : i \in DOMAIN raw.remembered},
     published  |-> {WithPublicationDefaults(raw.published[i]) : i \in DOMAIN raw.published},
     auto       |-> {WithImportDefaults(raw.auto[i]) : i \in DOMAIN raw.auto},
     reserved   |-> raw.reserved,
     rules      |-> raw.rules,
     ignored    |-> raw.ignored]

----------------------------------------------------------------------------
(* Desired forwards *)

KeyOf(target) ==
    [direction |-> target.direction,
     port |-> IF target.direction = Publication THEN target.local ELSE target.remote]

\* Published local services, here and (raw.reserved) on every other host.
ReservedLocalPorts(intent) == {f.local : f \in intent.published} \cup intent.reserved

DesiredImport(f, automatic) ==
    [preferred |-> [direction |-> Import, remote |-> f.remote, local |-> f.local],
     automatic |-> automatic,
     allowFallback |-> f.allowFallback]

DesiredPublication(f) ==
    [preferred |-> [direction |-> Publication, remote |-> f.remote, local |-> f.local],
     automatic |-> FALSE,
     allowFallback |-> FALSE]

\* What the user fixed: live whatever is observed.
FixedForwards(intent) ==
    {DesiredImport(f, FALSE) : f \in intent.remembered}
        \cup {DesiredPublication(f) : f \in intent.published}

\* The forwards a rule selects for the listener at a remote port: an entry of
\* the global port rules first, else a same-port forward when a directory rule
\* matches, else none.
Candidates(intent, listener, port) ==
    LET global == {f \in intent.auto : f.remote = port}
    IN  IF listener.app \in intent.ignored THEN {}
        ELSE IF global # {} THEN global
        ELSE IF \E rule \in intent.rules : <<rule, listener.directory>> \in Match
             THEN {[remote |-> port, local |-> port, allowFallback |-> TRUE]}
             ELSE {}

\* Remote ports already imported by the user, or the remote end of a publication.
TakenPortsMutant(intent) == {f.remote : f \in intent.remembered}
TakenPorts(intent) == {f.remote : f \in intent.remembered \cup intent.published}

AutomaticForwards(intent, listeners) ==
    {DesiredImport(f, TRUE) :
        f \in UNION {Candidates(intent, listeners[port], port) :
                        port \in DOMAIN listeners \ TakenPorts(intent)}}

\* buildDesiredForwards: a map from key to forward.
DesiredForwards(intent, listeners) ==
    LET forwards == FixedForwards(intent) \cup AutomaticForwards(intent, listeners)
    IN  [key \in {KeyOf(f.preferred) : f \in forwards} |->
            CHOOSE f \in forwards : KeyOf(f.preferred) = key]

\* forwardStatus: a status reports the address in use at the bind end.
StatusOf(forward, state, local) ==
    [state |-> state, local |-> local,
     remote |-> forward.preferred.remote, automatic |-> forward.automatic]

StartingStatus(forward) == StatusOf(forward, "starting", forward.preferred.local)

----------------------------------------------------------------------------
(* The plan.  A running worker is a record [desired, status]. *)

SameForwardBehaviorMutant(left, right) == left = right
SameForwardBehavior(left, right) ==
    /\ left.preferred = right.preferred
    /\ left.allowFallback = right.allowFallback

\* reservedWorkerPort: an import that is on, or is going for, a reserved port.
UsesReservedPort(key, status, reserved) ==
    /\ key.direction = Import
    /\ status.state \in {"starting", "active"}
    /\ status.local \in reserved

KeptKeysMutant(want, running, reserved) ==
    {key \in DOMAIN running \cap DOMAIN want :
        SameForwardBehavior(running[key].desired, want[key])}
KeptKeys(want, running, reserved) ==
    {key \in DOMAIN running :
        /\ key \in DOMAIN want
        /\ SameForwardBehavior(running[key].desired, want[key])
        /\ ~UsesReservedPort(key, running[key].status, reserved)}

\* The reserved ports that stopped imports are about to release.
StoppingPortsMutant1(running, stop, reserved) == {}
StoppingPortsMutant2(running, stop, reserved) == reserved
StoppingPorts(running, stop, reserved) ==
    {running[key].status.local :
        key \in {k \in stop : UsesReservedPort(k, running[k].status, reserved)}}

\* A key with a running worker, even a stopped one, is not started yet.
MissingKeysMutant(want, running, keep) == DOMAIN want \ keep
MissingKeys(want, running, keep) == DOMAIN want \ DOMAIN running

PlanReconciliation(want, running, reserved) ==
    LET keep == KeptKeys(want, running, reserved)
        stop == DOMAIN running \ keep
        stopping == StoppingPorts(running, stop, reserved)
        missing == MissingKeys(want, running, keep)
        wait == {key \in missing :
                    key.direction = Publication /\ want[key].preferred.local \in stopping}
    IN  [keep |-> keep, stop |-> stop, wait |-> wait, start |-> missing \ wait]

============================================================================
