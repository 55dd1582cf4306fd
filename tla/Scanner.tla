------------------------------ MODULE Scanner ------------------------------
(***************************************************************************)
(* The listener scanner of one connection (cli/internal/openssh:           *)
(* scanner.go, scanner.sh).  A script on the Development Host and          *)
(* scanListeners on this side alternate: the script lists the listening    *)
(* sockets and who owns them, scanListeners answers with the ports whose   *)
(* application nobody could name, the script reads the first bytes of      *)
(* each, and scanListeners emits the listeners without the SSH servers     *)
(* among them, which it remembers by socket.                               *)
(*                                                                         *)
(* Services start and stop between any two of these steps.                 *)
(***************************************************************************)
EXTENDS Naturals, FiniteSets

CONSTANTS
    Server,           \* the listening sockets there may be, see ServersAssumption
    Self,             \* the user the script runs as
    DualStack,        \* an IPv6 wildcard socket takes IPv4 as well (v6 = "0")
    Label,            \* port -> the name of the container that publishes it, or NoApp
    NoApp,            \* no name
    SSHD,             \* the name of OpenSSH's server
    MaxObservedPorts  \* the ports of a snapshot that are looked at

Address == {"loopback4", "wildcard4", "mapped6", "wildcard6", "other"}

Ports == {s.port : s \in Server}

\* app and dir: what its process shows of itself; ssh: it greets as an SSH server.
ASSUME ServersAssumption ==
    /\ \A s \in Server : /\ s.port \in Nat /\ s.inode \in Nat /\ s.addr \in Address
                         /\ s.dir \in BOOLEAN /\ s.ssh \in BOOLEAN
    /\ \A s, t \in Server : s.inode = t.inode => s = t
ASSUME FiniteAssumption == IsFiniteSet(Server)
ASSUME LimitAssumption == MaxObservedPorts \in Nat
ASSUME NamelessAssumption == NoApp # SSHD

VARIABLES
    up,      \* the sockets that listen
    gone,    \* the sockets that were closed: an inode does not come back
    turn,    \* whose turn it is, and what it is about to do
    listed,  \* the sockets of this round's snapshot
    owned,   \* those of them whose process showed its executable or directory
    docker,  \* the engine told which containers publish ports
    listeners, \* what the snapshot says may be offered
    probe,   \* the ports scanListeners has asked about
    todo,    \* the ports it has still to read a greeting from
    banners, \* the ports that greeted as SSH
    knownSSH,  \* the sockets remembered as SSH servers
    offered, \* the sockets of the emitted listeners, until the Manager has taken them
    (* Observation only. *)
    steady,     \* up since the snapshot, and alone on their port all the time
    recognised  \* greeted as SSH while shown, and shown ever since

serviceVars == <<up, gone>>
roundVars == <<listed, owned, docker, listeners, probe, todo, banners>>
vars == <<up, gone, turn, listed, owned, docker, listeners, probe, todo, banners,
          knownSSH, offered, steady, recognised>>

Turn == {"list", "owners", "classify", "read", "apply", "ended"}

TypeOK ==
    /\ up \subseteq Server /\ gone \subseteq Server /\ up \cap gone = {}
    /\ turn \in Turn
    /\ listed \subseteq up \cup gone
    /\ owned \subseteq listed
    /\ docker \in BOOLEAN
    /\ listeners \subseteq listed /\ probe \subseteq Ports
    /\ todo \subseteq probe /\ (todo # {} => turn = "read")
    /\ banners \subseteq probe
    /\ knownSSH \subseteq up \cup gone /\ offered \subseteq up \cup gone
    /\ steady \subseteq up \cap listed
    /\ recognised \subseteq Server

(***************************************************************************)
(* What a snapshot says.                                                   *)
(***************************************************************************)

\* A loopback socket, or a wildcard socket of the user itself.
SocketReachable(s) ==
    /\ s.port # 0
    /\ \/ s.addr = "loopback4"
       \/ s.addr = "mapped6" /\ DualStack
       \/ s.addr = "wildcard4" /\ s.uid = Self
       \/ s.addr = "wildcard6" /\ s.uid = Self /\ DualStack

\* One socket for each port: the one with the lowest inode.
Best(sockets) ==
    {s \in sockets : /\ SocketReachable(s)
                     /\ \A t \in sockets : SocketReachable(t) /\ t.port = s.port => s.inode <= t.inode}

\* The lowest ports, as many as are looked at.
Present(sockets) ==
    {s \in Best(sockets) : Cardinality({t \in Best(sockets) : t.port < s.port}) < MaxObservedPorts}

\* The process's own name; a container's only if its process shows nothing.
AppOf(s) ==
    IF s \in owned THEN s.app ELSE IF docker THEN Label[s.port] ELSE NoApp

\* A socket that was not recognised before, or took over the port of one that was.
FreshMutant(sockets, known) == {s \in Present(sockets) : \A k \in known : k.port # s.port}
Fresh(sockets, known) == Present(sockets) \ known

Remembered(sockets, known) ==
    {k \in known : \A s \in Present(sockets) : s.port = k.port => s = k}

Listeners(sockets, known) == {s \in Fresh(sockets, known) : AppOf(s) # SSHD}

Probe(sockets, known) == {s.port : s \in {l \in Listeners(sockets, known) : AppOf(l) = NoApp}}

\* A greeting is credited to the socket the snapshot shows on that port.
RecognisedMutant(sockets, asked) ==
    knownSSH \cup {s \in Present(sockets) : s.port \in banners \cap asked}
Recognised(sockets, asked) ==
    {s \in Present(sockets) : s \in knownSSH \/ s.port \in banners \cap asked}

ApplyBannersMutant(sockets, asked) == {s \in listeners : \A k \in knownSSH : k.port # s.port}
ApplyBanners(sockets, asked) ==
    {s \in listeners : \A k \in Recognised(sockets, asked) : k.port # s.port}

(***************************************************************************)
(* The host's services.                                                    *)
(***************************************************************************)

\* A connection to 127.0.0.1 on its port reaches it.
Answers(s) ==
    \/ s.addr \in {"loopback4", "wildcard4"}
    \/ s.addr \in {"mapped6", "wildcard6"} /\ DualStack

\* Two sockets share a port only as workers of one service (SO_REUSEPORT).
MayShare(s, t) ==
    \/ s.port # t.port
    \/ Answers(s) # Answers(t)
    \/ s.addr = t.addr /\ s.uid = t.uid /\ s.app = t.app /\ s.dir = t.dir /\ s.ssh = t.ssh

Alone(s, sockets) == \A t \in sockets : t.port = s.port => t = s

StartServer(s) ==
    /\ s \notin up \cup gone
    /\ \A t \in up : MayShare(s, t)
    /\ up' = up \cup {s}
    /\ steady' = {t \in steady : t.port # s.port}
    /\ UNCHANGED <<gone, turn, roundVars, knownSSH, offered, recognised>>

StopServer(s) ==
    /\ s \in up
    /\ up' = up \ {s} /\ gone' = gone \cup {s}
    /\ steady' = steady \ {s}
    /\ UNCHANGED <<turn, roundVars, knownSSH, offered, recognised>>

(***************************************************************************)
(* One round.                                                              *)
(***************************************************************************)

ForgetRound ==
    /\ listed' = {} /\ owned' = {} /\ docker' = FALSE /\ steady' = {}
    /\ listeners' = {} /\ probe' = {} /\ todo' = {} /\ banners' = {}

ListSockets ==
    /\ turn = "list"
    /\ turn' = "owners"
    /\ listed' = up
    /\ steady' = {s \in up : Alone(s, up)}
    /\ offered' = {}
    /\ UNCHANGED <<serviceVars, owned, docker, listeners, probe, todo, banners, knownSSH, recognised>>

\* ss and readlink run later: a socket closed by then has no owner any more,
\* nor has one of a process of somebody else.
LookUpOwners ==
    /\ turn = "owners"
    /\ turn' = "classify"
    /\ \E o \in SUBSET {s \in listed \cap up : s.app # NoApp \/ s.dir} : owned' = o
    /\ docker' \in BOOLEAN
    /\ UNCHANGED <<serviceVars, listed, listeners, probe, todo, banners,
                   knownSSH, offered, steady, recognised>>

Classify ==
    /\ turn = "classify"
    /\ turn' = "read"
    /\ knownSSH' = Remembered(listed, knownSSH)
    /\ listeners' = Listeners(listed, knownSSH)
    /\ probe' = Probe(listed, knownSSH) /\ todo' = probe'
    /\ owned' = {} /\ docker' = FALSE
    /\ UNCHANGED <<serviceVars, listed, banners, offered, steady, recognised>>

\* The ports are read in order.  A greeting may be late, or there is no tool to
\* read it; only an SSH server that answers on the port now can give one.
ReadBanner(p) ==
    /\ turn = "read"
    /\ p \in todo /\ \A q \in todo : p <= q
    /\ todo' = todo \ {p}
    /\ \/ UNCHANGED <<banners, recognised>>
       \/ \E s \in up : /\ s.port = p /\ Answers(s) /\ s.ssh
                        /\ banners' = banners \cup {p}
                        /\ recognised' = recognised \cup ({s} \cap Present(listed))
    /\ UNCHANGED <<serviceVars, turn, listed, owned, docker, listeners, probe, knownSSH, offered, steady>>

SendBannersMutant ==
    /\ turn = "read"
    /\ turn' = "apply"
    /\ UNCHANGED <<serviceVars, roundVars, knownSSH, offered, steady, recognised>>
SendBanners ==
    /\ turn = "read" /\ todo = {}
    /\ turn' = "apply"
    /\ UNCHANGED <<serviceVars, roundVars, knownSSH, offered, steady, recognised>>

Emit ==
    /\ turn = "apply"
    /\ turn' = "list"
    /\ knownSSH' = Recognised(listed, probe)
    /\ offered' = ApplyBanners(listed, probe)
    /\ recognised' = recognised \cap Present(listed)
    /\ ForgetRound
    /\ UNCHANGED serviceVars

\* The connection is lost, or a line is cut short: no emission, no next round.
EndScan ==
    /\ turn # "ended"
    /\ turn' = "ended"
    /\ knownSSH' = {} /\ offered' = {} /\ recognised' = {}
    /\ ForgetRound
    /\ UNCHANGED serviceVars

\* The Manager observes again, over a connection with a cache of its own.
ObserveAgain ==
    /\ turn = "ended"
    /\ turn' = "list"
    /\ UNCHANGED <<serviceVars, roundVars, knownSSH, offered, steady, recognised>>

ScannerInit ==
    /\ up \in SUBSET Server /\ gone = {}
    /\ \A s, t \in up : s = t \/ MayShare(s, t)
    /\ turn = "list"
    /\ listed = {} /\ owned = {} /\ docker = FALSE
    /\ listeners = {} /\ probe = {} /\ todo = {} /\ banners = {}
    /\ knownSSH = {} /\ offered = {} /\ steady = {} /\ recognised = {}

Round == ListSockets \/ LookUpOwners \/ Classify \/ (\E p \in Ports : ReadBanner(p)) \/ SendBanners \/ Emit

ScannerNext ==
    \/ Round
    \/ EndScan
    \/ ObserveAgain
    \/ \E s \in Server : StartServer(s) \/ StopServer(s)

ScannerSpec == ScannerInit /\ [][ScannerNext]_vars

(***************************************************************************)
(* Properties.                                                             *)
(***************************************************************************)

\* A service is not lost: a socket that was up, and alone on its port, from the
\* snapshot to the emission, within the limit and no SSH server, is emitted,
\* whatever listened on its port in earlier rounds (scanner.go:168-172).
SteadyListenerOffered ==
    [][Emit => \A s \in steady \cap Present(listed) :
                  ~s.ssh /\ s.app # SSHD /\ Label[s.port] # SSHD => s \in offered']_vars

\* An SSH server that greeted once while the snapshot showed it is never offered
\* for forwarding as long as every snapshot shows it, even when its greeting
\* does not come in time any more (scanner.go:169-171, 199-214).
RecognisedNeverOffered ==
    [][Emit => offered' \cap recognised' = {}]_vars

\* The memory of a connection that lasts for months stays within the limit of
\* one snapshot, and names each port once (scanner.go:205-209).
KnownBounded ==
    /\ Cardinality(knownSSH) <= MaxObservedPorts
    /\ \A s, t \in knownSSH : s.port = t.port => s = t

============================================================================
