---------------------------- MODULE ScannerProofs ----------------------------
(***************************************************************************)
(* Theorems about the listener scanner, for every set of sockets, every    *)
(* limit and every order in which services start, stop and greet.          *)
(***************************************************************************)
EXTENDS Scanner, FiniteSetTheorems, TLAPS

(***************************************************************************)
(* A snapshot shows one socket for each port, and no more than the limit.  *)
(***************************************************************************)

LEMMA OnePerPort ==
    ASSUME NEW sockets \in SUBSET Server,
           NEW s \in Best(sockets), NEW t \in Best(sockets), s.port = t.port
    PROVE  s = t
<1>1. s \in Server /\ t \in Server /\ s.inode <= t.inode /\ t.inode <= s.inode
    BY DEF Best
<1>2. s.inode \in Nat /\ t.inode \in Nat
    BY <1>1, ServersAssumption
<1> QED BY <1>1, <1>2, ServersAssumption

LEMMA PresentIsListed ==
    ASSUME NEW sockets \in SUBSET Server
    PROVE  /\ Present(sockets) \subseteq sockets
           /\ \A s \in Present(sockets) : SocketReachable(s)
           /\ \A s, t \in Present(sockets) : s.port = t.port => s = t
<1>1. /\ Present(sockets) \subseteq Best(sockets)
      /\ Best(sockets) \subseteq sockets
      /\ \A s \in Best(sockets) : SocketReachable(s)
    BY DEF Present, Best
<1> QED BY <1>1, OnePerPort

\* The number of lower ports is below the limit, and tells the sockets apart.
LEMMA PresentBounded ==
    ASSUME NEW sockets \in SUBSET Server
    PROVE  IsFiniteSet(Present(sockets)) /\ Cardinality(Present(sockets)) <= MaxObservedPorts
<1> DEFINE P == Present(sockets)
           Lower(s) == {t \in Best(sockets) : t.port < s.port}
           rank == [s \in P |-> Cardinality(Lower(s))]
<1>1. IsFiniteSet(Best(sockets)) /\ P \subseteq Best(sockets) /\ Best(sockets) \subseteq Server
    <2>1. P \subseteq Best(sockets) /\ Best(sockets) \subseteq Server
        BY DEF Best, Present
    <2> QED BY <2>1, FS_Subset, FiniteAssumption
<1>2. \A s \in Best(sockets) : s.port \in Nat
    BY <1>1, ServersAssumption
<1>3. IsFiniteSet(P)
    BY <1>1, FS_Subset
<1>4. \A s \in Best(sockets) : IsFiniteSet(Lower(s)) /\ Cardinality(Lower(s)) \in Nat
    BY <1>1, FS_Subset, FS_CardinalityType
<1>5. \A s \in P : Cardinality(Lower(s)) < MaxObservedPorts
    BY DEF Present
<1>6. \A s, t \in P : s.port < t.port => Cardinality(Lower(s)) < Cardinality(Lower(t))
    <2> SUFFICES ASSUME NEW s \in P, NEW t \in P, s.port < t.port
                 PROVE  Cardinality(Lower(s)) < Cardinality(Lower(t))
        OBVIOUS
    <2>1. s.port \in Nat /\ t.port \in Nat /\ s \in Best(sockets) /\ t \in Best(sockets)
        BY <1>1, <1>2
    <2>2. Lower(s) \in SUBSET Lower(t)
        BY <1>2, <2>1
    <2>3. s \in Lower(t) /\ s \notin Lower(s)
        BY <2>1
    <2>4. Lower(s) # Lower(t)
        BY <2>3
    <2>5. /\ IsFiniteSet(Lower(t)) /\ Cardinality(Lower(t)) \in Nat
          /\ Cardinality(Lower(s)) \in Nat
        BY <1>4, <2>1
    <2>6. Cardinality(Lower(s)) <= Cardinality(Lower(t)) /\ Cardinality(Lower(s)) # Cardinality(Lower(t))
        <3> HIDE DEF Lower
        <3> QED BY <2>2, <2>4, <2>5, FS_Subset
    <2> QED BY <2>5, <2>6
<1>7. \A s, t \in P : rank[s] = rank[t] => s = t
    <2> SUFFICES ASSUME NEW s \in P, NEW t \in P, rank[s] = rank[t] PROVE s = t
        OBVIOUS
    <2>1. Cardinality(Lower(s)) = Cardinality(Lower(t))
        OBVIOUS
    <2>2. s.port \in Nat /\ t.port \in Nat /\ Cardinality(Lower(s)) \in Nat /\ Cardinality(Lower(t)) \in Nat
        BY <1>1, <1>2, <1>4
    <2>3. ~(s.port < t.port) /\ ~(t.port < s.port)
        <3> HIDE DEF Lower, P
        <3> QED BY <1>6, <2>1, <2>2
    <2>4. s.port = t.port
        BY <2>2, <2>3
    <2> QED BY <2>4, PresentIsListed
<1> DEFINE Ranks == 0 .. (MaxObservedPorts - 1)
<1>8. rank \in [P -> Ranks]
    BY <1>1, <1>4, <1>5, LimitAssumption
<1>9. IsFiniteSet(Ranks) /\ Cardinality(Ranks) = MaxObservedPorts
    BY FS_Interval, LimitAssumption
<1>10. Cardinality(P) \in Nat
    BY <1>3, FS_CardinalityType
<1>11. ~(MaxObservedPorts < Cardinality(P))
    <2> HIDE DEF rank, P, Ranks
    <2> SUFFICES ASSUME MaxObservedPorts < Cardinality(P) PROVE FALSE
        OBVIOUS
    <2>1. \E s, t \in P : s # t /\ rank[s] = rank[t]
        BY <1>3, <1>8, <1>9, FS_PigeonHole
    <2> QED BY <1>7, <2>1
<1> QED BY <1>3, <1>10, <1>11, LimitAssumption

\* Whoever may be offered answers on its port.
LEMMA ReachableAnswers ==
    ASSUME NEW s \in Server, SocketReachable(s)
    PROVE  Answers(s)
BY DEF SocketReachable, Answers

(***************************************************************************)
(* The inductive invariant.                                                *)
(***************************************************************************)

\* Sockets that share a port are workers of one service.
PortsShared == \A s, t \in up : s = t \/ MayShare(s, t)

\* There are greetings only while they are read and applied, and between two
\* rounds nothing of the last one is left.
RoundForgotten ==
    /\ turn \notin {"read", "apply"} => banners = {}
    /\ turn \in {"list", "ended"} => owned = {} /\ listeners = {}

\* A greeting is credited to an SSH server, or to a socket that is closed.
GreetingsTrue == \A s \in Present(listed) : s.port \in banners => s.ssh \/ s \notin up

\* So is what is remembered.
MemoryTrue == \A s \in knownSSH : s.ssh \/ s \notin up

Offerable(s) == ~s.ssh /\ s.app # SSHD /\ Label[s.port] # SSHD

\* A steady service got past the snapshot.
SteadyListed ==
    turn \in {"read", "apply"} => \A s \in steady \cap Present(listed) : Offerable(s) => s \in listeners

\* What was recognised is remembered, or greeted in this round.
RecognisedKept ==
    IF turn \in {"read", "apply"}
    THEN \A s \in recognised \cap Present(listed) : s \in knownSSH \/ s.port \in banners
    ELSE recognised \subseteq knownSSH

\* What is remembered is of one snapshot.
MemoryBounded == \E sockets \in SUBSET Server : knownSSH \subseteq Present(sockets)

Inv == TypeOK /\ PortsShared /\ RoundForgotten /\ GreetingsTrue /\ MemoryTrue
       /\ SteadyListed /\ RecognisedKept /\ MemoryBounded

LEMMA InitInv == ScannerInit => Inv
<1> SUFFICES ASSUME ScannerInit PROVE Inv
    OBVIOUS
<1>1. TypeOK /\ PortsShared /\ RoundForgotten /\ MemoryTrue
    BY DEF ScannerInit, TypeOK, Turn, PortsShared, RoundForgotten, MemoryTrue
<1>2. GreetingsTrue /\ SteadyListed /\ RecognisedKept /\ MemoryBounded
    BY DEF ScannerInit, GreetingsTrue, SteadyListed, RecognisedKept, MemoryBounded
<1> QED BY <1>1, <1>2 DEF Inv

(***************************************************************************)
(* One lemma for each step.                                                *)
(***************************************************************************)

LEMMA ListedTypes ==
    ASSUME TypeOK
    PROVE  /\ listed \in SUBSET Server
           /\ Present(listed) \subseteq listed
           /\ \A s \in Present(listed) : s \in up \cup gone /\ SocketReachable(s) /\ Answers(s)
           /\ \A s, t \in Present(listed) : s.port = t.port => s = t
<1>1. listed \in SUBSET Server
    BY DEF TypeOK
<1> QED BY <1>1, PresentIsListed, ReachableAnswers DEF TypeOK

LEMMA StartServerInv ==
    ASSUME Inv, NEW s \in Server, StartServer(s)
    PROVE  Inv'
<1> USE DEF StartServer, roundVars
<1>1. TypeOK'
    BY DEF Inv, TypeOK
<1>2. PortsShared'
    BY DEF Inv, PortsShared, MayShare
<1>3. RoundForgotten' /\ MemoryBounded'
    BY DEF Inv, RoundForgotten, MemoryBounded
<1>4. GreetingsTrue'
    BY ListedTypes DEF Inv, GreetingsTrue
<1>5. MemoryTrue'
    BY DEF Inv, MemoryTrue, TypeOK
<1>6. SteadyListed' /\ RecognisedKept'
    BY DEF Inv, SteadyListed, RecognisedKept
<1> QED BY <1>1, <1>2, <1>3, <1>4, <1>5, <1>6 DEF Inv

LEMMA StopServerInv ==
    ASSUME Inv, NEW s \in Server, StopServer(s)
    PROVE  Inv'
<1> USE DEF StopServer, roundVars
<1>1. TypeOK'
    BY DEF Inv, TypeOK
<1>2. PortsShared' /\ RoundForgotten' /\ MemoryBounded'
    BY DEF Inv, PortsShared, RoundForgotten, MemoryBounded
<1>3. GreetingsTrue' /\ MemoryTrue'
    BY DEF Inv, GreetingsTrue, MemoryTrue
<1>4. SteadyListed' /\ RecognisedKept'
    BY DEF Inv, SteadyListed, RecognisedKept
<1> QED BY <1>1, <1>2, <1>3, <1>4 DEF Inv

LEMMA ListSocketsInv ==
    ASSUME Inv, ListSockets
    PROVE  Inv'
<1> USE DEF ListSockets, serviceVars
<1>1. TypeOK'
    BY DEF Inv, TypeOK, Turn, RoundForgotten
<1>2. PortsShared' /\ RoundForgotten' /\ MemoryBounded'
    BY DEF Inv, PortsShared, RoundForgotten, MemoryBounded
<1>3. GreetingsTrue' /\ MemoryTrue'
    BY DEF Inv, RoundForgotten, GreetingsTrue, MemoryTrue
<1>4. SteadyListed' /\ RecognisedKept'
    BY DEF Inv, SteadyListed, RecognisedKept
<1> QED BY <1>1, <1>2, <1>3, <1>4 DEF Inv

LEMMA LookUpOwnersInv ==
    ASSUME Inv, LookUpOwners
    PROVE  Inv'
<1> USE DEF LookUpOwners, serviceVars
<1>1. TypeOK'
    BY DEF Inv, TypeOK, Turn
<1>2. PortsShared' /\ RoundForgotten' /\ MemoryBounded'
    BY DEF Inv, PortsShared, RoundForgotten, MemoryBounded
<1>3. GreetingsTrue' /\ MemoryTrue'
    BY DEF Inv, GreetingsTrue, MemoryTrue
<1>4. SteadyListed' /\ RecognisedKept'
    BY DEF Inv, SteadyListed, RecognisedKept
<1> QED BY <1>1, <1>2, <1>3, <1>4 DEF Inv

\* Only a socket that took over the port is taken for new.
LEMMA ClassifyInv ==
    ASSUME Inv, Classify
    PROVE  Inv'
<1> USE DEF Classify, serviceVars
<1>1. Listeners(listed, knownSSH) \subseteq Present(listed)
    BY DEF Listeners, Fresh
<1>2. TypeOK'
    <2>1. Probe(listed, knownSSH) \subseteq Ports
        BY <1>1, ListedTypes DEF Inv, Probe, Ports
    <2>2. Listeners(listed, knownSSH) \subseteq listed
        BY <1>1, ListedTypes DEF Inv
    <2>3. banners = {}
        BY DEF Inv, RoundForgotten
    <2> QED BY <2>1, <2>2, <2>3 DEF Inv, TypeOK, Turn, Remembered
<1>3. PortsShared' /\ RoundForgotten' /\ MemoryBounded'
    BY DEF Inv, PortsShared, RoundForgotten, MemoryBounded, Remembered
<1>4. GreetingsTrue' /\ MemoryTrue'
    BY DEF Inv, GreetingsTrue, MemoryTrue, Remembered
<1>5. SteadyListed'
    <2> SUFFICES ASSUME NEW s \in steady \cap Present(listed), Offerable(s)
                 PROVE  s \in Listeners(listed, knownSSH)
        BY DEF SteadyListed
    <2>1. s \notin knownSSH
        BY DEF Inv, TypeOK, MemoryTrue, Offerable
    <2>2. AppOf(s) # SSHD
        BY NamelessAssumption DEF AppOf, Offerable
    <2> QED BY <2>1, <2>2 DEF Listeners, Fresh
<1>6. RecognisedKept'
    <2> SUFFICES ASSUME NEW s \in recognised \cap Present(listed)
                 PROVE  s \in Remembered(listed, knownSSH)
        BY DEF RecognisedKept
    <2>1. s \in knownSSH
        BY DEF Inv, RecognisedKept
    <2> QED BY <2>1, ListedTypes DEF Inv, Remembered
<1> QED BY <1>2, <1>3, <1>4, <1>5, <1>6 DEF Inv

\* What greets on a port is what the snapshot shows there, or a worker of the
\* same service, or the shown socket is closed.
LEMMA ReadBannerInv ==
    ASSUME Inv, NEW p \in Ports, ReadBanner(p)
    PROVE  Inv'
<1>1. /\ turn = "read" /\ p \in todo /\ todo' = todo \ {p}
      /\ UNCHANGED <<up, gone, turn, listed, owned, docker, listeners, probe, knownSSH, offered, steady>>
    BY DEF ReadBanner, serviceVars
<1>2. CASE UNCHANGED <<banners, recognised>>
    <2>1. TypeOK'
        BY <1>1, <1>2 DEF Inv, TypeOK
    <2>2. PortsShared' /\ RoundForgotten' /\ MemoryBounded'
        BY <1>1, <1>2 DEF Inv, PortsShared, RoundForgotten, MemoryBounded
    <2>3. GreetingsTrue' /\ MemoryTrue'
        BY <1>1, <1>2 DEF Inv, GreetingsTrue, MemoryTrue
    <2>4. SteadyListed' /\ RecognisedKept'
        BY <1>1, <1>2 DEF Inv, SteadyListed, RecognisedKept
    <2> QED BY <2>1, <2>2, <2>3, <2>4 DEF Inv
<1>3. CASE \E s \in up : /\ s.port = p /\ Answers(s) /\ s.ssh
                         /\ banners' = banners \cup {p}
                         /\ recognised' = recognised \cup ({s} \cap Present(listed))
    <2>1. PICK s \in up : /\ s.port = p /\ Answers(s) /\ s.ssh
                          /\ banners' = banners \cup {p}
                          /\ recognised' = recognised \cup ({s} \cap Present(listed))
        BY <1>3
    <2>2. TypeOK'
        BY <1>1, <2>1 DEF Inv, TypeOK
    <2>3. PortsShared' /\ RoundForgotten' /\ MemoryBounded'
        BY <1>1 DEF Inv, PortsShared, RoundForgotten, MemoryBounded
    <2>4. \A t \in Present(listed) : t.port = p => t.ssh \/ t \notin up
        BY <2>1, ListedTypes DEF Inv, PortsShared, MayShare
    <2>5. GreetingsTrue'
        BY <1>1, <2>1, <2>4 DEF Inv, GreetingsTrue
    <2>6. MemoryTrue' /\ SteadyListed'
        BY <1>1 DEF Inv, MemoryTrue, SteadyListed
    <2>7. RecognisedKept'
        BY <1>1, <2>1 DEF Inv, RecognisedKept
    <2> QED BY <2>2, <2>3, <2>5, <2>6, <2>7 DEF Inv
<1> QED BY <1>2, <1>3 DEF ReadBanner

LEMMA SendBannersInv ==
    ASSUME Inv, SendBanners
    PROVE  Inv'
<1> USE DEF SendBanners, serviceVars, roundVars
<1>1. TypeOK'
    BY DEF Inv, TypeOK, Turn
<1>2. PortsShared' /\ RoundForgotten' /\ MemoryBounded'
    BY DEF Inv, PortsShared, RoundForgotten, MemoryBounded
<1>3. GreetingsTrue' /\ MemoryTrue'
    BY DEF Inv, GreetingsTrue, MemoryTrue
<1>4. SteadyListed' /\ RecognisedKept'
    BY DEF Inv, SteadyListed, RecognisedKept
<1> QED BY <1>1, <1>2, <1>3, <1>4 DEF Inv

LEMMA EmitInv ==
    ASSUME Inv, Emit
    PROVE  Inv'
<1> USE DEF Emit, serviceVars, ForgetRound
<1>1. Recognised(listed, probe) \subseteq Present(listed)
    BY DEF Recognised
<1>2. TypeOK'
    <2>1. listeners \subseteq up \cup gone /\ Present(listed) \subseteq up \cup gone
        BY ListedTypes DEF Inv, TypeOK
    <2> QED BY <1>1, <2>1 DEF Inv, TypeOK, Turn, ApplyBanners
<1>3. PortsShared' /\ RoundForgotten'
    BY DEF Inv, PortsShared, RoundForgotten
<1>4. GreetingsTrue' /\ SteadyListed'
    BY DEF GreetingsTrue, SteadyListed
<1>5. MemoryTrue'
    BY DEF Inv, MemoryTrue, GreetingsTrue, Recognised
<1>6. RecognisedKept'
    BY DEF Inv, TypeOK, RecognisedKept, Recognised
<1>7. MemoryBounded'
    BY <1>1, ListedTypes DEF Inv, MemoryBounded
<1> QED BY <1>2, <1>3, <1>4, <1>5, <1>6, <1>7 DEF Inv

LEMMA EndScanInv ==
    ASSUME Inv, EndScan
    PROVE  Inv'
<1> USE DEF EndScan, serviceVars, ForgetRound
<1>1. TypeOK'
    BY DEF Inv, TypeOK, Turn
<1>2. PortsShared' /\ RoundForgotten'
    BY DEF Inv, PortsShared, RoundForgotten
<1>3. GreetingsTrue' /\ SteadyListed' /\ MemoryTrue'
    BY DEF GreetingsTrue, SteadyListed, MemoryTrue
<1>4. RecognisedKept' /\ MemoryBounded'
    BY DEF RecognisedKept, MemoryBounded
<1> QED BY <1>1, <1>2, <1>3, <1>4 DEF Inv

LEMMA ObserveAgainInv ==
    ASSUME Inv, ObserveAgain
    PROVE  Inv'
<1> USE DEF ObserveAgain, serviceVars, roundVars
<1>1. TypeOK'
    BY DEF Inv, TypeOK, Turn
<1>2. PortsShared' /\ RoundForgotten' /\ MemoryBounded'
    BY DEF Inv, PortsShared, RoundForgotten, MemoryBounded
<1>3. GreetingsTrue' /\ MemoryTrue'
    BY DEF Inv, GreetingsTrue, MemoryTrue
<1>4. SteadyListed' /\ RecognisedKept'
    BY DEF Inv, SteadyListed, RecognisedKept
<1> QED BY <1>1, <1>2, <1>3, <1>4 DEF Inv

\* The inductive invariant: whatever greets or is remembered as an SSH server is
\* one, or listens no more.
THEOREM ScannerInvariant == ScannerSpec => []Inv
<1>1. Inv /\ ScannerNext => Inv'
    BY StartServerInv, StopServerInv, ListSocketsInv, LookUpOwnersInv, ClassifyInv, ReadBannerInv,
       SendBannersInv, EmitInv, EndScanInv, ObserveAgainInv DEF ScannerNext, Round
<1>2. Inv /\ UNCHANGED vars => Inv'
    <2> SUFFICES ASSUME Inv, UNCHANGED vars PROVE Inv'
        OBVIOUS
    <2> USE DEF vars
    <2>1. TypeOK'
        BY DEF Inv, TypeOK
    <2>2. PortsShared' /\ RoundForgotten' /\ MemoryBounded'
        BY DEF Inv, PortsShared, RoundForgotten, MemoryBounded
    <2>3. GreetingsTrue' /\ MemoryTrue'
        BY DEF Inv, GreetingsTrue, MemoryTrue
    <2>4. SteadyListed' /\ RecognisedKept'
        BY DEF Inv, SteadyListed, RecognisedKept
    <2> QED BY <2>1, <2>2, <2>3, <2>4 DEF Inv
<1>3. Inv /\ [ScannerNext]_vars => Inv'
    BY <1>1, <1>2
<1> QED BY InitInv, <1>3, PTL DEF ScannerSpec

(***************************************************************************)
(* Theorems.                                                               *)
(***************************************************************************)

\* Nothing of one round is left in the next, and what is remembered or offered
\* was a socket of the host (scanner.go:94-120).
THEOREM ScannerTypesHold == ScannerSpec => []TypeOK
<1>1. Inv => TypeOK
    BY DEF Inv
<1> QED BY <1>1, ScannerInvariant, PTL

\* The memory of a connection stays within the limit of one snapshot
\* (scanner.go:205-209).
THEOREM MemoryStaysBounded == ScannerSpec => []KnownBounded
<1>1. Inv => KnownBounded
    <2> SUFFICES ASSUME Inv PROVE KnownBounded
        OBVIOUS
    <2>1. PICK sockets \in SUBSET Server : knownSSH \subseteq Present(sockets)
        BY DEF Inv, MemoryBounded
    <2>2. \A s, t \in knownSSH : s.port = t.port => s = t
        BY <2>1, PresentIsListed
    <2>3. IsFiniteSet(Present(sockets)) /\ Cardinality(Present(sockets)) <= MaxObservedPorts
        BY PresentBounded
    <2>4. IsFiniteSet(knownSSH) /\ Cardinality(knownSSH) <= Cardinality(Present(sockets))
        BY <2>1, <2>3, FS_Subset
    <2>5. Cardinality(knownSSH) \in Nat /\ Cardinality(Present(sockets)) \in Nat
        BY <2>3, <2>4, FS_CardinalityType
    <2>6. Cardinality(knownSSH) <= MaxObservedPorts
        BY <2>3, <2>4, <2>5, LimitAssumption
    <2> QED BY <2>2, <2>6 DEF KnownBounded
<1> QED BY <1>1, ScannerInvariant, PTL

\* A service that is up, and alone on its port, from the snapshot to the
\* emission is offered, whatever was recognised on its port before
\* (scanner.go:168-172).
THEOREM SteadyIsOffered == ScannerSpec => SteadyListenerOffered
<1> DEFINE Complete == \A s \in steady \cap Present(listed) :
                          ~s.ssh /\ s.app # SSHD /\ Label[s.port] # SSHD => s \in offered'
<1>1. Inv /\ Emit => Complete
    <2> SUFFICES ASSUME Inv, Emit, NEW s \in steady \cap Present(listed), Offerable(s)
                 PROVE  s \in ApplyBanners(listed, probe)
        BY DEF Emit, Offerable
    <2>1. s \in listeners
        BY DEF Inv, SteadyListed, Emit
    <2>2. s \in up
        BY DEF Inv, TypeOK
    <2>3. s \notin knownSSH /\ s.port \notin banners
        BY <2>2 DEF Inv, MemoryTrue, GreetingsTrue, Offerable
    <2>4. \A k \in Recognised(listed, probe) : k.port # s.port
        BY <2>3, ListedTypes DEF Inv, Recognised
    <2> QED BY <2>1, <2>4 DEF ApplyBanners
<1>2. Inv => [Emit => Complete]_vars
    BY <1>1
<1> QED BY <1>2, ScannerInvariant, PTL DEF SteadyListenerOffered

\* An SSH server that greeted once is not offered while the snapshots show it,
\* even when its greetings come late (scanner.go:169-171, 199-214).
THEOREM RecognisedStaysHidden == ScannerSpec => RecognisedNeverOffered
<1>1. Inv /\ Emit => offered' \cap recognised' = {}
    <2> SUFFICES ASSUME Inv, Emit PROVE offered' \cap recognised' = {}
        OBVIOUS
    <2>1. recognised' \subseteq Recognised(listed, probe)
        BY DEF Emit, Inv, RecognisedKept, TypeOK, Recognised
    <2>2. \A s \in offered' : \A k \in Recognised(listed, probe) : k.port # s.port
        BY DEF Emit, ApplyBanners
    <2> QED BY <2>1, <2>2
<1>2. Inv => [Emit => offered' \cap recognised' = {}]_vars
    BY <1>1
<1> QED BY <1>2, ScannerInvariant, PTL DEF RecognisedNeverOffered

=============================================================================
