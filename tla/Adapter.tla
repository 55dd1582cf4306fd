------------------------------- MODULE Adapter -------------------------------
(***************************************************************************)
(* The OpenSSH adapter of one host (cli/internal/openssh: adapter.go,      *)
(* master.go, control.go, forward.go, remote_bind.go, observe.go).         *)
(*                                                                         *)
(* Calls of Forward and Observe run concurrently over one private ssh      *)
(* master, which may exit at any moment and is replaced on demand.  a.mu   *)
(* is held across whole ssh commands, so the lock is explicit here: a step *)
(* that takes it and one that releases it are separate actions.            *)
(*                                                                         *)
(* A master is known by its generation.  A generation nobody refers to any *)
(* more may serve again for a new process, so that reconnects are not      *)
(* bounded; MaxGeneration bounds only those referred to at one time.       *)
(***************************************************************************)
EXTENDS Naturals, FiniteSets

CONSTANTS
    Caller,        \* goroutines that call Forward and Observe, one call at a time
    Import,        \* remote-to-local tuples (-L)
    Publication,   \* local-to-remote tuples (-R)
    Scan,          \* what a call of Observe asks for: not a tuple
    Nobody,        \* no caller
    MaxGeneration  \* bound on the masters referred to at one time

Tuple == Import \cup Publication
Generation == 1 .. MaxGeneration

\* The master of a Manager that died: its process group is its own, so that it
\* has outlived it, on the host's control socket or still connecting.
Leftover == 0
Master == Generation \cup {Leftover}
None == MaxGeneration + 1

ASSUME CallersAssumption == Nobody \notin Caller
ASSUME TuplesAssumption == Import \cap Publication = {} /\ Scan \notin Tuple
ASSUME GenerationsAssumption == MaxGeneration \in Nat \ {0}

VARIABLES
    mu,       \* who holds a.mu across a command, or Nobody
    master,   \* a.master, or None
    process,  \* Master -> the ssh process of that master
    endpoint, \* Tuple -> the listening endpoint of that tuple
    call,     \* Caller -> its call in progress
    closing,  \* the call of Close: how far it is, and the master it stops
    misled    \* the answer that made a.master current was another master's
              \* (nothing the code can tell)

vars == <<mu, master, process, endpoint, call, closing, misled>>

(* "starting" does not answer the control socket yet, "serving" does,      *)
(* "signalled" has been sent SIGTERM and answers nothing, "exited" has     *)
(* closed master.done.                                                     *)
Process == {"starting", "serving", "signalled", "exited"}

Endpoint == [on : Master \cup {None}, owner : Caller \cup {Nobody}]

Unbound == [on |-> None, owner |-> Nobody]

(* Where a call is:                                                        *)
(*   idle     no call                                                      *)
(*   ensure   in ensureMaster, waiting for a.mu                            *)
(*   validate holding a.mu, running ssh -G                                 *)
(*   start    about to retire a leftover master and start its own          *)
(*   await    waitForMaster                                                *)
(*   abandon  in stopMaster after a master that did not come up            *)
(*   prepare  ensureMaster has returned a master                           *)
(*   lock     Forward is waiting for a.mu                                  *)
(*   install  holding a.mu, running ssh -O forward                         *)
(*   verify   installed, waiting until the endpoint is ready               *)
(*   ready    ready() has been called                                      *)
(*   cleanup  the deferred cancelForward is waiting for a.mu               *)
(*   cancel   holding a.mu, running ssh -O cancel                          *)
(*   retire   holding a.mu, in stopMaster until the master has exited      *)
(*   observe  Observe is reading the scanner                               *)
Call ==
    [pc : {"idle", "ensure", "validate", "start", "await", "abandon", "prepare", "lock",
           "install", "verify", "ready", "cleanup", "cancel", "retire", "observe"},
     target : Tuple \cup {Scan},
     master : Generation \cup {None},
     cancelled : BOOLEAN]

NoCall == [pc |-> "idle", target |-> Scan, master |-> None, cancelled |-> FALSE]

\* A Manager closes its adapter when its calls have returned, and waits for the
\* master; the doctor's probe, which only observes, closes early: at any time, and
\* gives up when its context ends (app/doctor_remote.go:36).
Closing ==
    [early : BOOLEAN, pc : {"no", "called", "stopping", "closed"},
     master : Generation \cup {None}]

closed == closing.pc \in {"stopping", "closed"}

At(c, pc) == call[c].pc = pc

\* There is no such master, or its master.done is closed.
Exited(g) == g # None => process[g] = "exited"

Alive(g) == process[g] \in {"starting", "serving"}

\* The master that answers commands on the host's control socket.
Answers(g) == process[g] = "serving"

\* The call has an endpoint of its own.
Owns(c, t) == endpoint[t].owner = c

Referred(g) == g = master \/ \E c \in Caller : call[c].master = g

Init ==
    /\ mu = Nobody
    /\ master = None
    /\ call = [c \in Caller |-> NoCall]
    /\ misled = FALSE
    /\ \E early \in BOOLEAN, left \in {"exited", "starting", "serving"}, bound \in SUBSET Tuple :
        /\ left # "serving" => bound = {}
        /\ early => left = "exited"   \* the doctor's socket directory is new
        /\ closing = [early |-> early, pc |-> "no", master |-> None]
        /\ process = [g \in Master |-> IF g = Leftover THEN left ELSE "exited"]
        /\ endpoint = [t \in Tuple |->
              IF t \in bound THEN [Unbound EXCEPT !.on = Leftover] ELSE Unbound]

----------------------------------------------------------------------------
(* Effects on processes and endpoints *)

\* terminateProcess: the kill after waitDelay is the fairness of MasterExits.
Terminated(g) == [process EXCEPT ![g] = IF @ = "exited" THEN @ ELSE "signalled"]

\* The master that answers -O forward listens for the tuple, unless something else
\* does.  It accepts what it has already: a leftover's endpoint that no call in
\* progress has becomes the caller's.
Installs(c) ==
    LET t == call[c].target IN
    \E g \in Master :
        /\ Answers(g)
        /\ \/ endpoint[t] = Unbound
           \/ /\ endpoint[t].on = g
              /\ \A d \in Caller \ {c} : Owns(d, t) => call[d].target # t
        /\ endpoint' = [endpoint EXCEPT ![t] = [on |-> g, owner |-> c]]

\* -O cancel removes the tuple from the master that answers, whoever put it there.
Removed(t) ==
    IF endpoint[t] # Unbound /\ Answers(endpoint[t].on)
    THEN [endpoint EXCEPT ![t] = Unbound] ELSE endpoint

Goto(c, pc) == call' = [call EXCEPT ![c].pc = pc]
Return(c) == call' = [call EXCEPT ![c] = NoCall]

Lock(c) == mu = Nobody /\ mu' = c
Unlock(c) == mu' = Nobody
Locked(c) == mu = c

----------------------------------------------------------------------------
(* The callers and the world *)

\* Forward or Observe is called; a context that is already cancelled returns.
Begin(c) ==
    /\ At(c, "idle")
    /\ closing.early \/ closing.pc = "no"
    /\ \E t \in IF closing.early THEN {Scan} ELSE Tuple \cup {Scan} :
          call' = [call EXCEPT ![c] =
                      [pc |-> "ensure", target |-> t, master |-> None, cancelled |-> FALSE]]
    /\ UNCHANGED <<mu, master, misled, process, endpoint, closing>>

CancelContext(c) ==
    /\ ~At(c, "idle") /\ ~call[c].cancelled
    /\ call' = [call EXCEPT ![c].cancelled = TRUE]
    /\ UNCHANGED <<mu, master, misled, process, endpoint, closing>>

\* The connection is up: the master listens on the control socket if it is free.
MasterServes(g) ==
    /\ process[g] = "starting"
    /\ \A h \in Master : ~Answers(h)
    /\ process' = [process EXCEPT ![g] = "serving"]
    /\ UNCHANGED <<mu, master, misled, endpoint, call, closing>>

\* A master exits, by itself or because it was told to, and its endpoints go
\* with the connection.
MasterExits(g) ==
    /\ ~Exited(g)
    /\ process' = [process EXCEPT ![g] = "exited"]
    /\ endpoint' = [t \in Tuple |-> IF endpoint[t].on = g THEN Unbound ELSE endpoint[t]]
    /\ UNCHANGED <<mu, master, misled, call, closing>>

----------------------------------------------------------------------------
(* ensureMaster *)

Unaffected == UNCHANGED <<process, endpoint, closing>>

AfterEnsure(c) == IF call[c].target = Scan THEN "observe" ELSE "prepare"

\* A master that has not exited is shared.
ReuseMaster(c) ==
    /\ At(c, "ensure") /\ mu = Nobody /\ ~closed
    /\ ~Exited(master)
    /\ call' = [call EXCEPT ![c] = [@ EXCEPT !.pc = AfterEnsure(c), !.master = master]]
    /\ UNCHANGED <<mu, master, misled>> /\ Unaffected

\* A closed adapter starts nothing.
RefuseClosed(c) ==
    /\ At(c, "ensure") /\ mu = Nobody /\ closed
    /\ Return(c)
    /\ UNCHANGED <<mu, master, misled>> /\ Unaffected

\* Otherwise forget the one that exited and start another under the lock.
ReplaceMaster(c) ==
    /\ At(c, "ensure") /\ Lock(c) /\ ~closed
    /\ Exited(master)
    /\ master' = None /\ misled' = FALSE
    /\ Goto(c, "validate")
    /\ Unaffected

\* ssh -G, which a cancelled context stops.
ValidateAlias(c) ==
    /\ At(c, "validate")
    /\ \/ ~call[c].cancelled /\ Goto(c, "start") /\ UNCHANGED mu
       \/ Return(c) /\ Unlock(c)
    /\ UNCHANGED <<master, misled>> /\ Unaffected

\* -O exit asks a leftover master to go.  Its result is ignored: it may fail, time
\* out, not start (a cancelled context), or find a leftover that is not up yet.
RetireLeftover(c) ==
    {process} \cup
    IF call[c].cancelled THEN {}
    ELSE {[g \in Master |-> IF Answers(g) THEN "signalled" ELSE process[g]]}

Unused == {g \in Generation : Exited(g) /\ ~Referred(g)}

StartMaster(c) ==
    /\ At(c, "start")
    /\ \E g \in Unused, p \in RetireLeftover(c) :
        /\ process' = [p EXCEPT ![g] = "starting"]
        /\ call' = [call EXCEPT ![c] = [@ EXCEPT !.pc = "await", !.master = g]]
    /\ UNCHANGED <<mu, master, misled, endpoint, closing>>

StartMasterFails(c) ==
    /\ At(c, "start")
    /\ process' \in RetireLeftover(c)
    /\ Return(c) /\ Unlock(c)
    /\ UNCHANGED <<master, misled, endpoint, closing>>

\* -O check is answered by whichever master has the control socket.
MasterReady(c) ==
    /\ At(c, "await") /\ ~call[c].cancelled
    /\ \E g \in Master : Answers(g)
    /\ master' = call[c].master /\ misled' = ~Answers(call[c].master)
    /\ Goto(c, AfterEnsure(c)) /\ Unlock(c)
    /\ Unaffected

\* The context, the master's exit or the deadline ends the wait: stopMaster.
MasterNotReadyMutant(c) ==
    /\ At(c, "await")
    /\ Return(c) /\ Unlock(c)
    /\ UNCHANGED <<master, misled>> /\ Unaffected
EndlessWaitMutant(c) ==
    /\ At(c, "await") /\ Exited(call[c].master)
    /\ process' = Terminated(call[c].master)
    /\ Goto(c, "abandon")
    /\ UNCHANGED <<mu, master, misled, endpoint, closing>>
MasterNotReady(c) ==
    /\ At(c, "await")
    /\ process' = Terminated(call[c].master)
    /\ Goto(c, "abandon")
    /\ UNCHANGED <<mu, master, misled, endpoint, closing>>

\* This stopMaster uses the caller's context: it need not see the exit.
AbandonMasterMutant(c) ==
    /\ At(c, "abandon")
    /\ Exited(call[c].master) \/ call[c].cancelled
    /\ Return(c)
    /\ UNCHANGED <<mu, master, misled>> /\ Unaffected
AbandonMaster(c) ==
    /\ At(c, "abandon")
    /\ Exited(call[c].master) \/ call[c].cancelled
    /\ Return(c) /\ Unlock(c)
    /\ UNCHANGED <<master, misled>> /\ Unaffected

----------------------------------------------------------------------------
(* Forward *)

\* localPortAvailable, which only imports ask, and without the lock: what it
\* sees may be stale when the tuple is installed.
LocalPortAvailable(c) ==
    /\ At(c, "prepare")
    /\ call[c].target \in Import => endpoint[call[c].target] = Unbound
    /\ Goto(c, "lock")
    /\ UNCHANGED <<mu, master, misled>> /\ Unaffected

LocalPortConflict(c) ==
    /\ At(c, "prepare") /\ call[c].target \in Import
    /\ Return(c)
    /\ UNCHANGED <<mu, master, misled>> /\ Unaffected

\* Installation must refer to the generation ensureMaster returned.
Current(c) == master = call[c].master /\ ~Exited(master)

LockInstallationMutant(c) ==
    /\ At(c, "lock") /\ Lock(c)
    /\ ~Exited(master)
    /\ Goto(c, "install")
    /\ UNCHANGED <<master, misled>> /\ Unaffected
LockInstallation(c) ==
    /\ At(c, "lock") /\ Lock(c)
    /\ Current(c)
    /\ Goto(c, "install")
    /\ UNCHANGED <<master, misled>> /\ Unaffected

TransportReplaced(c) ==
    /\ At(c, "lock") /\ mu = Nobody
    /\ ~Current(c)
    /\ Return(c)
    /\ UNCHANGED <<mu, master, misled>> /\ Unaffected

\* -O forward succeeded without a warning.
InstallForward(c) ==
    /\ At(c, "install")
    /\ Installs(c)
    /\ Goto(c, "verify") /\ Unlock(c)
    /\ UNCHANGED <<master, misled, process, closing>>

\* An explicit refusal, or a command that never started, installed nothing.
InstallRejected(c) ==
    /\ At(c, "install")
    /\ Return(c) /\ Unlock(c)
    /\ UNCHANGED <<master, misled>> /\ Unaffected

\* Anything else may have installed the tuple: the master is retired.
InstallUncertainMutant(c) ==
    /\ At(c, "install")
    /\ UNCHANGED endpoint \/ Installs(c)
    /\ Return(c) /\ Unlock(c)
    /\ UNCHANGED <<master, misled, process, closing>>
InstallUncertain(c) ==
    /\ At(c, "install")
    /\ UNCHANGED endpoint \/ Installs(c)
    /\ process' = Terminated(call[c].master)
    /\ Goto(c, "retire")
    /\ UNCHANGED <<mu, master, misled, closing>>

\* stopMaster(context.Background()) waits for the exit, whatever happens to
\* the caller.
MasterRetired(c) ==
    /\ At(c, "retire")
    /\ Exited(call[c].master)
    /\ Return(c) /\ Unlock(c)
    /\ UNCHANGED <<master, misled>> /\ Unaffected

\* waitForLocalForward sees something accept on the local port;
\* verifyRemoteLoopbackForward sees what listens on the remote one.
EndpointReady(c) ==
    /\ At(c, "verify")
    /\ endpoint[call[c].target] # Unbound
    /\ Goto(c, "ready")
    /\ UNCHANGED <<mu, master, misled>> /\ Unaffected

\* Cancellation, the master's exit, the deadline, or an endpoint that is not
\* loopback or cannot be verified.
EndpointNotReady(c) ==
    /\ At(c, "verify")
    /\ Goto(c, "cleanup")
    /\ UNCHANGED <<mu, master, misled>> /\ Unaffected

ForwardEndsMutant(c) ==
    /\ At(c, "ready")
    /\ call[c].cancelled
    /\ Goto(c, "cleanup")
    /\ UNCHANGED <<mu, master, misled>> /\ Unaffected
ForwardEnds(c) ==
    /\ At(c, "ready")
    /\ call[c].cancelled \/ Exited(call[c].master)
    /\ Goto(c, "cleanup")
    /\ UNCHANGED <<mu, master, misled>> /\ Unaffected

\* cancelForward leaves a replacement alone and a dead transport in peace.
CancelSkipped(c) ==
    /\ At(c, "cleanup") /\ mu = Nobody
    /\ ~Current(c)
    /\ Return(c)
    /\ UNCHANGED <<mu, master, misled>> /\ Unaffected

LockCancelMutant(c) ==
    /\ At(c, "cleanup") /\ Lock(c)
    /\ ~Exited(master)
    /\ Goto(c, "cancel")
    /\ UNCHANGED <<master, misled>> /\ Unaffected
LockCancel(c) ==
    /\ At(c, "cleanup") /\ Lock(c)
    /\ Current(c)
    /\ Goto(c, "cancel")
    /\ UNCHANGED <<master, misled>> /\ Unaffected

\* -O cancel succeeded, or found the tuple explicitly absent: a master answered.
CancelForward(c) ==
    /\ At(c, "cancel")
    /\ \E g \in Master : Answers(g)
    /\ endpoint' = Removed(call[c].target)
    /\ Return(c) /\ Unlock(c)
    /\ UNCHANGED <<master, misled, process, closing>>

\* A cancellation that is not confirmed takes the master with it.
CancelFailsMutant(c) ==
    /\ At(c, "cancel")
    /\ endpoint' \in {endpoint, Removed(call[c].target)}
    /\ Return(c) /\ Unlock(c)
    /\ UNCHANGED <<master, misled, process, closing>>
CancelFails(c) ==
    /\ At(c, "cancel")
    /\ endpoint' \in {endpoint, Removed(call[c].target)}
    /\ process' = Terminated(call[c].master)
    /\ Goto(c, "retire")
    /\ UNCHANGED <<mu, master, misled, closing>>

----------------------------------------------------------------------------
(* Observe: the scanner ends with the context, with the master, or by itself *)

ObserveStopsMutant(c) ==
    /\ At(c, "observe")
    /\ Exited(call[c].master)
    /\ Return(c)
    /\ UNCHANGED <<mu, master, misled>> /\ Unaffected
ObserveStops(c) ==
    /\ At(c, "observe")
    /\ call[c].cancelled \/ Exited(call[c].master)
    /\ Return(c)
    /\ UNCHANGED <<mu, master, misled>> /\ Unaffected

ScannerFails(c) ==
    /\ At(c, "observe")
    /\ Return(c)
    /\ UNCHANGED <<mu, master, misled>> /\ Unaffected

----------------------------------------------------------------------------
(* Close *)

CloseCalled ==
    /\ closing.pc = "no"
    /\ closing.early \/ \A c \in Caller : At(c, "idle")
    /\ closing' = [closing EXCEPT !.pc = "called"]
    /\ UNCHANGED <<mu, master, misled, process, endpoint, call>>

CloseAdapter ==
    /\ closing.pc = "called" /\ mu = Nobody
    /\ master' = None /\ misled' = FALSE
    /\ process' = IF master = None THEN process ELSE Terminated(master)
    /\ closing' = [closing EXCEPT !.pc = "stopping", !.master = master]
    /\ UNCHANGED <<mu, endpoint, call>>

CloseReturns ==
    /\ closing.pc = "stopping"
    /\ closing.early \/ Exited(closing.master)
    /\ closing' = [closing EXCEPT !.pc = "closed"]
    /\ UNCHANGED <<mu, master, misled, process, endpoint, call>>

----------------------------------------------------------------------------

EnsureMaster(c) ==
    \/ ReuseMaster(c) \/ RefuseClosed(c) \/ ReplaceMaster(c)
    \/ ValidateAlias(c) \/ StartMaster(c) \/ StartMasterFails(c)
    \/ MasterReady(c) \/ MasterNotReady(c) \/ AbandonMaster(c)

Forward(c) ==
    \/ LocalPortAvailable(c) \/ LocalPortConflict(c)
    \/ LockInstallation(c) \/ TransportReplaced(c)
    \/ InstallForward(c) \/ InstallRejected(c) \/ InstallUncertain(c) \/ MasterRetired(c)
    \/ EndpointReady(c) \/ EndpointNotReady(c) \/ ForwardEnds(c)
    \/ CancelSkipped(c) \/ LockCancel(c) \/ CancelForward(c) \/ CancelFails(c)

Observe(c) == ObserveStops(c) \/ ScannerFails(c)

\* A closed adapter without calls has nothing left to do.
Finished ==
    /\ closing.pc = "closed" /\ \A c \in Caller : At(c, "idle")
    /\ UNCHANGED vars

Next ==
    \/ \E c \in Caller : Begin(c) \/ CancelContext(c) \/ EnsureMaster(c) \/ Forward(c) \/ Observe(c)
    \/ \E g \in Master : MasterServes(g) \/ MasterExits(g)
    \/ CloseCalled \/ CloseAdapter \/ CloseReturns
    \/ Finished

Spec == Init /\ [][Next]_vars

(* Go's mutex hands itself to its longest waiter, so a wait for a.mu ends  *)
(* whenever the lock is released infinitely often: strong fairness.        *)
(* Commands are bounded by controlTimeout, readiness by readyTimeout, and  *)
(* a signalled master is killed after waitDelay: weak fairness.            *)
TakesLock(c) ==
    \/ ReuseMaster(c) \/ RefuseClosed(c) \/ ReplaceMaster(c)
    \/ LockInstallation(c) \/ TransportReplaced(c)
    \/ CancelSkipped(c) \/ LockCancel(c)

Proceeds(c) ==
    \/ ValidateAlias(c) \/ StartMaster(c) \/ StartMasterFails(c)
    \/ MasterReady(c) \/ MasterNotReady(c) \/ AbandonMaster(c)
    \/ LocalPortAvailable(c) \/ LocalPortConflict(c)
    \/ InstallForward(c) \/ InstallRejected(c) \/ InstallUncertain(c) \/ MasterRetired(c)
    \/ EndpointReady(c) \/ EndpointNotReady(c) \/ ForwardEnds(c)
    \/ CancelForward(c) \/ CancelFails(c) \/ ObserveStops(c)

Fairness ==
    /\ \A c \in Caller : SF_vars(TakesLock(c)) /\ WF_vars(Proceeds(c))
    /\ \A g \in Generation : WF_vars(process[g] = "signalled" /\ MasterExits(g))
    /\ SF_vars(CloseAdapter) /\ WF_vars(CloseReturns)

FairSpec == Spec /\ Fairness

----------------------------------------------------------------------------
(* Properties *)

\* A call holds a.mu in these parts of it.
Holding == {"validate", "start", "await", "abandon", "install", "cancel", "retire"}

\* Every variable keeps its shape, and a.mu is held by exactly the call that is
\* between its Lock and its Unlock, on every error path.
TypeOK ==
    /\ mu \in Caller \cup {Nobody}
    /\ master \in Generation \cup {None}
    /\ process \in [Master -> Process]
    /\ endpoint \in [Tuple -> Endpoint]
    /\ call \in [Caller -> Call]
    /\ closing \in Closing
    /\ misled \in BOOLEAN
    /\ \A c \in Caller : Locked(c) <=> call[c].pc \in Holding

Cleaning == {"verify", "ready", "cleanup", "cancel", "retire"}

\* Backend (core/status.go:124-128), on which the Manager's port reservations
\* rest: when a Forward call has returned, by whatever path, nothing that it
\* installed listens any more, unless a leftover master answered for its own.
ReturnLeavesNoEndpoint ==
    \A c \in Caller, t \in Tuple :
        Owns(c, t) => call[c].pc \in Cleaning \/ endpoint[t].on = Leftover

\* The same without the exception, as SECURITY.md:31-34 and ARCHITECTURE.md:111-113
\* have it of uncertain outcomes: the leftover's listeners remain reachable.
ReturnLeavesNothing ==
    \A c \in Caller, t \in Tuple : Owns(c, t) => call[c].pc \in Cleaning

\* forward.go:31-37: what a call has installed is its own target, on the
\* generation it refers to, so that its cleanup reaches it and that master's exit
\* reports it; a leftover is the only other master that can have carried it out.
InstalledOnOwnMaster ==
    \A c \in Caller, t \in Tuple :
        Owns(c, t) =>
            \/ call[c].target = t /\ endpoint[t].on = call[c].master
            \/ endpoint[t].on = Leftover

\* master.go:50-53, 86-88: every ssh process the adapter started and left alone
\* is its current master or one that a caller is starting under the lock: no path
\* through a failed start, a retirement or Close forgets a running master.
NoOrphanMaster ==
    \A g \in Generation :
        Alive(g) => \/ g = master
                    \/ \E c \in Caller : Locked(c) /\ At(c, "await") /\ call[c].master = g

\* control.go:77-79: an endpoint disappears only with its master or by its own
\* call's cancellation; a retiring worker never takes another's, unless a leftover
\* made it take its master for ready too early.
OnlyOwnerRemoves ==
    [][\A t \in Tuple :
          endpoint[t] # Unbound /\ endpoint'[t].on # endpoint[t].on =>
              \/ process'[endpoint[t].on] = "exited"
              \/ \E c \in Caller : At(c, "cancel") /\ (Owns(c, t) \/ misled)]_vars

\* What the Manager sees of a call of Forward.
PhaseOf(c) ==
    IF call[c].target = Scan THEN "away"
    ELSE CASE call[c].pc = "idle" -> "away"
           [] call[c].pc = "verify" -> "bound"
           [] call[c].pc = "ready" -> "ready"
           [] call[c].pc \in {"cleanup", "cancel", "retire"} -> "ending"
           [] OTHER -> "inside"

Contract == INSTANCE BackendContract
    WITH phase <- [c \in Caller |-> PhaseOf(c)],
         listening <- {c \in Caller : \E t \in Tuple : Owns(c, t)}

\* A leftover master has carried out a call's installation; or a call cancels that
\* had its own carried out by one, while the master it refers to was still starting.
LeftoverInterferes ==
    \/ \E c \in Caller, t \in Tuple : Owns(c, t) /\ endpoint[t].on = Leftover
    \/ misled /\ \E c \in Caller : At(c, "cancel")

\* core/status.go:124-128: the adapter is the Backend the Manager expects, wherever
\* no leftover interferes: a ready endpoint had been bound by its own call, and no
\* step of one call, and no exit of a master, changes what another generation or
\* another call has listening.
ImplementsContract ==
    /\ Contract!ContractInit
    /\ [][Contract!ContractNext \/ LeftoverInterferes]_(Contract!contractVars)

\* ARCHITECTURE.md "Transport boundaries": a cancelled call returns, whatever
\* the commands, the master and the other callers do.
CancelledCallReturns ==
    \A c \in Caller : call[c].cancelled ~> At(c, "idle")

\* A forward whose transport is lost returns, so that its worker can retry.
LostTransportNoticed ==
    \A c \in Caller :
        (At(c, "ready") /\ Exited(call[c].master)) ~> At(c, "idle")

\* master.go:124-125: Close returns, even while calls hold the lock.
CloseFinishes == closing.pc = "called" ~> closing.pc = "closed"

============================================================================
