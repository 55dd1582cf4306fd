------------------------------ MODULE Manager ------------------------------
(***************************************************************************)
(* One host's Manager (cli/internal/core: manager.go, worker.go,           *)
(* manager_observe.go): a mutex-protected map of forward workers that is   *)
(* reconciled with the desired forwards whenever the intent, the observed  *)
(* listeners or the set of workers changes.                                *)
(*                                                                         *)
(* A critical section of m.mu is one action.  What runs outside it (the    *)
(* worker goroutines, the observer goroutine, the Backend's calls) takes   *)
(* separate steps, so that every interleaving is explored.                 *)
(*                                                                         *)
(* Every desired key may meet several goroutines in its life.  <<key, g>>  *)
(* is the goroutine of incarnation g of a key: a started forward takes an  *)
(* idle incarnation, so that two goroutines of one key can coexist in the  *)
(* model unless the code prevents it.                                      *)
(***************************************************************************)
EXTENDS Reconcile

CONSTANTS
    MaxOffset,   \* maxTemporaryPortOffset: further local ports an import tries
    RawIntents,  \* the intents UpdateIntent is called with
    Observations \* the listener sets the scanner emits

ASSUME MaxOffsetAssumption == MaxOffset \in Nat
ASSUME RawIntentsAssumption == RawIntents \subseteq RawIntent
ASSUME ObservationsAssumption == Observations \subseteq Listeners

VARIABLES
    closed,             \* m.closed, and m.ctx is cancelled
    intent,             \* m.intent
    reservedLocalPorts, \* m.reservedLocalPorts
    discovery,          \* m.discovery.State
    listeners,          \* m.listeners
    states,             \* m.states: key -> ForwardStatus
    forwardWorkers,     \* m.forwardWorkers: key -> incarnation of its worker
    task,               \* the worker goroutines: <<key, incarnation>> -> Task
    observer,           \* where the observer goroutine is
    backendClosed       \* backend.Close has been called

vars == <<closed, intent, reservedLocalPorts, discovery, listeners, states,
          forwardWorkers, task, observer, backendClosed>>

----------------------------------------------------------------------------
(* Worker goroutines *)

Incarnation == {1, 2}
Worker == Key \X Incarnation

(* Where runForward is:                                                    *)
(*   idle     not running                                                  *)
(*   check    about to ask whether the candidate port is reserved          *)
(*   claim    found it free, about to publish "starting" and call Forward  *)
(*   forward  inside backend.Forward, nothing listens yet                  *)
(*   bound    the endpoint listens, ready() has not been called            *)
(*   active   ready() has returned                                         *)
(*   failed   forwardOnce returned an error, about to publish it           *)
(*   retry    waiting for the retry timer                                  *)
(*   exit     returned: the deferred forwardStopped is about to run        *)
Task ==
    [pc : {"idle", "check", "claim", "forward", "bound", "active", "failed", "retry", "exit"},
     desired : DesiredForward,
     offset : 0 .. MaxOffset,
     cancelled : BOOLEAN]

NoForward ==
    [preferred |-> [direction |-> Import, remote |-> 1, local |-> 1],
     automatic |-> FALSE, allowFallback |-> FALSE]

IdleTask == [pc |-> "idle", desired |-> NoForward, offset |-> 0, cancelled |-> FALSE]

NewTask(forward) == [pc |-> "check", desired |-> forward, offset |-> 0, cancelled |-> FALSE]

\* The local port of the target being tried or forwarded.
Candidate(t) == t.desired.preferred.local + t.offset

MaximumOffset(t) ==
    IF t.desired.preferred.direction = Import /\ t.desired.allowFallback THEN MaxOffset ELSE 0

\* worker.ctx.Err() # nil: its own cancel or the manager's.
CancelledMutant1(w) == closed
CancelledMutant2(w) == task[w].cancelled
Cancelled(w) == task[w].cancelled \/ closed

\* m.forwardWorkers[key] is this worker.
Registered(w) == w[1] \in DOMAIN forwardWorkers /\ forwardWorkers[w[1]] = w[2]

\* A goroutine whose Forward call may own a listening endpoint.
Serving(w) == task[w].pc \in {"forward", "bound", "active"}
Listening(w) == task[w].pc \in {"bound", "active"}

Running(w) == task[w].pc # "idle"

----------------------------------------------------------------------------
(* reconcileForwardsLocked, on the maps fw, st and tk: it drops states     *)
(* that nothing explains any more, relabels what is kept, cancels what is  *)
(* stopped (the worker stays registered until it returns), records what    *)
(* waits and starts a goroutine for what is missing.                       *)
Idle(tk, key) == IF tk[<<key, 1>>].pc = "idle" THEN 1 ELSE 2

\* States of desired forwards and of registered workers survive.
ExplainedMutant(st, want, fw) == DOMAIN st
Explained(st, want, fw) == DOMAIN st \cap (DOMAIN want \cup DOMAIN fw)

Snapshot(fw, st, tk) ==
    [key \in DOMAIN fw |-> [desired |-> tk[<<key, fw[key]>>].desired, status |-> st[key]]]

\* (The singletons bind a value once, where TLC would expand a LET each time.)
ReconcileForwards(desired, reserved, fw, st, tk) ==
    \E want \in {desired} :
    \E plan \in {PlanReconciliation(want, Snapshot(fw, st, tk), reserved)} :
        /\ states' = [key \in Explained(st, want, fw) \cup plan.wait \cup plan.start |->
              IF key \in plan.wait \cup plan.start THEN StartingStatus(want[key])
              ELSE IF key \in plan.keep THEN [st[key] EXCEPT !.automatic = want[key].automatic]
              ELSE st[key]]
        /\ forwardWorkers' = [key \in DOMAIN fw \cup plan.start |->
              IF key \in plan.start THEN Idle(tk, key) ELSE fw[key]]
        /\ task' = [w \in Worker |->
              IF w[1] \in plan.start /\ w[2] = Idle(tk, w[1]) THEN NewTask(want[w[1]])
              ELSE IF w[1] \in plan.stop /\ w[2] = fw[w[1]] THEN [tk[w] EXCEPT !.cancelled = TRUE]
              ELSE tk[w]]

Without(map, key) == [k \in DOMAIN map \ {key} |-> map[k]]

NoWorkers == [key \in {} |-> 1]
NoStates == [key \in {} |-> 1]
NoListeners == [port \in {} |-> 1]

\* newManager: the first reconcile, before any listener is known, starts every
\* fixed forward.
InitialIntent(int) ==
    LET want == DesiredForwards(int, NoListeners)
    IN  /\ intent = int
        /\ reservedLocalPorts = ReservedLocalPorts(int)
        /\ states = [key \in DOMAIN want |-> StartingStatus(want[key])]
        /\ forwardWorkers = [key \in DOMAIN want |-> 1]
        /\ task = [w \in Worker |->
              IF w[1] \in DOMAIN want /\ w[2] = 1 THEN NewTask(want[w[1]]) ELSE IdleTask]

Init ==
    /\ closed = FALSE
    /\ \E raw \in RawIntents : ValidIntent(raw) /\ InitialIntent(NormalizeIntent(raw))
    /\ discovery = "connecting"
    /\ listeners = NoListeners
    /\ observer = "start"
    /\ backendClosed = FALSE

----------------------------------------------------------------------------
(* Calls from outside *)

\* An invalid intent, like a call after Close, is refused without effect.
UpdateIntentMutant(raw) ==
    /\ ValidIntent(raw)
    /\ intent' = NormalizeIntent(raw)
    /\ reservedLocalPorts' = ReservedLocalPorts(intent')
    /\ ReconcileForwards(DesiredForwards(intent', listeners), reservedLocalPorts',
                         forwardWorkers, states, task)
    /\ UNCHANGED <<closed, discovery, listeners, observer, backendClosed>>
UpdateIntent(raw) ==
    /\ ValidIntent(raw)
    /\ ~closed
    /\ intent' = NormalizeIntent(raw)
    /\ reservedLocalPorts' = ReservedLocalPorts(intent')
    /\ ReconcileForwards(DesiredForwards(intent', listeners), reservedLocalPorts',
                         forwardWorkers, states, task)
    /\ UNCHANGED <<closed, discovery, listeners, observer, backendClosed>>

\* The first Close: every worker and the observer see their context cancelled.
Close ==
    /\ ~closed
    /\ closed' = TRUE
    /\ UNCHANGED <<intent, reservedLocalPorts, discovery, listeners, states,
                   forwardWorkers, task, observer, backendClosed>>

\* The background half of Close: after tasks.Wait, the transport goes.
CloseBackendMutant ==
    /\ closed /\ ~backendClosed
    /\ DOMAIN forwardWorkers = {}
    /\ backendClosed' = TRUE
    /\ UNCHANGED <<closed, intent, reservedLocalPorts, discovery, listeners, states,
                   forwardWorkers, task, observer>>
CloseBackend ==
    /\ closed /\ ~backendClosed
    /\ \A w \in Worker : ~Running(w)
    /\ observer = "done"
    /\ backendClosed' = TRUE
    /\ UNCHANGED <<closed, intent, reservedLocalPorts, discovery, listeners, states,
                   forwardWorkers, task, observer>>

----------------------------------------------------------------------------
(* The observer goroutine *)

\* setDiscovery(connecting), then Observe is called.
ObserveStart ==
    /\ observer = "start"
    /\ observer' = "observing"
    /\ discovery' = IF closed THEN discovery ELSE "connecting"
    /\ UNCHANGED <<closed, intent, reservedLocalPorts, listeners, states,
                   forwardWorkers, task, backendClosed>>

\* The scanner emits a complete listener set: setListeners.
SetListeners(observed) ==
    /\ observer = "observing"
    /\ ~closed
    /\ listeners' = observed
    /\ discovery' = "active"
    /\ ReconcileForwards(DesiredForwards(intent, observed), reservedLocalPorts,
                         forwardWorkers, states, task)
    /\ UNCHANGED <<closed, intent, reservedLocalPorts, observer, backendClosed>>

\* Observe returns: for good when the manager is closed, else with an error.
ObserveReturns ==
    /\ observer = "observing"
    /\ observer' = IF closed THEN "done" ELSE "failed"
    /\ UNCHANGED <<closed, intent, reservedLocalPorts, discovery, listeners, states,
                   forwardWorkers, task, backendClosed>>

\* setDiscovery(failed) forgets the listeners and reconciles.
DiscoveryFailed ==
    /\ observer = "failed"
    /\ observer' = "retry"
    /\ IF closed
       THEN UNCHANGED <<discovery, listeners, states, forwardWorkers, task>>
       ELSE /\ discovery' = "failed"
            /\ listeners' = NoListeners
            /\ ReconcileForwards(DesiredForwards(intent, NoListeners), reservedLocalPorts,
                                 forwardWorkers, states, task)
    /\ UNCHANGED <<closed, intent, reservedLocalPorts, backendClosed>>

\* wait(m.ctx, retryDelay): the timer, or the end when the manager is closed.
ObserveRetry ==
    /\ observer = "retry"
    /\ observer' \in {"start"} \cup (IF closed THEN {"done"} ELSE {})
    /\ UNCHANGED <<closed, intent, reservedLocalPorts, discovery, listeners, states,
                   forwardWorkers, task, backendClosed>>

----------------------------------------------------------------------------
(* A worker goroutine *)

WorkerUnchanged ==
    UNCHANGED <<closed, intent, reservedLocalPorts, discovery, listeners,
                forwardWorkers, observer, backendClosed>>

\* setForwardState, which says nothing once the worker is no longer current.
SetForwardStateMutant(w, state, local) ==
    states' =
        IF Cancelled(w) \/ ~Registered(w) THEN states
        ELSE [states EXCEPT ![w[1]] = StatusOf(task[w].desired, state, local)]
SetForwardState(w, state, local) ==
    states' =
        IF Cancelled(w) \/ ~Registered(w) THEN states
        ELSE [states EXCEPT ![w[1]] =
                [StatusOf(task[w].desired, state, local)
                    EXCEPT !.automatic = states[w[1]].automatic]]

\* The loop of forwardOnce goes to its next port, or ends with its last error.
NextPortMutant(t) ==
    IF t.offset < MaximumOffset(t)
    THEN [t EXCEPT !.pc = "check", !.offset = t.offset + 1]
    ELSE [t EXCEPT !.pc = "failed", !.offset = 0]
NextPort(t) ==
    IF t.offset < MaximumOffset(t) /\ Candidate(t) < MaxPort
    THEN [t EXCEPT !.pc = "check", !.offset = t.offset + 1]
    ELSE [t EXCEPT !.pc = "failed", !.offset = 0]

\* localPortReserved takes the lock only for the check: the answer may be stale
\* when ClaimPort acts on it.  Only imports ask.
CheckReserved(w) ==
    /\ task[w].pc = "check"
    /\ task' = [task EXCEPT ![w] =
          IF w[1].direction = Import /\ Candidate(@) \in reservedLocalPorts
          THEN NextPort(@)
          ELSE [@ EXCEPT !.pc = "claim"]]
    /\ UNCHANGED states
    /\ WorkerUnchanged

\* Publish the candidate as starting and call Forward, which refuses a context
\* that is already cancelled before it installs anything.
ClaimPortMutant(w) ==
    /\ task[w].pc = "claim"
    /\ states' = states
    /\ task' = [task EXCEPT ![w].pc = IF Cancelled(w) THEN "exit" ELSE "forward"]
    /\ WorkerUnchanged
ClaimPort(w) ==
    /\ task[w].pc = "claim"
    /\ SetForwardState(w, "starting", Candidate(task[w]))
    /\ task' = [task EXCEPT ![w].pc = IF Cancelled(w) THEN "exit" ELSE "forward"]
    /\ WorkerUnchanged

\* ready(): publish active.
Ready(w) ==
    /\ task[w].pc = "bound"
    /\ SetForwardState(w, "active", Candidate(task[w]))
    /\ task' = [task EXCEPT ![w].pc = "active"]
    /\ WorkerUnchanged

\* Publish the failure; a cancelled worker returns instead.
ForwardFailed(w) ==
    /\ task[w].pc = "failed"
    /\ SetForwardState(w, "failed", task[w].desired.preferred.local)
    /\ task' = [task EXCEPT ![w].pc = IF Cancelled(w) THEN "exit" ELSE "retry"]
    /\ WorkerUnchanged

\* The timer may win against a cancellation: the new attempt will notice it.
RetryTimer(w) ==
    /\ task[w].pc = "retry"
    /\ task' = [task EXCEPT ![w].pc = "check"]
    /\ UNCHANGED states
    /\ WorkerUnchanged

RetryCancelled(w) ==
    /\ task[w].pc = "retry"
    /\ Cancelled(w)
    /\ task' = [task EXCEPT ![w].pc = "exit"]
    /\ UNCHANGED states
    /\ WorkerUnchanged

\* After Close an ended worker is not replaced.
ReplacesStoppedMutant1 == FALSE
ReplacesStoppedMutant2 == TRUE
ReplacesStopped == ~closed

\* The deferred forwardStopped: unregister, and reconcile in the same critical
\* section, which is where a replacement and a waiting publication start.
ForwardStopped(w) ==
    LET retired == [task EXCEPT ![w] = IdleTask]
        fw == Without(forwardWorkers, w[1])
        st == Without(states, w[1])
    IN  /\ task[w].pc = "exit"
        /\ IF ~Registered(w)
           THEN task' = retired /\ UNCHANGED <<states, forwardWorkers>>
           ELSE IF ReplacesStopped
           THEN ReconcileForwards(DesiredForwards(intent, listeners), reservedLocalPorts,
                                  fw, st, retired)
           ELSE task' = retired /\ forwardWorkers' = fw /\ states' = st
        /\ UNCHANGED <<closed, intent, reservedLocalPorts, discovery, listeners,
                       observer, backendClosed>>

----------------------------------------------------------------------------
(* The Backend, as a worker sees it: Forward blocks while one exact forward *)
(* exists, and has removed its endpoint when it returns.                    *)

\* Another forward of this host listens at the address w wants to bind.
AddressInUse(w) ==
    \E v \in Worker :
        /\ v # w /\ Listening(v)
        /\ v[1].direction = w[1].direction
        /\ IF w[1].direction = Import
           THEN Candidate(task[v]) = Candidate(task[w])
           ELSE task[v].desired.preferred.remote = task[w].desired.preferred.remote

\* The endpoint is bound and verified.  A context cancelled meanwhile does not
\* take the bind back: the return does.
Bind(w) ==
    /\ task[w].pc = "forward"
    /\ ~AddressInUse(w)
    /\ task' = [task EXCEPT ![w].pc = "bound"]
    /\ UNCHANGED states
    /\ WorkerUnchanged

\* local_port_conflict: this host's, another host's or another program's
\* listener has the port.
PortConflict(w) ==
    /\ task[w].pc = "forward"
    /\ ~Cancelled(w)
    /\ task' = [task EXCEPT ![w] = NextPort(@)]
    /\ UNCHANGED states
    /\ WorkerUnchanged

\* Any other error, at any time while it forwards.
TransportError(w) ==
    /\ Serving(w)
    /\ ~Cancelled(w)
    /\ task' = [task EXCEPT ![w] = [@ EXCEPT !.pc = "failed", !.offset = 0]]
    /\ UNCHANGED states
    /\ WorkerUnchanged

\* The cancelled Forward has cleaned up.
ForwardCancelled(w) ==
    /\ Serving(w)
    /\ Cancelled(w)
    /\ task' = [task EXCEPT ![w].pc = "exit"]
    /\ UNCHANGED states
    /\ WorkerUnchanged

----------------------------------------------------------------------------

WorkerStep(w) ==
    \/ CheckReserved(w) \/ ClaimPort(w) \/ Ready(w) \/ ForwardFailed(w)
    \/ RetryTimer(w) \/ RetryCancelled(w) \/ ForwardStopped(w)

BackendStep(w) == Bind(w) \/ PortConflict(w) \/ TransportError(w) \/ ForwardCancelled(w)

ObserverStep == ObserveStart \/ ObserveReturns \/ DiscoveryFailed \/ ObserveRetry

\* A closed manager has nothing left to do.
Terminated == backendClosed /\ UNCHANGED vars

Next ==
    \/ \E raw \in RawIntents : UpdateIntent(raw)
    \/ Close
    \/ CloseBackend
    \/ ObserverStep
    \/ \E observed \in Observations : SetListeners(observed)
    \/ \E w \in Worker : WorkerStep(w) \/ BackendStep(w)
    \/ Terminated

Spec == Init /\ [][Next]_vars

----------------------------------------------------------------------------
(* Properties *)

Wanted == DesiredForwards(intent, listeners)

WorkerOf(key) == <<key, forwardWorkers[key]>>

\* What a connection through a forward can tell: not its label.
BehaviorOf(forward) == <<forward.preferred, forward.allowFallback>>

\* An import goroutine that owns, or may be about to own, a local port.
HoldsLocalPort(w, port) ==
    w[1].direction = Import /\ Serving(w) /\ Candidate(task[w]) = port

\* A registered import recorded as starting or active on a local port.
ReportedOn(key, port) ==
    /\ key \in DOMAIN forwardWorkers
    /\ key.direction = Import
    /\ states[key].state \in {"starting", "active"}
    /\ states[key].local = port

\* Every variable stays in the set of values its Go type and the maps' use allow;
\* no candidate port of an import leaves the range of ports (in the code it
\* would wrap around).
TypeOK ==
    /\ closed \in BOOLEAN
    /\ intent \in Intent
    /\ reservedLocalPorts \in SUBSET Port
    /\ discovery \in {"connecting", "active", "failed"}
    /\ listeners \in Listeners
    /\ DOMAIN states \subseteq Key
    /\ states \in [DOMAIN states -> ForwardStatus]
    /\ DOMAIN forwardWorkers \subseteq Key
    /\ forwardWorkers \in [DOMAIN forwardWorkers -> Incarnation]
    /\ task \in [Worker -> Task]
    /\ \A w \in Worker : Candidate(task[w]) \in Port
    /\ observer \in {"start", "observing", "failed", "retry", "done"}
    /\ backendClosed \in BOOLEAN

\* A replacement cannot overlap a retiring worker (ARCHITECTURE.md): the only
\* goroutine a key has is the registered one, from its first step to its last.
OneTaskPerKey ==
    \A w \in Worker : Running(w) <=> Registered(w)

\* Between two critical sections the map is reconciled: whatever order intent
\* updates, scanner results, failures and exits came in, a worker that has not
\* been cancelled runs the forward desired now, under the label it has now.
WorkersMatchIntent ==
    LET want == Wanted
    IN  ~closed => \A key \in DOMAIN forwardWorkers :
            ~task[WorkerOf(key)].cancelled =>
                /\ key \in DOMAIN want
                /\ SameForwardBehavior(task[WorkerOf(key)].desired, want[key])
                /\ states[key].automatic = want[key].automatic

\* No desired forward is forgotten: it has a worker (perhaps one that must end
\* before it is replaced), or it is a publication whose local port is still
\* reported by an import that has been told to stop.
NoLostForward ==
    LET want == Wanted
    IN  ~closed => \A key \in DOMAIN want :
            \/ key \in DOMAIN forwardWorkers
            \/ /\ key.direction = Publication
               /\ \E other \in DOMAIN forwardWorkers :
                    /\ ReportedOn(other, want[key].preferred.local)
                    /\ task[WorkerOf(other)].cancelled

\* Status explains every worker and nothing else but waiting publications.
StatesMatchWorkers ==
    /\ DOMAIN forwardWorkers \subseteq DOMAIN states
    /\ \A key \in DOMAIN states \ DOMAIN forwardWorkers :
          /\ key.direction = Publication
          /\ states[key].state = "starting"
          /\ ~closed => key \in DOMAIN Wanted

\* What reconciliation relies on to keep a publication away from an import's
\* listener: the port an import may be bound to is the one its status reports,
\* from before Forward is called until the worker has unregistered, although
\* a cancelled worker may no longer write its status.
HeldPortIsReported ==
    \A w \in Worker : w[1].direction = Import /\ Serving(w)
        => Registered(w) /\ ReportedOn(w[1], Candidate(task[w]))

\* A listener that exists because this host publishes a local service is not
\* forwarded back automatically, even if it was before the publication.
NoAutomaticLoop ==
    ~closed => \A key \in DOMAIN forwardWorkers :
        /\ key.direction = Import
        /\ states[key].automatic
        /\ ~task[WorkerOf(key)].cancelled
        => key.port \notin {f.remote : f \in intent.published}

\* The transport is closed last: no goroutine can still use it.
BackendClosedLast ==
    backendClosed => closed /\ observer = "done" /\ \A w \in Worker : ~Running(w)

\* A worker of a publication starts only when no import of this host may be
\* bound to the local port it publishes.
PublicationStartsClear ==
    [][\A key \in DOMAIN forwardWorkers' :
            key.direction = Publication /\ key \notin DOMAIN forwardWorkers
            => \A w \in Worker :
                  ~HoldsLocalPort(w, states'[key].local)]_vars

\* No critical section disturbs an active forward that stays desired with the
\* same behaviour on an unreserved port: not a relabelling from automatic to
\* fixed, not an equivalent intent, not a scanner result.
ActiveForwardUndisturbed ==
    [][\A w \in Worker :
            /\ task[w].pc = "active" /\ ~task[w].cancelled /\ ~closed
            /\ w[1] \in DOMAIN Wanted'
            /\ BehaviorOf(task[w].desired) = BehaviorOf(Wanted'[w[1]])
            /\ Candidate(task[w]) \notin reservedLocalPorts'
            => ~task'[w].cancelled]_vars

\* "A publication waits for cleanup of a conflicting import before binding."
\* (ARCHITECTURE.md:92): while a publication is bound, no bound import of its
\* host shares a local port, where connections would come back to the host
\* they left.  The code's check of the reservations (CheckReserved) and the
\* claim of the port (ClaimPort) are two critical sections, and only the status
\* written by the second one tells a reconcile that the port is in use.
PublicationsBindAlone ==
    \A w, v \in Worker :
        /\ w[1].direction = Publication /\ Listening(w) /\ ~Cancelled(w)
        /\ v[1].direction = Import /\ Listening(v)
        => task[w].desired.preferred.local # Candidate(task[v])

\* "UpdateIntent reconciles new persistent intent without disturbing forwards
\* that remain desired.  It is safe to call repeatedly with equivalent intent."
\* (manager.go:81-82): an equivalent intent cancels no worker.
EquivalentIntentDisturbsNothing ==
    [][(\E raw \in RawIntents : UpdateIntent(raw)) /\ intent' = intent
          => \A w \in Worker : task'[w].cancelled => task[w].cancelled]_vars

\* After Close nothing starts any more, whatever was queued behind the lock.
NothingStartsAfterClose ==
    [][closed => /\ closed'
                 /\ DOMAIN forwardWorkers' \subseteq DOMAIN forwardWorkers
                 /\ \A w \in Worker : Running(w)' => Running(w)]_vars

----------------------------------------------------------------------------
(* Refinement: the promise of ForwardLifecycle.  Two goroutines of one key  *)
(* would map to a value that no forward of the abstract specification has.  *)

Serves(key) == {g \in Incarnation : Running(<<key, g>>)}

ServingMap ==
    [key \in Key |->
        IF Serves(key) = {} THEN <<>>
        ELSE IF \E g \in Incarnation : Serves(key) = {g}
        THEN BehaviorOf(task[<<key, CHOOSE g \in Incarnation : g \in Serves(key)>>].desired)
        ELSE <<"overlap">>]

RetiringKeys == {key \in Key : \E g \in Serves(key) : Cancelled(<<key, g>>)}

TransportState == IF backendClosed THEN "closed" ELSE IF closed THEN "closing" ELSE "open"

Lifecycle == INSTANCE ForwardLifecycle WITH
    Name <- Key,
    Behavior <- ForwardTarget \X BOOLEAN,
    None <- <<>>,
    serving <- ServingMap,
    retiring <- RetiringKeys,
    transport <- TransportState

\* Every behaviour of a Manager is one of ForwardLifecycle.
ImplementsLifecycle == Lifecycle!LifecycleSpec

----------------------------------------------------------------------------
(* Liveness.  Go schedules every goroutine that can run, timers fire, the   *)
(* Backend's calls honour a cancelled context, and the scanner of a live    *)
(* observation keeps emitting, at the least what it emitted before.         *)
(* Nothing says that a forward binds, that an observation ends by itself,   *)
(* that the intent is updated or that the manager is closed.                *)

Fairness ==
    /\ \A key \in Key :
          /\ WF_vars(\E g \in Incarnation : WorkerStep(<<key, g>>))
          /\ WF_vars(\E g \in Incarnation : ForwardCancelled(<<key, g>>))
    /\ WF_vars(ObserveStart \/ DiscoveryFailed \/ ObserveRetry)
    /\ WF_vars(closed /\ ObserveReturns)
    /\ WF_vars(SetListeners(listeners))
    /\ WF_vars(CloseBackend)

FairSpec == Spec /\ Fairness

\* A cancelled worker returns, wherever the cancellation met it, so that its key
\* can be started again (an idle or a new goroutine is not cancelled).
RetiredWorkerEnds ==
    \A key \in Key :
        (\E g \in Incarnation : task[<<key, g>>].cancelled)
            ~> (\A g \in Incarnation : ~task[<<key, g>>].cancelled)

\* A closed manager closes its transport.
CloseCompletes == closed ~> backendClosed

OnReservedPort(key) ==
    \E g \in Incarnation, port \in reservedLocalPorts : HoldsLocalPort(<<key, g>>, port)

\* An import does not stay on a published local port, however it got there:
\* the next scanner result makes it yield.
ReservedPortYields ==
    \A key \in Key : OnReservedPort(key) ~> ~OnReservedPort(key)

\* A publication that waits for an import gets its worker, unless it is
\* withdrawn or the manager is closed first.
WaitingPublicationStarts ==
    \A key \in Key :
        (key \in DOMAIN states /\ key \notin DOMAIN forwardWorkers)
            ~> (key \in DOMAIN forwardWorkers \/ key \notin DOMAIN states \/ closed)

============================================================================
