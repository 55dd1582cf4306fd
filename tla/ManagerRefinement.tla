------------------------- MODULE ManagerRefinement -------------------------
(***************************************************************************)
(* Manager implements ForwardLifecycle, for every set of ports, names,     *)
(* intents and observations: every critical section of the manager is one  *)
(* step of the abstract specification, or none.                            *)
(***************************************************************************)
EXTENDS ManagerStepProofs

Behaviors == ForwardTarget \X BOOLEAN

----------------------------------------------------------------------------
(* The abstract state of consistent maps *)

AbstractOf(fw, tk) ==
    [key \in Key |->
        IF key \in DOMAIN fw THEN BehaviorOf(tk[<<key, fw[key]>>].desired) ELSE <<>>]

RetiringOf(fw, tk) == {key \in DOMAIN fw : tk[<<key, fw[key]>>].cancelled \/ closed}

\* A behaviour is a pair, the mark of an unserved key is not.
LEMMA BehaviorType ==
    /\ \A forward \in DesiredForward : BehaviorOf(forward) \in Behaviors
    /\ <<>> \notin Behaviors
<1>1. ASSUME NEW forward \in DesiredForward PROVE BehaviorOf(forward) \in Behaviors
  BY DEF BehaviorOf, Behaviors, DesiredForward
<1>2. <<>> \notin Behaviors
  BY DEF Behaviors
<1>3. QED
  BY <1>1, <1>2

\* The refinement mapping, by the registered workers.
LEMMA MappingFacts ==
    IInv => /\ ServingMap = AbstractOf(forwardWorkers, task)
            /\ RetiringKeys = RetiringOf(forwardWorkers, task)
<1> SUFFICES ASSUME IInv
             PROVE  /\ ServingMap = AbstractOf(forwardWorkers, task)
                    /\ RetiringKeys = RetiringOf(forwardWorkers, task)
  OBVIOUS
<1>1. Linked(forwardWorkers, task) /\ DOMAIN forwardWorkers \subseteq Key
      /\ \A key \in DOMAIN forwardWorkers : forwardWorkers[key] \in Incarnation
  BY DEF IInv, Consistent, MapsTyped
<1>2. ASSUME NEW key \in Key, NEW g \in Incarnation
      PROVE  g \in Serves(key) <=> key \in DOMAIN forwardWorkers /\ forwardWorkers[key] = g
  <2>1. <<key, g>> \in Worker
    BY DEF Worker
  <2>2. QED
    BY <1>1, <2>1 DEF Linked, Serves, Running
<1>3. ASSUME NEW key \in Key
      PROVE  Serves(key) = IF key \in DOMAIN forwardWorkers THEN {forwardWorkers[key]} ELSE {}
  BY <1>1, <1>2 DEF Serves
<1>4. ASSUME NEW key \in Key
      PROVE  ServingMap[key] = AbstractOf(forwardWorkers, task)[key]
  <2>1. CASE key \in DOMAIN forwardWorkers
    <3>1. Serves(key) = {forwardWorkers[key]} /\ forwardWorkers[key] \in Incarnation
      BY <1>1, <1>3, <2>1
    <3>2. (CHOOSE g \in Incarnation : g \in Serves(key)) = forwardWorkers[key]
      BY <3>1
    <3>3. QED
      BY <2>1, <3>1, <3>2 DEF ServingMap, AbstractOf
  <2>2. CASE key \notin DOMAIN forwardWorkers
    <3>1. Serves(key) = {}
      BY <1>3, <2>2
    <3>2. QED
      BY <2>2, <3>1 DEF ServingMap, AbstractOf
  <2>3. QED
    BY <2>1, <2>2
<1>5. ServingMap = AbstractOf(forwardWorkers, task)
  BY <1>4 DEF ServingMap, AbstractOf
<1>6. RetiringKeys = RetiringOf(forwardWorkers, task)
  BY <1>1, <1>3 DEF RetiringKeys, RetiringOf, Cancelled
<1>7. QED
  BY <1>5, <1>6

----------------------------------------------------------------------------
(* Strengthening: only a cancelled goroutine leaves its loop *)

ExitCancelled == \A w \in Worker : task[w].pc = "exit" => Cancelled(w)

\* A goroutine's own step that does not unregister it: its forward, its
\* cancellation and the map of workers stay, and it exits only when cancelled.
LEMMA OwnStep ==
    ASSUME IInv, ExitCancelled, NEW w \in Worker,
           WorkerStep(w) \/ BackendStep(w), ~ForwardStopped(w)
    PROVE  /\ UNCHANGED <<closed, backendClosed, forwardWorkers>>
           /\ \A v \in Worker : /\ task'[v].desired = task[v].desired
                                /\ task'[v].cancelled = task[v].cancelled
                                /\ task'[v].pc = "exit" => Cancelled(v)
<1>1. task[w] \in Task /\ task \in [Worker -> Task] /\ Candidate(task[w]) \in Port
  BY RunningTask
<1>2. UNCHANGED <<closed, backendClosed, forwardWorkers>>
  BY DEF WorkerStep, BackendStep, CheckReserved, ClaimPort, Ready, ForwardFailed, RetryTimer,
         RetryCancelled, Bind, PortConflict, TransportError, ForwardCancelled, WorkerUnchanged
<1>3. ASSUME NEW pc, pc = "exit" => Cancelled(w),
             \/ task' = [task EXCEPT ![w].pc = pc]
             \/ task' = [task EXCEPT ![w] = [@ EXCEPT !.pc = pc, !.offset = 0]]
      PROVE  \A v \in Worker : /\ task'[v].desired = task[v].desired
                               /\ task'[v].cancelled = task[v].cancelled
                               /\ task'[v].pc = "exit" => Cancelled(v)
  <2>1. \A v \in Worker : /\ task'[v].desired = task[v].desired
                          /\ task'[v].cancelled = task[v].cancelled
                          /\ v # w => task'[v].pc = task[v].pc
    BY <1>1, <1>3, MovedTask
  <2>2. task'[w].pc = pc
    BY <1>1, <1>3, MovedTask
  <2>3. QED
    BY <1>3, <2>1, <2>2 DEF ExitCancelled
<1>4. CASE task' = [task EXCEPT ![w] = NextPort(@)]
  <2> DEFINE t == NextPort(task[w])
  <2>1. t.desired = task[w].desired /\ t.cancelled = task[w].cancelled /\ t.pc # "exit"
    BY <1>1, NextPortType
  <2>2. task' = [task EXCEPT ![w] = t]
    BY <1>4
  <2> HIDE DEF t
  <2>3. task'[w] = t /\ \A v \in Worker : v # w => task'[v] = task[v]
    BY <1>1, <2>2
  <2>4. ASSUME NEW v \in Worker
        PROVE  /\ task'[v].desired = task[v].desired
               /\ task'[v].cancelled = task[v].cancelled
               /\ task'[v].pc = "exit" => Cancelled(v)
    <3>1. CASE v = w
      BY <2>1, <2>3, <3>1
    <3>2. CASE v # w
      BY <2>3, <3>2 DEF ExitCancelled
    <3>3. QED
      BY <3>1, <3>2
  <2>5. QED
    BY <1>2, <2>4
<1>5. CASE CheckReserved(w)
  <2>1. CASE task' = [task EXCEPT ![w].pc = "claim"]
    <3>1. PICK pc \in {"claim"} : task' = [task EXCEPT ![w].pc = pc]
      BY <2>1
    <3>2. pc # "exit"
      OBVIOUS
    <3>3. QED
      BY <1>2, <1>3, <3>1, <3>2
  <2>2. QED
    BY <1>4, <1>5, <2>1 DEF CheckReserved
<1>6. CASE ClaimPort(w)
  <2> DEFINE pc == IF Cancelled(w) THEN "exit" ELSE "forward"
  <2>1. task' = [task EXCEPT ![w].pc = pc]
    BY <1>6 DEF ClaimPort
  <2>2. pc = "exit" => Cancelled(w)
    OBVIOUS
  <2> HIDE DEF pc
  <2>3. QED
    BY <1>2, <1>3, <2>1, <2>2
<1>7. CASE ForwardFailed(w)
  <2> DEFINE pc == IF Cancelled(w) THEN "exit" ELSE "retry"
  <2>1. task' = [task EXCEPT ![w].pc = pc]
    BY <1>7 DEF ForwardFailed
  <2>2. pc = "exit" => Cancelled(w)
    OBVIOUS
  <2> HIDE DEF pc
  <2>3. QED
    BY <1>2, <1>3, <2>1, <2>2
<1>8. CASE RetryCancelled(w) \/ ForwardCancelled(w)
  <2>1. task' = [task EXCEPT ![w].pc = "exit"] /\ Cancelled(w)
    BY <1>8 DEF RetryCancelled, ForwardCancelled
  <2>2. QED
    BY <1>2, <1>3, <2>1
<1>9. CASE Ready(w) \/ RetryTimer(w) \/ Bind(w) \/ TransportError(w)
  <2>1. \E pc \in {"active", "check", "bound", "failed"} :
           \/ task' = [task EXCEPT ![w].pc = pc]
           \/ task' = [task EXCEPT ![w] = [@ EXCEPT !.pc = pc, !.offset = 0]]
    BY <1>9 DEF Ready, RetryTimer, Bind, TransportError
  <2>2. PICK pc \in {"active", "check", "bound", "failed"} :
           \/ task' = [task EXCEPT ![w].pc = pc]
           \/ task' = [task EXCEPT ![w] = [@ EXCEPT !.pc = pc, !.offset = 0]]
    BY <2>1
  <2>3. pc # "exit"
    BY <2>2
  <2>4. QED
    BY <1>2, <1>3, <2>2, <2>3
<1>10. QED
  BY <1>4, <1>5, <1>6, <1>7, <1>8, <1>9 DEF WorkerStep, BackendStep, PortConflict

\* A reconcile makes no goroutine exit, and withdraws no cancellation.
LEMMA ReconcileExits ==
    ASSUME NEW want, NEW reserved, NEW fw, NEW st, NEW tk,
           WantTyped(want), Consistent(fw, st, tk),
           ReconcileForwards(want, reserved, fw, st, tk),
           NEW w \in Worker, task'[w].pc = "exit"
    PROVE  tk[w].pc = "exit" /\ (tk[w].cancelled => task'[w].cancelled)
<1> DEFINE plan == PlanReconciliation(want, Snapshot(fw, st, tk), reserved)
<1>1. task' = [v \in Worker |->
          IF v[1] \in plan.start /\ v[2] = Idle(tk, v[1]) THEN NewTask(want[v[1]])
          ELSE IF v[1] \in plan.stop /\ v[2] = fw[v[1]] THEN [tk[v] EXCEPT !.cancelled = TRUE]
          ELSE tk[v]]
  BY DEF ReconcileForwards
<1>2. tk[w] \in Task
  BY DEF Consistent, MapsTyped
<1> HIDE DEF plan
<1>3. CASE w[1] \in plan.start /\ w[2] = Idle(tk, w[1])
  BY <1>1, <1>3 DEF NewTask
<1>4. CASE ~(w[1] \in plan.start /\ w[2] = Idle(tk, w[1]))
  <2>1. task'[w] \in {[tk[w] EXCEPT !.cancelled = TRUE], tk[w]}
    BY <1>1, <1>4
  <2>2. QED
    BY <1>2, <2>1 DEF Task
<1>5. QED
  BY <1>3, <1>4

\* A goroutine is about to return only when it has been told to stop.
LEMMA ExitInvariant == Spec => []ExitCancelled
<1>1. ASSUME Init PROVE ExitCancelled
  <2>1. ASSUME NEW forward PROVE NewTask(forward).pc = "check"
    BY DEF NewTask
  <2>2. IdleTask.pc = "idle"
    BY DEF IdleTask
  <2>3. PICK int : InitialIntent(int)
    BY <1>1 DEF Init
  <2>4. \A w \in Worker : task[w].pc \in {"idle", "check"}
    BY <2>1, <2>2, <2>3 DEF InitialIntent
  <2>5. QED
    BY <2>4 DEF ExitCancelled
<1>2. ASSUME IInv, IInv', ExitCancelled, [Next]_vars PROVE ExitCancelled'
  <2>1. closed => closed'
    BY <1>2 DEF Next, UpdateIntent, Close, CloseBackend, ObserverStep, ObserveStart,
       ObserveReturns, DiscoveryFailed, ObserveRetry, SetListeners, WorkerStep, BackendStep,
       CheckReserved, ClaimPort, Ready, ForwardFailed, RetryTimer, RetryCancelled,
       ForwardStopped, Bind, PortConflict, TransportError, ForwardCancelled, WorkerUnchanged,
       Terminated, vars
  <2>2. ASSUME NEW fw, NEW st, NEW tk, ReconcilesFrom(fw, st, tk),
               \A w \in Worker : tk[w].pc = "exit" => tk[w] = task[w]
        PROVE  ExitCancelled'
    <3> SUFFICES ASSUME NEW w \in Worker, task'[w].pc = "exit" PROVE Cancelled(w)'
      BY DEF ExitCancelled
    <3>1. WantTyped(Wanted')
      BY <1>2, WantedTyped DEF IInv, RestTyped, Wanted
    <3>2. tk[w].pc = "exit" /\ (tk[w].cancelled => task'[w].cancelled)
      BY <2>2, <3>1, ReconcileExits DEF ReconcilesFrom
    <3>3. QED
      BY <1>2, <2>1, <2>2, <3>2 DEF ExitCancelled, Cancelled
  <2>3. CASE ReconcilesFrom(forwardWorkers, states, task)
    BY <2>2, <2>3
  <2>4. ASSUME NEW v \in Worker, ForwardStopped(v) PROVE ExitCancelled'
    <3> DEFINE tk == [task EXCEPT ![v] = IdleTask]
    <3>1. \A w \in Worker : tk[w].pc = "exit" => tk[w] = task[w]
      BY <1>2, RunningTask DEF IdleTask
    <3>2. CASE task' = tk
      <4> HIDE DEF tk
      <4>1. QED
        BY <1>2, <2>1, <3>1, <3>2 DEF ExitCancelled, Cancelled
    <3>3. CASE ReconcilesFrom(Without(forwardWorkers, v[1]), Without(states, v[1]), tk)
      <4> HIDE DEF tk
      <4>1. QED
        BY <2>2, <3>1, <3>3
    <3>4. ReconcilesFrom(Without(forwardWorkers, v[1]), Without(states, v[1]), tk) \/ task' = tk
      <4>1. Consistent(forwardWorkers, states, task) /\ Registered(v)
        BY <1>2, <2>4 DEF IInv, ForwardStopped, Consistent, Linked, Registered
      <4>2. Consistent(Without(forwardWorkers, v[1]), Without(states, v[1]), tk)
        BY <4>1, WithoutConsistent
      <4> HIDE DEF tk
      <4>3. QED
        BY <2>4, <4>1, <4>2 DEF ForwardStopped, ReconcilesFrom, Wanted, tk
    <3>5. QED
      BY <3>2, <3>3, <3>4
  <2>5. ASSUME NEW w \in Worker, WorkerStep(w) \/ BackendStep(w), ~ForwardStopped(w)
        PROVE  ExitCancelled'
    BY <1>2, <2>5, OwnStep DEF ExitCancelled, Cancelled
  <2>6. CASE UNCHANGED task
    BY <1>2, <2>1, <2>6 DEF ExitCancelled, Cancelled
  <2>7. \/ ReconcilesFrom(forwardWorkers, states, task) \/ UNCHANGED task
        \/ \E w \in Worker : WorkerStep(w) \/ BackendStep(w)
    BY <1>2 DEF Next, UpdateIntent, Close, CloseBackend, ObserverStep, ObserveStart,
       ObserveReturns, DiscoveryFailed, ObserveRetry, SetListeners, Terminated, vars,
       ReconcilesFrom, Wanted, IInv
  <2>8. QED
    BY <2>3, <2>4, <2>5, <2>6, <2>7
<1>3. QED
  BY <1>1, <1>2, Invariance, PTL DEF Spec

----------------------------------------------------------------------------
(* One reconcile, as the abstract specification sees each key *)

\* A reconcile leaves a key alone, starts its forward, or retires it.
LEMMA ReconcileAbstract ==
    ASSUME NEW want, NEW reserved, NEW fw, NEW st, NEW tk,
           WantTyped(want), Consistent(fw, st, tk),
           ReconcileForwards(want, reserved, fw, st, tk),
           ~closed, ~closed', NEW key \in Key
    PROVE  LET before == AbstractOf(fw, tk)[key]
               after == AbstractOf(forwardWorkers', task')[key]
               was == key \in RetiringOf(fw, tk)
               is == key \in RetiringOf(forwardWorkers, task)'
           IN  \/ after = before /\ (is <=> was)
               \/ before = <<>> /\ after \in Behaviors /\ ~is
               \/ before \in Behaviors /\ after = before /\ ~was /\ is
<1> DEFINE running == Snapshot(fw, st, tk)
           plan == PlanReconciliation(want, running, reserved)
<1>1. /\ forwardWorkers' = [k \in DOMAIN fw \cup plan.start |->
              IF k \in plan.start THEN Idle(tk, k) ELSE fw[k]]
      /\ task' = [w \in Worker |->
              IF w[1] \in plan.start /\ w[2] = Idle(tk, w[1]) THEN NewTask(want[w[1]])
              ELSE IF w[1] \in plan.stop /\ w[2] = fw[w[1]] THEN [tk[w] EXCEPT !.cancelled = TRUE]
              ELSE tk[w]]
  BY DEF ReconcileForwards
<1>2. DOMAIN running = DOMAIN fw
  BY DEF Snapshot
<1>3. /\ plan.start \subseteq DOMAIN want \ DOMAIN running
      /\ plan.stop \subseteq DOMAIN running
  BY DEF PlanReconciliation, MissingKeys
<1> HIDE DEF plan, running
<1>4. /\ tk \in [Worker -> Task] /\ DOMAIN fw \subseteq Key
      /\ \A k \in DOMAIN fw : fw[k] \in Incarnation
  BY DEF Consistent, MapsTyped
<1>5. CASE key \in DOMAIN fw
  <2> DEFINE w == <<key, fw[key]>>
  <2>1. w \in Worker /\ w[1] = key /\ w[2] = fw[key] /\ tk[w] \in Task
    BY <1>4, <1>5 DEF Worker
  <2>2. key \notin plan.start /\ key \in DOMAIN forwardWorkers' /\ forwardWorkers'[key] = fw[key]
    BY <1>1, <1>2, <1>3, <1>5
  <2> HIDE DEF w
  <2>3. task'[w] = IF key \in plan.stop THEN [tk[w] EXCEPT !.cancelled = TRUE] ELSE tk[w]
    BY <1>1, <2>1, <2>2
  <2>4. /\ task'[w].desired = tk[w].desired
        /\ task'[w].cancelled = (key \in plan.stop \/ tk[w].cancelled)
    BY <2>1, <2>3 DEF Task
  <2>5. /\ AbstractOf(fw, tk)[key] = BehaviorOf(tk[w].desired)
        /\ AbstractOf(forwardWorkers', task')[key] = BehaviorOf(tk[w].desired)
    BY <1>5, <2>2, <2>4 DEF AbstractOf, w
  <2>6. BehaviorOf(tk[w].desired) \in Behaviors
    BY <2>1, BehaviorType DEF Task
  <2>7. /\ key \in RetiringOf(fw, tk) <=> tk[w].cancelled
        /\ key \in RetiringOf(forwardWorkers, task)' <=> task'[w].cancelled
    BY <1>5, <2>2 DEF RetiringOf, w
  <2>8. QED
    BY <2>4, <2>5, <2>6, <2>7
<1>6. CASE key \in plan.start
  <2>1. key \in DOMAIN want /\ key \notin DOMAIN fw
    BY <1>2, <1>3, <1>6
  <2>2. key \in DOMAIN forwardWorkers' /\ forwardWorkers'[key] = Idle(tk, key)
    BY <1>1, <1>6
  <2> DEFINE w == <<key, Idle(tk, key)>>
  <2>3. w \in Worker /\ w[1] = key /\ w[2] = Idle(tk, key)
    BY DEF Worker, Idle, Incarnation
  <2> HIDE DEF w
  <2>4. task'[w] = NewTask(want[key])
    BY <1>1, <1>6, <2>3
  <2>5. task'[w].desired = want[key] /\ ~task'[w].cancelled
    BY <2>4 DEF NewTask
  <2>6. AbstractOf(forwardWorkers', task')[key] = BehaviorOf(want[key])
    BY <2>2, <2>5 DEF AbstractOf, w
  <2>7. BehaviorOf(want[key]) \in Behaviors
    BY <2>1, BehaviorType DEF WantTyped
  <2>8. AbstractOf(fw, tk)[key] = <<>>
    BY <2>1 DEF AbstractOf
  <2>9. key \notin RetiringOf(forwardWorkers, task)'
    BY <2>2, <2>5 DEF RetiringOf, w
  <2>10. QED
    BY <2>6, <2>7, <2>8, <2>9
<1>7. CASE key \notin DOMAIN fw /\ key \notin plan.start
  <2>1. key \notin DOMAIN forwardWorkers'
    BY <1>1, <1>7
  <2>2. QED
    BY <1>7, <2>1 DEF AbstractOf, RetiringOf
<1>8. QED
  BY <1>5, <1>6, <1>7

----------------------------------------------------------------------------
(* Every step is a step of ForwardLifecycle, or a stutter *)

\* What one critical section did to one key, told of the mapped variables.
KeyStep(key) ==
    \/ Lifecycle!Stays(key) \/ Lifecycle!Starts(key)
    \/ Lifecycle!Retires(key) \/ Lifecycle!Ends(key)

\* The mapped variables have their types.
LEMMA MappedType ==
    IInv => ServingMap \in [Key -> Behaviors \cup {<<>>}] /\ RetiringKeys \subseteq Key
<1> SUFFICES ASSUME IInv
             PROVE  ServingMap \in [Key -> Behaviors \cup {<<>>}] /\ RetiringKeys \subseteq Key
  OBVIOUS
<1>1. ASSUME NEW key \in Key, key \in DOMAIN forwardWorkers
      PROVE  BehaviorOf(task[<<key, forwardWorkers[key]>>].desired) \in Behaviors
  <2>1. <<key, forwardWorkers[key]>> \in Worker
    BY <1>1 DEF IInv, Consistent, MapsTyped, Worker
  <2>2. task[<<key, forwardWorkers[key]>>].desired \in DesiredForward
    BY <2>1, RunningTask DEF Task
  <2>3. QED
    BY <2>2, BehaviorType
<1>2. AbstractOf(forwardWorkers, task) \in [Key -> Behaviors \cup {<<>>}]
  BY <1>1 DEF AbstractOf
<1>3. RetiringOf(forwardWorkers, task) \subseteq Key
  BY DEF RetiringOf, IInv, Consistent, MapsTyped
<1>4. QED
  BY <1>2, <1>3, MappingFacts

\* A transport that is in use is not closed.
LEMMA TransportFacts ==
    ASSUME IInv, BackendClosedLast
    PROVE  /\ (\E w \in Worker : Running(w)) => ~backendClosed
           /\ ~closed => TransportState = "open"
           /\ closed /\ ~backendClosed => TransportState = "closing"
BY DEF BackendClosedLast, TransportState

\* One step, from and to states that the invariants describe.
LEMMA LifecycleStep ==
    ASSUME IInv, IInv', ExitCancelled, BackendClosedLast, [Next]_vars
    PROVE  [Lifecycle!LifecycleNext]_(Lifecycle!lifecycleVars)
<1> DEFINE Stutters == UNCHANGED <<ServingMap, RetiringKeys, TransportState>>
<1>1. /\ ServingMap = AbstractOf(forwardWorkers, task)
      /\ RetiringKeys = RetiringOf(forwardWorkers, task)
      /\ ServingMap' = AbstractOf(forwardWorkers', task')
      /\ RetiringKeys' = RetiringOf(forwardWorkers, task)'
      /\ ServingMap' \in [Key -> Behaviors \cup {<<>>}]
      /\ RetiringKeys' \subseteq Key
  <2>1. (ServingMap = AbstractOf(forwardWorkers, task)
          /\ RetiringKeys = RetiringOf(forwardWorkers, task))'
    BY MappingFacts, PTL
  <2>2. (ServingMap \in [Key -> Behaviors \cup {<<>>}] /\ RetiringKeys \subseteq Key)'
    BY MappedType, PTL
  <2>3. QED
    BY <2>1, <2>2, MappingFacts DEF AbstractOf, Behaviors
<1>2. Consistent(forwardWorkers, states, task) /\ WantTyped(Wanted')
  BY WantedTyped DEF IInv, RestTyped, Wanted
<1>3. SUFFICES Lifecycle!LifecycleNext \/ Stutters
  BY DEF Lifecycle!lifecycleVars
<1>4. \* A critical section is a step of Reconciles when each key makes a step.
      ASSUME \A key \in Key : KeyStep(key),
             \A j, k \in Key : Lifecycle!Ends(j) /\ Lifecycle!Ends(k) => j = k,
             closed => \A key \in Key : ~Lifecycle!Starts(key),
             ~backendClosed, UNCHANGED <<closed, backendClosed>>
      PROVE  Lifecycle!LifecycleNext
  <2>1. TransportState # "closed" /\ (TransportState # "open" => closed)
        /\ TransportState' = TransportState
    BY <1>4 DEF TransportState
  <2>2. Lifecycle!Reconciles
    BY <1>1, <1>4, <2>1 DEF Lifecycle!Reconciles, KeyStep, Behaviors
  <2>3. QED
    BY <2>2 DEF Lifecycle!LifecycleNext
<1>5. \* A reconcile of the current maps.
      ASSUME ReconcilesFrom(forwardWorkers, states, task), ~closed,
             UNCHANGED <<closed, backendClosed>>
      PROVE  Lifecycle!LifecycleNext
  <2>1. ~backendClosed
    BY <1>5 DEF BackendClosedLast
  <2>2. ASSUME NEW key \in Key
        PROVE  /\ KeyStep(key)
               /\ ~Lifecycle!Ends(key)
    <3>1. LET before == ServingMap[key]
              after == ServingMap'[key]
              was == key \in RetiringKeys
              is == key \in RetiringKeys'
          IN  \/ after = before /\ (is <=> was)
              \/ before = <<>> /\ after \in Behaviors /\ ~is
              \/ before \in Behaviors /\ after = before /\ ~was /\ is
      BY <1>1, <1>2, <1>5, ReconcileAbstract DEF ReconcilesFrom
    <3>2. key \in RetiringKeys => ServingMap[key] # <<>>
      <4>1. key \in RetiringKeys => key \in DOMAIN forwardWorkers
        BY <1>1 DEF RetiringOf
      <4>2. key \in DOMAIN forwardWorkers => ServingMap[key] \in Behaviors
        <5> SUFFICES ASSUME key \in DOMAIN forwardWorkers PROVE ServingMap[key] \in Behaviors
          OBVIOUS
        <5>1. <<key, forwardWorkers[key]>> \in Worker
          BY <1>2 DEF Consistent, MapsTyped, Worker
        <5>2. task[<<key, forwardWorkers[key]>>].desired \in DesiredForward
          BY <5>1, RunningTask DEF Task
        <5>3. QED
          BY <1>1, <5>2, BehaviorType DEF AbstractOf
      <4>3. QED
        BY <4>1, <4>2, BehaviorType
    <3>3. KeyStep(key)
      BY <3>1 DEF KeyStep, Lifecycle!Stays, Lifecycle!Starts, Lifecycle!Retires, Behaviors
    <3>4. ~(key \in RetiringKeys /\ key \notin RetiringKeys')
      BY <3>1, <3>2
    <3>5. QED
      BY <3>3, <3>4 DEF Lifecycle!Ends
  <2>3. QED
    BY <1>4, <1>5, <2>1, <2>2
<1>6. \* The exit of a worker.
      ASSUME NEW w \in Worker, ForwardStopped(w)
      PROVE  Lifecycle!LifecycleNext
  <2> DEFINE fw == Without(forwardWorkers, w[1])
             st == Without(states, w[1])
             tk == [task EXCEPT ![w] = IdleTask]
  <2>1. /\ Registered(w) /\ w[1] \in Key /\ w = <<w[1], w[2]>> /\ task[w].pc = "exit"
        /\ UNCHANGED <<closed, backendClosed>>
    BY <1>2, <1>6 DEF ForwardStopped, Consistent, Linked, Registered, Worker
  <2>2. Cancelled(w) /\ ~backendClosed
    BY <2>1 DEF ExitCancelled, BackendClosedLast, Running
  <2>3. w[1] \in RetiringKeys
    BY <1>1, <2>1, <2>2 DEF RetiringOf, Registered, Cancelled
  <2>4. Consistent(fw, st, tk)
    BY <1>2, <2>1, WithoutConsistent
  <2>5. /\ \A key \in Key \ {w[1]} :
              /\ AbstractOf(fw, tk)[key] = ServingMap[key]
              /\ key \in RetiringOf(fw, tk) <=> key \in RetiringKeys
        /\ AbstractOf(fw, tk)[w[1]] = <<>> /\ w[1] \notin RetiringOf(fw, tk)
    <3>1. DOMAIN fw = DOMAIN forwardWorkers \ {w[1]}
          /\ \A key \in DOMAIN fw : fw[key] = forwardWorkers[key]
      BY DEF Without
    <3>2. \A key \in DOMAIN fw : tk[<<key, fw[key]>>] = task[<<key, forwardWorkers[key]>>]
      <4> SUFFICES ASSUME NEW key \in DOMAIN fw
                   PROVE  tk[<<key, fw[key]>>] = task[<<key, forwardWorkers[key]>>]
        OBVIOUS
      <4>1. <<key, forwardWorkers[key]>> \in Worker /\ <<key, forwardWorkers[key]>> # w
        BY <1>2, <2>1, <3>1 DEF Consistent, MapsTyped, Worker
      <4>2. task \in [Worker -> Task]
        BY RunningTask
      <4>3. QED
        BY <3>1, <4>1, <4>2
    <3> HIDE DEF fw, tk
    <3>3. QED
      BY <1>1, <2>1, <3>1, <3>2 DEF AbstractOf, RetiringOf
  <2> HIDE DEF fw, st, tk
  <2>6. CASE ~closed
    <3>1. ReconcilesFrom(fw, st, tk)
      BY <1>6, <2>1, <2>4, <2>6
      DEF ForwardStopped, ReplacesStopped, ReconcilesFrom, Wanted, fw, st, tk
    <3>2. ASSUME NEW key \in Key
          PROVE  LET before == AbstractOf(fw, tk)[key]
                     after == ServingMap'[key]
                     was == key \in RetiringOf(fw, tk)
                     is == key \in RetiringKeys'
                 IN  \/ after = before /\ (is <=> was)
                     \/ before = <<>> /\ after \in Behaviors /\ ~is
                     \/ before \in Behaviors /\ after = before /\ ~was /\ is
      BY <1>1, <1>2, <2>1, <2>6, <3>1, ReconcileAbstract DEF ReconcilesFrom
    <3>3. ASSUME NEW key \in Key \ {w[1]}
          PROVE  KeyStep(key) /\ ~Lifecycle!Ends(key)
      <4>1. \/ ServingMap'[key] = ServingMap[key]
               /\ (key \in RetiringKeys' <=> key \in RetiringKeys)
            \/ ServingMap[key] = <<>> /\ ServingMap'[key] \in Behaviors /\ key \notin RetiringKeys'
            \/ /\ ServingMap[key] \in Behaviors /\ ServingMap'[key] = ServingMap[key]
               /\ key \notin RetiringKeys /\ key \in RetiringKeys'
        BY <2>5, <3>2
      <4>2. key \in RetiringKeys => ServingMap[key] # <<>>
        <5> SUFFICES ASSUME key \in RetiringKeys PROVE ServingMap[key] \in Behaviors
          BY BehaviorType
        <5>1. key \in DOMAIN forwardWorkers
          BY <1>1 DEF RetiringOf
        <5>2. <<key, forwardWorkers[key]>> \in Worker
          BY <1>2, <5>1 DEF Consistent, MapsTyped, Worker
        <5>3. task[<<key, forwardWorkers[key]>>].desired \in DesiredForward
          BY <5>2, RunningTask DEF Task
        <5>4. QED
          BY <1>1, <5>1, <5>3, BehaviorType DEF AbstractOf
      <4>3. KeyStep(key)
        BY <4>1 DEF KeyStep, Lifecycle!Stays, Lifecycle!Starts, Lifecycle!Retires, Behaviors
      <4>4. QED
        BY <4>1, <4>2, <4>3 DEF Lifecycle!Ends
    <3>4. Lifecycle!Ends(w[1])
      <4>1. w[1] \notin RetiringKeys' /\ ServingMap'[w[1]] \in Behaviors \cup {<<>>}
        BY <2>1, <2>5, <3>2, BehaviorType
      <4>2. TransportState = "open"
        BY <2>6, TransportFacts
      <4>3. QED
        BY <2>3, <4>1, <4>2 DEF Lifecycle!Ends, Behaviors
    <3>5. QED
      BY <1>4, <2>1, <2>2, <2>6, <3>3, <3>4 DEF KeyStep
  <2>7. CASE closed
    <3>1. task' = tk /\ forwardWorkers' = fw
      BY <1>6, <2>1, <2>7 DEF ForwardStopped, ReplacesStopped, fw, tk
    <3>2. ServingMap' = AbstractOf(fw, tk)
      BY <1>1, <3>1
    <3>3. RetiringKeys' = RetiringOf(fw, tk)
      BY <1>1, <2>1, <3>1 DEF RetiringOf
    <3>4. ASSUME NEW key \in Key \ {w[1]}
          PROVE  Lifecycle!Stays(key) /\ ~Lifecycle!Ends(key) /\ ~Lifecycle!Starts(key)
      <4>1. ServingMap'[key] = ServingMap[key]
            /\ (key \in RetiringKeys' <=> key \in RetiringKeys)
        BY <2>5, <3>2, <3>3
      <4>2. Lifecycle!Stays(key) /\ ~Lifecycle!Ends(key)
        BY <4>1 DEF Lifecycle!Stays, Lifecycle!Ends
      <4>3. ~Lifecycle!Starts(key)
        BY <4>1, BehaviorType DEF Lifecycle!Starts, Behaviors
      <4>4. QED
        BY <4>2, <4>3
    <3>5. Lifecycle!Ends(w[1]) /\ ~Lifecycle!Starts(w[1])
      <4>1. ServingMap'[w[1]] = <<>> /\ w[1] \notin RetiringKeys'
        BY <2>5, <3>2, <3>3
      <4>2. QED
        BY <2>3, <4>1, BehaviorType DEF Lifecycle!Ends, Lifecycle!Starts, Behaviors
    <3>6. QED
      BY <1>4, <2>1, <2>2, <3>4, <3>5 DEF KeyStep
  <2>8. QED
    BY <2>6, <2>7
<1>7. \* A goroutine's other steps are invisible.
      ASSUME NEW w \in Worker, WorkerStep(w) \/ BackendStep(w), ~ForwardStopped(w)
      PROVE  Stutters
  <2>1. /\ UNCHANGED <<closed, backendClosed, forwardWorkers>>
        /\ \A v \in Worker : /\ task'[v].desired = task[v].desired
                             /\ task'[v].cancelled = task[v].cancelled
    BY <1>7, OwnStep
  <2>2. \A key \in DOMAIN forwardWorkers : <<key, forwardWorkers[key]>> \in Worker
    BY <1>2 DEF Consistent, MapsTyped, Worker
  <2>3. AbstractOf(forwardWorkers', task') = AbstractOf(forwardWorkers, task)
    BY <2>1, <2>2 DEF AbstractOf
  <2>4. RetiringOf(forwardWorkers, task)' = RetiringOf(forwardWorkers, task)
    BY <2>1, <2>2 DEF RetiringOf
  <2>5. QED
    BY <1>1, <2>1, <2>3, <2>4 DEF TransportState
<1>8. ASSUME UNCHANGED <<closed, backendClosed, forwardWorkers, task>>
      PROVE  Stutters
  <2>1. AbstractOf(forwardWorkers', task') = AbstractOf(forwardWorkers, task)
    BY <1>8
  <2>2. RetiringOf(forwardWorkers, task)' = RetiringOf(forwardWorkers, task)
    BY <1>8 DEF RetiringOf
  <2>3. QED
    BY <1>1, <1>8, <2>1, <2>2 DEF TransportState
<1>9. CASE Close
  <2>1. ~closed /\ closed' /\ UNCHANGED <<backendClosed, forwardWorkers, task>> /\ ~backendClosed
    BY <1>9 DEF Close, BackendClosedLast
  <2>2. TransportState = "open" /\ TransportState' = "closing"
    BY <2>1 DEF TransportState
  <2>3. ServingMap' = ServingMap
    BY <1>1, <2>1
  <2>4. \A key \in Key : ServingMap[key] # <<>> <=> key \in DOMAIN forwardWorkers
    <3> SUFFICES ASSUME NEW key \in Key
                 PROVE  ServingMap[key] # <<>> <=> key \in DOMAIN forwardWorkers
      OBVIOUS
    <3>1. CASE key \in DOMAIN forwardWorkers
      <4>1. <<key, forwardWorkers[key]>> \in Worker
        BY <1>2, <3>1 DEF Consistent, MapsTyped, Worker
      <4>2. task[<<key, forwardWorkers[key]>>].desired \in DesiredForward
        BY <4>1, RunningTask DEF Task
      <4>3. ServingMap[key] \in Behaviors
        BY <1>1, <3>1, <4>2, BehaviorType DEF AbstractOf
      <4>4. QED
        BY <3>1, <4>3, BehaviorType
    <3>2. CASE key \notin DOMAIN forwardWorkers
      BY <1>1, <3>2 DEF AbstractOf
    <3>3. QED
      BY <3>1, <3>2
  <2>5. RetiringKeys' = DOMAIN forwardWorkers
    BY <1>1, <2>1 DEF RetiringOf
  <2>6. DOMAIN forwardWorkers \subseteq Key
    BY <1>2 DEF Consistent, MapsTyped
  <2>7. RetiringKeys' = {key \in Key : ServingMap[key] # <<>>}
    BY <2>4, <2>5, <2>6
  <2>8. QED
    BY <2>2, <2>3, <2>7 DEF Lifecycle!LifecycleNext, Lifecycle!ClosesDown
<1>10. CASE CloseBackend
  <2>1. closed /\ ~backendClosed /\ backendClosed' /\ UNCHANGED <<closed, forwardWorkers, task>>
        /\ \A w \in Worker : ~Running(w)
    BY <1>10 DEF CloseBackend
  <2>2. TransportState = "closing" /\ TransportState' = "closed"
    BY <2>1 DEF TransportState
  <2>3. ServingMap' = ServingMap
    BY <1>1, <2>1
  <2>4. RetiringKeys' = RetiringKeys
    BY <1>1, <2>1 DEF RetiringOf
  <2>5. DOMAIN forwardWorkers = {}
    <3>1. ASSUME NEW key \in DOMAIN forwardWorkers PROVE FALSE
      <4>1. <<key, forwardWorkers[key]>> \in Worker
        BY <1>2 DEF Consistent, MapsTyped, Worker
      <4>2. QED
        BY <1>2, <2>1, <4>1 DEF Consistent, Linked, Running
    <3>2. QED
      BY <3>1
  <2>6. \A key \in Key : ServingMap[key] = <<>>
    BY <1>1, <2>5 DEF AbstractOf
  <2>7. QED
    BY <2>2, <2>3, <2>4, <2>6 DEF Lifecycle!LifecycleNext, Lifecycle!DropsTransport
<1>11. CASE \/ \E raw \in RawIntents : UpdateIntent(raw)
            \/ \E observed \in Observations : SetListeners(observed)
            \/ DiscoveryFailed /\ ~closed
  <2>1. ~closed /\ UNCHANGED <<closed, backendClosed>>
    BY <1>11 DEF UpdateIntent, SetListeners, DiscoveryFailed
  <2>2. ReconcilesFrom(forwardWorkers, states, task)
    BY <1>2, <1>11 DEF UpdateIntent, SetListeners, DiscoveryFailed, Wanted, ReconcilesFrom
  <2>3. QED
    BY <1>5, <2>1, <2>2
<1>12. CASE \/ ObserveStart \/ ObserveReturns \/ ObserveRetry \/ UNCHANGED vars
            \/ DiscoveryFailed /\ closed
  <2>1. UNCHANGED <<closed, backendClosed, forwardWorkers, task>>
    BY <1>12 DEF ObserveStart, ObserveReturns, ObserveRetry, DiscoveryFailed, vars
  <2>2. QED
    BY <1>8, <2>1
<1>13. ASSUME NEW w \in Worker, WorkerStep(w) \/ BackendStep(w)
       PROVE  Lifecycle!LifecycleNext \/ Stutters
  BY <1>6, <1>7, <1>13
<1> HIDE DEF Stutters
<1>14. CASE ObserverStep
  <2>1. \/ ObserveStart \/ ObserveReturns \/ ObserveRetry
        \/ DiscoveryFailed /\ closed
        \/ DiscoveryFailed /\ ~closed
    BY <1>14 DEF ObserverStep
  <2>2. QED
    BY <1>11, <1>12, <2>1
<1>15. CASE Terminated
  BY <1>12, <1>15 DEF Terminated
<1>16. CASE Next
  BY <1>9, <1>10, <1>11, <1>13, <1>14, <1>15, <1>16, Zenon DEF Next
<1>17. QED
  BY <1>12, <1>16

\* Every behaviour of a Manager is one of ForwardLifecycle: whatever makes it
\* reconcile, a forward key is served by one forward at a time, which ends only
\* after it was told to.
THEOREM Refinement == Spec => ImplementsLifecycle
<1>1. ASSUME Init PROVE Lifecycle!LifecycleInit
  <2>1. IInv
    BY <1>1, InitInvariant
  <2>2. ServingMap \in [Key -> Behaviors \cup {<<>>}]
    BY <2>1, MappedType
  <2>3. closed = FALSE /\ backendClosed = FALSE
    BY <1>1 DEF Init
  <2>4. ASSUME NEW key \in DOMAIN forwardWorkers
        PROVE  ~task[<<key, forwardWorkers[key]>>].cancelled
    <3>1. PICK int : InitialIntent(int)
      BY <1>1 DEF Init
    <3>2. \A forward : NewTask(forward).cancelled = FALSE
      BY DEF NewTask
    <3>3. IdleTask.cancelled = FALSE
      BY DEF IdleTask
    <3>4. \A w \in Worker : task[w].cancelled = FALSE
      BY <3>1, <3>2, <3>3 DEF InitialIntent
    <3>5. <<key, forwardWorkers[key]>> \in Worker
      BY <2>1 DEF IInv, Consistent, MapsTyped, Worker
    <3>6. QED
      BY <3>4, <3>5
  <2>5. RetiringKeys = {}
    BY <2>1, <2>3, <2>4, MappingFacts DEF RetiringOf
  <2>6. TransportState = "open"
    BY <2>3 DEF TransportState
  <2>7. QED
    BY <2>2, <2>5, <2>6 DEF Lifecycle!LifecycleInit, Behaviors
<1>2. QED
  BY <1>1, LifecycleStep, Invariance, ExitInvariant, ClosedLast, PTL
  DEF Spec, ImplementsLifecycle, Lifecycle!LifecycleSpec

============================================================================
