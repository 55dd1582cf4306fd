------------------------- MODULE ManagerStepProofs -------------------------
(***************************************************************************)
(* Theorems about Manager's steps: what a reconcile may start or stop, and *)
(* what happens after Close, for every set of ports, names, intents and    *)
(* observations.                                                           *)
(***************************************************************************)
EXTENDS ManagerProofs

----------------------------------------------------------------------------
(* What the desired forwards are *)

\* The local port of a desired publication is reserved for it.
LEMMA PublishedPortReserved ==
    ASSUME NEW int \in Intent, NEW lst \in Listeners,
           NEW key \in DOMAIN DesiredForwards(int, lst), key.direction = Publication
    PROVE  DesiredForwards(int, lst)[key].preferred.local \in ReservedLocalPorts(int)
<1> DEFINE forwards == FixedForwards(int) \cup AutomaticForwards(int, lst)
           forward == DesiredForwards(int, lst)[key]
<1>1. forward \in forwards /\ KeyOf(forward.preferred) = key
  <2>1. DOMAIN DesiredForwards(int, lst) = {KeyOf(f.preferred) : f \in forwards}
    BY DEF DesiredForwards
  <2>2. PICK f \in forwards : KeyOf(f.preferred) = key
    BY <2>1
  <2>3. forward = CHOOSE g \in forwards : KeyOf(g.preferred) = key
    BY <2>1 DEF DesiredForwards
  <2>4. QED
    BY <2>2, <2>3
<1> HIDE DEF forward
<1>2. forward.preferred.direction = Publication
  BY <1>1 DEF KeyOf
<1>3. ASSUME NEW f, NEW automatic
      PROVE  DesiredImport(f, automatic).preferred.direction # Publication
  BY DEF DesiredImport, Import, Publication
<1>4. forward \in {DesiredPublication(f) : f \in int.published}
  BY <1>1, <1>2, <1>3 DEF FixedForwards, AutomaticForwards
<1>5. PICK f \in int.published : forward = DesiredPublication(f)
  BY <1>4
<1>6. forward.preferred.local = f.local
  BY <1>5 DEF DesiredPublication
<1>7. QED
  BY <1>5, <1>6 DEF ReservedLocalPorts, forward

\* No automatic import leads to the remote end of a publication.
LEMMA AutomaticNotPublished ==
    ASSUME NEW int \in Intent, NEW lst \in Listeners,
           NEW key \in DOMAIN DesiredForwards(int, lst),
           DesiredForwards(int, lst)[key].automatic
    PROVE  key.port \notin {f.remote : f \in int.published}
<1> DEFINE forwards == FixedForwards(int) \cup AutomaticForwards(int, lst)
           forward == DesiredForwards(int, lst)[key]
<1>1. forward \in forwards /\ KeyOf(forward.preferred) = key
  <2>1. DOMAIN DesiredForwards(int, lst) = {KeyOf(f.preferred) : f \in forwards}
    BY DEF DesiredForwards
  <2>2. PICK f \in forwards : KeyOf(f.preferred) = key
    BY <2>1
  <2>3. forward = CHOOSE g \in forwards : KeyOf(g.preferred) = key
    BY <2>1 DEF DesiredForwards
  <2>4. QED
    BY <2>2, <2>3
<1>2. forward.automatic
  OBVIOUS
<1> HIDE DEF forward
<1>3. ASSUME NEW f PROVE /\ DesiredImport(f, FALSE).automatic = FALSE
                         /\ DesiredPublication(f).automatic = FALSE
  BY DEF DesiredImport, DesiredPublication
<1>4. forward \in AutomaticForwards(int, lst)
  BY <1>1, <1>2, <1>3 DEF FixedForwards
<1>5. PICK port \in DOMAIN lst \ TakenPorts(int) :
           \E f \in Candidates(int, lst[port], port) : forward = DesiredImport(f, TRUE)
  BY <1>4 DEF AutomaticForwards
<1> PICK f \in Candidates(int, lst[port], port) : forward = DesiredImport(f, TRUE)
  BY <1>5
<1>6. f.remote = port
  BY <1>5 DEF Candidates
<1>7. forward.preferred.direction = Import /\ forward.preferred.remote = port
  BY <1>5, <1>6 DEF DesiredImport
<1>8. key.port = port
  BY <1>1, <1>7 DEF KeyOf, Import, Publication
<1>9. QED
  BY <1>5, <1>8 DEF TakenPorts

----------------------------------------------------------------------------
(* What one reconcile may do *)

\* A reconcile starts no publication on a port that an import may be bound to:
\* that import is stopped, not kept, and the publication waits for it.
LEMMA ReconcileStartsClear ==
    ASSUME NEW want, NEW reserved, NEW fw, NEW st, NEW tk,
           WantTyped(want), Consistent(fw, st, tk),
           ReconcileForwards(want, reserved, fw, st, tk),
           NEW key \in DOMAIN forwardWorkers' \ DOMAIN fw,
           key.direction = Publication,
           want[key].preferred.local \in reserved,
           NEW w \in Worker, w[1].direction = Import,
           tk[w].pc \in {"forward", "bound", "active"}
    PROVE  Candidate(tk[w]) # states'[key].local
<1> DEFINE running == Snapshot(fw, st, tk)
           plan == PlanReconciliation(want, running, reserved)
           port == want[key].preferred.local
<1>1. /\ states' = [k \in Explained(st, want, fw) \cup plan.wait \cup plan.start |->
              IF k \in plan.wait \cup plan.start THEN StartingStatus(want[k])
              ELSE IF k \in plan.keep THEN [st[k] EXCEPT !.automatic = want[k].automatic]
              ELSE st[k]]
      /\ DOMAIN forwardWorkers' = DOMAIN fw \cup plan.start
  BY DEF ReconcileForwards
<1>2. /\ plan.keep = KeptKeys(want, running, reserved)
      /\ plan.stop = DOMAIN running \ plan.keep
      /\ plan.wait = {k \in MissingKeys(want, running, plan.keep) :
            /\ k.direction = Publication
            /\ want[k].preferred.local \in StoppingPorts(running, plan.stop, reserved)}
      /\ plan.start = MissingKeys(want, running, plan.keep) \ plan.wait
  BY DEF PlanReconciliation
<1>3. DOMAIN running = DOMAIN fw /\ \A k \in DOMAIN fw : running[k].status = st[k]
  BY DEF Snapshot
<1> HIDE DEF plan, running
<1>4. key \in plan.start
  BY <1>1
<1>5. states'[key].local = port
  <2>1. states'[key] = StartingStatus(want[key])
    BY <1>1, <1>4
  <2>2. QED
    BY <2>1 DEF StartingStatus, StatusOf
<1>6. port \notin StoppingPorts(running, plan.stop, reserved)
  BY <1>2, <1>4
<1>7. SUFFICES ASSUME Candidate(tk[w]) = port PROVE FALSE
  BY <1>5
<1>8. w[1] \in DOMAIN fw /\ st[w[1]].state \in {"starting", "active"} /\ st[w[1]].local = port
  BY <1>7 DEF Consistent, Linked, Reported
<1>9. UsesReservedPort(w[1], running[w[1]].status, reserved)
  BY <1>3, <1>8 DEF UsesReservedPort
<1>10. w[1] \in plan.stop
  BY <1>2, <1>3, <1>8, <1>9 DEF KeptKeys
<1>11. port \in StoppingPorts(running, plan.stop, reserved)
  BY <1>3, <1>8, <1>9, <1>10 DEF StoppingPorts
<1>12. QED
  BY <1>6, <1>11

\* A reconcile does not touch a goroutine that serves what is still wanted, in
\* the same way, on a port that is not reserved.
LEMMA ReconcileKeeps ==
    ASSUME NEW want, NEW reserved, NEW fw, NEW st, NEW tk,
           Consistent(fw, st, tk), ReconcileForwards(want, reserved, fw, st, tk),
           NEW w \in Worker, tk[w].pc = "active",
           w[1] \in DOMAIN want, SameForwardBehavior(tk[w].desired, want[w[1]]),
           Candidate(tk[w]) \notin reserved
    PROVE  task'[w] = tk[w]
<1> DEFINE running == Snapshot(fw, st, tk)
           plan == PlanReconciliation(want, running, reserved)
<1>1. task' = [v \in Worker |->
          IF v[1] \in plan.start /\ v[2] = Idle(tk, v[1]) THEN NewTask(want[v[1]])
          ELSE IF v[1] \in plan.stop /\ v[2] = fw[v[1]] THEN [tk[v] EXCEPT !.cancelled = TRUE]
          ELSE tk[v]]
  BY DEF ReconcileForwards
<1>2. plan.keep = KeptKeys(want, running, reserved) /\ plan.stop = DOMAIN running \ plan.keep
      /\ plan.start \subseteq MissingKeys(want, running, plan.keep)
  BY DEF PlanReconciliation
<1>3. w[1] \in DOMAIN fw /\ fw[w[1]] = w[2] /\ w = <<w[1], w[2]>>
  BY DEF Consistent, Linked, Worker
<1>4. DOMAIN running = DOMAIN fw /\ running[w[1]].status = st[w[1]]
      /\ running[w[1]].desired = tk[w].desired
  BY <1>3 DEF Snapshot
<1> HIDE DEF plan, running
<1>5. ~UsesReservedPort(w[1], st[w[1]], reserved)
  BY DEF UsesReservedPort, Consistent, Reported
<1>6. w[1] \in plan.keep
  BY <1>2, <1>3, <1>4, <1>5 DEF KeptKeys
<1>7. w[1] \notin plan.start /\ w[1] \notin plan.stop
  BY <1>2, <1>3, <1>4, <1>6 DEF MissingKeys
<1>8. QED
  BY <1>1, <1>7

----------------------------------------------------------------------------
(* Every step is a reconcile, of the maps or of the maps without an ended   *)
(* worker, or it neither registers nor cancels anything.                    *)

ReconcilesFrom(fw, st, tk) ==
    /\ Consistent(fw, st, tk)
    /\ ReconcileForwards(Wanted', reservedLocalPorts', fw, st, tk)

Quiet ==
    /\ DOMAIN forwardWorkers' \subseteq DOMAIN forwardWorkers
    /\ \A v \in Worker : task'[v].cancelled => task[v].cancelled

\* A goroutine's own step cancels nothing.
LEMMA QuietTask ==
    ASSUME IInv, NEW w \in Worker, NEW t, t.cancelled => task[w].cancelled,
           task' = [task EXCEPT ![w] = t], forwardWorkers' = forwardWorkers
    PROVE  Quiet
<1>1. task \in [Worker -> Task]
  BY RunningTask
<1>2. QED
  BY <1>1 DEF Quiet

\* The same of a step that only moves a goroutine to another place.
LEMMA QuietPc ==
    ASSUME IInv, NEW w \in Worker, NEW pc,
           \/ task' = [task EXCEPT ![w].pc = pc]
           \/ task' = [task EXCEPT ![w] = [@ EXCEPT !.pc = pc, !.offset = 0]],
           forwardWorkers' = forwardWorkers
    PROVE  Quiet
<1>1. task \in [Worker -> Task] /\ task[w] \in Task
  BY RunningTask
<1>2. \A v \in Worker : task'[v].cancelled = task[v].cancelled
  BY <1>1, MovedTask
<1>3. QED
  BY <1>2 DEF Quiet

\* The classification of a goroutine's steps.
LEMMA WorkerEffect ==
    ASSUME IInv, NEW w \in Worker, WorkerStep(w) \/ BackendStep(w)
    PROVE  \/ Quiet
           \/ /\ ForwardStopped(w) /\ ~closed
              /\ ReconcilesFrom(Without(forwardWorkers, w[1]), Without(states, w[1]),
                                [task EXCEPT ![w] = IdleTask])
<1>1. task[w] \in Task /\ task \in [Worker -> Task] /\ Candidate(task[w]) \in Port
  BY RunningTask
<1>2. CASE CheckReserved(w)
  <2>1. forwardWorkers' = forwardWorkers
    BY <1>2 DEF CheckReserved, WorkerUnchanged
  <2>2. CASE task' = [task EXCEPT ![w] = NextPort(@)]
    <3>1. NextPort(task[w]).cancelled = task[w].cancelled
      BY <1>1, NextPortType
    <3>2. QED
      BY <2>1, <2>2, <3>1, QuietTask
  <2>3. CASE task' = [task EXCEPT ![w].pc = "claim"]
    BY <2>1, <2>3, QuietPc
  <2>4. QED
    BY <1>2, <2>2, <2>3 DEF CheckReserved
<1>3. CASE PortConflict(w)
  <2>1. NextPort(task[w]).cancelled = task[w].cancelled
    BY <1>1, NextPortType
  <2>2. task' = [task EXCEPT ![w] = NextPort(task[w])] /\ forwardWorkers' = forwardWorkers
    BY <1>3 DEF PortConflict, WorkerUnchanged
  <2>3. QED
    BY <2>1, <2>2, QuietTask
<1>4. CASE ClaimPort(w) \/ ForwardFailed(w)
  <2>1. PICK pc : task' = [task EXCEPT ![w].pc = pc]
    BY <1>4 DEF ClaimPort, ForwardFailed
  <2>2. forwardWorkers' = forwardWorkers
    BY <1>4 DEF ClaimPort, ForwardFailed, WorkerUnchanged
  <2>3. QED
    BY <2>1, <2>2, QuietPc
<1>5. CASE Ready(w) \/ RetryTimer(w) \/ RetryCancelled(w) \/ Bind(w)
           \/ TransportError(w) \/ ForwardCancelled(w)
  <2>1. \E pc : \/ task' = [task EXCEPT ![w].pc = pc]
                \/ task' = [task EXCEPT ![w] = [@ EXCEPT !.pc = pc, !.offset = 0]]
    BY <1>5 DEF Ready, RetryTimer, RetryCancelled, Bind, TransportError, ForwardCancelled
  <2>2. forwardWorkers' = forwardWorkers
    BY <1>5 DEF Ready, RetryTimer, RetryCancelled, Bind, TransportError, ForwardCancelled,
                WorkerUnchanged
  <2>3. QED
    BY <2>1, <2>2, QuietPc
<1>6. CASE ForwardStopped(w)
  <2> DEFINE fw == Without(forwardWorkers, w[1])
             st == Without(states, w[1])
             tk == [task EXCEPT ![w] = IdleTask]
  <2>1. Consistent(forwardWorkers, states, task)
    BY DEF IInv
  <2>2. Registered(w)
    BY <1>6, <2>1 DEF ForwardStopped, Consistent, Linked, Registered
  <2>3. Consistent(fw, st, tk)
    BY <2>1, <2>2, WithoutConsistent
  <2>4. CASE ~closed
    <3>1. ReconcileForwards(Wanted', reservedLocalPorts', fw, st, tk)
      BY <1>6, <2>2, <2>4 DEF ForwardStopped, ReplacesStopped, Wanted
    <3> HIDE DEF fw, st, tk
    <3>2. ReconcilesFrom(fw, st, tk)
      BY <2>3, <3>1 DEF ReconcilesFrom
    <3>3. QED
      BY <1>6, <2>4, <3>2 DEF fw, st, tk
  <2>5. CASE closed
    <3>1. task' = tk /\ forwardWorkers' = fw
      BY <1>6, <2>2, <2>5 DEF ForwardStopped, ReplacesStopped
    <3>2. DOMAIN forwardWorkers' \subseteq DOMAIN forwardWorkers
      BY <3>1 DEF Without
    <3>3. \A v \in Worker : task'[v].cancelled => task[v].cancelled
      BY <1>1, <3>1 DEF IdleTask
    <3>4. QED
      BY <3>2, <3>3 DEF Quiet
  <2>6. QED
    BY <2>4, <2>5
<1>7. QED
  BY <1>2, <1>3, <1>4, <1>5, <1>6 DEF WorkerStep, BackendStep

\* The classification of all steps.
LEMMA StepEffect ==
    ASSUME IInv, [Next]_vars
    PROVE  \/ Quiet
           \/ ReconcilesFrom(forwardWorkers, states, task)
           \/ \E w \in Worker :
                /\ ForwardStopped(w) /\ ~closed
                /\ ReconcilesFrom(Without(forwardWorkers, w[1]), Without(states, w[1]),
                                  [task EXCEPT ![w] = IdleTask])
<1>1. Consistent(forwardWorkers, states, task)
  BY DEF IInv
<1>2. ASSUME NEW raw \in RawIntents, UpdateIntent(raw)
      PROVE  ReconcilesFrom(forwardWorkers, states, task)
  BY <1>1, <1>2 DEF UpdateIntent, Wanted, ReconcilesFrom
<1>3. ASSUME NEW observed \in Observations, SetListeners(observed)
      PROVE  ReconcilesFrom(forwardWorkers, states, task)
  BY <1>1, <1>3 DEF SetListeners, Wanted, ReconcilesFrom
<1>4. CASE DiscoveryFailed /\ ~closed
  BY <1>1, <1>4 DEF DiscoveryFailed, Wanted, ReconcilesFrom
<1>5. CASE DiscoveryFailed /\ closed
  BY <1>5 DEF DiscoveryFailed, Quiet
<1>6. CASE Close \/ CloseBackend \/ ObserveStart \/ ObserveReturns \/ ObserveRetry
  BY <1>6 DEF Close, CloseBackend, ObserveStart, ObserveReturns, ObserveRetry, Quiet
<1>7. CASE UNCHANGED vars
  BY <1>7 DEF vars, Quiet
<1>8. QED
  BY <1>2, <1>3, <1>4, <1>5, <1>6, <1>7, WorkerEffect DEF Next, ObserverStep, Terminated

----------------------------------------------------------------------------
(* The theorems *)

\* IInv holds before and after every step of a behaviour.
LEMMA InvariantSteps == Spec => [][IInv /\ IInv' /\ [Next]_vars]_vars
BY Invariance, PTL DEF Spec

\* No reconcile, whoever causes it, starts a publication on a local port that an
\* import goroutine of this host may be bound to.
THEOREM StartsClear == Spec => PublicationStartsClear
<1> DEFINE Clear == \A key \in DOMAIN forwardWorkers' :
               key.direction = Publication /\ key \notin DOMAIN forwardWorkers
               => \A w \in Worker : ~HoldsLocalPort(w, states'[key].local)
<1>1. ASSUME IInv, IInv', [Next]_vars PROVE Clear
  <2> SUFFICES ASSUME NEW key \in DOMAIN forwardWorkers', key.direction = Publication,
                      key \notin DOMAIN forwardWorkers,
                      NEW w \in Worker, w[1].direction = Import, Serving(w)
               PROVE  Candidate(task[w]) # states'[key].local
    BY DEF HoldsLocalPort
  <2>1. /\ intent' \in Intent /\ listeners' \in Listeners
        /\ reservedLocalPorts' = ReservedLocalPorts(intent')
        /\ WantTyped(Wanted')
    BY <1>1, WantedTyped DEF IInv, RestTyped, Wanted
  <2>2. ASSUME NEW fw, NEW st, NEW tk, ReconcilesFrom(fw, st, tk),
               key \notin DOMAIN fw, tk[w] = task[w]
        PROVE  Candidate(task[w]) # states'[key].local
    <3>1. DOMAIN forwardWorkers' \subseteq DOMAIN fw \cup DOMAIN Wanted'
      <4>1. DOMAIN forwardWorkers' =
              DOMAIN fw \cup PlanReconciliation(Wanted', Snapshot(fw, st, tk), reservedLocalPorts').start
        BY <2>2 DEF ReconcilesFrom, ReconcileForwards
      <4>2. PlanReconciliation(Wanted', Snapshot(fw, st, tk), reservedLocalPorts').start
              \subseteq DOMAIN Wanted'
        BY DEF PlanReconciliation, MissingKeys
      <4>3. QED
        BY <4>1, <4>2
    <3>2. Wanted'[key].preferred.local \in reservedLocalPorts'
      BY <2>1, <2>2, <3>1, PublishedPortReserved DEF Wanted
    <3>3. Consistent(fw, st, tk)
          /\ ReconcileForwards(Wanted', reservedLocalPorts', fw, st, tk)
      BY <2>2 DEF ReconcilesFrom
    <3>4. tk[w].pc \in {"forward", "bound", "active"}
      BY <2>2 DEF Serving
    <3>5. key \in DOMAIN forwardWorkers' \ DOMAIN fw
      BY <2>2
    <3>6. Candidate(tk[w]) # states'[key].local
      BY <2>1, <3>2, <3>3, <3>4, <3>5, ReconcileStartsClear
    <3>7. QED
      BY <2>2, <3>6
  <2>3. CASE ReconcilesFrom(forwardWorkers, states, task)
    BY <2>2, <2>3
  <2>4. ASSUME NEW v \in Worker, ForwardStopped(v),
               ReconcilesFrom(Without(forwardWorkers, v[1]), Without(states, v[1]),
                              [task EXCEPT ![v] = IdleTask])
        PROVE  Candidate(task[w]) # states'[key].local
    <3>1. v # w
      BY <2>4 DEF ForwardStopped, Serving
    <3>2. [task EXCEPT ![v] = IdleTask][w] = task[w]
      BY <1>1, <3>1, RunningTask
    <3>3. key \notin DOMAIN Without(forwardWorkers, v[1])
      BY DEF Without
    <3>4. QED
      BY <2>2, <2>4, <3>2, <3>3
  <2>5. ~Quiet
    BY DEF Quiet
  <2>6. QED
    BY <1>1, <2>3, <2>4, <2>5, StepEffect
<1>2. QED
  <2>1. [IInv /\ IInv' /\ [Next]_vars]_vars => [Clear]_vars
    <3>1. CASE UNCHANGED vars
      BY <3>1
    <3>2. CASE IInv /\ IInv' /\ [Next]_vars
      BY <1>1, <3>2
    <3>3. QED
      BY <3>1, <3>2
  <2>2. [][IInv /\ IInv' /\ [Next]_vars]_vars => [][Clear]_vars
    BY <2>1, PTL
  <2>3. PublicationStartsClear <=> [][Clear]_vars
    BY DEF PublicationStartsClear
  <2>4. QED
    BY <2>2, <2>3, InvariantSteps

\* An active forward that stays desired with the same behaviour on a port that
\* is not reserved is not cancelled by any critical section.
THEOREM ActiveUndisturbed == Spec => ActiveForwardUndisturbed
<1> DEFINE Undisturbed == \A w \in Worker :
               /\ task[w].pc = "active" /\ ~task[w].cancelled /\ ~closed
               /\ w[1] \in DOMAIN Wanted'
               /\ BehaviorOf(task[w].desired) = BehaviorOf(Wanted'[w[1]])
               /\ Candidate(task[w]) \notin reservedLocalPorts'
               => ~task'[w].cancelled
<1>1. ASSUME IInv, IInv', [Next]_vars PROVE Undisturbed
  <2> SUFFICES ASSUME NEW w \in Worker, task[w].pc = "active", ~task[w].cancelled,
                      w[1] \in DOMAIN Wanted',
                      BehaviorOf(task[w].desired) = BehaviorOf(Wanted'[w[1]]),
                      Candidate(task[w]) \notin reservedLocalPorts'
               PROVE  ~task'[w].cancelled
    OBVIOUS
  <2>1. ASSUME NEW fw, NEW st, NEW tk, ReconcilesFrom(fw, st, tk), tk[w] = task[w]
        PROVE  ~task'[w].cancelled
    <3>1. /\ Consistent(fw, st, tk)
          /\ ReconcileForwards(Wanted', reservedLocalPorts', fw, st, tk)
          /\ SameForwardBehavior(task[w].desired, Wanted'[w[1]])
      BY <2>1 DEF ReconcilesFrom, BehaviorOf, SameForwardBehavior
    <3>2. task'[w] = tk[w]
      BY <2>1, <3>1, ReconcileKeeps
    <3>3. QED
      BY <2>1, <3>2
  <2>2. CASE ReconcilesFrom(forwardWorkers, states, task)
    BY <2>1, <2>2
  <2>3. ASSUME NEW v \in Worker, ForwardStopped(v),
               ReconcilesFrom(Without(forwardWorkers, v[1]), Without(states, v[1]),
                              [task EXCEPT ![v] = IdleTask])
        PROVE  ~task'[w].cancelled
    <3>1. v # w
      BY <2>3 DEF ForwardStopped
    <3>2. [task EXCEPT ![v] = IdleTask][w] = task[w]
      BY <1>1, <3>1, RunningTask
    <3>3. QED
      BY <2>1, <2>3, <3>2
  <2>4. CASE Quiet
    BY <2>4 DEF Quiet
  <2>5. QED
    BY <1>1, <2>2, <2>3, <2>4, StepEffect
<1>2. QED
  <2>1. [IInv /\ IInv' /\ [Next]_vars]_vars => [Undisturbed]_vars
    BY <1>1
  <2>2. [][IInv /\ IInv' /\ [Next]_vars]_vars => [][Undisturbed]_vars
    BY <2>1, PTL
  <2>3. ActiveForwardUndisturbed <=> [][Undisturbed]_vars
    BY DEF ActiveForwardUndisturbed
  <2>4. QED
    BY <2>2, <2>3, InvariantSteps

\* A listener at the remote end of a publication has no automatic worker but one
\* that is being retired.
THEOREM NoLoop == Spec => []NoAutomaticLoop
<1>1. IInv => NoAutomaticLoop
  <2> SUFFICES ASSUME IInv, ~closed, NEW key \in DOMAIN forwardWorkers,
                      states[key].automatic, ~task[WorkerOf(key)].cancelled
               PROVE  key.port \notin {f.remote : f \in intent.published}
    BY DEF NoAutomaticLoop
  <2>1. key \in DOMAIN Wanted /\ Wanted[key].automatic
    BY DEF IInv, Reconciled, Matching, WorkerOf
  <2>2. intent \in Intent /\ listeners \in Listeners
    BY DEF IInv, RestTyped
  <2>3. QED
    BY <2>1, <2>2, AutomaticNotPublished DEF Wanted
<1>2. QED
  BY <1>1, Invariance, PTL

\* After Close no critical section starts a goroutine or registers a worker.
THEOREM NothingStarts == Spec => NothingStartsAfterClose
<1> DEFINE Ending == closed => /\ closed'
                               /\ DOMAIN forwardWorkers' \subseteq DOMAIN forwardWorkers
                               /\ \A w \in Worker : Running(w)' => Running(w)
<1>1. ASSUME IInv, [Next]_vars PROVE Ending
  <2> SUFFICES ASSUME closed
               PROVE  /\ closed'
                      /\ DOMAIN forwardWorkers' \subseteq DOMAIN forwardWorkers
                      /\ \A w \in Worker : Running(w)' => Running(w)
    OBVIOUS
  <2>1. task \in [Worker -> Task]
    BY <1>1 DEF IInv, Consistent, MapsTyped
  <2>2. CASE UNCHANGED vars
    BY <2>2 DEF vars, Running
  <2>3. CASE CloseBackend \/ ObserverStep
    BY <2>3 DEF CloseBackend, ObserverStep, ObserveStart, ObserveReturns, DiscoveryFailed,
                ObserveRetry, Running
  <2>4. ASSUME NEW w \in Worker, WorkerStep(w) \/ BackendStep(w)
        PROVE  /\ closed' = closed
               /\ DOMAIN forwardWorkers' \subseteq DOMAIN forwardWorkers
               /\ \A v \in Worker : v # w => task'[v] = task[v]
               /\ task[w].pc # "idle"
    <3>1. CASE ForwardStopped(w)
      BY <2>1, <3>1 DEF ForwardStopped, ReplacesStopped, Without
    <3>2. CASE CheckReserved(w) \/ ClaimPort(w) \/ Ready(w) \/ ForwardFailed(w)
               \/ RetryTimer(w) \/ RetryCancelled(w)
      BY <2>1, <3>2 DEF CheckReserved, ClaimPort, Ready, ForwardFailed, RetryTimer,
                        RetryCancelled, WorkerUnchanged
    <3>3. CASE BackendStep(w)
      BY <2>1, <3>3 DEF BackendStep, Bind, PortConflict, TransportError, ForwardCancelled,
                        Serving, WorkerUnchanged
    <3>4. QED
      BY <2>4, <3>1, <3>2, <3>3 DEF WorkerStep
  <2>5. QED
    BY <1>1, <2>2, <2>3, <2>4 DEF Next, UpdateIntent, Close, SetListeners, Terminated, Running
<1>2. QED
  <2>1. [IInv /\ IInv' /\ [Next]_vars]_vars => [Ending]_vars
    BY <1>1
  <2>2. [][IInv /\ IInv' /\ [Next]_vars]_vars => [][Ending]_vars
    BY <2>1, PTL
  <2>3. NothingStartsAfterClose <=> [][Ending]_vars
    BY DEF NothingStartsAfterClose
  <2>4. QED
    BY <2>2, <2>3, InvariantSteps

\* The transport is closed when the observer is done and no worker runs, and
\* nothing starts after that.
THEOREM ClosedLast == Spec => []BackendClosedLast
<1>1. Init => BackendClosedLast
  BY DEF Init, BackendClosedLast
<1>2. ASSUME IInv, BackendClosedLast, [Next]_vars PROVE BackendClosedLast'
  <2>1. task \in [Worker -> Task]
    BY <1>2 DEF IInv, Consistent, MapsTyped
  <2>2. CASE ~backendClosed
    <3>1. CASE CloseBackend
      BY <3>1 DEF CloseBackend, BackendClosedLast, Running
    <3>2. CASE ~CloseBackend
      <4>1. backendClosed' = backendClosed
        BY <1>2, <3>2 DEF Next, UpdateIntent, Close, ObserverStep, ObserveStart,
           ObserveReturns, DiscoveryFailed, ObserveRetry, SetListeners, WorkerStep,
           BackendStep, CheckReserved, ClaimPort, Ready, ForwardFailed, RetryTimer,
           RetryCancelled, ForwardStopped, Bind, PortConflict, TransportError,
           ForwardCancelled, WorkerUnchanged, Terminated, vars
      <4>2. QED
        BY <2>2, <4>1 DEF BackendClosedLast
    <3>3. QED
      BY <3>1, <3>2
  <2>3. CASE backendClosed
    <3>1. closed /\ observer = "done" /\ \A w \in Worker : task[w].pc = "idle"
      BY <1>2, <2>3 DEF BackendClosedLast, Running
    <3>2. UNCHANGED vars
      BY <1>2, <2>3, <3>1 DEF Next, UpdateIntent, Close, CloseBackend, ObserverStep,
         ObserveStart, ObserveReturns, DiscoveryFailed, ObserveRetry, SetListeners,
         WorkerStep, BackendStep, CheckReserved, ClaimPort, Ready, ForwardFailed, RetryTimer,
         RetryCancelled, ForwardStopped, Bind, PortConflict, TransportError,
         ForwardCancelled, Serving, Terminated
    <3>3. QED
      BY <1>2, <3>2 DEF vars, BackendClosedLast, Running
  <2>4. QED
    BY <2>2, <2>3
<1>3. QED
  BY <1>1, <1>2, Invariance, PTL DEF Spec

----------------------------------------------------------------------------
(* How far a retired goroutine and a closed manager are from their ends:    *)
(* the part of RetiredWorkerEnds and of CloseCompletes that fairness does   *)
(* not decide.                                                              *)

\* The most steps a cancelled goroutine has left in this place.  The retry timer
\* may win against the cancellation, and the new attempt may find every port it
\* tries reserved before it asks for a forward and is refused.
Rank(t) ==
    CASE t.pc = "idle" -> 0
      [] t.pc = "exit" -> 1
      [] t.pc \in {"claim", "active", "failed"} -> 2
      [] t.pc = "bound" -> 3
      [] t.pc = "forward" -> 4
      [] t.pc = "check" -> 3 + (MaxOffset - t.offset)
      [] t.pc = "retry" -> 4 + MaxOffset

\* The same of the observer, after Close.
ObserverRank(place) ==
    CASE place = "done" -> 0
      [] place = "observing" -> 1
      [] place = "start" -> 2
      [] place = "retry" -> 3
      [] place = "failed" -> 4

\* A cancelled goroutine stays cancelled, and each step of it brings it closer to
\* the one that unregisters it.
RetiringAdvances ==
    \A w \in Worker : Running(w) /\ Cancelled(w) =>
        \/ ForwardStopped(w)
        \/ /\ Cancelled(w)'
           /\ \/ task'[w] = task[w]
              \/ Running(w)' /\ Rank(task'[w]) < Rank(task[w])

\* A closed manager only winds down: one goroutine or the observer comes closer to
\* its end, or the transport is closed.
ShutdownAdvances ==
    closed =>
        \/ CloseBackend
        \/ ObserverRank(observer') < ObserverRank(observer) /\ UNCHANGED task
        \/ /\ observer' = observer
           /\ \E w \in Worker :
                 /\ Rank(task'[w]) < Rank(task[w])
                 /\ \A v \in Worker \ {w} : task'[v] = task[v]

\* A cancelled goroutine's own step.
LEMMA RetiringStep ==
    ASSUME IInv, NEW w \in Worker, Cancelled(w),
           (WorkerStep(w) /\ ~ForwardStopped(w)) \/ BackendStep(w)
    PROVE  /\ Running(w) /\ Running(w)'
           /\ Rank(task'[w]) < Rank(task[w])
           /\ task'[w].cancelled = task[w].cancelled
           /\ closed' = closed /\ observer' = observer
           /\ \A v \in Worker \ {w} : task'[v] = task[v]
<1>1. /\ task \in [Worker -> Task] /\ task[w] \in Task /\ Candidate(task[w]) \in Port
      /\ task[w].offset \in 0 .. MaxOffset
  BY RunningTask DEF Task
<1>2. closed' = closed /\ observer' = observer
  BY DEF WorkerStep, BackendStep, CheckReserved, ClaimPort, Ready, ForwardFailed, RetryTimer,
         RetryCancelled, Bind, PortConflict, TransportError, ForwardCancelled, WorkerUnchanged
<1>3. ASSUME NEW pc, task' = [task EXCEPT ![w].pc = pc]
      PROVE  /\ task'[w].pc = pc /\ task'[w].offset = task[w].offset
             /\ task'[w].cancelled = task[w].cancelled
             /\ \A v \in Worker \ {w} : task'[v] = task[v]
  BY <1>1, <1>3 DEF Task
<1>4. CASE CheckReserved(w)
  <2>1. task[w].pc = "check"
    BY <1>4 DEF CheckReserved
  <2>2. CASE task' = [task EXCEPT ![w] = NextPort(@)]
    <3> DEFINE t == NextPort(task[w])
    <3>1. task'[w] = t /\ \A v \in Worker \ {w} : task'[v] = task[v]
      BY <1>1, <2>2
    <3>2. t.cancelled = task[w].cancelled /\ t.pc \in {"check", "failed"}
      BY <1>1, NextPortType
    <3>3. t.pc = "check" => t.offset = task[w].offset + 1 /\ t.offset \in 0 .. MaxOffset
      <4>1. t.pc = "failed" \/ t = [task[w] EXCEPT !.pc = "check", !.offset = task[w].offset + 1]
        BY <1>1 DEF NextPort, Task
      <4>2. t \in Task
        BY <1>1, NextPortType
      <4>3. QED
        BY <1>1, <4>1, <4>2 DEF Task
    <3> HIDE DEF t
    <3>4. Rank(t) < Rank(task[w])
      BY <1>1, <2>1, <3>2, <3>3, MaxOffsetAssumption DEF Rank
    <3>5. QED
      BY <1>2, <2>1, <3>1, <3>2, <3>4 DEF Running
  <2>3. CASE task' = [task EXCEPT ![w].pc = "claim"]
    <3>1. Rank(task'[w]) < Rank(task[w])
      BY <1>1, <1>3, <2>1, <2>3, MaxOffsetAssumption DEF Rank
    <3>2. QED
      BY <1>2, <1>3, <2>1, <2>3, <3>1 DEF Running
  <2>4. QED
    BY <1>4, <2>2, <2>3 DEF CheckReserved
<1>5. CASE PortConflict(w) \/ TransportError(w)
  BY <1>5 DEF PortConflict, TransportError
<1>6. ASSUME NEW from, NEW to, task[w].pc = from, task' = [task EXCEPT ![w].pc = to],
             \/ from \in {"claim", "failed"} /\ to = "exit"
             \/ from = "bound" /\ to = "active"
             \/ from = "retry" /\ to \in {"check", "exit"}
             \/ from = "forward" /\ to = "bound"
             \/ from \in {"forward", "bound", "active"} /\ to = "exit"
      PROVE  Running(w) /\ Running(w)' /\ Rank(task'[w]) < Rank(task[w])
  <2>1. task'[w].pc = to /\ task'[w].offset = task[w].offset
    BY <1>3, <1>6
  <2>2. from # "idle" /\ to # "idle"
    BY <1>6
  <2>3. Rank(task'[w]) < Rank(task[w])
    BY <1>1, <1>6, <2>1, MaxOffsetAssumption DEF Rank
  <2>4. QED
    BY <1>6, <2>1, <2>2, <2>3 DEF Running
<1>7. CASE ClaimPort(w) \/ ForwardFailed(w)
  <2>1. task' = [task EXCEPT ![w].pc = "exit"] /\ task[w].pc \in {"claim", "failed"}
    BY <1>7 DEF ClaimPort, ForwardFailed
  <2>2. QED
    BY <1>2, <1>3, <1>6, <2>1
<1>8. CASE Ready(w) \/ RetryTimer(w) \/ RetryCancelled(w) \/ Bind(w) \/ ForwardCancelled(w)
  <2>1. PICK to : /\ task' = [task EXCEPT ![w].pc = to]
                  /\ \/ task[w].pc = "bound" /\ to = "active"
                     \/ task[w].pc = "retry" /\ to \in {"check", "exit"}
                     \/ task[w].pc = "forward" /\ to = "bound"
                     \/ task[w].pc \in {"forward", "bound", "active"} /\ to = "exit"
    BY <1>8 DEF Ready, RetryTimer, RetryCancelled, Bind, ForwardCancelled, Serving
  <2>2. QED
    BY <1>2, <1>3, <1>6, <2>1
<1>9. QED
  BY <1>4, <1>5, <1>7, <1>8 DEF WorkerStep, BackendStep

\* A reconcile cancels a goroutine or leaves it alone: it never restarts one that
\* still runs.
LEMMA ReconcileTasks ==
    ASSUME NEW want, NEW reserved, NEW fw, NEW st, NEW tk,
           Consistent(fw, st, tk), ReconcileForwards(want, reserved, fw, st, tk),
           NEW w \in Worker, tk[w].pc # "idle"
    PROVE  task'[w] = tk[w] \/ task'[w] = [tk[w] EXCEPT !.cancelled = TRUE]
<1> DEFINE plan == PlanReconciliation(want, Snapshot(fw, st, tk), reserved)
<1>1. task' = [v \in Worker |->
          IF v[1] \in plan.start /\ v[2] = Idle(tk, v[1]) THEN NewTask(want[v[1]])
          ELSE IF v[1] \in plan.stop /\ v[2] = fw[v[1]] THEN [tk[v] EXCEPT !.cancelled = TRUE]
          ELSE tk[v]]
  BY DEF ReconcileForwards
<1>2. plan.start \cap DOMAIN fw = {}
  BY DEF PlanReconciliation, MissingKeys, Snapshot
<1>3. w[1] \in DOMAIN fw
  BY DEF Consistent, Linked
<1> HIDE DEF plan
<1>4. QED
  BY <1>1, <1>2, <1>3

\* A cancelled goroutine survives a reconcile as it is.
LEMMA ReconcileLeavesRetired ==
    ASSUME IInv, NEW fw, NEW st, NEW tk, ReconcilesFrom(fw, st, tk),
           NEW w \in Worker, tk[w] = task[w], Running(w), task[w].cancelled
    PROVE  task'[w] = task[w]
<1>1. task[w] \in Task
  BY RunningTask
<1>2. [task[w] EXCEPT !.cancelled = TRUE] = task[w]
  BY <1>1 DEF Task
<1>3. Consistent(fw, st, tk)
      /\ ReconcileForwards(Wanted', reservedLocalPorts', fw, st, tk)
  BY DEF ReconcilesFrom
<1>4. tk[w].pc # "idle"
  BY DEF Running
<1>5. QED
  BY <1>2, <1>3, <1>4, ReconcileTasks


\* A cancelled goroutine is retired by every step, its own or another's.
LEMMA RetiringNext == IInv /\ IInv' /\ [Next]_vars => RetiringAdvances
<1> SUFFICES ASSUME IInv, IInv', [Next]_vars, NEW w \in Worker, Running(w), Cancelled(w),
                    ~ForwardStopped(w)
             PROVE  /\ Cancelled(w)'
                    /\ \/ task'[w] = task[w]
                       \/ Running(w)' /\ Rank(task'[w]) < Rank(task[w])
  BY DEF RetiringAdvances
<1>1. closed => closed'
  BY DEF Next, UpdateIntent, Close, CloseBackend, ObserverStep, ObserveStart, ObserveReturns,
         DiscoveryFailed, ObserveRetry, SetListeners, WorkerStep, BackendStep, CheckReserved,
         ClaimPort, Ready, ForwardFailed, RetryTimer, RetryCancelled, ForwardStopped, Bind,
         PortConflict, TransportError, ForwardCancelled, WorkerUnchanged, Terminated, vars
<1>2. CASE task'[w] = task[w]
  BY <1>1, <1>2 DEF Cancelled
<1>3. CASE WorkerStep(w) \/ BackendStep(w)
  BY <1>3, RetiringStep DEF Cancelled
<1>4. ASSUME NEW v \in Worker, v # w, WorkerStep(v) \/ BackendStep(v)
      PROVE  task'[w] = task[w]
  <2>1. task \in [Worker -> Task]
    BY RunningTask
  <2>2. CASE ForwardStopped(v) /\ ~closed /\ Registered(v)
    <3> DEFINE fw == Without(forwardWorkers, v[1])
               st == Without(states, v[1])
               tk == [task EXCEPT ![v] = IdleTask]
    <3>1. Consistent(fw, st, tk)
      BY <2>2, WithoutConsistent DEF IInv
    <3>2. ReconcileForwards(Wanted', reservedLocalPorts', fw, st, tk)
      BY <2>2 DEF ForwardStopped, ReplacesStopped, Wanted
    <3>3. tk[w] = task[w] /\ task[w].cancelled
      BY <1>4, <2>1, <2>2 DEF Cancelled
    <3> HIDE DEF fw, st, tk
    <3>4. ReconcilesFrom(fw, st, tk)
      BY <3>1, <3>2 DEF ReconcilesFrom
    <3>5. QED
      BY <3>3, <3>4, ReconcileLeavesRetired
  <2>3. CASE ForwardStopped(v) /\ (closed \/ ~Registered(v))
    BY <1>4, <2>1, <2>3 DEF ForwardStopped, ReplacesStopped
  <2>4. CASE ~ForwardStopped(v)
    BY <1>4, <2>1, <2>4 DEF WorkerStep, BackendStep, CheckReserved, ClaimPort, Ready,
       ForwardFailed, RetryTimer, RetryCancelled, Bind, PortConflict, TransportError,
       ForwardCancelled
  <2>5. QED
    BY <2>2, <2>3, <2>4
<1>5. ASSUME ~closed, ReconcilesFrom(forwardWorkers, states, task)
      PROVE  task'[w] = task[w]
  BY <1>5, ReconcileLeavesRetired DEF Cancelled
<1>6. Consistent(forwardWorkers, states, task)
  BY DEF IInv
<1>7. ASSUME NEW raw \in RawIntents, UpdateIntent(raw) PROVE task'[w] = task[w]
  BY <1>5, <1>6, <1>7 DEF UpdateIntent, Wanted, ReconcilesFrom
<1>8. ASSUME NEW observed \in Observations, SetListeners(observed) PROVE task'[w] = task[w]
  BY <1>5, <1>6, <1>8 DEF SetListeners, Wanted, ReconcilesFrom
<1>9. ASSUME DiscoveryFailed PROVE task'[w] = task[w]
  <2>1. CASE closed
    BY <1>9, <2>1 DEF DiscoveryFailed
  <2>2. CASE ~closed
    <3>1. ReconcileForwards(Wanted', reservedLocalPorts', forwardWorkers, states, task)
      BY <1>9, <2>2 DEF DiscoveryFailed, Wanted
    <3>2. QED
      BY <1>5, <1>6, <2>2, <3>1 DEF ReconcilesFrom
  <2>3. QED
    BY <2>1, <2>2
<1>10. ASSUME Close \/ CloseBackend \/ ObserveStart \/ ObserveReturns \/ ObserveRetry \/ UNCHANGED vars
       PROVE  task' = task
  BY <1>10 DEF Close, CloseBackend, ObserveStart, ObserveReturns, ObserveRetry, vars
<1>11. QED
  BY <1>2, <1>3, <1>4, <1>7, <1>8, <1>9, <1>10 DEF Next, ObserverStep, Terminated

\* Every step of a closed manager but a stutter winds it down.
LEMMA ShutdownNext == IInv /\ [Next]_vars => [ShutdownAdvances]_vars
<1> SUFFICES ASSUME IInv, Next, closed
             PROVE  ShutdownAdvances \/ UNCHANGED vars
  BY DEF ShutdownAdvances
<1>1. CASE ObserverStep
  <2>1. CASE ObserveStart
    BY <2>1 DEF ObserveStart, ObserverRank, ShutdownAdvances
  <2>2. CASE ObserveReturns
    BY <2>2 DEF ObserveReturns, ObserverRank, ShutdownAdvances
  <2>3. CASE DiscoveryFailed
    <3>1. observer = "failed" /\ observer' = "retry" /\ task' = task
      BY <2>3 DEF DiscoveryFailed
    <3>2. QED
      BY <3>1 DEF ObserverRank, ShutdownAdvances
  <2>4. CASE ObserveRetry
    BY <2>4 DEF ObserveRetry, ObserverRank, ShutdownAdvances
  <2>5. QED
    BY <1>1, <2>1, <2>2, <2>3, <2>4 DEF ObserverStep
<1>2. ASSUME NEW w \in Worker, ForwardStopped(w) PROVE ShutdownAdvances
  <2>1. task \in [Worker -> Task]
    BY RunningTask
  <2>2. task' = [task EXCEPT ![w] = IdleTask] /\ observer' = observer /\ task[w].pc = "exit"
    BY <1>2 DEF ForwardStopped, ReplacesStopped
  <2>3. task'[w].pc = "idle" /\ \A v \in Worker \ {w} : task'[v] = task[v]
    BY <2>1, <2>2 DEF IdleTask
  <2>4. Rank(task'[w]) < Rank(task[w])
    BY <2>2, <2>3 DEF Rank
  <2>5. QED
    BY <2>2, <2>3, <2>4 DEF ShutdownAdvances
<1>3. ASSUME NEW w \in Worker, WorkerStep(w) \/ BackendStep(w), ~ForwardStopped(w)
      PROVE  ShutdownAdvances
  BY <1>3, RetiringStep DEF ShutdownAdvances, Cancelled
<1>4. QED
  BY <1>1, <1>2, <1>3 DEF Next, UpdateIntent, Close, SetListeners, Terminated, ShutdownAdvances

\* A cancelled worker never leaves its way out: it stays cancelled, no reconcile
\* restarts its goroutine, and its own steps, at most MaxOffset + 4 of them,
\* bring it to the one that unregisters it.
THEOREM RetiringEnds == Spec => [][RetiringAdvances]_vars
<1>1. [IInv /\ IInv' /\ [Next]_vars]_vars => [RetiringAdvances]_vars
  BY RetiringNext
<1>2. [][IInv /\ IInv' /\ [Next]_vars]_vars => [][RetiringAdvances]_vars
  BY <1>1, PTL
<1>3. QED
  BY <1>2, InvariantSteps

\* After Close each step lowers the rank of one goroutine or of the observer, or
\* closes the transport: no schedule keeps a closed manager busy for ever.
THEOREM ShutdownEnds == Spec => [][ShutdownAdvances]_vars
<1>1. [IInv /\ IInv' /\ [Next]_vars]_vars => [ShutdownAdvances]_vars
  BY ShutdownNext
<1>2. [][IInv /\ IInv' /\ [Next]_vars]_vars => [][ShutdownAdvances]_vars
  BY <1>1, PTL
<1>3. QED
  BY <1>2, InvariantSteps

----------------------------------------------------------------------------
(* Reserved ports: the part of ReservedPortYields that fairness does not    *)
(* decide.                                                                  *)

\* The steps that end in reconcileForwardsLocked.
Reconciling ==
    \/ \E raw \in RawIntents : UpdateIntent(raw)
    \/ \E observed \in Observations : SetListeners(observed)
    \/ ~closed /\ DiscoveryFailed
    \/ ~closed /\ \E w \in Worker : ForwardStopped(w)

\* A reconcile cancels every import goroutine that is bound, or about to be bound,
\* to a local port that is reserved now.
YieldsReservedPorts ==
    Reconciling =>
        \A w \in Worker : \A port \in reservedLocalPorts' :
            HoldsLocalPort(w, port) => task'[w].cancelled

\* A reconcile stops the import that its status reports on a reserved port.
LEMMA ReconcileYields ==
    ASSUME NEW want, NEW reserved, NEW fw, NEW st, NEW tk,
           Consistent(fw, st, tk), ReconcileForwards(want, reserved, fw, st, tk),
           NEW w \in Worker, w[1].direction = Import,
           tk[w].pc \in {"forward", "bound", "active"}, Candidate(tk[w]) \in reserved
    PROVE  task'[w].cancelled
<1> DEFINE running == Snapshot(fw, st, tk)
           plan == PlanReconciliation(want, running, reserved)
<1>1. task' = [v \in Worker |->
          IF v[1] \in plan.start /\ v[2] = Idle(tk, v[1]) THEN NewTask(want[v[1]])
          ELSE IF v[1] \in plan.stop /\ v[2] = fw[v[1]] THEN [tk[v] EXCEPT !.cancelled = TRUE]
          ELSE tk[v]]
  BY DEF ReconcileForwards
<1>2. /\ plan.keep = KeptKeys(want, running, reserved)
      /\ plan.stop = DOMAIN running \ plan.keep
      /\ plan.start \cap DOMAIN running = {}
  BY DEF PlanReconciliation, MissingKeys
<1>3. DOMAIN running = DOMAIN fw /\ \A key \in DOMAIN fw : running[key].status = st[key]
  BY DEF Snapshot
<1> HIDE DEF plan, running
<1>4. /\ w[1] \in DOMAIN fw /\ fw[w[1]] = w[2]
      /\ st[w[1]].state \in {"starting", "active"} /\ st[w[1]].local = Candidate(tk[w])
      /\ tk[w] \in Task
  BY DEF Consistent, Linked, Reported, MapsTyped
<1>5. UsesReservedPort(w[1], running[w[1]].status, reserved)
  BY <1>3, <1>4 DEF UsesReservedPort
<1>6. w[1] \in plan.stop /\ w[1] \notin plan.start
  BY <1>2, <1>3, <1>4, <1>5 DEF KeptKeys
<1>7. task'[w] = [tk[w] EXCEPT !.cancelled = TRUE]
  BY <1>1, <1>4, <1>6
<1>8. QED
  BY <1>4, <1>7 DEF Task

\* The same of every step that reconciles.
LEMMA YieldsNext == IInv /\ [Next]_vars => YieldsReservedPorts
<1> SUFFICES ASSUME IInv, Reconciling, NEW w \in Worker,
                    w[1].direction = Import, Serving(w),
                    Candidate(task[w]) \in reservedLocalPorts'
             PROVE  task'[w].cancelled
  BY DEF YieldsReservedPorts, HoldsLocalPort
<1>1. ASSUME NEW fw, NEW st, NEW tk, ReconcilesFrom(fw, st, tk), tk[w] = task[w]
      PROVE  task'[w].cancelled
  BY <1>1, ReconcileYields DEF ReconcilesFrom, Serving
<1>2. Consistent(forwardWorkers, states, task)
  BY DEF IInv
<1>3. ASSUME NEW v \in Worker, ForwardStopped(v), ~closed PROVE task'[w].cancelled
  <2> DEFINE fw == Without(forwardWorkers, v[1])
             st == Without(states, v[1])
             tk == [task EXCEPT ![v] = IdleTask]
  <2>1. Registered(v)
    BY <1>2, <1>3 DEF ForwardStopped, Consistent, Linked, Registered
  <2>2. Consistent(fw, st, tk)
    BY <1>2, <2>1, WithoutConsistent
  <2>3. ReconcileForwards(Wanted', reservedLocalPorts', fw, st, tk)
    BY <1>3, <2>1 DEF ForwardStopped, ReplacesStopped, Wanted
  <2>4. tk[w] = task[w]
    BY <1>3, RunningTask DEF ForwardStopped, Serving
  <2> HIDE DEF fw, st, tk
  <2>5. ReconcilesFrom(fw, st, tk)
    BY <2>2, <2>3 DEF ReconcilesFrom
  <2>6. QED
    BY <1>1, <2>4, <2>5
<1>4. ASSUME NEW raw \in RawIntents, UpdateIntent(raw) PROVE task'[w].cancelled
  BY <1>1, <1>2, <1>4 DEF UpdateIntent, Wanted, ReconcilesFrom
<1>5. ASSUME NEW observed \in Observations, SetListeners(observed) PROVE task'[w].cancelled
  BY <1>1, <1>2, <1>5 DEF SetListeners, Wanted, ReconcilesFrom
<1>6. CASE ~closed /\ DiscoveryFailed
  BY <1>1, <1>2, <1>6 DEF DiscoveryFailed, Wanted, ReconcilesFrom
<1>7. QED
  BY <1>3, <1>4, <1>5, <1>6 DEF Reconciling

\* Whatever brought an import onto a published local port, a stale check
\* included, the next reconcile of its manager tells it to stop.
THEOREM ReservedPortsYield == Spec => [][YieldsReservedPorts]_vars
<1>1. [IInv /\ IInv' /\ [Next]_vars]_vars => [YieldsReservedPorts]_vars
  BY YieldsNext
<1>2. [][IInv /\ IInv' /\ [Next]_vars]_vars => [][YieldsReservedPorts]_vars
  BY <1>1, PTL
<1>3. QED
  BY <1>2, InvariantSteps

----------------------------------------------------------------------------
(* What is true where PublicationsBindAlone and                             *)
(* EquivalentIntentDisturbsNothing are violated                             *)

\* A reconcile ends every conflict that a stale check has led to: of a publication
\* and an import that may be bound to its local port it cancels one.
ConflictsYield ==
    Reconciling =>
        \A w, v \in Worker :
            /\ w[1].direction = Publication /\ task[w].pc \notin {"idle", "exit"}
            /\ HoldsLocalPort(v, task[w].desired.preferred.local)
            => task'[v].cancelled \/ task'[w].cancelled

\* A reconcile that wants what was wanted before, because the intent is equivalent
\* or the listeners are the same, cancels nothing but an import that is recorded on a
\* reserved port: one on its way to a fallback port, or one that has to yield.
RepeatDisturbsOnlyReserved ==
    ~closed /\ Wanted' = Wanted =>
        \A w \in Worker : task'[w].cancelled =>
            \/ task[w].cancelled
            \/ \E port \in reservedLocalPorts' : ReportedOn(w[1], port)

\* A reconcile leaves a running goroutine its forward.
LEMMA ReconcilingKeepsDesired ==
    ASSUME IInv, Reconciling, NEW w \in Worker, task[w].pc \notin {"idle", "exit"}
    PROVE  task'[w].desired = task[w].desired /\ Running(w)' /\ ~closed'
<1>1. task[w] \in Task /\ task \in [Worker -> Task]
  BY RunningTask
<1>2. ASSUME task'[w] = task[w] \/ task'[w] = [task[w] EXCEPT !.cancelled = TRUE]
      PROVE  task'[w].desired = task[w].desired /\ Running(w)'
  BY <1>1, <1>2 DEF Task, Running
<1>3. Consistent(forwardWorkers, states, task)
  BY DEF IInv
<1>4. ASSUME NEW v \in Worker, ForwardStopped(v), ~closed
      PROVE  task'[w] = task[w] \/ task'[w] = [task[w] EXCEPT !.cancelled = TRUE]
  <2> DEFINE fw == Without(forwardWorkers, v[1])
             st == Without(states, v[1])
             tk == [task EXCEPT ![v] = IdleTask]
  <2>1. Registered(v)
    BY <1>3, <1>4 DEF ForwardStopped, Consistent, Linked, Registered
  <2>2. Consistent(fw, st, tk)
    BY <1>3, <2>1, WithoutConsistent
  <2>3. ReconcileForwards(Wanted', reservedLocalPorts', fw, st, tk)
    BY <1>4, <2>1 DEF ForwardStopped, ReplacesStopped, Wanted
  <2>4. tk[w] = task[w]
    BY <1>1, <1>4 DEF ForwardStopped
  <2> HIDE DEF fw, st, tk
  <2>5. tk[w].pc # "idle"
    BY <2>4
  <2>6. task'[w] = tk[w] \/ task'[w] = [tk[w] EXCEPT !.cancelled = TRUE]
    BY <2>2, <2>3, <2>5, ReconcileTasks
  <2>7. QED
    BY <2>4, <2>6
<1>5. ASSUME ReconcileForwards(Wanted', reservedLocalPorts', forwardWorkers, states, task)
      PROVE  task'[w] = task[w] \/ task'[w] = [task[w] EXCEPT !.cancelled = TRUE]
  BY <1>3, <1>5, ReconcileTasks
<1>6. ASSUME NEW raw \in RawIntents, UpdateIntent(raw)
      PROVE  task'[w] = task[w] \/ task'[w] = [task[w] EXCEPT !.cancelled = TRUE]
  BY <1>5, <1>6 DEF UpdateIntent, Wanted
<1>7. ASSUME NEW observed \in Observations, SetListeners(observed)
      PROVE  task'[w] = task[w] \/ task'[w] = [task[w] EXCEPT !.cancelled = TRUE]
  BY <1>5, <1>7 DEF SetListeners, Wanted
<1>8. CASE ~closed /\ DiscoveryFailed
  BY <1>2, <1>5, <1>8 DEF DiscoveryFailed, Wanted
<1>9. ~closed'
  BY DEF Reconciling, UpdateIntent, SetListeners, DiscoveryFailed, ForwardStopped
<1>10. QED
  BY <1>2, <1>4, <1>6, <1>7, <1>8, <1>9 DEF Reconciling

\* A publication that is kept stands for a reserved port, which no import keeps.
LEMMA ConflictsNext == IInv /\ IInv' /\ [Next]_vars => ConflictsYield
<1> SUFFICES ASSUME IInv, IInv', [Next]_vars, Reconciling,
                    NEW w \in Worker, NEW v \in Worker,
                    w[1].direction = Publication, task[w].pc \notin {"idle", "exit"},
                    HoldsLocalPort(v, task[w].desired.preferred.local),
                    ~task'[w].cancelled
             PROVE  task'[v].cancelled
  BY DEF ConflictsYield
<1>1. task'[w].desired = task[w].desired /\ task'[w].pc # "idle" /\ ~closed'
  BY ReconcilingKeepsDesired DEF Running
<1>2. w = <<w[1], w[2]>>
  BY DEF Worker
<1>3. /\ Consistent(forwardWorkers', states', task')
      /\ Matching(Wanted', forwardWorkers', states', task')
  BY <1>1 DEF IInv, Reconciled
<1>4. w[1] \in DOMAIN forwardWorkers' /\ forwardWorkers'[w[1]] = w[2]
  BY <1>1, <1>3 DEF Consistent, Linked
<1>5. w[1] \in DOMAIN Wanted' /\ SameForwardBehavior(task'[w].desired, Wanted'[w[1]])
  BY <1>2, <1>3, <1>4 DEF Matching
<1>6. /\ intent' \in Intent /\ listeners' \in Listeners
      /\ reservedLocalPorts' = ReservedLocalPorts(intent')
  BY DEF IInv, RestTyped
<1>7. Wanted'[w[1]].preferred.local \in reservedLocalPorts'
  BY <1>5, <1>6, PublishedPortReserved DEF Wanted
<1>8. task[w].desired.preferred.local \in reservedLocalPorts'
  BY <1>1, <1>5, <1>7 DEF SameForwardBehavior
<1>9. QED
  BY <1>8, YieldsNext DEF YieldsReservedPorts

\* A reconcile that wants the same cancels only what uses a reserved port.
LEMMA ReconcileRepeats ==
    ASSUME NEW want, NEW reserved, NEW fw, NEW st, NEW tk,
           Consistent(fw, st, tk), Matching(want, fw, st, tk),
           ReconcileForwards(want, reserved, fw, st, tk),
           NEW w \in Worker, task'[w].cancelled, ~tk[w].cancelled
    PROVE  w[1] \in DOMAIN fw /\ UsesReservedPort(w[1], st[w[1]], reserved)
<1> DEFINE running == Snapshot(fw, st, tk)
           plan == PlanReconciliation(want, running, reserved)
<1>1. task' = [v \in Worker |->
          IF v[1] \in plan.start /\ v[2] = Idle(tk, v[1]) THEN NewTask(want[v[1]])
          ELSE IF v[1] \in plan.stop /\ v[2] = fw[v[1]] THEN [tk[v] EXCEPT !.cancelled = TRUE]
          ELSE tk[v]]
  BY DEF ReconcileForwards
<1>2. plan.keep = KeptKeys(want, running, reserved) /\ plan.stop = DOMAIN running \ plan.keep
  BY DEF PlanReconciliation
<1>3. /\ DOMAIN running = DOMAIN fw
      /\ \A key \in DOMAIN fw : /\ running[key].desired = tk[<<key, fw[key]>>].desired
                                /\ running[key].status = st[key]
  BY DEF Snapshot
<1> HIDE DEF plan, running
<1>4. w[1] \in plan.stop /\ w[2] = fw[w[1]]
  BY <1>1 DEF NewTask
<1>5. w[1] \in DOMAIN fw /\ w = <<w[1], fw[w[1]]>>
  BY <1>2, <1>3, <1>4 DEF Worker
<1>6. w[1] \in DOMAIN want /\ SameForwardBehavior(tk[w].desired, want[w[1]])
  BY <1>5 DEF Matching
<1>7. QED
  BY <1>2, <1>3, <1>4, <1>5, <1>6 DEF KeptKeys

\* The same of every step of an open manager.
LEMMA RepeatNext == IInv /\ [Next]_vars => RepeatDisturbsOnlyReserved
<1> SUFFICES ASSUME IInv, [Next]_vars, ~closed, Wanted' = Wanted,
                    NEW w \in Worker, task'[w].cancelled, ~task[w].cancelled
             PROVE  \E port \in reservedLocalPorts' : ReportedOn(w[1], port)
  BY DEF RepeatDisturbsOnlyReserved
<1>1. /\ Consistent(forwardWorkers, states, task)
      /\ Matching(Wanted, forwardWorkers, states, task)
      /\ task \in [Worker -> Task]
  BY DEF IInv, Reconciled, Consistent, MapsTyped
<1>2. ASSUME w[1] \in DOMAIN forwardWorkers,
             UsesReservedPort(w[1], states[w[1]], reservedLocalPorts')
      PROVE  \E port \in reservedLocalPorts' : ReportedOn(w[1], port)
  BY <1>2 DEF UsesReservedPort, ReportedOn
<1>3. CASE ReconcilesFrom(forwardWorkers, states, task)
  BY <1>1, <1>2, <1>3, ReconcileRepeats DEF ReconcilesFrom
<1>4. ASSUME NEW v \in Worker, ForwardStopped(v),
             ReconcilesFrom(Without(forwardWorkers, v[1]), Without(states, v[1]),
                            [task EXCEPT ![v] = IdleTask])
      PROVE  \E port \in reservedLocalPorts' : ReportedOn(w[1], port)
  <2> DEFINE fw == Without(forwardWorkers, v[1])
             st == Without(states, v[1])
             tk == [task EXCEPT ![v] = IdleTask]
  <2>1. /\ DOMAIN fw = DOMAIN forwardWorkers \ {v[1]}
        /\ \A key \in DOMAIN fw : fw[key] = forwardWorkers[key]
        /\ DOMAIN st = DOMAIN states \ {v[1]}
        /\ \A key \in DOMAIN st : st[key] = states[key]
    BY DEF Without
  <2>2. ~tk[w].cancelled
    BY <1>1 DEF IdleTask
  <2>3. Consistent(fw, st, tk) /\ ReconcileForwards(Wanted', reservedLocalPorts', fw, st, tk)
    BY <1>4 DEF ReconcilesFrom
  <2>4. \A key \in DOMAIN fw : tk[<<key, fw[key]>>] = task[<<key, forwardWorkers[key]>>]
    <3>1. \A key \in DOMAIN fw : <<key, fw[key]>> # v
      BY <2>1 DEF Worker
    <3>2. \A key \in DOMAIN forwardWorkers : <<key, forwardWorkers[key]>> \in Worker
      BY <1>1 DEF Consistent, MapsTyped, Worker
    <3>3. QED
      BY <1>1, <2>1, <3>1, <3>2
  <2>5. DOMAIN fw \subseteq DOMAIN st
    BY <2>3 DEF Consistent, Stated
  <2> HIDE DEF fw, st, tk
  <2>6. Matching(Wanted', fw, st, tk)
    BY <1>1, <2>1, <2>4, <2>5 DEF Matching
  <2>7. w[1] \in DOMAIN fw /\ UsesReservedPort(w[1], st[w[1]], reservedLocalPorts')
    BY <2>2, <2>3, <2>6, ReconcileRepeats
  <2>8. QED
    BY <1>2, <2>1, <2>5, <2>7
<1>5. ~Quiet
  BY DEF Quiet
<1>6. QED
  BY <1>3, <1>4, <1>5, StepEffect

\* The race of finding 1 is repaired by the next reconcile of the manager, whatever
\* causes it: an update, a scanner result, a failure or an ended worker.
THEOREM ConflictsEnd == Spec => [][ConflictsYield]_vars
<1>1. [IInv /\ IInv' /\ [Next]_vars]_vars => [ConflictsYield]_vars
  BY ConflictsNext
<1>2. [][IInv /\ IInv' /\ [Next]_vars]_vars => [][ConflictsYield]_vars
  BY <1>1, PTL
<1>3. QED
  BY <1>2, InvariantSteps

\* What manager.go:81-82 may promise: repeating an intent disturbs no forward but
\* imports recorded on a reserved port, which finding 2 is about.
THEOREM RepeatsDisturbLittle == Spec => [][RepeatDisturbsOnlyReserved]_vars
<1>1. [IInv /\ IInv' /\ [Next]_vars]_vars => [RepeatDisturbsOnlyReserved]_vars
  BY RepeatNext
<1>2. [][IInv /\ IInv' /\ [Next]_vars]_vars => [][RepeatDisturbsOnlyReserved]_vars
  BY <1>1, PTL
<1>3. QED
  BY <1>2, InvariantSteps

============================================================================
