--------------------------- MODULE ManagerProofs ---------------------------
(***************************************************************************)
(* Theorems about Manager, for every set of ports, names, intents and      *)
(* observations.                                                           *)
(***************************************************************************)
EXTENDS Manager, TLAPS

----------------------------------------------------------------------------
(* Types of the operators of Reconcile *)

\* A normalized intent has no port left out.
LEMMA NormalizeIntentType ==
    ASSUME NEW raw \in RawIntent, ValidIntent(raw)
    PROVE  NormalizeIntent(raw) \in Intent
<1>1. ASSUME NEW items \in Seq(RawImport), ValidImports(items)
      PROVE  {WithImportDefaults(items[i]) : i \in DOMAIN items} \subseteq RememberedForward
  <2> SUFFICES ASSUME NEW i \in DOMAIN items
               PROVE  WithImportDefaults(items[i]) \in RememberedForward
    OBVIOUS
  <2>1. items[i] \in RawImport /\ items[i].remote # 0
    BY <1>1 DEF ValidImports
  <2>2. ASSUME NEW f \in RawImport, f.remote # 0
        PROVE  WithImportDefaults(f) \in RememberedForward
    <3>1. f.remote \in AnyPort /\ f.local \in AnyPort /\ f.remote \in Port
      BY <2>2, MaxPortAssumption DEF RawImport, AnyPort, Port
    <3>2. CASE f.local = 0
      BY <2>2, <3>1, <3>2 DEF WithImportDefaults, RawImport, RememberedForward
    <3>3. CASE f.local # 0
      <4>1. f.local \in Port
        BY <3>1, <3>3, MaxPortAssumption DEF AnyPort, Port
      <4>2. QED
        BY <2>2, <3>1, <3>3, <4>1 DEF WithImportDefaults, RawImport, RememberedForward
    <3>4. QED
      BY <3>2, <3>3
  <2>3. QED
    BY <2>1, <2>2
<1>2. ASSUME NEW items \in Seq(RawPublication), ValidPublications(items)
      PROVE  {WithPublicationDefaults(items[i]) : i \in DOMAIN items} \subseteq PublishedForward
  <2> SUFFICES ASSUME NEW i \in DOMAIN items
               PROVE  WithPublicationDefaults(items[i]) \in PublishedForward
    OBVIOUS
  <2>1. items[i] \in RawPublication /\ items[i].local # 0
    BY <1>2 DEF ValidPublications
  <2>2. ASSUME NEW f \in RawPublication, f.local # 0
        PROVE  WithPublicationDefaults(f) \in PublishedForward
    <3>1. f.remote \in AnyPort /\ f.local \in AnyPort /\ f.local \in Port
      BY <2>2, MaxPortAssumption DEF RawPublication, AnyPort, Port
    <3>2. CASE f.remote = 0
      BY <2>2, <3>1, <3>2 DEF WithPublicationDefaults, RawPublication, PublishedForward
    <3>3. CASE f.remote # 0
      <4>1. f.remote \in Port
        BY <3>1, <3>3, MaxPortAssumption DEF AnyPort, Port
      <4>2. QED
        BY <2>2, <3>1, <3>3, <4>1 DEF WithPublicationDefaults, RawPublication, PublishedForward
    <3>4. QED
      BY <3>2, <3>3
  <2>3. QED
    BY <2>1, <2>2
<1>3. raw.remembered \in Seq(RawImport) /\ raw.auto \in Seq(RawImport)
      /\ raw.published \in Seq(RawPublication) /\ raw.reserved \subseteq Port
      /\ raw.rules \subseteq Pattern /\ raw.ignored \subseteq App
  BY DEF RawIntent, ValidIntent
<1>4. ValidImports(raw.remembered) /\ ValidImports(raw.auto) /\ ValidPublications(raw.published)
  BY DEF ValidIntent
<1>5. /\ {WithImportDefaults(raw.remembered[i]) : i \in DOMAIN raw.remembered}
            \subseteq RememberedForward
      /\ {WithImportDefaults(raw.auto[i]) : i \in DOMAIN raw.auto} \subseteq RememberedForward
      /\ {WithPublicationDefaults(raw.published[i]) : i \in DOMAIN raw.published}
            \subseteq PublishedForward
  BY <1>1, <1>2, <1>3, <1>4
<1>6. QED
  BY <1>3, <1>5 DEF NormalizeIntent, Intent

\* What a set of listeners maps to.
LEMMA ListenersType ==
    ASSUME NEW lst \in Listeners
    PROVE  DOMAIN lst \subseteq Port /\ \A port \in DOMAIN lst : lst[port] \in Listener
BY DEF Listeners

\* The reserved local ports are ports.
LEMMA ReservedType ==
    ASSUME NEW int \in Intent
    PROVE  ReservedLocalPorts(int) \in SUBSET Port
BY DEF ReservedLocalPorts, Intent, PublishedForward

\* Every desired forward is well formed and stands under its own key.
LEMMA DesiredType ==
    ASSUME NEW int \in Intent, NEW lst \in Listeners
    PROVE  /\ DOMAIN DesiredForwards(int, lst) \subseteq Key
           /\ \A key \in DOMAIN DesiredForwards(int, lst) :
                /\ DesiredForwards(int, lst)[key] \in DesiredForward
                /\ KeyOf(DesiredForwards(int, lst)[key].preferred) = key
<1> DEFINE forwards == FixedForwards(int) \cup AutomaticForwards(int, lst)
<1>1. ASSUME NEW f \in RememberedForward, NEW automatic \in BOOLEAN
      PROVE  DesiredImport(f, automatic) \in DesiredForward
  BY DEF DesiredImport, DesiredForward, ForwardTarget, RememberedForward, Import, Publication
<1>2. ASSUME NEW f \in PublishedForward
      PROVE  DesiredPublication(f) \in DesiredForward
  BY DEF DesiredPublication, DesiredForward, ForwardTarget, PublishedForward, Import, Publication
<1>3. FixedForwards(int) \subseteq DesiredForward
  BY <1>1, <1>2 DEF FixedForwards, Intent
<1>4. ASSUME NEW port \in DOMAIN lst
      PROVE  Candidates(int, lst[port], port) \subseteq RememberedForward
  <2>1. port \in Port
    BY ListenersType
  <2>2. {f \in int.auto : f.remote = port} \subseteq RememberedForward
    BY DEF Intent
  <2>3. [remote |-> port, local |-> port, allowFallback |-> TRUE] \in RememberedForward
    BY <2>1 DEF RememberedForward
  <2>4. QED
    BY <2>2, <2>3 DEF Candidates
<1>5. AutomaticForwards(int, lst) \subseteq DesiredForward
  BY <1>1, <1>4 DEF AutomaticForwards
<1>6. forwards \subseteq DesiredForward
  BY <1>3, <1>5
<1>7. ASSUME NEW f \in DesiredForward
      PROVE  KeyOf(f.preferred) \in Key
  BY DEF KeyOf, Key, DesiredForward, ForwardTarget
<1>8. DOMAIN DesiredForwards(int, lst) = {KeyOf(f.preferred) : f \in forwards}
  BY DEF DesiredForwards
<1>9. ASSUME NEW key \in DOMAIN DesiredForwards(int, lst)
      PROVE  /\ DesiredForwards(int, lst)[key] \in forwards
             /\ KeyOf(DesiredForwards(int, lst)[key].preferred) = key
  <2>1. PICK f \in forwards : KeyOf(f.preferred) = key
    BY <1>8
  <2>2. DesiredForwards(int, lst)[key] = CHOOSE g \in forwards : KeyOf(g.preferred) = key
    BY <1>8 DEF DesiredForwards
  <2>3. QED
    BY <2>1, <2>2
<1>10. QED
  BY <1>6, <1>7, <1>8, <1>9

\* The plan divides the running workers into kept and stopped ones and the other
\* desired keys into waiting and started ones; what waits is a publication, and
\* it waits for a stopped import that is on its local port.
LEMMA PlanFacts ==
    ASSUME NEW want, NEW running, NEW reserved, NEW plan,
           plan = PlanReconciliation(want, running, reserved)
    PROVE  /\ plan.keep \subseteq DOMAIN running \cap DOMAIN want
           /\ \A key \in plan.keep : SameForwardBehavior(running[key].desired, want[key])
           /\ plan.stop = DOMAIN running \ plan.keep
           /\ plan.wait \cap plan.start = {}
           /\ plan.wait \cup plan.start = DOMAIN want \ DOMAIN running
           /\ \A key \in plan.wait :
                /\ key.direction = Publication
                /\ \E other \in plan.stop :
                     /\ UsesReservedPort(other, running[other].status, reserved)
                     /\ running[other].status.local = want[key].preferred.local
<1>1. /\ plan.keep = KeptKeys(want, running, reserved)
      /\ plan.stop = DOMAIN running \ plan.keep
      /\ plan.wait = {key \in MissingKeys(want, running, plan.keep) :
            /\ key.direction = Publication
            /\ want[key].preferred.local \in StoppingPorts(running, plan.stop, reserved)}
      /\ plan.start = MissingKeys(want, running, plan.keep) \ plan.wait
  BY DEF PlanReconciliation
<1>2. /\ plan.keep \subseteq DOMAIN running \cap DOMAIN want
      /\ \A key \in plan.keep : SameForwardBehavior(running[key].desired, want[key])
  BY <1>1 DEF KeptKeys
<1>3. /\ plan.wait \cap plan.start = {}
      /\ plan.wait \cup plan.start = DOMAIN want \ DOMAIN running
  BY <1>1 DEF MissingKeys
<1>4. ASSUME NEW key \in plan.wait
      PROVE  /\ key.direction = Publication
             /\ \E other \in plan.stop :
                  /\ UsesReservedPort(other, running[other].status, reserved)
                  /\ running[other].status.local = want[key].preferred.local
  <2>1. key.direction = Publication
        /\ want[key].preferred.local \in StoppingPorts(running, plan.stop, reserved)
    BY <1>1
  <2>2. QED
    BY <2>1 DEF StoppingPorts
<1>5. QED
  BY <1>1, <1>2, <1>3, <1>4

----------------------------------------------------------------------------
(* The inductive invariant, as predicates of the three maps, so that one    *)
(* lemma about ReconcileForwards serves every action that ends in it.       *)

MapsTyped(fw, st, tk) ==
    /\ DOMAIN fw \subseteq Key
    /\ fw \in [DOMAIN fw -> Incarnation]
    /\ DOMAIN st \subseteq Key
    /\ st \in [DOMAIN st -> ForwardStatus]
    /\ tk \in [Worker -> Task]
    /\ \A w \in Worker : Candidate(tk[w]) \in Port

\* OneTaskPerKey.
Linked(fw, tk) ==
    \A w \in Worker : tk[w].pc # "idle" <=> (w[1] \in DOMAIN fw /\ fw[w[1]] = w[2])

Keyed(tk) ==
    \A w \in Worker : tk[w].pc # "idle" => KeyOf(tk[w].desired.preferred) = w[1]

\* HeldPortIsReported.
Reported(st, tk) ==
    \A w \in Worker :
        w[1].direction = Import /\ tk[w].pc \in {"forward", "bound", "active"}
        => /\ st[w[1]].state \in {"starting", "active"}
           /\ st[w[1]].local = Candidate(tk[w])

\* StatesMatchWorkers.
Stated(fw, st) ==
    /\ DOMAIN fw \subseteq DOMAIN st
    /\ \A key \in DOMAIN st \ DOMAIN fw :
          key.direction = Publication /\ st[key].state = "starting"

Consistent(fw, st, tk) ==
    MapsTyped(fw, st, tk) /\ Linked(fw, tk) /\ Keyed(tk) /\ Reported(st, tk) /\ Stated(fw, st)

\* WorkersMatchIntent.
Matching(want, fw, st, tk) ==
    \A key \in DOMAIN fw :
        ~tk[<<key, fw[key]>>].cancelled =>
            /\ key \in DOMAIN want
            /\ SameForwardBehavior(tk[<<key, fw[key]>>].desired, want[key])
            /\ st[key].automatic = want[key].automatic

\* NoLostForward.
NoneLost(want, fw, st, tk) ==
    \A key \in DOMAIN want \ DOMAIN fw :
        /\ key.direction = Publication
        /\ \E other \in DOMAIN fw :
             /\ other.direction = Import
             /\ st[other].state \in {"starting", "active"}
             /\ st[other].local = want[key].preferred.local
             /\ tk[<<other, fw[other]>>].cancelled

Reconciled(want, fw, st, tk) ==
    /\ Matching(want, fw, st, tk)
    /\ NoneLost(want, fw, st, tk)
    /\ DOMAIN st \ DOMAIN fw \subseteq DOMAIN want

WantTyped(want) ==
    /\ DOMAIN want \subseteq Key
    /\ \A key \in DOMAIN want :
          want[key] \in DesiredForward /\ KeyOf(want[key].preferred) = key

RestTyped ==
    /\ closed \in BOOLEAN
    /\ intent \in Intent
    /\ reservedLocalPorts = ReservedLocalPorts(intent)
    /\ discovery \in {"connecting", "active", "failed"}
    /\ listeners \in Listeners
    /\ observer \in {"start", "observing", "failed", "retry", "done"}
    /\ backendClosed \in BOOLEAN

IInv ==
    /\ RestTyped
    /\ Consistent(forwardWorkers, states, task)
    /\ ~closed => Reconciled(Wanted, forwardWorkers, states, task)

----------------------------------------------------------------------------
(* What a reconcile does *)

\* The values that pass through a task are typed.
LEMMA NewTaskType ==
    ASSUME NEW forward \in DesiredForward
    PROVE  /\ NewTask(forward) \in Task
           /\ Candidate(NewTask(forward)) = forward.preferred.local
           /\ Candidate(NewTask(forward)) \in Port
           /\ StartingStatus(forward) \in ForwardStatus
<1>1. /\ forward.preferred.local \in Port /\ forward.preferred.remote \in Port
      /\ forward.automatic \in BOOLEAN
  BY DEF DesiredForward, ForwardTarget
<1>2. NewTask(forward) \in Task
  BY MaxOffsetAssumption DEF NewTask, Task
<1>3. Candidate(NewTask(forward)) = forward.preferred.local
  BY <1>1, MaxPortAssumption DEF Candidate, NewTask, Port
<1>4. StartingStatus(forward) \in ForwardStatus
  BY <1>1 DEF StartingStatus, StatusOf, ForwardStatus
<1>5. QED
  BY <1>1, <1>2, <1>3, <1>4

\* From consistent maps, a reconcile leads to consistent maps that agree with
\* the desired forwards.
LEMMA ReconcileStep ==
    ASSUME NEW want, NEW reserved, NEW fw, NEW st, NEW tk,
           WantTyped(want), Consistent(fw, st, tk),
           ReconcileForwards(want, reserved, fw, st, tk)
    PROVE  /\ Consistent(forwardWorkers', states', task')
           /\ Reconciled(want, forwardWorkers', states', task')
<1> DEFINE running == Snapshot(fw, st, tk)
           plan == PlanReconciliation(want, running, reserved)
           fresh == plan.wait \cup plan.start
<1>1. /\ states' = [key \in Explained(st, want, fw) \cup plan.wait \cup plan.start |->
              IF key \in plan.wait \cup plan.start THEN StartingStatus(want[key])
              ELSE IF key \in plan.keep THEN [st[key] EXCEPT !.automatic = want[key].automatic]
              ELSE st[key]]
      /\ forwardWorkers' = [key \in DOMAIN fw \cup plan.start |->
              IF key \in plan.start THEN Idle(tk, key) ELSE fw[key]]
      /\ task' = [w \in Worker |->
              IF w[1] \in plan.start /\ w[2] = Idle(tk, w[1]) THEN NewTask(want[w[1]])
              ELSE IF w[1] \in plan.stop /\ w[2] = fw[w[1]] THEN [tk[w] EXCEPT !.cancelled = TRUE]
              ELSE tk[w]]
  BY DEF ReconcileForwards
<1>2. DOMAIN running = DOMAIN fw
      /\ \A key \in DOMAIN fw : /\ running[key].desired = tk[<<key, fw[key]>>].desired
                                /\ running[key].status = st[key]
  BY DEF Snapshot
<1>3. /\ plan.keep \subseteq DOMAIN fw \cap DOMAIN want
      /\ \A key \in plan.keep :
            SameForwardBehavior(tk[<<key, fw[key]>>].desired, want[key])
      /\ plan.stop = DOMAIN fw \ plan.keep
      /\ plan.wait \cap plan.start = {}
      /\ fresh = DOMAIN want \ DOMAIN fw
      /\ \A key \in plan.wait :
            /\ key.direction = Publication
            /\ \E other \in plan.stop :
                 /\ UsesReservedPort(other, st[other], reserved)
                 /\ st[other].local = want[key].preferred.local
  <2>1. /\ plan.keep \subseteq DOMAIN running \cap DOMAIN want
        /\ \A key \in plan.keep : SameForwardBehavior(running[key].desired, want[key])
        /\ plan.stop = DOMAIN running \ plan.keep
        /\ plan.wait \cap plan.start = {}
        /\ plan.wait \cup plan.start = DOMAIN want \ DOMAIN running
        /\ \A key \in plan.wait :
             /\ key.direction = Publication
             /\ \E other \in plan.stop :
                  /\ UsesReservedPort(other, running[other].status, reserved)
                  /\ running[other].status.local = want[key].preferred.local
    BY PlanFacts
  <2> HIDE DEF plan, running
  <2>2. QED
    BY <2>1, <1>2 DEF fresh
<1> HIDE DEF plan, running
<1>4. /\ DOMAIN fw \subseteq Key /\ fw \in [DOMAIN fw -> Incarnation]
      /\ DOMAIN st \subseteq Key /\ st \in [DOMAIN st -> ForwardStatus]
      /\ tk \in [Worker -> Task] /\ \A w \in Worker : Candidate(tk[w]) \in Port
  BY DEF Consistent, MapsTyped
<1>5. DOMAIN want \subseteq Key
      /\ \A key \in DOMAIN want :
            want[key] \in DesiredForward /\ KeyOf(want[key].preferred) = key
  BY DEF WantTyped
<1>6. DOMAIN fw \subseteq DOMAIN st
      /\ \A key \in DOMAIN st \ DOMAIN fw :
            key.direction = Publication /\ st[key].state = "starting"
  BY DEF Consistent, Stated
<1>7. \* A started key has no goroutine at all: it takes the first incarnation.
      ASSUME NEW key \in plan.start
      PROVE  /\ Idle(tk, key) = 1
             /\ \A g \in Incarnation : tk[<<key, g>>].pc = "idle"
  <2>1. key \in Key /\ key \notin DOMAIN fw
    BY <1>3, <1>5
  <2>2. ASSUME NEW g \in Incarnation
        PROVE  tk[<<key, g>>].pc = "idle"
    BY <2>1 DEF Consistent, Linked, Worker
  <2>3. QED
    BY <2>2 DEF Idle, Incarnation
<1>8. DOMAIN states' = DOMAIN fw \cup DOMAIN want
  BY <1>1, <1>3, <1>4, <1>6 DEF Explained
<1>9. /\ \A key \in fresh : states'[key] = StartingStatus(want[key])
      /\ \A key \in plan.keep :
            states'[key] = [st[key] EXCEPT !.automatic = want[key].automatic]
      /\ \A key \in plan.stop : states'[key] = st[key]
  BY <1>1, <1>3, <1>6 DEF Explained
<1>10. /\ DOMAIN forwardWorkers' = DOMAIN fw \cup plan.start
       /\ \A key \in DOMAIN fw : forwardWorkers'[key] = fw[key]
       /\ \A key \in plan.start : forwardWorkers'[key] = 1
  BY <1>1, <1>3, <1>7
<1>11. /\ task' = [w \in Worker |-> task'[w]]
       /\ \A w \in Worker : w[1] \in plan.start /\ w[2] = 1 => task'[w] = NewTask(want[w[1]])
       /\ \A w \in Worker : w[1] \in plan.start /\ w[2] # 1 => task'[w] = tk[w]
       /\ \A w \in Worker : w[1] \in plan.stop /\ w[2] = fw[w[1]]
              => task'[w] = [tk[w] EXCEPT !.cancelled = TRUE]
       /\ \A w \in Worker : w[1] \in plan.stop /\ w[2] # fw[w[1]] => task'[w] = tk[w]
       /\ \A w \in Worker : w[1] \notin plan.start \cup plan.stop => task'[w] = tk[w]
  BY <1>1, <1>3, <1>7
<1>12. \* A task that is not new keeps everything but its cancellation.
       ASSUME NEW w \in Worker, ~(w[1] \in plan.start /\ w[2] = 1)
       PROVE  /\ task'[w].pc = tk[w].pc /\ task'[w].desired = tk[w].desired
              /\ task'[w].offset = tk[w].offset /\ task'[w] \in Task
  <2>1. tk[w] \in Task
    BY <1>4
  <2>2. CASE w[1] \in plan.stop /\ w[2] = fw[w[1]]
    <3>1. task'[w] = [tk[w] EXCEPT !.cancelled = TRUE]
      BY <1>11, <2>2
    <3>2. QED
      BY <2>1, <3>1 DEF Task
  <2>3. CASE ~(w[1] \in plan.stop /\ w[2] = fw[w[1]])
    <3>1. task'[w] = tk[w]
      BY <1>11, <1>12, <2>3
    <3>2. QED
      BY <2>1, <3>1
  <2>4. QED
    BY <2>2, <2>3
<1>13. ASSUME NEW key \in fresh
      PROVE  /\ states'[key].state = "starting"
             /\ states'[key].automatic = want[key].automatic
  <2>1. states'[key] = StartingStatus(want[key])
    BY <1>9
  <2>2. /\ StartingStatus(want[key]).state = "starting"
        /\ StartingStatus(want[key]).automatic = want[key].automatic
    BY DEF StartingStatus, StatusOf
  <2>3. QED
    BY <2>1, <2>2
<1>14. ASSUME NEW key \in plan.keep
      PROVE  /\ states'[key].state = st[key].state
             /\ states'[key].local = st[key].local
             /\ states'[key].automatic = want[key].automatic
             /\ states'[key] \in ForwardStatus
  <2>1. st[key] \in ForwardStatus /\ want[key].automatic \in BOOLEAN
    BY <1>3, <1>4, <1>5, <1>6 DEF DesiredForward
  <2>2. states'[key] = [st[key] EXCEPT !.automatic = want[key].automatic]
    BY <1>9
  <2>3. QED
    BY <2>1, <2>2 DEF ForwardStatus
<1>15. MapsTyped(forwardWorkers', states', task')
  <2>1. DOMAIN forwardWorkers' \subseteq Key
    BY <1>3, <1>4, <1>5, <1>10
  <2>2. forwardWorkers' \in [DOMAIN forwardWorkers' -> Incarnation]
    BY <1>1, <1>3, <1>4, <1>10 DEF Incarnation
  <2>3. DOMAIN states' \subseteq Key
    BY <1>4, <1>5, <1>8
  <2>4. ASSUME NEW key \in DOMAIN states'
        PROVE  states'[key] \in ForwardStatus
    <3>1. CASE key \in fresh
      BY <1>3, <1>5, <1>9, <3>1, NewTaskType
    <3>2. CASE key \in plan.keep
      BY <1>14, <3>2
    <3>3. CASE key \in plan.stop
      BY <1>3, <1>4, <1>6, <1>9, <3>3
    <3>4. QED
      BY <1>3, <1>8, <3>1, <3>2, <3>3
  <2>5. states' \in [DOMAIN states' -> ForwardStatus]
    BY <1>1, <2>4
  <2>6. ASSUME NEW w \in Worker
        PROVE  task'[w] \in Task /\ Candidate(task'[w]) \in Port
    <3>1. CASE w[1] \in plan.start /\ w[2] = 1
      BY <1>3, <1>5, <1>11, <3>1, NewTaskType
    <3>2. CASE ~(w[1] \in plan.start /\ w[2] = 1)
      BY <1>4, <1>12, <3>2 DEF Candidate
    <3>3. QED
      BY <3>1, <3>2
  <2>7. task' \in [Worker -> Task] /\ \A w \in Worker : Candidate(task'[w]) \in Port
    BY <1>11, <2>6
  <2>8. QED
    BY <2>1, <2>2, <2>3, <2>5, <2>7 DEF MapsTyped
<1>16. Linked(forwardWorkers', task')
  <2> SUFFICES ASSUME NEW w \in Worker
               PROVE  task'[w].pc # "idle" <=>
                        (w[1] \in DOMAIN forwardWorkers' /\ forwardWorkers'[w[1]] = w[2])
    BY DEF Linked
  <2>1. w[1] \in Key /\ w[2] \in Incarnation /\ w = <<w[1], w[2]>>
    BY DEF Worker
  <2>2. CASE w[1] \in plan.start /\ w[2] = 1
    BY <1>10, <1>11, <2>2 DEF NewTask
  <2>3. CASE w[1] \in plan.start /\ w[2] # 1
    BY <1>7, <1>10, <1>12, <2>1, <2>3
  <2>4. CASE w[1] \notin plan.start
    <3>1. tk[w].pc # "idle" <=> (w[1] \in DOMAIN fw /\ fw[w[1]] = w[2])
      BY DEF Consistent, Linked
    <3>2. QED
      BY <1>10, <1>12, <2>4, <3>1
  <2>5. QED
    BY <2>2, <2>3, <2>4
<1>17. Keyed(task')
  <2> SUFFICES ASSUME NEW w \in Worker, task'[w].pc # "idle"
               PROVE  KeyOf(task'[w].desired.preferred) = w[1]
    BY DEF Keyed
  <2>1. CASE w[1] \in plan.start /\ w[2] = 1
    BY <1>3, <1>5, <1>11, <2>1 DEF NewTask
  <2>2. CASE ~(w[1] \in plan.start /\ w[2] = 1)
    BY <1>12, <2>2 DEF Consistent, Keyed
  <2>3. QED
    BY <2>1, <2>2
<1>18. Reported(states', task')
  <2> SUFFICES ASSUME NEW w \in Worker, w[1].direction = Import,
                      task'[w].pc \in {"forward", "bound", "active"}
               PROVE  /\ states'[w[1]].state \in {"starting", "active"}
                      /\ states'[w[1]].local = Candidate(task'[w])
    BY DEF Reported
  <2>1. ~(w[1] \in plan.start /\ w[2] = 1)
    BY <1>11 DEF NewTask
  <2>2. task'[w].pc = tk[w].pc /\ Candidate(task'[w]) = Candidate(tk[w])
    BY <1>12, <2>1 DEF Candidate
  <2>3. w[1] \in DOMAIN fw
    BY <2>2 DEF Consistent, Linked
  <2>4. st[w[1]].state \in {"starting", "active"} /\ st[w[1]].local = Candidate(tk[w])
    BY <2>2 DEF Consistent, Reported
  <2>5. /\ states'[w[1]].state = st[w[1]].state
        /\ states'[w[1]].local = st[w[1]].local
    BY <1>3, <1>9, <1>14, <2>3
  <2>6. QED
    BY <2>2, <2>4, <2>5
<1>19. Stated(forwardWorkers', states')
  <2>1. DOMAIN forwardWorkers' \subseteq DOMAIN states'
    BY <1>3, <1>8, <1>10
  <2>2. ASSUME NEW key \in DOMAIN states' \ DOMAIN forwardWorkers'
        PROVE  key.direction = Publication /\ states'[key].state = "starting"
    <3>1. key \in plan.wait
      BY <1>3, <1>8, <1>10
    <3>2. QED
      BY <1>3, <1>13, <3>1
  <2>3. QED
    BY <2>1, <2>2 DEF Stated
<1>20. Matching(want, forwardWorkers', states', task')
  <2> SUFFICES ASSUME NEW key \in DOMAIN forwardWorkers',
                      ~task'[<<key, forwardWorkers'[key]>>].cancelled
               PROVE  /\ key \in DOMAIN want
                      /\ SameForwardBehavior(task'[<<key, forwardWorkers'[key]>>].desired, want[key])
                      /\ states'[key].automatic = want[key].automatic
    BY DEF Matching
  <2> DEFINE w == <<key, forwardWorkers'[key]>>
  <2>1. w \in Worker /\ w[1] = key /\ w[2] = forwardWorkers'[key]
    BY <1>15 DEF MapsTyped, Worker
  <2> HIDE DEF w
  <2>2. CASE key \in plan.start
    <3>1. task'[w] = NewTask(want[key])
      BY <1>10, <1>11, <2>1, <2>2
    <3>2. SameForwardBehavior(task'[w].desired, want[key])
      BY <3>1 DEF NewTask, SameForwardBehavior
    <3>3. QED
      BY <1>3, <1>13, <2>2, <3>2 DEF w
  <2>3. CASE key \in plan.stop
    <3>1. task'[w] = [tk[w] EXCEPT !.cancelled = TRUE]
      BY <1>3, <1>10, <1>11, <2>1, <2>3
    <3>2. task'[w].cancelled
      BY <1>4, <2>1, <3>1 DEF Task
    <3>3. QED
      BY <3>2 DEF w
  <2>4. CASE key \in plan.keep
    <3>1. w = <<key, fw[key]>> /\ task'[w] = tk[w]
      BY <1>3, <1>10, <1>11, <2>1, <2>4 DEF w
    <3>2. states'[key].automatic = want[key].automatic
      BY <1>14, <2>4
    <3>3. QED
      BY <1>3, <2>4, <3>1, <3>2 DEF w
  <2>5. QED
    BY <1>3, <1>10, <2>2, <2>3, <2>4
<1>21. NoneLost(want, forwardWorkers', states', task')
  <2> SUFFICES ASSUME NEW key \in DOMAIN want \ DOMAIN forwardWorkers'
               PROVE  /\ key.direction = Publication
                      /\ \E other \in DOMAIN forwardWorkers' :
                           /\ other.direction = Import
                           /\ states'[other].state \in {"starting", "active"}
                           /\ states'[other].local = want[key].preferred.local
                           /\ task'[<<other, forwardWorkers'[other]>>].cancelled
    BY DEF NoneLost
  <2>1. key \in plan.wait
    BY <1>3, <1>10
  <2>2. PICK other \in plan.stop :
             /\ UsesReservedPort(other, st[other], reserved)
             /\ st[other].local = want[key].preferred.local
    BY <1>3, <2>1
  <2>3. other \in DOMAIN fw /\ states'[other] = st[other] /\ forwardWorkers'[other] = fw[other]
    BY <1>3, <1>9, <1>10
  <2>4. <<other, fw[other]>> \in Worker
    BY <1>4, <2>3 DEF Worker
  <2>5. task'[<<other, fw[other]>>] = [tk[<<other, fw[other]>>] EXCEPT !.cancelled = TRUE]
    BY <1>11, <2>2, <2>4
  <2>6. task'[<<other, fw[other]>>].cancelled
    BY <1>4, <2>4, <2>5 DEF Task
  <2>7. QED
    BY <1>3, <1>10, <2>1, <2>2, <2>3, <2>6 DEF UsesReservedPort
<1>22. DOMAIN states' \ DOMAIN forwardWorkers' \subseteq DOMAIN want
  BY <1>8, <1>10
<1>23. QED
  BY <1>15, <1>16, <1>17, <1>18, <1>19, <1>20, <1>21, <1>22 DEF Consistent, Reconciled

----------------------------------------------------------------------------
(* The invariant holds initially *)

\* Knowing no listener, initially and after a failed observation, is a listener map.
LEMMA NoListenersType == NoListeners \in Listeners
<1>1. NoListeners \in [{} -> Listener] /\ {} \in SUBSET Port
  BY DEF NoListeners
<1>2. QED
  BY <1>1 DEF Listeners

\* DesiredType, in the form the reconcile lemmas use.
LEMMA WantedTyped ==
    ASSUME NEW int \in Intent, NEW lst \in Listeners
    PROVE  WantTyped(DesiredForwards(int, lst))
BY DesiredType DEF WantTyped

\* A goroutine that does not run has a typed record too.
LEMMA IdleTaskType == IdleTask \in Task /\ Candidate(IdleTask) \in Port
<1>1. NoForward \in DesiredForward
  BY MaxPortAssumption DEF NoForward, DesiredForward, ForwardTarget, Port, Import, Publication
<1>2. IdleTask \in Task
  BY <1>1, MaxOffsetAssumption DEF IdleTask, Task
<1>3. Candidate(IdleTask) = 1
  BY DEF Candidate, IdleTask, NoForward
<1>4. QED
  BY <1>2, <1>3, MaxPortAssumption DEF Port

\* newManager: the first reconcile leaves consistent maps.
LEMMA InitInvariant == Init => IInv
<1> SUFFICES ASSUME Init PROVE IInv
  OBVIOUS
<1>1. PICK raw \in RawIntents : ValidIntent(raw) /\ InitialIntent(NormalizeIntent(raw))
  BY DEF Init
<1> DEFINE int == NormalizeIntent(raw)
           want == DesiredForwards(int, NoListeners)
<1>2. int \in Intent
  BY <1>1, NormalizeIntentType, RawIntentsAssumption
<1>3. WantTyped(want)
  BY <1>2, NoListenersType, WantedTyped
<1>4. /\ intent = int /\ reservedLocalPorts = ReservedLocalPorts(int)
      /\ states = [key \in DOMAIN want |-> StartingStatus(want[key])]
      /\ forwardWorkers = [key \in DOMAIN want |-> 1]
      /\ task = [w \in Worker |->
            IF w[1] \in DOMAIN want /\ w[2] = 1 THEN NewTask(want[w[1]]) ELSE IdleTask]
  BY <1>1 DEF InitialIntent
<1>5. closed = FALSE /\ listeners = NoListeners
  BY DEF Init
<1>6. Wanted = want
  BY <1>4, <1>5 DEF Wanted
<1> HIDE DEF want, int
<1>7. RestTyped
  BY <1>2, <1>4, NoListenersType DEF Init, RestTyped
<1>8. /\ DOMAIN want \subseteq Key
      /\ \A key \in DOMAIN want :
            want[key] \in DesiredForward /\ KeyOf(want[key].preferred) = key
  BY <1>3 DEF WantTyped
<1>9. /\ \A w \in Worker : w[1] \in DOMAIN want /\ w[2] = 1 => task[w] = NewTask(want[w[1]])
      /\ \A w \in Worker : ~(w[1] \in DOMAIN want /\ w[2] = 1) => task[w] = IdleTask
      /\ IdleTask.pc = "idle"
      /\ \A key \in DOMAIN want : NewTask(want[key]).pc = "check"
                               /\ NewTask(want[key]).desired = want[key]
  <2>1. IdleTask.pc = "idle"
    BY DEF IdleTask
  <2>2. ASSUME NEW key \in DOMAIN want
        PROVE  NewTask(want[key]).pc = "check" /\ NewTask(want[key]).desired = want[key]
    BY DEF NewTask
  <2>3. QED
    BY <1>4, <2>1, <2>2
<1>10. MapsTyped(forwardWorkers, states, task)
  <2>1. forwardWorkers \in [DOMAIN forwardWorkers -> Incarnation] /\ DOMAIN forwardWorkers \subseteq Key
    BY <1>4, <1>8 DEF Incarnation
  <2>2. states \in [DOMAIN states -> ForwardStatus] /\ DOMAIN states \subseteq Key
    BY <1>4, <1>8, NewTaskType
  <2>3. \A w \in Worker : task[w] \in Task /\ Candidate(task[w]) \in Port
    BY <1>8, <1>9, NewTaskType, IdleTaskType
  <2>4. task \in [Worker -> Task]
    BY <1>4, <2>3
  <2>5. QED
    BY <2>1, <2>2, <2>3, <2>4 DEF MapsTyped
<1>11. Linked(forwardWorkers, task)
  BY <1>4, <1>9 DEF Linked
<1>12. Keyed(task)
  <2> SUFFICES ASSUME NEW w \in Worker, task[w].pc # "idle"
               PROVE  KeyOf(task[w].desired.preferred) = w[1]
    BY DEF Keyed
  <2>1. w[1] \in DOMAIN want /\ task[w] = NewTask(want[w[1]])
    BY <1>9
  <2>2. task[w].desired = want[w[1]]
    BY <1>9, <2>1
  <2>3. QED
    BY <1>8, <2>1, <2>2
<1>13. Reported(states, task)
  <2>1. \A w \in Worker : task[w].pc \in {"idle", "check"}
    BY <1>9
  <2>2. QED
    BY <2>1 DEF Reported
<1>14. Stated(forwardWorkers, states)
  BY <1>4 DEF Stated
<1>15. Matching(want, forwardWorkers, states, task)
  <2> SUFFICES ASSUME NEW key \in DOMAIN forwardWorkers
               PROVE  /\ key \in DOMAIN want
                      /\ SameForwardBehavior(task[<<key, forwardWorkers[key]>>].desired, want[key])
                      /\ states[key].automatic = want[key].automatic
    BY DEF Matching
  <2>1. key \in DOMAIN want /\ forwardWorkers[key] = 1
    BY <1>4
  <2>2. <<key, 1>> \in Worker
    BY <1>8, <2>1 DEF Worker, Incarnation
  <2>3. task[<<key, 1>>].desired = want[key]
    <3>1. task[<<key, 1>>] = NewTask(want[key])
      BY <1>9, <2>1, <2>2
    <3>2. QED
      BY <1>9, <2>1, <3>1
  <2>4. states[key].automatic = want[key].automatic
    BY <1>4, <2>1 DEF StartingStatus, StatusOf
  <2>5. QED
    BY <2>1, <2>3, <2>4 DEF SameForwardBehavior
<1>16. NoneLost(want, forwardWorkers, states, task)
       /\ DOMAIN states \ DOMAIN forwardWorkers \subseteq DOMAIN want
  BY <1>4 DEF NoneLost
<1>17. QED
  BY <1>6, <1>7, <1>10, <1>11, <1>12, <1>13, <1>14, <1>15, <1>16
  DEF IInv, Consistent, Reconciled

----------------------------------------------------------------------------
(* Every step keeps it *)

\* An action that ends in a reconcile with the desired forwards of the next
\* state.
LEMMA ReconcilingAction ==
    ASSUME RestTyped', NEW fw, NEW st, NEW tk, Consistent(fw, st, tk),
           ReconcileForwards(Wanted', reservedLocalPorts', fw, st, tk)
    PROVE  IInv'
<1>1. WantTyped(Wanted')
  BY WantedTyped DEF RestTyped, Wanted
<1>2. Consistent(forwardWorkers', states', task')
      /\ Reconciled(Wanted', forwardWorkers', states', task')
  BY <1>1, ReconcileStep
<1>3. QED
  BY <1>2 DEF IInv

\* A step of one goroutine that keeps its forward and its cancellation.
LEMMA TaskStep ==
    ASSUME IInv, NEW w \in Worker, Running(w), NEW t \in Task,
           t.pc # "idle", t.desired = task[w].desired, t.cancelled = task[w].cancelled,
           Candidate(t) \in Port,
           task' = [task EXCEPT ![w] = t],
           \/ states' = states
           \/ /\ ~Cancelled(w)
              /\ \E s \in ForwardStatus : /\ states' = [states EXCEPT ![w[1]] = s]
                                          /\ s.automatic = states[w[1]].automatic,
           w[1].direction = Import /\ t.pc \in {"forward", "bound", "active"}
              => /\ states'[w[1]].state \in {"starting", "active"}
                 /\ states'[w[1]].local = Candidate(t),
           WorkerUnchanged
    PROVE  IInv'
<1>1. RestTyped' /\ Wanted' = Wanted /\ forwardWorkers' = forwardWorkers /\ closed' = closed
  BY DEF IInv, RestTyped, WorkerUnchanged, Wanted
<1>2. /\ MapsTyped(forwardWorkers, states, task) /\ Linked(forwardWorkers, task)
      /\ Keyed(task) /\ Reported(states, task) /\ Stated(forwardWorkers, states)
  BY DEF IInv, Consistent
<1>3. task \in [Worker -> Task] /\ task'[w] = t /\ \A v \in Worker : v # w => task'[v] = task[v]
  BY <1>2 DEF MapsTyped
<1>4. w[1] \in DOMAIN forwardWorkers /\ forwardWorkers[w[1]] = w[2] /\ w = <<w[1], w[2]>>
      /\ w[1] \in DOMAIN states
  BY <1>2 DEF Linked, Running, Worker, Stated
<1>5. /\ DOMAIN states' = DOMAIN states
      /\ states' \in [DOMAIN states -> ForwardStatus]
      /\ \A key \in DOMAIN states : key # w[1] => states'[key] = states[key]
      /\ states'[w[1]].automatic = states[w[1]].automatic
      /\ Cancelled(w) => states' = states
  BY <1>2, <1>4 DEF MapsTyped
<1>6. MapsTyped(forwardWorkers, states', task')
  BY <1>2, <1>3, <1>5 DEF MapsTyped
<1>7. Linked(forwardWorkers, task')
  BY <1>2, <1>3 DEF Linked, Running
<1>8. Keyed(task')
  BY <1>2, <1>3 DEF Keyed, Running
<1>9. Reported(states', task')
  <2> SUFFICES ASSUME NEW v \in Worker, v[1].direction = Import,
                      task'[v].pc \in {"forward", "bound", "active"}
               PROVE  /\ states'[v[1]].state \in {"starting", "active"}
                      /\ states'[v[1]].local = Candidate(task'[v])
    BY DEF Reported
  <2>1. CASE v = w
    BY <1>3, <2>1
  <2>2. CASE v # w
    <3>1. task'[v] = task[v]
      BY <1>3, <2>2
    <3>2. v[1] \in DOMAIN forwardWorkers /\ forwardWorkers[v[1]] = v[2] /\ v = <<v[1], v[2]>>
      BY <1>2, <3>1 DEF Linked, Worker
    <3>3. v[1] # w[1]
      BY <1>4, <2>2, <3>2
    <3>4. states'[v[1]] = states[v[1]]
      BY <1>2, <1>5, <3>2, <3>3 DEF Stated
    <3>5. QED
      BY <1>2, <3>1, <3>4 DEF Reported
  <2>3. QED
    BY <2>1, <2>2
<1>10. Stated(forwardWorkers, states')
  BY <1>2, <1>4, <1>5 DEF Stated
<1>11. ASSUME ~closed
       PROVE  Reconciled(Wanted, forwardWorkers, states', task')
  <2>1. /\ Matching(Wanted, forwardWorkers, states, task)
        /\ NoneLost(Wanted, forwardWorkers, states, task)
        /\ DOMAIN states \ DOMAIN forwardWorkers \subseteq DOMAIN Wanted
    BY <1>11 DEF IInv, Reconciled
  <2>2. ASSUME NEW key \in DOMAIN forwardWorkers
        PROVE  /\ <<key, forwardWorkers[key]>> \in Worker
               /\ task'[<<key, forwardWorkers[key]>>].desired
                     = task[<<key, forwardWorkers[key]>>].desired
               /\ task'[<<key, forwardWorkers[key]>>].cancelled
                     = task[<<key, forwardWorkers[key]>>].cancelled
               /\ states'[key].automatic = states[key].automatic
    <3>1. <<key, forwardWorkers[key]>> \in Worker
      BY <1>2 DEF MapsTyped, Worker
    <3>2. CASE key = w[1]
      BY <1>3, <1>4, <1>5, <3>1, <3>2
    <3>3. CASE key # w[1]
      BY <1>2, <1>3, <1>4, <1>5, <3>1, <3>3 DEF Stated
    <3>4. QED
      BY <3>1, <3>2, <3>3
  <2>3. Matching(Wanted, forwardWorkers, states', task')
    BY <2>1, <2>2 DEF Matching
  <2>4. NoneLost(Wanted, forwardWorkers, states', task')
    <3> SUFFICES ASSUME NEW key \in DOMAIN Wanted \ DOMAIN forwardWorkers
                 PROVE  /\ key.direction = Publication
                        /\ \E other \in DOMAIN forwardWorkers :
                             /\ other.direction = Import
                             /\ states'[other].state \in {"starting", "active"}
                             /\ states'[other].local = Wanted[key].preferred.local
                             /\ task'[<<other, forwardWorkers[other]>>].cancelled
      BY DEF NoneLost
    <3>1. PICK other \in DOMAIN forwardWorkers :
               /\ other.direction = Import
               /\ states[other].state \in {"starting", "active"}
               /\ states[other].local = Wanted[key].preferred.local
               /\ task[<<other, forwardWorkers[other]>>].cancelled
      BY <2>1 DEF NoneLost
    <3>2. states'[other] = states[other]
      BY <1>2, <1>4, <1>5, <3>1 DEF Stated, Cancelled
    <3>3. QED
      BY <2>1, <2>2, <3>1, <3>2 DEF NoneLost
  <2>5. QED
    BY <1>5, <2>1, <2>3, <2>4 DEF Reconciled
<1>12. QED
  BY <1>1, <1>6, <1>7, <1>8, <1>9, <1>10, <1>11 DEF IInv, Consistent

\* The next port of an import stays a port, and stays within the offsets.
LEMMA NextPortType ==
    ASSUME NEW t \in Task, Candidate(t) \in Port
    PROVE  /\ NextPort(t) \in Task
           /\ NextPort(t).pc \in {"check", "failed"}
           /\ NextPort(t).desired = t.desired
           /\ NextPort(t).cancelled = t.cancelled
           /\ Candidate(NextPort(t)) \in Port
<1>1. /\ t.offset \in 0 .. MaxOffset /\ t.desired \in DesiredForward
      /\ t.desired.preferred.local \in Port
  BY DEF Task, DesiredForward, ForwardTarget
<1>2. CASE t.offset < MaximumOffset(t) /\ Candidate(t) < MaxPort
  <2>1. NextPort(t) = [t EXCEPT !.pc = "check", !.offset = t.offset + 1]
    BY <1>2 DEF NextPort
  <2>2. MaximumOffset(t) \in {0, MaxOffset}
    BY DEF MaximumOffset
  <2>3. t.offset + 1 \in 0 .. MaxOffset
    BY <1>1, <1>2, <2>2, MaxOffsetAssumption
  <2>4. t.desired.preferred.local + (t.offset + 1) \in Port
    BY <1>1, <1>2, MaxPortAssumption, MaxOffsetAssumption DEF Candidate, Port
  <2>5. /\ NextPort(t).offset = t.offset + 1 /\ NextPort(t).desired = t.desired
        /\ NextPort(t) \in Task /\ NextPort(t).pc = "check"
        /\ NextPort(t).cancelled = t.cancelled
    BY <2>1, <2>3 DEF Task
  <2>6. QED
    BY <2>4, <2>5 DEF Candidate
<1>3. CASE ~(t.offset < MaximumOffset(t) /\ Candidate(t) < MaxPort)
  <2>1. NextPort(t) = [t EXCEPT !.pc = "failed", !.offset = 0]
    BY <1>3 DEF NextPort
  <2>2. 0 \in 0 .. MaxOffset
    BY MaxOffsetAssumption
  <2>3. /\ NextPort(t).offset = 0 /\ NextPort(t).desired = t.desired
        /\ NextPort(t) \in Task /\ NextPort(t).pc = "failed"
        /\ NextPort(t).cancelled = t.cancelled
    BY <2>1, <2>2 DEF Task
  <2>4. QED
    BY <1>1, <2>3, MaxPortAssumption DEF Candidate, Port
<1>4. QED
  BY <1>2, <1>3

\* setForwardState writes nothing, for a cancelled worker, or a typed status
\* with the label the state already had.
LEMMA SetForwardStateEffect ==
    ASSUME IInv, NEW w \in Worker, Running(w),
           NEW state \in {"starting", "active", "failed"}, NEW local \in Port,
           SetForwardState(w, state, local)
    PROVE  \/ Cancelled(w) /\ states' = states
           \/ /\ ~Cancelled(w)
              /\ \E s \in ForwardStatus : /\ states' = [states EXCEPT ![w[1]] = s]
                                          /\ s.automatic = states[w[1]].automatic
              /\ states'[w[1]].state = state
              /\ states'[w[1]].local = local
<1>1. /\ MapsTyped(forwardWorkers, states, task) /\ Linked(forwardWorkers, task)
      /\ Stated(forwardWorkers, states)
  BY DEF IInv, Consistent
<1>2. Registered(w) /\ w[1] \in DOMAIN states
  BY <1>1 DEF Linked, Running, Registered, Stated
<1>3. CASE Cancelled(w)
  BY <1>3 DEF SetForwardState
<1>4. CASE ~Cancelled(w)
  <2> DEFINE plain == StatusOf(task[w].desired, state, local)
             s == [plain EXCEPT !.automatic = states[w[1]].automatic]
  <2>1. states' = [states EXCEPT ![w[1]] = s]
    BY <1>2, <1>4 DEF SetForwardState
  <2>2. states[w[1]].automatic \in BOOLEAN
    BY <1>1, <1>2 DEF MapsTyped, ForwardStatus
  <2>3. task[w].desired \in DesiredForward
    BY <1>1 DEF MapsTyped, Task
  <2>4. plain \in ForwardStatus /\ plain.state = state /\ plain.local = local
    BY <2>3 DEF StatusOf, ForwardStatus, DesiredForward, ForwardTarget
  <2> HIDE DEF plain
  <2>5. /\ s \in ForwardStatus /\ s.state = state /\ s.local = local
        /\ s.automatic = states[w[1]].automatic
    BY <2>2, <2>4 DEF ForwardStatus
  <2> HIDE DEF s
  <2>6. states'[w[1]] = s
    BY <1>2, <2>1
  <2>7. QED
    BY <1>4, <2>1, <2>5, <2>6
<1>5. QED
  BY <1>3, <1>4

\* What the invariant says of one running goroutine.
LEMMA RunningTask ==
    ASSUME IInv, NEW w \in Worker
    PROVE  /\ task[w] \in Task /\ Candidate(task[w]) \in Port
           /\ task \in [Worker -> Task]
           /\ task[w].desired.preferred.local \in Port
           /\ w[1].direction = Import /\ Serving(w)
                => /\ states[w[1]].state \in {"starting", "active"}
                   /\ states[w[1]].local = Candidate(task[w])
<1>1. /\ MapsTyped(forwardWorkers, states, task) /\ Reported(states, task)
  BY DEF IInv, Consistent
<1>2. task[w] \in Task /\ Candidate(task[w]) \in Port /\ task \in [Worker -> Task]
  BY <1>1 DEF MapsTyped
<1>3. task[w].desired.preferred.local \in Port
  BY <1>2 DEF Task, DesiredForward, ForwardTarget
<1>4. QED
  BY <1>1, <1>2, <1>3 DEF Reported, Serving

\* A step that only moves a goroutine to another place keeps the rest of it.
LEMMA MovedTask ==
    ASSUME task \in [Worker -> Task], NEW w \in Worker, NEW pc,
           \/ task' = [task EXCEPT ![w].pc = pc]
           \/ task' = [task EXCEPT ![w] = [@ EXCEPT !.pc = pc, !.offset = 0]]
    PROVE  /\ \A v \in Worker : /\ task'[v].desired = task[v].desired
                                /\ task'[v].cancelled = task[v].cancelled
                                /\ v # w => task'[v] = task[v]
           /\ task'[w].pc = pc
<1>1. task[w] \in Task
  OBVIOUS
<1>2. CASE task' = [task EXCEPT ![w].pc = pc]
  BY <1>1, <1>2 DEF Task
<1>3. CASE task' = [task EXCEPT ![w] = [@ EXCEPT !.pc = pc, !.offset = 0]]
  <2>1. task'[w] = [task[w] EXCEPT !.pc = pc, !.offset = 0]
        /\ \A v \in Worker : v # w => task'[v] = task[v]
    BY <1>3
  <2>2. QED
    BY <1>1, <2>1 DEF Task
<1>4. QED
  BY <1>2, <1>3

\* A step of a goroutine to another place that publishes nothing.
LEMMA QuietStep ==
    ASSUME IInv, NEW w \in Worker, Running(w),
           NEW pc \in {"check", "claim", "bound", "failed", "retry", "exit"},
           \/ task' = [task EXCEPT ![w].pc = pc]
           \/ task' = [task EXCEPT ![w] = [@ EXCEPT !.pc = pc, !.offset = 0]] /\ pc = "failed",
           pc = "bound" => Serving(w),
           states' = states, WorkerUnchanged
    PROVE  IInv'
<1>1. /\ task[w] \in Task /\ task \in [Worker -> Task]
      /\ Candidate(task[w]) \in Port /\ task[w].desired.preferred.local \in Port
  BY RunningTask
<1>2. 0 \in 0 .. MaxOffset
  BY MaxOffsetAssumption
<1>3. CASE task' = [task EXCEPT ![w].pc = pc]
  <2> DEFINE t == [task[w] EXCEPT !.pc = pc]
  <2>1. task' = [task EXCEPT ![w] = t]
    BY <1>1, <1>3
  <2>2. /\ t \in Task /\ t.pc = pc /\ t.offset = task[w].offset
        /\ t.desired = task[w].desired /\ t.cancelled = task[w].cancelled
    BY <1>1 DEF Task
  <2> HIDE DEF t
  <2>3. Candidate(t) = Candidate(task[w])
    BY <2>2 DEF Candidate
  <2>4. w[1].direction = Import /\ t.pc \in {"forward", "bound", "active"}
          => /\ states'[w[1]].state \in {"starting", "active"}
             /\ states'[w[1]].local = Candidate(t)
    BY <2>2, <2>3, RunningTask
  <2>5. t.pc # "idle"
    BY <2>2
  <2>6. QED
    BY <1>1, <2>1, <2>2, <2>3, <2>4, <2>5, TaskStep
<1>4. CASE task' = [task EXCEPT ![w] = [@ EXCEPT !.pc = pc, !.offset = 0]] /\ pc = "failed"
  <2> DEFINE t == [task[w] EXCEPT !.pc = "failed", !.offset = 0]
  <2>1. task' = [task EXCEPT ![w] = t]
    BY <1>1, <1>4 DEF Task
  <2>2. /\ t \in Task /\ t.pc = "failed" /\ t.offset = 0
        /\ t.desired = task[w].desired /\ t.cancelled = task[w].cancelled
    BY <1>1, <1>2 DEF Task
  <2> HIDE DEF t
  <2>3. Candidate(t) \in Port
    BY <1>1, <2>2, MaxPortAssumption DEF Candidate, Port
  <2>4. QED
    BY <2>1, <2>2, <2>3, TaskStep
<1>5. QED
  BY <1>3, <1>4

\* A step of a goroutine to the next port it may try.
LEMMA NextPortStep ==
    ASSUME IInv, NEW w \in Worker, Running(w),
           task' = [task EXCEPT ![w] = NextPort(@)],
           states' = states, WorkerUnchanged
    PROVE  IInv'
<1> DEFINE t == NextPort(task[w])
<1>1. task[w] \in Task /\ Candidate(task[w]) \in Port
  BY RunningTask
<1>2. /\ t \in Task /\ t.pc \in {"check", "failed"} /\ t.desired = task[w].desired
      /\ t.cancelled = task[w].cancelled /\ Candidate(t) \in Port
  BY <1>1, NextPortType
<1>3. task' = [task EXCEPT ![w] = t]
  OBVIOUS
<1> HIDE DEF t
<1>4. t.pc # "idle" /\ t.pc \notin {"forward", "bound", "active"}
  BY <1>2
<1>5. QED
  BY <1>2, <1>3, <1>4, TaskStep

----------------------------------------------------------------------------
(* The actions, one lemma each *)

\* A step that leaves the maps and what they are reconciled with alone.
LEMMA OtherStep ==
    ASSUME IInv, RestTyped', closed' = closed \/ closed',
           UNCHANGED <<intent, reservedLocalPorts, listeners, states, forwardWorkers, task>>
    PROVE  IInv'
<1>1. Wanted' = Wanted
  BY DEF Wanted
<1>2. Consistent(forwardWorkers, states, task)' /\ (~closed' => ~closed)
  BY DEF IInv, RestTyped
<1>3. QED
  BY <1>1, <1>2 DEF IInv

\* UpdateIntent: the new intent is normalized and everything reconciled with it.
LEMMA UpdateIntentStep ==
    ASSUME IInv, NEW raw \in RawIntents, UpdateIntent(raw)
    PROVE  IInv'
<1>1. intent' \in Intent
  BY NormalizeIntentType, RawIntentsAssumption DEF UpdateIntent
<1>2. RestTyped'
  BY <1>1 DEF IInv, RestTyped, UpdateIntent
<1>3. ReconcileForwards(Wanted', reservedLocalPorts', forwardWorkers, states, task)
  BY DEF UpdateIntent, Wanted
<1>4. Consistent(forwardWorkers, states, task)
  BY DEF IInv
<1>5. QED
  BY <1>2, <1>3, <1>4, ReconcilingAction

\* Close and its background half, and the observer's steps that end in no
\* reconcile.
LEMMA CloseStep ==
    ASSUME IInv, Close \/ CloseBackend \/ ObserveStart \/ ObserveReturns \/ ObserveRetry
    PROVE  IInv'
<1>1. RestTyped
  BY DEF IInv
<1>2. RestTyped' /\ (closed' = closed \/ closed')
  <2>1. CASE Close
    BY <1>1, <2>1 DEF RestTyped, Close
  <2>2. CASE CloseBackend
    BY <1>1, <2>2 DEF RestTyped, CloseBackend
  <2>3. CASE ObserveStart
    BY <1>1, <2>3 DEF RestTyped, ObserveStart
  <2>4. CASE ObserveReturns
    BY <1>1, <2>4 DEF RestTyped, ObserveReturns
  <2>5. CASE ObserveRetry
    BY <1>1, <2>5 DEF RestTyped, ObserveRetry
  <2>6. QED
    BY <2>1, <2>2, <2>3, <2>4, <2>5
<1>3. UNCHANGED <<intent, reservedLocalPorts, listeners, states, forwardWorkers, task>>
  BY DEF Close, CloseBackend, ObserveStart, ObserveReturns, ObserveRetry
<1>4. QED
  BY <1>2, <1>3, OtherStep

\* A scanner result.
LEMMA SetListenersStep ==
    ASSUME IInv, NEW observed \in Observations, SetListeners(observed)
    PROVE  IInv'
<1>1. RestTyped'
  BY ObservationsAssumption DEF IInv, RestTyped, SetListeners
<1>2. ReconcileForwards(Wanted', reservedLocalPorts', forwardWorkers, states, task)
  BY DEF SetListeners, Wanted
<1>3. Consistent(forwardWorkers, states, task)
  BY DEF IInv
<1>4. QED
  BY <1>1, <1>2, <1>3, ReconcilingAction

\* A failed observation forgets its listeners.
LEMMA DiscoveryFailedStep ==
    ASSUME IInv, DiscoveryFailed
    PROVE  IInv'
<1>1. CASE closed
  <2>1. RestTyped' /\ closed' = closed
    BY <1>1 DEF IInv, RestTyped, DiscoveryFailed
  <2>2. UNCHANGED <<intent, reservedLocalPorts, listeners, states, forwardWorkers, task>>
    BY <1>1 DEF DiscoveryFailed
  <2>3. QED
    BY <2>1, <2>2, OtherStep
<1>2. CASE ~closed
  <2>1. RestTyped'
    BY <1>2, NoListenersType DEF IInv, RestTyped, DiscoveryFailed
  <2>2. ReconcileForwards(Wanted', reservedLocalPorts', forwardWorkers, states, task)
    BY <1>2 DEF DiscoveryFailed, Wanted
  <2>3. Consistent(forwardWorkers, states, task)
    BY DEF IInv
  <2>4. QED
    BY <2>1, <2>2, <2>3, ReconcilingAction
<1>3. QED
  BY <1>1, <1>2

\* The reservation check moves on to the claim, the next port or the failure.
LEMMA CheckReservedStep ==
    ASSUME IInv, NEW w \in Worker, CheckReserved(w)
    PROVE  IInv'
<1>1. Running(w) /\ states' = states /\ WorkerUnchanged
  BY DEF CheckReserved, Running
<1>2. CASE w[1].direction = Import /\ Candidate(task[w]) \in reservedLocalPorts
  BY <1>1, <1>2, NextPortStep DEF CheckReserved
<1>3. CASE ~(w[1].direction = Import /\ Candidate(task[w]) \in reservedLocalPorts)
  <2>1. task' = [task EXCEPT ![w].pc = "claim"]
    BY <1>3 DEF CheckReserved
  <2>2. QED
    BY <1>1, <2>1, QuietStep
<1>4. QED
  BY <1>2, <1>3

\* A conflict moves an import on to its next port.
LEMMA PortConflictStep ==
    ASSUME IInv, NEW w \in Worker, PortConflict(w)
    PROVE  IInv'
BY NextPortStep DEF PortConflict, Running

\* Publishing "starting" before Forward is called keeps HeldPortIsReported: a
\* cancelled worker publishes nothing, but does not call Forward either.
LEMMA ClaimPortStep ==
    ASSUME IInv, NEW w \in Worker, ClaimPort(w)
    PROVE  IInv'
<1>1. Running(w) /\ WorkerUnchanged /\ task[w] \in Task /\ task \in [Worker -> Task]
      /\ Candidate(task[w]) \in Port
  BY RunningTask DEF ClaimPort, Running
<1>2. \/ Cancelled(w) /\ states' = states
      \/ /\ ~Cancelled(w)
         /\ \E s \in ForwardStatus : /\ states' = [states EXCEPT ![w[1]] = s]
                                     /\ s.automatic = states[w[1]].automatic
         /\ states'[w[1]].state = "starting"
         /\ states'[w[1]].local = Candidate(task[w])
  BY <1>1, SetForwardStateEffect DEF ClaimPort
<1>3. CASE Cancelled(w)
  <2>1. task' = [task EXCEPT ![w].pc = "exit"] /\ states' = states
    BY <1>2, <1>3 DEF ClaimPort
  <2>2. QED
    BY <1>1, <2>1, QuietStep
<1>4. CASE ~Cancelled(w)
  <2> DEFINE t == [task[w] EXCEPT !.pc = "forward"]
  <2>1. task' = [task EXCEPT ![w] = t]
    BY <1>1, <1>4 DEF ClaimPort
  <2>2. /\ t \in Task /\ t.pc = "forward" /\ t.offset = task[w].offset
        /\ t.desired = task[w].desired /\ t.cancelled = task[w].cancelled
    BY <1>1 DEF Task
  <2> HIDE DEF t
  <2>3. Candidate(t) = Candidate(task[w])
    BY <2>2 DEF Candidate
  <2>4. t.pc # "idle"
    BY <2>2
  <2>5. QED
    BY <1>1, <1>2, <1>4, <2>1, <2>2, <2>3, <2>4, TaskStep
<1>5. QED
  BY <1>3, <1>4

\* ready() publishes active on the port that is bound.
LEMMA ReadyStep ==
    ASSUME IInv, NEW w \in Worker, Ready(w)
    PROVE  IInv'
<1>1. /\ Running(w) /\ Serving(w) /\ WorkerUnchanged
      /\ task[w] \in Task /\ task \in [Worker -> Task] /\ Candidate(task[w]) \in Port
      /\ w[1].direction = Import
            => /\ states[w[1]].state \in {"starting", "active"}
               /\ states[w[1]].local = Candidate(task[w])
  BY RunningTask DEF Ready, Running, Serving
<1>2. \/ Cancelled(w) /\ states' = states
      \/ /\ ~Cancelled(w)
         /\ \E s \in ForwardStatus : /\ states' = [states EXCEPT ![w[1]] = s]
                                     /\ s.automatic = states[w[1]].automatic
         /\ states'[w[1]].state = "active"
         /\ states'[w[1]].local = Candidate(task[w])
  BY <1>1, SetForwardStateEffect DEF Ready
<1> DEFINE t == [task[w] EXCEPT !.pc = "active"]
<1>3. task' = [task EXCEPT ![w] = t]
  BY <1>1 DEF Ready
<1>4. /\ t \in Task /\ t.pc = "active" /\ t.offset = task[w].offset
      /\ t.desired = task[w].desired /\ t.cancelled = task[w].cancelled
  BY <1>1 DEF Task
<1> HIDE DEF t
<1>5. Candidate(t) = Candidate(task[w])
  BY <1>4 DEF Candidate
<1>6. /\ t.pc # "idle"
      /\ w[1].direction = Import => /\ states'[w[1]].state \in {"starting", "active"}
                                    /\ states'[w[1]].local = Candidate(t)
  BY <1>1, <1>2, <1>4, <1>5
<1>7. \/ states' = states
      \/ /\ ~Cancelled(w)
         /\ \E s \in ForwardStatus : /\ states' = [states EXCEPT ![w[1]] = s]
                                     /\ s.automatic = states[w[1]].automatic
  BY <1>2
<1>8. QED
  BY <1>1, <1>3, <1>4, <1>5, <1>6, <1>7, TaskStep

\* A published failure: nothing is held any more.
LEMMA ForwardFailedStep ==
    ASSUME IInv, NEW w \in Worker, ForwardFailed(w)
    PROVE  IInv'
<1>1. /\ Running(w) /\ WorkerUnchanged
      /\ task[w] \in Task /\ task \in [Worker -> Task] /\ Candidate(task[w]) \in Port
      /\ task[w].desired.preferred.local \in Port
  BY RunningTask DEF ForwardFailed, Running
<1>2. \/ Cancelled(w) /\ states' = states
      \/ /\ ~Cancelled(w)
         /\ \E s \in ForwardStatus : /\ states' = [states EXCEPT ![w[1]] = s]
                                     /\ s.automatic = states[w[1]].automatic
  BY <1>1, SetForwardStateEffect DEF ForwardFailed
<1> DEFINE pc == IF Cancelled(w) THEN "exit" ELSE "retry"
           t == [task[w] EXCEPT !.pc = pc]
<1>3. task' = [task EXCEPT ![w] = t]
  BY <1>1 DEF ForwardFailed
<1>4. pc \in {"exit", "retry"}
  OBVIOUS
<1> HIDE DEF pc
<1>5. /\ t \in Task /\ t.pc = pc /\ t.offset = task[w].offset
      /\ t.desired = task[w].desired /\ t.cancelled = task[w].cancelled
  BY <1>1, <1>4 DEF Task
<1> HIDE DEF t
<1>6. Candidate(t) \in Port
  BY <1>1, <1>5 DEF Candidate
<1>7. \/ states' = states
      \/ /\ ~Cancelled(w)
         /\ \E s \in ForwardStatus : /\ states' = [states EXCEPT ![w[1]] = s]
                                     /\ s.automatic = states[w[1]].automatic
  BY <1>2
<1>8. t.pc # "idle" /\ t.pc \notin {"forward", "bound", "active"}
  BY <1>4, <1>5
<1>9. QED
  BY <1>1, <1>3, <1>5, <1>6, <1>7, <1>8, TaskStep

\* The steps of a goroutine and of its Backend call that publish nothing.
LEMMA SilentStep ==
    ASSUME IInv, NEW w \in Worker,
           RetryTimer(w) \/ RetryCancelled(w) \/ Bind(w) \/ TransportError(w) \/ ForwardCancelled(w)
    PROVE  IInv'
<1>1. CASE RetryTimer(w)
  BY <1>1, QuietStep DEF RetryTimer, Running
<1>2. CASE RetryCancelled(w)
  BY <1>2, QuietStep DEF RetryCancelled, Running
<1>3. CASE Bind(w)
  BY <1>3, QuietStep DEF Bind, Running, Serving
<1>4. CASE TransportError(w)
  BY <1>4, QuietStep DEF TransportError, Running, Serving
<1>5. CASE ForwardCancelled(w)
  BY <1>5, QuietStep DEF ForwardCancelled, Running, Serving
<1>6. QED
  BY <1>1, <1>2, <1>3, <1>4, <1>5

\* The maps without an ended goroutine and its state are consistent again.
LEMMA WithoutConsistent ==
    ASSUME Consistent(forwardWorkers, states, task), NEW w \in Worker, Registered(w)
    PROVE  Consistent(Without(forwardWorkers, w[1]), Without(states, w[1]),
                      [task EXCEPT ![w] = IdleTask])
<1> DEFINE fw == Without(forwardWorkers, w[1])
           st == Without(states, w[1])
           tk == [task EXCEPT ![w] = IdleTask]
<1>1. /\ MapsTyped(forwardWorkers, states, task) /\ Linked(forwardWorkers, task)
      /\ Keyed(task) /\ Reported(states, task) /\ Stated(forwardWorkers, states)
  BY DEF Consistent
<1>2. /\ DOMAIN fw = DOMAIN forwardWorkers \ {w[1]}
      /\ \A key \in DOMAIN fw : fw[key] = forwardWorkers[key]
      /\ fw \in [DOMAIN fw -> Incarnation]
      /\ DOMAIN st = DOMAIN states \ {w[1]}
      /\ \A key \in DOMAIN st : st[key] = states[key]
      /\ st \in [DOMAIN st -> ForwardStatus]
  BY <1>1 DEF Without, MapsTyped
<1>3. /\ tk \in [Worker -> Task] /\ tk[w] = IdleTask
      /\ \A v \in Worker : v # w => tk[v] = task[v]
      /\ tk[w].pc = "idle"
  BY <1>1, IdleTaskType DEF MapsTyped, IdleTask
<1> HIDE DEF fw, st, tk
<1>4. MapsTyped(fw, st, tk)
  <2>1. \A v \in Worker : Candidate(tk[v]) \in Port
    BY <1>1, <1>3, IdleTaskType DEF MapsTyped
  <2>2. QED
    BY <1>1, <1>2, <1>3, <2>1 DEF MapsTyped
<1>5. ASSUME NEW v \in Worker, v # w, tk[v].pc # "idle"
      PROVE  v[1] \in DOMAIN fw /\ fw[v[1]] = v[2] /\ v[1] # w[1]
  <2>1. v = <<v[1], v[2]>> /\ w = <<w[1], w[2]>>
    BY DEF Worker
  <2>2. v[1] \in DOMAIN forwardWorkers /\ forwardWorkers[v[1]] = v[2]
    BY <1>1, <1>3, <1>5 DEF Linked
  <2>3. v[1] # w[1]
    BY <1>5, <2>1, <2>2 DEF Registered
  <2>4. QED
    BY <1>2, <2>2, <2>3
<1>6. Linked(fw, tk)
  BY <1>1, <1>2, <1>3, <1>5 DEF Linked
<1>7. Keyed(tk)
  BY <1>1, <1>3 DEF Keyed
<1>8. Reported(st, tk)
  <2> SUFFICES ASSUME NEW v \in Worker, v[1].direction = Import,
                      tk[v].pc \in {"forward", "bound", "active"}
               PROVE  /\ st[v[1]].state \in {"starting", "active"}
                      /\ st[v[1]].local = Candidate(tk[v])
    BY DEF Reported
  <2>1. v # w /\ tk[v] = task[v]
    BY <1>3
  <2>2. v[1] \in DOMAIN fw
    BY <1>5, <2>1
  <2>3. st[v[1]] = states[v[1]]
    BY <1>1, <1>2, <2>2 DEF Stated
  <2>4. QED
    BY <1>1, <2>1, <2>3 DEF Reported
<1>9. Stated(fw, st)
  BY <1>1, <1>2 DEF Stated
<1>10. QED
  BY <1>4, <1>6, <1>7, <1>8, <1>9 DEF Consistent, fw, st, tk

\* The exit of a worker: it is the registered one, so its key and state go with
\* it, and what replaces it or waited for it starts at once.
LEMMA ForwardStoppedStep ==
    ASSUME IInv, NEW w \in Worker, ForwardStopped(w)
    PROVE  IInv'
<1> DEFINE fw == Without(forwardWorkers, w[1])
           st == Without(states, w[1])
           tk == [task EXCEPT ![w] = IdleTask]
<1>1. Consistent(forwardWorkers, states, task) /\ RestTyped
  BY DEF IInv
<1>2. Registered(w)
  BY <1>1 DEF ForwardStopped, Consistent, Linked, Registered
<1>3. Consistent(fw, st, tk)
  BY <1>1, <1>2, WithoutConsistent
<1>4. RestTyped' /\ Wanted' = Wanted /\ closed' = closed
      /\ reservedLocalPorts' = reservedLocalPorts
  BY <1>1 DEF ForwardStopped, RestTyped, Wanted
<1>5. CASE ~closed
  <2>1. ReconcileForwards(Wanted', reservedLocalPorts', fw, st, tk)
    BY <1>2, <1>4, <1>5 DEF ForwardStopped, ReplacesStopped, Wanted
  <2> HIDE DEF fw, st, tk
  <2>2. QED
    BY <1>3, <1>4, <2>1, ReconcilingAction
<1>6. CASE closed
  <2>1. task' = tk /\ forwardWorkers' = fw /\ states' = st
    BY <1>2, <1>6 DEF ForwardStopped, ReplacesStopped
  <2> HIDE DEF fw, st, tk
  <2>2. QED
    BY <1>3, <1>4, <1>6, <2>1 DEF IInv
<1>7. QED
  BY <1>5, <1>6

----------------------------------------------------------------------------
(* The theorems *)

\* Every step keeps the invariant.
LEMMA NextInvariant == IInv /\ [Next]_vars => IInv'
<1> SUFFICES ASSUME IInv, [Next]_vars PROVE IInv'
  OBVIOUS
<1>1. ASSUME NEW raw \in RawIntents, UpdateIntent(raw) PROVE IInv'
  BY <1>1, UpdateIntentStep
<1>2. CASE Close \/ CloseBackend
  BY <1>2, CloseStep
<1>3. CASE ObserverStep
  BY <1>3, CloseStep, DiscoveryFailedStep DEF ObserverStep
<1>4. ASSUME NEW observed \in Observations, SetListeners(observed) PROVE IInv'
  BY <1>4, SetListenersStep
<1>5. ASSUME NEW w \in Worker, WorkerStep(w) PROVE IInv'
  BY <1>5, CheckReservedStep, ClaimPortStep, ReadyStep, ForwardFailedStep, SilentStep,
     ForwardStoppedStep DEF WorkerStep
<1>6. ASSUME NEW w \in Worker, BackendStep(w) PROVE IInv'
  BY <1>6, SilentStep, PortConflictStep DEF BackendStep
<1>7. CASE UNCHANGED vars
  <2>1. RestTyped' /\ (closed' = closed \/ closed')
    BY <1>7 DEF IInv, RestTyped, vars
  <2>2. UNCHANGED <<intent, reservedLocalPorts, listeners, states, forwardWorkers, task>>
    BY <1>7 DEF vars
  <2>3. QED
    BY <2>1, <2>2, OtherStep
<1>8. QED
  BY <1>1, <1>2, <1>3, <1>4, <1>5, <1>6, <1>7 DEF Next, Terminated

\* The maps of the manager are consistent with each other and, while it is
\* open, reconciled with the intent and the listeners, after every critical
\* section.
THEOREM Invariance == Spec => []IInv
BY InitInvariant, NextInvariant, PTL DEF Spec

\* Every variable keeps its type and no candidate port leaves the range of ports.
THEOREM TypeCorrect == Spec => []TypeOK
<1>1. IInv => TypeOK
  BY ReservedType DEF IInv, RestTyped, Consistent, MapsTyped, TypeOK
<1>2. QED
  BY <1>1, Invariance, PTL

\* A key never has two goroutines, nor one that the map has forgotten.
THEOREM OneTask == Spec => []OneTaskPerKey
<1>1. IInv => OneTaskPerKey
  BY DEF IInv, Consistent, Linked, OneTaskPerKey, Running, Registered
<1>2. QED
  BY <1>1, Invariance, PTL

\* Whatever is not being retired is what is desired now, under its label.
THEOREM WorkersMatch == Spec => []WorkersMatchIntent
<1>1. IInv => WorkersMatchIntent
  BY DEF IInv, Reconciled, Matching, WorkersMatchIntent, WorkerOf
<1>2. QED
  BY <1>1, Invariance, PTL

\* Whatever is desired has a worker or waits for a retiring import's port.
THEOREM NothingLost == Spec => []NoLostForward
<1>1. IInv => NoLostForward
  <2> SUFFICES ASSUME IInv, ~closed, NEW key \in DOMAIN Wanted \ DOMAIN forwardWorkers
               PROVE  /\ key.direction = Publication
                      /\ \E other \in DOMAIN forwardWorkers :
                           /\ ReportedOn(other, Wanted[key].preferred.local)
                           /\ task[WorkerOf(other)].cancelled
    BY DEF NoLostForward
  <2>1. NoneLost(Wanted, forwardWorkers, states, task)
    BY DEF IInv, Reconciled
  <2>2. QED
    BY <2>1 DEF NoneLost, ReportedOn, WorkerOf
<1>2. QED
  BY <1>1, Invariance, PTL

\* Status explains the workers and the waiting publications, and nothing else.
THEOREM StatesMatch == Spec => []StatesMatchWorkers
<1>1. IInv => StatesMatchWorkers
  BY DEF IInv, Consistent, Stated, Reconciled, StatesMatchWorkers
<1>2. QED
  BY <1>1, Invariance, PTL

\* An import that may own a local port is registered and reported on that port.
THEOREM HeldPortReported == Spec => []HeldPortIsReported
<1>1. IInv => HeldPortIsReported
  <2> SUFFICES ASSUME IInv, NEW w \in Worker, w[1].direction = Import, Serving(w)
               PROVE  Registered(w) /\ ReportedOn(w[1], Candidate(task[w]))
    BY DEF HeldPortIsReported
  <2>1. Linked(forwardWorkers, task) /\ Reported(states, task)
    BY DEF IInv, Consistent
  <2>2. Registered(w)
    BY <2>1 DEF Linked, Registered, Serving
  <2>3. QED
    BY <2>1, <2>2 DEF Reported, ReportedOn, Serving, Registered
<1>2. QED
  BY <1>1, Invariance, PTL

============================================================================
