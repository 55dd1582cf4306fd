--------------------------- MODULE ServiceProofs ---------------------------
(***************************************************************************)
(* Theorems about the commands and the service, for every set of commands, *)
(* every configuration and every bound: what a command reported as done is *)
(* what the service goes by, and no edit is lost.                          *)
(***************************************************************************)
EXTENDS Service, TLAPS, WellFoundedInduction

TypeInv ==
    /\ task \in [Command -> Task]
    /\ DOMAIN pc = Command
    /\ seen \in [Command -> Nat]
    /\ saved \in Seq(Command)
    /\ DOMAIN copy = Command
    /\ reload.version \in Nat
    /\ applied \in Nat

\* Only the holder of the lock reads and saves, and what it has read is what
\* the file still says.
LockInv ==
    \A c \in Command :
        /\ pc[c] \in {"read", "save"} => lock = c
        /\ pc[c] = "save" => copy[c] = content

\* A reload under way has read what every command before it has saved, the one
\* it is to answer included.
EffectInv ==
    /\ reload.version <= Len(saved)
    /\ \A c \in Command :
        /\ seen[c] <= Len(saved)
        /\ Committed(c) /\ phase \in {"serve", "drain", "shutdown"} => seen[c] <= applied
        /\ Committed(c) /\ reload # NoReload => seen[c] <= reload.version
        /\ reload.by = c => /\ pc[c] \in {"connect", "apply", "done", "failed"}
                            /\ seen[c] <= reload.version

Inv == TypeInv /\ LockInv /\ EffectInv

(***************************************************************************)
(* What the steps of Connect have in common.                               *)
(***************************************************************************)

Busy == {"connect", "apply", "done", "failed", "read", "save", "lock"}

Places == {"connect", "status", "ensure", "await", "install", "stop", "uninstall",
           "stopping", "failed", "look", "remove", "start", "done"}

Moves(c) == \E x \in Places : /\ pc' = [pc EXCEPT ![c] = x]
                              /\ x = "done" => task[c].kind # "edit"

LEMMA ConnectStep ==
    ASSUME TypeInv, NEW c \in Command, Connect(c)
    PROVE  /\ StoreUnchanged
           /\ UNCHANGED <<phase, reload, applied>>
           /\ pc[c] \notin Busy
           /\ Moves(c)
<1> USE DEF StoreUnchanged, Goto, Busy, Places, Moves
<1>1. CASE DialAnswered(c)
    BY <1>1 DEF DialAnswered
<1>2. CASE DialFails(c)
    BY <1>2 DEF DialFails, Step, serviceVars, processVars
<1>3. CASE EnsureService(c)
    <2>1. PICK status \in Status :
              pc' = [pc EXCEPT ![c] = CASE status = "not installed" -> "install"
                                        [] status = "running" -> "await"
                                        [] status = "stopped" -> "status"]
        BY <1>3 DEF EnsureService
    <2>2. status \in {"not installed", "running", "stopped"}
        BY <2>1 DEF Status
    <2> QED BY <1>3, <2>1, <2>2 DEF EnsureService, serviceVars, processVars
<1>4. CASE UninstallStatus(c)
    <2>1. PICK status \in Status :
              pc' = [pc EXCEPT ![c] = CASE status = "not installed" -> AfterUninstall(c)
                                        [] status = "running" -> "stop"
                                        [] status = "stopped" -> "uninstall"]
        BY <1>4 DEF UninstallStatus
    <2>2. status \in {"not installed", "running", "stopped"}
        BY <2>1 DEF Status
    <2> QED BY <1>4, <2>1, <2>2 DEF UninstallStatus, AfterUninstall, serviceVars, processVars
<1>5. CASE StopService(c)
    BY <1>5 DEF StopService, Step
<1>6. CASE ServiceStopped(c)
    BY <1>6 DEF ServiceStopped, Step, serviceVars, processVars
<1>7. CASE UninstallService(c)
    BY <1>7 DEF UninstallService, Step
<1>8. CASE LookAtSocket(c)
    BY <1>8 DEF LookAtSocket, Step, AfterUninstall, serviceVars, processVars
<1>9. CASE RemoveSocket(c)
    BY <1>9 DEF RemoveSocket, Step, AfterUninstall
<1>10. CASE Install(c)
    <2>1. \E x \in {"await", "start"} : pc' = [pc EXCEPT ![c] = x]
        BY <1>10 DEF Install
    <2> QED BY <1>10, <2>1 DEF Install, processVars
<1>11. CASE StartService(c)
    BY <1>11 DEF StartService, Step, processVars
<1> QED
    BY <1>1, <1>2, <1>3, <1>4, <1>5, <1>6, <1>7, <1>8, <1>9, <1>10, <1>11 DEF Connect

(***************************************************************************)
(* The invariant.                                                          *)
(***************************************************************************)

LEMMA InitInv == ServiceInit => Inv
<1> SUFFICES ASSUME StoreInit, ServiceInit PROVE Inv
    BY DEF ServiceInit
<1>1. pc = [c \in Command |-> IF task[c].kind = "uninstall" THEN "status" ELSE "lock"]
    BY DEF StoreInit
<1>2. \A c \in Command : pc[c] \in {"status", "lock"}
    BY <1>1
<1>3. reload = NoReload /\ reload.by \notin Command /\ reload.version = 0 /\ applied = 0
    BY TasksAssumption DEF ServiceInit, NoReload
<1>4. saved = <<>> /\ seen = [c \in Command |-> 0] /\ task \in [Command -> Task]
      /\ DOMAIN copy = Command
    BY DEF StoreInit
<1>5. TypeInv
    BY <1>1, <1>3, <1>4 DEF TypeInv
<1>6. LockInv
    BY <1>2 DEF LockInv
<1>7. EffectInv
    BY <1>2, <1>3, <1>4 DEF EffectInv, Committed
<1> QED BY <1>5, <1>6, <1>7 DEF Inv

\* The steps of the edit.
LEMMA StoreStepInv ==
    ASSUME Inv, NEW c \in Command, StoreStep(c) \/ Abort(c), UNCHANGED serviceVars
    PROVE  Inv'
<1>0. UNCHANGED <<phase, reload, applied>>
    BY DEF serviceVars, processVars
<1> USE <1>0 DEF Goto
<1>1. CASE Lock(c)
    BY <1>1, TasksAssumption DEF Inv, TypeInv, LockInv, EffectInv, Committed, Lock
<1>2. CASE Read(c)
    BY <1>2 DEF Inv, TypeInv, LockInv, EffectInv, Committed, Read
<1>3. CASE Save(c)
    <2>1. /\ pc[c] = "save" /\ lock = c /\ lock' = NoOne
          /\ saved' = Append(saved, c) /\ Len(saved') = Len(saved) + 1 /\ Len(saved) \in Nat
          /\ seen' = [seen EXCEPT ![c] = Len(saved) + 1]
          /\ pc' = [pc EXCEPT ![c] = AfterEdit(c)]
          /\ UNCHANGED <<task, copy, phase, reload, applied>>
        BY <1>3 DEF Inv, TypeInv, LockInv, Save, Unlock
    <2>2. pc'[c] \in {"done", "dial"} /\ (pc'[c] = "done" => task[c].kind # "edit")
        BY <2>1 DEF Inv, TypeInv, AfterEdit
    <2>3. TypeInv'
        BY <2>1, <2>2 DEF Inv, TypeInv, AfterEdit
    <2>4. LockInv'
        BY <2>1, <2>2 DEF Inv, TypeInv, LockInv
    <2>5. EffectInv'
        BY <2>1, <2>2 DEF Inv, TypeInv, EffectInv, Committed
    <2> QED BY <2>3, <2>4, <2>5 DEF Inv
<1>4. CASE Unchanged(c)
    <2>1. /\ pc[c] = "save" /\ lock = c /\ lock' = NoOne
          /\ Len(saved) \in Nat
          /\ seen' = [seen EXCEPT ![c] = Len(saved)]
          /\ pc' = [pc EXCEPT ![c] = IF task[c].adding THEN "dial" ELSE "failed"]
          /\ UNCHANGED <<content, saved, task, copy, phase, reload, applied>>
        BY <1>4 DEF Inv, TypeInv, LockInv, Unchanged, Unlock
    <2>2. pc'[c] \in {"dial", "failed"}
        BY <2>1 DEF Inv, TypeInv
    <2>3. TypeInv' /\ LockInv'
        BY <2>1, <2>2 DEF Inv, TypeInv, LockInv
    <2>4. EffectInv'
        BY <2>1, <2>2 DEF Inv, TypeInv, EffectInv, Committed
    <2> QED BY <2>3, <2>4 DEF Inv
<1>5. CASE Refuse(c) \/ Abort(c)
    <2>1. /\ lock' = (IF lock = c THEN NoOne ELSE lock)
          /\ pc' = [pc EXCEPT ![c] = "failed"]
          /\ UNCHANGED <<content, saved, seen, task, copy, phase, reload, applied>>
        BY <1>5 DEF Refuse, Abort, Unlock
    <2>2. TypeInv' /\ LockInv'
        BY <2>1 DEF Inv, TypeInv, LockInv
    <2>3. EffectInv'
        BY <2>1 DEF Inv, TypeInv, EffectInv, Committed
    <2> QED BY <2>2, <2>3 DEF Inv
<1> QED BY <1>1, <1>2, <1>3, <1>4, <1>5 DEF StoreStep

LEMMA ConnectInv ==
    ASSUME Inv, NEW c \in Command, Connect(c)
    PROVE  Inv'
<1>1. /\ UNCHANGED <<content, lock, task, copy, saved, seen, phase, reload, applied>>
      /\ pc[c] \notin Busy
      /\ Moves(c)
    BY ConnectStep DEF Inv, StoreUnchanged
<1>2. PICK x \in Places : /\ pc' = [pc EXCEPT ![c] = x]
                          /\ x = "done" => task[c].kind # "edit"
    BY <1>1 DEF Moves
<1>3. x \notin {"read", "save"}
    BY DEF Places
<1>4. TypeInv' /\ LockInv'
    BY <1>1, <1>2, <1>3 DEF Inv, TypeInv, LockInv
<1>5. EffectInv'
    BY <1>1, <1>2, <1>3 DEF Inv, TypeInv, EffectInv, Committed, Busy
<1> QED BY <1>4, <1>5 DEF Inv

\* A reload begins and reads the file as it is.
LEMMA BeginReloadInv ==
    ASSUME Inv, NEW who, BeginReload(who),
           who \in Command => Waiting(who),
           StoreUnchanged, UNCHANGED <<pc, phase, applied>>
    PROVE  Inv'
<1>1. reload'.by = who /\ reload'.version = Len(saved) /\ Len(saved) \in Nat
    BY DEF BeginReload, Latest, Inv, TypeInv
<1>2. TypeInv' /\ LockInv'
    BY <1>1 DEF Inv, TypeInv, LockInv, StoreUnchanged
<1>3. EffectInv'
    BY <1>1 DEF Inv, TypeInv, EffectInv, Committed, Waiting, StoreUnchanged
<1> QED BY <1>2, <1>3 DEF Inv

\* It ends: what it read is what the process goes by.
LEMMA FinishReloadInv ==
    ASSUME Inv, FinishReload
    PROVE  Inv'
<1>1. /\ reload # NoReload /\ reload' = NoReload /\ applied' = reload.version
      /\ UNCHANGED <<content, lock, task, copy, saved, seen>>
      /\ pc' = [c \in Command |-> IF c \in Answered THEN AfterReload(c) ELSE pc[c]]
    BY DEF FinishReload, StoreUnchanged
<1>2. \A c \in Command : pc'[c] # pc[c] => reload.by = c /\ pc'[c] \in {"apply", "done"}
    BY <1>1 DEF Answered, AfterReload
<1>3. DOMAIN pc' = Command
    BY <1>1 DEF Answered, AfterReload, Inv, TypeInv
<1>4. reload'.version = 0 /\ reload'.by \notin Command
    BY <1>1, TasksAssumption DEF NoReload
<1>5. TypeInv' /\ LockInv'
    BY <1>1, <1>2, <1>3, <1>4 DEF Inv, TypeInv, LockInv
<1>6. EffectInv'
    BY <1>1, <1>2, <1>4 DEF Inv, TypeInv, EffectInv, Committed
<1> QED BY <1>5, <1>6 DEF Inv

\* The process goes on or goes away without finishing a reload.
LEMMA ProcessInv ==
    ASSUME Inv,
           UNCHANGED <<content, lock, task, copy, saved, seen>>,
           DOMAIN pc' = Command,
           \A c \in Command : pc'[c] # pc[c] => pc'[c] = "failed",
           \/ UNCHANGED <<reload, applied>>
           \/ reload' = NoReload /\ applied' = 0
           \/ reload' = NoReload /\ UNCHANGED applied,
           phase' \in {"serve", "drain", "shutdown"} =>
               phase \in {"serve", "drain", "shutdown"} /\ UNCHANGED applied
    PROVE  Inv'
<1>1. NoReload.version = 0 /\ NoReload.by \notin Command
    BY TasksAssumption DEF NoReload
<1>2. TypeInv' /\ LockInv'
    BY <1>1 DEF Inv, TypeInv, LockInv
<1>3. EffectInv'
    BY <1>1 DEF Inv, TypeInv, EffectInv, Committed
<1> QED BY <1>2, <1>3 DEF Inv

LEMMA NextInv ==
    ASSUME Inv, [ServiceNext]_vars
    PROVE  Inv'
<1> USE DEF serviceVars, processVars, StoreUnchanged
<1>0. DOMAIN pc = Command
    BY DEF Inv, TypeInv
<1>1. ASSUME NEW c \in Command, CommandStep(c) PROVE Inv'
    <2>1. CASE (StoreStep(c) \/ Abort(c)) /\ UNCHANGED serviceVars
        BY <2>1, StoreStepInv
    <2>2. CASE Connect(c)
        BY <2>2, ConnectInv
    <2>3. CASE RequestReload(c)
        BY <2>3, BeginReloadInv DEF RequestReload, storeVars
    <2> QED BY <1>1, <2>1, <2>2, <2>3 DEF CommandStep
<1>2. CASE StartReload
    BY <1>2, BeginReloadInv, WhoAssumption DEF StartReload, storeVars
<1>3. CASE MonitorReload
    BY <1>3, BeginReloadInv, WhoAssumption DEF MonitorReload, storeVars
<1>4. CASE FinishReload
    BY <1>4, FinishReloadInv
<1>5. CASE FailReload
    <2>1. /\ UNCHANGED <<content, lock, task, copy, saved, seen>>
          /\ pc' = [c \in Command |-> IF c \in Answered THEN "failed" ELSE pc[c]]
          /\ \/ reload' = NoReload /\ applied' = 0 /\ phase' = "none"
             \/ reload' = NoReload /\ UNCHANGED <<phase, applied>>
        BY <1>5 DEF FailReload, Gone
    <2>2. /\ DOMAIN pc' = Command
          /\ \A c \in Command : pc'[c] # pc[c] => pc'[c] = "failed"
        BY <2>1
    <2> QED BY <2>1, <2>2, ProcessInv
<1>6. CASE Restart \/ ListenManager \/ CancelMonitor \/ Shutdown
    <2>1. /\ UNCHANGED <<content, lock, pc, task, copy, saved, seen, reload, applied>>
          /\ phase' \in {"serve", "drain", "shutdown"} => phase \in {"serve", "drain", "shutdown"}
        BY <1>6 DEF Restart, ListenManager, CancelMonitor, Shutdown, storeVars
    <2> QED BY <1>0, <2>1, ProcessInv
<1>7. CASE Exit \/ Crash
    <2>1. /\ UNCHANGED <<content, lock, pc, task, copy, saved, seen>>
          /\ reload' = NoReload /\ applied' = 0 /\ phase' = "none"
        BY <1>7 DEF Exit, Crash, Gone, storeVars
    <2> QED BY <1>0, <2>1, ProcessInv
<1>8. CASE UNCHANGED vars
    <2>1. UNCHANGED <<content, lock, pc, task, copy, saved, seen, reload, applied, phase>>
        BY <1>8 DEF vars, storeVars
    <2> QED BY <1>0, <2>1, ProcessInv
<1> QED
    BY <1>1, <1>2, <1>3, <1>4, <1>5, <1>6, <1>7, <1>8 DEF ServiceNext, ProcessStep

\* The inductive invariant: the copy of whoever holds the lock is what the file
\* says, and neither the process nor a reload under way goes by a version older than
\* the edits that were answered (config.go:167-193, manager_pool.go:30-37).
THEOREM ServiceInvariant == ServiceSpec => []Inv
<1>1. ServiceInit => Inv
    BY InitInv
<1>2. Inv /\ [ServiceNext]_vars => Inv'
    BY NextInv
<1> QED BY <1>1, <1>2, PTL DEF ServiceSpec

(***************************************************************************)
(* Replaying edits.  A fold chooses a recursive function; that there is    *)
(* one, and that all agree on the whole sequence, takes an induction, by   *)
(* the least number for which it would fail.                               *)
(***************************************************************************)

Less == OpToRel(<, Nat)

\* The principle of the least number, of a set.
LEMMA LeastNatural ==
    ASSUME NEW T \in SUBSET Nat, T # {}
    PROVE  \E m \in T : \A x \in T : m <= x
<1>1. IsWellFoundedOn(Less, Nat)
    BY NatLessThanWellFounded, Zenon DEF Less
<1>2. PICK m \in T : \A x \in T : ~(<<x, m>> \in Less)
    BY <1>1, WFMin
<1>3. \A x \in T : ~(x < m)
    <2>1. \A x, y \in Nat : x < y => <<x, y>> \in Less
        BY DEF Less, OpToRel
    <2> QED BY <1>2, <2>1
<1> QED BY <1>3

\* A set of positions has a last one.
LEMMA MaxOfPositions ==
    ASSUME NEW n \in Nat, NEW s \in SUBSET (1 .. n), s # {}
    PROVE  Max(s) \in s /\ \A x \in s : x <= Max(s)
<1> DEFINE left == {n - x : x \in s}
<1>1. left \subseteq Nat /\ left # {}
    OBVIOUS
<1>2. PICK m \in left : \A x \in left : m <= x
    BY <1>1, LeastNatural
<1>3. PICK y \in s : m = n - y
    OBVIOUS
<1>4. \A x \in s : x <= y
    BY <1>2, <1>3
<1>5. \E y_1 \in s : \A x \in s : y_1 >= x
    BY <1>4
<1> QED BY <1>5 DEF Max

\* h gives, for every set of positions, what the edits at these positions make of
\* conf in their order: the recursive function that a fold from the left chooses.
Replays(h, conf, edits, tasks) ==
    h = [s \in SUBSET DOMAIN edits |->
            IF s = {} THEN conf ELSE Edit(h[s \ {Max(s)}], tasks[edits[Max(s)]])]

Fold(conf, edits, tasks) == FoldLeft(LAMBDA acc, c : Edit(acc, tasks[c]), conf, edits)

LEMMA FoldIsReplay ==
    ASSUME NEW conf, NEW edits, NEW tasks
    PROVE  Fold(conf, edits, tasks) = (CHOOSE h : Replays(h, conf, edits, tasks))[DOMAIN edits]
BY DEF Fold, FoldLeft, MapThenFoldSet, Replays

\* All that replay the same edits agree.
LEMMA ReplayUnique ==
    ASSUME NEW conf, NEW edits \in Seq(Command), NEW tasks,
           NEW g, Replays(g, conf, edits, tasks),
           NEW h, Replays(h, conf, edits, tasks)
    PROVE  g[DOMAIN edits] = h[DOMAIN edits]
<1> DEFINE n == Len(edits)
           differ == {k \in 0 .. n : g[1 .. k] # h[1 .. k]}
<1>1. n \in Nat /\ DOMAIN edits = 1 .. n
    OBVIOUS
<1>2. SUFFICES ASSUME differ # {} PROVE FALSE
    BY <1>1
<1>3. PICK k \in differ : \A j \in differ : k <= j
    <2>1. differ \in SUBSET Nat
        BY <1>1
    <2> HIDE DEF differ
    <2> QED BY <1>2, <2>1, LeastNatural
<1>4. k # 0
    <2>1. 1 .. 0 = {}
        OBVIOUS
    <2>2. g[{}] = conf /\ h[{}] = conf
        BY DEF Replays
    <2> QED BY <2>1, <2>2
<1>5. k \in 1 .. n /\ k - 1 \in 0 .. n /\ k - 1 \notin differ
    BY <1>1, <1>3, <1>4
<1>6. 1 .. k \in SUBSET (1 .. n) /\ 1 .. k \in SUBSET DOMAIN edits /\ 1 .. k # {}
    <2>1. \A x \in 1 .. k : x \in 1 .. n
        BY <1>1, <1>5
    <2>2. 1 \in 1 .. k
        BY <1>1, <1>5
    <2> HIDE DEF n
    <2> QED BY <1>1, <2>1, <2>2
<1>7. Max(1 .. k) = k
    <2>1. Max(1 .. k) \in 1 .. k /\ \A x \in 1 .. k : x <= Max(1 .. k)
        <3> HIDE DEF n
        <3> QED BY <1>1, <1>6, MaxOfPositions
    <2>2. k \in 1 .. k
        BY <1>1, <1>5
    <2> QED BY <1>1, <1>5, <2>1, <2>2
<1>8. (1 .. k) \ {k} = 1 .. (k - 1)
    BY <1>5
<1>9. /\ g[1 .. k] = Edit(g[1 .. (k - 1)], tasks[edits[k]])
      /\ h[1 .. k] = Edit(h[1 .. (k - 1)], tasks[edits[k]])
    <2>1. \A s \in SUBSET DOMAIN edits : s # {} =>
              /\ g[s] = Edit(g[s \ {Max(s)}], tasks[edits[Max(s)]])
              /\ h[s] = Edit(h[s \ {Max(s)}], tasks[edits[Max(s)]])
        BY DEF Replays
    <2> QED BY <1>6, <1>7, <1>8, <2>1
<1>10. g[1 .. (k - 1)] = h[1 .. (k - 1)]
    BY <1>5
<1> QED BY <1>9, <1>10

\* What replays all edits replays the first k of them.
LEMMA ReplayOfPrefix ==
    ASSUME NEW conf, NEW edits \in Seq(Command), NEW tasks, NEW k \in 0 .. Len(edits),
           NEW h, Replays(h, conf, edits, tasks)
    PROVE  Fold(conf, SubSeq(edits, 1, k), tasks) = h[1 .. k]
<1> DEFINE first == SubSeq(edits, 1, k)
           g == [s \in SUBSET DOMAIN first |-> h[s]]
           f == CHOOSE f : Replays(f, conf, first, tasks)
<1>1. /\ first \in Seq(Command) /\ DOMAIN first = 1 .. k
      /\ \A i \in 1 .. k : first[i] = edits[i] /\ i \in DOMAIN edits
    OBVIOUS
<1>2. \A s \in SUBSET (1 .. k) : s # {} => Max(s) \in s
    <2>1. k \in Nat
        OBVIOUS
    <2> QED BY <2>1, MaxOfPositions
<1>3. \A s \in SUBSET DOMAIN first :
          g[s] = IF s = {} THEN conf ELSE Edit(g[s \ {Max(s)}], tasks[first[Max(s)]])
    <2> SUFFICES ASSUME NEW s \in SUBSET DOMAIN first
                 PROVE  h[s] = IF s = {} THEN conf ELSE Edit(h[s \ {Max(s)}], tasks[first[Max(s)]])
        OBVIOUS
    <2>1. s \in SUBSET DOMAIN edits
        BY <1>1
    <2>2. s # {} => first[Max(s)] = edits[Max(s)]
        BY <1>1, <1>2
    <2> HIDE DEF first
    <2> QED BY <2>1, <2>2 DEF Replays
<1>4. Replays(g, conf, first, tasks)
    <2>1. g = [s \in SUBSET DOMAIN first |-> g[s]]
        OBVIOUS
    <2> HIDE DEF g, first
    <2> QED BY <1>3, <2>1 DEF Replays
<1>5. Replays(f, conf, first, tasks)
    <2> HIDE DEF g, first
    <2> QED BY <1>4
<1>6. f[DOMAIN first] = g[DOMAIN first]
    <2> HIDE DEF f, g, first
    <2> QED BY <1>1, <1>4, <1>5, ReplayUnique
<1>7. g[DOMAIN first] = h[1 .. k]
    BY <1>1
<1>8. Fold(conf, first, tasks) = f[DOMAIN first]
    <2> HIDE DEF first
    <2> QED BY FoldIsReplay
<1> QED BY <1>6, <1>7, <1>8

\* One edit more.
Extended(h, edits, tasks, c) ==
    [s \in SUBSET DOMAIN Append(edits, c) |->
        IF Len(edits) + 1 \in s THEN Edit(h[s \ {Len(edits) + 1}], tasks[c]) ELSE h[s]]

LEMMA ReplayOneMore ==
    ASSUME NEW conf, NEW edits \in Seq(Command), NEW tasks, NEW c \in Command,
           NEW h, Replays(h, conf, edits, tasks)
    PROVE  LET longer == Extended(h, edits, tasks, c) IN
           /\ Replays(longer, conf, Append(edits, c), tasks)
           /\ longer[DOMAIN Append(edits, c)] = Edit(h[DOMAIN edits], tasks[c])
<1> DEFINE n == Len(edits)
           longer == Extended(h, edits, tasks, c)
           all == Append(edits, c)
<1>1. /\ n \in Nat /\ DOMAIN edits = 1 .. n /\ DOMAIN all = 1 .. (n + 1)
      /\ all[n + 1] = c /\ \A i \in 1 .. n : all[i] = edits[i]
    OBVIOUS
<1>2. ASSUME NEW s \in SUBSET DOMAIN all, s # {}, n + 1 \in s
      PROVE  longer[s] = Edit(longer[s \ {Max(s)}], tasks[all[Max(s)]])
    <2>1. Max(s) = n + 1
        <3>1. Max(s) \in s /\ \A x \in s : x <= Max(s)
            <4>1. n + 1 \in Nat /\ s \in SUBSET (1 .. (n + 1))
                BY <1>1
            <4> QED BY <1>2, <4>1, MaxOfPositions
        <3> QED BY <1>1, <1>2, <3>1
    <2>2. s \ {n + 1} \in SUBSET DOMAIN all /\ n + 1 \notin s \ {n + 1}
        OBVIOUS
    <2>3. longer[s \ {n + 1}] = h[s \ {n + 1}]
        BY <2>2 DEF Extended
    <2>4. longer[s] = Edit(h[s \ {n + 1}], tasks[c])
        BY <1>2 DEF Extended
    <2> QED BY <1>1, <2>1, <2>3, <2>4
<1>3. ASSUME NEW s \in SUBSET DOMAIN all, s # {}, n + 1 \notin s
      PROVE  longer[s] = Edit(longer[s \ {Max(s)}], tasks[all[Max(s)]])
    <2>1. s \in SUBSET DOMAIN edits
        BY <1>1, <1>3
    <2>2. Max(s) \in s
        BY <1>1, <1>3, <2>1, MaxOfPositions
    <2>3. all[Max(s)] = edits[Max(s)]
        BY <1>1, <2>1, <2>2
    <2>4. longer[s] = h[s] /\ longer[s \ {Max(s)}] = h[s \ {Max(s)}]
        BY <1>3 DEF Extended
    <2>5. h[s] = Edit(h[s \ {Max(s)}], tasks[edits[Max(s)]])
        BY <1>3, <2>1 DEF Replays
    <2> QED BY <2>3, <2>4, <2>5
<1>4. longer[{}] = conf
    <2>1. longer[{}] = h[{}]
        BY <1>1 DEF Extended
    <2>2. h[{}] = conf
        BY DEF Replays
    <2> QED BY <2>1, <2>2
<1>5. longer = [s \in SUBSET DOMAIN all |-> longer[s]]
    BY DEF Extended
<1>6. Replays(longer, conf, all, tasks)
    <2>1. \A s \in SUBSET DOMAIN all :
              longer[s] = IF s = {} THEN conf ELSE Edit(longer[s \ {Max(s)}], tasks[all[Max(s)]])
        BY <1>2, <1>3, <1>4
    <2> HIDE DEF longer, all
    <2> QED BY <1>5, <2>1 DEF Replays
<1>7. longer[DOMAIN all] = Edit(h[DOMAIN edits], tasks[c])
    <2>1. DOMAIN all \ {n + 1} = DOMAIN edits /\ n + 1 \in DOMAIN all
        BY <1>1
    <2> QED BY <2>1 DEF Extended
<1> QED BY <1>6, <1>7

(***************************************************************************)
(* The theorems.                                                           *)
(***************************************************************************)

\* config.go:167-193: what a command saves is its edit of what the file says at
\* that moment, not of what it said when some other command was editing it.
NoLostEdit == \A c \in Command : Save(c) => content' = Edit(content, task[c])

THEOREM EditsNotLost == ServiceSpec => [][NoLostEdit]_vars
<1>1. Inv => NoLostEdit
    BY DEF Inv, LockInv, NoLostEdit, Save, Edited
<1> QED BY <1>1, ServiceInvariant, PTL

\* A command whose edit is stored, and which goes on or is done.
Held(c) == task[c].kind = "edit" /\ pc[c] \notin {"lock", "read", "save", "failed"}

\* Nothing but a save writes the file, nobody changes what a command is called for,
\* and only the end of the edit makes a command one whose edit is stored.
LEMMA StoreChanges ==
    ASSUME Inv, [ServiceNext]_vars
    PROVE  /\ task' = task
           /\ \/ \E c \in Command : Save(c) \/ Unchanged(c)
              \/ UNCHANGED <<content, saved, seen>> /\ \A c \in Command : Held(c)' => Held(c)
<1>0. DOMAIN pc = Command
    BY DEF Inv, TypeInv
<1> USE DEF Held
<1>1. ASSUME NEW c \in Command, StoreStep(c) \/ Abort(c), ~Save(c), ~Unchanged(c)
      PROVE  UNCHANGED <<task, content, saved, seen>> /\ \A d \in Command : Held(d)' => Held(d)
    BY <1>0, <1>1 DEF StoreStep, Lock, Read, Refuse, Abort, Goto
<1>2. ASSUME NEW c \in Command, Save(c) \/ Unchanged(c) PROVE task' = task
    BY <1>2 DEF Save, Unchanged
<1>3. ASSUME NEW c \in Command, Connect(c)
      PROVE  UNCHANGED <<task, content, saved, seen>> /\ \A d \in Command : Held(d)' => Held(d)
    <2>1. StoreUnchanged /\ pc[c] \notin Busy /\ Moves(c)
        BY <1>3, ConnectStep DEF Inv
    <2>2. PICK x \in Places : pc' = [pc EXCEPT ![c] = x]
        BY <2>1 DEF Moves
    <2> QED BY <1>0, <2>1, <2>2 DEF StoreUnchanged, Busy
<1>4. ASSUME NEW c \in Command, RequestReload(c) PROVE UNCHANGED <<task, content, saved, seen, pc>>
    BY <1>4 DEF RequestReload, storeVars
<1>5. ASSUME FinishReload \/ FailReload
      PROVE  UNCHANGED <<task, content, saved, seen>> /\ \A d \in Command : Held(d)' => Held(d)
    <2>1. UNCHANGED <<task, content, saved, seen>>
        BY <1>5 DEF FinishReload, FailReload, StoreUnchanged
    <2>2. \A d \in Command : pc'[d] = pc[d] \/ pc'[d] = "failed" \/ Waiting(d)
        BY <1>5 DEF FinishReload, FailReload, Answered
    <2> QED BY <2>1, <2>2 DEF Waiting
<1>6. ASSUME ProcessStep \/ Crash, ~FinishReload, ~FailReload
      PROVE  UNCHANGED <<task, content, saved, seen, pc>>
    BY <1>6 DEF ProcessStep, Crash, Restart, ListenManager, StartReload, MonitorReload,
                CancelMonitor, Shutdown, Exit, storeVars
<1>7. ASSUME UNCHANGED vars PROVE UNCHANGED <<task, content, saved, seen, pc>>
    BY <1>7 DEF vars, storeVars
<1>8. ASSUME UNCHANGED <<task, pc>> PROVE \A d \in Command : Held(d)' => Held(d)
    BY <1>8
<1> HIDE DEF Held
<1> QED BY <1>1, <1>2, <1>3, <1>4, <1>5, <1>6, <1>7, <1>8 DEF ServiceNext, CommandStep

\* config_forwards.go:39-55: the file is one that every command and every reload
\* accepts, at every moment at which somebody may read it.
THEOREM FileAccepted == ServiceSpec => []Valid(content)
<1>1. ServiceInit => Valid(content)
    BY StoredAssumption DEF ServiceInit, StoreInit
<1>2. ASSUME Valid(content), NEW c \in Command, Save(c) PROVE Valid(content)'
    <2>1. Valid(Edited(c)) /\ content' = Edited(c)
        BY <1>2 DEF Save
    <2> QED BY <2>1 DEF Valid
<1>3. Inv /\ Valid(content) /\ [ServiceNext]_vars => Valid(content)'
    <2>1. Valid(content) /\ content' = content => Valid(content)'
        BY DEF Valid
    <2>2. ASSUME NEW c \in Command, Unchanged(c) PROVE content' = content
        BY <2>2 DEF Unchanged
    <2> QED BY <1>2, <2>1, <2>2, StoreChanges
<1> QED BY <1>1, <1>3, ServiceInvariant, PTL DEF ServiceSpec

\* To add a rule that was just added, or remove one that was, changes nothing.
LEMMA EditTwice ==
    ASSUME NEW conf, NEW t, t.kind # "host"
    PROVE  Edit(Edit(conf, t), t) = Edit(conf, t)
<1>1. \A items : EditRule(EditRule(items, t), t) = EditRule(items, t)
    BY DEF EditRule
<1> DEFINE once == [conf EXCEPT !.rules[t.scope][t.rules] = EditRule(@, t)]
           twice == [once EXCEPT !.rules[t.scope][t.rules] = EditRule(@, t)]
<1>2. once = twice
    BY <1>1
<1> QED BY <1>2 DEF Edit, EditScope

\* The file is what some replay of the saves makes of the first one, and a command
\* whose edit is stored has seen a version that the edit does not change.
ReplayInv ==
    \E conf \in Stored : \E h :
        /\ Replays(h, conf, saved, task)
        /\ content = h[DOMAIN saved]
        /\ \A c \in Command : Held(c) => Edit(h[1 .. seen[c]], task[c]) = h[1 .. seen[c]]

LEMMA InitReplay == ServiceInit => ReplayInv
<1> SUFFICES ASSUME ServiceInit PROVE ReplayInv
    OBVIOUS
<1>1. saved = <<>> /\ content \in Stored /\ DOMAIN saved = {}
    BY DEF ServiceInit, StoreInit
<1> DEFINE h == [s \in SUBSET {} |-> content]
<1>2. Replays(h, content, saved, task)
    BY <1>1 DEF Replays
<1>3. h[DOMAIN saved] = content
    BY <1>1
<1>4. \A c \in Command : ~Held(c)
    BY DEF Held, ServiceInit, StoreInit
<1> HIDE DEF h
<1> QED BY <1>1, <1>2, <1>3, <1>4 DEF ReplayInv

LEMMA NextReplay ==
    ASSUME Inv, ReplayInv, [ServiceNext]_vars
    PROVE  ReplayInv'
<1> PICK conf \in Stored : \E h :
         /\ Replays(h, conf, saved, task)
         /\ content = h[DOMAIN saved]
         /\ \A c \in Command : Held(c) => Edit(h[1 .. seen[c]], task[c]) = h[1 .. seen[c]]
    BY DEF ReplayInv
<1>0. PICK h :
          /\ Replays(h, conf, saved, task)
          /\ content = h[DOMAIN saved]
          /\ \A c \in Command : Held(c) => Edit(h[1 .. seen[c]], task[c]) = h[1 .. seen[c]]
    OBVIOUS
<1>1. /\ task' = task /\ saved \in Seq(Command) /\ Len(saved) \in Nat
      /\ DOMAIN saved = 1 .. Len(saved) /\ DOMAIN pc = Command
      /\ \A c \in Command : seen[c] \in Nat /\ seen[c] <= Len(saved)
      /\ DOMAIN seen = Command
    BY StoreChanges DEF Inv, TypeInv, EffectInv
<1>2. ASSUME NEW c \in Command, Save(c) PROVE ReplayInv'
    <2> DEFINE n == Len(saved)
               longer == Extended(h, saved, task, c)
    <2>1. /\ content' = Edit(content, task[c]) /\ saved' = Append(saved, c)
          /\ seen' = [seen EXCEPT ![c] = n + 1]
          /\ \A d \in Command : d # c /\ Held(d)' => Held(d) /\ seen'[d] = seen[d]
        BY <1>1, <1>2 DEF Inv, TypeInv, LockInv, Save, Edited, Goto, Held
    <2>2. DOMAIN saved' = 1 .. (n + 1)
        BY <1>1, <2>1
    <2>3. Replays(longer, conf, saved', task') /\ content' = longer[DOMAIN saved']
        BY <1>0, <1>1, <2>1, ReplayOneMore
    <2>4. ASSUME NEW d \in Command, Held(d)', d # c
          PROVE  Edit(longer[1 .. seen'[d]], task'[d]) = longer[1 .. seen'[d]]
        <3>1. Held(d) /\ seen'[d] = seen[d]
            BY <2>1, <2>4
        <3>2. 1 .. seen[d] \in SUBSET DOMAIN Append(saved, c) /\ n + 1 \notin 1 .. seen[d]
            BY <1>1
        <3>3. longer[1 .. seen[d]] = h[1 .. seen[d]]
            BY <3>2 DEF Extended
        <3> QED BY <1>0, <1>1, <3>1, <3>3
    <2>5. ASSUME Held(c)' PROVE Edit(longer[1 .. seen'[c]], task'[c]) = longer[1 .. seen'[c]]
        <3>1. task[c].kind # "host"
            BY <1>1, <2>5 DEF Held
        <3>2. seen'[c] = n + 1
            BY <1>1, <2>1
        <3>3. longer[1 .. seen'[c]] = Edit(content, task[c])
            BY <2>1, <2>2, <2>3, <3>2
        <3> QED BY <1>1, <3>1, <3>3, EditTwice
    <2> HIDE DEF longer
    <2>6. \A d \in Command : Held(d)' => Edit(longer[1 .. seen'[d]], task'[d]) = longer[1 .. seen'[d]]
        BY <2>4, <2>5
    <2> QED BY <2>3, <2>6 DEF ReplayInv
<1>3. ASSUME NEW c \in Command, Unchanged(c) PROVE ReplayInv'
    <2>1. /\ UNCHANGED <<content, saved>> /\ seen' = [seen EXCEPT ![c] = Len(saved)]
          /\ Edit(content, task[c]) = content
          /\ \A d \in Command : d # c /\ Held(d)' => Held(d) /\ seen'[d] = seen[d]
        BY <1>1, <1>3 DEF Inv, LockInv, Unchanged, Changes, Edited, Goto, Held
    <2>2. seen'[c] = Len(saved) /\ h[1 .. seen'[c]] = content
        BY <1>0, <1>1, <2>1
    <2>3. \A d \in Command : Held(d)' => Edit(h[1 .. seen'[d]], task'[d]) = h[1 .. seen'[d]]
        BY <1>0, <1>1, <2>1, <2>2
    <2> QED BY <1>0, <1>1, <2>1, <2>3 DEF ReplayInv
<1>4. CASE UNCHANGED <<content, saved, seen>> /\ \A c \in Command : Held(c)' => Held(c)
    BY <1>0, <1>1, <1>4 DEF ReplayInv
<1> QED BY <1>2, <1>3, <1>4, StoreChanges

\* The file and its versions.
THEOREM Replayed == ServiceSpec => []ReplayInv
<1>1. ServiceInit => ReplayInv
    BY InitReplay
<1>2. Inv /\ ReplayInv /\ [ServiceNext]_vars => ReplayInv'
    BY NextReplay
<1> QED BY <1>1, <1>2, ServiceInvariant, PTL DEF ServiceSpec

\* A version is what a replay has at that position.
LEMMA VersionIs ==
    ASSUME Inv, NEW conf, NEW h, Replays(h, conf, saved, task), NEW k \in 0 .. Len(saved)
    PROVE  Version(conf, k) = h[1 .. k]
<1>1. saved \in Seq(Command)
    BY DEF Inv, TypeInv
<1>2. Fold(conf, SubSeq(saved, 1, k), task) = h[1 .. k]
    BY <1>1, ReplayOfPrefix
<1> QED BY <1>2 DEF Version, Fold

\* config.go:167-193: the file is what the saved edits make of the first one in the
\* order of the saves, however many commands edit at a time and wherever they
\* end; and every reader accepts it.
THEOREM EditsStored == ServiceSpec => []EveryEditStored
<1>1. ASSUME Inv, ReplayInv, Valid(content) PROVE EveryEditStored
    <2> PICK conf \in Stored : \E h : Replays(h, conf, saved, task) /\ content = h[DOMAIN saved]
        BY <1>1 DEF ReplayInv
    <2>1. PICK h : Replays(h, conf, saved, task) /\ content = h[DOMAIN saved]
        OBVIOUS
    <2>2. Len(saved) \in 0 .. Len(saved) /\ DOMAIN saved = 1 .. Len(saved)
        BY <1>1 DEF Inv, TypeInv
    <2>3. content = Version(conf, Latest)
        BY <1>1, <2>1, <2>2, VersionIs DEF Latest
    <2> QED BY <1>1, <2>1, <2>3 DEF EveryEditStored
<1> QED BY <1>1, Replayed, ServiceInvariant, FileAccepted, PTL

\* command_forward.go:53-64, manager_pool.go:30-37: whatever was restarted,
\* upgraded or reloaded at the same time, a process that serves has applied a
\* version of the configuration that holds the edit of every command that has
\* returned without an error.
THEOREM EditsTakeEffect == ServiceSpec => []EditTakesEffect
<1>1. ASSUME Inv, ReplayInv PROVE EditTakesEffect
    <2> PICK conf \in Stored : \E h :
              /\ Replays(h, conf, saved, task)
              /\ content = h[DOMAIN saved]
              /\ \A c \in Command : Held(c) => Edit(h[1 .. seen[c]], task[c]) = h[1 .. seen[c]]
        BY <1>1 DEF ReplayInv
    <2>1. PICK h :
              /\ Replays(h, conf, saved, task)
              /\ content = h[DOMAIN saved]
              /\ \A c \in Command : Held(c) => Edit(h[1 .. seen[c]], task[c]) = h[1 .. seen[c]]
        OBVIOUS
    <2>2. /\ Len(saved) \in 0 .. Len(saved) /\ DOMAIN saved = 1 .. Len(saved)
          /\ \A c \in Command : seen[c] \in 0 .. Len(saved)
        BY <1>1 DEF Inv, TypeInv, EffectInv
    <2>3. content = Version(conf, Latest)
        BY <1>1, <2>1, <2>2, VersionIs DEF Latest
    <2>4. ASSUME NEW c \in Command, Committed(c)
          PROVE  /\ Edit(Version(conf, seen[c]), task[c]) = Version(conf, seen[c])
                 /\ phase \in {"serve", "drain", "shutdown"} => applied >= seen[c]
        <3>1. Held(c)
            BY <2>4 DEF Committed, Held
        <3>2. Version(conf, seen[c]) = h[1 .. seen[c]]
            BY <1>1, <2>1, <2>2, VersionIs
        <3>3. phase \in {"serve", "drain", "shutdown"} => applied >= seen[c]
            BY <1>1, <2>4 DEF Inv, TypeInv, EffectInv
        <3> QED BY <2>1, <3>1, <3>2, <3>3
    <2> QED BY <2>1, <2>3, <2>4 DEF EditTakesEffect
<1> QED BY <1>1, Replayed, ServiceInvariant, PTL

(***************************************************************************)
(* The types of the service's state.                                       *)
(***************************************************************************)

LEMMA GoneTypes ==
    ASSUME ServiceTypeOK, Len(saved) \in Nat, NEW path, Gone(path), path \in {"none", "stale"},
           UNCHANGED <<saved, installed, wanted, program>>
    PROVE  ServiceTypeOK'
<1>1. /\ phase' = "none" /\ phase' \in Phase /\ socket' = path
      /\ connected' = {} /\ reload' = NoReload /\ applied' = 0
    BY DEF Gone, Phase
<1>2. told' \in BOOLEAN
    BY DEF Gone
<1>3. reload'.by = NoOne /\ reload'.version = 0
    BY <1>1 DEF NoReload
<1>4. applied' \in 0 .. Latest' /\ reload'.version \in 0 .. Latest'
    BY <1>1, <1>3 DEF Latest
<1>5. socket' # "live" /\ socket' \in {"none", "stale", "live"}
    BY <1>1
<1>6. UNCHANGED <<installed, wanted, program>>
    OBVIOUS
<1> QED BY <1>1, <1>2, <1>3, <1>4, <1>5, <1>6 DEF ServiceTypeOK

LEMMA ServiceTypes ==
    ASSUME Inv, ServiceTypeOK, [ServiceNext]_vars
    PROVE  ServiceTypeOK'
<1> USE DEF ServiceTypeOK, Phase, NoReload, Latest, Serves, SocketLive, StoreUnchanged,
            serviceVars, processVars, storeVars
<1>0. saved \in Seq(Command) /\ Len(saved) \in Nat
    BY DEF Inv, TypeInv
<1>1. ASSUME NEW c \in Command, CommandStep(c) PROVE ServiceTypeOK'
    <2>1. CASE (StoreStep(c) \/ Abort(c)) /\ UNCHANGED serviceVars
        <3>1. saved' = saved \/ saved' = Append(saved, c)
            BY <2>1 DEF StoreStep, Abort, Lock, Read, Save, Unchanged, Refuse
        <3>2. Len(saved') \in Nat /\ Len(saved) <= Len(saved')
            BY <1>0, <3>1
        <3>3. 0 .. Len(saved) \subseteq 0 .. Len(saved')
            BY <1>0, <3>2
        <3> QED BY <2>1, <3>3
    <2>2. CASE DialAnswered(c)
        BY <2>2 DEF DialAnswered
    <2>3. CASE DialFails(c) \/ EnsureService(c) \/ UninstallStatus(c) \/ ServiceStopped(c) \/ LookAtSocket(c)
        <3>1. UNCHANGED <<saved, installed, wanted, phase, program, told, socket, connected, reload, applied>>
            BY <2>3 DEF DialFails, EnsureService, UninstallStatus, ServiceStopped, LookAtSocket
        <3> QED BY <3>1
    <2>4. CASE StopService(c)
        BY <2>4 DEF StopService
    <2>5. CASE UninstallService(c)
        <3>1. told' \in BOOLEAN
            BY <2>5 DEF UninstallService
        <3> QED BY <2>5, <3>1 DEF UninstallService
    <2>6. CASE RemoveSocket(c)
        BY <2>6 DEF RemoveSocket
    <2>7. CASE Install(c) \/ StartService(c)
        BY <2>7 DEF Install, StartService
    <2>8. CASE RequestReload(c)
        BY <2>8, <1>0 DEF RequestReload, BeginReload
    <2> QED BY <1>1, <2>1, <2>2, <2>3, <2>4, <2>5, <2>6, <2>7, <2>8 DEF CommandStep, Connect
<1>2. CASE StartReload \/ MonitorReload
    BY <1>2, <1>0 DEF StartReload, MonitorReload, BeginReload
<1>3. CASE FinishReload
    <2>1. phase # "none"
        BY <1>3 DEF FinishReload
    <2>2. /\ applied' = reload.version /\ reload' = [by |-> NoOne, version |-> 0]
          /\ phase' \in {phase, "serve"} /\ phase' # "none"
          /\ UNCHANGED <<saved, installed, wanted, program, told, socket, connected>>
        BY <1>3, <2>1 DEF FinishReload
    <2>3. phase' \in Phase
        BY <2>2
    <2>4. applied' \in 0 .. Latest' /\ reload'.version \in 0 .. Latest'
        BY <1>0, <2>2
    <2>5. reload'.by = NoOne
        BY <2>2
    <2> QED BY <2>2, <2>3, <2>4, <2>5
<1>4. CASE FailReload
    <2>1. phase # "none"
        BY <1>4 DEF FailReload
    <2>2. CASE reload.by = Starting
        BY <1>0, <1>4, <2>2, GoneTypes DEF FailReload
    <2>3. CASE reload.by # Starting
        BY <1>0, <1>4, <2>1, <2>3 DEF FailReload
    <2> QED BY <2>2, <2>3
<1>5. CASE Restart
    BY <1>5 DEF Restart
<1>8. CASE ListenManager
    BY <1>8 DEF ListenManager
<1>9. CASE CancelMonitor
    BY <1>9 DEF CancelMonitor
<1>10. CASE Shutdown
    <2>1. phase # "none" /\ phase' = "shutdown" /\ socket' = "none"
        BY <1>10 DEF Shutdown
    <2> QED BY <1>10, <2>1 DEF Shutdown
<1>6. CASE Exit \/ Crash
    <2>1. PICK path \in {"none", "stale"} : Gone(path)
        BY <1>6 DEF Exit, Crash
    <2>2. UNCHANGED <<saved, installed, wanted, program>>
        BY <1>6 DEF Exit, Crash
    <2> QED BY <1>0, <2>1, <2>2, GoneTypes
<1>7. CASE UNCHANGED vars
    BY <1>7 DEF vars
<1> QED
    BY <1>1, <1>2, <1>3, <1>4, <1>5, <1>6, <1>7, <1>8, <1>9, <1>10 DEF ServiceNext, ProcessStep

\* A process that is gone leaves neither a connection, nor a reload, nor a path
\* that somebody listens on (service_program.go:78-163).
THEOREM ServiceTypesHold == ServiceSpec => []ServiceTypeOK
<1>1. ServiceInit => ServiceTypeOK
    <2> SUFFICES ASSUME ServiceInit PROVE ServiceTypeOK
        OBVIOUS
    <2>1. /\ saved = <<>> /\ Len(saved) = 0
          /\ installed \in BOOLEAN /\ wanted \in BOOLEAN /\ told = FALSE
          /\ socket \in {"live", "none", "stale"} /\ program \in {"old", "new"}
          /\ connected = {} /\ reload = NoReload /\ applied = 0
        BY DEF StoreInit, ServiceInit
    <2>2. phase \in {"serve", "none"} /\ (phase = "none" => socket # "live")
        BY DEF ServiceInit
    <2>3. reload.by = NoOne /\ reload.version = 0
        BY <2>1 DEF NoReload
    <2>4. phase = "none" => socket # "live" /\ connected = {} /\ reload = NoReload /\ applied = 0
        BY <2>1, <2>2
    <2>5. applied \in 0 .. Latest /\ reload.version \in 0 .. Latest
        BY <2>1, <2>3 DEF Latest
    <2> QED BY <2>1, <2>2, <2>3, <2>4, <2>5 DEF ServiceTypeOK, Phase
<1>2. Inv /\ ServiceTypeOK /\ [ServiceNext]_vars => ServiceTypeOK'
    BY ServiceTypes
<1> QED BY <1>1, <1>2, ServiceInvariant, PTL DEF ServiceSpec

(***************************************************************************)
(* Reloads do not take turns backwards: the part of SavedEditsApplied that *)
(* fairness does not decide.                                               *)
(***************************************************************************)

\* The reload under way has read no older version than the process goes by.
ReadsForward == reload # NoReload => applied <= reload.version

\* While a process lives, it never goes back to an older version of the file.
NeverFallsBack == phase' # "none" => applied <= applied'

\* p.mu is held from the reading of the file to the end of the reload, so that the
\* reloads of a process apply versions in the order in which they read them.
LEMMA ForwardStep ==
    ASSUME ServiceTypeOK, ReadsForward, Len(saved) \in Nat, [ServiceNext]_vars
    PROVE  ReadsForward' /\ NeverFallsBack
<1> USE DEF ServiceTypeOK, NoReload, Latest, StoreUnchanged, serviceVars, processVars,
            ReadsForward, NeverFallsBack
<1>1. ASSUME NEW c \in Command, CommandStep(c) PROVE ReadsForward' /\ NeverFallsBack
    <2>1. CASE RequestReload(c)
        BY <2>1 DEF RequestReload, BeginReload
    <2>2. ASSUME Connect(c) PROVE UNCHANGED <<reload, applied>>
        <3>1. CASE DialAnswered(c) \/ StopService(c) \/ UninstallService(c) \/ RemoveSocket(c)
            BY <3>1 DEF DialAnswered, StopService, UninstallService, RemoveSocket
        <3>2. CASE DialFails(c) \/ EnsureService(c) \/ UninstallStatus(c)
            BY <3>2 DEF DialFails, EnsureService, UninstallStatus
        <3>3. CASE ServiceStopped(c) \/ LookAtSocket(c) \/ Install(c) \/ StartService(c)
            BY <3>3 DEF ServiceStopped, LookAtSocket, Install, StartService
        <3> QED BY <2>2, <3>1, <3>2, <3>3 DEF Connect
    <2>3. CASE UNCHANGED <<reload, applied>>
        BY <2>3
    <2> QED BY <1>1, <2>1, <2>2, <2>3 DEF CommandStep
<1>2. CASE StartReload \/ MonitorReload
    BY <1>2 DEF StartReload, MonitorReload, BeginReload
<1>3. CASE FinishReload
    BY <1>3 DEF FinishReload
<1>4. CASE FailReload
    <2>1. CASE reload.by = Starting
        BY <1>4, <2>1 DEF FailReload, Gone
    <2>2. CASE reload.by # Starting
        BY <1>4, <2>2 DEF FailReload
    <2> QED BY <2>1, <2>2
<1>5. CASE Restart \/ ListenManager \/ CancelMonitor \/ Shutdown
    BY <1>5 DEF Restart, ListenManager, CancelMonitor, Shutdown
<1>6. CASE Exit \/ Crash
    BY <1>6 DEF Exit, Crash, Gone
<1>7. CASE UNCHANGED vars
    BY <1>7 DEF vars
<1> QED BY <1>1, <1>2, <1>3, <1>4, <1>5, <1>6, <1>7 DEF ServiceNext, ProcessStep

\* manager_pool.go:30-37: a reload that is late, of a command that has gone or of
\* the monitor, never puts back what a later one has already applied.
THEOREM VersionsAdvance == ServiceSpec => [][NeverFallsBack]_vars
<1>1. ServiceInit => ReadsForward
    BY DEF ServiceInit, ReadsForward
<1>2. Inv => Len(saved) \in Nat
    BY DEF Inv, TypeInv
<1>3. ServiceTypeOK /\ ReadsForward /\ Inv /\ [ServiceNext]_vars => ReadsForward'
    BY <1>2, ForwardStep
<1>4. ServiceTypeOK /\ ReadsForward /\ Inv /\ [ServiceNext]_vars => [NeverFallsBack]_vars
    BY <1>2, ForwardStep
<1> QED BY <1>1, <1>3, <1>4, ServiceInvariant, ServiceTypesHold, PTL DEF ServiceSpec

============================================================================
