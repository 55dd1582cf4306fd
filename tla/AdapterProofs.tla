--------------------------- MODULE AdapterProofs ---------------------------
(***************************************************************************)
(* Theorems about Adapter, for every set of callers and tuples and every   *)
(* bound on the generations.                                               *)
(***************************************************************************)
EXTENDS Adapter, TLAPS

----------------------------------------------------------------------------
(* The inductive invariant *)

Starting == {"validate", "start", "await", "abandon"}
Forwarding == {"prepare", "lock", "install", "verify", "ready", "cleanup", "cancel", "retire"}
Engaged == Forwarding \cup {"observe"}

\* What a call remembers fits where it is.
Fits ==
    \A c \in Caller :
        /\ call[c].pc \in Forwarding => call[c].target \in Tuple
        /\ call[c].pc \in Engaged \cup {"await", "abandon"} => call[c].master \in Generation

\* The adapter that closes early only observes.
OnlyScans == closing.early => \A c \in Caller : call[c].target = Scan

\* A master is started when there is none.  The current one is up unless another
\* master's answer was taken for its own, and is told to go only by a retirement.
\* One master at a time answers.
Replaces ==
    /\ \A c \in Caller : call[c].pc \in Starting => master = None
    /\ misled \/ master = None \/ process[master] # "starting"
    /\ master # None => process[master] # "signalled" \/ \E c \in Caller : At(c, "retire")
    /\ \A c \in Caller : At(c, "await") => process[call[c].master] # "signalled"
    /\ \A g, h \in Master : Answers(g) /\ Answers(h) => g = h

\* Endpoints listen on masters that are up.
Up(g) == process[g] \in {"serving", "signalled"}

EndpointsRun ==
    \A t \in Tuple : endpoint[t] # Unbound => endpoint[t].on \in Master /\ Up(endpoint[t].on)

\* A Manager's adapter is closed when it has no calls, and then has none.
ClosesIdle == ~closing.early /\ closing.pc # "no" => \A c \in Caller : At(c, "idle")

\* Until its master exits, a call refers to the current one; while it holds the
\* lock, even afterwards.
KeepsMaster ==
    ~closing.early =>
        \A c \in Caller :
            /\ call[c].pc \in Engaged /\ ~Exited(call[c].master) => master = call[c].master
            /\ call[c].pc \in {"install", "cancel", "retire"} => master = call[c].master

\* The call has its target listening, and not on a leftover.
Has(c) == Owns(c, call[c].target) /\ endpoint[call[c].target].on # Leftover

\* Until its master exits or it cancels, a call has what it installed; when it
\* cancels, nobody else has it: unless its master was not up when it installed.
KeepsEndpoint ==
    ~misled =>
        \A c \in Caller :
            /\ call[c].pc \in {"verify", "ready", "cleanup", "cancel"} /\ ~Exited(call[c].master)
                  => Has(c)
            /\ At(c, "cancel") => Has(c) \/ endpoint[call[c].target] = Unbound

Typed == TypeOK /\ Fits /\ OnlyScans
Masters == Replaces /\ NoOrphanMaster
Endpoints ==
    /\ EndpointsRun /\ ClosesIdle /\ KeepsMaster /\ KeepsEndpoint
    /\ ReturnLeavesNoEndpoint /\ InstalledOnOwnMaster

IInv == Typed /\ Masters /\ Endpoints

----------------------------------------------------------------------------
(* Types *)

\* Installing or removing a tuple leaves a map of endpoints.
LEMMA EndpointTypes ==
    ASSUME TypeOK, NEW c \in Caller, call[c].target \in Tuple
    PROVE  /\ Installs(c) => endpoint' \in [Tuple -> Endpoint]
           /\ Removed(call[c].target) \in [Tuple -> Endpoint]
<1>1. Unbound \in Endpoint
  BY DEF Unbound, Endpoint
<1>2. ASSUME NEW g \in Master
      PROVE  [on |-> g, owner |-> c] \in Endpoint
  BY DEF Endpoint
<1>3. ASSUME NEW e \in Endpoint
      PROVE  [endpoint EXCEPT ![call[c].target] = e] \in [Tuple -> Endpoint]
  BY DEF TypeOK
<1>4. Removed(call[c].target) \in [Tuple -> Endpoint]
  BY <1>1, <1>3 DEF Removed, TypeOK
<1>5. ASSUME Installs(c) PROVE endpoint' \in [Tuple -> Endpoint]
  BY <1>2, <1>3, <1>5 DEF Installs, TypeOK
<1>6. QED
  BY <1>4, <1>5

\* Asking a leftover to go signals those that answer, or nothing.
LEMMA RetireTypes ==
    ASSUME TypeOK, NEW c \in Caller, NEW p \in RetireLeftover(c)
    PROVE  /\ p \in [Master -> Process]
           /\ \A g \in Master :
                 p[g] = process[g] \/ (process[g] = "serving" /\ p[g] = "signalled")
BY DEF TypeOK, RetireLeftover, Answers, Process

\* The record of a call may change field by field.
LEMMA CallFields ==
    ASSUME NEW r \in Call
    PROVE  /\ [r EXCEPT !.cancelled = TRUE] \in Call
           /\ \A g \in Generation, pc \in {"observe", "prepare", "await"} :
                 [r EXCEPT !.pc = pc, !.master = g] \in Call
BY DEF Call

\* A call that takes a step keeps its shape.
LEMMA CallTypes ==
    ASSUME TypeOK, NEW c \in Caller, NEW r \in Call, call' = [call EXCEPT ![c] = r]
    PROVE  /\ call' \in [Caller -> Call]
           /\ call'[c] = r
           /\ \A d \in Caller \ {c} : call'[d] = call[d]
BY DEF TypeOK

\* Every step keeps the types.
LEMMA TypedStep == Typed /\ [Next]_vars => Typed'
<1> SUFFICES ASSUME Typed, [Next]_vars PROVE Typed'
  OBVIOUS
<1> USE CallersAssumption, TuplesAssumption, GenerationsAssumption
    DEF Typed, TypeOK, Fits, At, Call, Endpoint, Process, Closing, Generation, Master,
        Tuple, None, Leftover, Exited, Locked, Holding, Forwarding, Engaged, Unbound, closed,
        OnlyScans
<1>1. ASSUME NEW c \in Caller, Begin(c) PROVE Typed'
  <2>1. PICK t \in IF closing.early THEN {Scan} ELSE Tuple \cup {Scan} :
           call' = [call EXCEPT ![c] =
                       [pc |-> "ensure", target |-> t, master |-> None, cancelled |-> FALSE]]
    BY <1>1 DEF Begin
  <2>2. [pc |-> "ensure", target |-> t, master |-> None, cancelled |-> FALSE] \in Call
    OBVIOUS
  <2>3. QED
    BY <1>1, <2>1, <2>2, CallTypes DEF Begin
<1>2. ASSUME NEW c \in Caller, CancelContext(c) PROVE Typed'
  <2> HIDE DEF Call
  <2>1. call[c] \in Call
    OBVIOUS
  <2>2. [call[c] EXCEPT !.cancelled = TRUE] \in Call
    BY <2>1, CallFields
  <2>3. call' = [call EXCEPT ![c] = [call[c] EXCEPT !.cancelled = TRUE]]
    BY <1>2 DEF CancelContext
  <2>4. QED
    BY <1>2, <2>1, <2>2, <2>3, CallTypes DEF Call, CancelContext
<1>3. ASSUME NEW c \in Caller, ReuseMaster(c) PROVE Typed'
  <2>1. master \in Generation /\ AfterEnsure(c) \in {"observe", "prepare"}
    BY <1>3 DEF ReuseMaster, AfterEnsure
  <2> HIDE DEF Call
  <2>2. call[c] \in Call
    OBVIOUS
  <2>3. [call[c] EXCEPT !.pc = AfterEnsure(c), !.master = master] \in Call
    BY <2>1, <2>2, CallFields
  <2>4. call' = [call EXCEPT ![c] = [call[c] EXCEPT !.pc = AfterEnsure(c), !.master = master]]
    BY <1>3 DEF ReuseMaster
  <2>5. QED
    BY <1>3, <2>1, <2>2, <2>3, <2>4, CallTypes DEF Call, ReuseMaster, Unaffected, AfterEnsure
<1>4. ASSUME NEW c \in Caller, RefuseClosed(c) PROVE Typed'
  BY <1>4 DEF RefuseClosed, Return, NoCall, Unaffected
<1>5. ASSUME NEW c \in Caller, ReplaceMaster(c) PROVE Typed'
  <2>1. /\ call' \in [Caller -> Call]
        /\ \A d \in Caller : /\ call'[d].target = call[d].target
                            /\ call'[d].master = call[d].master
                            /\ call'[d].pc = IF d = c THEN "validate" ELSE call[d].pc
    BY <1>5 DEF ReplaceMaster, Goto
  <2>2. QED
    BY <1>5, <2>1 DEF ReplaceMaster, Lock, Unaffected
<1>6. ASSUME NEW c \in Caller, ValidateAlias(c) PROVE Typed'
  <2>1. CASE Goto(c, "start") /\ UNCHANGED mu
    BY <1>6, <2>1 DEF ValidateAlias, Goto, Unaffected
  <2>2. CASE Return(c) /\ Unlock(c)
    BY <1>6, <2>2 DEF ValidateAlias, Return, NoCall, Unlock, Unaffected
  <2>3. QED
    BY <1>6, <2>1, <2>2 DEF ValidateAlias
<1>7. ASSUME NEW c \in Caller, StartMaster(c) PROVE Typed'
  <2>1. PICK g \in Unused, p \in RetireLeftover(c) :
           /\ process' = [p EXCEPT ![g] = "starting"]
           /\ call' = [call EXCEPT ![c] = [@ EXCEPT !.pc = "await", !.master = g]]
    BY <1>7 DEF StartMaster
  <2>2. g \in Generation
    BY DEF Unused
  <2> HIDE DEF Call
  <2>3. call[c] \in Call
    OBVIOUS
  <2>4. [call[c] EXCEPT !.pc = "await", !.master = g] \in Call
    BY <2>2, <2>3, CallFields
  <2>5. call' = [call EXCEPT ![c] = [call[c] EXCEPT !.pc = "await", !.master = g]]
    BY <2>1
  <2>6. process' \in [Master -> Process]
    <3>1. p \in [Master -> Process]
      BY <2>1, RetireTypes
    <3>2. QED
      BY <2>1, <3>1
  <2>7. /\ call' \in [Caller -> Call]
        /\ call'[c].pc = "await" /\ call'[c].master = g
        /\ call'[c].target = call[c].target
        /\ \A d \in Caller \ {c} : call'[d] = call[d]
    BY <2>2, <2>3, <2>4, <2>5, CallTypes DEF Call
  <2>8. QED
    BY <1>7, <2>2, <2>6, <2>7 DEF StartMaster
<1>8. ASSUME NEW c \in Caller, StartMasterFails(c) PROVE Typed'
  BY <1>8, RetireTypes DEF StartMasterFails, Return, NoCall, Unlock
<1>9. ASSUME NEW c \in Caller, MasterReady(c) PROVE Typed'
  BY <1>9 DEF MasterReady, Goto, Unlock, AfterEnsure, Unaffected
<1>10. ASSUME NEW c \in Caller, MasterNotReady(c) PROVE Typed'
  BY <1>10 DEF MasterNotReady, Terminated, Goto
<1>11. ASSUME NEW c \in Caller, AbandonMaster(c) PROVE Typed'
  BY <1>11 DEF AbandonMaster, Return, NoCall, Unlock, Unaffected
<1>12. ASSUME NEW c \in Caller, LocalPortAvailable(c) PROVE Typed'
  BY <1>12 DEF LocalPortAvailable, Goto, Unaffected
<1>13. ASSUME NEW c \in Caller, LocalPortConflict(c) PROVE Typed'
  BY <1>13 DEF LocalPortConflict, Return, NoCall, Unaffected
<1>14. ASSUME NEW c \in Caller, LockInstallation(c) PROVE Typed'
  BY <1>14 DEF LockInstallation, Lock, Goto, Current, Unaffected
<1>15. ASSUME NEW c \in Caller, TransportReplaced(c) PROVE Typed'
  BY <1>15 DEF TransportReplaced, Return, NoCall, Current, Unaffected
<1>16. ASSUME NEW c \in Caller, InstallForward(c) PROVE Typed'
  <2>1. endpoint' \in [Tuple -> Endpoint]
    BY <1>16, EndpointTypes DEF InstallForward
  <2>2. QED
    BY <1>16, <2>1 DEF InstallForward, Goto, Unlock
<1>17. ASSUME NEW c \in Caller, InstallRejected(c) PROVE Typed'
  BY <1>17 DEF InstallRejected, Return, NoCall, Unlock, Unaffected
<1>18. ASSUME NEW c \in Caller, InstallUncertain(c) PROVE Typed'
  <2>1. endpoint' \in [Tuple -> Endpoint]
    BY <1>18, EndpointTypes DEF InstallUncertain
  <2>2. QED
    BY <1>18, <2>1 DEF InstallUncertain, Terminated, Goto
<1>19. ASSUME NEW c \in Caller, MasterRetired(c) PROVE Typed'
  BY <1>19 DEF MasterRetired, Return, NoCall, Unlock, Unaffected
<1>20. ASSUME NEW c \in Caller, EndpointReady(c) PROVE Typed'
  BY <1>20 DEF EndpointReady, Goto, Unaffected
<1>21. ASSUME NEW c \in Caller, EndpointNotReady(c) PROVE Typed'
  BY <1>21 DEF EndpointNotReady, Goto, Unaffected
<1>22. ASSUME NEW c \in Caller, ForwardEnds(c) PROVE Typed'
  BY <1>22 DEF ForwardEnds, Goto, Unaffected
<1>23. ASSUME NEW c \in Caller, CancelSkipped(c) PROVE Typed'
  BY <1>23 DEF CancelSkipped, Return, NoCall, Current, Unaffected
<1>24. ASSUME NEW c \in Caller, LockCancel(c) PROVE Typed'
  BY <1>24 DEF LockCancel, Lock, Goto, Current, Unaffected
<1>25. ASSUME NEW c \in Caller, CancelForward(c) PROVE Typed'
  BY <1>25 DEF CancelForward, Removed, Return, NoCall, Unlock
<1>26. ASSUME NEW c \in Caller, CancelFails(c) PROVE Typed'
  <2>1. endpoint' \in [Tuple -> Endpoint]
    BY <1>26, EndpointTypes DEF CancelFails
  <2>2. QED
    BY <1>26, <2>1 DEF CancelFails, Terminated, Goto
<1>27. ASSUME NEW c \in Caller, ObserveStops(c) PROVE Typed'
  BY <1>27 DEF ObserveStops, Return, NoCall, Unaffected
<1>28. ASSUME NEW c \in Caller, ScannerFails(c) PROVE Typed'
  BY <1>28 DEF ScannerFails, Return, NoCall, Unaffected
<1>29. ASSUME NEW g \in Master, MasterServes(g) PROVE Typed'
  BY <1>29 DEF MasterServes
<1>30. ASSUME NEW g \in Master, MasterExits(g) PROVE Typed'
  BY <1>30 DEF MasterExits
<1>31. CASE CloseCalled
  BY <1>31 DEF CloseCalled
<1>32. CASE CloseAdapter
  BY <1>32 DEF CloseAdapter, Terminated
<1>33. CASE CloseReturns
  BY <1>33 DEF CloseReturns
<1>34. CASE Finished
  BY <1>34 DEF Finished, vars
<1>35. CASE UNCHANGED vars
  BY <1>35 DEF vars
<1>36. QED
  BY <1>1, <1>2, <1>3, <1>4, <1>5, <1>6, <1>7, <1>8, <1>9, <1>10, <1>11,
     <1>12, <1>13, <1>14, <1>15, <1>16, <1>17, <1>18, <1>19, <1>20, <1>21,
     <1>22, <1>23, <1>24, <1>25, <1>26, <1>27, <1>28, <1>29, <1>30, <1>31,
     <1>32, <1>33, <1>34, <1>35
     DEF Next, EnsureMaster, Forward, Observe

\* Every step keeps track of every master.
LEMMA MastersStep == IInv /\ [Next]_vars => Masters'
<1> SUFFICES ASSUME IInv, [Next]_vars PROVE Masters'
  OBVIOUS
<1>a. Typed /\ Masters
  BY DEF IInv
<1> USE <1>a, CallersAssumption, TuplesAssumption, GenerationsAssumption
    DEF Typed, TypeOK, Fits, Masters, Replaces, NoOrphanMaster, At, Alive, Answers,
        Generation, Master, None, Leftover, Exited, Locked, Holding, Starting, Forwarding,
        Engaged, Process, Call, closed
<1>1. ASSUME NEW c \in Caller, Begin(c) PROVE Masters'
  BY <1>1 DEF Begin
<1>2. ASSUME NEW c \in Caller, CancelContext(c) PROVE Masters'
  BY <1>2 DEF CancelContext
<1>3. ASSUME NEW c \in Caller, ReuseMaster(c) PROVE Masters'
  BY <1>3 DEF ReuseMaster, AfterEnsure, Unaffected
<1>4. ASSUME NEW c \in Caller, RefuseClosed(c) PROVE Masters'
  BY <1>4 DEF RefuseClosed, Return, NoCall, Unaffected
<1>5. ASSUME NEW c \in Caller, ReplaceMaster(c) PROVE Masters'
  BY <1>5 DEF ReplaceMaster, Goto, Lock, Unaffected
<1>6. ASSUME NEW c \in Caller, ValidateAlias(c) PROVE Masters'
  BY <1>6 DEF ValidateAlias, Goto, Return, NoCall, Unlock, Unaffected
<1>7. ASSUME NEW c \in Caller, StartMaster(c) PROVE Masters'
  BY <1>7 DEF StartMaster, RetireLeftover, Unused, Referred
<1>8. ASSUME NEW c \in Caller, StartMasterFails(c) PROVE Masters'
  <2>1. /\ process' \in RetireLeftover(c) /\ UNCHANGED <<master, misled>>
        /\ At(c, "start") /\ master = None
    BY <1>8 DEF StartMasterFails
  <2>2. call'[c].pc = "idle" /\ \A d \in Caller \ {c} : call'[d] = call[d]
    BY <1>8 DEF StartMasterFails, Return, NoCall
  <2>3. \A d \in Caller \ {c} : call[d].pc \notin Holding
    BY <2>1
  <2>4. \A g \in Master :
           process'[g] = process[g] \/ (process[g] = "serving" /\ process'[g] = "signalled")
    BY <2>1, RetireTypes
  <2>5. QED
    BY <2>1, <2>2, <2>3, <2>4
<1>9. ASSUME NEW c \in Caller, MasterReady(c) PROVE Masters'
  <2>1. /\ At(c, "await") /\ master' = call[c].master /\ misled' = ~Answers(call[c].master)
        /\ UNCHANGED process
    BY <1>9 DEF MasterReady, Unaffected
  <2>2. /\ call'[c].pc \in {"observe", "prepare"} /\ \A d \in Caller \ {c} : call'[d] = call[d]
    BY <1>9 DEF MasterReady, Goto, AfterEnsure
  <2>3. master = None /\ \A d \in Caller \ {c} : call[d].pc \notin Holding
    BY <2>1
  <2>4. Replaces'
    <3>1. /\ \A d \in Caller : call'[d].pc \notin Starting
          /\ process[call[c].master] # "signalled"
      BY <2>1, <2>2, <2>3
    <3>2. misled' \/ process'[master'] # "starting"
      BY <2>1
    <3>3. \A g, h \in Master : Answers(g)' /\ Answers(h)' => g = h
      BY <2>1
    <3>4. QED
      BY <2>1, <3>1, <3>2, <3>3
  <2>5. NoOrphanMaster'
    BY <2>1, <2>2, <2>3
  <2>6. QED
    BY <2>4, <2>5
<1>10. ASSUME NEW c \in Caller, MasterNotReady(c) PROVE Masters'
  BY <1>10 DEF MasterNotReady, Terminated, Goto
<1>11. ASSUME NEW c \in Caller, AbandonMaster(c) PROVE Masters'
  BY <1>11 DEF AbandonMaster, Return, NoCall, Unlock, Unaffected
<1>12. ASSUME NEW c \in Caller, LocalPortAvailable(c) PROVE Masters'
  BY <1>12 DEF LocalPortAvailable, Goto, Unaffected
<1>13. ASSUME NEW c \in Caller, LocalPortConflict(c) PROVE Masters'
  BY <1>13 DEF LocalPortConflict, Return, NoCall, Unaffected
<1>14. ASSUME NEW c \in Caller, LockInstallation(c) PROVE Masters'
  BY <1>14 DEF LockInstallation, Lock, Goto, Current, Unaffected
<1>15. ASSUME NEW c \in Caller, TransportReplaced(c) PROVE Masters'
  BY <1>15 DEF TransportReplaced, Return, NoCall, Current, Unaffected
<1>16. ASSUME NEW c \in Caller, InstallForward(c) PROVE Masters'
  BY <1>16 DEF InstallForward, Installs, Goto, Unlock
<1>17. ASSUME NEW c \in Caller, InstallRejected(c) PROVE Masters'
  BY <1>17 DEF InstallRejected, Return, NoCall, Unlock, Unaffected
<1>18. ASSUME NEW c \in Caller, InstallUncertain(c) PROVE Masters'
  BY <1>18 DEF InstallUncertain, Installs, Terminated, Goto
<1>19. ASSUME NEW c \in Caller, MasterRetired(c) PROVE Masters'
  <2>1. At(c, "retire") /\ Exited(call[c].master) /\ UNCHANGED <<master, misled, process>>
    BY <1>19 DEF MasterRetired, Unaffected
  <2>2. master = call[c].master
    BY <2>1 DEF IInv, Endpoints, KeepsMaster, OnlyScans
  <2>3. call'[c].pc = "idle" /\ \A d \in Caller \ {c} : call'[d] = call[d]
    BY <1>19 DEF MasterRetired, Return, NoCall
  <2>4. \A d \in Caller \ {c} : call[d].pc \notin Holding
    BY <2>1
  <2>5. Replaces'
    BY <2>1, <2>2, <2>3, <2>4
  <2>6. NoOrphanMaster'
    BY <2>1, <2>3, <2>4
  <2>7. QED
    BY <2>5, <2>6
<1>20. ASSUME NEW c \in Caller, EndpointReady(c) PROVE Masters'
  BY <1>20 DEF EndpointReady, Goto, Unaffected
<1>21. ASSUME NEW c \in Caller, EndpointNotReady(c) PROVE Masters'
  BY <1>21 DEF EndpointNotReady, Goto, Unaffected
<1>22. ASSUME NEW c \in Caller, ForwardEnds(c) PROVE Masters'
  BY <1>22 DEF ForwardEnds, Goto, Unaffected
<1>23. ASSUME NEW c \in Caller, CancelSkipped(c) PROVE Masters'
  BY <1>23 DEF CancelSkipped, Return, NoCall, Current, Unaffected
<1>24. ASSUME NEW c \in Caller, LockCancel(c) PROVE Masters'
  BY <1>24 DEF LockCancel, Lock, Goto, Current, Unaffected
<1>25. ASSUME NEW c \in Caller, CancelForward(c) PROVE Masters'
  BY <1>25 DEF CancelForward, Removed, Return, NoCall, Unlock
<1>26. ASSUME NEW c \in Caller, CancelFails(c) PROVE Masters'
  BY <1>26 DEF CancelFails, Removed, Terminated, Goto
<1>27. ASSUME NEW c \in Caller, ObserveStops(c) PROVE Masters'
  BY <1>27 DEF ObserveStops, Return, NoCall, Unaffected
<1>28. ASSUME NEW c \in Caller, ScannerFails(c) PROVE Masters'
  BY <1>28 DEF ScannerFails, Return, NoCall, Unaffected
<1>29. ASSUME NEW g \in Master, MasterServes(g) PROVE Masters'
  BY <1>29 DEF MasterServes
<1>30. ASSUME NEW g \in Master, MasterExits(g) PROVE Masters'
  BY <1>30 DEF MasterExits
<1>31. CASE CloseCalled
  BY <1>31 DEF CloseCalled
<1>32. CASE CloseAdapter
  BY <1>32 DEF CloseAdapter, Terminated
<1>33. CASE CloseReturns
  BY <1>33 DEF CloseReturns
<1>34. CASE Finished
  BY <1>34 DEF Finished, vars
<1>35. CASE UNCHANGED vars
  BY <1>35 DEF vars
<1>36. QED
  BY <1>1, <1>2, <1>3, <1>4, <1>5, <1>6, <1>7, <1>8, <1>9, <1>10, <1>11,
     <1>12, <1>13, <1>14, <1>15, <1>16, <1>17, <1>18, <1>19, <1>20, <1>21,
     <1>22, <1>23, <1>24, <1>25, <1>26, <1>27, <1>28, <1>29, <1>30, <1>31,
     <1>32, <1>33, <1>34, <1>35
     DEF Next, EnsureMaster, Forward, Observe

----------------------------------------------------------------------------
(* Endpoints *)

\* The part of Endpoints that speaks of one call.
Tidy(c) ==
    /\ ~closing.early =>
          /\ call[c].pc \in Engaged /\ ~Exited(call[c].master) => master = call[c].master
          /\ call[c].pc \in {"install", "cancel", "retire"} => master = call[c].master
    /\ ~misled =>
          /\ call[c].pc \in {"verify", "ready", "cleanup", "cancel"} /\ ~Exited(call[c].master)
                => Has(c)
          /\ At(c, "cancel") => Has(c) \/ endpoint[call[c].target] = Unbound
    /\ \A t \in Tuple : Owns(c, t) =>
          \/ /\ call[c].pc \in Cleaning
             /\ call[c].target = t /\ endpoint[t].on = call[c].master
          \/ endpoint[t].on = Leftover

\* Endpoints, one call at a time.
LEMMA EndpointsByCall ==
    ASSUME TypeOK, Fits
    PROVE  Endpoints <=> EndpointsRun /\ ClosesIdle /\ \A c \in Caller : Tidy(c)
BY DEF TypeOK, Fits, Endpoints, KeepsMaster, KeepsEndpoint, ReturnLeavesNoEndpoint,
       InstalledOnOwnMaster, Tidy, Forwarding, Cleaning, At

\* The same in the next state.
LEMMA EndpointsByCallNext ==
    ASSUME TypeOK', Fits', EndpointsRun', ClosesIdle', \A c \in Caller : Tidy(c)'
    PROVE  Endpoints'
BY DEF TypeOK, Fits, Endpoints, KeepsMaster, KeepsEndpoint, ReturnLeavesNoEndpoint,
       InstalledOnOwnMaster, Tidy, Forwarding, Cleaning, At

\* A step of one call that leaves the current master alone and, of other calls'
\* endpoints, those they look for.
LEMMA CallerStep ==
    ASSUME IInv, Typed', EndpointsRun', NEW c \in Caller,
           \A d \in Caller \ {c} : call'[d] = call[d],
           UNCHANGED <<master, misled, closing>>,
           UNCHANGED endpoint \/ Locked(c),
           \A t \in Tuple :
              \/ endpoint'[t] = endpoint[t]
              \/ /\ endpoint'[t].owner \in {c, Nobody}
                 /\ misled \/ \A d \in Caller \ {c} : Owns(d, t) => call[d].target # t,
           \A g \in Master : process'[g] = "exited" <=> process[g] = "exited",
           call[c].pc = "idle" => closing.early \/ closing.pc = "no",
           Tidy(c)'
    PROVE  Endpoints'
<1>0. TypeOK /\ Fits /\ OnlyScans /\ TypeOK' /\ Fits'
  BY DEF IInv, Typed
<1>1. EndpointsRun /\ ClosesIdle /\ \A d \in Caller : Tidy(d)
  BY <1>0, EndpointsByCall DEF IInv
<1>2. ClosesIdle'
  BY <1>1 DEF ClosesIdle, At
<1>3. ASSUME NEW d \in Caller \ {c}
      PROVE  Tidy(d)'
  <2>1. \A g \in Generation : Exited(g)' <=> Exited(g)
    BY DEF Exited, Master
  <2>2. /\ call[d].pc \in Engaged => call[d].master \in Generation
        /\ call[d].pc \in Forwarding => call[d].target \in Tuple
    BY <1>0 DEF Fits
  <2>3. \A t \in Tuple : Owns(d, t)' => Owns(d, t) /\ endpoint'[t] = endpoint[t]
    BY <1>3, CallersAssumption DEF Owns
  <2>4. ASSUME ~misled, call[d].target \in Tuple, Has(d)
        PROVE  Has(d)'
    BY <1>3, <2>4 DEF Has, Owns
  <2>5. ASSUME At(d, "cancel")
        PROVE  UNCHANGED endpoint
    BY <1>0, <1>3, <2>5, CallersAssumption DEF TypeOK, Locked, Holding, At
  <2>6. /\ call'[d] = call[d] /\ UNCHANGED <<master, misled, closing>>
        /\ Tidy(d)
    BY <1>1
  <2>7. /\ Engaged = Forwarding \cup {"observe"}
        /\ {"verify", "ready", "cleanup", "cancel"} \subseteq Forwarding
    BY DEF Engaged, Forwarding
  <2>8. ~closing'.early =>
          /\ call'[d].pc \in Engaged /\ ~Exited(call[d].master)' => master' = call'[d].master
          /\ call'[d].pc \in {"install", "cancel", "retire"} => master' = call'[d].master
    BY <2>1, <2>2, <2>6 DEF Tidy
  <2>9. ~misled' /\ call'[d].pc \in {"verify", "ready", "cleanup", "cancel"}
           /\ ~Exited(call[d].master)' => Has(d)'
    BY <2>1, <2>2, <2>4, <2>6, <2>7 DEF Tidy
  <2>10. ~misled' /\ At(d, "cancel")' => Has(d)' \/ endpoint'[call'[d].target] = Unbound
    BY <2>2, <2>4, <2>5, <2>6, <2>7 DEF Tidy, At
  <2>11. \A t \in Tuple : Owns(d, t)' =>
          \/ /\ call'[d].pc \in Cleaning
             /\ call'[d].target = t /\ endpoint'[t].on = call'[d].master
          \/ endpoint'[t].on = Leftover
    BY <2>3, <2>6 DEF Tidy
  <2>12. QED
    BY <2>8, <2>9, <2>10, <2>11 DEF Tidy
<1>4. QED
  BY <1>0, <1>2, <1>3, EndpointsByCallNext

\* The same for a step that touches no endpoint.
LEMMA QuietStep ==
    ASSUME IInv, Typed', NEW c \in Caller,
           \A d \in Caller \ {c} : call'[d] = call[d],
           UNCHANGED <<master, misled, endpoint, closing>>,
           \A g \in Master : process'[g] = "exited" <=> process[g] = "exited",
           \A g \in Master : Up(g) => Up(g)',
           call[c].pc = "idle" => closing.early \/ closing.pc = "no",
           Tidy(c)'
    PROVE  Endpoints'
<1>1. EndpointsRun'
  BY DEF IInv, Endpoints, EndpointsRun, Up
<1>2. QED
  BY <1>1, CallerStep

\* A call that holds the lock to install or to cancel refers to the current master,
\* which nobody has told to go, and is answered by that one or by a leftover.
LEMMA AnsweredByOwn ==
    ASSUME IInv, NEW c \in Caller, call[c].pc \in {"install", "cancel"}
    PROVE  /\ call[c].target \in Tuple /\ call[c].master \in Generation
           /\ master = call[c].master /\ master # None
           /\ process[master] # "signalled"
           /\ ~misled => process[master] # "starting"
           /\ \A g \in Master : Answers(g) => g = master \/ g = Leftover
<1>0. call[c].target \in Tuple /\ call[c].master \in Generation /\ Locked(c)
  BY DEF IInv, Typed, TypeOK, Fits, Forwarding, Engaged, Holding
<1>1. ~closing.early
  BY <1>0, TuplesAssumption DEF IInv, Typed, OnlyScans
<1>2. master = call[c].master /\ master # None
  BY <1>0, <1>1, GenerationsAssumption DEF IInv, Endpoints, KeepsMaster, Generation, None
<1>3. \A d \in Caller : call[d].pc \in Holding => d = c
  BY <1>0 DEF IInv, Typed, TypeOK, Locked
<1>4. process[master] # "signalled"
  BY <1>2, <1>3 DEF IInv, Masters, Replaces, At, Holding
<1>5. ~misled => process[master] # "starting"
  BY <1>2 DEF IInv, Masters, Replaces
<1>6. ASSUME NEW g \in Generation, Answers(g) PROVE g = master
  BY <1>3, <1>6 DEF IInv, Masters, NoOrphanMaster, Alive, Answers, At, Holding
<1>7. QED
  BY <1>0, <1>2, <1>4, <1>5, <1>6 DEF Master

\* What an installation adds is the call's own, on its own master or on a leftover;
\* and a leftover answers only while the call's master is not up.
LEMMA InstallsOwn ==
    ASSUME IInv, NEW c \in Caller, At(c, "install"), Installs(c), NEW t, t = call[c].target
    PROVE  /\ t \in Tuple /\ call[c].master \in Generation
           /\ endpoint'[t].owner = c
           /\ endpoint'[t].on \in {call[c].master, Leftover}
           /\ endpoint'[t].on \in Master /\ Answers(endpoint'[t].on)
           /\ endpoint[t] = Unbound \/ endpoint[t].on = endpoint'[t].on
           /\ \A d \in Caller \ {c} : Owns(d, t) => call[d].target # t
           /\ ~misled /\ ~Exited(call[c].master) => endpoint'[t].on # Leftover
           /\ \A u \in Tuple \ {t} : endpoint'[u] = endpoint[u]
<1>1. PICK g \in Master :
          /\ Answers(g)
          /\ \/ endpoint[t] = Unbound
             \/ /\ endpoint[t].on = g
                /\ \A d \in Caller \ {c} : Owns(d, t) => call[d].target # t
          /\ endpoint' = [endpoint EXCEPT ![t] = [on |-> g, owner |-> c]]
  BY DEF Installs
<1>2. /\ t \in Tuple /\ call[c].master \in Generation /\ master = call[c].master
      /\ process[master] # "signalled"
      /\ ~misled => process[master] # "starting"
      /\ g = master \/ g = Leftover
  BY <1>1, AnsweredByOwn DEF At
<1>3. /\ endpoint'[t] = [on |-> g, owner |-> c]
      /\ \A u \in Tuple \ {t} : endpoint'[u] = endpoint[u]
  BY <1>1, <1>2 DEF IInv, Typed, TypeOK
<1>4. \A d \in Caller \ {c} : Owns(d, t) => call[d].target # t
  BY <1>1, CallersAssumption DEF Owns, Unbound
<1>5. ASSUME ~misled, ~Exited(call[c].master) PROVE g # Leftover
  <2>1. master \in Master /\ Answers(master)
    BY <1>2, <1>5 DEF IInv, Typed, TypeOK, Process, Exited, Answers, Master
  <2>2. g = master
    BY <1>1, <2>1 DEF IInv, Masters, Replaces
  <2>3. QED
    BY <1>2, <2>2, GenerationsAssumption DEF Generation, Leftover
<1>6. QED
  BY <1>1, <1>2, <1>3, <1>4, <1>5

\* What a cancellation removes is the call's own, unless its master was taken for
\* ready too early; and it leaves the call nothing but what a leftover has.
LEMMA RemovesOwn ==
    ASSUME IInv, NEW c \in Caller, At(c, "cancel"), NEW t, t = call[c].target
    PROVE  /\ t \in Tuple
           /\ \A u \in Tuple \ {t} : Removed(t)[u] = endpoint[u]
           /\ Removed(t)[t] # endpoint[t] => Removed(t)[t] = Unbound /\ (misled \/ Owns(c, t))
           /\ \A u \in Tuple : Removed(t)[u].owner = c => Removed(t)[u].on = Leftover
<1>1. t \in Tuple
  BY DEF IInv, Typed, Fits, Forwarding, At
<1>2. \A u \in Tuple \ {t} : Removed(t)[u] = endpoint[u]
  BY <1>1 DEF Removed, IInv, Typed, TypeOK
<1>3. Removed(t)[t] \in {endpoint[t], Unbound}
  BY <1>1 DEF Removed, IInv, Typed, TypeOK
<1>4. Removed(t)[t] # endpoint[t] => misled \/ Owns(c, t)
  BY <1>3 DEF IInv, Endpoints, KeepsEndpoint, Has, At
<1>5. ASSUME NEW u \in Tuple, Removed(t)[u].owner = c, Removed(t)[u].on # Leftover
      PROVE  FALSE
  <2>1. Removed(t)[u] = endpoint[u]
    BY <1>2, <1>3, <1>5, CallersAssumption DEF Unbound
  <2>2. u = t /\ endpoint[t].on = call[c].master
    BY <1>5, <2>1 DEF IInv, Endpoints, InstalledOnOwnMaster, Owns
  <2>3. endpoint[t] # Unbound
    BY <1>5, <2>1, <2>2, CallersAssumption DEF Unbound
  <2>4. Answers(endpoint[t].on)
    BY <1>1, <2>2, <2>3, AnsweredByOwn DEF IInv, Endpoints, EndpointsRun, Up, Answers, At
  <2>5. Removed(t)[t] = Unbound
    BY <1>1, <2>3, <2>4 DEF Removed, IInv, Typed, TypeOK
  <2>6. QED
    BY <2>1, <2>2, <2>3, <2>5
<1>6. QED
  BY <1>1, <1>2, <1>3, <1>4, <1>5

\* Every step keeps track of every endpoint.
LEMMA EndpointsStep == IInv /\ [Next]_vars => Endpoints'
<1> SUFFICES ASSUME IInv, [Next]_vars PROVE Endpoints'
  OBVIOUS
<1>a. /\ Typed' /\ TypeOK /\ Fits /\ OnlyScans /\ Masters
      /\ EndpointsRun /\ ClosesIdle /\ \A c \in Caller : Tidy(c)
  BY TypedStep, EndpointsByCall DEF IInv, Typed, Endpoints
<1>b. ASSUME NEW c \in Caller, NEW t \in Tuple, Owns(c, t), Exited(call[c].master)
      PROVE  endpoint[t].on = Leftover
  BY <1>a, <1>b, CallersAssumption, GenerationsAssumption
     DEF Owns, Unbound, Tidy, EndpointsRun, Fits, Forwarding, Engaged, Cleaning, Exited, Up,
         Generation, None
<1>c. ASSUME NEW c \in Caller, call[c].pc \in Forwarding
      PROVE  ~closing.early
  BY <1>a, <1>c, TuplesAssumption DEF Fits, OnlyScans
<1> USE <1>a, CallersAssumption, TuplesAssumption, GenerationsAssumption
    DEF TypeOK, Fits, OnlyScans, EndpointsRun, Up, ClosesIdle, Tidy, Has, Owns, At, Exited,
        Generation, Master, None, Leftover, Locked, Holding, Forwarding, Engaged, Cleaning,
        closed
<1>1. ASSUME NEW c \in Caller, Begin(c) PROVE Endpoints'
  <2>1. Tidy(c)'
    BY <1>1 DEF Begin
  <2>2. QED
    BY <1>1, <2>1, QuietStep DEF Begin
<1>2. ASSUME NEW c \in Caller, CancelContext(c) PROVE Endpoints'
  <2>1. Tidy(c)'
    BY <1>2 DEF CancelContext
  <2>2. QED
    BY <1>2, <2>1, QuietStep DEF CancelContext
<1>3. ASSUME NEW c \in Caller, ReuseMaster(c) PROVE Endpoints'
  <2>1. Tidy(c)'
    BY <1>3 DEF ReuseMaster, AfterEnsure, Unaffected
  <2>2. QED
    BY <1>3, <2>1, QuietStep DEF ReuseMaster, AfterEnsure, Unaffected
<1>4. ASSUME NEW c \in Caller, RefuseClosed(c) PROVE Endpoints'
  <2>1. Tidy(c)'
    BY <1>4 DEF RefuseClosed, Return, NoCall, Unaffected
  <2>2. QED
    BY <1>4, <2>1, QuietStep DEF RefuseClosed, Return, NoCall, Unaffected
<1>5. ASSUME NEW c \in Caller, ReplaceMaster(c) PROVE Endpoints'
  <2>1. EndpointsRun' /\ ClosesIdle'
    BY <1>5 DEF ReplaceMaster, Goto, Lock, Unaffected
  <2>2. ASSUME NEW d \in Caller PROVE Tidy(d)'
    BY <1>5 DEF ReplaceMaster, Goto, Lock, Unaffected
  <2>3. QED
    BY <2>1, <2>2, EndpointsByCallNext DEF Typed
<1>6. ASSUME NEW c \in Caller, ValidateAlias(c) PROVE Endpoints'
  <2>1. CASE Goto(c, "start") /\ UNCHANGED mu
    <3>1. Tidy(c)'
      BY <1>6, <2>1 DEF ValidateAlias, Goto, Unaffected
    <3>2. QED
      BY <1>6, <2>1, <3>1, QuietStep DEF ValidateAlias, Goto, Unaffected
  <2>2. CASE Return(c)
    <3>1. Tidy(c)'
      BY <1>6, <2>2 DEF ValidateAlias, Return, NoCall, Unaffected
    <3>2. QED
      BY <1>6, <2>2, <3>1, QuietStep DEF ValidateAlias, Return, NoCall, Unaffected
  <2>3. QED
    BY <1>6, <2>1, <2>2 DEF ValidateAlias
<1>7. ASSUME NEW c \in Caller, StartMaster(c) PROVE Endpoints'
  <2>1. PICK g \in Unused, p \in RetireLeftover(c) :
           /\ process' = [p EXCEPT ![g] = "starting"]
           /\ call' = [call EXCEPT ![c] = [@ EXCEPT !.pc = "await", !.master = g]]
    BY <1>7 DEF StartMaster
  <2>2. /\ g \in Generation /\ process[g] = "exited"
        /\ \A d \in Caller : call[d].master # g
    BY DEF Unused, Referred
  <2>3. \A h \in Master \ {g} : /\ process'[h] = "exited" <=> process[h] = "exited"
                                /\ Up(h) => Up(h)'
    BY <2>1, <2>2, RetireTypes
  <2>4. EndpointsRun' /\ ClosesIdle'
    BY <1>7, <2>1, <2>2, <2>3 DEF StartMaster
  <2>5. ASSUME NEW d \in Caller PROVE Tidy(d)'
    BY <1>7, <2>1, <2>2, <2>3 DEF StartMaster
  <2>6. QED
    BY <2>4, <2>5, EndpointsByCallNext DEF Typed
<1>8. ASSUME NEW c \in Caller, StartMasterFails(c) PROVE Endpoints'
  <2>1. Tidy(c)'
    BY <1>8 DEF StartMasterFails, Return, NoCall
  <2>2. \A g \in Master : /\ process'[g] = "exited" <=> process[g] = "exited"
                          /\ Up(g) => Up(g)'
    BY <1>8, RetireTypes DEF StartMasterFails
  <2>3. QED
    BY <1>8, <2>1, <2>2, QuietStep DEF StartMasterFails, Return, NoCall
<1>9. ASSUME NEW c \in Caller, MasterReady(c) PROVE Endpoints'
  <2>1. EndpointsRun' /\ ClosesIdle'
    BY <1>9 DEF MasterReady, Goto, AfterEnsure, Unaffected
  <2>2. master = None
    BY <1>9 DEF MasterReady, Masters, Replaces, Starting
  <2>3. ASSUME NEW d \in Caller PROVE Tidy(d)'
    BY <1>9, <2>2 DEF MasterReady, Goto, AfterEnsure, Unaffected
  <2>4. QED
    BY <2>1, <2>3, EndpointsByCallNext DEF Typed
<1>10. ASSUME NEW c \in Caller, MasterNotReady(c) PROVE Endpoints'
  <2>1. Tidy(c)'
    BY <1>10 DEF MasterNotReady, Terminated, Goto
  <2>2. QED
    BY <1>10, <2>1, QuietStep DEF MasterNotReady, Terminated, Goto
<1>11. ASSUME NEW c \in Caller, AbandonMaster(c) PROVE Endpoints'
  <2>1. Tidy(c)'
    BY <1>11 DEF AbandonMaster, Return, NoCall, Unlock, Unaffected
  <2>2. QED
    BY <1>11, <2>1, QuietStep DEF AbandonMaster, Return, NoCall, Unlock, Unaffected
<1>12. ASSUME NEW c \in Caller, LocalPortAvailable(c) PROVE Endpoints'
  <2>1. Tidy(c)'
    BY <1>12 DEF LocalPortAvailable, Goto, Unaffected
  <2>2. QED
    BY <1>12, <2>1, QuietStep DEF LocalPortAvailable, Goto, Unaffected
<1>13. ASSUME NEW c \in Caller, LocalPortConflict(c) PROVE Endpoints'
  <2>1. Tidy(c)'
    BY <1>13 DEF LocalPortConflict, Return, NoCall, Unaffected
  <2>2. QED
    BY <1>13, <2>1, QuietStep DEF LocalPortConflict, Return, NoCall, Unaffected
<1>14. ASSUME NEW c \in Caller, LockInstallation(c) PROVE Endpoints'
  <2>1. Tidy(c)'
    BY <1>14 DEF LockInstallation, Lock, Goto, Current, Unaffected
  <2>2. QED
    BY <1>14, <2>1, QuietStep DEF LockInstallation, Lock, Goto, Current, Unaffected
<1>15. ASSUME NEW c \in Caller, TransportReplaced(c) PROVE Endpoints'
  <2>1. Tidy(c)'
    BY <1>15 DEF TransportReplaced, Return, NoCall, Current, Unaffected
  <2>2. QED
    BY <1>15, <2>1, QuietStep DEF TransportReplaced, Return, NoCall, Current, Unaffected
<1>16. ASSUME NEW c \in Caller, InstallForward(c) PROVE Endpoints'
  <2>1. /\ At(c, "install") /\ Installs(c) /\ Goto(c, "verify")
        /\ UNCHANGED <<master, misled, process, closing>>
    BY <1>16 DEF InstallForward
  <2>2. EndpointsRun'
    BY <2>1, InstallsOwn DEF Answers
  <2>3. Tidy(c)'
    BY <2>1, InstallsOwn DEF Goto
  <2>4. \A u \in Tuple :
          \/ endpoint'[u] = endpoint[u]
          \/ /\ endpoint'[u].owner \in {c, Nobody}
             /\ misled \/ \A d \in Caller \ {c} : Owns(d, u) => call[d].target # u
    BY <2>1, InstallsOwn
  <2>5. QED
    BY <2>1, <2>2, <2>3, <2>4, CallerStep DEF Goto
<1>17. ASSUME NEW c \in Caller, InstallRejected(c) PROVE Endpoints'
  <2>1. Tidy(c)'
    BY <1>17 DEF InstallRejected, Return, NoCall, Unlock, Unaffected
  <2>2. QED
    BY <1>17, <2>1, QuietStep DEF InstallRejected, Return, NoCall, Unlock, Unaffected
<1>18. ASSUME NEW c \in Caller, InstallUncertain(c) PROVE Endpoints'
  <2>1. At(c, "install") /\ Goto(c, "retire") /\ UNCHANGED <<master, misled, closing>>
    BY <1>18 DEF InstallUncertain
  <2>2. \A g \in Master : /\ process'[g] = "exited" <=> process[g] = "exited"
                          /\ Up(g) => Up(g)'
    BY <1>18 DEF InstallUncertain, Terminated
  <2>3. CASE UNCHANGED endpoint
    <3>1. Tidy(c)'
      BY <2>1, <2>2, <2>3 DEF Goto
    <3>2. QED
      BY <2>1, <2>2, <2>3, <3>1, QuietStep DEF Goto
  <2>4. CASE Installs(c)
    <3>1. EndpointsRun'
      BY <2>1, <2>2, <2>4, InstallsOwn DEF Answers
    <3>2. Tidy(c)'
      BY <2>1, <2>2, <2>4, InstallsOwn DEF Goto
    <3>3. \A u \in Tuple :
            \/ endpoint'[u] = endpoint[u]
            \/ /\ endpoint'[u].owner \in {c, Nobody}
               /\ misled \/ \A d \in Caller \ {c} : Owns(d, u) => call[d].target # u
      BY <2>1, <2>4, InstallsOwn
    <3>4. QED
      BY <2>1, <2>2, <2>4, <3>1, <3>2, <3>3, CallerStep DEF Goto
  <2>5. QED
    BY <1>18, <2>3, <2>4 DEF InstallUncertain
<1>19. ASSUME NEW c \in Caller, MasterRetired(c) PROVE Endpoints'
  <2>1. Tidy(c)'
    BY <1>19, <1>b DEF MasterRetired, Return, NoCall, Unaffected
  <2>2. QED
    BY <1>19, <2>1, QuietStep DEF MasterRetired, Return, NoCall, Unlock, Unaffected
<1>20. ASSUME NEW c \in Caller, EndpointReady(c) PROVE Endpoints'
  <2>1. Tidy(c)'
    BY <1>20 DEF EndpointReady, Goto, Unaffected
  <2>2. QED
    BY <1>20, <2>1, QuietStep DEF EndpointReady, Goto, Unaffected
<1>21. ASSUME NEW c \in Caller, EndpointNotReady(c) PROVE Endpoints'
  <2>1. Tidy(c)'
    BY <1>21 DEF EndpointNotReady, Goto, Unaffected
  <2>2. QED
    BY <1>21, <2>1, QuietStep DEF EndpointNotReady, Goto, Unaffected
<1>22. ASSUME NEW c \in Caller, ForwardEnds(c) PROVE Endpoints'
  <2>1. Tidy(c)'
    BY <1>22 DEF ForwardEnds, Goto, Unaffected
  <2>2. QED
    BY <1>22, <2>1, QuietStep DEF ForwardEnds, Goto, Unaffected
<1>23. ASSUME NEW c \in Caller, CancelSkipped(c) PROVE Endpoints'
  <2>1. Exited(call[c].master)
    BY <1>23, <1>c DEF CancelSkipped, Current
  <2>2. Tidy(c)'
    BY <1>23, <1>b, <2>1 DEF CancelSkipped, Return, NoCall, Unaffected
  <2>3. QED
    BY <1>23, <2>2, QuietStep DEF CancelSkipped, Return, NoCall, Unaffected
<1>24. ASSUME NEW c \in Caller, LockCancel(c) PROVE Endpoints'
  <2>1. Tidy(c)'
    BY <1>24 DEF LockCancel, Lock, Goto, Current, Unaffected
  <2>2. QED
    BY <1>24, <2>1, QuietStep DEF LockCancel, Lock, Goto, Current, Unaffected
<1>25. ASSUME NEW c \in Caller, CancelForward(c) PROVE Endpoints'
  <2>1. /\ At(c, "cancel") /\ endpoint' = Removed(call[c].target) /\ Return(c)
        /\ UNCHANGED <<master, misled, process, closing>>
    BY <1>25 DEF CancelForward
  <2>2. EndpointsRun'
    BY <2>1, RemovesOwn
  <2>3. Tidy(c)'
    BY <2>1, RemovesOwn DEF Return, NoCall
  <2>4. \A u \in Tuple :
          \/ endpoint'[u] = endpoint[u]
          \/ /\ endpoint'[u].owner \in {c, Nobody}
             /\ misled \/ \A d \in Caller \ {c} : Owns(d, u) => call[d].target # u
    BY <2>1, RemovesOwn DEF Unbound
  <2>5. QED
    BY <2>1, <2>2, <2>3, <2>4, CallerStep DEF Return
<1>26. ASSUME NEW c \in Caller, CancelFails(c) PROVE Endpoints'
  <2>1. /\ At(c, "cancel") /\ Goto(c, "retire") /\ UNCHANGED <<master, misled, closing>>
        /\ endpoint' \in {endpoint, Removed(call[c].target)}
    BY <1>26 DEF CancelFails
  <2>2. \A g \in Master : /\ process'[g] = "exited" <=> process[g] = "exited"
                          /\ Up(g) => Up(g)'
    BY <1>26 DEF CancelFails, Terminated
  <2>3. \A u \in Tuple :
          \/ endpoint'[u] = endpoint[u]
          \/ endpoint'[u] = Unbound /\ (misled \/ Owns(c, u))
    BY <2>1, RemovesOwn
  <2>4. EndpointsRun'
    BY <2>2, <2>3
  <2>5. Tidy(c)'
    BY <2>1, <2>2, <2>3 DEF Goto, Unbound
  <2>6. \A u \in Tuple :
          \/ endpoint'[u] = endpoint[u]
          \/ /\ endpoint'[u].owner \in {c, Nobody}
             /\ misled \/ \A d \in Caller \ {c} : Owns(d, u) => call[d].target # u
    BY <2>3 DEF Unbound
  <2>7. QED
    BY <2>1, <2>2, <2>4, <2>5, <2>6, CallerStep DEF Goto
<1>27. ASSUME NEW c \in Caller, ObserveStops(c) PROVE Endpoints'
  <2>1. Tidy(c)'
    BY <1>27 DEF ObserveStops, Return, NoCall, Unaffected
  <2>2. QED
    BY <1>27, <2>1, QuietStep DEF ObserveStops, Return, NoCall, Unaffected
<1>28. ASSUME NEW c \in Caller, ScannerFails(c) PROVE Endpoints'
  <2>1. Tidy(c)'
    BY <1>28 DEF ScannerFails, Return, NoCall, Unaffected
  <2>2. QED
    BY <1>28, <2>1, QuietStep DEF ScannerFails, Return, NoCall, Unaffected
<1>29. ASSUME NEW g \in Master, MasterServes(g) PROVE Endpoints'
  <2>1. EndpointsRun' /\ ClosesIdle'
    BY <1>29 DEF MasterServes
  <2>2. ASSUME NEW c \in Caller PROVE Tidy(c)'
    BY <1>29 DEF MasterServes
  <2>3. QED
    BY <2>1, <2>2, EndpointsByCallNext DEF Typed
<1>30. ASSUME NEW g \in Master, MasterExits(g) PROVE Endpoints'
  <2>1. EndpointsRun' /\ ClosesIdle'
    BY <1>30 DEF MasterExits
  <2>2. ASSUME NEW d \in Caller PROVE Tidy(d)'
    BY <1>30 DEF MasterExits, Unbound
  <2>3. QED
    BY <2>1, <2>2, EndpointsByCallNext DEF Typed
<1>31. CASE CloseCalled
  <2>1. EndpointsRun' /\ ClosesIdle'
    BY <1>31 DEF CloseCalled
  <2>2. ASSUME NEW c \in Caller PROVE Tidy(c)'
    BY <1>31 DEF CloseCalled
  <2>3. QED
    BY <2>1, <2>2, EndpointsByCallNext DEF Typed
<1>32. CASE CloseAdapter
  <2>1. EndpointsRun' /\ ClosesIdle'
    BY <1>32 DEF CloseAdapter, Terminated
  <2>2. ASSUME NEW c \in Caller PROVE Tidy(c)'
    BY <1>32 DEF CloseAdapter, Terminated
  <2>3. QED
    BY <2>1, <2>2, EndpointsByCallNext DEF Typed
<1>33. CASE CloseReturns
  <2>1. EndpointsRun' /\ ClosesIdle'
    BY <1>33 DEF CloseReturns
  <2>2. ASSUME NEW c \in Caller PROVE Tidy(c)'
    BY <1>33 DEF CloseReturns
  <2>3. QED
    BY <2>1, <2>2, EndpointsByCallNext DEF Typed
<1>34. CASE Finished
  <2>1. EndpointsRun' /\ ClosesIdle'
    BY <1>34 DEF Finished, vars
  <2>2. ASSUME NEW c \in Caller PROVE Tidy(c)'
    BY <1>34 DEF Finished, vars
  <2>3. QED
    BY <2>1, <2>2, EndpointsByCallNext DEF Typed
<1>35. CASE UNCHANGED vars
  <2>1. EndpointsRun' /\ ClosesIdle'
    BY <1>35 DEF vars
  <2>2. ASSUME NEW c \in Caller PROVE Tidy(c)'
    BY <1>35 DEF vars
  <2>3. QED
    BY <2>1, <2>2, EndpointsByCallNext DEF Typed
<1>36. QED
  BY <1>1, <1>2, <1>3, <1>4, <1>5, <1>6, <1>7, <1>8, <1>9, <1>10, <1>11,
     <1>12, <1>13, <1>14, <1>15, <1>16, <1>17, <1>18, <1>19, <1>20, <1>21,
     <1>22, <1>23, <1>24, <1>25, <1>26, <1>27, <1>28, <1>29, <1>30, <1>31,
     <1>32, <1>33, <1>34, <1>35
     DEF Next, EnsureMaster, Forward, Observe

----------------------------------------------------------------------------
(* The invariant holds *)

\* The initial states satisfy the invariant, whatever a dead Manager left behind.
LEMMA InitInvariant == Init => IInv
<1> SUFFICES ASSUME Init PROVE IInv
  OBVIOUS
<1>1. PICK early \in BOOLEAN, left \in {"exited", "starting", "serving"},
           bound \in SUBSET Tuple :
        /\ left # "serving" => bound = {}
        /\ closing = [early |-> early, pc |-> "no", master |-> None]
        /\ process = [g \in Master |-> IF g = Leftover THEN left ELSE "exited"]
        /\ endpoint = [t \in Tuple |->
              IF t \in bound THEN [Unbound EXCEPT !.on = Leftover] ELSE Unbound]
  BY DEF Init
<1>2. /\ Unbound \in Endpoint /\ [Unbound EXCEPT !.on = Leftover] \in Endpoint
      /\ Unbound.owner = Nobody /\ [Unbound EXCEPT !.on = Leftover].owner = Nobody
      /\ [Unbound EXCEPT !.on = Leftover].on = Leftover
  BY DEF Unbound, Endpoint, Master, Leftover
<1>3. Typed
  <2>1. endpoint \in [Tuple -> Endpoint]
    BY <1>1, <1>2
  <2>2. process \in [Master -> Process]
    BY <1>1 DEF Process
  <2>3. NoCall \in Call /\ \A c \in Caller : call[c] = NoCall
    BY DEF Init, NoCall, Call
  <2>4. QED
    BY <1>1, <2>1, <2>2, <2>3, CallersAssumption
       DEF Init, Typed, TypeOK, Fits, OnlyScans, NoCall, Closing, Locked, Holding, Forwarding,
           Engaged
<1>4. Masters
  <2>1. \A g \in Generation : process[g] = "exited"
    BY <1>1, GenerationsAssumption DEF Master, Generation, Leftover
  <2>2. QED
    BY <2>1
       DEF Init, Masters, Replaces, NoOrphanMaster, NoCall, Alive, Answers, At, Starting, Master
<1>5. \A t \in Tuple, c \in Caller : ~Owns(c, t)
  BY <1>1, <1>2, CallersAssumption DEF Owns
<1>6. EndpointsRun
  <2>1. ASSUME NEW t \in Tuple, endpoint[t] # Unbound
        PROVE  endpoint[t].on = Leftover /\ process[Leftover] = "serving"
    BY <1>1, <1>2, <2>1 DEF Master
  <2>2. QED
    BY <2>1 DEF EndpointsRun, Up, Master, Leftover
<1>7. QED
  BY <1>3, <1>4, <1>5, <1>6
     DEF Init, IInv, Endpoints, ClosesIdle, KeepsMaster, KeepsEndpoint, NoCall, At,
         ReturnLeavesNoEndpoint, InstalledOnOwnMaster, Engaged, Forwarding

\* The inductive invariant, which the properties of the runs follow from: masters
\* are replaced only under the lock and only once gone, a call refers to the
\* current master until that master exits, and endpoints live on masters that run.
THEOREM AdapterInvariant == Spec => []IInv
<1>1. IInv /\ [Next]_vars => IInv'
  BY TypedStep, MastersStep, EndpointsStep DEF IInv
<1>2. QED
  BY <1>1, InitInvariant, PTL DEF Spec

\* a.mu is held by exactly the call between its Lock and its Unlock, on every path.
THEOREM AdapterTypes == Spec => []TypeOK
BY AdapterInvariant, PTL DEF IInv, Typed

\* A call of Forward that has returned left nothing listening (core/status.go:124-128).
THEOREM ForwardReturnsClean == Spec => []ReturnLeavesNoEndpoint
BY AdapterInvariant, PTL DEF IInv, Endpoints

\* A call has installed nothing but its own target on its own master
\* (forward.go:31-37).
THEOREM ForwardInstallsOwn == Spec => []InstalledOnOwnMaster
BY AdapterInvariant, PTL DEF IInv, Endpoints

\* No path forgets a running ssh process (master.go:50-53, 86-88).
THEOREM NoMasterForgotten == Spec => []NoOrphanMaster
BY AdapterInvariant, PTL DEF IInv, Masters

----------------------------------------------------------------------------
(* Endpoints disappear only by their owner's cancellation or with their master *)

RemovedByOwner ==
    \A t \in Tuple :
        endpoint[t] # Unbound /\ endpoint'[t].on # endpoint[t].on =>
            \/ process'[endpoint[t].on] = "exited"
            \/ \E c \in Caller : At(c, "cancel") /\ (Owns(c, t) \/ misled)

\* An installation takes no master's place.
LEMMA InstallsOverNothing ==
    ASSUME TypeOK, NEW c \in Caller, Installs(c)
    PROVE  RemovedByOwner
<1>1. \A t \in Tuple : t # call[c].target => endpoint'[t] = endpoint[t]
  BY DEF Installs, TypeOK
<1>2. call[c].target \in Tuple /\ endpoint[call[c].target] # Unbound =>
         endpoint'[call[c].target].on = endpoint[call[c].target].on
  BY DEF Installs, TypeOK
<1>3. QED
  BY <1>1, <1>2 DEF RemovedByOwner

\* A cancellation removes what its own call has.
LEMMA RemovesForOwner ==
    ASSUME IInv, NEW c \in Caller, At(c, "cancel"),
           endpoint' \in {endpoint, Removed(call[c].target)}
    PROVE  RemovedByOwner
BY RemovesOwn DEF RemovedByOwner

\* control.go:77-79, of every step.
LEMMA StepRemovesByOwner == IInv /\ [Next]_vars => RemovedByOwner
<1> SUFFICES ASSUME IInv, [Next]_vars PROVE RemovedByOwner
  OBVIOUS
<1> USE DEF IInv, Typed
<1>1. ASSUME NEW c \in Caller, EnsureMaster(c) PROVE UNCHANGED endpoint
  BY <1>1 DEF EnsureMaster, ReuseMaster, RefuseClosed, ReplaceMaster, ValidateAlias,
     StartMaster, StartMasterFails, MasterReady, MasterNotReady, AbandonMaster, Unaffected
<1>2. ASSUME NEW c \in Caller, Begin(c) \/ CancelContext(c) \/ Observe(c)
      PROVE  UNCHANGED endpoint
  BY <1>2 DEF Begin, CancelContext, Observe, ObserveStops, ScannerFails, Unaffected
<1>3. ASSUME NEW c \in Caller, Forward(c) PROVE UNCHANGED endpoint \/ RemovedByOwner
  <2>1. CASE InstallForward(c) \/ InstallUncertain(c)
    BY <2>1, InstallsOverNothing DEF InstallForward, InstallUncertain
  <2>2. CASE CancelForward(c) \/ CancelFails(c)
    BY <2>2, RemovesForOwner DEF CancelForward, CancelFails
  <2>3. QED
    BY <1>3, <2>1, <2>2
       DEF Forward, LocalPortAvailable, LocalPortConflict, LockInstallation, TransportReplaced,
           InstallRejected, MasterRetired, EndpointReady, EndpointNotReady, ForwardEnds,
           CancelSkipped, LockCancel, Unaffected
<1>4. ASSUME NEW g \in Master, MasterServes(g) PROVE UNCHANGED endpoint
  BY <1>4 DEF MasterServes
<1>5. ASSUME NEW g \in Master, MasterExits(g) PROVE RemovedByOwner
  <2>1. process'[g] = "exited"
    BY <1>5 DEF MasterExits, TypeOK
  <2>2. QED
    BY <1>5, <2>1 DEF MasterExits, RemovedByOwner
<1>6. CASE CloseCalled \/ CloseAdapter \/ CloseReturns \/ Finished \/ UNCHANGED vars
  <2>1. UNCHANGED endpoint
    BY <1>6 DEF CloseCalled, CloseAdapter, CloseReturns, Finished, vars
  <2>2. QED
    BY <2>1 DEF RemovedByOwner
<1>7. UNCHANGED endpoint => RemovedByOwner
  BY DEF RemovedByOwner
<1>8. QED
  BY <1>1, <1>2, <1>3, <1>4, <1>5, <1>6, <1>7 DEF Next

\* A retiring worker never removes what another one has (control.go:77-79).
THEOREM RetiringWorkerTakesOnlyItsOwn == Spec => OnlyOwnerRemoves
BY StepRemovesByOwner, AdapterInvariant, PTL DEF Spec, OnlyOwnerRemoves, RemovedByOwner


----------------------------------------------------------------------------
(* The adapter keeps the contract of core.Backend *)

Phases == [c \in Caller |-> PhaseOf(c)]
Listening == {c \in Caller : \E t \in Tuple : Owns(c, t)}

\* A step of the contract, or one that it does not see.
Keeps == Contract!ContractNext \/ UNCHANGED <<Phases, Listening>>

\* What a step of one call does to the phases.
LEMMA PhaseMoves ==
    ASSUME NEW c \in Caller, \A d \in Caller \ {c} : call'[d] = call[d]
    PROVE  /\ Phases' = [Phases EXCEPT ![c] = PhaseOf(c)']
           /\ PhaseOf(c)' = PhaseOf(c) => Phases' = Phases
<1>1. ASSUME NEW d \in Caller \ {c} PROVE PhaseOf(d)' = PhaseOf(d)
  BY <1>1 DEF PhaseOf
<1>2. QED
  BY <1>1 DEF Phases

\* A step that leaves the endpoints alone leaves alone who listens.
LEMMA ListeningKept == UNCHANGED endpoint => UNCHANGED Listening
BY DEF Listening, Owns

\* A call outside these parts has nothing listening, but on a leftover.
LEMMA ListensInside ==
    ASSUME IInv, ~LeftoverInterferes, NEW c \in Caller, c \in Listening
    PROVE  /\ call[c].pc \in {"verify", "ready", "cleanup", "cancel", "retire"}
           /\ ~Exited(call[c].master) /\ call[c].master \in Generation
           /\ Owns(c, call[c].target) /\ call[c].target \in Tuple
           /\ endpoint[call[c].target].on = call[c].master
<1>1. PICK t \in Tuple : Owns(c, t)
  BY DEF Listening
<1>2. endpoint[t] # Unbound
  BY <1>1, CallersAssumption DEF Owns, Unbound
<1>3. /\ endpoint[t].on # Leftover
      /\ call[c].pc \in Cleaning /\ call[c].target = t /\ endpoint[t].on = call[c].master
  BY <1>1 DEF IInv, Endpoints, ReturnLeavesNoEndpoint, InstalledOnOwnMaster, LeftoverInterferes
<1>4. QED
  <2>1. /\ call[c].pc \in {"verify", "ready", "cleanup", "cancel", "retire"}
        /\ Owns(c, call[c].target) /\ call[c].target \in Tuple
        /\ endpoint[call[c].target].on = call[c].master
    BY <1>1, <1>3 DEF Cleaning
  <2>2. call[c].master \in Generation
    BY <2>1 DEF IInv, Typed, Fits, Forwarding, Engaged
  <2>3. ~Exited(call[c].master)
    BY <1>1, <1>2, <1>3, <2>2, GenerationsAssumption
       DEF IInv, Endpoints, EndpointsRun, Up, Exited, Generation, None
  <2>4. QED
    BY <2>1, <2>2, <2>3

\* A return that leaves nothing of the call listening.
LEMMA ReturnKeeps ==
    ASSUME IInv, ~LeftoverInterferes, NEW c \in Caller, Return(c), Listening' = Listening \ {c},
           PhaseOf(c) \in {"away", "inside", "ending"}
    PROVE  Keeps
<1>1. PhaseOf(c)' = "away" /\ \A d \in Caller \ {c} : call'[d] = call[d]
  BY DEF Return, NoCall, PhaseOf, IInv, Typed, TypeOK
<1>2. Phases' = [Phases EXCEPT ![c] = "away"]
  BY <1>1, PhaseMoves
<1>3. Phases[c] = PhaseOf(c)
  BY DEF Phases
<1>4. CASE PhaseOf(c) \in {"inside", "ending"}
  BY <1>2, <1>3, <1>4
     DEF Keeps, Contract!ContractNext, Contract!Returns, Contract!Moves, Phases, Listening
<1>5. CASE PhaseOf(c) = "away"
  <2>1. c \notin Listening
    BY <1>5, ListensInside, TuplesAssumption DEF PhaseOf
  <2>2. QED
    BY <1>1, <1>5, <2>1, PhaseMoves DEF Keeps
<1>6. QED
  BY <1>4, <1>5

\* A step inside a call that the Manager does not see.
LEMMA SilentKeeps ==
    ASSUME NEW c \in Caller, \A d \in Caller \ {c} : call'[d] = call[d],
           PhaseOf(c)' = PhaseOf(c), UNCHANGED endpoint
    PROVE  Keeps
BY PhaseMoves, ListeningKept DEF Keeps

\* Installing adds the call to those that listen.
LEMMA InstallsListens ==
    ASSUME IInv, ~LeftoverInterferes, NEW c \in Caller, At(c, "install"), Installs(c)
    PROVE  Listening' = Listening \cup {c}
<1> DEFINE t == call[c].target
<1>1. t \in Tuple /\ endpoint'[t].owner = c
  BY InstallsOwn
<1>2. ASSUME NEW d \in Caller \ {c} PROVE ~Owns(d, t)
  <2>1. SUFFICES ASSUME Owns(d, t) PROVE FALSE
    OBVIOUS
  <2>2. endpoint[t].on # Leftover
    BY <1>1, <2>1 DEF LeftoverInterferes
  <2>3. call[d].target = t
    BY <1>1, <2>1, <2>2 DEF IInv, Endpoints, InstalledOnOwnMaster
  <2>4. QED
    BY <2>1, <2>3, InstallsOwn
<1>3. ASSUME NEW d \in Caller \ {c}, NEW u \in Tuple PROVE Owns(d, u)' <=> Owns(d, u)
  BY <1>1, <1>2, <1>3, InstallsOwn DEF Owns
<1>4. QED
  BY <1>1, <1>3 DEF Listening, Owns

\* Cancelling removes the call, if it has anything listening, and no other.
LEMMA RemovesListens ==
    ASSUME IInv, ~LeftoverInterferes, NEW c \in Caller, At(c, "cancel"),
           endpoint' = Removed(call[c].target)
    PROVE  Listening' = Listening \ {c}
<1>1. ~misled
  BY DEF LeftoverInterferes
<1>2. ASSUME NEW d \in Caller \ {c}, NEW t \in Tuple PROVE Owns(d, t)' <=> Owns(d, t)
  BY <1>1, <1>2, RemovesOwn, CallersAssumption DEF Owns, Unbound
<1>3. ASSUME NEW t \in Tuple, Owns(c, t)' PROVE FALSE
  <2>1. endpoint'[t].owner = c /\ endpoint'[t].on = Leftover
    BY <1>3, RemovesOwn DEF Owns
  <2>2. endpoint'[t] = endpoint[t]
    BY <1>3, <2>1, RemovesOwn, CallersAssumption DEF Unbound
  <2>3. QED
    BY <2>1, <2>2 DEF LeftoverInterferes, Owns
<1>4. QED
  BY <1>2, <1>3 DEF Listening

\* All that listens is on one master.
LEMMA OneTransport ==
    ASSUME IInv, ~LeftoverInterferes, NEW c \in Listening, NEW d \in Listening
    PROVE  call[c].master = call[d].master
<1>1. ASSUME NEW e \in Listening PROVE call[e].master = master
  <2>1. e \in Caller
    BY DEF Listening
  <2>2. QED
    BY <2>1, ListensInside, TuplesAssumption
       DEF IInv, Typed, OnlyScans, Endpoints, KeepsMaster, Forwarding, Engaged
<1>2. QED
  BY <1>1

\* A master that exits silences exactly those that listen on it.
LEMMA ExitSilences ==
    ASSUME IInv, ~LeftoverInterferes, NEW g \in Master, MasterExits(g)
    PROVE  Listening' = {c \in Listening : call[c].master # g}
<1>1. ASSUME NEW c \in Caller, NEW t \in Tuple
      PROVE  Owns(c, t)' <=> Owns(c, t) /\ call[c].master # g
  BY CallersAssumption
     DEF MasterExits, Owns, Unbound, IInv, Endpoints, InstalledOnOwnMaster, LeftoverInterferes
<1>2. QED
  BY <1>1 DEF Listening

\* Every step of the adapter keeps the contract, where no leftover interferes.
LEMMA StepKeeps == IInv /\ ~LeftoverInterferes /\ [Next]_vars => Keeps
<1> SUFFICES ASSUME IInv, ~LeftoverInterferes, [Next]_vars PROVE Keeps
  OBVIOUS
<1>a. TypeOK /\ Fits
  BY DEF IInv, Typed
<1> USE <1>a, TuplesAssumption DEF TypeOK, Fits, Forwarding, Engaged, At
<1>1. ASSUME NEW c \in Caller, Begin(c) PROVE Keeps
  <2>1. \A d \in Caller \ {c} : call'[d] = call[d]
    BY <1>1 DEF Begin
  <2>2. UNCHANGED endpoint /\ PhaseOf(c) = "away" /\ PhaseOf(c)' \in {"away", "inside"}
    BY <1>1 DEF Begin, PhaseOf
  <2>3. CASE PhaseOf(c)' = "away"
    BY <2>1, <2>2, <2>3, SilentKeeps
  <2>4. CASE PhaseOf(c)' = "inside"
    <3>1. Phases' = [Phases EXCEPT ![c] = "inside"] /\ Phases[c] = "away"
      BY <2>1, <2>2, <2>4, PhaseMoves DEF Phases
    <3>2. QED
      BY <2>2, <3>1, ListeningKept
         DEF Keeps, Contract!ContractNext, Contract!Calls, Contract!Moves, Phases, Listening
  <2>5. QED
    BY <2>2, <2>3, <2>4
<1>2. ASSUME NEW c \in Caller, CancelContext(c) PROVE Keeps
  <2>1. /\ \A d \in Caller \ {c} : call'[d] = call[d]
        /\ PhaseOf(c)' = PhaseOf(c) /\ UNCHANGED endpoint
    BY <1>2 DEF CancelContext, PhaseOf
  <2>2. QED
    BY <2>1, SilentKeeps
<1>3. ASSUME NEW c \in Caller, ReuseMaster(c) PROVE Keeps
  <2>1. /\ \A d \in Caller \ {c} : call'[d] = call[d]
        /\ PhaseOf(c)' = PhaseOf(c) /\ UNCHANGED endpoint
    BY <1>3 DEF ReuseMaster, AfterEnsure, Unaffected, PhaseOf
  <2>2. QED
    BY <2>1, SilentKeeps
<1>4. ASSUME NEW c \in Caller, RefuseClosed(c) PROVE Keeps
  <2>1. Return(c) /\ UNCHANGED endpoint /\ PhaseOf(c) \in {"away", "inside"}
    BY <1>4 DEF RefuseClosed, Unaffected, PhaseOf
  <2>2. c \notin Listening
    BY <1>4, ListensInside DEF RefuseClosed
  <2>3. QED
    BY <2>1, <2>2, ListeningKept, ReturnKeeps
<1>5. ASSUME NEW c \in Caller, ReplaceMaster(c) PROVE Keeps
  <2>1. /\ \A d \in Caller \ {c} : call'[d] = call[d]
        /\ PhaseOf(c)' = PhaseOf(c) /\ UNCHANGED endpoint
    BY <1>5 DEF ReplaceMaster, Goto, Lock, Unaffected, PhaseOf
  <2>2. QED
    BY <2>1, SilentKeeps
<1>6. ASSUME NEW c \in Caller, ValidateAlias(c) PROVE Keeps
  <2>1. CASE Goto(c, "start")
    <3>1. /\ \A d \in Caller \ {c} : call'[d] = call[d]
          /\ PhaseOf(c)' = PhaseOf(c) /\ UNCHANGED endpoint
      BY <1>6, <2>1 DEF ValidateAlias, Goto, Unaffected, PhaseOf
    <3>2. QED
      BY <3>1, SilentKeeps
  <2>2. CASE Return(c)
    <3>1. UNCHANGED endpoint /\ PhaseOf(c) \in {"away", "inside"} /\ c \notin Listening
      BY <1>6, ListensInside DEF ValidateAlias, Unaffected, PhaseOf
    <3>2. QED
      BY <2>2, <3>1, ListeningKept, ReturnKeeps
  <2>3. QED
    BY <1>6, <2>1, <2>2 DEF ValidateAlias
<1>7. ASSUME NEW c \in Caller, StartMaster(c) PROVE Keeps
  <2>1. /\ \A d \in Caller \ {c} : call'[d] = call[d]
        /\ PhaseOf(c)' = PhaseOf(c) /\ UNCHANGED endpoint
    BY <1>7 DEF StartMaster, RetireLeftover, Unused, Referred, PhaseOf
  <2>2. QED
    BY <2>1, SilentKeeps
<1>8. ASSUME NEW c \in Caller, StartMasterFails(c) PROVE Keeps
  <2>1. Return(c) /\ UNCHANGED endpoint /\ PhaseOf(c) \in {"away", "inside"}
    BY <1>8 DEF StartMasterFails, PhaseOf
  <2>2. c \notin Listening
    BY <1>8, ListensInside DEF StartMasterFails
  <2>3. QED
    BY <2>1, <2>2, ListeningKept, ReturnKeeps
<1>9. ASSUME NEW c \in Caller, MasterReady(c) PROVE Keeps
  <2>1. /\ \A d \in Caller \ {c} : call'[d] = call[d]
        /\ PhaseOf(c)' = PhaseOf(c) /\ UNCHANGED endpoint
    BY <1>9 DEF MasterReady, Goto, Unlock, AfterEnsure, Unaffected, PhaseOf
  <2>2. QED
    BY <2>1, SilentKeeps
<1>10. ASSUME NEW c \in Caller, MasterNotReady(c) PROVE Keeps
  <2>1. /\ \A d \in Caller \ {c} : call'[d] = call[d]
        /\ PhaseOf(c)' = PhaseOf(c) /\ UNCHANGED endpoint
    BY <1>10 DEF MasterNotReady, Terminated, Goto, PhaseOf
  <2>2. QED
    BY <2>1, SilentKeeps
<1>11. ASSUME NEW c \in Caller, AbandonMaster(c) PROVE Keeps
  <2>1. Return(c) /\ UNCHANGED endpoint /\ PhaseOf(c) \in {"away", "inside"}
    BY <1>11 DEF AbandonMaster, Unaffected, PhaseOf
  <2>2. c \notin Listening
    BY <1>11, ListensInside DEF AbandonMaster
  <2>3. QED
    BY <2>1, <2>2, ListeningKept, ReturnKeeps
<1>12. ASSUME NEW c \in Caller, LocalPortAvailable(c) PROVE Keeps
  <2>1. /\ \A d \in Caller \ {c} : call'[d] = call[d]
        /\ PhaseOf(c)' = PhaseOf(c) /\ UNCHANGED endpoint
    BY <1>12 DEF LocalPortAvailable, Goto, Unaffected, PhaseOf
  <2>2. QED
    BY <2>1, SilentKeeps
<1>13. ASSUME NEW c \in Caller, LocalPortConflict(c) PROVE Keeps
  <2>1. Return(c) /\ UNCHANGED endpoint /\ PhaseOf(c) \in {"away", "inside"}
    BY <1>13 DEF LocalPortConflict, Unaffected, PhaseOf
  <2>2. c \notin Listening
    BY <1>13, ListensInside DEF LocalPortConflict
  <2>3. QED
    BY <2>1, <2>2, ListeningKept, ReturnKeeps
<1>14. ASSUME NEW c \in Caller, LockInstallation(c) PROVE Keeps
  <2>1. /\ \A d \in Caller \ {c} : call'[d] = call[d]
        /\ PhaseOf(c)' = PhaseOf(c) /\ UNCHANGED endpoint
    BY <1>14 DEF LockInstallation, Lock, Goto, Current, Unaffected, PhaseOf
  <2>2. QED
    BY <2>1, SilentKeeps
<1>15. ASSUME NEW c \in Caller, TransportReplaced(c) PROVE Keeps
  <2>1. Return(c) /\ UNCHANGED endpoint /\ PhaseOf(c) \in {"away", "inside"}
    BY <1>15 DEF TransportReplaced, Unaffected, PhaseOf
  <2>2. c \notin Listening
    BY <1>15, ListensInside DEF TransportReplaced
  <2>3. QED
    BY <2>1, <2>2, ListeningKept, ReturnKeeps
<1>16. ASSUME NEW c \in Caller, InstallForward(c) PROVE Keeps
  <2>1. /\ \A d \in Caller \ {c} : call'[d] = call[d]
        /\ PhaseOf(c) = "inside" /\ PhaseOf(c)' = "bound" /\ Installs(c)
    BY <1>16 DEF InstallForward, Goto, PhaseOf
  <2>2. Phases' = [Phases EXCEPT ![c] = "bound"] /\ Phases[c] = "inside"
    BY <2>1, PhaseMoves DEF Phases
  <2>3. c \notin Listening /\ Listening' = Listening \cup {c}
    BY <1>16, <2>1, ListensInside, InstallsListens DEF InstallForward
  <2>4. QED
    BY <2>2, <2>3
       DEF Keeps, Contract!ContractNext, Contract!Binds, Contract!Moves, Phases, Listening
<1>17. ASSUME NEW c \in Caller, InstallRejected(c) PROVE Keeps
  <2>1. Return(c) /\ UNCHANGED endpoint /\ PhaseOf(c) \in {"away", "inside"}
    BY <1>17 DEF InstallRejected, Unaffected, PhaseOf
  <2>2. c \notin Listening
    BY <1>17, ListensInside DEF InstallRejected
  <2>3. QED
    BY <2>1, <2>2, ListeningKept, ReturnKeeps
<1>18. ASSUME NEW c \in Caller, InstallUncertain(c) PROVE Keeps
  <2>1. /\ \A d \in Caller \ {c} : call'[d] = call[d]
        /\ PhaseOf(c) = "inside" /\ PhaseOf(c)' = "ending"
    BY <1>18 DEF InstallUncertain, Goto, PhaseOf
  <2>2. Phases' = [Phases EXCEPT ![c] = "ending"] /\ Phases[c] = "inside"
    BY <2>1, PhaseMoves DEF Phases
  <2>3. Listening' \in {Listening, Listening \cup {c}}
    BY <1>18, ListeningKept, InstallsListens DEF InstallUncertain
  <2>4. QED
    BY <2>2, <2>3
       DEF Keeps, Contract!ContractNext, Contract!GivesUp, Contract!Moves, Phases, Listening
<1>19. ASSUME NEW c \in Caller, MasterRetired(c) PROVE Keeps
  <2>1. Exited(call[c].master)
    BY <1>19 DEF MasterRetired
  <2>2. c \notin Listening
    BY <2>1, ListensInside
  <2>3. Return(c) /\ UNCHANGED endpoint /\ PhaseOf(c) = "ending"
    BY <1>19 DEF MasterRetired, Unaffected, PhaseOf
  <2>4. QED
    BY <2>2, <2>3, ListeningKept, ReturnKeeps
<1>20. ASSUME NEW c \in Caller, EndpointReady(c) PROVE Keeps
  <2>1. /\ \A d \in Caller \ {c} : call'[d] = call[d]
        /\ PhaseOf(c) = "bound" /\ PhaseOf(c)' = "ready" /\ UNCHANGED endpoint
    BY <1>20 DEF EndpointReady, Goto, Unaffected, PhaseOf
  <2>2. Phases' = [Phases EXCEPT ![c] = "ready"] /\ Phases[c] = "bound"
    BY <2>1, PhaseMoves DEF Phases
  <2>3. QED
    BY <2>1, <2>2, ListeningKept
       DEF Keeps, Contract!ContractNext, Contract!BecomesReady, Contract!Moves, Phases, Listening
<1>21. ASSUME NEW c \in Caller, EndpointNotReady(c) PROVE Keeps
  <2>1. /\ \A d \in Caller \ {c} : call'[d] = call[d]
        /\ PhaseOf(c) = "bound" /\ PhaseOf(c)' = "ending" /\ UNCHANGED endpoint
    BY <1>21 DEF EndpointNotReady, Goto, Unaffected, PhaseOf
  <2>2. Phases' = [Phases EXCEPT ![c] = "ending"] /\ Phases[c] = "bound"
    BY <2>1, PhaseMoves DEF Phases
  <2>3. QED
    BY <2>1, <2>2, ListeningKept
       DEF Keeps, Contract!ContractNext, Contract!Ends, Contract!Moves, Phases, Listening
<1>22. ASSUME NEW c \in Caller, ForwardEnds(c) PROVE Keeps
  <2>1. /\ \A d \in Caller \ {c} : call'[d] = call[d]
        /\ PhaseOf(c) = "ready" /\ PhaseOf(c)' = "ending" /\ UNCHANGED endpoint
    BY <1>22 DEF ForwardEnds, Goto, Unaffected, PhaseOf
  <2>2. Phases' = [Phases EXCEPT ![c] = "ending"] /\ Phases[c] = "ready"
    BY <2>1, PhaseMoves DEF Phases
  <2>3. QED
    BY <2>1, <2>2, ListeningKept
       DEF Keeps, Contract!ContractNext, Contract!Ends, Contract!Moves, Phases, Listening
<1>23. ASSUME NEW c \in Caller, CancelSkipped(c) PROVE Keeps
  <2>1. Exited(call[c].master)
    BY <1>23 DEF CancelSkipped, Current, IInv, Typed, OnlyScans, Endpoints, KeepsMaster
  <2>2. c \notin Listening
    BY <2>1, ListensInside
  <2>3. Return(c) /\ UNCHANGED endpoint /\ PhaseOf(c) = "ending"
    BY <1>23 DEF CancelSkipped, Unaffected, PhaseOf
  <2>4. QED
    BY <2>2, <2>3, ListeningKept, ReturnKeeps
<1>24. ASSUME NEW c \in Caller, LockCancel(c) PROVE Keeps
  <2>1. /\ \A d \in Caller \ {c} : call'[d] = call[d]
        /\ PhaseOf(c)' = PhaseOf(c) /\ UNCHANGED endpoint
    BY <1>24 DEF LockCancel, Lock, Goto, Current, Unaffected, PhaseOf
  <2>2. QED
    BY <2>1, SilentKeeps
<1>25. ASSUME NEW c \in Caller, CancelForward(c) PROVE Keeps
  <2>1. Return(c) /\ PhaseOf(c) = "ending"
    BY <1>25 DEF CancelForward, PhaseOf
  <2>2. Listening' = Listening \ {c}
    BY <1>25, RemovesListens DEF CancelForward
  <2>3. QED
    BY <2>1, <2>2, ReturnKeeps
<1>26. ASSUME NEW c \in Caller, CancelFails(c) PROVE Keeps
  <2>1. \A d \in Caller \ {c} : call'[d] = call[d]
    BY <1>26 DEF CancelFails, Goto
  <2>2. PhaseOf(c) = "ending" /\ PhaseOf(c)' = "ending"
    BY <1>26 DEF CancelFails, Goto, PhaseOf
  <2>3. Phases' = Phases /\ Phases[c] = "ending"
    BY <2>1, <2>2, PhaseMoves DEF Phases
  <2>4. Listening' \in {Listening, Listening \ {c}}
    BY <1>26, ListeningKept, RemovesListens DEF CancelFails
  <2>5. QED
    BY <2>3, <2>4
       DEF Keeps, Contract!ContractNext, Contract!Withdraws, Phases, Listening
<1>27. ASSUME NEW c \in Caller, ObserveStops(c) PROVE Keeps
  <2>1. Return(c) /\ UNCHANGED endpoint /\ PhaseOf(c) \in {"away", "inside"}
    BY <1>27 DEF ObserveStops, Unaffected, PhaseOf
  <2>2. c \notin Listening
    BY <1>27, ListensInside DEF ObserveStops
  <2>3. QED
    BY <2>1, <2>2, ListeningKept, ReturnKeeps
<1>28. ASSUME NEW c \in Caller, ScannerFails(c) PROVE Keeps
  <2>1. Return(c) /\ UNCHANGED endpoint /\ PhaseOf(c) \in {"away", "inside"}
    BY <1>28 DEF ScannerFails, Unaffected, PhaseOf
  <2>2. c \notin Listening
    BY <1>28, ListensInside DEF ScannerFails
  <2>3. QED
    BY <2>1, <2>2, ListeningKept, ReturnKeeps
<1>29. ASSUME NEW g \in Master, MasterServes(g) PROVE Keeps
  BY <1>29, ListeningKept DEF MasterServes, Keeps, Phases, PhaseOf
<1>30. ASSUME NEW g \in Master, MasterExits(g) PROVE Keeps
  <2>1. UNCHANGED Phases
    BY <1>30 DEF MasterExits, Phases, PhaseOf
  <2>2. CASE \E c \in Listening : call[c].master = g
    <3>1. \A d \in Listening : call[d].master = g
      BY <2>2, OneTransport
    <3>2. Listening' = {}
      BY <1>30, <3>1, ExitSilences
    <3>3. QED
      BY <2>1, <3>2 DEF Keeps, Contract!ContractNext, Contract!LosesTransport, Phases, Listening
  <2>3. CASE \A c \in Listening : call[c].master # g
    <3>1. Listening' = Listening
      BY <1>30, <2>3, ExitSilences
    <3>2. QED
      BY <2>1, <3>1 DEF Keeps
  <2>4. QED
    BY <2>2, <2>3
<1>31. CASE CloseCalled \/ CloseAdapter \/ CloseReturns \/ Finished \/ UNCHANGED vars
  BY <1>31, ListeningKept
     DEF CloseCalled, CloseAdapter, CloseReturns, Finished, vars, Keeps, Phases, PhaseOf
<1>32. QED
  BY <1>1, <1>2, <1>3, <1>4, <1>5, <1>6, <1>7, <1>8, <1>9, <1>10, <1>11,
     <1>12, <1>13, <1>14, <1>15, <1>16, <1>17, <1>18, <1>19, <1>20, <1>21,
     <1>22, <1>23, <1>24, <1>25, <1>26, <1>27, <1>28, <1>29, <1>30, <1>31
     DEF Next, EnsureMaster, Forward, Observe

\* The adapter is the Backend that the Manager relies on (core/status.go:124-128):
\* what happens to one call or one master moves no other call's endpoint, wherever no
\* leftover master interferes.
THEOREM AdapterImplementsContract == Spec => ImplementsContract
<1>1. Init => Contract!ContractInit
  <2> SUFFICES ASSUME Init PROVE Contract!ContractInit
    OBVIOUS
  <2>1. \A c \in Caller : PhaseOf(c) = "away"
    BY DEF Init, PhaseOf, NoCall
  <2>2. Listening = {}
    <3>1. ASSUME NEW c \in Caller, NEW t \in Tuple PROVE ~Owns(c, t)
      BY CallersAssumption DEF Init, Owns, Unbound
    <3>2. QED
      BY <3>1 DEF Listening
  <2>3. QED
    BY <2>1, <2>2 DEF Contract!ContractInit, Listening
<1>2. IInv /\ [Next]_vars =>
         [Contract!ContractNext \/ LeftoverInterferes]_(Contract!contractVars)
  BY StepKeeps DEF Keeps, Contract!contractVars, Phases, Listening
<1>3. QED
  BY <1>1, <1>2, AdapterInvariant, PTL DEF Spec, ImplementsContract


----------------------------------------------------------------------------
(* What a call and Close wait for: the part of CancelledCallReturns,        *)
(* LostTransportNoticed and CloseFinishes that fairness does not decide.    *)

\* The most steps a call has left in this place.
CallRank(place) ==
    CASE place = "idle" -> 0
      [] place \in {"abandon", "retire", "observe"} -> 1
      [] place = "cancel" -> 2
      [] place = "cleanup" -> 3
      [] place = "ready" -> 4
      [] place = "verify" -> 5
      [] place = "install" -> 6
      [] place = "lock" -> 7
      [] place = "prepare" -> 8
      [] place = "await" -> 9
      [] place = "start" -> 10
      [] place = "validate" -> 11
      [] place = "ensure" -> 12

\* A call goes one way, to its return, and keeps its cancellation until then;
\* nobody else moves it.
CallAdvances ==
    \A c \in Caller : ~At(c, "idle") =>
        \/ call'[c] \in {call[c], [call[c] EXCEPT !.cancelled = TRUE]}
        \/ call'[c] = NoCall
        \/ /\ CallRank(call'[c].pc) < CallRank(call[c].pc)
           /\ call'[c].cancelled = call[c].cancelled

\* A master that has exited or has been told to.
Doomed(g) == g # None => ~Alive(g)

\* Whoever waits for a master's exit, with a.mu or in Close, waits for one that has
\* been told to go: not for one that serves on, and not for a later one.
WaitsForDoomed ==
    /\ \A c \in Caller : call[c].pc \in {"abandon", "retire"} => Doomed(call[c].master)
    /\ closed => Doomed(closing.master)

\* When the adapter is closed nobody is in a critical section and every ssh process
\* it started has exited or been told to.
ClosedLeavesNothing == closed => mu = Nobody /\ \A g \in Generation : ~Alive(g)

\* A closed adapter has no current master and its lock is free.
Released == closed => mu = Nobody /\ master = None

WaitInv == Released /\ WaitsForDoomed

\* What a step does to the call it belongs to; other calls stay where they are.
LEMMA CallShape ==
    ASSUME TypeOK, NEW c \in Caller
    PROVE  /\ call \in [Caller -> Call]
           /\ call[c] = [target |-> call[c].target, pc |-> call[c].pc,
                         master |-> call[c].master, cancelled |-> call[c].cancelled]
BY DEF TypeOK, Call

LEMMA GotoStep ==
    ASSUME TypeOK, NEW c \in Caller, NEW pc, Goto(c, pc)
    PROVE  /\ call'[c].pc = pc /\ call'[c].cancelled = call[c].cancelled
           /\ call'[c].master = call[c].master
           /\ \A d \in Caller \ {c} : call'[d] = call[d]
<1>1. /\ call'[c] = [call[c] EXCEPT !.pc = pc]
      /\ \A d \in Caller \ {c} : call'[d] = call[d]
  BY CallShape DEF Goto
<1>2. QED
  BY <1>1, CallShape

LEMMA ReturnStep ==
    ASSUME TypeOK, NEW c \in Caller, Return(c)
    PROVE  /\ call'[c] = NoCall /\ call'[c].pc = "idle"
           /\ \A d \in Caller \ {c} : call'[d] = call[d]
<1>1. call'[c] = NoCall /\ \A d \in Caller \ {c} : call'[d] = call[d]
  BY CallShape DEF Return
<1>2. QED
  BY <1>1 DEF NoCall

LEMMA AdoptStep ==
    ASSUME TypeOK, NEW c \in Caller, NEW pc, NEW g,
           call' = [call EXCEPT ![c] = [@ EXCEPT !.pc = pc, !.master = g]]
    PROVE  /\ call'[c].pc = pc /\ call'[c].cancelled = call[c].cancelled
           /\ \A d \in Caller \ {c} : call'[d] = call[d]
<1>1. /\ call'[c] = [call[c] EXCEPT !.pc = pc, !.master = g]
      /\ \A d \in Caller \ {c} : call'[d] = call[d]
  BY CallShape
<1>2. ASSUME NEW r, r = [target |-> r.target, pc |-> r.pc, master |-> r.master,
                         cancelled |-> r.cancelled]
      PROVE  /\ [r EXCEPT !.pc = pc, !.master = g].pc = pc
             /\ [r EXCEPT !.pc = pc, !.master = g].cancelled = r.cancelled
  BY <1>2
<1>3. QED
  BY <1>1, <1>2, CallShape

\* Where a step of a call leads.
Moves(c) ==
    /\ \A d \in Caller \ {c} : call'[d] = call[d]
    /\ \/ call'[c] = NoCall
       \/ /\ CallRank(call'[c].pc) < CallRank(call[c].pc)
          /\ call'[c].cancelled = call[c].cancelled

LEMMA Ranks ==
    /\ CallRank("idle") = 0 /\ CallRank("abandon") = 1 /\ CallRank("retire") = 1
    /\ CallRank("observe") = 1 /\ CallRank("cancel") = 2 /\ CallRank("cleanup") = 3
    /\ CallRank("ready") = 4 /\ CallRank("verify") = 5 /\ CallRank("install") = 6
    /\ CallRank("lock") = 7 /\ CallRank("prepare") = 8 /\ CallRank("await") = 9
    /\ CallRank("start") = 10 /\ CallRank("validate") = 11 /\ CallRank("ensure") = 12
BY DEF CallRank

\* A call moves when it returns, or when the place it goes to has a lower rank.
LEMMA ReturnMoves ==
    ASSUME TypeOK, NEW c \in Caller, Return(c)
    PROVE  Moves(c)
BY ReturnStep DEF Moves

LEMMA GotoMoves ==
    ASSUME TypeOK, NEW c \in Caller, NEW pc, Goto(c, pc), CallRank(pc) < CallRank(call[c].pc)
    PROVE  Moves(c)
BY GotoStep DEF Moves

LEMMA AdoptMoves ==
    ASSUME TypeOK, NEW c \in Caller, NEW pc, NEW g,
           call' = [call EXCEPT ![c] = [@ EXCEPT !.pc = pc, !.master = g]],
           CallRank(pc) < CallRank(call[c].pc)
    PROVE  Moves(c)
BY AdoptStep DEF Moves

\* Every step of ensureMaster leads closer to its return.
LEMMA EnsureMoves ==
    ASSUME TypeOK, NEW c \in Caller, EnsureMaster(c)
    PROVE  Moves(c)
<1>1. CASE RefuseClosed(c) \/ AbandonMaster(c) \/ StartMasterFails(c)
  BY <1>1, ReturnMoves DEF RefuseClosed, AbandonMaster, StartMasterFails
<1>2. CASE ReuseMaster(c)
  <2>1. CallRank(AfterEnsure(c)) < CallRank(call[c].pc)
    BY <1>2, Ranks DEF ReuseMaster, At, AfterEnsure
  <2>2. QED
    BY <1>2, <2>1, AdoptMoves DEF ReuseMaster
<1>3. CASE ReplaceMaster(c)
  BY <1>3, GotoMoves, Ranks DEF ReplaceMaster, At
<1>4. CASE ValidateAlias(c)
  <2>1. Return(c) \/ (Goto(c, "start") /\ call[c].pc = "validate")
    BY <1>4 DEF ValidateAlias, At
  <2>2. QED
    BY <2>1, ReturnMoves, GotoMoves, Ranks
<1>5. CASE StartMaster(c)
  <2>1. CallRank("await") < CallRank(call[c].pc)
    BY <1>5, Ranks DEF StartMaster, At
  <2>2. QED
    BY <1>5, <2>1, AdoptMoves DEF StartMaster
<1>6. CASE MasterReady(c)
  <2>1. CallRank(AfterEnsure(c)) < CallRank(call[c].pc)
    BY <1>6, Ranks DEF MasterReady, At, AfterEnsure
  <2>2. QED
    BY <1>6, <2>1, GotoMoves DEF MasterReady
<1>7. CASE MasterNotReady(c)
  BY <1>7, GotoMoves, Ranks DEF MasterNotReady, At
<1>8. QED
  BY <1>1, <1>2, <1>3, <1>4, <1>5, <1>6, <1>7 DEF EnsureMaster

\* So does every step of Forward and of Observe.
LEMMA ForwardMoves ==
    ASSUME TypeOK, NEW c \in Caller, Forward(c) \/ Observe(c)
    PROVE  Moves(c)
<1>1. CASE LocalPortConflict(c) \/ TransportReplaced(c) \/ InstallRejected(c)
           \/ MasterRetired(c) \/ CancelSkipped(c) \/ CancelForward(c) \/ Observe(c)
  <2>1. Return(c)
    BY <1>1 DEF LocalPortConflict, TransportReplaced, InstallRejected, MasterRetired,
                CancelSkipped, CancelForward, Observe, ObserveStops, ScannerFails
  <2>2. QED
    BY <2>1, ReturnMoves
<1>2. CASE LocalPortAvailable(c) \/ LockInstallation(c)
  <2>1. \/ call[c].pc = "prepare" /\ Goto(c, "lock")
        \/ call[c].pc = "lock" /\ Goto(c, "install")
    BY <1>2 DEF LocalPortAvailable, LockInstallation, At
  <2>2. QED
    BY <2>1, GotoMoves, Ranks
<1>3. CASE InstallForward(c) \/ InstallUncertain(c)
  <2>1. call[c].pc = "install" /\ (Goto(c, "verify") \/ Goto(c, "retire"))
    BY <1>3 DEF InstallForward, InstallUncertain, At
  <2>2. QED
    BY <2>1, GotoMoves, Ranks
<1>4. CASE EndpointReady(c) \/ EndpointNotReady(c) \/ ForwardEnds(c)
  <2>1. \/ call[c].pc = "verify" /\ (Goto(c, "ready") \/ Goto(c, "cleanup"))
        \/ call[c].pc = "ready" /\ Goto(c, "cleanup")
    BY <1>4 DEF EndpointReady, EndpointNotReady, ForwardEnds, At
  <2>2. QED
    BY <2>1, GotoMoves, Ranks
<1>5. CASE LockCancel(c) \/ CancelFails(c)
  <2>1. \/ call[c].pc = "cleanup" /\ Goto(c, "cancel")
        \/ call[c].pc = "cancel" /\ Goto(c, "retire")
    BY <1>5 DEF LockCancel, CancelFails, At
  <2>2. QED
    BY <2>1, GotoMoves, Ranks
<1>6. QED
  BY <1>1, <1>2, <1>3, <1>4, <1>5 DEF Forward

\* Calls advance in every step.
LEMMA StepAdvances == TypeOK /\ [Next]_vars => CallAdvances
<1> SUFFICES ASSUME TypeOK, [Next]_vars PROVE CallAdvances
  OBVIOUS
<1>1. ASSUME NEW c \in Caller, Begin(c) PROVE CallAdvances
  BY <1>1 DEF Begin, At, CallAdvances, TypeOK
<1>2. ASSUME NEW c \in Caller, CancelContext(c) PROVE CallAdvances
  BY <1>2 DEF CancelContext, CallAdvances, TypeOK
<1>3. ASSUME NEW c \in Caller, EnsureMaster(c) \/ Forward(c) \/ Observe(c)
      PROVE  CallAdvances
  BY <1>3, EnsureMoves, ForwardMoves DEF Moves, CallAdvances
<1>4. CASE UNCHANGED call
  BY <1>4 DEF CallAdvances
<1>5. QED
  BY <1>1, <1>2, <1>3, <1>4
     DEF Next, MasterServes, MasterExits, CloseCalled, CloseAdapter, CloseReturns, Finished, vars

\* A call goes one way, in at most a dozen steps of its own, and stays cancelled:
\* no path of ensureMaster, Forward or Observe loops.
THEOREM CallsAdvance == Spec => [][CallAdvances]_vars
<1>1. [TypeOK /\ [Next]_vars]_vars => [CallAdvances]_vars
  BY StepAdvances
<1>2. QED
  BY <1>1, AdapterTypes, PTL DEF Spec

\* A released adapter stays released: nobody is left inside a critical section, and
\* a closed adapter admits nobody, since no call refers to its current master.
LEMMA ReleasedStep == IInv /\ Released /\ [Next]_vars => Released'
<1> SUFFICES ASSUME IInv, Released, [Next]_vars, closed' PROVE mu' = Nobody /\ master' = None
  BY DEF Released
<1>1. CASE closed
  <2>1. mu = Nobody /\ master = None
    BY <1>1 DEF Released
  <2>2. ASSUME NEW c \in Caller PROVE call[c].pc \notin Holding
    BY <2>1, CallersAssumption DEF IInv, Typed, TypeOK, Locked
  <2>3. ASSUME NEW c \in Caller, EnsureMaster(c) PROVE UNCHANGED <<mu, master>>
    <3>1. CASE ReuseMaster(c) \/ RefuseClosed(c) \/ ReplaceMaster(c)
      BY <1>1, <3>1 DEF ReuseMaster, RefuseClosed, ReplaceMaster
    <3>2. QED
      BY <2>2, <2>3, <3>1
         DEF EnsureMaster, ValidateAlias, StartMaster, StartMasterFails, MasterReady,
             MasterNotReady, AbandonMaster, At, Holding
  <2>4. ASSUME NEW c \in Caller, call[c].pc \in {"lock", "cleanup"} PROVE ~Current(c)
    <3>1. call[c].master \in Generation
      BY <2>4 DEF IInv, Typed, Fits, Engaged, Forwarding
    <3>2. QED
      BY <2>1, <3>1, GenerationsAssumption DEF Current, Generation, None
  <2>5. ASSUME NEW c \in Caller, Forward(c) \/ Observe(c) PROVE UNCHANGED <<mu, master>>
    <3>1. CASE LockInstallation(c) \/ LockCancel(c)
      BY <2>4, <3>1 DEF LockInstallation, LockCancel, At
    <3>2. CASE LocalPortAvailable(c) \/ LocalPortConflict(c) \/ TransportReplaced(c)
               \/ EndpointReady(c) \/ EndpointNotReady(c) \/ ForwardEnds(c)
               \/ CancelSkipped(c) \/ Observe(c)
      BY <3>2 DEF LocalPortAvailable, LocalPortConflict, TransportReplaced, EndpointReady,
                  EndpointNotReady, ForwardEnds, CancelSkipped, Observe, ObserveStops,
                  ScannerFails
    <3>3. CASE InstallForward(c) \/ InstallRejected(c) \/ InstallUncertain(c)
               \/ MasterRetired(c) \/ CancelForward(c) \/ CancelFails(c)
      BY <2>2, <3>3 DEF InstallForward, InstallRejected, InstallUncertain, MasterRetired,
                        CancelForward, CancelFails, At, Holding
    <3>4. QED
      BY <2>5, <3>1, <3>2, <3>3 DEF Forward
  <2>6. CASE CloseAdapter
    BY <1>1, <2>6 DEF CloseAdapter, closed
  <2>7. QED
    BY <2>1, <2>3, <2>5, <2>6
       DEF Next, Begin, CancelContext, MasterServes, MasterExits, CloseCalled, CloseReturns,
           Finished, vars
<1>2. CASE ~closed
  <2>1. CASE CloseAdapter
    BY <2>1 DEF CloseAdapter
  <2>2. CASE ~CloseAdapter
    <3>1. UNCHANGED closing \/ CloseCalled \/ CloseReturns
      BY <2>2 DEF Next, Begin, CancelContext, EnsureMaster, Forward, Observe, ReuseMaster,
         RefuseClosed, ReplaceMaster, ValidateAlias, StartMaster, StartMasterFails,
         MasterReady, MasterNotReady, AbandonMaster, LocalPortAvailable, LocalPortConflict,
         LockInstallation, TransportReplaced, InstallForward, InstallRejected,
         InstallUncertain, MasterRetired, EndpointReady, EndpointNotReady, ForwardEnds,
         CancelSkipped, LockCancel, CancelForward, CancelFails, ObserveStops, ScannerFails,
         MasterServes, MasterExits, Finished, Unaffected, vars
    <3>2. ~closed'
      BY <1>2, <3>1 DEF CloseCalled, CloseReturns, closed, IInv, Typed, TypeOK, Closing
    <3>3. QED
      BY <3>2
  <2>3. QED
    BY <2>1, <2>2
<1>3. QED
  BY <1>1, <1>2

\* A doomed master does not come back, unless it has exited and its number is used
\* for a new one because nobody refers to it.
LEMMA DoomStays ==
    ASSUME IInv, [Next]_vars, NEW g \in Generation, ~Alive(g)
    PROVE  \/ ~Alive(g)'
           \/ \E c \in Caller : StartMaster(c) /\ ~Referred(g)
<1> USE DEF IInv, Typed, TypeOK, Alive, Master
<1>1. ASSUME NEW c \in Caller, StartMaster(c)
      PROVE  ~Alive(g)' \/ ~Referred(g)
  <2>1. PICK h \in Unused, p \in RetireLeftover(c) : process' = [p EXCEPT ![h] = "starting"]
    BY <1>1 DEF StartMaster
  <2>2. CASE g = h
    BY <2>2 DEF Unused
  <2>3. CASE g # h
    BY <2>1, <2>3, RetireTypes
  <2>4. QED
    BY <2>2, <2>3
<1>2. ASSUME NEW c \in Caller, EnsureMaster(c), ~StartMaster(c) PROVE ~Alive(g)'
  <2>1. CASE StartMasterFails(c)
    BY <2>1, RetireTypes DEF StartMasterFails
  <2>2. CASE MasterNotReady(c)
    BY <2>2 DEF MasterNotReady, Terminated
  <2>3. QED
    BY <1>2, <2>1, <2>2 DEF EnsureMaster, ReuseMaster, RefuseClosed, ReplaceMaster,
       ValidateAlias, MasterReady, AbandonMaster, Unaffected
<1>3. ASSUME NEW c \in Caller, Forward(c) \/ Observe(c) PROVE ~Alive(g)'
  <2>1. CASE InstallUncertain(c) \/ CancelFails(c)
    BY <2>1 DEF InstallUncertain, CancelFails, Terminated
  <2>2. QED
    BY <1>3, <2>1 DEF Forward, Observe, LocalPortAvailable, LocalPortConflict,
       LockInstallation, TransportReplaced, InstallForward, InstallRejected, MasterRetired,
       EndpointReady, EndpointNotReady, ForwardEnds, CancelSkipped, LockCancel,
       CancelForward, ObserveStops, ScannerFails, Unaffected
<1>4. ASSUME NEW h \in Master, MasterServes(h) \/ MasterExits(h) PROVE ~Alive(g)'
  BY <1>4 DEF MasterServes, MasterExits
<1>5. CASE CloseAdapter
  BY <1>5 DEF CloseAdapter, Terminated
<1>6. QED
  BY <1>1, <1>2, <1>3, <1>4, <1>5
     DEF Next, Begin, CancelContext, CloseCalled, CloseReturns, Finished, vars

\* Only an installation, a removal or a start that failed leads to a retirement.
LEMMA EnsureAvoids ==
    ASSUME TypeOK, NEW c \in Caller, EnsureMaster(c), ~MasterNotReady(c)
    PROVE  call'[c].pc \notin {"abandon", "retire"}
<1>1. CASE Return(c)
  BY <1>1, ReturnStep
<1>2. CASE ReplaceMaster(c) \/ ValidateAlias(c)
  <2>1. Return(c) \/ Goto(c, "validate") \/ Goto(c, "start")
    BY <1>2 DEF ReplaceMaster, ValidateAlias
  <2>2. QED
    BY <1>1, <2>1, GotoStep
<1>3. AfterEnsure(c) \in {"observe", "prepare"}
  BY DEF AfterEnsure
<1>4. CASE ReuseMaster(c)
  <2>1. call'[c].pc = AfterEnsure(c)
    BY <1>4, AdoptStep DEF ReuseMaster
  <2>2. QED
    BY <1>3, <2>1
<1>5. CASE StartMaster(c)
  <2>1. PICK g \in Unused : call' = [call EXCEPT ![c] = [@ EXCEPT !.pc = "await", !.master = g]]
    BY <1>5 DEF StartMaster
  <2>2. call'[c].pc = "await"
    BY <2>1, AdoptStep
  <2>3. QED
    BY <2>2
<1>6. CASE MasterReady(c)
  <2>1. call'[c].pc = AfterEnsure(c)
    BY <1>6, GotoStep DEF MasterReady
  <2>2. QED
    BY <1>3, <2>1
<1>7. CASE RefuseClosed(c) \/ StartMasterFails(c) \/ AbandonMaster(c)
  BY <1>1, <1>7 DEF RefuseClosed, StartMasterFails, AbandonMaster
<1>8. QED
  BY <1>2, <1>4, <1>5, <1>6, <1>7 DEF EnsureMaster

LEMMA ForwardAvoids ==
    ASSUME TypeOK, NEW c \in Caller, Forward(c) \/ Observe(c),
           ~InstallUncertain(c), ~CancelFails(c)
    PROVE  call'[c].pc \notin {"abandon", "retire"}
<1>1. CASE Return(c)
  BY <1>1, ReturnStep
<1>2. CASE LocalPortConflict(c) \/ TransportReplaced(c) \/ InstallRejected(c)
           \/ MasterRetired(c) \/ CancelSkipped(c) \/ CancelForward(c) \/ Observe(c)
  BY <1>1, <1>2 DEF LocalPortConflict, TransportReplaced, InstallRejected, MasterRetired,
                    CancelSkipped, CancelForward, Observe, ObserveStops, ScannerFails
<1>3. CASE LocalPortAvailable(c) \/ LockInstallation(c) \/ InstallForward(c) \/ LockCancel(c)
  <2>1. Goto(c, "lock") \/ Goto(c, "install") \/ Goto(c, "verify") \/ Goto(c, "cancel")
    BY <1>3 DEF LocalPortAvailable, LockInstallation, InstallForward, LockCancel
  <2>2. QED
    BY <2>1, GotoStep
<1>4. CASE EndpointReady(c) \/ EndpointNotReady(c) \/ ForwardEnds(c)
  <2>1. Goto(c, "ready") \/ Goto(c, "cleanup")
    BY <1>4 DEF EndpointReady, EndpointNotReady, ForwardEnds
  <2>2. QED
    BY <2>1, GotoStep
<1>5. QED
  BY <1>2, <1>3, <1>4 DEF Forward

\* Nobody but Close closes.
LEMMA ClosingKept ==
    ASSUME [Next]_vars, ~(CloseCalled \/ CloseAdapter \/ CloseReturns)
    PROVE  closing' = closing
<1>1. ASSUME NEW c \in Caller, EnsureMaster(c) PROVE closing' = closing
  BY <1>1 DEF EnsureMaster, ReuseMaster, RefuseClosed, ReplaceMaster, ValidateAlias,
     StartMaster, StartMasterFails, MasterReady, MasterNotReady, AbandonMaster, Unaffected
<1>2. ASSUME NEW c \in Caller, Forward(c) \/ Observe(c) PROVE closing' = closing
  <2>1. CASE LocalPortAvailable(c) \/ LocalPortConflict(c) \/ LockInstallation(c)
             \/ TransportReplaced(c) \/ InstallForward(c) \/ InstallRejected(c)
             \/ InstallUncertain(c) \/ MasterRetired(c)
    BY <2>1 DEF LocalPortAvailable, LocalPortConflict, LockInstallation, TransportReplaced,
       InstallForward, InstallRejected, InstallUncertain, MasterRetired, Unaffected
  <2>2. CASE EndpointReady(c) \/ EndpointNotReady(c) \/ ForwardEnds(c) \/ CancelSkipped(c)
             \/ LockCancel(c) \/ CancelForward(c) \/ CancelFails(c) \/ Observe(c)
    BY <2>2 DEF EndpointReady, EndpointNotReady, ForwardEnds, CancelSkipped, LockCancel,
       CancelForward, CancelFails, Observe, ObserveStops, ScannerFails, Unaffected
  <2>3. QED
    BY <1>2, <2>1, <2>2 DEF Forward
<1>3. ASSUME NEW c \in Caller, Begin(c) \/ CancelContext(c) PROVE closing' = closing
  BY <1>3 DEF Begin, CancelContext, Unaffected
<1>4. ASSUME NEW g \in Master, MasterServes(g) \/ MasterExits(g) PROVE closing' = closing
  BY <1>4 DEF MasterServes, MasterExits
<1>5. QED
  BY <1>1, <1>2, <1>3, <1>4 DEF Next, Finished, vars

\* The waits stay waits for doomed masters.
LEMMA WaitsStep == IInv /\ IInv' /\ WaitInv /\ [Next]_vars => WaitsForDoomed'
<1> SUFFICES ASSUME IInv, IInv', WaitInv, [Next]_vars PROVE WaitsForDoomed'
  OBVIOUS
<1>0. TypeOK /\ TypeOK'
  BY DEF IInv, Typed
<1>1. ASSUME NEW g \in Master PROVE process' = Terminated(g) => ~Alive(g)'
  BY <1>0, <1>1 DEF TypeOK, Terminated, Alive
<1>2. ASSUME NEW c \in Caller, call'[c].pc \in {"abandon", "retire"}
      PROVE  Doomed(call[c].master)' /\ call'[c].master = call[c].master
  <2>1. CASE MasterNotReady(c) \/ InstallUncertain(c) \/ CancelFails(c)
    <3>1. process' = Terminated(call[c].master)
          /\ call[c].pc \in {"await", "install", "cancel"}
          /\ call'[c].master = call[c].master
      BY <1>0, <2>1, GotoStep DEF MasterNotReady, InstallUncertain, CancelFails, At
    <3>2. call[c].master \in Master
      BY <3>1 DEF IInv, Typed, Fits, Engaged, Forwarding, Master
    <3>3. ~Alive(call[c].master)'
      BY <1>1, <3>1, <3>2 DEF Alive
    <3>4. QED
      BY <3>1, <3>3 DEF Doomed, Alive
  <2>2. CASE ~(MasterNotReady(c) \/ InstallUncertain(c) \/ CancelFails(c))
    <3>1. call[c].pc = call'[c].pc /\ call'[c].master = call[c].master
      <4>1. ASSUME NEW d \in Caller, Begin(d) \/ CancelContext(d)
            PROVE  call[c].pc = call'[c].pc /\ call'[c].master = call[c].master
        BY <1>0, <1>2, <4>1 DEF Begin, CancelContext, TypeOK, Call
      <4>2. ASSUME NEW d \in Caller, d # c, EnsureMaster(d) \/ Forward(d) \/ Observe(d)
            PROVE  call'[c] = call[c]
        BY <1>0, <4>2, EnsureMoves, ForwardMoves DEF Moves
      <4>3. ASSUME EnsureMaster(c)
            PROVE  FALSE
        BY <1>0, <1>2, <2>2, <4>3, EnsureAvoids
      <4>4. ASSUME Forward(c) \/ Observe(c)
            PROVE  FALSE
        BY <1>0, <1>2, <2>2, <4>4, ForwardAvoids
      <4>5. QED
        BY <4>1, <4>2, <4>3, <4>4 DEF Next, MasterServes, MasterExits, CloseCalled,
           CloseAdapter, CloseReturns, Finished, vars
    <3>2. call[c].master \in Generation /\ ~Alive(call[c].master)
      BY <1>2, <3>1, GenerationsAssumption
         DEF IInv, Typed, Fits, Engaged, Forwarding, WaitInv, WaitsForDoomed, Doomed,
             Generation, None
    <3>3. Referred(call[c].master)
      BY DEF Referred
    <3>4. process'[call[c].master] \notin {"starting", "serving"}
      BY <3>2, <3>3, DoomStays DEF Alive
    <3>5. QED
      BY <3>1, <3>4 DEF Doomed, Alive
  <2>3. QED
    BY <2>1, <2>2
<1>3. ASSUME closed' PROVE Doomed(closing.master)'
  <2>1. CASE ~closed
    <3>1. CASE CloseAdapter
      <4>1. CASE master = None
        BY <3>1, <4>1 DEF CloseAdapter, Doomed
      <4>2. CASE master # None
        BY <1>0, <1>1, <3>1, <4>2 DEF CloseAdapter, Doomed, TypeOK, Master, Alive
      <4>3. QED
        BY <4>1, <4>2
    <3>2. CASE CloseCalled \/ CloseReturns
      BY <1>0, <1>3, <2>1, <3>2 DEF CloseCalled, CloseReturns, closed, TypeOK, Closing
    <3>3. QED
      BY <1>3, <2>1, <3>1, <3>2, ClosingKept DEF closed
  <2>2. CASE closed
    <3>1. closing'.master = closing.master
      <4>1. ~CloseAdapter
        BY <2>2 DEF CloseAdapter, closed
      <4>2. CASE CloseCalled \/ CloseReturns
        BY <1>0, <4>2 DEF CloseCalled, CloseReturns, TypeOK, Closing
      <4>3. QED
        BY <4>1, <4>2, ClosingKept
    <3>2. ~\E c \in Caller : StartMaster(c)
      BY <1>0, <2>2, CallersAssumption
         DEF WaitInv, Released, StartMaster, TypeOK, Locked, Holding, At
    <3>3. CASE closing.master = None
      BY <3>1, <3>3 DEF Doomed
    <3>4. CASE closing.master # None
      <4>1. closing.master \in Generation /\ ~Alive(closing.master)
        BY <1>0, <2>2, <3>4 DEF TypeOK, Closing, WaitInv, WaitsForDoomed, Doomed
      <4>2. process'[closing.master] \notin {"starting", "serving"}
        BY <3>2, <4>1, DoomStays DEF Alive
      <4>3. QED
        BY <3>1, <4>2 DEF Doomed, Alive
    <3>5. QED
      BY <3>3, <3>4
  <2>3. QED
    BY <2>1, <2>2
<1>4. QED
  BY <1>2, <1>3 DEF WaitsForDoomed, Doomed, Alive

\* The invariant of the waits.
LEMMA WaitInvariant == Spec => []WaitInv
<1>1. Init => WaitInv
  BY DEF Init, WaitInv, Released, WaitsForDoomed, NoCall, closed
<1>2. IInv /\ IInv' /\ WaitInv /\ [Next]_vars => WaitInv'
  BY ReleasedStep, WaitsStep DEF WaitInv
<1>3. QED
  BY <1>1, <1>2, AdapterInvariant, PTL DEF Spec

\* stopMaster, with a.mu in a retirement and without it in Close, waits for a master
\* that has exited or been told to: the lock is not held for one that nobody stops.
THEOREM OnlyDoomedAwaited == Spec => []WaitsForDoomed
BY WaitInvariant, PTL DEF WaitInv

\* Close leaves nothing behind (master.go:124-140): once it has taken the lock, every
\* ssh process that the adapter started has exited or been told to, those of calls
\* that were starting one included, and no call takes the lock again.
THEOREM CloseLeavesNothing == Spec => []ClosedLeavesNothing
<1>1. IInv /\ WaitInv => ClosedLeavesNothing
  <2> SUFFICES ASSUME IInv, WaitInv, closed, NEW g \in Generation, Alive(g) PROVE FALSE
    BY DEF ClosedLeavesNothing, WaitInv, Released
  <2>1. mu = Nobody /\ master = None
    BY DEF WaitInv, Released
  <2>2. g # None
    BY GenerationsAssumption DEF Generation, None
  <2>3. QED
    BY <2>1, <2>2, CallersAssumption DEF IInv, Masters, NoOrphanMaster, Locked
<1>2. QED
  BY <1>1, AdapterInvariant, WaitInvariant, PTL

============================================================================
