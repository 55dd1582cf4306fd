------------------------------ MODULE Service ------------------------------
(***************************************************************************)
(* The commands and the background service (cli/internal/app: manager.go,  *)
(* service.go, service_program.go, ipc.go, ipc_client.go; finishEdit of    *)
(* cli/internal/cli/command_forward.go).  A command edits the              *)
(* configuration, connects to the service over its socket, installs or     *)
(* repairs it if it does not answer, and has it reload.  The service       *)
(* reloads by itself as well, every 5 seconds.  The operating system's     *)
(* service manager (systemd or launchd) starts its process and restarts it *)
(* when it ends, one at a time.                                            *)
(*                                                                         *)
(* A reload is here what matters to a command: the version of the file     *)
(* that was read, and the end (ManagerPool.tla has what is in between).    *)
(***************************************************************************)
EXTENDS ConfigStore, FiniteSets

CONSTANTS
    MaxCrashes, \* bound on the crashes of the service
    MaxTroubles \* bound on the reloads that fail for no reason of this model's

ASSUME BoundsAssumption == MaxCrashes \in Nat /\ MaxTroubles \in Nat

VARIABLES
    installed, \* the service manager has the service
    wanted,    \* ... and was told to run it
    phase,     \* where the service's process is
    program,   \* the version of its program; the commands are of the new one
    told,      \* it was sent SIGTERM
    socket,    \* what the socket's path is: the process's, left by a dead one, or nothing
    connected, \* the commands with a connection to the process
    reload,    \* the reload that holds p.mu: on whose behalf, and the version it read
    applied,   \* the version that every host of the process has at least
    crashes, troubles

processVars == <<phase, program, told, socket, connected, reload, applied>>
serviceVars == <<installed, wanted, processVars, crashes, troubles>>
vars == <<storeVars, serviceVars>>

Phase == {"none", "listen", "load", "serve", "drain", "shutdown"}

NoReload == [by |-> NoOne, version |-> 0]
Starting == "start"
Monitor == "monitor"

ASSUME WhoAssumption == Starting \notin Command /\ Monitor \notin Command

Latest == Len(saved)

ServiceTypeOK ==
    /\ installed \in BOOLEAN /\ wanted \in BOOLEAN /\ told \in BOOLEAN
    /\ phase \in Phase /\ program \in {"old", "new"}
    /\ socket \in {"none", "stale", "live"}
    /\ connected \subseteq Command
    /\ reload.by \in Command \cup {NoOne, Starting, Monitor} /\ reload.version \in 0 .. Latest
    /\ applied \in 0 .. Latest
    /\ phase = "none" => socket # "live" /\ connected = {} /\ reload = NoReload /\ applied = 0

Serves == phase \in {"serve", "drain"}

\* A connection succeeds as soon as the process listens.
SocketLive == socket = "live"

(***************************************************************************)
(* The process.                                                            *)
(***************************************************************************)

\* Nothing but the place of commands.
StoreUnchanged == UNCHANGED <<content, lock, task, copy, saved, seen>>

\* Everything the process had goes with it.
Gone(path) ==
    /\ phase' = "none" /\ told' = FALSE
    /\ socket' = path
    /\ connected' = {} /\ reload' = NoReload /\ applied' = 0

Restart ==
    /\ phase = "none" /\ installed /\ wanted
    /\ phase' = "listen" /\ program' = "new"
    /\ UNCHANGED <<storeVars, installed, wanted, told, socket, connected, reload, applied, crashes, troubles>>

\* listenManager takes away what a dead process left.
ListenManager ==
    /\ phase = "listen" /\ ~SocketLive
    /\ phase' = "load" /\ socket' = "live"
    /\ UNCHANGED <<storeVars, installed, wanted, program, told, connected, reload, applied, crashes, troubles>>

BeginReloadMutant(who) ==
    /\ reload = NoReload
    /\ reload' = [by |-> who, version |-> IF who \in Command THEN applied ELSE Latest]
\* reload: the configuration is read under p.mu.
BeginReload(who) ==
    /\ reload = NoReload
    /\ reload' = [by |-> who, version |-> Latest]

StartReload ==
    /\ phase = "load"
    /\ BeginReload(Starting)
    /\ UNCHANGED <<storeVars, installed, wanted, phase, program, told, socket, connected, applied, crashes, troubles>>

MonitorReloadMutant ==
    /\ phase = "serve" /\ ~told /\ applied = 0
    /\ BeginReload(Monitor)
    /\ UNCHANGED <<storeVars, installed, wanted, phase, program, told, socket, connected, applied, crashes, troubles>>
MonitorReload ==
    /\ phase = "serve"
    /\ BeginReload(Monitor)
    /\ UNCHANGED <<storeVars, installed, wanted, phase, program, told, socket, connected, applied, crashes, troubles>>

Waiting(c) == pc[c] \in {"connect", "apply"}

AfterReload(c) == IF pc[c] = "connect" THEN "apply" ELSE "done"

\* A connection that was made lives on when the path is gone.
RequestReload(c) ==
    /\ Waiting(c) /\ Serves /\ (SocketLive \/ c \in connected)
    /\ BeginReload(c)
    /\ connected' = connected \cup {c}
    /\ UNCHANGED <<storeVars, installed, wanted, phase, program, told, socket, applied, crashes, troubles>>

\* The commands a reload answers: Connect's own reload, then finishEdit's.
Answered == {c \in Command : Waiting(c) /\ c = reload.by}

FinishReload ==
    /\ reload # NoReload
    /\ applied' = reload.version
    /\ reload' = NoReload
    /\ phase' = IF reload.by = Starting THEN "serve" ELSE phase
    /\ pc' = [c \in Command |-> IF c \in Answered THEN AfterReload(c) ELSE pc[c]]
    /\ StoreUnchanged
    /\ UNCHANGED <<installed, wanted, program, told, socket, connected, crashes, troubles>>

\* The context of a reload is over when its command has gone, or the process is to stop.
ContextOver ==
    \/ reload.by \in Command /\ ~Waiting(reload.by)
    \/ reload.by \in {Starting, Monitor} /\ told

FailReload ==
    /\ reload # NoReload
    /\ \/ ContextOver /\ UNCHANGED troubles
       \/ troubles < MaxTroubles /\ troubles' = troubles + 1
    /\ pc' = [c \in Command |-> IF c \in Answered THEN "failed" ELSE pc[c]]
    /\ IF reload.by = Starting
       THEN Gone("none") /\ UNCHANGED program
       ELSE reload' = NoReload /\ UNCHANGED <<phase, program, told, socket, connected, applied>>
    /\ StoreUnchanged
    /\ UNCHANGED <<installed, wanted, crashes>>

\* Stop: the monitor is cancelled, and waited for.
CancelMonitor ==
    /\ phase = "serve" /\ told
    /\ phase' = "drain"
    /\ UNCHANGED <<storeVars, installed, wanted, program, told, socket, connected, reload, applied, crashes, troubles>>

\* Shutdown closes the listener, which removes the path, as Stop does once more.
Shutdown ==
    /\ phase = "drain" /\ reload.by # Monitor
    /\ phase' = "shutdown" /\ socket' = "none"
    /\ UNCHANGED <<storeVars, installed, wanted, program, told, connected, reload, applied, crashes, troubles>>

\* The requests have ended or 3 seconds are over.
Exit ==
    /\ phase = "shutdown"
    /\ Gone("none")
    /\ UNCHANGED <<storeVars, installed, wanted, program, crashes, troubles>>

Crash ==
    /\ phase # "none" /\ crashes < MaxCrashes
    /\ crashes' = crashes + 1
    /\ Gone(IF SocketLive THEN "stale" ELSE socket)
    /\ UNCHANGED <<storeVars, installed, wanted, program, troubles>>

(***************************************************************************)
(* Connect.                                                                *)
(***************************************************************************)

Step(c, from, to) == pc[c] = from /\ Goto(c, to)

\* dialManager: the status is asked for, which takes p.mu, and the version compared.
DialAnswered(c) ==
    /\ pc[c] \in {"dial", "await"}
    /\ Serves /\ SocketLive /\ reload = NoReload /\ program = "new"
    /\ Goto(c, "connect")
    /\ connected' = connected \cup {c}
    /\ StoreUnchanged
    /\ UNCHANGED <<installed, wanted, phase, program, told, socket, reload, applied, crashes, troubles>>

\* Nobody listens, the answer is late, an error, or of another version.
DialFails(c) ==
    /\ Step(c, "dial", IF SocketLive THEN "status" ELSE "ensure")
    /\ StoreUnchanged /\ UNCHANGED serviceVars

\* A service that is to run may be between two processes.
Status ==
    IF ~installed THEN {"not installed"}
    ELSE {IF wanted THEN "running" ELSE "stopped"} \cup (IF phase = "none" THEN {"stopped"} ELSE {})

EnsureService(c) ==
    /\ pc[c] = "ensure"
    /\ \E status \in Status :
          Goto(c, CASE status = "not installed" -> "install"
                    [] status = "running" -> "await"
                    [] status = "stopped" -> "status")
    /\ StoreUnchanged /\ UNCHANGED serviceVars

\* uninstallService, for reinstallService or for the command of that name.
AfterUninstall(c) == IF task[c].kind = "uninstall" THEN "done" ELSE "install"

UninstallStatus(c) ==
    /\ pc[c] = "status"
    /\ \E status \in Status :
          Goto(c, CASE status = "not installed" -> AfterUninstall(c)
                    [] status = "running" -> "stop"
                    [] status = "stopped" -> "uninstall")
    /\ StoreUnchanged /\ UNCHANGED serviceVars

StopService(c) ==
    /\ Step(c, "stop", "stopping")
    /\ wanted' = FALSE
    /\ told' = (phase # "none")
    /\ StoreUnchanged
    /\ UNCHANGED <<installed, phase, program, socket, connected, reload, applied, crashes, troubles>>

\* The service manager waits for the process; a start in between ends the wait.
ServiceStopped(c) ==
    /\ Step(c, "stopping", IF wanted THEN "failed" ELSE "uninstall")
    /\ wanted \/ phase = "none"
    /\ StoreUnchanged /\ UNCHANGED serviceVars

\* launchd stops a process that still runs, systemd does not.
UninstallService(c) ==
    /\ Step(c, "uninstall", IF ~installed THEN "failed" ELSE "look")
    /\ installed' = FALSE /\ wanted' = FALSE
    /\ told' \in (IF installed THEN {told, phase # "none"} ELSE {told})
    /\ StoreUnchanged
    /\ UNCHANGED <<phase, program, socket, connected, reload, applied, crashes, troubles>>

LookAtSocket(c) ==
    /\ Step(c, "look", IF SocketLive THEN AfterUninstall(c) ELSE "remove")
    /\ StoreUnchanged /\ UNCHANGED serviceVars

\* What was dead when it was looked at.
RemoveSocket(c) ==
    /\ Step(c, "remove", AfterUninstall(c))
    /\ socket' = "none"
    /\ StoreUnchanged
    /\ UNCHANGED <<installed, wanted, phase, program, told, connected, reload, applied, crashes, troubles>>

\* installAndStart: another command may have been faster.
Install(c) ==
    /\ pc[c] = "install"
    /\ IF installed
       THEN \E status \in Status : Goto(c, IF status = "running" THEN "await" ELSE "start")
       ELSE Goto(c, "start")
    /\ installed' = TRUE
    /\ StoreUnchanged
    /\ UNCHANGED <<wanted, processVars, crashes, troubles>>

StartService(c) ==
    /\ Step(c, "start", IF installed THEN "await" ELSE "failed")
    /\ wanted' = installed
    /\ StoreUnchanged
    /\ UNCHANGED <<installed, processVars, crashes, troubles>>

(***************************************************************************)
(* The whole.                                                              *)
(***************************************************************************)

\* The service was never installed, runs, runs the version before an upgrade,
\* or was stopped; or a process that is gone has left its socket.
ServiceInit ==
    /\ StoreInit
    /\ installed \in BOOLEAN /\ wanted \in (IF installed THEN BOOLEAN ELSE {FALSE})
    /\ phase = IF wanted THEN "serve" ELSE "none"
    /\ program \in (IF wanted THEN {"old", "new"} ELSE {"new"})
    /\ socket \in (IF wanted THEN {"live"} ELSE {"none", "stale"})
    /\ told = FALSE /\ connected = {} /\ reload = NoReload /\ applied = 0
    /\ crashes = 0 /\ troubles = 0

Connect(c) ==
    \/ DialAnswered(c) \/ DialFails(c) \/ EnsureService(c)
    \/ UninstallStatus(c) \/ StopService(c) \/ ServiceStopped(c) \/ UninstallService(c)
    \/ LookAtSocket(c) \/ RemoveSocket(c)
    \/ Install(c) \/ StartService(c)

CommandStep(c) ==
    \/ (StoreStep(c) \/ Abort(c)) /\ UNCHANGED serviceVars
    \/ Connect(c)
    \/ RequestReload(c)

ProcessStep ==
    \/ Restart \/ ListenManager \/ StartReload \/ MonitorReload
    \/ FinishReload \/ FailReload
    \/ CancelMonitor \/ Shutdown \/ Exit

ServiceNext == (\E c \in Command : CommandStep(c)) \/ ProcessStep \/ Crash

\* The process and the service manager go on, the ticker ticks; a reload that
\* fails for ever is FailReload's bound (see README).  A command may stay where
\* it is for as long as it likes.
ServiceFairness ==
    /\ WF_vars(Restart) /\ WF_vars(ListenManager) /\ WF_vars(StartReload)
    /\ WF_vars(MonitorReload)
    /\ WF_vars(FinishReload \/ FailReload)
    /\ WF_vars(CancelMonitor) /\ WF_vars(Shutdown) /\ WF_vars(Exit)

ServiceSpec == ServiceInit /\ [][ServiceNext]_vars /\ ServiceFairness

(***************************************************************************)
(* Properties.                                                             *)
(***************************************************************************)

\* What the first k saves have made of the first file.
Version(conf, k) == FoldLeft(LAMBDA acc, c : Edit(acc, task[c]), conf, SubSeq(saved, 1, k))

\* config.go:167-168: no edit is lost, however many commands edit at a time and
\* wherever they end: the file is what the saved edits make of the first one,
\* in the order of the saves, and one that every reader accepts, although each
\* command has validated only what it had read.
EveryEditStored ==
    /\ \E conf \in Stored : content = Version(conf, Latest)
    /\ Valid(content)

Committed(c) == pc[c] = "done" /\ task[c].kind = "edit"

\* command_forward.go:53-64: once a command has returned without an error, there is
\* a version of the file that its edit has nothing to add to or to remove from, and
\* no process of the service goes by an older one, whatever was restarted,
\* upgraded or reloaded at the same time.
EditTakesEffect ==
    \E conf \in Stored :
        /\ content = Version(conf, Latest)
        /\ \A c \in Command :
              Committed(c) =>
                  /\ Edit(Version(conf, seen[c]), task[c]) = Version(conf, seen[c])
                  /\ phase \in {"serve", "drain", "shutdown"} => applied >= seen[c]

\* command_host.go:61, "running manager reloads within 5 seconds": an edit that
\* was saved takes effect even if its command ended right after, as long as
\* the service is to run.
SavedEditsApplied ==
    <>[](installed /\ wanted) => <>[](Serves /\ applied = Latest)

============================================================================
