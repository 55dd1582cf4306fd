---------------------------- MODULE ConfigStore ----------------------------
(***************************************************************************)
(* The configuration file, config.jsonc, as the commands edit it           *)
(* (cli/internal/app: config.go, config_forwards.go, config_rules.go,      *)
(* config_normalize.go, jsonc.go; EditHost of host_registry.go).  Every    *)
(* edit takes the lock of a sidecar file, reads the whole file, edits what *)
(* it read, validates it and replaces the file by renaming a new one.      *)
(* The lock goes with the process that holds it.  Nobody locks to read.    *)
(*                                                                         *)
(* What a command does after its edit is in Service.tla.                   *)
(***************************************************************************)
EXTENDS Naturals, Sequences, SequencesExt

CONSTANTS
    Command,  \* the processes of the command-line program
    NoOne,    \* no command
    Scope,    \* the hosts that rules are for, and Global
    Global,   \* the scope of the rules for all hosts
    Target,   \* connection settings of a host
    NoTarget, \* none recorded
    Task,     \* what a command may be called for, see TasksAssumption
    Stored    \* the configurations that may be there to begin with

\* Rules have a port that names them (remote for an import, local for a
\* publication) and one they bind; a pattern or an application is just itself.
RuleKinds == {"forwards", "published", "directories", "apps"}

\* "edit": add or remove a rule.  "host": connection settings, and whether ignored.
ASSUME TasksAssumption ==
    /\ NoOne \notin Command /\ NoTarget \notin Target
    /\ \A t \in Task :
        \/ /\ t.kind = "edit" /\ t.rules \in RuleKinds /\ t.scope \in Scope /\ t.adding \in BOOLEAN
           /\ t.scope = Global => t.rules # "published"
           /\ t.rules = "apps" => t.scope = Global
           /\ t.rules = "forwards" => {"remote", "local", "fallback"} = DOMAIN t.rule
           /\ t.rules = "published" => {"remote", "local"} = DOMAIN t.rule
        \/ t.kind = "host" /\ t.scope \in Scope \ {Global} /\ t.target \in Target \cup {NoTarget} /\ t.ignore \in BOOLEAN
        \/ t.kind = "uninstall"

VARIABLES
    content, \* the file: [rules, hosts, ignored]
    lock,    \* who holds the lock of the sidecar file
    pc,      \* where each command is
    task,    \* what each command was called for
    copy,    \* what the holder of the lock has read
    saved,   \* the commands that have replaced the file, in order; its length is the file's version
    seen     \* the version of the file that holds a command's edit

storeVars == <<content, lock, pc, task, copy, saved, seen>>

(***************************************************************************)
(* Edits.                                                                  *)
(***************************************************************************)

KeyOf(rules, rule) ==
    CASE rules = "forwards" -> rule.remote
      [] rules = "published" -> rule.local
      [] OTHER -> rule

\* One rule for each key: an addition replaces the one that is there.
EditRule(items, t) ==
    LET others == {r \in items : KeyOf(t.rules, r) # KeyOf(t.rules, t.rule)} IN
    IF t.adding THEN others \cup {t.rule} ELSE others

EditScope(conf, t) == [conf EXCEPT !.rules[t.scope][t.rules] = EditRule(@, t)]

EditHost(conf, t) ==
    [conf EXCEPT !.ignored = IF t.ignore THEN @ \cup {t.scope} ELSE @ \ {t.scope},
                 !.hosts[t.scope] = IF t.target = NoTarget THEN @ ELSE t.target]

Edit(conf, t) == IF t.kind = "host" THEN EditHost(conf, t) ELSE EditScope(conf, t)

\* No port binds twice, and a strict import never takes the port that a
\* publication of the same scope is about.
DistinctBindings(items, port) == \A r, s \in items : r[port] = s[port] => r = s

ValidRules(rules) ==
    /\ DistinctBindings(rules.forwards, "local")
    /\ DistinctBindings(rules.published, "remote")
    /\ \A f \in rules.forwards, p \in rules.published : f.local = p.local => f.fallback

Valid(conf) == \A s \in Scope : ValidRules(conf.rules[s])

\* A file that no reader accepts ends every command and every reload.
ASSUME StoredAssumption == \A conf \in Stored : Valid(conf)

(***************************************************************************)
(* One command.                                                            *)
(***************************************************************************)

Goto(c, next) == pc' = [pc EXCEPT ![c] = next]

LockMutant(c) ==
    /\ pc[c] = "lock"
    /\ lock' = c
    /\ Goto(c, "read")
    /\ UNCHANGED <<content, task, copy, saved, seen>>
Lock(c) ==
    /\ pc[c] = "lock" /\ lock = NoOne
    /\ lock' = c
    /\ Goto(c, "read")
    /\ UNCHANGED <<content, task, copy, saved, seen>>

Read(c) ==
    /\ pc[c] = "read"
    /\ copy' = [copy EXCEPT ![c] = content]
    /\ Goto(c, "save")
    /\ UNCHANGED <<content, lock, task, saved, seen>>

Edited(c) == Edit(copy[c], task[c])

\* A host edit is saved even if it changes nothing, and needs no service: "running
\* manager reloads within 5 seconds".  A rule's goes on to the service.
Changes(c) == task[c].kind = "host" \/ Edited(c) # copy[c]

AfterEdit(c) == IF task[c].kind = "host" THEN "done" ELSE "dial"

Unlock(c) == lock' = IF lock = c THEN NoOne ELSE lock

Save(c) ==
    /\ pc[c] = "save" /\ Changes(c) /\ Valid(Edited(c))
    /\ content' = Edited(c)
    /\ saved' = Append(saved, c)
    /\ seen' = [seen EXCEPT ![c] = Len(saved) + 1]
    /\ Unlock(c)
    /\ Goto(c, AfterEdit(c))
    /\ UNCHANGED <<task, copy>>

\* What is to be added is there; what is to be removed is not, and that is an error.
Unchanged(c) ==
    /\ pc[c] = "save" /\ ~Changes(c)
    /\ seen' = [seen EXCEPT ![c] = Len(saved)]
    /\ Unlock(c)
    /\ Goto(c, IF task[c].adding THEN "dial" ELSE "failed")
    /\ UNCHANGED <<content, task, copy, saved>>

Refuse(c) ==
    /\ pc[c] = "save" /\ Changes(c) /\ ~Valid(Edited(c))
    /\ Unlock(c)
    /\ Goto(c, "failed")
    /\ UNCHANGED <<content, task, copy, saved, seen>>

\* A command ends where it is: an error, a timeout (5 s for the lock), a signal.
Ended(c) == pc[c] \in {"done", "failed"}

Abort(c) ==
    /\ ~Ended(c)
    /\ Unlock(c)
    /\ Goto(c, "failed")
    /\ UNCHANGED <<content, task, copy, saved, seen>>

StoreInit ==
    /\ content \in Stored
    /\ lock = NoOne
    /\ task \in [Command -> Task]
    /\ pc = [c \in Command |-> IF task[c].kind = "uninstall" THEN "status" ELSE "lock"]
    /\ copy = [c \in Command |-> content]
    /\ saved = <<>>
    /\ seen = [c \in Command |-> 0]

StoreStep(c) == Lock(c) \/ Read(c) \/ Save(c) \/ Unchanged(c) \/ Refuse(c)

============================================================================
