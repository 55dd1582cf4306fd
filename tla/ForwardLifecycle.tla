-------------------------- MODULE ForwardLifecycle --------------------------
(***************************************************************************)
(* What a Manager promises about the forwards of one host, whatever makes  *)
(* it reconcile: each name (forwardKey) is served by at most one forward   *)
(* at a time, whose behaviour never changes; a forward ends by retiring,   *)
(* and only then is its name free again; after Close everything retires,   *)
(* nothing starts, and the transport goes last.  ARCHITECTURE.md says this *)
(* of cancellation, replacement and shutdown.                              *)
(***************************************************************************)
CONSTANTS Name,      \* forward keys
          Behavior,  \* what a forward does
          None       \* no forward: not a Behavior

VARIABLES serving,   \* name -> the behaviour of its forward, or None
          retiring,  \* the names whose forward has been told to stop
          transport  \* "open", "closing" or "closed"

lifecycleVars == <<serving, retiring, transport>>

LifecycleInit ==
    /\ serving \in [Name -> Behavior \cup {None}]
    /\ retiring = {}
    /\ transport = "open"

Stays(n) == serving'[n] = serving[n] /\ (n \in retiring' <=> n \in retiring)

Starts(n) == serving[n] = None /\ serving'[n] \in Behavior /\ n \notin retiring'

Retires(n) ==
    /\ serving[n] \in Behavior /\ serving'[n] = serving[n]
    /\ n \notin retiring /\ n \in retiring'

\* The forward of a retiring name has ended; another may take its place.
Ends(n) ==
    /\ n \in retiring
    /\ serving'[n] = None \/ (serving'[n] \in Behavior /\ transport = "open")
    /\ n \notin retiring'

\* One critical section: at most one forward ends, others start or retire.
Reconciles ==
    /\ \A n \in Name : Stays(n) \/ Starts(n) \/ Retires(n) \/ Ends(n)
    /\ \A m, n \in Name : Ends(m) /\ Ends(n) => m = n
    /\ transport # "open" => \A n \in Name : ~Starts(n)
    /\ serving' \in [Name -> Behavior \cup {None}]
    /\ retiring' \subseteq Name
    /\ transport # "closed"
    /\ UNCHANGED transport

ClosesDown ==
    /\ transport = "open"
    /\ transport' = "closing"
    /\ serving' = serving
    /\ retiring' = {n \in Name : serving[n] # None}

DropsTransport ==
    /\ transport = "closing"
    /\ \A n \in Name : serving[n] = None
    /\ transport' = "closed"
    /\ UNCHANGED <<serving, retiring>>

LifecycleNext == Reconciles \/ ClosesDown \/ DropsTransport

LifecycleSpec == LifecycleInit /\ [][LifecycleNext]_lifecycleVars

============================================================================
