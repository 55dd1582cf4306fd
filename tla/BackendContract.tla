-------------------------- MODULE BackendContract --------------------------
(***************************************************************************)
(* What core.Backend promises about Forward (core/status.go:124-128), as   *)
(* the Manager relies on it: a call's endpoint listens before ready is     *)
(* called and is gone when the call returns; it goes earlier only with the *)
(* transport, which takes every endpoint along, or because its own call is *)
(* ending.                                                                 *)
(***************************************************************************)
CONSTANT Caller

VARIABLES phase,    \* Caller -> where its call of Forward is
          listening \* the callers whose endpoint listens

contractVars == <<phase, listening>>

\* "bound" is confirmed but not ready; "ending" will not become ready any more.
Phase == {"away", "inside", "bound", "ready", "ending"}

ContractInit ==
    /\ phase = [c \in Caller |-> "away"]
    /\ listening = {}

Moves(c, from, to) ==
    /\ phase[c] \in from
    /\ phase' = [phase EXCEPT ![c] = to]

Calls(c) == Moves(c, {"away"}, "inside") /\ UNCHANGED listening

Binds(c) == Moves(c, {"inside"}, "bound") /\ c \notin listening /\ listening' = listening \cup {c}

BecomesReady(c) == Moves(c, {"bound"}, "ready") /\ UNCHANGED listening

\* An installation of unknown outcome may have left an endpoint to clean up.
GivesUp(c) == Moves(c, {"inside"}, "ending") /\ listening' \in {listening, listening \cup {c}}

Ends(c) == Moves(c, {"bound", "ready"}, "ending") /\ UNCHANGED listening

Withdraws(c) ==
    /\ phase[c] = "ending" /\ listening' = listening \ {c}
    /\ UNCHANGED phase

\* Whatever a call still has listening goes in the step in which it returns.
Returns(c) == Moves(c, {"inside", "ending"}, "away") /\ listening' = listening \ {c}

LosesTransport == listening' = {} /\ UNCHANGED phase

ContractNext ==
    \/ \E c \in Caller :
          \/ Calls(c) \/ Binds(c) \/ BecomesReady(c) \/ GivesUp(c)
          \/ Ends(c) \/ Withdraws(c) \/ Returns(c)
    \/ LosesTransport

ContractSpec == ContractInit /\ [][ContractNext]_contractVars

============================================================================
