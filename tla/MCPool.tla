------------------------------- MODULE MCPool -------------------------------
(***************************************************************************)
(* The pool for TLC: an alias that is asked for, a session to the same     *)
(* machine with a temporary -F file, and a host of the configuration whose *)
(* target changes, which goes and comes back, and which publishes a port.  *)
(***************************************************************************)
EXTENDS ManagerPool, TLC

CONSTANTS F, Shared, Box \* the temporary file, and the two machines

Session == [target |-> 2, file |-> F]

MCResolves ==
    [s \in Setting |-> IF s.target = 1 \/ s = Session THEN Shared ELSE Box]

Conf(hosts, ignored, port) ==
    [hosts |-> hosts, ignored |-> ignored,
     published |-> [n \in Name |-> IF n = 3 THEN port ELSE {}]]

WithBox == Conf(3 :> Plain(3), {}, {80})
WithoutBox == Conf(Empty, {}, {})
MovedBox == Conf(3 :> [target |-> 3, file |-> F], {1}, {81})

MCConfig == {WithBox, WithoutBox, MovedBox}

\* What a session is recorded as, and the same name edited by hand.
MCFound == {<<2, Session>>, <<2, Plain(2)>>}

============================================================================
