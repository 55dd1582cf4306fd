----------------------------- MODULE MCScanner -----------------------------
(***************************************************************************)
(* The scanner for TLC: a host whose ports change hands between a web      *)
(* service and SSH servers, two workers on one port, a container, and more *)
(* ports than are looked at.                                               *)
(***************************************************************************)
EXTENDS Scanner, TLC

CONSTANTS Other, Web

Sock(port, inode, addr, uid, app, dir, ssh) ==
    [port |-> port, inode |-> inode, addr |-> addr, uid |-> uid, app |-> app, dir |-> dir, ssh |-> ssh]

MCServer ==
    { \* Port 1: somebody's SSH server, or a service of the user.
      Sock(1, 12, "loopback4", Other, NoApp, FALSE, TRUE),
      Sock(1, 13, "wildcard4", Self, NoApp, TRUE, FALSE),
      \* Port 2: two workers of one SSH server.
      Sock(2, 21, "mapped6", Self, NoApp, FALSE, TRUE),
      Sock(2, 22, "mapped6", Self, NoApp, FALSE, TRUE),
      \* Port 3: OpenSSH, in a container or not, or another user's service.
      Sock(3, 31, "wildcard4", Self, SSHD, FALSE, TRUE),
      Sock(3, 32, "wildcard6", Other, Web, FALSE, FALSE) }

MCLabel == (1 :> NoApp) @@ (2 :> NoApp) @@ (3 :> Web)

============================================================================
