---------------------------- MODULE MCLifecycle -----------------------------
(* Two clients, so that one of them has to wait for the lock, and a        *)
(* command channel with room for one.                                      *)
EXTENDS Lifecycle

CONSTANTS c1, c2
MCClients == {c1, c2}
Either == {TRUE, FALSE}
=============================================================================
