----------------------------- MODULE MCReactor -----------------------------
(* TLC instance of the reactor: a listening socket and two connections.    *)
EXTENDS Reactor
=============================================================================
