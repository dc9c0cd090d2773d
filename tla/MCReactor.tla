------------------------------- MODULE MCReactor -----------------------------
(* An instance of Reactor for TLC. *)
EXTENDS Reactor

CONSTANTS c1, c2    \* connections
=============================================================================
