-------------------------- MODULE MCEventLoopThread --------------------------
(* Instances of EventLoopThread for TLC.                                   *)
EXTENDS EventLoopThread

CONSTANTS t1, f1, f2, ch1
=============================================================================
