----------------------------- MODULE MCEventLoop -----------------------------
(* Instances of EventLoop for TLC.  Threads, functors and channels are     *)
(* model values.                                                           *)
EXTENDS EventLoop

CONSTANTS t1, t2, f1, f2, f3, ch1
=============================================================================
