--------------------------- MODULE MCTcpConnection ---------------------------
(* Instances of TcpConnection for TLC.                                     *)
EXTENDS TcpConnection

CONSTANTS w1, w2, m1, m2, f1, f2

(* The first message does not fit the kernel's buffer of the runs.         *)
MCSize == [m \in Messages \cup Files |-> IF m \in {m1, f1} THEN 2 ELSE 1]
(* The second file is empty, though a byte of it is to be sent.            *)
MCFileLen == [f \in Files |-> IF f = f1 THEN 2 ELSE 0]
=============================================================================
