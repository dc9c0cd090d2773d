----------------------------- MODULE MCTcpServer -----------------------------
(* An instance of TcpServer for TLC. *)
EXTENDS TcpServer

CONSTANT t1         \* a thread that calls start()
=============================================================================
