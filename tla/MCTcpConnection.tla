-------------------------- MODULE MCTcpConnection ---------------------------
(* Small instance of TcpConnection: at most one thread besides the loop's.  *)
EXTENDS TcpConnection

CONSTANT p1
=============================================================================
