---------------------------- MODULE MCTcpClient -----------------------------
(* Small instances of TcpClient for TLC.                                   *)
EXTENDS TcpClient
=============================================================================
