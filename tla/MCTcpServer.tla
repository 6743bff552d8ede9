---------------------------- MODULE MCTcpServer -----------------------------
(* A server without a pool and with pools of one and two threads, for TLC.               *)
EXTENDS TcpServer

CONSTANTS t1, t2

MCPools == {{}, {t1}, {t1, t2}}
=============================================================================
