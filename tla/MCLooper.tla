------------------------------ MODULE MCLooper ------------------------------
(* Small instances of Looper for TLC.                                      *)
EXTENDS Looper

CONSTANTS t1, t2, t3, p1, p2
=============================================================================
