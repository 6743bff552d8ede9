---------------------------- MODULE MCTimerQueue ----------------------------
(* Small instance of TimerQueue.                                            *)
EXTENDS TimerQueue

CONSTANTS t1, t2, t3
=============================================================================
