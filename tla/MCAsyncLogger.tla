--------------------------- MODULE MCAsyncLogger ----------------------------
(* Small instance of AsyncLogger: two threads log.                          *)
EXTENDS AsyncLogger

CONSTANTS p1, p2
=============================================================================
