----------------------------- MODULE MCLogFile ------------------------------
(* A log that is rotated every few records, for TLC.                       *)
EXTENDS LogFile
=============================================================================
