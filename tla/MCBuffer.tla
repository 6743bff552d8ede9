------------------------------ MODULE MCBuffer ------------------------------
(* A small instance of Buffer for TLC.                                     *)
EXTENDS Buffer

CONSTANTS a, b
=============================================================================
