----------------------------- MODULE EventMask -----------------------------
(***************************************************************************)
(* listenedEvents_ of net/base/Event.h: a short with a bit group for       *)
(* reading ("R"), one for writing ("W"), and the rest ("S"), which holds   *)
(* the sign bit.                                                           *)
(***************************************************************************)

Bits == {"R", "W", "S"}

\* kNoneEvent is -1: all bits are set.
kNoneEvent == Bits

\* What the pollers test with listenedEvent() < 0.
Negative(mask) == "S" \in mask

\* enableRead and enableWrite.
Enabled(mask, bit) == (IF mask = kNoneEvent THEN {} ELSE mask) \cup {bit}

\* disableRead and disableWrite.
Disabled(mask, bit) ==
  LET rest == mask \ {bit}
  IN IF rest = {} THEN kNoneEvent ELSE rest
=============================================================================
