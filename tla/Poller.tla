------------------------------- MODULE Poller -------------------------------
(***************************************************************************)
(* What PollPoller and EpollPoller share: the Events that clients register *)
(* (net/base/Event.cpp), their listened masks, and the map events_ of the  *)
(* base class (net/poller/Poller.h).                                       *)
(*                                                                         *)
(* An Event belongs to one descriptor.  Several Events may name the same   *)
(* descriptor, one after the other: a closed descriptor is handed out      *)
(* again by the kernel.                                                    *)
(***************************************************************************)
EXTENDS Integers, Sequences, EventMask

CONSTANTS
  Events,           \* the Event objects
  Fds,              \* descriptors
  FdOf,             \* Event::fd_ of every Event
  Null              \* a null Event pointer

ASSUME PollerAssumption ==
  /\ FdOf \in [Events -> Fds]
  /\ Null \notin Events

VARIABLES
  listened,         \* Event::listenedEvents_
  index,            \* Event::indexInPoll_; every negative value is -1
  events,           \* events_; Null where the map has no entry
  active,           \* the Events the last poll() reported
  asked,            \* history: what the calls of enable* and disable* since
                    \* the last cancel() ask for, whatever the mask became
  misused,          \* history: the Events of which something was disabled,
                    \* since their last cancel(), when nothing was enabled
  shared            \* history: an Event was used while another Event of its
                    \* descriptor was registered

pollerVars == <<listened, index, events, active, asked, misused, shared>>

-----------------------------------------------------------------------------
Requests == {"R", "W"}

\* No other Event of the descriptor is registered.
Owns(e) == \A other \in Events \ {e} : FdOf[other] = FdOf[e] => index[other] < 0

\* Any Event may be used at any time.  Nothing is followed past the first use
\* of one whose descriptor is registered for another: that use has its whole
\* effect, and is the last step.
Uses(e) == ~shared /\ shared' = ~Owns(e)

\* enableRead and enableWrite, up to update().
Enable(e, bit) ==
  /\ listened' = [listened EXCEPT ![e] = Enabled(@, bit)]
  /\ asked' = [asked EXCEPT ![e] = @ \cup {bit}]
  /\ UNCHANGED misused

\* disableRead and disableWrite, up to update().
Disable(e, bit) ==
  /\ listened' = [listened EXCEPT ![e] = Disabled(@, bit)]
  /\ asked' = [asked EXCEPT ![e] = @ \ {bit}]
  /\ misused' = IF asked[e] = {} THEN misused \cup {e} ELSE misused

\* cancel, up to removeEvent().
Forget(e) ==
  /\ listened' = [listened EXCEPT ![e] = kNoneEvent]
  /\ asked' = [asked EXCEPT ![e] = {}]
  /\ misused' = misused \ {e}

PollerInit ==
  /\ listened = [e \in Events |-> kNoneEvent]
  /\ index = [e \in Events |-> -1]
  /\ events = [fd \in Fds |-> Null]
  /\ active = {}
  /\ asked = [e \in Events |-> {}]
  /\ misused = {}
  /\ shared = FALSE

PollerTyped ==
  /\ listened \in [Events -> SUBSET Bits]
  /\ index \in [Events -> {-1} \cup Nat]
  /\ events \in [Fds -> Events \cup {Null}]
  /\ active \subseteq Events \cup {Null}

HistoryTyped ==
  /\ asked \in [Events -> SUBSET Requests]
  /\ misused \subseteq Events
  /\ shared \in BOOLEAN

Registered == {e \in Events : index[e] >= 0}

\* The Events for which something is asked and whose clients never disabled
\* anything while nothing was enabled.
Wanting == {e \in Events \ misused : asked[e] # {}}
=============================================================================
