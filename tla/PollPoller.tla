----------------------------- MODULE PollPoller -----------------------------
(***************************************************************************)
(* net/poller/PollPoller.cpp: the descriptors handed to poll(2) are the    *)
(* vector pollFds_; every Event stores its position in it.  Removing an    *)
(* entry moves the last one into the gap, so the position of another Event *)
(* changes.                                                                *)
(***************************************************************************)
EXTENDS PollEntries

vars == <<pollerVars, pollFds>>

Init == PollerInit /\ pollFds = <<>>

Front(s) == SubSeq(s, 1, Len(s) - 1)

\* updateEvent of an Event that has no position yet.
Add(e, mask) ==
  /\ pollFds' = Append(pollFds, [fd |-> FdOf[e], events |-> mask])
  /\ index' = [index EXCEPT ![e] = Len(pollFds)]
  /\ events' = [events EXCEPT ![FdOf[e]] = e]

\* Mutant: bits are only ever added to the entry.
ModifyAddsBits(e, mask) ==
  /\ pollFds' = [pollFds EXCEPT ![index[e] + 1].events = @ \cup mask]
  /\ UNCHANGED <<index, events>>

Modify(e, mask) ==
  /\ pollFds' = [pollFds EXCEPT ![index[e] + 1].events = mask]
  /\ UNCHANGED <<index, events>>

\* Mutant: the moved entry's Event keeps its old position.
RemoveKeepsMovedIndex(e) ==
  LET n == Len(pollFds)
      i == index[e]
  IN /\ events' = [events EXCEPT ![FdOf[e]] = Null]
     /\ index' = [index EXCEPT ![e] = -1]
     /\ \/ i \notin 0 .. n - 1 /\ UNCHANGED pollFds
        \/ i = n - 1 /\ i >= 0 /\ pollFds' = Front(pollFds)
        \/ i \in 0 .. n - 2
           /\ pollFds' = [Front(pollFds) EXCEPT ![i + 1] = pollFds[n]]

\* Mutant: the gap is closed by shifting, not by moving the last entry.
RemoveShifts(e) ==
  LET n == Len(pollFds)
      i == index[e]
  IN /\ events' = [events EXCEPT ![FdOf[e]] = Null]
     /\ \/ /\ i \notin 0 .. n - 1
           /\ index' = [index EXCEPT ![e] = -1]
           /\ UNCHANGED pollFds
        \/ /\ i \in 0 .. n - 1
           /\ pollFds' = SubSeq(pollFds, 1, i) \o SubSeq(pollFds, i + 2, n)
           /\ index' = [index EXCEPT ![events[pollFds[n].fd]] = i, ![e] = -1]

\* removeEvent.  The entry is erased from events_ before the position is
\* looked at, so an Event without a position loses only its map entry.
RemoveEvent(e) ==
  LET n == Len(pollFds)
      i == index[e]
  IN /\ events' = [events EXCEPT ![FdOf[e]] = Null]
     /\ \/ /\ i \notin 0 .. n - 1
           /\ index' = [index EXCEPT ![e] = -1]
           /\ UNCHANGED pollFds
        \/ /\ i = n - 1 /\ i >= 0
           /\ index' = [index EXCEPT ![e] = -1]
           /\ pollFds' = Front(pollFds)
        \/ /\ i \in 0 .. n - 2
           /\ pollFds' = [Front(pollFds) EXCEPT ![i + 1] = pollFds[n]]
           /\ index' = [index EXCEPT ![events'[pollFds[n].fd]] = i, ![e] = -1]

\* updateEvent after the Event's mask became mask.
UpdateEvent(e, mask) ==
  \/ index[e] < 0 /\ Negative(mask) /\ UNCHANGED <<index, events, pollFds>>
  \/ index[e] < 0 /\ ~Negative(mask) /\ Add(e, mask)
  \/ index[e] >= 0 /\ Negative(mask) /\ RemoveEvent(e)
  \/ index[e] >= 0 /\ ~Negative(mask) /\ Modify(e, mask)

\* Event::enableRead, enableWrite, disableRead and disableWrite.
Request(e) ==
  /\ Uses(e)
  /\ \E bit \in Requests : Enable(e, bit) \/ Disable(e, bit)
  /\ UpdateEvent(e, listened'[e])
  /\ UNCHANGED active

\* Event::cancel, also of an Event that is not registered.
Cancel(e) ==
  /\ Uses(e)
  /\ Forget(e)
  /\ RemoveEvent(e)
  /\ UNCHANGED active

\* poll and fillActiveEvents: ready are the entries with a revents above
\* zero.
Poll(ready) ==
  /\ ~shared
  /\ active' = {events[pollFds[i].fd] : i \in ready}
  /\ UNCHANGED <<listened, index, events, pollFds, asked, misused, shared>>

Next ==
  \/ \E e \in Events : Request(e) \/ Cancel(e)
  \/ \E ready \in SUBSET (1 .. Len(pollFds)) : Poll(ready)

Spec == Init /\ [][Next]_vars

-----------------------------------------------------------------------------
\* The types of the variables of the code.
StateTyped ==
  /\ PollerTyped
  /\ pollFds \in Seq([fd : Fds, events : SUBSET Bits])

\* The types of the variables; the positions and the entries have one as long
\* as no Event was used while its descriptor was registered for another.
TypeOK == HistoryTyped /\ (~shared => StateTyped)
=============================================================================
