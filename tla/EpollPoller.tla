---------------------------- MODULE EpollPoller ----------------------------
(***************************************************************************)
(* net/poller/EpollPoller.cpp.  The kernel keeps the interest set; the     *)
(* vector epollEvents_ serves two purposes at once: epoll_wait overwrites  *)
(* it from the front with what is ready, and every registered Event has a  *)
(* position in it, behind kInitEventListSize entries that belong to no     *)
(* Event.  The two uses collide once more descriptors are ready than the   *)
(* vector had entries at the start.                                        *)
(***************************************************************************)
EXTENDS Poller

CONSTANTS
  kInitEventListSize,   \* entries of epollEvents_ at the start, 16
  BadFds                \* descriptors that epoll_ctl refuses

ASSUME EpollAssumption ==
  /\ kInitEventListSize \in Nat
  /\ BadFds \subseteq Fds

VARIABLES
  epollEvents,      \* the data.fd of the entries of epollEvents_
  kernel,           \* per descriptor: the mask in the epoll set, {} if none
  peak,             \* history: most entries epoll_wait ever returned
  fault             \* a null Event pointer has been dereferenced

vars == <<pollerVars, epollEvents, kernel, peak, fault>>

\* data.fd of an entry that was never filled.
NoFd == Null

Init ==
  /\ PollerInit
  /\ epollEvents = [i \in 1 .. kInitEventListSize |-> NoFd]
  /\ kernel = [fd \in Fds |-> {}]
  /\ peak = 0
  /\ fault = FALSE

Front(s) == SubSeq(s, 1, Len(s) - 1)

Watched(fd) == kernel[fd] # {}

\* epollUpdate with EPOLL_CTL_ADD: the entry is made even if the kernel
\* refuses the descriptor or has it already.
EpollAdd(e, mask) ==
  /\ kernel' = IF FdOf[e] \in BadFds \/ Watched(FdOf[e]) THEN kernel
               ELSE [kernel EXCEPT ![FdOf[e]] = mask]
  /\ epollEvents' = Append(epollEvents, FdOf[e])
  /\ index' = [index EXCEPT ![e] = Len(epollEvents)]
  /\ events' = [events EXCEPT ![FdOf[e]] = e]
  /\ UNCHANGED fault

\* Mutant: a change of the mask is not passed on.
EpollModNothing(e, mask) == UNCHANGED <<kernel, epollEvents, index, events, fault>>

\* epollUpdate with EPOLL_CTL_MOD fails for a descriptor not in the set.
EpollMod(e, mask) ==
  /\ kernel' = IF Watched(FdOf[e]) THEN [kernel EXCEPT ![FdOf[e]] = mask]
               ELSE kernel
  /\ UNCHANGED <<epollEvents, index, events, fault>>

\* The descriptor leaves events_ and its entry leaves epollEvents_, whose entry
\* number last takes its place.  events_[lastFd] of a descriptor without an
\* Event inserts a null pointer and dereferences it.
TakeOut(e, last) ==
  LET i == index[e]
      erased == [events EXCEPT ![FdOf[e]] = Null]
      lastFd == epollEvents[Len(epollEvents)]
      moved == IF lastFd \in Fds THEN erased[lastFd] ELSE Null
      forget == [index EXCEPT ![e] = -1]
  IN /\ events' = erased
     /\ \/ /\ i \notin 0 .. last
           /\ index' = forget
           /\ UNCHANGED <<epollEvents, fault>>
        \/ /\ i = last /\ i >= 0
           /\ index' = forget
           /\ epollEvents' = Front(epollEvents)
           /\ UNCHANGED fault
        \/ /\ i \in 0 .. last - 1
           /\ epollEvents' = [Front(epollEvents) EXCEPT ![i + 1] = lastFd]
           /\ fault' = (moved = Null)
           /\ index' = IF moved = Null THEN forget ELSE [forget EXCEPT ![moved] = i]

EpollDel(e) == kernel' = [kernel EXCEPT ![FdOf[e]] = {}]

\* Mutant: the last entry is dropped instead of the Event's own.
RemovePopsLast(e) ==
  /\ EpollDel(e)
  /\ events' = [events EXCEPT ![FdOf[e]] = Null]
  /\ index' = [index EXCEPT ![e] = -1]
  /\ epollEvents' = IF index[e] \in 0 .. Len(epollEvents) - 1 THEN Front(epollEvents)
                    ELSE epollEvents
  /\ UNCHANGED fault

\* removeEvent: EPOLL_CTL_DEL, then the entry.
RemoveEvent(e) == EpollDel(e) /\ TakeOut(e, Len(epollEvents) - 1)

\* updateEvent after the Event's mask became mask.
UpdateEvent(e, mask) ==
  \/ /\ index[e] < 0 /\ Negative(mask)
     /\ UNCHANGED <<kernel, epollEvents, index, events, fault>>
  \/ index[e] < 0 /\ ~Negative(mask) /\ EpollAdd(e, mask)
  \/ index[e] >= 0 /\ Negative(mask) /\ RemoveEvent(e)
  \/ index[e] >= 0 /\ ~Negative(mask) /\ EpollMod(e, mask)

\* Event::enableRead, enableWrite, disableRead and disableWrite.
Request(e) ==
  /\ ~fault
  /\ Uses(e)
  /\ \E bit \in Requests : Enable(e, bit) \/ Disable(e, bit)
  /\ UpdateEvent(e, listened'[e])
  /\ UNCHANGED <<active, peak>>

\* Event::cancel, also of an Event that is not registered.
Cancel(e) ==
  /\ ~fault
  /\ Uses(e)
  /\ Forget(e)
  /\ RemoveEvent(e)
  /\ UNCHANGED <<active, peak>>

\* The answers of epoll_wait: at most as many different watched descriptors
\* as epollEvents_ has entries, in any order.
Answers ==
  {s \in UNION {[1 .. n -> {fd \in Fds : Watched(fd)}] : n \in 0 .. Len(epollEvents)} :
     \A i, j \in DOMAIN s : s[i] = s[j] => i = j}

\* poll and fillActiveEvents: epoll_wait stores the ready descriptors, in
\* any order and as many as fit, in the first entries of epollEvents_.
Poll(ready) ==
  LET n == Len(ready)
  IN /\ ~fault /\ ~shared
     /\ epollEvents' = ready \o SubSeq(epollEvents, n + 1, Len(epollEvents))
     /\ active' = {events[ready[i]] : i \in 1 .. n}
     /\ peak' = IF n > peak THEN n ELSE peak
     /\ UNCHANGED <<listened, index, events, kernel, fault, asked, misused, shared>>

Next ==
  \/ \E e \in Events : Request(e) \/ Cancel(e)
  \/ \E ready \in Answers : Poll(ready)

Spec == Init /\ [][Next]_vars

-----------------------------------------------------------------------------
\* The types of the variables of the code.
StateTyped ==
  /\ PollerTyped
  /\ epollEvents \in Seq(Fds \cup {NoFd})
  /\ kernel \in [Fds -> SUBSET Bits]
  /\ peak \in Nat
  /\ fault \in BOOLEAN

\* The types of the variables; the positions and the entries have one as long
\* as no Event was used while its descriptor was registered for another.
TypeOK == HistoryTyped /\ (~shared => StateTyped)

\* The epoll set is what the clients asked for with enable* and disable*, on
\* the descriptors the kernel accepts: for every Event exactly that, and
\* nothing that was not asked; the positions in epollEvents_, even when they
\* are wrong, never reach the kernel.  Two exceptions: an Event of which
\* something was disabled while nothing was enabled may get less than it asks
\* for, and one with a descriptor that epoll_ctl refuses gets nothing and is
\* not told, although it stays registered with the Looper.
KernelAsWanted ==
  ~shared =>
    /\ \A e \in Wanting : FdOf[e] \notin BadFds => kernel[FdOf[e]] = asked[e]
    /\ \A fd \in Fds : Watched(fd) => kernel[fd] \subseteq asked[events[fd]]

\* As long as epoll_wait has never returned more than kInitEventListSize
\* entries, every registered Event finds its own descriptor at its position
\* in epollEvents_, events_ knows it, and no removal has dereferenced a null
\* Event, unless an Event was used while its descriptor was registered for
\* another one.
IndexCoherent ==
  peak <= kInitEventListSize /\ ~shared =>
    /\ ~fault
    /\ \A e \in Registered :
         /\ index[e] \in kInitEventListSize .. Len(epollEvents) - 1
         /\ epollEvents[index[e] + 1] = FdOf[e]
         /\ events[FdOf[e]] = e
    /\ \A fd \in Fds : events[fd] # Null => events[fd] \in Registered

=============================================================================
