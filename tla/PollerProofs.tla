---------------------------- MODULE PollerProofs ----------------------------
(* Proofs about the two pollers, for any number of Events and descriptors. *)
(* EpollPoller: the epoll set is what the clients asked for, but for what  *)
(* the kernel refuses and the code loses; positions, map and vector agree  *)
(* as long as epoll_wait has not outgrown the entries the vector had at    *)
(* the start. PollPoller: they always agree. All this as long as no Event  *)
(* was used while its descriptor was registered for another one.           *)
EXTENDS EpollPoller, PollEntries, SequenceTheorems, TLAPS

\* What does not depend on the positions in epollEvents_.
KernelInv ==
  /\ StateTyped
  /\ \A e \in Events : index[e] >= 0 <=> ~Negative(listened[e])
  /\ \A e \in Events : listened[e] # {}
  /\ \A e \in Registered : events[FdOf[e]] = e
  /\ \A fd \in Fds : events[fd] # Null => events[fd] \in Registered /\ FdOf[events[fd]] = fd
  /\ \A fd \in Fds :
       kernel[fd] = IF events[fd] = Null \/ fd \in BadFds THEN {} ELSE listened[events[fd]]

\* The mask that enable* and disable* leave is never empty.
LEMMA RequestsWant ==
  ASSUME listened \in [Events -> SUBSET Bits], NEW e \in Events,
         \E bit \in Requests : Enable(e, bit) \/ Disable(e, bit)
  PROVE  /\ listened'[e] \in SUBSET Bits /\ listened'[e] # {}
         /\ listened' = [listened EXCEPT ![e] = listened'[e]]
<1>1. PICK bit \in Requests : Enable(e, bit) \/ Disable(e, bit)
  OBVIOUS
<1>2. \/ listened' = [listened EXCEPT ![e] = Enabled(listened[e], bit)]
      \/ listened' = [listened EXCEPT ![e] = Disabled(listened[e], bit)]
  BY <1>1 DEF Enable, Disable
<1>3. /\ Enabled(listened[e], bit) \in SUBSET Bits /\ Enabled(listened[e], bit) # {}
      /\ Disabled(listened[e], bit) \in SUBSET Bits /\ Disabled(listened[e], bit) # {}
  BY DEF Requests, Enabled, Disabled, kNoneEvent, Bits
<1> QED
  BY <1>2, <1>3

\* What the mask of an Event has to do with what its clients asked for: it is
\* kNoneEvent or exactly that, unless something was disabled while nothing was
\* enabled; and what a mask that is not negative holds was asked for.
Asking ==
  /\ HistoryTyped
  /\ listened \in [Events -> SUBSET Bits]
  /\ \A e \in Events \ misused :
       listened[e] = IF asked[e] = {} THEN kNoneEvent ELSE asked[e]
  /\ \A e \in Events : ~Negative(listened[e]) => listened[e] \subseteq asked[e]

\* What any use of an Event does to Asking, in either poller.
LEMMA AskingKept ==
  ASSUME Asking, shared' \in BOOLEAN, NEW e \in Events,
         \/ \E bit \in Requests : Enable(e, bit) \/ Disable(e, bit)
         \/ Forget(e)
  PROVE  Asking'
<1>1. \A x \in Events \ {e} : /\ listened'[x] = listened[x] /\ asked'[x] = asked[x]
                             /\ (x \in misused' <=> x \in misused)
  BY DEF Asking, HistoryTyped, Enable, Disable, Forget
<1>5. ASSUME listened' \in [Events -> SUBSET Bits], asked' \in [Events -> SUBSET Requests],
             misused' \subseteq Events,
             e \notin misused' => listened'[e] = IF asked'[e] = {} THEN kNoneEvent ELSE asked'[e],
             ~Negative(listened'[e]) => listened'[e] \subseteq asked'[e]
      PROVE  Asking'
  <2>1. ASSUME NEW x \in Events, x \notin misused'
        PROVE  listened'[x] = IF asked'[x] = {} THEN kNoneEvent ELSE asked'[x]
    <3>1. CASE x = e
      BY <1>5, <2>1, <3>1
    <3>2. CASE x # e
      <4>1. listened'[x] = listened[x] /\ asked'[x] = asked[x] /\ (x \in misused' <=> x \in misused)
        BY <1>1, <3>2
      <4> QED
        BY <2>1, <4>1 DEF Asking
    <3> QED
      BY <3>1, <3>2
  <2>2. ASSUME NEW x \in Events, ~Negative(listened'[x])
        PROVE  listened'[x] \subseteq asked'[x]
    <3>1. CASE x = e
      BY <1>5, <2>2, <3>1
    <3>2. CASE x # e
      <4>1. listened'[x] = listened[x] /\ asked'[x] = asked[x] /\ (x \in misused' <=> x \in misused)
        BY <1>1, <3>2
      <4> QED
        BY <2>2, <4>1 DEF Asking
    <3> QED
      BY <3>1, <3>2
  <2> QED
    BY <1>5, <2>1, <2>2 DEF Asking, HistoryTyped
<1>2. ASSUME NEW bit \in Requests, Enable(e, bit)  PROVE Asking'
  <2>1. /\ listened' \in [Events -> SUBSET Bits]
        /\ listened'[e] = Enabled(listened[e], bit)
        /\ asked' \in [Events -> SUBSET Requests]
        /\ asked'[e] = asked[e] \cup {bit} /\ misused' = misused
    BY <1>2 DEF Enable, Asking, HistoryTyped, Enabled, Bits, Requests, kNoneEvent
  <2>2. e \notin misused => listened'[e] = asked'[e] /\ asked'[e] # {}
    BY <2>1 DEF Asking, HistoryTyped, Enabled, Bits, Requests, kNoneEvent
  <2>3. ~Negative(listened'[e]) => listened'[e] \subseteq asked'[e]
    BY <2>1 DEF Asking, HistoryTyped, Enabled, Bits, Requests, kNoneEvent, Negative
  <2> QED
    BY <1>5, <2>1, <2>2, <2>3 DEF Asking, HistoryTyped
<1>3. ASSUME NEW bit \in Requests, Disable(e, bit)  PROVE Asking'
  <2>1. /\ listened' \in [Events -> SUBSET Bits]
        /\ listened'[e] = Disabled(listened[e], bit)
        /\ asked' \in [Events -> SUBSET Requests]
        /\ asked'[e] = asked[e] \ {bit} /\ misused' \subseteq Events
        /\ e \notin misused' => e \notin misused /\ asked[e] # {}
    BY <1>3 DEF Disable, Asking, HistoryTyped, Disabled, Bits, Requests, kNoneEvent
  <2>2. e \notin misused' =>
          listened'[e] = IF asked'[e] = {} THEN kNoneEvent ELSE asked'[e]
    BY <2>1 DEF Asking, Disabled
  <2>3. ~Negative(listened'[e]) => listened'[e] \subseteq asked'[e]
    BY <2>1 DEF Asking, Disabled, Bits, Requests, kNoneEvent, Negative
  <2> QED
    BY <1>5, <2>1, <2>2, <2>3
<1>4. ASSUME Forget(e)  PROVE Asking'
  <2>1. /\ listened' \in [Events -> SUBSET Bits] /\ listened'[e] = kNoneEvent
        /\ asked' \in [Events -> SUBSET Requests] /\ asked'[e] = {}
        /\ misused' \subseteq Events
    BY <1>4 DEF Forget, Asking, HistoryTyped, kNoneEvent
  <2>2. Negative(kNoneEvent)
    BY DEF Negative, kNoneEvent, Bits
  <2> QED
    BY <1>5, <2>1, <2>2
<1> QED
  BY <1>2, <1>3, <1>4

\* Asking holds of every state, shared or not.
LEMMA AskingHolds == Spec => []Asking
<1>1. Init => Asking
  <2>1. kNoneEvent \in SUBSET Bits /\ Negative(kNoneEvent)
    BY DEF kNoneEvent, Negative, Bits
  <2> QED
    BY <2>1 DEF Init, PollerInit, Asking, HistoryTyped
<1>2. Asking /\ [Next]_vars => Asking'
  <2> SUFFICES ASSUME Asking, [Next]_vars  PROVE Asking'
    OBVIOUS
  <2>1. ASSUME NEW e \in Events, Request(e) \/ Cancel(e)  PROVE Asking'
    BY <2>1, AskingKept DEF Request, Cancel, Uses
  <2>2. ASSUME UNCHANGED <<listened, asked, misused, shared>>  PROVE Asking'
    BY <2>2 DEF Asking, HistoryTyped
  <2> QED
    BY <2>1, <2>2 DEF Next, Poll, vars, pollerVars
<1> QED
  BY <1>1, <1>2, PTL DEF Spec

\* An Event whose descriptor it owns is the only one of the map.
LEMMA OwnsFd ==
  ASSUME PollerAssumption, KernelInv, NEW e \in Events, Owns(e)
  PROVE  /\ FdOf[e] \in Fds /\ events[FdOf[e]] \in {e, Null}
         /\ \A x \in Registered \ {e} : FdOf[x] # FdOf[e]
BY DEF PollerAssumption, KernelInv, Owns, Registered, StateTyped, PollerTyped

\* epoll_ctl ADD of a new Event keeps KernelInv.
LEMMA AddKeeps ==
  ASSUME PollerAssumption, KernelInv, NEW e \in Events, NEW mask \in SUBSET Bits,
         mask # {}, ~Negative(mask), index[e] < 0, Owns(e), EpollAdd(e, mask),
         listened' = [listened EXCEPT ![e] = mask], UNCHANGED <<active, peak>>
  PROVE  KernelInv'
<1> USE PollerAssumption
<1>1. /\ FdOf[e] \in Fds /\ events[FdOf[e]] = Null /\ ~Watched(FdOf[e]) /\ e # Null
  <2>1. FdOf[e] \in Fds /\ events[FdOf[e]] \in {e, Null} /\ e # Null
    BY OwnsFd DEF PollerAssumption
  <2>2. events[FdOf[e]] = Null
    BY <2>1 DEF KernelInv, Registered, StateTyped, PollerTyped
  <2> QED
    BY <2>1, <2>2 DEF KernelInv, Watched
<1>2. epollEvents' \in Seq(Fds \cup {NoFd}) /\ Len(epollEvents) \in Nat
  BY <1>1 DEF KernelInv, StateTyped, EpollAdd
<1>3. StateTyped'
  BY <1>1, <1>2 DEF KernelInv, StateTyped, PollerTyped, EpollAdd
<1>4. /\ index'[e] = Len(epollEvents) /\ \A x \in Events \ {e} : index'[x] = index[x]
      /\ listened'[e] = mask /\ \A x \in Events \ {e} : listened'[x] = listened[x]
      /\ events'[FdOf[e]] = e /\ \A fd \in Fds \ {FdOf[e]} : events'[fd] = events[fd]
  BY <1>1 DEF KernelInv, StateTyped, PollerTyped, EpollAdd
<1>5. Registered' = Registered \cup {e}
  BY <1>2, <1>4 DEF Registered
<1>6. \A fd \in Fds :
        kernel'[fd] = IF events'[fd] = Null \/ fd \in BadFds THEN {} ELSE listened'[events'[fd]]
  <2> SUFFICES ASSUME NEW fd \in Fds
               PROVE  kernel'[fd] = IF events'[fd] = Null \/ fd \in BadFds THEN {}
                                    ELSE listened'[events'[fd]]
    OBVIOUS
  <2>1. CASE fd = FdOf[e]
    <3>1. kernel[fd] = {} /\ events'[fd] = e /\ e # Null /\ listened'[e] = mask
      BY <1>1, <1>4, <2>1 DEF Watched
    <3>2. kernel \in [Fds -> SUBSET Bits]
      BY DEF KernelInv, StateTyped
    <3>3. CASE fd \in BadFds
      <4>1. kernel' = kernel
        BY <2>1, <3>3 DEF EpollAdd
      <4> QED
        BY <3>1, <3>3, <4>1
    <3>4. CASE fd \notin BadFds
      <4>1. kernel' = [kernel EXCEPT ![fd] = mask]
        BY <1>1, <2>1, <3>4 DEF EpollAdd
      <4>2. kernel'[fd] = mask
        BY <3>2, <4>1
      <4> QED
        BY <3>1, <3>4, <4>2
    <3> QED
      BY <3>3, <3>4
  <2>2. CASE fd # FdOf[e]
    <3>1. kernel'[fd] = kernel[fd] /\ events'[fd] = events[fd] /\ events[fd] # e
      BY <1>1, <1>4, <2>2 DEF EpollAdd, KernelInv, StateTyped
    <3> QED
      BY <1>4, <3>1 DEF KernelInv, Registered
  <2> QED
    BY <2>1, <2>2
<1>7. \A x \in Registered' : events'[FdOf[x]] = x
  BY <1>1, <1>4, <1>5, OwnsFd DEF KernelInv, Registered, PollerAssumption
<1>8. \A fd \in Fds : events'[fd] # Null => events'[fd] \in Registered' /\ FdOf[events'[fd]] = fd
  BY <1>1, <1>4, <1>5 DEF KernelInv
<1> QED
  BY <1>2, <1>3, <1>4, <1>6, <1>7, <1>8 DEF KernelInv

\* What a removal does to the descriptor, the map and the other Events.
LEMMA RemoveKeeps ==
  ASSUME PollerAssumption, KernelInv, NEW e \in Events, NEW mask \in SUBSET Bits,
         mask # {}, Negative(mask), Owns(e), RemoveEvent(e),
         listened' = [listened EXCEPT ![e] = mask], UNCHANGED <<active, peak>>
  PROVE  KernelInv'
<1> USE PollerAssumption
<1> DEFINE i == index[e]
           erased == [events EXCEPT ![FdOf[e]] = Null]
           lastFd == epollEvents[Len(epollEvents)]
           moved == IF lastFd \in Fds THEN erased[lastFd] ELSE Null
           forget == [index EXCEPT ![e] = -1]
<1>1. /\ FdOf[e] \in Fds /\ events[FdOf[e]] \in {e, Null}
      /\ \A x \in Registered \ {e} : FdOf[x] # FdOf[e]
  BY OwnsFd
<1>2. /\ events' = erased /\ erased \in [Fds -> Events \cup {Null}]
      /\ erased[FdOf[e]] = Null /\ \A fd \in Fds \ {FdOf[e]} : erased[fd] = events[fd]
  BY <1>1 DEF RemoveEvent, TakeOut, KernelInv, StateTyped, PollerTyped
<1>3. moved # Null => moved \in Registered /\ moved # e
  <2> SUFFICES ASSUME moved # Null  PROVE moved \in Registered /\ moved # e
    OBVIOUS
  <2>1. lastFd \in Fds /\ moved = erased[lastFd] /\ lastFd # FdOf[e] /\ moved = events[lastFd]
    BY <1>2
  <2> QED
    BY <2>1 DEF KernelInv
<1>4. /\ epollEvents \in Seq(Fds \cup {NoFd}) /\ Len(epollEvents) \in Nat
      /\ index \in [Events -> {-1} \cup Nat]
      /\ forget \in [Events -> {-1} \cup Nat] /\ forget[e] = -1
      /\ \A x \in Events \ {e} : forget[x] = index[x]
  BY DEF KernelInv, StateTyped, PollerTyped
<1>5. /\ index' \in [Events -> {-1} \cup Nat] /\ index'[e] = -1
      /\ \A x \in Events \ {e} : index'[x] >= 0 <=> index[x] >= 0
      /\ epollEvents' \in Seq(Fds \cup {NoFd})
      /\ fault' \in BOOLEAN
  <2>1. CASE i \notin 0 .. Len(epollEvents) - 1 /\ index' = forget
             /\ UNCHANGED <<epollEvents, fault>>
    BY <1>4, <2>1 DEF KernelInv, StateTyped
  <2>2. CASE i = Len(epollEvents) - 1 /\ i >= 0 /\ index' = forget
             /\ epollEvents' = Front(epollEvents) /\ UNCHANGED fault
    BY <1>4, <2>2 DEF Front, KernelInv, StateTyped
  <2>3. CASE /\ i \in 0 .. Len(epollEvents) - 2
             /\ epollEvents' = [Front(epollEvents) EXCEPT ![i + 1] = lastFd]
             /\ fault' = (moved = Null)
             /\ index' = IF moved = Null THEN forget ELSE [forget EXCEPT ![moved] = i]
    <3>1. epollEvents' \in Seq(Fds \cup {NoFd})
      <4>1. /\ Front(epollEvents) \in Seq(Fds \cup {NoFd}) /\ lastFd \in Fds \cup {NoFd}
            /\ Len(Front(epollEvents)) = Len(epollEvents) - 1
        BY <1>4, <2>3 DEF Front
      <4> HIDE DEF lastFd, i, moved
      <4> QED
        BY <2>3, <4>1
    <3>2. i \in Nat
      BY <2>3
    <3> HIDE DEF moved, forget, i
    <3> QED
      BY <1>3, <1>4, <2>3, <3>1, <3>2 DEF Registered
  <2> QED
    BY <2>1, <2>2, <2>3, <1>4 DEF RemoveEvent, TakeOut
<1>6. /\ listened'[e] = mask /\ \A x \in Events \ {e} : listened'[x] = listened[x]
      /\ kernel'[FdOf[e]] = {} /\ \A fd \in Fds \ {FdOf[e]} : kernel'[fd] = kernel[fd]
      /\ kernel' \in [Fds -> SUBSET Bits] /\ listened' \in [Events -> SUBSET Bits]
  BY <1>1 DEF RemoveEvent, EpollDel, KernelInv, StateTyped, PollerTyped
<1> HIDE DEF erased, i, lastFd, moved, forget
<1>7. StateTyped'
  BY <1>2, <1>5, <1>6 DEF KernelInv, StateTyped, PollerTyped
<1>8. Registered' = Registered \ {e}
  BY <1>4, <1>5 DEF Registered
<1>9. \A fd \in Fds : events'[fd] # Null =>
        /\ fd # FdOf[e] /\ events'[fd] = events[fd]
        /\ events'[fd] \in Registered' /\ FdOf[events'[fd]] = fd
  BY <1>2, <1>8 DEF KernelInv
<1>10. \A x \in Registered' : events'[FdOf[x]] = x
  BY <1>1, <1>2, <1>8 DEF KernelInv, PollerAssumption, Registered
<1>11. \A fd \in Fds :
        kernel'[fd] = IF events'[fd] = Null \/ fd \in BadFds THEN {} ELSE listened'[events'[fd]]
  BY <1>2, <1>6, <1>8, <1>9 DEF KernelInv, Registered
<1>12. \A x \in Events : index'[x] >= 0 <=> ~Negative(listened'[x])
  BY <1>5, <1>6 DEF KernelInv
<1> QED
  BY <1>6, <1>7, <1>9, <1>10, <1>11, <1>12 DEF KernelInv

\* KernelInv is inductive.
LEMMA KernelInvHolds == Spec => [](~shared => KernelInv)
<1> USE PollerAssumption, EpollAssumption
<1>1. Init => KernelInv
  <2> SUFFICES ASSUME Init  PROVE KernelInv
    OBVIOUS
  <2>1. StateTyped
    <3>1. epollEvents \in Seq(Fds \cup {NoFd})
      BY IsASeq DEF Init, EpollAssumption
    <3>2. kernel \in [Fds -> SUBSET Bits]
      BY DEF Init
    <3>3. PollerTyped
      BY DEF Init, PollerInit, PollerTyped, kNoneEvent
    <3> QED
      BY <3>1, <3>2, <3>3 DEF Init, StateTyped
  <2>2. /\ \A e \in Events : index[e] = -1 /\ Negative(listened[e]) /\ listened[e] # {}
        /\ \A fd \in Fds : events[fd] = Null /\ kernel[fd] = {}
    BY DEF Init, PollerInit, Negative, kNoneEvent, Bits
  <2>3. Registered = {}
    BY <2>2 DEF Registered
  <2>4. \A e \in Events : index[e] >= 0 <=> ~Negative(listened[e])
    BY <2>2
  <2> QED
    BY <2>1, <2>2, <2>3, <2>4 DEF KernelInv
<1>2. (~shared => KernelInv) /\ [Next]_vars => (~shared => KernelInv)'
  <2> SUFFICES ASSUME ~shared => KernelInv, [Next]_vars, ~shared'  PROVE KernelInv'
    OBVIOUS
  <2>0. KernelInv
    BY DEF Next, Request, Cancel, Uses, Poll, vars, pollerVars
  <2>1. ASSUME NEW e \in Events, Request(e)
        PROVE  KernelInv'
    <3> DEFINE mask == listened'[e]
    <3>0. mask \in SUBSET Bits /\ mask # {} /\ listened' = [listened EXCEPT ![e] = mask]
      BY <2>0, <2>1, RequestsWant DEF Request, KernelInv, StateTyped, PollerTyped
    <3>1. Owns(e) /\ UpdateEvent(e, mask) /\ UNCHANGED <<active, peak>>
      BY <2>1 DEF Request, Uses
    <3> HIDE DEF mask
    <3>2. CASE index[e] < 0 /\ Negative(mask)
               /\ UNCHANGED <<kernel, epollEvents, index, events, fault>>
      <4>1. StateTyped' /\ Registered' = Registered /\ e \notin Registered
        BY <2>0, <3>0, <3>1, <3>2 DEF KernelInv, StateTyped, PollerTyped, Registered
      <4>2. \A x \in Registered : listened'[x] = listened[x]
        BY <2>0, <3>0, <4>1 DEF KernelInv, StateTyped, PollerTyped, Registered
      <4>3. \A x \in Events : (index'[x] >= 0 <=> ~Negative(listened'[x])) /\ listened'[x] # {}
        BY <2>0, <3>0, <3>1, <3>2 DEF KernelInv, StateTyped, PollerTyped
      <4> QED
        BY <2>0, <3>2, <4>1, <4>2, <4>3 DEF KernelInv
    <3>3. CASE index[e] < 0 /\ ~Negative(mask) /\ EpollAdd(e, mask)
      BY <2>0, <3>0, <3>1, <3>3, AddKeeps
    <3>4. CASE index[e] >= 0 /\ Negative(mask) /\ RemoveEvent(e)
      BY <2>0, <3>0, <3>1, <3>4, RemoveKeeps
    <3>5. CASE index[e] >= 0 /\ ~Negative(mask) /\ EpollMod(e, mask)
      <4>1. events[FdOf[e]] = e /\ FdOf[e] \in Fds /\ e # Null /\ listened[e] # {}
        BY <2>0, <3>5 DEF KernelInv, Registered, PollerAssumption
      <4>2. Watched(FdOf[e]) <=> FdOf[e] \notin BadFds
        BY <2>0, <4>1 DEF Watched, KernelInv
      <4>3. StateTyped' /\ Registered' = Registered
        <5>1. kernel' \in [Fds -> SUBSET Bits] /\ listened' \in [Events -> SUBSET Bits]
          BY <2>0, <3>0, <3>5, <4>1 DEF EpollMod, KernelInv, StateTyped, PollerTyped
        <5> QED
          BY <2>0, <3>1, <3>5, <5>1 DEF EpollMod, KernelInv, StateTyped, PollerTyped, Registered
      <4>4. listened'[e] = mask /\ \A x \in Events \ {e} : listened'[x] = listened[x]
        BY <2>0, <3>0 DEF KernelInv, StateTyped, PollerTyped
      <4>5. ASSUME NEW fd \in Fds
            PROVE  kernel'[fd] = IF events'[fd] = Null \/ fd \in BadFds THEN {}
                                 ELSE listened'[events'[fd]]
        <5>1. CASE fd = FdOf[e]
          BY <2>0, <3>5, <4>1, <4>2, <4>4, <5>1 DEF EpollMod, KernelInv, StateTyped
        <5>2. CASE fd # FdOf[e]
          <6>1. kernel'[fd] = kernel[fd] /\ events' = events /\ events[fd] # e
            BY <2>0, <3>5, <4>1, <5>2 DEF EpollMod, KernelInv, StateTyped
          <6> QED
            BY <2>0, <4>4, <6>1 DEF KernelInv, Registered
        <5> QED
          BY <5>1, <5>2
      <4> QED
        BY <2>0, <3>0, <3>5, <4>3, <4>4, <4>5 DEF EpollMod, KernelInv
    <3> QED
      BY <3>1, <3>2, <3>3, <3>4, <3>5 DEF UpdateEvent
  <2>2. ASSUME NEW e \in Events, Cancel(e)  PROVE KernelInv'
    <3>1. kNoneEvent \in SUBSET Bits /\ Negative(kNoneEvent) /\ kNoneEvent # {}
      BY DEF kNoneEvent, Negative, Bits
    <3> QED
      BY <2>0, <2>2, <3>1, RemoveKeeps DEF Cancel, Forget, Uses
  <2>3. ASSUME NEW ready \in Answers, Poll(ready)  PROVE KernelInv'
    <3>1. PICK n \in 0 .. Len(epollEvents) : ready \in [1 .. n -> Fds]
      BY DEF Answers
    <3>2. /\ epollEvents \in Seq(Fds \cup {NoFd}) /\ Len(epollEvents) \in Nat /\ n \in Nat
          /\ ready \in Seq(Fds \cup {NoFd}) /\ Len(ready) = n /\ DOMAIN ready = 1 .. n
      BY <2>0, <3>1 DEF KernelInv, StateTyped
    <3>3. epollEvents' \in Seq(Fds \cup {NoFd})
      <4>1. SubSeq(epollEvents, n + 1, Len(epollEvents)) \in Seq(Fds \cup {NoFd})
        BY <3>1, <3>2
      <4> QED
        BY <2>3, <3>2, <4>1 DEF Poll
    <3>4. active' \subseteq Events \cup {Null} /\ peak' \in Nat
      BY <2>0, <2>3, <3>1, <3>2 DEF Poll, KernelInv, StateTyped, PollerTyped
    <3>5. StateTyped'
      BY <2>0, <2>3, <3>3, <3>4 DEF Poll, KernelInv, StateTyped, PollerTyped
    <3> QED
      BY <2>0, <2>3, <3>5 DEF Poll, KernelInv, Registered
  <2>4. CASE UNCHANGED vars
    BY <2>0, <2>4 DEF vars, pollerVars, KernelInv, StateTyped, PollerTyped, Registered
  <2> QED
    BY <2>1, <2>2, <2>3, <2>4 DEF Next
<1> QED
  BY <1>1, <1>2, PTL DEF Spec

\* The kernel watches what the clients asked for with enable* and disable*,
\* on every descriptor it accepts, whatever happened to the positions in
\* epollEvents_ (updateEvent, removeEvent, epollUpdate); of an Event of which
\* something was disabled while nothing was enabled, at most that.
THEOREM KernelIsAsWanted == Spec => []KernelAsWanted
<1> USE PollerAssumption, EpollAssumption
<1>1. Asking /\ (~shared => KernelInv) => KernelAsWanted
  <2> SUFFICES ASSUME Asking, KernelInv, ~shared  PROVE KernelAsWanted
    BY DEF KernelAsWanted
  <2>1. ASSUME NEW fd \in Fds, Watched(fd)
        PROVE  kernel[fd] \subseteq asked[events[fd]]
    <3>1. events[fd] # Null /\ fd \notin BadFds /\ kernel[fd] = listened[events[fd]]
      BY <2>1 DEF Watched, KernelInv
    <3>2. events[fd] \in Events /\ index[events[fd]] >= 0
      BY <3>1 DEF KernelInv, Registered
    <3> QED
      BY <3>1, <3>2 DEF KernelInv, Asking
  <2>2. ASSUME NEW e \in Wanting, FdOf[e] \notin BadFds
        PROVE  kernel[FdOf[e]] = asked[e]
    <3>1. e \in Events /\ listened[e] = asked[e] /\ ~Negative(listened[e])
      BY <2>2 DEF Wanting, Asking, HistoryTyped, Requests, Negative
    <3>2. FdOf[e] \in Fds /\ events[FdOf[e]] = e /\ e # Null
      BY <3>1 DEF KernelInv, Registered, PollerAssumption
    <3> QED
      BY <2>2, <3>1, <3>2 DEF KernelInv
  <2> QED
    BY <2>1, <2>2 DEF KernelAsWanted
<1> QED
  BY <1>1, AskingHolds, KernelInvHolds, PTL

\* The types of EpollPoller's variables (EpollPoller.h, Poller.h).
THEOREM EpollPollerTyped == Spec => []TypeOK
<1>1. Asking /\ (~shared => KernelInv) => TypeOK
  BY DEF Asking, KernelInv, TypeOK
<1> QED
  BY <1>1, AskingHolds, KernelInvHolds, PTL
-----------------------------------------------------------------------------
K == kInitEventListSize

\* While epoll_wait has returned K entries at most, the entries behind the
\* first K are one for every registered Event.
Placed ==
  /\ ~fault /\ K <= Len(epollEvents)
  /\ \A e \in Registered :
       index[e] \in K .. Len(epollEvents) - 1 /\ epollEvents[index[e] + 1] = FdOf[e]
  /\ \A i \in K + 1 .. Len(epollEvents) : \E e \in Registered : index[e] = i - 1

\* Adding an Event puts it last.
LEMMA AddPlaces ==
  ASSUME PollerAssumption, EpollAssumption, KernelInv, Placed, NEW e \in Events,
         NEW mask \in SUBSET Bits, index[e] < 0, EpollAdd(e, mask)
  PROVE  Placed'
<1> USE PollerAssumption, EpollAssumption
<1> DEFINE n == Len(epollEvents)
<1>1. /\ epollEvents' \in Seq(Fds \cup {NoFd}) /\ n \in Nat /\ Len(epollEvents') = n + 1
      /\ epollEvents'[n + 1] = FdOf[e] /\ \A i \in 1 .. n : epollEvents'[i] = epollEvents[i]
  <2>1. /\ epollEvents \in Seq(Fds \cup {NoFd}) /\ FdOf[e] \in Fds \cup {NoFd}
        /\ epollEvents' = Append(epollEvents, FdOf[e])
    BY DEF KernelInv, StateTyped, EpollAdd, PollerAssumption
  <2> DEFINE S == Fds \cup {NoFd}
  <2>2. epollEvents \in Seq(S) /\ FdOf[e] \in S
    BY <2>1
  <2> HIDE DEF S
  <2>3. /\ epollEvents' \in Seq(S) /\ Len(epollEvents') = n + 1
        /\ epollEvents'[n + 1] = FdOf[e] /\ \A i \in 1 .. n : epollEvents'[i] = epollEvents[i]
    BY <2>1, <2>2, AppendProperties
  <2>4. n \in Nat
    BY <2>2, LenProperties
  <2> QED
    BY <2>3, <2>4 DEF S
<1>2. index'[e] = n /\ \A x \in Events \ {e} : index'[x] = index[x]
  BY DEF KernelInv, StateTyped, PollerTyped, EpollAdd
<1>3. Registered' = Registered \cup {e} /\ e \notin Registered
  <2>1. n >= 0 /\ ~(index[e] >= 0)
    BY <1>1 DEF KernelInv, StateTyped, PollerTyped
  <2> HIDE DEF n
  <2> QED
    BY <1>2, <2>1 DEF Registered
<1>4. ~fault' /\ K \in Nat /\ K <= n
  BY DEF EpollAdd, Placed, K, EpollAssumption
<1> HIDE DEF n
<1>5. \A x \in Registered' :
        index'[x] \in K .. n /\ epollEvents'[index'[x] + 1] = FdOf[x]
  <2> SUFFICES ASSUME NEW x \in Registered'
               PROVE  index'[x] \in K .. n /\ epollEvents'[index'[x] + 1] = FdOf[x]
    OBVIOUS
  <2>1. CASE x = e
    BY <1>1, <1>2, <1>4, <2>1
  <2>2. CASE x # e
    <3>1. x \in Registered /\ x \in Events \ {e}
      BY <1>3, <2>2 DEF Registered
    <3>2. index[x] \in K .. n - 1 /\ epollEvents[index[x] + 1] = FdOf[x]
      BY <3>1 DEF Placed, n
    <3>3. index[x] \in K .. n /\ index[x] + 1 \in 1 .. n
      BY <1>1, <1>4, <3>2
    <3> QED
      BY <1>1, <1>2, <3>1, <3>2, <3>3
  <2> QED
    BY <2>1, <2>2
<1>6. \A i \in K + 1 .. n + 1 : \E x \in Registered' : index'[x] = i - 1
  <2> SUFFICES ASSUME NEW i \in K + 1 .. n + 1
               PROVE  \E x \in Registered' : index'[x] = i - 1
    OBVIOUS
  <2>1. CASE i = n + 1
    BY <1>1, <1>2, <1>3, <2>1
  <2>2. CASE i # n + 1
    <3>1. i \in K + 1 .. n
      BY <1>1, <1>4, <2>2
    <3>2. PICK x \in Registered : index[x] = i - 1
      BY <3>1 DEF Placed, n
    <3> QED
      BY <1>2, <1>3, <3>2 DEF Registered
  <2> QED
    BY <2>1, <2>2
<1>7. Len(epollEvents') - 1 = n /\ K <= Len(epollEvents') /\ K' = K
  BY <1>1, <1>4 DEF K
<1> QED
  BY <1>1, <1>4, <1>5, <1>6, <1>7 DEF Placed

\* A removal leaves one entry for each of the other Events.
LEMMA RemovePlaces ==
  ASSUME PollerAssumption, EpollAssumption, KernelInv, Placed, NEW e \in Events,
         Owns(e), RemoveEvent(e)
  PROVE  Placed'
<1> USE PollerAssumption, EpollAssumption
<1> DEFINE n == Len(epollEvents)
           i == index[e]
           last == epollEvents[n]
           erased == [events EXCEPT ![FdOf[e]] = Null]
           moved == IF last \in Fds THEN erased[last] ELSE Null
           forget == [index EXCEPT ![e] = -1]
<1>1. /\ epollEvents \in Seq(Fds \cup {NoFd}) /\ n \in Nat /\ K \in Nat /\ K <= n
      /\ ~fault /\ i \in {-1} \cup Nat
      /\ index \in [Events -> {-1} \cup Nat]
      /\ forget[e] = -1 /\ \A x \in Events \ {e} : forget[x] = index[x]
      /\ forget \in [Events -> {-1} \cup Nat]
  BY DEF KernelInv, StateTyped, PollerTyped, Placed, K, EpollAssumption
<1>2. \A x \in Registered : /\ index[x] \in K .. n - 1 /\ epollEvents[index[x] + 1] = FdOf[x]
                            /\ x \in Events
  BY DEF Placed, Registered
<1>3. \A x \in Registered \ {e} : FdOf[x] # FdOf[e]
  BY OwnsFd
\* What the two cases of a registered Event have in common.
<1>4. ASSUME NEW q, q = epollEvents', q \in Seq(Fds \cup {NoFd}), Len(q) \in Nat, K <= Len(q),
             ~fault', index' \in [Events -> {-1} \cup Nat], index'[e] = -1,
             \A x \in Registered \ {e} :
               index'[x] \in K .. Len(q) - 1 /\ q[index'[x] + 1] = FdOf[x],
             \A x \in Events \ Registered : index'[x] = -1,
             \A j \in K + 1 .. Len(q) : \E x \in Registered \ {e} : index'[x] = j - 1
      PROVE  Placed'
  <2>1. Registered' = Registered \ {e}
    BY <1>1, <1>4 DEF Registered
  <2> QED
    BY <1>4, <2>1 DEF Placed
<1>5. \A x \in Events \ Registered : index[x] = -1
  BY <1>1 DEF Registered
<1> HIDE DEF n
<1>6. CASE i = -1
  <2>1. index' = forget /\ UNCHANGED <<epollEvents, fault>>
    BY <1>1, <1>6 DEF RemoveEvent, TakeOut
  <2>2. e \notin Registered
    BY <1>6 DEF Registered
  <2>3. Registered' = Registered
    BY <1>1, <2>1, <2>2 DEF Registered
  <2> QED
    BY <1>1, <2>1, <2>2, <2>3 DEF Placed, Registered
<1>7. CASE i # -1
  <2>1. e \in Registered /\ i \in K .. n - 1 /\ epollEvents[i + 1] = FdOf[e]
    BY <1>1, <1>2, <1>7 DEF Registered
  <2>2. \A x \in Registered \ {e} : index[x] # i
    BY <1>2, <1>3, <2>1
  <2>3. /\ Front(epollEvents) \in Seq(Fds \cup {NoFd}) /\ Len(Front(epollEvents)) = n - 1
        /\ \A j \in 1 .. n - 1 : Front(epollEvents)[j] = epollEvents[j]
        /\ n - 1 \in Nat
    <3> DEFINE S == Fds \cup {NoFd}
    <3>0. n - 1 \in Int /\ 1 \in Int /\ n - 1 \in Nat
      BY <1>1, <2>1
    <3>1. \A j \in 1 .. n - 1 : epollEvents[j] \in S
      BY <1>1 DEF n
    <3>2. Front(epollEvents) = SubSeq(epollEvents, 1, n - 1)
      BY DEF Front, n
    <3> HIDE DEF S
    <3>3. /\ SubSeq(epollEvents, 1, n - 1) \in Seq(S)
          /\ Len(SubSeq(epollEvents, 1, n - 1)) = n - 1
          /\ \A j \in 1 .. n - 1 : SubSeq(epollEvents, 1, n - 1)[j] = epollEvents[j]
      BY <3>0, <3>1, SubSeqProperties
    <3> QED
      BY <3>0, <3>2, <3>3 DEF S
  <2>4. CASE i = n - 1
    <3>1. index' = forget /\ epollEvents' = Front(epollEvents) /\ UNCHANGED fault
      BY <1>1, <2>1, <2>4 DEF RemoveEvent, TakeOut, n
    <3>2. \A x \in Registered \ {e} : index[x] \in K .. n - 2
      BY <1>1, <1>2, <2>2, <2>4
    <3>3. ASSUME NEW j \in K + 1 .. n - 1
          PROVE  \E x \in Registered \ {e} : index'[x] = j - 1
      <4>1. PICK x \in Registered : index[x] = j - 1
        BY <1>1 DEF Placed, n
      <4> QED
        BY <1>1, <2>1, <2>4, <3>1, <4>1 DEF Registered
    <3>4. \A x \in Registered \ {e} :
            index'[x] \in K .. n - 2 /\ epollEvents'[index'[x] + 1] = FdOf[x]
      BY <1>1, <1>2, <2>3, <3>1, <3>2
    <3>5. K <= n - 1
      BY <2>1, <1>1
    <3>6. /\ index' \in [Events -> {-1} \cup Nat] /\ index'[e] = -1 /\ ~fault'
          /\ \A x \in Events \ Registered : index'[x] = -1
      <4>1. \A x \in Events \ Registered : x # e
        BY <2>1
      <4> HIDE DEF forget
      <4> QED
        BY <1>1, <1>5, <3>1, <4>1
    <3>7. PICK q : q = epollEvents'
      OBVIOUS
    <3>8. Len(q) = n - 1 /\ Len(q) - 1 = n - 2 /\ Len(q) \in Nat /\ q \in Seq(Fds \cup {NoFd})
      BY <1>1, <2>3, <3>1, <3>7
    <3> HIDE DEF forget, i, last, moved, erased
    <3>9. /\ K <= Len(q)
          /\ \A x \in Registered \ {e} :
               index'[x] \in K .. Len(q) - 1 /\ q[index'[x] + 1] = FdOf[x]
          /\ \A j \in K + 1 .. Len(q) : \E x \in Registered \ {e} : index'[x] = j - 1
      BY <3>3, <3>4, <3>5, <3>7, <3>8
    <3> QED
      BY <1>4, <3>6, <3>7, <3>8, <3>9
  <2>5. CASE i \in 0 .. n - 2
    <3>1. PICK m \in Registered : index[m] = n - 1
      BY <1>1, <2>1, <2>5 DEF Placed, n
    <3>2. /\ m # e /\ last = FdOf[m] /\ last \in Fds /\ last # FdOf[e]
      BY <1>1, <1>2, <1>3, <2>1, <2>5, <3>1 DEF Registered, PollerAssumption
    <3>3. moved = m /\ m # Null
      BY <3>1, <3>2 DEF KernelInv, StateTyped, PollerTyped, PollerAssumption, Registered
    <3>4. /\ epollEvents' = [Front(epollEvents) EXCEPT ![i + 1] = last]
          /\ fault' = FALSE /\ index' = [forget EXCEPT ![m] = i]
      <4>1. /\ epollEvents' = [Front(epollEvents) EXCEPT ![i + 1] = last]
            /\ fault' = (moved = Null)
            /\ index' = IF moved = Null THEN forget ELSE [forget EXCEPT ![moved] = i]
        BY <1>1, <2>1, <2>5 DEF RemoveEvent, TakeOut, n
      <4> HIDE DEF last, moved, forget, i
      <4> QED
        BY <3>3, <4>1
    <3>5. /\ index' \in [Events -> {-1} \cup Nat] /\ index'[e] = -1 /\ index'[m] = i
          /\ \A x \in Events \ {e, m} : index'[x] = index[x]
      BY <1>1, <1>2, <2>1, <3>1, <3>2, <3>4
    <3>6. /\ epollEvents' \in Seq(Fds \cup {NoFd}) /\ Len(epollEvents') = n - 1
          /\ \A j \in 1 .. n - 1 :
               epollEvents'[j] = IF j = i + 1 THEN last ELSE epollEvents[j]
      <4> HIDE DEF last, i
      <4>1. i + 1 \in 1 .. n - 1
        BY <1>1, <2>5
      <4> DEFINE S == Fds \cup {NoFd}
                 f == Front(epollEvents)
      <4>2. f \in Seq(S) /\ Len(f) = n - 1 /\ last \in S /\ i + 1 \in 1 .. Len(f)
        BY <2>3, <3>2, <4>1
      <4>3. epollEvents' = [f EXCEPT ![i + 1] = last]
        BY <3>4
      <4>4. \A j \in 1 .. n - 1 : f[j] = epollEvents[j]
        BY <2>3
      <4> HIDE DEF S, f
      <4>5. /\ epollEvents' \in Seq(S) /\ Len(epollEvents') = Len(f)
            /\ \A j \in 1 .. Len(f) : epollEvents'[j] = IF j = i + 1 THEN last ELSE f[j]
        BY <4>2, <4>3, ExceptSeq
      <4>6. \A j \in 1 .. n - 1 :
              epollEvents'[j] = IF j = i + 1 THEN last ELSE epollEvents[j]
        BY <4>2, <4>4, <4>5
      <4>7. epollEvents' \in Seq(Fds \cup {NoFd})
        BY <4>5 DEF S
      <4>8. Len(epollEvents') = n - 1
        BY <4>2, <4>5
      <4> QED
        BY <4>6, <4>7, <4>8
    <3> HIDE DEF last, i, moved, forget, erased
    <3>7. ASSUME NEW x \in Registered \ {e}
          PROVE  index'[x] \in K .. n - 2 /\ epollEvents'[index'[x] + 1] = FdOf[x]
      <4>1. CASE x = m
        BY <1>1, <2>1, <2>5, <3>2, <3>5, <3>6, <4>1
      <4>2. CASE x # m
        <5>1. index[x] # n - 1
          <6>1. FdOf[x] # FdOf[m]
            BY <3>1, <4>2 DEF KernelInv, Registered
          <6> QED
            BY <1>2, <3>1, <6>1
        <5>2. index'[x] = index[x] /\ index[x] \in K .. n - 2 /\ index[x] # i
          BY <1>1, <1>2, <2>2, <3>5, <4>2, <5>1
        <5> QED
          BY <1>1, <1>2, <3>6, <5>2
      <4> QED
        BY <4>1, <4>2
    <3>8. ASSUME NEW j \in K + 1 .. n - 1
          PROVE  \E x \in Registered \ {e} : index'[x] = j - 1
      <4>1. CASE j = i + 1
        BY <1>1, <2>1, <3>1, <3>2, <3>5, <4>1
      <4>2. CASE j # i + 1
        <5>1. PICK x \in Registered : index[x] = j - 1
          BY <1>1 DEF Placed, n
        <5>2. x # e /\ x # m
          BY <1>1, <2>1, <3>1, <4>2, <5>1 DEF i
        <5> QED
          BY <1>2, <3>5, <5>1, <5>2
      <4> QED
        BY <4>1, <4>2
    <3>9. \A x \in Events \ Registered : index'[x] = -1
      BY <1>5, <2>1, <3>1, <3>5
    <3>10. K <= n - 1
      BY <1>1, <2>1
    <3>11. PICK q : q = epollEvents'
      OBVIOUS
    <3>12. Len(q) - 1 = n - 2 /\ Len(q) = n - 1
      BY <1>1, <3>6, <3>11
    <3>13. /\ q \in Seq(Fds \cup {NoFd}) /\ Len(q) \in Nat /\ K <= Len(q) /\ ~fault'
           /\ \A x \in Registered \ {e} :
                index'[x] \in K .. Len(q) - 1 /\ q[index'[x] + 1] = FdOf[x]
           /\ \A j \in K + 1 .. Len(q) : \E x \in Registered \ {e} : index'[x] = j - 1
      BY <2>3, <3>4, <3>6, <3>7, <3>8, <3>10, <3>11, <3>12
    <3> QED
      BY <1>4, <3>5, <3>9, <3>11, <3>13
  <2> QED
    BY <1>1, <2>1, <2>4, <2>5
<1> QED
  BY <1>6, <1>7

\* Placed holds as long as no poll returned more than the initial size.
LEMMA PlacedHolds == Spec => [](peak <= K /\ ~shared => Placed)
<1> USE PollerAssumption, EpollAssumption
<1>1. Init => Placed
  <2> SUFFICES ASSUME Init  PROVE Placed
    OBVIOUS
  <2>1. Len(epollEvents) = K /\ K \in Nat
    BY DEF Init, K, EpollAssumption
  <2>2. Registered = {}
    BY DEF Init, PollerInit, Registered
  <2> QED
    BY <2>1, <2>2 DEF Init, Placed
<1>2. /\ ~shared => KernelInv
      /\ peak <= K /\ ~shared => Placed
      /\ [Next]_vars
      => (peak <= K /\ ~shared => Placed)'
  <2> SUFFICES ASSUME ~shared => KernelInv, peak <= K /\ ~shared => Placed, [Next]_vars,
                      (peak <= K)', ~shared'
               PROVE  Placed'
    BY DEF K
  <2>0. KernelInv /\ ~shared
    BY DEF Next, Request, Cancel, Uses, Poll, vars, pollerVars
  <2>1. peak \in Nat /\ K' = K /\ K \in Nat
    BY <2>0 DEF KernelInv, StateTyped, K, EpollAssumption
  <2>2. ASSUME NEW e \in Events, Request(e)
        PROVE  Placed'
    <3> DEFINE mask == listened'[e]
    <3>0. mask \in SUBSET Bits
      BY <2>0, <2>2, RequestsWant DEF Request, KernelInv, StateTyped, PollerTyped
    <3>1. Placed /\ Owns(e) /\ UpdateEvent(e, mask)
      BY <2>0, <2>1, <2>2 DEF Request, Uses
    <3> HIDE DEF mask
    <3>2. CASE UNCHANGED <<epollEvents, index, fault>>
      BY <3>1, <3>2 DEF Placed, Registered, K
    <3>3. CASE index[e] < 0 /\ EpollAdd(e, mask)
      BY <2>0, <3>0, <3>1, <3>3, AddPlaces
    <3>4. CASE RemoveEvent(e)
      BY <2>0, <3>1, <3>4, RemovePlaces
    <3> QED
      BY <3>1, <3>2, <3>3, <3>4 DEF UpdateEvent, EpollMod
  <2>3. ASSUME NEW e \in Events, Cancel(e)  PROVE Placed'
    BY <2>0, <2>1, <2>3, RemovePlaces DEF Cancel, Uses
  <2>4. ASSUME NEW ready \in Answers, Poll(ready)  PROVE Placed'
    <3>1. PICK n \in 0 .. Len(epollEvents) : ready \in [1 .. n -> Fds]
      BY DEF Answers
    <3>2. /\ epollEvents \in Seq(Fds \cup {NoFd}) /\ Len(epollEvents) \in Nat /\ n \in Nat
          /\ ready \in Seq(Fds \cup {NoFd}) /\ Len(ready) = n
      BY <2>0, <3>1 DEF KernelInv, StateTyped
    <3>3. n <= K /\ peak <= K
      BY <2>1, <2>4, <3>2 DEF Poll
    <3> DEFINE rest == SubSeq(epollEvents, n + 1, Len(epollEvents))
    <3>4. /\ rest \in Seq(Fds \cup {NoFd}) /\ Len(rest) = Len(epollEvents) - n
          /\ \A j \in 1 .. Len(rest) : rest[j] = epollEvents[n + j]
      BY <3>1, <3>2
    <3>5. epollEvents' = ready \o rest
      BY <2>4, <3>2 DEF Poll
    <3> HIDE DEF rest
    <3>6. /\ Len(epollEvents') = Len(epollEvents)
          /\ \A j \in n + 1 .. Len(epollEvents) : epollEvents'[j] = epollEvents[j]
      <4>1. /\ Len(epollEvents') = n + Len(rest)
            /\ \A j \in 1 .. n + Len(rest) :
                 epollEvents'[j] = IF j <= n THEN ready[j] ELSE rest[j - n]
        BY <3>2, <3>4, <3>5, ConcatProperties
      <4>2. n + Len(rest) = Len(epollEvents)
        BY <3>2, <3>4
      <4>3. ASSUME NEW j \in n + 1 .. Len(epollEvents)
            PROVE  epollEvents'[j] = epollEvents[j]
        <5>1. j \in 1 .. n + Len(rest) /\ j > n /\ j - n \in 1 .. Len(rest) /\ n + (j - n) = j
          BY <3>2, <3>4, <4>2
        <5> QED
          BY <3>4, <4>1, <5>1
      <4> QED
        BY <4>1, <4>2, <4>3
    <3>7. Registered' = Registered /\ UNCHANGED <<index, fault>>
      BY <2>4 DEF Poll, Registered
    <3>8. \A e \in Registered : epollEvents'[index[e] + 1] = epollEvents[index[e] + 1]
      BY <2>0, <2>1, <3>2, <3>3, <3>6 DEF Placed
    <3> QED
      BY <2>0, <2>1, <3>3, <3>6, <3>7, <3>8 DEF Placed
  <2>5. CASE UNCHANGED vars
    BY <2>0, <2>5 DEF vars, pollerVars, Placed, Registered, K
  <2> QED
    BY <2>2, <2>3, <2>4, <2>5 DEF Next
<1> QED
  BY <1>1, <1>2, KernelInvHolds, PTL DEF Spec

\* As long as epoll_wait has returned no more entries than the vector had at
\* the start, every Event finds its descriptor at its position and no removal
\* meets a null Event (removeEvent, fillActiveEvents).
THEOREM EpollPollerCoherent == Spec => []IndexCoherent
<1>1. (~shared => KernelInv) /\ (peak <= K /\ ~shared => Placed) => IndexCoherent
  BY DEF KernelInv, Placed, IndexCoherent, K
<1> QED
  BY <1>1, KernelInvHolds, PlacedHolds, PTL

-----------------------------------------------------------------------------
(* PollPoller: the same Events and the same base class, with the vector of *)
(* poll(2).                                                                *)

Polling == INSTANCE PollPoller

\* An entry of the vector.
Entry == [fd : Fds, events : SUBSET Polling!Bits]

\* The inductive invariant: beside the coherence of positions, map and
\* entries, an Event is registered exactly while its mask is not negative,
\* and the map points to Events of the right descriptor.
IndexInv ==
  /\ Polling!StateTyped
  /\ Polling!Agreement
  /\ \A e \in Events : index[e] >= 0 <=> ~Polling!Negative(listened[e])
  /\ \A e \in Events : listened[e] # {}
  /\ \A fd \in Fds : events[fd] # Null => FdOf[events[fd]] = fd

\* Every entry belongs to a registered Event.
LEMMA EntryOfRegistered ==
  ASSUME IndexInv, NEW i \in 1 .. Len(pollFds)
  PROVE  /\ pollFds[i].fd \in Fds
         /\ events[pollFds[i].fd] \in Polling!Registered
<1>1. pollFds[i] \in Entry
  BY ElementOfSeq DEF IndexInv, Polling!StateTyped, Entry
<1> QED
  BY <1>1 DEF IndexInv, Polling!Agreement, Entry

\* An Event that may be used and has no position has no map entry either.
LEMMA NoEntryWithoutPosition ==
  ASSUME IndexInv, NEW e \in Events, Polling!Owns(e), index[e] < 0
  PROVE  /\ events[FdOf[e]] = Null
         /\ \A i \in 1 .. Len(pollFds) : pollFds[i].fd # FdOf[e]
<1> USE PollerAssumption
<1>1. events[FdOf[e]] = Null
  <2> SUFFICES ASSUME events[FdOf[e]] # Null
               PROVE  FALSE
    OBVIOUS
  <2>1. /\ FdOf[e] \in Fds
        /\ events[FdOf[e]] \in Polling!Registered
        /\ FdOf[events[FdOf[e]]] = FdOf[e]
    BY DEF IndexInv, Polling!Agreement
  <2> QED
    BY <2>1 DEF Polling!Owns, Polling!Registered, IndexInv, Polling!StateTyped, Polling!PollerTyped
<1>2. \A i \in 1 .. Len(pollFds) : events[pollFds[i].fd] # Null
  BY DEF IndexInv, Polling!Agreement
<1> QED
  BY <1>1, <1>2

\* Adding an Event without a position behind the others.
LEMMA AddKeepsIndexInv ==
  ASSUME IndexInv, NEW e \in Events, Polling!Owns(e), NEW mask \in SUBSET Polling!Bits,
         mask # {}, index[e] < 0, ~Polling!Negative(mask), Polling!Add(e, mask),
         listened' = [listened EXCEPT ![e] = mask], UNCHANGED active
  PROVE  IndexInv'
<1> USE PollerAssumption
<1> DEFINE n == Len(pollFds)
           new == [fd |-> FdOf[e], events |-> mask]
<1>1. pollFds \in Seq(Entry) /\ n \in Nat
  BY LenProperties DEF IndexInv, Polling!StateTyped, Entry
<1>2. new \in Entry
  BY DEF Entry
<1>3. /\ pollFds' \in Seq(Entry)
      /\ Len(pollFds') = n + 1
      /\ \A i \in 1 .. n : pollFds'[i] = pollFds[i]
      /\ pollFds'[n + 1] = new
  BY <1>1, <1>2, AppendProperties DEF Polling!Add
<1>4. /\ index \in [Events -> {-1} \cup Nat]
      /\ index' = [index EXCEPT ![e] = n]
      /\ events \in [Fds -> Events \cup {Null}]
      /\ events' = [events EXCEPT ![FdOf[e]] = e]
      /\ listened \in [Events -> SUBSET Polling!Bits]
  BY DEF Polling!Add, IndexInv, Polling!StateTyped, Polling!PollerTyped
<1> HIDE DEF n, new
<1>5. Polling!StateTyped'
  BY <1>1, <1>3, <1>4 DEF IndexInv, Polling!StateTyped, Polling!PollerTyped, Entry
<1>6. /\ events[FdOf[e]] = Null
      /\ \A i \in 1 .. n : pollFds[i].fd # FdOf[e]
  BY NoEntryWithoutPosition DEF n
<1>7. \A i \in 1 .. n : pollFds[i].fd \in Fds
  <2>1. \A i \in 1 .. n : pollFds[i] \in Entry
    BY <1>1, ElementOfSeq DEF n
  <2> QED
    BY <2>1 DEF Entry
<1>8. ASSUME NEW x \in Polling!Registered'
      PROVE  /\ index'[x] < n + 1
             /\ pollFds'[index'[x] + 1] = [fd |-> FdOf[x], events |-> listened'[x]]
             /\ events'[FdOf[x]] = x
  <2>1. CASE x = e
    BY <1>1, <1>3, <1>4, <2>1 DEF new
  <2>2. CASE x # e
    <3>1. x \in Polling!Registered /\ index'[x] = index[x] /\ listened'[x] = listened[x]
      BY <1>4, <1>8, <2>2 DEF Polling!Registered
    <3>2. FdOf[x] # FdOf[e]
      BY <1>4, <2>2, <3>1 DEF Polling!Owns, Polling!Registered
    <3>3. /\ index[x] < n
          /\ pollFds[index[x] + 1] = [fd |-> FdOf[x], events |-> listened[x]]
          /\ events[FdOf[x]] = x
      BY <3>1 DEF IndexInv, Polling!Agreement, n
    <3>4. index[x] + 1 \in 1 .. n
      BY <1>1, <1>4, <3>1, <3>3 DEF Polling!Registered
    <3>5. pollFds'[index'[x] + 1] = pollFds[index[x] + 1]
      BY <1>3, <3>1, <3>4
    <3>6. FdOf[x] \in Fds /\ events'[FdOf[x]] = events[FdOf[x]]
      BY <1>4, <3>1, <3>2 DEF Polling!Registered
    <3>7. index[x] \in Int /\ n \in Int
      BY <1>1, <3>4, <1>4, <3>1 DEF Polling!Registered
    <3> HIDE DEF Polling!Registered
    <3>8. index'[x] < n + 1
      BY <3>1, <3>3, <3>7
    <3> QED
      BY <3>1, <3>3, <3>5, <3>6, <3>8
  <2> QED
    BY <2>1, <2>2
<1>9. ASSUME NEW i \in 1 .. n + 1
      PROVE  /\ events'[pollFds'[i].fd] # Null
             /\ index'[events'[pollFds'[i].fd]] = i - 1
  <2>1. CASE i = n + 1
    BY <1>1, <1>3, <1>4, <2>1 DEF new
  <2>2. CASE i # n + 1
    <3>1. i \in 1 .. n
      BY <1>1, <2>2
    <3>2. /\ events[pollFds[i].fd] # Null
          /\ index[events[pollFds[i].fd]] = i - 1
      BY <3>1 DEF IndexInv, Polling!Agreement, n
    <3>3. /\ pollFds'[i] = pollFds[i]
          /\ pollFds[i].fd \in Fds
          /\ pollFds[i].fd # FdOf[e]
      BY <1>3, <1>6, <1>7, <3>1
    <3>4. events'[pollFds'[i].fd] = events[pollFds[i].fd]
      BY <1>4, <3>3
    <3>5. events[pollFds[i].fd] \in Events /\ events[pollFds[i].fd] # e
      BY <1>1, <1>4, <3>2, <3>3
    <3> QED
      BY <1>4, <3>2, <3>4, <3>5
  <2> QED
    BY <2>1, <2>2
<1>10. ASSUME NEW fd \in Fds, events'[fd] # Null
       PROVE  events'[fd] \in Polling!Registered' /\ FdOf[events'[fd]] = fd
  <2>1. CASE fd = FdOf[e]
    BY <1>1, <1>4, <2>1 DEF Polling!Registered
  <2>2. CASE fd # FdOf[e]
    <3>1. events'[fd] = events[fd] /\ events[fd] # Null
      BY <1>4, <1>10, <2>2
    <3>2. events[fd] \in Polling!Registered /\ FdOf[events[fd]] = fd
      BY <3>1 DEF IndexInv, Polling!Agreement
    <3> QED
      BY <1>4, <2>2, <3>1, <3>2 DEF Polling!Registered
  <2> QED
    BY <2>1, <2>2
<1>11. \A x \in Events : index'[x] >= 0 <=> ~Polling!Negative(listened'[x])
  BY <1>1, <1>4 DEF IndexInv
<1>13. \A x \in Events : listened'[x] # {}
  BY <1>4 DEF IndexInv
<1>12. Polling!Agreement'
  BY <1>3, <1>8, <1>9, <1>10 DEF Polling!Agreement
<1> QED
  BY <1>5, <1>10, <1>11, <1>12, <1>13 DEF IndexInv

\* Changing the mask of a registered Event in its entry.
LEMMA ModifyKeepsIndexInv ==
  ASSUME IndexInv, NEW e \in Events, NEW mask \in SUBSET Polling!Bits,
         mask # {}, index[e] >= 0, ~Polling!Negative(mask), Polling!Modify(e, mask),
         listened' = [listened EXCEPT ![e] = mask], UNCHANGED active
  PROVE  IndexInv'
<1> USE PollerAssumption
<1> DEFINE n == Len(pollFds)
           k == index[e] + 1
           new == [fd |-> FdOf[e], events |-> mask]
<1>1. pollFds \in Seq(Entry) /\ n \in Nat
  BY LenProperties DEF IndexInv, Polling!StateTyped, Entry
<1>2. /\ index \in [Events -> {-1} \cup Nat]
      /\ index' = index
      /\ events \in [Fds -> Events \cup {Null}]
      /\ events' = events
      /\ listened \in [Events -> SUBSET Polling!Bits]
  BY DEF Polling!Modify, IndexInv, Polling!StateTyped, Polling!PollerTyped
<1>3. /\ k \in 1 .. n
      /\ pollFds[k] = [fd |-> FdOf[e], events |-> listened[e]]
  BY <1>1, <1>2 DEF IndexInv, Polling!Agreement, Polling!Registered
<1>4. [pollFds[k] EXCEPT !.events = mask] = new
  BY <1>3
<1>5. pollFds' = [pollFds EXCEPT ![k] = new]
  BY <1>4 DEF Polling!Modify
<1>6. new \in Entry
  BY DEF Entry
<1> HIDE DEF n, k, new
<1>7. /\ pollFds' \in Seq(Entry)
      /\ Len(pollFds') = n
      /\ \A i \in 1 .. n : pollFds'[i] = IF i = k THEN new ELSE pollFds[i]
  BY <1>1, <1>3, <1>5, <1>6, ExceptSeq DEF n
<1>8. Polling!StateTyped'
  BY <1>2, <1>7 DEF IndexInv, Polling!StateTyped, Polling!PollerTyped, Entry
<1>9. \A i \in 1 .. n : pollFds'[i].fd = pollFds[i].fd
  BY <1>3, <1>7 DEF new
<1>10. ASSUME NEW x \in Polling!Registered'
       PROVE  /\ index'[x] < n
              /\ pollFds'[index'[x] + 1] = [fd |-> FdOf[x], events |-> listened'[x]]
              /\ events'[FdOf[x]] = x
  <2>1. /\ x \in Polling!Registered
        /\ index[x] < n
        /\ pollFds[index[x] + 1] = [fd |-> FdOf[x], events |-> listened[x]]
        /\ events[FdOf[x]] = x
    BY <1>2, <1>10 DEF IndexInv, Polling!Agreement, Polling!Registered, n
  <2>2. index[x] + 1 \in 1 .. n
    BY <1>1, <1>2, <2>1 DEF Polling!Registered
  <2>3. CASE x = e
    BY <1>2, <1>7, <2>1, <2>2, <2>3 DEF new, k
  <2>4. CASE x # e
    <3>1. index[x] # index[e]
      <4>1. FdOf[x] # FdOf[e]
        BY <2>1, <2>4 DEF IndexInv, Polling!Agreement, Polling!Registered
      <4> QED
        BY <1>3, <2>1, <4>1 DEF k
    <3>2. index[x] + 1 # k
      BY <1>2, <3>1, <2>1 DEF k, Polling!Registered
    <3>3. listened'[x] = listened[x]
      BY <2>4
    <3> QED
      BY <1>2, <1>7, <2>1, <2>2, <3>2, <3>3
  <2> QED
    BY <2>3, <2>4
<1>11. \A x \in Events : index'[x] >= 0 <=> ~Polling!Negative(listened'[x])
  BY <1>2 DEF IndexInv
<1>13. \A x \in Events : listened'[x] # {}
  BY <1>2 DEF IndexInv
<1>12. Polling!Agreement'
  <2>1. ASSUME NEW i \in 1 .. n
        PROVE  /\ events'[pollFds'[i].fd] # Null
               /\ index'[events'[pollFds'[i].fd]] = i - 1
    BY <1>2, <1>9 DEF IndexInv, Polling!Agreement, n
  <2>2. \A fd \in Fds : events'[fd] # Null => events'[fd] \in Polling!Registered'
    BY <1>2 DEF IndexInv, Polling!Agreement, Polling!Registered
  <2> QED
    BY <1>7, <1>10, <2>1, <2>2 DEF Polling!Agreement
<1> QED
  BY <1>2, <1>8, <1>11, <1>12, <1>13 DEF IndexInv

\* Removing an Event, with or without a position, whose mask has become
\* negative: the entry that moves into the gap takes its position along.
LEMMA RemoveKeepsIndexInv ==
  ASSUME IndexInv, NEW e \in Events, Polling!Owns(e), NEW mask \in SUBSET Polling!Bits,
         mask # {}, Polling!Negative(mask), Polling!RemoveEvent(e),
         listened' = [listened EXCEPT ![e] = mask], UNCHANGED active
  PROVE  IndexInv'
<1> USE PollerAssumption
<1> DEFINE n == Len(pollFds)
           k == index[e]
           last == pollFds[n]
           m == events'[last.fd]
<1>1. pollFds \in Seq(Entry) /\ n \in Nat
  BY LenProperties DEF IndexInv, Polling!StateTyped, Entry
<1>2. /\ index \in [Events -> {-1} \cup Nat]
      /\ events \in [Fds -> Events \cup {Null}]
      /\ events' = [events EXCEPT ![FdOf[e]] = Null]
      /\ listened \in [Events -> SUBSET Polling!Bits]
      /\ FdOf[e] \in Fds
  BY DEF Polling!RemoveEvent, IndexInv, Polling!StateTyped, Polling!PollerTyped
<1>3. \A i \in 1 .. n : pollFds[i] \in Entry /\ pollFds[i].fd \in Fds
  <2>1. \A i \in 1 .. n : pollFds[i] \in Entry
    BY <1>1, ElementOfSeq
  <2> QED
    BY <2>1 DEF Entry
<1>4. \A x \in Polling!Registered :
        /\ index[x] \in 0 .. n - 1
        /\ pollFds[index[x] + 1] = [fd |-> FdOf[x], events |-> listened[x]]
        /\ events[FdOf[x]] = x
  BY <1>1, <1>2 DEF IndexInv, Polling!Agreement, Polling!Registered
<1>4a. \A x \in Polling!Registered : /\ pollFds[index[x] + 1].fd = FdOf[x]
                            /\ index[x] \in Int
                            /\ index[x] < n
  <2> SUFFICES ASSUME NEW x \in Polling!Registered
               PROVE  /\ pollFds[index[x] + 1].fd = FdOf[x]
                      /\ index[x] \in Int
                      /\ index[x] < n
    OBVIOUS
  <2>1. pollFds[index[x] + 1] = [fd |-> FdOf[x], events |-> listened[x]]
    BY <1>4
  <2>2. index[x] \in 0 .. n - 1
    BY <1>4
  <2>3. pollFds[index[x] + 1].fd = FdOf[x]
    BY <2>1
  <2> HIDE DEF n
  <2> QED
    BY <1>1, <2>2, <2>3
<1>5. \A i \in 1 .. n : /\ events[pollFds[i].fd] \in Polling!Registered
                        /\ index[events[pollFds[i].fd]] = i - 1
                        /\ FdOf[events[pollFds[i].fd]] = pollFds[i].fd
  BY <1>3 DEF IndexInv, Polling!Agreement
<1>6. \A fd \in Fds : events[fd] # Null =>
        events[fd] \in Polling!Registered /\ FdOf[events[fd]] = fd
  BY DEF IndexInv, Polling!Agreement
<1>7. \A x \in Events : x # e => listened'[x] = listened[x]
  BY <1>2
<1>8. \A x \in Polling!Registered : x # e => FdOf[x] # FdOf[e]
  BY <1>2 DEF Polling!Owns, Polling!Registered
\* The map after the removal.
<1>9. \A fd \in Fds : events'[fd] # Null =>
        events'[fd] = events[fd] /\ events'[fd] \in Polling!Registered
        /\ events'[fd] # e /\ FdOf[events'[fd]] = fd
  BY <1>2, <1>6
<1>10. \A x \in Polling!Registered : x # e => events'[FdOf[x]] = x
  BY <1>2, <1>4, <1>8 DEF Polling!Registered
<1> HIDE DEF n, k, last, m
\* What the three cases have in common: the positions left are those of the
\* other registered Events.
<1>11. ASSUME NEW q, q = pollFds', q \in Seq(Entry), Len(q) \in Nat,
              index' \in [Events -> {-1} \cup Nat], index'[e] = -1,
              \A x \in Events \ {e} : index'[x] >= 0 <=> index[x] >= 0,
              \A x \in Polling!Registered : x # e =>
                index'[x] < Len(q) /\ q[index'[x] + 1] = pollFds[index[x] + 1],
              \A i \in 1 .. Len(q) : \E x \in Polling!Registered :
                x # e /\ index'[x] = i - 1
       PROVE  IndexInv'
  <2>1. Polling!StateTyped'
    BY <1>2, <1>11 DEF IndexInv, Polling!StateTyped, Polling!PollerTyped, Entry
  <2>2. \A x \in Events : x \in Polling!Registered' <=> x \in Polling!Registered /\ x # e
    BY <1>11 DEF Polling!Registered
  <2>3. ASSUME NEW x \in Polling!Registered'
        PROVE  /\ index'[x] < Len(pollFds')
               /\ pollFds'[index'[x] + 1] = [fd |-> FdOf[x], events |-> listened'[x]]
               /\ events'[FdOf[x]] = x
    <3>1. x \in Events /\ x \in Polling!Registered /\ x # e
      BY <2>2, <2>3 DEF Polling!Registered
    <3> QED
      BY <1>4, <1>7, <1>10, <1>11, <3>1
  <2>4. ASSUME NEW i \in 1 .. Len(pollFds')
        PROVE  /\ events'[pollFds'[i].fd] # Null
               /\ index'[events'[pollFds'[i].fd]] = i - 1
    <3>1. PICK x \in Polling!Registered : x # e /\ index'[x] = i - 1
      BY <1>11
    <3>2. pollFds'[i] = pollFds'[index'[x] + 1]
      BY <1>11, <3>1
    <3>3. pollFds'[i].fd = FdOf[x]
      <4>1. pollFds'[index'[x] + 1] = pollFds[index[x] + 1]
        BY <1>11, <3>1
      <4> QED
        BY <1>4a, <3>1, <3>2, <4>1
    <3> QED
      BY <1>10, <3>1, <3>3 DEF Polling!Registered
  <2>5. \A fd \in Fds : events'[fd] # Null => events'[fd] \in Polling!Registered'
    BY <1>9, <2>2 DEF Polling!Registered
  <2>6. \A x \in Events : index'[x] >= 0 <=> ~Polling!Negative(listened'[x])
    BY <1>2, <1>11 DEF IndexInv
  <2>8. \A x \in Events : listened'[x] # {}
    BY <1>2 DEF IndexInv
  <2>7. Polling!Agreement'
    BY <2>3, <2>4, <2>5 DEF Polling!Agreement
  <2> QED
    BY <1>9, <2>1, <2>6, <2>7, <2>8 DEF IndexInv
<1>12. CASE k \notin 0 .. n - 1
  <2>1. /\ index' = [index EXCEPT ![e] = -1]
        /\ pollFds' = pollFds
    BY <1>1, <1>12 DEF Polling!RemoveEvent, n, k
  <2>2. e \notin Polling!Registered
    BY <1>4, <1>12 DEF k
  <2>3. \A i \in 1 .. n : \E x \in Polling!Registered : x # e /\ index'[x] = i - 1
    BY <1>2, <1>5, <2>1, <2>2 DEF Polling!Registered
  <2>4. \A x \in Events \ {e} : index'[x] = index[x]
    BY <1>2, <2>1
  <2>5. index' \in [Events -> {-1} \cup Nat] /\ index'[e] = -1
    BY <1>2, <2>1
  <2>6. ASSUME NEW x \in Polling!Registered, x # e
        PROVE  index'[x] < n
    <3>1. index'[x] = index[x]
      BY <2>4, <2>6 DEF Polling!Registered
    <3> QED
      BY <1>4a, <3>1
  <2> QED
    BY <1>1, <1>11, <2>1, <2>3, <2>4, <2>5, <2>6 DEF n, Polling!Registered
<1>13. CASE k = n - 1 /\ k >= 0
  <2>1. /\ index' = [index EXCEPT ![e] = -1]
        /\ pollFds' = SubSeq(pollFds, 1, n - 1)
    BY <1>1, <1>13 DEF Polling!RemoveEvent, Polling!Front, n, k
  <2>2. /\ pollFds' \in Seq(Entry)
        /\ Len(pollFds') = n - 1
        /\ \A i \in 1 .. n - 1 : pollFds'[i] = pollFds[i]
    <3>1. \A i \in 1 .. n - 1 : pollFds[i] \in Entry
      BY <1>1, <1>3
    <3> QED
      BY <1>1, <1>13, <2>1, <3>1, SubSeqProperties
  <2>3. e \in Polling!Registered
    BY <1>13 DEF Polling!Registered, k
  <2>4. \A x \in Events \ {e} : index'[x] = index[x]
    BY <1>2, <2>1
  <2>5. index' \in [Events -> {-1} \cup Nat] /\ index'[e] = -1
    BY <1>2, <2>1
  <2>6. ASSUME NEW x \in Polling!Registered, x # e
        PROVE  index[x] \in 0 .. n - 2
    <3>1. index[x] # n - 1
      <4>1. pollFds[index[x] + 1].fd = FdOf[x] /\ pollFds[k + 1].fd = FdOf[e]
        BY <1>4a, <2>3 DEF k
      <4> QED
        BY <1>8, <1>13, <2>6, <4>1
    <3>2. index[x] \in 0 .. n - 1
      BY <1>4
    <3> QED
      BY <1>1, <3>1, <3>2
  <2>7. \A x \in Polling!Registered : x # e =>
          index'[x] < n - 1 /\ pollFds'[index'[x] + 1] = pollFds[index[x] + 1]
    BY <1>1, <2>2, <2>4, <2>6 DEF Polling!Registered
  <2>8. ASSUME NEW i \in 1 .. n - 1
        PROVE  \E x \in Polling!Registered : x # e /\ index'[x] = i - 1
    <3>1. i \in 1 .. n /\ i - 1 # k
      BY <1>1, <1>13
    <3>2. events[pollFds[i].fd] # e
      BY <1>5, <3>1 DEF k
    <3> QED
      BY <1>5, <2>4, <3>1, <3>2 DEF Polling!Registered
  <2>9. n - 1 \in Nat
    BY <1>1, <1>13
  <2> QED
    BY <1>11, <2>2, <2>4, <2>5, <2>7, <2>8, <2>9
<1>14. CASE k \in 0 .. n - 2
  <2>1. /\ index' = [index EXCEPT ![m] = k, ![e] = -1]
        /\ pollFds' = [SubSeq(pollFds, 1, n - 1) EXCEPT ![k + 1] = last]
    BY <1>1, <1>14 DEF Polling!RemoveEvent, Polling!Front, n, k, m, last
  <2>2. last \in Entry /\ n \in 1 .. n
    BY <1>1, <1>3, <1>14 DEF last
  <2>3. /\ pollFds' \in Seq(Entry)
        /\ Len(pollFds') = n - 1
        /\ \A i \in 1 .. n - 1 :
             pollFds'[i] = IF i = k + 1 THEN last ELSE pollFds[i]
    <3> DEFINE f == SubSeq(pollFds, 1, n - 1)
    <3>1. \A i \in 1 .. n - 1 : pollFds[i] \in Entry
      BY <1>1, <1>3
    <3>2. /\ f \in Seq(Entry) /\ Len(f) = n - 1
          /\ \A i \in 1 .. n - 1 : f[i] = pollFds[i]
      BY <1>1, <1>14, <3>1, SubSeqProperties
    <3> HIDE DEF f
    <3>3. k + 1 \in 1 .. Len(f)
      BY <1>1, <1>14, <3>2
    <3>4. pollFds' = [f EXCEPT ![k + 1] = last]
      BY <2>1 DEF f
    <3> QED
      BY <2>2, <3>2, <3>3, <3>4, ExceptSeq
  <2>4. e \in Polling!Registered
    BY <1>2, <1>14 DEF Polling!Registered, k
  \* The Event of the last entry is another one, and it is the one moved.
  <2>5. /\ m \in Polling!Registered /\ m # e
        /\ index[m] = n - 1
    <3>1. /\ events[last.fd] \in Polling!Registered
          /\ index[events[last.fd]] = n - 1
          /\ FdOf[events[last.fd]] = last.fd
      BY <1>5, <2>2 DEF last
    <3>2. events[last.fd] # e
      BY <1>1, <1>14, <3>1 DEF k
    <3>3. m = events[last.fd]
      BY <1>10, <3>1, <3>2 DEF m
    <3> QED
      BY <3>1, <3>2, <3>3
  <2>6. /\ index' \in [Events -> {-1} \cup Nat] /\ index'[e] = -1
        /\ index'[m] = k
        /\ \A x \in Events \ {e, m} : index'[x] = index[x]
    <3>1. m \in Events /\ k \in Nat
      BY <1>1, <1>14, <2>5 DEF Polling!Registered
    <3> QED
      BY <1>2, <2>1, <2>5, <3>1
  <2>7. ASSUME NEW x \in Polling!Registered, x # e, x # m
        PROVE  index[x] \in 0 .. n - 2 /\ index[x] # k
    <3>1. index[x] # k
      <4>1. pollFds[index[x] + 1].fd = FdOf[x] /\ pollFds[k + 1].fd = FdOf[e]
        BY <1>4a, <2>4 DEF k
      <4> QED
        BY <1>8, <2>7, <4>1
    <3>2. index[x] # n - 1
      <4>1. /\ pollFds[index[x] + 1].fd = FdOf[x]
            /\ pollFds[index[m] + 1].fd = FdOf[m]
            /\ events[FdOf[x]] = x /\ events[FdOf[m]] = m
        <5>1. events[FdOf[x]] = x /\ events[FdOf[m]] = m
          BY <1>4, <2>5
        <5>2. pollFds[index[x] + 1].fd = FdOf[x]
          BY <1>4a
        <5>3. pollFds[index[m] + 1].fd = FdOf[m]
          BY <1>4a, <2>5
        <5> QED
          BY <5>1, <5>2, <5>3
      <4> QED
        BY <2>5, <2>7, <4>1
    <3>3. index[x] \in 0 .. n - 1
      BY <1>4
    <3> QED
      BY <1>1, <3>1, <3>2, <3>3
  <2>8. ASSUME NEW x \in Polling!Registered, x # e
        PROVE  index'[x] < n - 1 /\ pollFds'[index'[x] + 1] = pollFds[index[x] + 1]
    <3>1. CASE x = m
      <4>1. index'[x] = k /\ k + 1 \in 1 .. n - 1 /\ index[x] + 1 = n
        BY <1>1, <1>14, <2>5, <2>6, <3>1
      <4> QED
        BY <1>1, <1>14, <2>3, <4>1 DEF last
    <3>2. CASE x # m
      <4>1. index'[x] = index[x] /\ index[x] \in 0 .. n - 2 /\ index[x] # k
        BY <2>6, <2>7, <2>8, <3>2 DEF Polling!Registered
      <4>2. index[x] + 1 \in 1 .. n - 1 /\ index[x] + 1 # k + 1
        BY <1>1, <1>14, <4>1
      <4> QED
        BY <1>1, <2>3, <4>1, <4>2
    <3> QED
      BY <3>1, <3>2
  <2>9. ASSUME NEW i \in 1 .. n - 1
        PROVE  \E x \in Polling!Registered : x # e /\ index'[x] = i - 1
    <3>1. CASE i = k + 1
      BY <1>1, <1>14, <2>5, <2>6, <3>1
    <3>2. CASE i # k + 1
      <4> DEFINE x == events[pollFds[i].fd]
      <4>1. i \in 1 .. n
        BY <1>1
      <4>2. x \in Polling!Registered /\ index[x] = i - 1
        BY <1>5, <4>1
      <4>3. x # e /\ x # m
        BY <1>1, <1>14, <2>5, <3>2, <4>2 DEF k
      <4>4. index'[x] = i - 1
        BY <2>6, <4>2, <4>3 DEF Polling!Registered
      <4> QED
        BY <4>2, <4>3, <4>4
    <3> QED
      BY <3>1, <3>2
  <2>10. \A x \in Events \ {e} : index'[x] >= 0 <=> index[x] >= 0
    BY <1>1, <1>14, <2>5, <2>6 DEF Polling!Registered
  <2>11. n - 1 \in Nat
    BY <1>1, <1>14
  <2> QED
    BY <1>11, <2>3, <2>6, <2>8, <2>9, <2>10, <2>11
<1> QED
  BY <1>1, <1>2, <1>12, <1>13, <1>14 DEF k
-----------------------------------------------------------------------------
\* What the clients do with an Event is the same with both pollers.
LEMMA SameClients ==
  /\ Polling!Bits = Bits /\ Polling!kNoneEvent = kNoneEvent
  /\ \A e, bit : /\ Polling!Enable(e, bit) <=> Enable(e, bit)
                 /\ Polling!Disable(e, bit) <=> Disable(e, bit)
  /\ \A e : Polling!Forget(e) <=> Forget(e)
BY DEF Polling!Enable, Enable, Polling!Disable, Disable, Polling!Forget, Forget,
       Polling!Enabled, Enabled, Polling!Disabled, Disabled,
       Polling!kNoneEvent, kNoneEvent, Polling!Bits, Bits

\* Asking holds of every state of PollPoller as well.
LEMMA PollAskingHolds == Polling!Spec => []Asking
<1>1. Polling!Init => Asking
  BY DEF Polling!Init, Polling!PollerInit, Polling!kNoneEvent, Polling!Bits,
         Asking, HistoryTyped, kNoneEvent, Negative, Bits
<1>2. Asking /\ [Polling!Next]_(Polling!vars) => Asking'
  <2> SUFFICES ASSUME Asking, [Polling!Next]_(Polling!vars)  PROVE Asking'
    OBVIOUS
  <2>1. ASSUME NEW e \in Events, Polling!Request(e) \/ Polling!Cancel(e)  PROVE Asking'
    <3>1. \/ \E bit \in Requests : Enable(e, bit) \/ Disable(e, bit)
          \/ Forget(e)
      BY <2>1, SameClients
      DEF Polling!Request, Polling!Cancel, Polling!Requests, Requests
    <3>2. shared' \in BOOLEAN
      BY <2>1 DEF Polling!Request, Polling!Cancel, Polling!Uses
    <3> QED
      BY <3>1, <3>2, AskingKept
  <2>2. ASSUME UNCHANGED <<listened, asked, misused, shared>>  PROVE Asking'
    BY <2>2 DEF Asking, HistoryTyped
  <2> QED
    BY <2>1, <2>2 DEF Polling!Next, Polling!Poll, Polling!vars, Polling!pollerVars
<1> QED
  BY <1>1, <1>2, PTL DEF Polling!Spec

\* The invariant is inductive: every use of an Event keeps it.
THEOREM IndexInvHolds == Polling!Spec => [](~shared => IndexInv)
<1> USE PollerAssumption
<1>1. Polling!Init => IndexInv
  <2> SUFFICES ASSUME Polling!Init
               PROVE  IndexInv
    OBVIOUS
  <2>1. Polling!StateTyped
    BY DEF Polling!Init, Polling!PollerInit, Polling!StateTyped, Polling!PollerTyped, Polling!kNoneEvent
  <2>2. Len(pollFds) = 0 /\ Polling!Registered = {}
    BY DEF Polling!Init, Polling!PollerInit, Polling!Registered
  <2> QED
    BY <2>1, <2>2 DEF Polling!Init, Polling!PollerInit, IndexInv, Polling!Agreement, Polling!Negative,
       Polling!kNoneEvent, Polling!Bits
<1>2. (~shared => IndexInv) /\ [Polling!Next]_(Polling!vars) => (~shared => IndexInv)'
  <2> SUFFICES ASSUME ~shared => IndexInv, [Polling!Next]_(Polling!vars), ~shared'
               PROVE  IndexInv'
    OBVIOUS
  <2>0. IndexInv
    BY DEF Polling!Next, Polling!Request, Polling!Cancel, Polling!Uses, Polling!Poll,
           Polling!vars, Polling!pollerVars
  <2>1. ASSUME NEW e \in Events, Polling!Request(e)
        PROVE  IndexInv'
    <3> DEFINE mask == listened'[e]
    <3>0. /\ mask \in SUBSET Polling!Bits /\ mask # {}
          /\ listened' = [listened EXCEPT ![e] = mask]
      <4>1. \E bit \in Requests : Enable(e, bit) \/ Disable(e, bit)
        BY <2>1, SameClients DEF Polling!Request, Polling!Requests, Requests
      <4>2. listened \in [Events -> SUBSET Bits]
        BY <2>0, SameClients DEF IndexInv, Polling!StateTyped, Polling!PollerTyped
      <4> QED
        BY <4>1, <4>2, RequestsWant, SameClients
    <3>1. Polling!Owns(e) /\ Polling!UpdateEvent(e, mask) /\ UNCHANGED active
      BY <2>1 DEF Polling!Request, Polling!Uses
    <3> HIDE DEF mask
    <3>2. CASE index[e] < 0 /\ Polling!Negative(mask) /\ UNCHANGED <<index, events, pollFds>>
      <4>1. /\ Polling!StateTyped' /\ Polling!Registered' = Polling!Registered
            /\ \A x \in Polling!Registered : listened'[x] = listened[x]
        BY <2>0, <3>0, <3>1, <3>2 DEF IndexInv, Polling!StateTyped, Polling!PollerTyped, Polling!Registered
      <4>2. Polling!Agreement'
        BY <2>0, <3>2, <4>1 DEF IndexInv, Polling!Agreement
      <4>3. \A x \in Events : index'[x] >= 0 <=> ~Polling!Negative(listened'[x])
        BY <2>0, <3>0, <3>1, <3>2 DEF IndexInv, Polling!StateTyped, Polling!PollerTyped
      <4>4. \A x \in Events : listened'[x] # {}
        BY <2>0, <3>0 DEF IndexInv
      <4> QED
        BY <2>0, <3>2, <4>1, <4>2, <4>3, <4>4 DEF IndexInv
    <3>3. CASE index[e] < 0 /\ ~Polling!Negative(mask) /\ Polling!Add(e, mask)
      BY <2>0, <3>0, <3>1, <3>3, AddKeepsIndexInv
    <3>4. CASE index[e] >= 0 /\ Polling!Negative(mask) /\ Polling!RemoveEvent(e)
      BY <2>0, <3>0, <3>1, <3>4, RemoveKeepsIndexInv
    <3>5. CASE index[e] >= 0 /\ ~Polling!Negative(mask) /\ Polling!Modify(e, mask)
      BY <2>0, <3>0, <3>1, <3>5, ModifyKeepsIndexInv
    <3> QED
      BY <2>0, <3>0, <3>1, <3>2, <3>3, <3>4, <3>5 DEF Polling!UpdateEvent
  <2>2. ASSUME NEW e \in Events, Polling!Cancel(e)
        PROVE  IndexInv'
    <3>1. /\ Polling!kNoneEvent \in SUBSET Polling!Bits /\ Polling!Negative(Polling!kNoneEvent)
          /\ Polling!kNoneEvent # {}
      BY DEF Polling!kNoneEvent, Polling!Negative, Polling!Bits
    <3> QED
      BY <2>0, <2>2, <3>1, RemoveKeepsIndexInv
      DEF Polling!Cancel, Polling!Forget, Polling!Uses
  <2>3. ASSUME NEW ready \in SUBSET (1 .. Len(pollFds)), Polling!Poll(ready)
        PROVE  IndexInv'
    <3>1. active' \subseteq Events
      BY <2>0, <2>3, EntryOfRegistered DEF Polling!Poll, Polling!Registered
    <3> QED
      BY <2>0, <2>3, <3>1 DEF Polling!Poll, IndexInv, Polling!Agreement, Polling!Registered,
                        Polling!StateTyped, Polling!PollerTyped
  <2>4. CASE UNCHANGED Polling!vars
    BY <2>0, <2>4 DEF Polling!vars, Polling!pollerVars, IndexInv, Polling!Agreement,
                Polling!Registered, Polling!StateTyped,
       Polling!PollerTyped
  <2> QED
    BY <2>1, <2>2, <2>3, <2>4 DEF Polling!Next
<1> QED
  BY <1>1, <1>2, PTL DEF Polling!Spec

\* The types of PollPoller's variables (PollPoller.h, Poller.h).
THEOREM PollPollerTyped == Polling!Spec => []Polling!TypeOK
<1>1. Asking /\ (~shared => IndexInv) => Polling!TypeOK
  BY DEF Asking, IndexInv, Polling!TypeOK, Polling!HistoryTyped, HistoryTyped,
         Polling!Requests, Requests
<1> QED
  BY <1>1, PollAskingHolds, IndexInvHolds, PTL

\* Positions, map and entries always agree, however Events are enabled,
\* disabled, cancelled and moved.
THEOREM PollPollerCoherent == Polling!Spec => []EntriesAgree
<1>1. (~shared => IndexInv) => EntriesAgree
  BY DEF IndexInv, Polling!Agreement, Polling!Registered, EntriesAgree, Agreement, Registered
<1> QED
  BY <1>1, IndexInvHolds, PTL

\* poll(2) is asked about exactly what the clients asked for with enable* and
\* disable*: removing or changing one Event never disturbs another; of an Event
\* of which something was disabled while nothing was enabled, about no more.
THEOREM PollPollerWatches == Polling!Spec => []WatchedAsWanted
<1> USE PollerAssumption
<1>1. Asking /\ (~shared => IndexInv) => WatchedAsWanted
  <2> SUFFICES ASSUME Asking, IndexInv, ~shared
               PROVE  WatchedAsWanted
    BY DEF WatchedAsWanted
  <2>1. ASSUME NEW i \in 1 .. Len(pollFds)
        PROVE  /\ events[pollFds[i].fd] \in Polling!Registered
               /\ index[events[pollFds[i].fd]] = i - 1
               /\ pollFds[i].events = listened[events[pollFds[i].fd]]
    <3> DEFINE x == events[pollFds[i].fd]
    <3>2. pollFds[i].fd \in Fds
      BY EntryOfRegistered
    <3>3. x \in Polling!Registered /\ index[x] = i - 1
      BY <3>2 DEF IndexInv, Polling!Agreement
    <3>4. pollFds[index[x] + 1] = [fd |-> FdOf[x], events |-> listened[x]]
      BY <3>3 DEF IndexInv, Polling!Agreement
    <3>5. index[x] + 1 = i
      BY <3>3
    <3> QED
      BY <3>3, <3>4, <3>5
  <2>2. ASSUME NEW i \in 1 .. Len(pollFds)
        PROVE  /\ pollFds[i].events # {}
               /\ pollFds[i].events \subseteq asked[events[pollFds[i].fd]]
    <3> DEFINE x == events[pollFds[i].fd]
    <3>1. x \in Events /\ ~Negative(listened[x]) /\ pollFds[i].events = listened[x]
      BY <2>1 DEF IndexInv, Polling!Registered, Polling!Negative, Negative
    <3> HIDE DEF x
    <3>2. listened[x] # {}
      BY <3>1 DEF IndexInv
    <3> QED
      BY <3>1, <3>2 DEF Asking, x
  <2>3. ASSUME NEW e \in Wanting
        PROVE  \E i \in 1 .. Len(pollFds) : pollFds[i] = [fd |-> FdOf[e], events |-> asked[e]]
    <3>1. e \in Events /\ listened[e] = asked[e] /\ ~Negative(listened[e])
      BY <2>3 DEF Wanting, Asking, HistoryTyped, Requests, Negative
    <3>2. e \in Polling!Registered
      BY <3>1 DEF IndexInv, Polling!Registered, Polling!Negative, Negative
    <3>3. /\ index[e] < Len(pollFds)
          /\ pollFds[index[e] + 1] = [fd |-> FdOf[e], events |-> listened[e]]
      BY <3>2 DEF IndexInv, Polling!Agreement
    <3>4. index[e] \in Nat /\ Len(pollFds) \in Nat
      BY <3>2, LenProperties
      DEF IndexInv, Polling!StateTyped, Polling!PollerTyped, Polling!Registered
    <3>5. index[e] + 1 \in 1 .. Len(pollFds)
      BY <3>3, <3>4
    <3> QED
      BY <3>1, <3>3, <3>5
  <2>4. ASSUME NEW i \in 1 .. Len(pollFds), NEW j \in 1 .. Len(pollFds),
               pollFds[i].fd = pollFds[j].fd
        PROVE  i = j
    BY <2>1, <2>4
  <2> QED
    BY <2>2, <2>3, <2>4 DEF WatchedAsWanted
<1> QED
  BY <1>1, PollAskingHolds, IndexInvHolds, PTL

\* A poll reports registered Events only, so no Event that was cancelled
\* before the poll is dispatched after it.
THEOREM PollPollerReports == Polling!Spec => ReportsRegistered
<1>1. Registered = Polling!Registered
  BY DEF Registered, Polling!Registered
<1>2. (~shared => IndexInv) /\ [Polling!Next]_(Polling!vars)
        => [active' # active => active' \subseteq Registered]_<<pollerVars, pollFds>>
  <2> SUFFICES ASSUME ~shared => IndexInv, Polling!Next, active' # active
               PROVE  active' \subseteq Polling!Registered
    BY <1>1 DEF Polling!vars, Polling!pollerVars, pollerVars
  <2>1. PICK ready \in SUBSET (1 .. Len(pollFds)) : Polling!Poll(ready)
    BY DEF Polling!Next, Polling!Request, Polling!Cancel
  <2> QED
    BY <2>1, EntryOfRegistered DEF Polling!Poll
<1> QED
  BY <1>2, IndexInvHolds, PTL DEF Polling!Spec, ReportsRegistered
=============================================================================
