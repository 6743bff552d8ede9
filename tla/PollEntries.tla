---------------------------- MODULE PollEntries ----------------------------
(***************************************************************************)
(* What has to hold of the vector pollFds_ of net/poller/PollPoller.h,     *)
(* together with the positions and the map of the base class, whatever     *)
(* operations change them.  PollPoller gives the operations.               *)
(***************************************************************************)
EXTENDS Poller

VARIABLE pollFds    \* pollFds_, entries of fd and events

\* poll(2) is asked about what the clients asked for with enable* and
\* disable*: for every Event exactly that, and nothing that was not asked, each
\* descriptor once; no removal and no change of one Event ever disturbs what
\* is asked for another.  Excepted are the Events of which something was
\* disabled while nothing was enabled: their mask is then negative without
\* being kNoneEvent, what they enable next is lost, and of them it is only
\* said that nothing is watched that was not asked.
WatchedAsWanted ==
  ~shared =>
    /\ \A e \in Wanting :
         \E i \in 1 .. Len(pollFds) : pollFds[i] = [fd |-> FdOf[e], events |-> asked[e]]
    /\ \A i \in 1 .. Len(pollFds) :
         /\ pollFds[i].events # {}
         /\ pollFds[i].events \subseteq asked[events[pollFds[i].fd]]
    /\ \A i, j \in 1 .. Len(pollFds) : pollFds[i].fd = pollFds[j].fd => i = j

\* The three ways to find an entry agree: by the Event's position, by the
\* descriptor in events_, and by the entry's own descriptor.
Agreement ==
  /\ \A e \in Registered :
       /\ index[e] < Len(pollFds)
       /\ pollFds[index[e] + 1] = [fd |-> FdOf[e], events |-> listened[e]]
       /\ events[FdOf[e]] = e
  /\ \A i \in 1 .. Len(pollFds) :
       /\ events[pollFds[i].fd] # Null
       /\ index[events[pollFds[i].fd]] = i - 1
  /\ \A fd \in Fds : events[fd] # Null => events[fd] \in Registered

\* They do as long as no Event was used while its descriptor was registered
\* for another one.
EntriesAgree == ~shared => Agreement

\* poll() reports registered Events only: events_.at() never throws and no
\* cancelled Event is dispatched by a later poll.
ReportsRegistered ==
  [][active' # active => active' \subseteq Registered]_<<pollerVars, pollFds>>
=============================================================================
