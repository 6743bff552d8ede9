----------------------------- MODULE TcpServer ------------------------------
(***************************************************************************)
(* net/TcpServer.cpp with net/Acceptor.cpp and net/thread/                 *)
(* ReactorThreadPoll.cpp: the main thread accepts connections and hands    *)
(* them to Loopers, its own or those of the pool, whose threads publish    *)
(* them in reactors_.  A connection is what the server knows of it: its    *)
(* Looper, and whether its Event is registered.  Loopers are their threads *)
(* here; what a Looper does with its queue is the matter of Looper.  Of    *)
(* the main Looper there is the iteration: what it has still to call, in   *)
(* any order.  User code may run in any of these calls.                    *)
(*                                                                         *)
(* The code uses objects after their end: where that may go well, the      *)
(* model takes both courses, and outcome names the use that did not.  The  *)
(* unlocked accesses to reactors_ are atomic.  Closures that other threads *)
(* queue for a connection of the main thread are left out.                 *)
(***************************************************************************)
EXTENDS Naturals, Sequences, FiniteSets, SequencesExt

CONSTANTS
  Threads,          \* threads a pool may have
  Pools,            \* the pools looked at: sets of threads
  Main,             \* the thread of looper_
  MaxConns          \* bound: connections accepted

ASSUME TcpServerAssumption ==
  /\ Main \notin Threads /\ MaxConns \in Nat
  /\ Pools \subseteq SUBSET Threads /\ IsFiniteSet(Threads)

VARIABLES
  pool,             \* the threads of threads_
  reactors,         \* reactors_
  thread,           \* where each of them is in the lambda of start()
  stopped,          \* stop_ of each Looper
  index,            \* index_, counted from 1
  strategy,         \* strategy_
  main,             \* what the main thread does: "ending" is the rest of the
                    \* iteration after shutdown(), "stopping" the destructor
  batch,            \* what the iteration of looper_ has still to call: the
                    \* Acceptor, and connections, by their Events or by
                    \* closures that handleWrite() queued
  stopIndex,        \* i in stop()
  listening,        \* listen_
  backlog,          \* connections the kernel has for accept()
  conns,            \* the connections in the order of onConnection()
  connections,      \* connections_
  tasks,            \* per Looper of the pool: its closures of this module
  unclosed,         \* connections shutdown() has still to go through
  cleared,          \* history: shutdown() has cleared connections_
  outcome           \* "ok", "aborted" by LOG_FATAL, or the use of
                    \*   "freed":    a connection that its own close destroyed
                    \*   "stale":    a destroyed connection in activeEvents_
                    \*   "polled":   a destroyed connection in a poller
                    \*   "dangling": an argument of a setter, from its closure
                    \*   "entry":    an entry of the map that is gone

poolVars == <<pool, reactors, thread, stopped, index, strategy>>
mainVars == <<main, batch, stopIndex, listening, backlog, cleared>>
connVars == <<conns, connections, tasks, unclosed>>
vars == <<poolVars, mainVars, connVars, outcome>>

Conns == DOMAIN conns
Open == {c \in Conns : conns[c].state \in {"queued", "up"}}

\* The Acceptor's Event in batch; the others are connections.
Acceptor == 0

Init ==
  /\ pool \in Pools
  /\ reactors = <<>>
  /\ thread = [t \in Threads |-> "none"]
  /\ stopped = [t \in Threads |-> FALSE]
  /\ index = 1 /\ strategy \in {"roundRobin", "lightest"}
  /\ main = "new" /\ batch = {} /\ stopIndex = 1 /\ listening = FALSE
  /\ backlog = 0 /\ cleared = FALSE
  /\ conns = <<>> /\ connections = {}
  /\ tasks = [t \in Threads |-> <<>>]
  /\ unclosed = {}
  /\ outcome = "ok"

Ok == outcome = "ok"

-----------------------------------------------------------------------------
(* ReactorThreadPoll.                                                      *)

\* A thread makes its Looper and publishes it.
Publish(t) ==
  /\ Ok /\ thread[t] = "created"
  /\ reactors' = Append(reactors, t)
  /\ thread' = [thread EXCEPT ![t] = "published"]
  /\ UNCHANGED <<pool, stopped, index, strategy, mainVars, connVars, outcome>>

\* reactors_.back()->start(), which may be the Looper of another thread; its
\* first lines reset stop_.
StartLooper(t) ==
  /\ Ok /\ thread[t] = "published"
  /\ IF Last(reactors) = t
     THEN /\ thread' = [thread EXCEPT ![t] = "looping"]
          /\ stopped' = [stopped EXCEPT ![t] = FALSE]
          /\ UNCHANGED outcome
     ELSE outcome' = "aborted" /\ UNCHANGED <<thread, stopped>>
  /\ UNCHANGED <<pool, reactors, index, strategy, mainVars, connVars>>

LeaveLoop(t) ==
  /\ Ok /\ thread[t] = "looping" /\ stopped[t]
  /\ thread' = [thread EXCEPT ![t] = "returned"]
  /\ UNCHANGED <<pool, reactors, stopped, index, strategy, mainVars, connVars, outcome>>

stopRest == <<pool, reactors, thread, index, strategy, main, batch, listening, backlog, cleared>>

\* Mutant: the loop over reactors_ starts with the second.
StopNextFromSecond ==
  /\ Ok /\ main = "stopping" /\ stopIndex < Len(reactors)
  /\ stopped' = [stopped EXCEPT ![reactors[stopIndex + 1]] = TRUE]
  /\ stopIndex' = stopIndex + 1
  /\ UNCHANGED <<stopRest, connVars, outcome>>

\* stop(), from the destructor of the server.
StopNext ==
  /\ Ok /\ main = "stopping" /\ stopIndex <= Len(reactors)
  /\ stopped' = [stopped EXCEPT ![reactors[stopIndex]] = TRUE]
  /\ stopIndex' = stopIndex + 1
  /\ UNCHANGED <<stopRest, connVars, outcome>>

Join ==
  /\ Ok /\ main = "stopping" /\ stopIndex > Len(reactors)
  /\ \A t \in pool : thread[t] = "returned"
  /\ reactors' = <<>>
  /\ main' = "done"
  /\ UNCHANGED <<pool, thread, stopped, index, strategy, batch, stopIndex, listening, backlog,
                 cleared, connVars, outcome>>

\* getNext(): the index of the Looper, and index_ behind it.
NextIndex == IF index = Len(reactors) + 1 THEN 2 ELSE index + 1

-----------------------------------------------------------------------------
(* The main thread.                                                        *)

\* Acceptor::listen()
Listen == listening' = TRUE

Start ==
  /\ Ok /\ main = "new"
  /\ main' = "looping"
  /\ thread' = [t \in Threads |-> IF t \in pool THEN "created" ELSE "none"]
  /\ Listen
  /\ UNCHANGED <<pool, reactors, stopped, index, strategy, batch, stopIndex, backlog, cleared,
                 connVars, outcome>>

\* The kernel completes a connection to the port.
Arrive ==
  /\ Ok /\ main # "new" /\ Len(conns) + backlog < MaxConns
  /\ backlog' = backlog + 1
  /\ UNCHANGED <<poolVars, main, batch, stopIndex, listening, cleared, connVars, outcome>>

\* A connection exists as long as the map or a closure has a pointer to it.
Alive(c) ==
  c \in connections \/
  \E t \in Threads : \E i \in DOMAIN tasks[t] :
    tasks[t][i] = [op |-> "connect", conn |-> c]

\* The poller of looper_ reports Events of connections, and the Acceptor's as
\* long as it is registered and the kernel has a connection.
Poll ==
  /\ Ok /\ main = "looping" /\ batch = {}
  /\ \E active \in SUBSET {c \in Conns : conns[c] = [loop |-> Main, state |-> "up"]} :
       batch' = active \cup IF listening /\ backlog > 0 THEN {Acceptor} ELSE {}
  /\ UNCHANGED <<poolVars, main, stopIndex, listening, backlog, cleared, connVars, outcome>>

\* The iteration calls e.
Calls(e) ==
  /\ Ok /\ main \in {"looping", "ending"}
  /\ e \in batch /\ batch' = batch \ {e}

\* An Event of a connection, or a closure of it.
Handle(c) ==
  /\ Calls(c)
  /\ outcome' = IF Alive(c) THEN outcome ELSE "stale"
  /\ UNCHANGED <<poolVars, main, stopIndex, listening, backlog, cleared, connVars>>

\* onConnection(), for a connection that belongs to the Looper l: run()
\* executes closures at once if that is the own one.  The setters' closures
\* stand in one.
NewConnection(l) ==
  LET c == Len(conns) + 1
  IN /\ conns' = Append(conns, [loop |-> l, state |-> IF l = Main THEN "up" ELSE "queued"])
     /\ connections' = connections \cup {c}
     /\ tasks' = IF l = Main THEN tasks
                 ELSE [tasks EXCEPT ![l] = @ \o <<[op |-> "set", conn |-> c],
                                                  [op |-> "connect", conn |-> c]>>]

\* getLightest() compares the numbers of Events that the last polls reported:
\* any Looper may have the least.
Lightest == 1 .. Len(reactors)

\* Mutant: a failure cancels the Event.
AcceptFailsForGood ==
  /\ Calls(Acceptor)
  /\ listening' = FALSE
  /\ UNCHANGED <<poolVars, main, stopIndex, backlog, cleared, connVars, outcome>>

\* onAccept() catches what accept() throws, for want of a descriptor for one,
\* and the Event stays.
AcceptFails ==
  /\ Calls(Acceptor)
  /\ UNCHANGED <<poolVars, main, stopIndex, listening, backlog, cleared, connVars, outcome>>

\* onAccept() takes one connection, also when shutdown() ran earlier in the
\* iteration.
Accept ==
  /\ Calls(Acceptor)
  /\ backlog' = backlog - 1
  /\ \/ /\ reactors = <<>>
        /\ NewConnection(Main)
        /\ UNCHANGED index
     \/ /\ reactors # <<>> /\ strategy = "roundRobin"
        /\ index' = NextIndex
        /\ NewConnection(reactors[NextIndex - 1])
     \/ /\ reactors # <<>> /\ strategy = "lightest"
        /\ \E i \in Lightest : NewConnection(reactors[i])
        /\ UNCHANGED index
  /\ UNCHANGED <<pool, reactors, thread, stopped, strategy, main, stopIndex, listening, cleared,
                 unclosed, outcome>>

\* shutdown(), by user code in any call of the iteration, perhaps once more.
Shutdown ==
  /\ Ok /\ main \in {"looping", "ending"}
  /\ main' = "shutdown"
  /\ listening' = FALSE
  /\ unclosed' = connections
  /\ UNCHANGED <<poolVars, batch, stopIndex, backlog, cleared, conns, connections, tasks, outcome>>

\* One round of its loop: forceCloseWithoutCallback() at once or as a closure
\* that refers to the entry of the map.
ShutdownCloses(c) ==
  /\ Ok /\ main = "shutdown" /\ c \in unclosed
  /\ unclosed' = unclosed \ {c}
  /\ IF conns[c].loop = Main
     THEN conns' = [conns EXCEPT ![c].state = "closed"] /\ UNCHANGED tasks
     ELSE /\ tasks' = [tasks EXCEPT ![conns[c].loop] = Append(@, [op |-> "close", conn |-> c])]
          /\ UNCHANGED conns
  /\ UNCHANGED <<poolVars, mainVars, connections, outcome>>

\* connections_.clear() and looper_.stop().  If shutdown() was called in a
\* callback of a connection of this thread, that has still to return.
ShutdownClears ==
  /\ Ok /\ main = "shutdown" /\ unclosed = {}
  /\ connections' = {} /\ cleared' = TRUE
  /\ main' = "ending"
  /\ \/ UNCHANGED outcome
     \/ outcome' = "freed" /\ \E c \in connections : conns[c].loop = Main
  /\ UNCHANGED <<poolVars, batch, stopIndex, listening, backlog, conns, tasks, unclosed>>

\* looper_.start() returns after the iteration, and the server is destroyed,
\* connections_ before threadPoll_.
Destroy ==
  /\ Ok /\ main = "ending" /\ batch = {}
  /\ main' = "stopping"
  /\ connections' = {}
  /\ UNCHANGED <<poolVars, batch, stopIndex, listening, backlog, cleared, conns, tasks, unclosed,
                 outcome>>

-----------------------------------------------------------------------------
(* The threads of connections.                                             *)

Runs(l) == IF l = Main THEN main \in {"looping", "ending"} ELSE thread[l] = "looping"
Polls(l) == IF l = Main THEN main = "looping" /\ batch = {} ELSE thread[l] = "looping"

\* A closure: of the setters, which refer to arguments of theirs that are
\* gone or may be, connectComplete(), or forceCloseWithoutCallback() of
\* shutdown(), whose reference is valid until the map is cleared.
RunTask(t) ==
  /\ Ok /\ thread[t] = "looping" /\ tasks[t] # <<>>
  /\ tasks' = [tasks EXCEPT ![t] = Tail(@)]
  /\ LET task == Head(tasks[t])
         Becomes(state) == conns' = [conns EXCEPT ![task.conn].state = state]
     IN \/ task.op = "set" /\ outcome' \in {"ok", "dangling"} /\ UNCHANGED conns
        \/ task.op = "connect" /\ Becomes("up") /\ UNCHANGED outcome
        \/ task.op = "close" /\ IF task.conn \in connections
                                THEN Becomes("closed") /\ UNCHANGED outcome
                                ELSE outcome' = "entry" /\ UNCHANGED conns
  /\ UNCHANGED <<poolVars, mainVars, connections, unclosed>>

\* connections_.erase() destroys the connection, whose callers go on with it.
Removed(c, state, rest) ==
  /\ conns' = [conns EXCEPT ![c].state = state]
  /\ connections' = rest
  /\ outcome' \in {"ok", "freed"}

\* Mutants: the entry of the map stays; the Event is not cancelled.
CloseKeepsEntry(c) == Removed(c, "closed", connections)
CloseKeepsEvent(c) == Removed(c, "up", connections \ {c})

\* handleClose() and removeConnection() on the main thread.
RemoveConnection(c) == Removed(c, "closed", connections \ {c})

\* The peer or user code closes a connection: its thread calls
\* removeConnection(), which asserts that it is the main thread.
Closes(c) ==
  /\ Ok /\ conns[c].state = "up" /\ Runs(conns[c].loop) /\ Alive(c)
  /\ IF conns[c].loop = Main
     THEN RemoveConnection(c)
     ELSE outcome' = "aborted" /\ UNCHANGED <<conns, connections>>
  /\ UNCHANGED <<poolVars, mainVars, tasks, unclosed>>

\* A connection that was destroyed with its Event registered is met by the
\* poller or the loop.
Meets(c) ==
  /\ Ok /\ conns[c].state = "up" /\ Polls(conns[c].loop) /\ ~Alive(c)
  /\ outcome' = "polled"
  /\ UNCHANGED <<poolVars, mainVars, connVars>>

Next ==
  \/ \E t \in Threads : Publish(t) \/ StartLooper(t) \/ LeaveLoop(t) \/ RunTask(t)
  \/ Arrive \/ Start \/ Poll \/ Accept \/ AcceptFails
  \/ Shutdown \/ ShutdownClears \/ Destroy \/ StopNext \/ Join
  \/ \E c \in Conns : Handle(c) \/ ShutdownCloses(c) \/ Closes(c) \/ Meets(c)

Spec == Init /\ [][Next]_vars

\* Every thread is scheduled, and accept() does not fail whenever it is
\* called.
FairSpec ==
  /\ Spec
  /\ WF_vars(Poll) /\ WF_vars(\E c \in Conns : Handle(c)) /\ SF_vars(Accept)
  /\ WF_vars(ShutdownClears) /\ WF_vars(Destroy) /\ WF_vars(StopNext) /\ WF_vars(Join)
  /\ \A t \in Threads :
       WF_vars(Publish(t)) /\ WF_vars(StartLooper(t)) /\ SF_vars(LeaveLoop(t))

-----------------------------------------------------------------------------
\* While the server accepts, its map holds exactly the connections that are
\* open or about to be: no close is missed and none is destroyed while its
\* Event is registered (onConnection, removeConnection).  A server without a
\* pool leaves at most one connection open after shutdown(), one that the
\* Acceptor took later in the same iteration; the map holds that one until the
\* server is destroyed.
MapHoldsOpenConnections ==
  Ok =>
    /\ main = "looping" => connections = Open
    /\ pool = {} /\ main = "ending" =>
         connections = Open /\ (Acceptor \in batch => Open = {})
    /\ pool = {} /\ main \in {"ending", "stopping", "done"} =>
         \A c, d \in Open : c = d

\* What can end the program.  The assertions fail only with a pool: of several
\* threads, that start each other's Loopers, or with a connection that closes
\* on its own thread; with such a connection only, a closure of a setter meets
\* an argument that is gone.  What the main thread uses after its end is a
\* connection of its own that was closed.  And no poller has a connection that
\* is destroyed, and no closure an entry of the map that is gone, before
\* shutdown() has cleared the map under the pool's closures.
EndsExplained ==
  /\ outcome = "aborted" =>
       Cardinality(pool) > 1 \/ \E c \in Conns : conns[c].loop # Main
  /\ outcome = "dangling" => \E c \in Conns : conns[c].loop # Main
  /\ outcome \in {"freed", "stale"} =>
       \E c \in Conns : conns[c] = [loop |-> Main, state |-> "closed"]
  /\ outcome \in {"polled", "entry"} => cleared /\ pool # {}

AllLooping == \A t \in pool : thread[t] = "looping"

\* The destructor returns, if every thread of the pool had started its Looper
\* when it began: a Looper that is not yet there, or whose start() resets
\* stop_, is never joined.
StopReturns ==
  (main = "stopping" /\ stopIndex = 1 /\ AllLooping) ~> (main = "done" \/ ~Ok)

\* A connection the kernel has completed is accepted, although accept() has
\* failed before (Acceptor::onAccept), unless the server is shut down.
BacklogIsAccepted ==
  (backlog > 0 /\ main = "looping") ~> (backlog = 0 \/ main # "looping" \/ ~Ok)
=============================================================================
