----------------------------- MODULE TcpClient ------------------------------
(***************************************************************************)
(* net/Connector.cpp and net/TcpClient.cpp on the thread of their Looper.  *)
(* Attempts are numbered; the n-th has a socket, an Event of the Connector *)
(* and, once it is established, a TcpConnection, of which this module only *)
(* knows when it closes and who keeps it alive.  Handlers and timers run   *)
(* one at a time; user code runs between them and in the connection        *)
(* callback.                                                               *)
(*                                                                         *)
(* An Event does not leave the poller when it is destroyed, and neither    *)
(* does the Event of a TcpConnection.                                      *)
(***************************************************************************)
EXTENDS Naturals, Sequences

CONSTANTS
  MaxAttempts,      \* bound: calls of ::connect
  InitRetryDelay,   \* kInitRetryDelayMs
  MaxRetryDelay,    \* kMaxRetryDelayMs
  None

ASSUME TcpClientAssumption ==
  /\ MaxAttempts \in Nat /\ InitRetryDelay \in Nat \ {0}
  /\ MaxRetryDelay \in Nat /\ InitRetryDelay <= MaxRetryDelay


VARIABLES
  couldConnect, state, retryDelay,  \* of the Connector
  event,            \* the attempt event_ was made for
  timers,           \* retry timers that have not run
  connection,       \* connection_: an attempt
  inCallback,       \* the attempt whose connection callback runs
  kept,             \* connections the user holds a copy of
  socket,           \* per attempt: what became of its socket
  watched,          \* Connector's Events the poller reports
  epoll,            \* which poller: epoll forgets a descriptor that is closed
  fault,            \* what a handler used after its destruction
  careless,         \* history: attempts were started while another one, a
                    \* connection or a connection callback was there
  hasty             \* history: connections closed in their connection callback

connectorVars == <<couldConnect, state, retryDelay, event, timers>>
history == <<careless, hasty>>
vars == <<connectorVars, connection, inCallback, kept, socket, watched, epoll,
          fault, history>>

Attempts == DOMAIN socket

Init ==
  /\ couldConnect = TRUE /\ state = "disconnected"
  /\ retryDelay = InitRetryDelay
  /\ event = None /\ timers = 0
  /\ connection = None /\ inCallback = None /\ kept = {}
  /\ socket = <<>> /\ watched = {}
  /\ epoll \in BOOLEAN
  /\ fault = "none"
  /\ careless = FALSE /\ hasty = {}

-----------------------------------------------------------------------------
Doubled(d) == IF 2 * d < MaxRetryDelay THEN 2 * d ELSE MaxRetryDelay

\* Mutant: the descriptor stays open.
UnwatchedNever(closed) == watched

\* What the poller still reports when the descriptors of closed are closed.
Unwatched(closed) == IF epoll THEN watched \ closed ELSE watched

\* retry(), for the attempt a that leaves s as sockets and t as timers, with
\* the delay d.
RetryWith(a, s, t, d) ==
  /\ couldConnect' = TRUE
  /\ state' = "disconnected"
  /\ socket' = [s EXCEPT ![a] = "closed"]
  /\ timers' = t
  /\ retryDelay' = Doubled(d)

\* Mutant: no timer is started.
RetryWithoutTimer(a, s, t, d) == RetryWith(a, s, t, d)

Retry(a, s, t, d) == RetryWith(a, s, t + 1, d)

\* start() past its guard: ::connect goes on, fails for now, or fails with an
\* error that is thrown.  The kernel may hand out the descriptor of a closed
\* attempt again; the new Event then takes its place in the poller.
Attempt(s, t, d) ==
  LET a == Len(socket) + 1
      tried == Append(socket, "connecting")
  IN /\ a <= MaxAttempts
     /\ \/ /\ couldConnect' = FALSE /\ state' = "connecting"
           /\ event' = a /\ socket' = tried
           /\ \E reused \in {{}} \cup {{b} : b \in watched} :
                /\ \A b \in reused : socket[b] = "closed"
                /\ watched' = (watched \ reused) \cup {a}
           /\ timers' = t /\ retryDelay' = d
        \/ Retry(a, tried, t, d) /\ UNCHANGED <<event, watched>>
        \/ /\ couldConnect' = FALSE /\ state' = s
           /\ socket' = [tried EXCEPT ![a] = "lost"]
           /\ timers' = t /\ retryDelay' = d
           /\ UNCHANGED <<event, watched>>

Busy ==
  \/ state = "connecting" \/ inCallback # None
  \/ \E a \in Attempts : socket[a] = "up"

-----------------------------------------------------------------------------
(* What user code calls.  connect() when start() would return and stop()    *)
(* when its guard holds back are no steps.                                  *)

Running == fault = "none"

Connect ==
  /\ Running /\ couldConnect
  /\ Attempt(state, timers, retryDelay)
  /\ careless' = (careless \/ Busy)
  /\ UNCHANGED <<connection, inCallback, kept, epoll, fault, hasty>>

Reconnect ==
  /\ Running
  /\ Attempt("disconnected", timers, InitRetryDelay)
  /\ careless' = (careless \/ Busy)
  /\ UNCHANGED <<connection, inCallback, kept, epoll, fault, hasty>>

StopWhen(guard) ==
  /\ Running /\ guard
  /\ state' = "disconnected"
  /\ watched' = watched \ {event}
  /\ UNCHANGED <<couldConnect, retryDelay, event, timers, connection, inCallback,
                 kept, socket, epoll, fault, history>>

\* Mutant: stop() returns while it could connect.
StopTheAttempt == StopWhen(~couldConnect)

\* The guard of stop() lets it act only while no attempt is under way, and the
\* retry timer stays.
StopConnecting == StopWhen(couldConnect)

Keep ==
  /\ Running /\ connection # None
  /\ kept' = kept \cup {connection}
  /\ UNCHANGED <<connectorVars, connection, inCallback, socket, watched, epoll, fault, history>>

-----------------------------------------------------------------------------
(* The connection.                                                         *)

Alive(c) == c \in {connection, inCallback} \cup kept

ClosesLeaving(c, rest) ==
  /\ Running /\ socket[c] = "up"
  /\ socket' = [socket EXCEPT ![c] = "closed"]
  /\ connection' = rest
  /\ fault' = IF c \in kept \cup {inCallback} THEN fault ELSE "connection"
  /\ hasty' = IF c = inCallback THEN hasty \cup {c} ELSE hasty
  /\ UNCHANGED <<connectorVars, inCallback, kept, watched, epoll, careless>>

\* Mutant: removeConnection() does not reset connection_.
ClosesOnly(c) == ClosesLeaving(c, connection)

\* handleClose() and removeConnection(), also from disconnect(): connection_
\* is reset, whichever connection it is, and then the close callback gets the
\* connection, which is destroyed unless somebody else holds it.
ConnectionCloses(c) == ClosesLeaving(c, None)

\* The write callback when the attempt succeeded: the Event is cancelled,
\* onConnection() makes the TcpConnection, connectComplete() registers it and
\* calls the connection callback.
Established(a) ==
  /\ Running /\ inCallback = None
  /\ a \in watched /\ a = event /\ state = "connecting" /\ socket[a] = "established"
  /\ watched' = watched \ {a}
  /\ state' = "connected"
  /\ socket' = [socket EXCEPT ![a] = "up"]
  /\ inCallback' = a
  /\ UNCHANGED <<couldConnect, retryDelay, event, timers, connection, kept, epoll,
                 fault, history>>

\* The connection callback has returned: connection_ is assigned, and the
\* dispatch goes on in the Event of the Connector.
CallbackReturns ==
  /\ Running /\ inCallback # None
  /\ connection' = inCallback
  /\ fault' = IF event = inCallback THEN fault ELSE "event"
  /\ inCallback' = None
  /\ UNCHANGED <<connectorVars, kept, socket, watched, epoll, history>>

-----------------------------------------------------------------------------
(* The Connector's Event and timers.                                       *)

\* The write callback of an attempt that failed, or whose error callback runs
\* alone: the second does not cancel the Event.
Failed(a) ==
  /\ Running /\ inCallback = None
  /\ a \in watched /\ a = event /\ state = "connecting"
  /\ socket[a] = "failed"
  /\ Retry(a, socket, timers, retryDelay)
  /\ watched' \in {watched \ {a}, Unwatched({a})}
  /\ UNCHANGED <<event, connection, inCallback, kept, epoll, fault, history>>

\* The poller hands out an Event that was destroyed.
StaleEvent(a) ==
  /\ Running /\ inCallback = None
  /\ a \in watched /\ a # event
  /\ fault' = "event"
  /\ UNCHANGED <<connectorVars, connection, inCallback, kept, socket, watched, epoll, history>>

\* Mutant: the timer does not look at couldConnect.
RetryTimerUnguarded ==
  /\ Running /\ inCallback = None /\ timers > 0
  /\ Attempt(state, timers - 1, retryDelay)
  /\ UNCHANGED <<connection, inCallback, kept, epoll, fault, history>>

RetryTimer ==
  /\ Running /\ inCallback = None /\ timers > 0
  /\ \/ couldConnect /\ Attempt(state, timers - 1, retryDelay)
     \/ /\ ~couldConnect
        /\ timers' = timers - 1
        /\ UNCHANGED <<couldConnect, state, retryDelay, event, socket, watched>>
  /\ UNCHANGED <<connection, inCallback, kept, epoll, fault, history>>

\* The kernel: an attempt succeeds or fails, also after it succeeded.
Kernel(a) ==
  /\ Running
  /\ \/ socket[a] = "connecting" /\ socket' \in {[socket EXCEPT ![a] = r] : r \in {"established", "failed"}}
     \/ socket[a] = "established" /\ socket' = [socket EXCEPT ![a] = "failed"]
  /\ UNCHANGED <<connectorVars, connection, inCallback, kept, watched, epoll, fault, history>>

Next ==
  \/ Connect \/ Reconnect \/ StopConnecting \/ Keep
  \/ \E a \in Attempts : ConnectionCloses(a) \/ Established(a) \/ Failed(a) \/ StaleEvent(a) \/ Kernel(a)
  \/ CallbackReturns
  \/ RetryTimer

Spec == Init /\ [][Next]_vars

\* The poller reports what is ready, timers run, attempts succeed or fail in
\* the end, and the connection callback returns.
FairSpec ==
  /\ Spec
  /\ WF_vars(CallbackReturns) /\ WF_vars(RetryTimer)
  /\ \A a \in 1 .. MaxAttempts :
       /\ WF_vars(a \in Attempts /\ (Established(a) \/ Failed(a)))
       /\ WF_vars(a \in Attempts /\ socket[a] = "connecting" /\ Kernel(a))

-----------------------------------------------------------------------------
Pending(a) == socket[a] \in {"connecting", "established", "failed"}

\* A socket is open only while somebody is responsible for it: there is one
\* attempt at most, which event_ watches, and an open connection is one that
\* connection_, the running callback or the user holds (start, retry,
\* removeConnection, onConnection).  Attempts started while another one or a
\* connection was there are the exception.
OpenSocketsAreOwned ==
  careless \/ \A a \in Attempts :
    /\ Pending(a) => a = event /\ state = "connecting" /\ a \in watched
    /\ socket[a] = "up" => Alive(a) /\ state = "connected"

\* A handler meets a destroyed Event of the Connector only if attempts were
\* started while another one, or a connection callback, was there, or if the
\* poller is poll(2), which goes on reporting a descriptor that retry() closed
\* without a cancel (checkConnect).
StaleEventsExplained == fault = "event" => careless \/ ~epoll

\* connection_ names an open connection, but for one that was closed in its
\* connection callback, before onConnection() assigned it.
ConnectionIsCurrent ==
  connection # None => socket[connection] = "up" \/ connection \in hasty

\* A Connector that could connect, and has tried, has a retry timer: no order
\* of failures, timers, stops and restarts leaves it waiting for nothing.
RetryIsArmed == couldConnect /\ socket # <<>> => timers > 0

\* Every attempt is established or given up, its socket closed: none is
\* forgotten by a retry that another one overtakes.
AttemptsEnd ==
  \A a \in 1 .. MaxAttempts :
    (a \in Attempts /\ socket[a] = "connecting")
      ~> ((a \in Attempts /\ socket[a] \in {"up", "closed"}) \/ careless \/ fault # "none")
=============================================================================
