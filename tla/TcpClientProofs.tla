-------------------------- MODULE TcpClientProofs ---------------------------
(* Proofs about TcpClient: its four safety invariants, for any number of   *)
(* attempts and any delays.                                                *)
EXTENDS TcpClient, SequenceTheorems, TLAPS

SocketStates == {"connecting", "established", "failed", "up", "closed", "lost"}

\* The types of the variables.
TypeOK ==
  /\ couldConnect \in BOOLEAN
  /\ state \in {"disconnected", "connecting", "connected"}
  /\ timers \in Nat
  /\ socket \in Seq(SocketStates)
  /\ watched \subseteq Attempts
  /\ connection \in Attempts \cup {None} /\ inCallback \in Attempts \cup {None}
  /\ careless \in BOOLEAN

\* While nobody was careless there is one open socket at most, and it decides
\* state_, what the poller reports and whose callback runs.
OneAtATime ==
  ~careless =>
    /\ couldConnect => state = "disconnected"
    /\ \A a \in Attempts : Pending(a) => a = event /\ state = "connecting" /\ a \in watched
    /\ \A a \in Attempts : socket[a] = "up" => Alive(a) /\ state = "connected"
    /\ \A a, b \in Attempts : socket[a] = "up" /\ socket[b] = "up" => a = b
    /\ inCallback # None =>
         inCallback = event /\ \A a \in Attempts : socket[a] = "up" => a = inCallback
    /\ epoll => watched \subseteq {event} /\ (watched # {} => state = "connecting")

\* connection_ and the connection whose callback runs.
Current ==
  \A c \in {connection, inCallback} : c # None => socket[c] = "up" \/ c \in hasty

IInv ==
  /\ TypeOK /\ OneAtATime /\ Current
  /\ RetryIsArmed /\ StaleEventsExplained

\* What one more attempt does to the sockets.
LEMMA Tried ==
  ASSUME NEW s \in Seq(SocketStates), NEW r \in SocketStates, NEW a, a = Len(s) + 1
  PROVE  /\ Append(s, "connecting") \in Seq(SocketStates)
         /\ [Append(s, "connecting") EXCEPT ![a] = r] \in Seq(SocketStates)
         /\ \A t \in {Append(s, "connecting"), [Append(s, "connecting") EXCEPT ![a] = r]} :
              /\ DOMAIN t = DOMAIN s \cup {a}
              /\ t # <<>>
              /\ \A b \in DOMAIN s : t[b] = s[b]
         /\ Append(s, "connecting")[a] = "connecting"
         /\ [Append(s, "connecting") EXCEPT ![a] = r][a] = r
         /\ a \notin DOMAIN s
<1> DEFINE t == Append(s, "connecting")
<1>1. /\ t \in Seq(SocketStates) /\ Len(t) = a /\ t[a] = "connecting"
      /\ \A b \in 1 .. Len(s) : t[b] = s[b]
  BY DEF SocketStates
<1>2. DOMAIN s = 1 .. Len(s) /\ DOMAIN t = 1 .. a /\ Len(s) \in Nat
  BY <1>1
<1>3. 1 .. a = DOMAIN s \cup {a} /\ a \notin DOMAIN s /\ a \in 1 .. a
  BY <1>2
<1>4. [t EXCEPT ![a] = r] \in Seq(SocketStates) /\ Len([t EXCEPT ![a] = r]) = a
  BY <1>1, <1>3
<1>5. t # <<>> /\ [t EXCEPT ![a] = r] # <<>>
  BY <1>1, <1>2, <1>3, <1>4
<1> QED
  BY <1>1, <1>2, <1>3, <1>4, <1>5

\* What a change of one socket does.
LEMMA Changed ==
  ASSUME NEW s \in Seq(SocketStates), NEW r \in SocketStates, NEW a \in DOMAIN s
  PROVE  /\ [s EXCEPT ![a] = r] \in Seq(SocketStates)
         /\ DOMAIN [s EXCEPT ![a] = r] = DOMAIN s
         /\ s # <<>>
OBVIOUS

\* What Attempt(s, t, d) does, the delay left out.
Outcome(s, t) ==
  LET a == Len(socket) + 1
      tried == Append(socket, "connecting")
  IN \/ /\ couldConnect' = FALSE /\ state' = "connecting"
        /\ event' = a /\ socket' = tried
        /\ \E reused \in SUBSET watched : watched' = (watched \ reused) \cup {a}
        /\ timers' = t
     \/ /\ couldConnect' = TRUE /\ state' = "disconnected"
        /\ socket' = [tried EXCEPT ![a] = "closed"] /\ timers' = t + 1
        /\ UNCHANGED <<event, watched>>
     \/ /\ couldConnect' = FALSE /\ state' = s
        /\ socket' = [tried EXCEPT ![a] = "lost"] /\ timers' = t
        /\ UNCHANGED <<event, watched>>

\* An attempt that is started while nothing is open, or by somebody careless.
LEMMA AttemptKeeps ==
  ASSUME IInv, Running,
         NEW s \in {state, "disconnected"}, NEW t \in Nat,
         Outcome(s, t),
         UNCHANGED <<connection, inCallback, kept, epoll, fault, hasty>>,
         careless' \in BOOLEAN, careless => careless',
         ~careless' => ~Busy
  PROVE  IInv'
<1> USE DEF IInv, SocketStates
<1>0. PICK a, tried : a = Len(socket) + 1 /\ tried = Append(socket, "connecting")
  OBVIOUS
<1>1. socket \in Seq(SocketStates) /\ Attempts = DOMAIN socket /\ a \notin Attempts
  BY <1>0, Tried DEF TypeOK, Attempts
<1>2. PICK r \in SocketStates :
        /\ socket' \in {tried, [tried EXCEPT ![a] = r]}
        /\ \/ /\ couldConnect' = FALSE /\ state' = "connecting"
              /\ event' = a /\ socket' = tried
              /\ \E reused \in SUBSET watched : watched' = (watched \ reused) \cup {a}
              /\ watched' \subseteq watched \cup {a} /\ a \in watched'
              /\ timers' = t
           \/ /\ couldConnect' = TRUE /\ state' = "disconnected" /\ r = "closed"
              /\ socket' = [tried EXCEPT ![a] = r] /\ timers' = t + 1
              /\ UNCHANGED <<event, watched>>
           \/ /\ couldConnect' = FALSE /\ state' = s /\ r = "lost"
              /\ socket' = [tried EXCEPT ![a] = r] /\ timers' = t
              /\ UNCHANGED <<event, watched>>
  BY <1>0 DEF Outcome
<1>3. /\ socket' \in Seq(SocketStates) /\ DOMAIN socket' = Attempts \cup {a}
      /\ socket' # <<>> /\ \A b \in Attempts : socket'[b] = socket[b]
      /\ socket' = tried => socket'[a] = "connecting"
      /\ socket' = [tried EXCEPT ![a] = r] => socket'[a] = r
  <2>1. /\ tried \in Seq(SocketStates) /\ [tried EXCEPT ![a] = r] \in Seq(SocketStates)
        /\ \A u \in {tried, [tried EXCEPT ![a] = r]} :
             /\ DOMAIN u = DOMAIN socket \cup {a}
             /\ u # <<>>
             /\ \A b \in DOMAIN socket : u[b] = socket[b]
        /\ tried[a] = "connecting" /\ [tried EXCEPT ![a] = r][a] = r
    BY <1>0, <1>1, Tried
  <2> QED
    BY <1>1, <1>2, <2>1
<1>4. Attempts' = Attempts \cup {a}
  BY <1>3 DEF Attempts
<1>5. TypeOK'
  <2>1. /\ couldConnect' \in BOOLEAN /\ timers' \in Nat /\ watched' \subseteq Attempts'
        /\ state' \in {"disconnected", "connecting", "connected"}
    <3>1. couldConnect' \in BOOLEAN
      BY <1>2
    <3>2. timers' \in Nat
      BY <1>2
    <3>3. watched' \subseteq Attempts'
      BY <1>2, <1>4 DEF TypeOK
    <3>4. state' \in {"disconnected", "connecting", "connected"}
      BY <1>2 DEF TypeOK
    <3> QED
      BY <3>1, <3>2, <3>3, <3>4
  <2> QED
    BY <1>3, <1>4, <2>1 DEF TypeOK
<1>6. OneAtATime'
  <2> SUFFICES ASSUME ~careless'  PROVE OneAtATime'
    BY DEF OneAtATime
  <2>1. /\ ~careless /\ inCallback = None /\ state # "connecting"
        /\ \A b \in Attempts : ~Pending(b) /\ socket[b] # "up"
        /\ epoll => watched = {}
    BY DEF Busy, OneAtATime, TypeOK
  <2>2. \A b \in Attempts : ~Pending(b)' /\ socket'[b] # "up"
    BY <2>1, <1>3 DEF Pending
  <2>3. CASE couldConnect' = FALSE /\ state' = "connecting" /\ event' = a /\ socket' = tried
    <3>1. a \in watched' /\ (epoll => watched' \subseteq {event'})
      BY <1>2, <2>1, <2>3
    <3>2. socket'[a] # "up"
      BY <1>3, <2>3
    <3> QED
      BY <1>4, <2>1, <2>2, <2>3, <3>1, <3>2 DEF OneAtATime
  <2>4. CASE /\ socket' = [tried EXCEPT ![a] = r] /\ r \in {"closed", "lost"}
             /\ watched' = watched /\ state' # "connecting"
             /\ couldConnect' => state' = "disconnected"
    <3>1. socket'[a] # "up" /\ ~Pending(a)'
      BY <1>3, <2>4 DEF Pending
    <3> QED
      BY <1>4, <2>1, <2>2, <2>4, <3>1 DEF OneAtATime
  <2> QED
    BY <1>2, <2>1, <2>3, <2>4
<1>7. Current'
  BY <1>1, <1>3, <1>4 DEF Current, TypeOK
<1>8. RetryIsArmed'
  BY <1>2 DEF RetryIsArmed
<1>9. StaleEventsExplained'
  BY DEF Running, StaleEventsExplained
<1> QED
  BY <1>5, <1>6, <1>7, <1>8, <1>9

\* The inductive invariant holds in every state.
LEMMA IInvHolds == Spec => []IInv
<1>1. Init => IInv
  <2> SUFFICES ASSUME Init  PROVE IInv
    OBVIOUS
  <2>1. socket \in Seq(SocketStates) /\ Attempts = {}
    BY DEF Init, Attempts
  <2>2. TypeOK
    BY <2>1 DEF Init, TypeOK
  <2>3. OneAtATime
    BY <2>1 DEF Init, OneAtATime
  <2> QED
    BY <2>2, <2>3 DEF Init, IInv, Current, RetryIsArmed, StaleEventsExplained
<1>2. IInv /\ [Next]_vars => IInv'
  <2> SUFFICES ASSUME IInv, [Next]_vars  PROVE IInv'
    OBVIOUS
  <2> USE DEF IInv
  <2>1. CASE Connect
    <3>1. PICK t \in Nat, s \in {state, "disconnected"} : t = timers /\ s = state
      BY DEF TypeOK
    <3>2. Outcome(s, t)
      BY <2>1, <3>1 DEF Connect, Attempt, Retry, RetryWith, Outcome
    <3>3. /\ Running /\ UNCHANGED <<connection, inCallback, kept, epoll, fault, hasty>>
          /\ careless' \in BOOLEAN /\ (careless => careless') /\ (~careless' => ~Busy)
      BY <2>1 DEF Connect, TypeOK
    <3> HIDE DEF IInv
    <3> QED
      BY <3>2, <3>3, AttemptKeeps
  <2>2. CASE Reconnect
    <3>1. PICK t \in Nat, s \in {state, "disconnected"} : t = timers /\ s = "disconnected"
      BY DEF TypeOK
    <3>2. Outcome(s, t)
      BY <2>2, <3>1 DEF Reconnect, Attempt, Retry, RetryWith, Outcome
    <3>3. /\ Running /\ UNCHANGED <<connection, inCallback, kept, epoll, fault, hasty>>
          /\ careless' \in BOOLEAN /\ (careless => careless') /\ (~careless' => ~Busy)
      BY <2>2 DEF Reconnect, TypeOK
    <3> HIDE DEF IInv
    <3> QED
      BY <3>2, <3>3, AttemptKeeps
  <2>3. CASE RetryTimer
    <3>1. CASE couldConnect /\ Attempt(state, timers - 1, retryDelay)
      <4>1. timers - 1 \in Nat /\ careless' \in BOOLEAN /\ (careless => careless')
        BY <2>3, <3>1 DEF RetryTimer, RetryIsArmed, TypeOK, history
      <4>2. ~careless' => ~Busy
        BY <2>3, <3>1 DEF RetryTimer, OneAtATime, Busy, history
      <4>3. Running /\ UNCHANGED <<connection, inCallback, kept, epoll, fault, hasty>>
        BY <2>3 DEF RetryTimer, history
      <4>4. PICK t \in Nat, s \in {state, "disconnected"} : t = timers - 1 /\ s = state
        BY <4>1
      <4>5. Outcome(s, t)
        BY <3>1, <4>4 DEF Attempt, Retry, RetryWith, Outcome
      <4> HIDE DEF IInv
      <4> QED
        BY <4>1, <4>2, <4>3, <4>5, AttemptKeeps
    <3>2. CASE ~couldConnect /\ timers' = timers - 1
               /\ UNCHANGED <<couldConnect, state, retryDelay, event, socket, watched>>
      <4>1. timers' \in Nat /\ Attempts' = Attempts
        BY <2>3, <3>2 DEF RetryTimer, TypeOK, Attempts
      <4> QED
        BY <2>3, <3>2, <4>1
           DEF RetryTimer, TypeOK, OneAtATime, Pending, Alive, Current, RetryIsArmed,
               StaleEventsExplained, history
    <3> QED
      BY <2>3, <3>1, <3>2 DEF RetryTimer
  <2>4. CASE StopConnecting
    <3>1. Attempts' = Attempts /\ TypeOK'
      BY <2>4 DEF StopConnecting, StopWhen, TypeOK, Attempts, history
    <3>2. OneAtATime'
      BY <2>4, <3>1 DEF StopConnecting, StopWhen, OneAtATime, Pending, Alive, history, TypeOK
    <3> QED
      BY <2>4, <3>1, <3>2
         DEF StopConnecting, StopWhen, Current, RetryIsArmed, StaleEventsExplained, history
  <2>5. CASE Keep
    BY <2>5 DEF Keep, TypeOK, Attempts, OneAtATime, Pending, Alive, Current, RetryIsArmed,
       StaleEventsExplained, connectorVars, history
  <2>6. CASE CallbackReturns
    <3>1. TypeOK' /\ Attempts' = Attempts
      BY <2>6 DEF CallbackReturns, TypeOK, Attempts, connectorVars, history
    <3>2. ~careless => \A a \in Attempts : socket[a] = "up" => Alive(a)'
      BY <2>6 DEF CallbackReturns, OneAtATime, Alive
    <3>3. OneAtATime'
      BY <2>6, <3>1, <3>2 DEF CallbackReturns, OneAtATime, Pending, connectorVars, history
    <3> QED
      BY <2>6, <3>1, <3>3 DEF CallbackReturns, OneAtATime, Current, RetryIsArmed,
         StaleEventsExplained, connectorVars, history, Running
  <2>7. ASSUME NEW a \in Attempts, ConnectionCloses(a)  PROVE IInv'
    <3>1. /\ TypeOK' /\ Attempts' = Attempts /\ socket # <<>>
          /\ socket'[a] = "closed" /\ \A b \in Attempts \ {a} : socket'[b] = socket[b]
      BY <2>7, Changed
         DEF ConnectionCloses, ClosesLeaving, TypeOK, Attempts, SocketStates, connectorVars
    <3>2. OneAtATime'
      BY <2>7, <3>1
         DEF ConnectionCloses, ClosesLeaving, OneAtATime, Pending, Alive, connectorVars
    <3>3. Current'
      BY <2>7, <3>1 DEF ConnectionCloses, ClosesLeaving, Current, TypeOK
    <3> QED
      BY <2>7, <3>1, <3>2, <3>3
         DEF ConnectionCloses, ClosesLeaving, RetryIsArmed, StaleEventsExplained,
             connectorVars, Running
  <2>8. ASSUME NEW a \in Attempts, Established(a)  PROVE IInv'
    <3>1. /\ TypeOK' /\ Attempts' = Attempts /\ socket # <<>>
          /\ socket'[a] = "up" /\ \A b \in Attempts \ {a} : socket'[b] = socket[b]
      BY <2>8, Changed DEF Established, TypeOK, Attempts, SocketStates, history
    <3>2. OneAtATime'
      BY <2>8, <3>1 DEF Established, OneAtATime, Pending, Alive, history
    <3>3. Current'
      BY <2>8, <3>1 DEF Established, Current, TypeOK, history
    <3> QED
      BY <2>8, <3>1, <3>2, <3>3
         DEF Established, RetryIsArmed, StaleEventsExplained, Running, history
  <2>9. ASSUME NEW a \in Attempts, Failed(a)  PROVE IInv'
    <3>1. /\ TypeOK' /\ Attempts' = Attempts /\ timers' > 0
          /\ socket'[a] = "closed" /\ \A b \in Attempts \ {a} : socket'[b] = socket[b]
      BY <2>9, Changed
         DEF Failed, Retry, RetryWith, Unwatched, TypeOK, Attempts, SocketStates, history
    <3>2. OneAtATime'
      BY <2>9, <3>1 DEF Failed, Retry, RetryWith, Unwatched, OneAtATime, Pending, Alive, history
    <3>3. Current'
      BY <2>9, <3>1 DEF Failed, Current, TypeOK, history
    <3> QED
      BY <2>9, <3>1, <3>2, <3>3 DEF Failed, RetryIsArmed, StaleEventsExplained, Running, history
  <2>10. ASSUME NEW a \in Attempts, StaleEvent(a)  PROVE IInv'
    BY <2>10 DEF StaleEvent, TypeOK, Attempts, OneAtATime, Pending, Alive, Current,
       RetryIsArmed, StaleEventsExplained, connectorVars, history
  <2>11. ASSUME NEW a \in Attempts, Kernel(a)  PROVE IInv'
    <3>1. /\ TypeOK' /\ Attempts' = Attempts /\ socket # <<>>
          /\ Pending(a) /\ socket'[a] \in {"established", "failed"}
          /\ \A b \in Attempts \ {a} : socket'[b] = socket[b]
      BY <2>11, Changed DEF Kernel, TypeOK, Attempts, SocketStates, Pending, connectorVars, history
    <3>2. OneAtATime'
      BY <2>11, <3>1 DEF Kernel, OneAtATime, Pending, Alive, connectorVars, history
    <3>3. Current'
      BY <2>11, <3>1 DEF Kernel, Current, TypeOK, Pending, history
    <3> QED
      BY <2>11, <3>1, <3>2, <3>3
         DEF Kernel, RetryIsArmed, StaleEventsExplained, connectorVars, Running, history
  <2>12. CASE UNCHANGED vars
    BY <2>12 DEF vars, TypeOK, Attempts, OneAtATime, Pending, Alive, Current, RetryIsArmed,
       StaleEventsExplained, connectorVars, history
  <2> QED
    BY <2>1, <2>2, <2>3, <2>4, <2>5, <2>6, <2>7, <2>8, <2>9, <2>10, <2>11, <2>12 DEF Next
<1> QED
  BY <1>1, <1>2, PTL DEF Spec

\* A Connector that could connect and has tried has a retry timer (retry,
\* start), in every order of failures, timers, stops and restarts.
THEOREM RetryTimerIsArmed == Spec => []RetryIsArmed
<1> IInv => RetryIsArmed
  BY DEF IInv
<1> QED
  BY IInvHolds, PTL

\* connection_ is an open connection or one that its connection callback
\* closed (onConnection, removeConnection).
THEOREM ConnectionStaysCurrent == Spec => []ConnectionIsCurrent
<1> IInv => ConnectionIsCurrent
  BY DEF IInv, Current, ConnectionIsCurrent
<1> QED
  BY IInvHolds, PTL

\* No socket is open without an owner (start, retry, onConnection), unless
\* attempts were started while another one or a connection was there.
THEOREM SocketsAreOwned == Spec => []OpenSocketsAreOwned
<1> IInv => OpenSocketsAreOwned
  BY DEF IInv, OneAtATime, OpenSocketsAreOwned
<1> QED
  BY IInvHolds, PTL

\* A handler meets a destroyed Event (checkConnect) only after careless calls
\* or with poll(2).
THEOREM StaleEventsAreExplained == Spec => []StaleEventsExplained
<1> IInv => StaleEventsExplained
  BY DEF IInv
<1> QED
  BY IInvHolds, PTL
=============================================================================
