--------------------------- MODULE TcpConnection ---------------------------
(***************************************************************************)
(* One connection, net/TcpConnection.cpp, on the thread of its Looper: the *)
(* handlers of its Event, the operations that user code calls, and the     *)
(* tasks that shutdown and forceClose of other threads leave in the queue  *)
(* of the Looper.  The kernel's end of the socket and the peer are         *)
(* external.                                                               *)
(*                                                                         *)
(* All callbacks but the high water one are the last thing their caller    *)
(* does, so that user code is modelled as running between two steps.  A    *)
(* send() that calls the high water callback is split around it; in the    *)
(* callback user code may do what it does elsewhere, send() included, so   *)
(* that several send()s may be under way, each in the callback of the one  *)
(* before it.                                                              *)
(*                                                                         *)
(* send() of another thread is left out: its closure captures the caller's *)
(* arguments by reference.  The owner of the connection keeps it alive.    *)
(***************************************************************************)
EXTENDS Naturals, Sequences, EventMask

CONSTANTS
  Callers,          \* threads other than the loop's, one call each
  MaxBytes,         \* bound: bytes handed to send() over the whole run
  MaxSend,          \* bound: bytes of one send()
  Room,             \* space of the kernel's send buffer
  HighWaterMark,    \* highWaterMark_
  HighWaterCalls    \* does the high water callback call the connection?

ASSUME TcpConnectionAssumption ==
  /\ MaxBytes \in Nat /\ MaxSend \in Nat /\ HighWaterMark \in Nat
  /\ Room \in Nat \ {0}
  /\ HighWaterCalls \in BOOLEAN

VARIABLES
  state,            \* state_
  listened,         \* listened mask of event_
  happened,         \* happened mask of event_: what the last poll reported
  sendBuf,          \* readable bytes of sendBuffer_
  held,             \* bytes that send()s in a high water callback have still
                    \* to append, those of the innermost first
  below,            \* for each of these send()s, the innermost first: how
                    \* many bytes of held are of the send()s outside it
  pc,               \* next branch of Event::handle, "loop" outside it
  inUser,           \* is user code on the stack?
  queue,            \* closures of this connection in the Looper's queue
  call,             \* per caller: the operation whose guard it passed
  offered,          \* history: bytes handed to send()
  interrupted,      \* history: a high water callback closed
  nested,           \* history: a high water callback called send()
  open,             \* socket: the descriptor is open
  shut,             \* socket: the write side is shut down
  room,             \* socket: free space of the send buffer
  inbox,            \* socket: data to read
  peer,             \* "up", "fin" or "reset"
  wire              \* history: bytes the kernel accepted

connVars == <<state, listened, happened, sendBuf, held, below>>
ctlVars == <<pc, inUser, queue, call>>
sockVars == <<open, shut, room, inbox, peer, wire>>
histVars == <<offered, interrupted, nested>>
vars == <<connVars, ctlVars, histVars, sockVars>>

Ops == {"shutdown", "forceClose", "quietClose"}

\* Bytes are numbered in the order of send(); Garbage is a byte that no
\* send() contained.
Garbage == 0

Init ==
  /\ state = "connecting"
  /\ listened = kNoneEvent
  /\ happened = {}
  /\ sendBuf = <<>>
  /\ held = <<>>
  /\ below = <<>>
  /\ pc = "loop"
  /\ inUser = FALSE
  /\ queue = <<>>
  /\ call = [p \in Callers |-> "ready"]
  /\ offered = 0
  /\ interrupted = FALSE
  /\ nested = FALSE
  /\ open = TRUE
  /\ shut = FALSE
  /\ room = Room
  /\ inbox = FALSE
  /\ peer = "up"
  /\ wire = <<>>

-----------------------------------------------------------------------------
(* The socket.                                                             *)

CanWrite == open /\ ~shut /\ peer # "reset"

\* ::write takes what fits.
Accepted(data) ==
  IF ~CanWrite THEN 0 ELSE IF Len(data) <= room THEN Len(data) ELSE room

\* ::write returns -1, which Socket::write hands on as the largest size_t:
\* its test for a negative size_t never holds.
WriteFails(data) == ~CanWrite \/ (data # <<>> /\ room = 0)

SocketWrite(data) ==
  /\ wire' = wire \o SubSeq(data, 1, Accepted(data))
  /\ room' = room - Accepted(data)
  /\ UNCHANGED <<open, shut, inbox, peer>>

\* event_.cancel() and socket_.close().
CloseSocket ==
  /\ listened' = kNoneEvent
  /\ open' = FALSE
  /\ UNCHANGED <<happened, sendBuf, held, below, shut, room, inbox, peer, wire>>

\* The peer reads, sends, closes or resets.
Drain ==
  /\ open /\ room < Room
  /\ room' = Room
  /\ UNCHANGED <<connVars, ctlVars, histVars, open, shut, inbox, peer, wire>>

PeerSends ==
  /\ open /\ peer = "up" /\ ~inbox
  /\ inbox' = TRUE
  /\ UNCHANGED <<connVars, ctlVars, histVars, open, shut, room, peer, wire>>

PeerCloses(how) ==
  /\ open
  /\ peer = "up" \/ (peer = "fin" /\ how = "reset")
  /\ peer' = how
  /\ UNCHANGED <<connVars, ctlVars, histVars, open, shut, room, inbox, wire>>

-----------------------------------------------------------------------------
(* What user code calls on the loop's thread.                              *)

InUser == IF held = <<>> THEN pc = "loop" \/ inUser ELSE HighWaterCalls

\* Event::writable looks at what the last poll reported.
Writable == "W" \in happened

ConnectComplete ==
  /\ pc = "loop" /\ state = "connecting"
  /\ state' = "connected"
  /\ listened' = Enabled(listened, "R")
  /\ UNCHANGED <<happened, sendBuf, held, below, ctlVars, histVars, sockVars>>

Buffered(rest) ==
  /\ sendBuf' = sendBuf \o rest
  /\ listened' = IF Writable THEN listened ELSE Enabled(listened, "W")

\* The bytes send() keeps after a first write of data: a write that failed
\* counts as SIZE_MAX bytes, which makes the rest start one byte before data.
Rest(data, first) ==
  IF first /\ WriteFails(data) THEN <<Garbage>> \o data
  ELSE SubSeq(data, 1 + (IF first THEN Accepted(data) ELSE 0), Len(data))

SendWhen(k, first) ==
  LET data == [i \in 1 .. k |-> offered + i]
      rest == Rest(data, first)
  IN /\ InUser /\ state = "connected"
     /\ offered + k <= MaxBytes
     /\ offered' = offered + k
     /\ nested' = (nested \/ held # <<>>)
     /\ SocketWrite(IF first THEN data ELSE <<>>)
     /\ \/ /\ rest = <<>>
           /\ UNCHANGED <<sendBuf, listened, held, below>>
        \/ /\ rest # <<>> /\ Len(sendBuf \o rest) < HighWaterMark
           /\ Buffered(rest)
           /\ UNCHANGED <<held, below>>
        \/ /\ rest # <<>> /\ Len(sendBuf \o rest) >= HighWaterMark
           /\ held' = rest \o held
           /\ below' = <<Len(held)>> \o below
           /\ UNCHANGED <<sendBuf, listened>>
     /\ UNCHANGED <<state, happened, ctlVars, interrupted>>

\* Mutant: a first send does not look at the buffer.
SendIgnoresBuffer(k) == SendWhen(k, ~Writable)

Send(k) == SendWhen(k, ~Writable /\ sendBuf = <<>>)

\* The innermost high water callback returns to its send().
FinishSend ==
  LET own == Len(held) - Head(below)
  IN /\ held # <<>>
     /\ Buffered(SubSeq(held, 1, own))
     /\ held' = SubSeq(held, own + 1, Len(held))
     /\ below' = Tail(below)
     /\ UNCHANGED <<state, happened, ctlVars, histVars, sockVars>>

MayShutdown == state = "connected"
MayClose == state \in {"connected", "disconnecting"}

\* The closure of shutdown(): it gives up if the last poll reported the
\* descriptor writable, and nothing tries again, because handleWrite calls
\* shutdown() in a state that shutdown() returns from.
ShutdownWrite ==
  /\ shut' = (shut \/ (open /\ ~Writable))
  /\ UNCHANGED <<listened, happened, sendBuf, held, below, open, room, inbox, peer, wire>>

Shutdown ==
  /\ InUser /\ MayShutdown
  /\ state' = "disconnecting"
  /\ ShutdownWrite
  /\ UNCHANGED <<ctlVars, histVars>>

\* Mutant: disconnectComplete leaves state_ alone.
DisconnectKeepsState ==
  /\ UNCHANGED state
  /\ CloseSocket

\* disconnectComplete() and handleClose() up to closeCb_, and the closure of
\* forceCloseWithoutCallback().
Disconnect ==
  /\ state' = "disconnected"
  /\ CloseSocket

\* forceClose() and forceCloseWithoutCallback().
Close ==
  /\ InUser /\ MayClose
  /\ Disconnect
  /\ interrupted' = (interrupted \/ held # <<>>)
  /\ UNCHANGED <<ctlVars, offered, nested>>

-----------------------------------------------------------------------------
(* The other threads: the guard, then the assignment of state_ and the     *)
(* closure for the loop.                                                   *)

CallerChecks(p, op) ==
  /\ call[p] = "ready"
  /\ IF op = "shutdown" THEN MayShutdown ELSE MayClose
  /\ call' = [call EXCEPT ![p] = op]
  /\ UNCHANGED <<connVars, pc, inUser, queue, histVars, sockVars>>

CallerActs(p) ==
  /\ call[p] \in Ops
  /\ state' = "disconnecting"
  /\ queue' = Append(queue, call[p])
  /\ call' = [call EXCEPT ![p] = "done"]
  /\ UNCHANGED <<listened, happened, sendBuf, held, below, pc, inUser, histVars, sockVars>>

-----------------------------------------------------------------------------
(* The loop.                                                               *)

\* Mutant: the closure of forceClose() closes a connected connection only.
RecheckedClose ==
  IF state = "connected" THEN Disconnect ELSE UNCHANGED <<connVars, sockVars>>

\* The closures of forceClose() and forceCloseWithoutCallback() have no guard.
QueuedClose == Disconnect

RunTask ==
  /\ pc = "loop" /\ held = <<>> /\ queue # <<>>
  /\ queue' = Tail(queue)
  /\ \/ Head(queue) = "shutdown" /\ ShutdownWrite /\ UNCHANGED state
     \/ Head(queue) \in {"forceClose", "quietClose"} /\ QueuedClose
     \/ Head(queue) = "writeComplete" /\ UNCHANGED <<connVars, sockVars>>
  /\ UNCHANGED <<pc, inUser, call, histVars>>

\* poll(2) reports a closed descriptor as an error.
Revents ==
  IF ~open THEN {"error"}
  ELSE (IF "R" \in listened /\ (inbox \/ peer # "up") THEN {"R"} ELSE {})
       \cup (IF "W" \in listened /\ (room > 0 \/ ~CanWrite) THEN {"W"} ELSE {})
       \cup (IF peer = "reset" \/ (peer = "fin" /\ shut) THEN {"close"} ELSE {})
       \cup (IF peer = "reset" THEN {"error"} ELSE {})

\* The Event becomes active; handlers of other descriptors may run before.
Poll ==
  /\ pc = "loop" /\ held = <<>>
  /\ ~Negative(listened) /\ Revents # {}
  /\ happened' = Revents
  /\ pc' = "close"
  /\ inUser' = TRUE
  /\ UNCHANGED <<state, listened, sendBuf, held, below, queue, call, histVars, sockVars>>

Branch(from, to) == pc = from /\ pc' = to /\ held = <<>> /\ UNCHANGED <<call, histVars>>

\* handleClose leaves state_ alone.
HandleClose ==
  /\ Branch("close", "read")
  /\ inUser' = ("close" \in happened)
  /\ \/ "close" \notin happened /\ UNCHANGED <<listened, happened, sendBuf, held, below, sockVars>>
     \/ "close" \in happened /\ CloseSocket
  /\ UNCHANGED <<state, queue>>

\* readSocket reports data, or 0 or -1, which both disconnect.  Before it
\* returns -1 it moves readBuffer_'s write index by -1 and copies from the end
\* of its spare array a number of bytes that is negative (Buffer.h:264-268),
\* which is undefined: what is followed is a build whose copy does nothing.
HandleRead ==
  /\ Branch("read", "write")
  /\ inUser' = ("R" \in happened)
  /\ \/ "R" \notin happened /\ UNCHANGED <<connVars, sockVars>>
     \/ /\ "R" \in happened /\ open /\ inbox
        /\ inbox' = FALSE
        /\ UNCHANGED <<connVars, open, shut, room, peer, wire>>
     \/ "R" \in happened /\ ~(open /\ inbox) /\ Disconnect
  /\ UNCHANGED queue

\* What is left of sendBuf: retrieve(SIZE_MAX) after a failure empties it.
Unsent ==
  IF WriteFails(sendBuf) THEN <<>>
  ELSE SubSeq(sendBuf, Accepted(sendBuf) + 1, Len(sendBuf))

HandleWriteThen(maskIfEmpty, maskIfNot) ==
  /\ Branch("write", "error")
  /\ inUser' = FALSE
  /\ \/ "W" \notin happened /\ UNCHANGED <<sendBuf, listened, queue, sockVars>>
     \/ /\ "W" \in happened
        /\ SocketWrite(sendBuf)
        /\ sendBuf' = Unsent
        /\ listened' = IF Unsent = <<>> THEN maskIfEmpty ELSE maskIfNot
        /\ queue' = IF Unsent = <<>> THEN Append(queue, "writeComplete") ELSE queue
  /\ UNCHANGED <<state, happened, held, below>>

\* Mutant: the Event is cancelled when the buffer is empty.
HandleWriteCancels == HandleWriteThen(kNoneEvent, listened)

\* Mutant: a partial write ends the interest in writing.
HandleWriteGivesUp == HandleWriteThen(Disabled(listened, "W"), Disabled(listened, "W"))

HandleWrite == HandleWriteThen(Disabled(listened, "W"), listened)

\* errorCb_ is user code.
HandleError ==
  /\ Branch("error", "loop")
  /\ UNCHANGED <<connVars, inUser, queue, sockVars>>

-----------------------------------------------------------------------------
Handle == HandleClose \/ HandleRead \/ HandleWrite \/ HandleError

Next ==
  \/ ConnectComplete
  \/ \E k \in 1 .. MaxSend : Send(k)
  \/ FinishSend
  \/ Shutdown
  \/ Close
  \/ \E p \in Callers : (\E op \in Ops : CallerChecks(p, op)) \/ CallerActs(p)
  \/ RunTask
  \/ Poll
  \/ Handle
  \/ Drain
  \/ PeerSends
  \/ \E how \in {"fin", "reset"} : PeerCloses(how)

Spec == Init /\ [][Next]_vars

\* Callbacks return, every iteration of the loop polls and executes its
\* queue, and a caller that passed its guard goes on.
FairSpec ==
  /\ Spec
  /\ WF_vars(FinishSend) /\ WF_vars(Handle)
  /\ SF_vars(Poll) /\ SF_vars(RunTask)
  /\ \A p \in Callers : WF_vars(CallerActs(p))

\* The same, and the peer keeps reading.
DrainedSpec == FairSpec /\ WF_vars(Drain)

-----------------------------------------------------------------------------
\* The send()s under way share the bytes of held: each has some, and the
\* outermost has none below its own.
Nesting ==
  /\ below \in Seq(Nat)
  /\ held = <<>> <=> below = <<>>
  /\ \A i \in 1 .. Len(below) : below[i] < Len(held)
  /\ \A i, j \in 1 .. Len(below) : i < j => below[j] < below[i]
  /\ below # <<>> => below[Len(below)] = 0

\* The types of the variables.
TypeOK ==
  /\ state \in {"connecting", "connected", "disconnecting", "disconnected"}
  /\ listened \in SUBSET Bits
  /\ happened \in SUBSET {"R", "W", "close", "error"}
  /\ sendBuf \in Seq(Nat) /\ held \in Seq(Nat) /\ wire \in Seq(Nat)
  /\ Nesting
  /\ pc \in {"loop", "close", "read", "write", "error"}
  /\ inUser \in BOOLEAN
  /\ queue \in Seq(Ops \cup {"writeComplete"})
  /\ call \in [Callers -> Ops \cup {"ready", "done"}]
  /\ offered \in 0 .. MaxBytes /\ interrupted \in BOOLEAN /\ nested \in BOOLEAN
  /\ open \in BOOLEAN /\ shut \in BOOLEAN /\ inbox \in BOOLEAN
  /\ room \in 0 .. Room
  /\ peer \in {"up", "fin", "reset"}

BetweenEvents == pc = "loop" /\ held = <<>>

\* Between two dispatches the poller watches the descriptor, for reading at
\* least, exactly while it is open: no handler, callback, closure or late
\* operation leaves an open connection unwatched or re-registers a closed
\* descriptor (connectComplete, handleClose, send, handleWrite).  Only a high
\* water callback that closes does: the send() it interrupts then asks for
\* writing on the closed descriptor (TcpConnection.cpp:153).
WatchedWhileOpen ==
  BetweenEvents =>
    IF open /\ state # "connecting"
    THEN "R" \in listened /\ ~Negative(listened)
    ELSE Negative(listened) \/ (interrupted /\ listened = {"W"})

Intact == open /\ ~shut /\ peer # "reset"

\* Apart from garbage, s holds every element of I once.
Holds(s, I) ==
  LET sent == {i \in 1 .. Len(s) : s[i] # Garbage}
  IN /\ \A i, j \in sent : s[i] = s[j] => i = j
     /\ {s[i] : i \in sent} = I

\* Apart from garbage, s is increasing.
Ordered(s) ==
  \A i, j \in 1 .. Len(s) :
    i < j /\ s[i] # Garbage /\ s[j] # Garbage => s[i] < s[j]

\* While the connection is intact, what the kernel took, what is buffered and
\* what send() still holds in a high water callback are, without loss or
\* repetition, the bytes handed to send(), apart from the garbage byte a failed
\* first write adds; and they are in the order of the send() calls as long as
\* no high water callback called send(): its bytes go before those the
\* interrupted send() has still to append.
StreamIntact ==
  Intact => /\ Holds(wire \o sendBuf \o held, 1 .. offered)
            /\ ~nested => Ordered(wire \o sendBuf \o held)

\* send() that cannot send everything registers for writing, and
\* handleWrite goes on when the descriptor is writable (TcpConnection.cpp:220).
PendingIsWatched ==
  BetweenEvents /\ open /\ sendBuf # <<>> => "W" \in listened

\* When the peer closes or resets, the descriptor is eventually closed.
PeerCloseIsNoticed == (peer # "up" /\ state # "connecting") ~> ~open

\* forceClose() of another thread closes the descriptor, also when the
\* connection is shutting down or closed by its peer at the same time.
ForceCloseCompletes ==
  \A p \in Callers : call[p] \in {"forceClose", "quietClose"} ~> ~open

\* Data buffered with an interest in writing is sent if the peer reads,
\* unless the connection closes.
WatchedDataIsSent ==
  (sendBuf # <<>> /\ "W" \in listened) ~> (sendBuf = <<>> \/ ~open)
=============================================================================
