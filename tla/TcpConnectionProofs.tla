------------------------ MODULE TcpConnectionProofs ------------------------
(* Proofs about TcpConnection, for any number of callers and bytes: the    *)
(* poller watches a connection exactly while it is open, and while it is   *)
(* intact no byte is lost or repeated, nor overtaken unless a high water   *)
(* callback calls send().  No close of the peer, no forceClose() and no    *)
(* interest in writing is dropped.                                         *)
EXTENDS TcpConnection, SequenceTheorems, TLAPS

\* Between HandleClose and HandleRead state_ is not yet up to date: user code
\* may still send() on the closed socket, and HandleRead makes good for it.
Disconnecting == pc = "read" /\ "R" \in happened

\* No operation and no caller is under way before connectComplete().
Fresh ==
  state = "connecting" =>
    /\ open /\ listened = kNoneEvent /\ pc = "loop" /\ held = <<>>
    /\ \A p \in Callers : call[p] \notin Ops

IInv ==
  /\ call \in [Callers -> Ops \cup {"ready", "done"}]
  /\ Fresh
  /\ pc = "close" /\ "close" \in happened => "R" \in happened
  /\ open /\ state # "connecting" => "R" \in listened /\ ~Negative(listened)
  /\ ~open =>
       \/ Disconnecting
       \/ /\ state # "connected"
          /\ Negative(listened) \/ (interrupted /\ listened = {"W"})
          /\ held # <<>> => interrupted

\* What the masks become.
LEMMA Masks ==
  /\ Negative(kNoneEvent)
  /\ "R" \in Enabled(kNoneEvent, "R") /\ ~Negative(Enabled(kNoneEvent, "R"))
  /\ Negative(Disabled({"W"}, "W")) /\ Enabled({"W"}, "W") = {"W"}
  /\ \A m : "R" \in m /\ ~Negative(m) =>
       /\ "R" \in Enabled(m, "W") /\ ~Negative(Enabled(m, "W"))
       /\ "R" \in Disabled(m, "W") /\ ~Negative(Disabled(m, "W"))
  /\ \A m : Negative(m) =>
       /\ Negative(Disabled(m, "W"))
       /\ Negative(Enabled(m, "W")) \/ Enabled(m, "W") = {"W"}
BY DEF Negative, kNoneEvent, Bits, Enabled, Disabled

\* The invariant is inductive: each step of handlers, callers and user code.
LEMMA IInvHolds == Spec => []IInv
<1>1. Init => IInv
  BY DEF Init, IInv, Fresh, Ops
<1>2. IInv /\ [Next]_vars => IInv'
  <2> SUFFICES ASSUME IInv, [Next]_vars  PROVE IInv'
    OBVIOUS
  <2> USE DEF connVars, ctlVars, sockVars, histVars, IInv, Fresh, Disconnecting
  <2>1. CASE ConnectComplete
    BY <2>1, Masks DEF ConnectComplete
  <2>2. ASSUME NEW k \in 1 .. MaxSend, Send(k)  PROVE IInv'
    <3>1. /\ state = "connected"
          /\ UNCHANGED <<state, happened, call, pc, open, interrupted>>
          /\ listened' \in {listened, Enabled(listened, "W")}
      BY <2>2 DEF Send, SendWhen, SocketWrite, Buffered
    <3> QED
      BY <3>1, Masks
  <2>3. CASE FinishSend
    <3>1. /\ held # <<>>
          /\ UNCHANGED <<state, happened, call, pc, open, interrupted>>
          /\ listened' \in {listened, Enabled(listened, "W")}
      BY <2>3 DEF FinishSend, Buffered
    <3> QED
      BY <3>1, Masks
  <2>4. CASE Shutdown
    BY <2>4 DEF Shutdown, ShutdownWrite, MayShutdown
  <2>5. CASE Close
    BY <2>5, Masks DEF Close, MayClose, Disconnect, CloseSocket
  <2>7. ASSUME NEW p \in Callers, NEW op \in Ops, CallerChecks(p, op)  PROVE IInv'
    BY <2>7 DEF CallerChecks, MayShutdown, MayClose
  <2>8. ASSUME NEW p \in Callers, CallerActs(p)  PROVE IInv'
    BY <2>8 DEF CallerActs
  <2>9. CASE RunTask
    BY <2>9, Masks DEF RunTask, ShutdownWrite, QueuedClose, Disconnect, CloseSocket
  <2>10. CASE Poll
    <3>1. /\ "close" \in Revents => "R" \in Revents
      BY <2>10, Masks DEF Poll, Revents
    <3> QED
      BY <2>10, <3>1, Masks DEF Poll
  <2>11. CASE HandleClose
    BY <2>11, Masks DEF HandleClose, Branch, CloseSocket
  <2>12. CASE HandleRead
    BY <2>12, Masks DEF HandleRead, Branch, Disconnect, CloseSocket
  <2>13. CASE HandleWrite
    <3>1. /\ pc = "write" /\ pc' = "error" /\ held = <<>>
          /\ UNCHANGED <<state, happened, held, call, interrupted, open>>
          /\ listened' \in {listened, Disabled(listened, "W")}
      BY <2>13 DEF HandleWrite, HandleWriteThen, Branch, SocketWrite
    <3> QED
      BY <3>1, Masks
  <2>14. CASE HandleError
    BY <2>14 DEF HandleError, Branch
  <2>15. CASE Drain \/ PeerSends \/ \E how \in {"fin", "reset"} : PeerCloses(how)
    BY <2>15 DEF Drain, PeerSends, PeerCloses
  <2>16. CASE UNCHANGED vars
    BY <2>16 DEF vars
  <2> QED
    BY <2>1, <2>2, <2>3, <2>4, <2>5, <2>7, <2>8, <2>9, <2>10, <2>11, <2>12, <2>13,
       <2>14, <2>15, <2>16 DEF Next, Handle
<1> QED
  BY <1>1, <1>2, PTL DEF Spec

\* Between two dispatches the poller watches the descriptor exactly while it
\* is open, in every order of handlers, closures, callers and peer actions; a
\* high water callback that closes is the only exception (send).
THEOREM OpenIsWatched == Spec => []WatchedWhileOpen
<1> IInv => WatchedWhileOpen
  BY Masks DEF IInv, Fresh, Disconnecting, WatchedWhileOpen, BetweenEvents
<1> QED
  BY IInvHolds, PTL
-----------------------------------------------------------------------------
(* The stream.                                                             *)

\* Sequences of bytes are sequences of numbers, and so are their parts.
LEMMA PartsOfStream ==
  ASSUME NEW d \in Seq(Nat), NEW n \in 0 .. Len(d)
  PROVE  /\ SubSeq(d, 1, n) \in Seq(Nat) /\ SubSeq(d, n + 1, Len(d)) \in Seq(Nat)
         /\ SubSeq(d, 1, n) \o SubSeq(d, n + 1, Len(d)) = d
<1>1. Len(d) \in Nat /\ n \in Nat
  OBVIOUS
<1>2. \A i \in 1 .. Len(d) : d[i] \in Nat
  OBVIOUS
<1>3. SubSeq(d, 1, n) \in Seq(Nat)
  BY <1>1, <1>2, SubSeqProperties
<1>4. SubSeq(d, n + 1, Len(d)) \in Seq(Nat)
  BY <1>1, <1>2, SubSeqProperties
<1>5. 1 \in 1 .. Len(d) + 1 /\ n \in 1 - 1 .. Len(d) /\ Len(d) \in n .. Len(d)
  BY <1>1
<1>6. SubSeq(d, 1, n) \o SubSeq(d, n + 1, Len(d)) = SubSeq(d, 1, Len(d))
  BY <1>5, ConcatAdjacentSubSeq
<1>7. SubSeq(d, 1, Len(d)) = d
  BY SubSeqFull
<1> QED
  BY <1>3, <1>4, <1>6, <1>7

\* What the socket accepts is a prefix, and all of nothing.
LEMMA AcceptedBounds ==
  ASSUME TypeOK, NEW d \in Seq(Nat)
  PROVE  Accepted(d) \in 0 .. Len(d) /\ room - Accepted(d) \in 0 .. Room
<1>1. Len(d) \in Nat /\ room \in 0 .. Room /\ Room \in Nat
  BY TcpConnectionAssumption DEF TypeOK
<1> QED
  BY <1>1 DEF Accepted

\* The bytes of one send(), and those it may keep.
LEMMA BytesOfSend ==
  ASSUME TypeOK, NEW k \in 1 .. MaxSend
  PROVE  LET data == [i \in 1 .. k |-> offered + i]
         IN /\ data \in Seq(Nat) /\ Len(data) = k
            /\ \A first \in BOOLEAN : Rest(data, first) \in Seq(Nat)
<1> DEFINE data == [i \in 1 .. k |-> offered + i]
<1>1. k \in Nat /\ offered \in Nat
  BY TcpConnectionAssumption DEF TypeOK
<1>2. data \in [1 .. k -> Nat]
  BY <1>1
<1>3. data \in Seq(Nat) /\ Len(data) = k
  BY <1>1, <1>2
<1> HIDE DEF data
<1>4. Accepted(data) \in 0 .. Len(data) /\ 0 \in 0 .. Len(data)
  BY <1>1, <1>3, AcceptedBounds
<1>5. <<Garbage>> \o data \in Seq(Nat)
  <2>1. <<Garbage>> \in Seq(Nat)
    BY DEF Garbage
  <2> QED
    BY <2>1, <1>3, ConcatProperties
<1>6. SubSeq(data, 0 + 1, Len(data)) \in Seq(Nat)
      /\ SubSeq(data, Accepted(data) + 1, Len(data)) \in Seq(Nat)
  BY <1>3, <1>4, PartsOfStream
<1>7. 1 + Accepted(data) = Accepted(data) + 1 /\ 1 + 0 = 0 + 1
  BY <1>4
<1>8. ASSUME NEW first \in BOOLEAN  PROVE Rest(data, first) \in Seq(Nat)
  BY <1>5, <1>6, <1>7 DEF Rest
<1> QED
  BY <1>3, <1>8 DEF data

\* ::write keeps the types of the socket.
LEMMA WriteTyped ==
  ASSUME TypeOK, NEW d \in Seq(Nat), SocketWrite(d)
  PROVE  /\ wire' \in Seq(Nat) /\ room' \in 0 .. Room
         /\ UNCHANGED <<open, shut, inbox, peer>>
<1>1. Accepted(d) \in 0 .. Len(d) /\ room - Accepted(d) \in 0 .. Room
  BY AcceptedBounds
<1>2. SubSeq(d, 1, Accepted(d)) \in Seq(Nat)
  BY <1>1, PartsOfStream
<1> QED
  BY <1>1, <1>2, ConcatProperties DEF SocketWrite, TypeOK

\* A send() that calls the high water callback comes before those that hold
\* bytes already.
LEMMA NestingDeeper ==
  ASSUME Nesting, held \in Seq(Nat), NEW rest \in Seq(Nat), rest # <<>>
  PROVE  held' = rest \o held /\ below' = <<Len(held)>> \o below
           => held' \in Seq(Nat) /\ Nesting'
<1>0. SUFFICES ASSUME held' = rest \o held, below' = <<Len(held)>> \o below
               PROVE  held' \in Seq(Nat) /\ Nesting'
  OBVIOUS
<1> DEFINE n == Len(below)
           m == Len(held)
<1>1. /\ m \in Nat /\ n \in Nat /\ Len(rest) \in Nat \ {0} /\ below \in Seq(Nat)
      /\ held' \in Seq(Nat) /\ Len(held') = Len(rest) + m
  <2>1. Len(rest) # 0
    BY EmptySeq
  <2> QED
    BY <1>0, <2>1, ConcatProperties, LenProperties DEF Nesting
<1>2. <<m>> \in Seq(Nat) /\ Len(<<m>>) = 1 /\ <<m>>[1] = m
  BY <1>1
<1> HIDE DEF n, m
<1>3. /\ below' \in Seq(Nat) /\ Len(below') = 1 + n
      /\ \A i \in 1 .. 1 + n : below'[i] = IF i <= 1 THEN m ELSE below[i - 1]
  <2> DEFINE z == <<m>> \o below
  <2>1. /\ z \in Seq(Nat) /\ Len(z) = 1 + n
        /\ \A i \in 1 .. 1 + n : z[i] = IF i <= 1 THEN <<m>>[i] ELSE below[i - 1]
    BY <1>1, <1>2, ConcatProperties DEF n
  <2>2. \A i \in 1 .. 1 + n : i <= 1 => i = 1
    BY <1>1
  <2>4. below' = z
    BY <1>0 DEF m
  <2> HIDE DEF z
  <2>3. \A i \in 1 .. 1 + n : z[i] = IF i <= 1 THEN m ELSE below[i - 1]
    BY <1>2, <2>1, <2>2
  <2> QED
    BY <2>1, <2>3, <2>4
<1>4. \A i \in 1 .. n : below[i] \in Nat /\ below[i] < m
  <2>1. \A i \in 1 .. n : below[i] \in Nat
    BY <1>1 DEF n
  <2>2. \A i \in 1 .. n : below[i] < m
    BY DEF Nesting, n, m
  <2> QED
    BY <2>1, <2>2
<1>5. ASSUME NEW i \in 2 .. 1 + n
      PROVE  i - 1 \in 1 .. n /\ below'[i] = below[i - 1]
  <2>1. i \in 1 .. 1 + n /\ ~(i <= 1) /\ i - 1 \in 1 .. n
    BY <1>1
  <2> QED
    BY <1>3, <2>1
<1>6. below'[1] = m /\ 1 \in 1 .. 1 + n
  BY <1>1, <1>3
<1>7. ASSUME NEW i \in 1 .. 1 + n  PROVE below'[i] < Len(held')
  <2>1. CASE i = 1
    BY <1>1, <1>6, <2>1
  <2>2. CASE i # 1
    <3>1. below'[i] \in Nat /\ below'[i] < m
      BY <1>4, <1>5, <2>2
    <3> QED
      BY <1>1, <3>1
  <2> QED
    BY <2>1, <2>2
<1>8. ASSUME NEW i \in 1 .. 1 + n, NEW j \in 1 .. 1 + n, i < j
      PROVE  below'[j] < below'[i]
  <2>1. j \in 2 .. 1 + n
    BY <1>1, <1>8
  <2>2. CASE i = 1
    BY <1>4, <1>5, <1>6, <2>1, <2>2
  <2>3. CASE i # 1
    <3>1. i \in 2 .. 1 + n /\ i - 1 < j - 1
      BY <1>1, <1>8, <2>3
    <3> QED
      BY <1>5, <2>1, <3>1 DEF Nesting, n
  <2> QED
    BY <2>2, <2>3
<1>9. below'[1 + n] = 0
  <2>1. CASE n = 0
    <3>1. below = <<>>
      BY <1>1, <2>1, EmptySeq DEF n
    <3>2. m = 0
      BY <3>1, EmptySeq DEF Nesting, m
    <3> QED
      BY <1>6, <2>1, <3>2
  <2>2. CASE n # 0
    <3>1. below # <<>> /\ 1 + n \in 2 .. 1 + n /\ (1 + n) - 1 = n
      BY <1>1, <2>2, EmptySeq DEF n
    <3> QED
      BY <1>5, <3>1 DEF Nesting, n
  <2> QED
    BY <2>1, <2>2
<1>10. held' # <<>> /\ below' # <<>>
  <2>1. Len(held') # 0 /\ Len(below') # 0
    BY <1>1, <1>3
  <2> QED
    BY <2>1, EmptySeq
<1> QED
  BY <1>1, <1>3, <1>7, <1>8, <1>9, <1>10 DEF Nesting

\* The innermost send() takes its own bytes, the others keep theirs.
LEMMA NestingReturns ==
  ASSUME Nesting, held \in Seq(Nat), held # <<>>
  PROVE  LET own == Len(held) - Head(below)
         IN held' = SubSeq(held, own + 1, Len(held)) /\ below' = Tail(below)
              => own \in 0 .. Len(held) /\ held' \in Seq(Nat) /\ Nesting'
<1> DEFINE n == Len(below)
           b == Head(below)
           own == Len(held) - b
<1>0. SUFFICES ASSUME held' = SubSeq(held, own + 1, Len(held)), below' = Tail(below)
               PROVE  own \in 0 .. Len(held) /\ held' \in Seq(Nat) /\ Nesting'
  OBVIOUS
<1>1. /\ n \in Nat \ {0} /\ below # <<>> /\ below \in Seq(Nat) /\ Len(held) \in Nat
      /\ b = below[1] /\ 1 \in 1 .. n
  <2>1. below # <<>> /\ below \in Seq(Nat)
    BY DEF Nesting
  <2>2. n \in Nat /\ n # 0
    BY <2>1, EmptySeq, LenProperties
  <2> QED
    BY <2>1, <2>2, LenProperties, HeadTailProperties
<1> HIDE DEF n, b
<1>2. b \in Nat /\ b < Len(held)
  BY <1>1 DEF Nesting, n
<1>3. own \in 0 .. Len(held) /\ Len(held) - own = b
  BY <1>1, <1>2
<1> HIDE DEF own
<1>4. held' = SubSeq(held, own + 1, Len(held))
  BY <1>0 DEF own
<1>5. held' \in Seq(Nat) /\ Len(held') = b
  <2>1. held' \in Seq(Nat)
    BY <1>3, <1>4, PartsOfStream
  <2>2. /\ own + 1 \in Int /\ Len(held) \in Int
        /\ \A i \in own + 1 .. Len(held) : held[i] \in Nat
    BY <1>1, <1>3
  <2>3. Len(SubSeq(held, own + 1, Len(held)))
          = IF own + 1 <= Len(held) THEN Len(held) - (own + 1) + 1 ELSE 0
    BY <2>2, SubSeqProperties
  <2>4. Len(held') = b
    BY <1>1, <1>2, <1>3, <1>4, <2>3
  <2> QED
    BY <2>1, <2>4
<1>6. /\ below' \in Seq(Nat) /\ Len(below') = n - 1
      /\ \A i \in 1 .. n - 1 : below'[i] = below[i + 1]
  <2>1. /\ Tail(below) \in Seq(Nat) /\ Len(Tail(below)) = Len(below) - 1
        /\ \A i \in 1 .. Len(Tail(below)) : Tail(below)[i] = below[i + 1]
    BY <1>1, HeadTailProperties
  <2> QED
    BY <1>0, <2>1 DEF n
<1>7. \A i \in 1 .. n - 1 : i + 1 \in 1 .. n /\ 1 < i + 1
  BY <1>1
<1>8. \A i \in 1 .. n - 1 : below'[i] < Len(held')
  BY <1>1, <1>5, <1>6, <1>7 DEF Nesting, n
<1>9. ASSUME NEW i \in 1 .. n - 1, NEW j \in 1 .. n - 1, i < j
      PROVE  below'[j] < below'[i]
  <2>1. i + 1 < j + 1
    BY <1>9
  <2> QED
    BY <1>6, <1>7, <2>1 DEF Nesting, n
<1>10. CASE n = 1
  <2>1. below' = <<>>
    BY <1>6, <1>10, EmptySeq
  <2>2. b = 0
    BY <1>1, <1>10 DEF Nesting, n
  <2>3. held' = <<>>
    BY <1>5, <2>2, EmptySeq
  <2> QED
    BY <1>3, <1>5, <1>6, <1>8, <1>9, <2>1, <2>3 DEF Nesting, own, b
<1>11. CASE n # 1
  <2>1. n - 1 \in 1 .. n - 1 /\ (n - 1) + 1 = n
    BY <1>1, <1>11
  <2>2. below' # <<>> /\ below'[n - 1] = 0
    <3>1. Len(below') # 0
      BY <1>6, <2>1
    <3>2. below[n] = 0
      BY <1>1 DEF Nesting, n
    <3> QED
      BY <1>6, <2>1, <3>1, <3>2, EmptySeq
  <2>3. held' # <<>>
    <3>1. below'[n - 1] < Len(held')
      BY <1>8, <2>1
    <3>2. Len(held') # 0
      BY <2>2, <3>1
    <3> QED
      BY <3>2, EmptySeq
  <2> QED
    BY <1>3, <1>5, <1>6, <1>8, <1>9, <2>2, <2>3 DEF Nesting, own, b
<1> QED
  BY <1>10, <1>11

\* The variables keep their types: the bytes of send() stay within their
\* bound, and the socket never accepts more than it has room for.
THEOREM ConnectionTyped == Spec => []TypeOK
<1> USE TcpConnectionAssumption
<1>1. Init => TypeOK
  <2>1. <<>> \in Seq(Nat) /\ <<>> \in Seq(Ops \cup {"writeComplete"})
    BY EmptySeq
  <2>2. Init => call \in [Callers -> Ops \cup {"ready", "done"}]
    BY DEF Init
  <2>3. kNoneEvent \in SUBSET Bits /\ {} \in SUBSET {"R", "W", "close", "error"}
    BY DEF kNoneEvent
  <2>4. 0 \in 0 .. MaxBytes /\ Room \in 0 .. Room
    OBVIOUS
  <2>5. Init => Nesting
    <3>1. Len(<<>>) = 0 /\ <<>> \in Seq(Nat)
      BY EmptySeq
    <3> QED
      BY <3>1 DEF Init, Nesting
  <2> QED
    BY <2>1, <2>2, <2>3, <2>4, <2>5 DEF Init, TypeOK
<1>2. TypeOK /\ [Next]_vars => TypeOK'
  <2> SUFFICES ASSUME TypeOK, [Next]_vars  PROVE TypeOK'
    OBVIOUS
  <2> USE DEF connVars, ctlVars, sockVars, histVars
  <2>0. ASSUME NEW m \in SUBSET Bits
        PROVE  Enabled(m, "R") \in SUBSET Bits /\ Enabled(m, "W") \in SUBSET Bits
               /\ Disabled(m, "W") \in SUBSET Bits /\ kNoneEvent \in SUBSET Bits
    BY DEF Enabled, Disabled, kNoneEvent, Bits
  <2>a. listened \in SUBSET Bits
    BY DEF TypeOK
  <2>b. UNCHANGED <<held, below>> => Nesting'
    BY DEF TypeOK, Nesting
  <2>1. CASE ConnectComplete
    BY <2>0, <2>1, <2>b DEF ConnectComplete, TypeOK
  <2>2. ASSUME NEW k \in 1 .. MaxSend, Send(k)  PROVE TypeOK'
    <3> DEFINE data == [i \in 1 .. k |-> offered + i]
               first == ~Writable /\ sendBuf = <<>>
               rest == Rest(data, first)
    <3>1. data \in Seq(Nat) /\ rest \in Seq(Nat) /\ <<>> \in Seq(Nat)
      <4>1. first \in BOOLEAN
        OBVIOUS
      <4> HIDE DEF first
      <4> QED
        BY <4>1, BytesOfSend, EmptySeq
    <3>2. /\ offered + k <= MaxBytes /\ offered' = offered + k
          /\ nested' \in BOOLEAN
          /\ SocketWrite(IF first THEN data ELSE <<>>)
          /\ \/ UNCHANGED <<sendBuf, listened, held, below>>
             \/ Buffered(rest) /\ UNCHANGED <<held, below>>
             \/ /\ rest # <<>> /\ held' = rest \o held
                /\ below' = <<Len(held)>> \o below
                /\ UNCHANGED <<sendBuf, listened>>
          /\ UNCHANGED <<state, happened, ctlVars, interrupted>>
      BY <2>2 DEF Send, SendWhen, TypeOK
    <3> HIDE DEF data, first, rest
    <3>3. wire' \in Seq(Nat) /\ room' \in 0 .. Room /\ UNCHANGED <<open, shut, inbox, peer>>
      BY <3>1, <3>2, WriteTyped
    <3>4. offered' \in 0 .. MaxBytes
      BY <3>2 DEF TypeOK
    <3>5. sendBuf \in Seq(Nat) /\ held \in Seq(Nat) /\ sendBuf \o rest \in Seq(Nat)
      BY <3>1, ConcatProperties DEF TypeOK
    <3>6. Enabled(listened, "W") \in SUBSET Bits
      BY <2>0, <2>a
    <3>7. sendBuf' \in Seq(Nat) /\ listened' \in SUBSET Bits
      BY <2>a, <3>1, <3>2, <3>5, <3>6 DEF Buffered
    <3>8. held' \in Seq(Nat) /\ Nesting'
      <4>1. CASE UNCHANGED <<held, below>>
        BY <2>b, <3>5, <4>1
      <4>2. CASE rest # <<>> /\ held' = rest \o held /\ below' = <<Len(held)>> \o below
        <5>1. Nesting
          BY DEF TypeOK
        <5> QED
          BY <3>1, <3>5, <4>2, <5>1, NestingDeeper
      <4> QED
        BY <3>2, <4>1, <4>2
    <3> QED
      BY <3>2, <3>3, <3>4, <3>7, <3>8 DEF TypeOK
  <2>3. CASE FinishSend
    <3> DEFINE own == Len(held) - Head(below)
    <3>1. /\ held # <<>> /\ Buffered(SubSeq(held, 1, own))
          /\ held' = SubSeq(held, own + 1, Len(held)) /\ below' = Tail(below)
          /\ UNCHANGED <<state, happened, ctlVars, histVars, sockVars>>
      BY <2>3 DEF FinishSend
    <3>2. /\ Nesting /\ held \in Seq(Nat) /\ sendBuf \in Seq(Nat)
      BY DEF TypeOK
    <3>3. own \in 0 .. Len(held) /\ held' \in Seq(Nat) /\ Nesting'
      BY <3>1, <3>2, NestingReturns
    <3> HIDE DEF own
    <3>4. sendBuf \o SubSeq(held, 1, own) \in Seq(Nat)
      <4>1. SubSeq(held, 1, own) \in Seq(Nat)
        BY <3>2, <3>3, PartsOfStream
      <4> QED
        BY <3>2, <4>1, ConcatProperties
    <3>5. Enabled(listened, "W") \in SUBSET Bits
      BY <2>0, <2>a
    <3>6. sendBuf' \in Seq(Nat) /\ listened' \in SUBSET Bits
      BY <2>a, <3>1, <3>4, <3>5 DEF Buffered
    <3> QED
      BY <3>1, <3>3, <3>6 DEF TypeOK
  <2>4. CASE Shutdown
    BY <2>4, <2>b DEF Shutdown, ShutdownWrite, TypeOK
  <2>5. CASE Close
    <3>1. interrupted' \in BOOLEAN
      BY <2>5 DEF Close, TypeOK
    <3> QED
      BY <2>0, <2>5, <2>a, <2>b, <3>1 DEF Close, Disconnect, CloseSocket, TypeOK
  <2>7. ASSUME NEW p \in Callers, NEW op \in Ops, CallerChecks(p, op)  PROVE TypeOK'
    BY <2>7, <2>b DEF CallerChecks, TypeOK
  <2>8. ASSUME NEW p \in Callers, CallerActs(p)  PROVE TypeOK'
    <3>1. queue' \in Seq(Ops \cup {"writeComplete"})
      BY <2>8, AppendProperties DEF CallerActs, TypeOK
    <3> QED
      BY <2>8, <2>b, <3>1 DEF CallerActs, TypeOK
  <2>9. CASE RunTask
    <3>1. queue' \in Seq(Ops \cup {"writeComplete"})
      BY <2>9, HeadTailProperties DEF RunTask, TypeOK
    <3>2. /\ UNCHANGED <<pc, inUser, call, histVars, happened, sendBuf, held, below,
                         room, inbox, peer, wire>>
          /\ state' \in {state, "disconnected"} /\ listened' \in {listened, kNoneEvent}
          /\ open' \in {open, FALSE} /\ shut' \in {shut, shut \/ (open /\ ~Writable)}
      BY <2>9 DEF RunTask, ShutdownWrite, QueuedClose, Disconnect, CloseSocket
    <3>3. open' \in BOOLEAN /\ shut' \in BOOLEAN /\ listened' \in SUBSET Bits
      BY <2>0, <2>a, <3>2 DEF TypeOK
    <3> QED
      BY <2>b, <3>1, <3>2, <3>3 DEF TypeOK
  <2>10. CASE Poll
    <3>1. Revents \in SUBSET {"R", "W", "close", "error"}
      BY DEF Revents
    <3> QED
      BY <2>10, <2>b, <3>1 DEF Poll, TypeOK
  <2>11. CASE HandleClose
    <3>1. /\ pc' = "read" /\ inUser' \in BOOLEAN
          /\ UNCHANGED <<call, histVars, happened, sendBuf, held, below, shut, room,
                         inbox, peer, wire, state, queue>>
      BY <2>11 DEF HandleClose, Branch, CloseSocket
    <3>2. listened' \in SUBSET Bits /\ open' \in BOOLEAN
      BY <2>0, <2>11, <2>a DEF HandleClose, CloseSocket, TypeOK
    <3> QED
      BY <2>b, <3>1, <3>2 DEF TypeOK
  <2>12. CASE HandleRead
    <3>1. /\ pc' = "write" /\ inUser' \in BOOLEAN
          /\ UNCHANGED <<call, histVars, happened, sendBuf, held, below, shut, room,
                         peer, wire, queue>>
      BY <2>12 DEF HandleRead, Branch, Disconnect, CloseSocket
    <3>2. /\ listened' \in SUBSET Bits /\ open' \in BOOLEAN /\ inbox' \in BOOLEAN
          /\ state' \in {state, "disconnected"}
      BY <2>0, <2>12, <2>a DEF HandleRead, Disconnect, CloseSocket, TypeOK
    <3> QED
      BY <2>b, <3>1, <3>2 DEF TypeOK
  <2>13. CASE HandleWrite
    <3>1. /\ pc' = "error" /\ inUser' = FALSE
          /\ UNCHANGED <<state, happened, held, below, call, histVars>>
          /\ \/ UNCHANGED <<sendBuf, listened, queue, sockVars>>
             \/ /\ SocketWrite(sendBuf) /\ sendBuf' = Unsent
                /\ listened' \in {listened, Disabled(listened, "W")}
                /\ queue' \in {queue, Append(queue, "writeComplete")}
      BY <2>13 DEF HandleWrite, HandleWriteThen, Branch
    <3>2. sendBuf \in Seq(Nat) /\ Unsent \in Seq(Nat)
      <4>1. sendBuf \in Seq(Nat) /\ <<>> \in Seq(Nat)
        BY DEF TypeOK
      <4>2. Accepted(sendBuf) \in 0 .. Len(sendBuf)
        BY <4>1, AcceptedBounds
      <4>3. SubSeq(sendBuf, Accepted(sendBuf) + 1, Len(sendBuf)) \in Seq(Nat)
        BY <4>1, <4>2, PartsOfStream
      <4> QED
        BY <4>1, <4>3 DEF Unsent
    <3>3. /\ wire' \in Seq(Nat) /\ room' \in 0 .. Room /\ open' \in BOOLEAN
          /\ shut' \in BOOLEAN /\ inbox' \in BOOLEAN /\ peer' \in {"up", "fin", "reset"}
      BY <3>1, <3>2, WriteTyped DEF TypeOK
    <3>4. Append(queue, "writeComplete") \in Seq(Ops \cup {"writeComplete"})
      BY AppendProperties DEF TypeOK
    <3> QED
      BY <2>0, <2>a, <2>b, <3>1, <3>2, <3>3, <3>4 DEF TypeOK
  <2>14. CASE HandleError
    BY <2>14, <2>b DEF HandleError, Branch, TypeOK
  <2>15. CASE Drain
    BY <2>15, <2>b DEF Drain, TypeOK
  <2>16. CASE PeerSends \/ \E how \in {"fin", "reset"} : PeerCloses(how)
    <3>1. CASE PeerSends
      BY <2>b, <3>1 DEF PeerSends, TypeOK
    <3>2. ASSUME NEW how \in {"fin", "reset"}, PeerCloses(how)  PROVE TypeOK'
      <4>1. /\ UNCHANGED <<connVars, ctlVars, histVars, open, shut, room, inbox, wire>>
            /\ peer' \in {"up", "fin", "reset"}
        BY <3>2 DEF PeerCloses
      <4> QED
        BY <2>b, <4>1 DEF TypeOK
    <3> QED
      BY <2>16, <3>1, <3>2
  <2>17. CASE UNCHANGED vars
    BY <2>17, <2>b DEF vars, TypeOK
  <2> QED
    BY <2>1, <2>2, <2>3, <2>4, <2>5, <2>7, <2>8, <2>9, <2>10, <2>11, <2>12, <2>13, <2>14,
       <2>15, <2>16, <2>17 DEF Next, Handle
<1> QED
  BY <1>1, <1>2, PTL DEF Spec

\* Bytes that follow each other in number, put between two parts of a stream.
LEMMA HoldsInserted ==
  ASSUME NEW s \in Seq(Nat), NEW d \in Seq(Nat), NEW t \in Seq(Nat),
         NEW a \in Nat, NEW b \in Nat,
         Holds(s \o t, 1 .. a), Holds(d, a + 1 .. a + b)
  PROVE  Holds((s \o d) \o t, 1 .. a + b)
<1> DEFINE u == (s \o d) \o t
           v == s \o t
           n == Len(s)
           m == Len(d)
           o == Len(t)
           D == {i \in 1 .. m : d[i] # Garbage}
           V == {i \in 1 .. n + o : v[i] # Garbage}
           U == {i \in 1 .. n + m + o : u[i] # Garbage}
           at(i) == IF i <= n THEN i ELSE i - m
<1>1. /\ n \in Nat /\ m \in Nat /\ o \in Nat
      /\ Len(v) = n + o /\ Len(u) = n + m + o
      /\ \A i \in 1 .. n + o : v[i] = IF i <= n THEN s[i] ELSE t[i - n]
      /\ \A i \in 1 .. n + m + o :
           u[i] = IF i <= n + m THEN (IF i <= n THEN s[i] ELSE d[i - n]) ELSE t[i - (n + m)]
  <2>1. /\ n \in Nat /\ m \in Nat /\ o \in Nat
        /\ s \o d \in Seq(Nat) /\ Len(s \o d) = n + m /\ Len(v) = n + o
        /\ \A i \in 1 .. n + m : (s \o d)[i] = IF i <= n THEN s[i] ELSE d[i - n]
        /\ \A i \in 1 .. n + o : v[i] = IF i <= n THEN s[i] ELSE t[i - n]
    BY ConcatProperties, LenProperties
  <2>2. /\ Len(u) = n + m + o
        /\ \A i \in 1 .. n + m + o :
             u[i] = IF i <= n + m THEN (s \o d)[i] ELSE t[i - (n + m)]
    BY <2>1, ConcatProperties
  <2> QED
    BY <2>1, <2>2
<1>2. /\ \A i, j \in V : v[i] = v[j] => i = j
      /\ {v[i] : i \in V} = 1 .. a
  BY <1>1 DEF Holds
<1>3. /\ \A i, j \in D : d[i] = d[j] => i = j
      /\ {d[i] : i \in D} = a + 1 .. a + b
  BY DEF Holds
<1> HIDE DEF u, v, n, m, o
<1>4. ASSUME NEW i \in U
      PROVE  IF i <= n \/ i > n + m THEN at(i) \in V /\ u[i] = v[at(i)]
             ELSE i - n \in D /\ u[i] = d[i - n]
  <2>1. i \in 1 .. n + m + o /\ u[i] # Garbage
    OBVIOUS
  <2>2. CASE i <= n
    <3>1. at(i) = i /\ i \in 1 .. n + o /\ i <= n + m
      BY <1>1, <2>1, <2>2
    <3>2. u[i] = s[i] /\ v[i] = s[i]
      BY <1>1, <2>1, <2>2, <3>1
    <3> QED
      BY <2>1, <2>2, <3>1, <3>2
  <2>3. CASE i > n + m
    <3>1. at(i) = i - m /\ i - m \in 1 .. n + o /\ ~(i - m <= n) /\ (i - m) - n = i - (n + m)
      BY <1>1, <2>1, <2>3
    <3> QED
      <4>1. u[i] = t[i - (n + m)] /\ v[i - m] = t[i - (n + m)]
        BY <1>1, <2>1, <2>3, <3>1
      <4>2. at(i) \in V /\ u[i] = v[at(i)]
        BY <2>1, <3>1, <4>1
      <4> QED
        BY <2>3, <4>2
  <2>4. CASE ~(i <= n) /\ ~(i > n + m)
    <3>1. i - n \in 1 .. m
      BY <1>1, <2>1, <2>4
    <3> QED
      BY <1>1, <2>1, <2>4, <3>1
  <2> QED
    BY <2>2, <2>3, <2>4
<1>5. /\ \A i \in V : v[i] \in 1 .. a
      /\ \A i \in D : d[i] \in a + 1 .. a + b
      /\ \A x \in 1 .. a : \E i \in V : v[i] = x
      /\ \A x \in a + 1 .. a + b : \E i \in D : d[i] = x
  BY <1>2, <1>3
<1>6. ASSUME NEW i \in U, NEW j \in U, u[i] = u[j]  PROVE i = j
  <2>0. i \in Int /\ j \in Int /\ n \in Int /\ m \in Int
    BY <1>1
  <2>1. CASE (i <= n \/ i > n + m) /\ (j <= n \/ j > n + m)
    <3>1. at(i) = at(j)
      BY <1>2, <1>4, <1>6, <2>1
    <3> QED
      BY <1>1, <2>0, <2>1, <3>1
  <2>2. CASE ~(i <= n \/ i > n + m) /\ ~(j <= n \/ j > n + m)
    <3>1. i - n = j - n
      BY <1>3, <1>4, <1>6, <2>2
    <3> QED
      BY <2>0, <3>1
  <2>3. CASE (i <= n \/ i > n + m) /\ ~(j <= n \/ j > n + m)
    <3>1. u[i] \in 1 .. a /\ u[j] \in a + 1 .. a + b
      BY <1>4, <1>5, <2>3
    <3> QED
      BY <1>6, <3>1
  <2>4. CASE ~(i <= n \/ i > n + m) /\ (j <= n \/ j > n + m)
    <3>1. u[j] \in 1 .. a /\ u[i] \in a + 1 .. a + b
      BY <1>4, <1>5, <2>4
    <3> QED
      BY <1>6, <3>1
  <2> QED
    BY <2>1, <2>2, <2>3, <2>4
<1>7. ASSUME NEW i \in U  PROVE u[i] \in 1 .. a + b
  <2>1. u[i] \in 1 .. a \/ u[i] \in a + 1 .. a + b
    BY <1>4, <1>5
  <2> QED
    BY <2>1
<1>8. ASSUME NEW x \in 1 .. a + b  PROVE \E i \in U : u[i] = x
  <2>1. CASE x \in 1 .. a
    <3>1. PICK i \in V : v[i] = x
      BY <1>5, <2>1
    <3>2. CASE i <= n
      <4>1. i \in 1 .. n + m + o /\ i <= n + m
        BY <1>1, <3>2
      <4>2. u[i] = v[i]
        BY <1>1, <3>2, <4>1
      <4> QED
        BY <3>1, <4>1, <4>2
    <3>3. CASE ~(i <= n)
      <4>1. /\ i + m \in 1 .. n + m + o /\ ~(i + m <= n + m)
            /\ (i + m) - (n + m) = i - n
        BY <1>1, <3>3
      <4>2. u[i + m] = v[i]
        BY <1>1, <3>3, <4>1
      <4> QED
        BY <3>1, <4>1, <4>2
    <3> QED
      BY <3>2, <3>3
  <2>2. CASE x \in a + 1 .. a + b
    <3>1. PICK i \in D : d[i] = x
      BY <1>5, <2>2
    <3>2. i + n \in 1 .. n + m + o /\ i + n <= n + m /\ ~(i + n <= n) /\ (i + n) - n = i
      BY <1>1
    <3>3. u[i + n] = d[i]
      BY <1>1, <3>2
    <3> QED
      BY <3>1, <3>2, <3>3
  <2>3. x \in 1 .. a \/ x \in a + 1 .. a + b
    OBVIOUS
  <2> QED
    BY <2>1, <2>2, <2>3
<1>9. {i \in 1 .. Len(u) : u[i] # Garbage} = U
  BY <1>1
<1>10. {u[i] : i \in U} = 1 .. a + b
  BY <1>7, <1>8
<1> QED
  BY <1>6, <1>9, <1>10 DEF Holds, u

\* Later bytes behind earlier ones.
LEMMA OrderedConcat ==
  ASSUME NEW s \in Seq(Nat), NEW d \in Seq(Nat), NEW a \in Nat, NEW b \in Nat,
         Holds(s, 1 .. a), Holds(d, a + 1 .. a + b), Ordered(s), Ordered(d)
  PROVE  Ordered(s \o d)
<1> DEFINE u == s \o d
           n == Len(s)
           m == Len(d)
<1>1. /\ n \in Nat /\ m \in Nat /\ Len(u) = n + m
      /\ \A i \in 1 .. n + m : u[i] = IF i <= n THEN s[i] ELSE d[i - n]
  BY ConcatProperties, LenProperties
<1>2. /\ \A i \in 1 .. n : s[i] # Garbage => s[i] \in 1 .. a
      /\ \A i \in 1 .. m : d[i] # Garbage => d[i] \in a + 1 .. a + b
  BY DEF Holds
<1>3. /\ \A i, j \in 1 .. n : i < j /\ s[i] # Garbage /\ s[j] # Garbage => s[i] < s[j]
      /\ \A i, j \in 1 .. m : i < j /\ d[i] # Garbage /\ d[j] # Garbage => d[i] < d[j]
  BY DEF Ordered
<1> HIDE DEF u, n, m
<1>4. ASSUME NEW i \in 1 .. n + m, NEW j \in 1 .. n + m, i < j,
             u[i] # Garbage, u[j] # Garbage
      PROVE  u[i] < u[j]
  <2>1. CASE j <= n
    <3>1. i \in 1 .. n /\ j \in 1 .. n /\ u[i] = s[i] /\ u[j] = s[j]
      BY <1>1, <1>4, <2>1
    <3> QED
      BY <1>3, <1>4, <3>1
  <2>2. CASE i <= n /\ ~(j <= n)
    <3>1. i \in 1 .. n /\ j - n \in 1 .. m /\ u[i] = s[i] /\ u[j] = d[j - n]
      BY <1>1, <2>2
    <3>2. u[i] \in 1 .. a /\ u[j] \in a + 1 .. a + b
      BY <1>2, <1>4, <3>1
    <3> QED
      BY <3>2
  <2>3. CASE ~(i <= n)
    <3>1. i - n \in 1 .. m /\ j - n \in 1 .. m /\ i - n < j - n /\ ~(j <= n)
      BY <1>1, <1>4, <2>3
    <3>2. u[i] = d[i - n] /\ u[j] = d[j - n]
      BY <1>1, <2>3, <3>1
    <3> QED
      BY <1>3, <1>4, <3>1, <3>2
  <2> QED
    BY <2>1, <2>2, <2>3
<1> QED
  BY <1>1, <1>4 DEF Ordered, u

\* The bytes of one send() are the next numbers, also behind a garbage byte.
LEMMA DataHeld ==
  ASSUME NEW k \in Nat, NEW n \in Nat
  PROVE  LET data == [i \in 1 .. k |-> n + i]
             all == {data, <<Garbage>> \o data}
         IN \A d \in all : Holds(d, n + 1 .. n + k) /\ Ordered(d)
<1> DEFINE data == [i \in 1 .. k |-> n + i]
           g == <<Garbage>> \o data
<1>1. /\ data \in Seq(Nat) /\ Len(data) = k
      /\ \A i \in 1 .. k : data[i] = n + i
  <2>1. data \in [1 .. k -> Nat]
    OBVIOUS
  <2> QED
    BY <2>1
<1> HIDE DEF data
<1>2. <<Garbage>> \in Seq(Nat) /\ Len(<<Garbage>>) = 1 /\ <<Garbage>>[1] = Garbage
  BY DEF Garbage
<1>3. /\ Len(g) = 1 + k
      /\ \A i \in 1 .. 1 + k : g[i] = IF i <= 1 THEN Garbage ELSE data[i - 1]
  <2>1. Len(g) = Len(<<Garbage>>) + Len(data)
        /\ \A i \in 1 .. Len(<<Garbage>>) + Len(data) :
             g[i] = IF i <= Len(<<Garbage>>) THEN <<Garbage>>[i] ELSE data[i - Len(<<Garbage>>)]
    BY <1>1, <1>2, ConcatProperties
  <2>2. \A i \in 1 .. 1 + k : i <= 1 => i = 1
    OBVIOUS
  <2> QED
    BY <1>1, <1>2, <2>1, <2>2
<1>4. Holds(data, n + 1 .. n + k) /\ Ordered(data)
  <2>1. \A v \in n + 1 .. n + k : v - n \in 1 .. k /\ data[v - n] = v /\ v # Garbage
    BY <1>1 DEF Garbage
  <2>2. \A i \in 1 .. Len(data) : data[i] \in n + 1 .. n + k
    BY <1>1
  <2>3. \A i, j \in 1 .. Len(data) : i < j => data[i] < data[j]
    BY <1>1
  <2>4. \A i, j \in 1 .. Len(data) : data[i] = data[j] => i = j
    BY <1>1
  <2> QED
    BY <1>1, <2>1, <2>2, <2>3, <2>4 DEF Holds, Ordered
<1> HIDE DEF g
<1>5. \A i \in 2 .. 1 + k : g[i] = n + (i - 1)
  <2> TAKE i \in 2 .. 1 + k
  <2>1. i \in 1 .. 1 + k /\ ~(i <= 1) /\ i - 1 \in 1 .. k
    OBVIOUS
  <2> QED
    BY <1>1, <1>3, <2>1
<1>6. \A i \in 1 .. Len(g) : g[i] # Garbage <=> i \in 2 .. 1 + k
  <2> TAKE i \in 1 .. Len(g)
  <2>1. CASE i = 1
    BY <1>3, <2>1
  <2>2. CASE i # 1
    <3>1. i \in 2 .. 1 + k
      BY <1>3, <2>2
    <3> QED
      BY <1>5, <3>1 DEF Garbage
  <2> QED
    BY <2>1, <2>2
<1>7. {i \in 1 .. Len(g) : g[i] # Garbage} = 2 .. 1 + k
  BY <1>3, <1>6
<1>8. /\ \A i, j \in 2 .. 1 + k : i < j => g[i] < g[j]
      /\ \A i, j \in 2 .. 1 + k : g[i] = g[j] => i = j
  BY <1>5
<1>9. {g[i] : i \in 2 .. 1 + k} = n + 1 .. n + k
  <2>1. \A v \in n + 1 .. n + k : v - n + 1 \in 2 .. 1 + k /\ n + ((v - n + 1) - 1) = v
    OBVIOUS
  <2>2. \A v \in n + 1 .. n + k : \E i \in 2 .. 1 + k : g[i] = v
    BY <1>5, <2>1
  <2>3. \A i \in 2 .. 1 + k : g[i] \in n + 1 .. n + k
    BY <1>5
  <2> QED
    BY <2>2, <2>3
<1>10. Holds(g, n + 1 .. n + k)
  BY <1>7, <1>8, <1>9 DEF Holds
<1>11. Ordered(g)
  BY <1>6, <1>8 DEF Ordered
<1> QED
  BY <1>4, <1>10, <1>11 DEF data, g

\* Concatenation is associative on bytes.
LEMMA BytesAssociative ==
  \A s, t, u \in Seq(Nat) : (s \o t) \o u = s \o (t \o u)
<1>1. \A S : \A s, t, u \in Seq(S) : (s \o t) \o u = s \o (t \o u)
  BY ConcatAssociative, SMT
<1> QED
  BY <1>1, SMT

\* Bytes that pass an empty buffer, or none that do, keep their place.
LEMMA Overtaking ==
  ASSUME NEW w \in Seq(Nat), NEW b \in Seq(Nat), NEW x \in Seq(Nat), NEW y \in Seq(Nat),
         b = <<>> \/ x = <<>>
  PROVE  ((w \o x) \o b) \o y = (w \o b) \o (x \o y)
<1>1. CASE b = <<>>
  <2>1. (w \o x) \o b = w \o x /\ w \o b = w
    <3>1. /\ (w \o x) \in Seq(Nat)
          /\ \A s \in Seq(Nat) : s \o <<>> = s
      BY ConcatProperties, ConcatEmptySeq
    <3> QED
      BY <1>1, <3>1
  <2>2. (w \o x) \o y = w \o (x \o y)
    BY BytesAssociative
  <2> QED
    BY <2>1, <2>2
<1>2. CASE x = <<>>
  <2>1. w \o x = w /\ x \o y = y
    BY <1>2, ConcatEmptySeq
  <2> QED
    BY <2>1
<1> QED
  BY <1>1, <1>2

\* The inductive invariant: the stream, and that a dispatch that found the
\* socket writable still finds room in it.
StreamInv ==
  /\ StreamIntact
  /\ Intact /\ pc \in {"close", "read", "write"} /\ Writable => room > 0

\* send() puts its bytes behind those it has not sent yet, whether it writes
\* them, buffers them or holds them back.
LEMMA SendKeepsStream ==
  ASSUME TypeOK, StreamInv, NEW k \in 1 .. MaxSend, Send(k)
  PROVE  StreamInv'
<1> DEFINE data == [i \in 1 .. k |-> offered + i]
           first == ~Writable /\ sendBuf = <<>>
           rest == Rest(data, first)
           now == SubSeq(data, 1, IF first THEN Accepted(data) ELSE 0)
<1>1. /\ offered' = offered + k /\ nested' = (nested \/ held # <<>>)
      /\ SocketWrite(IF first THEN data ELSE <<>>)
      /\ \/ rest = <<>> /\ UNCHANGED <<sendBuf, listened, held>>
         \/ Buffered(rest) /\ UNCHANGED held
         \/ held' = rest \o held /\ UNCHANGED <<sendBuf, listened>>
      /\ UNCHANGED <<state, happened, ctlVars, interrupted>>
  BY DEF Send, SendWhen
<1>2. /\ data \in Seq(Nat) /\ Len(data) = k /\ rest \in Seq(Nat) /\ <<>> \in Seq(Nat)
      /\ k \in Nat \ {0} /\ offered \in Nat /\ room \in Nat
      /\ wire \in Seq(Nat) /\ sendBuf \in Seq(Nat) /\ held \in Seq(Nat)
  <2>1. first \in BOOLEAN
    OBVIOUS
  <2>2. k \in Nat \ {0} /\ offered \in Nat /\ room \in Nat
    BY TcpConnectionAssumption DEF TypeOK
  <2> HIDE DEF first
  <2> QED
    BY <2>1, <2>2, BytesOfSend, EmptySeq DEF TypeOK
<1>3. \A d \in {data, <<Garbage>> \o data} : Holds(d, offered + 1 .. offered + k) /\ Ordered(d)
  BY <1>2, DataHeld
<1>4. <<Garbage>> \o data \in Seq(Nat)
  <2>1. <<Garbage>> \in Seq(Nat)
    BY DEF Garbage
  <2> HIDE DEF data
  <2> QED
    BY <1>2, <2>1, ConcatProperties
<1> HIDE DEF data
<1>5. Accepted(data) \in 0 .. k /\ SubSeq(data, 1, 0) = <<>> /\ Accepted(<<>>) = 0
  <2>1. Accepted(data) \in 0 .. k
    BY <1>2, AcceptedBounds
  <2>2. Accepted(<<>>) = 0
    BY <1>2, EmptySeq DEF Accepted
  <2> QED
    BY <2>1, <2>2, SubSeqEmpty
<1>6. /\ wire' = wire \o now /\ UNCHANGED <<open, shut, peer>>
      /\ ~first => room' = room
  <2>1. SubSeq(<<>>, 1, 0) = <<>> /\ room - 0 = room
    BY <1>2, SubSeqEmpty
  <2>2. UNCHANGED <<open, shut, peer>>
    BY <1>1 DEF SocketWrite
  <2>3. CASE first
    BY <1>1, <2>2, <2>3 DEF SocketWrite
  <2>4. CASE ~first
    <3>1. SocketWrite(<<>>) /\ now = <<>>
      BY <1>1, <1>5, <2>4
    <3>2. wire' = wire \o <<>> /\ room' = room
      BY <1>5, <2>1, <3>1 DEF SocketWrite
    <3> QED
      BY <2>2, <3>1, <3>2
  <2> QED
    BY <2>3, <2>4
<1>7. now \in Seq(Nat) /\ (now = <<>> \/ sendBuf = <<>>)
  <2>1. 0 \in 0 .. Len(data) /\ Accepted(data) \in 0 .. Len(data)
    BY <1>2, <1>5
  <2> QED
    BY <1>2, <1>5, <2>1, PartsOfStream
<1>8. ASSUME Intact  PROVE now \o rest \in {data, <<Garbage>> \o data}
  <2>1. CASE first /\ WriteFails(data)
    <3>1. room = 0 /\ rest = <<Garbage>> \o data
      BY <1>8, <2>1 DEF WriteFails, CanWrite, Intact, Rest
    <3>2. Accepted(data) = 0
      BY <1>2, <3>1 DEF Accepted
    <3>3. now = <<>>
      BY <1>5, <2>1, <3>2
    <3> QED
      BY <1>4, <3>1, <3>3, ConcatEmptySeq
  <2>2. CASE first /\ ~WriteFails(data)
    <3>1. now = SubSeq(data, 1, Accepted(data)) /\ rest = SubSeq(data, 1 + Accepted(data), Len(data))
      BY <2>2 DEF Rest
    <3>2. 1 + Accepted(data) = Accepted(data) + 1 /\ Accepted(data) \in 0 .. Len(data)
      BY <1>2, <1>5
    <3>3. now \o rest = data
      <4> DEFINE took == Accepted(data)
      <4>1. took \in 0 .. Len(data) /\ data \in Seq(Nat)
        BY <1>2, <3>2
      <4>2. now = SubSeq(data, 1, took) /\ rest = SubSeq(data, took + 1, Len(data))
        BY <3>1, <3>2
      <4> HIDE DEF took
      <4>3. SubSeq(data, 1, took) \o SubSeq(data, took + 1, Len(data)) = data
        BY <4>1, PartsOfStream
      <4> QED
        BY <4>2, <4>3
    <3> QED
      BY <3>3
  <2>3. CASE ~first
    <3>1. now = <<>>
      BY <1>5, <2>3
    <3>2. rest = SubSeq(data, 1, Len(data))
      BY <2>3 DEF Rest
    <3>3. rest = data
      BY <1>2, <3>2, SubSeqFull
    <3> QED
      BY <1>2, <3>1, <3>3, ConcatEmptySeq
  <2> QED
    BY <2>1, <2>2, <2>3
<1> HIDE DEF rest, now
<1>9. (wire \o sendBuf \o held)' = ((wire \o sendBuf) \o (now \o rest)) \o held
  <2>1. ((wire \o now) \o sendBuf) \o rest = (wire \o sendBuf) \o (now \o rest)
    <3>1. sendBuf = <<>> \/ now = <<>>
      BY <1>7
    <3>2. /\ wire \in Seq(Nat) /\ sendBuf \in Seq(Nat)
          /\ now \in Seq(Nat) /\ rest \in Seq(Nat)
      BY <1>2, <1>7
    <3>3. \A w, b, x, y \in Seq(Nat) :
            b = <<>> \/ x = <<>> => ((w \o x) \o b) \o y = (w \o b) \o (x \o y)
      BY Overtaking
    <3> HIDE DEF first
    <3>4. \A x, y \in Seq(Nat) :
            sendBuf = <<>> \/ x = <<>>
              => ((wire \o x) \o sendBuf) \o y = (wire \o sendBuf) \o (x \o y)
      BY <3>2, <3>3, Zenon
    <3>5. sendBuf = <<>> \/ now = <<>>
            => ((wire \o now) \o sendBuf) \o rest = (wire \o sendBuf) \o (now \o rest)
      BY <3>2, <3>4, Zenon
    <3> QED
      BY <3>1, <3>5, Zenon
  <2>2. /\ wire' \in Seq(Nat) /\ wire' \o sendBuf \in Seq(Nat) /\ sendBuf \in Seq(Nat)
        /\ rest \in Seq(Nat) /\ held \in Seq(Nat)
    BY <1>2, <1>6, <1>7, ConcatProperties
  <2>a. wire' = wire \o now
    BY <1>6
  <2> HIDE DEF first
  <2>b. (wire' \o sendBuf) \o rest = (wire \o sendBuf) \o (now \o rest)
    BY <2>1, <2>a, Zenon
  <2> DEFINE all == (wire \o sendBuf) \o (now \o rest)
  <2>c. /\ (wire \o sendBuf \o held)' = (wire' \o sendBuf') \o held'
        /\ (wire' \o sendBuf) \o rest = all
    BY <2>b
  <2> SUFFICES (wire' \o sendBuf') \o held' = all \o held
    BY <2>c
  <2> HIDE DEF all
  <2>3. CASE rest = <<>> /\ UNCHANGED <<sendBuf, held>>
    <3>1. (wire' \o sendBuf) \o rest = wire' \o sendBuf
      BY <2>2, <2>3, ConcatEmptySeq
    <3>2. wire' \o sendBuf = all
      BY <2>c, <3>1, Zenon
    <3>3. sendBuf' = sendBuf /\ held' = held
      BY <2>3
    <3> QED
      BY <3>2, <3>3, Zenon
  <2>4. CASE sendBuf' = sendBuf \o rest /\ UNCHANGED held
    <3>1. (wire' \o sendBuf) \o rest = wire' \o (sendBuf \o rest)
      <4>1. wire' \in Seq(Nat) /\ sendBuf \in Seq(Nat) /\ rest \in Seq(Nat)
        BY <2>2
      <4> QED
        BY <4>1, BytesAssociative, Zenon
    <3>2. wire' \o (sendBuf \o rest) = all
      BY <2>c, <3>1, Zenon
    <3>3. sendBuf' = sendBuf \o rest /\ held' = held
      BY <2>4
    <3> QED
      BY <3>2, <3>3, Zenon
  <2>5. CASE held' = rest \o held /\ UNCHANGED sendBuf
    <3>1. ((wire' \o sendBuf) \o rest) \o held = (wire' \o sendBuf) \o (rest \o held)
      <4>1. wire' \o sendBuf \in Seq(Nat) /\ rest \in Seq(Nat) /\ held \in Seq(Nat)
        BY <2>2
      <4> QED
        BY <4>1, BytesAssociative, Zenon
    <3>2. sendBuf' = sendBuf /\ held' = rest \o held
      BY <2>5
    <3> QED
      BY <2>c, <3>1, <3>2
  <2> QED
    BY <1>1, <2>3, <2>4, <2>5 DEF Buffered
<1>10. StreamIntact'
  <2> DEFINE s == wire \o sendBuf
             d == now \o rest
  <2>1. s \in Seq(Nat) /\ d \in Seq(Nat)
    BY <1>2, <1>7, ConcatProperties
  <2>2. (wire \o sendBuf \o held)' = (s \o d) \o held
    BY <1>9
  <2>3. Intact' => Intact
    BY <1>6 DEF Intact
  <2>4. Intact => /\ Holds(s \o held, 1 .. offered)
                  /\ ~nested => Ordered(s \o held)
    BY DEF StreamInv, StreamIntact
  <2>5. Intact => /\ Holds(d, offered + 1 .. offered + k) /\ Ordered(d)
    BY <1>3, <1>8
  <2> HIDE DEF s, d
  <2>6. Intact => Holds((s \o d) \o held, 1 .. offered + k)
    <3>1. held \in Seq(Nat) /\ offered \in Nat /\ k \in Nat
      BY <1>2
    <3> QED
      BY <2>1, <2>4, <2>5, <3>1, HoldsInserted
  <2>7. Intact /\ ~nested' => Ordered((s \o d) \o held)
    <3> SUFFICES ASSUME Intact, ~nested'  PROVE Ordered((s \o d) \o held)
      OBVIOUS
    <3>1. held = <<>> /\ ~nested
      BY <1>1
    <3>2. s \o held = s /\ s \o d \in Seq(Nat)
      BY <2>1, <3>1, ConcatEmptySeq, ConcatProperties
    <3>3. (s \o d) \o held = s \o d
      BY <3>1, <3>2, ConcatEmptySeq
    <3>4. Holds(s, 1 .. offered) /\ Ordered(s)
      BY <2>4, <3>1, <3>2
    <3>5. Ordered(s \o d)
      BY <1>2, <2>1, <2>5, <3>4, OrderedConcat
    <3> QED
      BY <3>3, <3>5
  <2> QED
    BY <1>1, <2>2, <2>3, <2>6, <2>7 DEF StreamIntact
<1>11. Intact' /\ pc' \in {"close", "read", "write"} /\ Writable' => room' > 0
  BY <1>1, <1>6 DEF Intact, Writable, StreamInv, ctlVars
<1> QED
  BY <1>10, <1>11 DEF StreamInv

\* handleWrite moves a prefix of the buffer to the socket.
LEMMA HandleWriteKeepsStream ==
  ASSUME TypeOK, StreamInv, HandleWrite
  PROVE  StreamInv'
<1>1. /\ pc = "write" /\ pc' = "error" /\ UNCHANGED <<held, offered, nested>>
      /\ \/ UNCHANGED <<sendBuf, sockVars>>
         \/ Writable /\ SocketWrite(sendBuf) /\ sendBuf' = Unsent
  BY DEF HandleWrite, HandleWriteThen, Branch, Writable, histVars
<1>2. wire \in Seq(Nat) /\ sendBuf \in Seq(Nat)
  BY DEF TypeOK
<1>3. CASE UNCHANGED <<sendBuf, sockVars>>
  BY <1>1, <1>3 DEF StreamInv, StreamIntact, Intact, sockVars
<1>4. CASE Writable /\ SocketWrite(sendBuf) /\ sendBuf' = Unsent
  <2> SUFFICES ASSUME Intact'
               PROVE  (wire \o sendBuf \o held)' = wire \o sendBuf \o held /\ Intact
    BY <1>1 DEF StreamInv, StreamIntact
  <2>1. Intact
    BY <1>4 DEF Intact, SocketWrite
  <2>2. room > 0
    BY <1>1, <1>4, <2>1 DEF StreamInv
  <2>3. ~WriteFails(sendBuf)
    <3>1. room \in Nat
      BY TcpConnectionAssumption DEF TypeOK
    <3> QED
      BY <2>1, <2>2, <3>1 DEF WriteFails, CanWrite, Intact
  <2> DEFINE a == Accepted(sendBuf)
             x == SubSeq(sendBuf, 1, a)
             y == SubSeq(sendBuf, a + 1, Len(sendBuf))
  <2>4. wire' = wire \o x /\ sendBuf' = y
    BY <1>4, <2>3 DEF SocketWrite, Unsent
  <2>5. x \in Seq(Nat) /\ y \in Seq(Nat) /\ x \o y = sendBuf
    BY <1>2, AcceptedBounds, PartsOfStream
  <2> HIDE DEF x, y
  <2>6. (wire \o x) \o y = wire \o sendBuf
    BY <1>2, <2>5, BytesAssociative
  <2>7. (wire \o sendBuf \o held)' = wire \o sendBuf \o held
    BY <1>1, <2>4, <2>6
  <2> QED
    BY <2>1, <2>7
<1> QED
  BY <1>1, <1>3, <1>4

\* While a connection is intact no byte handed to send() is lost or repeated,
\* whatever the high water callback (a send() of its own included), partial and
\* failed writes and the readiness the last poll reported do; and as long as no
\* high water callback calls send(), the bytes reach the kernel in the order of
\* the send() calls.  A failed first write adds a byte (send, handleWrite).
THEOREM StreamStaysIntact == Spec => []StreamIntact
<1>1. Init => StreamInv
  <2> SUFFICES ASSUME Init  PROVE StreamInv
    OBVIOUS
  <2>1. wire \o sendBuf \o held = <<>> /\ Len(<<>>) = 0
    BY EmptySeq, ConcatEmptySeq DEF Init
  <2>2. Holds(<<>>, 1 .. 0) /\ Ordered(<<>>)
    BY <2>1 DEF Holds, Ordered
  <2> QED
    BY <2>1, <2>2 DEF Init, StreamInv, StreamIntact
<1>2. TypeOK /\ StreamInv /\ [Next]_vars => StreamInv'
  <2> SUFFICES ASSUME TypeOK, StreamInv, [Next]_vars  PROVE StreamInv'
    OBVIOUS
  <2>1. ASSUME NEW k \in 1 .. MaxSend, Send(k)  PROVE StreamInv'
    BY <2>1, SendKeepsStream
  <2>2. CASE FinishSend
    <3> DEFINE own == Len(held) - Head(below)
               x == SubSeq(held, 1, own)
               y == SubSeq(held, own + 1, Len(held))
    <3>1. /\ held # <<>> /\ sendBuf' = sendBuf \o x /\ held' = y /\ below' = Tail(below)
          /\ UNCHANGED <<wire, offered, nested, open, shut, peer, pc, happened, room>>
      BY <2>2 DEF FinishSend, Buffered, ctlVars, histVars, sockVars
    <3>2. wire \in Seq(Nat) /\ sendBuf \in Seq(Nat) /\ held \in Seq(Nat) /\ Nesting
      BY DEF TypeOK
    <3>3. own \in 0 .. Len(held)
      BY <3>1, <3>2, NestingReturns
    <3> HIDE DEF own
    <3> HIDE DEF x, y
    <3>4. x \in Seq(Nat) /\ y \in Seq(Nat) /\ x \o y = held
      <4>1. /\ SubSeq(held, 1, own) \in Seq(Nat) /\ SubSeq(held, own + 1, Len(held)) \in Seq(Nat)
            /\ SubSeq(held, 1, own) \o SubSeq(held, own + 1, Len(held)) = held
        <5>1. held \in Seq(Nat)
          BY <3>2
        <5> QED
          BY <3>3, <5>1, PartsOfStream, Zenon
      <4> QED
        BY <4>1 DEF x, y
    <3>5. (wire \o (sendBuf \o x)) \o y = (wire \o sendBuf) \o (x \o y)
      <4>1. wire \o (sendBuf \o x) = (wire \o sendBuf) \o x
        <5>1. wire \in Seq(Nat) /\ sendBuf \in Seq(Nat) /\ x \in Seq(Nat)
          BY <3>2, <3>4
        <5> QED
          BY <5>1, BytesAssociative, Zenon
      <4>2. wire \o sendBuf \in Seq(Nat)
        BY <3>2, ConcatProperties
      <4>3. ((wire \o sendBuf) \o x) \o y = (wire \o sendBuf) \o (x \o y)
        BY <3>4, <4>2, BytesAssociative
      <4> QED
        BY <4>1, <4>3
    <3>6. (wire \o sendBuf \o held)' = wire \o sendBuf \o held
      BY <3>1, <3>4, <3>5
    <3> QED
      BY <3>1, <3>6 DEF StreamInv, StreamIntact, Intact, Writable
  <2>3. CASE HandleWrite
    BY <2>3, HandleWriteKeepsStream
  <2>4. ASSUME UNCHANGED <<wire, sendBuf, held, offered, nested>>, Intact' => Intact,
               Intact' /\ pc' \in {"close", "read", "write"} /\ Writable' => room' > 0
        PROVE  StreamInv'
    BY <2>4 DEF StreamInv, StreamIntact
  <2> USE DEF connVars, ctlVars, sockVars, histVars, Intact, Writable, StreamInv
  <2>5. CASE ConnectComplete \/ Shutdown
    <3>1. UNCHANGED <<wire, sendBuf, held, offered, nested, happened, pc, room, peer, open>>
      BY <2>5 DEF ConnectComplete, Shutdown, ShutdownWrite
    <3>2. shut => shut'
      BY <2>5, Zenon DEF ConnectComplete, Shutdown, ShutdownWrite
    <3> QED
      BY <2>4, <3>1, <3>2
  <2>6. CASE Close
    BY <2>4, <2>6 DEF Close, Disconnect, CloseSocket
  <2>7. ASSUME NEW p \in Callers, (\E op \in Ops : CallerChecks(p, op)) \/ CallerActs(p)
        PROVE  StreamInv'
    BY <2>4, <2>7 DEF CallerChecks, CallerActs
  <2>8. CASE RunTask
    <3>1. UNCHANGED <<wire, sendBuf, held, offered, nested, happened, pc, room, peer>>
      BY <2>8 DEF RunTask, ShutdownWrite, QueuedClose, Disconnect, CloseSocket
    <3>2. open' => open /\ (shut => shut')
      BY <2>8 DEF RunTask, ShutdownWrite, QueuedClose, Disconnect, CloseSocket
    <3> QED
      BY <2>4, <3>1, <3>2
  <2>9. CASE Poll
    BY <2>4, <2>9 DEF Poll, Revents, CanWrite
  <2>10. CASE HandleClose
    BY <2>4, <2>10 DEF HandleClose, Branch, CloseSocket
  <2>11. CASE HandleRead
    BY <2>4, <2>11 DEF HandleRead, Branch, Disconnect, CloseSocket
  <2>12. CASE HandleError
    BY <2>4, <2>12 DEF HandleError, Branch
  <2>13. CASE Drain
    BY <2>4, <2>13, TcpConnectionAssumption DEF Drain
  <2>14. CASE PeerSends \/ \E how \in {"fin", "reset"} : PeerCloses(how)
    BY <2>4, <2>14 DEF PeerSends, PeerCloses
  <2>15. CASE UNCHANGED vars
    BY <2>4, <2>15 DEF vars
  <2> QED
    BY <2>1, <2>2, <2>3, <2>5, <2>6, <2>7, <2>8, <2>9, <2>10, <2>11, <2>12, <2>13, <2>14,
       <2>15 DEF Next, Handle
<1>3. StreamInv => StreamIntact
  BY DEF StreamInv
<1> QED
  BY <1>1, <1>2, <1>3, ConnectionTyped, PTL DEF Spec
-----------------------------------------------------------------------------
(* What the liveness of a connection rests on.                             *)

\* The peer's close makes the next poll report the descriptor: the guard of
\* Poll, whatever the handlers and the callers have done to the masks before.
ClosedPeerIsReported ==
  BetweenEvents /\ open /\ state # "connecting" /\ peer # "up" =>
    ~Negative(listened) /\ "R" \in Revents

\* No order of handlers, closures, callers and peer actions makes the poller
\* deaf to a peer that has closed or reset an open connection (Event.h, the
\* masks of send, handleWrite and handleClose).
THEOREM ClosedPeersAreReported == Spec => []ClosedPeerIsReported
<1> WatchedWhileOpen => ClosedPeerIsReported
  BY DEF WatchedWhileOpen, ClosedPeerIsReported, Revents
<1> QED
  BY OpenIsWatched, PTL

\* What is buffered with an interest in writing keeps it until it is sent.
Writing == "W" \in listened /\ ~Negative(listened)

WriteInterestIsKept ==
  [][ sendBuf # <<>> /\ Writing => sendBuf' = <<>> \/ ~open' \/ Writing' ]_vars

\* Only handleWrite that has emptied the buffer and a close end the interest
\* in writing: a partial write, a send() or a late operation never does.
THEOREM WriteInterestStays == Spec => WriteInterestIsKept
<1>1. IInv /\ [Next]_vars => (sendBuf # <<>> /\ Writing => sendBuf' = <<>> \/ ~open' \/ Writing')
  <2> SUFFICES ASSUME IInv, [Next]_vars, Writing, open', sendBuf' # <<>>
               PROVE  Writing'
    OBVIOUS
  <2> USE DEF connVars, sockVars
  <2>1. CASE UNCHANGED listened
    BY <2>1 DEF Writing
  <2>2. CASE listened' = Enabled(listened, "W")
    BY <2>2, Masks DEF Writing, Enabled, Negative
  <2>3. CASE ConnectComplete
    BY <2>3, Masks DEF ConnectComplete, IInv, Fresh, Writing
  <2>4. ASSUME NEW k \in 1 .. MaxSend, Send(k)
        PROVE  listened' \in {listened, Enabled(listened, "W")}
    BY <2>4 DEF Send, SendWhen, Buffered
  <2>5. FinishSend => listened' \in {listened, Enabled(listened, "W")}
    BY DEF FinishSend, Buffered
  <2>6. Shutdown => UNCHANGED listened
    BY DEF Shutdown, ShutdownWrite
  <2>7. ~Close
    BY DEF Close, Disconnect, CloseSocket
  <2>8. \A p \in Callers : (\E op \in Ops : CallerChecks(p, op)) \/ CallerActs(p) =>
          UNCHANGED listened
    BY DEF CallerChecks, CallerActs
  <2>9. RunTask => UNCHANGED listened
    BY DEF RunTask, ShutdownWrite, QueuedClose, Disconnect, CloseSocket
  <2>10. Poll \/ HandleError => UNCHANGED listened
    BY DEF Poll, HandleError
  <2>11. HandleClose => UNCHANGED listened
    BY DEF HandleClose, CloseSocket
  <2>12. HandleRead => UNCHANGED listened
    BY DEF HandleRead, Disconnect, CloseSocket
  <2>13. HandleWrite => UNCHANGED listened
    BY DEF HandleWrite, HandleWriteThen
  <2>14. Drain \/ PeerSends \/ (\E how \in {"fin", "reset"} : PeerCloses(how)) =>
           UNCHANGED listened
    BY DEF Drain, PeerSends, PeerCloses
  <2>15. UNCHANGED vars => UNCHANGED listened
    BY DEF vars
  <2> QED
    BY <2>1, <2>2, <2>3, <2>4, <2>5, <2>6, <2>7, <2>8, <2>9, <2>10, <2>11, <2>12, <2>13,
       <2>14, <2>15 DEF Next, Handle
<1> QED
  BY <1>1, IInvHolds, PTL DEF Spec, WriteInterestIsKept

\* forceClose() of a caller that has passed its guard: it has still to queue
\* the closure, or the closure is in the queue, or the descriptor is closed.
Closes == {"forceClose", "quietClose"}

CloseIsPending(p) ==
  \/ ~open
  \/ call[p] \in Closes
  \/ \E i \in DOMAIN queue : queue[i] \in Closes

\* What the queue keeps when it grows at the end and loses its head.
LEMMA QueueKeeps ==
  ASSUME NEW S, NEW q \in Seq(S), NEW x \in S
  PROVE  /\ Len(q) + 1 \in DOMAIN Append(q, x) /\ Append(q, x)[Len(q) + 1] = x
         /\ \A i \in DOMAIN q : i \in DOMAIN Append(q, x) /\ Append(q, x)[i] = q[i]
         /\ q # <<>> => \A i \in DOMAIN q :
              i = 1 \/ (i - 1 \in DOMAIN Tail(q) /\ Tail(q)[i - 1] = q[i])
<1>1. Append(q, x) \in Seq(S) /\ Len(Append(q, x)) = Len(q) + 1 /\ Len(q) \in Nat
  BY AppendProperties, LenProperties
<1>2. Append(q, x)[Len(q) + 1] = x /\ \A i \in 1 .. Len(q) : Append(q, x)[i] = q[i]
  BY AppendProperties
<1>3. ASSUME q # <<>>, NEW i \in 1 .. Len(q), i # 1
      PROVE  i - 1 \in DOMAIN Tail(q) /\ Tail(q)[i - 1] = q[i]
  BY <1>1, <1>3, HeadTailProperties
<1> QED
  BY <1>1, <1>2, <1>3

\* A forceClose() that has passed its guard is never dropped: whatever other
\* callers, the peer and the handlers do meanwhile, its closure stays queued
\* until the descriptor is closed (forceClose, forceCloseWithoutCallback).
THEOREM ClosesAreNotDropped ==
  ASSUME NEW p \in Callers
  PROVE  Spec => []((call[p] \in Closes) => []CloseIsPending(p))
<1>1. TypeOK /\ CloseIsPending(p) /\ [Next]_vars => CloseIsPending(p)'
  <2> SUFFICES ASSUME TypeOK, CloseIsPending(p), [Next]_vars, open, open'
               PROVE  CloseIsPending(p)'
    <3> USE DEF connVars, ctlVars, sockVars, histVars
    <3>1. ASSUME [Next]_vars, open'  PROVE open
      <4>1. /\ ConnectComplete \/ FinishSend \/ Shutdown => open' = open
            /\ \A k \in 1 .. MaxSend : Send(k) => open' = open
        BY DEF ConnectComplete, FinishSend, Shutdown, ShutdownWrite, Send, SendWhen, SocketWrite
      <4>2. ~Close
        BY <3>1 DEF Close, Disconnect, CloseSocket
      <4>3. \A q \in Callers : (\E op \in Ops : CallerChecks(q, op)) \/ CallerActs(q) => open' = open
        BY DEF CallerChecks, CallerActs
      <4>4. RunTask => open' = open
        BY <3>1 DEF RunTask, ShutdownWrite, QueuedClose, Disconnect, CloseSocket
      <4>5. Poll \/ HandleError \/ HandleWrite => open' = open
        BY DEF Poll, HandleError, HandleWrite, HandleWriteThen, SocketWrite
      <4>6. HandleClose \/ HandleRead => open' = open
        BY <3>1 DEF HandleClose, HandleRead, Disconnect, CloseSocket
      <4>7. Drain \/ PeerSends \/ (\E how \in {"fin", "reset"} : PeerCloses(how)) \/ UNCHANGED vars =>
              open' = open
        BY DEF Drain, PeerSends, PeerCloses, vars
      <4> QED
        BY <3>1, <4>1, <4>2, <4>3, <4>4, <4>5, <4>6, <4>7 DEF Next, Handle
    <3> QED
      BY <3>1 DEF CloseIsPending
  <2> USE DEF connVars, ctlVars, sockVars, histVars
  <2> DEFINE S == Ops \cup {"writeComplete"}
  <2>0. queue \in Seq(S) /\ call \in [Callers -> Ops \cup {"ready", "done"}] /\ Closes \subseteq S
    BY DEF TypeOK, Closes, Ops
  <2>1. CASE UNCHANGED <<queue, call>>
    BY <2>1 DEF CloseIsPending
  <2>2. ASSUME NEW x \in S, queue' = Append(queue, x), call' = call
        PROVE  CloseIsPending(p)'
    <3>1. CASE call[p] \in Closes
      BY <2>2, <3>1 DEF CloseIsPending
    <3>2. CASE \E i \in DOMAIN queue : queue[i] \in Closes
      <4> PICK i \in DOMAIN queue : queue[i] \in Closes
        BY <3>2
      <4>1. i \in DOMAIN queue' /\ queue'[i] = queue[i]
        <5> HIDE DEF S
        <5> QED
          BY <2>0, <2>2, QueueKeeps
      <4> QED
        BY <4>1 DEF CloseIsPending
    <3> QED
      BY <3>1, <3>2 DEF CloseIsPending
  <2>3. ASSUME NEW q \in Callers, NEW op \in Ops, CallerChecks(q, op)
        PROVE  CloseIsPending(p)'
    <3>1. UNCHANGED queue /\ (call[p] \in Closes => call'[p] = call[p])
      BY <2>0, <2>3 DEF CallerChecks, Closes
    <3> QED
      BY <3>1 DEF CloseIsPending
  <2>4. ASSUME NEW q \in Callers, CallerActs(q)
        PROVE  CloseIsPending(p)'
    <3>1. call[q] \in S /\ queue' = Append(queue, call[q]) /\ call' = [call EXCEPT ![q] = "done"]
      BY <2>4 DEF CallerActs
    <3>2. /\ Len(queue) + 1 \in DOMAIN queue' /\ queue'[Len(queue) + 1] = call[q]
          /\ \A i \in DOMAIN queue : i \in DOMAIN queue' /\ queue'[i] = queue[i]
      <4> HIDE DEF S
      <4> QED
        BY <2>0, <3>1, QueueKeeps
    <3>3. CASE \E i \in DOMAIN queue : queue[i] \in Closes
      BY <3>2, <3>3 DEF CloseIsPending
    <3>4. CASE call[p] \in Closes /\ q = p
      BY <3>2, <3>4 DEF CloseIsPending
    <3>5. CASE call[p] \in Closes /\ q # p
      <4>1. call'[p] = call[p]
        BY <2>0, <3>1, <3>5
      <4> QED
        BY <4>1, <3>5 DEF CloseIsPending
    <3> QED
      BY <3>3, <3>4, <3>5 DEF CloseIsPending
  <2>5. CASE RunTask
    <3>1. /\ queue # <<>> /\ queue' = Tail(queue) /\ call' = call
          /\ Head(queue) \in Closes => ~open'
      BY <2>5 DEF RunTask, QueuedClose, Disconnect, CloseSocket, Closes
    <3>2. CASE call[p] \in Closes
      BY <3>1, <3>2 DEF CloseIsPending
    <3>3. CASE \E i \in DOMAIN queue : queue[i] \in Closes
      <4> PICK i \in DOMAIN queue : queue[i] \in Closes
        BY <3>3
      <4>1. queue[1] \notin Closes
        BY <3>1
      <4>2. i - 1 \in DOMAIN queue' /\ queue'[i - 1] = queue[i]
        <5> HIDE DEF S
        <5> QED
          BY <2>0, <3>1, <4>1, QueueKeeps
      <4> QED
        BY <4>2 DEF CloseIsPending
    <3> QED
      BY <3>2, <3>3 DEF CloseIsPending
  <2>6. CASE HandleWrite
    <3>1. call' = call /\ (queue' = queue \/ queue' = Append(queue, "writeComplete"))
      BY <2>6 DEF HandleWrite, HandleWriteThen, Branch
    <3> QED
      BY <2>1, <2>2, <3>1
  <2>7. /\ ConnectComplete \/ FinishSend \/ Shutdown \/ Close => UNCHANGED <<queue, call>>
        /\ \A k \in 1 .. MaxSend : Send(k) => UNCHANGED <<queue, call>>
    BY DEF ConnectComplete, FinishSend, Shutdown, Close, Send, SendWhen
  <2>8. Poll \/ HandleClose \/ HandleRead \/ HandleError => UNCHANGED <<queue, call>>
    BY DEF Poll, HandleClose, HandleRead, HandleError, Branch
  <2>9. Drain \/ PeerSends \/ (\E how \in {"fin", "reset"} : PeerCloses(how)) \/ UNCHANGED vars =>
          UNCHANGED <<queue, call>>
    BY DEF Drain, PeerSends, PeerCloses, vars
  <2> QED
    BY <2>1, <2>3, <2>4, <2>5, <2>6, <2>7, <2>8, <2>9 DEF Next, Handle
<1>2. (call[p] \in Closes) => CloseIsPending(p)
  BY DEF CloseIsPending
<1> QED
  BY <1>1, <1>2, ConnectionTyped, PTL DEF Spec
=============================================================================
