----------------------------- MODULE ByteStream -----------------------------
(* What a Buffer promises: a sequence of bytes that grows at both ends and  *)
(* gives up bytes at both ends, by exactly what the arguments of each call  *)
(* say.  A read of a byte that is not there returns any byte.  An integer   *)
(* of several bytes is not what the names readByte2 ... promise: its caller *)
(* gets the first byte only, and the program may end.                       *)
EXTENDS Naturals, Sequences

CONSTANTS
  Chunks,     \* the sequences of bytes that callers add
  Widths,     \* the widths of the integers they read, in bytes
  MaxSize     \* the largest length and position they name

VARIABLES
  stream,     \* the bytes that can be read
  call,       \* the last operation and its arguments
  value,      \* the bytes it returned
  over        \* the program ended, or a read from a socket failed

Init == stream = <<>> /\ call = <<"swap">> /\ value = <<>> /\ over = FALSE

First(k) == SubSeq(stream, 1, k)
AllBut(k) == SubSeq(stream, k + 1, Len(stream))

\* What is left if a call takes n bytes: everything, if there are not as many.
LeftOf(n) == IF n < Len(stream) THEN AllBut(n) ELSE <<>>

Call(c, left, returned) == call' = c /\ stream' = left /\ value' = returned

Extend(s) ==
  \/ Call(<<"append", s>>, stream \o s, <<>>)
  \/ Call(<<"readSocket", s>>, stream \o s, <<>>)
  \/ Call(<<"prepend", s>>, s \o stream, <<>>)

Retrieve(n) == Call(<<"retrieve", n>>, LeftOf(n), <<>>)

RetrieveAsString(n) ==
  \/ n <= Len(stream) /\ Call(<<"retrieveAsString", n>>, AllBut(n), First(n))
  \/ n > Len(stream) /\ Call(<<"retrieveAsString", n>>, stream, <<>>)

UndoAppend(n) ==
  \/ n <= Len(stream) /\ Call(<<"undoAppend", n>>, First(Len(stream) - n), <<>>)
  \/ n > Len(stream) /\ Call(<<"undoAppend", n>>, stream, <<>>)

\* The first byte, or any if there is none.
ReturnsByte == Len(value') = 1 /\ stream # <<>> => value' = First(1)

Read(width) == call' = <<"read", width>> /\ stream' = LeftOf(width) /\ ReturnsByte
Peek(width) == call' = <<"peek", width>> /\ stream' = stream /\ ReturnsByte

\* target follows the first k bytes.
Follows(target, k) ==
  /\ k + Len(target) <= Len(stream)
  /\ \A i \in 1 .. Len(target) : stream[k + i] = target[i]

\* Everything before the first occurrence of target from the skip-th byte on.
RetrieveUntil(target, skip) ==
  LET c == <<"retrieveUntil", target, skip>>
  IN /\ skip < Len(stream) \/ skip = 0
     /\ \/ \E k \in skip .. Len(stream) :
             /\ Follows(target, k) /\ \A j \in skip .. k - 1 : ~Follows(target, j)
             /\ Call(c, AllBut(k), <<>>)
        \/ (\A k \in skip .. Len(stream) : ~Follows(target, k)) /\ Call(c, stream, <<>>)

Swap == Call(<<"swap">>, <<>>, <<>>)

\* The calls that may end the program.
Fatal ==
  \/ \E s \in Chunks : call' = <<"prepend", s>>
  \/ \E width \in Widths : width > 1 /\ call' \in {<<"read", width>>, <<"peek", width>>}
  \/ \E t \in Chunks, skip \in 0 .. MaxSize :
       skip >= Len(stream) /\ call' = <<"retrieveUntil", t, skip>>
  \/ call' = <<"readSocketFails">>

Next ==
  /\ ~over
  /\ \/ over' = TRUE /\ Fatal
     \/ /\ UNCHANGED over
        /\ \/ \E s \in Chunks : Extend(s)
           \/ \E n \in 0 .. MaxSize : Retrieve(n) \/ RetrieveAsString(n) \/ UndoAppend(n)
           \/ \E width \in Widths : Read(width) \/ Peek(width)
           \/ \E t \in Chunks \ {<<>>}, skip \in 0 .. MaxSize : RetrieveUntil(t, skip)
           \/ Swap

Spec == Init /\ [][Next]_<<stream, call, value, over>>
=============================================================================
