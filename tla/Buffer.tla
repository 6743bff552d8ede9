------------------------------- MODULE Buffer -------------------------------
(***************************************************************************)
(* class Buffer of utils/Buffer.h: a vector of bytes with a reader and a   *)
(* writer index, which are size_t: their arithmetic is modulo W.           *)
(*                                                                         *)
(* LOG_FATAL aborts the program (outcome "aborted").  A read of the socket *)
(* that fails ends the model too ("failed"), after the code's arithmetic   *)
(* with a length of -1 has been carried out: the copy of that length is    *)
(* undefined and either kills the program or copies nothing.               *)
(* readByte2, readByte4, readByte8 and their peek variants copy char by    *)
(* char into elements of two, four or eight bytes: the result is the first *)
(* byte alone, and the other bytes overwrite the stack behind it, which is *)
(* undefined and may end the program (outcome "ruined") or do no harm.     *)
(***************************************************************************)
EXTENDS Integers, Sequences, FiniteSetsExt

CONSTANTS
  Byte,             \* the bytes of callers and peers
  Zero,             \* a byte nobody wrote
  kCheapPrepend,
  InitSize,         \* the argument of the constructor
  ExtraSize,        \* the size of extraBuf in readSocket
  W,                \* 2^w for a size_t of w bits
  MaxSize,          \* bound: bytes of the vector
  MaxChunk          \* bound: bytes of one operation

ASSUME BufferAssumption ==
  /\ kCheapPrepend \in Nat \ {0} /\ InitSize \in Nat /\ ExtraSize \in Nat
  /\ MaxSize \in Nat /\ MaxChunk \in Nat /\ W \in Nat
  /\ kCheapPrepend + InitSize <= MaxSize
  /\ 2 * (MaxSize + MaxChunk) + kCheapPrepend < W
  /\ Zero \notin Byte

VARIABLES
  buf,              \* buffer_, readerIndex_ and writerIndex_
  call,             \* history: the last operation and its arguments
  value,            \* the bytes the last operation returned
  outcome           \* "ok", "aborted", "failed" or "ruined"

vars == <<buf, call, value, outcome>>

\* The sizes of int8_t, int16_t, int32_t and int64_t.
Widths == {1, 2, 4, 8}

Chunks == UNION {[1 .. n -> Byte] : n \in 0 .. MaxChunk}

Record(b, r, w) == [bytes |-> b, reader |-> r, writer |-> w]

New ==
  Record([i \in 1 .. kCheapPrepend + InitSize |-> Zero], kCheapPrepend, kCheapPrepend)

Init ==
  /\ buf = New
  /\ call = <<"swap">>
  /\ value = <<>>
  /\ outcome = "ok"

-----------------------------------------------------------------------------
Readable(x) == (x.writer - x.reader) % W
Writable(x) == (Len(x.bytes) - x.writer) % W
Prependable(x) == x.reader

\* The n bytes from beginRead() on, which may go past the writer index and
\* past the vector.
From(x, n) ==
  [i \in 1 .. n |-> IF x.reader + i <= Len(x.bytes) THEN x.bytes[x.reader + i] ELSE Zero]

Content(x) == From(x, Readable(x))

\* std::copy of s to the position p of the vector b, and vector::resize.
Copied(b, p, s) ==
  [i \in 1 .. Len(b) |-> IF p < i /\ i <= p + Len(s) THEN s[i - p] ELSE b[i]]
Resized(b, n) == [i \in 1 .. n |-> IF i <= Len(b) THEN b[i] ELSE Zero]

\* Mutant: the room for the prepended bytes is forgotten.
MakeSpaceTight(x, len) ==
  IF (Writable(x) + Prependable(x)) % W < len
  THEN [x EXCEPT !.bytes = Resized(@, (x.writer + len) % W)]
  ELSE Record(Copied(x.bytes, kCheapPrepend, Content(x)),
              kCheapPrepend, kCheapPrepend + Readable(x))

MakeSpace(x, len) ==
  IF (Writable(x) + Prependable(x)) % W < (len + kCheapPrepend) % W
  THEN [x EXCEPT !.bytes = Resized(@, (x.writer + len) % W)]
  ELSE Record(Copied(x.bytes, kCheapPrepend, Content(x)),
              kCheapPrepend, kCheapPrepend + Readable(x))

\* append(data, len), where data are the bytes that are really copied.
Appended(x, data, len) ==
  LET y == IF Writable(x) < len THEN MakeSpace(x, len) ELSE x
      w == IF len <= Writable(y) THEN (y.writer + len) % W ELSE y.writer
  IN Record(Copied(y.bytes, y.writer, data), y.reader, w)

Cleared(x) == Record(x.bytes, kCheapPrepend, kCheapPrepend)

Retrieved(x, len) ==
  IF len < Readable(x) THEN [x EXCEPT !.reader = @ + len] ELSE Cleared(x)

-----------------------------------------------------------------------------
(* The operations.                                                         *)

\* MaxSize bounds the vector.
Becomes(c, x, v) ==
  /\ outcome = "ok" /\ Len(x.bytes) <= MaxSize
  /\ call' = c /\ buf' = x /\ value' = v
  /\ UNCHANGED outcome

Ends(c, how) ==
  /\ outcome = "ok" /\ outcome' = how
  /\ call' = c
  /\ UNCHANGED <<buf, value>>

AppendBytes(s) == Becomes(<<"append", s>>, Appended(buf, s, Len(s)), <<>>)

Prepend(s) ==
  \/ Len(s) > Prependable(buf) /\ Ends(<<"prepend", s>>, "aborted")
  \/ /\ Len(s) <= Prependable(buf)
     /\ LET r == buf.reader - Len(s)
        IN Becomes(<<"prepend", s>>, Record(Copied(buf.bytes, r, s), r, buf.writer), <<>>)

Retrieve(len) == Becomes(<<"retrieve", len>>, Retrieved(buf, len), <<>>)

\* retrieveAsString, retrieveAllAsString
RetrieveAsString(len) ==
  \/ /\ len <= Readable(buf)
     /\ Becomes(<<"retrieveAsString", len>>, Retrieved(buf, len), From(buf, len))
  \/ len > Readable(buf) /\ Becomes(<<"retrieveAsString", len>>, buf, <<>>)

\* readByte, readByte2, readByte4, readByte8 do not look at what is readable;
\* the result is the number that the first byte alone is.
Read(width) ==
  \/ Becomes(<<"read", width>>, Retrieved(buf, width), From(buf, 1))
  \/ width > 1 /\ Ends(<<"read", width>>, "ruined")

\* peekByte, peekByte2, peekByte4, peekByte8
Peek(width) ==
  \/ Becomes(<<"peek", width>>, buf, From(buf, 1))
  \/ width > 1 /\ Ends(<<"peek", width>>, "ruined")

\* swap with a Buffer that was just made.
Swap == Becomes(<<"swap">>, New, <<>>)

Undone(c, len) ==
  Becomes(<<"undoAppend", len>>, IF c THEN [buf EXCEPT !.writer = @ - len] ELSE buf, <<>>)

\* Mutant: the length is compared with the writer index.
UndoAppendPastReader(len) == Undone(len <= buf.writer, len)

UndoAppend(len) == Undone(len <= Readable(buf), len)

\* Where target is found in the readable bytes from the skip-th on.
Hits(target, skip) ==
  {p \in skip .. Readable(buf) - Len(target) :
     \A i \in 1 .. Len(target) : Content(buf)[p + i] = target[i]}

\* retrieveUntil(find(target, beginRead() + skip)), also of findCRLF and
\* findEOL: retrieveUntil refuses the null pointer of a search that fails.
\* Without a start (skip = 0) the search does not check that there are bytes.
RetrieveUntil(target, skip) ==
  LET c == <<"retrieveUntil", target, skip>>
  IN \/ skip >= Readable(buf) /\ Ends(c, "aborted")
     \/ skip = 0 /\ Readable(buf) = 0 /\ Becomes(c, buf, <<>>)
     \/ skip < Readable(buf) /\ Hits(target, skip) = {} /\ Becomes(c, buf, <<>>)
     \/ /\ skip < Readable(buf) /\ Hits(target, skip) # {}
        /\ Becomes(c, Retrieved(buf, Min(Hits(target, skip))), <<>>)

\* readv fills the writable bytes, then extraBuf, which is appended.
Received(x, s) ==
  LET n == Writable(x)
      y == Record(Copied(x.bytes, x.writer, SubSeq(s, 1, n)), x.reader, Len(x.bytes))
  IN IF Len(s) <= n
     THEN Record(Copied(x.bytes, x.writer, s), x.reader, x.writer + Len(s))
     ELSE Appended(y, SubSeq(s, n + 1, Len(s)), Len(s) - n)

ReadSocket(s) ==
  /\ Len(s) <= Writable(buf) + ExtraSize
  /\ Becomes(<<"readSocket", s>>, Received(buf, s), <<>>)

\* readv returned -1: no size_t is larger, the vector counts as full, and -1
\* minus the writable bytes are appended.
ReadSocketFails ==
  \/ Ends(<<"readSocketFails">>, "aborted")
  \/ /\ outcome = "ok" /\ outcome' = "failed"
     /\ call' = <<"readSocketFails">>
     /\ buf' = Appended(Record(buf.bytes, buf.reader, Len(buf.bytes)), <<>>,
                       W - 1 - Writable(buf))
     /\ UNCHANGED value

Next ==
  \/ \E s \in Chunks : AppendBytes(s) \/ Prepend(s) \/ ReadSocket(s)
  \/ \E n \in 0 .. MaxSize : Retrieve(n) \/ RetrieveAsString(n) \/ UndoAppend(n)
  \/ \E width \in Widths : Read(width) \/ Peek(width)
  \/ Swap
  \/ \E t \in Chunks \ {<<>>}, skip \in 0 .. MaxSize : RetrieveUntil(t, skip)
  \/ ReadSocketFails

Spec == Init /\ [][Next]_vars

-----------------------------------------------------------------------------
\* The type of the buffer, and the order of its indices that the diagram at
\* Buffer.h:66 shows: it holds whatever is appended, prepended, retrieved and
\* moved, as long as no read from the socket has failed.
IndexOrder ==
  /\ buf.bytes \in Seq(Byte \cup {Zero})
  /\ buf.reader \in Nat /\ buf.writer \in Nat
  /\ outcome # "failed" => buf.reader <= buf.writer /\ buf.writer <= Len(buf.bytes)

\* Every operation does to the readable bytes, and returns of them, what its
\* arguments say: none is lost, repeated, moved or invented, although append
\* and readSocket move the bytes or the vector and prepend writes in front of
\* them (makeSpace, append, prepend, readSocket); only a prepend without room,
\* a search from past the end, an integer of several bytes and a read of the
\* socket that fails may end the program.
Stream == INSTANCE ByteStream
  WITH stream <- Content(buf), over <- outcome # "ok"
StreamSpec == Stream!Spec
=============================================================================
