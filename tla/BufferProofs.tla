---------------------------- MODULE BufferProofs ----------------------------
(* Proofs about Buffer: the reader index never passes the writer index and *)
(* the writer index never passes the end of the vector, for every width of *)
(* size_t, every initial size and every number of operations.              *)
EXTENDS Buffer, SequenceTheorems, WellFoundedInduction, TLAPS

Bytes == Byte \cup {Zero}
Buffers == [bytes : Seq(Bytes), reader : Nat, writer : Nat]

\* The order of the indices; the vector never loses the prepended bytes' room.
Ordered(x) ==
  /\ x.reader <= x.writer /\ x.writer <= Len(x.bytes)
  /\ kCheapPrepend <= Len(x.bytes)

\* An ordered buffer within the bound, whose arithmetic does not wrap around.
Sound(x) == x \in Buffers /\ Ordered(x) /\ Len(x.bytes) <= MaxSize

\* The inductive invariant: the buffer is typed always, and its indices are in
\* order within the bound unless a read of the socket has failed.
IInv ==
  /\ buf \in Buffers
  /\ outcome \in {"ok", "aborted", "failed", "ruined"}
  /\ outcome # "failed" => Sound(buf)

\* A non-negative number below W is its own remainder.
LEMMA NoWrap == \A x \in Nat : x < W => x % W = x
BY BufferAssumption

\* A remainder is a natural number.
LEMMA WrapIsNat == W \in Nat \ {0} /\ \A x \in Int : x % W \in Nat
BY BufferAssumption

\* What the differences of the indices of a sound buffer are.
LEMMA SoundSizes ==
  ASSUME NEW x, Sound(x)
  PROVE  /\ Readable(x) = x.writer - x.reader
         /\ Writable(x) = Len(x.bytes) - x.writer
         /\ Readable(x) \in Nat /\ Writable(x) \in Nat
         /\ Readable(x) <= MaxSize /\ Writable(x) <= MaxSize
         /\ x.reader \in Nat /\ x.writer \in Nat /\ Len(x.bytes) \in Nat
<1>1. x.reader \in Nat /\ x.writer \in Nat /\ Len(x.bytes) \in Nat
  BY DEF Sound, Buffers
<1>2. /\ x.writer - x.reader \in Nat /\ x.writer - x.reader < W
      /\ Len(x.bytes) - x.writer \in Nat /\ Len(x.bytes) - x.writer < W
  BY <1>1, BufferAssumption DEF Sound, Ordered
<1>3. Readable(x) = x.writer - x.reader /\ Writable(x) = Len(x.bytes) - x.writer
  BY <1>2, NoWrap DEF Readable, Writable
<1> QED
  BY <1>1, <1>2, <1>3, BufferAssumption DEF Sound, Ordered

\* A chunk is a short sequence of bytes.
LEMMA ChunkIsSeq ==
  ASSUME NEW s \in Chunks
  PROVE  s \in Seq(Bytes) /\ Len(s) \in Nat /\ Len(s) <= MaxChunk
<1>1. PICK n \in 0 .. MaxChunk : s \in [1 .. n -> Byte]
  BY DEF Chunks
<1>2. n \in Nat /\ n <= MaxChunk
  BY <1>1, BufferAssumption
<1> QED
  BY <1>1, <1>2 DEF Bytes

\* std::copy into a vector
LEMMA CopyKeepsLength ==
  ASSUME NEW b \in Seq(Bytes), NEW p \in Nat, NEW s \in Seq(Bytes)
  PROVE  Copied(b, p, s) \in Seq(Bytes) /\ Len(Copied(b, p, s)) = Len(b)
<1>1. \A i \in 1 .. Len(b) :
        (IF p < i /\ i <= p + Len(s) THEN s[i - p] ELSE b[i]) \in Bytes
  <2> TAKE i \in 1 .. Len(b)
  <2>1. CASE p < i /\ i <= p + Len(s)
    <3>1. i - p \in 1 .. Len(s)
      BY <2>1
    <3> QED
      BY <2>1, <3>1
  <2>2. CASE ~(p < i /\ i <= p + Len(s))
    BY <2>2
  <2> QED
    BY <2>1, <2>2
<1>2. Copied(b, p, s) \in [1 .. Len(b) -> Bytes]
  BY <1>1 DEF Copied
<1> QED
  BY <1>2

\* vector::resize
LEMMA ResizeSetsLength ==
  ASSUME NEW b \in Seq(Bytes), NEW n \in Nat
  PROVE  Resized(b, n) \in Seq(Bytes) /\ Len(Resized(b, n)) = n
<1>1. \A i \in 1 .. n : (IF i <= Len(b) THEN b[i] ELSE Zero) \in Bytes
  BY DEF Bytes
<1>2. Resized(b, n) \in [1 .. n -> Bytes]
  BY <1>1 DEF Resized
<1> QED
  BY <1>2

\* What is read has the length that was asked for.
LEMMA ReadIsSeq ==
  ASSUME NEW x \in Buffers, NEW n \in Nat
  PROVE  From(x, n) \in Seq(Bytes) /\ Len(From(x, n)) = n
<1>1. \A i \in 1 .. n :
        (IF x.reader + i <= Len(x.bytes) THEN x.bytes[x.reader + i] ELSE Zero) \in Bytes
  BY DEF Bytes, Buffers
<1>2. From(x, n) \in [1 .. n -> Bytes]
  BY <1>1 DEF From
<1> QED
  BY <1>2

\* Whatever the indices are, makeSpace leaves a buffer.
LEMMA MakeSpaceTyped ==
  ASSUME NEW x \in Buffers, NEW len \in Nat
  PROVE  MakeSpace(x, len) \in Buffers
<1>0. x.bytes \in Seq(Bytes) /\ x.reader \in Nat /\ x.writer \in Nat
  BY DEF Buffers
<1>1. Resized(x.bytes, (x.writer + len) % W) \in Seq(Bytes)
  <2> DEFINE z == x.writer + len
             k == z % W
  <2>1. z \in Int
    BY <1>0
  <2> HIDE DEF z
  <2>2. k \in Nat
    BY <2>1, WrapIsNat
  <2> HIDE DEF k
  <2>3. Resized(x.bytes, k) \in Seq(Bytes)
    BY <1>0, <2>2, ResizeSetsLength
  <2> QED
    BY <2>3 DEF k, z
<1>2. Readable(x) \in Nat
  <2> DEFINE z == x.writer - x.reader
  <2>1. z \in Int
    BY <1>0
  <2> HIDE DEF z
  <2>2. z % W \in Nat
    BY <2>1, WrapIsNat
  <2> QED
    BY <2>2 DEF Readable, z
<1>3. Copied(x.bytes, kCheapPrepend, Content(x)) \in Seq(Bytes)
  BY <1>2, ReadIsSeq, CopyKeepsLength, BufferAssumption DEF Content, Buffers
<1>4. [x EXCEPT !.bytes = Resized(@, (x.writer + len) % W)] \in Buffers
  BY <1>1 DEF Buffers
<1>5. kCheapPrepend \in Nat /\ kCheapPrepend + Readable(x) \in Nat
  BY <1>2, BufferAssumption
<1>6. Record(Copied(x.bytes, kCheapPrepend, Content(x)),
             kCheapPrepend, kCheapPrepend + Readable(x)) \in Buffers
  BY <1>3, <1>5 DEF Record, Buffers
<1> QED
  BY <1>4, <1>6 DEF MakeSpace

\* The same of append.
LEMMA AppendTyped ==
  ASSUME NEW x \in Buffers, NEW data \in Seq(Bytes), NEW len \in Nat
  PROVE  Appended(x, data, len) \in Buffers
<1> DEFINE y == IF Writable(x) < len THEN MakeSpace(x, len) ELSE x
           w == IF len <= Writable(y) THEN (y.writer + len) % W ELSE y.writer
<1>1. y \in Buffers
  BY MakeSpaceTyped
<1> HIDE DEF y
<1>2. w \in Nat
  <2>1. y.writer \in Nat
    BY <1>1 DEF Buffers
  <2>2. y.writer + len \in Int
    BY <2>1
  <2> DEFINE z == y.writer + len
  <2> HIDE DEF z
  <2>3. z % W \in Nat
    BY <2>2, WrapIsNat DEF z
  <2>4. (y.writer + len) % W \in Nat
    BY <2>3 DEF z
  <2> QED
    BY <2>1, <2>4
<1>3. Copied(y.bytes, y.writer, data) \in Seq(Bytes)
  BY <1>1, CopyKeepsLength DEF Buffers
<1>4. Appended(x, data, len) = Record(Copied(y.bytes, y.writer, data), y.reader, w)
  BY DEF Appended, y
<1> QED
  BY <1>1, <1>2, <1>3, <1>4 DEF Record, Buffers

\* makeSpace makes room: it extends the vector behind the writer index, or
\* moves the readable bytes to the front.
LEMMA MakeSpaceMakesRoom ==
  ASSUME NEW x, Sound(x), NEW len \in Nat, len <= MaxChunk, Writable(x) < len
  PROVE  LET y == MakeSpace(x, len)
         IN /\ y \in Buffers /\ Ordered(y)
            /\ y.writer + len <= Len(y.bytes)
            /\ Len(y.bytes) <= MaxSize + MaxChunk
<1>0. x \in Buffers /\ x.bytes \in Seq(Bytes)
  BY DEF Sound, Buffers
<1>1. x.reader \in Nat /\ x.writer \in Nat /\ Len(x.bytes) \in Nat
  BY SoundSizes
<1>2. /\ x.reader <= x.writer /\ x.writer <= Len(x.bytes) /\ Len(x.bytes) <= MaxSize
      /\ kCheapPrepend <= Len(x.bytes)
  BY DEF Sound, Ordered
<1>3. (x.writer + len) % W = x.writer + len
  <2>1. x.writer + len \in Nat /\ x.writer + len < W
    BY <1>1, <1>2, BufferAssumption
  <2> QED
    BY <2>1, NoWrap
<1>4. /\ (Writable(x) + Prependable(x)) % W = Writable(x) + x.reader
      /\ (len + kCheapPrepend) % W = len + kCheapPrepend
  <2>1. /\ Writable(x) + x.reader \in Nat /\ Writable(x) + x.reader < W
        /\ len + kCheapPrepend \in Nat /\ len + kCheapPrepend < W
    <3>1. Writable(x) = Len(x.bytes) - x.writer
      BY SoundSizes
    <3> QED
      BY <3>1, <1>1, <1>2, BufferAssumption
  <2> QED
    BY <2>1, NoWrap DEF Prependable
<1>5. CASE Writable(x) + x.reader < len + kCheapPrepend
  <2>1. MakeSpace(x, len) = [x EXCEPT !.bytes = Resized(@, x.writer + len)]
    BY <1>3, <1>4, <1>5 DEF MakeSpace
  <2>2. /\ Resized(x.bytes, x.writer + len) \in Seq(Bytes)
        /\ Len(Resized(x.bytes, x.writer + len)) = x.writer + len
    <3>1. x.writer + len \in Nat
      BY <1>1
    <3> QED
      BY <3>1, <1>0, ResizeSetsLength
  <2>3. /\ MakeSpace(x, len).bytes = Resized(x.bytes, x.writer + len)
        /\ MakeSpace(x, len).reader = x.reader /\ MakeSpace(x, len).writer = x.writer
    BY <2>1, <1>0 DEF Buffers
  <2>4. Writable(x) = Len(x.bytes) - x.writer
    BY SoundSizes
  <2>5. MakeSpace(x, len) \in Buffers
    BY <1>0, MakeSpaceTyped
  <2>6. Ordered(MakeSpace(x, len))
    BY <2>2, <2>3, <2>4, <1>1, <1>2, BufferAssumption DEF Ordered
  <2>7. MakeSpace(x, len).writer + len <= Len(MakeSpace(x, len).bytes)
    BY <2>2, <2>3, <1>1
  <2>8. Len(MakeSpace(x, len).bytes) <= MaxSize + MaxChunk
    BY <2>2, <2>3, <1>1, <1>2, BufferAssumption
  <2> QED
    BY <2>5, <2>6, <2>7, <2>8
<1>6. CASE ~(Writable(x) + x.reader < len + kCheapPrepend)
  <2>1. MakeSpace(x, len) = Record(Copied(x.bytes, kCheapPrepend, Content(x)),
                                   kCheapPrepend, kCheapPrepend + Readable(x))
    BY <1>4, <1>6 DEF MakeSpace
  <2>2. Len(Copied(x.bytes, kCheapPrepend, Content(x))) = Len(x.bytes)
    BY <1>0, SoundSizes, ReadIsSeq, CopyKeepsLength, BufferAssumption DEF Content
  <2>3. /\ Len(MakeSpace(x, len).bytes) = Len(x.bytes)
        /\ MakeSpace(x, len).reader = kCheapPrepend
        /\ MakeSpace(x, len).writer = kCheapPrepend + (x.writer - x.reader)
    BY <2>1, <2>2, SoundSizes DEF Record
  <2>4. Writable(x) = Len(x.bytes) - x.writer
    BY SoundSizes
  <2>5. MakeSpace(x, len) \in Buffers
    BY <1>0, MakeSpaceTyped
  <2>6. (x.writer - x.reader) + kCheapPrepend + len <= Len(x.bytes)
    BY <2>4, <1>1, <1>6, BufferAssumption
  <2>7. Ordered(MakeSpace(x, len))
    BY <2>3, <2>6, <1>1, <1>2, BufferAssumption DEF Ordered
  <2>8. MakeSpace(x, len).writer + len <= Len(MakeSpace(x, len).bytes)
    BY <2>3, <2>6, <1>1, BufferAssumption
  <2>9. Len(MakeSpace(x, len).bytes) <= MaxSize + MaxChunk
    BY <2>3, <1>1, <1>2, BufferAssumption
  <2> QED
    BY <2>5, <2>7, <2>8, <2>9
<1> QED
  BY <1>1, <1>5, <1>6, SoundSizes, BufferAssumption

\* append of a short sequence keeps the order of the indices.
LEMMA AppendKeepsOrder ==
  ASSUME NEW x, Sound(x), NEW s \in Seq(Bytes), Len(s) <= MaxChunk
  PROVE  Appended(x, s, Len(s)) \in Buffers /\ Ordered(Appended(x, s, Len(s)))
<1> DEFINE len == Len(s)
           y == IF Writable(x) < len THEN MakeSpace(x, len) ELSE x
           w == IF len <= Writable(y) THEN (y.writer + len) % W ELSE y.writer
<1>0. len \in Nat /\ x \in Buffers
  BY DEF Sound
<1>1. /\ y \in Buffers /\ Ordered(y)
      /\ y.writer + len <= Len(y.bytes)
      /\ Len(y.bytes) <= MaxSize + MaxChunk
  <2>1. CASE Writable(x) < len
    BY <2>1, <1>0, MakeSpaceMakesRoom
  <2>2. CASE ~(Writable(x) < len)
    BY <2>2, <1>0, SoundSizes, BufferAssumption DEF Sound, Ordered
  <2> QED
    BY <2>1, <2>2
<1>4. Appended(x, s, len) = Record(Copied(y.bytes, y.writer, s), y.reader, w)
  BY DEF Appended
<1> HIDE DEF y
<1>2. y.writer \in Nat /\ y.reader \in Nat /\ y.bytes \in Seq(Bytes) /\ Len(y.bytes) \in Nat
  BY <1>1 DEF Buffers
<1>3. w = y.writer + len \/ w = y.writer
  <2>1. y.writer + len \in Nat /\ y.writer + len < W
    BY <1>0, <1>1, <1>2, BufferAssumption
  <2> QED
    BY <2>1, NoWrap
<1>5. Len(Copied(y.bytes, y.writer, s)) = Len(y.bytes)
  BY <1>2, CopyKeepsLength
<1>6. Appended(x, s, len) \in Buffers
  BY <1>0, AppendTyped
<1> QED
  BY <1>0, <1>1, <1>2, <1>3, <1>4, <1>5, <1>6 DEF Record, Ordered

\* retrieve moves the reader index within the readable bytes, or resets both.
LEMMA RetrieveKeepsOrder ==
  ASSUME NEW x, Sound(x), NEW len \in Nat
  PROVE  /\ Retrieved(x, len) \in Buffers
         /\ Ordered(Retrieved(x, len))
<1>1. x.reader \in Nat /\ x.writer \in Nat /\ Len(x.bytes) \in Nat /\ x.bytes \in Seq(Bytes)
  BY SoundSizes DEF Sound, Buffers
<1>2. CASE len < Readable(x)
  <2>1. /\ Retrieved(x, len).bytes = x.bytes
        /\ Retrieved(x, len).reader = x.reader + len
        /\ Retrieved(x, len).writer = x.writer
        /\ Retrieved(x, len) \in Buffers
    BY <1>1, <1>2 DEF Retrieved, Sound, Buffers
  <2> QED
    BY <2>1, <1>1, <1>2, SoundSizes DEF Sound, Ordered
<1>3. CASE ~(len < Readable(x))
  <2>1. Retrieved(x, len) = [bytes |-> x.bytes, reader |-> kCheapPrepend, writer |-> kCheapPrepend]
    BY <1>3 DEF Retrieved, Cleared, Record
  <2> QED
    BY <2>1, <1>1, BufferAssumption DEF Sound, Ordered, Buffers
<1> QED
  BY <1>2, <1>3

\* copy of a short chunk to a place where it fits.
LEMMA CopyKeepsSound ==
  ASSUME NEW x, Sound(x), NEW p \in Nat, NEW s \in Seq(Bytes),
         NEW r \in Nat, NEW w \in Nat, r <= w, w <= Len(x.bytes)
  PROVE  LET y == Record(Copied(x.bytes, p, s), r, w)
         IN y \in Buffers /\ Ordered(y) /\ Len(y.bytes) = Len(x.bytes)
<1>1. x.bytes \in Seq(Bytes) /\ kCheapPrepend <= Len(x.bytes)
  BY DEF Sound, Buffers, Ordered
<1>2. Copied(x.bytes, p, s) \in Seq(Bytes) /\ Len(Copied(x.bytes, p, s)) = Len(x.bytes)
  BY <1>1, CopyKeepsLength
<1> QED
  BY <1>1, <1>2 DEF Record, Buffers, Ordered

\* readSocket, whether or not the bytes fit.
LEMMA ReceiveKeepsOrder ==
  ASSUME NEW x, Sound(x), NEW s \in Chunks
  PROVE  Received(x, s) \in Buffers /\ Ordered(Received(x, s))
<1> DEFINE n == Writable(x)
           y == Record(Copied(x.bytes, x.writer, SubSeq(s, 1, n)), x.reader, Len(x.bytes))
<1>1. /\ x.reader \in Nat /\ x.writer \in Nat /\ Len(x.bytes) \in Nat /\ n \in Nat
      /\ n = Len(x.bytes) - x.writer
      /\ x.reader <= x.writer /\ x.writer <= Len(x.bytes)
  BY SoundSizes DEF Sound, Ordered
<1>2. s \in Seq(Bytes) /\ Len(s) \in Nat /\ Len(s) <= MaxChunk
  BY ChunkIsSeq
<1>3. CASE Len(s) <= n
  <2>1. x.writer + Len(s) \in Nat /\ x.reader <= x.writer + Len(s)
        /\ x.writer + Len(s) <= Len(x.bytes)
    BY <1>1, <1>2, <1>3
  <2>2. Received(x, s) = Record(Copied(x.bytes, x.writer, s), x.reader, x.writer + Len(s))
    BY <1>3 DEF Received
  <2> QED
    BY <2>1, <2>2, <1>1, <1>2, CopyKeepsSound
<1>4. CASE ~(Len(s) <= n)
  <2> DEFINE front == SubSeq(s, 1, n)
  <2>1. front \in Seq(Bytes)
    BY <1>1, <1>2, <1>4
  <2>2. y \in Buffers /\ Ordered(y) /\ Len(y.bytes) = Len(x.bytes)
    <3>1. Len(x.bytes) <= Len(x.bytes) /\ x.reader <= Len(x.bytes)
      BY <1>1
    <3>2. y = Record(Copied(x.bytes, x.writer, front), x.reader, Len(x.bytes))
      OBVIOUS
    <3> HIDE DEF front, y, n
    <3> QED
      <4>1. LET z == Record(Copied(x.bytes, x.writer, front), x.reader, Len(x.bytes))
            IN z \in Buffers /\ Ordered(z) /\ Len(z.bytes) = Len(x.bytes)
        BY <2>1, <3>1, <1>1, CopyKeepsSound
      <4> QED
        BY <3>2, <4>1
  <2>3. Sound(y)
    BY <2>2 DEF Sound
  <2> DEFINE rest == SubSeq(s, n + 1, Len(s))
  <2>4. rest \in Seq(Bytes) /\ Len(rest) = Len(s) - n /\ Len(rest) <= MaxChunk
    BY <1>1, <1>2, <1>4, BufferAssumption
  <2>5. Received(x, s) = Appended(y, rest, Len(rest))
    BY <2>4, <1>4 DEF Received
  <2> HIDE DEF y, rest
  <2> QED
    BY <2>3, <2>4, <2>5, AppendKeepsOrder
<1> QED
  BY <1>3, <1>4

\* The first hit of a search exists, and is the first.
LEMMA FirstHit ==
  ASSUME NEW S \in SUBSET Nat, S # {}
  PROVE  Min(S) \in S /\ \A y \in S : Min(S) <= y
<1>1. \E x \in S : \A y \in S : ~(<<y, x>> \in OpToRel(<, Nat))
  BY NatLessThanWellFounded, WFMin
<1>2. PICK x \in S : \A y \in S : ~(<<y, x>> \in OpToRel(<, Nat))
  BY <1>1
<1>3. \A y \in S : x <= y
  <2> SUFFICES ASSUME NEW y \in S  PROVE x <= y
    OBVIOUS
  <2>1. x \in Nat /\ y \in Nat
    BY <1>2
  <2>2. y < x => <<y, x>> \in OpToRel(<, Nat)
    BY <2>1 DEF OpToRel
  <2>3. ~(<<y, x>> \in OpToRel(<, Nat))
    BY <1>2
  <2>4. ~(y < x)
    BY <2>2, <2>3
  <2> QED
    BY <2>1, <2>4
<1> QED
  BY <1>2, <1>3 DEF Min

\* The buffer that the constructor makes.
LEMMA NewIsSound == Sound(New)
<1> DEFINE z == [i \in 1 .. kCheapPrepend + InitSize |-> Zero]
<1>1. kCheapPrepend + InitSize \in Nat
  BY BufferAssumption
<1>2. z \in [1 .. kCheapPrepend + InitSize -> Bytes]
  BY DEF Bytes
<1>3. z \in Seq(Bytes) /\ Len(z) = kCheapPrepend + InitSize
  BY <1>1, <1>2
<1>4. New = [bytes |-> z, reader |-> kCheapPrepend, writer |-> kCheapPrepend]
  BY DEF New, Record
<1> HIDE DEF z
<1> QED
  BY <1>3, <1>4, BufferAssumption DEF Sound, Ordered, Buffers

\* An operation that returns an ordered buffer keeps the invariant.
LEMMA BecomesSound ==
  ASSUME IInv, NEW a, NEW x, NEW v, Becomes(a, x, v),
         outcome = "ok" => x \in Buffers /\ Ordered(x)
  PROVE  IInv'
BY DEF Becomes, IInv, Sound, Ordered

\* An operation that ends the program leaves the buffer alone.
LEMMA EndsSound ==
  ASSUME IInv, NEW a, NEW how \in {"aborted", "ruined"}, Ends(a, how)
  PROVE  IInv'
BY DEF Ends, IInv, Sound, Ordered

\* The invariant is inductive: each operation returns an ordered buffer.
LEMMA IInvHolds == Spec => []IInv
<1>1. Init => IInv
  BY NewIsSound DEF Init, IInv, Sound
<1>2. IInv /\ [Next]_vars => IInv'
  <2> SUFFICES ASSUME IInv, [Next]_vars  PROVE IInv'
    OBVIOUS
  <2>0. outcome = "ok" => Sound(buf)
    BY DEF IInv
  <2>1. ASSUME NEW s \in Chunks, AppendBytes(s)  PROVE IInv'
    BY <2>0, <2>1, ChunkIsSeq, AppendKeepsOrder, BecomesSound DEF AppendBytes
  <2>2. ASSUME NEW s \in Chunks, Prepend(s)  PROVE IInv'
    <3> DEFINE a == <<"prepend", s>>
    <3>1. CASE Ends(a, "aborted")
      BY <3>1, EndsSound
    <3>2. CASE ~Ends(a, "aborted")
      <4> DEFINE r == buf.reader - Len(s)
                 x == Record(Copied(buf.bytes, r, s), r, buf.writer)
      <4>1. Len(s) <= buf.reader /\ Becomes(a, x, <<>>)
        BY <2>2, <3>2 DEF Prepend, Prependable
      <4>2. outcome = "ok"
        BY <4>1 DEF Becomes
      <4>3. r \in Nat /\ buf.writer \in Nat /\ r <= buf.writer /\ buf.writer <= Len(buf.bytes)
        BY <2>0, <4>1, <4>2, ChunkIsSeq, SoundSizes DEF Sound, Ordered
      <4> HIDE DEF r
      <4>4. x \in Buffers /\ Ordered(x)
        BY <2>0, <4>2, <4>3, ChunkIsSeq, CopyKeepsSound
      <4> HIDE DEF x
      <4> QED
        BY <4>1, <4>4, BecomesSound
    <3> QED
      BY <3>1, <3>2
  <2>3. ASSUME NEW s \in Chunks, ReadSocket(s)  PROVE IInv'
    BY <2>0, <2>3, ReceiveKeepsOrder, BecomesSound DEF ReadSocket
  <2>4. ASSUME NEW a, NEW v, NEW n \in Nat, Becomes(a, Retrieved(buf, n), v)  PROVE IInv'
    BY <2>0, <2>4, RetrieveKeepsOrder, BecomesSound
  <2>5. ASSUME NEW a, NEW v, Becomes(a, buf, v)  PROVE IInv'
    BY <2>0, <2>5, BecomesSound DEF Sound
  <2>6. ASSUME NEW n \in 0 .. MaxSize,
               Retrieve(n) \/ RetrieveAsString(n) \/ UndoAppend(n)
        PROVE  IInv'
    <3>0. n \in Nat
      BY BufferAssumption
    <3>1. CASE Retrieve(n)
      BY <3>0, <3>1, <2>4 DEF Retrieve
    <3>2. CASE RetrieveAsString(n)
      BY <3>0, <3>2, <2>4, <2>5 DEF RetrieveAsString
    <3>3. CASE UndoAppend(n) /\ n <= Readable(buf)
      <4> DEFINE x == [buf EXCEPT !.writer = @ - n]
      <4>1. Becomes(<<"undoAppend", n>>, x, <<>>)
        BY <3>3 DEF UndoAppend, Undone
      <4>2. outcome = "ok"
        BY <4>1 DEF Becomes
      <4>3. buf.writer - n \in Nat /\ buf.reader <= buf.writer - n
            /\ buf.writer - n <= Len(buf.bytes)
        BY <2>0, <4>2, <3>0, <3>3, SoundSizes DEF Sound, Ordered
      <4>4. x \in Buffers /\ Ordered(x)
        BY <2>0, <4>2, <4>3 DEF Sound, Buffers, Ordered
      <4> HIDE DEF x
      <4> QED
        BY <4>1, <4>4, BecomesSound
    <3>4. CASE UndoAppend(n) /\ ~(n <= Readable(buf))
      BY <3>4, <2>5 DEF UndoAppend, Undone
    <3> QED
      BY <2>6, <3>1, <3>2, <3>3, <3>4
  <2>7. ASSUME NEW width \in Widths, Read(width) \/ Peek(width)  PROVE IInv'
    <3>1. width \in Nat
      BY DEF Widths
    <3>2. CASE Ends(<<"read", width>>, "ruined") \/ Ends(<<"peek", width>>, "ruined")
      BY <3>2, EndsSound
    <3> QED
      BY <2>7, <3>1, <3>2, <2>4, <2>5 DEF Read, Peek
  <2>8. CASE Swap
    <3>1. New \in Buffers /\ Ordered(New)
      BY NewIsSound DEF Sound
    <3> QED
      BY <2>8, <3>1, BecomesSound DEF Swap
  <2>9. ASSUME NEW t \in Chunks \ {<<>>}, NEW skip \in 0 .. MaxSize, RetrieveUntil(t, skip)
        PROVE  IInv'
    <3> DEFINE a == <<"retrieveUntil", t, skip>>
    <3>1. CASE Ends(a, "aborted")
      BY <3>1, EndsSound
    <3>2. CASE Becomes(a, buf, <<>>)
      BY <3>2, <2>5
    <3>3. CASE Hits(t, skip) # {} /\ Becomes(a, Retrieved(buf, Min(Hits(t, skip))), <<>>)
      <4>1. Hits(t, skip) \in SUBSET Nat
        BY BufferAssumption DEF Hits
      <4>2. Min(Hits(t, skip)) \in Nat
        BY <3>3, <4>1, FirstHit
      <4> QED
        BY <3>3, <4>2, <2>4
    <3> QED
      BY <2>9, <3>1, <3>2, <3>3 DEF RetrieveUntil
  <2>10. CASE ReadSocketFails
    <3> DEFINE a == <<"readSocketFails">>
    <3>1. CASE Ends(a, "aborted")
      BY <3>1, EndsSound
    <3>2. CASE ~Ends(a, "aborted")
      <4> DEFINE x == Record(buf.bytes, buf.reader, Len(buf.bytes))
                 len == W - 1 - Writable(buf)
      <4>1. outcome = "ok" /\ outcome' = "failed" /\ buf' = Appended(x, <<>>, len)
        BY <2>10, <3>2 DEF ReadSocketFails
      <4>2. x \in Buffers /\ <<>> \in Seq(Bytes)
        BY DEF IInv, Record, Buffers
      <4>3. len \in Nat
        BY <2>0, <4>1, SoundSizes, BufferAssumption
      <4> HIDE DEF x, len
      <4> QED
        BY <4>1, <4>2, <4>3, AppendTyped DEF IInv
    <3> QED
      BY <3>1, <3>2
  <2>11. CASE UNCHANGED vars
    BY <2>11 DEF vars, IInv
  <2> QED
    BY <2>1, <2>2, <2>3, <2>6, <2>7, <2>8, <2>9, <2>10, <2>11 DEF Next
<1> QED
  BY <1>1, <1>2, PTL DEF Spec

\* Appends, prepends, reads and the moves of makeSpace keep the reader index,
\* the writer index and the end of the vector in this order until a read of
\* the socket fails, and leave natural numbers even then (class Buffer).
THEOREM IndicesStayInOrder == Spec => []IndexOrder
<1>1. IInv => IndexOrder
  BY DEF IInv, IndexOrder, Sound, Ordered, Buffers, Bytes
<1> QED
  BY <1>1, IInvHolds, PTL
-----------------------------------------------------------------------------
(* What a Buffer promises.                                                 *)

\* A buffer whose indices are in order and whose size does not wrap around.
Regular(x) ==
  /\ x \in Buffers
  /\ x.reader <= x.writer /\ x.writer <= Len(x.bytes) /\ Len(x.bytes) < W

\* Concatenation is associative on bytes.
LEMMA BytesAssociative ==
  \A s, t, u \in Seq(Bytes) : (s \o t) \o u = s \o (t \o u)
<1>1. \A S : \A s, t, u \in Seq(S) : (s \o t) \o u = s \o (t \o u)
  BY ConcatAssociative, SMT
<1> QED
  BY <1>1

\* The fields of a regular buffer, and what it holds.
LEMMA ContentIs ==
  ASSUME NEW x, Regular(x)
  PROVE  LET n == x.writer - x.reader
         IN /\ x.reader \in Nat /\ x.writer \in Nat
            /\ x.bytes \in Seq(Bytes) /\ Len(x.bytes) \in Nat
            /\ n \in Nat
            /\ Readable(x) = n /\ Writable(x) = Len(x.bytes) - x.writer
            /\ Content(x) \in Seq(Bytes) /\ Len(Content(x)) = n
            /\ \A i \in 1 .. n : Content(x)[i] = x.bytes[x.reader + i]
<1> DEFINE n == x.writer - x.reader
<1>1. /\ x.reader \in Nat /\ x.writer \in Nat /\ x.bytes \in Seq(Bytes)
      /\ Len(x.bytes) \in Nat /\ x \in Buffers
  BY DEF Regular, Buffers
<1>2. n \in Nat /\ n < W /\ Len(x.bytes) - x.writer \in Nat /\ Len(x.bytes) - x.writer < W
  BY <1>1, BufferAssumption DEF Regular
<1>3. Readable(x) = n /\ Writable(x) = Len(x.bytes) - x.writer
  BY <1>2, NoWrap DEF Readable, Writable
<1>4. Content(x) = From(x, n)
  BY <1>3 DEF Content
<1> HIDE DEF n
<1>5. From(x, n) \in Seq(Bytes) /\ Len(From(x, n)) = n
  BY <1>1, <1>2, ReadIsSeq
<1>6. \A i \in 1 .. n : From(x, n)[i] = x.bytes[x.reader + i]
  <2> TAKE i \in 1 .. n
  <2>1. x.reader + i <= Len(x.bytes)
    BY <1>1, <1>2 DEF Regular, n
  <2> QED
    BY <2>1 DEF From
<1> QED
  BY <1>1, <1>2, <1>3, <1>4, <1>5, <1>6 DEF n

\* A buffer holds s if the bytes between its indices are those of s.
LEMMA Holds ==
  ASSUME NEW x, Regular(x), NEW s \in Seq(Bytes),
         Len(s) = x.writer - x.reader,
         \A i \in 1 .. Len(s) : s[i] = x.bytes[x.reader + i]
  PROVE  Content(x) = s
<1>1. /\ Content(x) \in Seq(Bytes) /\ Len(Content(x)) = Len(s)
      /\ \A i \in 1 .. Len(s) : Content(x)[i] = s[i]
  BY ContentIs
<1> HIDE DEF Content
<1> QED
  BY <1>1, SeqEqual

\* A sound buffer is regular, and so is one that makeSpace has extended.
LEMMA SoundIsRegular ==
  /\ \A x : Sound(x) => Regular(x)
  /\ \A x : x \in Buffers /\ Ordered(x) /\ Len(x.bytes) <= MaxSize + MaxChunk => Regular(x)
<1>1. ASSUME NEW x, x \in Buffers, Ordered(x), Len(x.bytes) <= MaxSize + MaxChunk
      PROVE  Regular(x)
  <2>1. Len(x.bytes) \in Nat
    BY <1>1 DEF Buffers
  <2> QED
    BY <1>1, <2>1, BufferAssumption DEF Ordered, Regular
<1>2. ASSUME NEW x, Sound(x)  PROVE Regular(x)
  <2>1. Len(x.bytes) \in Nat /\ Len(x.bytes) <= MaxSize + MaxChunk
    BY <1>2, BufferAssumption DEF Sound, Buffers
  <2> QED
    BY <1>1, <1>2, <2>1 DEF Sound
<1> QED
  BY <1>1, <1>2

\* The bytes of a vector after std::copy.
LEMMA CopiedBytes ==
  ASSUME NEW b \in Seq(Bytes), NEW p \in Nat, NEW s \in Seq(Bytes)
  PROVE  /\ \A i \in 1 .. Len(b) : p < i /\ i <= p + Len(s) => Copied(b, p, s)[i] = s[i - p]
         /\ \A i \in 1 .. Len(b) : ~(p < i /\ i <= p + Len(s)) => Copied(b, p, s)[i] = b[i]
BY DEF Copied

\* Bytes copied behind the readable ones follow them.
LEMMA CopyBehind ==
  ASSUME NEW x, Regular(x), NEW s \in Seq(Bytes), x.writer + Len(s) <= Len(x.bytes)
  PROVE  LET y == Record(Copied(x.bytes, x.writer, s), x.reader, x.writer + Len(s))
         IN Regular(y) /\ Content(y) = Content(x) \o s
<1> DEFINE c == Content(x)
           b == Copied(x.bytes, x.writer, s)
           y == Record(b, x.reader, x.writer + Len(s))
           n == x.writer - x.reader
<1>1. /\ x.reader \in Nat /\ x.writer \in Nat /\ x.bytes \in Seq(Bytes)
      /\ Len(x.bytes) \in Nat /\ n \in Nat /\ c \in Seq(Bytes) /\ Len(c) = n
      /\ \A i \in 1 .. n : c[i] = x.bytes[x.reader + i]
      /\ x.reader <= x.writer /\ x.writer <= Len(x.bytes) /\ Len(x.bytes) < W
      /\ Len(s) \in Nat
  BY ContentIs DEF Regular
<1>2. b \in Seq(Bytes) /\ Len(b) = Len(x.bytes)
  BY <1>1, CopyKeepsLength
<1>3. /\ \A i \in 1 .. Len(b) : x.writer < i /\ i <= x.writer + Len(s) => b[i] = s[i - x.writer]
      /\ \A i \in 1 .. Len(b) : ~(x.writer < i /\ i <= x.writer + Len(s)) => b[i] = x.bytes[i]
  <2>1. /\ \A i \in 1 .. Len(x.bytes) : x.writer < i /\ i <= x.writer + Len(s) => b[i] = s[i - x.writer]
        /\ \A i \in 1 .. Len(x.bytes) : ~(x.writer < i /\ i <= x.writer + Len(s)) => b[i] = x.bytes[i]
    <3>1. x.bytes \in Seq(Bytes) /\ x.writer \in Nat
      BY <1>1
    <3> QED
      BY <3>1, CopiedBytes, Zenon
  <2> HIDE DEF b
  <2> QED
    BY <1>2, <2>1
<1> HIDE DEF c, b
<1>4. y.bytes = b /\ y.reader = x.reader /\ y.writer = x.writer + Len(s)
  BY DEF Record
<1>5. Regular(y)
  <2>1. y \in Buffers
    BY <1>1, <1>2 DEF Record, Buffers
  <2> HIDE DEF y
  <2> QED
    BY <1>1, <1>2, <1>4, <2>1 DEF Regular
<1> HIDE DEF y, n
<1>6. /\ c \o s \in Seq(Bytes) /\ Len(c \o s) = n + Len(s)
      /\ \A i \in 1 .. n + Len(s) : (c \o s)[i] = IF i <= n THEN c[i] ELSE s[i - n]
  <2>1. /\ c \o s \in Seq(Bytes) /\ Len(c \o s) = Len(c) + Len(s)
        /\ \A i \in 1 .. Len(c) + Len(s) :
             (c \o s)[i] = IF i <= Len(c) THEN c[i] ELSE s[i - Len(c)]
    <3>1. c \in Seq(Bytes) /\ s \in Seq(Bytes)
      BY <1>1
    <3> QED
      BY <3>1, ConcatProperties
  <2> QED
    BY <1>1, <2>1
<1>7. Len(c \o s) = y.writer - y.reader
  BY <1>1, <1>4, <1>6 DEF n
<1>8. ASSUME NEW i \in 1 .. n + Len(s)  PROVE (c \o s)[i] = y.bytes[y.reader + i]
  <2>1. CASE i <= n
    <3>1. i \in 1 .. n /\ x.reader + i \in 1 .. Len(b) /\ ~(x.writer < x.reader + i)
      BY <1>1, <1>2, <2>1 DEF n
    <3> QED
      BY <1>1, <1>3, <1>4, <1>6, <2>1, <3>1
  <2>2. CASE ~(i <= n)
    <3>0. x.writer = x.reader + n
      BY <1>1 DEF n
    <3>1. /\ x.reader + i \in 1 .. Len(b)
          /\ x.writer < x.reader + i /\ x.reader + i <= x.writer + Len(s)
          /\ (x.reader + i) - x.writer = i - n
      <4> DEFINE r == x.reader
                 w == x.writer
                 l == Len(s)
                 m == Len(b)
      <4>1. /\ r \in Nat /\ w \in Nat /\ n \in Nat /\ l \in Nat /\ i \in Nat /\ m \in Nat
            /\ n < i /\ i <= n + l /\ w + l <= m /\ w = r + n
        BY <1>1, <1>2, <2>2, <3>0
      <4> HIDE DEF r, w, l, m
      <4>2. r + i \in 1 .. m /\ w < r + i /\ r + i <= w + l /\ (r + i) - w = i - n
        BY <4>1
      <4> QED
        BY <4>2 DEF r, w, l, m
    <3>2. b[x.reader + i] = s[i - n]
      BY <1>3, <3>1
    <3> QED
      BY <1>4, <1>6, <2>2, <3>2
  <2> QED
    BY <2>1, <2>2
<1>9. Content(y) = c \o s
  BY <1>5, <1>6, <1>7, <1>8, Holds
<1> QED
  BY <1>5, <1>9 DEF y, b, c

\* Bytes copied in front of the readable ones precede them.
LEMMA CopyInFront ==
  ASSUME NEW x, Regular(x), NEW s \in Seq(Bytes), Len(s) <= x.reader
  PROVE  LET r == x.reader - Len(s)
         IN Content(Record(Copied(x.bytes, r, s), r, x.writer)) = s \o Content(x)
<1> DEFINE c == Content(x)
           r == x.reader - Len(s)
           b == Copied(x.bytes, r, s)
           y == Record(b, r, x.writer)
           n == x.writer - x.reader
<1>1. /\ x.reader \in Nat /\ x.writer \in Nat /\ x.bytes \in Seq(Bytes)
      /\ Len(x.bytes) \in Nat /\ n \in Nat /\ c \in Seq(Bytes) /\ Len(c) = n
      /\ \A i \in 1 .. n : c[i] = x.bytes[x.reader + i]
      /\ x.reader <= x.writer /\ x.writer <= Len(x.bytes) /\ Len(x.bytes) < W
      /\ Len(s) \in Nat /\ r \in Nat
      /\ x.reader = r + Len(s) /\ x.writer = x.reader + n
  BY ContentIs DEF Regular
<1> HIDE DEF r, n, c
<1>2. b \in Seq(Bytes) /\ Len(b) = Len(x.bytes)
  BY <1>1, CopyKeepsLength
<1>3. /\ \A i \in 1 .. Len(b) : r < i /\ i <= r + Len(s) => b[i] = s[i - r]
      /\ \A i \in 1 .. Len(b) : ~(r < i /\ i <= r + Len(s)) => b[i] = x.bytes[i]
  BY <1>1, <1>2, CopiedBytes
<1> HIDE DEF b
<1>4. y.bytes = b /\ y.reader = r /\ y.writer = x.writer
  BY DEF Record
<1>5. Regular(y)
  <2>1. y \in Buffers
    BY <1>1, <1>2 DEF Record, Buffers
  <2> HIDE DEF y
  <2> QED
    BY <1>1, <1>2, <1>4, <2>1 DEF Regular
<1> HIDE DEF y
<1>6. /\ s \o c \in Seq(Bytes) /\ Len(s \o c) = Len(s) + n
      /\ \A i \in 1 .. Len(s) + n : (s \o c)[i] = IF i <= Len(s) THEN s[i] ELSE c[i - Len(s)]
  <2>1. /\ s \o c \in Seq(Bytes) /\ Len(s \o c) = Len(s) + Len(c)
        /\ \A i \in 1 .. Len(s) + Len(c) :
             (s \o c)[i] = IF i <= Len(s) THEN s[i] ELSE c[i - Len(s)]
    <3>1. c \in Seq(Bytes) /\ s \in Seq(Bytes)
      BY <1>1
    <3> QED
      BY ONLY <3>1, ConcatProperties
  <2> QED
    BY <1>1, <2>1
<1>7. Len(s \o c) = y.writer - y.reader
  BY <1>1, <1>4, <1>6
<1>8. ASSUME NEW i \in 1 .. Len(s) + n  PROVE (s \o c)[i] = y.bytes[y.reader + i]
  <2>1. CASE i <= Len(s)
    <3>1. r + i \in 1 .. Len(b) /\ r < r + i /\ r + i <= r + Len(s) /\ (r + i) - r = i
      BY <1>1, <1>2, <2>1
    <3>2. b[r + i] = s[i]
      BY <1>3, <3>1
    <3> QED
      BY <1>4, <1>6, <2>1, <3>2
  <2>2. CASE ~(i <= Len(s))
    <3>1. /\ r + i \in 1 .. Len(b) /\ ~(r + i <= r + Len(s))
          /\ i - Len(s) \in 1 .. n /\ x.reader + (i - Len(s)) = r + i
      BY <1>1, <1>2, <2>2
    <3>2. b[r + i] = x.bytes[r + i] /\ c[i - Len(s)] = x.bytes[r + i]
      BY <1>1, <1>3, <3>1
    <3> QED
      BY <1>4, <1>6, <2>2, <3>2
  <2> QED
    BY <2>1, <2>2
<1>9. Content(y) = s \o c
  BY <1>5, <1>6, <1>7, <1>8, Holds
<1> QED
  BY <1>9 DEF y, b, c, r

\* makeSpace keeps what the buffer holds, whether it extends the vector or
\* moves the readable bytes.
LEMMA MakeSpaceKeepsContent ==
  ASSUME NEW x, Sound(x), NEW len \in Nat, len <= MaxChunk, Writable(x) < len
  PROVE  Regular(MakeSpace(x, len)) /\ Content(MakeSpace(x, len)) = Content(x)
<1> DEFINE c == Content(x)
           n == x.writer - x.reader
           y == MakeSpace(x, len)
<1>1. Regular(x) /\ x \in Buffers
  BY SoundIsRegular DEF Sound
<1>2. /\ x.reader \in Nat /\ x.writer \in Nat /\ x.bytes \in Seq(Bytes)
      /\ Len(x.bytes) \in Nat /\ n \in Nat /\ c \in Seq(Bytes) /\ Len(c) = n
      /\ \A i \in 1 .. n : c[i] = x.bytes[x.reader + i]
      /\ x.writer <= Len(x.bytes) /\ x.writer = x.reader + n
      /\ Readable(x) = n
  BY <1>1, ContentIs DEF Regular
<1>3. y \in Buffers /\ Ordered(y) /\ Len(y.bytes) <= MaxSize + MaxChunk
  BY MakeSpaceMakesRoom
<1>4. Regular(y)
  BY <1>3, SoundIsRegular
<1> HIDE DEF n
<1>5. CASE y = [x EXCEPT !.bytes = Resized(@, (x.writer + len) % W)]
  <2> DEFINE b == Resized(x.bytes, (x.writer + len) % W)
  <2>1. (x.writer + len) % W = x.writer + len
    <3>1. x.writer + len \in Nat /\ x.writer + len < W
      BY <1>2, BufferAssumption DEF Sound
    <3> QED
      BY <3>1, NoWrap
  <2>2. \A i \in 1 .. x.writer : b[i] = x.bytes[i]
    BY <1>2, <2>1 DEF Resized
  <2> HIDE DEF b
  <2>3. y.bytes = b /\ y.reader = x.reader /\ y.writer = x.writer
    BY <1>1, <1>5 DEF Buffers, b
  <2> HIDE DEF y, c
  <2>4. ASSUME NEW i \in 1 .. n  PROVE c[i] = y.bytes[y.reader + i]
    <3>1. x.reader + i \in 1 .. x.writer
      BY <1>2
    <3> QED
      BY <1>2, <2>2, <2>3, <3>1
  <2>5. Len(c) = y.writer - y.reader
    BY <1>2, <2>3
  <2>6. Content(y) = c
    BY <1>2, <1>4, <2>4, <2>5, Holds
  <2> QED
    BY <1>4, <2>6 DEF y, c
<1>6. CASE y = Record(Copied(x.bytes, kCheapPrepend, c), kCheapPrepend, kCheapPrepend + Readable(x))
  <2> DEFINE b == Copied(x.bytes, kCheapPrepend, c)
  <2>0. kCheapPrepend \in Nat
    BY BufferAssumption
  <2>1. /\ Len(b) = Len(x.bytes)
        /\ \A i \in 1 .. Len(x.bytes) :
             kCheapPrepend < i /\ i <= kCheapPrepend + n => b[i] = c[i - kCheapPrepend]
    <3> HIDE DEF c
    <3>1. Len(b) = Len(x.bytes)
      BY <1>2, <2>0, CopyKeepsLength
    <3>2. \A i \in 1 .. Len(x.bytes) :
            kCheapPrepend < i /\ i <= kCheapPrepend + Len(c) => b[i] = c[i - kCheapPrepend]
      BY <1>2, <2>0, CopiedBytes
    <3> QED
      BY <1>2, <3>1, <3>2
  <2> HIDE DEF b, c
  <2>2. y.bytes = b /\ y.reader = kCheapPrepend /\ y.writer = kCheapPrepend + n
    BY <1>2, <1>6 DEF Record, b
  <2> HIDE DEF y
  <2>3. kCheapPrepend + n <= Len(x.bytes)
    BY <1>3, <2>1, <2>2 DEF Ordered
  <2>4. ASSUME NEW i \in 1 .. n  PROVE c[i] = y.bytes[y.reader + i]
    <3>1. /\ kCheapPrepend + i \in 1 .. Len(x.bytes) /\ kCheapPrepend < kCheapPrepend + i
          /\ kCheapPrepend + i <= kCheapPrepend + n /\ (kCheapPrepend + i) - kCheapPrepend = i
      BY <1>2, <2>0, <2>3
    <3> QED
      BY <2>1, <2>2, <3>1
  <2>5. Len(c) = y.writer - y.reader
    BY <1>2, <2>0, <2>2
  <2>6. Content(y) = c
    BY <1>2, <1>4, <2>4, <2>5, Holds
  <2> QED
    BY <1>4, <2>6 DEF y, c
<1> QED
  BY <1>5, <1>6 DEF MakeSpace

\* append adds s behind what the buffer holds.
LEMMA AppendAdds ==
  ASSUME NEW x, Sound(x), NEW s \in Seq(Bytes), Len(s) <= MaxChunk
  PROVE  Content(Appended(x, s, Len(s))) = Content(x) \o s
<1> DEFINE len == Len(s)
           y == IF Writable(x) < len THEN MakeSpace(x, len) ELSE x
           w == IF len <= Writable(y) THEN (y.writer + len) % W ELSE y.writer
<1>0. len \in Nat
  OBVIOUS
<1>1. Regular(y) /\ Content(y) = Content(x) /\ y.writer + len <= Len(y.bytes)
  <2>1. CASE Writable(x) < len
    BY <1>0, <2>1, MakeSpaceKeepsContent, MakeSpaceMakesRoom
  <2>2. CASE ~(Writable(x) < len)
    <3>1. Regular(x)
      BY SoundIsRegular
    <3>2. x.writer + len <= Len(x.bytes)
      BY <1>0, <2>2, SoundSizes
    <3> QED
      BY <2>2, <3>1, <3>2
  <2> QED
    BY <2>1, <2>2
<1>2. Appended(x, s, len) = Record(Copied(y.bytes, y.writer, s), y.reader, w)
  BY DEF Appended
<1> HIDE DEF y
<1>3. y.writer \in Nat /\ Len(y.bytes) \in Nat /\ Len(y.bytes) < W /\ Writable(y) = Len(y.bytes) - y.writer
  BY <1>1, ContentIs DEF Regular
<1>4. w = y.writer + len
  <2>0. W \in Nat
    BY BufferAssumption
  <2>1. y.writer + len \in Nat /\ y.writer + len < W /\ len <= Writable(y)
    BY <1>0, <1>1, <1>3, <2>0
  <2> QED
    BY <2>1, NoWrap
<1> HIDE DEF w
<1>5. Content(Record(Copied(y.bytes, y.writer, s), y.reader, y.writer + len)) = Content(y) \o s
  BY <1>1, CopyBehind
<1> QED
  BY <1>1, <1>2, <1>4, <1>5

\* readSocket adds what it reads, also what goes through extraBuf.
LEMMA ReceiveAdds ==
  ASSUME NEW x, Sound(x), NEW s \in Chunks
  PROVE  Content(Received(x, s)) = Content(x) \o s
<1> DEFINE n == Writable(x)
           front == SubSeq(s, 1, n)
           rest == SubSeq(s, n + 1, Len(s))
           y == Record(Copied(x.bytes, x.writer, front), x.reader, Len(x.bytes))
<1>1. /\ x.writer \in Nat /\ Len(x.bytes) \in Nat /\ n \in Nat /\ x.reader \in Nat
      /\ n = Len(x.bytes) - x.writer /\ Regular(x) /\ Content(x) \in Seq(Bytes)
  BY SoundSizes, SoundIsRegular, ContentIs
<1>2. s \in Seq(Bytes) /\ Len(s) \in Nat /\ Len(s) <= MaxChunk
  BY ChunkIsSeq
<1> HIDE DEF Content, n
<1>3. CASE Len(s) <= n
  <2>1. Received(x, s) = Record(Copied(x.bytes, x.writer, s), x.reader, x.writer + Len(s))
    BY <1>3 DEF Received, n
  <2>2. x.writer + Len(s) <= Len(x.bytes)
    BY <1>1, <1>2, <1>3
  <2> QED
    BY <1>1, <1>2, <2>1, <2>2, CopyBehind
<1>4. CASE ~(Len(s) <= n)
  <2>1. /\ front \in Seq(Bytes) /\ Len(front) = n
        /\ rest \in Seq(Bytes) /\ Len(rest) = Len(s) - n
        /\ front \o rest = s
    <3>1. \A i \in 1 .. Len(s) : s[i] \in Bytes
      BY <1>2
    <3>2. front \in Seq(Bytes) /\ Len(front) = n
      BY <1>1, <1>2, <1>4, <3>1, SubSeqProperties
    <3>3. rest \in Seq(Bytes) /\ Len(rest) = Len(s) - n
      BY <1>1, <1>2, <1>4, <3>1, SubSeqProperties
    <3>4. 1 \in 1 .. Len(s) + 1 /\ n \in 1 - 1 .. Len(s) /\ Len(s) \in n .. Len(s)
      BY <1>1, <1>2, <1>4
    <3>5. front \o rest = SubSeq(s, 1, Len(s))
      BY <1>2, <3>4, ConcatAdjacentSubSeq
    <3> QED
      BY <1>2, <3>2, <3>3, <3>5, SubSeqFull
  <2> HIDE DEF front, rest
  <2>2. x.writer + Len(front) = Len(x.bytes)
    BY <1>1, <2>1
  <2>3. y = Record(Copied(x.bytes, x.writer, front), x.reader, x.writer + Len(front))
    BY <2>2
  <2>4. Regular(y) /\ Content(y) = Content(x) \o front
    <3>1. x.writer + Len(front) <= Len(x.bytes)
      BY <1>1, <2>2
    <3> HIDE DEF y
    <3> QED
      BY <1>1, <2>1, <2>3, <3>1, CopyBehind
  <2>5. Sound(y)
    <3>1. y.bytes = Copied(x.bytes, x.writer, front) /\ y.reader = x.reader /\ y.writer = Len(x.bytes)
      BY DEF Record
    <3>2. Len(y.bytes) = Len(x.bytes)
      BY <1>1, <2>1, <3>1, CopyKeepsLength DEF Regular, Buffers
    <3> HIDE DEF y
    <3> QED
      BY <1>1, <2>4, <3>1, <3>2 DEF Sound, Ordered, Regular
  <2>6. Received(x, s) = Appended(y, rest, Len(rest))
    BY <1>4, <2>1 DEF Received, n, front, rest
  <2> HIDE DEF y
  <2>7. Len(rest) <= MaxChunk
    BY <1>1, <1>2, <2>1, BufferAssumption
  <2>8. Content(Appended(y, rest, Len(rest))) = Content(y) \o rest
    BY <2>1, <2>5, <2>7, AppendAdds
  <2>9. (Content(x) \o front) \o rest = Content(x) \o (front \o rest)
    BY <1>1, <2>1, BytesAssociative
  <2> QED
    BY <2>1, <2>4, <2>6, <2>8, <2>9
<1> QED
  BY <1>3, <1>4

\* retrieve takes bytes from the front, at most all of them.
LEMMA RetrieveTakes ==
  ASSUME NEW x, Sound(x), NEW len \in Nat
  PROVE  LET k == IF len < Readable(x) THEN len ELSE Readable(x)
         IN Content(Retrieved(x, len)) = SubSeq(Content(x), k + 1, Len(Content(x)))
<1> DEFINE c == Content(x)
           n == x.writer - x.reader
           y == Retrieved(x, len)
<1>1. Regular(x) /\ x \in Buffers /\ kCheapPrepend \in Nat /\ Len(x.bytes) <= MaxSize
  BY SoundIsRegular, BufferAssumption DEF Sound
<1>2. /\ x.reader \in Nat /\ x.writer \in Nat /\ x.bytes \in Seq(Bytes)
      /\ Len(x.bytes) \in Nat /\ n \in Nat /\ c \in Seq(Bytes) /\ Len(c) = n
      /\ \A i \in 1 .. n : c[i] = x.bytes[x.reader + i]
      /\ x.writer = x.reader + n /\ Readable(x) = n
  BY <1>1, ContentIs
<1>3. y \in Buffers /\ Ordered(y) /\ y.bytes = x.bytes
  BY <1>1, RetrieveKeepsOrder DEF Retrieved, Cleared, Record, Buffers
<1>4. Regular(y)
  <2>1. Sound(y)
    BY <1>1, <1>3 DEF Sound
  <2> QED
    BY <2>1, SoundIsRegular
<1> HIDE DEF n, c
<1>5. CASE len < n
  <2> DEFINE s == SubSeq(c, len + 1, n)
  <2>1. /\ s \in Seq(Bytes) /\ Len(s) = n - len
        /\ \A i \in 1 .. n - len : s[i] = c[len + i]
    <3>1. \A i \in len + 1 .. n : c[i] \in Bytes
      BY <1>2
    <3>2. /\ s \in Seq(Bytes) /\ Len(s) = IF len + 1 <= n THEN n - (len + 1) + 1 ELSE 0
          /\ \A i \in 1 .. n - (len + 1) + 1 : s[i] = c[(len + 1) + i - 1]
      BY <1>2, <3>1, SubSeqProperties
    <3>3. n - (len + 1) + 1 = n - len /\ \A i \in 1 .. n - len : (len + 1) + i - 1 = len + i
      BY <1>2, <1>5
    <3> QED
      BY <1>2, <1>5, <3>2, <3>3
  <2> HIDE DEF s
  <2>2. y.reader = x.reader + len /\ y.writer = x.writer
    BY <1>1, <1>2, <1>5 DEF Retrieved, Buffers
  <2> HIDE DEF y
  <2>3. ASSUME NEW i \in 1 .. n - len  PROVE s[i] = y.bytes[y.reader + i]
    <3>1. len + i \in 1 .. n /\ x.reader + (len + i) = (x.reader + len) + i
      BY <1>2, <1>5
    <3> QED
      BY <1>2, <1>3, <2>1, <2>2, <3>1
  <2>4. Len(s) = y.writer - y.reader
    BY <1>2, <2>1, <2>2
  <2>5. Content(y) = s
    BY <1>4, <2>1, <2>3, <2>4, Holds
  <2> QED
    BY <1>2, <1>5, <2>5 DEF y, s, c
<1>6. CASE ~(len < n)
  <2>1. y.reader = kCheapPrepend /\ y.writer = kCheapPrepend
    BY <1>2, <1>6 DEF Retrieved, Cleared, Record
  <2> HIDE DEF y
  <2>2. <<>> \in Seq(Bytes) /\ Len(<<>>) = 0
    BY EmptySeq
  <2>3. Content(y) = <<>>
    <3>1. Len(<<>>) = y.writer - y.reader
      BY <1>1, <2>1, <2>2
    <3>2. \A i \in 1 .. Len(<<>>) : <<>>[i] = y.bytes[y.reader + i]
      BY <2>2
    <3> QED
      BY <1>4, <2>2, <3>1, <3>2, Holds
  <2>4. SubSeq(c, n + 1, n) = <<>>
    BY <1>2, SubSeqEmpty
  <2> QED
    BY <1>2, <1>6, <2>3, <2>4 DEF y, c
<1> QED
  BY <1>5, <1>6

\* What is read or peeked is a prefix of what the buffer holds.
LEMMA ReadIsPrefix ==
  ASSUME NEW x, Sound(x), NEW n \in Nat, n <= Readable(x)
  PROVE  From(x, n) = SubSeq(Content(x), 1, n)
<1> DEFINE c == Content(x)
           s == SubSeq(c, 1, n)
<1>1. /\ x.reader \in Nat /\ x.bytes \in Seq(Bytes) /\ Len(x.bytes) \in Nat
      /\ c \in Seq(Bytes) /\ Len(c) = Readable(x) /\ n <= Len(c) /\ Len(c) \in Nat
      /\ x \in Buffers
  BY SoundIsRegular, ContentIs DEF Sound
<1>3. \A i \in 1 .. n : c[i] = From(x, n)[i]
  <2> DEFINE m == Readable(x)
  <2>1. m \in Nat /\ n <= m
    BY <1>1
  <2> HIDE DEF m
  <2>2. \A i \in 1 .. n : i \in 1 .. m
    BY <2>1
  <2>3. \A i \in 1 .. n : From(x, m)[i] = From(x, n)[i]
    BY <2>2 DEF From
  <2> QED
    BY <2>3 DEF Content, m
<1> HIDE DEF c
<1>4. /\ s \in Seq(Bytes) /\ Len(s) = n
      /\ \A i \in 1 .. n : s[i] = c[i]
  <2>1. \A i \in 1 .. n : c[i] \in Bytes
    BY <1>1
  <2>2. /\ s \in Seq(Bytes) /\ Len(s) = IF 1 <= n THEN n - 1 + 1 ELSE 0
        /\ \A i \in 1 .. n - 1 + 1 : s[i] = c[1 + i - 1]
    BY <2>1, SubSeqProperties
  <2>3. n - 1 + 1 = n /\ (\A i \in 1 .. n : 1 + i - 1 = i) /\ (1 <= n \/ n = 0)
    OBVIOUS
  <2> QED
    BY <2>2, <2>3
<1> HIDE DEF s
<1>5. From(x, n) \in Seq(Bytes) /\ Len(From(x, n)) = n
  BY <1>1, ReadIsSeq
<1>6. From(x, n) = s
  BY <1>3, <1>4, <1>5, SeqEqual
<1> QED
  BY <1>6 DEF s, c

\* undoAppend takes bytes from the end.
LEMMA UndoTakesBack ==
  ASSUME NEW x, Sound(x), NEW n \in Nat, n <= Readable(x)
  PROVE  Content([x EXCEPT !.writer = @ - n]) = SubSeq(Content(x), 1, Readable(x) - n)
<1> DEFINE m == Readable(x) - n
           y == [x EXCEPT !.writer = @ - n]
<1>1. /\ x.reader \in Nat /\ x.writer \in Nat /\ Len(x.bytes) \in Nat
      /\ Readable(x) = x.writer - x.reader /\ x \in Buffers /\ m \in Nat /\ m <= Readable(x)
      /\ x.reader <= x.writer /\ x.writer <= Len(x.bytes) /\ Len(x.bytes) < W
  BY SoundSizes, SoundIsRegular DEF Sound, Regular
<1>2. y.bytes = x.bytes /\ y.reader = x.reader /\ y.writer = x.writer - n /\ x.writer - n \in Nat
  BY <1>1 DEF Buffers
<1>3. y \in Buffers
  BY <1>1, <1>2 DEF Buffers
<1> HIDE DEF y
<1>4. Regular(y)
  BY <1>1, <1>2, <1>3 DEF Regular
<1>5. Readable(y) = m
  BY <1>1, <1>2, <1>4, ContentIs
<1>6. From(y, m) = From(x, m)
  BY <1>2 DEF From
<1>7. From(x, m) = SubSeq(Content(x), 1, m)
  BY <1>1, ReadIsPrefix
<1> QED
  BY <1>5, <1>6, <1>7 DEF y, Content

\* What a step that returns does to what ByteStream sees.
LEMMA BecomesSteps ==
  ASSUME NEW a, NEW x, NEW v, Becomes(a, x, v)
  PROVE  /\ outcome = "ok" /\ outcome' = "ok"
         /\ call' = a /\ value' = v /\ Content(buf)' = Content(x)
         /\ (outcome # "ok")' = (outcome # "ok")
BY DEF Becomes, Content, From, Readable

\* A step that ends the program is promised of some calls only.
LEMMA FatalSteps ==
  ASSUME outcome = "ok", outcome' # "ok", Stream!Fatal
  PROVE  Stream!Next
BY DEF Stream!Next

\* A Buffer keeps its promise: it is a sequence of bytes that every call
\* extends, takes from and hands out exactly as its arguments say, whatever
\* moves makeSpace and the way through extraBuf make of the vector; the calls
\* that may end the program are the ones ByteStream lists (class Buffer).
THEOREM BufferIsByteStream == Spec => StreamSpec
<1>1. Init => Stream!Init
  <2> SUFFICES ASSUME Init  PROVE Stream!Init
    OBVIOUS
  <2>1. Sound(buf) /\ buf.reader = buf.writer
    BY NewIsSound DEF Init, New, Record
  <2>2. Content(buf) \in Seq(Bytes) /\ Len(Content(buf)) = 0
    BY <2>1, SoundIsRegular, ContentIs, SoundSizes
  <2>3. Content(buf) = <<>>
    BY <2>2, EmptySeq
  <2> QED
    BY <2>3 DEF Init, Stream!Init
<1>2. IInv /\ [Next]_vars => [Stream!Next]_<<Content(buf), call, value, outcome # "ok">>
  <2> SUFFICES ASSUME IInv, [Next]_vars
               PROVE  [Stream!Next]_<<Content(buf), call, value, outcome # "ok">>
    OBVIOUS
  <2> DEFINE c == Content(buf)
  <2>0. outcome = "ok" =>
          /\ Sound(buf) /\ c \in Seq(Bytes) /\ Len(c) = Readable(buf) /\ Len(c) \in Nat
    BY SoundIsRegular, ContentIs DEF IInv
  <2>1. ASSUME NEW n \in Nat, outcome = "ok"
        PROVE  /\ Content(Retrieved(buf, n)) = Stream!LeftOf(n)
               /\ n <= Len(c) => Stream!LeftOf(n) = Stream!AllBut(n)
    <3> DEFINE k == IF n < Readable(buf) THEN n ELSE Readable(buf)
    <3>1. Content(Retrieved(buf, n)) = SubSeq(c, k + 1, Len(c))
      BY <2>0, <2>1, RetrieveTakes
    <3>2. SubSeq(c, Len(c) + 1, Len(c)) = <<>>
      BY <2>0, <2>1, SubSeqEmpty
    <3>3. CASE n < Len(c)
      BY <2>0, <2>1, <3>1, <3>3 DEF Stream!LeftOf, Stream!AllBut
    <3>4. CASE ~(n < Len(c))
      <4>1. k = Len(c) /\ (n <= Len(c) => n = Len(c))
        BY <2>0, <2>1, <3>4
      <4> QED
        BY <3>1, <3>2, <3>4, <4>1 DEF Stream!LeftOf, Stream!AllBut
    <3> QED
      BY <3>3, <3>4
  <2>2. ASSUME NEW s \in Chunks, AppendBytes(s) \/ ReadSocket(s)  PROVE Stream!Next
    <3>1. CASE AppendBytes(s)
      <4>1. Becomes(<<"append", s>>, Appended(buf, s, Len(s)), <<>>)
        BY <3>1 DEF AppendBytes
      <4>2. Content(Appended(buf, s, Len(s))) = c \o s
        BY <2>0, <4>1, BecomesSteps, ChunkIsSeq, AppendAdds
      <4> QED
        BY <4>1, <4>2, BecomesSteps DEF Stream!Next, Stream!Extend, Stream!Call
    <3>2. CASE ReadSocket(s)
      <4>1. Becomes(<<"readSocket", s>>, Received(buf, s), <<>>)
        BY <3>2 DEF ReadSocket
      <4>2. Content(Received(buf, s)) = c \o s
        BY <2>0, <4>1, BecomesSteps, ReceiveAdds
      <4> QED
        BY <4>1, <4>2, BecomesSteps DEF Stream!Next, Stream!Extend, Stream!Call
    <3> QED
      BY <2>2, <3>1, <3>2
  <2>3. ASSUME NEW s \in Chunks, Prepend(s)  PROVE Stream!Next
    <3> DEFINE r == buf.reader - Len(s)
               x == Record(Copied(buf.bytes, r, s), r, buf.writer)
    <3>1. CASE Ends(<<"prepend", s>>, "aborted")
      <4>1. Stream!Fatal
        BY <3>1 DEF Ends, Stream!Fatal
      <4> QED
        BY <3>1, <4>1, FatalSteps DEF Ends
    <3>2. CASE Len(s) <= buf.reader /\ Becomes(<<"prepend", s>>, x, <<>>)
      <4>1. Content(x) = s \o c
        BY <2>0, <3>2, BecomesSteps, ChunkIsSeq, CopyInFront, SoundIsRegular
      <4> HIDE DEF x
      <4> QED
        BY <3>2, <4>1, BecomesSteps DEF Stream!Next, Stream!Extend, Stream!Call
    <3> QED
      BY <2>3, <3>1, <3>2 DEF Prepend, Prependable
  <2>4. ASSUME NEW n \in 0 .. MaxSize, Retrieve(n)  PROVE Stream!Next
    <3>1. n \in Nat /\ Becomes(<<"retrieve", n>>, Retrieved(buf, n), <<>>)
      BY <2>4, BufferAssumption DEF Retrieve
    <3>2. Content(buf)' = Stream!LeftOf(n)
      BY <2>1, <3>1, BecomesSteps
    <3>3. Stream!Retrieve(n)
      BY <3>1, <3>2, BecomesSteps DEF Stream!Retrieve, Stream!Call
    <3> QED
      BY <3>1, <3>3, BecomesSteps DEF Stream!Next
  <2>5. ASSUME NEW n \in 0 .. MaxSize, RetrieveAsString(n)  PROVE Stream!Next
    <3> DEFINE a == <<"retrieveAsString", n>>
    <3>0. n \in Nat
      BY BufferAssumption
    <3>1. CASE n <= Readable(buf) /\ Becomes(a, Retrieved(buf, n), From(buf, n))
      <4>1. outcome = "ok" /\ n <= Len(c)
        BY <2>0, <3>1, BecomesSteps
      <4>2. Content(buf)' = Stream!AllBut(n)
        BY <2>1, <3>0, <3>1, <4>1, BecomesSteps
      <4>3. value' = Stream!First(n)
        BY <2>0, <3>0, <3>1, <4>1, BecomesSteps, ReadIsPrefix DEF Stream!First
      <4>4. Stream!RetrieveAsString(n)
        BY <3>1, <4>1, <4>2, <4>3, BecomesSteps DEF Stream!RetrieveAsString, Stream!Call
      <4> QED
        BY <3>1, <4>4, BecomesSteps DEF Stream!Next
    <3>2. CASE n > Readable(buf) /\ Becomes(a, buf, <<>>)
      <4>1. Stream!RetrieveAsString(n)
        BY <2>0, <3>2, BecomesSteps DEF Stream!RetrieveAsString, Stream!Call
      <4> QED
        BY <3>2, <4>1, BecomesSteps DEF Stream!Next
    <3> QED
      BY <2>5, <3>1, <3>2 DEF RetrieveAsString
  <2>6. ASSUME NEW n \in 0 .. MaxSize, UndoAppend(n)  PROVE Stream!Next
    <3> DEFINE a == <<"undoAppend", n>>
               x == [buf EXCEPT !.writer = @ - n]
    <3>0. n \in Nat
      BY BufferAssumption
    <3>1. CASE n <= Readable(buf) /\ Becomes(a, x, <<>>)
      <4>1. outcome = "ok" /\ n <= Len(c)
        BY <2>0, <3>1, BecomesSteps
      <4>2. Content(x) = Stream!First(Len(c) - n)
        BY <2>0, <3>0, <3>1, <4>1, UndoTakesBack DEF Stream!First
      <4> HIDE DEF x
      <4>3. Stream!UndoAppend(n)
        BY <3>1, <4>1, <4>2, BecomesSteps DEF Stream!UndoAppend, Stream!Call
      <4> QED
        BY <3>1, <4>3, BecomesSteps DEF Stream!Next
    <3>2. CASE ~(n <= Readable(buf)) /\ Becomes(a, buf, <<>>)
      <4>1. outcome = "ok" /\ n > Len(c)
        BY <2>0, <3>0, <3>2, BecomesSteps
      <4>2. Stream!UndoAppend(n)
        BY <3>2, <4>1, BecomesSteps DEF Stream!UndoAppend, Stream!Call
      <4> QED
        BY <3>2, <4>2, BecomesSteps DEF Stream!Next
    <3> QED
      BY <2>6, <3>1, <3>2 DEF UndoAppend, Undone
  <2>7. ASSUME outcome = "ok", value' = From(buf, 1)  PROVE Stream!ReturnsByte
    <3>1. Len(From(buf, 1)) = 1
      BY <2>0, <2>7, ReadIsSeq DEF Sound
    <3>2. ASSUME c # <<>>  PROVE From(buf, 1) = SubSeq(c, 1, 1)
      <4>1. Len(c) # 0
        BY <2>0, <2>7, <3>2, EmptySeq
      <4>2. 1 <= Readable(buf) /\ 1 \in Nat
        BY <2>0, <2>7, <4>1
      <4> QED
        BY <2>0, <2>7, <4>2, ReadIsPrefix
    <3> QED
      BY <2>7, <3>1, <3>2 DEF Stream!ReturnsByte, Stream!First
  <2>8. ASSUME NEW width \in Widths, Read(width) \/ Peek(width)  PROVE Stream!Next
    <3> DEFINE a == <<"read", width>>
               b == <<"peek", width>>
    <3>1. CASE width > 1 /\ (Ends(a, "ruined") \/ Ends(b, "ruined"))
      <4>1. Stream!Fatal
        BY <3>1 DEF Ends, Stream!Fatal
      <4> QED
        BY <3>1, <4>1, FatalSteps DEF Ends
    <3>2. CASE Becomes(a, Retrieved(buf, width), From(buf, 1))
      <4>1. width \in Nat
        BY DEF Widths
      <4>2. Content(buf)' = Stream!LeftOf(width) /\ Stream!ReturnsByte
        BY <2>1, <2>7, <3>2, <4>1, BecomesSteps
      <4>3. Stream!Read(width)
        BY <3>2, <4>2, BecomesSteps DEF Stream!Read
      <4> QED
        BY <3>2, <4>3, BecomesSteps DEF Stream!Next
    <3>3. CASE Becomes(b, buf, From(buf, 1))
      <4>1. Stream!Peek(width)
        BY <2>7, <3>3, BecomesSteps DEF Stream!Peek
      <4> QED
        BY <3>3, <4>1, BecomesSteps DEF Stream!Next
    <3> QED
      BY <2>8, <3>1, <3>2, <3>3 DEF Read, Peek
  <2>9. ASSUME Swap  PROVE Stream!Next
    <3>1. Becomes(<<"swap">>, New, <<>>)
      BY <2>9 DEF Swap
    <3>2. Content(New) = <<>>
      <4>1. Sound(New) /\ New.reader = New.writer
        BY NewIsSound DEF New, Record
      <4>2. Content(New) \in Seq(Bytes) /\ Len(Content(New)) = 0
        BY <4>1, SoundIsRegular, ContentIs, SoundSizes
      <4> QED
        BY <4>2, EmptySeq
    <3>3. Stream!Swap
      BY <3>1, <3>2, BecomesSteps DEF Stream!Swap, Stream!Call
    <3> QED
      BY <3>1, <3>3, BecomesSteps DEF Stream!Next
  <2>10. ASSUME NEW t \in Chunks \ {<<>>}, NEW skip \in 0 .. MaxSize, RetrieveUntil(t, skip)
         PROVE  Stream!Next
    <3> DEFINE a == <<"retrieveUntil", t, skip>>
               hits == Hits(t, skip)
    <3>0. /\ skip \in Nat /\ t \in Seq(Bytes) /\ Len(t) \in Nat \ {0}
      <4>1. t \in Seq(Bytes) /\ Len(t) \in Nat
        BY ChunkIsSeq
      <4>2. Len(t) # 0
        BY <4>1, EmptySeq
      <4> QED
        BY <4>1, <4>2, BufferAssumption
    <3>1. ASSUME outcome = "ok", NEW k \in skip .. Len(c)
          PROVE  Stream!Follows(t, k) <=> k \in hits
      <4>1. k + Len(t) <= Len(c) <=> k \in skip .. Readable(buf) - Len(t)
        BY <2>0, <3>0, <3>1
      <4> QED
        BY <4>1 DEF Hits, Stream!Follows
    <3>2. CASE skip >= Readable(buf) /\ Ends(a, "aborted")
      <4>1. outcome = "ok" /\ skip >= Len(c)
        BY <2>0, <3>2 DEF Ends
      <4>2. Stream!Fatal
        BY <3>2, <4>1 DEF Ends, Stream!Fatal
      <4> QED
        BY <3>2, <4>2, FatalSteps DEF Ends
    <3>3. CASE /\ skip < Readable(buf) \/ skip = 0
               /\ hits = {} /\ Becomes(a, buf, <<>>)
      <4>1. outcome = "ok" /\ (skip < Len(c) \/ skip = 0)
        BY <2>0, <3>3, BecomesSteps
      <4>2. \A k \in skip .. Len(c) : ~Stream!Follows(t, k)
        BY <3>1, <3>3, <4>1
      <4>3. Stream!RetrieveUntil(t, skip)
        BY <3>3, <4>1, <4>2, BecomesSteps DEF Stream!RetrieveUntil, Stream!Call
      <4> QED
        BY <3>3, <4>3, BecomesSteps DEF Stream!Next
    <3>4. CASE /\ skip < Readable(buf) /\ hits # {}
               /\ Becomes(a, Retrieved(buf, Min(hits)), <<>>)
      <4> DEFINE k == Min(hits)
      <4>1. outcome = "ok" /\ skip < Len(c) /\ Len(c) \in Nat /\ Len(c) = Readable(buf)
        BY <2>0, <3>4, BecomesSteps
      <4>2. hits \in SUBSET Nat /\ \A p \in hits : p \in skip .. Len(c)
        BY <3>0, <4>1 DEF Hits
      <4>3. k \in hits /\ \A p \in hits : k <= p
        BY <3>4, <4>2, FirstHit
      <4> HIDE DEF k, hits
      <4>4. k \in skip .. Len(c) /\ k \in Nat /\ k <= Len(c)
        BY <4>1, <4>2, <4>3
      <4>5. Stream!Follows(t, k) /\ \A j \in skip .. k - 1 : ~Stream!Follows(t, j)
        <5>1. \A j \in skip .. k - 1 : j \in skip .. Len(c) /\ ~(k <= j)
          BY <3>0, <4>1, <4>4
        <5> QED
          BY <3>1, <4>1, <4>3, <4>4, <5>1
      <4>6. Content(buf)' = Stream!AllBut(k)
        BY <2>1, <3>4, <4>1, <4>4, BecomesSteps DEF k
      <4>7. call' = a /\ value' = <<>>
        BY <3>4, BecomesSteps
      <4>8. Stream!RetrieveUntil(t, skip)
        BY <4>1, <4>4, <4>5, <4>6, <4>7 DEF Stream!RetrieveUntil, Stream!Call
      <4> QED
        BY <3>4, <4>8, BecomesSteps DEF Stream!Next
    <3>5. ASSUME skip = 0, Readable(buf) = 0, outcome = "ok"  PROVE hits = {}
      <4>1. \A k \in skip .. Readable(buf) - Len(t) : FALSE
        BY <3>0, <3>5
      <4> QED
        BY <4>1 DEF Hits
    <3>6. CASE skip = 0 /\ Readable(buf) = 0 /\ Becomes(a, buf, <<>>)
      BY <3>3, <3>5, <3>6, BecomesSteps
    <3> QED
      BY <2>10, <3>2, <3>3, <3>4, <3>6 DEF RetrieveUntil
  <2>11. ASSUME ReadSocketFails  PROVE Stream!Next
    <3>1. outcome = "ok" /\ outcome' # "ok" /\ call' = <<"readSocketFails">>
      BY <2>11 DEF ReadSocketFails, Ends
    <3>2. Stream!Fatal
      BY <3>1 DEF Stream!Fatal
    <3> QED
      BY <3>1, <3>2, FatalSteps
  <2>12. CASE UNCHANGED vars
    <3>1. Content(buf)' = Content(buf)
      BY <2>12 DEF vars, Content, From, Readable
    <3> QED
      BY <2>12, <3>1 DEF vars
  <2>13. ASSUME Next  PROVE Stream!Next
    <3>1. CASE \E s \in Chunks : AppendBytes(s) \/ Prepend(s) \/ ReadSocket(s)
      BY <2>2, <2>3, <3>1
    <3>2. CASE \E n \in 0 .. MaxSize : Retrieve(n) \/ RetrieveAsString(n) \/ UndoAppend(n)
      BY <2>4, <2>5, <2>6, <3>2
    <3>3. CASE \E width \in Widths : Read(width) \/ Peek(width)
      BY <2>8, <3>3
    <3>4. CASE \E t \in Chunks \ {<<>>}, skip \in 0 .. MaxSize : RetrieveUntil(t, skip)
      BY <2>10, <3>4
    <3> QED
      BY <2>9, <2>11, <2>13, <3>1, <3>2, <3>3, <3>4 DEF Next
  <2> QED
    BY <2>12, <2>13
<1> QED
  BY <1>1, <1>2, IInvHolds, PTL DEF Spec, StreamSpec, Stream!Spec
=============================================================================
