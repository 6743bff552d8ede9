---------------------------- MODULE LoggerProofs ----------------------------
(* Proofs about AsyncLogger, for any number of threads, records and        *)
(* starts, any buffer size and any number of extra buffers, and about      *)
(* LogFile, for any limits and any number of records, loggers and reads.   *)
EXTENDS AsyncLogger, LogDisk, SequenceTheorems, NaturalsInduction, WellFoundedInduction, TLAPS

File == INSTANCE LogFile

-----------------------------------------------------------------------------
(* FlattenSeq.  Each induction looks at the least position at which the    *)
(* claim would fail.                                                       *)

\* f holds what FlattenSeq computes from the first n sequences of s.
Flattens(f, s, n) ==
  f = [i \in 1 .. n |-> IF i = 1 THEN s[i] ELSE f[i - 1] \o s[i]]

\* A set of numbers has a first member.
LEMMA FirstMember ==
  ASSUME NEW T \in SUBSET Nat, T # {}
  PROVE  \E x \in T : \A y \in T : x <= y
<1>1. PICK x \in T : \A y \in T : ~(<<y, x>> \in OpToRel(<, Nat))
  BY NatLessThanWellFounded, WFMin
<1>2. ASSUME NEW y \in T  PROVE x <= y
  <2>1. x \in Nat /\ y \in Nat
    OBVIOUS
  <2>2. y < x => <<y, x>> \in OpToRel(<, Nat)
    BY <2>1 DEF OpToRel
  <2>3. ~(y < x)
    BY <1>1, <2>2
  <2> QED
    BY <2>1, <2>3
<1> QED
  BY <1>1, <1>2

\* Concatenation is associative.
Associative(S) == \A s, t, u \in Seq(S) : (s \o t) \o u = s \o (t \o u)

LEMMA ConcatIsAssociative ==
  \A S : \A s, t, u \in Seq(S) : (s \o t) \o u = s \o (t \o u)
BY ConcatAssociative, SMT

LEMMA AllAssociative == \A S : Associative(S)
BY ConcatIsAssociative, Zenon DEF Associative

\* The same of the units of a file.
LEMMA UnitsAssociative ==
  \A s, t, u \in Seq(Nat) : (s \o t) \o u = s \o (t \o u)
<1>1. Associative(Nat)
  BY AllAssociative
<1> QED
  BY <1>1, Zenon DEF Associative

\* Two steps of the computation, and that it can be continued.
LEMMA FlattenExtends ==
  ASSUME NEW s, NEW n \in Nat, NEW f, Flattens(f, s, n)
  PROVE  \E g : Flattens(g, s, n + 1)
<1> DEFINE last == IF n = 0 THEN s[1] ELSE f[n] \o s[n + 1]
           g == [i \in 1 .. n + 1 |-> IF i = n + 1 THEN last ELSE f[i]]
<1>1. \A i \in 1 .. n : f[i] = IF i = 1 THEN s[i] ELSE f[i - 1] \o s[i]
  BY DEF Flattens
<1>2. ASSUME NEW i \in 1 .. n + 1
      PROVE  g[i] = IF i = 1 THEN s[i] ELSE g[i - 1] \o s[i]
  <2>1. CASE i = n + 1 /\ n = 0
    BY <2>1
  <2>2. CASE i = n + 1 /\ n # 0
    <3>1. i - 1 = n /\ i - 1 \in 1 .. n + 1 /\ i - 1 # n + 1 /\ i # 1
      BY <2>2
    <3>2. g[i - 1] = f[n]
      BY <3>1
    <3> QED
      BY <2>2, <3>1, <3>2
  <2>3. CASE i # n + 1
    <3>1. i \in 1 .. n /\ g[i] = f[i]
      BY <2>3
    <3>2. CASE i = 1
      BY <1>1, <3>1, <3>2
    <3>3. CASE i # 1
      <4>1. i - 1 \in 1 .. n + 1 /\ i - 1 # n + 1
        BY <3>1, <3>3
      <4>2. g[i - 1] = f[i - 1]
        BY <4>1
      <4> QED
        BY <1>1, <3>1, <3>3, <4>2
    <3> QED
      BY <3>2, <3>3
  <2> QED
    BY <2>1, <2>2, <2>3
<1>3. g = [i \in 1 .. n + 1 |-> g[i]]
  OBVIOUS
<1> HIDE DEF g
<1>4. g = [i \in 1 .. n + 1 |-> IF i = 1 THEN s[i] ELSE g[i - 1] \o s[i]]
  BY <1>2, <1>3
<1> QED
  BY <1>4 DEF Flattens

\* The function FlattenSeq is defined by exists.
LEMMA FlattenExists ==
  ASSUME NEW s, NEW n \in Nat
  PROVE  \E f : Flattens(f, s, n)
<1> DEFINE T == {m \in Nat : ~\E f : Flattens(f, s, m)}
<1> SUFFICES ASSUME T # {}
             PROVE  FALSE
  OBVIOUS
<1>1. PICK m \in T : \A k \in T : m <= k
  BY FirstMember
<1>2. CASE m = 0
  <2> DEFINE f == [i \in 1 .. 0 |-> s]
  <2>1. f = [i \in 1 .. 0 |-> IF i = 1 THEN s[i] ELSE f[i - 1] \o s[i]]
    OBVIOUS
  <2>2. Flattens(f, s, 0)
    BY <2>1 DEF Flattens
  <2> QED
    BY <1>2, <2>2
<1>3. CASE m # 0
  <2>1. m - 1 \in Nat /\ ~(m <= m - 1) /\ (m - 1) + 1 = m
    BY <1>3
  <2>2. PICK f : Flattens(f, s, m - 1)
    BY <1>1, <2>1
  <2> QED
    BY <2>1, <2>2, FlattenExtends
<1> QED
  BY <1>2, <1>3

\* What it computes step by step: sequences, each from the one before.
LEMMA FlattenStep ==
  ASSUME NEW S, NEW s \in Seq(Seq(S)), NEW f, Flattens(f, s, Len(s))
  PROVE  /\ \A i \in 1 .. Len(s) : f[i] = IF i = 1 THEN s[i] ELSE f[i - 1] \o s[i]
         /\ \A i \in 1 .. Len(s) : f[i] \in Seq(S)
<1>1. \A i \in 1 .. Len(s) : f[i] = IF i = 1 THEN s[i] ELSE f[i - 1] \o s[i]
  BY DEF Flattens
<1>2. Len(s) \in Nat /\ \A i \in 1 .. Len(s) : s[i] \in Seq(S)
  BY LenProperties, ElementOfSeq
<1> DEFINE T == {i \in 1 .. Len(s) : f[i] \notin Seq(S)}
<1>3. ASSUME T # {}
      PROVE  FALSE
  <2>1. T \in SUBSET Nat
    BY <1>2
  <2>2. PICK i \in T : \A j \in T : i <= j
    BY <1>3, <2>1, FirstMember
  <2>3. i \in 1 .. Len(s) /\ f[i] \notin Seq(S)
    OBVIOUS
  <2>4. CASE i = 1
    BY <1>1, <1>2, <2>3, <2>4
  <2>5. CASE i # 1
    <3>1. i - 1 \in 1 .. Len(s) /\ ~(i <= i - 1)
      BY <1>2, <2>3, <2>5
    <3>2. f[i - 1] \in Seq(S)
      BY <2>2, <3>1
    <3>3. f[i - 1] \o s[i] \in Seq(S)
      BY <1>2, <2>3, <3>2, ConcatProperties
    <3> QED
      BY <1>1, <2>3, <2>5, <3>3
  <2> QED
    BY <2>4, <2>5
<1> QED
  BY <1>1, <1>3

\* FlattenSeq of some sequences is the last of them.
LEMMA FlattenIsLast ==
  ASSUME NEW S, NEW s \in Seq(Seq(S)), s # <<>>
  PROVE  \E f : Flattens(f, s, Len(s)) /\ FlattenSeq(s) = f[Len(s)]
<1>1. Len(s) \in Nat /\ Len(s) # 0
  BY EmptySeq, LenProperties
<1>2. \E f : Flattens(f, s, Len(s))
  BY <1>1, FlattenExists
<1> QED
  BY <1>1, <1>2 DEF Flattens, FlattenSeq

\* Nothing and one sequence are what they are.
LEMMA FlattenSmall ==
  ASSUME NEW S
  PROVE  /\ FlattenSeq(<<>>) = <<>>
         /\ \A a \in Seq(S) : FlattenSeq(<<a>>) = a
<1>1. FlattenSeq(<<>>) = <<>>
  BY EmptySeq DEF FlattenSeq
<1>2. ASSUME NEW a \in Seq(S)
      PROVE  FlattenSeq(<<a>>) = a
  <2> DEFINE x == <<a>>
  <2>1. x \in Seq(Seq(S)) /\ Len(x) = 1 /\ x # <<>> /\ x[1] = a
    OBVIOUS
  <2> HIDE DEF x
  <2>2. PICK f : Flattens(f, x, Len(x)) /\ FlattenSeq(x) = f[Len(x)]
    BY <2>1, FlattenIsLast
  <2>3. \A i \in 1 .. Len(x) : f[i] = IF i = 1 THEN x[i] ELSE f[i - 1] \o x[i]
    <3>1. x \in Seq(Seq(S)) /\ Flattens(f, x, Len(x))
      BY <2>1, <2>2
    <3> QED
      BY <3>1, FlattenStep
  <2>4. f[1] = a
    BY <2>1, <2>3
  <2> QED
    BY <2>1, <2>2, <2>4 DEF x
<1> QED
  BY <1>1, <1>2

\* The result is a sequence of the elements.
LEMMA FlattenTyped ==
  ASSUME NEW S, NEW s \in Seq(Seq(S))
  PROVE  FlattenSeq(s) \in Seq(S)
<1>1. CASE s = <<>>
  BY <1>1, FlattenSmall, EmptySeq
<1>2. CASE s # <<>>
  <2>1. PICK f : Flattens(f, s, Len(s)) /\ FlattenSeq(s) = f[Len(s)]
    BY <1>2, FlattenIsLast
  <2>2. Len(s) \in 1 .. Len(s)
    BY <1>2, EmptySeq, LenProperties
  <2>3. \A i \in 1 .. Len(s) : f[i] \in Seq(S)
    BY <2>1, FlattenStep
  <2> QED
    BY <2>1, <2>2, <2>3, Zenon
<1> QED
  BY <1>1, <1>2

\* FlattenSeq carries concatenation over to the elements.
LEMMA FlattenConcat ==
  ASSUME NEW S, NEW s \in Seq(Seq(S)), NEW t \in Seq(Seq(S))
  PROVE  FlattenSeq(s \o t) = FlattenSeq(s) \o FlattenSeq(t)
<1>1. /\ s \o t \in Seq(Seq(S)) /\ Len(s) \in Nat /\ Len(t) \in Nat
      /\ Len(s \o t) = Len(s) + Len(t)
      /\ \A i \in 1 .. Len(s) + Len(t) :
           (s \o t)[i] = IF i <= Len(s) THEN s[i] ELSE t[i - Len(s)]
  BY ConcatProperties, LenProperties
<1>2. FlattenSeq(s) \in Seq(S) /\ FlattenSeq(t) \in Seq(S)
  BY FlattenTyped
<1>3. CASE s = <<>>
  BY <1>2, <1>3, FlattenSmall, ConcatEmptySeq
<1>4. CASE t = <<>>
  BY <1>2, <1>4, FlattenSmall, ConcatEmptySeq
<1>5. CASE s # <<>> /\ t # <<>>
  <2> DEFINE m == Len(s)
             n == Len(t)
             u == s \o t
  <2>1. m \in Nat /\ n \in Nat /\ m # 0 /\ n # 0 /\ Len(u) = m + n /\ u # <<>>
    BY <1>1, <1>5, EmptySeq
  <2>2. u \in Seq(Seq(S))
    BY <1>1
  <2>3. /\ \A i \in 1 .. m : u[i] = s[i]
        /\ \A j \in 1 .. n : u[m + j] = t[j]
    BY <1>1
  <2> HIDE DEF u
  <2>4. PICK f : Flattens(f, u, Len(u)) /\ FlattenSeq(u) = f[Len(u)]
    BY <2>1, <2>2, FlattenIsLast
  <2>5. PICK g : Flattens(g, s, m) /\ FlattenSeq(s) = g[m]
    BY <1>5, FlattenIsLast
  <2>6. PICK h : Flattens(h, t, n) /\ FlattenSeq(t) = h[n]
    BY <1>5, FlattenIsLast
  <2>7. \A i \in 1 .. m + n : f[i] = IF i = 1 THEN u[i] ELSE f[i - 1] \o u[i]
    <3>1. \A i \in 1 .. Len(u) : f[i] = IF i = 1 THEN u[i] ELSE f[i - 1] \o u[i]
      BY <2>2, <2>4, FlattenStep
    <3> QED
      BY <2>1, <3>1
  <2>8. \A i \in 1 .. m : g[i] = (IF i = 1 THEN s[i] ELSE g[i - 1] \o s[i]) /\ g[i] \in Seq(S)
    BY <2>5, FlattenStep
  <2>9. /\ \A i \in 1 .. n : h[i] = IF i = 1 THEN t[i] ELSE h[i - 1] \o t[i]
        /\ \A i \in 1 .. n : h[i] \in Seq(S)
        /\ \A i \in 1 .. n : t[i] \in Seq(S)
    <3>1. \A i \in 1 .. n : t[i] \in Seq(S)
      BY ElementOfSeq
    <3>2. /\ \A i \in 1 .. n : h[i] = IF i = 1 THEN t[i] ELSE h[i - 1] \o t[i]
          /\ \A i \in 1 .. n : h[i] \in Seq(S)
      BY <2>6, FlattenStep
    <3> QED
      BY <3>1, <3>2
  <2> HIDE DEF m, n
  <2>10. ASSUME NEW i \in 1 .. m, f[i] # g[i]
         PROVE  FALSE
    <3> DEFINE T == {j \in 1 .. m : f[j] # g[j]}
    <3>1. PICK j \in T : \A k \in T : j <= k
      <4>1. T \in SUBSET Nat
        <5>1. \A k \in 1 .. m : k \in Nat
          BY <2>1
        <5> QED
          BY <5>1, Zenon
      <4>2. i \in T
        BY <2>10
      <4> QED
        BY <4>1, <4>2, FirstMember
    <3>2. j \in 1 .. m /\ f[j] # g[j]
      OBVIOUS
    <3>3. j # 1
      BY <2>1, <2>3, <2>7, <2>8, <3>2
    <3>4. j - 1 \in 1 .. m /\ ~(j <= j - 1) /\ j \in 1 .. m + n
      BY <2>1, <3>2, <3>3
    <3>5. f[j - 1] = g[j - 1]
      BY <3>1, <3>4
    <3> QED
      BY <2>3, <2>7, <2>8, <3>2, <3>3, <3>4, <3>5
  <2>11. f[m] = g[m] /\ g[m] \in Seq(S)
    BY <2>1, <2>8, <2>10
  <2>12. ASSUME NEW i \in 1 .. n, f[m + i] # g[m] \o h[i]
         PROVE  FALSE
    <3> DEFINE T == {j \in 1 .. n : f[m + j] # g[m] \o h[j]}
    <3>1. PICK j \in T : \A k \in T : j <= k
      <4>1. T \in SUBSET Nat
        <5>1. \A k \in 1 .. n : k \in Nat
          BY <2>1
        <5> QED
          BY <5>1, Zenon
      <4>2. i \in T
        BY <2>12
      <4> QED
        BY <4>1, <4>2, FirstMember
    <3>2. j \in 1 .. n /\ f[m + j] # g[m] \o h[j]
      OBVIOUS
    <3> DEFINE x == m + j
               y == m + j - 1
    <3>3. f[m + j] = f[y] \o t[j]
      <4>1. x \in 1 .. m + n /\ x # 1 /\ x - 1 = y
        BY <2>1, <3>2
      <4>2. u[x] = t[j]
        BY <2>3, <3>2
      <4> HIDE DEF T, x, y
      <4>3. f[x] = f[x - 1] \o t[j]
        BY <2>7, <4>1, <4>2
      <4>4. f[x] = f[y] \o t[j]
        BY <4>1, <4>3, Zenon
      <4> QED
        BY <4>4 DEF x
    <3>4. CASE j = 1
      <4>1. y = m
        BY <2>1, <3>4
      <4>2. h[j] = t[j]
        BY <2>9, <3>2, <3>4
      <4> QED
        BY <2>11, <3>2, <3>3, <4>1, <4>2
    <3>5. CASE j # 1
      <4>1. j - 1 \in 1 .. n /\ ~(j <= j - 1) /\ y = m + (j - 1)
        BY <2>1, <3>2, <3>5
      <4>2. f[m + (j - 1)] = g[m] \o h[j - 1]
        BY <3>1, <4>1
      <4>3. h[j] = h[j - 1] \o t[j] /\ h[j - 1] \in Seq(S) /\ t[j] \in Seq(S)
        <5>1. h[j] = h[j - 1] \o t[j]
          BY <2>9, <3>2, <3>5
        <5>2. h[j - 1] \in Seq(S)
          <6>1. \A k \in 1 .. n : h[k] \in Seq(S)
            BY <2>9
          <6> QED
            BY <4>1, <6>1
        <5>3. t[j] \in Seq(S)
          BY <2>9, <3>2
        <5> QED
          BY <5>1, <5>2, <5>3
      <4>4. (g[m] \o h[j - 1]) \o t[j] = g[m] \o (h[j - 1] \o t[j])
        <5> DEFINE a == g[m]
                   b == h[j - 1]
                   c == t[j]
        <5>1. a \in Seq(S) /\ b \in Seq(S) /\ c \in Seq(S)
          BY <2>11, <4>3
        <5> HIDE DEF a, b, c, T, x, y
        <5>2. (a \o b) \o c = a \o (b \o c)
          <6>1. Associative(S)
            BY AllAssociative
          <6> QED
            BY <5>1, <6>1, Zenon DEF Associative
        <5> QED
          BY <5>2 DEF a, b, c
      <4> QED
        BY <3>2, <3>3, <4>1, <4>2, <4>3, <4>4
    <3> QED
      BY <3>4, <3>5
  <2>13. f[m + n] = g[m] \o h[n]
    <3>1. n \in 1 .. n
      BY <2>1
    <3> QED
      BY <2>12, <3>1
  <2> QED
    BY <2>1, <2>4, <2>5, <2>6, <2>13 DEF u
<1> QED
  BY <1>3, <1>4, <1>5

\* An element that joins at the end is at the end.
LEMMA FlattenAppend ==
  ASSUME NEW S, NEW s \in Seq(Seq(S)), NEW a \in Seq(S)
  PROVE  FlattenSeq(Append(s, a)) = FlattenSeq(s) \o a
<1>1. Append(s, a) = s \o <<a>> /\ <<a>> \in Seq(Seq(S))
  BY AppendIsConcat
<1>2. FlattenSeq(s \o <<a>>) = FlattenSeq(s) \o FlattenSeq(<<a>>)
  BY <1>1, FlattenConcat
<1>3. FlattenSeq(<<a>>) = a
  BY FlattenSmall
<1> QED
  BY <1>1, <1>2, <1>3

\* The first element is in front.
LEMMA FlattenTail ==
  ASSUME NEW S, NEW s \in Seq(Seq(S)), s # <<>>
  PROVE  /\ Head(s) \in Seq(S) /\ Tail(s) \in Seq(Seq(S))
         /\ FlattenSeq(s) = Head(s) \o FlattenSeq(Tail(s))
<1>1. Head(s) \in Seq(S) /\ Tail(s) \in Seq(Seq(S))
  BY HeadTailProperties
<1>2. <<Head(s)>> \in Seq(Seq(S)) /\ s = <<Head(s)>> \o Tail(s)
  BY <1>1
<1>3. FlattenSeq(<<Head(s)>> \o Tail(s)) = FlattenSeq(<<Head(s)>>) \o FlattenSeq(Tail(s))
  BY <1>1, <1>2, FlattenConcat
<1>4. FlattenSeq(<<Head(s)>>) = Head(s)
  BY <1>1, FlattenSmall
<1> QED
  BY <1>1, <1>2, <1>3, <1>4

\* What a concatenation consists of.
LEMMA ConcatParts ==
  ASSUME NEW S, NEW s \in Seq(S), NEW t \in Seq(S)
  PROVE  /\ s \o t \in Seq(S)
         /\ Len(s \o t) = Len(s) + Len(t)
         /\ ToSet(s \o t) = ToSet(s) \cup ToSet(t)
<1>1. /\ s \o t \in Seq(S) /\ Len(s) \in Nat /\ Len(t) \in Nat
      /\ Len(s \o t) = Len(s) + Len(t)
      /\ \A i \in 1 .. Len(s) + Len(t) :
           (s \o t)[i] = IF i <= Len(s) THEN s[i] ELSE t[i - Len(s)]
      /\ DOMAIN (s \o t) = 1 .. Len(s \o t)
      /\ DOMAIN s = 1 .. Len(s) /\ DOMAIN t = 1 .. Len(t)
  <2>1. s \o t \in Seq(S)
    BY ConcatProperties
  <2> QED
    BY <2>1, ConcatProperties, LenProperties
<1> DEFINE u == s \o t
<1>2. ASSUME NEW x \in ToSet(s)
      PROVE  x \in ToSet(u)
  <2>1. PICK i \in 1 .. Len(s) : x = s[i]
    BY <1>1 DEF ToSet
  <2>2. i \in DOMAIN u /\ u[i] = x
    BY <1>1, <2>1
  <2> QED
    BY <2>2 DEF ToSet
<1>3. ASSUME NEW x \in ToSet(t)
      PROVE  x \in ToSet(u)
  <2>1. PICK i \in 1 .. Len(t) : x = t[i]
    BY <1>1 DEF ToSet
  <2>2. Len(s) + i \in DOMAIN u /\ u[Len(s) + i] = x
    BY <1>1, <2>1
  <2> QED
    BY <2>2 DEF ToSet
<1>4. ASSUME NEW x \in ToSet(u)
      PROVE  x \in ToSet(s) \cup ToSet(t)
  <2>1. PICK i \in 1 .. Len(s) + Len(t) : x = u[i]
    BY <1>1 DEF ToSet
  <2>2. CASE i <= Len(s)
    <3>1. i \in DOMAIN s /\ x = s[i]
      BY <1>1, <2>1, <2>2
    <3> QED
      BY <3>1 DEF ToSet
  <2>3. CASE ~(i <= Len(s))
    <3>1. i - Len(s) \in DOMAIN t /\ x = t[i - Len(s)]
      BY <1>1, <2>1, <2>3
    <3> QED
      BY <3>1 DEF ToSet
  <2> QED
    BY <2>2, <2>3
<1> HIDE DEF u
<1>5. ToSet(u) = ToSet(s) \cup ToSet(t)
  BY <1>2, <1>3, <1>4
<1> QED
  BY <1>1, <1>5 DEF u

\* Nothing consists of nothing.
LEMMA EmptyParts == ToSet(<<>>) = {} /\ Len(<<>>) = 0
BY EmptySeq DEF ToSet

-----------------------------------------------------------------------------
(* The inductive invariant.                                                *)

\* Once the owner has joined the writer it does not run, and outside of a
\* round of writing it holds no buffers.
WriterRests ==
  /\ stopper \notin {"running", "join"} => writer = "ended"
  /\ writer \in {"ended", "check", "lock", "take"} => toWrite = <<>>

\* Without an append() in between, stop() leaves the buffers it has queued
\* empty.
StopEmpties ==
  ~late => /\ stopper \in {"log", "flush"} => Contents(writeBuf) = <<>>
           /\ stopper = "flush" => Contents(logBuf) = <<>>

\* Only stop() queues buffers if there is no burst.
NoneQueued ==
  ~burst /\ ~late => /\ toWrite = <<>>
                     /\ stopper \notin {"log", "flush"} => extra = <<>>

\* The records in the buffers.
Wr == Contents(writeBuf)
Lg == Contents(logBuf)
Ex == FlattenSeq(extra)
To == FlattenSeq(toWrite)

\* Everything that was accepted is in one of the five places, once: the form
\* of NothingLostOrRepeated that the steps move records in.
Accounted ==
  /\ Len(file) + Len(Wr) + Len(Lg) + Len(Ex) + Len(To) = Len(accepted)
  /\ ToSet(file) \cup ToSet(Wr) \cup ToSet(Lg) \cup ToSet(Ex) \cup ToSet(To)
       = ToSet(accepted)

\* OrderWithoutBursts in the same terms.
InOrder == ~burst /\ ~late => file \o Wr \o Ex \o Lg = accepted

IInv ==
  /\ TypeOK /\ WriterRests /\ StopEmpties /\ NoneQueued
  /\ Accounted /\ InOrder

\* They are sequences of records.
LEMMA PartsTyped ==
  ASSUME TypeOK
  PROVE  /\ file \in Seq(Records) /\ Wr \in Seq(Records) /\ Lg \in Seq(Records)
         /\ Ex \in Seq(Records) /\ To \in Seq(Records) /\ accepted \in Seq(Records)
         /\ Len(file) \in Nat /\ Len(Wr) \in Nat /\ Len(Lg) \in Nat
         /\ Len(Ex) \in Nat /\ Len(To) \in Nat /\ Len(accepted) \in Nat
<1>1. /\ file \in Seq(Records) /\ Wr \in Seq(Records) /\ Lg \in Seq(Records)
      /\ accepted \in Seq(Records)
  BY EmptySeq DEF TypeOK, Wr, Lg, Contents
<1>2. Ex \in Seq(Records) /\ To \in Seq(Records)
  BY FlattenTyped DEF TypeOK, Ex, To
<1> QED
  BY <1>1, <1>2, LenProperties

\* The two forms agree.
LEMMA AccountedIsAll == TypeOK /\ Accounted => NothingLostOrRepeated
<1> SUFFICES ASSUME TypeOK, Accounted
             PROVE  NothingLostOrRepeated
  OBVIOUS
<1> DEFINE R == FlattenSeq(extra \o toWrite)
           A == file \o Wr
           B == A \o Lg
           C == B \o R
<1>1. R = Ex \o To
  BY FlattenConcat DEF TypeOK, Ex, To
<1>2. NothingLostOrRepeated <=> Len(C) = Len(accepted) /\ ToSet(C) = ToSet(accepted)
  BY DEF NothingLostOrRepeated, Wr, Lg
<1> HIDE DEF R
<1>3. R \in Seq(Records) /\ Len(R) = Len(Ex) + Len(To) /\ ToSet(R) = ToSet(Ex) \cup ToSet(To)
  BY <1>1, PartsTyped, ConcatParts
<1>4. A \in Seq(Records) /\ Len(A) = Len(file) + Len(Wr) /\ ToSet(A) = ToSet(file) \cup ToSet(Wr)
  BY PartsTyped, ConcatParts
<1> HIDE DEF A
<1>5. B \in Seq(Records) /\ Len(B) = Len(A) + Len(Lg) /\ ToSet(B) = ToSet(A) \cup ToSet(Lg)
  <2>1. A \in Seq(Records) /\ Lg \in Seq(Records)
    BY <1>4, PartsTyped
  <2> QED
    BY <2>1, ConcatParts
<1> HIDE DEF B
<1>6. Len(C) = Len(B) + Len(R) /\ ToSet(C) = ToSet(B) \cup ToSet(R)
  BY <1>3, <1>5, ConcatParts
<1> HIDE DEF C
<1>7. Len(C) = Len(accepted)
  BY <1>3, <1>4, <1>5, <1>6, PartsTyped DEF Accounted
<1>8. ToSet(C) = ToSet(accepted)
  BY <1>3, <1>4, <1>5, <1>6 DEF Accounted
<1> QED
  BY <1>2, <1>7, <1>8

-----------------------------------------------------------------------------
(* The steps keep it.                                                      *)

\* The initial states satisfy the invariant.
LEMMA InitHolds == Init => IInv
<1> SUFFICES ASSUME Init
             PROVE  IInv
  OBVIOUS
<1>1. TypeOK
  <2>1. <<>> \in Seq(Records) /\ <<>> \in Seq(Seq(Records))
    BY EmptySeq
  <2>2. 0 \in 0 .. MaxStarts /\ 0 \in 0 .. MaxRecords
    BY AsyncLoggerAssumption
  <2>3. [p \in Producers |-> None] \in [Producers -> Records \cup {None}]
    OBVIOUS
  <2> QED
    BY <2>1, <2>2, <2>3 DEF Init, TypeOK
<1>2. WriterRests /\ StopEmpties /\ NoneQueued
  BY DEF Init, WriterRests, StopEmpties, NoneQueued, Contents
<1>3. /\ Contents(writeBuf) = <<>> /\ Contents(logBuf) = <<>>
      /\ FlattenSeq(extra) = <<>> /\ FlattenSeq(toWrite) = <<>>
      /\ file = <<>> /\ accepted = <<>>
  BY FlattenSmall DEF Init, Contents
<1>4. Accounted
  BY <1>3, EmptyParts DEF Accounted, Wr, Lg, Ex, To
<1>5. <<>> \o <<>> = <<>>
  OBVIOUS
<1>6. InOrder
  BY <1>3, <1>5 DEF InOrder, Wr, Lg, Ex
<1> QED
  BY <1>1, <1>2, <1>4, <1>6 DEF IInv

\* The types.
LEMMA StepsKeepTypes == TypeOK /\ [Next]_vars => TypeOK'
<1> SUFFICES ASSUME TypeOK, [Next]_vars
             PROVE  TypeOK'
  OBVIOUS
<1> USE AsyncLoggerAssumption
<1>1. ASSUME NEW p \in Producers, BeginAppend(p)
      PROVE  TypeOK'
  <2>1. given' \in 0 .. MaxRecords /\ given + 1 \in Records
    BY <1>1 DEF TypeOK, BeginAppend, Records
  <2>2. call' \in [Producers -> Records \cup {None}]
    BY <1>1, <2>1 DEF TypeOK, BeginAppend
  <2> QED
    BY <1>1, <2>1, <2>2
    DEF TypeOK, BeginAppend, bufVars, writerVars, ownerVars, history
<1>2. ASSUME NEW p \in Producers, LockedAppend(p)
      PROVE  TypeOK'
  <2> DEFINE r == call[p]
  <2>1. r \in Records
    BY <1>2 DEF TypeOK, LockedAppend
  <2>2. Fresh(r) \in Seq(Records) /\ accepted \o Fresh(r) \in Seq(Records)
    <3>1. Fresh(r) \in Seq(Records)
      BY <2>1, EmptySeq DEF Fresh
    <3> QED
      BY <3>1, ConcatProperties DEF TypeOK
  <2>3. call' \in [Producers -> Records \cup {None}]
    BY <1>2 DEF TypeOK, LockedAppend
  <2>4. late' \in BOOLEAN /\ fault' \in BOOLEAN
    BY <1>2 DEF TypeOK, LockedAppend, FollowsNull
  <2>5. /\ UNCHANGED <<toWrite, isWriting, writer, running, stopper, starts, file, given>>
    BY <1>2 DEF LockedAppend, writerVars, ownerVars
  <2>6. /\ logBuf' \in Seq(Records) \cup {None} /\ writeBuf' \in Seq(Records) \cup {None}
        /\ extra' \in Seq(Seq(Records)) /\ accepted' \in Seq(Records) /\ burst' \in BOOLEAN
    <3> HIDE DEF r
    <3>1. CASE FollowsNull(r)
      BY <1>2, <3>1 DEF TypeOK, LockedAppend, bufVars, r
    <3>2. CASE ~FollowsNull(r) /\ Fits(r, logBuf)
      <4>1. logBuf \in Seq(Records)
        BY <3>2 DEF TypeOK, FollowsNull
      <4>2. Append(logBuf, r) \in Seq(Records) /\ Append(accepted, r) \in Seq(Records)
        BY <2>1, <4>1, AppendProperties DEF TypeOK
      <4>3. /\ logBuf' = Append(logBuf, r) /\ accepted' = Append(accepted, r)
            /\ UNCHANGED <<writeBuf, extra, burst>>
        BY <1>2, <3>2 DEF LockedAppend, r
      <4> QED
        BY <4>2, <4>3 DEF TypeOK
    <3>3. CASE ~FollowsNull(r) /\ ~Fits(r, logBuf)
      <4>1. logBuf \in Seq(Records)
        BY <3>3 DEF TypeOK, FollowsNull
      <4>2. Append(extra, logBuf) \in Seq(Seq(Records))
        BY <4>1, AppendProperties DEF TypeOK
      <4>3. Overflow(r, ~isWriting /\ writeBuf = <<>>)
        BY <1>2, <3>3 DEF LockedAppend, r
      <4> QED
        BY <2>2, <4>1, <4>2, <4>3 DEF TypeOK, Overflow, Swap, bufVars
    <3> QED
      BY <3>1, <3>2, <3>3
  <2> QED
    BY <2>3, <2>4, <2>5, <2>6 DEF TypeOK
<1>3. ASSUME WriterStep
      PROVE  TypeOK'
  <2>1. CASE WriterChecks \/ WriterWaits \/ WriterFollowsNull \/ WriterWritten \/ WriterRepeats
    <3>1. CASE WriterChecks
      BY <3>1 DEF TypeOK, WriterChecks, Goto, bufVars, ownerVars, history
    <3>2. CASE WriterWaits
      BY <3>2 DEF TypeOK, WriterWaits, Goto, bufVars, ownerVars, history
    <3>3. CASE WriterFollowsNull
      BY <3>3 DEF TypeOK, WriterFollowsNull, bufVars, writerVars, ownerVars, history
    <3>4. CASE WriterWritten
      BY <3>4 DEF TypeOK, WriterWritten, Goto, bufVars, ownerVars, history
    <3>5. CASE WriterRepeats
      BY <3>5 DEF TypeOK, WriterRepeats, Goto, bufVars, ownerVars, history
    <3> QED
      BY <2>1, <3>1, <3>2, <3>3, <3>4, <3>5
  <2>2. CASE WriterTakes
    BY <2>2, EmptySeq DEF TypeOK, WriterTakes, TakeWhen, ownerVars, history
  <2>3. CASE WriterFlushes
    BY <2>3 DEF TypeOK, WriterFlushes, Goto, bufVars, ownerVars, history
  <2>4. CASE WriterWrites
    <3>1. file \o writeBuf \in Seq(Records)
      BY <2>4, ConcatProperties DEF TypeOK, WriterWrites
    <3> QED
      BY <2>4, <3>1, EmptySeq DEF TypeOK, WriterWrites, Goto, ownerVars, history
  <2>5. CASE WriterWritesExtra
    <3>1. Head(toWrite) \in Seq(Records) /\ Tail(toWrite) \in Seq(Seq(Records))
      BY <2>5, HeadTailProperties DEF TypeOK, WriterWritesExtra
    <3>2. file \o Head(toWrite) \in Seq(Records)
      BY <3>1, ConcatProperties DEF TypeOK
    <3> QED
      BY <2>5, <3>1, <3>2 DEF TypeOK, WriterWritesExtra, Goto, bufVars, ownerVars, history
  <2> QED
    BY <1>3, <2>1, <2>2, <2>3, <2>4, <2>5 DEF WriterStep
<1>4. CASE Start \/ Stop \/ StopJoins
  <2>1. CASE Start
    <3>1. starts' \in 0 .. MaxStarts
      BY <2>1 DEF TypeOK, Start
    <3> QED
      BY <2>1, <3>1 DEF TypeOK, Start, bufVars, history
  <2>2. CASE Stop \/ StopJoins
    BY <2>2 DEF TypeOK, Stop, StopJoins, Step, bufVars, writerVars, history
  <2> QED
    BY <1>4, <2>1, <2>2
<1>5. CASE StopTakesWrite
  <2>1. Queued(writeBuf) \in Seq(Seq(Records)) /\ Left(writeBuf) \in Seq(Records) \cup {None}
    BY EmptySeq, AppendProperties DEF TypeOK, Queued, Left, Contents
  <2> QED
    BY <1>5, <2>1 DEF TypeOK, StopTakesWrite, Step, writerVars, history
<1>6. CASE StopTakesLog
  <2>1. Queued(logBuf) \in Seq(Seq(Records)) /\ Left(logBuf) \in Seq(Records) \cup {None}
    BY EmptySeq, AppendProperties DEF TypeOK, Queued, Left, Contents
  <2> QED
    BY <1>6, <2>1 DEF TypeOK, StopTakesLog, Step, writerVars, history
<1>7. CASE StopFlushes
  <2>1. Contents(writeBuf) \in Seq(Records) /\ FlattenSeq(extra) \in Seq(Records)
    BY FlattenTyped DEF TypeOK, Contents
  <2>2. file \o Contents(writeBuf) \in Seq(Records)
    BY <2>1, ConcatProperties DEF TypeOK
  <2>3. file \o Contents(writeBuf) \o FlattenSeq(extra) \in Seq(Records)
    BY <2>1, <2>2, ConcatProperties
  <2> QED
    BY <1>7, <2>3, EmptySeq DEF TypeOK, StopFlushes, Step, writerVars, history
<1>8. CASE UNCHANGED vars
  BY <1>8 DEF TypeOK, vars, bufVars, writerVars, ownerVars, history
<1> QED
  BY <1>1, <1>2, <1>3, <1>4, <1>5, <1>6, <1>7, <1>8 DEF Next

\* Where the writer is.
LEMMA WriterKeepsToRounds == TypeOK /\ WriterRests /\ [Next]_vars => WriterRests'
<1> SUFFICES ASSUME TypeOK, WriterRests, [Next]_vars
             PROVE  WriterRests'
  OBVIOUS
<1>1. ASSUME NEW p \in Producers, BeginAppend(p) \/ LockedAppend(p)
      PROVE  WriterRests'
  BY <1>1 DEF WriterRests, BeginAppend, LockedAppend, writerVars, ownerVars
<1>2. ASSUME WriterStep
      PROVE  WriterRests'
  BY <1>2 DEF WriterRests, WriterStep, WriterChecks, WriterWaits, WriterTakes, TakeWhen, MayTake,
              WriterFollowsNull, WriterFlushes, WriterWrites, WriterWritten, WriterWritesExtra,
              WriterRepeats, Goto, writerVars, ownerVars
<1>3. CASE Start \/ Stop \/ StopJoins
  BY <1>3 DEF WriterRests, Start, Stop, StopJoins, Step, writerVars
<1>4. CASE StopTakesWrite \/ StopTakesLog \/ StopFlushes
  BY <1>4 DEF WriterRests, StopTakesWrite, StopTakesLog, StopFlushes, Step, writerVars
<1>5. CASE UNCHANGED vars
  BY <1>5 DEF WriterRests, vars, writerVars, ownerVars
<1> QED
  BY <1>1, <1>2, <1>3, <1>4, <1>5 DEF Next

\* The writer runs only while the owner has not joined it.
LEMMA WriterIsNotJoined ==
  ASSUME WriterRests, WriterStep
  PROVE  writer # "ended" /\ stopper \in {"running", "join"}
<1>1. writer # "ended"
  BY DEF WriterStep, WriterChecks, WriterWaits, WriterTakes, TakeWhen, MayTake,
         WriterFollowsNull, WriterFlushes, WriterWrites, WriterWritten, WriterWritesExtra,
         WriterRepeats, Goto
<1> QED
  BY <1>1 DEF WriterRests

\* What stop() leaves.
LEMMA StopLeavesNothing == TypeOK /\ WriterRests /\ StopEmpties /\ [Next]_vars => StopEmpties'
<1> SUFFICES ASSUME TypeOK, WriterRests, StopEmpties, [Next]_vars
             PROVE  StopEmpties'
  OBVIOUS
<1>1. ASSUME NEW p \in Producers, BeginAppend(p)
      PROVE  StopEmpties'
  BY <1>1 DEF StopEmpties, BeginAppend, bufVars, ownerVars, history, Contents
<1>2. ASSUME NEW p \in Producers, LockedAppend(p)
      PROVE  StopEmpties'
  BY <1>2 DEF StopEmpties, LockedAppend, ownerVars
<1>3. ASSUME WriterStep
      PROVE  StopEmpties'
  <2>1. stopper' = stopper
    BY <1>3 DEF WriterStep, WriterChecks, WriterWaits, WriterTakes, TakeWhen,
                WriterFollowsNull, WriterFlushes, WriterWrites, WriterWritten, WriterWritesExtra,
                WriterRepeats, ownerVars
  <2>2. stopper \in {"running", "join"}
    BY <1>3, WriterIsNotJoined
  <2> QED
    BY <2>1, <2>2 DEF StopEmpties
<1>4. CASE Start \/ Stop \/ StopJoins
  BY <1>4 DEF StopEmpties, Start, Stop, StopJoins, Step
<1>5. CASE StopTakesWrite
  BY <1>5 DEF StopEmpties, StopTakesWrite, Step, Left, Contents
<1>6. CASE StopTakesLog
  BY <1>6 DEF StopEmpties, StopTakesLog, Step, Left, Contents, history
<1>7. CASE StopFlushes
  BY <1>7 DEF StopEmpties, StopFlushes, Step
<1>8. CASE UNCHANGED vars
  BY <1>8 DEF StopEmpties, vars, bufVars, ownerVars, history, Contents
<1> QED
  BY <1>1, <1>2, <1>3, <1>4, <1>5, <1>6, <1>7, <1>8 DEF Next

\* Without bursts only stop() queues buffers.
LEMMA OnlyStopQueues ==
  TypeOK /\ WriterRests /\ NoneQueued /\ [Next]_vars => NoneQueued'
<1> SUFFICES ASSUME TypeOK, WriterRests, NoneQueued, [Next]_vars
             PROVE  NoneQueued'
  OBVIOUS
<1>1. ASSUME NEW p \in Producers, BeginAppend(p)
      PROVE  NoneQueued'
  BY <1>1 DEF NoneQueued, BeginAppend, bufVars, writerVars, ownerVars, history
<1>2. ASSUME NEW p \in Producers, LockedAppend(p), ~burst', ~late'
      PROVE  UNCHANGED <<extra, toWrite, stopper>> /\ ~burst /\ ~late
  <2>1. UNCHANGED <<toWrite, stopper>> /\ ~late
    BY <1>2 DEF LockedAppend, writerVars, ownerVars
  <2>2. extra' = extra /\ burst' = burst
    <3>1. ASSUME Overflow(call[p], ~isWriting /\ writeBuf = <<>>)
          PROVE  extra' = extra /\ burst' = burst
      BY <1>2, <3>1 DEF Overflow, Swap, bufVars
    <3> QED
      BY <1>2, <3>1 DEF LockedAppend, bufVars
  <2> QED
    BY <1>2, <2>1, <2>2
<1>3. ASSUME NEW p \in Producers, LockedAppend(p)
      PROVE  NoneQueued'
  BY <1>2, <1>3 DEF NoneQueued
<1>4. ASSUME WriterStep
      PROVE  NoneQueued'
  <2>1. stopper \in {"running", "join"}
    BY <1>4, WriterIsNotJoined
  <2>2. CASE WriterTakes
    BY <2>1, <2>2 DEF NoneQueued, WriterTakes, TakeWhen, ownerVars, history
  <2>3. CASE WriterWritesExtra
    BY <2>3, EmptySeq DEF NoneQueued, WriterWritesExtra, bufVars, ownerVars, history
  <2>4. CASE WriterWrites
    BY <2>4 DEF NoneQueued, WriterWrites, ownerVars, history
  <2>5. CASE \/ WriterChecks \/ WriterWaits \/ WriterFollowsNull
             \/ WriterFlushes \/ WriterWritten \/ WriterRepeats
    BY <2>5 DEF NoneQueued, WriterChecks, WriterWaits, WriterFollowsNull, WriterFlushes,
                WriterWritten, WriterRepeats, bufVars, writerVars, ownerVars, history
  <2> QED
    BY <1>4, <2>2, <2>3, <2>4, <2>5 DEF WriterStep
<1>5. CASE Start \/ Stop \/ StopJoins
  BY <1>5 DEF NoneQueued, Start, Stop, StopJoins, Step, bufVars, writerVars, history
<1>6. CASE StopTakesWrite \/ StopTakesLog
  BY <1>6 DEF NoneQueued, StopTakesWrite, StopTakesLog, Step, writerVars, history
<1>7. CASE StopFlushes
  BY <1>7 DEF NoneQueued, StopFlushes, Step, writerVars, history
<1>8. CASE UNCHANGED vars
  BY <1>8 DEF NoneQueued, vars, bufVars, writerVars, ownerVars, history
<1> QED
  BY <1>1, <1>3, <1>4, <1>5, <1>6, <1>7, <1>8 DEF Next

\* Steps that leave the records where they are.
LEMMA StayingKeeps ==
  ASSUME Accounted, InOrder, UNCHANGED <<bufVars, toWrite, file, accepted>>,
         ~burst' /\ ~late' => ~burst /\ ~late
  PROVE  Accounted' /\ InOrder'
BY DEF Accounted, InOrder, Wr, Lg, Ex, To, bufVars

\* append() puts what it accepts, new, behind the log buffer, or in its place
\* when that has moved to the write buffer or to the extra ones.
MovesIn(new) ==
  /\ UNCHANGED <<file, toWrite, stopper>>
  /\ ~late' => ~late /\ stopper = "running"
  /\ ~burst' => ~burst
  /\ \/ /\ Lg' = Lg \o new /\ accepted' = accepted \o new
        /\ Wr' = Wr /\ Ex' = Ex
     \/ /\ Wr = <<>> /\ Wr' = Lg /\ Lg' = new /\ accepted' = accepted \o new
        /\ extra' = extra
     \/ /\ burst' /\ Ex' = Ex \o Lg /\ Lg' = new /\ accepted' = accepted \o new
        /\ Wr' = Wr

\* What append() does is one of these.
LEMMA AppendMoves ==
  ASSUME TypeOK, NEW p \in Producers, LockedAppend(p)
  PROVE  \E new \in Seq(Records) : MovesIn(new)
<1> DEFINE r == call[p]
<1>1. /\ UNCHANGED <<file, toWrite, stopper>> /\ (~late' => ~late /\ stopper = "running")
  BY DEF LockedAppend, writerVars, ownerVars
<1>2. r \in Records
  BY DEF TypeOK, LockedAppend
<1>3. Fresh(r) \in Seq(Records)
  BY <1>2, EmptySeq DEF Fresh
<1>4. None \notin Seq(Records)
  <2>1. Seq(Records) \subseteq Seq(Nat)
    <3>1. Records \subseteq Nat
      BY AsyncLoggerAssumption DEF Records
    <3> QED
      BY <3>1, SeqMonotonic
  <2> QED
    BY <2>1, AsyncLoggerAssumption
<1>5. \A b \in Seq(Records) : Contents(b) = b
  BY <1>4 DEF Contents
<1> HIDE DEF r
<1>6. CASE UNCHANGED <<bufVars, accepted, burst>>
  <2>1. Lg' = Lg \o <<>> /\ accepted' = accepted \o <<>>
    BY <1>6, PartsTyped, ConcatEmptySeq DEF Lg, bufVars
  <2>2. <<>> \in Seq(Records) /\ Wr' = Wr /\ Ex' = Ex /\ (~burst' => ~burst)
    BY <1>6, EmptySeq DEF Wr, Ex, bufVars
  <2> QED
    BY <1>1, <2>1, <2>2 DEF MovesIn
<1>7. ASSUME ~FollowsNull(r), Fits(r, logBuf)
      PROVE  /\ Lg' = Lg \o <<r>> /\ accepted' = accepted \o <<r>> /\ <<r>> \in Seq(Records)
             /\ Wr' = Wr /\ Ex' = Ex /\ burst' = burst
  <2>1. logBuf \in Seq(Records)
    BY <1>7 DEF FollowsNull, TypeOK
  <2>2. /\ logBuf' = Append(logBuf, r) /\ accepted' = Append(accepted, r)
        /\ UNCHANGED <<writeBuf, extra, burst>>
    BY <1>7 DEF LockedAppend, r
  <2>3. logBuf' = logBuf \o <<r>> /\ accepted' = accepted \o <<r>> /\ <<r>> \in Seq(Records)
    <3>1. Append(logBuf, r) = logBuf \o <<r>>
      BY <1>2, <2>1, AppendIsConcat
    <3>2. Append(accepted, r) = accepted \o <<r>>
      BY <1>2, AppendIsConcat DEF TypeOK
    <3>3. <<r>> \in Seq(Records)
      BY <1>2
    <3> QED
      BY <2>2, <3>1, <3>2, <3>3
  <2>4. logBuf' \in Seq(Records)
    BY <2>1, <2>3, ConcatProperties
  <2>5. Lg = logBuf /\ Lg' = logBuf'
    BY <1>5, <2>1, <2>4 DEF Lg
  <2> QED
    BY <2>2, <2>3, <2>5 DEF Wr, Ex
<1>8. ASSUME ~FollowsNull(r), Swap(r), writeBuf = <<>>
      PROVE  /\ Wr = <<>> /\ Wr' = Lg /\ Lg' = Fresh(r) /\ accepted' = accepted \o Fresh(r)
             /\ extra' = extra /\ burst' = burst
  <2>1. logBuf \in Seq(Records)
    BY <1>8 DEF FollowsNull, TypeOK
  <2> QED
    BY <1>3, <1>5, <1>8, <2>1, EmptySeq DEF Swap, Wr, Lg, Contents
<1>9. ASSUME ~FollowsNull(r), extra' = Append(extra, logBuf), logBuf' = Fresh(r),
             UNCHANGED writeBuf
      PROVE  Ex' = Ex \o Lg /\ Lg' = Fresh(r) /\ Wr' = Wr
  <2>1. logBuf \in Seq(Records)
    BY <1>9 DEF FollowsNull, TypeOK
  <2>2. FlattenSeq(Append(extra, logBuf)) = FlattenSeq(extra) \o logBuf
    BY <2>1, FlattenAppend DEF TypeOK
  <2>3. Lg = logBuf /\ Lg' = Fresh(r)
    BY <1>3, <1>5, <1>9, <2>1 DEF Lg
  <2> QED
    BY <1>9, <2>2, <2>3 DEF Ex, Wr
<1>10. CASE ~FollowsNull(r) /\ ~Fits(r, logBuf)
  <2>1. Overflow(r, ~isWriting /\ writeBuf = <<>>)
    BY <1>10 DEF LockedAppend, r
  <2>2. CASE writeBuf = <<>> /\ Swap(r)
    <3>1. /\ Wr = <<>> /\ Wr' = Lg /\ Lg' = Fresh(r) /\ accepted' = accepted \o Fresh(r)
          /\ extra' = extra /\ burst' = burst
      BY <1>8, <1>10, <2>2
    <3> QED
      BY <1>1, <1>3, <3>1 DEF MovesIn
  <2>3. CASE /\ extra' = Append(extra, logBuf) /\ logBuf' = Fresh(r)
             /\ accepted' = accepted \o Fresh(r) /\ burst' = TRUE /\ UNCHANGED writeBuf
    BY <1>1, <1>3, <1>9, <1>10, <2>3 DEF MovesIn
  <2> QED
    BY <1>6, <2>1, <2>2, <2>3 DEF Overflow
<1>11. CASE FollowsNull(r)
  <2>1. UNCHANGED <<bufVars, accepted, burst>>
    BY <1>11 DEF LockedAppend, r
  <2> QED
    BY <1>6, <2>1
<1>12. CASE ~FollowsNull(r) /\ Fits(r, logBuf)
  <2>1. /\ Lg' = Lg \o <<r>> /\ accepted' = accepted \o <<r>> /\ <<r>> \in Seq(Records)
        /\ Wr' = Wr /\ Ex' = Ex /\ burst' = burst
    BY <1>7, <1>12
  <2> QED
    BY <1>1, <2>1 DEF MovesIn
<1> QED
  BY <1>10, <1>11, <1>12

\* The locked section of append().
LEMMA AppendKeeps ==
  ASSUME IInv, NEW p \in Producers, LockedAppend(p)
  PROVE  Accounted' /\ InOrder'
<1>1. PICK new \in Seq(Records) : MovesIn(new)
  BY AppendMoves DEF IInv
<1>2. /\ file \in Seq(Records) /\ Wr \in Seq(Records) /\ Lg \in Seq(Records)
      /\ Ex \in Seq(Records) /\ accepted \in Seq(Records) /\ Len(new) \in Nat
      /\ Len(file) \in Nat /\ Len(Wr) \in Nat /\ Len(Lg) \in Nat
      /\ Len(Ex) \in Nat /\ Len(To) \in Nat /\ Len(accepted) \in Nat
  BY PartsTyped, LenProperties DEF IInv
<1>3. file' = file /\ To' = To
  BY <1>1 DEF MovesIn, To
<1>4. /\ Len(accepted \o new) = Len(accepted) + Len(new)
      /\ ToSet(accepted \o new) = ToSet(accepted) \cup ToSet(new)
  BY <1>2, ConcatParts
<1>5. /\ Len(file) + Len(Wr) + Len(Lg) + Len(Ex) + Len(To) = Len(accepted)
      /\ ToSet(file) \cup ToSet(Wr) \cup ToSet(Lg) \cup ToSet(Ex) \cup ToSet(To)
           = ToSet(accepted)
  BY DEF IInv, Accounted
<1>6. CASE Lg' = Lg \o new /\ accepted' = accepted \o new /\ Wr' = Wr /\ Ex' = Ex
  <2>1. /\ Len(Lg \o new) = Len(Lg) + Len(new)
        /\ ToSet(Lg \o new) = ToSet(Lg) \cup ToSet(new)
    BY <1>2, ConcatParts
  <2>2. Accounted'
    <3>1. Len(file') + Len(Wr') + Len(Lg') + Len(Ex') + Len(To') = Len(accepted')
      <4>1. /\ Len(file') = Len(file) /\ Len(To') = Len(To)
            /\ Len(accepted') = Len(accepted) + Len(new)
            /\ Len(Wr') = Len(Wr) /\ Len(Ex') = Len(Ex) /\ Len(Lg') = Len(Lg) + Len(new)
        BY <1>3, <1>4, <1>6, <2>1
      <4>2. Len(file) + Len(Wr) + Len(Lg) + Len(Ex) + Len(To) = Len(accepted)
        BY <1>5
      <4>3. /\ Len(file) \in Nat /\ Len(Wr) \in Nat /\ Len(Lg) \in Nat /\ Len(new) \in Nat
            /\ Len(Ex) \in Nat /\ Len(To) \in Nat /\ Len(accepted) \in Nat
        BY <1>2
      <4>4. Len(file) + Len(Wr) + (Len(Lg) + Len(new)) + Len(Ex) + Len(To) =
              Len(accepted) + Len(new)
        BY <4>2, <4>3
      <4> QED
        BY <4>1, <4>4
    <3>2. ToSet(file') \cup ToSet(Wr') \cup ToSet(Lg') \cup ToSet(Ex') \cup ToSet(To')
            = ToSet(accepted')
      BY <1>3, <1>4, <1>5, <1>6, <2>1
    <3> QED
      BY <3>1, <3>2 DEF Accounted
  <2>3. InOrder'
    <3> DEFINE x == file \o Wr \o Ex
    <3>1. x \in Seq(Records)
      BY <1>2, ConcatProperties
    <3> HIDE DEF x
    <3>2. x \o (Lg \o new) = (x \o Lg) \o new
      <4>1. \A a, b, c \in Seq(Records) : (a \o b) \o c = a \o (b \o c)
        BY ConcatIsAssociative
      <4> QED
        <5>1. x \in Seq(Records) /\ Lg \in Seq(Records) /\ new \in Seq(Records)
          BY <1>2, <3>1
        <5> QED
          BY <4>1, <5>1, Zenon
    <3>3. x' = x
      BY <1>3, <1>6 DEF x
    <3> QED
      BY <1>1, <1>3, <1>6, <3>2, <3>3 DEF MovesIn, IInv, InOrder, x
  <2> QED
    BY <2>2, <2>3
<1>7. CASE /\ Wr = <<>> /\ Wr' = Lg /\ Lg' = new /\ accepted' = accepted \o new
           /\ extra' = extra
  <2>1. Ex' = Ex /\ Len(Wr) = 0 /\ ToSet(Wr) = {}
    BY <1>7, EmptyParts DEF Ex
  <2>2. Accounted'
    <3>1. Len(file') + Len(Wr') + Len(Lg') + Len(Ex') + Len(To') = Len(accepted')
      <4>1. /\ Len(file') = Len(file) /\ Len(To') = Len(To)
            /\ Len(accepted') = Len(accepted) + Len(new)
            /\ Len(Wr) = 0 /\ Len(Wr') = Len(Lg) /\ Len(Lg') = Len(new) /\ Len(Ex') = Len(Ex)
        BY <1>3, <1>4, <1>7, <2>1
      <4>2. Len(file) + Len(Wr) + Len(Lg) + Len(Ex) + Len(To) = Len(accepted)
        BY <1>5
      <4>3. /\ Len(file) \in Nat /\ Len(Wr) \in Nat /\ Len(Lg) \in Nat /\ Len(new) \in Nat
            /\ Len(Ex) \in Nat /\ Len(To) \in Nat /\ Len(accepted) \in Nat
        BY <1>2
      <4>4. Len(Wr) = 0 => Len(file) + Len(Lg) + Len(new) + Len(Ex) + Len(To)
                            = Len(accepted) + Len(new)
        BY <4>2, <4>3
      <4> QED
        BY <4>1, <4>4
    <3>2. ToSet(file') \cup ToSet(Wr') \cup ToSet(Lg') \cup ToSet(Ex') \cup ToSet(To')
            = ToSet(accepted')
      BY <1>3, <1>4, <1>5, <1>7, <2>1
    <3> QED
      BY <3>1, <3>2 DEF Accounted
  <2>3. ASSUME ~burst', ~late'
        PROVE  file' \o Wr' \o Ex' \o Lg' = accepted'
    <3>1. ~burst /\ ~late /\ stopper = "running"
      BY <1>1, <2>3 DEF MovesIn
    <3>2. extra = <<>>
      BY <3>1 DEF IInv, NoneQueued
    <3>3. Ex = <<>>
      BY <3>2, FlattenSmall DEF Ex
    <3>4. file \o <<>> \o <<>> \o Lg = accepted
      BY <1>7, <3>1, <3>3 DEF IInv, InOrder
    <3>5. file \o <<>> = file /\ file \o Lg \in Seq(Records)
      BY <1>2, ConcatEmptySeq, ConcatProperties
    <3>6. (file \o Lg) \o <<>> = file \o Lg
      BY <3>5, ConcatEmptySeq
    <3> QED
      BY <1>3, <1>7, <2>1, <3>3, <3>4, <3>5, <3>6
  <2> QED
    BY <2>2, <2>3 DEF InOrder
<1>8. CASE /\ burst' /\ Ex' = Ex \o Lg /\ Lg' = new /\ accepted' = accepted \o new
           /\ Wr' = Wr
  <2>1. /\ Len(Ex \o Lg) = Len(Ex) + Len(Lg)
        /\ ToSet(Ex \o Lg) = ToSet(Ex) \cup ToSet(Lg)
    BY <1>2, ConcatParts
  <2>2. Accounted'
    <3>1. Len(file') + Len(Wr') + Len(Lg') + Len(Ex') + Len(To') = Len(accepted')
      <4>1. /\ Len(file') = Len(file) /\ Len(To') = Len(To)
            /\ Len(accepted') = Len(accepted) + Len(new)
            /\ Len(Wr') = Len(Wr) /\ Len(Ex') = Len(Ex) + Len(Lg) /\ Len(Lg') = Len(new)
        BY <1>3, <1>4, <1>8, <2>1
      <4>2. Len(file) + Len(Wr) + Len(Lg) + Len(Ex) + Len(To) = Len(accepted)
        BY <1>5
      <4>3. /\ Len(file) \in Nat /\ Len(Wr) \in Nat /\ Len(Lg) \in Nat /\ Len(new) \in Nat
            /\ Len(Ex) \in Nat /\ Len(To) \in Nat /\ Len(accepted) \in Nat
        BY <1>2
      <4>4. Len(file) + Len(Wr) + Len(new) + (Len(Ex) + Len(Lg)) + Len(To)
             = Len(accepted) + Len(new)
        BY <4>2, <4>3
      <4> QED
        BY <4>1, <4>4
    <3>2. ToSet(file') \cup ToSet(Wr') \cup ToSet(Lg') \cup ToSet(Ex') \cup ToSet(To')
            = ToSet(accepted')
      BY <1>3, <1>4, <1>5, <1>8, <2>1
    <3> QED
      BY <3>1, <3>2 DEF Accounted
  <2> QED
    BY <1>8, <2>2 DEF InOrder
<1> QED
  BY <1>1, <1>6, <1>7, <1>8 DEF MovesIn

\* The writer takes the extra buffers and may swap the other two.
LEMMA TakeKeeps ==
  ASSUME IInv, WriterTakes
  PROVE  Accounted' /\ InOrder'
<1>1. /\ toWrite = <<>> /\ stopper \in {"running", "join"}
      /\ UNCHANGED <<file, accepted, burst, late>>
  <2>1. stopper \in {"running", "join"}
    BY WriterIsNotJoined DEF IInv, WriterStep
  <2> QED
    BY <2>1 DEF IInv, WriterRests, WriterTakes, TakeWhen, MayTake, history
<1>2. To = <<>> /\ To' = Ex /\ Ex' = <<>>
  BY <1>1, FlattenSmall DEF WriterTakes, TakeWhen, To, Ex
<1>3. \/ Wr' = Wr /\ Lg' = Lg
      \/ Wr = <<>> /\ Wr' = Lg /\ Lg' = <<>>
  BY DEF WriterTakes, TakeWhen, Wr, Lg, Contents
<1>4. Len(To) = 0 /\ ToSet(To) = {} /\ Len(Ex') = 0 /\ ToSet(Ex') = {}
  BY <1>2, EmptyParts
<1>5. Accounted'
  <2>1. /\ Len(file) + Len(Wr) + Len(Lg) + Len(Ex) + Len(To) = Len(accepted)
        /\ ToSet(file) \cup ToSet(Wr) \cup ToSet(Lg) \cup ToSet(Ex) \cup ToSet(To)
             = ToSet(accepted)
    BY DEF IInv, Accounted
  <2>2. /\ Len(file) \in Nat /\ Len(Wr) \in Nat /\ Len(Lg) \in Nat
        /\ Len(Ex) \in Nat /\ Len(To) \in Nat /\ Len(accepted) \in Nat
    BY PartsTyped DEF IInv
  <2>3. \/ Len(Wr') = Len(Wr) /\ Len(Lg') = Len(Lg)
        \/ Len(Wr) = 0 /\ Len(Wr') = Len(Lg) /\ Len(Lg') = 0
    BY <1>3, EmptyParts
  <2>4. ToSet(Wr') \cup ToSet(Lg') = ToSet(Wr) \cup ToSet(Lg)
    BY <1>3, EmptyParts
  <2>5. file' = file /\ accepted' = accepted /\ Len(To') = Len(Ex) /\ ToSet(To') = ToSet(Ex)
    BY <1>1, <1>2
  <2>6. Len(file') + Len(Wr') + Len(Lg') + Len(Ex') + Len(To') = Len(accepted')
    BY <1>4, <2>1, <2>2, <2>3, <2>5
  <2>7. ToSet(file') \cup ToSet(Wr') \cup ToSet(Lg') \cup ToSet(Ex') \cup ToSet(To')
          = ToSet(accepted')
    BY <1>4, <2>1, <2>4, <2>5
  <2> QED
    BY <2>6, <2>7 DEF Accounted
<1>6. ASSUME ~burst, ~late
      PROVE  file \o Wr' \o Ex' \o Lg' = accepted
  <2>1. Ex = <<>>
    <3>1. extra = <<>>
      BY <1>1, <1>6 DEF IInv, NoneQueued
    <3> QED
      BY <3>1, FlattenSmall DEF Ex
  <2>2. file \o Wr \o <<>> \o Lg = accepted
    BY <1>6, <2>1 DEF IInv, InOrder
  <2>3. CASE Wr' = Wr /\ Lg' = Lg
    BY <1>2, <2>2, <2>3
  <2>4. CASE Wr = <<>> /\ Wr' = Lg /\ Lg' = <<>>
    <3>1. file \in Seq(Records) /\ Lg \in Seq(Records)
      BY PartsTyped DEF IInv
    <3>2. file \o <<>> = file /\ file \o Lg \in Seq(Records)
      BY <3>1, ConcatEmptySeq, ConcatProperties
    <3>3. (file \o Lg) \o <<>> = file \o Lg
      BY <3>2, ConcatEmptySeq
    <3> QED
      BY <1>2, <2>2, <2>4, <3>2, <3>3
  <2> QED
    BY <1>3, <2>3, <2>4
<1> QED
  BY <1>1, <1>5, <1>6 DEF InOrder

\* The terms of Accounted.
LEMMA AccountedTerms ==
  ASSUME IInv
  PROVE  /\ Len(file) + Len(Wr) + Len(Lg) + Len(Ex) + Len(To) = Len(accepted)
         /\ ToSet(file) \cup ToSet(Wr) \cup ToSet(Lg) \cup ToSet(Ex) \cup ToSet(To)
              = ToSet(accepted)
         /\ Len(file) \in Nat /\ Len(Wr) \in Nat /\ Len(Lg) \in Nat
         /\ Len(Ex) \in Nat /\ Len(To) \in Nat /\ Len(accepted) \in Nat
BY PartsTyped DEF IInv, Accounted

\* A buffer that is in use is its contents.
LEMMA BufferIsContents ==
  ASSUME TypeOK
  PROVE  /\ writeBuf # None => writeBuf = Wr
         /\ logBuf # None => logBuf = Lg
BY DEF Wr, Lg, Contents

\* The writer writes its buffer without the lock.
LEMMA WriteKeeps ==
  ASSUME IInv, WriterWrites
  PROVE  Accounted' /\ InOrder'
<1>1. /\ UNCHANGED <<logBuf, extra, toWrite, accepted, burst, late>>
      /\ writeBuf # None /\ writeBuf' = <<>> /\ file' = file \o writeBuf
  BY DEF WriterWrites, history
<1>2. Lg' = Lg /\ Ex' = Ex /\ To' = To
  BY <1>1 DEF Lg, Ex, To
<1>3. file' = file \o Wr /\ Wr' = <<>>
  BY <1>1, BufferIsContents DEF IInv, Wr, Contents
<1>4. /\ file \in Seq(Records) /\ Wr \in Seq(Records) /\ Ex \in Seq(Records)
      /\ Lg \in Seq(Records)
  BY PartsTyped DEF IInv
<1>5. /\ file' \in Seq(Records) /\ Len(file') = Len(file) + Len(Wr)
      /\ ToSet(file') = ToSet(file) \cup ToSet(Wr)
  BY <1>3, <1>4, ConcatParts
<1>6. Len(Wr') = 0 /\ ToSet(Wr') = {}
  BY <1>3, EmptyParts
<1>7. Accounted'
  <2>1. Len(file') + Len(Wr') + Len(Lg') + Len(Ex') + Len(To') = Len(accepted')
    <3>1. /\ Len(Lg') = Len(Lg) /\ Len(Ex') = Len(Ex) /\ Len(To') = Len(To)
          /\ Len(accepted') = Len(accepted)
      BY <1>1, <1>2
    <3> QED
      BY <1>5, <1>6, <3>1, AccountedTerms
  <2>2. ToSet(file') \cup ToSet(Wr') \cup ToSet(Lg') \cup ToSet(Ex') \cup ToSet(To')
          = ToSet(accepted')
    BY <1>1, <1>2, <1>5, <1>6, AccountedTerms
  <2> QED
    BY <2>1, <2>2 DEF Accounted
<1>8. InOrder'
  <2>1. file' \o <<>> = file'
    BY <1>5, ConcatEmptySeq
  <2> QED
    BY <1>1, <1>2, <1>3, <2>1 DEF IInv, InOrder
<1> QED
  BY <1>7, <1>8

\* It writes an extra buffer it has taken.
LEMMA WriteExtraKeeps ==
  ASSUME IInv, WriterWritesExtra
  PROVE  Accounted' /\ InOrder'
<1> DEFINE h == Head(toWrite)
<1>1. /\ UNCHANGED <<writeBuf, logBuf, extra, accepted, burst, late>>
      /\ toWrite # <<>> /\ toWrite' = Tail(toWrite) /\ file' = file \o h
  BY DEF WriterWritesExtra, bufVars, history
<1>2. Wr' = Wr /\ Lg' = Lg /\ Ex' = Ex
  BY <1>1 DEF Wr, Lg, Ex
<1>3. h \in Seq(Records) /\ Tail(toWrite) \in Seq(Seq(Records)) /\ To = h \o To'
  BY <1>1, FlattenTail DEF IInv, TypeOK, To
<1>4. To' \in Seq(Records)
  BY <1>1, <1>3, FlattenTyped DEF To
<1> HIDE DEF h
<1>5. /\ Len(file') = Len(file) + Len(h) /\ ToSet(file') = ToSet(file) \cup ToSet(h)
      /\ Len(h) \in Nat /\ Len(To') \in Nat
      /\ Len(To) = Len(h) + Len(To') /\ ToSet(To) = ToSet(h) \cup ToSet(To')
  <2>1. file \in Seq(Records)
    BY PartsTyped DEF IInv
  <2> QED
    BY <1>1, <1>3, <1>4, <2>1, ConcatParts, LenProperties
<1>6. Len(file') + Len(Wr') + Len(Lg') + Len(Ex') + Len(To') = Len(accepted')
  <2>1. /\ Len(Wr') = Len(Wr) /\ Len(Lg') = Len(Lg) /\ Len(Ex') = Len(Ex)
        /\ Len(accepted') = Len(accepted)
    BY <1>1, <1>2
  <2> QED
    BY <1>5, <2>1, AccountedTerms
<1>7. ToSet(file') \cup ToSet(Wr') \cup ToSet(Lg') \cup ToSet(Ex') \cup ToSet(To')
        = ToSet(accepted')
  BY <1>1, <1>2, <1>5, AccountedTerms
<1>8. Accounted'
  BY <1>6, <1>7 DEF Accounted
<1>9. InOrder'
  BY <1>1 DEF IInv, NoneQueued, InOrder
<1> QED
  BY <1>8, <1>9

\* What stop() makes of a buffer.
LEMMA QueuedAndLeft ==
  ASSUME TypeOK, NEW b \in Seq(Records) \cup {None}
  PROVE  /\ FlattenSeq(Queued(b)) = Ex \o Contents(b)
         /\ Contents(Left(b)) = <<>>
<1>1. CASE Contents(b) = <<>>
  <2>1. Ex \o <<>> = Ex
    BY PartsTyped, ConcatEmptySeq
  <2> QED
    BY <1>1, <2>1 DEF Queued, Left, Contents, Ex
<1>2. CASE Contents(b) # <<>>
  <2>1. b \in Seq(Records) /\ Contents(b) = b
    BY <1>2 DEF Contents
  <2>2. Queued(b) = Append(extra, b)
    BY <1>2 DEF Queued
  <2>3. FlattenSeq(Append(extra, b)) = FlattenSeq(extra) \o b
    BY <2>1, FlattenAppend DEF TypeOK
  <2> QED
    BY <2>1, <2>2, <2>3 DEF Left, Contents, Ex
<1> QED
  BY <1>1, <1>2

\* stop() queues the writer's buffer.
LEMMA StopTakesWriteKeeps ==
  ASSUME IInv, StopTakesWrite
  PROVE  Accounted' /\ InOrder'
<1>1. /\ UNCHANGED <<logBuf, toWrite, file, accepted, burst, late>> /\ stopper = "write"
      /\ extra' = Queued(writeBuf) /\ writeBuf' = Left(writeBuf)
  BY DEF StopTakesWrite, Step, writerVars, history
<1>2. Ex' = Ex \o Wr /\ Wr' = <<>>
  <2>1. writeBuf \in Seq(Records) \cup {None}
    BY DEF IInv, TypeOK
  <2> QED
    BY <1>1, <2>1, QueuedAndLeft DEF IInv, Ex, Wr
<1>3. Lg' = Lg /\ To' = To
  BY <1>1 DEF Lg, To
<1>4. /\ file \in Seq(Records) /\ Wr \in Seq(Records) /\ Ex \in Seq(Records)
  BY PartsTyped DEF IInv
<1>5. /\ Len(Ex') = Len(Ex) + Len(Wr) /\ ToSet(Ex') = ToSet(Ex) \cup ToSet(Wr)
      /\ Len(Wr') = 0 /\ ToSet(Wr') = {}
  BY <1>2, <1>4, ConcatParts, EmptyParts
<1>6. Len(file') + Len(Wr') + Len(Lg') + Len(Ex') + Len(To') = Len(accepted')
  <2>1. /\ Len(file') = Len(file) /\ Len(Lg') = Len(Lg) /\ Len(To') = Len(To)
        /\ Len(accepted') = Len(accepted)
    BY <1>1, <1>3
  <2> QED
    BY <1>5, <2>1, AccountedTerms
<1>7. ToSet(file') \cup ToSet(Wr') \cup ToSet(Lg') \cup ToSet(Ex') \cup ToSet(To')
        = ToSet(accepted')
  BY <1>1, <1>3, <1>5, AccountedTerms
<1>8. Accounted'
  BY <1>6, <1>7 DEF Accounted
<1>9. ASSUME ~burst, ~late
      PROVE  file \o Wr' \o Ex' \o Lg = accepted
  <2>1. Ex = <<>>
    <3>1. extra = <<>>
      BY <1>1, <1>9 DEF IInv, NoneQueued
    <3> QED
      BY <3>1, FlattenSmall DEF Ex
  <2>2. file \o Wr \o <<>> \o Lg = accepted
    BY <1>9, <2>1 DEF IInv, InOrder
  <2>3. Ex' = Wr
    BY <1>2, <1>4, <2>1, ConcatEmptySeq
  <2>4. file \o <<>> = file /\ file \o Wr \in Seq(Records)
    BY <1>4, ConcatEmptySeq, ConcatProperties
  <2>5. (file \o Wr) \o <<>> = file \o Wr
    BY <2>4, ConcatEmptySeq
  <2> QED
    BY <1>2, <2>2, <2>3, <2>4, <2>5
<1> QED
  BY <1>1, <1>3, <1>8, <1>9 DEF InOrder

\* It queues the buffer for logging.
LEMMA StopTakesLogKeeps ==
  ASSUME IInv, StopTakesLog
  PROVE  Accounted' /\ InOrder'
<1>1. /\ UNCHANGED <<writeBuf, toWrite, file, accepted, burst, late>> /\ stopper = "log"
      /\ extra' = Queued(logBuf) /\ logBuf' = Left(logBuf)
  BY DEF StopTakesLog, Step, writerVars, history
<1>2. Ex' = Ex \o Lg /\ Lg' = <<>>
  <2>1. logBuf \in Seq(Records) \cup {None}
    BY DEF IInv, TypeOK
  <2> QED
    BY <1>1, <2>1, QueuedAndLeft DEF IInv, Ex, Lg
<1>3. Wr' = Wr /\ To' = To
  BY <1>1 DEF Wr, To
<1>4. file \in Seq(Records) /\ Lg \in Seq(Records) /\ Ex \in Seq(Records) /\ Wr \in Seq(Records)
  BY PartsTyped DEF IInv
<1>5. /\ Len(Ex') = Len(Ex) + Len(Lg) /\ ToSet(Ex') = ToSet(Ex) \cup ToSet(Lg)
      /\ Len(Lg') = 0 /\ ToSet(Lg') = {} /\ Ex' \in Seq(Records)
  BY <1>2, <1>4, ConcatParts, EmptyParts
<1>6. Len(file') + Len(Wr') + Len(Lg') + Len(Ex') + Len(To') = Len(accepted')
  <2>1. /\ Len(file') = Len(file) /\ Len(Wr') = Len(Wr) /\ Len(To') = Len(To)
        /\ Len(accepted') = Len(accepted)
    BY <1>1, <1>3
  <2> QED
    BY <1>5, <2>1, AccountedTerms
<1>7. ToSet(file') \cup ToSet(Wr') \cup ToSet(Lg') \cup ToSet(Ex') \cup ToSet(To')
        = ToSet(accepted')
  BY <1>1, <1>3, <1>5, AccountedTerms
<1>8. Accounted'
  BY <1>6, <1>7 DEF Accounted
<1>9. ASSUME ~burst, ~late
      PROVE  file \o Wr \o Ex' \o Lg' = accepted
  <2> DEFINE x == file \o Wr
  <2>1. x \in Seq(Records)
    BY <1>4, ConcatProperties
  <2>2. x \o Ex \o Lg = accepted
    BY <1>9 DEF IInv, InOrder
  <2> HIDE DEF x
  <2>3. x \o Ex \o Lg = x \o (Ex \o Lg)
    <3>1. \A a, b, c \in Seq(Records) : (a \o b) \o c = a \o (b \o c)
      BY ConcatIsAssociative
    <3> QED
      BY <1>4, <2>1, <3>1
  <2>4. x \o Ex' \in Seq(Records)
    BY <1>5, <2>1, ConcatProperties
  <2>5. (x \o Ex') \o <<>> = x \o Ex'
    BY <2>4, ConcatEmptySeq
  <2> QED
    BY <1>2, <2>2, <2>3, <2>5 DEF x
<1> QED
  BY <1>1, <1>3, <1>8, <1>9 DEF InOrder

\* It writes what it has queued.
LEMMA StopFlushesKeeps ==
  ASSUME IInv, StopFlushes
  PROVE  Accounted' /\ InOrder'
<1> DEFINE x == file \o Wr
<1>1. /\ UNCHANGED <<logBuf, toWrite, accepted, burst, late>> /\ stopper = "flush"
      /\ file' = x \o Ex /\ extra' = <<>> /\ writeBuf' \in {None, <<>>}
  BY DEF StopFlushes, Step, writerVars, history, Ex, Wr
<1>2. Ex' = <<>> /\ Wr' = <<>> /\ Lg' = Lg /\ To' = To
  BY <1>1, FlattenSmall DEF Ex, Wr, Lg, To, Contents
<1>3. file \in Seq(Records) /\ Lg \in Seq(Records) /\ Ex \in Seq(Records) /\ Wr \in Seq(Records)
  BY PartsTyped DEF IInv
<1>4. /\ Len(x) = Len(file) + Len(Wr) /\ ToSet(x) = ToSet(file) \cup ToSet(Wr)
      /\ x \in Seq(Records)
  BY <1>3, ConcatParts
<1>5. /\ file \o Wr \o Ex = x \o Ex
      /\ file \o Wr \o Ex \o Lg = x \o Ex \o Lg
  OBVIOUS
<1> HIDE DEF x
<1>6. /\ Len(file') = Len(x) + Len(Ex) /\ ToSet(file') = ToSet(x) \cup ToSet(Ex)
      /\ file' \in Seq(Records)
  <2>1. \A a, b \in Seq(Records) : /\ Len(a \o b) = Len(a) + Len(b)
                                   /\ ToSet(a \o b) = ToSet(a) \cup ToSet(b)
                                   /\ a \o b \in Seq(Records)
    BY ConcatParts
  <2>2. x \in Seq(Records) /\ Ex \in Seq(Records) /\ file' = x \o Ex
    BY <1>1, <1>3, <1>4
  <2> QED
    BY <2>1, <2>2
<1>7. Len(Wr') = 0 /\ ToSet(Wr') = {} /\ Len(Ex') = 0 /\ ToSet(Ex') = {}
  BY <1>2, EmptyParts
<1>8. Len(file') + Len(Wr') + Len(Lg') + Len(Ex') + Len(To') = Len(accepted')
  <2>1. Len(Lg') = Len(Lg) /\ Len(To') = Len(To) /\ Len(accepted') = Len(accepted)
    BY <1>1, <1>2
  <2> QED
    BY <1>4, <1>6, <1>7, <2>1, AccountedTerms
<1>9. ToSet(file') \cup ToSet(Wr') \cup ToSet(Lg') \cup ToSet(Ex') \cup ToSet(To')
        = ToSet(accepted')
  BY <1>1, <1>2, <1>4, <1>6, <1>7, AccountedTerms
<1>10. Accounted'
  BY <1>8, <1>9 DEF Accounted
<1>11. InOrder'
  <2>1. file' \o <<>> = file'
    BY <1>6, ConcatEmptySeq
  <2>2. ~burst /\ ~late => file' \o Lg = accepted
    BY <1>1, <1>5 DEF IInv, InOrder
  <2> QED
    BY <1>1, <1>2, <2>1, <2>2 DEF InOrder
<1> QED
  BY <1>10, <1>11

\* Every step keeps the invariant.
LEMMA StepsKeepIInv == IInv /\ [Next]_vars => IInv'
<1> SUFFICES ASSUME IInv, [Next]_vars
             PROVE  IInv'
  OBVIOUS
<1>1. TypeOK' /\ WriterRests' /\ StopEmpties' /\ NoneQueued'
  BY StepsKeepTypes, WriterKeepsToRounds, StopLeavesNothing, OnlyStopQueues DEF IInv
<1>2. Accounted /\ InOrder
  BY DEF IInv
<1>3. ASSUME NEW p \in Producers, BeginAppend(p)
      PROVE  Accounted' /\ InOrder'
  <2>1. UNCHANGED <<bufVars, toWrite, file, accepted, burst, late>>
    BY <1>3 DEF BeginAppend, writerVars, history
  <2> QED
    BY <1>2, <2>1, StayingKeeps
<1>4. ASSUME NEW p \in Producers, LockedAppend(p)
      PROVE  Accounted' /\ InOrder'
  BY <1>4, AppendKeeps
<1>5. ASSUME WriterStep
      PROVE  Accounted' /\ InOrder'
  <2>1. CASE \/ WriterChecks \/ WriterWaits \/ WriterFollowsNull
             \/ WriterFlushes \/ WriterWritten \/ WriterRepeats
    <3>1. UNCHANGED <<bufVars, toWrite, file, accepted, burst, late>>
      BY <2>1 DEF WriterChecks, WriterWaits, WriterFollowsNull, WriterFlushes,
                  WriterWritten, WriterRepeats, writerVars, history
    <3> QED
      BY <1>2, <3>1, StayingKeeps
  <2> QED
    BY <1>5, <2>1, TakeKeeps, WriteKeeps, WriteExtraKeeps DEF WriterStep
<1>6. ASSUME Start \/ Stop \/ StopJoins
      PROVE  Accounted' /\ InOrder'
  <2>1. UNCHANGED <<bufVars, toWrite, file, accepted, burst, late>>
    BY <1>6 DEF Start, Stop, StopJoins, writerVars, history
  <2> QED
    BY <1>2, <2>1, StayingKeeps
<1>7. ASSUME StopTakesWrite \/ StopTakesLog \/ StopFlushes
      PROVE  Accounted' /\ InOrder'
  <2>1. CASE StopTakesWrite
    BY <2>1, StopTakesWriteKeeps
  <2>2. CASE StopTakesLog
    BY <2>2, StopTakesLogKeeps
  <2>3. CASE StopFlushes
    BY <2>3, StopFlushesKeeps
  <2> QED
    BY <1>7, <2>1, <2>2, <2>3
<1>8. ASSUME UNCHANGED vars
      PROVE  Accounted' /\ InOrder'
  <2>1. UNCHANGED <<bufVars, toWrite, file, accepted, burst, late>>
    BY <1>8 DEF vars, writerVars, history
  <2> QED
    BY <1>2, <2>1, StayingKeeps
<1> QED
  BY <1>1, <1>3, <1>4, <1>5, <1>6, <1>7, <1>8 DEF IInv, Next

-----------------------------------------------------------------------------
(* The theorems.                                                           *)

\* The invariant holds, however many threads log and whatever they do between
\* the unlocked steps of the writer and of stop().
THEOREM LoggerInvariant == Spec => []IInv
<1> QED
  BY InitHolds, StepsKeepIInv, PTL DEF Spec

\* The types of the variables.
THEOREM LoggerTyped == Spec => []TypeOK
<1>1. IInv => TypeOK
  BY DEF IInv
<1> QED
  BY <1>1, LoggerInvariant, PTL

\* A record that was accepted is in the file or in one buffer, once: the swaps
\* and moves of append(), writeToFile() and stop() lose and repeat none.
THEOREM NoRecordIsLost == Spec => []NothingLostOrRepeated
<1>1. IInv => NothingLostOrRepeated
  BY AccountedIsAll DEF IInv
<1> QED
  BY <1>1, LoggerInvariant, PTL

\* Without an extra buffer and a late append() the file keeps the order in
\* which the threads got the lock.
THEOREM RecordsKeepOrder == Spec => []OrderWithoutBursts
<1>1. IInv => OrderWithoutBursts
  BY DEF IInv, InOrder, OrderWithoutBursts, Wr, Lg, Ex
<1> QED
  BY <1>1, LoggerInvariant, PTL

\* stop() writes what was accepted before it returns, if no append() overlaps
\* it.
THEOREM StopWritesAll == Spec => QuietStopWritesAll
<1>1. ASSUME IInv, IInv', [Next]_vars, Returning, ~late
      PROVE  ToSet(accepted) \subseteq ToSet(file')
  <2>1. StopFlushes
    <3>1. stopper = "flush" /\ stopper' = "out"
      BY <1>1 DEF Returning
    <3>2. \A p \in Producers : ~BeginAppend(p) /\ ~LockedAppend(p)
      BY <3>1 DEF BeginAppend, LockedAppend, ownerVars
    <3>3. ~WriterStep
      BY <1>1, <3>1, WriterIsNotJoined DEF IInv
    <3>4. ~Start /\ ~Stop /\ ~StopJoins /\ ~StopTakesWrite /\ ~StopTakesLog
      BY <3>1 DEF Start, Stop, StopJoins, StopTakesWrite, StopTakesLog, Step
    <3>5. ~UNCHANGED vars
      BY <3>1 DEF vars, ownerVars
    <3> QED
      BY <1>1, <3>2, <3>3, <3>4, <3>5 DEF Next
  <2>2. stopper = "flush" /\ UNCHANGED <<logBuf, toWrite, accepted>>
    BY <2>1 DEF StopFlushes, Step, writerVars, history
  <2>3. Lg = <<>> /\ toWrite = <<>>
    BY <1>1, <2>2 DEF IInv, StopEmpties, WriterRests, Lg
  <2>4. ToSet(Lg) = {} /\ ToSet(To) = {}
    BY <2>3, FlattenSmall, EmptyParts DEF To
  <2>5. file' = (file \o Wr) \o Ex
    BY <2>1 DEF StopFlushes, Wr, Ex
  <2>6. ToSet(file') = ToSet(file) \cup ToSet(Wr) \cup ToSet(Ex)
    <3>1. file \in Seq(Records) /\ Wr \in Seq(Records) /\ Ex \in Seq(Records)
      BY <1>1, PartsTyped DEF IInv
    <3>2. file \o Wr \in Seq(Records) /\ ToSet(file \o Wr) = ToSet(file) \cup ToSet(Wr)
      BY <3>1, ConcatParts
    <3>3. ToSet((file \o Wr) \o Ex) = ToSet(file \o Wr) \cup ToSet(Ex)
      <4>1. \A a, b \in Seq(Records) : ToSet(a \o b) = ToSet(a) \cup ToSet(b)
        BY ConcatParts
      <4> QED
        BY <3>1, <3>2, <4>1
    <3> QED
      BY <2>5, <3>2, <3>3
  <2>7. ToSet(file) \cup ToSet(Wr) \cup ToSet(Lg) \cup ToSet(Ex) \cup ToSet(To)
          = ToSet(accepted)
    BY <1>1 DEF IInv, Accounted
  <2> QED
    BY <2>4, <2>6, <2>7
<1>2. IInv /\ IInv' /\ [Next]_vars
        => [Returning /\ ~late => ToSet(accepted) \subseteq ToSet(file')]_vars
  BY <1>1
<1> QED
  BY <1>2, LoggerInvariant, PTL DEF Spec, QuietStopWritesAll

-----------------------------------------------------------------------------
(* The files of a log: what a file is.                                     *)

\* t continues s.
Begins(s, t) ==
  /\ Len(s) <= Len(t)
  /\ \A j \in 1 .. Len(s) : s[j] = t[j]

\* A sequence of units, the newest record of which is at most n, as a file has
\* to be.
WellFormed(units, n) ==
  /\ units \in Seq(Nat)
  /\ units # <<>> => units[1] = File!Header
  /\ \A j \in 1 .. Len(units) : units[j] <= n
  /\ \A j, k \in 1 .. Len(units) :
       j < k /\ units[j] # File!Header /\ units[k] # File!Header => units[j] < units[k]

\* The types of the variables.
DiskTyped ==
  /\ data \in Seq(Seq(Nat))
  /\ dir \in [File!Paths -> 0 .. Len(data)]
  /\ now \in 1 .. MaxTime
  /\ first \in File!Dirs \X {File!LogName} /\ readPath \in File!Dirs \X {File!LogName}
  /\ loggers \in Nat /\ logged \in Nat
  /\ unflushed \in Seq(Nat)
  /\ rotations \in [File!Paths -> Nat]
  /\ readStream \in 0 .. Len(data)
  /\ readFailed \in BOOLEAN /\ spoiled \in BOOLEAN
  /\ current \in Int

\* Every file has one name; the stream writes the file its path names, and
\* filesize_ is its size; a name that no rotation gave is free.
Placed ==
  /\ \A p, q \in File!Paths : dir[p] = dir[q] /\ dir[p] # 0 => p = q
  /\ path = File!NoPath => stream = 0 /\ unflushed = <<>>
  /\ path # File!NoPath =>
       /\ path \in {first, File!LogPath}
       /\ dir[path] = stream /\ stream # 0
       /\ size = Len(File!UnitsOf(stream))
       /\ loggers >= 1
  /\ \A p \in File!Paths : p[2] # File!LogName /\ rotations[p] = 0 => dir[p] = 0

\* Every file is well formed.
Formed == \A i \in 1 .. Len(data) : WellFormed(File!UnitsOf(i), logged)

\* The bound on a file, and the one on log.log before the logger that is to
\* continue it has got there.
Limited ==
  /\ \A i \in 1 .. Len(data) : Len(File!UnitsOf(i)) <= MaxFileSize + 1 + File!Excess
  /\ path \notin {File!NoPath, File!LogPath} /\ dir[File!LogPath] # 0 =>
       Len(File!UnitsOf(dir[File!LogPath])) <= MaxFileSize + 1 + 2 * (loggers - 2)

\* The reader has the beginning of its file, also when that has another name.
Following ==
  /\ readStream = 0 => got = <<>> /\ ~readFailed
  /\ ~spoiled => got \in Seq(Nat)
  /\ readStream # 0 /\ ~spoiled =>
       /\ Begins(got, data[readStream])
       /\ dir[readPath] = readStream => current = Len(got)

\* The invariant.
DiskInv == DiskTyped /\ Placed /\ Formed /\ Limited /\ Following

-----------------------------------------------------------------------------
\* The named paths are paths, and differ.
LEMMA NamedPaths ==
  ASSUME LogFileAssumption
  PROVE  /\ File!LogPath \in File!Paths /\ File!LogPath # File!NoPath
         /\ File!LogPath[2] = File!LogName
         /\ \A p \in File!Dirs \X {File!LogName} :
              p \in File!Paths /\ p # File!NoPath /\ p[2] = File!LogName
         /\ \A p \in File!Paths, t \in 1 .. MaxTime :
              /\ <<p[1], t>> \in File!Paths /\ <<p[1], t>>[2] # File!LogName
<1> USE LogFileAssumption DEF File!Paths, File!Dirs, File!LogName, File!LogPath, File!NoPath
<1>1. File!LogPath \in File!Paths /\ File!LogPath # File!NoPath /\ File!LogPath[2] = File!LogName
  OBVIOUS
<1>2. \A p \in File!Dirs \X {File!LogName} :
        p \in File!Paths /\ p # File!NoPath /\ p[2] = File!LogName
  OBVIOUS
<1>3. \A p \in File!Paths, t \in 1 .. MaxTime :
        <<p[1], t>> \in File!Paths /\ <<p[1], t>>[2] # File!LogName
  OBVIOUS
<1> QED
  BY <1>1, <1>2, <1>3

\* A file that gets a record keeps its form.
LEMMA FormAppends ==
  ASSUME NEW n \in Nat, NEW u, WellFormed(u, n)
  PROVE  /\ WellFormed(u, n + 1)
         /\ WellFormed(u \o <<File!Header, n + 1>>, n + 1)
         /\ u # <<>> => WellFormed(u \o <<n + 1>>, n + 1)
<1> DEFINE r == n + 1
<1>1. u \in Seq(Nat) /\ Len(u) \in Nat
  BY DEF WellFormed
<1>2. WellFormed(u, r)
  BY <1>1 DEF WellFormed
<1>3. WellFormed(u \o <<File!Header, r>>, r)
  <2> DEFINE v == u \o <<File!Header, r>>
  <2>1. /\ v \in Seq(Nat) /\ Len(v) = Len(u) + 2
        /\ \A j \in 1 .. Len(u) : v[j] = u[j]
        /\ v[Len(u) + 1] = File!Header /\ v[Len(u) + 2] = r
    BY <1>1 DEF File!Header
  <2>2. \A j \in 1 .. Len(v) : j \in 1 .. Len(u) \/ j = Len(u) + 1 \/ j = Len(u) + 2
    BY <1>1, <2>1
  <2> HIDE DEF v
  <2>3. v[1] = File!Header
    BY <1>1, <2>1 DEF WellFormed
  <2>4. ASSUME NEW j \in 1 .. Len(v)  PROVE v[j] <= r
    <3>1. CASE j \in 1 .. Len(u)
      <4>1. u[j] <= n /\ u[j] \in Nat
        BY <1>1, <3>1 DEF WellFormed
      <4> QED
        BY <2>1, <3>1, <4>1
    <3>2. CASE j = Len(u) + 1 \/ j = Len(u) + 2
      BY <2>1, <3>2 DEF File!Header
    <3> QED
      BY <2>2, <3>1, <3>2
  <2>5. ASSUME NEW j \in 1 .. Len(v), NEW k \in 1 .. Len(v),
               j < k, v[j] # File!Header, v[k] # File!Header
        PROVE  v[j] < v[k]
    <3>1. j \in 1 .. Len(u) /\ v[j] = u[j] /\ u[j] <= n /\ u[j] \in Nat
      <4>1. j # Len(u) + 1 /\ j # Len(u) + 2
        BY <1>1, <2>1, <2>5
      <4>2. j \in 1 .. Len(u)
        BY <2>2, <4>1
      <4> QED
        <5>1. u[j] <= n /\ u[j] \in Nat
          BY <1>1, <4>2 DEF WellFormed
        <5> QED
          BY <2>1, <4>2, <5>1
    <3>2. CASE k \in 1 .. Len(u)
      BY <2>1, <2>5, <3>1, <3>2 DEF WellFormed
    <3>3. CASE k = Len(u) + 2
      BY <2>1, <3>1, <3>3
    <3> QED
      BY <2>1, <2>2, <2>5, <3>2, <3>3
  <2> QED
    BY <2>1, <2>3, <2>4, <2>5 DEF WellFormed, v
<1>4. ASSUME u # <<>>
      PROVE  WellFormed(u \o <<r>>, r)
  <2> DEFINE v == u \o <<r>>
  <2>1. /\ v \in Seq(Nat) /\ Len(v) = Len(u) + 1
        /\ \A j \in 1 .. Len(u) : v[j] = u[j]
        /\ v[Len(u) + 1] = r
    BY <1>1
  <2>2. \A j \in 1 .. Len(v) : j \in 1 .. Len(u) \/ j = Len(u) + 1
    BY <1>1, <2>1
  <2>6. 1 \in 1 .. Len(u)
    BY <1>1, <1>4
  <2> HIDE DEF v
  <2>3. v[1] = File!Header
    BY <1>1, <1>4, <2>1, <2>6 DEF WellFormed
  <2>4. ASSUME NEW j \in 1 .. Len(v)  PROVE v[j] <= r
    <3>1. CASE j \in 1 .. Len(u)
      <4>1. u[j] <= n /\ u[j] \in Nat
        BY <1>1, <3>1 DEF WellFormed
      <4> QED
        BY <2>1, <3>1, <4>1
    <3>2. CASE j = Len(u) + 1
      BY <2>1, <3>2
    <3> QED
      BY <2>2, <3>1, <3>2
  <2>5. ASSUME NEW j \in 1 .. Len(v), NEW k \in 1 .. Len(v),
               j < k, v[j] # File!Header, v[k] # File!Header
        PROVE  v[j] < v[k]
    <3>1. j \in 1 .. Len(u) /\ v[j] = u[j] /\ u[j] <= n /\ u[j] \in Nat
      <4>1. j # Len(u) + 1
        BY <1>1, <2>1, <2>5
      <4>2. j \in 1 .. Len(u)
        BY <2>2, <4>1
      <4> QED
        <5>1. u[j] <= n /\ u[j] \in Nat
          BY <1>1, <4>2 DEF WellFormed
        <5> QED
          BY <2>1, <4>2, <5>1
    <3>2. CASE k \in 1 .. Len(u)
      BY <2>1, <2>5, <3>1, <3>2 DEF WellFormed
    <3>3. CASE k = Len(u) + 1
      BY <2>1, <3>1, <3>3
    <3> QED
      BY <2>2, <3>2, <3>3
  <2> QED
    BY <2>1, <2>3, <2>4, <2>5 DEF WellFormed, v
<1> QED
  BY <1>2, <1>3, <1>4

\* The beginning of a file has the form of a file.
LEMMA FormBegins ==
  ASSUME NEW n \in Nat, NEW s \in Seq(Nat), NEW t \in Seq(Nat), WellFormed(s \o t, n)
  PROVE  WellFormed(s, n)
<1>1. /\ Len(s \o t) = Len(s) + Len(t) /\ Len(s) \in Nat /\ Len(t) \in Nat
      /\ \A j \in 1 .. Len(s) : (s \o t)[j] = s[j]
  OBVIOUS
<1>2. \A j \in 1 .. Len(s) : j \in 1 .. Len(s \o t)
  BY <1>1
<1>3. s # <<>> => 1 \in 1 .. Len(s) /\ s \o t # <<>>
  BY <1>1
<1> QED
  BY <1>1, <1>2, <1>3 DEF WellFormed

-----------------------------------------------------------------------------
(* What the operations of FileWriter do to the directory and the files.    *)

\* open() of path p with the directory d and the files s has led to disk: the
\* file of the path, or a new one.
OpenedAt(s, d, p, disk) ==
  /\ disk.data \in Seq(Seq(Nat)) /\ Len(disk.data) \in Nat /\ Len(disk.data) >= Len(s)
  /\ disk.dir \in [File!Paths -> 0 .. Len(disk.data)]
  /\ disk.dir[p] \in 1 .. Len(disk.data)
  /\ d[p] # 0 => disk.dir[p] = d[p] /\ Len(disk.data) = Len(s)
  /\ d[p] = 0 => disk.dir[p] = Len(s) + 1
  /\ \A q \in File!Paths \ {p} : disk.dir[q] = d[q]
  /\ \A i \in 1 .. Len(s) : disk.data[i] = s[i]
  /\ \A i \in 1 .. Len(disk.data) : i \notin 1 .. Len(s) =>
       disk.data[i] = <<>> /\ disk.dir[p] = i

\* open() of FileWriter does what OpenedAt says.
LEMMA Opens ==
  ASSUME NEW s \in Seq(Seq(Nat)), NEW d \in [File!Paths -> 0 .. Len(s)], NEW p \in File!Paths
  PROVE  OpenedAt(s, d, p, File!Open([dir |-> d, data |-> s], p))
<1> DEFINE disk == File!Open([dir |-> d, data |-> s], p)
<1> SUFFICES OpenedAt(s, d, p, disk)
  OBVIOUS
<1>1. Len(s) \in Nat
  OBVIOUS
<1>2. CASE d[p] # 0
  <2>1. disk.dir = d /\ disk.data = s
    BY <1>2 DEF File!Open
  <2> HIDE DEF disk
  <2> QED
    BY <1>1, <1>2, <2>1 DEF OpenedAt
<1>3. CASE d[p] = 0
  <2> DEFINE n == Len(s) + 1
  <2>1. disk.dir = [d EXCEPT ![p] = n] /\ disk.data = Append(s, <<>>)
    BY <1>3 DEF File!Open
  <2>2. /\ Append(s, <<>>) \in Seq(Seq(Nat)) /\ Len(Append(s, <<>>)) = n
        /\ \A i \in 1 .. Len(s) : Append(s, <<>>)[i] = s[i]
        /\ Append(s, <<>>)[n] = <<>>
    <3>1. <<>> \in Seq(Nat)
      OBVIOUS
    <3> QED
      BY <3>1, AppendProperties
  <2>3. 0 .. Len(s) \subseteq 0 .. n /\ n \in 1 .. n /\ n \in 0 .. n
    BY <1>1
  <2>4. disk.dir \in [File!Paths -> 0 .. n] /\ disk.dir[p] = n
    BY <2>1, <2>3
  <2>5. \A q \in File!Paths \ {p} : disk.dir[q] = d[q]
    BY <2>1
  <2>6. \A i \in 1 .. n : i \notin 1 .. Len(s) => i = n
    BY <1>1
  <2>7. Len(disk.data) = n /\ n \in Nat /\ n >= Len(s)
    BY <1>1, <2>1, <2>2
  <2> HIDE DEF n, disk
  <2> QED
    BY <1>3, <2>1, <2>2, <2>3, <2>4, <2>5, <2>6, <2>7 DEF n, OpenedAt
<1> QED
  BY <1>2, <1>3

\* Writing out makes the contents of the files what their units are.
LEMMA WritesOut ==
  ASSUME DiskTyped, Placed, path # File!NoPath, LogFileAssumption
  PROVE  /\ File!WriteOut(File!Disk).dir = dir
         /\ File!WriteOut(File!Disk).data \in Seq(Seq(Nat))
         /\ Len(File!WriteOut(File!Disk).data) = Len(data)
         /\ \A i \in 1 .. Len(data) : File!WriteOut(File!Disk).data[i] = File!UnitsOf(i)
         /\ stream \in 1 .. Len(data) /\ path \in File!Paths
<1>1. path \in File!Paths
  BY NamedPaths DEF Placed, DiskTyped
<1>2. stream \in 1 .. Len(data) /\ stream # 0
  <2>1. dir[path] = stream /\ stream # 0
    BY DEF Placed
  <2>2. dir[path] \in 0 .. Len(data) /\ Len(data) \in Nat
    BY <1>1 DEF DiskTyped
  <2> QED
    BY <2>1, <2>2
<1>3. data[stream] \in Seq(Nat) /\ unflushed \in Seq(Nat)
  BY <1>2 DEF DiskTyped
<1> DEFINE s == [data EXCEPT ![stream] = @ \o unflushed]
<1>4. File!WriteOut(File!Disk).dir = dir /\ File!WriteOut(File!Disk).data = s
  BY <1>2 DEF File!WriteOut, File!Disk
<1>5. s \in Seq(Seq(Nat)) /\ Len(s) = Len(data)
  BY <1>2, <1>3 DEF DiskTyped
<1>6. \A i \in 1 .. Len(data) : s[i] = IF i = stream THEN data[i] \o unflushed ELSE data[i]
  BY <1>2 DEF DiskTyped
<1>7. \A i \in 1 .. Len(data) : data[i] \in Seq(Nat)
  BY DEF DiskTyped
<1>8. \A i \in 1 .. Len(data) : data[i] \o <<>> = data[i]
  BY <1>7, ConcatEmptySeq
<1>9. \A i \in 1 .. Len(data) : s[i] = File!UnitsOf(i)
  BY <1>6, <1>8 DEF File!UnitsOf
<1> QED
  BY <1>1, <1>2, <1>4, <1>5, <1>9

-----------------------------------------------------------------------------
(* What the steps do to the units of the files.                            *)

\* Units are added to one file, others keep theirs, new files have none.
Adds(f, units) ==
  /\ Len(data') >= Len(data)
  /\ \A i \in 1 .. Len(data') :
       File!UnitsOf(i)' = (IF i \in 1 .. Len(data) THEN File!UnitsOf(i) ELSE <<>>)
                       \o (IF i = f THEN units ELSE <<>>)

\* No file loses what it has on the disk.
Grows ==
  /\ Len(data') >= Len(data)
  /\ \A i \in 1 .. Len(data) : Begins(data[i], data'[i])

\* A file has units, which begin with what is on the disk.
LEMMA UnitsTyped ==
  ASSUME DiskTyped, NEW i \in 1 .. Len(data)
  PROVE  /\ data[i] \in Seq(Nat) /\ File!UnitsOf(i) \in Seq(Nat) /\ Len(data) \in Nat
         /\ Begins(data[i], File!UnitsOf(i))
<1>1. data[i] \in Seq(Nat) /\ Len(data) \in Nat
  BY DEF DiskTyped
<1> DEFINE t == IF i = stream THEN unflushed ELSE <<>>
<1>2. t \in Seq(Nat)
  BY DEF DiskTyped
<1>3. File!UnitsOf(i) = data[i] \o t
  BY DEF File!UnitsOf
<1> HIDE DEF t
<1>4. /\ data[i] \o t \in Seq(Nat) /\ Len(data[i] \o t) = Len(data[i]) + Len(t)
      /\ \A j \in 1 .. Len(data[i]) : (data[i] \o t)[j] = data[i][j]
      /\ Len(t) \in Nat /\ Len(data[i]) \in Nat
  BY <1>1, <1>2
<1> QED
  BY <1>1, <1>3, <1>4 DEF Begins

\* A logger that is made opens its file and writes nothing.
LEMMA ConstructDoes ==
  ASSUME LogFileAssumption, DiskTyped, Placed, File!Construct
  PROVE  /\ data' \in Seq(Seq(Nat)) /\ dir' \in [File!Paths -> 0 .. Len(data')]
         /\ dir'[first] \in 1 .. Len(data') /\ stream' = dir'[first]
         /\ dir[first] # 0 => dir'[first] = dir[first]
         /\ dir[first] = 0 => dir'[first] = Len(data) + 1
         /\ \A q \in File!Paths \ {first} : dir'[q] = dir[q]
         /\ Adds(0, <<>>) /\ Grows
         /\ size' = Len(File!UnitsOf(stream)')
<1> USE LogFileAssumption
<1>1. first \in File!Paths /\ dir \in [File!Paths -> 0 .. Len(data)] /\ data \in Seq(Seq(Nat))
  BY NamedPaths DEF DiskTyped
<1>2. path = File!NoPath /\ stream = 0 /\ unflushed = <<>> /\ unflushed' = <<>>
  BY DEF File!Construct, Placed
<1> DEFINE disk == File!Open(File!Disk, first)
<1>3. dir' = disk.dir /\ data' = disk.data /\ stream' = dir'[first] /\
        size' = Len(data'[dir'[first]])
  BY DEF File!Construct, File!Now, File!SizeOf
<1>4. /\ disk.data \in Seq(Seq(Nat)) /\ Len(disk.data) \in Nat /\ Len(disk.data) >= Len(data)
      /\ disk.dir \in [File!Paths -> 0 .. Len(disk.data)]
      /\ disk.dir[first] \in 1 .. Len(disk.data)
      /\ dir[first] # 0 => disk.dir[first] = dir[first] /\ Len(disk.data) = Len(data)
      /\ dir[first] = 0 => disk.dir[first] = Len(data) + 1
      /\ \A q \in File!Paths \ {first} : disk.dir[q] = dir[q]
      /\ \A i \in 1 .. Len(data) : disk.data[i] = data[i]
      /\ \A i \in 1 .. Len(disk.data) : i \notin 1 .. Len(data) =>
           disk.data[i] = <<>> /\ disk.dir[first] = i
  <2> HIDE DEF disk
  <2>1. disk = File!Open([dir |-> dir, data |-> data], first)
    BY DEF disk, File!Disk
  <2>2. OpenedAt(data, dir, first, disk)
    BY <1>1, <2>1, Opens
  <2> QED
    BY <2>2 DEF OpenedAt
<1> HIDE DEF disk
<1>5. \A i \in 1 .. Len(data') : data'[i] \in Seq(Nat) /\ File!UnitsOf(i)' = data'[i]
  <2> SUFFICES ASSUME NEW i \in 1 .. Len(data')
               PROVE  data'[i] \in Seq(Nat) /\ File!UnitsOf(i)' = data'[i]
    OBVIOUS
  <2>1. data'[i] \in Seq(Nat)
    BY <1>3, <1>4
  <2>2. File!UnitsOf(i)' = data'[i] \o <<>>
    BY <1>2 DEF File!UnitsOf
  <2> QED
    BY <2>1, <2>2, ConcatEmptySeq
<1>6. \A i \in 1 .. Len(data) : data[i] \in Seq(Nat) /\ File!UnitsOf(i) = data[i]
  <2> SUFFICES ASSUME NEW i \in 1 .. Len(data)
               PROVE  data[i] \in Seq(Nat) /\ File!UnitsOf(i) = data[i]
    OBVIOUS
  <2>1. data[i] \in Seq(Nat)
    BY <1>1
  <2>2. File!UnitsOf(i) = data[i] \o <<>>
    BY <1>2 DEF File!UnitsOf
  <2> QED
    BY <2>1, <2>2, ConcatEmptySeq
<1>7. Adds(0, <<>>)
  <2>1. <<>> \in Seq(Nat)
    OBVIOUS
  <2>2. ASSUME NEW i \in 1 .. Len(data')
        PROVE  File!UnitsOf(i)' = (IF i \in 1 .. Len(data) THEN File!UnitsOf(i) ELSE <<>>)
                       \o (IF i = 0 THEN <<>> ELSE <<>>)
    <3>1. File!UnitsOf(i)' = IF i \in 1 .. Len(data) THEN File!UnitsOf(i) ELSE <<>>
      <4>1. File!UnitsOf(i)' = data'[i]
        BY <1>5
      <4>2. CASE i \in 1 .. Len(data)
        BY <1>3, <1>4, <1>6, <4>1, <4>2
      <4>3. CASE i \notin 1 .. Len(data)
        BY <1>3, <1>4, <4>1, <4>3
      <4> QED
        BY <4>2, <4>3
    <3>2. (IF i \in 1 .. Len(data) THEN File!UnitsOf(i) ELSE <<>>) \in Seq(Nat)
      BY <1>6, <2>1
    <3> QED
      BY <3>1, <3>2, ConcatEmptySeq
  <2> QED
    BY <1>3, <1>4, <2>2 DEF Adds
<1>8. Grows
  <2>1. ASSUME NEW i \in 1 .. Len(data)  PROVE Begins(data[i], data'[i])
    <3>1. data'[i] = data[i] /\ data[i] \in Seq(Nat)
      BY <1>3, <1>4, <1>6
    <3> QED
      BY <3>1 DEF Begins
  <2> QED
    BY <1>3, <1>4, <2>1 DEF Grows
<1>9. size' = Len(File!UnitsOf(stream)')
  BY <1>3, <1>4, <1>5
<1> QED
  BY <1>3, <1>4, <1>7, <1>8, <1>9

\* Flushing and closing the stream.
LEMMA FlushDoes ==
  ASSUME LogFileAssumption, DiskTyped, Placed, path # File!NoPath,
           File!Now(File!WriteOut(File!Disk)),
         unflushed' = <<>>
  PROVE  /\ data' \in Seq(Seq(Nat)) /\ dir' = dir /\ Len(data') = Len(data)
         /\ Adds(0, <<>>) /\ Grows
<1>1. /\ dir' = dir /\ data' \in Seq(Seq(Nat)) /\ Len(data') = Len(data)
      /\ \A i \in 1 .. Len(data) : data'[i] = File!UnitsOf(i)
  BY WritesOut DEF File!Now
<1>2. \A i \in 1 .. Len(data) : /\ File!UnitsOf(i) \in Seq(Nat)
                                /\ Begins(data[i], File!UnitsOf(i))
                                /\ Len(data) \in Nat
  BY UnitsTyped
<1>3. \A i \in 1 .. Len(data') : File!UnitsOf(i)' = File!UnitsOf(i) \o <<>>
  BY <1>1 DEF File!UnitsOf
<1>4. \A i \in 1 .. Len(data') : File!UnitsOf(i) \o <<>> =
        (IF i \in 1 .. Len(data) THEN File!UnitsOf(i) ELSE <<>>)
                                             \o (IF i = 0 THEN <<>> ELSE <<>>)
  BY <1>1
<1>5. Len(data) \in Nat
  BY DEF DiskTyped
<1> QED
  BY <1>1, <1>2, <1>3, <1>4, <1>5 DEF Adds, Grows

\* What is written stays in the stream.
LEMMA WrittenDoes ==
  ASSUME LogFileAssumption, DiskTyped, Placed, path # File!NoPath,
         NEW units \in Seq(Nat), File!Written(units)
  PROVE  /\ Adds(stream, units) /\ Grows /\ stream \in 1 .. Len(data)
         /\ size' = Len(File!UnitsOf(stream)')
<1>1. /\ data' = data /\ dir' = dir /\ stream' = stream /\ path' = path
      /\ unflushed' = unflushed \o units /\ size' = size + Len(units)
  BY DEF File!Written, File!diskVars
<1>2. stream \in 1 .. Len(data) /\ Len(data) \in Nat /\ unflushed \in Seq(Nat)
  BY WritesOut DEF DiskTyped
<1>3. \A i \in 1 .. Len(data) : data[i] \in Seq(Nat) /\ File!UnitsOf(i) \in Seq(Nat)
  BY UnitsTyped
<1>4. ASSUME NEW i \in 1 .. Len(data)
      PROVE  File!UnitsOf(i)' = File!UnitsOf(i) \o (IF i = stream THEN units ELSE <<>>)
  <2>1. CASE i = stream
    <3>1. File!UnitsOf(i)' = data[i] \o (unflushed \o units) /\
            File!UnitsOf(i) = data[i] \o unflushed
      BY <1>1, <2>1 DEF File!UnitsOf
    <3>2. (data[i] \o unflushed) \o units = data[i] \o (unflushed \o units)
      <4>1. unflushed \in Seq(Nat) /\ data[i] \in Seq(Nat) /\ units \in Seq(Nat)
        BY <1>2, <1>3
      <4> QED
        BY <4>1, UnitsAssociative
    <3> QED
      BY <2>1, <3>1, <3>2
  <2>2. CASE i # stream
    <3>1. File!UnitsOf(i)' = data[i] \o <<>> /\ File!UnitsOf(i) = data[i] \o <<>>
      BY <1>1, <2>2 DEF File!UnitsOf
    <3> QED
      BY <1>3, <2>2, <3>1, ConcatEmptySeq
  <2> QED
    BY <2>1, <2>2
<1>5. Adds(stream, units)
  BY <1>1, <1>2, <1>4 DEF Adds
<1>6. Grows
  BY <1>1, <1>2, <1>3 DEF Grows, Begins
<1>7. size' = Len(File!UnitsOf(stream)')
  <2>1. File!UnitsOf(stream)' = File!UnitsOf(stream) \o units
    BY <1>1, <1>2, <1>4
  <2>2. size = Len(File!UnitsOf(stream))
    BY DEF Placed
  <2> QED
    BY <1>1, <1>2, <1>3, <2>1, <2>2, ConcatProperties
<1> QED
  BY <1>2, <1>5, <1>6, <1>7

\* The file keeps its units under its new name, and log.log is continued or
\* made.
LEMMA RotateDoes ==
  ASSUME LogFileAssumption, DiskTyped, Placed, path # File!NoPath,
         NEW r \in Nat, File!Rotate(r),
         NEW name, name = <<path[1], now>>
  PROVE  /\ name \in File!Paths /\ name[2] # File!LogName /\ path \in File!Paths
         /\ path[2] = File!LogName
         /\ data' \in Seq(Seq(Nat)) /\ dir' \in [File!Paths -> 0 .. Len(data')]
         /\ path' = File!LogPath /\ stream' = dir'[File!LogPath] /\ stream' \in 1 .. Len(data')
         /\ stream' # stream /\ stream \in 1 .. Len(data) /\ dir'[name] = stream
         /\ rotations' = [rotations EXCEPT ![name] = @ + 1]
         /\ path # File!LogPath => dir'[path] = 0
         /\ path # File!LogPath /\ dir[File!LogPath] # 0 => dir'[File!LogPath] = dir[File!LogPath]
         /\ path = File!LogPath \/ dir[File!LogPath] = 0 => dir'[File!LogPath] = Len(data) + 1
         /\ \A q \in File!Paths \ {name, path, File!LogPath} : dir'[q] = dir[q]
         /\ Adds(stream', <<File!Header, r>>) /\ Grows
         /\ size' = Len(File!UnitsOf(stream)')
<1> USE LogFileAssumption
<1> DEFINE written == File!WriteOut(File!Disk)
           s == written.data
           d == [[dir EXCEPT ![name] = stream] EXCEPT ![path] = 0]
           disk == File!Open(File!Rename(written, path, name), File!LogPath)
<1>1. /\ path \in File!Paths /\ stream \in 1 .. Len(data)
      /\ written.dir = dir /\ s \in Seq(Seq(Nat)) /\ Len(s) = Len(data)
      /\ \A i \in 1 .. Len(data) : s[i] = File!UnitsOf(i)
  BY WritesOut
<1>2. /\ path[2] = File!LogName /\ name \in File!Paths /\ name[2] # File!LogName
      /\ File!LogPath \in File!Paths
      /\ File!LogPath[2] = File!LogName
  BY <1>1, NamedPaths DEF DiskTyped, Placed
<1>3. name # path /\ name # File!LogPath
  BY <1>2
<1>4. dir \in [File!Paths -> 0 .. Len(data)] /\ Len(data) \in Nat /\ dir[path] = stream /\
        stream # 0
  <2>1. dir \in [File!Paths -> 0 .. Len(data)] /\ Len(data) \in Nat
    BY DEF DiskTyped
  <2>2. dir[path] = stream /\ stream # 0
    BY DEF Placed
  <2> QED
    BY <2>1, <2>2
<1>5. File!Rename(written, path, name) = [dir |-> d, data |-> s]
  <2>1. written = [dir |-> dir, data |-> s]
    BY <1>1 DEF File!WriteOut, File!Disk
  <2> HIDE DEF written
  <2>2. File!Rename(written, path, name) = [written EXCEPT !.dir = d]
    BY <1>1, <1>4 DEF File!Rename
  <2> HIDE DEF s, d
  <2> QED
    BY <2>1, <2>2
<1>6. /\ dir' = disk.dir /\ data' = disk.data /\ path' = File!LogPath
      /\ stream' = dir'[File!LogPath]
      /\ unflushed' = <<File!Header, r>> /\ size' = Len(data'[stream']) + 2
      /\ rotations' = [rotations EXCEPT ![name] = @ + 1]
  BY DEF File!Rotate, File!Now, File!SizeOf
<1>7. /\ d \in [File!Paths -> 0 .. Len(s)] /\ d[name] = stream /\ d[path] = 0
      /\ \A q \in File!Paths \ {name, path} : d[q] = dir[q]
  <2>1. stream \in 0 .. Len(s) /\ 0 \in 0 .. Len(s) /\ dir \in [File!Paths -> 0 .. Len(s)]
    BY <1>1, <1>4
  <2> HIDE DEF s
  <2>2. d \in [File!Paths -> 0 .. Len(s)]
    BY <2>1
  <2>3. d[name] = stream /\ d[path] = 0 /\ \A q \in File!Paths \ {name, path} : d[q] = dir[q]
    BY <1>1, <1>2, <1>3, <2>1
  <2> QED
    BY <2>2, <2>3
<1> HIDE DEF s, d
<1>8. /\ disk.data \in Seq(Seq(Nat)) /\ Len(disk.data) \in Nat /\ Len(disk.data) >= Len(s)
      /\ disk.dir \in [File!Paths -> 0 .. Len(disk.data)]
      /\ disk.dir[File!LogPath] \in 1 .. Len(disk.data)
      /\ d[File!LogPath] # 0 =>
         disk.dir[File!LogPath] = d[File!LogPath] /\ Len(disk.data) = Len(s)
      /\ d[File!LogPath] = 0 => disk.dir[File!LogPath] = Len(s) + 1
      /\ \A q \in File!Paths \ {File!LogPath} : disk.dir[q] = d[q]
      /\ \A i \in 1 .. Len(s) : disk.data[i] = s[i]
      /\ \A i \in 1 .. Len(disk.data) : i \notin 1 .. Len(s) =>
           disk.data[i] = <<>> /\ disk.dir[File!LogPath] = i
  <2>1. disk = File!Open([dir |-> d, data |-> s], File!LogPath)
    BY <1>5
  <2>2. s \in Seq(Seq(Nat)) /\ d \in [File!Paths -> 0 .. Len(s)] /\ File!LogPath \in File!Paths
    BY <1>1, <1>2, <1>7
  <2> HIDE DEF disk
  <2>3. OpenedAt(s, d, File!LogPath, disk)
    BY <2>1, <2>2, Opens
  <2> QED
    BY <2>3 DEF OpenedAt
<1> HIDE DEF disk
<1>9. /\ dir'[name] = stream /\ (path # File!LogPath => dir'[path] = 0)
      /\ path # File!LogPath /\ dir[File!LogPath] # 0 => dir'[File!LogPath] = dir[File!LogPath]
      /\ path = File!LogPath \/ dir[File!LogPath] = 0 => dir'[File!LogPath] = Len(data) + 1
      /\ \A q \in File!Paths \ {name, path, File!LogPath} : dir'[q] = dir[q]
  <2>1. dir'[name] = stream /\ (path # File!LogPath => dir'[path] = 0)
    BY <1>1, <1>2, <1>3, <1>6, <1>7, <1>8
  <2>2. /\ path # File!LogPath /\ dir[File!LogPath] # 0 => dir'[File!LogPath] = dir[File!LogPath]
        /\ path = File!LogPath \/ dir[File!LogPath] = 0 => dir'[File!LogPath] = Len(data) + 1
    BY <1>1, <1>2, <1>3, <1>6, <1>7, <1>8
  <2>3. \A q \in File!Paths \ {name, path, File!LogPath} : dir'[q] = dir[q]
    BY <1>6, <1>7, <1>8
  <2> QED
    BY <2>1, <2>2, <2>3
<1>10. stream' # stream
  <2>1. CASE path = File!LogPath \/ dir[File!LogPath] = 0
    BY <1>1, <1>4, <1>6, <1>9, <2>1
  <2>2. CASE path # File!LogPath /\ dir[File!LogPath] # 0
    <3>1. dir[File!LogPath] # dir[path]
      BY <1>1, <1>2, <2>2 DEF Placed
    <3> QED
      BY <1>4, <1>6, <1>9, <2>2, <3>1
  <2> QED
    BY <2>1, <2>2
<1>11. \A i \in 1 .. Len(data) : /\ File!UnitsOf(i) \in Seq(Nat)
                                 /\ Begins(data[i], File!UnitsOf(i))
                                 /\ Len(data) \in Nat
  BY UnitsTyped
<1>12. Len(data') >= Len(data)
  BY <1>1, <1>6, <1>8
<1>13. Grows
  BY <1>1, <1>6, <1>8, <1>11, <1>12 DEF Grows
<1>14. \A i \in 1 .. Len(data') :
         /\ data'[i] = IF i \in 1 .. Len(data) THEN File!UnitsOf(i) ELSE <<>>
         /\ File!UnitsOf(i)' = data'[i] \o (IF i = stream' THEN <<File!Header, r>> ELSE <<>>)
  BY <1>1, <1>6, <1>8 DEF File!UnitsOf
<1>15. Adds(stream', <<File!Header, r>>)
  BY <1>12, <1>14 DEF Adds
<1>16. size' = Len(File!UnitsOf(stream)')
  <2>1. stream' \in 1 .. Len(data') /\ data'[stream'] \in Seq(Nat)
    BY <1>6, <1>8
  <2>2. File!UnitsOf(stream)' = data'[stream'] \o <<File!Header, r>>
    BY <1>6 DEF File!UnitsOf
  <2>3. <<File!Header, r>> \in Seq(Nat) /\ Len(<<File!Header, r>>) = 2
    BY DEF File!Header
  <2>4. Len(data'[stream'] \o <<File!Header, r>>) = Len(data'[stream']) + 2
    <3> DEFINE u == data'[stream']
               h == <<File!Header, r>>
    <3>1. u \in Seq(Nat) /\ h \in Seq(Nat) /\ Len(h) = 2
      BY <2>1, <2>3
    <3> HIDE DEF u, h
    <3>2. Len(u \o h) = Len(u) + Len(h)
      BY <3>1, ConcatProperties
    <3> QED
      BY <3>1, <3>2 DEF u, h
  <2> QED
    BY <1>6, <2>2, <2>4
<1> QED
  BY <1>1, <1>2, <1>6, <1>8, <1>9, <1>10, <1>13, <1>15, <1>16

-----------------------------------------------------------------------------
(* What keeps the parts of the invariant.                                  *)

\* Records are added in the order of the calls, the first after a header.
InForm(f, units) ==
  \/ units = <<>> /\ logged' \in {logged, logged + 1}
  \/ units = <<File!Header, logged'>> /\ logged' = logged + 1
  \/ /\ units = <<logged'>> /\ logged' = logged + 1
     /\ f \in 1 .. Len(data) /\ File!UnitsOf(f) # <<>>

\* Units that are in form leave every file well formed.
LEMMA FormKept ==
  ASSUME DiskTyped, Formed, NEW f, NEW units, Adds(f, units), InForm(f, units)
  PROVE  Formed'
<1>1. logged \in Nat /\ logged' \in {logged, logged + 1}
  BY DEF DiskTyped, InForm
<1>2. WellFormed(<<>>, logged)
  BY DEF WellFormed
<1> SUFFICES ASSUME NEW i \in 1 .. Len(data')
             PROVE  WellFormed(File!UnitsOf(i)', logged')
  BY DEF Formed
<1> DEFINE u == IF i \in 1 .. Len(data) THEN File!UnitsOf(i) ELSE <<>>
<1>3. WellFormed(u, logged)
  BY <1>2 DEF Formed
<1>4. u \in Seq(Nat)
  BY <1>3 DEF WellFormed
<1>5. File!UnitsOf(i)' = u \o (IF i = f THEN units ELSE <<>>)
  BY DEF Adds
<1>6. i = f /\ f \in 1 .. Len(data) /\ File!UnitsOf(f) # <<>> => u # <<>>
  OBVIOUS
<1> HIDE DEF u
<1>7. /\ WellFormed(u, logged + 1)
      /\ WellFormed(u \o <<File!Header, logged + 1>>, logged + 1)
      /\ u # <<>> => WellFormed(u \o <<logged + 1>>, logged + 1)
  BY <1>1, <1>3, FormAppends
<1>8. u \o <<>> = u
  BY <1>4
<1>9. CASE i # f \/ units = <<>>
  BY <1>1, <1>3, <1>5, <1>7, <1>8, <1>9
<1>10. CASE i = f /\ units # <<>>
  BY <1>5, <1>6, <1>7, <1>10 DEF InForm
<1> QED
  BY <1>9, <1>10

\* What is added to a file adds to its length.
LEMMA AddsLengths ==
  ASSUME DiskTyped, NEW f, NEW units \in Seq(Nat), Adds(f, units),
         NEW i \in 1 .. Len(data')
  PROVE  /\ i \in 1 .. Len(data) =>
              Len(File!UnitsOf(i)') = Len(File!UnitsOf(i)) + (IF i = f THEN Len(units) ELSE 0)
         /\ i \notin 1 .. Len(data) =>
              Len(File!UnitsOf(i)') = IF i = f THEN Len(units) ELSE 0
<1> DEFINE u == IF i \in 1 .. Len(data) THEN File!UnitsOf(i) ELSE <<>>
           a == IF i = f THEN units ELSE <<>>
<1>1. File!UnitsOf(i)' = u \o a
  BY DEF Adds
<1>2. u \in Seq(Nat) /\ a \in Seq(Nat)
  <2>1. \A k \in 1 .. Len(data) : File!UnitsOf(k) \in Seq(Nat)
    BY UnitsTyped
  <2> QED
    BY <2>1
<1>3. /\ Len(u) = IF i \in 1 .. Len(data) THEN Len(File!UnitsOf(i)) ELSE 0
      /\ Len(a) = IF i = f THEN Len(units) ELSE 0
  OBVIOUS
<1> HIDE DEF u, a
<1>4. Len(u \o a) = Len(u) + Len(a)
  BY <1>2
<1>5. Len(File!UnitsOf(i)') = Len(u) + Len(a) /\ Len(u) \in Nat /\ Len(a) \in Nat
  BY <1>1, <1>2, <1>4
<1>6. ASSUME i \in 1 .. Len(data)
      PROVE  Len(File!UnitsOf(i)') = Len(File!UnitsOf(i)) + (IF i = f THEN Len(units) ELSE 0)
  <2>1. Len(u) = Len(File!UnitsOf(i))
    BY <1>3, <1>6
  <2> QED
    BY <1>3, <1>5, <2>1
<1>7. ASSUME i \notin 1 .. Len(data)
      PROVE  Len(File!UnitsOf(i)') = IF i = f THEN Len(units) ELSE 0
  <2>1. Len(u) = 0
    BY <1>3, <1>7
  <2>2. Len(File!UnitsOf(i)') = Len(a)
    BY <1>5, <2>1
  <2> QED
    BY <1>3, <2>2
<1> QED
  BY <1>6, <1>7

\* The reader does not notice what the logger does.
LEMMA FollowingKept ==
  ASSUME DiskTyped, Following, Grows, data' \in Seq(Seq(Nat)), UNCHANGED File!readVars,
         readStream # 0 /\ dir'[readPath] = readStream => dir[readPath] = readStream
  PROVE  Following' /\ readStream' \in 0 .. Len(data')
<1>1. /\ readStream' = readStream /\ got' = got /\ readFailed' = readFailed
      /\ spoiled' = spoiled /\ current' = current /\ readPath' = readPath
  BY DEF File!readVars
<1>2. Len(data) \in Nat /\ Len(data') \in Nat /\ Len(data') >= Len(data)
  BY DEF DiskTyped, Grows
<1>3. readStream \in 0 .. Len(data)
  BY DEF DiskTyped
<1>4. ASSUME readStream # 0, ~spoiled
      PROVE  Begins(got, data'[readStream])
  <2>1. readStream \in 1 .. Len(data)
    BY <1>2, <1>3, <1>4
  <2>2. Begins(got, data[readStream]) /\ Begins(data[readStream], data'[readStream])
    BY <1>4, <2>1 DEF Following, Grows
  <2>3. data[readStream] \in Seq(Nat) /\ data'[readStream] \in Seq(Nat)
    <3>1. readStream \in 1 .. Len(data')
      BY <1>2, <2>1
    <3> QED
      BY <2>1, <3>1 DEF DiskTyped
  <2>4. /\ Len(got) \in Nat /\ Len(data[readStream]) \in Nat
        /\ Len(data'[readStream]) \in Nat
    BY <1>4, <2>3 DEF Following
  <2> QED
    BY <2>2, <2>4 DEF Begins
<1>5. Following'
  BY <1>1, <1>4 DEF Following
<1> QED
  BY <1>1, <1>2, <1>3, <1>5

\* Files to which nothing is added keep their units.
LEMMA AddsNothing ==
  ASSUME DiskTyped, Adds(0, <<>>)
  PROVE  \A i \in 1 .. Len(data') :
           File!UnitsOf(i)' = IF i \in 1 .. Len(data) THEN File!UnitsOf(i) ELSE <<>>
<1>1. \A i \in 1 .. Len(data) : File!UnitsOf(i) \in Seq(Nat)
  BY UnitsTyped
<1> SUFFICES ASSUME NEW i \in 1 .. Len(data')
             PROVE  File!UnitsOf(i)' = IF i \in 1 .. Len(data) THEN File!UnitsOf(i) ELSE <<>>
  OBVIOUS
<1> DEFINE u == IF i \in 1 .. Len(data) THEN File!UnitsOf(i) ELSE <<>>
<1>2. File!UnitsOf(i)' = u \o <<>>
  BY DEF Adds
<1>3. u \in Seq(Nat)
  BY <1>1
<1> QED
  BY <1>2, <1>3, ConcatEmptySeq

\* SyncLogger::SyncLogger keeps the invariant: the excess grows with the logger.
LEMMA ConstructKeeps ==
  ASSUME LogFileAssumption, DiskInv, File!Construct
  PROVE  DiskInv'
<1> USE LogFileAssumption
<1>1. DiskTyped /\ Placed /\ Formed /\ Limited /\ Following
  BY DEF DiskInv
<1>2. /\ data' \in Seq(Seq(Nat)) /\ dir' \in [File!Paths -> 0 .. Len(data')]
      /\ dir'[first] \in 1 .. Len(data') /\ stream' = dir'[first]
      /\ dir[first] # 0 => dir'[first] = dir[first]
      /\ dir[first] = 0 => dir'[first] = Len(data) + 1
      /\ \A q \in File!Paths \ {first} : dir'[q] = dir[q]
      /\ Adds(0, <<>>) /\ Grows
      /\ size' = Len(File!UnitsOf(stream)')
  BY <1>1, ConstructDoes
<1>3. /\ path = File!NoPath /\ path' = first /\ loggers' = loggers + 1
      /\ UNCHANGED <<now, first, unflushed, logged, rotations>> /\ UNCHANGED File!readVars
  BY DEF File!Construct, File!history
<1>4. /\ readPath' = readPath /\ readStream' = readStream /\ readFailed' = readFailed
      /\ spoiled' = spoiled /\ current' = current /\ got' = got
  BY <1>3 DEF File!readVars
<1>5. /\ first \in File!Paths /\ first # File!NoPath /\ first[2] = File!LogName
      /\ readPath \in File!Paths /\ File!LogPath \in File!Paths
  BY <1>1, NamedPaths DEF DiskTyped
<1>6. /\ Len(data) \in Nat /\ Len(data') \in Nat /\ loggers \in Nat
      /\ \A p \in File!Paths : dir[p] \in 0 .. Len(data)
  BY <1>1, <1>2 DEF DiskTyped
<1>7. readStream \in 0 .. Len(data)
  BY <1>1 DEF DiskTyped
<1>8. readStream # 0 /\ dir'[readPath] = readStream => dir[readPath] = readStream
  BY <1>2, <1>5, <1>6, <1>7
<1>9. Following' /\ readStream' \in 0 .. Len(data')
  BY <1>1, <1>2, <1>3, <1>8, FollowingKept
<1>10. DiskTyped'
  BY <1>1, <1>2, <1>3, <1>4, <1>6, <1>9 DEF DiskTyped
<1>11. Placed'
  <2>1. \A p, q \in File!Paths : dir'[p] = dir'[q] /\ dir'[p] # 0 => p = q
    <3> SUFFICES ASSUME NEW p \in File!Paths, NEW q \in File!Paths, dir'[p] = dir'[q], dir'[p] # 0
                 PROVE  p = q
      OBVIOUS
    <3>1. \A x \in File!Paths : dir[x] # Len(data) + 1
      BY <1>6
    <3> QED
      BY <1>1, <1>2, <1>5, <3>1 DEF Placed
  <2>2. \A p \in File!Paths : p[2] # File!LogName /\ rotations'[p] = 0 => dir'[p] = 0
    BY <1>1, <1>2, <1>3, <1>5 DEF Placed
  <2>3. stream' # 0 /\ loggers' >= 1
    BY <1>2, <1>3, <1>6
  <2> QED
    BY <1>2, <1>3, <1>5, <2>1, <2>2, <2>3 DEF Placed
<1>12. Formed'
  BY <1>1, <1>2, <1>3, FormKept DEF InForm
<1>13. Limited'
  <2>3. \A i \in 1 .. Len(data) : File!UnitsOf(i) \in Seq(Nat)
    BY <1>1, UnitsTyped
  <2>4. \A i \in 1 .. Len(data') :
          File!UnitsOf(i)' = IF i \in 1 .. Len(data) THEN File!UnitsOf(i) ELSE <<>>
    BY <1>1, <1>2, AddsNothing
  <2>5. /\ File!Excess' = IF first = File!LogPath THEN 0 ELSE 2 * loggers
        /\ File!Excess = IF first = File!LogPath THEN 0 ELSE 2 * (loggers - 1)
    BY <1>3, <1>6 DEF File!Excess
  <2>6. ASSUME NEW i \in 1 .. Len(data')
        PROVE  Len(File!UnitsOf(i)') <= MaxFileSize + 1 + File!Excess'
    <3>1. CASE i \in 1 .. Len(data)
      <4>1. Len(File!UnitsOf(i)) <= MaxFileSize + 1 + File!Excess /\ Len(File!UnitsOf(i)) \in Nat
        BY <1>1, <2>3, <3>1 DEF Limited
      <4>2. Len(File!UnitsOf(i)') = Len(File!UnitsOf(i))
        BY <2>4, <3>1
      <4> QED
        BY <1>6, <2>5, <4>1, <4>2
    <3>2. CASE i \notin 1 .. Len(data)
      <4>1. Len(File!UnitsOf(i)') = 0
        BY <2>4, <3>2
      <4> QED
        BY <1>6, <2>5, <4>1
    <3> QED
      BY <3>1, <3>2
  <2>7. ASSUME first # File!LogPath, dir'[File!LogPath] # 0
        PROVE  Len(File!UnitsOf(dir[File!LogPath])') <= MaxFileSize + 1 + 2 * (loggers' - 2)
    <3>1. PICK i \in 1 .. Len(data) : i = dir[File!LogPath]
      BY <1>2, <1>5, <1>6, <2>7
    <3>2. dir'[File!LogPath] = i /\ i \in 1 .. Len(data')
      BY <1>2, <1>5, <2>7, <3>1
    <3>3. File!UnitsOf(dir[File!LogPath])' = File!UnitsOf(i)'
      BY <3>2 DEF File!UnitsOf
    <3>4. File!UnitsOf(i)' = File!UnitsOf(i) /\
            Len(File!UnitsOf(i)) <= MaxFileSize + 1 + File!Excess
      BY <1>1, <2>4, <3>2 DEF Limited
    <3>5. File!Excess = 2 * (loggers' - 2)
      BY <1>3, <1>6, <2>5, <2>7
    <3> QED
      BY <3>3, <3>4, <3>5
  <2> QED
    BY <1>3, <2>6, <2>7 DEF Limited
<1> QED
  BY <1>9, <1>10, <1>11, <1>12, <1>13 DEF DiskInv

\* Flushing the stream and closing it, which the destructor does, move its units to
\* the disk.
LEMMA FlushKeeps ==
  ASSUME LogFileAssumption, DiskInv, File!Flush \/ File!Destruct
  PROVE  DiskInv'
<1> USE LogFileAssumption
<1>1. DiskTyped /\ Placed /\ Formed /\ Limited /\ Following
  BY DEF DiskInv
<1>2. /\ path # File!NoPath /\ File!Now(File!WriteOut(File!Disk)) /\ unflushed' = <<>>
      /\ \/ path' = path /\ stream' = stream /\ size' = size
         \/ path' = File!NoPath /\ stream' = 0
      /\ UNCHANGED <<now, first, loggers, logged, rotations>> /\ UNCHANGED File!readVars
  BY <1>1 DEF File!Flush, File!Destruct, File!NoFile, Placed, File!history
<1>3. /\ data' \in Seq(Seq(Nat)) /\ dir' = dir /\ Len(data') = Len(data)
      /\ Adds(0, <<>>) /\ Grows
  BY <1>1, <1>2, FlushDoes
<1>4. /\ readPath' = readPath /\ readStream' = readStream /\ readFailed' = readFailed
      /\ spoiled' = spoiled /\ current' = current /\ got' = got
  BY <1>2 DEF File!readVars
<1>5. Following' /\ readStream' \in 0 .. Len(data')
  BY <1>1, <1>2, <1>3, FollowingKept
<1>6. \A i \in 1 .. Len(data) : File!UnitsOf(i)' = File!UnitsOf(i)
  BY <1>1, <1>3, AddsNothing
<1>7. DiskTyped'
  <2>1. unflushed' \in Seq(Nat)
    BY <1>2
  <2> QED
    BY <1>1, <1>2, <1>3, <1>4, <1>5, <2>1 DEF DiskTyped
<1>8. Placed'
  <2>1. CASE path' = path /\ stream' = stream /\ size' = size
    <3>1. stream \in 1 .. Len(data)
      BY <1>1, <1>2, WritesOut
    <3>2. File!UnitsOf(stream)' = File!UnitsOf(stream)
      <4>1. PICK i \in 1 .. Len(data) : i = stream
        BY <3>1
      <4>2. File!UnitsOf(stream)' = File!UnitsOf(i)' /\ File!UnitsOf(stream) = File!UnitsOf(i)
        BY <2>1, <4>1 DEF File!UnitsOf
      <4> QED
        BY <1>6, <4>2
    <3> QED
      BY <1>1, <1>2, <1>3, <2>1, <3>2 DEF Placed
  <2>2. CASE path' = File!NoPath /\ stream' = 0
    BY <1>1, <1>2, <1>3, <2>2 DEF Placed
  <2> QED
    BY <1>2, <2>1, <2>2
<1>9. Formed'
  BY <1>1, <1>2, <1>3, FormKept DEF InForm
<1>10. Limited'
  <2>1. File!Excess' = File!Excess
    BY <1>2 DEF File!Excess
  <2>2. \A i \in 1 .. Len(data') : Len(File!UnitsOf(i)') <= MaxFileSize + 1 + File!Excess'
    BY <1>1, <1>3, <1>6, <2>1 DEF Limited
  <2>3. ASSUME path' \notin {File!NoPath, File!LogPath}, dir'[File!LogPath] # 0
        PROVE  Len(File!UnitsOf(dir[File!LogPath])') <= MaxFileSize + 1 + 2 * (loggers' - 2)
    <3>1. path' = path
      BY <1>2, <2>3
    <3>2. PICK i \in 1 .. Len(data) : i = dir[File!LogPath]
      <4>1. File!LogPath \in File!Paths
        BY NamedPaths
      <4>2. dir[File!LogPath] \in 0 .. Len(data) /\ dir[File!LogPath] # 0 /\ Len(data) \in Nat
        BY <1>1, <1>3, <2>3, <4>1 DEF DiskTyped
      <4> QED
        BY <4>2
    <3>3. File!UnitsOf(dir[File!LogPath])' = File!UnitsOf(i)' /\
            File!UnitsOf(dir[File!LogPath]) = File!UnitsOf(i)
      BY <1>3, <3>2 DEF File!UnitsOf
    <3> QED
      BY <1>1, <1>2, <1>3, <1>6, <2>3, <3>1, <3>3 DEF Limited
  <2> QED
    BY <2>2, <2>3 DEF Limited
<1> QED
  BY <1>5, <1>7, <1>8, <1>9, <1>10 DEF DiskInv

\* What the stream held back is gone; the files are the beginnings of what
\* they would have been.
LEMMA KillKeeps ==
  ASSUME LogFileAssumption, DiskInv, File!Kill
  PROVE  DiskInv'
<1> USE LogFileAssumption
<1>1. DiskTyped /\ Placed /\ Formed /\ Limited /\ Following
  BY DEF DiskInv
<1>2. /\ data' = data /\ dir' = dir /\ path' = File!NoPath /\ stream' = 0 /\ unflushed' = <<>>
      /\ UNCHANGED <<now, first, loggers, logged, rotations>> /\ UNCHANGED File!readVars
  BY DEF File!Kill, File!NoFile, File!diskVars
<1>3. /\ readPath' = readPath /\ readStream' = readStream /\ readFailed' = readFailed
      /\ spoiled' = spoiled /\ current' = current /\ got' = got
  BY <1>2 DEF File!readVars
<1>4. \A i \in 1 .. Len(data) : data[i] \in Seq(Nat) /\ File!UnitsOf(i) \in Seq(Nat)
  BY <1>1, UnitsTyped
<1>5. \A i \in 1 .. Len(data) : File!UnitsOf(i)' = data[i]
  BY <1>2, <1>4 DEF File!UnitsOf
<1>6. DiskTyped'
  <2>1. unflushed' \in Seq(Nat)
    BY <1>2
  <2> QED
    BY <1>1, <1>2, <1>3, <2>1 DEF DiskTyped
<1>7. Placed'
  BY <1>1, <1>2 DEF Placed
<1>8. Following'
  BY <1>1, <1>2, <1>3 DEF Following
<1>9. ASSUME NEW i \in 1 .. Len(data)
      PROVE  WellFormed(data[i], logged) /\ Len(data[i]) <= Len(File!UnitsOf(i))
  <2> DEFINE t == IF i = stream THEN unflushed ELSE <<>>
  <2>1. t \in Seq(Nat) /\ data[i] \in Seq(Nat) /\ File!UnitsOf(i) = data[i] \o t
    BY <1>1, <1>4 DEF DiskTyped, File!UnitsOf
  <2>2. WellFormed(data[i] \o t, logged) /\ logged \in Nat
    BY <1>1, <2>1 DEF Formed, DiskTyped
  <2> HIDE DEF t
  <2>3. WellFormed(data[i], logged)
    BY <2>1, <2>2, FormBegins
  <2>4. Len(data[i] \o t) = Len(data[i]) + Len(t) /\ Len(data[i]) \in Nat /\ Len(t) \in Nat
    BY <2>1
  <2> QED
    BY <2>1, <2>3, <2>4
<1>10. Formed'
  BY <1>2, <1>5, <1>9 DEF Formed
<1>11. Limited'
  <2>1. File!Excess' = File!Excess /\ File!Excess \in Int
    BY <1>1, <1>2 DEF File!Excess, DiskTyped
  <2>2. ASSUME NEW i \in 1 .. Len(data)
        PROVE  Len(File!UnitsOf(i)') <= MaxFileSize + 1 + File!Excess'
    <3>1. Len(data[i]) <= Len(File!UnitsOf(i)) /\
            Len(File!UnitsOf(i)) <= MaxFileSize + 1 + File!Excess
      BY <1>1, <1>9 DEF Limited
    <3>2. Len(data[i]) \in Nat /\ Len(File!UnitsOf(i)) \in Nat
      BY <1>4
    <3> QED
      BY <1>5, <2>1, <3>1, <3>2
  <2> QED
    BY <1>2, <2>2 DEF Limited
<1> QED
  BY <1>6, <1>7, <1>8, <1>10, <1>11 DEF DiskInv

\* append() to the file that is open: it has at most the limit.
LEMMA WrittenKeeps ==
  ASSUME LogFileAssumption, DiskInv, path # File!NoPath, logged' = logged + 1,
         UNCHANGED <<now, first, loggers>>, UNCHANGED File!readVars,
         NEW units, File!Written(units), size <= MaxFileSize,
         \/ size = 0 /\ units = <<File!Header, logged'>>
         \/ size # 0 /\ units = <<logged'>>
  PROVE  DiskInv'
<1> USE LogFileAssumption
<1>1. DiskTyped /\ Placed /\ Formed /\ Limited /\ Following
  BY DEF DiskInv
<1>2. /\ logged \in Nat /\ logged' \in Nat /\ units \in Seq(Nat)
      /\ Len(units) = IF size = 0 THEN 2 ELSE 1
  <2>1. logged \in Nat /\ logged' \in Nat /\ File!Header \in Nat
    BY <1>1 DEF DiskTyped, File!Header
  <2>2. CASE size = 0 /\ units = <<File!Header, logged'>>
    BY <2>1, <2>2
  <2>3. CASE size # 0 /\ units = <<logged'>>
    BY <2>1, <2>3
  <2> QED
    BY <2>1, <2>2, <2>3
<1>3. Adds(stream, units) /\ Grows /\ stream \in 1 .. Len(data) /\
        size' = Len(File!UnitsOf(stream)')
  BY <1>1, <1>2, WrittenDoes
<1>4. /\ data' = data /\ dir' = dir /\ path' = path /\ stream' = stream
      /\ rotations' = rotations /\ unflushed' = unflushed \o units
  BY DEF File!Written, File!diskVars
<1>5. /\ readPath' = readPath /\ readStream' = readStream /\ readFailed' = readFailed
      /\ spoiled' = spoiled /\ current' = current /\ got' = got
  BY DEF File!readVars
<1>6. DiskTyped'
  <2>1. unflushed' \in Seq(Nat)
    BY <1>1, <1>2, <1>4 DEF DiskTyped
  <2> QED
    BY <1>1, <1>2, <1>4, <1>5, <2>1 DEF DiskTyped
<1>7. Placed'
  BY <1>1, <1>3, <1>4 DEF Placed
<1>8. Following'
  BY <1>1, <1>4, <1>5 DEF Following
<1>9. Formed'
  <2>1. size = Len(File!UnitsOf(stream))
    BY <1>1 DEF Placed
  <2>2. size # 0 => File!UnitsOf(stream) # <<>>
    BY <2>1
  <2>3. InForm(stream, units)
    BY <1>3, <2>2 DEF InForm
  <2> QED
    BY <1>1, <1>3, <2>3, FormKept
<1>10. Limited'
  <2>1. PICK n \in 1 .. Len(data) : n = stream
    BY <1>3
  <2>2. \A i \in 1 .. Len(data) :
          Len(File!UnitsOf(i)') = Len(File!UnitsOf(i)) + (IF i = n THEN Len(units) ELSE 0)
    <3>1. Adds(n, units)
      BY <1>3, <2>1
    <3> QED
      BY <1>1, <1>2, <1>4, <3>1, AddsLengths
  <2>3. \A i \in 1 .. Len(data) : Len(File!UnitsOf(i)) \in Nat
    <3>1. \A i \in 1 .. Len(data) : File!UnitsOf(i) \in Seq(Nat)
      BY <1>1, UnitsTyped
    <3> QED
      BY <3>1
  <2>4. size = Len(File!UnitsOf(n)) /\ path \in {first, File!LogPath} /\ loggers >= 1
    BY <1>1, <2>1 DEF Placed
  <2>5. File!Excess' = File!Excess /\ File!Excess \in Nat /\ loggers \in Nat
    BY <1>1, <2>4 DEF File!Excess, DiskTyped
  <2>6. ASSUME NEW i \in 1 .. Len(data)
        PROVE  Len(File!UnitsOf(i)') <= MaxFileSize + 1 + File!Excess'
    <3>1. Len(File!UnitsOf(i)') = Len(File!UnitsOf(i)) + (IF i = n THEN Len(units) ELSE 0)
      BY <2>2
    <3>2. CASE i = n
      <4>1. Len(File!UnitsOf(i)') = size + Len(units) /\ size \in Nat
        BY <2>3, <2>4, <3>1, <3>2
      <4>2. size + Len(units) <= MaxFileSize + 1
        BY <1>2, <4>1
      <4> QED
        BY <1>2, <2>5, <4>1, <4>2
    <3>3. CASE i # n
      <4>1. Len(File!UnitsOf(i)') = Len(File!UnitsOf(i))
        BY <2>3, <3>1, <3>3
      <4> QED
        BY <1>1, <2>5, <4>1 DEF Limited
    <3> QED
      BY <3>2, <3>3
  <2>7. ASSUME path \notin {File!NoPath, File!LogPath}, dir[File!LogPath] # 0
        PROVE  Len(File!UnitsOf(dir[File!LogPath])') <= MaxFileSize + 1 + 2 * (loggers - 2)
    <3>1. File!LogPath \in File!Paths /\ path \in File!Paths
      BY <1>1, NamedPaths, WritesOut
    <3>2. dir[File!LogPath] \in 0 .. Len(data) /\ Len(data) \in Nat
      BY <1>1, <3>1 DEF DiskTyped
    <3>3. PICK i \in 1 .. Len(data) : i = dir[File!LogPath]
      BY <2>7, <3>2
    <3>4. i # n
      BY <1>1, <2>1, <2>7, <3>1, <3>3 DEF Placed
    <3>5. File!UnitsOf(dir[File!LogPath])' = File!UnitsOf(i)' /\
            File!UnitsOf(dir[File!LogPath]) = File!UnitsOf(i)
      BY <1>4, <3>3 DEF File!UnitsOf
    <3>6. Len(File!UnitsOf(i)') = Len(File!UnitsOf(i))
      BY <2>2, <2>3, <3>4
    <3>7. Len(File!UnitsOf(i)) <= MaxFileSize + 1 + 2 * (loggers - 2)
      BY <1>1, <2>7, <3>5 DEF Limited
    <3> QED
      BY <3>5, <3>6, <3>7
  <2> QED
    BY <1>4, <2>6, <2>7 DEF Limited
<1> QED
  BY <1>6, <1>7, <1>8, <1>9, <1>10 DEF DiskInv

\* A rotation keeps the invariant: the file it continues has room for a header
\* and a record.
LEMMA RotateKeeps ==
  ASSUME LogFileAssumption, DiskInv, path # File!NoPath, logged' = logged + 1,
         UNCHANGED <<now, first, loggers>>, UNCHANGED File!readVars, File!Rotate(logged')
  PROVE  DiskInv'
<1> USE LogFileAssumption
<1>1. DiskTyped /\ Placed /\ Formed /\ Limited /\ Following
  BY DEF DiskInv
<1>2. logged \in Nat /\ logged' \in Nat /\ File!Header \in Nat
  BY <1>1 DEF DiskTyped, File!Header
<1>3. PICK name : name = <<path[1], now>>
  OBVIOUS
<1>4. /\ name \in File!Paths /\ name[2] # File!LogName /\ path \in File!Paths
      /\ path[2] = File!LogName
      /\ data' \in Seq(Seq(Nat)) /\ dir' \in [File!Paths -> 0 .. Len(data')]
      /\ path' = File!LogPath /\ stream' = dir'[File!LogPath] /\ stream' \in 1 .. Len(data')
      /\ stream' # stream /\ stream \in 1 .. Len(data) /\ dir'[name] = stream
      /\ rotations' = [rotations EXCEPT ![name] = @ + 1]
      /\ path # File!LogPath => dir'[path] = 0
      /\ path # File!LogPath /\ dir[File!LogPath] # 0 => dir'[File!LogPath] = dir[File!LogPath]
      /\ path = File!LogPath \/ dir[File!LogPath] = 0 => dir'[File!LogPath] = Len(data) + 1
      /\ \A q \in File!Paths \ {name, path, File!LogPath} : dir'[q] = dir[q]
      /\ Adds(stream', <<File!Header, logged'>>) /\ Grows
      /\ size' = Len(File!UnitsOf(stream)')
  BY <1>1, <1>2, <1>3, RotateDoes
<1>5. unflushed' = <<File!Header, logged'>>
  BY DEF File!Rotate
<1>6. /\ readPath' = readPath /\ readStream' = readStream /\ readFailed' = readFailed
      /\ spoiled' = spoiled /\ current' = current /\ got' = got
  BY DEF File!readVars
<1>7. /\ File!LogPath \in File!Paths /\ File!LogPath # File!NoPath
      /\ File!LogPath[2] = File!LogName
      /\ readPath \in File!Paths /\ readPath[2] = File!LogName
  BY <1>1, NamedPaths DEF DiskTyped
<1>8. /\ Len(data) \in Nat /\ Len(data') \in Nat /\ loggers \in Nat
      /\ \A p \in File!Paths : dir[p] \in 0 .. Len(data) /\ dir[p] # Len(data) + 1
      /\ rotations \in [File!Paths -> Nat] /\ readStream \in 0 .. Len(data)
  <2>1. Len(data) \in Nat /\ Len(data') \in Nat /\ loggers \in Nat
    <3>1. Len(data') \in Nat
      BY <1>4
    <3>2. Len(data) \in Nat /\ loggers \in Nat
      BY <1>1 DEF DiskTyped
    <3> QED
      BY <3>1, <3>2
  <2>2. \A p \in File!Paths : dir[p] \in 0 .. Len(data)
    BY <1>1 DEF DiskTyped
  <2>3. \A p \in File!Paths : dir[p] # Len(data) + 1
    BY <2>1, <2>2
  <2>4. rotations \in [File!Paths -> Nat] /\ readStream \in 0 .. Len(data)
    BY <1>1 DEF DiskTyped
  <2> QED
    BY <2>1, <2>2, <2>3, <2>4
<1>9. /\ dir[path] = stream /\ stream # 0 /\ path \in {first, File!LogPath} /\ loggers >= 1
      /\ \A p, q \in File!Paths : dir[p] = dir[q] /\ dir[p] # 0 => p = q
      /\ \A p \in File!Paths : p[2] # File!LogName /\ rotations[p] = 0 => dir[p] = 0
  BY <1>1 DEF Placed
<1>10. readStream # 0 /\ dir'[readPath] = readStream => dir[readPath] = readStream
  <2>1. readPath # name
    BY <1>4, <1>7
  <2>2. readStream # Len(data) + 1
    BY <1>8
  <2>3. CASE readPath = File!LogPath
    BY <1>4, <2>2, <2>3
  <2>4. CASE readPath # File!LogPath /\ readPath = path
    BY <1>4, <2>4
  <2>5. CASE readPath \notin {name, path, File!LogPath}
    BY <1>4, <1>7, <2>5
  <2> QED
    BY <2>1, <2>3, <2>4, <2>5
<1>11. Following' /\ readStream' \in 0 .. Len(data')
  BY <1>1, <1>4, <1>10, FollowingKept
<1>12. DiskTyped'
  <2>1. rotations' \in [File!Paths -> Nat]
    <3>1. /\ rotations \in [File!Paths -> Nat] /\ name \in File!Paths
          /\ rotations' = [rotations EXCEPT ![name] = @ + 1]
      BY <1>4, <1>8
    <3> QED
      BY <3>1
  <2>2. unflushed' \in Seq(Nat)
    BY <1>2, <1>5
  <2> QED
    BY <1>1, <1>2, <1>4, <1>6, <1>11, <2>1, <2>2 DEF DiskTyped
<1>13. Placed'
  <2>1. \A p, q \in File!Paths : dir'[p] = dir'[q] /\ dir'[p] # 0 => p = q
    <3> SUFFICES ASSUME NEW p \in File!Paths, NEW q \in File!Paths, dir'[p] = dir'[q], dir'[p] # 0
                 PROVE  p = q
      OBVIOUS
    <3>1. ASSUME NEW x \in File!Paths \ {name, File!LogPath}, dir'[x] # 0
          PROVE  dir'[x] = dir[x] /\ dir[x] # stream
      <4>1. x # path
        BY <1>4, <3>1
      <4>2. dir'[x] = dir[x]
        BY <1>4, <4>1
      <4>3. path \in File!Paths /\ dir[path] = stream
        BY <1>4, <1>9
      <4> QED
        BY <1>9, <3>1, <4>1, <4>2, <4>3
    <3>2. /\ name # File!LogPath /\ dir'[name] = stream /\ dir'[File!LogPath] # stream
          /\ dir'[File!LogPath] = dir[File!LogPath] \/ dir'[File!LogPath] = Len(data) + 1
      BY <1>4, <1>7
    <3>3. CASE p \notin {name, File!LogPath} /\ q \notin {name, File!LogPath}
      <4>1. dir[p] = dir[q] /\ dir[p] # 0
        BY <3>1, <3>3
      <4> QED
        BY <1>9, <4>1
    <3>4. ASSUME NEW x \in File!Paths \ {name, File!LogPath}, dir'[x] # 0
          PROVE  dir'[x] # dir'[name] /\ dir'[x] # dir'[File!LogPath]
      <4>1. dir'[x] = dir[x] /\ dir[x] # stream /\ dir[x] # Len(data) + 1
        BY <1>8, <3>1, <3>4
      <4>2. dir[x] # dir[File!LogPath]
        BY <1>7, <1>9, <3>4, <4>1
      <4> QED
        BY <3>2, <4>1, <4>2
    <3> QED
      BY <3>2, <3>3, <3>4
  <2>2. \A p \in File!Paths : p[2] # File!LogName /\ rotations'[p] = 0 => dir'[p] = 0
    <3> SUFFICES ASSUME NEW p \in File!Paths, p[2] # File!LogName, rotations'[p] = 0
                 PROVE  dir'[p] = 0
      OBVIOUS
    <3>1. p # name
      BY <1>4, <1>8
    <3>2. p # path /\ p # File!LogPath
      BY <1>4, <1>7
    <3> QED
      BY <1>4, <1>8, <1>9, <3>1, <3>2
  <2>3. stream' # 0
    BY <1>4, <1>8
  <2> QED
    BY <1>4, <1>7, <1>9, <2>1, <2>2, <2>3 DEF Placed
<1>14. Formed'
  <2>1. PICK n \in 1 .. Len(data') : n = stream'
    BY <1>4
  <2>2. Adds(n, <<File!Header, logged'>>) /\ InForm(n, <<File!Header, logged'>>)
    BY <1>4, <2>1 DEF InForm
  <2> QED
    BY <1>1, <2>2, FormKept
<1>15. Limited'
  <2>1. PICK n \in 1 .. Len(data') : n = stream'
    BY <1>4
  <2>2. <<File!Header, logged'>> \in Seq(Nat) /\ Len(<<File!Header, logged'>>) = 2
    BY <1>2
  <2>3. \A i \in 1 .. Len(data') :
          /\ i \in 1 .. Len(data) =>
               Len(File!UnitsOf(i)') = Len(File!UnitsOf(i)) + (IF i = n THEN 2 ELSE 0)
          /\ i \notin 1 .. Len(data) => Len(File!UnitsOf(i)') = IF i = n THEN 2 ELSE 0
    <3> DEFINE units == <<File!Header, logged'>>
    <3>1. units \in Seq(Nat) /\ Len(units) = 2 /\ Adds(n, units)
      BY <1>4, <2>1, <2>2
    <3> HIDE DEF units
    <3>2. \A i \in 1 .. Len(data') :
            /\ i \in 1 .. Len(data) =>
                 Len(File!UnitsOf(i)') = Len(File!UnitsOf(i)) + (IF i = n THEN Len(units) ELSE 0)
            /\ i \notin 1 .. Len(data) => Len(File!UnitsOf(i)') = IF i = n THEN Len(units) ELSE 0
      BY <1>1, <3>1, AddsLengths
    <3> QED
      BY <3>1, <3>2
  <2>4. \A i \in 1 .. Len(data) : Len(File!UnitsOf(i)) \in Nat
    <3>1. \A i \in 1 .. Len(data) : File!UnitsOf(i) \in Seq(Nat)
      BY <1>1, UnitsTyped
    <3> QED
      BY <3>1
  <2>5. File!Excess' = File!Excess /\ File!Excess \in Nat
    BY <1>8, <1>9 DEF File!Excess
  <2>6. ASSUME NEW i \in 1 .. Len(data')
        PROVE  Len(File!UnitsOf(i)') <= MaxFileSize + 1 + File!Excess'
    <3>1. CASE i # n /\ i \in 1 .. Len(data)
      <4>1. Len(File!UnitsOf(i)') = Len(File!UnitsOf(i))
        BY <2>3, <2>4, <3>1
      <4> QED
        BY <1>1, <2>5, <3>1, <4>1 DEF Limited
    <3>2. CASE i \notin 1 .. Len(data)
      <4>1. Len(File!UnitsOf(i)') = 0 \/ Len(File!UnitsOf(i)') = 2
        BY <2>3, <3>2
      <4>2. MaxFileSize \in Nat /\ 2 <= MaxFileSize + 1
        OBVIOUS
      <4>3. PICK x \in Nat : x = File!Excess'
        BY <2>5
      <4>4. 0 <= MaxFileSize + 1 + x /\ 2 <= MaxFileSize + 1 + x
        BY <4>2
      <4> QED
        BY <4>1, <4>3, <4>4
    <3>3. CASE i = n /\ i \in 1 .. Len(data)
      <4>1. path # File!LogPath /\ dir[File!LogPath] = i /\ dir[File!LogPath] # 0
        <5>1. dir'[File!LogPath] = i /\ i # Len(data) + 1 /\ i # 0
          <6>1. i \in 1 .. Len(data) /\ Len(data) \in Nat
            BY <1>8, <3>3
          <6>2. dir'[File!LogPath] = i
            BY <1>4, <2>1, <3>3
          <6> QED
            BY <6>1, <6>2
        <5> QED
          BY <1>4, <5>1
      <4>2. path # File!NoPath /\ first # File!LogPath
        BY <1>9, <4>1
      <4>3. File!UnitsOf(dir[File!LogPath]) = File!UnitsOf(i)
        BY <4>1
      <4>4. Len(File!UnitsOf(i)) <= MaxFileSize + 1 + 2 * (loggers - 2)
        BY <1>1, <4>1, <4>2, <4>3 DEF Limited
      <4>5. File!Excess' = 2 * (loggers - 1)
        BY <2>5, <4>2 DEF File!Excess
      <4>6. Len(File!UnitsOf(i)') = Len(File!UnitsOf(i)) + 2 /\ Len(File!UnitsOf(i)) \in Nat
        BY <2>3, <2>4, <3>3
      <4> QED
        BY <1>8, <4>4, <4>5, <4>6
    <3> QED
      BY <3>1, <3>2, <3>3
  <2> QED
    BY <1>4, <2>6 DEF Limited
<1> QED
  BY <1>11, <1>12, <1>13, <1>14, <1>15 DEF DiskInv

-----------------------------------------------------------------------------
(* What read(len) puts together, full buffer by full buffer.               *)

\* f holds what InBuffer computes for the first n buffers.
Fills(f, s, n) ==
  f = [i \in 0 .. n |->
         IF i = 0 THEN <<>>
         ELSE LET read == File!FirstUnits(SubSeq(s, (i - 1) * BufferSize + 1, Len(s)), BufferSize)
              IN read \o SubSeq(f[i - 1], Len(read) + 1, Len(f[i - 1]))]

\* The i-th full buffer of a sequence.
FullBuffer(s, i) == IF i = 0 THEN <<>> ELSE SubSeq(s, (i - 1) * BufferSize + 1, i * BufferSize)

\* The first units of a rest of a sequence.
LEMMA RestBegins ==
  ASSUME NEW S, NEW s \in Seq(S), NEW a \in Nat, NEW k \in Nat, a + k <= Len(s)
  PROVE  File!FirstUnits(SubSeq(s, a + 1, Len(s)), k) = SubSeq(s, a + 1, a + k)
BY DEF File!FirstUnits, File!Smaller

\* The multiples of the buffer's size up to a limit.
LEMMA Multiples ==
  ASSUME LogFileAssumption, NEW n \in Nat
  PROVE  \A i \in 0 .. n :
           /\ i * BufferSize \in Nat /\ i * BufferSize <= n * BufferSize
           /\ i # 0 => /\ (i - 1) * BufferSize \in Nat
                       /\ (i - 1) * BufferSize + BufferSize = i * BufferSize
<1>1. BufferSize \in Nat
  BY LogFileAssumption
<1> SUFFICES ASSUME NEW i \in 0 .. n
             PROVE  /\ i * BufferSize \in Nat /\ i * BufferSize <= n * BufferSize
                    /\ i # 0 => /\ (i - 1) * BufferSize \in Nat
                                /\ (i - 1) * BufferSize + BufferSize = i * BufferSize
  OBVIOUS
<1>2. i \in Nat /\ i <= n
  OBVIOUS
<1>3. i * BufferSize \in Nat /\ i * BufferSize <= n * BufferSize
  BY <1>1, <1>2
<1>4. ASSUME i # 0
      PROVE  /\ (i - 1) * BufferSize \in Nat
             /\ (i - 1) * BufferSize + BufferSize = i * BufferSize
  BY <1>1, <1>2, <1>4
<1> QED
  BY <1>3, <1>4

\* A full buffer replaces all of the one before.
LEMMA BufferFilled ==
  ASSUME LogFileAssumption, NEW S, NEW s \in Seq(S), NEW n \in Nat, n * BufferSize <= Len(s),
         NEW i \in 1 .. n, NEW b, b = FullBuffer(s, i - 1)
  PROVE  LET read == File!FirstUnits(SubSeq(s, (i - 1) * BufferSize + 1, Len(s)), BufferSize)
         IN read \o SubSeq(b, Len(read) + 1, Len(b)) = FullBuffer(s, i)
<1> DEFINE read == File!FirstUnits(SubSeq(s, (i - 1) * BufferSize + 1, Len(s)), BufferSize)
<1>1. Len(s) \in Nat /\ BufferSize \in Nat \ {0} /\ i \in 0 .. n /\ i - 1 \in 0 .. n /\ i # 0
  BY LogFileAssumption
<1>2. /\ i * BufferSize \in Nat /\ i * BufferSize <= Len(s)
      /\ (i - 1) * BufferSize \in Nat
      /\ (i - 1) * BufferSize + BufferSize = i * BufferSize
  BY <1>1, Multiples
<1>3. read = SubSeq(s, (i - 1) * BufferSize + 1, i * BufferSize)
  <2> DEFINE x == (i - 1) * BufferSize
             y == i * BufferSize
  <2>1. x \in Nat /\ x + BufferSize = y /\ x + BufferSize <= Len(s) /\ BufferSize \in Nat
    BY <1>1, <1>2
  <2> HIDE DEF x, y
  <2>2. File!FirstUnits(SubSeq(s, x + 1, Len(s)), BufferSize) = SubSeq(s, x + 1, x + BufferSize)
    BY <2>1, RestBegins
  <2> QED
    BY <2>1, <2>2 DEF x, y
<1>4. FullBuffer(s, i) = read
  BY <1>1, <1>3 DEF FullBuffer
<1>5. read \in Seq(S) /\ Len(read) = BufferSize
  <2> DEFINE x == (i - 1) * BufferSize
             y == i * BufferSize
  <2>1. x \in Nat /\ y \in Nat /\ x + BufferSize = y /\ y <= Len(s) /\ read = SubSeq(s, x + 1, y)
    BY <1>2, <1>3
  <2> HIDE DEF x, y, read
  <2> QED
    BY <1>1, <2>1
<1>6. b \in Seq(S) /\ Len(b) \in {0, BufferSize}
  <2>1. CASE i = 1
    <3>1. b = <<>>
      BY <2>1 DEF FullBuffer
    <3>2. <<>> \in Seq(S) /\ Len(<<>>) = 0
      OBVIOUS
    <3> QED
      BY <3>1, <3>2
  <2>2. CASE i # 1
    <3> DEFINE x == (i - 2) * BufferSize
               y == (i - 1) * BufferSize
    <3>1. i - 1 # 0 /\ (i - 1) - 1 = i - 2
      BY <1>1, <2>2
    <3>2. x \in Nat /\ y \in Nat /\ x + BufferSize = y
      BY <1>1, <3>1, Multiples
    <3>3. b = SubSeq(s, x + 1, y)
      BY <3>1 DEF FullBuffer
    <3>4. y <= Len(s)
      BY <1>1, <1>2
    <3> HIDE DEF x, y
    <3>5. SubSeq(s, x + 1, y) \in Seq(S) /\ Len(SubSeq(s, x + 1, y)) = BufferSize
      BY <1>1, <3>2, <3>4
    <3> QED
      BY <3>3, <3>5
  <2> QED
    BY <2>1, <2>2
<1> HIDE DEF read
<1>7. SubSeq(b, Len(read) + 1, Len(b)) = <<>>
  BY <1>1, <1>5, <1>6
<1>8. read \o <<>> = read
  BY <1>5
<1> QED
  BY <1>4, <1>7, <1>8 DEF read

\* The buffer of a string read after its n-th full read.
LEMMA InBufferIs ==
  ASSUME LogFileAssumption, NEW S, NEW s \in Seq(S), NEW n \in Nat, n * BufferSize <= Len(s)
  PROVE  File!InBuffer(s, n) = FullBuffer(s, n)
<1> DEFINE g == [i \in 0 .. n |-> FullBuffer(s, i)]
<1>1. Fills(g, s, n)
  <2>1. ASSUME NEW i \in 0 .. n
        PROVE  g[i] = IF i = 0 THEN <<>>
                      ELSE LET read == File!FirstUnits(
                                         SubSeq(s, (i - 1) * BufferSize + 1, Len(s)),
                                                  BufferSize)
                           IN read \o SubSeq(g[i - 1], Len(read) + 1, Len(g[i - 1]))
    <3>1. CASE i = 0
      BY <3>1 DEF FullBuffer
    <3>2. CASE i # 0
      <4>1. i \in 1 .. n /\ i - 1 \in 0 .. n
        BY <3>2
      <4>2. g[i - 1] = FullBuffer(s, i - 1) /\ g[i] = FullBuffer(s, i)
        BY <4>1
      <4> HIDE DEF g
      <4> QED
        BY <3>2, <4>1, <4>2, BufferFilled
    <3> QED
      BY <3>1, <3>2
  <2>2. g = [i \in 0 .. n |-> g[i]]
    OBVIOUS
  <2> HIDE DEF g
  <2> QED
    BY <2>1, <2>2 DEF Fills
<1>2. ASSUME NEW f, Fills(f, s, n)
      PROVE  f[n] = FullBuffer(s, n)
  <2> DEFINE T == {i \in 0 .. n : f[i] # FullBuffer(s, i)}
  <2>1. \A i \in 0 .. n :
          f[i] = IF i = 0 THEN <<>>
                 ELSE LET read == File!FirstUnits(SubSeq(s, (i - 1) * BufferSize + 1, Len(s)),
                                             BufferSize)
                      IN read \o SubSeq(f[i - 1], Len(read) + 1, Len(f[i - 1]))
    BY <1>2 DEF Fills
  <2>2. ASSUME T # {}
        PROVE  FALSE
    <3>1. PICK i \in T : \A j \in T : i <= j
      <4>1. T \in SUBSET Nat
        OBVIOUS
      <4> QED
        BY <2>2, <4>1, FirstMember
    <3>2. i \in 0 .. n /\ f[i] # FullBuffer(s, i)
      OBVIOUS
    <3>3. i # 0
      BY <2>1, <3>2 DEF FullBuffer
    <3>4. i \in 1 .. n /\ i - 1 \in 0 .. n /\ ~(i <= i - 1)
      BY <3>2, <3>3
    <3>5. f[i - 1] = FullBuffer(s, i - 1)
      BY <3>1, <3>4
    <3>6. LET read == File!FirstUnits(SubSeq(s, (i - 1) * BufferSize + 1, Len(s)), BufferSize)
          IN read \o SubSeq(f[i - 1], Len(read) + 1, Len(f[i - 1])) = FullBuffer(s, i)
      BY <3>4, <3>5, BufferFilled
    <3>7. f[i] = LET read == File!FirstUnits(
                              SubSeq(s, (i - 1) * BufferSize + 1, Len(s)), BufferSize)
                 IN read \o SubSeq(f[i - 1], Len(read) + 1, Len(f[i - 1]))
      BY <2>1, <3>2, <3>3
    <3> QED
      BY <3>2, <3>6, <3>7
  <2> QED
    BY <2>2
<1>3. \E f : Fills(f, s, n)
  BY <1>1
<1> HIDE DEF g
<1>4. File!InBuffer(s, n) = (CHOOSE f : Fills(f, s, n))[n]
  BY DEF File!InBuffer, Fills
<1> QED
  BY <1>2, <1>3, <1>4

\* f holds what InBuffers computes from the first n full buffers.
Joins(f, s, n) ==
  f = [i \in 0 .. n |-> IF i = 0 THEN <<>> ELSE f[i - 1] \o File!InBuffer(s, i)]

\* The next full buffer continues the string.
LEMMA BufferJoined ==
  ASSUME LogFileAssumption, NEW S, NEW s \in Seq(S), NEW n \in Nat, n * BufferSize <= Len(s),
         NEW i \in 1 .. n
  PROVE  SubSeq(s, 1, (i - 1) * BufferSize) \o File!InBuffer(s, i) = SubSeq(s, 1, i * BufferSize)
<1> DEFINE x == (i - 1) * BufferSize
           y == i * BufferSize
<1>1. Len(s) \in Nat /\ i \in 0 .. n /\ i \in Nat /\ i # 0
  OBVIOUS
<1>2. x \in Nat /\ y \in Nat /\ x <= y /\ y <= Len(s)
  BY <1>1, Multiples, LogFileAssumption
<1>3. File!InBuffer(s, i) = SubSeq(s, x + 1, y)
  <2>1. File!InBuffer(s, i) = FullBuffer(s, i)
    BY <1>1, <1>2, InBufferIs
  <2> QED
    BY <1>1, <2>1 DEF FullBuffer
<1> HIDE DEF x, y
<1>4. SubSeq(s, 1, x) \o SubSeq(s, x + 1, y) = SubSeq(s, 1, y)
  BY <1>1, <1>2
<1> QED
  BY <1>3, <1>4 DEF x, y

\* A string read that does not meet the end of the file is what the file has
\* next.
LEMMA InBuffersIs ==
  ASSUME LogFileAssumption, NEW S, NEW s \in Seq(S), NEW n \in Nat, n <= Len(s)
  PROVE  File!InBuffers(s, n) = SubSeq(s, 1, n)
<1> DEFINE q == n \div BufferSize
           g == [i \in 0 .. q |-> SubSeq(s, 1, i * BufferSize)]
<1>1. q \in Nat /\ q * BufferSize \in Nat /\ q * BufferSize <= n /\ BufferSize \in Nat
  BY LogFileAssumption
<1>2. Len(s) \in Nat /\ q * BufferSize <= Len(s)
  BY <1>1
<1>3. File!InBuffers(s, n) = (CHOOSE f : Joins(f, s, q))[q]
                          \o File!FirstUnits(SubSeq(s, q * BufferSize + 1, Len(s)),
                            n - q * BufferSize)
  BY DEF File!InBuffers, Joins
<1>4. SubSeq(s, 1, 0 * BufferSize) = <<>>
  BY <1>1
<1> HIDE DEF q
<1>5. Joins(g, s, q)
  <2>1. ASSUME NEW i \in 0 .. q
        PROVE  g[i] = IF i = 0 THEN <<>> ELSE g[i - 1] \o File!InBuffer(s, i)
    <3>1. CASE i = 0
      BY <1>4, <3>1
    <3>2. CASE i # 0
      <4>1. i \in 1 .. q /\ i - 1 \in 0 .. q
        BY <1>1, <3>2
      <4>2. g[i - 1] = SubSeq(s, 1, (i - 1) * BufferSize) /\ g[i] = SubSeq(s, 1, i * BufferSize)
        BY <4>1
      <4> HIDE DEF g
      <4> QED
        BY <1>1, <1>2, <3>2, <4>1, <4>2, BufferJoined
    <3> QED
      BY <3>1, <3>2
  <2>2. g = [i \in 0 .. q |-> g[i]]
    OBVIOUS
  <2> HIDE DEF g
  <2> QED
    BY <2>1, <2>2 DEF Joins
<1>6. ASSUME NEW f, Joins(f, s, q)
      PROVE  f[q] = SubSeq(s, 1, q * BufferSize)
  <2> DEFINE T == {i \in 0 .. q : f[i] # SubSeq(s, 1, i * BufferSize)}
  <2>1. \A i \in 0 .. q : f[i] = IF i = 0 THEN <<>> ELSE f[i - 1] \o File!InBuffer(s, i)
    BY <1>6 DEF Joins
  <2>2. ASSUME T # {}
        PROVE  FALSE
    <3>1. PICK i \in T : \A j \in T : i <= j
      <4>1. T \in SUBSET Nat
        OBVIOUS
      <4> QED
        BY <2>2, <4>1, FirstMember
    <3>2. i \in 0 .. q /\ f[i] # SubSeq(s, 1, i * BufferSize)
      OBVIOUS
    <3>3. i # 0
      BY <1>4, <2>1, <3>2
    <3>4. i \in 1 .. q /\ i - 1 \in 0 .. q /\ ~(i <= i - 1)
      BY <1>1, <3>2, <3>3
    <3>5. f[i - 1] = SubSeq(s, 1, (i - 1) * BufferSize)
      BY <3>1, <3>4
    <3>6. f[i - 1] \o File!InBuffer(s, i) = SubSeq(s, 1, i * BufferSize)
      BY <1>1, <1>2, <3>4, <3>5, BufferJoined
    <3>7. f[i] = f[i - 1] \o File!InBuffer(s, i)
      BY <2>1, <3>2, <3>3
    <3> QED
      BY <3>2, <3>6, <3>7
  <2> QED
    BY <1>1, <2>2
<1>7. (CHOOSE f : Joins(f, s, q))[q] = SubSeq(s, 1, q * BufferSize)
  <2>1. \E f : Joins(f, s, q)
    BY <1>5
  <2> HIDE DEF g
  <2> QED
    BY <1>6, <2>1
<1> DEFINE x == q * BufferSize
<1>8. x \in Nat /\ x <= n /\ n - x \in Nat /\ x + (n - x) = n
  BY <1>1
<1> HIDE DEF x
<1>9. File!FirstUnits(SubSeq(s, x + 1, Len(s)), n - x) = SubSeq(s, x + 1, n)
  BY <1>8, RestBegins
<1>10. SubSeq(s, 1, x) \o SubSeq(s, x + 1, n) = SubSeq(s, 1, n)
  BY <1>8
<1> QED
  BY <1>3, <1>7, <1>9, <1>10 DEF x

-----------------------------------------------------------------------------
(* The steps that write nothing.                                           *)

\* Steps that leave the files and the logger alone.
LEMMA NothingWritten ==
  ASSUME DiskInv, UNCHANGED <<dir, data, first, loggers, path, stream, size, unflushed,
           rotations>>,
         logged' \in {logged, logged + 1}
  PROVE  Placed' /\ Formed' /\ Limited'
<1>1. DiskTyped /\ Placed /\ Formed /\ Limited
  BY DEF DiskInv
<1>2. \A i : File!UnitsOf(i)' = File!UnitsOf(i)
  BY DEF File!UnitsOf
<1>3. File!UnitsOf(stream)' = File!UnitsOf(stream) /\
        File!UnitsOf(dir[File!LogPath])' = File!UnitsOf(dir[File!LogPath])
  BY DEF File!UnitsOf
<1>4. Placed'
  BY <1>1, <1>3 DEF Placed
<1>5. File!Excess' = File!Excess
  BY DEF File!Excess
<1>6. Limited'
  BY <1>1, <1>2, <1>3, <1>5 DEF Limited
<1>7. Formed'
  <2> SUFFICES ASSUME NEW i \in 1 .. Len(data)
               PROVE  WellFormed(File!UnitsOf(i), logged')
    BY <1>2 DEF Formed
  <2>1. WellFormed(File!UnitsOf(i), logged) /\ logged \in Nat
    BY <1>1 DEF Formed, DiskTyped
  <2>2. WellFormed(File!UnitsOf(i), logged + 1)
    BY <2>1, FormAppends
  <2> QED
    BY <2>1, <2>2
<1> QED
  BY <1>4, <1>6, <1>7

\* The clock.
LEMMA TickKeeps ==
  ASSUME DiskInv, LogFileAssumption, File!Tick
  PROVE  DiskInv'
<1>1. /\ UNCHANGED <<dir, data, first, loggers, path, stream, size, unflushed, rotations, logged>>
      /\ UNCHANGED <<readPath, readStream, readFailed, current, got, spoiled>>
      /\ now < MaxTime /\ now' = now + 1
  BY DEF File!Tick, File!diskVars, File!writerVars, File!history, File!readVars
<1>2. Placed' /\ Formed' /\ Limited'
  BY <1>1, NothingWritten
<1>3. DiskTyped'
  <2>1. now' \in 1 .. MaxTime
    BY <1>1, LogFileAssumption DEF DiskInv, DiskTyped
  <2> QED
    BY <1>1, <2>1 DEF DiskInv, DiskTyped
<1>4. Following'
  BY <1>1 DEF DiskInv, Following
<1> QED
  BY <1>2, <1>3, <1>4 DEF DiskInv

\* log() without a logger, of a record that is too large, or of one that is
\* written.
LEMMA LogKeeps ==
  ASSUME LogFileAssumption, DiskInv, File!Log
  PROVE  DiskInv'
<1> USE LogFileAssumption
<1>1. logged' = logged + 1 /\ UNCHANGED <<now, first, loggers>> /\ UNCHANGED File!readVars
  BY DEF File!Log
<1>2. CASE UNCHANGED <<File!diskVars, path, stream, size, unflushed, rotations>>
  <2>1. UNCHANGED <<dir, data, first, loggers, path, stream, size, unflushed, rotations>>
    BY <1>1, <1>2 DEF File!diskVars
  <2>2. Placed' /\ Formed' /\ Limited'
    BY <1>1, <2>1, NothingWritten
  <2>3. UNCHANGED <<readPath, readStream, readFailed, current, got, spoiled>>
    BY <1>1 DEF File!readVars
  <2>4. DiskTyped' /\ Following'
    BY <1>1, <2>1, <2>3 DEF DiskInv, DiskTyped, Following
  <2> QED
    BY <2>2, <2>4 DEF DiskInv
<1>3. CASE path # File!NoPath /\ File!AppendRecord(logged')
  <2>1. size \in Nat
    <3>1. DiskTyped /\ Placed
      BY DEF DiskInv
    <3>2. PICK i \in 1 .. Len(data) : i = stream
      BY <1>3, <3>1, WritesOut
    <3>3. File!UnitsOf(i) \in Seq(Nat) /\ File!UnitsOf(stream) = File!UnitsOf(i)
      BY <3>1, <3>2, UnitsTyped
    <3> QED
      BY <1>3, <3>1, <3>3 DEF Placed
  <2>2. CASE size = 0 /\ File!Written(<<File!Header, logged'>>)
    <3> DEFINE units == <<File!Header, logged'>>
    <3>1. size = 0 /\ units = <<File!Header, logged'>> /\ File!Written(units) /\
            size <= MaxFileSize
      BY <2>2
    <3> HIDE DEF units
    <3> QED
      BY <1>1, <1>3, <3>1, WrittenKeeps
  <2>3. CASE size > MaxFileSize /\ File!Rotate(logged')
    BY <1>1, <1>3, <2>3, RotateKeeps
  <2>4. CASE size # 0 /\ size <= MaxFileSize /\ File!Written(<<logged'>>)
    <3> DEFINE units == <<logged'>>
    <3>1. size # 0 /\ units = <<logged'>> /\ File!Written(units) /\ size <= MaxFileSize
      BY <2>4
    <3> HIDE DEF units
    <3> QED
      BY <1>1, <1>3, <3>1, WrittenKeeps
  <2> QED
    BY <1>3, <2>2, <2>3, <2>4 DEF File!AppendRecord, File!RotatesAt
<1> QED
  BY <1>1, <1>2, <1>3 DEF File!Log

-----------------------------------------------------------------------------
(* The steps of the reader.                                                *)

\* What is read next continues what was read.
LEMMA ReadingOn ==
  ASSUME NEW S, NEW g \in Seq(S), NEW d \in Seq(S), Begins(g, d), NEW n \in Nat
  PROVE  LET left == SubSeq(d, Len(g) + 1, Len(d))
             units == File!FirstUnits(left, n)
         IN /\ left \in Seq(S) /\ Len(left) = Len(d) - Len(g)
            /\ units \in Seq(S) /\ units = SubSeq(left, 1, File!Smaller(n, Len(d) - Len(g)))
            /\ Len(units) = File!Smaller(n, Len(d) - Len(g))
            /\ g \o units \in Seq(S) /\ Len(g \o units) = Len(g) + Len(units)
            /\ Begins(g \o units, d)
<1> DEFINE left == SubSeq(d, Len(g) + 1, Len(d))
           m == File!Smaller(n, Len(d) - Len(g))
           units == File!FirstUnits(left, n)
<1>1. Len(g) \in Nat /\ Len(d) \in Nat /\ Len(g) <= Len(d)
  BY DEF Begins
<1>2. /\ left \in Seq(S) /\ Len(left) = Len(d) - Len(g)
      /\ \A j \in 1 .. Len(left) : left[j] = d[Len(g) + j]
  BY <1>1
<1>3. m \in Nat /\ m <= Len(left)
  BY <1>1, <1>2 DEF File!Smaller
<1>4. units = SubSeq(left, 1, m)
  BY <1>2 DEF File!FirstUnits
<1> HIDE DEF left, m, units
<1>5. /\ units \in Seq(S) /\ Len(units) = m
      /\ \A j \in 1 .. m : units[j] = left[j]
  BY <1>2, <1>3, <1>4
<1>6. /\ g \o units \in Seq(S) /\ Len(g \o units) = Len(g) + m
      /\ \A j \in 1 .. Len(g) + m :
           (g \o units)[j] = IF j <= Len(g) THEN g[j] ELSE units[j - Len(g)]
  <2>1. g \o units \in Seq(S) /\ Len(g \o units) = Len(g) + Len(units)
    <3>1. g \in Seq(S) /\ units \in Seq(S)
      BY <1>5
    <3> QED
      BY <3>1, ConcatProperties
  <2>2. \A j \in 1 .. Len(g) + Len(units) :
          (g \o units)[j] = IF j <= Len(g) THEN g[j] ELSE units[j - Len(g)]
    BY <1>1, <1>3, <1>5
  <2> QED
    BY <1>5, <2>1, <2>2
<1>7. ASSUME NEW j \in 1 .. Len(g) + m
      PROVE  (g \o units)[j] = d[j]
  <2>1. CASE j <= Len(g)
    <3>1. j \in 1 .. Len(g)
      BY <1>1, <2>1
    <3> QED
      BY <1>6, <2>1, <3>1 DEF Begins
  <2>2. CASE ~(j <= Len(g))
    <3>1. j - Len(g) \in 1 .. m /\ j - Len(g) \in 1 .. Len(left) /\ Len(g) + (j - Len(g)) = j
      BY <1>1, <1>3, <2>2
    <3>2. units[j - Len(g)] = left[j - Len(g)] /\ left[j - Len(g)] = d[Len(g) + (j - Len(g))]
      BY <1>2, <1>5, <3>1
    <3> QED
      BY <1>6, <2>2, <3>1, <3>2
  <2> QED
    BY <2>1, <2>2
<1>8. Begins(g \o units, d)
  <2>1. Len(g) + m <= Len(d)
    BY <1>1, <1>2, <1>3
  <2>2. Len(g \o units) = Len(g) + m
    BY <1>6
  <2> QED
    BY <1>7, <2>1, <2>2 DEF Begins
<1> QED
  BY <1>2, <1>4, <1>5, <1>6, <1>8 DEF left, m, units

\* Where the reader is before a read that is not spoiled.
LEMMA ReaderBefore ==
  ASSUME LogFileAssumption, DiskInv, dir[readPath] # 0, ~spoiled, ~readFailed
  PROVE  /\ File!Opened \in 1 .. Len(data) /\ data[File!Opened] \in Seq(Nat) /\ got \in Seq(Nat)
         /\ Begins(got, data[File!Opened])
         /\ File!Left(File!Opened) =
            SubSeq(data[File!Opened], Len(got) + 1, Len(data[File!Opened]))
         /\ dir[readPath] = File!Opened => File!Position = Len(got)
<1>1. DiskTyped /\ Following
  BY DEF DiskInv
<1>2. readPath \in File!Paths /\ dir[readPath] \in 1 .. Len(data)
  <2>1. readPath \in File!Paths
    BY <1>1, NamedPaths DEF DiskTyped
  <2>2. dir[readPath] \in 0 .. Len(data) /\ Len(data) \in Nat
    BY <1>1, <2>1 DEF DiskTyped
  <2> QED
    BY <2>1, <2>2
<1>3. File!Opened \in 1 .. Len(data)
  BY <1>1, <1>2 DEF File!Opened, DiskTyped
<1>4. data[File!Opened] \in Seq(Nat) /\ got \in Seq(Nat)
  BY <1>1, <1>3 DEF DiskTyped, Following
<1>5. File!Left(File!Opened) = SubSeq(data[File!Opened], Len(got) + 1, Len(data[File!Opened]))
  BY DEF File!Left
<1>6. CASE readStream = 0
  <2>1. got = <<>> /\ File!Position = 0 /\ Len(got) = 0
    BY <1>1, <1>6 DEF Following, File!Position
  <2>2. Begins(got, data[File!Opened])
    BY <1>4, <2>1 DEF Begins
  <2> QED
    BY <1>3, <1>4, <1>5, <2>1, <2>2
<1>7. CASE readStream # 0
  <2>1. File!Opened = readStream /\ File!Position = current
    BY <1>7 DEF File!Opened, File!Position
  <2> QED
    BY <1>1, <1>3, <1>4, <1>5, <1>7, <2>1 DEF Following
<1> QED
  BY <1>6, <1>7

\* A read keeps the invariant if it returns the first units that are left and
\* moves the position by as many, unless it spoils the reader.
LEMMA ReadsKeeps ==
  ASSUME LogFileAssumption, DiskInv, NEW n \in Nat, NEW units, NEW position \in Int,
         NEW exact \in BOOLEAN, File!Reads(n, units, position, exact),
         ~spoiled' =>
           /\ units = File!FirstUnits(File!Left(File!Opened), n)
           /\ dir[readPath] = File!Opened => position = File!Position + Len(units)
  PROVE  DiskInv'
<1>1. /\ UNCHANGED <<dir, data, first, loggers, path, stream, size, unflushed, rotations>>
      /\ UNCHANGED <<now, readPath, logged>>
      /\ dir[readPath] # 0
      /\ readStream' = File!Opened /\ got' = got \o units /\ current' = position
      /\ readFailed' = (readFailed \/ n > Len(File!Left(File!Opened)))
      /\ spoiled' = (spoiled \/ readFailed \/ (exact /\ readFailed'))
  BY DEF File!Reads, File!diskVars, File!writerVars, File!history
<1>2. Placed' /\ Formed' /\ Limited'
  BY <1>1, NothingWritten
<1>3. File!Opened \in 1 .. Len(data)
  <2>1. readPath \in File!Paths /\ DiskTyped
    BY NamedPaths DEF DiskInv, DiskTyped
  <2>2. dir[readPath] \in 1 .. Len(data)
    BY <1>1, <2>1 DEF DiskTyped
  <2> QED
    BY <2>1, <2>2 DEF File!Opened, DiskTyped
<1>4. readFailed' \in BOOLEAN /\ spoiled' \in BOOLEAN
  <2>1. readFailed \in BOOLEAN /\ spoiled \in BOOLEAN
    BY DEF DiskInv, DiskTyped
  <2>2. readFailed' \in BOOLEAN
    BY <1>1, <2>1
  <2> QED
    BY <1>1, <2>1, <2>2
<1>5. DiskTyped'
  BY <1>1, <1>3, <1>4 DEF DiskInv, DiskTyped
<1>6. readStream' # 0 /\ Len(data) \in Nat
  BY <1>1, <1>3 DEF DiskInv, DiskTyped
<1>7. ASSUME spoiled'
      PROVE  Following'
  BY <1>6, <1>7 DEF Following
<1>8. ASSUME ~spoiled'
      PROVE  Following'
  <2>1. ~spoiled /\ ~readFailed
    <3>1. readFailed \in BOOLEAN /\ spoiled \in BOOLEAN
      BY DEF DiskInv, DiskTyped
    <3> QED
      BY <1>1, <1>8, <3>1
  <2> DEFINE d == data[File!Opened]
             left == File!Left(File!Opened)
  <2>2. /\ d \in Seq(Nat) /\ got \in Seq(Nat) /\ Begins(got, d)
        /\ left = SubSeq(d, Len(got) + 1, Len(d))
        /\ dir[readPath] = File!Opened => File!Position = Len(got)
    BY <1>1, <2>1, ReaderBefore
  <2>3. units = File!FirstUnits(left, n)
    BY <1>8
  <2> HIDE DEF d, left
  <2>4. /\ got \o units \in Seq(Nat) /\ Len(got \o units) = Len(got) + Len(units)
        /\ Begins(got \o units, d)
    BY <2>2, <2>3, ReadingOn
  <2>5. d = data'[readStream'] /\ dir'[readPath'] = dir[readPath]
    BY <1>1 DEF d
  <2>6. dir'[readPath'] = readStream' => current' = Len(got')
    BY <1>1, <1>8, <2>2, <2>4, <2>5
  <2>7. got' \in Seq(Nat) /\ Begins(got', data'[readStream'])
    BY <1>1, <2>4, <2>5
  <2> QED
    BY <1>6, <2>6, <2>7 DEF Following
<1> QED
  BY <1>2, <1>5, <1>7, <1>8 DEF DiskInv

\* The positions of the reader, and the size of the file it asks for.
LEMMA ReaderTyped ==
  ASSUME LogFileAssumption, DiskInv, dir[readPath] # 0
  PROVE  /\ File!FileSize \in Nat /\ File!Position \in Int
         /\ dir[readPath] = File!Opened => File!FileSize = Len(data[File!Opened])
<1>1. readPath \in File!Paths /\ DiskTyped
  BY NamedPaths DEF DiskInv, DiskTyped
<1>2. dir[readPath] \in 1 .. Len(data)
  BY <1>1 DEF DiskTyped
<1>3. data[dir[readPath]] \in Seq(Nat)
  BY <1>1, <1>2 DEF DiskTyped
<1> QED
  BY <1>1, <1>3 DEF File!FileSize, File!Position, DiskTyped

\* read(char*, len)
LEMMA ReadCharsKeeps ==
  ASSUME LogFileAssumption, DiskInv, NEW len \in Nat, File!ReadChars(len)
  PROVE  DiskInv'
<1> DEFINE units == File!FirstUnits(File!Left(File!Opened), len)
           position == File!Smaller(File!Position + File!Smaller(len, File!FileSize),
             File!FileSize)
<1>1. File!Reads(len, units, position, FALSE)
  BY DEF File!ReadChars
<1>2. dir[readPath] # 0 /\ spoiled' = (spoiled \/ readFailed \/ (FALSE /\ readFailed'))
  BY <1>1 DEF File!Reads
<1>3. File!FileSize \in Nat /\ File!Position \in Int
  BY <1>2, ReaderTyped
<1>4. position \in Int
  BY <1>3 DEF File!Smaller
<1>5. ASSUME ~spoiled', dir[readPath] = File!Opened
      PROVE  position = File!Position + Len(units)
  <2>1. ~spoiled /\ ~readFailed
    <3>1. readFailed \in BOOLEAN /\ spoiled \in BOOLEAN
      BY DEF DiskInv, DiskTyped
    <3> QED
      BY <1>2, <1>5, <3>1
  <2> DEFINE d == data[File!Opened]
             left == File!Left(File!Opened)
  <2>2. /\ d \in Seq(Nat) /\ got \in Seq(Nat) /\ Begins(got, d)
        /\ left = SubSeq(d, Len(got) + 1, Len(d))
        /\ File!Position = Len(got)
    BY <1>2, <1>5, <2>1, ReaderBefore
  <2>3. File!FileSize = Len(d)
    BY <1>2, <1>5, ReaderTyped
  <2>4. units = File!FirstUnits(left, len)
    OBVIOUS
  <2> HIDE DEF d, left, units
  <2>5. Len(units) = File!Smaller(len, Len(d) - Len(got))
    BY <2>2, <2>4, ReadingOn
  <2>6. Len(got) \in Nat /\ Len(d) \in Nat /\ Len(got) <= Len(d)
    BY <2>2 DEF Begins
  <2> QED
    BY <2>2, <2>3, <2>5, <2>6 DEF File!Smaller
<1> HIDE DEF position
<1> QED
  BY <1>1, <1>4, <1>5, ReadsKeeps

\* read(len)
LEMMA ReadStringKeeps ==
  ASSUME LogFileAssumption, DiskInv, NEW len \in Nat, File!ReadString(len)
  PROVE  DiskInv'
<1> DEFINE n == IF len = 0 \/ len > File!FileSize THEN File!FileSize ELSE len
           units == File!InBuffers(File!Left(File!Opened), n)
<1>1. File!Reads(n, units, File!Position + n, TRUE)
  BY DEF File!ReadString
<1>2. /\ dir[readPath] # 0
      /\ readFailed' = (readFailed \/ n > Len(File!Left(File!Opened)))
      /\ spoiled' = (spoiled \/ readFailed \/ readFailed')
  BY <1>1 DEF File!Reads
<1>3. n \in Nat /\ File!Position + n \in Int
  BY <1>2, ReaderTyped
<1> HIDE DEF n
<1>4. ASSUME ~spoiled'
      PROVE  /\ units = File!FirstUnits(File!Left(File!Opened), n)
             /\ dir[readPath] = File!Opened => File!Position + n = File!Position + Len(units)
  <2> DEFINE d == data[File!Opened]
             left == File!Left(File!Opened)
  <2>1. ~spoiled /\ ~readFailed /\ ~(n > Len(left))
    <3>1. readFailed \in BOOLEAN /\ spoiled \in BOOLEAN
      BY DEF DiskInv, DiskTyped
    <3> QED
      BY <1>2, <1>4, <3>1
  <2>2. /\ d \in Seq(Nat) /\ got \in Seq(Nat) /\ Begins(got, d)
        /\ left = SubSeq(d, Len(got) + 1, Len(d))
    BY <1>2, <2>1, ReaderBefore
  <2>3. units = File!InBuffers(left, n)
    OBVIOUS
  <2> HIDE DEF d, left, units
  <2>4. left \in Seq(Nat) /\ Len(left) \in Nat /\ n <= Len(left)
    <3>1. left \in Seq(Nat)
      BY <2>2, ReadingOn
    <3>2. Len(left) \in Nat
      BY <3>1
    <3> QED
      BY <1>3, <2>1, <3>1, <3>2 DEF left
  <2>5. units = SubSeq(left, 1, n)
    BY <1>3, <2>3, <2>4, InBuffersIs
  <2>6. File!FirstUnits(left, n) = SubSeq(left, 1, n) /\ Len(SubSeq(left, 1, n)) = n
    BY <1>3, <2>4 DEF File!FirstUnits, File!Smaller
  <2> QED
    BY <2>5, <2>6 DEF left
<1> HIDE DEF units
<1> QED
  BY <1>1, <1>3, <1>4, ReadsKeeps

\* open() and filesize() of the reader.
LEMMA AskSizeKeeps ==
  ASSUME LogFileAssumption, DiskInv, File!AskSize
  PROVE  DiskInv'
<1>1. /\ UNCHANGED <<dir, data, first, loggers, path, stream, size, unflushed, rotations>>
      /\ UNCHANGED <<now, readPath, logged, readFailed, got, spoiled>>
      /\ dir[readPath] # 0 /\ readStream = 0
      /\ readStream' = dir[readPath] /\ current' = 0
  BY DEF File!AskSize, File!Opened, File!diskVars, File!writerVars, File!history
<1>2. Placed' /\ Formed' /\ Limited'
  BY <1>1, NothingWritten
<1>3. readPath \in File!Paths /\ DiskTyped /\ Following
  BY NamedPaths DEF DiskInv, DiskTyped
<1>4. dir[readPath] \in 1 .. Len(data) /\ data[dir[readPath]] \in Seq(Nat)
  BY <1>1, <1>3 DEF DiskTyped
<1>5. DiskTyped'
  BY <1>1, <1>3, <1>4 DEF DiskTyped
<1>6. got = <<>> /\ Len(got) = 0
  BY <1>1, <1>3 DEF Following
<1>7. Begins(got, data[dir[readPath]])
  BY <1>4, <1>6 DEF Begins
<1>8. Following'
  BY <1>1, <1>3, <1>6, <1>7 DEF Following
<1> QED
  BY <1>2, <1>5, <1>8 DEF DiskInv

-----------------------------------------------------------------------------
\* The invariant of the files and of their reader.
LEMMA DiskInvHolds == File!Spec => []DiskInv
<1> USE LogFileAssumption
<1>1. File!Init => DiskInv
  <2> SUFFICES ASSUME File!Init
               PROVE  DiskInv
    OBVIOUS
  <2>1. Len(data) = 0 /\ data \in Seq(Seq(Nat)) /\ unflushed = <<>> /\ unflushed \in Seq(Nat)
    BY DEF File!Init
  <2>2. /\ dir = [p \in File!Paths |-> 0] /\ rotations = [p \in File!Paths |-> 0]
        /\ path = File!NoPath /\ stream = 0
    BY DEF File!Init
  <2>3. DiskTyped
    <3>1. dir \in [File!Paths -> 0 .. Len(data)] /\ rotations \in [File!Paths -> Nat]
      BY <2>1, <2>2
    <3>2. now \in 1 .. MaxTime /\ readStream \in 0 .. Len(data) /\ current \in Int
      BY <2>1 DEF File!Init
    <3>3. /\ first \in File!Dirs \X {File!LogName} /\ readPath \in File!Dirs \X {File!LogName}
          /\ loggers \in Nat /\ logged \in Nat
          /\ readFailed \in BOOLEAN /\ spoiled \in BOOLEAN
      BY DEF File!Init
    <3> QED
      BY <2>1, <3>1, <3>2, <3>3 DEF DiskTyped
  <2>4. Placed
    BY <2>1, <2>2 DEF Placed
  <2>5. Formed
    BY <2>1 DEF Formed
  <2>6. Limited
    BY <2>1, <2>2 DEF Limited
  <2>7. Following
    BY DEF File!Init, Following
  <2> QED
    BY <2>3, <2>4, <2>5, <2>6, <2>7 DEF DiskInv
<1>2. DiskInv /\ [File!Next]_(File!vars) => DiskInv'
  <2> SUFFICES ASSUME DiskInv, [File!Next]_(File!vars)
               PROVE  DiskInv'
    OBVIOUS
  <2>1. CASE File!Construct
    BY <2>1, ConstructKeeps
  <2>2. CASE File!Flush \/ File!Destruct
    BY <2>2, FlushKeeps
  <2>3. CASE File!Kill
    BY <2>3, KillKeeps
  <2>4. CASE File!Log
    BY <2>4, LogKeeps
  <2>5. CASE File!Tick
    BY <2>5, TickKeeps
  <2>6. CASE File!AskSize
    BY <2>6, AskSizeKeeps
  <2>7. ASSUME NEW len \in 0 .. MaxFileSize, File!ReadChars(len) \/ File!ReadString(len)
        PROVE  DiskInv'
    BY <2>7, ReadCharsKeeps, ReadStringKeeps
  <2>8. CASE UNCHANGED File!vars
    <3>1. /\ UNCHANGED <<dir, data, first, loggers, path, stream, size, unflushed, rotations>>
          /\ UNCHANGED <<now, logged, readPath, readStream, readFailed, current, got, spoiled>>
      BY <2>8 DEF File!vars, File!diskVars, File!writerVars, File!history, File!readVars
    <3>2. Placed' /\ Formed' /\ Limited'
      BY <3>1, NothingWritten
    <3>3. DiskTyped' /\ Following'
      BY <3>1 DEF DiskInv, DiskTyped, Following
    <3> QED
      BY <3>2, <3>3 DEF DiskInv
  <2> QED
    BY <2>1, <2>2, <2>3, <2>4, <2>5, <2>6, <2>7, <2>8 DEF File!Next
<1> QED
  BY <1>1, <1>2, PTL DEF File!Spec

\* Every file that has a name is one of the files.
LEMMA FilesNamed ==
  ASSUME LogFileAssumption, DiskTyped
  PROVE  \A i \in File!Files : i \in 1 .. Len(data) /\ i # 0
BY DEF File!Files, DiskTyped

\* A log file begins with its header and has its records in the order of the
\* calls, and is not longer than the limit and what a logger that opens it
\* again may add (SyncLogger::append).
THEOREM LogFilesAreWellFormed == File!Spec => []FilesAreWellFormed
<1>1. DiskInv => File!FilesAreWellFormed
  <2> SUFFICES ASSUME DiskInv, NEW i \in File!Files
               PROVE  LET units == File!UnitsOf(i)
                      IN /\ units # <<>> => units[1] = File!Header
                         /\ \A j, k \in DOMAIN units :
                              j < k /\ units[j] # File!Header /\ units[k] # File!Header =>
                                units[j] < units[k]
                         /\ Len(units) <= MaxFileSize + 1 + File!Excess
    BY DEF File!FilesAreWellFormed
  <2>1. i \in 1 .. Len(data)
    BY LogFileAssumption, FilesNamed DEF DiskInv
  <2> DEFINE units == File!UnitsOf(i)
  <2>2. WellFormed(units, logged) /\ Len(units) <= MaxFileSize + 1 + File!Excess
    BY <2>1 DEF DiskInv, Formed, Limited
  <2> HIDE DEF units
  <2>3. DOMAIN units = 1 .. Len(units)
    BY <2>2 DEF WellFormed
  <2>4. /\ units # <<>> => units[1] = File!Header
        /\ \A j, k \in DOMAIN units :
             j < k /\ units[j] # File!Header /\ units[k] # File!Header => units[j] < units[k]
        /\ Len(units) <= MaxFileSize + 1 + File!Excess
    BY <2>2, <2>3 DEF WellFormed
  <2> QED
    BY <2>4 DEF units
<1>2. File!FilesAreWellFormed => FilesAreWellFormed
  BY DEF File!FilesAreWellFormed, FilesAreWellFormed, File!Files, Files, File!Paths, Paths,
         File!Dirs, Dirs, File!UnitsOf, UnitsOf, File!Header, Header, File!Excess, Excess,
         File!LogPath, LogPath, File!LogName, LogName
<1> QED
  BY <1>1, <1>2, DiskInvHolds, PTL

\* What the FileReader returned is the file from its beginning up to current(),
\* until the reader is spoiled or the file has another name (FileReader::read).
THEOREM LogReaderFollows == File!Spec => []ReaderFollows
<1>1. DiskInv => File!ReaderFollows
  <2> SUFFICES ASSUME DiskInv, readStream # 0, ~spoiled, dir[readPath] = readStream
               PROVE  current = Len(got) /\ got = File!FirstUnits(data[readStream], current)
    BY DEF File!ReaderFollows
  <2> DEFINE d == data[readStream]
  <2>1. /\ got \in Seq(Nat) /\ Begins(got, d) /\ current = Len(got)
        /\ readStream \in 1 .. Len(data) /\ d \in Seq(Nat)
    BY DEF DiskInv, DiskTyped, Following
  <2> HIDE DEF d
  <2>2. got = File!FirstUnits(d, Len(got))
    <3>1. Len(got) \in Nat /\ Len(d) \in Nat /\ Len(got) <= Len(d)
      BY <2>1 DEF Begins
    <3>2. File!FirstUnits(d, Len(got)) = SubSeq(d, 1, Len(got))
      BY <3>1 DEF File!FirstUnits, File!Smaller
    <3>3. /\ SubSeq(d, 1, Len(got)) \in Seq(Nat) /\ Len(SubSeq(d, 1, Len(got))) = Len(got)
          /\ \A j \in 1 .. Len(got) : SubSeq(d, 1, Len(got))[j] = d[j]
      BY <2>1, <3>1
    <3>4. \A j \in 1 .. Len(got) : got[j] = SubSeq(d, 1, Len(got))[j]
      BY <2>1, <3>3 DEF Begins
    <3> QED
      BY <2>1, <3>2, <3>3, <3>4, SeqEqual
  <2> QED
    BY <2>1, <2>2 DEF d
<1>2. File!ReaderFollows => ReaderFollows
  BY DEF File!ReaderFollows, ReaderFollows, File!FirstUnits, FirstUnits, File!Smaller, Smaller
<1> QED
  BY <1>1, <1>2, DiskInvHolds, PTL

-----------------------------------------------------------------------------
(* No record is lost.                                                      *)

\* The members of a concatenation.
LEMMA RangeOfConcat ==
  ASSUME NEW S, NEW a \in Seq(S), NEW b \in Seq(S)
  PROVE  File!Range(a \o b) = File!Range(a) \cup File!Range(b)
<1>1. /\ a \o b \in Seq(S) /\ Len(a \o b) = Len(a) + Len(b)
      /\ Len(a) \in Nat /\ Len(b) \in Nat
      /\ DOMAIN a = 1 .. Len(a) /\ DOMAIN b = 1 .. Len(b)
      /\ DOMAIN (a \o b) = 1 .. Len(a) + Len(b)
  OBVIOUS
<1>2. \A j \in 1 .. Len(a) + Len(b) :
        (a \o b)[j] = IF j <= Len(a) THEN a[j] ELSE b[j - Len(a)]
  OBVIOUS
<1>3. ASSUME NEW j \in 1 .. Len(a) + Len(b)
      PROVE  (a \o b)[j] \in File!Range(a) \cup File!Range(b)
  <2>1. CASE j <= Len(a)
    <3>1. j \in DOMAIN a
      BY <1>1, <2>1
    <3> QED
      BY <1>2, <2>1, <3>1 DEF File!Range
  <2>2. CASE ~(j <= Len(a))
    <3>1. j - Len(a) \in DOMAIN b
      BY <1>1, <2>2
    <3> QED
      BY <1>2, <2>2, <3>1 DEF File!Range
  <2> QED
    BY <2>1, <2>2
<1>4. ASSUME NEW j \in 1 .. Len(a)
      PROVE  a[j] \in File!Range(a \o b)
  <2>1. j \in DOMAIN (a \o b) /\ (a \o b)[j] = a[j]
    BY <1>1, <1>2
  <2> QED
    BY <2>1 DEF File!Range
<1>5. ASSUME NEW j \in 1 .. Len(b)
      PROVE  b[j] \in File!Range(a \o b)
  <2>1. Len(a) + j \in 1 .. Len(a) + Len(b) /\ ~(Len(a) + j <= Len(a)) /\
          (Len(a) + j) - Len(a) = j
    BY <1>1
  <2>2. Len(a) + j \in DOMAIN (a \o b) /\ (a \o b)[Len(a) + j] = b[j]
    BY <1>1, <1>2, <2>1
  <2> QED
    BY <2>2 DEF File!Range
<1> QED
  BY <1>1, <1>3, <1>4, <1>5 DEF File!Range

\* A record of a file, with what the stream holds back.
IsHeld(u) == u # File!Header /\ \E i \in File!Files : u \in File!Range(File!UnitsOf(i))

\* What the stream holds back belongs to a file.
LEMMA FoundIsHeld == DiskInv => /\ \A u : u \in File!Found <=> IsHeld(u)
                                /\ \A i \in File!Files : i \in 1 .. Len(data)
<1> SUFFICES ASSUME DiskInv
             PROVE  /\ \A u : u \in File!Found <=> IsHeld(u)
                    /\ \A i \in File!Files : i \in 1 .. Len(data)
  OBVIOUS
<1>1. DiskTyped /\ Placed
  BY DEF DiskInv
<1>2. \A i \in File!Files : i \in 1 .. Len(data)
  BY <1>1, LogFileAssumption, FilesNamed
<1>3. ASSUME NEW i \in File!Files
      PROVE  File!Range(File!UnitsOf(i)) = File!Range(data[i]) \cup
               (IF i = stream THEN File!Range(unflushed) ELSE {})
  <2>1. data[i] \in Seq(Nat) /\ unflushed \in Seq(Nat) /\ <<>> \in Seq(Nat)
    BY <1>1, <1>2 DEF DiskTyped
  <2>2. File!Range(data[i] \o unflushed) = File!Range(data[i]) \cup File!Range(unflushed)
    BY <2>1, RangeOfConcat
  <2>3. data[i] \o <<>> = data[i]
    BY <2>1
  <2> QED
    BY <2>2, <2>3 DEF File!UnitsOf
<1>4. stream \in File!Files \/ File!Range(unflushed) = {}
  <2>1. CASE path = File!NoPath
    BY <1>1, <2>1 DEF Placed, File!Range
  <2>2. CASE path # File!NoPath
    BY <1>1, <2>2, LogFileAssumption, WritesOut DEF Placed, File!Files
  <2> QED
    BY <2>1, <2>2
<1> DEFINE U(i) == File!Range(File!UnitsOf(i))
           D(i) == File!Range(data[i])
           R == File!Range(unflushed)
<1>5. \A u : IsHeld(u) <=> u # File!Header /\ \E i \in File!Files : u \in U(i)
  BY DEF IsHeld
<1>6. \A u : u \in File!Found <=> u # File!Header /\ (u \in R \/ \E i \in File!Files : u \in D(i))
  <2>1. File!Found = ((UNION {D(i) : i \in File!Files}) \cup R) \ {File!Header}
    BY DEF File!Found
  <2> HIDE DEF D, R
  <2>2. \A u : u \in (UNION {D(i) : i \in File!Files}) <=> \E i \in File!Files : u \in D(i)
    BY Zenon
  <2> DEFINE T == UNION {D(i) : i \in File!Files}
  <2>3. File!Found = (T \cup R) \ {File!Header}
    BY <2>1, Zenon
  <2>4. \A u : u \in T <=> \E i \in File!Files : u \in D(i)
    BY <2>2, Zenon
  <2> HIDE DEF T
  <2> QED
    BY <2>3, <2>4
<1>7. \A i \in File!Files : U(i) = D(i) \cup (IF i = stream THEN R ELSE {})
  BY <1>3
<1>8. stream \in File!Files \/ R = {}
  BY <1>4
<1> HIDE DEF U, D, R
<1>9. \A u : u \in File!Found <=> IsHeld(u)
  BY <1>5, <1>6, <1>7, <1>8
<1> QED
  BY <1>2, <1>9

\* The same of the next state.
LEMMA FoundIsHeldNext ==
  ASSUME DiskInv'
  PROVE  /\ \A u : u \in File!Found' <=> IsHeld(u)'
         /\ \A i \in File!Files' : i \in 1 .. Len(data')
<1>1. (DiskInv => /\ \A u : u \in File!Found <=> IsHeld(u)
                  /\ \A i \in File!Files : i \in 1 .. Len(data))'
  BY FoundIsHeld, PTL
<1> QED
  BY <1>1

\* Every file keeps a name, and a name that is new leads to a new file.
FilesStay ==
  /\ File!Files \subseteq File!Files'
  /\ \A i \in File!Files' : i \in File!Files \/ i \notin 1 .. Len(data)

\* What is added to the files is found in addition.
LEMMA FoundGrows ==
  ASSUME LogFileAssumption, DiskInv, DiskInv', NEW f, NEW units \in Seq(Nat), Adds(f, units),
         FilesStay, units # <<>> => f \in File!Files'
  PROVE  File!Found' = File!Found \cup (File!Range(units) \ {File!Header})
<1>1. \A i \in File!Files : i \in 1 .. Len(data)
  BY FoundIsHeld
<1>2. \A i \in File!Files' : i \in 1 .. Len(data')
  BY FoundIsHeldNext
<1>3. File!Range(<<>>) = {}
  BY DEF File!Range
<1>4. ASSUME NEW i \in File!Files'
      PROVE  File!Range(File!UnitsOf(i)') =
               (IF i \in File!Files THEN File!Range(File!UnitsOf(i)) ELSE {})
                                    \cup (IF i = f THEN File!Range(units) ELSE {})
  <2> DEFINE u == IF i \in 1 .. Len(data) THEN File!UnitsOf(i) ELSE <<>>
             a == IF i = f THEN units ELSE <<>>
  <2>1. File!UnitsOf(i)' = u \o a
    BY <1>2 DEF Adds
  <2>2. u \in Seq(Nat) /\ a \in Seq(Nat)
    <3>1. \A k \in 1 .. Len(data) : File!UnitsOf(k) \in Seq(Nat)
      BY UnitsTyped DEF DiskInv
    <3> QED
      BY <3>1
  <2>3. /\ File!Range(u) = IF i \in File!Files THEN File!Range(File!UnitsOf(i)) ELSE {}
        /\ File!Range(a) = IF i = f THEN File!Range(units) ELSE {}
    BY <1>1, <1>3 DEF FilesStay
  <2> HIDE DEF u, a
  <2>4. File!Range(u \o a) = File!Range(u) \cup File!Range(a)
    BY <2>2, RangeOfConcat
  <2> QED
    BY <2>1, <2>3, <2>4
<1> DEFINE U(i) == File!Range(File!UnitsOf(i))
           V(i) == File!Range(File!UnitsOf(i)')
           R == File!Range(units)
<1>5. \A i \in File!Files' : V(i) = (IF i \in File!Files THEN U(i) ELSE {}) \cup
        (IF i = f THEN R ELSE {})
  BY <1>4
<1>6. \A u : u \in File!Found <=> u # File!Header /\ \E i \in File!Files : u \in U(i)
  BY FoundIsHeld DEF IsHeld
<1>7. \A u : u \in File!Found' <=> u # File!Header /\ \E i \in File!Files' : u \in V(i)
  BY FoundIsHeldNext DEF IsHeld
<1>8. R # {} => f \in File!Files'
  BY <1>3
<1>9. File!Files \subseteq File!Files'
  BY DEF FilesStay
<1> HIDE DEF U, V, R
<1>10. \A u : u \in File!Found' <=> u \in File!Found \/ (u \in R /\ u # File!Header)
  BY <1>5, <1>6, <1>7, <1>8, <1>9
<1> QED
  BY <1>10 DEF R

\* Directories that lead to the same files.
LEMMA SameFiles ==
  ASSUME dir' = dir
  PROVE  FilesStay /\ File!Files' = File!Files
BY DEF FilesStay, File!Files

\* A logger opens or makes its file.
LEMMA ConstructStays ==
  ASSUME LogFileAssumption, DiskInv, File!Construct
  PROVE  FilesStay
<1>1. DiskTyped /\ Placed
  BY DEF DiskInv
<1>2. /\ dir[first] # 0 => dir'[first] = dir[first]
      /\ dir[first] = 0 => dir'[first] = Len(data) + 1
      /\ \A q \in File!Paths \ {first} : dir'[q] = dir[q]
  BY <1>1, LogFileAssumption, ConstructDoes
<1>3. Len(data) \in Nat
  BY <1>1 DEF DiskTyped
<1>4. \A q \in File!Paths : dir[q] # 0 => dir'[q] = dir[q]
  BY <1>2
<1>5. \A q \in File!Paths : dir'[q] = dir[q] \/ dir'[q] \notin 1 .. Len(data)
  BY <1>2, <1>3
<1> QED
  BY <1>4, <1>5 DEF FilesStay, File!Files

\* A rotation gives the file a name that no file has, unless the directory has
\* seen one in this second.
LEMMA RotateStays ==
  ASSUME LogFileAssumption, DiskInv, path # File!NoPath, NEW r \in Nat, File!Rotate(r),
         \A p \in File!Paths : rotations'[p] <= 1
  PROVE  FilesStay /\ stream' \in File!Files' /\ \A p \in File!Paths : rotations[p] <= 1
<1>1. DiskTyped /\ Placed
  BY DEF DiskInv
<1> DEFINE name == <<path[1], now>>
<1>2. /\ name \in File!Paths /\ name[2] # File!LogName /\ path \in File!Paths
      /\ path' = File!LogPath /\ stream' = dir'[File!LogPath] /\ stream' \in 1 .. Len(data')
      /\ dir'[name] = stream
      /\ rotations' = [rotations EXCEPT ![name] = @ + 1]
      /\ path # File!LogPath => dir'[path] = 0
      /\ path # File!LogPath /\ dir[File!LogPath] # 0 => dir'[File!LogPath] = dir[File!LogPath]
      /\ path = File!LogPath \/ dir[File!LogPath] = 0 => dir'[File!LogPath] = Len(data) + 1
      /\ \A q \in File!Paths \ {name, path, File!LogPath} : dir'[q] = dir[q]
  BY <1>1, LogFileAssumption, RotateDoes
<1> HIDE DEF name
<1>3. rotations \in [File!Paths -> Nat] /\ Len(data) \in Nat /\ dir[path] = stream /\ stream # 0
  BY <1>1 DEF DiskTyped, Placed
<1>4. rotations'[name] = rotations[name] + 1 /\
        \A p \in File!Paths \ {name} : rotations'[p] = rotations[p]
  BY <1>2, <1>3
<1>5. rotations[name] = 0
  BY <1>2, <1>3, <1>4
<1>6. dir[name] = 0
  BY <1>1, <1>2, <1>5 DEF Placed
<1>7. \A p \in File!Paths : rotations[p] <= 1
  BY <1>4, <1>5
<1>8. File!LogPath \in File!Paths
  BY LogFileAssumption, NamedPaths
<1>9. stream' \in File!Files'
  <2>1. stream' # 0 /\ stream' \in {dir'[p] : p \in File!Paths}
    BY <1>2, <1>8
  <2> QED
    BY <2>1 DEF File!Files
<1>10. \A p \in File!Paths : dir[p] # 0 => \E q \in File!Paths : dir'[q] = dir[p]
  BY <1>2, <1>3, <1>6, <1>8
<1>11. \A p \in File!Paths : dir'[p] # 0 /\ dir'[p] \in 1 .. Len(data) =>
         \E q \in File!Paths : dir[q] = dir'[p]
  <2> SUFFICES ASSUME NEW p \in File!Paths, dir'[p] # 0, dir'[p] \in 1 .. Len(data)
               PROVE  \E q \in File!Paths : dir[q] = dir'[p]
    OBVIOUS
  <2>1. Len(data) + 1 \notin 1 .. Len(data)
    BY <1>3
  <2>2. CASE p = File!LogPath
    BY <1>2, <2>1, <2>2
  <2>3. CASE p = name
    BY <1>2, <1>3, <2>3
  <2>4. CASE p = path /\ p # File!LogPath
    BY <1>2, <2>4
  <2>5. CASE p \notin {name, path, File!LogPath}
    BY <1>2, <2>5
  <2> QED
    BY <2>2, <2>3, <2>4, <2>5
<1>12. File!Files \subseteq File!Files'
  BY <1>10 DEF File!Files
<1>13. \A i \in File!Files' : i \in File!Files \/ i \notin 1 .. Len(data)
  BY <1>11 DEF File!Files
<1> QED
  BY <1>7, <1>9, <1>12, <1>13 DEF FilesStay

\* What is written for a record has no other record.
LEMMA RecordWritten ==
  ASSUME NEW r \in Nat, r # File!Header, NEW units \in {<<r>>, <<File!Header, r>>}
  PROVE  units \in Seq(Nat) /\ File!Range(units) \ {File!Header} = {r}
<1>1. CASE units = <<r>>
  <2>1. DOMAIN units = {1} /\ units[1] = r
    BY <1>1
  <2> QED
    BY <1>1, <2>1 DEF File!Range
<1>2. CASE units = <<File!Header, r>>
  <2>1. DOMAIN units = {1, 2} /\ units[1] = File!Header /\ units[2] = r
    BY <1>2
  <2> QED
    BY <1>2, <2>1 DEF File!Range, File!Header
<1> QED
  BY <1>1, <1>2

\* A logger that opens its file finds all the records there were.
LEMMA ConstructFinds ==
  ASSUME LogFileAssumption, DiskInv, DiskInv', File!Construct
  PROVE  File!Found' = File!Found
<1>1. Adds(0, <<>>) /\ FilesStay
  BY ConstructDoes, ConstructStays DEF DiskInv
<1>2. <<>> \in Seq(Nat) /\ File!Range(<<>>) = {}
  BY DEF File!Range
<1> DEFINE units == <<>>
<1>3. Adds(0, units) /\ units \in Seq(Nat) /\ File!Range(units) = {} /\ ~(units # <<>>)
  BY <1>1, <1>2
<1> HIDE DEF units
<1> QED
  BY <1>1, <1>3, FoundGrows

\* Flushing or closing the stream loses no record.
LEMMA FlushFinds ==
  ASSUME LogFileAssumption, DiskInv, DiskInv', File!Flush \/ File!Destruct
  PROVE  File!Found' = File!Found
<1>1. path # File!NoPath /\ File!Now(File!WriteOut(File!Disk)) /\ unflushed' = <<>>
  BY DEF File!Flush, File!Destruct, File!NoFile, DiskInv, Placed
<1>2. Adds(0, <<>>) /\ dir' = dir
  BY <1>1, FlushDoes DEF DiskInv
<1> DEFINE units == <<>>
<1>3. Adds(0, units) /\ units \in Seq(Nat) /\ File!Range(units) = {} /\ ~(units # <<>>)
  BY <1>2 DEF File!Range
<1>4. FilesStay
  BY <1>2, SameFiles
<1> HIDE DEF units
<1> QED
  BY <1>3, <1>4, FoundGrows

\* A record that is written, with the header or without.
LEMMA WrittenFinds ==
  ASSUME LogFileAssumption, DiskInv, DiskInv', path # File!NoPath, NEW r \in Nat, r # File!Header,
         NEW units \in {<<r>>, <<File!Header, r>>}, File!Written(units)
  PROVE  File!Found' = File!Found \cup {r}
<1>1. units \in Seq(Nat) /\ File!Range(units) \ {File!Header} = {r}
  BY RecordWritten
<1>2. Adds(stream, units)
  BY <1>1, WrittenDoes DEF DiskInv
<1>3. dir' = dir /\ stream \in File!Files
  <2>1. dir' = dir
    BY DEF File!Written, File!diskVars
  <2>2. path \in File!Paths /\ dir[path] = stream /\ stream # 0
    BY WritesOut DEF DiskInv, Placed
  <2> QED
    BY <2>1, <2>2 DEF File!Files
<1>4. FilesStay /\ stream \in File!Files'
  BY <1>3, SameFiles
<1> QED
  BY <1>1, <1>2, <1>4, FoundGrows

\* A rotation finds all records there were, and its own.
LEMMA RotateFinds ==
  ASSUME LogFileAssumption, DiskInv, DiskInv', path # File!NoPath, NEW r \in Nat, r # File!Header,
         File!Rotate(r), \A p \in File!Paths : rotations'[p] <= 1
  PROVE  File!Found' = File!Found \cup {r}
<1> DEFINE units == <<File!Header, r>>
<1>1. units \in Seq(Nat) /\ File!Range(units) \ {File!Header} = {r}
  BY RecordWritten
<1>2. Adds(stream', units)
  BY RotateDoes DEF DiskInv
<1>3. FilesStay /\ stream' \in File!Files'
  BY RotateStays
<1> HIDE DEF units
<1> QED
  BY <1>1, <1>2, <1>3, FoundGrows

\* A process that dies takes what its stream holds back.
LEMMA KillFinds ==
  ASSUME DiskInv, File!Kill
  PROVE  File!Found' \cup killed' = File!Found \cup killed
<1>1. /\ dir' = dir /\ data' = data /\ unflushed' = <<>>
      /\ killed' = killed \cup (File!Range(unflushed) \ {File!Header})
  BY DEF File!Kill, File!NoFile, File!diskVars
<1> DEFINE T == UNION {File!Range(data[i]) : i \in File!Files}
           R == File!Range(unflushed)
<1>2. File!Files' = File!Files /\ File!Range(unflushed') = {}
  BY <1>1, SameFiles DEF File!Range
<1>3. File!Found = (T \cup R) \ {File!Header}
  BY Zenon DEF File!Found
<1>4. File!Found' = (T \cup {}) \ {File!Header}
  BY <1>1, <1>2 DEF File!Found
<1>5. killed' = killed \cup (R \ {File!Header})
  BY <1>1
<1> HIDE DEF T, R
<1> QED
  BY <1>3, <1>4, <1>5

\* The rotations that a rotation counts, the other steps leave alone.
LEMMA RotationsCounted ==
  ASSUME LogFileAssumption, DiskInv, File!Next, \A p \in File!Paths : rotations'[p] <= 1
  PROVE  \A p \in File!Paths : rotations[p] <= 1
<1>1. CASE rotations' = rotations
  BY <1>1
<1>2. ASSUME NEW r \in Nat, path # File!NoPath, File!Rotate(r)
      PROVE  \A p \in File!Paths : rotations[p] <= 1
  BY <1>2, RotateStays
<1>3. CASE File!Log
  <2>1. CASE path # File!NoPath /\ File!AppendRecord(logged + 1)
    <3>1. logged + 1 \in Nat
      BY DEF DiskInv, DiskTyped
    <3> QED
      BY <1>1, <1>2, <2>1, <3>1 DEF File!AppendRecord, File!RotatesAt, File!Written
  <2> QED
    BY <1>1, <1>3, <2>1 DEF File!Log
<1> QED
  BY <1>1, <1>3
     DEF File!Next, File!Construct, File!Destruct, File!Kill, File!Flush, File!Tick,
           File!AskSize, File!ReadChars, File!ReadString, File!Reads, File!history

\* The records that are accounted for.
AllKnown == File!Found \cup console \cup refused \cup killed

\* One more record is given to log() and accounted for.
LEMMA LogFinds ==
  ASSUME LogFileAssumption, DiskInv, DiskInv', File!Log, \A p \in File!Paths : rotations'[p] <= 1
  PROVE  AllKnown' = AllKnown \cup {logged + 1} /\ logged' = logged + 1
<1> DEFINE r == logged + 1
<1>1. r \in Nat /\ r # File!Header
  BY DEF DiskInv, DiskTyped, File!Header
<1>2. logged' = r /\ killed' = killed
  BY DEF File!Log
<1>3. UNCHANGED <<File!diskVars, unflushed>> => File!Found' = File!Found
  <2>1. dir' = dir => File!Files' = File!Files
    BY SameFiles
  <2> QED
    BY <2>1 DEF File!Found, File!diskVars
<1>4. CASE /\ console' = console \cup {r} /\ refused' = refused
           /\ UNCHANGED <<File!diskVars, unflushed>>
  BY <1>2, <1>3, <1>4 DEF AllKnown
<1>5. CASE /\ refused' = refused \cup {r} /\ console' = console
           /\ UNCHANGED <<File!diskVars, unflushed>>
  BY <1>2, <1>3, <1>5 DEF AllKnown
<1>6. CASE path # File!NoPath /\ File!AppendRecord(r) /\ UNCHANGED <<console, refused>>
  <2>1. File!Found' = File!Found \cup {r}
    <3>1. CASE File!Written(<<File!Header, r>>) \/ File!Written(<<r>>)
      BY <1>1, <1>6, <3>1, WrittenFinds
    <3>2. CASE File!Rotate(r)
      BY <1>1, <1>6, <3>2, RotateFinds
    <3> QED
      BY <1>6, <3>1, <3>2 DEF File!AppendRecord, File!RotatesAt
  <2> QED
    BY <1>2, <1>6, <2>1 DEF AllKnown
<1> QED
  BY <1>4, <1>5, <1>6 DEF File!Log

\* No record is lost by a logger that is made, destroyed or rotates its file,
\* unless a directory sees two rotations in one second (SyncLogger::append,
\* FileWriter::rename).
THEOREM LogRecordsAreKept == File!Spec => []RecordsAreKept
<1>1. File!Init => File!RecordsAreKept
  <2> SUFFICES ASSUME File!Init
               PROVE  File!RecordsAreKept
    OBVIOUS
  <2>1. File!Files = {}
    BY DEF File!Init, File!Files
  <2>2. File!Range(unflushed) = {}
    BY DEF File!Init, File!Range
  <2>3. File!Found = {}
    BY <2>1, <2>2 DEF File!Found
  <2>4. 1 .. logged = {}
    BY DEF File!Init
  <2> QED
    BY <2>3, <2>4 DEF File!Init, File!RecordsAreKept
<1>2. DiskInv /\ DiskInv' /\ File!RecordsAreKept /\ [File!Next]_(File!vars) =>
        File!RecordsAreKept'
  <2> SUFFICES ASSUME DiskInv, DiskInv', File!RecordsAreKept, [File!Next]_(File!vars),
                      \A p \in File!Paths : rotations'[p] <= 1
               PROVE  1 .. logged' = AllKnown'
    BY DEF File!RecordsAreKept, AllKnown
  <2> USE LogFileAssumption
  <2>1. CASE UNCHANGED File!vars
    <3>1. UNCHANGED <<dir, data, unflushed, rotations, logged, console, refused, killed>>
      BY <2>1 DEF File!vars, File!diskVars, File!writerVars, File!history
    <3>2. File!Files' = File!Files
      BY <3>1, SameFiles
    <3> QED
      BY <3>1, <3>2 DEF File!RecordsAreKept, AllKnown, File!Found
  <2>2. CASE File!Next
    <3>1. 1 .. logged = AllKnown
      BY <2>2, RotationsCounted DEF File!RecordsAreKept, AllKnown
    <3>2. CASE File!Log
      <4>1. AllKnown' = AllKnown \cup {logged + 1} /\ logged' = logged + 1
        BY <3>2, LogFinds
      <4>2. logged \in Nat
        BY DEF DiskInv, DiskTyped
      <4> QED
        BY <3>1, <4>1, <4>2
    <3>3. CASE File!Kill
      <4>1. File!Found' \cup killed' = File!Found \cup killed
        BY <3>3, KillFinds
      <4>2. UNCHANGED <<logged, console, refused>>
        BY <3>3 DEF File!Kill
      <4> QED
        BY <3>1, <4>1, <4>2 DEF AllKnown
    <3>4. CASE File!Construct \/ File!Destruct \/ File!Flush
      <4>1. File!Found' = File!Found
        BY <3>4, ConstructFinds, FlushFinds
      <4>2. UNCHANGED <<logged, console, refused, killed>>
        BY <3>4 DEF File!Construct, File!Destruct, File!Flush, File!history
      <4> QED
        BY <3>1, <4>1, <4>2 DEF AllKnown
    <3>5. CASE File!Tick \/ File!AskSize \/
                 \E len \in 0 .. MaxFileSize : File!ReadChars(len) \/ File!ReadString(len)
      <4>1. UNCHANGED <<File!diskVars, File!writerVars, File!history>>
        BY <3>5 DEF File!Tick, File!AskSize, File!ReadChars, File!ReadString, File!Reads
      <4>2. UNCHANGED <<dir, data, unflushed, logged, console, refused, killed>>
        BY <4>1 DEF File!diskVars, File!writerVars, File!history
      <4>3. File!Files' = File!Files
        BY <4>2, SameFiles
      <4> QED
        BY <3>1, <4>2, <4>3 DEF AllKnown, File!Found
    <3> QED
      BY <2>2, <3>2, <3>3, <3>4, <3>5 DEF File!Next
  <2> QED
    BY <2>1, <2>2
<1>3. File!RecordsAreKept => RecordsAreKept
  BY DEF File!RecordsAreKept, RecordsAreKept, File!Found, Found, File!Files, Files, File!Paths,
         Paths, File!Dirs, Dirs, File!Header, Header, File!Range, Range
<1> QED
  BY <1>1, <1>2, <1>3, DiskInvHolds, PTL DEF File!Spec
=============================================================================
