-------------------------- MODULE TimerQueueProofs --------------------------
(* Proofs about TimerQueue for any number of timers, any expirations and   *)
(* any interval: the two maps agree, handle() follows a dead pointer only  *)
(* because of a callback, a callback is called only when it is due, and a  *)
(* timer that is due makes the timerfd readable.                           *)
EXTENDS TimerQueue, FiniteSetTheorems, SequenceTheorems, WellFoundedInduction,
        TLAPS

\* A timer in timerMap_ has its place as its position, whatever was lost; a
\* timer that was not added or was cancelled has none.
Located ==
  /\ \A e \in Times : timerMap[e] # None => position[timerMap[e]] = e
  /\ \A t \in fresh \cup cancelled : position[t] = None
  /\ (fresh \cap (cancelled \cup ran)) = {}

\* The timers handle() has still to call are different, were added, and are
\* not in timerMap_ after now; only a callback can have destroyed one.
BatchIsDue ==
  /\ \A i, j \in 1 .. Len(expired) : expired[i] = expired[j] => i = j
  /\ \A i \in 1 .. Len(expired) : expired[i] \notin fresh
  /\ \A i \in 1 .. Len(expired), e \in Times : timerMap[e] = expired[i] => e <= now
  /\ \A i \in 1 .. Len(expired) : ~Alive(expired[i]) => endangered

\* Where handle() is, and what a timer that ran once and is still in timerMap_
\* is: the one whose callback runs.
InHandle ==
  /\ pc = "idle" => expired = <<>>
  /\ pc = "callback" => expired # <<>>
  /\ \A t \in ran \ repeat : Alive(t) => pc = "callback" /\ t = Head(expired)

IInv ==
  /\ TypeOK
  /\ Located
  /\ MapsAgree
  /\ BatchIsDue
  /\ InHandle
  /\ OnlyCallbacksEndanger

\* The first member of a set of numbers exists.
LEMMA MinIsMember ==
  ASSUME NEW S \in SUBSET Nat, S # {}
  PROVE  Min(S) \in S /\ \A y \in S : Min(S) <= y
<1>1. PICK x \in S : \A y \in S : ~(<<y, x>> \in OpToRel(<, Nat))
  BY NatLessThanWellFounded, WFMin
<1>2. ASSUME NEW y \in S  PROVE x <= y
  <2>1. x \in Nat /\ y \in Nat
    OBVIOUS
  <2>2. y < x => <<y, x>> \in OpToRel(<, Nat)
    BY <2>1 DEF OpToRel
  <2>3. ~(y < x)
    BY <1>1, <2>2
  <2> QED
    BY <2>1, <2>3
<1> QED
  BY <1>1, <1>2 DEF Min

\* Times are numbers and the times of the loop are among them.
LEMMA TimesAreNat ==
  /\ Times \subseteq Nat /\ None \notin Times
  /\ Expirations \subseteq Times
  /\ \A n \in 1 .. MaxNow : n \in Times /\ n + Interval \in Times
<1>1. MaxNow \in Nat /\ Interval \in Nat /\ None \notin Nat /\ Expirations \subseteq Nat
  BY TimerQueueAssumption
<1>2. ASSUME NEW n \in 1 .. MaxNow
      PROVE  n \in 0 .. MaxNow + Interval /\ n + Interval \in 0 .. MaxNow + Interval
  BY <1>1
<1>3. Times \subseteq Nat /\ Expirations \subseteq Times
  BY <1>1 DEF Times
<1>4. \A n \in 1 .. MaxNow : n \in Times /\ n + Interval \in Times
  BY <1>2 DEF Times
<1> QED
  BY <1>1, <1>3, <1>4

\* The timerfd is set to a time or disarmed.
LEMMA ArmedIsTime ==
  ASSUME NEW map \in [Times -> Timers \cup {None}]
  PROVE  ArmedFor(map) \in Times \cup {None}
<1>1. Keys(map) \in SUBSET Nat /\ Keys(map) \subseteq Times
  BY TimesAreNat DEF Keys
<1> QED
  BY <1>1, MinIsMember DEF ArmedFor

\* The times that are due are finitely many, so getExpired can enumerate them.
LEMMA DueAreFinite ==
  ASSUME TypeOK
  PROVE  LET K == {e \in Keys(timerMap) : e <= now}
         IN Cardinality(K) \in Nat /\ K \subseteq Times
<1> DEFINE K == {e \in Keys(timerMap) : e <= now}
<1>1. K \subseteq Times /\ K \subseteq 0 .. now
  <2>1. now \in Nat
    BY TimerQueueAssumption DEF TypeOK
  <2>2. K \subseteq Times /\ \A e \in K : e <= now
    BY DEF Keys
  <2> HIDE DEF K
  <2> QED
    BY <2>1, <2>2, TimesAreNat
<1>2. 0 \in Int /\ now \in Int
  BY DEF TypeOK
<1>3. IsFiniteSet(0 .. now)
  BY <1>2, FS_Interval
<1>4. IsFiniteSet(K)
  BY <1>1, <1>3, FS_Subset
<1> QED
  BY <1>1, <1>4, FS_CardinalityType

\* The expiration of a timer that is alive is its place in timerMap_.
LEMMA ExpirationIsPlace ==
  ASSUME NEW t, Alive(t)
  PROVE  Expiration(t) \in Times /\ timerMap[Expiration(t)] = t
BY DEF Alive, Expiration

\* The current timer and the ones behind it.
LEMMA CurrentTimer ==
  ASSUME expired \in Seq(Timers), expired # <<>>
  PROVE  /\ 1 \in 1 .. Len(expired) /\ Head(expired) = expired[1]
         /\ Head(expired) \in Timers
         /\ Tail(expired) \in Seq(Timers)
         /\ \A i \in 1 .. Len(Tail(expired)) :
              i + 1 \in 2 .. Len(expired) /\ Tail(expired)[i] = expired[i + 1]
BY HeadTailProperties, EmptySeq, LenProperties

\* Every step keeps the types.
LEMMA StepsKeepTypes == TypeOK /\ InHandle /\ [Next]_vars => TypeOK'
<1> SUFFICES ASSUME TypeOK, InHandle, [Next]_vars
             PROVE  TypeOK'
  OBVIOUS
<1> USE DEF TypeOK, mapVars, loopVars, history
<1>0. /\ now \in Times /\ now + Interval \in Times /\ now \in Nat
      /\ \A map \in [Times -> Timers \cup {None}] : ArmedFor(map) \in Times \cup {None}
  BY TimesAreNat, ArmedIsTime
<1>1. CASE Tick
  BY <1>1, TimerQueueAssumption DEF Tick
<1>2. ASSUME NEW t \in Timers, NEW e \in Expirations, NEW repeats \in BOOLEAN,
             AddTimer(t, e, repeats)
      PROVE  TypeOK'
  <2>1. /\ timerMap' \in [Times -> Timers \cup {None}]
        /\ position' \in [Timers -> Times \cup {None}]
    BY <1>2, TimesAreNat DEF AddTimer
  <2>2. lost' \subseteq Timers /\ endangered' \in BOOLEAN
    BY <1>2, TimesAreNat DEF AddTimer, Destroys
  <2>3. armed' \in Times \cup {None}
    BY <1>0, <1>2, <2>1 DEF AddTimer
  <2> QED
    BY <1>2, <2>1, <2>2, <2>3 DEF AddTimer
<1>3. ASSUME NEW t \in Timers, Cancel(t)
      PROVE  TypeOK'
  <2>1. /\ timerMap' \in [Times -> Timers \cup {None}]
        /\ position' \in [Timers -> Times \cup {None}]
    BY <1>3 DEF Cancel
  <2>2. lost' \subseteq Timers /\ endangered' \in BOOLEAN
    BY <1>3 DEF Cancel, Destroys
  <2>3. armed' \in Times \cup {None}
    BY <1>0, <1>3, <2>1 DEF Cancel
  <2> QED
    BY <1>3, <2>1, <2>2, <2>3 DEF Cancel
<1>4. CASE Handle
  <2>1. expired' \in Seq(Timers)
    <3> DEFINE K == {e \in Keys(timerMap) : e <= now}
    <3>1. PICK keys \in Ascending(K) : expired' = [i \in DOMAIN keys |-> timerMap[keys[i]]]
      BY <1>4 DEF Handle, GetExpired
    <3>2. Cardinality(K) \in Nat /\ keys \in [1 .. Cardinality(K) -> K]
      BY <3>1, DueAreFinite DEF Ascending
    <3>3. \A e \in K : timerMap[e] \in Timers
      BY DEF Keys
    <3> HIDE DEF K
    <3>4. \A i \in 1 .. Cardinality(K) : timerMap[keys[i]] \in Timers
      BY <3>2, <3>3
    <3> QED
      BY <3>1, <3>2, <3>4, IsASeq
  <2> QED
    BY <1>4, <2>1 DEF Handle
<1>5. CASE RunTimer
  BY <1>5, CurrentTimer DEF RunTimer
<1>6. CASE AfterCallback
  <2>1. CASE Alive(Head(expired))
    <3> DEFINE t == Head(expired)
               next == now + Interval
    <3>1. t \in Timers /\ Tail(expired) \in Seq(Timers)
      BY <1>6, CurrentTimer DEF AfterCallback, InHandle
    <3>2. Restart(t) /\ next \in Times
      BY <1>0, <1>6, <2>1 DEF AfterCallback
    <3> HIDE DEF t, next
    <3>3. timerMap' \in [Times -> Timers \cup {None}]
      BY <3>1, <3>2 DEF Restart, MoveTo, next
    <3>4. position' \in [Timers -> Times \cup {None}]
      BY <3>1, <3>2 DEF Restart, MoveTo, next
    <3>5. lost' \subseteq Timers
      BY <3>1, <3>2 DEF Restart, MoveTo, next
    <3> QED
      BY <1>6, <2>1, <3>1, <3>3, <3>4, <3>5 DEF AfterCallback, t
  <2>2. CASE ~Alive(Head(expired))
    BY <1>6, <2>2 DEF AfterCallback
  <2> QED
    BY <2>1, <2>2
<1>7. CASE HandleDone
  BY <1>0, <1>7 DEF HandleDone
<1>8. CASE UNCHANGED vars
  BY <1>8 DEF vars
<1> QED
  BY <1>1, <1>2, <1>3, <1>4, <1>5, <1>6, <1>7, <1>8 DEF Next, LoopStep

\* What a step of user code or of a moving timer does to the batch: nothing
\* that is due later appears, and what is no longer alive was destroyed.
LEMMA BatchStays ==
  ASSUME BatchIsDue, TypeOK, expired' = expired, fresh' \subseteq fresh, now' = now,
         endangered => endangered',
         \A i \in 1 .. Len(expired), e \in Times :
            timerMap'[e] = expired[i] => timerMap[e] = expired[i],
         \A i \in 1 .. Len(expired), e \in Times :
            timerMap[e] = expired[i] => timerMap'[e] = expired[i] \/ endangered'
  PROVE  BatchIsDue'
<1>1. ASSUME NEW i \in 1 .. Len(expired), ~endangered'
      PROVE  \E e \in Times : timerMap'[e] = expired[i]
  BY <1>1 DEF BatchIsDue, Alive
<1> QED
  BY <1>1 DEF BatchIsDue, Alive

\* A timer that is added has no other place.
LEMMA AddTimerKeeps ==
  ASSUME IInv, NEW t \in Timers, NEW e \in Expirations, NEW repeats \in BOOLEAN,
         AddTimer(t, e, repeats)
  PROVE  Located' /\ MapsAgree' /\ BatchIsDue' /\ InHandle' /\ OnlyCallbacksEndanger'
<1> USE DEF IInv
<1>1. /\ e \in Times /\ t \in fresh
      /\ timerMap \in [Times -> Timers \cup {None}]
      /\ position \in [Timers -> Times \cup {None}]
      /\ None \notin Times /\ None \notin Timers
  BY TimesAreNat, TimerQueueAssumption DEF TypeOK, AddTimer
<1>2. /\ \A x \in Times : timerMap'[x] = IF x = e THEN t ELSE timerMap[x]
      /\ \A u \in Timers : position'[u] = IF u = t THEN e ELSE position[u]
      /\ fresh' = fresh \ {t} /\ cancelled' = cancelled /\ ran' = ran
      /\ pc' = pc /\ expired' = expired /\ now' = now /\ fault' = fault
      /\ repeat \subseteq repeat'
      /\ endangered' = (endangered \/ (timerMap[e] # None /\ Contains(expired, timerMap[e])))
      /\ lost' = lost \cup ({timerMap[e]} \ {t, None})
  BY <1>1 DEF AddTimer, Destroys, loopVars
<1>3. position[t] = None /\ \A x \in Times : timerMap[x] # t
  BY <1>1, TimerQueueAssumption DEF Located
<1>4. Located'
  BY <1>1, <1>2, <1>3, TimerQueueAssumption DEF Located, TypeOK
<1>5. MapsAgree'
  <2>1. ASSUME lost' = {}, NEW u \in Timers, position'[u] # None
        PROVE  timerMap'[position'[u]] = u
    <3>1. lost = {} /\ (timerMap[e] = None \/ timerMap[e] = t)
      BY <1>2, <2>1
    <3>2. CASE u = t
      BY <1>1, <1>2, <3>2
    <3>3. CASE u # t
      <4>1. position'[u] = position[u] /\ position[u] \in Times
        BY <1>1, <1>2, <2>1, <3>3
      <4>2. timerMap[position[u]] = u
        BY <2>1, <3>1, <4>1 DEF MapsAgree
      <4>3. position[u] # e
        BY <1>1, <3>1, <3>3, <4>2
      <4> QED
        BY <1>2, <4>1, <4>2, <4>3
    <3> QED
      BY <3>2, <3>3
  <2>2. \A x \in Times : timerMap'[x] # None => position'[timerMap'[x]] = x
    BY <1>4 DEF Located
  <2> QED
    BY <2>1, <2>2 DEF MapsAgree
<1>6. BatchIsDue'
  <2>1. \A i \in 1 .. Len(expired) : expired[i] # t
    BY <1>1 DEF BatchIsDue
  <2>2. \A i \in 1 .. Len(expired) :
          timerMap[e] = expired[i] => endangered'
    <3>1. \A i \in 1 .. Len(expired) : expired[i] # None
      BY <1>1 DEF TypeOK
    <3> QED
      BY <1>2, <3>1 DEF Contains
  <2> QED
    BY <1>2, <2>1, <2>2, BatchStays
<1>7. InHandle'
  BY <1>1, <1>2 DEF InHandle, Located, Alive
<1> QED
  BY <1>2, <1>4, <1>5, <1>6, <1>7 DEF OnlyCallbacksEndanger

\* A timer that is cancelled leaves both maps, with whatever had its place.
LEMMA CancelKeeps ==
  ASSUME IInv, NEW t \in Timers, Cancel(t)
  PROVE  Located' /\ MapsAgree' /\ BatchIsDue' /\ InHandle' /\ OnlyCallbacksEndanger'
<1> USE DEF IInv
<1> DEFINE p == position[t]
<1>1. /\ p \in Times
      /\ timerMap \in [Times -> Timers \cup {None}]
      /\ position \in [Timers -> Times \cup {None}]
      /\ None \notin Times /\ None \notin Timers
  BY TimesAreNat, TimerQueueAssumption DEF TypeOK, Cancel
<1>2. /\ \A x \in Times : timerMap'[x] = IF x = p THEN None ELSE timerMap[x]
      /\ \A u \in Timers : position'[u] = IF u = t THEN None ELSE position[u]
      /\ fresh' = fresh /\ cancelled' = cancelled \cup {t} /\ ran' = ran
      /\ pc' = pc /\ expired' = expired /\ now' = now /\ fault' = fault
      /\ repeat' = repeat
      /\ endangered' = (endangered \/ (timerMap[p] # None /\ Contains(expired, timerMap[p])))
      /\ lost \subseteq lost'
  BY <1>1 DEF Cancel, Destroys, loopVars
<1>3. t \notin fresh
  BY <1>1 DEF Located
<1>4. Located'
  <2>1. ASSUME NEW x \in Times, timerMap'[x] # None
        PROVE  position'[timerMap'[x]] = x
    <3>1. x # p /\ timerMap'[x] = timerMap[x] /\ timerMap[x] \in Timers
      BY <1>1, <1>2, <2>1
    <3>2. position[timerMap[x]] = x
      BY <2>1, <3>1 DEF Located
    <3> QED
      BY <1>2, <3>1, <3>2
  <2>2. \A u \in fresh' \cup cancelled' : position'[u] = None
    BY <1>2 DEF Located, TypeOK
  <2> QED
    BY <1>2, <1>3, <2>1, <2>2 DEF Located
<1>5. MapsAgree'
  <2>1. ASSUME lost' = {}, NEW u \in Timers, position'[u] # None
        PROVE  timerMap'[position'[u]] = u
    <3>1. lost = {} /\ u # t /\ position'[u] = position[u] /\ position[u] \in Times
      BY <1>1, <1>2, <2>1
    <3>2. timerMap[position[u]] = u /\ timerMap[p] = t
      BY <1>1, <2>1, <3>1 DEF MapsAgree
    <3> QED
      BY <1>2, <3>1, <3>2
  <2>2. \A x \in Times : timerMap'[x] # None => position'[timerMap'[x]] = x
    BY <1>4 DEF Located
  <2> QED
    BY <2>1, <2>2 DEF MapsAgree
<1>6. BatchIsDue'
  <2>1. \A i \in 1 .. Len(expired) : expired[i] # None
    BY <1>1 DEF TypeOK
  <2>2. \A i \in 1 .. Len(expired) :
          timerMap[p] = expired[i] => endangered'
    BY <1>2, <2>1 DEF Contains
  <2> QED
    BY <1>2, <2>1, <2>2, BatchStays
<1>7. InHandle'
  BY <1>1, <1>2 DEF InHandle, Alive, TypeOK
<1> QED
  BY <1>2, <1>4, <1>5, <1>6, <1>7 DEF OnlyCallbacksEndanger

\* The timers that handle() takes from timerMap_ are in it, each once.
LEMMA HandleKeeps ==
  ASSUME IInv, Handle
  PROVE  BatchIsDue' /\ InHandle'
<1> USE DEF IInv
<1> DEFINE K == {e \in Keys(timerMap) : e <= now}
<1>1. PICK keys \in Ascending(K) : expired' = [i \in DOMAIN keys |-> timerMap[keys[i]]]
  BY DEF Handle, GetExpired
<1>2. /\ keys \in [1 .. Cardinality(K) -> K] /\ Cardinality(K) \in Nat
      /\ \A i, j \in 1 .. Cardinality(K) : i < j => keys[i] < keys[j]
  BY <1>1, DueAreFinite DEF Ascending
<1>3. \A e \in K : e \in Times /\ e <= now /\ timerMap[e] \in Timers /\ e \in Nat
  BY TimesAreNat DEF Keys, TypeOK
<1>4. /\ timerMap' = timerMap /\ now' = now /\ fresh' = fresh
      /\ ran' = ran /\ repeat' = repeat /\ pc = "idle" /\ pc' = "handle"
  BY DEF Handle, mapVars, history
<1> DEFINE n == Cardinality(K)
<1> HIDE DEF K, n
<1>5. /\ Len(expired') = n
      /\ \A i \in 1 .. n : expired'[i] = timerMap[keys[i]] /\ keys[i] \in K
  BY <1>1, <1>2 DEF n
<1>6. \A i, j \in 1 .. n : keys[i] = keys[j] => i = j
  <2> SUFFICES ASSUME NEW i \in 1 .. n, NEW j \in 1 .. n, i < j
               PROVE  keys[i] # keys[j]
    BY <1>2 DEF n
  <2>1. keys[i] < keys[j] /\ keys[i] \in Nat /\ keys[j] \in Nat
    BY <1>2, <1>3, <1>5 DEF n
  <2> QED
    BY <2>1
<1>7. \A e \in K : position[timerMap[e]] = e /\ timerMap[e] \notin fresh
  BY <1>3, TimesAreNat, TimerQueueAssumption DEF Located, TypeOK
<1>8. ASSUME NEW i \in 1 .. n, NEW e \in Times, timerMap[e] = expired'[i]
      PROVE  e = keys[i]
  BY <1>3, <1>5, <1>7, <1>8, TimerQueueAssumption DEF Located
<1>9. BatchIsDue'
  <2>1. \A i, j \in 1 .. n : expired'[i] = expired'[j] => i = j
    BY <1>5, <1>6, <1>7
  <2>2. \A i \in 1 .. n : expired'[i] \notin fresh'
    BY <1>4, <1>5, <1>7
  <2>3. \A i \in 1 .. n, e \in Times : timerMap'[e] = expired'[i] => e <= now'
    BY <1>3, <1>4, <1>5, <1>8
  <2>4. \A i \in 1 .. n : \E e \in Times : timerMap'[e] = expired'[i]
    BY <1>3, <1>4, <1>5
  <2> QED
    BY <1>5, <2>1, <2>2, <2>3, <2>4 DEF BatchIsDue, Alive
<1>10. InHandle'
  BY <1>4 DEF InHandle, Alive
<1> QED
  BY <1>9, <1>10

\* A callback is called for a timer that has not been called or repeats.
LEMMA RunTimerKeeps ==
  ASSUME IInv, RunTimer
  PROVE  Located' /\ MapsAgree' /\ BatchIsDue' /\ InHandle' /\ OnlyCallbacksEndanger'
<1> USE DEF IInv
<1> DEFINE t == Head(expired)
<1>1. /\ timerMap' = timerMap /\ position' = position /\ now' = now
      /\ repeat' = repeat /\ expired' = expired /\ fresh' = fresh
      /\ cancelled' = cancelled /\ lost' = lost /\ endangered' = endangered
      /\ pc = "handle" /\ expired # <<>>
  BY DEF RunTimer, mapVars, history
<1>2. t = expired[1] /\ 1 \in 1 .. Len(expired) /\ t \notin fresh
  BY <1>1, CurrentTimer DEF BatchIsDue, TypeOK
<1>3. MapsAgree' /\ BatchIsDue'
  BY <1>1 DEF MapsAgree, BatchIsDue, Alive
<1>4. CASE Alive(t) /\ pc' = "callback" /\ ran' = ran \cup {t} /\ fault' = fault
  BY <1>1, <1>2, <1>3, <1>4 DEF Located, InHandle, OnlyCallbacksEndanger, Alive
<1>5. CASE ~Alive(t) /\ fault' = TRUE /\ pc' = pc /\ ran' = ran
  BY <1>1, <1>2, <1>3, <1>5 DEF Located, InHandle, OnlyCallbacksEndanger, BatchIsDue, Alive
<1> QED
  BY <1>4, <1>5 DEF RunTimer

\* A timer that repeats moves behind everything that is due; one that ended
\* leaves both maps.
LEMMA AfterCallbackKeeps ==
  ASSUME IInv, AfterCallback
  PROVE  Located' /\ MapsAgree' /\ BatchIsDue' /\ InHandle' /\ OnlyCallbacksEndanger'
<1> USE DEF IInv
<1> DEFINE t == Head(expired)
           e == Expiration(t)
           next == now + Interval
           rest == Tail(expired)
<1>1. /\ now' = now /\ repeat' = repeat /\ ran' = ran /\ fresh' = fresh
      /\ cancelled' = cancelled /\ endangered' = endangered
      /\ pc = "callback" /\ expired # <<>>
  BY DEF AfterCallback, InHandle
<1>2. /\ t = expired[1] /\ 1 \in 1 .. Len(expired) /\ t \in Timers
      /\ \A i \in 1 .. Len(rest) : i + 1 \in 2 .. Len(expired) /\ rest[i] = expired[i + 1]
      /\ Len(rest) \in Nat
  BY <1>1, CurrentTimer, LenProperties DEF TypeOK
<1>3. CASE ~Alive(t)
  <2>1. /\ timerMap' = timerMap /\ position' = position /\ lost' = lost
        /\ pc' = pc /\ expired' = expired /\ endangered
    BY <1>2, <1>3 DEF AfterCallback, BatchIsDue
  <2> QED
    BY <1>1, <2>1 DEF Located, MapsAgree, BatchIsDue, InHandle, OnlyCallbacksEndanger, Alive
<1>4. CASE Alive(t)
  <2>1. e \in Times /\ timerMap[e] = t /\ position[t] = e /\ e <= now
    BY <1>2, <1>4, ExpirationIsPlace, TimerQueueAssumption DEF Located, BatchIsDue
  <2>2. next \in Times /\ next > now /\ now \in Nat /\ Times \subseteq Nat
    BY TimesAreNat, TimerQueueAssumption DEF TypeOK
  <2>3. /\ Restart(t) /\ pc' = "handle" /\ expired' = rest /\ fault' = fault
    BY <1>4 DEF AfterCallback
  <2> HIDE DEF t, e, next, rest
  <2>4. e # next
    <3>1. e \in Nat /\ next \in Nat
      BY <2>1, <2>2
    <3> QED
      BY <2>1, <2>2, <3>1
  <2>5. /\ timerMap \in [Times -> Timers \cup {None}]
        /\ position \in [Timers -> Times \cup {None}]
        /\ None \notin Times /\ None \notin Timers
    BY TimesAreNat, TimerQueueAssumption DEF TypeOK
  <2>6. /\ \A x \in Times :
             timerMap'[x] = IF t \in repeat /\ x = next THEN t
                            ELSE IF x = e THEN None ELSE timerMap[x]
        /\ \A u \in Timers :
             position'[u] = IF u # t THEN position[u]
                            ELSE IF t \in repeat THEN next ELSE None
        /\ lost' = IF t \in repeat THEN lost \cup ({timerMap[next]} \ {None}) ELSE lost
    BY <2>1, <2>2, <2>4, <2>3, <2>5 DEF Restart, MoveTo, e, next
  <2>7. \A x \in Times : timerMap[x] = t => x = e
    BY <1>2, <2>1, <2>5 DEF Located
  <2>8. Located'
    <3>1. ASSUME NEW x \in Times, timerMap'[x] # None
          PROVE  position'[timerMap'[x]] = x
      <4>1. CASE t \in repeat /\ x = next
        BY <1>2, <2>6, <4>1
      <4>2. CASE ~(t \in repeat /\ x = next)
        <5>1. timerMap'[x] = timerMap[x] /\ timerMap[x] \in Timers /\ x # e
          BY <2>5, <2>6, <3>1, <4>2
        <5>2. timerMap[x] # t /\ position[timerMap[x]] = x
          BY <2>7, <3>1, <5>1 DEF Located
        <5> QED
          BY <2>6, <5>1, <5>2
      <4> QED
        BY <4>1, <4>2
    <3>2. \A u \in fresh' \cup cancelled' : position'[u] = None
      BY <1>1, <2>1, <2>5, <2>6 DEF Located, TypeOK
    <3> QED
      BY <1>1, <3>1, <3>2 DEF Located
  <2>9. MapsAgree'
    <3>1. ASSUME lost' = {}, NEW u \in Timers, position'[u] # None
          PROVE  timerMap'[position'[u]] = u
      <4>1. lost = {} /\ (t \in repeat => timerMap[next] = None)
        BY <2>6, <3>1
      <4>2. CASE u = t
        BY <2>2, <2>6, <3>1, <4>2
      <4>3. CASE u # t
        <5>1. position'[u] = position[u] /\ position[u] \in Times
          BY <2>5, <2>6, <3>1, <4>3
        <5>2. timerMap[position[u]] = u
          BY <3>1, <4>1, <5>1 DEF MapsAgree
        <5>3. position[u] # e /\ (t \in repeat => position[u] # next)
          BY <2>1, <2>5, <4>1, <4>3, <5>2
        <5> QED
          BY <2>6, <5>1, <5>2, <5>3
      <4> QED
        BY <4>2, <4>3
    <3>2. \A x \in Times : timerMap'[x] # None => position'[timerMap'[x]] = x
      BY <2>8 DEF Located
    <3> QED
      BY <3>1, <3>2 DEF MapsAgree
  <2>10. BatchIsDue'
    <3>1. ASSUME NEW i \in 1 .. Len(rest)
          PROVE  /\ i + 1 \in 1 .. Len(expired) /\ rest[i] = expired[i + 1]
                 /\ rest[i] # t /\ rest[i] # None
      <4>1. i + 1 \in 1 .. Len(expired) /\ i + 1 # 1 /\ rest[i] = expired[i + 1]
        BY <1>2
      <4>2. expired[i + 1] # t
        BY <1>2, <4>1 DEF BatchIsDue
      <4>3. expired[i + 1] \in Timers
        BY <4>1 DEF TypeOK
      <4> QED
        BY <2>5, <4>1, <4>2, <4>3
    <3>2. ASSUME NEW i \in 1 .. Len(rest), NEW j \in 1 .. Len(rest), rest[i] = rest[j]
          PROVE  i = j
      <4>1. i + 1 = j + 1
        BY <3>1, <3>2 DEF BatchIsDue
      <4> QED
        BY <4>1
    <3>3. \A i \in 1 .. Len(rest) : rest[i] \notin fresh
      BY <3>1 DEF BatchIsDue
    <3>4. ASSUME NEW i \in 1 .. Len(rest), NEW x \in Times, timerMap'[x] = rest[i]
          PROVE  x <= now
      BY <2>6, <3>1, <3>4 DEF BatchIsDue
    <3>5. ASSUME NEW i \in 1 .. Len(rest), ~endangered
          PROVE  \E x \in Times : timerMap'[x] = rest[i]
      <4>1. PICK x \in Times : timerMap[x] = rest[i]
        BY <3>1, <3>5 DEF BatchIsDue, Alive
      <4>2. x <= now /\ x \in Nat /\ next \in Nat
        BY <2>2, <3>1, <4>1 DEF BatchIsDue
      <4>3. x # e /\ x # next
        BY <2>1, <2>2, <3>1, <4>1, <4>2
      <4> QED
        BY <2>6, <4>1, <4>3
    <3> QED
      BY <1>1, <2>3, <3>2, <3>3, <3>4, <3>5 DEF BatchIsDue, Alive
  <2>11. InHandle'
    <3>1. ASSUME NEW u \in ran \ repeat, NEW x \in Times, timerMap'[x] = u
          PROVE  FALSE
      <4>1. u \in Timers /\ u # None
        BY <2>5 DEF TypeOK
      <4>2. timerMap[x] = u /\ x # e
        BY <2>6, <3>1, <4>1
      <4>3. u = t
        BY <4>2 DEF InHandle, Alive, t
      <4> QED
        BY <2>7, <4>2, <4>3
    <3> QED
      BY <1>1, <2>3, <3>1 DEF InHandle, Alive
  <2> QED
    BY <1>1, <2>3, <2>8, <2>9, <2>10, <2>11 DEF OnlyCallbacksEndanger
<1> QED
  BY <1>3, <1>4

\* The inductive invariant: the places of the timers, the two maps, and the
\* batch that handle() works on.
LEMMA TimersStayInOrder == Spec => []IInv
<1>1. Init => IInv
  <2> SUFFICES ASSUME Init
               PROVE  IInv
    OBVIOUS
  <2>1. TypeOK
    <3>1. 1 \in 1 .. MaxNow /\ <<>> \in Seq(Timers)
      BY EmptySeq, TimerQueueAssumption
    <3> QED
      BY <3>1 DEF Init, TypeOK
  <2>2. Located /\ MapsAgree
    BY TimerQueueAssumption DEF Init, Located, MapsAgree
  <2>3. BatchIsDue /\ InHandle /\ OnlyCallbacksEndanger
    BY EmptySeq DEF Init, BatchIsDue, InHandle, OnlyCallbacksEndanger
  <2> QED
    BY <2>1, <2>2, <2>3 DEF IInv
<1>2. IInv /\ [Next]_vars => IInv'
  <2> SUFFICES ASSUME IInv, [Next]_vars
               PROVE  Located' /\ MapsAgree' /\ BatchIsDue' /\ InHandle'
                      /\ OnlyCallbacksEndanger'
    BY StepsKeepTypes DEF IInv
  <2>1. CASE Tick
    <3>1. now' = now + 1 /\ now \in Nat /\ Times \subseteq Nat
      BY <2>1, TimesAreNat, TimerQueueAssumption DEF Tick, IInv, TypeOK
    <3>2. /\ timerMap' = timerMap /\ position' = position /\ expired' = expired
          /\ fresh' = fresh /\ cancelled' = cancelled /\ lost' = lost /\ ran' = ran
          /\ repeat' = repeat /\ pc' = pc /\ fault' = fault /\ endangered' = endangered
      BY <2>1 DEF Tick, mapVars, loopVars, history
    <3>3. BatchIsDue'
      <4>1. \A e \in Times : e <= now => e <= now'
        BY <3>1
      <4> QED
        BY <3>2, <4>1 DEF IInv, BatchIsDue, Alive
    <3> QED
      BY <3>2, <3>3
         DEF IInv, Located, MapsAgree, InHandle, OnlyCallbacksEndanger, Alive
  <2>2. ASSUME NEW t \in Timers, NEW e \in Expirations, NEW repeats \in BOOLEAN,
               AddTimer(t, e, repeats)
        PROVE  Located' /\ MapsAgree' /\ BatchIsDue' /\ InHandle'
               /\ OnlyCallbacksEndanger'
    BY <2>2, AddTimerKeeps
  <2>3. ASSUME NEW t \in Timers, Cancel(t)
        PROVE  Located' /\ MapsAgree' /\ BatchIsDue' /\ InHandle'
               /\ OnlyCallbacksEndanger'
    BY <2>3, CancelKeeps
  <2>4. CASE Handle
    <3>1. /\ timerMap' = timerMap /\ position' = position /\ fresh' = fresh
          /\ cancelled' = cancelled /\ lost' = lost /\ ran' = ran
          /\ fault' = fault /\ endangered' = endangered
      BY <2>4 DEF Handle, mapVars, history
    <3> QED
      BY <2>4, <3>1, HandleKeeps DEF IInv, Located, MapsAgree, OnlyCallbacksEndanger
  <2>5. CASE RunTimer
    BY <2>5, RunTimerKeeps
  <2>6. CASE AfterCallback
    BY <2>6, AfterCallbackKeeps
  <2>7. CASE HandleDone
    <3>1. /\ timerMap' = timerMap /\ position' = position /\ expired' = <<>>
          /\ expired = <<>> /\ pc = "handle" /\ pc' = "idle" /\ now' = now
          /\ fresh' = fresh /\ cancelled' = cancelled /\ lost' = lost /\ ran' = ran
          /\ repeat' = repeat /\ fault' = fault /\ endangered' = endangered
      BY <2>7 DEF HandleDone, history
    <3> QED
      BY <3>1 DEF IInv, Located, MapsAgree, BatchIsDue, InHandle,
                  OnlyCallbacksEndanger, Alive
  <2>8. CASE UNCHANGED vars
    BY <2>8 DEF vars, mapVars, loopVars, history, IInv, Located, MapsAgree,
                BatchIsDue, InHandle, OnlyCallbacksEndanger, Alive
  <2> QED
    BY <2>1, <2>2, <2>3, <2>4, <2>5, <2>6, <2>7, <2>8 DEF Next, LoopStep
<1> QED
  BY <1>1, <1>2, PTL DEF Spec

\* The variables keep their types, whatever the callbacks do.
THEOREM TimerQueueTyped == Spec => []TypeOK
BY TimersStayInOrder, PTL DEF IInv

\* As long as no timer took the place of another, timerMap_ and
\* timerPositionMap_ are inverse to each other.
THEOREM MapsStayInverse == Spec => []MapsAgree
BY TimersStayInOrder, PTL DEF IInv

\* handle() follows a pointer to a destroyed timer only if a callback
\* destroyed it: a repeating timer moves to a time that is not due, where no
\* timer of the batch is.
THEOREM DanglingIsFromCallbacks == Spec => []OnlyCallbacksEndanger
BY TimersStayInOrder, PTL DEF IInv

\* A callback is called only when it is due, only once unless the timer
\* repeats, and never after a cancel, also when an earlier callback of the
\* same batch cancelled it.
THEOREM CallbacksAreDue == Spec => RunsAreDue
<1>1. IInv /\ [Next]_vars =>
        (pc = "handle" /\ pc' = "callback" =>
           /\ Head(expired) \notin cancelled
           /\ Head(expired) \in repeat \/ Head(expired) \notin ran
           /\ Expiration(Head(expired)) <= now)
  <2> SUFFICES ASSUME IInv, [Next]_vars, pc = "handle", pc' = "callback"
               PROVE  /\ Head(expired) \notin cancelled
                      /\ Head(expired) \in repeat \/ Head(expired) \notin ran
                      /\ Expiration(Head(expired)) <= now
    OBVIOUS
  <2> DEFINE t == Head(expired)
  <2>1. RunTimer
    BY DEF Next, LoopStep, Tick, AddTimer, InUser, Cancel, Handle, AfterCallback,
           HandleDone, vars, loopVars
  <2>2. Alive(t) /\ expired # <<>>
    BY <2>1 DEF RunTimer
  <2>3. t = expired[1] /\ 1 \in 1 .. Len(expired) /\ t \in Timers
    BY <2>2, CurrentTimer DEF IInv, TypeOK
  <2>4. Expiration(t) \in Times /\ timerMap[Expiration(t)] = t
    BY <2>2, ExpirationIsPlace
  <2> HIDE DEF t
  <2>5. position[t] # None
    BY <2>3, <2>4, TimesAreNat, TimerQueueAssumption DEF IInv, Located
  <2>6. t \notin cancelled
    BY <2>5 DEF IInv, Located
  <2>7. t \in repeat \/ t \notin ran
    BY <2>2 DEF IInv, InHandle
  <2>8. Expiration(t) <= now
    BY <2>3, <2>4 DEF IInv, BatchIsDue
  <2> QED
    BY <2>6, <2>7, <2>8 DEF t
<1> QED
  BY <1>1, TimersStayInOrder, PTL DEF Spec, RunsAreDue
-----------------------------------------------------------------------------
\* Between two handle() the timerfd is set to the first expiration, and a
\* handle() that has followed a dead pointer does not return.
FdIsSet ==
  /\ pc = "idle" => armed = ArmedFor(timerMap)
  /\ fault => pc # "idle" /\ (pc = "handle" => expired # <<>>)

\* A timer that is due makes the timerfd readable, so that handle() is called:
\* the guard of Handle.
DueIsReadable ==
  pc = "idle" /\ timerMap[0] = None =>
    \A e \in Keys(timerMap) : e <= now => armed # None /\ armed <= now /\ ~fault

\* FdIsSet is inductive.
LEMMA FdStaysSet == Spec => []FdIsSet
<1>1. Init => FdIsSet
  <2> SUFFICES ASSUME Init  PROVE FdIsSet
    OBVIOUS
  <2>1. Keys(timerMap) = {}
    BY DEF Init, Keys
  <2> QED
    BY <2>1 DEF Init, FdIsSet, ArmedFor
<1>2. FdIsSet /\ [Next]_vars => FdIsSet'
  <2> SUFFICES ASSUME FdIsSet, [Next]_vars  PROVE FdIsSet'
    OBVIOUS
  <2>1. CASE UNCHANGED <<timerMap, armed, pc, expired, fault>>
    BY <2>1 DEF FdIsSet
  <2>2. CASE armed' = ArmedFor(timerMap') /\ UNCHANGED <<pc, expired, fault>>
    BY <2>2 DEF FdIsSet
  <2>3. CASE Handle
    BY <2>3 DEF Handle, FdIsSet
  <2>4. CASE RunTimer
    BY <2>4 DEF RunTimer, FdIsSet
  <2>5. CASE AfterCallback
    BY <2>5 DEF AfterCallback, FdIsSet
  <2>6. CASE HandleDone
    BY <2>6 DEF HandleDone, FdIsSet
  <2>7. Tick \/ UNCHANGED vars => UNCHANGED <<timerMap, armed, pc, expired, fault>>
    BY DEF Tick, vars, mapVars, loopVars
  <2>8. ASSUME NEW t \in Timers,
               Cancel(t) \/ \E e \in Expirations, repeats \in BOOLEAN : AddTimer(t, e, repeats)
        PROVE  armed' = ArmedFor(timerMap') /\ UNCHANGED <<pc, expired, fault>>
    BY <2>8 DEF Cancel, AddTimer, loopVars
  <2> QED
    BY <2>1, <2>2, <2>3, <2>4, <2>5, <2>6, <2>7, <2>8 DEF Next, LoopStep
<1> QED
  BY <1>1, <1>2, PTL DEF Spec

\* Whatever callbacks and user code do to the timers, handle() has re-armed
\* the timerfd when it returns, and so does every addTimer() and cancel(): a
\* timer that is due is never left behind a timerfd that stays silent, unless
\* an expiration at the epoch disarms it (updateTimerFd).
THEOREM DueTimersAreReadable == Spec => []DueIsReadable
<1>1. IInv /\ FdIsSet => DueIsReadable
  <2> SUFFICES ASSUME IInv, FdIsSet, pc = "idle", timerMap[0] = None,
                      NEW e \in Keys(timerMap), e <= now
               PROVE  armed # None /\ armed <= now /\ ~fault
    BY DEF DueIsReadable
  <2>1. /\ Keys(timerMap) \in SUBSET Nat /\ Keys(timerMap) # {} /\ Keys(timerMap) \subseteq Times
        /\ 0 \notin Keys(timerMap)
    BY TimesAreNat DEF Keys
  <2> DEFINE m == Min(Keys(timerMap))
  <2>2. m \in Nat /\ m \in Times /\ m <= e
    BY <2>1, MinIsMember
  <2>3. armed = m /\ ~fault
    BY <2>1 DEF FdIsSet, ArmedFor
  <2>4. e \in Nat /\ now \in Nat
    BY <2>1, TimerQueueAssumption DEF IInv, TypeOK
  <2> HIDE DEF m
  <2> QED
    BY <2>2, <2>3, <2>4, TimesAreNat
<1> QED
  BY <1>1, TimersStayInOrder, FdStaysSet, PTL
=============================================================================
