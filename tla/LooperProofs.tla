---------------------------- MODULE LooperProofs ----------------------------
(* Proofs about Looper for any number of tasks, threads and descriptors.   *)
EXTENDS Looper, SequenceTheorems, TLAPS

\* The types, and where the local batch and isLooping_ are meaningful.
THEOREM LooperTyped == Spec => []TypeOK
<1> USE LooperAssumption
<1>1. Init => TypeOK
  BY EmptySeq DEF Init, TypeOK, Locations
<1>2. TypeOK /\ [Next]_vars => TypeOK'
  <2> SUFFICES ASSUME TypeOK, [Next]_vars
               PROVE  TypeOK'
    OBVIOUS
  <2> USE DEF TypeOK, Locations, Goto, loopVars, sharedVars, history
  <2>1. CASE Start
    BY <2>1 DEF Start
  <2>2. CASE Enter
    BY <2>2 DEF Enter
  <2>3. CASE Check
    BY <2>3 DEF Check
  <2>4. CASE PollReturns
    BY <2>4 DEF PollReturns, ReadyFds
  <2>5. CASE PollTimeout \/ PollInterrupted
    BY <2>5 DEF PollTimeout, PollInterrupted
  <2>6. CASE HandleWakeup
    BY <2>6 DEF HandleWakeup
  <2>7. ASSUME NEW fd \in Fds, HandleFd(fd)
        PROVE  TypeOK'
    BY <2>7 DEF HandleFd
  <2>8. CASE EventsDone
    BY <2>8 DEF EventsDone
  <2>9. CASE Swap
    BY <2>9, EmptySeq DEF Swap
  <2>10. CASE RunTask
    BY <2>10, HeadTailProperties, AppendProperties DEF RunTask
  <2>11. CASE BatchDone
    BY <2>11 DEF BatchDone
  <2>12. CASE Leave
    BY <2>12 DEF Leave
  <2>13. CASE Return
    BY <2>13 DEF Return
  <2>14. CASE Throw
    BY <2>14, EmptySeq DEF Throw
  <2>15. ASSUME NEW t \in Tasks, OwnerQueue(t)
         PROVE  TypeOK'
    BY <2>15, AppendProperties DEF OwnerQueue, Push
  <2>16. ASSUME NEW t \in Tasks, OwnerRun(t)
         PROVE  TypeOK'
    BY <2>16, AppendProperties DEF OwnerRun
  <2>17. CASE OwnerStop
    BY <2>17 DEF OwnerStop
  <2>18. ASSUME NEW p \in Callers, NEW t \in Tasks, RunFromOther(p, t)
         PROVE  TypeOK'
    BY <2>18, AppendProperties DEF RunFromOther, Push
  <2>19. ASSUME NEW p \in Callers, NEW t \in Tasks, QueueFromOther(p, t)
         PROVE  TypeOK'
    BY <2>19, AppendProperties DEF QueueFromOther, Push
  <2>20. ASSUME NEW p \in Callers, StopFromOther(p)
         PROVE  TypeOK'
    BY <2>20 DEF StopFromOther
  <2>21. ASSUME NEW p \in Callers, Wakeup(p)
         PROVE  TypeOK'
    BY <2>21 DEF Wakeup
  <2>22. ASSUME NEW fd \in Fds, FdReady(fd)
         PROVE  TypeOK'
    BY <2>22 DEF FdReady
  <2>23. CASE UNCHANGED vars
    BY <2>23 DEF vars
  <2> QED
    BY <2>1, <2>2, <2>3, <2>4, <2>5, <2>6, <2>7, <2>8, <2>9, <2>10, <2>11,
       <2>12, <2>13, <2>14, <2>15, <2>16, <2>17, <2>18, <2>19, <2>20, <2>21,
       <2>22, <2>23 DEF Next, LoopStep
<1> QED
  BY <1>1, <1>2, PTL DEF Spec
-----------------------------------------------------------------------------
(* Wakeups.                                                                *)

\* The elements of a queue after a push, and of the empty queue.
LEMMA ElementsOfQueue ==
  ASSUME NEW q \in Seq(Tasks), NEW t \in Tasks
  PROVE  /\ Elements(Append(q, t)) = Elements(q) \cup {t}
         /\ Elements(<<>>) = {}
<1>1. /\ Len(Append(q, t)) = Len(q) + 1
      /\ Len(q) \in Nat
      /\ \A i \in 1 .. Len(q) : Append(q, t)[i] = q[i]
      /\ Append(q, t)[Len(q) + 1] = t
  BY AppendProperties, LenProperties
<1>2. 1 .. Len(q) + 1 = (1 .. Len(q)) \cup {Len(q) + 1}
  BY <1>1
<1>3. Len(<<>>) = 0
  BY EmptySeq
<1> QED
  BY <1>1, <1>2, <1>3 DEF Elements

\* The inductive invariant of the wakeups: a task handed in is never handed
\* in again as an urgent one, and both wakeup invariants hold.
WakeupInv ==
  /\ fresh \cap urgent = {}
  /\ NoLostTaskWakeup
  /\ NoLostStopWakeup

\* No run() and no stop() of another thread is slept through: what they
\* change is visible to the loop before it blocks, or a wakeup is pending.
\* Exceptions are excluded: one that escapes a handler after the eventfd was
\* read leaves the queue behind without a wakeup.
THEOREM WakeupsAreNotLost ==
  ~CallbacksThrow => (Spec => [](NoLostTaskWakeup /\ NoLostStopWakeup))
<1> SUFFICES ASSUME ~CallbacksThrow
             PROVE  Spec => [](NoLostTaskWakeup /\ NoLostStopWakeup)
  OBVIOUS
<1> USE LooperAssumption
<1>1. Init => WakeupInv
  BY EmptySeq DEF Init, WakeupInv, NoLostTaskWakeup, NoLostStopWakeup, Elements
<1>2. TypeOK /\ WakeupInv /\ [Next]_vars => WakeupInv'
  <2> SUFFICES ASSUME TypeOK, WakeupInv, [Next]_vars
               PROVE  WakeupInv'
    OBVIOUS
  <2> USE DEF WakeupInv, NoLostTaskWakeup, NoLostStopWakeup, WakeupPending,
              Goto, loopVars, sharedVars, history
  <2>1. CASE Start
    BY <2>1 DEF Start
  <2>2. CASE Enter
    BY <2>2 DEF Enter
  <2>3. CASE Check
    BY <2>3 DEF Check, TypeOK
  <2>4. CASE PollReturns
    BY <2>4 DEF PollReturns
  <2>5. CASE PollTimeout \/ PollInterrupted
    BY <2>5 DEF PollTimeout, PollInterrupted
  <2>6. CASE HandleWakeup
    BY <2>6 DEF HandleWakeup
  <2>7. ASSUME NEW fd \in Fds, HandleFd(fd)
        PROVE  WakeupInv'
    BY <2>7 DEF HandleFd
  <2>8. CASE EventsDone
    BY <2>8 DEF EventsDone
  <2>9. CASE Swap
    <3>1. Elements(tasks') = {}
      BY <2>9, EmptySeq DEF Swap, Elements
    <3> QED
      BY <2>9, <3>1 DEF Swap
  <2>10. CASE RunTask
    BY <2>10 DEF RunTask
  <2>11. CASE BatchDone
    BY <2>11 DEF BatchDone
  <2>12. CASE Leave
    BY <2>12 DEF Leave
  <2>13. CASE Return
    BY <2>13 DEF Return
  <2>14. CASE Throw
    BY <2>14 DEF Throw
  <2>15. ASSUME NEW t \in Tasks, OwnerQueue(t)
         PROVE  WakeupInv'
    <3>1. t \notin urgent /\ Elements(tasks') = Elements(tasks) \cup {t}
      BY <2>15, ElementsOfQueue DEF OwnerQueue, Push, TypeOK
    <3> QED
      BY <2>15, <3>1 DEF OwnerQueue, Push, InUserCode
  <2>16. ASSUME NEW t \in Tasks, OwnerRun(t)
         PROVE  WakeupInv'
    BY <2>16 DEF OwnerRun
  <2>17. CASE OwnerStop
    BY <2>17 DEF OwnerStop
  <2>18. ASSUME NEW p \in Callers, NEW t \in Tasks, RunFromOther(p, t)
         PROVE  WakeupInv'
    <3>1. call'[p] # "idle"
      BY <2>18 DEF RunFromOther, TypeOK
    <3> QED
      BY <2>18, <3>1 DEF RunFromOther, Push
  <2>19. ASSUME NEW p \in Callers, NEW t \in Tasks, QueueFromOther(p, t)
         PROVE  WakeupInv'
    <3>1. t \notin urgent /\ Elements(tasks') = Elements(tasks) \cup {t}
      BY <2>19, ElementsOfQueue DEF QueueFromOther, Push, TypeOK
    <3> QED
      BY <2>19, <3>1 DEF QueueFromOther, Push
  <2>20. ASSUME NEW p \in Callers, StopFromOther(p)
         PROVE  WakeupInv'
    <3>1. call'[p] # "idle"
      BY <2>20 DEF StopFromOther, TypeOK
    <3> QED
      BY <2>20, <3>1 DEF StopFromOther
  <2>21. ASSUME NEW p \in Callers, Wakeup(p)
         PROVE  WakeupInv'
    BY <2>21 DEF Wakeup
  <2>22. ASSUME NEW fd \in Fds, FdReady(fd)
         PROVE  WakeupInv'
    BY <2>22 DEF FdReady
  <2>23. CASE UNCHANGED vars
    BY <2>23 DEF vars
  <2> QED
    BY <2>1, <2>2, <2>3, <2>4, <2>5, <2>6, <2>7, <2>8, <2>9, <2>10, <2>11,
       <2>12, <2>13, <2>14, <2>15, <2>16, <2>17, <2>18, <2>19, <2>20, <2>21,
       <2>22, <2>23 DEF Next, LoopStep
<1>3. WakeupInv => NoLostTaskWakeup /\ NoLostStopWakeup
  BY DEF WakeupInv
<1> QED
  BY <1>1, <1>2, <1>3, LooperTyped, PTL DEF Spec

\* A stop() of another thread, or of a callback, is noticed before the loop
\* blocks (Looper::stop).
THEOREM StopsAreNotLost == ~CallbacksThrow => (Spec => []NoLostStopWakeup)
  BY WakeupsAreNotLost, PTL
-----------------------------------------------------------------------------
(* The queue and the batch refine TaskExecutor.                            *)

\* A push behind the queue is a push behind batch and queue; taking the
\* head of the batch takes the head of both; dropping the batch drops the
\* oldest tasks.
LEMMA Waiting ==
  ASSUME NEW b \in Seq(Tasks), NEW q \in Seq(Tasks)
  PROVE  /\ \A t \in Tasks : b \o Append(q, t) = Append(b \o q, t)
         /\ b # <<>> => /\ b \o q # <<>>
                        /\ Head(b \o q) = Head(b)
                        /\ Tail(b \o q) = Tail(b) \o q
         /\ <<>> \o q = SubSeq(b \o q, Len(b) + 1, Len(b \o q))
         /\ b # <<>> => Len(b) \in 1 .. Len(b \o q)
<1>1. ASSUME NEW t \in Tasks
      PROVE  b \o Append(q, t) = Append(b \o q, t)
  <2>1. <<t>> \in Seq(Tasks) /\ b \o q \in Seq(Tasks)
    BY ConcatProperties
  <2> QED
    BY <2>1, AppendIsConcat, ConcatAssociative
<1>2. /\ b \o q \in Seq(Tasks)
      /\ Len(b \o q) = Len(b) + Len(q)
      /\ Len(b) \in Nat /\ Len(q) \in Nat
      /\ \A i \in 1 .. Len(b) + Len(q) :
           (b \o q)[i] = IF i <= Len(b) THEN b[i] ELSE q[i - Len(b)]
  BY ConcatProperties, LenProperties
<1>3. ASSUME b # <<>>
      PROVE  /\ b \o q # <<>>
             /\ Head(b \o q) = Head(b)
             /\ Tail(b \o q) = Tail(b) \o q
             /\ Len(b) \in 1 .. Len(b \o q)
  <2>1. Len(b) \in Nat \ {0}
    BY <1>3, EmptySeq
  <2>2. b \o q # <<>>
    BY <1>3, ConcatEqualIffEmpty
  <2>3. Head(b \o q) = Head(b)
    BY <1>2, <2>1, <2>2, <1>3
  <2>4. Tail(b) \in Seq(Tasks) /\ Len(Tail(b)) = Len(b) - 1
        /\ \A i \in 1 .. Len(Tail(b)) : Tail(b)[i] = b[i + 1]
    BY <1>3, HeadTailProperties
  <2>5. Tail(b \o q) \in Seq(Tasks) /\ Len(Tail(b \o q)) = Len(b \o q) - 1
        /\ \A i \in 1 .. Len(Tail(b \o q)) : Tail(b \o q)[i] = (b \o q)[i + 1]
    BY <1>2, <2>2, HeadTailProperties
  <2>6. Tail(b) \o q \in Seq(Tasks)
        /\ Len(Tail(b) \o q) = Len(Tail(b)) + Len(q)
        /\ \A i \in 1 .. Len(Tail(b)) + Len(q) : (Tail(b) \o q)[i] =
              IF i <= Len(Tail(b)) THEN Tail(b)[i] ELSE q[i - Len(Tail(b))]
    BY <2>4, ConcatProperties
  <2>7. Len(Tail(b \o q)) = Len(Tail(b) \o q)
    BY <1>2, <2>4, <2>5, <2>6
  <2>8. ASSUME NEW i \in 1 .. Len(Tail(b \o q))
        PROVE  Tail(b \o q)[i] = (Tail(b) \o q)[i]
    <3>1. Tail(b \o q)[i] = IF i + 1 <= Len(b) THEN b[i + 1] ELSE q[(i + 1) - Len(b)]
      BY <1>2, <2>5
    <3>2. (Tail(b) \o q)[i] = IF i <= Len(b) - 1 THEN b[i + 1] ELSE q[i - (Len(b) - 1)]
      BY <1>2, <2>1, <2>4, <2>5, <2>6
    <3> QED
      BY <1>2, <2>5, <3>1, <3>2
  <2>9. Tail(b \o q) = Tail(b) \o q
    BY <2>5, <2>6, <2>7, <2>8, SeqEqual
  <2> QED
    BY <1>2, <2>1, <2>2, <2>3, <2>9
<1>4. <<>> \o q = SubSeq(b \o q, Len(b) + 1, Len(b \o q))
  <2> DEFINE s == SubSeq(b \o q, Len(b) + 1, Len(b \o q))
  <2>1. \A i \in Len(b) + 1 .. Len(b \o q) : (b \o q)[i] \in Tasks
    BY <1>2, ElementOfSeq
  <2>2. s \in Seq(Tasks) /\ Len(s) = Len(q)
        /\ \A i \in 1 .. Len(q) : s[i] = (b \o q)[i + Len(b)]
    BY <1>2, <2>1, SubSeqProperties
  <2> HIDE DEF s
  <2>3. ASSUME NEW i \in 1 .. Len(q)
        PROVE  s[i] = q[i]
    BY <1>2, <2>2
  <2>4. s = q
    BY <2>2, <2>3, SeqEqual
  <2> QED
    BY <2>4, ConcatEmptySeq DEF s
<1> QED
  BY <1>1, <1>3, <1>4

\* Every execution of the loop, exceptions included, is an execution of the
\* abstract executor: the local batch followed by tasks_ is one first-in
\* first-out queue, whatever the interleaving of run(), queue() and the loop.
THEOREM LooperImplementsExecutor == Spec => ExecutorSpec
<1> USE LooperAssumption
<1>1. Init => Executor!Init
  BY EmptySeq, ConcatEmptySeq DEF Init, Executor!Init
<1>2. TypeOK /\ [Next]_vars => [Executor!Next]_(Executor!vars)
  <2> SUFFICES ASSUME TypeOK, [Next]_vars
               PROVE  Executor!Next \/ UNCHANGED Executor!vars
    BY DEF Executor!vars
  <2> USE DEF Goto, loopVars, sharedVars, history
  <2>0. /\ tasks \in Seq(Tasks)
        /\ batch \in Seq(Tasks)
        /\ pc = "swap" => batch = <<>>
    BY DEF TypeOK
  <2>1. ASSUME UNCHANGED <<batch, tasks, fresh, done>>
        PROVE  UNCHANGED Executor!vars
    BY <2>1 DEF Executor!vars
  <2>2. CASE Start \/ Enter \/ Check \/ PollReturns \/ PollTimeout
             \/ PollInterrupted \/ HandleWakeup \/ EventsDone \/ BatchDone
             \/ Leave \/ Return \/ OwnerStop \/ UNCHANGED vars
    BY <2>1, <2>2 DEF Start, Enter, Check, PollReturns, PollTimeout,
       PollInterrupted, HandleWakeup, EventsDone, BatchDone, Leave, Return,
       OwnerStop, vars
  <2>3. ASSUME NEW fd \in Fds, HandleFd(fd) \/ FdReady(fd)
        PROVE  UNCHANGED Executor!vars
    BY <2>1, <2>3 DEF HandleFd, FdReady
  <2>4. ASSUME NEW p \in Callers, StopFromOther(p) \/ Wakeup(p)
        PROVE  UNCHANGED Executor!vars
    BY <2>1, <2>4 DEF StopFromOther, Wakeup
  <2>5. CASE Swap
    <3>1. batch' \o tasks' = batch \o tasks
      BY <2>0, <2>5, ConcatEmptySeq DEF Swap
    <3> QED
      BY <2>5, <3>1 DEF Swap, Executor!vars
  <2>6. CASE RunTask
    <3>1. /\ batch \o tasks # <<>>
          /\ batch' \o tasks' = Tail(batch \o tasks)
          /\ done' = Append(done, Head(batch \o tasks))
          /\ fresh' = fresh
      BY <2>0, <2>6, Waiting DEF RunTask
    <3> QED
      BY <3>1 DEF Executor!Next, Executor!Execute
  <2>7. CASE Throw
    <3>1. CASE batch = <<>>
      BY <2>1, <2>7, <3>1 DEF Throw
    <3>2. CASE batch # <<>>
      <4>1. /\ Len(batch) \in 1 .. Len(batch \o tasks)
            /\ batch' \o tasks' =
                 SubSeq(batch \o tasks, Len(batch) + 1, Len(batch \o tasks))
            /\ fresh' = fresh /\ done' = done
        BY <2>0, <2>7, <3>2, Waiting DEF Throw
      <4>2. Executor!Abandon(Len(batch))
        BY <4>1 DEF Executor!Abandon
      <4> QED
        BY <4>1, <4>2 DEF Executor!Next
    <3> QED
      BY <3>1, <3>2
  <2>8. ASSUME NEW t \in Tasks, Push(t), batch' = batch, done' = done
        PROVE  Executor!Next
    <3>1. batch' \o tasks' = Append(batch \o tasks, t)
      BY <2>0, <2>8, Waiting DEF Push
    <3>2. Executor!Submit(t)
      BY <2>8, <3>1 DEF Push, Executor!Submit
    <3> QED
      BY <3>2 DEF Executor!Next
  <2>9. ASSUME NEW t \in Tasks, OwnerQueue(t)
        PROVE  Executor!Next
    BY <2>8, <2>9 DEF OwnerQueue
  <2>10. ASSUME NEW p \in Callers, NEW t \in Tasks,
                RunFromOther(p, t) \/ QueueFromOther(p, t)
         PROVE  Executor!Next
    BY <2>8, <2>10 DEF RunFromOther, QueueFromOther
  <2>11. ASSUME NEW t \in Tasks, OwnerRun(t)
         PROVE  Executor!Next
    <3>1. Executor!RunNow(t)
      BY <2>11 DEF OwnerRun, Executor!RunNow
    <3> QED
      BY <3>1 DEF Executor!Next
  <2> QED
    BY <2>2, <2>3, <2>4, <2>5, <2>6, <2>7, <2>9, <2>10, <2>11
       DEF Next, LoopStep
<1> QED
  BY <1>1, <1>2, LooperTyped, PTL DEF Spec, ExecutorSpec, Executor!Spec

-----------------------------------------------------------------------------
(* The abstract executor, as the Looper implements it: the queue is the     *)
(* batch followed by tasks_.                                               *)

\* The variables of the executor keep their types.
THEOREM ExecutorTyped == Executor!Spec => []Executor!TypeOK
<1> DEFINE waiting == batch \o tasks
<1>1. Executor!Init => Executor!TypeOK
  BY EmptySeq DEF Executor!Init, Executor!TypeOK
<1>2. Executor!TypeOK /\ [Executor!Next]_(Executor!vars) => Executor!TypeOK'
  <2> SUFFICES ASSUME Executor!TypeOK, [Executor!Next]_(Executor!vars)
               PROVE  Executor!TypeOK'
    OBVIOUS
  <2> USE DEF Executor!TypeOK
  <2>1. ASSUME NEW t \in Tasks, Executor!Submit(t)
        PROVE  Executor!TypeOK'
    BY <2>1, AppendProperties DEF Executor!Submit
  <2>2. ASSUME NEW t \in Tasks, Executor!RunNow(t)
        PROVE  Executor!TypeOK'
    BY <2>2, AppendProperties DEF Executor!RunNow
  <2>3. CASE Executor!Execute
    BY <2>3, HeadTailProperties, AppendProperties DEF Executor!Execute
  <2>4. ASSUME NEW k \in 1 .. Len(waiting), Executor!Abandon(k)
        PROVE  Executor!TypeOK'
    <3>1. waiting' \in Seq(Tasks)
      BY <2>4, SubSeqProperties, LenProperties DEF Executor!Abandon
    <3> QED
      BY <2>4, <3>1 DEF Executor!Abandon
  <2>5. CASE UNCHANGED Executor!vars
    BY <2>5 DEF Executor!vars
  <2> QED
    BY <2>1, <2>2, <2>3, <2>4, <2>5 DEF Executor!Next
<1> QED
  BY <1>1, <1>2, PTL DEF Executor!Spec

\* How History is indexed: first done, then waiting.
LEMMA HistoryIndex ==
  ASSUME NEW d \in Seq(Tasks), NEW w \in Seq(Tasks)
  PROVE  /\ Len(d \o w) = Len(d) + Len(w)
         /\ Len(d) \in Nat
         /\ Len(w) \in Nat
         /\ \A i \in 1 .. Len(d) + Len(w) :
              (d \o w)[i] = IF i <= Len(d) THEN d[i] ELSE w[i - Len(d)]
BY ConcatProperties, LenProperties

\* A fresh task may be appended to what waits.
LEMMA NoRepeatsSubmit ==
  ASSUME NEW d \in Seq(Tasks), NEW w \in Seq(Tasks), NEW f, NEW t \in Tasks,
         Executor!NoRepeats(d \o w, f), t \in f
  PROVE  Executor!NoRepeats(d \o Append(w, t), f \ {t})
<1> DEFINE h == d \o w
           g == d \o Append(w, t)
<1>1. /\ Len(h) = Len(d) + Len(w) /\ Len(d) \in Nat /\ Len(w) \in Nat
      /\ \A i \in 1 .. Len(d) + Len(w) :
           h[i] = IF i <= Len(d) THEN d[i] ELSE w[i - Len(d)]
  BY HistoryIndex
<1>2. /\ Append(w, t) \in Seq(Tasks)
      /\ Len(Append(w, t)) = Len(w) + 1
      /\ \A i \in 1 .. Len(w) : Append(w, t)[i] = w[i]
      /\ Append(w, t)[Len(w) + 1] = t
  BY AppendProperties
<1>3. /\ Len(g) = Len(d) + (Len(w) + 1)
      /\ \A i \in 1 .. Len(d) + (Len(w) + 1) :
           g[i] = IF i <= Len(d) THEN d[i] ELSE Append(w, t)[i - Len(d)]
  BY <1>2, HistoryIndex
<1>4. \A i \in 1 .. Len(h) : g[i] = h[i]
  BY <1>1, <1>2, <1>3
<1>5. Len(g) = Len(h) + 1 /\ g[Len(h) + 1] = t /\ Len(h) \in Nat
  BY <1>1, <1>2, <1>3
<1>6. Executor!NoRepeats(h, f)
  OBVIOUS
<1> HIDE DEF h, g
<1> QED
  <2>1. ASSUME NEW i \in 1 .. Len(g)
        PROVE  i \in 1 .. Len(h) \/ i = Len(h) + 1
    BY <1>5
  <2>2. t \in f /\ \A i \in 1 .. Len(h) : g[i] # t /\ g[i] \notin f
    BY <1>4, <1>6 DEF Executor!NoRepeats
  <2>3. ASSUME NEW i \in 1 .. Len(g)
        PROVE  g[i] \notin f \ {t}
    BY <1>5, <2>1, <2>2
  <2>4. ASSUME NEW i \in 1 .. Len(g), NEW j \in 1 .. Len(g), g[i] = g[j]
        PROVE  i = j
    <3>1. CASE i \in 1 .. Len(h) /\ j \in 1 .. Len(h)
      BY <1>4, <1>6, <2>4, <3>1 DEF Executor!NoRepeats
    <3> QED
      BY <1>5, <2>1, <2>2, <2>4, <3>1
  <2>5. Executor!NoRepeats(g, f \ {t})
    BY <2>3, <2>4 DEF Executor!NoRepeats
  <2> QED
    BY <2>5 DEF g

\* A fresh task may be executed before everything that waits.
LEMMA NoRepeatsRunNow ==
  ASSUME NEW d \in Seq(Tasks), NEW w \in Seq(Tasks), NEW f, NEW t \in Tasks,
         Executor!NoRepeats(d \o w, f), t \in f
  PROVE  Executor!NoRepeats(Append(d, t) \o w, f \ {t})
<1> DEFINE h == d \o w
           g == Append(d, t) \o w
           n == Len(d)
<1>1. /\ Len(h) = n + Len(w) /\ n \in Nat /\ Len(w) \in Nat
      /\ \A i \in 1 .. n + Len(w) :
           h[i] = IF i <= n THEN d[i] ELSE w[i - n]
  BY HistoryIndex
<1>2. /\ Append(d, t) \in Seq(Tasks)
      /\ Len(Append(d, t)) = n + 1
      /\ \A i \in 1 .. n : Append(d, t)[i] = d[i]
      /\ Append(d, t)[n + 1] = t
  BY AppendProperties
<1>3. /\ Len(g) = n + 1 + Len(w)
      /\ \A i \in 1 .. n + 1 + Len(w) :
           g[i] = IF i <= n + 1 THEN Append(d, t)[i] ELSE w[i - (n + 1)]
  <2> DEFINE e == Append(d, t)
  <2>1. e \in Seq(Tasks) /\ Len(e) = n + 1 /\ n \in Nat
    BY <1>1, <1>2
  <2> HIDE DEF e, n
  <2>2. /\ Len(e \o w) = Len(e) + Len(w)
        /\ \A i \in 1 .. Len(e) + Len(w) :
             (e \o w)[i] = IF i <= Len(e) THEN e[i] ELSE w[i - Len(e)]
    BY <2>1, HistoryIndex
  <2>3. /\ Len(e \o w) = n + 1 + Len(w)
        /\ \A i \in 1 .. n + 1 + Len(w) :
             (e \o w)[i] = IF i <= n + 1 THEN e[i] ELSE w[i - (n + 1)]
    BY <2>1, <2>2
  <2> QED
    BY <2>3 DEF e
<1>4. /\ \A i \in 1 .. n : g[i] = h[i]
      /\ \A i \in n + 2 .. n + 1 + Len(w) : g[i] = h[i - 1]
  BY <1>1, <1>2, <1>3
<1>5. Len(g) = Len(h) + 1 /\ g[n + 1] = t /\ Len(h) = n + Len(w)
  BY <1>1, <1>2, <1>3
<1>6. Executor!NoRepeats(h, f)
  OBVIOUS
<1>7. n \in Nat /\ Len(w) \in Nat
  BY <1>1
<1> HIDE DEF h, g, n
<1> QED
  <2> DEFINE m(i) == IF i <= n THEN i ELSE i - 1
  <2>1. \A i \in 1 .. Len(g) : i # n + 1 => m(i) \in 1 .. Len(h) /\ g[i] = h[m(i)]
    BY <1>4, <1>5, <1>7
  <2>2. \A i \in 1 .. Len(g) : i # n + 1 => g[i] \notin f
    BY <1>6, <2>1 DEF Executor!NoRepeats
  <2>3. ASSUME NEW i \in 1 .. Len(g), NEW j \in 1 .. Len(g), g[i] = g[j]
        PROVE  i = j
    <3>1. CASE i = n + 1 \/ j = n + 1
      BY <1>5, <2>2, <2>3, <3>1
    <3>2. CASE i # n + 1 /\ j # n + 1
      <4>1. m(i) = m(j)
        BY <1>6, <2>1, <2>3, <3>2 DEF Executor!NoRepeats
      <4> QED
        BY <1>5, <1>7, <3>2, <4>1
    <3> QED
      BY <3>1, <3>2
  <2>4. Executor!NoRepeats(g, f \ {t})
    BY <1>5, <2>2, <2>3 DEF Executor!NoRepeats
  <2> QED
    BY <2>4 DEF g

\* Moving the oldest waiting task to the executed ones changes nothing.
LEMMA ExecuteKeepsHistory ==
  ASSUME NEW d \in Seq(Tasks), NEW w \in Seq(Tasks), w # <<>>
  PROVE  Append(d, Head(w)) \o Tail(w) = d \o w
<1> DEFINE e == Append(d, Head(w))
           h == d \o w
           g == e \o Tail(w)
<1>1. /\ Len(w) \in Nat \ {0}
      /\ Head(w) \in Tasks /\ Head(w) = w[1]
      /\ Tail(w) \in Seq(Tasks) /\ Len(Tail(w)) = Len(w) - 1
      /\ \A i \in 1 .. Len(Tail(w)) : Tail(w)[i] = w[i + 1]
  BY HeadTailProperties, EmptySeq
<1>2. /\ e \in Seq(Tasks)
      /\ Len(e) = Len(d) + 1
      /\ \A i \in 1 .. Len(d) : e[i] = d[i]
      /\ e[Len(d) + 1] = w[1]
  BY <1>1, AppendProperties
<1>3. /\ Len(h) = Len(d) + Len(w) /\ Len(d) \in Nat
      /\ \A i \in 1 .. Len(d) + Len(w) :
           h[i] = IF i <= Len(d) THEN d[i] ELSE w[i - Len(d)]
  BY HistoryIndex
<1> HIDE DEF e
<1>4. /\ Len(g) = Len(e) + Len(Tail(w))
      /\ \A i \in 1 .. Len(e) + Len(Tail(w)) :
           g[i] = IF i <= Len(e) THEN e[i] ELSE Tail(w)[i - Len(e)]
  BY <1>1, <1>2, HistoryIndex
<1>5. h \in Seq(Tasks) /\ g \in Seq(Tasks)
  BY <1>1, <1>2, ConcatProperties
<1> HIDE DEF h, g
<1>6. /\ Len(g) = Len(h) /\ Len(g) = Len(d) + Len(w)
      /\ Len(d) \in Nat /\ Len(w) \in Nat /\ Len(Tail(w)) = Len(w) - 1
      /\ Len(e) = Len(d) + 1 /\ Len(e) + Len(Tail(w)) = Len(g)
  BY <1>1, <1>2, <1>3, <1>4
<1>7. ASSUME NEW i \in 1 .. Len(g)
      PROVE  g[i] = h[i]
  <2>1. h[i] = IF i <= Len(d) THEN d[i] ELSE w[i - Len(d)]
    BY <1>3, <1>6
  <2>2. g[i] = IF i <= Len(d) + 1 THEN e[i] ELSE Tail(w)[i - (Len(d) + 1)]
    BY <1>4, <1>6
  <2>3. CASE i <= Len(d)
    BY <1>2, <1>6, <2>1, <2>2, <2>3
  <2>4. CASE i = Len(d) + 1
    BY <1>2, <1>6, <2>1, <2>2, <2>4
  <2>5. CASE i > Len(d) + 1
    <3>1. /\ i - (Len(d) + 1) \in 1 .. Len(Tail(w))
          /\ (i - (Len(d) + 1)) + 1 = i - Len(d)
      BY <1>6, <2>5
    <3>2. Tail(w)[i - (Len(d) + 1)] = w[i - Len(d)]
      BY <1>1, <3>1
    <3> QED
      BY <1>6, <2>1, <2>2, <2>5, <3>2
  <2> QED
    BY <1>6, <2>3, <2>4, <2>5
<1>8. g = h
  BY <1>5, <1>6, <1>7, SeqEqual
<1> QED
  BY <1>8 DEF g, h, e

\* Losing the oldest waiting tasks leaves no repetition behind.
LEMMA NoRepeatsAbandon ==
  ASSUME NEW d \in Seq(Tasks), NEW w \in Seq(Tasks), NEW f,
         NEW k \in 1 .. Len(w), Executor!NoRepeats(d \o w, f)
  PROVE  Executor!NoRepeats(d \o SubSeq(w, k + 1, Len(w)), f)
<1> DEFINE v == SubSeq(w, k + 1, Len(w))
           h == d \o w
           g == d \o v
<1>1. /\ Len(h) = Len(d) + Len(w) /\ Len(d) \in Nat /\ Len(w) \in Nat
      /\ \A i \in 1 .. Len(d) + Len(w) :
           h[i] = IF i <= Len(d) THEN d[i] ELSE w[i - Len(d)]
  BY HistoryIndex
<1>2. /\ v \in Seq(Tasks)
      /\ Len(v) = Len(w) - k
      /\ \A i \in 1 .. Len(w) - k : v[i] = w[i + k]
  <2>1. \A i \in k + 1 .. Len(w) : w[i] \in Tasks
    BY <1>1, ElementOfSeq
  <2> QED
    BY <1>1, <2>1, SubSeqProperties
<1> HIDE DEF v
<1>3. /\ Len(g) = Len(d) + Len(v)
      /\ \A i \in 1 .. Len(d) + Len(v) :
           g[i] = IF i <= Len(d) THEN d[i] ELSE v[i - Len(d)]
  BY <1>2, HistoryIndex
<1>4. Executor!NoRepeats(h, f)
  OBVIOUS
<1> HIDE DEF h, g
<1>5. /\ \A i \in 1 .. Len(d) : g[i] = h[i]
      /\ \A i \in Len(d) + 1 .. Len(g) : g[i] = h[i + k]
  <2>1. ASSUME NEW i \in Len(d) + 1 .. Len(g)
        PROVE  g[i] = h[i + k]
    <3>1. g[i] = v[i - Len(d)] /\ i - Len(d) \in 1 .. Len(w) - k
      BY <1>1, <1>2, <1>3
    <3>2. v[i - Len(d)] = w[(i - Len(d)) + k]
      BY <1>2, <3>1
    <3>3. h[i + k] = w[(i + k) - Len(d)]
      BY <1>1, <1>2, <1>3
    <3> QED
      BY <1>1, <3>1, <3>2, <3>3
  <2>2. ASSUME NEW i \in 1 .. Len(d)
        PROVE  g[i] = h[i]
    <3>1. i \in 1 .. Len(d) + Len(w) /\ i \in 1 .. Len(d) + Len(v) /\ i <= Len(d)
      BY <1>1, <1>2
    <3> QED
      BY <1>1, <1>3, <3>1
  <2> QED
    BY <2>1, <2>2
<1>6. Len(g) = Len(h) - k /\ Len(h) \in Nat /\ Len(d) \in Nat
  BY <1>1, <1>2, <1>3
<1> QED
  <2> DEFINE m(i) == IF i <= Len(d) THEN i ELSE i + k
  <2>1. ASSUME NEW i \in 1 .. Len(g)
        PROVE  m(i) \in 1 .. Len(h) /\ g[i] = h[m(i)]
    <3>1. CASE i <= Len(d)
      BY <1>5, <1>6, <3>1
    <3>2. CASE i > Len(d)
      <4>1. i \in Len(d) + 1 .. Len(g) /\ m(i) = i + k
        BY <1>6, <3>2
      <4> QED
        BY <1>5, <1>6, <4>1
    <3> QED
      BY <1>6, <3>1, <3>2
  <2>2. \A i \in 1 .. Len(g) : g[i] \notin f
    BY <1>4, <2>1 DEF Executor!NoRepeats
  <2>3. ASSUME NEW i \in 1 .. Len(g), NEW j \in 1 .. Len(g), g[i] = g[j]
        PROVE  i = j
    <3>1. m(i) = m(j)
      BY <1>4, <2>1, <2>3 DEF Executor!NoRepeats
    <3> QED
      BY <1>6, <3>1
  <2>4. Executor!NoRepeats(g, f)
    BY <2>2, <2>3 DEF Executor!NoRepeats
  <2> QED
    BY <2>4 DEF g, v

\* Submission, execution and loss keep the history free of repetitions: no
\* task that was handed to run() or queue() once is executed twice.
THEOREM ExecutorAtMostOnce == Executor!Spec => []Executor!AtMostOnce
<1> DEFINE waiting == batch \o tasks
<1>1. Executor!Init => Executor!AtMostOnce
  <2> SUFFICES ASSUME Executor!Init
               PROVE  Len(Executor!History) = 0
    BY DEF Executor!AtMostOnce, Executor!NoRepeats
  <2> QED
    BY EmptySeq, HistoryIndex DEF Executor!Init, Executor!History
<1>2. Executor!TypeOK /\ Executor!AtMostOnce /\ [Executor!Next]_(Executor!vars) => Executor!AtMostOnce'
  <2> SUFFICES ASSUME Executor!TypeOK, Executor!AtMostOnce, [Executor!Next]_(Executor!vars)
               PROVE  Executor!NoRepeats(done' \o waiting', fresh')
    BY DEF Executor!AtMostOnce, Executor!History
  <2>0. /\ done \in Seq(Tasks)
        /\ waiting \in Seq(Tasks)
        /\ Executor!NoRepeats(done \o waiting, fresh)
    BY DEF Executor!TypeOK, Executor!AtMostOnce, Executor!History
  <2>1. ASSUME NEW t \in Tasks, Executor!Submit(t)
        PROVE  Executor!NoRepeats(done' \o waiting', fresh')
    BY <2>0, <2>1, NoRepeatsSubmit DEF Executor!Submit
  <2>2. ASSUME NEW t \in Tasks, Executor!RunNow(t)
        PROVE  Executor!NoRepeats(done' \o waiting', fresh')
    BY <2>0, <2>2, NoRepeatsRunNow DEF Executor!RunNow
  <2>3. CASE Executor!Execute
    BY <2>0, <2>3, ExecuteKeepsHistory DEF Executor!Execute
  <2>4. ASSUME NEW k \in 1 .. Len(waiting), Executor!Abandon(k)
        PROVE  Executor!NoRepeats(done' \o waiting', fresh')
    BY <2>0, <2>4, NoRepeatsAbandon DEF Executor!Abandon
  <2>5. CASE UNCHANGED Executor!vars
    BY <2>0, <2>5 DEF Executor!vars
  <2> QED
    BY <2>1, <2>2, <2>3, <2>4, <2>5 DEF Executor!Next
<1> QED
  BY <1>1, <1>2, ExecutorTyped, PTL DEF Executor!Spec
\* No task handed to a Looper is ever executed twice, and none that has been
\* executed still waits in the batch or in tasks_.
THEOREM LooperAtMostOnce == Spec => []TasksRunAtMostOnce
BY LooperImplementsExecutor, ExecutorAtMostOnce, PTL DEF ExecutorSpec, TasksRunAtMostOnce
=============================================================================
