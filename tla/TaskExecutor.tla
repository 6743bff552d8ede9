---------------------------- MODULE TaskExecutor ----------------------------
(***************************************************************************)
(* What a Looper promises to the code that hands it tasks (Looper::run and *)
(* Looper::queue): a task is executed at most once, tasks that have to     *)
(* wait are executed in the order in which they were handed in, and a task *)
(* can be lost only together with every older task that still waits (an    *)
(* exception that leaves the event loop throws the rest of its batch       *)
(* away).                                                                  *)
(*                                                                         *)
(* Each task is handed in at most once, so a task names one call.          *)
(***************************************************************************)
EXTENDS Naturals, Sequences

CONSTANT Tasks      \* the functions handed to run() and queue()

VARIABLES
  fresh,            \* tasks not handed in yet
  waiting,          \* tasks handed in and not started, oldest first
  done              \* tasks started, in the order of their execution

vars == <<fresh, waiting, done>>

Init ==
  /\ fresh = Tasks
  /\ waiting = <<>>
  /\ done = <<>>

\* queue(), and run() called by a thread that does not own the loop.
Submit(t) ==
  /\ t \in fresh
  /\ fresh' = fresh \ {t}
  /\ waiting' = Append(waiting, t)
  /\ UNCHANGED done

\* run() called by the thread that owns the loop executes at once.
RunNow(t) ==
  /\ t \in fresh
  /\ fresh' = fresh \ {t}
  /\ done' = Append(done, t)
  /\ UNCHANGED waiting

Execute ==
  /\ waiting # <<>>
  /\ waiting' = Tail(waiting)
  /\ done' = Append(done, Head(waiting))
  /\ UNCHANGED fresh

\* An exception leaves the loop: the k oldest waiting tasks are lost.
Abandon(k) ==
  /\ waiting' = SubSeq(waiting, k + 1, Len(waiting))
  /\ UNCHANGED <<fresh, done>>

Next ==
  \/ \E t \in Tasks : Submit(t) \/ RunNow(t)
  \/ Execute
  \/ \E k \in 1 .. Len(waiting) : Abandon(k)

Spec == Init /\ [][Next]_vars

-----------------------------------------------------------------------------
TypeOK ==
  /\ fresh \subseteq Tasks
  /\ waiting \in Seq(Tasks)
  /\ done \in Seq(Tasks)

\* The tasks started and the tasks that wait, in the order in which an
\* execution without exceptions would run them.
History == done \o waiting

\* The positions of h hold different tasks, none of them in f.
NoRepeats(h, f) ==
  /\ \A i, j \in 1 .. Len(h) : h[i] = h[j] => i = j
  /\ \A i \in 1 .. Len(h) : h[i] \notin f

\* No task is started twice and none that has started still waits.
AtMostOnce == NoRepeats(History, fresh)
=============================================================================
