------------------------------- MODULE Looper -------------------------------
(***************************************************************************)
(* The event loop of net/base/Looper.cpp: the thread that owns the Looper  *)
(* polls the registered descriptors, calls the handlers of those that      *)
(* became ready, and then executes the tasks that were queued.  Any other  *)
(* thread may hand tasks in (run, queue) and stop the loop (stop); run and *)
(* stop wake the poll through an eventfd whose read end is registered with *)
(* the poller like any other descriptor.                                   *)
(*                                                                         *)
(* A step is what runs between two accesses to state that another thread   *)
(* shares: the queue under mutex_, the atomics stop_ and isLooping_, and   *)
(* the eventfd.  run() and stop() of another thread are two steps, the     *)
(* change and the wakeup.                                                  *)
(***************************************************************************)
EXTENDS Naturals, Sequences

CONSTANTS
  Tasks,            \* functions handed to run() or queue(), each once
  Callers,          \* the threads other than the owner of the loop
  Fds,              \* descriptors registered besides wakeupFd_
  WakeFd,           \* wakeupFd_
  CallbacksThrow    \* may a handler or a task let an exception escape?

ASSUME LooperAssumption ==
  /\ WakeFd \notin Fds
  /\ "idle" \notin Tasks
  /\ "stop" \notin Tasks
  /\ CallbacksThrow \in BOOLEAN

VARIABLES
  pc,               \* where the owner is in start(), "out" outside it
  tasks,            \* tasks_
  batch,            \* the local vector swapped with tasks_
  stop,             \* stop_
  isLooping,        \* isLooping_
  signalled,        \* is the counter of the eventfd above zero?
  ready,            \* descriptors of Fds with a pending event
  active,           \* activeEvents_ not handled yet
  call,             \* per caller: the task or the stop it has to wake for
  fresh,            \* history: tasks not handed in yet
  urgent,           \* history: tasks handed in by run() of another thread
  done              \* history: tasks started, in order

loopVars == <<pc, batch, active, isLooping>>
sharedVars == <<tasks, stop, signalled>>
history == <<fresh, urgent, done>>
vars == <<loopVars, sharedVars, ready, call, history>>

Locations == {"out", "enter", "check", "poll", "events", "inEvent",
              "swap", "tasks", "inTask", "leave"}

Elements(s) == {s[i] : i \in 1 .. Len(s)}

Init ==
  /\ pc = "out"
  /\ tasks = <<>>
  /\ batch = <<>>
  /\ stop = FALSE
  /\ isLooping = FALSE
  /\ signalled = FALSE
  /\ ready = {}
  /\ active = {}
  /\ call = [p \in Callers |-> "idle"]
  /\ fresh = Tasks
  /\ urgent = {}
  /\ done = <<>>

Goto(from, to) == pc = from /\ pc' = to

-----------------------------------------------------------------------------
(* start(): the loop.                                                      *)

Start ==
  /\ Goto("out", "enter")
  /\ stop' = FALSE
  /\ UNCHANGED <<batch, active, isLooping, tasks, signalled, ready, call, history>>

\* Mutant: stop_ is cleared after isLooping_ is set.
EnterClearsStop ==
  /\ Goto("enter", "check")
  /\ isLooping' = TRUE
  /\ stop' = FALSE
  /\ UNCHANGED <<batch, active, tasks, signalled, ready, call, history>>

Enter ==
  /\ Goto("enter", "check")
  /\ isLooping' = TRUE
  /\ UNCHANGED <<batch, active, sharedVars, ready, call, history>>

Check ==
  /\ pc = "check"
  /\ pc' = IF stop THEN "leave" ELSE "poll"
  /\ active' = IF stop THEN active ELSE {}
  /\ UNCHANGED <<batch, isLooping, sharedVars, ready, call, history>>

ReadyFds == ready \cup (IF signalled THEN {WakeFd} ELSE {})

PollReturns ==
  /\ Goto("poll", "events")
  /\ ReadyFds # {}
  /\ active' = ReadyFds
  /\ UNCHANGED <<batch, isLooping, sharedVars, ready, call, history>>

\* Mutant: an iteration without events skips the queue.
PollTimeoutSkipsTasks ==
  /\ Goto("poll", "check")
  /\ ReadyFds = {}
  /\ UNCHANGED <<batch, active, isLooping, sharedVars, ready, call, history>>

\* kPollTimeMs elapse without an event.
PollTimeout ==
  /\ Goto("poll", "events")
  /\ ReadyFds = {}
  /\ UNCHANGED <<batch, active, isLooping, sharedVars, ready, call, history>>

\* A signal interrupts the poll, which reports no event.
PollInterrupted ==
  /\ Goto("poll", "events")
  /\ UNCHANGED <<batch, active, isLooping, sharedVars, ready, call, history>>

\* The read callback of wakeupEvent_: eventfd_read resets the counter.
HandleWakeup ==
  /\ pc = "events"
  /\ WakeFd \in active
  /\ active' = active \ {WakeFd}
  /\ signalled' = FALSE
  /\ UNCHANGED <<pc, batch, isLooping, tasks, stop, ready, call, history>>

\* Event::handle calls the handler of fd, which consumes what fd had ready.
HandleFd(fd) ==
  /\ Goto("events", "inEvent")
  /\ fd \in active
  /\ active' = active \ {fd}
  /\ ready' = ready \ {fd}
  /\ UNCHANGED <<batch, isLooping, sharedVars, call, history>>

EventsDone ==
  /\ Goto("events", "swap")
  /\ active = {}
  /\ UNCHANGED <<batch, active, isLooping, sharedVars, ready, call, history>>

\* Mutant: the queue is copied instead of swapped.
SwapCopies ==
  /\ Goto("swap", "tasks")
  /\ batch' = tasks
  /\ UNCHANGED <<active, isLooping, sharedVars, ready, call, history>>

Swap ==
  /\ Goto("swap", "tasks")
  /\ batch' = tasks
  /\ tasks' = <<>>
  /\ UNCHANGED <<active, isLooping, stop, signalled, ready, call, history>>

RunTask ==
  /\ Goto("tasks", "inTask")
  /\ batch # <<>>
  /\ batch' = Tail(batch)
  /\ done' = Append(done, Head(batch))
  /\ UNCHANGED <<active, isLooping, sharedVars, ready, call, fresh, urgent>>

\* Mutant: the eventfd is drained at the end of an iteration.
BatchDoneDrains ==
  /\ Goto("tasks", "check")
  /\ batch = <<>>
  /\ signalled' = FALSE
  /\ UNCHANGED <<batch, active, isLooping, tasks, stop, ready, call, history>>

BatchDone ==
  /\ Goto("tasks", "check")
  /\ batch = <<>>
  /\ UNCHANGED <<batch, active, isLooping, sharedVars, ready, call, history>>

Leave ==
  /\ Goto("leave", "out")
  /\ isLooping' = FALSE
  /\ UNCHANGED <<batch, active, sharedVars, ready, call, history>>

-----------------------------------------------------------------------------
(* User code on the owner's thread: handlers, tasks, and what surrounds    *)
(* start().                                                                *)

InUserCode == pc \in {"out", "inEvent", "inTask"}

Return ==
  /\ \/ Goto("inEvent", "events")
     \/ Goto("inTask", "tasks")
  /\ UNCHANGED <<batch, active, isLooping, sharedVars, ready, call, history>>

\* Mutant: the batch survives the exception.
ThrowKeepsBatch ==
  /\ CallbacksThrow
  /\ pc \in {"inEvent", "inTask"}
  /\ pc' = "out"
  /\ UNCHANGED <<batch, active, isLooping, sharedVars, ready, call, history>>

\* The exception unwinds start(): the local batch is destroyed, and neither
\* isLooping_ nor activeEvents_ is reset.
Throw ==
  /\ CallbacksThrow
  /\ pc \in {"inEvent", "inTask"}
  /\ pc' = "out"
  /\ batch' = <<>>
  /\ UNCHANGED <<active, isLooping, sharedVars, ready, call, history>>

\* Mutant: the newest task is executed first.
PushFront(t) ==
  /\ t \in fresh
  /\ fresh' = fresh \ {t}
  /\ tasks' = <<t>> \o tasks

\* queue(): push under the lock, no wakeup.
Push(t) ==
  /\ t \in fresh
  /\ fresh' = fresh \ {t}
  /\ tasks' = Append(tasks, t)

OwnerQueue(t) ==
  /\ InUserCode
  /\ Push(t)
  /\ UNCHANGED <<loopVars, stop, signalled, ready, call, urgent, done>>

\* run() on the owner's thread calls the function in place.
OwnerRun(t) ==
  /\ InUserCode
  /\ t \in fresh
  /\ fresh' = fresh \ {t}
  /\ done' = Append(done, t)
  /\ UNCHANGED <<loopVars, sharedVars, ready, call, urgent>>

OwnerStop ==
  /\ InUserCode
  /\ stop' = TRUE
  /\ signalled' = TRUE
  /\ UNCHANGED <<loopVars, tasks, ready, call, history>>

-----------------------------------------------------------------------------
(* Other threads and the descriptors.                                      *)

\* Mutant: run() queues without the wakeup.
RunFromOtherSilently(p, t) ==
  /\ call[p] = "idle"
  /\ Push(t)
  /\ urgent' = urgent \cup {t}
  /\ UNCHANGED <<loopVars, stop, signalled, ready, call, done>>

RunFromOther(p, t) ==
  /\ call[p] = "idle"
  /\ Push(t)
  /\ urgent' = urgent \cup {t}
  /\ call' = [call EXCEPT ![p] = t]
  /\ UNCHANGED <<loopVars, stop, signalled, ready, done>>

QueueFromOther(p, t) ==
  /\ call[p] = "idle"
  /\ Push(t)
  /\ UNCHANGED <<loopVars, stop, signalled, ready, call, urgent, done>>

\* Mutant: stop() without the wakeup.
StopSilently(p) ==
  /\ call[p] = "idle"
  /\ stop' = TRUE
  /\ UNCHANGED <<loopVars, tasks, signalled, ready, call, history>>

StopFromOther(p) ==
  /\ call[p] = "idle"
  /\ stop' = TRUE
  /\ call' = [call EXCEPT ![p] = "stop"]
  /\ UNCHANGED <<loopVars, tasks, signalled, ready, history>>

\* wakeup(): eventfd_write.
Wakeup(p) ==
  /\ call[p] # "idle"
  /\ signalled' = TRUE
  /\ call' = [call EXCEPT ![p] = "idle"]
  /\ UNCHANGED <<loopVars, tasks, stop, ready, history>>

FdReady(fd) ==
  /\ ready' = ready \cup {fd}
  /\ UNCHANGED <<loopVars, sharedVars, call, history>>

-----------------------------------------------------------------------------
LoopStep ==
  \/ Enter \/ Check \/ PollReturns
  \/ HandleWakeup \/ (\E fd \in Fds : HandleFd(fd)) \/ EventsDone
  \/ Swap \/ RunTask \/ BatchDone \/ Leave \/ Return

Next ==
  \/ Start
  \/ LoopStep
  \/ PollTimeout
  \/ PollInterrupted
  \/ Throw
  \/ \E t \in Tasks : OwnerQueue(t) \/ OwnerRun(t)
  \/ OwnerStop
  \/ \E p \in Callers :
       \/ \E t \in Tasks : RunFromOther(p, t) \/ QueueFromOther(p, t)
       \/ StopFromOther(p)
       \/ Wakeup(p)
  \/ \E fd \in Fds : FdReady(fd)

Spec == Init /\ [][Next]_vars

\* The owner keeps running inside start(), handlers and tasks return, and a
\* caller that has queued reaches its eventfd_write.  Nothing is assumed of
\* the time limit of the poll.
FairSpec ==
  /\ Spec
  /\ WF_vars(LoopStep)
  /\ \A p \in Callers : WF_vars(Wakeup(p))

-----------------------------------------------------------------------------
\* The types of the variables; the local batch exists only between the swap
\* and the end of its loop, and start() holds isLooping_ in its loop.
TypeOK ==
  /\ pc \in Locations
  /\ tasks \in Seq(Tasks)
  /\ batch \in Seq(Tasks)
  /\ stop \in BOOLEAN
  /\ isLooping \in BOOLEAN
  /\ signalled \in BOOLEAN
  /\ ready \subseteq Fds
  /\ active \subseteq Fds \cup {WakeFd}
  /\ call \in [Callers -> Tasks \cup {"idle", "stop"}]
  /\ fresh \subseteq Tasks
  /\ urgent \subseteq Tasks
  /\ done \in Seq(Tasks)
  /\ pc \notin {"tasks", "inTask"} => batch = <<>>
  /\ pc \notin {"out", "enter"} => isLooping

\* A wakeup is on its way: the eventfd is readable or some caller has still
\* to write it.
WakeupPending == signalled \/ \E p \in Callers : call[p] # "idle"

\* run() of another thread means "wake up and execute at once" (Looper.h:54):
\* except between a poll and the swap that follows it, which takes the whole
\* queue, a task queued by run() is always accompanied by a pending wakeup,
\* whatever the loop has read from the eventfd in between.
NoLostTaskWakeup ==
  pc \notin {"events", "inEvent", "swap"} =>
    (Elements(tasks) \cap urgent # {} => WakeupPending)

\* A stop requested while the loop is about to block is accompanied by a
\* pending wakeup: no poll sleeps through a stop.
NoLostStopWakeup == pc = "poll" /\ stop => WakeupPending

\* What start() refines: batch and tasks_ are one first-in first-out queue.
Executor == INSTANCE TaskExecutor WITH waiting <- batch \o tasks

\* Tasks are executed in submission order and none is made up or duplicated, whatever the
\* interleaving of run(), queue() and the loop, exceptions included.
ExecutorSpec == Executor!Spec

\* No task is executed twice, and none is both executed and still queued.
TasksRunAtMostOnce == Executor!AtMostOnce

\* A task handed in by run() of another thread is executed even if the poll
\* never times out, unless the loop is stopped or not running.
UrgentTaskRuns ==
  \A t \in Tasks : t \in urgent ~> (t \in Elements(done) \/ pc = "out")

\* A stop that finds start() past its first line ends the loop, even if the
\* poll never times out.
StopEndsLoop == (stop /\ pc # "out") ~> (pc = "out")

\* If a poll without events returns after kPollTimeMs, a task handed in by
\* queue() is executed, unless the loop is stopped or not running.
QueuedTaskRuns ==
  WF_vars(PollTimeout) =>
    \A t \in Tasks : t \in Elements(tasks) ~> (t \in Elements(done) \/ pc = "out")
=============================================================================
