----------------------------- MODULE TimerQueue -----------------------------
(***************************************************************************)
(* The timers of a Looper, net/timer/TimerQueue.cpp and Timer.cpp: a map   *)
(* from expiration to timer, a map from timer to its expiration, and a     *)
(* timerfd that is set to the first expiration.  When it is readable,      *)
(* handle() calls the expired timers one after the other, through plain    *)
(* pointers, while their callbacks add and cancel timers.                  *)
(*                                                                         *)
(* addTimer() of another thread is left out: its closure refers to a local *)
(* variable of the caller.  cancel() of another thread is a task of the    *)
(* loop, like a cancel() of user code between two handle().                *)
(*                                                                         *)
(* Callbacks are taken to return.  One that throws leaves handle() at once *)
(* (TimerQueue.cpp:76): its timer stays in the map although it ran, the    *)
(* rest of the batch is not called, the timerfd is not set again, and the  *)
(* Looper's start() ends with it.                                          *)
(***************************************************************************)
EXTENDS Naturals, Sequences, FiniteSetsExt, SequencesExt

CONSTANTS
  Timers,           \* timers, each added once
  Expirations,      \* what user code passes to addTimer
  Interval,         \* the interval of the timers that repeat
  MaxNow,           \* bound: the last moment of the clock
  None              \* no timer, no time

ASSUME TimerQueueAssumption ==
  /\ None \notin Timers \cup Nat
  /\ Expirations \subseteq Nat
  /\ Interval \in Nat \ {0}
  /\ MaxNow \in Nat \ {0}

VARIABLES
  now,              \* the clock
  timerMap,         \* timerMap_
  position,         \* timerPositionMap_
  repeat,           \* the timers with an interval
  armed,            \* the time the timerfd is set to
  pc,               \* "idle", or in handle(): "handle" or "callback"
  expired,          \* expiredList from the current timer on
  fault,            \* handle() has followed a pointer to a destroyed timer
  fresh,            \* history: timers not added yet
  ran,              \* history: timers whose callback was called
  cancelled,        \* history: timers user code cancelled
  lost,             \* history: timers that disappeared in another's place
  endangered        \* history: user code destroyed a timer of expiredList

mapVars == <<timerMap, position, armed>>
loopVars == <<pc, expired, fault, ran>>
history == <<fresh, cancelled, lost, endangered>>
vars == <<now, mapVars, repeat, loopVars, history>>

\* Time 0 is the epoch; the clock starts later.
Times == Expirations \cup 0 .. MaxNow + Interval

Keys(map) == {e \in Times : map[e] # None}

\* updateTimerFd: a time of zero disarms the timerfd.
ArmedFor(map) ==
  IF Keys(map) = {} \/ 0 \in Keys(map) THEN None ELSE Min(Keys(map))

\* A timer lives as long as timerMap_ owns it.
Alive(t) == \E e \in Times : timerMap[e] = t

Expiration(t) == CHOOSE e \in Times : timerMap[e] = t

Init ==
  /\ now = 1
  /\ timerMap = [e \in Times |-> None]
  /\ position = [t \in Timers |-> None]
  /\ repeat = {}
  /\ armed = None
  /\ pc = "idle"
  /\ expired = <<>>
  /\ fault = FALSE
  /\ fresh = Timers
  /\ ran = {}
  /\ cancelled = {}
  /\ lost = {}
  /\ endangered = FALSE

Tick ==
  /\ now < MaxNow
  /\ now' = now + 1
  /\ UNCHANGED <<mapVars, repeat, loopVars, history>>

-----------------------------------------------------------------------------
(* User code on the loop's thread, between two handle() or in a callback.  *)

InUser == pc \in {"idle", "callback"} /\ ~fault

\* What user code does to the timer at e, if there is one, besides cancelling.
Destroys(e, t) ==
  /\ lost' = lost \cup ({timerMap[e]} \ {t, None})
  /\ endangered' = (endangered \/ (timerMap[e] # None /\ Contains(expired, timerMap[e])))

AddTimer(t, e, repeats) ==
  /\ InUser /\ t \in fresh
  /\ fresh' = fresh \ {t}
  /\ repeat' = IF repeats THEN repeat \cup {t} ELSE repeat
  /\ timerMap' = [timerMap EXCEPT ![e] = t]
  /\ position' = [position EXCEPT ![t] = e]
  /\ armed' = ArmedFor(timerMap')
  /\ Destroys(e, t)
  /\ UNCHANGED <<now, loopVars, cancelled>>

\* Mutant: the timer stays in timerMap_.
CancelKeepsTimer(t) ==
  /\ InUser /\ position[t] # None
  /\ position' = [position EXCEPT ![t] = None]
  /\ cancelled' = cancelled \cup {t}
  /\ UNCHANGED <<now, timerMap, armed, repeat, loopVars, fresh, lost, endangered>>

\* A timer without a position is not pending: nothing happens.
Cancel(t) ==
  /\ InUser /\ position[t] # None
  /\ timerMap' = [timerMap EXCEPT ![position[t]] = None]
  /\ position' = [position EXCEPT ![t] = None]
  /\ armed' = ArmedFor(timerMap')
  /\ cancelled' = cancelled \cup {t}
  /\ Destroys(position[t], t)
  /\ UNCHANGED <<now, repeat, loopVars, fresh>>

-----------------------------------------------------------------------------
(* handle().                                                               *)

\* A set of times in the order in which a map enumerates it.
Ascending(K) ==
  {order \in [1 .. Cardinality(K) -> K] :
     \A i, j \in DOMAIN order : i < j => order[i] < order[j]}

\* getExpired: the timers up to now, by expiration.
GetExpired ==
  \E keys \in Ascending({e \in Keys(timerMap) : e <= now}) :
    expired' = [i \in DOMAIN keys |-> timerMap[keys[i]]]

\* The timerfd is readable from the armed time until it is set again: it is
\* never read.
Handle ==
  /\ pc = "idle" /\ ~fault
  /\ armed # None /\ armed <= now
  /\ pc' = "handle"
  /\ GetExpired
  /\ UNCHANGED <<now, mapVars, repeat, fault, ran, history>>

\* timer->run().
RunTimer ==
  /\ pc = "handle" /\ expired # <<>> /\ ~fault
  /\ \/ /\ Alive(Head(expired))
        /\ pc' = "callback"
        /\ ran' = ran \cup {Head(expired)}
        /\ UNCHANGED fault
     \/ /\ ~Alive(Head(expired))
        /\ fault' = TRUE
        /\ UNCHANGED <<pc, ran>>
  /\ UNCHANGED <<now, mapVars, repeat, expired, history>>

\* The timer moves to next if it repeats; otherwise it leaves timerMap_, and
\* gone is its position from then on.
MoveTo(t, next, gone) ==
  LET rest == [timerMap EXCEPT ![Expiration(t)] = None]
  IN /\ timerMap' = IF t \in repeat THEN [rest EXCEPT ![next] = t] ELSE rest
     /\ position' = [position EXCEPT ![t] = IF t \in repeat THEN next ELSE gone]
     /\ lost' = IF t \in repeat THEN lost \cup ({rest[next]} \ {None}) ELSE lost

\* Mutant: the position of a timer that ran once is kept.
RestartKeepsPosition(t) == MoveTo(t, now + Interval, position[t])

\* Mutant: the interval counts from the last expiration.
RestartFromExpiration(t) == MoveTo(t, Expiration(t) + Interval, None)

\* Timer::restart counts the interval from now.
Restart(t) == MoveTo(t, now + Interval, None)

AfterCallback ==
  /\ pc = "callback" /\ ~fault
  /\ \/ /\ Alive(Head(expired))
        /\ Restart(Head(expired))
        /\ pc' = "handle"
        /\ expired' = Tail(expired)
        /\ UNCHANGED fault
     \/ /\ ~Alive(Head(expired))
        /\ fault' = TRUE
        /\ UNCHANGED <<timerMap, position, lost, pc, expired>>
  /\ UNCHANGED <<now, armed, repeat, ran, fresh, cancelled, endangered>>

\* Mutant: the timerfd is not set again.
HandleDoneUnarmed ==
  /\ pc = "handle" /\ expired = <<>>
  /\ pc' = "idle"
  /\ armed' = None
  /\ UNCHANGED <<now, timerMap, position, repeat, expired, fault, ran, history>>

HandleDone ==
  /\ pc = "handle" /\ expired = <<>>
  /\ pc' = "idle"
  /\ armed' = ArmedFor(timerMap)
  /\ UNCHANGED <<now, timerMap, position, repeat, expired, fault, ran, history>>

LoopStep == Handle \/ RunTimer \/ AfterCallback \/ HandleDone

Next ==
  \/ Tick
  \/ \E t \in Timers :
       \/ \E e \in Expirations, repeats \in BOOLEAN : AddTimer(t, e, repeats)
       \/ Cancel(t)
  \/ LoopStep

Spec == Init /\ [][Next]_vars

\* Time passes, the loop polls, and callbacks return.
FairSpec == Spec /\ WF_vars(Tick) /\ WF_vars(LoopStep)

-----------------------------------------------------------------------------
\* The types of the variables.
TypeOK ==
  /\ now \in 1 .. MaxNow
  /\ timerMap \in [Times -> Timers \cup {None}]
  /\ position \in [Timers -> Times \cup {None}]
  /\ repeat \subseteq Timers
  /\ armed \in Times \cup {None}
  /\ pc \in {"idle", "handle", "callback"}
  /\ expired \in Seq(Timers)
  /\ fault \in BOOLEAN
  /\ fresh \subseteq Timers /\ ran \subseteq Timers /\ cancelled \subseteq Timers
  /\ lost \subseteq Timers
  /\ endangered \in BOOLEAN

\* As long as no timer took the place of another, the two maps are inverse
\* to each other, also while callbacks add and cancel timers and repeating
\* timers move.
MapsAgree ==
  lost = {} =>
    /\ \A t \in Timers : position[t] # None => timerMap[position[t]] = t
    /\ \A e \in Times : timerMap[e] # None => position[timerMap[e]] = e

\* handle() follows a pointer to a destroyed timer only if a callback
\* destroyed it: no timer that moves or ends destroys another of the batch.
OnlyCallbacksEndanger == fault => endangered

\* A callback is called only when it is due, at most once unless the timer
\* repeats, and never after a cancel, whichever callback cancelled it.
RunsAreDue ==
  [][ pc = "handle" /\ pc' = "callback" =>
        LET t == Head(expired)
        IN /\ t \notin cancelled
           /\ t \in repeat \/ t \notin ran
           /\ Expiration(t) <= now ]_vars

\* A pending timer that was neither cancelled nor replaced is called, unless
\* handle() fails before or an expiration at the epoch disarms the timerfd.
PendingTimerRuns ==
  \A t \in Timers :
    (t \notin fresh /\ t \notin ran /\ position[t] \in 1 .. MaxNow)
      ~> (t \in ran \cup cancelled \cup lost \/ fault \/ timerMap[0] # None)
=============================================================================
