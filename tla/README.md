# A TLA+ verification of esynet

esynet is a C++20 network library in the reactor style: every I/O thread owns
one `Looper`, which polls the descriptors registered with it, calls the
handlers of those that are ready, and executes the tasks other code queued.
Connections, acceptors, connectors and timers are clients of a `Looper`.

This directory holds TLA+ modules translated from the C++ sources (paths below
are relative to the repository), configurations for TLC, and proofs for TLAPS.
`PROJECT.json` maps every definition to the lines it translates.

## 1. Inventory

| Component | State | Operations | Talks to | What is hard |
|---|---|---|---|---|
| `Looper` (net/base/Looper) | `tasks_` under `mutex_`, atomics `stop_`, `isLooping_`, the eventfd, `activeEvents_` | `start`, `stop`, `run`, `queue`, `wakeup` | pollers, every client | threads race with each step of the iteration; exceptions unwind it |
| `Event` (net/base/Event) | listened mask, happened mask, position | `enable*`, `disable*`, `cancel`, `handle` | Looper, pollers | -1 as "no events"; the happened mask is only as fresh as the last poll |
| `PollPoller` | `pollFds_`, `events_`, positions in the Events | `poll`, `updateEvent`, `removeEvent` | Looper | removal moves another Event's entry |
| `EpollPoller` | `epollEvents_`, `events_`, positions, the kernel's epoll set | the same | Looper, kernel | one vector is both the answer buffer of `epoll_wait` and the table of positions |
| `TcpConnection` | `state_`, send buffer, its Event and socket | `send`, `shutdown`, `forceClose`, `forceCloseWithoutCallback`, `connectComplete`, `handle*` | Looper, user callbacks, TcpServer, TcpClient | callbacks re-enter, other threads close, the peer closes, the kernel takes part of a write |
| `Buffer` (utils) | vector, reader and writer index | `append`, `retrieve`, `readSocket` ... | TcpConnection | unsigned index arithmetic |
| `Socket`, `NetAddress` | a descriptor | wrappers of system calls | all | error results that become large unsigned numbers |
| `TimerQueue`, `Timer` | two maps, a timerfd | `addTimer`, `cancel`, `handle` | Looper | callbacks that add and cancel timers while `handle` iterates; equal expirations |
| `Connector` | `state_`, `couldConnect`, an Event, the retry delay | `start`, `stop`, `restart`, `retry` | Looper, TcpClient | retries that race with stop and restart |
| `TcpClient` | `connection_` | `connect`, `disconnect`, `reconnect` | Connector, TcpConnection | the order of the connection callback and the assignment |
| `Acceptor` | `listen_`, an Event | `listen`, `shutdown`, `onAccept` | Looper, TcpServer | |
| `TcpServer` | `connections_`, `started_` | `start`, `shutdown`, `onConnection`, `removeConnection` | Acceptor, ReactorThreadPoll, TcpConnection | connections live on other threads than the map that owns them |
| `ReactorThreadPoll` | `reactors_`, `threads_` | `start`, `stop`, `getNext`, `getLightest` | Loopers of the pool | threads publish their Looper while others read |
| `SyncLogger`, `Logger`, `FileWriter`, `FileReader` | a path, a stream with what it holds back, a size; a reader's position | `append`, rotation, `setLogger`, `abort`; `read`, `current`, `filesize` | files | files that are found with old contents, renamed over one another, or grow under a reader |
| `AsyncLogger` | two buffers and a queue of extra ones under `mutex_`, atomics `running_`, `isWriting_` | `start`, `stop`, `append`, writer thread | file | buffers are swapped by one side and flushed by the other; order and loss at stop |
| `BlockingQueue`, http, utilities, exceptions, `main.cpp` | | | | not modelled, see section 7 |

What makes each correct:

* Looper: a task runs at most once, in order, and `run` and `stop` of any thread
  take effect without waiting for the poll's time limit.
* Pollers: what the kernel is asked about is what the clients asked for; an
  Event is found by descriptor and by position alike; only registered Events
  are reported.
* TcpConnection: the stream is not cut while the connection is intact, nor reordered
  unless user code sends in a high water callback; the descriptor is watched exactly
  while it is open; closes take effect.
* TimerQueue: a timer runs at its time once (or periodically) unless cancelled,
  and never after it was destroyed.
* Connector, TcpClient: at most one attempt or one connection at a time; a
  stopped connector stays stopped.
* TcpServer, ReactorThreadPoll: a connection is used by its own loop's thread
  only, and leaves the map exactly once.
* Buffer: the operations together are a stream of bytes, wherever the bytes are
  moved; the indices keep their order.
* SyncLogger and FileReader: no file loses or mixes records by being rotated,
  closed or opened again; a reader gets the file from its beginning.
* AsyncLogger: everything appended before `stop` reaches the file, in order.

`PROJECT.json` lists under "hazards" the places in the code where these can go
wrong, each with the properties that would show it.

## 2. Plan

The order in which the modules were written, the most central first:

| Step | Modules | Proofs |
|---|---|---|
| 1 | `TaskExecutor` (abstract), `Looper` (refines it) | `LooperProofs` |
| 2 | `EventMask`, `Poller` (what both pollers share), `PollEntries` (the array of poll(2)), `PollPoller`, `EpollPoller` | `PollerProofs` |
| 3 | `TcpConnection` | `TcpConnectionProofs` |
| 4 | `TimerQueue` | `TimerQueueProofs` |
| 5 | `AsyncLogger` | `LoggerProofs` |
| 6 | `ByteStream` (abstract), `Buffer` (refines it) | `BufferProofs` |
| 7 | `TcpClient`: `Connector` and `TcpClient` composed | `TcpClientProofs` |
| 8 | `TcpServer`: `TcpServer`, `Acceptor` and `ReactorThreadPoll` composed | `TcpServerProofs` |
| 9 | `LogDisk` (files, streams and what must hold of them), `LogFile`: `SyncLogger`, `FileWriter` and `FileReader` composed | `LoggerProofs` |

All of it is done, and every safety property that a run checks is proved. What a
next step would add: descriptors that the kernel reuses after a double close, and
closures that other threads queue for the connections of a server's main thread.

## 3. Modules and code

### Looper and TaskExecutor

`Looper` is `start`, `stop`, `run`, `queue` and `wakeup` of net/base/Looper.cpp.
`pc` is the place in the loop of `start`: `Check` (the test of `stop_`), the poll
(`PollReturns` with the ready descriptors, `PollTimeout`, `PollInterrupted`),
the handlers (`HandleWakeup` reads the eventfd, `HandleFd` is user code), `Swap`
(the queue becomes the local batch), `RunTask`, `BatchDone`, `Leave`. User code
(`inEvent`, `inTask`) may call `run`, `queue` and `stop` of the loop it runs on
(`OwnerRun`, `OwnerQueue`, `OwnerStop`) and returns or throws; an exception
leaves `start` and the batch with it, and the owner may call `start` again.
`run` and `stop` of another thread are two steps: the locked push or the store
to `stop_`, then `Wakeup`, the write to the eventfd. `queue` of another thread
is the push alone.

`TaskExecutor` knows tasks that wait, one that runs and a history. `Executor` in
`Looper` maps its queue to `batch \o tasks`: the swap is a stutter, and an
exception abandons a prefix of the queue.

### Pollers

`EventMask` is the listened mask of `Event`: a set of bits, where the set
`kNoneEvent` stands for -1, whose sign bit survives the disabling of other bits.
`Poller` holds what both implementations share: Events, descriptors, and the
effect of `enable*` and `disable*` (`Enable`, `Disable`) and of `cancel` (`Forget`) on a
mask. In `PollPoller` and `EpollPoller` the actions are `Request` (one of the former
with the `updateEvent` it triggers), `Cancel`, and `Poll`. `PollEntries` has the array
that poll(2) is given and what must hold of it.

Three history variables say what clients did, independently of what the code made
of it. `asked` is what the calls of `enable*` and `disable*` since the last `cancel` ask
for. `misused` are the Events of which something was disabled while nothing was
enabled: their mask is negative without being `kNoneEvent`, and the code loses what
they enable next; the properties name them as their exception and still say that
nothing is watched which was not asked. `shared` is set by the first use of an Event
whose descriptor is registered for another Event (not `Owns`). Clients can do that,
for example by a second `cancel` after the kernel reused the descriptor. The step is
taken with all it does, and is the last one: the code keeps neither map nor positions
in order from there on.

`EpollPoller` keeps the code's double use of `epollEvents_`: `epoll_wait` writes
its answers over the first entries, and `index` of an Event is a position in the
same vector. The kernel's epoll set is `kernel`. `fault` is the dereference of
the null Event that `events_[lastFd]` inserts; nothing is claimed after it.

### TcpConnection

One connection on its loop. `pc` is the next branch of `Event::handle` in the
order close, read, write, error, all of which look at the same happened mask;
`inUser` says that user code runs between two branches. User code calls `Send`,
`Shutdown` and `Close` (both kinds of close). `shutdown` and the closes of other
threads are `CallerChecks` (the test of `state_`) followed by `CallerActs` (the new
state and the queueing), and `RunTask` executes the closure. A `send` that reaches the high
water mark is split around the callback (`FinishSend`). In that callback user code
may do what it does elsewhere (`HighWaterCalls`), `send` included: `held` are the bytes
that all the interrupted `send`s have still to append, the innermost's first, and
`below` says where those of the next begin. The socket is external:
room in the send buffer, data from the peer, `fin` or `reset`, and `Revents` says
what poll(2) reports.

Bytes are numbers in the order of `send`, so that the stream can be compared
with its source; a failed first write adds a byte of its own (`Garbage`), see
below. A `readSocket` that fails copies a negative number of bytes before it returns
-1 (utils/Buffer.h:264-268); that is undefined, and the module follows a build in which
the copy does nothing.

### TimerQueue

`timerMap`, `position` and the armed time of the timerfd are the code's two maps
and `updateTimerFd`. `handle` is `Handle` (`getExpired`), then `RunTimer` and
`AfterCallback` for every timer of the list, then `HandleDone`. During a
callback user code adds and cancels timers (`AddTimer`, `Cancel`). Following a
pointer to a destroyed timer sets `fault`, after which nothing is claimed. Callbacks
are taken to return; see section 7.

### AsyncLogger

The buffers are sequences of records or `None`, a null pointer. `append` is its
unlocked checks (`BeginAppend`) and its locked section (`LockedAppend`). The
writer thread goes through `writeToFile` and `flush`; `isWriting_`, the unlocked
write and the reset of the flag are steps of their own. `stop` is a step per
access to a buffer. Unlocked accesses that race in the code are atomic here.

### Buffer and ByteStream

`Buffer` is `class Buffer` of utils/Buffer.h: a vector with a reader and a writer
index whose arithmetic is modulo `W`. `Appended` with `MakeSpace` is `append` with
the growth or the move of the bytes; `Received` is `readSocket` with its second
buffer. `ReadSocketFails` carries out the arithmetic with the length -1 that a
failed `readv` leaves, and ends the model; `LOG_FATAL` ends it as "aborted". `Read` and
`Peek` are the `readByteN` and `peekByteN`: they copy char by char into an integer of N
bytes, so that the result is the first byte alone and the others are written past it
on the stack. That is undefined for more than one byte, and `outcome` is then "ok" or
"ruined"; a read past the readable bytes (there is no guard) returns what is in the
vector. `ByteStream` is the promise: a sequence that grows at both ends and gives up
bytes at both ends, by exactly what the arguments of each call (`call`) say; of an
integer it promises the first byte only, and that one of several bytes may be fatal.
`Stream` in `Buffer` maps it to the bytes between the indices.

### TcpClient

The attempts of a `Connector` are numbered. `Attempt` is `start` with the three
outcomes of `::connect` (goes on, fails for now, throws); `Retry` closes the socket
and starts a timer; `RetryTimer` is that timer. `Established` is the write
callback of a successful attempt up to the connection callback, `CallbackReturns`
the assignment of `connection_` after it, so that user code runs in between.
`ConnectionCloses` is `handleClose` with `removeConnection`. User code connects,
reconnects, stops (`StopConnecting`, whose guard the code has inverted), and holds
copies of connections (`Keep`). `watched` is what the poller reports: an Event does
not leave the poller when it is destroyed; epoll forgets a descriptor that is
closed, poll(2) does not (`epoll`). A handler that uses something destroyed sets
`fault`, after which nothing happens.

### TcpServer

The main thread accepts and hands connections to Loopers. Threads of the pool go
through the lambda of `ReactorThreadPoll::start`: `Publish`, `StartLooper` (of
`reactors_.back()`, which may be another thread's Looper and then aborts),
`LeaveLoop`. Of the main Looper there is the iteration: `Poll` makes a `batch` of
the Acceptor's Event and of Events of connections, which are called in any order;
user code runs in each of them. `Accept` is `onAccept` with `onConnection`: it chooses
the Looper with `getNext` or `getLightest` and does not look at `listen_`, so that it also
happens when `shutdown` ran earlier in the batch. `AcceptFails` is an `accept` that throws.
`Handle` calls a connection of the batch. `RunTask` executes on a thread of the pool the
closures of the setters (two kinds of closure, "set" and "connect", stand for those that
`onConnection` queues) and those of `shutdown`. `Closes` is `handleClose` with
`removeConnection`, which asserts the main thread.
`Shutdown`, `ShutdownCloses` per connection, `ShutdownClears`, the rest of the batch,
`Destroy`, `StopNext` per Looper and `Join` are the end.

The code uses objects after their end. Such a use may go well, so the module has both
courses, and `outcome` names the one that did not: "freed", a connection that its own
close destroyed (net/TcpServer.cpp:123, with every close on the main thread, and
`connections_.clear()` in a callback of a connection); "stale", a destroyed connection
in the batch; "polled", one whose Event is still in a poller; "dangling", the argument of
a setter, which its closure refers to (net/TcpServer.cpp:114 binds a temporary);
"entry", an entry of the map that `shutdown` has cleared.

### LogDisk and LogFile

`LogDisk` has the state and what must hold of it, `LogFile` the operations. A file
is a sequence of units, a header line or a record; `dir` says which file a path
names, so that renaming and reopening are what they are. `Log` is `Logger::log` with
`SyncLogger::append`: the first unit of a file is the header, a file over the limit
is rotated (`Rotate`) to a name made of the second of the clock, and `log.log` of
the working directory is next. `unflushed` is what the stream holds back: `Flush`
writes it, `Destruct` too, `Kill` loses it. `FileReader` is `ReadChars` and
`ReadString` (in full buffers and a rest, as in the code) with the failbit that a
read past the end leaves.

## 4. Runs

| Run | Shows |
|---|---|
| `looper` | whatever two other threads do between the loop's steps, a task of `run` and a `stop` are never left without a pending wakeup (`NoLostTaskWakeup`, `NoLostStopWakeup`); tasks of `run` execute and `stop` ends the loop although the poll never times out (`UrgentTaskRuns`, `StopEndsLoop`); tasks of `queue` execute if it does (`QueuedTaskRuns`) |
| `looper_executor` | the loop implements `TaskExecutor`, with handlers and tasks that throw (`ExecutorSpec`, `TasksRunAtMostOnce`, `TypeOK`) |
| `pollpoller` | poll(2) is asked what `enable*` and `disable*` asked for, but for Events of which something was disabled while nothing was enabled (`WatchedAsWanted`); positions, map and array stay consistent, and only registered Events are reported, until an Event is used whose descriptor is registered for another (`EntriesAgree`, `ReportsRegistered`) |
| `epollpoller` | the epoll set is what `enable*` and `disable*` asked for, but for descriptors the kernel refuses and Events of which something was disabled while nothing was enabled (`KernelAsWanted`); positions are right and no null Event is followed as long as `epoll_wait` never returned more than the initial size (`IndexCoherent`) |
| `connection` | the descriptor is watched exactly while it is open, and the stream is not cut, and not reordered unless a high water callback sends (`WatchedWhileOpen`, `StreamIntact`); a close of the peer or of another thread takes effect and watched data is sent (`PeerCloseIsNoticed`, `ForceCloseCompletes`, `WatchedDataIsSent`) |
| `connection_pending` | violation, the finding below (`PendingIsWatched`) |
| `timer_queue` | the two maps agree unless timers collided; only callbacks destroy a timer of the batch; callbacks run only when due and never after a cancel; every pending timer is called (`MapsAgree`, `OnlyCallbacksEndanger`, `RunsAreDue`, `PendingTimerRuns`) |
| `logger` | no record is lost or written twice inside the logger (`NothingLostOrRepeated`); without bursts the order is kept (`OrderWithoutBursts`); a `stop` that no `append` overlaps writes everything (`QuietStopWritesAll`); an accepted record reaches the file although its buffer is not full (`RecordIsWritten`) |
| `buffer` | every operation does to the bytes and returns of them what its arguments say, of an integer its first byte (`StreamSpec`), and the indices keep their order until a read of the socket fails (`IndexOrder`) |
| `client` | no open socket is without an owner unless attempts overlapped (`OpenSocketsAreOwned`); a destroyed Event is met only then, or with poll(2) (`StaleEventsExplained`); `connection_` names an open connection, or one closed in its connection callback (`ConnectionIsCurrent`); a Connector that could connect has a retry timer (`RetryIsArmed`); attempts end (`AttemptsEnd`) |
| `server` | while the server accepts, its map holds exactly the open connections, and without a pool at most one is open after `shutdown`, which was accepted later in the same iteration (`MapHoldsOpenConnections`); the main thread uses no destroyed connection but its own closed ones, assertions and dangling setter arguments need a connection or several threads of a pool, and pollers and closures meet what is gone only after `shutdown` of a server with a pool (`EndsExplained`); the destructor returns once the pool's Loopers run (`StopReturns`); a failing `accept` forgets no connection (`BacklogIsAccepted`) |
| `log_file` | rotating and reopening loses no record, unless a process is killed or a second sees two rotations (`RecordsAreKept`); files are ordered, headed and bounded (`FilesAreWellFormed`); the reader returns the file from its beginning (`ReaderFollows`) |

Every property of a passing run has a mutant in `PROJECT.json`: a change of one
definition, of the kind a bug in that code would be, under which TLC finds the
property violated.

### Bounds

* Looper: three tasks and two threads (two and one with exceptions). Two tasks
  distinguish order and let one be queued while the other runs; two threads let a
  second `Wakeup` fall between the first's push and write. One client descriptor is
  enough, as handlers do not interact in this module.
* Pollers: four Events on three descriptors, two of the Events on one descriptor,
  used in every order; `epoll_ctl` refuses one of the descriptors. Three entries are
  needed for a removal that moves an entry which is neither first nor last.
  `kInitEventListSize` is 1 instead of 16, so that two ready descriptors exceed it.
* TcpConnection: four bytes, sends of up to two, two bytes of room in the kernel:
  full, partial and refused writes, with a buffer that holds the rest of one send
  while another comes. The high water mark of two is reached by one send, and again by
  a send in its callback. One other thread with each of its three operations.
* TimerQueue: three timers (a batch of two and one in front of or behind it), a
  clock of three moments, the interval 1, expirations that may be equal
  or in the past, and the epoch.
* AsyncLogger: buffers with room for two records (`remain()` has to exceed the
  size, so a capacity of three), six records for two threads, one of them as long
  as a buffer; one extra buffer (64 in the code), so that the limit is reached;
  two calls of `start`.
* Buffer: two bytes that differ, two bytes of prepended room, a vector of up to six,
  chunks of up to two, two bytes of `extraBuf`, integers of one, two, four and eight
  bytes: growth, moves within the vector and socket reads that overflow it all
  happen. `W` is 32, above every sum of sizes, as 2^64 is in the program.
* TcpClient: four attempts, so that an attempt, its retry, a restart and the retry
  timer that is left over overlap; delays 1, 2, 3, so that the doubling meets its
  limit. Both pollers.
* TcpServer: three connections; no pool, one thread and two threads, so that one
  thread can publish its Looper between another's two accesses to `reactors_`;
  both strategies. Every subset of the connections may be in a batch.
* LogFile: files of two units and one more, eight records of which one is too
  large, two seconds, three loggers, two reads of buffers of two units: a file is
  rotated, found with old contents, and replaced by a rotation in the same second.

Runs whose configuration turns the deadlock check off belong to programs that
may stop: all bytes sent and the connection closed, the clock at its bound, no
record left, no attempt left, a server that is destroyed, a vector at its bound.
The check of the pollers is off because `fault` and `shared` end them.

### Fairness

* `FairSpec` of `Looper`: the loop's own steps, and the thread that is between
  its push and the eventfd write. Nothing is assumed of the poll's time limit;
  `QueuedTaskRuns` states its fairness as a condition, the code passes
  `kPollTimeMs`.
* `FairSpec` of `TcpConnection`: the handlers return, a caller past its check
  goes on. `Poll` and `RunTask` are strongly fair: every iteration of
  `Looper::start` polls and empties its queue, whatever else happened in it, and
  `looper` shows that iterations do not stop. `DrainedSpec` adds a peer
  that reads, without which no data can be sent. Nothing is assumed of user code.
* `FairSpec` of `TimerQueue`: time passes and `handle` goes on.
* `FairSpec` of `AsyncLogger`: the writer thread is scheduled; its wait returns
  after `flushInterval_`.
* `FairSpec` of `TcpClient`: the poller reports an attempt that is ready, timers
  run, the connection callback returns, and the kernel lets every attempt succeed
  or fail in the end. Nothing is assumed of user code.
* `FairSpec` of `TcpServer`: every thread is scheduled, and a shortage of descriptors
  does not come back each time the Acceptor is called, which is the strong fairness of
  `Accept`. `LeaveLoop` is strongly fair
  because a loop looks at `stop_` in every iteration. Arrivals and closes are free.
* `Buffer` and `LogFile` have no liveness properties: all they do is done by the
  caller.

## 5. Proofs

The theorems hold for every value of the constants.

* `LooperProofs`. `LooperTyped` is `TypeOK` with two facts about control (the
  batch exists only while it is executed; the loop holds `isLooping_`), which the
  refinement needs. `WakeupsAreNotLost`, under the assumption that callbacks do
  not throw: `NoLostTaskWakeup` alone is not inductive, because the loop reads
  the eventfd between the poll and the swap; the strengthening `WakeupInv` adds
  what is true there. `LooperImplementsExecutor`: initial states map to initial
  states and every step to a step of the executor or a stutter; `Swap` is a
  stutter because it moves `tasks` into an empty `batch`, an exception abandons
  the batch. `ExecutorAtMostOnce` says of the executor that no task is executed
  twice or both executed and waiting: waiting tasks and history together have no
  repetition; submitting takes a fresh task, executing moves the head, abandoning
  drops a prefix. `LooperAtMostOnce` carries it over to the loop.
* `PollerProofs`, of `PollPoller`. `IndexInv` is inductive: types, the agreement of
  position, vector and map, that an Event has a position exactly while its mask is
  not negative, and that an entry of the map belongs to an Event of its descriptor.
  The work is in `RemoveKeepsIndexInv`: an entry that is neither found nor last is
  replaced by the last one, whose Event gets its position. `Asking`, also inductive
  and the same for both pollers, ties the masks to what clients asked for: the mask
  of an Event is `kNoneEvent` or exactly `asked`, unless it is in `misused`, and a
  mask that is not negative never holds more than was asked. `EntriesAgree` and
  `ReportsRegistered` follow from `IndexInv`, and `WatchedAsWanted` from both. All
  of it is as long as `shared` is false; the modules stop after the step that sets
  it.
* `PollerProofs`, of `EpollPoller`. `KernelInv` says what does not depend on positions: the
  mask the kernel has for a descriptor is the one of the Event the map has for it.
  It is inductive alone, hence, with `Asking`, `KernelIsAsWanted` holds whatever
  `epoll_wait` overwrites. `Placed` adds, as long as no poll returned more than
  `kInitEventListSize` entries, that every registered Event has a position behind
  those entries, that these positions are exactly the rest of the vector, and that
  no null Event was met; a removal moves the last entry and its Event's position with it.
  `EpollPollerCoherent` follows.
* `TcpConnectionProofs`. `WatchedWhileOpen` speaks of the moments between
  dispatches; the invariant says what holds in between: after the close branch
  `state_` is not up to date until the read branch runs (`Disconnecting`), which is
  sure to run because a hang-up is reported together with readability while the
  descriptor is listened to for reading; and a `send` held in the high water
  callback may only return to a closed connection if a callback closed it.
  `OpenIsWatched` is for any number of threads, bytes, room and marks.
  `StreamStaysIntact` speaks of the bytes themselves: apart from garbage, what the
  kernel took, the buffer and what `send`s hold back are the bytes of the sends, each
  once (`Holds`), and in order (`Ordered`) as long as no high water callback has called
  `send`: the bytes of such a `send` go before the rest of the interrupted one. A `send`
  inserts its bytes in front of what the outer ones hold back (`HoldsInserted`), which
  is the end if there are none (`OrderedConcat`). The invariant `StreamInv` adds that a
  dispatch that found the socket writable still finds room in it, without which
  `handleWrite` would fail and drop the buffer; a partial write moves bytes from the
  front of the buffer to the end of what the kernel took. `Nesting`, part of
  `ConnectionTyped`, says that the nested `send`s share `held` in proper order.
* `TimerQueueProofs`. The properties except timers whose expirations collided; the
  invariant has to say what is true of them as well. `Located`: a timer that is in
  `timerMap_` has its place as its position, whatever else was lost. `BatchIsDue`: the
  timers that `handle` has still to call are different ones, those that are in the map
  are due, and only a callback of the batch can have destroyed one. `InHandle` says
  which timer that has run may be in the map. Hence `MapsStayInverse`,
  `DanglingIsFromCallbacks`, and the action property `CallbacksAreDue`.
* `TcpClientProofs`. `OneAtATime`: while nobody started an attempt over another
  one, there is at most one open socket, it is what `state_` says, and the poller of
  epoll has no Event but its own. With the types, `Current`, `RetryIsArmed` and
  `StaleEventsExplained` it is inductive, and the four invariants of the run follow
  (`SocketsAreOwned`, `StaleEventsAreExplained`, `ConnectionStaysCurrent`,
  `RetryTimerIsArmed`).
* `TcpServerProofs`. `MapIsExact` needs that the closures in the queues of the pool
  belong to connections that are in the map (`Accepting`), that the map has the open
  connections of the main thread until the server is destroyed, and `shutdown` has still
  to go through them (`Own`), and what is left after a `shutdown` without a pool: nothing
  as long as the Acceptor is still to be called in the iteration, then at most the one
  connection it takes (`Left`). A server without a pool never hands a connection away
  (`WithoutPool`). `EndsAreExplained` needs more (`Held`): `reactors_` holds threads of the
  pool only, and is not empty once one has published its Looper, so that with one thread
  `reactors_.back()` is its own; the batch calls connections of the main Looper; and as
  long as the map is not cleared, every connection that is up, that a closure is about or
  that is still to be shut down is in it. What is "stale" was then closed, for `Own` keeps
  an open one alive.
* `BufferProofs`. `Sound` buffers are ordered, within the bound, and never lose the
  length of the prepended bytes; in them no difference or sum wraps around
  (`SoundSizes`, `NoWrap`), so `makeSpace` makes the room it was asked for
  (`MakeSpaceMakesRoom`). After a failed read only natural numbers are left.
  `IndicesStayInOrder` is for every `W` above the sums of the sizes.
  `BufferIsByteStream` is the refinement of `ByteStream`: one lemma for each operation
  says that the bytes between the indices change as its operation of the stream
  and its arguments say, wherever `makeSpace` puts them, and that what it returns is what
  the stream returns (of an integer the first byte); a failed read of the socket, after
  which the indices mean nothing, ends the stream, as does an integer of several bytes
  that ruins the stack.
* `LoggerProofs`, of `AsyncLogger`. `Accounted` is `NothingLostOrRepeated` in the terms
  in which steps move records: five places whose lengths add up to the number of
  accepted records and whose members are all of them. `InOrder` is
  `OrderWithoutBursts` in the same terms. They need `WriterRests` (a writer that was
  joined holds nothing), `StopEmpties` (what `stop` has queued is empty, unless an
  `append` came in between) and `NoneQueued` (without a burst only `stop` queues
  buffers). What `FlattenSeq` does to queues of buffers is proved by looking at the
  least position at which a claim would fail. `NoRecordIsLost`, `RecordsKeepOrder` and
  the action property `StopWritesAll` are for any number of threads, records and starts.
* `LoggerProofs`, of `LogFile` (its instance `File`). `DiskInv` has five parts. `Placed`:
  every file has one name, the stream writes the file that `path` names, `size` is
  its length, and a name no rotation has given yet is free. `Formed`: each file, with what
  the stream holds back, begins with a header and ascends, also the files no path
  leads to any more. `Limited`: the bound of `FilesAreWellFormed`, with a sharper one for a
  `log.log` that the present logger has not reached; without it the bound does not
  survive the rotation of another file. `Following`: the reader has a beginning of its
  file, also when that has another name. Steps of the logger are described by what
  they add to a file (`Adds`) and that files on the disk only grow (`Grows`), which is all
  the reader's part needs. `InBuffersIs`: a string read in full buffers and a rest
  returns the units that come next. `LogRecordsAreKept` uses in addition that a rotation
  to a fresh name keeps every file (`FilesStay`).

Liveness itself is out of reach, but what it rests on is not. Five theorems prove
the safety core of a liveness property: that the step which fairness promises is
not disabled, or what it will do not forgotten.

| theorem | safety core of | what it says, and why |
| --- | --- | --- |
| `DueTimersAreReadable` | `PendingTimerRuns` | outside `handle` the timerfd is set to the first expiration (`FdIsSet`: `addTimer`, `cancel` and the end of `handle` arm it), so a timer that is due makes it readable; excepted is an expiration at the epoch, which disarms it |
| `ClosedPeersAreReported` | `PeerCloseIsNoticed` | an open connection whose peer has closed is reported by the next poll; a consequence of `OpenIsWatched` |
| `WriteInterestStays` | `WatchedDataIsSent` | an interest in writing with buffered data ends only when the buffer is empty or the descriptor closed: one step per action |
| `ClosesAreNotDropped` | `ForceCloseCompletes` | a `forceClose` that has passed its guard is about to be queued, or in the queue, until the descriptor is closed. `CloseIsPending` is inductive given the types: the queue grows at its end and loses its head only to the step that executes it (`QueueKeeps`) |
| `StopIsNeverStuck` | `StopReturns` | a destructor that begins while all threads loop always has a Looper to stop, a stopped thread that can leave its loop, or all threads to join. From there on `Stopping` holds until the end: nothing resets `stop_` behind `stopIndex`; and every thread that loops is in `reactors_` (`Published`), hence stopped when the index has passed the last |

`NoLostTaskWakeup`, `NoLostStopWakeup` and `RetryIsArmed` have the same role for the
liveness of `Looper` and `TcpClient`. What remains for TLC is the step from "not
disabled" to "eventually".

The assumptions are the `ASSUME`s of the modules: names differ from each other and
from null, `None` of `AsyncLogger` is no buffer and no record, bounds are natural
numbers, and `W` of `Buffer` exceeds the sums of the sizes. `FdOf` of the pollers is
any function. That no Event is used while its descriptor is registered for another is
neither assumed nor a guard: the properties of the pollers are stated up to the first
use of that kind (`shared`), which the modules take as their last step.

Only model-checked: the liveness properties, `StopEndsLoop`, `UrgentTaskRuns`,
`QueuedTaskRuns`, `PeerCloseIsNoticed`, `ForceCloseCompletes`, `WatchedDataIsSent`,
`PendingTimerRuns`, `RecordIsWritten`, `AttemptsEnd`, `StopReturns` and
`BacklogIsAccepted`: fairness and ENABLED are out of the prover's reach. The violation
of `PendingIsWatched` is TLC's counterexample.

## 6. Finding and observations

Finding (`connection_pending`): `send` asks `event_.writable()`, which is what the
last poll reported, where it needs what is listened to. After a flush the next
`send` buffers its data and nothing waits for writability
(net/TcpConnection.cpp:134, 156).

Observations without a run of their own. The models keep them, and the
properties say, where they have to, that the case is excepted:

* TcpConnection: `shutdown` asks the same question to find out whether data is
  pending and shuts down with data in the buffer (net/TcpConnection.cpp:167); a
  `shutdown` that had to wait never happens, as `handleWrite` calls it in a state
  in which it returns (:236). A failed write returns the largest `size_t`: `send`
  then appends one byte in front of the data (`Garbage`), `handleWrite` takes the
  buffer for sent (net/base/Socket.cpp:180; SIGPIPE is taken to be ignored). A
  descriptor can be closed twice. The high water callback runs before the rest of its
  `send` is buffered: a `send` in it goes before that rest (net/TcpConnection.cpp:152-155).
* Event: after a disable of something on an Event with nothing enabled, the mask is
  negative without being `kNoneEvent`, and what is enabled next is never registered
  (net/base/Event.cpp:46-65). A cancel of an Event erases the map entry of its descriptor
  whoever owns it (net/poller/PollPoller.cpp:60).
* EpollPoller: an Event on a descriptor that `epoll_ctl` refuses is registered and
  never reported; test/net/EventLoop_test.cpp:119-124 expects its error callback,
  which only poll(2) calls (net/poller/EpollPoller.cpp:100). Once `epoll_wait`
  has returned more entries than the initial size, positions are overwritten.
* TimerQueue: two timers with one expiration share an entry of `timerMap_`; the
  second destroys the first, and cancelling the first cancels the second
  (net/timer/TimerQueue.cpp:54). A callback that cancels its own timer, or another
  one of its batch, leaves a dangling pointer. An expiration at the epoch disarms
  the timerfd.
* AsyncLogger: an `append` that passed its checks when `stop` begins leaves its
  record in a buffer nobody writes (logger/AsyncLogger.cpp:54); a burst writes newer
  records before older ones; a logger started again follows a null buffer.
* Buffer: a failed `readv` moves the indices over each other (utils/Buffer.h:264).
  `readByte2`, `readByte4`, `readByte8` and their `peek` variants return the first
  byte only, as a signed number, and write the others past the result
  (utils/Buffer.h:143-182, where the comment says that they read the data); none of
  them, nor `readByte`, looks at what is readable.
* Connector: the guard of `stop` is inverted and leaves the retry timer, so that an
  attempt that runs is not stopped; a `connect` that throws leaks its socket and leaves
  `couldConnect_` false for good; with poll(2) the closed descriptor of a failed
  attempt stays registered and its Event is destroyed by the next attempt.
* TcpClient: `removeConnection` destroys the connection before the close callback
  gets it, unless the user holds a copy; the callback of example/hello.cpp:21 uses
  it. A connection closed in its connection callback is assigned to `connection_`
  afterwards.
* TcpServer: `removeConnection` destroys the connection that its caller goes on
  with, on every close of the main thread, pool or not (net/TcpServer.cpp:123-125),
  and so does `shutdown` in a callback of a connection; an Event of the connection
  may still be in the batch. `setCloseCallback` is given a temporary that its
  closure refers to: the thread of the pool may meet what is left of it
  (net/TcpServer.cpp:114). The Acceptor does not look at `listen_`: if it is called
  later in the iteration in which `shutdown` ran, a connection is accepted that
  nobody closes before the destructor does. `removeConnection` asserts the main
  thread and is called on threads of the pool; `shutdown` gives closures a reference
  into a map it then clears. A Looper that is stopped before it starts is joined for
  ever, and one thread may start the Looper of another (`reactors_.back()`).
* Logs: two rotations in one second keep the second file only; a file found with old
  contents grows past its limit by a header and a record per restart; the rotated
  file is `log.log` of the working directory whatever the first path was.
  `FileReader` delivers nothing once a read has met the end of the file, although
  `current` moves on, and a string read past the end repeats its buffer.

## 7. Not modelled

* Undefined behaviour by reference captures: `TcpConnection::send` and
  `TimerQueue::addTimer` of another thread queue closures that refer to local
  variables which are gone when they run. (The setters, which do the same, are in
  `TcpServer`.)
* A descriptor that is closed a second time after its reuse by the kernel: `TcpClient`
  and `TcpServer` know a connection only as open or closed. The batch of an iteration is
  in `TcpServer` for the main Looper; the Loopers of the pool and `TcpClient` have none.
* Closures that other threads queue for a connection of a server's main thread
  (`forceClose` and `shutdown` of a connection are in `TcpConnection`, whose owner keeps
  it alive).
* A timer callback that throws: `handle` is left at once (net/timer/TimerQueue.cpp:76), its
  timer stays in `timerMap_` although it ran, the rest of the batch is not called, the
  timerfd is not set again (:90), and `start` of the Looper ends. `Looper` models that
  end; `TimerQueue` takes callbacks to return.
* `BlockingQueue`: nothing uses it, and its `dequeue` does not compile when it is
  instantiated. The http directory is unfinished and not connected to the net part.
* The rotation and `abort` of `AsyncLogger` (the rotation is that of `SyncLogger`),
  formatting of records, option setters, address conversion and resolution, string
  and time helpers, exception types, `main.cpp` and the examples: no protocol state.
