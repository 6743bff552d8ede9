---------------------------- MODULE AsyncLogger ----------------------------
(***************************************************************************)
(* The asynchronous logger, logger/AsyncLogger.cpp: threads append records *)
(* to a buffer under mutex_; a full buffer is swapped with the writer's    *)
(* buffer or, if the writer is behind, queued as an extra one; the writer  *)
(* thread takes the buffers under mutex_ and writes them without it; stop  *)
(* joins the writer and writes what is left, without mutex_.               *)
(*                                                                         *)
(* A step is a locked section or what runs between two accesses to shared  *)
(* state outside of one.  Accesses to the buffer pointers that race are    *)
(* taken as atomic.                                                        *)
(***************************************************************************)
EXTENDS Naturals, SequencesExt

CONSTANTS
  Producers,        \* threads that log
  MaxRecords,       \* bound: calls of append()
  Big,              \* the records as long as a buffer; the others have size 1
  Capacity,         \* size of a buffer
  MaxExtra,         \* most extra buffers, 64
  MaxStarts,        \* bound: calls of start()
  None              \* a null buffer pointer, no record

ASSUME AsyncLoggerAssumption ==
  /\ None \notin Nat /\ None \notin Seq(Nat)
  /\ MaxRecords \in Nat /\ Big \subseteq 1 .. MaxRecords
  /\ Capacity \in Nat \ {0, 1} /\ MaxExtra \in Nat /\ MaxStarts \in Nat

VARIABLES
  logBuf,           \* bufferForLog_, a sequence of records or None
  writeBuf,         \* bufferForWrite_
  extra,            \* extraBuffers_
  toWrite,          \* bufferToWrite of the writer
  isWriting,        \* isWriting_
  running,          \* running_
  writer,           \* where the writer thread is in writeToFile()
  stopper,          \* where the owner is: "out", "running", or in stop()
  starts,           \* calls of start()
  call,             \* per producer: the record that passed the checks of append()
  file,             \* history: records written
  accepted,         \* history: records put into a buffer, in order
  given,            \* history: records handed to append()
  burst,            \* history: an extra buffer has been used
  late,             \* history: an append() has overlapped a stop()
  fault             \* a null buffer pointer has been followed

bufVars == <<logBuf, writeBuf, extra>>
writerVars == <<toWrite, isWriting, writer>>
ownerVars == <<running, stopper, starts>>
history == <<accepted, burst, late>>
vars == <<bufVars, writerVars, ownerVars, call, file, given, history, fault>>

Init ==
  /\ logBuf = <<>> /\ writeBuf = <<>> /\ extra = <<>>
  /\ toWrite = <<>> /\ isWriting = FALSE /\ writer = "ended"
  /\ running = FALSE /\ stopper = "out" /\ starts = 0
  /\ call = [p \in Producers |-> None]
  /\ file = <<>> /\ accepted = <<>> /\ given = 0
  /\ burst = FALSE /\ late = FALSE /\ fault = FALSE

Contents(buffer) == IF buffer = None THEN <<>> ELSE buffer

-----------------------------------------------------------------------------
(* append().                                                               *)

\* Records are numbered in the order of these calls.
Records == 1 .. MaxRecords

\* The checks before the lock.
BeginAppend(p) ==
  /\ call[p] = None /\ given < MaxRecords /\ ~fault
  /\ given' = given + 1
  /\ call' = IF running THEN [call EXCEPT ![p] = given + 1] ELSE call
  /\ UNCHANGED <<bufVars, writerVars, ownerVars, file, history, fault>>

\* remain() > data.size()
Fits(r, buffer) == r \notin Big /\ Len(Contents(buffer)) + 1 < Capacity

\* LogBuffer::append into an empty buffer drops what does not fit.
Fresh(r) == IF Fits(r, <<>>) THEN <<r>> ELSE <<>>

Swap(r) ==
  /\ writeBuf' = logBuf
  /\ logBuf' = Fresh(r)
  /\ accepted' = accepted \o Fresh(r)
  /\ UNCHANGED <<extra, burst>>

\* Where a record goes that does not fit; swaps: may the buffers be swapped?
Overflow(r, swaps) ==
  \/ swaps /\ Swap(r)
  \/ /\ ~swaps /\ Len(extra) < MaxExtra
     /\ extra' = Append(extra, logBuf)
     /\ logBuf' = Fresh(r)
     /\ accepted' = accepted \o Fresh(r)
     /\ burst' = TRUE
     /\ UNCHANGED writeBuf
  \/ ~swaps /\ Len(extra) >= MaxExtra /\ UNCHANGED <<bufVars, accepted, burst>>

FollowsNull(r) ==
  logBuf = None \/ (~Fits(r, logBuf) /\ ~isWriting /\ writeBuf = None)

\* The locked section.
LockedAppend(p) ==
  LET r == call[p]
  IN /\ r # None /\ ~fault
     /\ call' = [call EXCEPT ![p] = None]
     /\ late' = (late \/ stopper # "running")
     /\ fault' = FollowsNull(r)
     /\ \/ /\ ~FollowsNull(r) /\ Fits(r, logBuf)
           /\ logBuf' = Append(logBuf, r)
           /\ accepted' = Append(accepted, r)
           /\ UNCHANGED <<writeBuf, extra, burst>>
        \/ ~FollowsNull(r) /\ ~Fits(r, logBuf) /\ Overflow(r, ~isWriting /\ writeBuf = <<>>)
        \/ FollowsNull(r) /\ UNCHANGED <<bufVars, accepted, burst>>
     /\ UNCHANGED <<writerVars, ownerVars, file, given>>

-----------------------------------------------------------------------------
(* writeToFile() and flush() on the writer thread.                         *)

Goto(from, to) == writer = from /\ writer' = to /\ ~fault

WriterChecks ==
  /\ Goto("check", IF running THEN "lock" ELSE "ended")
  /\ UNCHANGED <<bufVars, toWrite, isWriting, ownerVars, call, file, given, history, fault>>

\* wait_for releases the lock; it returns at a notification or a timeout.
WriterWaits ==
  /\ Goto("lock", "take")
  /\ extra = <<>> /\ writeBuf = <<>>
  /\ UNCHANGED <<bufVars, toWrite, isWriting, ownerVars, call, file, given, history, fault>>

MayTake ==
  \/ writer = "take"
  \/ writer = "lock" /\ (extra # <<>> \/ writeBuf \notin {None, <<>>})

TakeWhen(swaps) ==
  /\ MayTake /\ writeBuf # None /\ ~fault
  /\ writer' = "flush"
  /\ logBuf' = IF swaps THEN writeBuf ELSE logBuf
  /\ writeBuf' = IF swaps THEN logBuf ELSE writeBuf
  /\ toWrite' = extra
  /\ extra' = <<>>
  /\ UNCHANGED <<isWriting, ownerVars, call, file, given, history, fault>>

\* Mutant: the buffers are always swapped.
TakeAlwaysSwaps == TakeWhen(TRUE)

\* Mutant: the writer takes full buffers only.
TakeNeverSwaps == TakeWhen(FALSE)

WriterTakes == TakeWhen(writeBuf = <<>>)

WriterFollowsNull ==
  /\ writer \in {"lock", "take", "writing"} /\ writeBuf = None /\ ~fault
  /\ fault' = TRUE
  /\ UNCHANGED <<bufVars, writerVars, ownerVars, call, file, given, history>>

WriterFlushes ==
  /\ Goto("flush", IF Contents(writeBuf) # <<>> THEN "writing" ELSE "extra")
  /\ isWriting' = (Contents(writeBuf) # <<>>)
  /\ UNCHANGED <<bufVars, toWrite, ownerVars, call, file, given, history, fault>>

\* Mutant: the buffer is not reset.
WriteWithoutReset ==
  /\ Goto("writing", "written") /\ writeBuf # None
  /\ file' = file \o writeBuf
  /\ UNCHANGED <<bufVars, toWrite, isWriting, ownerVars, call, given, history, fault>>

WriterWrites ==
  /\ Goto("writing", "written") /\ writeBuf # None
  /\ file' = file \o writeBuf
  /\ writeBuf' = <<>>
  /\ UNCHANGED <<logBuf, extra, toWrite, isWriting, ownerVars, call, given, history, fault>>

WriterWritten ==
  /\ Goto("written", "extra")
  /\ isWriting' = FALSE
  /\ UNCHANGED <<bufVars, toWrite, ownerVars, call, file, given, history, fault>>

WriterWritesExtra ==
  /\ Goto("extra", "extra") /\ toWrite # <<>>
  /\ file' = file \o Head(toWrite)
  /\ toWrite' = Tail(toWrite)
  /\ UNCHANGED <<bufVars, isWriting, ownerVars, call, given, history, fault>>

WriterRepeats ==
  /\ Goto("extra", "check") /\ toWrite = <<>>
  /\ UNCHANGED <<bufVars, toWrite, isWriting, ownerVars, call, file, given, history, fault>>

-----------------------------------------------------------------------------
(* start() and stop().                                                     *)

Start ==
  /\ stopper = "out" /\ starts < MaxStarts /\ ~fault
  /\ starts' = starts + 1
  /\ running' = TRUE
  /\ stopper' = "running"
  /\ writer' = "check"
  /\ UNCHANGED <<bufVars, toWrite, isWriting, call, file, given, history, fault>>

Step(from, to) == stopper = from /\ stopper' = to /\ ~fault

Stop ==
  /\ Step("running", "join")
  /\ running' = FALSE
  /\ UNCHANGED <<bufVars, writerVars, starts, call, file, given, history, fault>>

StopJoins ==
  /\ Step("join", "write")
  /\ writer = "ended"
  /\ UNCHANGED <<bufVars, writerVars, running, starts, call, file, given, history, fault>>

\* A buffer that is not empty joins the extra ones and leaves a null pointer.
Queued(buffer) == IF Contents(buffer) = <<>> THEN extra ELSE Append(extra, buffer)
Left(buffer) == IF buffer = <<>> THEN <<>> ELSE None

StopTakesWrite ==
  /\ Step("write", "log")
  /\ extra' = Queued(writeBuf)
  /\ writeBuf' = Left(writeBuf)
  /\ fault' = (writeBuf = None)
  /\ UNCHANGED <<logBuf, writerVars, running, starts, call, file, given, history>>

\* Mutant: the buffer for logging is forgotten.
StopForgetsLog ==
  /\ Step("log", "flush")
  /\ UNCHANGED <<bufVars, writerVars, running, starts, call, file, given, history, fault>>

StopTakesLog ==
  /\ Step("log", "flush")
  /\ extra' = Queued(logBuf)
  /\ logBuf' = Left(logBuf)
  /\ fault' = (logBuf = None)
  /\ UNCHANGED <<writeBuf, writerVars, running, starts, call, file, given, history>>

\* flush() without the lock, taken as one step: a buffer that a late append()
\* swapped in comes first.
StopFlushes ==
  /\ Step("flush", "out")
  /\ file' = file \o Contents(writeBuf) \o FlattenSeq(extra)
  /\ writeBuf' = IF writeBuf = None THEN None ELSE <<>>
  /\ extra' = <<>>
  /\ UNCHANGED <<logBuf, writerVars, running, starts, call, given, history, fault>>

-----------------------------------------------------------------------------
WriterStep ==
  \/ WriterChecks \/ WriterWaits \/ WriterTakes \/ WriterFollowsNull
  \/ WriterFlushes \/ WriterWrites \/ WriterWritten
  \/ WriterWritesExtra \/ WriterRepeats

Next ==
  \/ \E p \in Producers : BeginAppend(p) \/ LockedAppend(p)
  \/ WriterStep
  \/ Start \/ Stop \/ StopJoins \/ StopTakesWrite \/ StopTakesLog \/ StopFlushes

Spec == Init /\ [][Next]_vars

\* The writer thread is scheduled, and its wait ends after flushInterval_.
FairSpec == Spec /\ WF_vars(WriterStep)

-----------------------------------------------------------------------------
\* The types of the variables.
TypeOK ==
  /\ logBuf \in Seq(Records) \cup {None} /\ writeBuf \in Seq(Records) \cup {None}
  /\ extra \in Seq(Seq(Records)) /\ toWrite \in Seq(Seq(Records))
  /\ isWriting \in BOOLEAN /\ running \in BOOLEAN
  /\ writer \in {"ended", "check", "lock", "take", "flush", "writing", "written", "extra"}
  /\ stopper \in {"out", "running", "join", "write", "log", "flush"}
  /\ starts \in 0 .. MaxStarts
  /\ call \in [Producers -> Records \cup {None}]
  /\ file \in Seq(Records) /\ accepted \in Seq(Records) /\ given \in 0 .. MaxRecords
  /\ burst \in BOOLEAN /\ late \in BOOLEAN /\ fault \in BOOLEAN

\* Everything that was accepted is somewhere, once: swaps, moves and the
\* writer's unlocked writes neither lose nor repeat a record, whatever the
\* threads do between them.
NothingLostOrRepeated ==
  LET all == file \o Contents(writeBuf) \o Contents(logBuf)
               \o FlattenSeq(extra \o toWrite)
  IN /\ Len(all) = Len(accepted)
     /\ ToSet(all) = ToSet(accepted)

\* Unless a burst needed an extra buffer, records reach the file in the
\* order in which the threads got the lock.
OrderWithoutBursts ==
  ~burst /\ ~late =>
    file \o Contents(writeBuf) \o FlattenSeq(extra) \o Contents(logBuf) = accepted

Returning == stopper = "flush" /\ stopper' = "out"

\* stop() hands all data to the back end (AsyncLogger.cpp:39): what was
\* accepted when it returns is written, unless an append() overlapped it.
QuietStopWritesAll ==
  [][Returning /\ ~late => ToSet(accepted) \subseteq ToSet(file')]_vars

\* A record that was accepted is written, full buffer or not, unless the
\* logger stops.
RecordIsWritten ==
  \A r \in Records :
    (r \in ToSet(accepted) /\ starts = 1)
      ~> (r \in ToSet(file) \/ stopper # "running")
=============================================================================
