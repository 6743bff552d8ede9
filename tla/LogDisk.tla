------------------------------ MODULE LogDisk -------------------------------
(***************************************************************************)
(* The files of a log, the stream of the logger that writes them and the   *)
(* FileReader that follows them, and what must hold of them.  LogFile has  *)
(* the operations.                                                         *)
(*                                                                         *)
(* A unit of a file is its header line or a record.                        *)
(***************************************************************************)
EXTENDS Integers, Sequences, Functions

CONSTANTS
  MaxFileSize,      \* gMaxFileSize, in units
  BufferSize,       \* BUFFER_SIZE of FileReader, in units
  MaxCalls,         \* bound: calls of Logger::log()
  Oversize,         \* the records longer than a file may be
  MaxTime,          \* bound: seconds that pass
  MaxLoggers,       \* bound: loggers that are made
  MaxReads          \* bound: calls of FileReader::read()

ASSUME LogFileAssumption ==
  /\ MaxFileSize \in Nat \ {0} /\ BufferSize \in Nat \ {0}
  /\ MaxCalls \in Nat /\ Oversize \subseteq 1 .. MaxCalls
  /\ MaxTime \in Nat \ {0} /\ MaxLoggers \in Nat /\ MaxReads \in Nat

VARIABLES
  dir,              \* the directory entries: a file, or 0
  data,             \* the contents of the files, in the order of their creation
  now,              \* the clock, in seconds
  first,            \* the path SyncLogger is made with
  loggers,          \* loggers made
  path,             \* path_ of file_, NoPath without a logger
  stream,           \* the file of fileOutput_, 0 if it is not open
  size,             \* filesize_
  unflushed,        \* what fileOutput_ holds back
  logged,           \* history: calls of Logger::log()
  console,          \* history: records that went to standard output
  refused,          \* history: records that were too large
  killed,           \* history: records that were held back when a process died
  rotations,        \* history: per second and directory, rotations
  readPath,         \* path_ of the FileReader
  readStream,       \* the file of fileInput_, 0 if it is not open
  readFailed,       \* its failbit: a read met the end of the file
  current,          \* current_
  got,              \* history: what the calls of read() returned
  reads,            \* history: how many there were
  spoiled           \* history: a read was made after the end of the file had
                    \* been met, or a string was read past it

Header == 0

\* The directory of the program and another one; in each of them log.log and
\* the names a rotation gives in each second.
Dirs == {"cwd", "other"}
LogName == 0
Paths == Dirs \X (0 .. MaxTime)
LogPath == <<"cwd", LogName>>
NoPath == <<"none", LogName>>

Smaller(a, b) == IF a < b THEN a ELSE b

\* The first units of a sequence.
FirstUnits(s, n) == SubSeq(s, 1, Smaller(n, Len(s)))

-----------------------------------------------------------------------------
\* The files a directory entry leads to.
Files == {dir[p] : p \in Paths} \ {0}

Found == ((UNION {Range(data[i]) : i \in Files}) \cup Range(unflushed)) \ {Header}

\* No record is lost by reopening, rotating and closing files: it is in some
\* file or held by the stream, unless the process was killed or a directory saw
\* two rotations in one second, of which the second replaces the file of the
\* first.
RecordsAreKept ==
  (\A p \in Paths : rotations[p] <= 1) =>
    1 .. logged = Found \cup console \cup refused \cup killed

\* The units of a file, with what the stream holds back for it.
UnitsOf(i) == data[i] \o (IF i = stream THEN unflushed ELSE <<>>)

\* What a log.log that is not rotated may have too much: the rotation of
\* another file does not look at its size, once per logger.
Excess == IF first = LogPath THEN 0 ELSE 2 * (loggers - 1)

\* A file begins with the header line, its records follow in the order of the
\* calls, and there is at most one more than the limit: a file that is opened
\* again, or by the rotation of another one, keeps what it had in front, and
\* may exceed the limit by a header and a record with every further logger.
FilesAreWellFormed ==
  \A i \in Files :
    LET units == UnitsOf(i)
    IN /\ units # <<>> => units[1] = Header
       /\ \A j, k \in DOMAIN units :
            j < k /\ units[j] # Header /\ units[k] # Header => units[j] < units[k]
       /\ Len(units) <= MaxFileSize + 1 + Excess

\* What read() returned is the file from its beginning and current() is the
\* position in it, also while the log grows and at its end, until a read
\* follows one that met the end, or the file is rotated away: a loop that reads
\* up to filesize() gets all of a file that does not grow.
ReaderFollows ==
  readStream # 0 /\ ~spoiled /\ dir[readPath] = readStream =>
    current = Len(got) /\ got = FirstUnits(data[readStream], current)
=============================================================================
