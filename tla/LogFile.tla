------------------------------ MODULE LogFile -------------------------------
(***************************************************************************)
(* logger/SyncLogger.cpp on a FileWriter, and a FileReader that follows    *)
(* the log, utils/FileUtil.h.  append() runs under mutex_ and is one step, *)
(* but the stream keeps what it is given until it is flushed or closed.    *)
(* AsyncLogger::flush() rotates its file in the same way.                  *)
(***************************************************************************)
EXTENDS LogDisk

diskVars == <<dir, data>>
writerVars == <<loggers, path, stream, size, unflushed>>
history == <<logged, console, refused, killed, rotations>>
readVars == <<readPath, readStream, readFailed, current, got, reads, spoiled>>
vars == <<diskVars, now, first, writerVars, history, readVars>>

Init ==
  /\ dir = [p \in Paths |-> 0] /\ data = <<>>
  /\ now = 1
  /\ first \in Dirs \X {LogName}
  /\ loggers = 0 /\ path = NoPath /\ stream = 0 /\ size = -1 /\ unflushed = <<>>
  /\ logged = 0 /\ console = {} /\ refused = {} /\ killed = {}
  /\ rotations = [p \in Paths |-> 0]
  /\ readPath \in Dirs \X {LogName}
  /\ readStream = 0 /\ readFailed = FALSE /\ current = -1
  /\ got = <<>> /\ reads = 0 /\ spoiled = FALSE

-----------------------------------------------------------------------------
(* FileWriter on a disk [dir, data].                                       *)

Disk == [dir |-> dir, data |-> data]

\* Mutant: the file is truncated.
OpenTruncates(disk, p) ==
  [dir |-> [disk.dir EXCEPT ![p] = Len(disk.data) + 1], data |-> Append(disk.data, <<>>)]

\* open() appends to the file of the path, or makes one.
Open(disk, p) ==
  IF disk.dir[p] # 0 THEN disk
  ELSE [dir |-> [disk.dir EXCEPT ![p] = Len(disk.data) + 1],
        data |-> Append(disk.data, <<>>)]

\* Its filesize_ after it.
SizeOf(disk, p) == Len(disk.data[disk.dir[p]])

\* rename() replaces a file of that name.
Rename(disk, from, to) ==
  [disk EXCEPT !.dir = [@ EXCEPT ![to] = disk.dir[from], ![from] = 0]]

\* Flushing and closing the stream.
WriteOut(disk) ==
  IF stream = 0 THEN disk ELSE [disk EXCEPT !.data[stream] = @ \o unflushed]

Now(disk) == dir' = disk.dir /\ data' = disk.data

-----------------------------------------------------------------------------
(* SyncLogger and Logger::log().                                           *)

\* The constructor opens the file and the program makes the logger the back
\* end with setLogger().
Construct ==
  LET disk == Open(Disk, first)
  IN /\ path = NoPath /\ loggers < MaxLoggers
     /\ loggers' = loggers + 1
     /\ path' = first /\ stream' = disk.dir[first] /\ size' = SizeOf(disk, first)
     /\ Now(disk)
     /\ UNCHANGED <<now, first, unflushed, history, readVars>>

NoFile == path' = NoPath /\ stream' = 0 /\ size' = -1 /\ unflushed' = <<>>

\* The destructor, or abort() and a new process: file_ is closed.
Destruct ==
  /\ path # NoPath
  /\ Now(WriteOut(Disk))
  /\ NoFile
  /\ UNCHANGED <<now, first, loggers, history, readVars>>

\* The process dies in another way.
Kill ==
  /\ path # NoPath
  /\ NoFile
  /\ killed' = killed \cup (Range(unflushed) \ {Header})
  /\ UNCHANGED <<diskVars, now, first, loggers, logged, console, refused, rotations, readVars>>

\* The stream writes what it holds.
Flush ==
  /\ unflushed # <<>>
  /\ Now(WriteOut(Disk))
  /\ unflushed' = <<>>
  /\ UNCHANGED <<now, first, loggers, path, stream, size, history, readVars>>

Written(units) ==
  /\ unflushed' = unflushed \o units
  /\ size' = size + Len(units)
  /\ UNCHANGED <<diskVars, path, stream, rotations>>

\* The file is renamed and closed, and log.log of the program's directory is
\* next, which open() may find with old contents.
Rotate(r) ==
  LET name == <<path[1], now>>
      disk == Open(Rename(WriteOut(Disk), path, name), LogPath)
  IN /\ Now(disk)
     /\ rotations' = [rotations EXCEPT ![name] = @ + 1]
     /\ path' = LogPath /\ stream' = disk.dir[LogPath]
     /\ unflushed' = <<Header, r>>
     /\ size' = SizeOf(disk, LogPath) + 2

RotatesAt(limit, r) ==
  \/ size = 0 /\ Written(<<Header, r>>)
  \/ size > limit /\ Rotate(r)
  \/ size # 0 /\ size <= limit /\ Written(<<r>>)

\* Mutant: the limit is not looked at.
AppendNeverRotates(r) == RotatesAt(MaxFileSize + MaxCalls, r)

\* append(), of a record that is not too large.
AppendRecord(r) == RotatesAt(MaxFileSize, r)

\* log() gives the record to the back end, which is standard output without a
\* logger.
Log ==
  LET r == logged + 1
  IN /\ logged < MaxCalls
     /\ logged' = r
     /\ \/ /\ path = NoPath
           /\ console' = console \cup {r}
           /\ UNCHANGED <<diskVars, path, stream, size, unflushed, rotations, refused>>
        \/ /\ path # NoPath /\ r \in Oversize
           /\ refused' = refused \cup {r}
           /\ UNCHANGED <<diskVars, path, stream, size, unflushed, rotations, console>>
        \/ /\ path # NoPath /\ r \notin Oversize
           /\ AppendRecord(r)
           /\ UNCHANGED <<console, refused>>
     /\ UNCHANGED <<now, first, loggers, killed, readVars>>

\* The clock.
Tick ==
  /\ now < MaxTime
  /\ now' = now + 1
  /\ UNCHANGED <<diskVars, first, writerVars, history, readVars>>

-----------------------------------------------------------------------------
(* FileReader.                                                             *)

\* open(), in read() and filesize(): the file of the path at that time.
Opened == IF readStream = 0 THEN dir[readPath] ELSE readStream

\* What the stream has left, by the bytes it has delivered.
Left(i) ==
  IF readFailed THEN <<>> ELSE SubSeq(data[i], Len(got) + 1, Len(data[i]))

\* filesize(): of what the path names now.
FileSize == Len(data[dir[readPath]])

\* What buffer_ holds after n full buffers: a short read leaves the rest of the
\* one before.
InBuffer(s, n) ==
  LET buffer[i \in 0 .. n] ==
        IF i = 0 THEN <<>>
        ELSE LET read == FirstUnits(SubSeq(s, (i - 1) * BufferSize + 1, Len(s)), BufferSize)
             IN read \o SubSeq(buffer[i - 1], Len(read) + 1, Len(buffer[i - 1]))
  IN buffer[n]

\* read(len) of a string, of n units: in full buffers and a rest.
InBuffers(s, n) ==
  LET buffers[i \in 0 .. n \div BufferSize] ==
        IF i = 0 THEN <<>> ELSE buffers[i - 1] \o InBuffer(s, i)
      full == (n \div BufferSize) * BufferSize
  IN buffers[n \div BufferSize] \o FirstUnits(SubSeq(s, full + 1, Len(s)), n - full)

\* A read of n units that returns units and moves current_ to position; after
\* a short one the stream delivers nothing any more.
Reads(n, units, position, exact) ==
  /\ reads < MaxReads /\ dir[readPath] # 0
  /\ reads' = reads + 1
  /\ readStream' = Opened
  /\ got' = got \o units
  /\ readFailed' = (readFailed \/ n > Len(Left(Opened)))
  /\ current' = position
  /\ spoiled' = (spoiled \/ readFailed \/ (exact /\ readFailed'))
  /\ UNCHANGED <<diskVars, now, first, writerVars, history, readPath>>

\* current_, which open() sets to 0.
Position == IF readStream = 0 THEN 0 ELSE current

\* open() and filesize() of the reader.
AskSize ==
  /\ dir[readPath] # 0 /\ readStream = 0
  /\ readStream' = Opened /\ current' = 0
  /\ UNCHANGED <<diskVars, now, first, writerVars, history, readPath, readFailed, got,
                 reads, spoiled>>

\* Mutant: current_ moves by what was asked for.
ReadCharsUncapped(len) == Reads(len, FirstUnits(Left(Opened), len), Position + len, FALSE)

\* read(char*, len)
ReadChars(len) ==
  Reads(len, FirstUnits(Left(Opened), len),
        Smaller(Position + Smaller(len, FileSize), FileSize), FALSE)

\* read(len), where 0 asks for the whole file.
ReadString(len) ==
  LET n == IF len = 0 \/ len > FileSize THEN FileSize ELSE len
  IN Reads(n, InBuffers(Left(Opened), n), Position + n, TRUE)

Next ==
  \/ Construct \/ Destruct \/ Kill \/ Flush \/ Log \/ Tick \/ AskSize
  \/ \E len \in 0 .. MaxFileSize : ReadChars(len) \/ ReadString(len)

Spec == Init /\ [][Next]_vars
=============================================================================
