----------------------------- MODULE LogReader ------------------------------
(***************************************************************************)
(* log_processor (log_processor.h, log_processor.cpp), the reader of the   *)
(* combat log: a buffer that is filled from the open file and cut at line  *)
(* ends.  Around it the calls the main thread makes: start and stop of     *)
(* app::start_tracking and app::stop_tracking, and the poll of             *)
(* app::operator() after each batch of window messages.  The game writes   *)
(* the files, in pieces that need not end with a line.                     *)
(*                                                                         *)
(* A byte is <<file, offset>>: its value matters only by being a line end  *)
(* or not.  Files are numbered in the order of their creation.             *)
(***************************************************************************)
EXTENDS Naturals, Sequences, SequencesExt

CONSTANTS
    MaxFiles,    \* bound on the number of log files
    FileSize,    \* bound on the bytes of one file
    EndOffsets,  \* the offsets that hold a line end
    BufferSize,  \* buffer_size (2048)
    MaxStarts    \* bound on the calls of start

ASSUME SizesAssumption ==
    /\ MaxFiles \in Nat \ {0} /\ FileSize \in Nat \ {0} /\ BufferSize \in Nat \ {0}
    /\ EndOffsets \subseteq 1..FileSize
    /\ MaxStarts \in Nat

VARIABLES
    sizes,    \* bytes written so far to each log file, oldest file first
    handle,   \* _file_handle, 0 when there is none
    pos,      \* the read position of the handle
    buffer,   \* the bytes from _buffer.data() to _from
    polling,  \* the loop over ReadFile is running
    starts,   \* number of calls of start
    stream,   \* history: all bytes read
    lines,    \* history: the lines given to parse_combat_log_line
    atPoll,   \* history: the size of the open file when the loop began
    failed    \* history: the last ReadFile of the loop has failed

vars == <<sizes, handle, pos, buffer, polling, starts, stream, lines, atPoll, failed>>

Bytes == (1..MaxFiles) \X (1..FileSize)
IsLineEnd(c) == c[2] \in EndOffsets

\* The bytes of file f from offset a to offset b.
Part(f, a, b) == [k \in 1..(b - a + 1) |-> <<f, a + k - 1>>]

\* Slip: what follows the last line end is not kept for the next read.
ProcessBytesNoTail(b) ==
    FoldLeft(LAMBDA acc, c :
                 IF IsLineEnd(c)
                 THEN [found |-> Append(acc.found, acc.line), line |-> << >>, left |-> << >>]
                 ELSE [acc EXCEPT !.line = Append(@, c)],
             [found |-> << >>, line |-> << >>, left |-> << >>], b)

\* What one byte makes of the lines found and of the bytes left behind the last one.
CutAt(acc, c) ==
    IF IsLineEnd(c)
    THEN [found |-> Append(acc.found, acc.left), left |-> << >>]
    ELSE [found |-> acc.found, left |-> Append(acc.left, c)]

\* process_bytes: the lines up to the last line end, and the bytes behind it,
\* moved to the start of the buffer.  A line that cannot be parsed is skipped.
ProcessBytes(b) == FoldLeft(CutAt, [found |-> << >>, left |-> << >>], b)
-----------------------------------------------------------------------------
Init ==
    /\ sizes = << >>
    /\ handle = 0
    /\ pos = 0
    /\ buffer = << >>
    /\ polling = FALSE
    /\ starts = 0
    /\ stream = << >>
    /\ lines = << >>
    /\ atPoll = 0
    /\ failed = FALSE

\* The game: a new log file, more bytes in the newest one.
GameNewFile ==
    /\ Len(sizes) < MaxFiles
    /\ sizes' = Append(sizes, 0)
    /\ UNCHANGED <<handle, pos, buffer, polling, starts, stream, lines, atPoll, failed>>

GameWrite(n) ==
    /\ sizes # << >>
    /\ Last(sizes) + n <= FileSize
    /\ sizes' = [sizes EXCEPT ![Len(sizes)] = @ + n]
    /\ UNCHANGED <<handle, pos, buffer, polling, starts, stream, lines, atPoll, failed>>

\* Slip: the position of the old file goes on in the new one.
StartInTheMiddle ==
    /\ ~ polling
    /\ starts < MaxStarts
    /\ starts' = starts + 1
    /\ handle' \in {0, Len(sizes)}
    /\ UNCHANGED <<sizes, pos, buffer, polling, stream, lines, atPoll, failed>>

\* start_tracking: opens the newest file at its beginning, which may fail; what
\* the buffer holds of the file before stays in it.
Start ==
    /\ ~ polling
    /\ starts < MaxStarts
    /\ starts' = starts + 1
    /\ handle' \in {0, Len(sizes)}
    /\ pos' = 0
    /\ UNCHANGED <<sizes, buffer, polling, stream, lines, atPoll, failed>>

Stop ==
    /\ ~ polling
    /\ handle # 0
    /\ handle' = 0
    /\ UNCHANGED <<sizes, pos, buffer, polling, starts, stream, lines, atPoll, failed>>

\* app::operator() calls the reader.
Poll ==
    /\ ~ polling
    /\ handle # 0
    /\ polling' = TRUE
    /\ atPoll' = sizes[handle]
    /\ failed' = FALSE
    /\ UNCHANGED <<sizes, handle, pos, buffer, starts, stream, lines>>

Room == BufferSize - Len(buffer)
Unread == sizes[handle] - pos

\* What ReadFile returns: it fills the room with what the file has.
BytesRead == IF Room <= Unread THEN Room ELSE Unread

\* Slip: reads once, without a loop.
ReadOnce ==
    /\ polling
    /\ BytesRead > 0
    /\ LET chunk == Part(handle, pos + 1, pos + BytesRead)
           p == ProcessBytes(buffer \o chunk)
       IN  /\ stream' = stream \o chunk
           /\ lines' = lines \o p.found
           /\ buffer' = p.left
    /\ pos' = pos + BytesRead
    /\ polling' = FALSE
    /\ UNCHANGED <<sizes, handle, starts, atPoll, failed>>

\* One turn of the loop over ReadFile.
Read ==
    /\ polling
    /\ BytesRead > 0
    /\ LET chunk == Part(handle, pos + 1, pos + BytesRead)
           p == ProcessBytes(buffer \o chunk)
       IN  /\ stream' = stream \o chunk
           /\ lines' = lines \o p.found
           /\ buffer' = p.left
    /\ pos' = pos + BytesRead
    /\ UNCHANGED <<sizes, handle, polling, starts, atPoll, failed>>

\* Nothing to read, or no room to read it to.
ReadNothing ==
    /\ polling
    /\ BytesRead = 0
    /\ polling' = FALSE
    /\ UNCHANGED <<sizes, handle, pos, buffer, starts, stream, lines, atPoll, failed>>

\* ReadFile returns FALSE, which ends the loop as well, whatever there is to read.
ReadFails ==
    /\ polling
    /\ polling' = FALSE
    /\ failed' = TRUE
    /\ UNCHANGED <<sizes, handle, pos, buffer, starts, stream, lines, atPoll>>

Next ==
    \/ GameNewFile
    \/ \E n \in 1..FileSize : GameWrite(n)
    \/ Start \/ Stop
    \/ Poll \/ Read \/ ReadNothing \/ ReadFails

Spec == Init /\ [][Next]_vars
-----------------------------------------------------------------------------
\* Reading in pieces of any size, through a buffer of fixed size and across files,
\* cuts the bytes read as if they were one stream: the abstract LineFeed.
Feed == INSTANCE LineFeed WITH IsEnd <- IsLineEnd
FeedsLines == Feed!Spec

\* l is what the reader has of the line of f that goes on at offset p: the bytes since
\* the line end before it.  Only in front of the first line of a file there may be other
\* bytes, the unfinished line that was in the buffer when the file was opened.
IsLineUpTo(l, f, p) ==
    \E a \in 1..p + 1 :
        /\ \A c \in a..p : c \notin EndOffsets
        /\ \/ a - 1 \in EndOffsets /\ l = Part(f, a, p)
           \/ /\ a = 1 /\ p <= Len(l)
              /\ \A k \in 1..p : l[Len(l) - p + k] = <<f, k>>

\* Whatever is started and stopped in between, a line given to the parser is a
\* whole line of one file, except that the first line after a start may stand
\* behind an unfinished line read before.
LinesAreWhole ==
    \A i \in DOMAIN lines :
        \E f \in 1..MaxFiles, b \in EndOffsets : IsLineUpTo(lines[i], f, b - 1)

\* The last bytes read, as many as the buffer takes, are within one line.
InLongLine(s) ==
    /\ Len(s) >= BufferSize
    /\ \A k \in Len(s) - BufferSize + 1..Len(s) : ~ IsLineEnd(s[k])

\* When the loop over ReadFile ends, and not because ReadFile failed, all that the file
\* held when it began was read, unless the reader is within a line that is as long as
\* its buffer, an unfinished line of the file before included.
PollCatchesUp ==
    [][polling /\ ~ polling' =>
          failed' \/ pos' >= atPoll \/ InLongLine(stream')]_vars
=============================================================================
