------------------------------- MODULE LogFile -------------------------------
(***************************************************************************)
(* tools/log/LogFile: log lines go to an ofstream that is flushed from time *)
(* to time, and to a new file when the old one is full or of another day.   *)
(* append() and flush() hold m_mutex from their first line to their last,   *)
(* so each is one action.  A file is named after the second in which it was *)
(* opened, and opened for appending.                                        *)
(*                                                                         *)
(* Abstractions: a line reaches the disk whole, and a call reads the clock  *)
(* once.  m_lastRoll is never read.                                         *)
(***************************************************************************)
EXTENDS Integers, Sequences, FiniteSets, SequencesExt

CONSTANTS Lengths,         \* of log lines, in bytes
          rollSize, flushInterval, checkEveryN,
          SecondsPerDay,
          MaxLines,        \* bound: lines appended
          MaxTime          \* bound: the clock

ASSUME LogFileAssumption ==
    /\ Lengths \subseteq Nat \ {0}
    /\ \E l \in Lengths : \A k \in Lengths : k <= l      \* a LogBuffer has an end
    /\ rollSize \in Nat /\ flushInterval \in Nat /\ checkEveryN \in Nat \ {0}
    /\ SecondsPerDay \in Nat \ {0}
    /\ MaxLines \in Nat /\ MaxTime \in Nat

VARIABLES now,             \* the wall clock, in seconds
          disk,            \* what each file holds, by the second of its name
          fileName,        \* the file that m_fout writes to
          buffered,        \* lines in m_fout's own buffer
          count, lastFlush, startPeriod, writenBytes,
          written,         \* history: lines appended,
          opened           \*   and how often each name was opened

fileVars == <<disk, fileName, buffered, count, lastFlush, startPeriod, writenBytes,
              written, opened>>

Times == 0 .. MaxTime
Line == [no : Nat \ {0}, len : Lengths, at : Times]
Period(t) == t \div SecondsPerDay

FileTypeOK == /\ now \in Times
              /\ disk \in [Times -> Seq(Line)]
              /\ fileName \in Times
              /\ buffered \in Seq(Line)
              /\ count \in 0 .. checkEveryN - 1 /\ lastFlush \in Times
              /\ startPeriod \in Nat /\ writenBytes \in 0 .. rollSize
              /\ written \in 0 .. MaxLines
              /\ opened \in [Times -> Nat]

\* The constructor rolls to a first file.
FileInit == /\ now = 0
            /\ disk = [t \in Times |-> <<>>]
            /\ fileName = 0
            /\ buffered = <<>>
            /\ count = 0 /\ lastFlush = 0 /\ startPeriod = 0 /\ writenBytes = 0
            /\ written = 0
            /\ opened = [t \in Times |-> IF t = 0 THEN 1 ELSE 0]

NewLine(len) == [no |-> written + 1, len |-> len, at |-> now]
Lines(len) == Append(buffered, NewLine(len))
-----------------------------------------------------------------------------
(* The tests of append_unlocked, for a line of len bytes *)

ForgetsBytes(len) == writenBytes
AddsBytes(len) == writenBytes + len
BytesAfter(len) == AddsBytes(len)

NeverBig(len) == FALSE
Exceeds(len) == BytesAfter(len) > rollSize
TooBig(len) == Exceeds(len)

CheckDue == count + 1 >= checkEveryN

NeverLate == FALSE
TimeDue == now - lastFlush > flushInterval
FlushDue == TimeDue

NewDay == Period(now) # startPeriod
-----------------------------------------------------------------------------
(* The stream *)

\* flush(): the lines ls of the stream are in its file.
ReachDisk(ls) == /\ disk' = [disk EXCEPT ![fileName] = @ \o ls]
                 /\ buffered' = <<>>

Truncating(ls) == [disk EXCEPT ![fileName] = @ \o ls, ![now] = <<>>]
Appending(ls) == [disk EXCEPT ![fileName] = @ \o ls]
DiskAfterRoll(ls) == Appending(ls)

\* roll_file opens the file of this second, which may be there already, and
\* the stream it replaces writes out what it holds as it is destroyed.
RollFile(ls) == /\ disk' = DiskAfterRoll(ls)
                /\ buffered' = <<>>
                /\ fileName' = now
                /\ opened' = [opened EXCEPT ![now] = @ + 1]
                /\ lastFlush' = now
                /\ startPeriod' = Period(now)
                /\ writenBytes' = 0
-----------------------------------------------------------------------------
(* append *)

AppendFull(len) == /\ TooBig(len)
                   /\ RollFile(Lines(len))
                   /\ UNCHANGED count

\* Every checkEveryN-th line, or the first one after flushInterval: roll if the
\* day is another one, and flush.
AppendAndRoll(len) == NewDay /\ RollFile(Lines(len))

AppendAndFlush(len) == /\ ~NewDay
                       /\ ReachDisk(Lines(len))
                       /\ lastFlush' = now
                       /\ writenBytes' = BytesAfter(len)
                       /\ UNCHANGED <<fileName, startPeriod, opened>>

CountAfterCheck == IF CheckDue THEN 0 ELSE count + 1

AppendChecked(len) == /\ ~TooBig(len)
                      /\ CheckDue \/ FlushDue
                      /\ count' = CountAfterCheck
                      /\ AppendAndRoll(len) \/ AppendAndFlush(len)

\* The line stays in the stream, which may write some of its buffer out.
AppendPlain(len) ==
    /\ ~TooBig(len) /\ ~CheckDue /\ ~FlushDue
    /\ count' = count + 1
    /\ writenBytes' = BytesAfter(len)
    /\ \E k \in 0 .. Len(buffered) + 1 :
          /\ disk' = [disk EXCEPT ![fileName] = @ \o SubSeq(Lines(len), 1, k)]
          /\ buffered' = SubSeq(Lines(len), k + 1, Len(buffered) + 1)
    /\ UNCHANGED <<fileName, lastFlush, startPeriod, opened>>

AppendLine(len) == /\ written < MaxLines
                   /\ written' = written + 1
                   /\ AppendFull(len) \/ AppendChecked(len) \/ AppendPlain(len)
                   /\ UNCHANGED now

KeepsLines == UNCHANGED <<disk, buffered>>
WritesLines == ReachDisk(buffered)
LinesAfterFlush == WritesLines

\* flush() leaves m_lastFlush alone.
Flush == /\ LinesAfterFlush
         /\ UNCHANGED <<now, fileName, count, lastFlush, startPeriod, writenBytes,
                        written, opened>>

Tick == /\ now' \in now + 1 .. MaxTime
        /\ UNCHANGED fileVars
-----------------------------------------------------------------------------
(* Safety *)

Everything == FlattenSeq([i \in 1 .. MaxTime + 1 |-> disk[i - 1]]) \o buffered

\* Read in the order of their names, the files and then the stream hold every
\* line appended, once and in order: no roll loses or overtakes anything.
NothingLost == /\ Len(Everything) = written
               /\ \A i \in 1 .. written : Everything[i].no = i

\* A process that dies loses less than checkEveryN lines, however the flushes
\* by count, by time, by a roll and by flush() were mixed.
LossBounded == Len(buffered) <= count /\ count < checkEveryN

\* When append() returns, no line is left in the stream that was written more
\* than flushInterval ago.
NothingStale == [][written' # written =>
    \A i \in DOMAIN buffered' : now - buffered'[i].at <= flushInterval]_<<now, fileVars>>

Longest == CHOOSE l \in Lengths : \A k \in Lengths : k <= l
Bytes(ls) == FoldLeft(LAMBDA n, l : n + l.len, 0, ls)
BytesOf(f) == Bytes(disk[f]) + (IF f = fileName THEN Bytes(buffered) ELSE 0)

\* A file outgrows rollSize by one line at most each time its name is opened;
\* a name is opened twice when two rolls fall into one second.
FilesBounded == \A f \in Times : BytesOf(f) <= opened[f] * (rollSize + Longest)
=============================================================================
