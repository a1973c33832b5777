------------------------------ MODULE LogProofs ------------------------------
(***************************************************************************)
(* What a crash can lose, for every number of threads, every size and every *)
(* interval: fewer than checkEveryN lines, none of them older than          *)
(* flushInterval when the last append() returned.  And what it cannot lose: *)
(* a FATAL line and what was logged before it.                              *)
(*                                                                          *)
(* Then where the lines of a LogFile are: read in the order of their names, *)
(* the files and after them the stream hold every line appended, once and   *)
(* in order; and no file outgrows rollSize by more than one line each time  *)
(* it is opened.  Both are sums over sequences of any length, so that each  *)
(* comes with lemmas that unfold FlattenSeq and Bytes element by element.   *)
(***************************************************************************)
EXTENDS Log, SequenceTheorems, WellFoundedInduction, TLAPS

\* What is in the stream was written since the last flush that append() or a
\* roll made: flush() only removes lines.
Recent == /\ lastFlush <= now
          /\ \A i \in DOMAIN buffered : buffered[i].at >= lastFlush

IInv == TypeOK /\ LossBounded /\ Recent
-----------------------------------------------------------------------------
\* Sequences are functions.
LEMMA SeqFacts ==
  ASSUME NEW S, NEW s \in Seq(S)
  PROVE  Len(s) \in Nat /\ DOMAIN s = 1 .. Len(s) /\ s \in [1 .. Len(s) -> S]
  OBVIOUS

\* Writing to a file of the disk.
LEMMA DiskType ==
  ASSUME disk \in [Times -> Seq(Line)], fileName \in Times, NEW ls \in Seq(Line)
  PROVE  [disk EXCEPT ![fileName] = @ \o ls] \in [Times -> Seq(Line)]
  OBVIOUS

\* A day is numbered from zero.
LEMMA PeriodType ==
  ASSUME NEW t \in Nat, NEW d \in Nat \ {0}
  PROVE  t \div d \in Nat
  OBVIOUS

\* The constructor establishes the invariant.
LEMMA InitTypes == Init => IInv
  <1> SUFFICES ASSUME Init PROVE IInv
    OBVIOUS
  <1>1. 0 \in Times
    BY LogFileAssumption DEF Times
  <1>2. TypeOK
    <2>1. disk \in [Times -> Seq(Line)] /\ buffered \in Seq(Line)
      BY DEF Init, FileInit
    <2>2. opened \in [Times -> Nat] /\ now \in Times /\ fileName \in Times /\ lastFlush \in Times
      BY <1>1 DEF Init, FileInit
    <2>3. /\ count \in 0 .. checkEveryN - 1 /\ startPeriod \in Nat
          /\ writenBytes \in 0 .. rollSize /\ written \in 0 .. MaxLines
      BY LogFileAssumption DEF Init, FileInit
    <2>4. fatalLine \in [Threads -> 0 .. MaxLines]
      BY LogFileAssumption DEF Init
    <2>5. /\ thresholdLevel \in LogLevel /\ aborted \in BOOLEAN
          /\ pc \in [Threads -> Steps]
      BY DEF Init, LogLevel, Steps
    <2> QED BY <2>1, <2>2, <2>3, <2>4, <2>5 DEF TypeOK, FileTypeOK
  <1> QED BY <1>2, LogFileAssumption DEF Init, FileInit, IInv, LossBounded, Recent

\* The stream with the new line in it is as recent as before.
LEMMA LinesType ==
  ASSUME IInv, NEW len \in Lengths, written < MaxLines
  PROVE  /\ Lines(len) \in Seq(Line) /\ Len(Lines(len)) = Len(buffered) + 1
         /\ \A i \in 1 .. Len(buffered) + 1 : Lines(len)[i].at >= lastFlush
  <1>1. written + 1 \in Nat \ {0} /\ now \in Times
    BY LogFileAssumption DEF IInv, TypeOK, FileTypeOK
  <1>2. NewLine(len) \in Line /\ NewLine(len).at = now
    BY <1>1 DEF NewLine, Line
  <1>3. buffered \in Seq(Line) /\ Recent /\ Len(buffered) \in Nat
    BY DEF IInv, TypeOK, FileTypeOK
  <1>4. DOMAIN buffered = 1 .. Len(buffered)
    BY <1>3, SeqFacts
  <1>5. Lines(len) \in Seq(Line) /\ Len(Lines(len)) = Len(buffered) + 1
    BY <1>2, <1>3 DEF Lines
  <1>6. ASSUME NEW i \in 1 .. Len(buffered) + 1
        PROVE  Lines(len)[i].at >= lastFlush
    <2>1. CASE i = Len(buffered) + 1
      BY <1>2, <1>3, <2>1 DEF Lines, Recent
    <2>2. CASE i # Len(buffered) + 1
      <3>1. i \in DOMAIN buffered /\ Lines(len)[i] = buffered[i]
        BY <1>3, <1>4, <2>2 DEF Lines
      <3> QED BY <1>3, <3>1 DEF Recent
    <2> QED BY <2>1, <2>2
  <1> QED BY <1>5, <1>6

\* What roll_file leaves.
LEMMA RollKeeps ==
  ASSUME IInv, NEW ls \in Seq(Line), RollFile(ls), UNCHANGED now
  PROVE  /\ disk' \in [Times -> Seq(Line)] /\ buffered' = <<>>
         /\ fileName' \in Times /\ lastFlush' \in Times /\ startPeriod' \in Nat
         /\ writenBytes' = 0 /\ opened' \in [Times -> Nat]
  <1>1. now \in Nat /\ SecondsPerDay \in Nat \ {0}
    BY LogFileAssumption DEF IInv, TypeOK, FileTypeOK, Times
  <1>2. disk' \in [Times -> Seq(Line)]
    BY DiskType DEF RollFile, DiskAfterRoll, Appending, IInv, TypeOK, FileTypeOK
  <1>3. Period(now) \in Nat
    BY <1>1, PeriodType DEF Period
  <1>4. opened' \in [Times -> Nat]
    BY DEF RollFile, IInv, TypeOK, FileTypeOK
  <1> QED BY <1>2, <1>3, <1>4 DEF RollFile, IInv, TypeOK, FileTypeOK

\* AppendFull and AppendChecked leave an empty stream.
LEMMA AppendEmpties ==
  ASSUME IInv, NEW len \in Lengths, written < MaxLines, UNCHANGED now,
         AppendFull(len) \/ AppendChecked(len)
  PROVE  /\ disk' \in [Times -> Seq(Line)] /\ buffered' = <<>>
         /\ fileName' \in Times /\ lastFlush' \in Times /\ startPeriod' \in Nat
         /\ writenBytes' \in 0 .. rollSize /\ opened' \in [Times -> Nat]
         /\ count' \in 0 .. checkEveryN - 1
  <1>1. Lines(len) \in Seq(Line)
    BY LinesType
  <1>2. count \in 0 .. checkEveryN - 1 /\ checkEveryN \in Nat \ {0} /\ rollSize \in Nat
    BY LogFileAssumption DEF IInv, TypeOK, FileTypeOK
  <1>3. CASE AppendFull(len)
    BY <1>1, <1>2, <1>3, RollKeeps DEF AppendFull
  <1>4. CASE AppendChecked(len)
    <2>1. count' \in 0 .. checkEveryN - 1
      BY <1>2, <1>4 DEF AppendChecked, CountAfterCheck, CheckDue
    <2>2. CASE AppendAndRoll(len)
      BY <1>1, <1>2, <2>1, <2>2, RollKeeps DEF AppendAndRoll
    <2>3. CASE AppendAndFlush(len)
      <3>1. disk' \in [Times -> Seq(Line)] /\ buffered' = <<>>
        BY <1>1, <2>3, DiskType DEF AppendAndFlush, ReachDisk, IInv, TypeOK, FileTypeOK
      <3>2. writenBytes' \in 0 .. rollSize
        BY <1>2, <1>4, <2>3, LogFileAssumption
        DEF AppendChecked, AppendAndFlush, TooBig, Exceeds, BytesAfter, AddsBytes,
            IInv, TypeOK, FileTypeOK
      <3> QED BY <2>1, <2>3, <3>1, <3>2 DEF AppendAndFlush, IInv, TypeOK, FileTypeOK
    <2> QED BY <1>4, <2>2, <2>3 DEF AppendChecked
  <1> QED BY <1>3, <1>4

\* An append that neither rolls nor flushes keeps count and age in bounds.
LEMMA AppendPlainKeeps ==
  ASSUME IInv, NEW len \in Lengths, written < MaxLines, AppendPlain(len)
  PROVE  /\ disk' \in [Times -> Seq(Line)] /\ buffered' \in Seq(Line)
         /\ Len(buffered') <= count' /\ count' \in 0 .. checkEveryN - 1
         /\ \A i \in DOMAIN buffered' : buffered'[i].at >= lastFlush
         /\ writenBytes' \in 0 .. rollSize
         /\ UNCHANGED <<fileName, lastFlush, startPeriod, opened>>
  <1> DEFINE n == Len(buffered)
             ls == Lines(len)
  <1>1. /\ ls \in Seq(Line) /\ Len(ls) = n + 1 /\ n \in Nat
        /\ \A i \in 1 .. n + 1 : ls[i].at >= lastFlush
    BY LinesType DEF IInv, TypeOK, FileTypeOK
  <1>2. /\ count \in 0 .. checkEveryN - 1 /\ checkEveryN \in Nat \ {0} /\ rollSize \in Nat
        /\ n <= count
    BY LogFileAssumption DEF IInv, TypeOK, FileTypeOK, LossBounded
  <1>3. count' = count + 1 /\ count' \in 0 .. checkEveryN - 1
    BY <1>2 DEF AppendPlain, CheckDue
  <1>4. writenBytes' \in 0 .. rollSize
    BY <1>2, LogFileAssumption
    DEF AppendPlain, TooBig, Exceeds, BytesAfter, AddsBytes, IInv, TypeOK, FileTypeOK
  <1>5. PICK k \in 0 .. n + 1 :
           /\ disk' = [disk EXCEPT ![fileName] = @ \o SubSeq(ls, 1, k)]
           /\ buffered' = SubSeq(ls, k + 1, n + 1)
    BY DEF AppendPlain
  <1> HIDE DEF ls, n
  <1>6. SubSeq(ls, 1, k) \in Seq(Line)
    BY <1>1
  <1>7. disk' \in [Times -> Seq(Line)]
    BY <1>5, <1>6, DiskType DEF IInv, TypeOK, FileTypeOK
  <1>8. /\ buffered' \in Seq(Line) /\ Len(buffered') = n + 1 - k
        /\ \A i \in 1 .. n + 1 - k : buffered'[i] = ls[k + i]
    BY <1>1, <1>5
  <1>9. \A i \in DOMAIN buffered' : buffered'[i].at >= lastFlush
    <2>1. ASSUME NEW i \in 1 .. n + 1 - k
          PROVE  buffered'[i].at >= lastFlush
      <3>1. k + i \in 1 .. n + 1
        BY <1>1
      <3> QED BY <1>1, <1>8, <3>1
    <2> QED BY <1>8, <2>1, SeqFacts
  <1>10. Len(buffered') <= count'
    BY <1>1, <1>2, <1>3, <1>8
  <1> QED BY <1>3, <1>4, <1>7, <1>8, <1>9, <1>10 DEF AppendPlain
-----------------------------------------------------------------------------
\* What append() does to the invariant, and what it leaves in the stream.
LEMMA AppendLineKeeps ==
  ASSUME IInv, NEW len \in Lengths, AppendLine(len)
  PROVE  /\ FileTypeOK' /\ LossBounded' /\ Recent'
         /\ \A i \in DOMAIN buffered' : now - buffered'[i].at <= flushInterval
  <1>1. written < MaxLines /\ written' \in 0 .. MaxLines /\ now' = now
    BY LogFileAssumption DEF AppendLine, IInv, TypeOK, FileTypeOK
  <1>2. /\ now \in Times /\ lastFlush \in Times /\ lastFlush <= now
        /\ checkEveryN \in Nat \ {0} /\ flushInterval \in Nat
        /\ fileName \in Times /\ startPeriod \in Nat /\ opened \in [Times -> Nat]
    BY LogFileAssumption DEF IInv, TypeOK, FileTypeOK, Recent
  <1>3. Times \subseteq Int
    BY LogFileAssumption DEF Times
  <1>4. CASE AppendFull(len) \/ AppendChecked(len)
    <2>1. /\ disk' \in [Times -> Seq(Line)] /\ buffered' = <<>> /\ <<>> \in Seq(Line)
          /\ fileName' \in Times /\ lastFlush' \in Times /\ startPeriod' \in Nat
          /\ writenBytes' \in 0 .. rollSize /\ opened' \in [Times -> Nat]
          /\ count' \in 0 .. checkEveryN - 1
      BY <1>1, <1>4, AppendEmpties
    <2>2. lastFlush' = now
      BY <1>4 DEF AppendFull, AppendChecked, AppendAndRoll, AppendAndFlush, RollFile
    <2>3. Len(buffered') = 0 /\ DOMAIN buffered' = {}
      BY <2>1
    <2>4. FileTypeOK'
      BY <1>1, <1>2, <2>1 DEF FileTypeOK
    <2>5. LossBounded'
      BY <1>2, <2>1, <2>3 DEF LossBounded
    <2>6. Recent'
      BY <1>1, <1>2, <1>3, <2>2, <2>3 DEF Recent
    <2> QED BY <2>3, <2>4, <2>5, <2>6
  <1>5. CASE AppendPlain(len)
    <2>1. /\ disk' \in [Times -> Seq(Line)] /\ buffered' \in Seq(Line)
          /\ Len(buffered') <= count' /\ count' \in 0 .. checkEveryN - 1
          /\ \A i \in DOMAIN buffered' : buffered'[i].at >= lastFlush
          /\ writenBytes' \in 0 .. rollSize
          /\ UNCHANGED <<fileName, lastFlush, startPeriod, opened>>
      BY <1>1, <1>5, AppendPlainKeeps
    <2>2. FileTypeOK'
      BY <1>1, <1>2, <2>1 DEF FileTypeOK
    <2>3. LossBounded'
      BY <1>2, <2>1 DEF LossBounded
    <2>4. Recent'
      BY <1>1, <1>2, <2>1 DEF Recent
    <2>5. now - lastFlush <= flushInterval
      BY <1>2, <1>3, <1>5 DEF AppendPlain, FlushDue, TimeDue
    <2>6. ASSUME NEW i \in DOMAIN buffered'
          PROVE  now - buffered'[i].at <= flushInterval
      <3>1. buffered'[i] \in Line
        BY <2>1, <2>6
      <3>2. buffered'[i].at \in Times
        BY <3>1 DEF Line
      <3>3. buffered'[i].at >= lastFlush
        BY <2>1, <2>6
      <3>4. now \in Int /\ lastFlush \in Int /\ flushInterval \in Int
        BY <1>2, <1>3
      <3>5. buffered'[i].at \in Int
        BY <1>3, <3>2
      <3> QED BY <2>5, <3>3, <3>4, <3>5
    <2> QED BY <2>2, <2>3, <2>4, <2>6
  <1> QED BY <1>4, <1>5 DEF AppendLine

\* LogFile::flush only takes lines out of the stream.
LEMMA FlushKeeps ==
  ASSUME IInv, Flush
  PROVE  FileTypeOK' /\ LossBounded' /\ Recent'
  <1>1. /\ disk' = [disk EXCEPT ![fileName] = @ \o buffered] /\ buffered' = <<>>
        /\ UNCHANGED <<now, fileName, count, lastFlush, startPeriod, writenBytes,
                       written, opened>>
    BY DEF Flush, LinesAfterFlush, WritesLines, ReachDisk
  <1>2. disk' \in [Times -> Seq(Line)]
    BY <1>1, DiskType DEF IInv, TypeOK, FileTypeOK
  <1>3. Len(buffered') = 0 /\ DOMAIN buffered' = {}
    BY <1>1
  <1>4. FileTypeOK'
    BY <1>1, <1>2 DEF IInv, TypeOK, FileTypeOK
  <1>5. LossBounded'
    BY <1>1, <1>3, LogFileAssumption DEF LossBounded, IInv, TypeOK, FileTypeOK
  <1>6. Recent'
    BY <1>1, <1>3 DEF Recent, IInv
  <1> QED BY <1>4, <1>5, <1>6

\* The clock runs ahead of the last flush.
LEMMA TickKeeps ==
  ASSUME IInv, Tick
  PROVE  FileTypeOK' /\ LossBounded' /\ Recent'
  <1>1. /\ now \in Times /\ lastFlush \in Times /\ lastFlush <= now
        /\ now' \in Times /\ now < now' /\ Times \subseteq Int
    BY LogFileAssumption DEF IInv, TypeOK, FileTypeOK, Recent, Tick, Times
  <1>2. UNCHANGED fileVars
    BY DEF Tick
  <1>3. FileTypeOK'
    BY <1>1, <1>2 DEF IInv, TypeOK, FileTypeOK, fileVars
  <1>4. LossBounded'
    BY <1>2 DEF IInv, LossBounded, fileVars
  <1>5. Recent'
    <2>1. lastFlush' = lastFlush /\ buffered' = buffered
      BY <1>2 DEF fileVars
    <2>2. lastFlush \in Int /\ now \in Int /\ now' \in Int /\ lastFlush <= now /\ now < now'
      BY <1>1
    <2>3. lastFlush <= now'
      BY <2>2
    <2> QED BY <2>1, <2>3 DEF IInv, Recent
  <1> QED BY <1>3, <1>4, <1>5

\* A step outside LogFile.
LEMMA FileUnchanged ==
  ASSUME IInv, UNCHANGED <<now, fileVars>>
  PROVE  FileTypeOK' /\ LossBounded' /\ Recent'
  BY DEF IInv, TypeOK, FileTypeOK, LossBounded, Recent, fileVars

\* A macro moves its thread to its next step and changes nothing else.
LEMMA MacroStep ==
  ASSUME NEW t \in Threads, LogMacro(t)
  PROVE  /\ \E to \in {"line", "fatal", "undefined"} : pc' = [pc EXCEPT ![t] = to]
         /\ UNCHANGED <<now, fileVars, thresholdLevel, fatalLine, aborted>>
  <1>1. CASE \E level \in LogLevel : Statement(t, level)
    BY <1>1 DEF Statement, Goto
  <1>2. CASE \E m \in DOMAIN Untested : ErrnoAsString(t, m)
    BY <1>2 DEF ErrnoAsString, Goto
  <1> QED BY <1>1, <1>2 DEF LogMacro, Tested, Untested, LogLevel

\* Every step keeps the invariant, and an append leaves only fresh lines.
LEMMA StepKeeps ==
  ASSUME IInv, [Next]_vars
  PROVE  /\ IInv'
         /\ written' # written =>
               \A i \in DOMAIN buffered' : now - buffered'[i].at <= flushInterval
  <1> DEFINE Kept == FileTypeOK' /\ LossBounded' /\ Recent'
             Fresh == written' # written =>
                        \A i \in DOMAIN buffered' : now - buffered'[i].at <= flushInterval
             LogTypes == /\ thresholdLevel \in LogLevel
                         /\ pc \in [Threads -> Steps]
                         /\ fatalLine \in [Threads -> 0 .. MaxLines]
                         /\ aborted \in BOOLEAN
  <1>1. LogTypes /\ written \in 0 .. MaxLines /\ MaxLines \in Nat
    BY LogFileAssumption DEF IInv, TypeOK, FileTypeOK
  <1>2. SUFFICES Kept /\ Fresh /\ LogTypes'
    BY DEF IInv, TypeOK
  <1>3. ASSUME NEW t \in Threads, LogMacro(t)
        PROVE  Kept /\ Fresh /\ LogTypes'
    <2>1. Kept
      BY <1>3, MacroStep, FileUnchanged
    <2> QED BY <1>1, <1>3, <2>1, MacroStep DEF Steps, fileVars
  <1>4. ASSUME NEW t \in Threads, Output(t)
        PROVE  Kept /\ Fresh /\ LogTypes'
    <2>1. PICK len \in Lengths : AppendLine(len)
      BY <1>4 DEF Output
    <2>2. Kept /\ Fresh
      BY <2>1, AppendLineKeeps
    <2>3. written + 1 \in 0 .. MaxLines
      BY <1>1, <2>1 DEF AppendLine
    <2>4. pc' \in [Threads -> Steps]
      BY <1>1, <1>4 DEF Output, Goto, Steps
    <2>5. fatalLine' \in [Threads -> 0 .. MaxLines]
      BY <1>1, <1>4, <2>3 DEF Output
    <2> QED BY <1>1, <1>4, <2>2, <2>4, <2>5 DEF Output
  <1>5. ASSUME NEW t \in Threads, FatalFlush(t)
        PROVE  Kept /\ Fresh /\ LogTypes'
    <2>1. Flush
      BY <1>5 DEF FatalFlush
    <2>2. Kept
      BY <2>1, FlushKeeps
    <2> QED BY <1>1, <1>5, <2>1, <2>2 DEF FatalFlush, Flush, Goto, Steps
  <1>6. ASSUME NEW t \in Threads, Abort(t)
        PROVE  Kept /\ Fresh /\ LogTypes'
    <2>1. Kept
      BY <1>6, FileUnchanged DEF Abort
    <2> QED BY <1>1, <1>6, <2>1 DEF Abort, fileVars
  <1>7. ASSUME SetLevel
        PROVE  Kept /\ Fresh /\ LogTypes'
    <2>1. Kept
      BY <1>7, FileUnchanged DEF SetLevel
    <2> QED BY <1>1, <1>7, <2>1 DEF SetLevel, fileVars
  <1>8. ASSUME Tick, UNCHANGED logVars
        PROVE  Kept /\ Fresh /\ LogTypes'
    <2>1. Kept
      BY <1>8, TickKeeps
    <2> QED BY <1>1, <1>8, <2>1 DEF Tick, fileVars, logVars
  <1>9. ASSUME UNCHANGED vars
        PROVE  Kept /\ Fresh /\ LogTypes'
    <2>1. Kept
      BY <1>9, FileUnchanged DEF vars
    <2> QED BY <1>1, <1>9, <2>1 DEF vars, logVars, fileVars
  <1> QED BY <1>3, <1>4, <1>5, <1>6, <1>7, <1>8, <1>9 DEF Next
-----------------------------------------------------------------------------
\* The invariant holds in every reachable state.
THEOREM LogInvariance == Spec => []IInv
  <1>1. Init => IInv
    BY InitTypes
  <1>2. IInv /\ [Next]_vars => IInv'
    BY StepKeeps
  <1> QED BY <1>1, <1>2, PTL DEF Spec

\* Every variable of Log and LogFile keeps its type: the line counter of
\* append_unlocked stays below checkEveryN and its byte counter below rollSize.
THEOREM LogTypeCorrect == Spec => []TypeOK
  BY LogInvariance, PTL DEF IInv

\* A process that dies loses fewer than checkEveryN lines.
THEOREM CrashLosesFew == Spec => []LossBounded
  BY LogInvariance, PTL DEF IInv

\* append() leaves no line in the stream that is older than flushInterval.
THEOREM AppendLeavesNothingStale == Spec => NothingStale
  <1>1. IInv /\ [Next]_vars =>
          [written' # written =>
             \A i \in DOMAIN buffered' : now - buffered'[i].at <= flushInterval]_<<now, fileVars>>
    BY StepKeeps
  <1> QED BY <1>1, LogInvariance, PTL DEF Spec, NothingStale
-----------------------------------------------------------------------------
(* A FATAL line is on the disk before the abort *)

Numbers(ls) == {ls[i].no : i \in DOMAIN ls}

\* A line appended is on the disk or in the stream; a thread's FATAL line has
\* been appended.
KeptInv == 1 .. written \subseteq OnDisk \union Numbers(buffered)
FatalInv == \A t \in Threads : fatalLine[t] <= written

FInv == KeptInv /\ FatalInv /\ FatalOnDisk

\* The disk only grows, by the lines written to one of its files.
LEMMA DiskGrows ==
  ASSUME disk \in [Times -> Seq(Line)], fileName \in Times, NEW ls \in Seq(Line),
         disk' = [disk EXCEPT ![fileName] = @ \o ls]
  PROVE  OnDisk \subseteq OnDisk' /\ Numbers(ls) \subseteq OnDisk'
  <1>1. disk'[fileName] = disk[fileName] \o ls /\ disk[fileName] \in Seq(Line)
    OBVIOUS
  <1>2. \A f \in Times : Numbers(disk[f]) \subseteq Numbers(disk'[f])
    <2> TAKE f \in Times
    <2>1. CASE f = fileName
      BY <1>1, <2>1, SMTT(30) DEF Numbers
    <2>2. CASE f # fileName
      BY <2>2 DEF Numbers
    <2> QED BY <2>1, <2>2
  <1>3. Numbers(ls) \subseteq Numbers(disk'[fileName])
    <2> SUFFICES ASSUME NEW i \in DOMAIN ls
                 PROVE  ls[i].no \in Numbers(disk'[fileName])
      BY DEF Numbers
    <2>1. ls[i] = disk'[fileName][Len(disk[fileName]) + i]
      BY <1>1
    <2>2. Len(disk[fileName]) + i \in DOMAIN disk'[fileName]
      BY <1>1
    <2> QED BY <2>1, <2>2 DEF Numbers
  <1>4. /\ OnDisk = UNION {Numbers(disk[f]) : f \in Times}
        /\ OnDisk' = UNION {Numbers(disk'[f]) : f \in Times}
    BY DEF OnDisk, Numbers
  <1> QED BY <1>2, <1>3, <1>4

\* The lines of an append are those of the stream and a new one.
LEMMA LinesNumbers ==
  ASSUME IInv, NEW len \in Lengths
  PROVE  Numbers(buffered) \union {written + 1} \subseteq Numbers(Lines(len))
  <1>1. buffered \in Seq(Line)
    BY DEF IInv, TypeOK, FileTypeOK
  <1>2. \A i \in DOMAIN buffered :
           i \in DOMAIN Lines(len) /\ Lines(len)[i] = buffered[i]
    BY <1>1 DEF Lines
  <1>3. /\ Len(buffered) + 1 \in DOMAIN Lines(len)
        /\ Lines(len)[Len(buffered) + 1] = NewLine(len)
    BY <1>1 DEF Lines
  <1> QED BY <1>2, <1>3 DEF Numbers, NewLine

\* Cutting a sequence in two loses no line.
LEMMA CutNumbers ==
  ASSUME NEW ls \in Seq(Line), NEW k \in 0 .. Len(ls)
  PROVE  Numbers(ls) \subseteq Numbers(SubSeq(ls, 1, k))
                                 \union Numbers(SubSeq(ls, k + 1, Len(ls)))
  <1> SUFFICES ASSUME NEW i \in DOMAIN ls
               PROVE  ls[i].no \in Numbers(SubSeq(ls, 1, k))
                                     \union Numbers(SubSeq(ls, k + 1, Len(ls)))
    BY DEF Numbers
  <1>1. i \in 1 .. Len(ls) /\ Len(ls) \in Nat
    OBVIOUS
  <1>2. CASE i <= k
    <2>1. i \in DOMAIN SubSeq(ls, 1, k) /\ SubSeq(ls, 1, k)[i] = ls[i]
      BY <1>1, <1>2
    <2> QED BY <2>1 DEF Numbers
  <1>3. CASE i > k
    <2>1. /\ i - k \in DOMAIN SubSeq(ls, k + 1, Len(ls))
          /\ SubSeq(ls, k + 1, Len(ls))[i - k] = ls[i]
      BY <1>1, <1>3
    <2> QED BY <2>1 DEF Numbers
  <1> QED BY <1>1, <1>2, <1>3

\* append() keeps every line, those on the disk there.
LEMMA AppendKeepsLines ==
  ASSUME IInv, KeptInv, NEW len \in Lengths, AppendLine(len)
  PROVE  KeptInv' /\ OnDisk \subseteq OnDisk'
  <1>1. /\ written < MaxLines /\ written' = written + 1 /\ written \in Nat
        /\ Len(buffered) \in Nat
    BY LogFileAssumption DEF AppendLine, IInv, TypeOK, FileTypeOK
  <1>2. Lines(len) \in Seq(Line) /\ Len(Lines(len)) = Len(buffered) + 1
    BY <1>1, LinesType
  <1>3. disk \in [Times -> Seq(Line)] /\ fileName \in Times
    BY DEF IInv, TypeOK, FileTypeOK
  <1>4. 1 .. written' \subseteq OnDisk \union Numbers(Lines(len))
    <2>1. 1 .. written' = (1 .. written) \union {written + 1}
      BY <1>1
    <2> QED BY <2>1, LinesNumbers DEF KeptInv
  <1>5. SUFFICES /\ OnDisk \subseteq OnDisk'
                 /\ Numbers(Lines(len)) \subseteq OnDisk' \union Numbers(buffered')
    BY <1>4 DEF KeptInv, Numbers
  <1>6. CASE AppendFull(len) \/ AppendChecked(len)
    <2>1. disk' = [disk EXCEPT ![fileName] = @ \o Lines(len)]
      BY <1>6 DEF AppendFull, AppendChecked, AppendAndRoll, AppendAndFlush, RollFile,
                  ReachDisk, DiskAfterRoll, Appending
    <2> QED BY <1>2, <1>3, <2>1, DiskGrows
  <1>7. CASE AppendPlain(len)
    <2>1. PICK k \in 0 .. Len(buffered) + 1 :
             /\ disk' = [disk EXCEPT ![fileName] = @ \o SubSeq(Lines(len), 1, k)]
             /\ buffered' = SubSeq(Lines(len), k + 1, Len(buffered) + 1)
      BY <1>7 DEF AppendPlain
    <2>2. SubSeq(Lines(len), 1, k) \in Seq(Line)
      BY <1>1, <1>2, <2>1
    <2>3. /\ OnDisk \subseteq OnDisk'
          /\ Numbers(SubSeq(Lines(len), 1, k)) \subseteq OnDisk'
      BY <1>3, <2>1, <2>2, DiskGrows
    <2>4. Numbers(Lines(len)) \subseteq Numbers(SubSeq(Lines(len), 1, k))
                                          \union Numbers(buffered')
      BY <1>1, <1>2, <2>1, CutNumbers
    <2> QED BY <2>3, <2>4
  <1> QED BY <1>6, <1>7 DEF AppendLine

\* flush() puts every line on the disk.
LEMMA FlushKeepsLines ==
  ASSUME IInv, KeptInv, Flush
  PROVE  1 .. written' \subseteq OnDisk' /\ OnDisk \subseteq OnDisk'
  <1>1. /\ disk \in [Times -> Seq(Line)] /\ fileName \in Times /\ buffered \in Seq(Line)
        /\ disk' = [disk EXCEPT ![fileName] = @ \o buffered] /\ written' = written
    BY DEF IInv, TypeOK, FileTypeOK, Flush, LinesAfterFlush, WritesLines, ReachDisk
  <1>2. OnDisk \subseteq OnDisk' /\ Numbers(buffered) \subseteq OnDisk'
    BY <1>1, DiskGrows
  <1> QED BY <1>1, <1>2 DEF KeptInv

\* A step that writes nothing.
LEMMA LinesUnchanged ==
  ASSUME KeptInv, UNCHANGED fileVars
  PROVE  KeptInv' /\ OnDisk \subseteq OnDisk' /\ written' = written
  BY DEF KeptInv, OnDisk, Numbers, fileVars

LEMMA StepKeepsFatal == IInv /\ FInv /\ [Next]_vars => FInv'
  <1> SUFFICES ASSUME IInv, FInv, [Next]_vars PROVE FInv'
    OBVIOUS
  <1> USE DEF FInv
  <1>1. /\ pc \in [Threads -> Steps]
        /\ fatalLine \in [Threads -> Nat] /\ written \in Nat
    BY LogFileAssumption DEF IInv, TypeOK, FileTypeOK
  \* A step that neither moves a thread to its abort nor gives it a FATAL line.
  <1>2. ASSUME KeptInv', OnDisk \subseteq OnDisk', written' = written,
               fatalLine' = fatalLine,
               \A t \in Threads : pc'[t] = "abort" => pc[t] = "abort"
        PROVE  FInv'
    BY <1>2 DEF FatalInv, FatalOnDisk
  <1>3. ASSUME NEW t \in Threads, LogMacro(t) PROVE FInv'
    <2>1. PICK to \in {"line", "fatal", "undefined"} : pc' = [pc EXCEPT ![t] = to]
      BY <1>3, MacroStep
    <2>2. \A u \in Threads : pc'[u] = "abort" => pc[u] = "abort"
      BY <1>1, <2>1
    <2> QED BY <1>2, <1>3, <2>2, MacroStep, LinesUnchanged
  <1>4. ASSUME NEW t \in Threads, Output(t) PROVE FInv'
    <2>1. PICK len \in Lengths : AppendLine(len)
      BY <1>4 DEF Output
    <2>2. KeptInv' /\ OnDisk \subseteq OnDisk' /\ written' = written + 1
      BY <2>1, AppendKeepsLines DEF AppendLine
    <2>3. /\ \A u \in Threads : pc'[u] = "abort" => u # t /\ pc[u] = "abort"
          /\ \A u \in Threads : fatalLine'[u] \in {fatalLine[u], written + 1}
          /\ \A u \in Threads : u # t => fatalLine'[u] = fatalLine[u]
      BY <1>1, <1>4 DEF Output, Goto
    <2>4. FatalInv'
      BY <1>1, <2>2, <2>3 DEF FatalInv
    <2>5. FatalOnDisk'
      BY <2>2, <2>3 DEF FatalOnDisk
    <2> QED BY <2>2, <2>4, <2>5
  <1>5. ASSUME NEW t \in Threads, FatalFlush(t) PROVE FInv'
    <2>1. /\ Flush /\ fatalLine' = fatalLine /\ written' = written
          /\ \A u \in Threads : pc'[u] = "abort" => u = t \/ pc[u] = "abort"
      BY <1>1, <1>5 DEF FatalFlush, Flush, Goto
    <2>2. 1 .. written' \subseteq OnDisk' /\ OnDisk \subseteq OnDisk'
      BY <2>1, FlushKeepsLines
    <2>3. KeptInv'
      BY <2>2 DEF KeptInv
    <2>4. FatalInv'
      BY <2>1 DEF FatalInv
    <2>5. FatalOnDisk'
      <3> SUFFICES ASSUME NEW u \in Threads PROVE 1 .. fatalLine[u] \subseteq OnDisk'
        BY <2>1 DEF FatalOnDisk
      <3>1. fatalLine[u] \in Nat /\ fatalLine[u] <= written
        BY <1>1 DEF FatalInv
      <3>2. 1 .. fatalLine[u] \subseteq 1 .. written
        BY <1>1, <3>1
      <3> QED BY <2>1, <2>2, <3>2
    <2> QED BY <2>3, <2>4, <2>5
  <1>6. ASSUME NEW t \in Threads, Abort(t) PROVE FInv'
    BY <1>2, <1>6, LinesUnchanged DEF Abort
  <1>7. ASSUME SetLevel PROVE FInv'
    BY <1>2, <1>7, LinesUnchanged DEF SetLevel
  <1>8. ASSUME Tick, UNCHANGED logVars PROVE FInv'
    BY <1>2, <1>8, LinesUnchanged DEF Tick, logVars
  <1>9. ASSUME UNCHANGED vars PROVE FInv'
    BY <1>2, <1>9, LinesUnchanged DEF vars, logVars
  <1> QED BY <1>3, <1>4, <1>5, <1>6, <1>7, <1>8, <1>9 DEF Next

\* When ~Log is about to abort, its FATAL line is on the disk and so is every
\* line appended before it, whatever other threads log at the same time.
THEOREM FatalReachesDisk == Spec => []FatalOnDisk
  <1>1. Init => FInv
    BY DEF Init, FileInit, FInv, KeptInv, FatalInv, FatalOnDisk
  <1> QED BY <1>1, LogInvariance, StepKeepsFatal, PTL DEF Spec, FInv
-----------------------------------------------------------------------------
(* Sequences of any length *)

\* The numbers have no endless descent.
LEMMA LessIsWellFounded == IsWellFoundedOn({ss \in Nat \X Nat : ss[1] < ss[2]}, Nat)
  BY NatLessThanWellFounded DEF OpToRel

\* So a set of numbers that is not empty has a least one.  What must hold at
\* every length of a sequence is proved below from the least counterexample.
LEMMA LeastExists ==
  ASSUME NEW S \in SUBSET Nat, S # {}
  PROVE  \E k \in S : \A j \in S : k <= j
  <1> DEFINE R == {ss \in Nat \X Nat : ss[1] < ss[2]}
  <1>1. PICK k \in S : \A j \in S : <<j, k>> \notin R
    <2>1. IsWellFoundedOn(R, Nat)
      BY LessIsWellFounded
    <2> HIDE DEF R
    <2> QED BY <2>1, WFMin
  <1>2. ASSUME NEW j \in S PROVE k <= j
    <2>1. <<j, k>> \notin R
      BY <1>1
    <2> QED BY <2>1
  <1> QED BY <1>2

\* FlattenSeq concatenates from left to right: f[i] is what the first i
\* sequences make.
LEMMA FlattenUnfolds ==
  ASSUME NEW seqs, Len(seqs) \in Nat \ {0}
  PROVE  \E f : /\ f = [i \in 1 .. Len(seqs) |-> IF i = 1 THEN seqs[i] ELSE f[i - 1] \o seqs[i]]
                /\ FlattenSeq(seqs) = f[Len(seqs)]
  <1> DEFINE n == Len(seqs)
             Flattens(g, m) == g = [i \in 1 .. m |-> IF i = 1 THEN seqs[i] ELSE g[i - 1] \o seqs[i]]
             bad == {m \in 1 .. n : ~\E g : Flattens(g, m)}
  <1>1. bad = {}
    <2> SUFFICES ASSUME bad # {} PROVE FALSE
      OBVIOUS
    <2>1. bad \subseteq Nat
      <3> HIDE DEF Flattens
      <3> QED OBVIOUS
    <2> HIDE DEF bad
    <2>2. PICK m \in bad : \A j \in bad : m <= j
      BY <2>1, LeastExists
    <2>3. m \in 1 .. n /\ ~\E g : Flattens(g, m)
      BY <2>2 DEF bad
    <2>4. CASE m = 1
      <3> DEFINE g == [i \in 1 .. 1 |-> seqs[i]]
      <3>1. Flattens(g, m)
        BY <2>4
      <3> QED BY <2>3, <3>1
    <2>5. CASE m # 1
      <3>1. m - 1 \in 1 .. n /\ m - 1 \notin bad
        BY <2>2, <2>3, <2>5
      <3>2. PICK g : Flattens(g, m - 1)
        BY <3>1 DEF bad
      <3> DEFINE h == [i \in 1 .. m |-> IF i = m THEN g[m - 1] \o seqs[m] ELSE g[i]]
      <3>3. Flattens(h, m)
        <4> SUFFICES ASSUME NEW i \in 1 .. m
                     PROVE  h[i] = IF i = 1 THEN seqs[i] ELSE h[i - 1] \o seqs[i]
          OBVIOUS
        <4>1. CASE i = m
          <5>1. m \in 1 .. m /\ m - 1 \in 1 .. m /\ m - 1 # m
            BY <2>3, <2>5
          <5>2. h[m - 1] = g[m - 1]
            BY <5>1
          <5>3. h[m] = g[m - 1] \o seqs[m]
            BY <5>1
          <5> HIDE DEF h
          <5> QED BY <2>5, <4>1, <5>2, <5>3
        <4>2. CASE i # m
          <5>1. /\ i \in 1 .. m - 1 /\ h[i] = g[i]
                /\ i # 1 => i - 1 \in 1 .. m /\ i - 1 # m /\ h[i - 1] = g[i - 1]
            BY <2>3, <4>2
          <5>2. g[i] = IF i = 1 THEN seqs[i] ELSE g[i - 1] \o seqs[i]
            BY <3>2, <5>1
          <5> QED BY <5>1, <5>2
        <4> QED BY <4>1, <4>2
      <3> QED BY <2>3, <3>3
    <2> QED BY <2>4, <2>5
  <1>2. \E g : Flattens(g, n)
    <2>1. n \in 1 .. n
      OBVIOUS
    <2> QED BY <1>1, <2>1
  <1> DEFINE f == CHOOSE g : Flattens(g, n)
  <1>3. Flattens(f, n)
    BY <1>2
  <1>4. FlattenSeq(seqs) = f[n]
    BY SMTT(30) DEF FlattenSeq
  <1> QED BY <1>3, <1>4

-----------------------------------------------------------------------------
(* The lines, in order *)

\* ls are the lines after the n-th.
Follows(ls, n) == \A i \in DOMAIN ls : ls[i].no = n + i

\* s[f] lines are in the files named before f, and none in a file named after
\* the one that is open.
Counts(s) ==
  /\ s \in [0 .. MaxTime + 1 -> Nat] /\ s[0] = 0
  /\ \A f \in Times : s[f + 1] = s[f] + Len(disk[f]) /\ Follows(disk[f], s[f])
  /\ \A t \in 0 .. MaxTime + 1 : t > fileName => s[t] + Len(buffered) = written

\* The open file has the latest name, and the stream goes on where it ends.
OrderInv == /\ fileName <= now
            /\ Follows(buffered, written - Len(buffered))
            /\ \E s : Counts(s)

\* A sequence is what is before a cut and what is after it.
LEMMA CutFacts ==
  ASSUME NEW S, NEW ls \in Seq(S), NEW k \in 0 .. Len(ls)
  PROVE  /\ SubSeq(ls, 1, k) \in Seq(S) /\ SubSeq(ls, k + 1, Len(ls)) \in Seq(S)
         /\ Len(SubSeq(ls, 1, k)) = k /\ Len(SubSeq(ls, k + 1, Len(ls))) = Len(ls) - k
         /\ ls = SubSeq(ls, 1, k) \o SubSeq(ls, k + 1, Len(ls))
  <1> DEFINE n == Len(ls)
             out == SubSeq(ls, 1, k)
             rest == SubSeq(ls, k + 1, n)
  <1>1. /\ n \in Nat /\ DOMAIN ls = 1 .. n
        /\ out \in Seq(S) /\ Len(out) = k /\ \A j \in 1 .. k : out[j] = ls[j]
        /\ rest \in Seq(S) /\ Len(rest) = n - k /\ \A j \in 1 .. n - k : rest[j] = ls[k + j]
    OBVIOUS
  <1> HIDE DEF n, out, rest
  <1>2. /\ out \o rest \in Seq(S) /\ Len(out \o rest) = n
        /\ \A j \in 1 .. n : (out \o rest)[j] = ls[j]
    <2>1. /\ out \o rest \in Seq(S) /\ Len(out \o rest) = Len(out) + Len(rest)
          /\ \A j \in 1 .. Len(out) + Len(rest) :
                (out \o rest)[j] = IF j <= Len(out) THEN out[j] ELSE rest[j - Len(out)]
      BY <1>1, ConcatProperties
    <2>2. Len(out) + Len(rest) = n
      BY <1>1
    <2>3. ASSUME NEW j \in 1 .. n
          PROVE  (IF j <= k THEN out[j] ELSE rest[j - k]) = ls[j]
      <3>1. CASE j <= k
        BY <1>1, <3>1
      <3>2. CASE ~(j <= k)
        <4>1. j - k \in 1 .. n - k /\ k + (j - k) = j
          BY <1>1, <3>2
        <4> QED BY <1>1, <3>2, <4>1
      <3> QED BY <3>1, <3>2
    <2> QED BY <1>1, <2>1, <2>2, <2>3
  <1>3. ls \in Seq(S) /\ Len(ls) = n
    BY DEF n
  <1>4. ls = out \o rest
    BY <1>2, <1>3, SeqEqual
  <1> QED BY <1>1, <1>4 DEF n, out, rest

\* Two runs of lines make one when the second is numbered on from the first.
LEMMA FollowsConcat ==
  ASSUME NEW s \in Seq(Line), NEW t \in Seq(Line), NEW n \in Int
  PROVE  Follows(s \o t, n) <=> Follows(s, n) /\ Follows(t, n + Len(s))
  <1>1. /\ s \o t \in Seq(Line) /\ Len(s \o t) = Len(s) + Len(t)
        /\ \A j \in 1 .. Len(s) + Len(t) :
              (s \o t)[j] = IF j <= Len(s) THEN s[j] ELSE t[j - Len(s)]
    BY ConcatProperties
  <1>2. /\ Len(s) \in Nat /\ Len(t) \in Nat /\ DOMAIN s = 1 .. Len(s) /\ DOMAIN t = 1 .. Len(t)
        /\ DOMAIN (s \o t) = 1 .. Len(s) + Len(t)
    BY <1>1, SeqFacts
  <1> DEFINE r == s \o t
  <1> HIDE DEF r
  <1>3. \A j \in 1 .. Len(s) : r[j] = s[j] /\ j \in 1 .. Len(s) + Len(t)
    BY <1>1, <1>2 DEF r
  <1>4. \A j \in 1 .. Len(t) : r[Len(s) + j] = t[j] /\ Len(s) + j \in 1 .. Len(s) + Len(t)
    <2> TAKE j \in 1 .. Len(t)
    <2>1. Len(s) + j \in 1 .. Len(s) + Len(t) /\ ~(Len(s) + j <= Len(s)) /\ Len(s) + j - Len(s) = j
      BY <1>2
    <2> QED BY <1>1, <2>1 DEF r
  <1>5. ASSUME Follows(r, n) PROVE Follows(s, n) /\ Follows(t, n + Len(s))
    <2>1. \A j \in 1 .. Len(s) + Len(t) : r[j].no = n + j
      BY <1>2, <1>5 DEF Follows, r
    <2>2. \A j \in 1 .. Len(t) : n + (Len(s) + j) = n + Len(s) + j
      BY <1>2
    <2> QED BY <1>2, <1>3, <1>4, <2>1, <2>2 DEF Follows
  <1>6. ASSUME Follows(s, n), Follows(t, n + Len(s)) PROVE Follows(r, n)
    <2> SUFFICES ASSUME NEW j \in 1 .. Len(s) + Len(t) PROVE r[j].no = n + j
      BY <1>2 DEF Follows, r
    <2>1. CASE j <= Len(s)
      <3>1. j \in 1 .. Len(s)
        BY <1>2, <2>1
      <3> QED BY <1>2, <1>3, <1>6, <3>1 DEF Follows
    <2>2. CASE ~(j <= Len(s))
      <3>1. /\ j - Len(s) \in 1 .. Len(t) /\ Len(s) + (j - Len(s)) = j
            /\ n + Len(s) + (j - Len(s)) = n + j
        BY <1>2, <2>2
      <3>2. t[j - Len(s)].no = n + Len(s) + (j - Len(s))
        BY <1>2, <1>6, <3>1 DEF Follows
      <3> QED BY <1>4, <3>1, <3>2
    <2> QED BY <2>1, <2>2
  <1> QED BY <1>5, <1>6 DEF r

\* Lines out that are numbered on from the disk are written to the open file,
\* and a file of this second or a later one than the old is the open file then.
LEMMA WritesInOrder ==
  ASSUME FileTypeOK, OrderInv, NEW out \in Seq(Line), buffered' \in Seq(Line),
         Follows(out \o buffered', written - Len(buffered)),
         written' - Len(buffered') = written - Len(buffered) + Len(out), written' \in Nat,
         disk' = [disk EXCEPT ![fileName] = @ \o out],
         fileName' \in Times, fileName <= fileName', fileName' <= now'
  PROVE  OrderInv'
  <1> DEFINE total == written - Len(buffered)
             k == Len(out)
  <1>1. /\ k \in Nat /\ written \in Nat /\ Len(buffered) \in Nat /\ Len(buffered') \in Nat
        /\ disk \in [Times -> Seq(Line)] /\ fileName \in Times /\ MaxTime \in Nat
    BY LogFileAssumption, SMTT(30) DEF FileTypeOK
  <1>2. Times = 0 .. MaxTime
    BY DEF Times
  <1>3. total \in Int /\ written' - Len(buffered') = total + k
    BY <1>1
  <1>4. Follows(out, total) /\ Follows(buffered', written' - Len(buffered'))
    BY <1>3, FollowsConcat
  <1>5. PICK s : Counts(s)
    BY DEF OrderInv
  <1> HIDE DEF total, k
  <1>6. /\ s \in [0 .. MaxTime + 1 -> Nat] /\ s[0] = 0
        /\ \A f \in Times : s[f + 1] = s[f] + Len(disk[f]) /\ Follows(disk[f], s[f])
    BY <1>5 DEF Counts
  <1>7. ASSUME NEW t \in 0 .. MaxTime + 1, t > fileName
        PROVE  s[t] = total
    <2>1. s[t] + Len(buffered) = written
      BY <1>5, <1>7 DEF Counts
    <2>2. s[t] \in Nat
      BY <1>6
    <2>3. \A a, b, c \in Nat : a + b = c => a = c - b
      OBVIOUS
    <2>4. s[t] = written - Len(buffered)
      BY <1>1, <2>1, <2>2, <2>3
    <2> QED BY <2>4 DEF total
  <1>8. PICK s2 : s2 = [t \in 0 .. MaxTime + 1 |-> IF t <= fileName THEN s[t] ELSE s[t] + k]
    OBVIOUS
  <1>9. ASSUME NEW t \in 0 .. MaxTime + 1
        PROVE  /\ s[t] \in Nat
               /\ t <= fileName => s2[t] = s[t]
               /\ t > fileName => s2[t] = s[t] + k
    <2>1. s[t] \in Nat
      BY <1>6
    <2>2. t \in Nat /\ fileName \in Nat
      BY <1>1, <1>2
    <2>3. s2[t] = IF t <= fileName THEN s[t] ELSE s[t] + k
      BY <1>8
    <2> QED BY <2>1, <2>2, <2>3
  <1>10. s2 \in [0 .. MaxTime + 1 -> Nat]
    <2>1. ASSUME NEW t \in 0 .. MaxTime + 1
          PROVE  (IF t <= fileName THEN s[t] ELSE s[t] + k) \in Nat
      BY <1>1, <1>9, SMTT(30)
    <2> QED BY <1>8, <2>1
  <1>11. s2[0] = 0
    <2>1. 0 \in 0 .. MaxTime + 1 /\ 0 <= fileName
      BY <1>1, <1>2
    <2> QED BY <1>6, <1>9, <2>1
  <1>12. ASSUME NEW f \in Times
         PROVE  s2[f + 1] = s2[f] + Len(disk'[f]) /\ Follows(disk'[f], s2[f])
    <2>1. /\ f \in 0 .. MaxTime + 1 /\ f + 1 \in 0 .. MaxTime + 1
          /\ f \in Nat /\ fileName \in Nat
      BY <1>1, <1>2
    <2>2. s[f + 1] = s[f] + Len(disk[f]) /\ Follows(disk[f], s[f])
      BY <1>6
    <2>3. s[f] \in Nat /\ s[f + 1] \in Nat
      BY <1>9, <2>1
    <2>4. disk[f] \in Seq(Line)
      BY <1>1
    <2>5. Len(disk[f]) \in Nat
      BY <2>4
    <2>6. CASE f < fileName
      <3>1. disk'[f] = disk[f]
        BY <1>1, <2>1, <2>6
      <3>2. f <= fileName /\ f + 1 <= fileName
        BY <2>1, <2>6
      <3>3. s2[f] = s[f] /\ s2[f + 1] = s[f + 1]
        BY <1>9, <2>1, <3>2
      <3> QED BY <2>2, <3>1, <3>3
    <2>7. CASE f > fileName
      <3>1. s[f] = total
        BY <1>7, <2>1, <2>7
      <3>2. f + 1 > fileName
        BY <2>1, <2>7
      <3>3. s[f + 1] = total
        BY <1>7, <2>1, <3>2
      <3>4. Len(disk[f]) = 0
        BY <1>3, <2>2, <2>5, <3>1, <3>3
      <3>5. disk'[f] = disk[f]
        BY <1>1, <2>1, <2>7
      <3>6. s2[f] = s[f] + k
        BY <1>9, <2>1, <2>7
      <3>7. s2[f + 1] = s[f + 1] + k
        BY <1>9, <2>1, <3>2
      <3>8. DOMAIN disk[f] = {}
        BY <2>4, <3>4
      <3>9. Follows(disk'[f], s2[f])
        <4>1. Follows(disk[f], s2[f])
          BY <3>8 DEF Follows
        <4> QED BY <3>5, <4>1
      <3>10. s2[f + 1] = s2[f] + Len(disk'[f])
        <4>1. Len(disk'[f]) = 0
          BY <3>4, <3>5
        <4>2. s2[f] = total + k /\ s2[f + 1] = total + k
          BY <3>1, <3>3, <3>6, <3>7
        <4>3. total + k \in Int
          BY <1>1, <1>3
        <4> QED BY <4>1, <4>2, <4>3
      <3> QED BY <3>9, <3>10
    <2>8. CASE f = fileName
      <3>1. disk'[f] = disk[f] \o out
        BY <1>1, <2>8
      <3>2. s2[f] = s[f]
        BY <1>9, <2>1, <2>8
      <3>3. f + 1 > fileName
        BY <2>1, <2>8
      <3>4. s2[f + 1] = s[f + 1] + k
        BY <1>9, <2>1, <3>3
      <3>5. s[f + 1] = total
        BY <1>7, <2>1, <3>3
      <3>6. Len(disk[f] \o out) = Len(disk[f]) + k
        BY <2>4, ConcatProperties DEF k
      <3>7. Follows(disk[f] \o out, s[f])
        <4>1. total = s[f] + Len(disk[f])
          BY <2>2, <3>5
        <4>2. Follows(out, s[f] + Len(disk[f]))
          BY <1>4, <4>1
        <4>3. s[f] \in Int
          BY <2>3
        <4> QED BY <2>2, <2>4, <4>2, <4>3, FollowsConcat
      <3>8. s2[f + 1] = s2[f] + Len(disk[f] \o out)
        BY <1>1, <2>2, <2>3, <2>5, <3>2, <3>4, <3>6, SMTT(30)
      <3> QED BY <3>1, <3>2, <3>7, <3>8
    <2> QED BY <2>1, <2>6, <2>7, <2>8
  <1>13. ASSUME NEW t \in 0 .. MaxTime + 1, t > fileName'
         PROVE  s2[t] + Len(buffered') = written'
    <2>1. t > fileName
      BY <1>1, <1>2, <1>13
    <2>2. s2[t] = s[t] + k /\ s[t] = total
      BY <1>7, <1>9, <2>1
    <2>3. \A a, b, c \in Int : a - b = c => c + b = a
      OBVIOUS
    <2>4. s2[t] = total + k /\ total + k \in Int
      BY <1>1, <1>3, <2>2
    <2>5. Len(buffered') \in Int /\ written' \in Int
      BY <1>1
    <2>6. written' - Len(buffered') = s2[t]
      BY <1>3, <2>4
    <2>7. s2[t] \in Int
      BY <2>4
    <2> HIDE DEF total, k
    <2> QED BY <2>3, <2>5, <2>6, <2>7
  <1>14. Counts(s2)'
    BY <1>10, <1>11, <1>12, <1>13 DEF Counts
  <1> QED BY <1>4, <1>14 DEF OrderInv

\* A stream cut in two: the first part is on the disk, the rest stays.
Writes(ls, out) == /\ out \in Seq(Line) /\ buffered' \in Seq(Line)
                   /\ ls = out \o buffered'
                   /\ disk' = [disk EXCEPT ![fileName] = @ \o out]

\* A stream that is written out leaves nothing behind.
LEMMA AllWritten ==
  ASSUME NEW ls \in Seq(Line), buffered' = <<>>,
         disk' = [disk EXCEPT ![fileName] = @ \o ls]
  PROVE  Writes(ls, ls)
  <1>1. ls = ls \o <<>>
    OBVIOUS
  <1> QED BY <1>1 DEF Writes

\* However append_unlocked goes, what it does to the lines is to write a first
\* part of them to the file that was open and to keep the rest.
LEMMA AppendWrites ==
  ASSUME IInv, NEW len \in Lengths, AppendLine(len)
  PROVE  \E out : Writes(Lines(len), out)
  <1>1. written < MaxLines /\ Len(buffered) \in Nat
    BY DEF AppendLine, IInv, TypeOK, FileTypeOK
  <1>2. Lines(len) \in Seq(Line) /\ Len(Lines(len)) = Len(buffered) + 1
    BY <1>1, LinesType
  <1>3. CASE AppendFull(len) \/ AppendChecked(len)
    <2>1. disk' = [disk EXCEPT ![fileName] = @ \o Lines(len)] /\ buffered' = <<>>
      BY <1>3 DEF AppendFull, AppendChecked, AppendAndRoll, AppendAndFlush, RollFile,
                  ReachDisk, DiskAfterRoll, Appending
    <2> QED BY <1>2, <2>1, AllWritten
  <1>4. CASE AppendPlain(len)
    <2>1. PICK k \in 0 .. Len(buffered) + 1 :
             /\ disk' = [disk EXCEPT ![fileName] = @ \o SubSeq(Lines(len), 1, k)]
             /\ buffered' = SubSeq(Lines(len), k + 1, Len(buffered) + 1)
      BY <1>4 DEF AppendPlain
    <2> DEFINE ls == Lines(len)
    <2>2. /\ SubSeq(ls, 1, k) \in Seq(Line) /\ SubSeq(ls, k + 1, Len(ls)) \in Seq(Line)
          /\ ls = SubSeq(ls, 1, k) \o SubSeq(ls, k + 1, Len(ls))
      BY <1>1, <1>2, CutFacts
    <2>3. buffered' = SubSeq(ls, k + 1, Len(ls))
      BY <1>2, <2>1
    <2>4. Writes(ls, SubSeq(ls, 1, k))
      BY <2>1, <2>2, <2>3 DEF Writes
    <2> QED BY <2>4
  <1> QED BY <1>3, <1>4 DEF AppendLine

\* A roll opens the file of this second.
LEMMA AppendRolls ==
  ASSUME NEW len \in Lengths, AppendLine(len)
  PROVE  UNCHANGED now /\ written' = written + 1 /\ fileName' \in {fileName, now}
  BY DEF AppendLine, AppendFull, AppendChecked, AppendAndRoll, AppendAndFlush, AppendPlain, RollFile

\* The new line is numbered on from those in the stream.
LEMMA LinesFollow ==
  ASSUME IInv, OrderInv, NEW len \in Lengths, written < MaxLines
  PROVE  Follows(Lines(len), written - Len(buffered))
  <1> DEFINE n == Len(buffered)
  <1>1. buffered \in Seq(Line) /\ n \in Nat /\ written \in Nat
    BY LogFileAssumption DEF IInv, TypeOK, FileTypeOK
  <1>2. Lines(len) \in Seq(Line) /\ Len(Lines(len)) = n + 1
    BY LinesType
  <1>3. DOMAIN Lines(len) = 1 .. n + 1 /\ DOMAIN buffered = 1 .. n
    BY <1>1, <1>2, SeqFacts
  <1>4. SUFFICES ASSUME NEW i \in 1 .. n + 1
                 PROVE  Lines(len)[i].no = written - n + i
    BY <1>3 DEF Follows
  <1>5. CASE i = n + 1
    <2>1. Lines(len)[i] = NewLine(len)
      BY <1>1, <1>5 DEF Lines
    <2>2. written - n + i = written + 1
      BY <1>1, <1>5
    <2> QED BY <2>1, <2>2 DEF NewLine
  <1>6. CASE i # n + 1
    <2>1. i \in 1 .. n
      BY <1>1, <1>6
    <2>2. Lines(len)[i] = buffered[i]
      BY <1>1, <2>1 DEF Lines
    <2> QED BY <1>3, <2>1, <2>2 DEF OrderInv, Follows
  <1> QED BY <1>5, <1>6

\* append() keeps the order, of lines and of files.
LEMMA AppendInOrder ==
  ASSUME IInv, OrderInv, NEW len \in Lengths, AppendLine(len), FileTypeOK'
  PROVE  OrderInv'
  <1>1. PICK out : Writes(Lines(len), out)
    BY AppendWrites
  <1>2. /\ UNCHANGED now /\ written' = written + 1 /\ fileName' \in {fileName, now}
        /\ written < MaxLines
    BY AppendRolls DEF AppendLine
  <1>3. /\ buffered \in Seq(Line) /\ written \in Nat /\ written' \in Nat
        /\ fileName \in Times /\ now \in Times /\ Times \subseteq Nat
    BY LogFileAssumption DEF IInv, TypeOK, FileTypeOK, Times
  <1>4. out \in Seq(Line) /\ buffered' \in Seq(Line) /\ Lines(len) = out \o buffered'
    BY <1>1 DEF Writes
  <1>5. Follows(out \o buffered', written - Len(buffered))
    BY <1>2, <1>4, LinesFollow
  <1>6. written' - Len(buffered') = written - Len(buffered) + Len(out)
    <2>1. Len(Lines(len)) = Len(buffered) + 1
      BY <1>2, LinesType
    <2>2. Len(out \o buffered') = Len(out) + Len(buffered')
      BY <1>4, ConcatProperties
    <2>3. Len(out) \in Int /\ Len(buffered') \in Int /\ Len(buffered) \in Int
      BY <1>3, <1>4
    <2>4. \A a, b, c, w \in Int : a + b = c + 1 => w + 1 - b = w - c + a
      OBVIOUS
    <2>5. Len(out) + Len(buffered') = Len(buffered) + 1
      BY <1>4, <2>1, <2>2
    <2>6. written + 1 - Len(buffered') = written - Len(buffered) + Len(out)
      BY <1>3, <2>3, <2>4, <2>5
    <2>7. written' = written + 1
      BY <1>2
    <2> QED BY <1>3, <2>3, <2>6, <2>7
  <1>7. fileName' \in Times /\ fileName <= fileName' /\ fileName' <= now'
    BY <1>2, <1>3 DEF OrderInv
  <1>8. disk' = [disk EXCEPT ![fileName] = @ \o out]
    BY <1>1 DEF Writes
  <1>9. FileTypeOK
    BY DEF IInv, TypeOK
  <1> QED BY <1>3, <1>4, <1>5, <1>6, <1>7, <1>8, <1>9, WritesInOrder

\* LogFile::flush writes what is in the stream.
LEMMA FlushWrites ==
  ASSUME IInv, Flush
  PROVE  /\ Writes(buffered, buffered) /\ buffered' = <<>>
         /\ UNCHANGED <<now, fileName, written, opened, writenBytes>>
  BY AllWritten DEF Flush, LinesAfterFlush, WritesLines, ReachDisk, IInv, TypeOK, FileTypeOK

\* LogFile::flush keeps the order.
LEMMA FlushInOrder ==
  ASSUME IInv, OrderInv, Flush
  PROVE  OrderInv'
  <1>1. /\ Writes(buffered, buffered) /\ buffered' = <<>>
        /\ now' = now /\ fileName' = fileName /\ written' = written
    BY FlushWrites
  <1>2. /\ buffered \in Seq(Line) /\ written \in Nat /\ written' \in Nat
        /\ fileName \in Times /\ Times \subseteq Nat
    BY <1>1, LogFileAssumption DEF IInv, TypeOK, FileTypeOK, Times
  <1>3. /\ buffered' \in Seq(Line) /\ buffered = buffered \o buffered'
        /\ disk' = [disk EXCEPT ![fileName] = @ \o buffered]
    BY <1>1 DEF Writes
  <1>4. Follows(buffered \o buffered', written - Len(buffered))
    BY <1>3 DEF OrderInv
  <1>5. written' - Len(buffered') = written - Len(buffered) + Len(buffered)
    <2>1. Len(buffered') = 0
      BY <1>1
    <2>2. Len(buffered) \in Int /\ written \in Int
      BY <1>2
    <2>3. \A w, b \in Int : w - 0 = w - b + b
      OBVIOUS
    <2>4. written - 0 = written - Len(buffered) + Len(buffered)
      BY <2>2, <2>3
    <2> QED BY <1>1, <2>1, <2>4
  <1>6. fileName' \in Times /\ fileName <= fileName' /\ fileName' <= now'
    BY <1>1, <1>2 DEF OrderInv
  <1>7. FileTypeOK
    BY DEF IInv, TypeOK
  <1> QED BY <1>2, <1>3, <1>4, <1>5, <1>6, <1>7, WritesInOrder

\* A step that moves no line, the clock running on or not.
LEMMA OrderUnchanged ==
  ASSUME IInv, OrderInv, UNCHANGED fileVars, now' = now \/ now' > now, now' \in Times
  PROVE  OrderInv'
  <1>1. fileName <= now'
    BY LogFileAssumption DEF IInv, TypeOK, FileTypeOK, OrderInv, Times
  <1>2. \A s : Counts(s) => Counts(s)'
    BY DEF Counts, fileVars
  <1> QED BY <1>1, <1>2 DEF OrderInv, fileVars

\* Every step keeps the order.
LEMMA StepKeepsOrder == IInv /\ OrderInv /\ [Next]_vars => OrderInv'
  <1> SUFFICES ASSUME IInv, OrderInv, [Next]_vars PROVE OrderInv'
    OBVIOUS
  <1>1. FileTypeOK' /\ now' \in Times
    BY StepKeeps DEF IInv, TypeOK, FileTypeOK
  <1>2. ASSUME NEW t \in Threads, LogMacro(t) PROVE OrderInv'
    BY <1>1, <1>2, MacroStep, OrderUnchanged
  <1>3. ASSUME NEW t \in Threads, Output(t) PROVE OrderInv'
    BY <1>1, <1>3, AppendInOrder DEF Output
  <1>4. ASSUME NEW t \in Threads, FatalFlush(t) PROVE OrderInv'
    BY <1>4, FlushInOrder DEF FatalFlush
  <1>5. ASSUME NEW t \in Threads, Abort(t) PROVE OrderInv'
    BY <1>1, <1>5, OrderUnchanged DEF Abort
  <1>6. ASSUME SetLevel PROVE OrderInv'
    BY <1>1, <1>6, OrderUnchanged DEF SetLevel
  <1>7. ASSUME Tick PROVE OrderInv'
    <2>1. now' > now /\ UNCHANGED fileVars
      BY <1>7, LogFileAssumption DEF Tick, IInv, TypeOK, FileTypeOK, Times
    <2> QED BY <1>1, <2>1, OrderUnchanged
  <1>8. ASSUME UNCHANGED vars PROVE OrderInv'
    BY <1>1, <1>8, OrderUnchanged DEF vars
  <1> QED BY <1>2, <1>3, <1>4, <1>5, <1>6, <1>7, <1>8 DEF Next

\* The constructor opens a first file, and no line is anywhere.
LEMMA InitInOrder == Init => OrderInv
  <1> SUFFICES ASSUME Init PROVE OrderInv
    OBVIOUS
  <1>1. /\ now = 0 /\ disk = [t \in Times |-> <<>>] /\ fileName = 0
        /\ buffered = <<>> /\ written = 0 /\ MaxTime \in Nat
    BY LogFileAssumption DEF Init, FileInit
  <1>2. PICK s : s = [t \in 0 .. MaxTime + 1 |-> 0]
    OBVIOUS
  <1>3. Len(buffered) = 0 /\ DOMAIN buffered = {}
    BY <1>1
  <1>4. s \in [0 .. MaxTime + 1 -> Nat] /\ s[0] = 0
    BY <1>1, <1>2
  <1>5. ASSUME NEW f \in Times
        PROVE  s[f + 1] = s[f] + Len(disk[f]) /\ Follows(disk[f], s[f])
    <2>1. f \in 0 .. MaxTime + 1 /\ f + 1 \in 0 .. MaxTime + 1
      BY <1>1 DEF Times
    <2>2. s[f] = 0 /\ s[f + 1] = 0
      BY <1>2, <2>1
    <2>3. Len(disk[f]) = 0 /\ DOMAIN disk[f] = {}
      BY <1>1
    <2> QED BY <2>2, <2>3 DEF Follows
  <1>6. Counts(s)
    BY <1>1, <1>2, <1>3, <1>4, <1>5 DEF Counts
  <1> QED BY <1>1, <1>3, <1>6 DEF OrderInv, Follows

\* The first i files hold s[i] lines, numbered from one on; the last of them
\* and the stream make written lines.
LEMMA InOrderNothingLost ==
  ASSUME IInv, OrderInv
  PROVE  NothingLost
  <1> DEFINE n == MaxTime + 1
             seqs == [i \in 1 .. n |-> disk[i - 1]]
  <1>1. /\ n \in Nat \ {0} /\ disk \in [Times -> Seq(Line)] /\ fileName \in 0 .. n - 1
        /\ buffered \in Seq(Line) /\ written \in Nat /\ Times = 0 .. n - 1
    BY LogFileAssumption DEF IInv, TypeOK, FileTypeOK, Times
  <1>2. PICK s : Counts(s)
    BY DEF OrderInv
  <1>3. s \in [0 .. n -> Nat] /\ s[0] = 0
    BY <1>2 DEF Counts
  <1>4. \A f \in 0 .. n - 1 : s[f + 1] = s[f] + Len(disk[f]) /\ Follows(disk[f], s[f])
    BY <1>1, <1>2 DEF Counts
  <1>5. s[n] + Len(buffered) = written
    BY <1>1, <1>2 DEF Counts
  <1> HIDE DEF n
  <1>6. Len(seqs) = n
    BY <1>1
  <1>7. PICK f : /\ f = [i \in 1 .. n |-> IF i = 1 THEN seqs[i] ELSE f[i - 1] \o seqs[i]]
                 /\ FlattenSeq(seqs) = f[n]
    <2>1. Len(seqs) \in Nat \ {0}
      BY <1>1, <1>6
    <2> HIDE DEF seqs
    <2> QED BY <1>6, <2>1, FlattenUnfolds
  <1>8. \A i \in 1 .. n : i - 1 \in 0 .. n - 1 /\ i - 1 + 1 = i
    BY <1>1
  <1>9. \A i \in 1 .. n : f[i] = IF i = 1 THEN disk[i - 1] ELSE f[i - 1] \o disk[i - 1]
    <2> TAKE i \in 1 .. n
    <2>1. seqs[i] = disk[i - 1]
      OBVIOUS
    <2> HIDE DEF seqs
    <2> QED BY <1>7, <2>1
  <1>10. ASSUME NEW i \in 1 .. n
         PROVE  /\ disk[i - 1] \in Seq(Line) /\ s[i - 1] \in Nat
                /\ s[i] = s[i - 1] + Len(disk[i - 1]) /\ Follows(disk[i - 1], s[i - 1])
    <2>1. i - 1 \in 0 .. n - 1 /\ i - 1 + 1 = i /\ i - 1 \in 0 .. n
      BY <1>1
    <2> QED BY <1>1, <1>3, <1>4, <2>1
  <1> DEFINE Good(m) == f[m] \in Seq(Line) /\ Len(f[m]) = s[m] /\ Follows(f[m], 0)
             bad == {m \in 1 .. n : ~Good(m)}
  <1>11. bad = {}
    <2> SUFFICES ASSUME bad # {} PROVE FALSE
      OBVIOUS
    <2>1. bad \subseteq Nat
      BY <1>1
    <2> HIDE DEF bad, Good
    <2>2. PICK m \in bad : \A j \in bad : m <= j
      BY <2>1, LeastExists
    <2>3. m \in 1 .. n /\ ~Good(m)
      BY <2>2 DEF bad
    <2>4. CASE m = 1
      <3>1. m - 1 = 0
        BY <2>4
      <3>2. f[m] = disk[0] /\ disk[0] \in Seq(Line)
        BY <1>9, <1>10, <2>3, <2>4, <3>1
      <3>3. s[m] = 0 + Len(disk[0]) /\ Follows(disk[0], 0)
        BY <1>3, <1>10, <2>3, <3>1
      <3>4. Len(disk[0]) \in Nat
        BY <3>2
      <3> QED BY <2>3, <3>2, <3>3, <3>4 DEF Good
    <2>5. CASE m # 1
      <3>1. m - 1 \in 1 .. n /\ m - 1 \notin bad
        BY <1>1, <2>2, <2>3, <2>5
      <3>2. f[m - 1] \in Seq(Line) /\ Len(f[m - 1]) = s[m - 1] /\ Follows(f[m - 1], 0)
        BY <3>1 DEF bad, Good
      <3>3. f[m] = f[m - 1] \o disk[m - 1]
        BY <1>9, <2>3, <2>5
      <3>4. /\ disk[m - 1] \in Seq(Line) /\ s[m - 1] \in Nat
            /\ s[m] = s[m - 1] + Len(disk[m - 1]) /\ Follows(disk[m - 1], s[m - 1])
        BY <1>10, <2>3
      <3>5. f[m - 1] \o disk[m - 1] \in Seq(Line)
        BY <3>2, <3>4, ConcatProperties
      <3>6. Len(f[m - 1] \o disk[m - 1]) = s[m]
        <4>1. Len(f[m - 1] \o disk[m - 1]) = Len(f[m - 1]) + Len(disk[m - 1])
          BY <3>2, <3>4, ConcatProperties
        <4> QED BY <3>2, <3>4, <4>1
      <3>7. Follows(f[m - 1] \o disk[m - 1], 0)
        <4>1. 0 + Len(f[m - 1]) = s[m - 1]
          BY <3>2, <3>4
        <4> QED BY <3>2, <3>4, <4>1, FollowsConcat
      <3> QED BY <2>3, <3>3, <3>5, <3>6, <3>7 DEF Good
    <2> QED BY <2>4, <2>5
  <1>12. f[n] \in Seq(Line) /\ Len(f[n]) = s[n] /\ Follows(f[n], 0)
    <2>1. n \in 1 .. n
      BY <1>1
    <2> QED BY <1>11, <2>1
  <1>13. Everything = f[n] \o buffered
    BY <1>7 DEF Everything, n
  <1>14. f[n] \o buffered \in Seq(Line) /\ Len(f[n] \o buffered) = written
    BY <1>1, <1>5, <1>12, ConcatProperties
  <1>15. Follows(f[n] \o buffered, 0)
    <2>1. n \in 0 .. n
      BY <1>1
    <2>2. s[n] \in Nat
      BY <1>3, <2>1
    <2>3. Len(buffered) \in Nat
      BY <1>1
    <2>4. \A a, b, c \in Int : a + b = c => c - b = 0 + a
      OBVIOUS
    <2>5. Len(f[n]) + Len(buffered) = written /\ Len(f[n]) \in Int
      BY <1>5, <1>12, <2>2
    <2>6. written - Len(buffered) = 0 + Len(f[n])
      <3>1. Len(f[n]) \in Int /\ Len(buffered) \in Int /\ written \in Int
        BY <1>1, <2>3, <2>5
      <3> QED BY <2>4, <2>5, <3>1, Zenon
    <2>7. Follows(buffered, written - Len(buffered))
      BY DEF OrderInv
    <2>8. Follows(buffered, 0 + Len(f[n]))
      BY <2>6, <2>7
    <2> QED BY <1>1, <1>12, <2>8, FollowsConcat
  <1>16. ASSUME NEW i \in 1 .. written PROVE (f[n] \o buffered)[i].no = i
    <2>1. i \in DOMAIN (f[n] \o buffered)
      BY <1>14, SeqFacts
    <2>2. (f[n] \o buffered)[i].no = 0 + i
      BY <1>15, <2>1 DEF Follows
    <2>3. 0 + i = i
      BY <1>1
    <2> QED BY <2>2, <2>3
  <1> QED BY <1>13, <1>14, <1>16 DEF NothingLost

\* Read in the order of the files' names, disk and stream hold every line that
\* was appended, once and in the order of the calls: no roll, no flush and no
\* interleaving of threads in LogFile::append loses, doubles or swaps one.
THEOREM LinesInOrder == Spec => []NothingLost
  <1>1. Init => OrderInv
    BY InitInOrder
  <1>2. IInv /\ OrderInv => NothingLost
    BY InOrderNothingLost
  <1> QED BY <1>1, <1>2, LogInvariance, StepKeepsOrder, PTL DEF Spec

-----------------------------------------------------------------------------
(* Bytes *)

\* g adds up the lengths of the lines in any set of the first m.
BytesFold(ls, g, m) ==
  g = [s \in SUBSET (1 .. m) |-> IF s = {} THEN 0 ELSE g[s \ {Max(s)}] + ls[Max(s)].len]

\* The largest number up to m is m.
LEMMA MaxUpTo ==
  ASSUME NEW m \in Nat \ {0}, NEW s \in SUBSET (1 .. m), m \in s
  PROVE  Max(s) = m
  <1>1. m \in s /\ \A y \in s : m >= y
    OBVIOUS
  <1>2. Max(s) \in s /\ \A y \in s : Max(s) >= y
    BY <1>1 DEF Max
  <1>3. Max(s) \in Int /\ m \in Int
    <2>1. s \subseteq Int /\ m \in Int
      OBVIOUS
    <2> QED BY <1>2, <2>1
  <1>4. m >= Max(s) /\ Max(s) >= m
    BY <1>1, <1>2
  <1> QED BY <1>3, <1>4

\* The fold of the length of ls is the one over all of its lines.
LEMMA BytesFolds ==
  ASSUME NEW ls \in Seq(Line)
  PROVE  \E g : BytesFold(ls, g, Len(ls)) /\ Bytes(ls) = g[1 .. Len(ls)]
  <1> DEFINE n == Len(ls)
             bad == {m \in 0 .. n : ~\E g : BytesFold(ls, g, m)}
  <1>1. n \in Nat /\ DOMAIN ls = 1 .. n
    OBVIOUS
  <1> HIDE DEF n
  <1>2. bad = {}
    <2> SUFFICES ASSUME bad # {} PROVE FALSE
      OBVIOUS
    <2>1. bad \subseteq Nat
      BY <1>1
    <2> HIDE DEF bad
    <2>2. PICK m \in bad : \A j \in bad : m <= j
      BY <2>1, LeastExists
    <2>3. m \in 0 .. n /\ ~\E g : BytesFold(ls, g, m)
      BY <2>2 DEF bad
    <2>4. CASE m = 0
      <3> DEFINE g == [s \in SUBSET (1 .. 0) |-> 0]
      <3>1. \A s \in SUBSET (1 .. 0) : s = {}
        OBVIOUS
      <3>2. BytesFold(ls, g, 0)
        BY <3>1 DEF BytesFold
      <3> QED BY <2>3, <2>4, <3>2
    <2>5. CASE m # 0
      <3>1. m \in Nat \ {0} /\ m - 1 \in 0 .. n /\ m - 1 \notin bad
        BY <1>1, <2>2, <2>3, <2>5
      <3>2. PICK g : BytesFold(ls, g, m - 1)
        BY <3>1 DEF bad
      <3>3. PICK h : h = [s \in SUBSET (1 .. m) |->
                            IF m \in s THEN g[s \ {m}] + ls[m].len ELSE g[s]]
        OBVIOUS
      <3>4. ASSUME NEW s \in SUBSET (1 .. m)
            PROVE  h[s] = IF s = {} THEN 0 ELSE h[s \ {Max(s)}] + ls[Max(s)].len
        <4>1. s \ {Max(s)} \in SUBSET (1 .. m)
          OBVIOUS
        <4>2. CASE m \in s
          <5>1. Max(s) = m
            BY <3>1, <4>2, MaxUpTo
          <5>2. h[s] = g[s \ {m}] + ls[m].len
            BY <3>3, <4>2
          <5>3. m \notin s \ {m} /\ s \ {m} \in SUBSET (1 .. m)
            OBVIOUS
          <5>4. h[s \ {m}] = g[s \ {m}]
            BY <3>3, <5>3
          <5> QED BY <4>2, <5>1, <5>2, <5>4
        <4>3. CASE m \notin s
          <5>1. h[s] = g[s]
            BY <3>3, <4>3
          <5>2. s \in SUBSET (1 .. m - 1)
            BY <3>1, <4>3
          <5>3. g[s] = IF s = {} THEN 0 ELSE g[s \ {Max(s)}] + ls[Max(s)].len
            BY <3>2, <5>2 DEF BytesFold
          <5>4. h[s \ {Max(s)}] = g[s \ {Max(s)}]
            BY <3>3, <4>1, <4>3
          <5> QED BY <5>1, <5>3, <5>4
        <4> QED BY <4>2, <4>3
      <3>5. h = [s \in SUBSET (1 .. m) |->
                   IF s = {} THEN 0 ELSE h[s \ {Max(s)}] + ls[Max(s)].len]
        BY <3>3, <3>4
      <3> QED BY <2>3, <3>5 DEF BytesFold
    <2> QED BY <2>4, <2>5
  <1> DEFINE f == CHOOSE g : BytesFold(ls, g, n)
  <1>3. BytesFold(ls, f, n)
    <2>1. n \in 0 .. n
      BY <1>1
    <2>2. \E g : BytesFold(ls, g, n)
      BY <1>2, <2>1
    <2> QED BY <2>2
  <1>4. Bytes(ls) = f[1 .. n]
    <2>1. Bytes(ls) = (CHOOSE iter :
             iter = [s \in SUBSET (DOMAIN ls) |->
                       IF s = {} THEN 0 ELSE iter[s \ {Max(s)}] + ls[Max(s)].len])[DOMAIN ls]
      BY DEF Bytes, FoldLeft, MapThenFoldSet
    <2> QED BY <1>1, <2>1 DEF BytesFold
  <1> QED BY <1>3, <1>4 DEF n

\* p[i] bytes are in the first i lines of ls.
Sums(ls, p) == /\ p \in [0 .. Len(ls) -> Nat] /\ p[0] = 0
               /\ \A i \in 1 .. Len(ls) : p[i] = p[i - 1] + ls[i].len

\* Bytes adds up the lengths from the first line on.
LEMMA BytesSum ==
  ASSUME NEW ls \in Seq(Line)
  PROVE  \E p : Sums(ls, p) /\ Bytes(ls) = p[Len(ls)]
  <1> DEFINE n == Len(ls)
  <1>1. n \in Nat /\ \A i \in 1 .. n : ls[i] \in Line
    OBVIOUS
  <1>2. PICK g : BytesFold(ls, g, n) /\ Bytes(ls) = g[1 .. n]
    BY BytesFolds
  <1> HIDE DEF n
  <1>3. PICK p : p = [i \in 0 .. n |-> g[1 .. i]]
    OBVIOUS
  <1>4. \A i \in 1 .. n : ls[i].len \in Nat
    BY <1>1, LogFileAssumption DEF Line
  <1>5. p[0] = 0
    <2>1. 1 .. 0 = {} /\ {} \in SUBSET (1 .. n) /\ 0 \in 0 .. n
      BY <1>1
    <2>2. g[{}] = 0
      BY <1>2, <2>1 DEF BytesFold
    <2> QED BY <1>3, <2>1, <2>2
  <1>6. ASSUME NEW i \in 1 .. n
        PROVE  p[i] = p[i - 1] + ls[i].len
    <2>1. /\ i \in 0 .. n /\ i - 1 \in 0 .. n /\ i \in Nat \ {0}
          /\ 1 .. i \in SUBSET (1 .. n) /\ i \in 1 .. i
      BY <1>1
    <2>2. Max(1 .. i) = i
      BY <2>1, MaxUpTo
    <2>3. 1 .. i # {} /\ (1 .. i) \ {i} = 1 .. i - 1
      <3>1. \A j \in Int : j \in (1 .. i) \ {i} <=> j \in 1 .. i - 1
        BY <2>1
      <3>2. (1 .. i) \ {i} \subseteq Int /\ 1 .. i - 1 \subseteq Int
        BY <2>1
      <3>3. (1 .. i) \ {i} = 1 .. i - 1
        BY <3>1, <3>2
      <3> QED BY <2>1, <3>3
    <2>4. g[1 .. i] = g[(1 .. i) \ {i}] + ls[i].len
      BY <1>2, <2>1, <2>2, <2>3 DEF BytesFold
    <2> QED BY <1>3, <2>1, <2>3, <2>4
  <1> DEFINE bad == {i \in 0 .. n : p[i] \notin Nat}
  <1>7. bad = {}
    <2> SUFFICES ASSUME bad # {} PROVE FALSE
      OBVIOUS
    <2>1. bad \subseteq Nat
      BY <1>1
    <2> HIDE DEF bad
    <2>2. PICK m \in bad : \A j \in bad : m <= j
      BY <2>1, LeastExists
    <2>3. m \in 0 .. n /\ p[m] \notin Nat
      BY <2>2 DEF bad
    <2>4. m \in 1 .. n
      BY <1>1, <1>5, <2>3
    <2>5. m - 1 \in 0 .. n /\ m - 1 \notin bad
      BY <1>1, <2>2, <2>4
    <2>6. p[m - 1] \in Nat /\ ls[m].len \in Nat
      BY <1>4, <2>4, <2>5 DEF bad
    <2>7. p[m] = p[m - 1] + ls[m].len
      BY <1>6, <2>4
    <2> QED BY <2>3, <2>6, <2>7
  <1>8. p \in [0 .. n -> Nat]
    BY <1>3, <1>7
  <1>9. Bytes(ls) = p[n]
    <2>1. n \in 0 .. n
      BY <1>1
    <2> QED BY <1>2, <1>3, <2>1
  <1> QED BY <1>5, <1>6, <1>8, <1>9 DEF Sums, n

\* p grows by w, up to n.
Grows(p, w, n) == /\ \A i \in 0 .. n : p[i] \in Nat
                  /\ \A i \in 1 .. n : w[i] \in Nat /\ p[i] = p[i - 1] + w[i]

\* Two sums that grow alike differ by what they started with.
LEMMA SumsAgree ==
  ASSUME NEW n \in Nat, NEW c \in Nat, NEW p, NEW q, NEW w,
         Grows(p, w, n), Grows(q, w, n), p[0] = q[0] + c
  PROVE  p[n] = q[n] + c
  <1> DEFINE bad == {i \in 0 .. n : p[i] # q[i] + c}
  <1>1. bad = {}
    <2> SUFFICES ASSUME bad # {} PROVE FALSE
      OBVIOUS
    <2>1. bad \subseteq Nat
      OBVIOUS
    <2> HIDE DEF bad
    <2>2. PICK m \in bad : \A j \in bad : m <= j
      BY <2>1, LeastExists
    <2>3. m \in 0 .. n /\ p[m] # q[m] + c
      BY <2>2 DEF bad
    <2>4. m \in 1 .. n
      BY <2>3
    <2>5. m - 1 \in 0 .. n /\ m - 1 \notin bad
      BY <2>2, <2>4
    <2>6. p[m - 1] = q[m - 1] + c
      BY <2>5 DEF bad
    <2>7. p[m] = p[m - 1] + w[m] /\ q[m] = q[m - 1] + w[m]
      BY <2>4 DEF Grows
    <2>8. p[m - 1] \in Nat /\ q[m - 1] \in Nat /\ w[m] \in Nat
      BY <2>4, <2>5 DEF Grows
    <2> QED BY <2>3, <2>6, <2>7, <2>8
  <1>2. n \in 0 .. n
    OBVIOUS
  <1> QED BY <1>1, <1>2

\* Bytes are a number.
LEMMA BytesType ==
  ASSUME NEW ls \in Seq(Line)
  PROVE  Bytes(ls) \in Nat /\ (ls = <<>> => Bytes(ls) = 0)
  <1>1. PICK p : Sums(ls, p) /\ Bytes(ls) = p[Len(ls)]
    BY BytesSum
  <1>2. Len(ls) \in 0 .. Len(ls)
    OBVIOUS
  <1>3. p[Len(ls)] \in Nat
    BY <1>1, <1>2 DEF Sums
  <1>4. ls = <<>> => Len(ls) = 0
    OBVIOUS
  <1> QED BY <1>1, <1>3, <1>4 DEF Sums

\* The bytes of two sequences add up.
LEMMA BytesConcat ==
  ASSUME NEW s \in Seq(Line), NEW t \in Seq(Line)
  PROVE  Bytes(s \o t) = Bytes(s) + Bytes(t)
  <1> DEFINE m == Len(s)
             n == Len(t)
  <1>1. /\ s \o t \in Seq(Line) /\ Len(s \o t) = m + n
        /\ \A j \in 1 .. m + n : (s \o t)[j] = IF j <= m THEN s[j] ELSE t[j - m]
    BY ConcatProperties
  <1>2. /\ m \in Nat /\ n \in Nat
        /\ \A i \in 1 .. m : s[i] \in Line
        /\ \A i \in 1 .. n : t[i] \in Line
    OBVIOUS
  <1>3. PICK ps : Sums(s, ps) /\ Bytes(s) = ps[m]
    BY BytesSum
  <1>4. PICK pt : Sums(t, pt) /\ Bytes(t) = pt[n]
    BY BytesSum
  <1>5. PICK p : Sums(s \o t, p) /\ Bytes(s \o t) = p[m + n]
    BY <1>1, BytesSum
  <1>6. /\ \A i \in 0 .. m : ps[i] \in Nat
        /\ ps[0] = 0 /\ \A i \in 1 .. m : ps[i] = ps[i - 1] + s[i].len
    BY <1>3 DEF Sums
  <1>7. /\ \A i \in 0 .. n : pt[i] \in Nat
        /\ pt[0] = 0 /\ \A i \in 1 .. n : pt[i] = pt[i - 1] + t[i].len
    BY <1>4 DEF Sums
  <1>8. /\ \A i \in 0 .. m + n : p[i] \in Nat
        /\ p[0] = 0 /\ \A i \in 1 .. m + n : p[i] = p[i - 1] + (s \o t)[i].len
    BY <1>1, <1>5 DEF Sums
  <1> HIDE DEF m, n
  <1>9. p[m] = ps[m]
    <2> DEFINE w == [i \in 1 .. m |-> s[i].len]
    <2>1. \A i \in 1 .. m : w[i] = s[i].len /\ w[i] \in Nat
      BY <1>2, LogFileAssumption DEF Line
    <2> HIDE DEF w
    <2>2. \A i \in 0 .. m : p[i] \in Nat /\ ps[i] \in Nat
      BY <1>2, <1>6, <1>8
    <2>3. \A i \in 1 .. m : ps[i] = ps[i - 1] + w[i]
      BY <1>6, <2>1
    <2>4. \A i \in 1 .. m : p[i] = p[i - 1] + w[i]
      <3> TAKE i \in 1 .. m
      <3>1. i \in 1 .. m + n /\ i <= m
        BY <1>2
      <3>2. (s \o t)[i] = s[i]
        BY <1>1, <3>1
      <3> QED BY <1>8, <2>1, <3>1, <3>2
    <2>5. p[0] = ps[0] + 0
      BY <1>6, <1>8
    <2>6. p[m] = ps[m] + 0
      <3>1. Grows(p, w, m) /\ Grows(ps, w, m)
        BY <2>1, <2>2, <2>3, <2>4 DEF Grows
      <3> QED BY <1>2, <2>5, <3>1, SumsAgree
    <2>7. m \in 0 .. m
      BY <1>2
    <2>8. ps[m] \in Nat
      BY <2>2, <2>7
    <2> QED BY <2>6, <2>8
  <1>10. ps[m] \in Nat /\ pt[n] \in Nat
    BY <1>2, <1>6, <1>7
  <1>11. p[m + n] = pt[n] + ps[m]
    <2> DEFINE w == [i \in 1 .. n |-> t[i].len]
               q == [i \in 0 .. n |-> p[m + i]]
    <2>1. \A i \in 1 .. n : w[i] = t[i].len /\ w[i] \in Nat
      BY <1>2, LogFileAssumption DEF Line
    <2>2. \A i \in 0 .. n : q[i] = p[m + i]
      OBVIOUS
    <2> HIDE DEF w, q
    <2>3. \A i \in 0 .. n : q[i] \in Nat /\ pt[i] \in Nat
      <3> TAKE i \in 0 .. n
      <3>1. m + i \in 0 .. m + n
        BY <1>2
      <3> QED BY <1>7, <1>8, <2>2, <3>1
    <2>4. \A i \in 1 .. n : pt[i] = pt[i - 1] + w[i]
      BY <1>7, <2>1
    <2>5. \A i \in 1 .. n : q[i] = q[i - 1] + w[i]
      <3> TAKE i \in 1 .. n
      <3>1. PICK j : j = m + i
        OBVIOUS
      <3>2. /\ j \in 1 .. m + n /\ ~(j <= m) /\ j - m = i
            /\ j - 1 = m + (i - 1) /\ i \in 0 .. n /\ i - 1 \in 0 .. n
        BY <1>2, <3>1
      <3>3. (s \o t)[j] = t[i]
        BY <1>1, <3>2
      <3>4. p[j] = p[j - 1] + t[i].len
        BY <1>8, <3>2, <3>3
      <3>5. q[i] = p[j] /\ q[i - 1] = p[j - 1]
        BY <2>2, <3>1, <3>2
      <3> QED BY <2>1, <3>4, <3>5
    <2>6. q[0] = pt[0] + ps[m]
      <3>1. q[0] = p[m]
        <4>1. 0 \in 0 .. n /\ m + 0 = m
          BY <1>2
        <4> QED BY <2>2, <4>1
      <3> QED BY <1>7, <1>9, <1>10, <3>1
    <2>7. q[n] = pt[n] + ps[m]
      <3>1. Grows(q, w, n) /\ Grows(pt, w, n)
        BY <2>1, <2>3, <2>4, <2>5 DEF Grows
      <3> QED BY <1>2, <1>10, <2>6, <3>1, SumsAgree
    <2>8. n \in 0 .. n
      BY <1>2
    <2> QED BY <2>2, <2>7, <2>8
  <1> QED BY <1>3, <1>4, <1>5, <1>10, <1>11

\* A line adds its length.
LEMMA BytesAppend ==
  ASSUME NEW s \in Seq(Line), NEW l \in Line
  PROVE  Bytes(Append(s, l)) = Bytes(s) + l.len
  <1> DEFINE n == Len(s)
             t == Append(s, l)
  <1>1. /\ t \in Seq(Line) /\ Len(t) = n + 1 /\ n \in Nat /\ t[n + 1] = l
        /\ \A i \in 1 .. n : t[i] = s[i]
    OBVIOUS
  <1>2. \A i \in 1 .. n : s[i] \in Line
    OBVIOUS
  <1>3. PICK ps : Sums(s, ps) /\ Bytes(s) = ps[n]
    BY BytesSum
  <1>4. PICK p : Sums(t, p) /\ Bytes(t) = p[n + 1]
    BY <1>1, BytesSum
  <1>5. /\ \A i \in 0 .. n : ps[i] \in Nat
        /\ ps[0] = 0 /\ \A i \in 1 .. n : ps[i] = ps[i - 1] + s[i].len
    BY <1>3 DEF Sums
  <1>6. /\ \A i \in 0 .. n + 1 : p[i] \in Nat
        /\ p[0] = 0 /\ \A i \in 1 .. n + 1 : p[i] = p[i - 1] + t[i].len
    BY <1>1, <1>4 DEF Sums
  <1> HIDE DEF n, t
  <1> DEFINE w == [i \in 1 .. n |-> s[i].len]
  <1>7. \A i \in 1 .. n : w[i] = s[i].len /\ w[i] \in Nat
    BY <1>2, LogFileAssumption DEF Line
  <1> HIDE DEF w
  <1>8. \A i \in 0 .. n : p[i] \in Nat /\ ps[i] \in Nat
    BY <1>1, <1>5, <1>6
  <1>9. \A i \in 1 .. n : p[i] = p[i - 1] + w[i]
    <2> TAKE i \in 1 .. n
    <2>1. i \in 1 .. n + 1
      BY <1>1
    <2>2. t[i] = s[i]
      BY <1>1
    <2>3. p[i] = p[i - 1] + t[i].len
      BY <1>6, <2>1
    <2>4. w[i] = s[i].len
      BY <1>7
    <2> QED BY <2>2, <2>3, <2>4
  <1>10. \A i \in 1 .. n : ps[i] = ps[i - 1] + w[i]
    BY <1>5, <1>7
  <1>11. p[0] = ps[0] + 0
    BY <1>5, <1>6
  <1>12. p[n] = ps[n] + 0
    <2>1. Grows(p, w, n) /\ Grows(ps, w, n)
      BY <1>7, <1>8, <1>9, <1>10 DEF Grows
    <2>2. n \in Nat
      BY <1>1
    <2> QED BY <1>11, <2>1, <2>2, SumsAgree
  <1>13. n + 1 \in 1 .. n + 1 /\ n + 1 - 1 = n /\ n \in 0 .. n
    BY <1>1
  <1>14. p[n + 1] = p[n] + l.len
    BY <1>1, <1>6, <1>13
  <1>15. ps[n] \in Nat
    BY <1>8, <1>13
  <1>16. p[n] = ps[n]
    BY <1>12, <1>15
  <1> QED BY <1>3, <1>4, <1>14, <1>16 DEF t

-----------------------------------------------------------------------------
(* The files *)

\* What one opening may add to a file.
Limit == rollSize + Longest

\* The file that is open has used writenBytes of its latest opening.
BytesInv ==
  /\ \A f \in Times : f # fileName => Bytes(disk[f]) <= opened[f] * Limit
  /\ Bytes(disk[fileName]) + Bytes(buffered) + Limit <= opened[fileName] * Limit + writenBytes

\* No line is longer than the buffer it is made in.
LEMMA LongestType ==
  /\ Limit \in Nat /\ Longest \in Nat /\ Limit = rollSize + Longest
  /\ \A k \in Lengths : k <= Longest
  <1>1. Longest \in Lengths /\ \A k \in Lengths : k <= Longest
    BY LogFileAssumption DEF Longest
  <1>2. Longest \in Nat /\ rollSize \in Nat
    BY <1>1, LogFileAssumption
  <1> QED BY <1>1, <1>2 DEF Limit

\* Nothing has no bytes.
LEMMA EmptyBytes == Bytes(<<>>) = 0
  <1>1. <<>> \in Seq(Line)
    OBVIOUS
  <1> QED BY <1>1, BytesType

\* One opening more is one bound more.
LEMMA OneMore ==
  ASSUME NEW a \in Nat, NEW b \in Nat
  PROVE  a * b \in Nat /\ (a + 1) * b = a * b + b
  OBVIOUS

\* Where the bytes of ls went.
LEMMA WritesBytes ==
  ASSUME FileTypeOK, NEW ls, NEW out, Writes(ls, out)
  PROVE  /\ \A f \in Times : f # fileName => disk'[f] = disk[f]
         /\ Bytes(disk'[fileName]) + Bytes(buffered') = Bytes(disk[fileName]) + Bytes(ls)
         /\ Bytes(disk'[fileName]) \in Nat /\ Bytes(buffered') \in Nat
         /\ Bytes(disk[fileName]) \in Nat /\ Bytes(ls) \in Nat
  <1>1. /\ disk \in [Times -> Seq(Line)] /\ fileName \in Times
        /\ disk' = [disk EXCEPT ![fileName] = @ \o out]
        /\ out \in Seq(Line) /\ buffered' \in Seq(Line) /\ ls = out \o buffered'
    BY DEF FileTypeOK, Writes
  <1>2. disk'[fileName] = disk[fileName] \o out /\ disk[fileName] \in Seq(Line)
    BY <1>1
  <1>3. Bytes(disk'[fileName]) = Bytes(disk[fileName]) + Bytes(out)
    BY <1>1, <1>2, BytesConcat
  <1>4. Bytes(ls) = Bytes(out) + Bytes(buffered')
    BY <1>1, BytesConcat
  <1>5. Bytes(disk[fileName]) \in Nat /\ Bytes(out) \in Nat /\ Bytes(buffered') \in Nat
    BY <1>1, <1>2, BytesType
  <1>6. \A f \in Times : f # fileName => disk'[f] = disk[f]
    BY <1>1
  <1> QED BY <1>3, <1>4, <1>5, <1>6

\* The new line adds its length to those of the stream.
LEMMA LinesBytes ==
  ASSUME FileTypeOK, NEW len \in Lengths
  PROVE  Bytes(Lines(len)) = Bytes(buffered) + len /\ Bytes(buffered) \in Nat /\ len \in Nat
  <1>1. written + 1 \in Nat \ {0} /\ now \in Times /\ buffered \in Seq(Line)
    BY LogFileAssumption DEF FileTypeOK
  <1>2. NewLine(len) \in Line /\ NewLine(len).len = len
    BY <1>1 DEF NewLine, Line
  <1>3. Bytes(Lines(len)) = Bytes(buffered) + len
    BY <1>1, <1>2, BytesAppend DEF Lines
  <1> QED BY <1>1, <1>3, BytesType, LogFileAssumption

\* Opening a file of a name again raises the bound of that name.
LEMMA RollInBounds ==
  ASSUME FileTypeOK,
         \A f \in Times : Bytes(disk'[f]) \in Nat /\ Bytes(disk'[f]) <= opened[f] * Limit,
         buffered' = <<>>, fileName' = now, writenBytes' = 0,
         opened' = [opened EXCEPT ![now] = @ + 1]
  PROVE  BytesInv'
  <1>1. opened \in [Times -> Nat] /\ now \in Times
    BY DEF FileTypeOK
  <1>2. Limit \in Nat /\ Bytes(buffered') = 0
    BY LongestType, EmptyBytes
  <1>3. /\ opened'[now] = opened[now] + 1 /\ opened[now] \in Nat
        /\ \A f \in Times : f # now => opened'[f] = opened[f]
    BY <1>1
  <1>4. opened[now] * Limit \in Nat /\ opened'[now] * Limit = opened[now] * Limit + Limit
    BY <1>2, <1>3, OneMore
  <1>5. \A f \in Times : f # fileName' => Bytes(disk'[f]) <= opened'[f] * Limit
    BY <1>3
  <1>6. Bytes(disk'[now]) + Bytes(buffered') + Limit <= opened'[now] * Limit + writenBytes'
    <2>1. Bytes(disk'[now]) \in Nat /\ Bytes(disk'[now]) <= opened[now] * Limit
      BY <1>1
    <2>2. \A b, c, m \in Nat : b <= c => b + 0 + m <= c + m + 0
      OBVIOUS
    <2> QED BY <1>2, <1>4, <2>1, <2>2
  <1>7. Bytes(disk'[fileName']) + Bytes(buffered') + Limit <= opened'[fileName'] * Limit + writenBytes'
    BY <1>6
  <1>8. Limit' = Limit
    BY DEF Limit, Longest
  <1> QED BY <1>5, <1>7, <1>8 DEF BytesInv

\* Writing to the file of now, with writenBytes counting what is new.
LEMMA WritesInBounds ==
  ASSUME FileTypeOK, BytesInv, NEW ls, NEW out, Writes(ls, out), NEW new \in Nat,
         Bytes(ls) = Bytes(buffered) + new, writenBytes' = writenBytes + new,
         fileName' = fileName, opened' = opened
  PROVE  BytesInv'
  <1>1. /\ \A f \in Times : f # fileName => disk'[f] = disk[f]
        /\ Bytes(disk'[fileName]) + Bytes(buffered') = Bytes(disk[fileName]) + Bytes(ls)
        /\ Bytes(disk'[fileName]) \in Nat /\ Bytes(buffered') \in Nat
        /\ Bytes(disk[fileName]) \in Nat
    BY WritesBytes
  <1>2. /\ Limit \in Nat /\ writenBytes \in Nat /\ Bytes(buffered) \in Nat
        /\ opened[fileName] * Limit \in Nat
    <2>1. opened[fileName] \in Nat /\ Limit \in Nat /\ writenBytes \in Nat /\ buffered \in Seq(Line)
      BY LongestType, LogFileAssumption DEF FileTypeOK
    <2> QED BY <2>1, OneMore, BytesType
  <1>3. Bytes(disk'[fileName]) + Bytes(buffered') + Limit <= opened[fileName] * Limit + (writenBytes + new)
    <2>1. Bytes(disk[fileName]) + Bytes(buffered) + Limit <= opened[fileName] * Limit + writenBytes
      BY DEF BytesInv
    <2>2. \A d, b, d2, b2, m, o, w \in Nat :
             d2 + b2 = d + (b + new) /\ d + b + m <= o + w => d2 + b2 + m <= o + (w + new)
      OBVIOUS
    <2>3. Bytes(disk'[fileName]) + Bytes(buffered') = Bytes(disk[fileName]) + (Bytes(buffered) + new)
      BY <1>1
    <2> QED BY <1>1, <1>2, <2>1, <2>2, <2>3
  <1>4. Bytes(disk'[fileName']) + Bytes(buffered') + Limit <= opened'[fileName'] * Limit + writenBytes'
    BY <1>3
  <1>5. \A f \in Times : f # fileName' => Bytes(disk'[f]) <= opened'[f] * Limit
    BY <1>1 DEF BytesInv
  <1>6. Limit' = Limit
    BY DEF Limit, Longest
  <1> QED BY <1>4, <1>5, <1>6 DEF BytesInv

\* A line that does not fit ends its file within bounds.
LEMMA LastLineFits ==
  ASSUME FileTypeOK, BytesInv, NEW len \in Lengths, Writes(Lines(len), Lines(len)),
         buffered' = <<>>
  PROVE  \A f \in Times : Bytes(disk'[f]) \in Nat /\ Bytes(disk'[f]) <= opened[f] * Limit
  <1>1. /\ \A f \in Times : f # fileName => disk'[f] = disk[f]
        /\ Bytes(disk'[fileName]) + Bytes(buffered') = Bytes(disk[fileName]) + Bytes(Lines(len))
        /\ Bytes(disk'[fileName]) \in Nat /\ Bytes(disk[fileName]) \in Nat
    BY WritesBytes
  <1>2. Bytes(Lines(len)) = Bytes(buffered) + len /\ Bytes(buffered) \in Nat /\ len \in Nat
    BY LinesBytes
  <1>3. Bytes(buffered') = 0
    BY EmptyBytes
  <1>4. /\ Limit = rollSize + Longest /\ len <= Longest /\ Longest \in Nat /\ rollSize \in Nat
        /\ writenBytes \in 0 .. rollSize /\ opened \in [Times -> Nat]
        /\ disk \in [Times -> Seq(Line)] /\ fileName \in Times
    BY LongestType, LogFileAssumption DEF FileTypeOK
  <1>5. opened[fileName] * Limit \in Nat
    BY <1>4, OneMore
  <1>6. Bytes(disk'[fileName]) <= opened[fileName] * Limit
    <2>1. Bytes(disk[fileName]) + Bytes(buffered) + Limit <= opened[fileName] * Limit + writenBytes
      BY DEF BytesInv
    <2>2. Bytes(disk'[fileName]) + 0 = Bytes(disk[fileName]) + (Bytes(buffered) + len)
      BY <1>1, <1>2, <1>3
    <2>3. writenBytes + len <= Limit /\ Limit \in Nat /\ writenBytes \in Nat
      BY <1>2, <1>4
    <2>4. \A d, b, d2, l, m, o, w \in Nat :
             d2 + 0 = d + (b + l) /\ w + l <= m /\ d + b + m <= o + w => d2 <= o
      OBVIOUS
    <2> QED BY <1>1, <1>2, <1>5, <2>1, <2>2, <2>3, <2>4
  <1>7. ASSUME NEW f \in Times, f # fileName
        PROVE  Bytes(disk'[f]) \in Nat /\ Bytes(disk'[f]) <= opened[f] * Limit
    <2>1. disk'[f] = disk[f] /\ disk[f] \in Seq(Line)
      BY <1>1, <1>4, <1>7
    <2>2. Bytes(disk[f]) \in Nat /\ Bytes(disk[f]) <= opened[f] * Limit
      BY <1>7, <2>1, BytesType DEF BytesInv
    <2> QED BY <2>1, <2>2
  <1> QED BY <1>1, <1>6, <1>7

\* append() keeps the bound, in the file it leaves and in the one it opens.
LEMMA AppendInBounds ==
  ASSUME IInv, BytesInv, NEW len \in Lengths, AppendLine(len)
  PROVE  BytesInv'
  <1>1. FileTypeOK /\ written < MaxLines
    BY DEF IInv, TypeOK, AppendLine
  <1>2. Lines(len) \in Seq(Line)
    BY <1>1, LinesType
  <1>3. ASSUME RollFile(Lines(len)) PROVE BytesInv'
    <2>1. /\ disk' = [disk EXCEPT ![fileName] = @ \o Lines(len)] /\ buffered' = <<>>
          /\ fileName' = now /\ writenBytes' = 0
          /\ opened' = [opened EXCEPT ![now] = @ + 1]
      BY <1>3 DEF RollFile, DiskAfterRoll, Appending
    <2>2. Writes(Lines(len), Lines(len))
      BY <1>2, <2>1, AllWritten
    <2>3. \A f \in Times : Bytes(disk'[f]) \in Nat /\ Bytes(disk'[f]) <= opened[f] * Limit
      BY <1>1, <2>1, <2>2, LastLineFits
    <2> QED BY <1>1, <2>1, <2>3, RollInBounds
  <1>4. ASSUME writenBytes' = BytesAfter(len), UNCHANGED <<fileName, opened>> PROVE BytesInv'
    <2>1. PICK out : Writes(Lines(len), out)
      BY AppendWrites
    <2>2. Bytes(Lines(len)) = Bytes(buffered) + len /\ len \in Nat
      BY <1>1, LinesBytes
    <2>3. writenBytes' = writenBytes + len
      BY <1>4 DEF BytesAfter, AddsBytes
    <2> QED BY <1>1, <1>4, <2>1, <2>2, <2>3, WritesInBounds
  <1>5. CASE AppendFull(len)
    BY <1>3, <1>5 DEF AppendFull
  <1>6. CASE AppendChecked(len)
    BY <1>3, <1>4, <1>6 DEF AppendChecked, AppendAndRoll, AppendAndFlush
  <1>7. CASE AppendPlain(len)
    BY <1>4, <1>7 DEF AppendPlain
  <1> QED BY <1>5, <1>6, <1>7 DEF AppendLine

\* LogFile::flush adds no byte.
LEMMA FlushInBounds ==
  ASSUME IInv, BytesInv, Flush
  PROVE  BytesInv'
  <1>1. /\ Writes(buffered, buffered)
        /\ fileName' = fileName /\ opened' = opened /\ writenBytes' = writenBytes
    BY FlushWrites
  <1>2. FileTypeOK /\ buffered \in Seq(Line) /\ writenBytes \in Nat
    BY LogFileAssumption DEF IInv, TypeOK, FileTypeOK
  <1>3. Bytes(buffered) = Bytes(buffered) + 0 /\ writenBytes = writenBytes + 0
    BY <1>2, BytesType
  <1>4. writenBytes' = writenBytes + 0
    BY <1>1, <1>3
  <1> QED BY <1>1, <1>2, <1>3, <1>4, WritesInBounds

\* A step outside LogFile.
LEMMA BytesUnchanged ==
  ASSUME BytesInv, UNCHANGED fileVars
  PROVE  BytesInv'
  <1>1. /\ disk' = disk /\ fileName' = fileName /\ buffered' = buffered
        /\ opened' = opened /\ writenBytes' = writenBytes
    BY DEF fileVars
  <1>2. Limit' = Limit
    BY DEF Limit, Longest
  <1>3. \A f \in Times : f # fileName' => Bytes(disk'[f]) <= opened'[f] * Limit
    BY <1>1 DEF BytesInv
  <1>4. Bytes(disk'[fileName']) + Bytes(buffered') + Limit <= opened'[fileName'] * Limit + writenBytes'
    BY <1>1 DEF BytesInv
  <1> QED BY <1>2, <1>3, <1>4 DEF BytesInv

\* Every step keeps the bound.
LEMMA StepKeepsBytes == IInv /\ BytesInv /\ [Next]_vars => BytesInv'
  <1> SUFFICES ASSUME IInv, BytesInv, [Next]_vars PROVE BytesInv'
    OBVIOUS
  <1>1. ASSUME NEW t \in Threads, LogMacro(t) PROVE BytesInv'
    BY <1>1, MacroStep, BytesUnchanged
  <1>2. ASSUME NEW t \in Threads, Output(t) PROVE BytesInv'
    BY <1>2, AppendInBounds DEF Output
  <1>3. ASSUME NEW t \in Threads, FatalFlush(t) PROVE BytesInv'
    BY <1>3, FlushInBounds DEF FatalFlush
  <1>4. ASSUME NEW t \in Threads, Abort(t) PROVE BytesInv'
    BY <1>4, BytesUnchanged DEF Abort
  <1>5. ASSUME SetLevel PROVE BytesInv'
    BY <1>5, BytesUnchanged DEF SetLevel
  <1>6. ASSUME Tick PROVE BytesInv'
    BY <1>6, BytesUnchanged DEF Tick
  <1>7. ASSUME UNCHANGED vars PROVE BytesInv'
    BY <1>7, BytesUnchanged DEF vars
  <1> QED BY <1>1, <1>2, <1>3, <1>4, <1>5, <1>6, <1>7 DEF Next

\* The first file is open, empty and opened once.
LEMMA InitInBounds == Init => BytesInv
  <1> SUFFICES ASSUME Init PROVE BytesInv
    OBVIOUS
  <1>1. /\ disk = [t \in Times |-> <<>>] /\ fileName = 0 /\ buffered = <<>> /\ writenBytes = 0
        /\ opened = [t \in Times |-> IF t = 0 THEN 1 ELSE 0]
    BY DEF Init, FileInit
  <1>2. 0 \in Times /\ Limit \in Nat
    BY LogFileAssumption, LongestType DEF Times
  <1>3. \A f \in Times : disk[f] = <<>>
    BY <1>1
  <1>4. Bytes(<<>>) = 0
    BY EmptyBytes
  <1>5. ASSUME NEW f \in Times, f # fileName PROVE Bytes(disk[f]) <= opened[f] * Limit
    <2>1. opened[f] = 0 /\ Bytes(disk[f]) = 0
      BY <1>1, <1>3, <1>4, <1>5
    <2>2. 0 * Limit = 0
      BY <1>2
    <2> QED BY <2>1, <2>2
  <1>6. Bytes(disk[fileName]) + Bytes(buffered) + Limit <= opened[fileName] * Limit + writenBytes
    <2>1. /\ opened[fileName] = 1 /\ Bytes(disk[fileName]) = 0 /\ Bytes(buffered) = 0
          /\ writenBytes = 0
      BY <1>1, <1>2, <1>3, <1>4
    <2>2. 0 + 0 + Limit <= 1 * Limit + 0
      BY <1>2
    <2> QED BY <2>1, <2>2
  <1> QED BY <1>5, <1>6 DEF BytesInv

\* writenBytes stays below rollSize, so the bound is what was to be shown.
LEMMA InBoundsFiles ==
  ASSUME IInv, BytesInv
  PROVE  FilesBounded
  <1> SUFFICES ASSUME NEW f \in Times
               PROVE  BytesOf(f) <= opened[f] * Limit
    BY DEF FilesBounded, Limit
  <1>1. /\ disk \in [Times -> Seq(Line)] /\ buffered \in Seq(Line) /\ opened \in [Times -> Nat]
        /\ writenBytes \in 0 .. rollSize /\ rollSize \in Nat
    BY LogFileAssumption DEF IInv, TypeOK, FileTypeOK
  <1>2. Bytes(disk[f]) \in Nat /\ Bytes(buffered) \in Nat
    BY <1>1, BytesType
  <1>3. CASE f # fileName
    <2>1. BytesOf(f) = Bytes(disk[f]) + 0
      BY <1>3 DEF BytesOf
    <2>2. BytesOf(f) = Bytes(disk[f])
      BY <1>2, <2>1
    <2> QED BY <1>3, <2>2 DEF BytesInv
  <1>4. CASE f = fileName
    <2>1. BytesOf(f) = Bytes(disk[f]) + Bytes(buffered)
      BY <1>4 DEF BytesOf
    <2>2. Bytes(disk[f]) + Bytes(buffered) + Limit <= opened[f] * Limit + writenBytes
      BY <1>4 DEF BytesInv
    <2>3. opened[f] * Limit \in Nat /\ Limit \in Nat /\ writenBytes \in Nat /\ writenBytes <= Limit
      BY <1>1, LongestType, OneMore
    <2>4. \A d, b, m, o, w \in Nat : d + b + m <= o + w /\ w <= m => d + b <= o
      OBVIOUS
    <2>5. Bytes(disk[f]) + Bytes(buffered) <= opened[f] * Limit
      BY <1>2, <2>2, <2>3, <2>4
    <2> QED BY <2>1, <2>5
  <1> QED BY <1>3, <1>4

\* A file holds at most rollSize and one line more for each time that its name
\* was opened, with what the stream still has for it.
THEOREM FilesStayBounded == Spec => []FilesBounded
  <1>1. Init => BytesInv
    BY InitInBounds
  <1>2. IInv /\ BytesInv => FilesBounded
    BY InBoundsFiles
  <1> QED BY <1>1, <1>2, LogInvariance, StepKeepsBytes, PTL DEF Spec
=============================================================================
