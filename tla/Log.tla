--------------------------------- MODULE Log ---------------------------------
(***************************************************************************)
(* tools/log/Log with its output and flush set to a LogFile, as in examples *)
(* /log/LogFile_test.cpp.  A log statement makes a Log object, formats one  *)
(* line into it, and the destructor hands the line to the output function;  *)
(* after a FATAL line it calls the flush function and aborts.  Threads log  *)
(* concurrently, and an abort takes all of them with it.  The model ends    *)
(* where a statement hands errno to %s.                                     *)
(***************************************************************************)
EXTENDS LogFile

CONSTANT Threads

LogLevel == {"DEBUG", "INFO", "WARN", "ERROR", "FATAL"}
Rank == [DEBUG |-> 0, INFO |-> 1, WARN |-> 2, ERROR |-> 3, FATAL |-> 4]

\* The macros by the threshold they test, and the level of each.
Tested == [LOG_DEBUG |-> "DEBUG", LOG_INFO |-> "INFO", LOG_WARN |-> "WARN"]
Untested == [LOG_ERR |-> "ERROR", LOG_FATAL |-> "FATAL",
             LOG_SYSERR |-> "ERROR", LOG_SYSFATAL |-> "FATAL"]

VARIABLES thresholdLevel,
          pc,             \* where each thread is in a log statement
          fatalLine,      \* history: the number of a thread's FATAL line, or 0
          aborted

logVars == <<thresholdLevel, pc, fatalLine, aborted>>
vars == <<now, fileVars, logVars>>

Steps == {"idle", "line", "fatal", "flush", "abort", "undefined"}

TypeOK == /\ FileTypeOK
          /\ thresholdLevel \in LogLevel
          /\ pc \in [Threads -> Steps]
          /\ fatalLine \in [Threads -> 0 .. MaxLines]
          /\ aborted \in BOOLEAN

\* init_threshold_level reads it from the environment.
Init == /\ FileInit
        /\ thresholdLevel \in {"DEBUG", "INFO", "WARN"}
        /\ pc = [t \in Threads |-> "idle"]
        /\ fatalLine = [t \in Threads |-> 0]
        /\ aborted = FALSE

Goto(t, from, to) == pc[t] = from /\ pc' = [pc EXCEPT ![t] = to]

\* A Log object is made and its line formatted.
Statement(t, level) ==
    /\ Goto(t, "idle", IF level = "FATAL" THEN "fatal" ELSE "line")
    /\ UNCHANGED <<now, fileVars, thresholdLevel, fatalLine, aborted>>

\* LOG_SYSERR and LOG_SYSFATAL save errno.  When it is not 0, log() hands the
\* number to %s: it is read as a pointer, and anything may follow.
ErrnoAsString(t, macro) ==
    /\ macro \in {"LOG_SYSERR", "LOG_SYSFATAL"}
    /\ Goto(t, "idle", "undefined")
    /\ UNCHANGED <<now, fileVars, thresholdLevel, fatalLine, aborted>>

\* The macros: three of them test the threshold.
LogMacro(t) ==
    \/ \E m \in DOMAIN Tested : /\ Rank[Tested[m]] >= Rank[thresholdLevel]
                               /\ Statement(t, Tested[m])
    \/ \E m \in DOMAIN Untested : Statement(t, Untested[m]) \/ ErrnoAsString(t, m)

\* m_output(...) in ~Log, bound to LogFile::append.
Output(t) == \E len \in Lengths :
    /\ AppendLine(len)
    /\ \/ Goto(t, "line", "idle") /\ UNCHANGED fatalLine
       \/ Goto(t, "fatal", "flush") /\ fatalLine' = [fatalLine EXCEPT ![t] = written + 1]
    /\ UNCHANGED <<thresholdLevel, aborted>>

\* m_flush(), bound to LogFile::flush.
FatalFlush(t) == /\ Goto(t, "flush", "abort")
                 /\ Flush
                 /\ UNCHANGED <<thresholdLevel, fatalLine, aborted>>

Abort(t) == /\ pc[t] = "abort"
            /\ aborted' = TRUE
            /\ UNCHANGED <<now, fileVars, thresholdLevel, pc, fatalLine>>

\* set_level with any LogLevel; with a name it can set two of them.
SetLevel == /\ thresholdLevel' \in LogLevel \ {thresholdLevel}
            /\ UNCHANGED <<now, fileVars, pc, fatalLine, aborted>>

\* An abort ends every thread, and undefined behaviour is not followed further.
Running == ~aborted /\ \A t \in Threads : pc[t] # "undefined"

Next == /\ Running
        /\ \/ \E t \in Threads : LogMacro(t) \/ Output(t) \/ FatalFlush(t) \/ Abort(t)
           \/ SetLevel
           \/ Tick /\ UNCHANGED logVars

Spec == Init /\ [][Next]_vars
-----------------------------------------------------------------------------
(* Safety *)

OnDisk == UNION {{disk[f][i].no : i \in DOMAIN disk[f]} : f \in Times}

\* A thread about to abort has its FATAL line on the disk, with all that was
\* written before it, whatever the other threads logged meanwhile.  A line of
\* LOG_SYSFATAL that finds errno set does not get so far: see ErrnoAsString.
FatalOnDisk == \A t \in Threads : pc[t] = "abort" => 1 .. fatalLine[t] \subseteq OnDisk
=============================================================================
