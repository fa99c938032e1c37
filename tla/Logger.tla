------------------------------- MODULE Logger --------------------------------
(***************************************************************************)
(* A statement LOG_LEVEL << message (base/Logging.h, base/Logging.cc,      *)
(* base/LogStream.h): a Logger on the stack of its thread formats the      *)
(* record into a buffer of fixed size, and its destructor hands the record *)
(* to the output function.  The default output is stdout, whose buffer is  *)
(* lost when the process aborts unless it was flushed.                     *)
(*                                                                         *)
(* A piece of text is its length, scaled down with the size of the buffer. *)
(* A message is a sequence of insertions of text or of a number.           *)
(***************************************************************************)
EXTENDS Naturals, Sequences

CONSTANTS
  LogThreads,
  kSmallBuffer, kMaxNumericSize,
  Messages,              \* sequences of <<"text" or "number", length>>
  Zones, UTC,            \* the time zones that may be set, and none set
  NoSecond,              \* t_lastSecond before a thread's first record
  MaxSecond, MaxHeld     \* bounds: seconds of the run, records stdout holds

Levels == <<"TRACE", "DEBUG", "INFO", "WARN", "ERROR", "FATAL">>

LevelOf(name) == CHOOSE k \in DOMAIN Levels : Levels[k] = name

VARIABLES
  g_logLevel, g_logTimeZone,
  t_lastSecond, t_time,  \* the cached time of each thread
  stream_,               \* the buffer of the Logger each thread has on its stack
  at,                    \* "between" statements, "streaming", or in ~Logger of a FATAL
                         \* record, before g_flush ("flush") or before "abort"
  level_,                \* the level of that Logger
  made,                  \* when it was made: second and zone
  last,                  \* the last record that was output
  held,                  \* the buffer of stdout: the thread of each record in it
  second,                \* the clock
  aborted                \* the thread that called abort, if any

vars == <<g_logLevel, g_logTimeZone, t_lastSecond, t_time, stream_, at, level_, made, last, held,
          second, aborted>>

clockVars == <<g_logLevel, g_logTimeZone, second>>

-----------------------------------------------------------------------------
(* FixedBuffer and LogStream *)

(* A buffer is what comes first in it, which is the time, and its length. *)
EmptyBuffer == [first |-> <<NoSecond, UTC>>, length |-> 0]

Avail(b) == kSmallBuffer - b.length

Add(b, len) == [b EXCEPT !.length = @ + len]

AppendText(b, len) == IF Avail(b) > len THEN Add(b, len) ELSE b

FormatInteger(b, len) == IF Avail(b) >= kMaxNumericSize THEN Add(b, len) ELSE b

Insert(b, message) ==
  LET after[k \in 0 .. Len(message)] ==
        IF k = 0 THEN b
        ELSE IF message[k][1] = "number" THEN FormatInteger(after[k - 1], message[k][2])
        ELSE AppendText(after[k - 1], message[k][2])
  IN  after[Len(message)]

-----------------------------------------------------------------------------
(* initLogLevel: by MUDUO_LOG_TRACE and MUDUO_LOG_DEBUG. *)
Init ==
  /\ g_logLevel \in {LevelOf("TRACE"), LevelOf("DEBUG"), LevelOf("INFO")}
  /\ g_logTimeZone = UTC
  /\ t_lastSecond = [t \in LogThreads |-> NoSecond]
  /\ t_time = [t \in LogThreads |-> <<NoSecond, UTC>>]
  /\ stream_ = [t \in LogThreads |-> EmptyBuffer]
  /\ at = [t \in LogThreads |-> "between"]
  /\ level_ = [t \in LogThreads |-> "INFO"]
  /\ made = [t \in LogThreads |-> <<NoSecond, UTC>>]
  /\ last = <<>>
  /\ held = <<>>
  /\ second = 0
  /\ aborted = {}

Tick ==
  /\ second < MaxSecond
  /\ second' = second + 1
  /\ UNCHANGED <<g_logLevel, g_logTimeZone, t_lastSecond, t_time, stream_, at, level_, made, last,
                 held, aborted>>

(* setLogLevel and setTimeZone; the program sets the zone before it logs.  *)
SetLogLevel(name) ==
  /\ g_logLevel' = LevelOf(name)
  /\ UNCHANGED <<g_logTimeZone, t_lastSecond, t_time, stream_, at, level_, made, last, held,
                 second, aborted>>

SetTimeZone(tz) ==
  /\ \A t \in LogThreads : t_lastSecond[t] = NoSecond
  /\ g_logTimeZone' = tz
  /\ UNCHANGED <<g_logLevel, t_lastSecond, t_time, stream_, at, level_, made, last, held,
                 second, aborted>>

(* The macros: only TRACE, DEBUG and INFO look at the level. *)
Enabled(name) == name \in {"TRACE", "DEBUG", "INFO"} => g_logLevel <= LevelOf(name)

(* Faulty: t_lastSecond without __thread. *)
FormatTime_OneSecond(t) ==
  IF second # t_lastSecond[t]
  THEN /\ t_lastSecond' = [u \in LogThreads |-> second]
       /\ t_time' = [t_time EXCEPT ![t] = <<second, g_logTimeZone>>]
  ELSE UNCHANGED <<t_lastSecond, t_time>>

FormatTime(t) ==
  IF second # t_lastSecond[t]
  THEN /\ t_lastSecond' = [t_lastSecond EXCEPT ![t] = second]
       /\ t_time' = [t_time EXCEPT ![t] = <<second, g_logTimeZone>>]
  ELSE UNCHANGED <<t_lastSecond, t_time>>

(* The constructor: time, microseconds, thread, level, error and function.   *)
(* The macros with a function name are TRACE and DEBUG; an error comes with  *)
(* LOG_SYSERR and LOG_SYSFATAL.                                              *)
Construct(t, name, savedErrno) ==
  /\ aborted = {}
  /\ at[t] = "between"
  /\ Len(held) < MaxHeld
  /\ Enabled(name)
  /\ savedErrno => name \in {"ERROR", "FATAL"}
  /\ FormatTime(t)
  /\ LET time  == AppendText(AppendText([EmptyBuffer EXCEPT !.first = t_time'[t]], 2), 1)
         named == AppendText(AppendText(time, 1), 1)
         error == AppendText(FormatInteger(AppendText(AppendText(named, 2), 1), 1), 1)
         head  == IF savedErrno THEN error ELSE named
     IN  stream_' = [stream_ EXCEPT ![t] = IF name \in {"TRACE", "DEBUG"}
                                           THEN AppendText(AppendText(head, 2), 1) ELSE head]
  /\ at' = [at EXCEPT ![t] = "streaming"]
  /\ level_' = [level_ EXCEPT ![t] = name]
  /\ made' = [made EXCEPT ![t] = <<second, g_logTimeZone>>]
  /\ UNCHANGED <<last, held, aborted>>
  /\ UNCHANGED clockVars

(* finish: the source file, the line and the end of the line. *)
Finish(b) ==
  AppendText(FormatInteger(AppendText(AppendText(AppendText(b, 1), 2), 1), 1), 1)

Record(t, m) ==
  <<[made |-> made[t], level |-> level_[t], buf |-> Finish(Insert(stream_[t], m))]>>

(* ~Logger goes on after g_output. *)
AfterOutput(t) == IF level_[t] = "FATAL" THEN "flush" ELSE "between"

(* The end of the statement: the message is inserted, and ~Logger writes the *)
(* record to stdout.                                                         *)
EndStatement(t, m) ==
  /\ aborted = {}
  /\ at[t] = "streaming"
  /\ last' = Record(t, m)
  /\ held' = Append(held, t)
  /\ stream_' = [stream_ EXCEPT ![t] = EmptyBuffer]
  /\ at' = [at EXCEPT ![t] = AfterOutput(t)]
  /\ level_' = [level_ EXCEPT ![t] = "INFO"]
  /\ made' = [made EXCEPT ![t] = EmptyBuffer.first]
  /\ UNCHANGED <<t_lastSecond, t_time, aborted>>
  /\ UNCHANGED clockVars

(* For a FATAL record, ~Logger flushes and aborts; other threads may log in  *)
(* between.                                                                  *)
FlushAndAbort(t) ==
  /\ aborted = {}
  /\ \/ at[t] = "flush" /\ held' = <<>> /\ at' = [at EXCEPT ![t] = "abort"]
        /\ aborted' = aborted
     \/ at[t] = "abort" /\ aborted' = {t} /\ UNCHANGED <<held, at>>
  /\ UNCHANGED <<t_lastSecond, t_time, stream_, level_, made, last>>
  /\ UNCHANGED clockVars

(* stdout writes out what it holds, whenever it likes to. *)
StdoutWrites ==
  /\ aborted = {}
  /\ held # <<>>
  /\ held' = <<>>
  /\ UNCHANGED <<t_lastSecond, t_time, stream_, at, level_, made, last, aborted>>
  /\ UNCHANGED clockVars

Next ==
  \/ Tick
  \/ \E name \in {"DEBUG", "INFO"} : SetLogLevel(name)
  \/ \E tz \in Zones : SetTimeZone(tz)
  \/ \E t \in LogThreads, savedErrno \in BOOLEAN, k \in DOMAIN Levels : Construct(t, Levels[k], savedErrno)
  \/ \E t \in LogThreads, m \in Messages : EndStatement(t, m)
  \/ \E t \in LogThreads : FlushAndAbort(t)
  \/ StdoutWrites

-----------------------------------------------------------------------------
(* A record never runs past its buffer, whatever is inserted: the numbers,   *)
(* which are written in place without a length, only go where the longest    *)
(* number fits.                                                              *)
RecordsFit == \A k \in DOMAIN last : last[k].buf.length < kSmallBuffer

(* The time of a record is the second, in the zone, at which its Logger was  *)
(* made: the text a thread cached is never that of another second, however   *)
(* the statements of the threads interleave with the clock.                  *)
TimesAreRight == \A k \in DOMAIN last : last[k].buf.first = last[k].made

(* When a thread has aborted, no record of its own is left in the buffer of  *)
(* stdout, the FATAL one and those before it, though other threads log       *)
(* between g_flush and abort (Logging.cc:223-229).                           *)
NothingLostAtAbort == \A t \in aborted : \A k \in DOMAIN held : held[k] # t

==============================================================================
