--------------------------- MODULE DataComponents ----------------------------
(***************************************************************************)
(* Logger, Calendar and TimeZone side by side, each with variables of its  *)
(* own, and what is checked and proved of them.                            *)
(***************************************************************************)
EXTENDS Integers, Sequences

CONSTANTS
  LogThreads, kSmallBuffer, kMaxNumericSize,         \* of Logger
  Messages, Zones, UTC, NoSecond, MaxSecond, MaxHeld,
  FirstDays, MaxDays, Instants,                      \* of Calendar
  ZoneFiles, DayUnits, HourUnits, LastTime           \* of TimeZone

VARIABLES
  g_logLevel, g_logTimeZone, t_lastSecond, t_time, stream_, at, level_, made, last, held, second,
  aborted,
  date, julian, weekday, yearday, walked,
  zone, time

L == INSTANCE Logger

loggerVars == <<g_logLevel, g_logTimeZone, t_lastSecond, t_time, stream_, at, level_, made,
                last, held, second, aborted>>

D == INSTANCE Calendar

dateVars == <<date, julian, weekday, yearday, walked>>

Z == INSTANCE TimeZone

zoneVars == <<zone, time>>

-----------------------------------------------------------------------------
(* A number is shorter than kMaxNumericSize, for which room is left, and no  *)
(* time of day is the NoSecond of a thread that has not logged.              *)
ASSUME LoggerAssumption ==
  /\ kSmallBuffer \in Nat \ {0}
  /\ kMaxNumericSize \in Nat \ {0, 1}
  /\ Messages \subseteq Seq({"text", "number"} \X Nat)
  /\ \A m \in Messages : \A k \in DOMAIN m : m[k][1] = "number" => m[k][2] < kMaxNumericSize
  /\ NoSecond \notin Nat

(* The walks begin on the first of January of a year that is not negative.  *)
ASSUME CalendarAssumption ==
  /\ \A d \in FirstDays : d[1] \in Nat /\ d = <<d[1], 1, 1>>
  /\ \A s \in Instants : s \in Nat /\ s < D!kSecondsPerDay

(* The local time that is in force after the first k transitions of a file. *)
TypeAfter(f, k) == IF k = 0 THEN f.types[1] ELSE f.types[f.trans[k].type]

(* The transitions of a zone file are more than an hour apart and in order,  *)
(* in UTC and in local time; the clock goes back only at the end of summer   *)
(* time, by an hour.                                                         *)
ZoneFile(f) ==
  /\ f.types \in Seq([gmtOffset : Int, isDst : BOOLEAN]) /\ f.types # <<>>
  /\ f.trans \in Seq([at : Int, type : DOMAIN f.types])
  /\ \A k, m \in DOMAIN f.trans : k < m =>
       /\ f.trans[k].at + HourUnits < f.trans[m].at
       /\ f.trans[k].at + TypeAfter(f, k).gmtOffset < f.trans[m].at + TypeAfter(f, m).gmtOffset
  /\ \A k \in DOMAIN f.trans :
       TypeAfter(f, k).gmtOffset < TypeAfter(f, k - 1).gmtOffset =>
         /\ TypeAfter(f, k - 1).isDst /\ ~TypeAfter(f, k).isDst
         /\ TypeAfter(f, k - 1).gmtOffset = TypeAfter(f, k).gmtOffset + HourUnits

ASSUME TimeZoneAssumption ==
  /\ DayUnits \in Nat \ {0} /\ HourUnits \in Nat
  /\ \A f \in ZoneFiles : ZoneFile(f)

-----------------------------------------------------------------------------
(* Logger: a record fits in the buffer of its LogStream, carries the time that *)
(* formatTime would write without its cache, and is flushed before the abort   *)
(* of a FATAL one.                                                             *)
RecordsRight == L!RecordsFit /\ L!TimesAreRight /\ L!NothingLostAtAbort

(* Calendar: Date.cc agrees with the calendar, and fromUtcTime is the inverse  *)
(* of toUtcTime.                                                               *)
DatesAgree == D!DatesAgree /\ D!UtcRoundTrip

(* TimeZone: findLocaltime takes the last transition, and fromLocalTime is the *)
(* inverse of toLocalTime.                                                     *)
LocalRoundTrip == Z!LocalByLastTransition /\ Z!LocalRoundTrip

==============================================================================
