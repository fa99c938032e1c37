------------------------------ MODULE Calendar -------------------------------
(***************************************************************************)
(* Date (base/Date.cc) and the conversions of TimeZone between seconds and *)
(* a struct tm in UTC (base/TimeZone.cc), in the integer arithmetic of C,  *)
(* whose / and % truncate.  The reference is the Gregorian calendar,       *)
(* walked one day at a time.                                               *)
(***************************************************************************)
EXTENDS Integers

CONSTANTS
  FirstDays,             \* dates at which a walk begins, <<year, month, day>>
  MaxDays,               \* bound: the days of a walk
  Instants               \* seconds of a day at which a time is converted

Quotient(a, b) == IF a >= 0 THEN a \div b ELSE -((-a) \div b)

Remainder(a, b) == a - b * Quotient(a, b)

GetJulianDayNumber(year, month, day) ==
  LET a == Quotient(14 - month, 12)
      y == year + 4800 - a
      m == month + 12 * a - 3
  IN  day + Quotient(153 * m + 2, 5) + y * 365 + Quotient(y, 4) - Quotient(y, 100)
        + Quotient(y, 400) - 32045

(* Faulty: the months are counted from January. *)
GetYearMonthDay_NoShift(julianDayNumber) ==
  LET a == julianDayNumber + 32044
      b == Quotient(4 * a + 3, 146097)
      c == a - Quotient(b * 146097, 4)
      d == Quotient(4 * c + 3, 1461)
      e == c - Quotient(1461 * d, 4)
      m == Quotient(5 * e + 2, 153)
  IN  <<b * 100 + d - 4800, m + 3 - 12 * Quotient(m, 10), e - Quotient(153 * m + 2, 5) + 1>>

GetYearMonthDay(julianDayNumber) ==
  LET a == julianDayNumber + 32044
      b == Quotient(4 * a + 3, 146097)
      c == a - Quotient(b * 146097, 4)
      d == Quotient(4 * c + 3, 1461)
      e == c - Quotient(1461 * d, 4)
      m == Quotient(5 * e + 2, 153)
  IN  <<b * 100 + d - 4800 + Quotient(m, 10), m + 3 - 12 * Quotient(m, 10),
        e - Quotient(153 * m + 2, 5) + 1>>

kJulianDayOf1970_01_01 == GetJulianDayNumber(1970, 1, 1)

WeekDay(julianDayNumber) == Remainder(julianDayNumber + 1, 7)

kSecondsPerDay == 86400

FillHMS(seconds) ==
  <<Quotient(Quotient(seconds, 60), 60), Remainder(Quotient(seconds, 60), 60), Remainder(seconds, 60)>>

(* The days and seconds of a time that may be before 1970. *)
SplitDays_Truncated(t) == <<Quotient(t, kSecondsPerDay), Remainder(t, kSecondsPerDay)>>

SplitDays(t) ==
  LET seconds == Remainder(t, kSecondsPerDay)
      days    == Quotient(t, kSecondsPerDay)
  IN  IF seconds < 0 THEN <<days - 1, seconds + kSecondsPerDay>> ELSE <<days, seconds>>

ToUtcTime(t) ==
  LET date == SplitDays(t)[1] + kJulianDayOf1970_01_01
      ymd  == GetYearMonthDay(date)
  IN  [tm_year |-> ymd[1] - 1900, tm_mon |-> ymd[2] - 1, tm_mday |-> ymd[3],
       hms     |-> FillHMS(SplitDays(t)[2]),
       tm_wday |-> WeekDay(date),
       tm_yday |-> date - GetJulianDayNumber(ymd[1], 1, 1)]

FromUtcTime(utc) ==
  LET days == GetJulianDayNumber(utc.tm_year + 1900, utc.tm_mon + 1, utc.tm_mday)
                - kJulianDayOf1970_01_01
  IN  days * kSecondsPerDay + utc.hms[1] * 3600 + utc.hms[2] * 60 + utc.hms[3]

-----------------------------------------------------------------------------
VARIABLES
  date,                  \* the date of the walk, <<year, month, day>>
  julian,                \* the Julian day number of that date
  weekday, yearday,      \* and where it is in its week and its year
  walked                 \* days since the beginning of the walk

vars == <<date, julian, weekday, yearday, walked>>

Leap(year) == (year % 4 = 0 /\ year % 100 # 0) \/ year % 400 = 0

DaysIn(year, month) ==
  CASE month = 2 -> IF Leap(year) THEN 29 ELSE 28
    [] month \in {4, 6, 9, 11} -> 30
    [] OTHER -> 31

(* Every walk begins on the first of January, whose weekday follows from     *)
(* 1970-01-01, a Thursday, by the number of days in between.                 *)
DaysBefore(year) ==
  (year - 1) * 365 + (year - 1) \div 4 - (year - 1) \div 100 + (year - 1) \div 400

Init ==
  /\ date \in FirstDays
  /\ julian = GetJulianDayNumber(date[1], date[2], date[3])
  /\ weekday = (DaysBefore(date[1]) + 1) % 7
  /\ yearday = 0
  /\ walked = 0

NextDay ==
  /\ walked < MaxDays
  /\ walked' = walked + 1
  /\ julian' = julian + 1
  /\ weekday' = (weekday + 1) % 7
  /\ date' = CASE date[3] < DaysIn(date[1], date[2]) -> <<date[1], date[2], date[3] + 1>>
               [] date[3] = DaysIn(date[1], date[2]) /\ date[2] < 12 -> <<date[1], date[2] + 1, 1>>
               [] date[3] = DaysIn(date[1], date[2]) /\ date[2] = 12 -> <<date[1] + 1, 1, 1>>
  /\ yearday' = IF date'[1] = date[1] THEN yearday + 1 ELSE 0

Next == NextDay

-----------------------------------------------------------------------------
(* The formulas of Date.cc agree with the calendar on every day, in both     *)
(* directions, across the ends of months, leap days and centuries.           *)
DatesAgree ==
  /\ GetJulianDayNumber(date[1], date[2], date[3]) = julian
  /\ GetYearMonthDay(julian) = date
  /\ WeekDay(julian) = weekday

(* A time of the day: toUtcTime gives the right date, weekday and day of the  *)
(* year, and fromUtcTime takes it back.                                       *)
UtcTimeRight(days, s) ==
  LET utc == ToUtcTime(days * kSecondsPerDay + s)
  IN  /\ FromUtcTime(utc) = days * kSecondsPerDay + s
      /\ <<utc.tm_year + 1900, utc.tm_mon + 1, utc.tm_mday>> = date
      /\ <<utc.tm_wday, utc.tm_yday>> = <<weekday, yearday>>

(* The days whose seconds fit in 31 bits, before and after 1970. *)
In31Bits(days) == days \in -24000 .. 24000

(* The conversions between seconds and UTC are right at every instant of such *)
(* a day, before 1970 as well, where / and % of C truncate.                   *)
UtcRoundTrip ==
  LET days == julian - kJulianDayOf1970_01_01
  IN  In31Bits(days) => \A s \in Instants : UtcTimeRight(days, s)

==============================================================================
