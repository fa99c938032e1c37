------------------------------ MODULE TimeZone -------------------------------
(***************************************************************************)
(* TimeZone (base/TimeZone.cc): local time by the transitions of a zone    *)
(* file.  Time is counted in units of half an hour; a struct tm is the     *)
(* day, the time of the day (its tm_hour and tm_min) and tm_isdst.  A zone *)
(* file is its transitions, [at, type], and its types, [gmtOffset, isDst]; *)
(* it is one that can be read and whose offsets differ by the hour that    *)
(* summer time adds.                                                       *)
(***************************************************************************)
EXTENDS Integers, Sequences

CONSTANTS
  ZoneFiles,             \* the zone files
  DayUnits, HourUnits,   \* units in a day, and in the 3600 seconds of the code
  LastTime               \* bound: the times converted are 0 .. LastTime

Localtime(offset, isDst) == [gmtOffset |-> offset, isDst |-> isDst]

(* readTimeZoneFile: the local time of a transition is by its new offset. *)
ReadTimeZoneFile(file) ==
  [localtimes  |-> file.types,
   transitions |-> [k \in DOMAIN file.trans |->
     [gmttime      |-> file.trans[k].at,
      localtime    |-> file.trans[k].at + file.types[file.trans[k].type].gmtOffset,
      localtimeIdx |-> file.trans[k].type]]]

(* The zone of TimeZone(eastOfUtc, name). *)
FixedZone(eastOfUtc) == [localtimes |-> <<Localtime(eastOfUtc, FALSE)>>, transitions |-> <<>>]

(* The key that Comp compares. *)
Key(transition, gmt) == IF gmt THEN transition.gmttime ELSE transition.localtime

(* lower_bound, by its definition: the first transition that is not less. *)
LowerBound(data, key, gmt) ==
  CHOOSE k \in 1 .. Len(data.transitions) + 1 :
    /\ k <= Len(data.transitions) => Key(data.transitions[k], gmt) >= key
    /\ \A m \in 1 .. k - 1 : Key(data.transitions[m], gmt) < key

FindLocaltime(data, key, gmt) ==
  IF data.transitions = <<>> \/ key < Key(data.transitions[1], gmt)
  THEN data.localtimes[1]
  ELSE LET k == LowerBound(data, key, gmt)
           j == IF k <= Len(data.transitions) /\ Key(data.transitions[k], gmt) = key
                THEN k ELSE k - 1
       IN  data.localtimes[data.transitions[j].localtimeIdx]

Gmtime(t) == [day |-> t \div DayUnits, hm |-> t % DayUnits]

Timegm(tm) == tm.day * DayUnits + tm.hm

ToLocalTime(data, t) ==
  LET local == FindLocaltime(data, t, TRUE)
  IN  [day |-> Gmtime(t + local.gmtOffset).day, hm |-> Gmtime(t + local.gmtOffset).hm,
       tm_isdst |-> local.isDst]

(* Faulty: tm_isdst is not looked at. *)
FromLocalTime_IgnoreDst(data, tm) == Timegm(tm) - FindLocaltime(data, Timegm(tm), FALSE).gmtOffset

FromLocalTime(data, tm) ==
  LET seconds == Timegm(tm)
      local   == FindLocaltime(data, seconds, FALSE)
      try     == ToLocalTime(data, seconds - local.gmtOffset)
  IN  IF tm.tm_isdst /\ ~try.tm_isdst /\ try.hm = tm.hm
      THEN seconds - HourUnits - local.gmtOffset
      ELSE seconds - local.gmtOffset

-----------------------------------------------------------------------------
VARIABLES zone, time

vars == <<zone, time>>

Init ==
  /\ zone \in {ReadTimeZoneFile(f) : f \in ZoneFiles} \cup {FixedZone(k * HourUnits) : k \in {-5, 8}}
  /\ time = 0

Next ==
  /\ time < LastTime
  /\ time' = time + 1
  /\ UNCHANGED zone

(* The type of the last transition at or before a time. *)
TypeAt(data, t) ==
  LET before == {k \in DOMAIN data.transitions : data.transitions[k].gmttime <= t}
  IN  IF before = {} THEN data.localtimes[1]
      ELSE data.localtimes[data.transitions[CHOOSE k \in before : \A m \in before : m <= k].localtimeIdx]

(* Local time is by the last transition at or before the time, also at the   *)
(* transition itself, and before the first one and after the last one.       *)
LocalByLastTransition ==
  ToLocalTime(zone, time) =
    LET type == TypeAt(zone, time)
    IN  [day |-> (time + type.gmtOffset) \div DayUnits, hm |-> (time + type.gmtOffset) % DayUnits,
         tm_isdst |-> type.isDst]

(* A local time goes back to the time it came from, also in the hour that    *)
(* comes twice, by its tm_isdst.                                             *)
LocalRoundTrip == FromLocalTime(zone, ToLocalTime(zone, time)) = time

==============================================================================
