--------------------------------- MODULE Times ---------------------------------
(***************************************************************************)
(* Instants and their texts (src/common/time.cpp), and the stamp that      *)
(* names a journal segment (src/data/journal.cpp).                         *)
(*                                                                         *)
(* A text is the record of what its fixed-width fields hold: Odd stands    *)
(* for a field, a separator or a zone that is not of its form.  The hour,  *)
(* the minute, the second and the kept fraction have as many units as the  *)
(* constants say; the calendar is the real one.                            *)
(*                                                                         *)
(* Against it runs a clock on a wall that knows no arithmetic: it counts   *)
(* units up and carries into the next field, to the calendar's next day.   *)
(***************************************************************************)
EXTENDS Numerals, Sequences

CONSTANTS
  Odd,
  HoursPerDay, MinutesPerHour, SecondsPerMinute,
  kKeptFractionalDigits,
  Midnights,     \* bound: when the clock may be started, as dates
  DaysWatched,   \* bound: days that it then runs for
  Zones          \* offsets other than Z that a text may have

ASSUME TimesAssumption ==
  /\ {HoursPerDay, MinutesPerHour, SecondsPerMinute, DaysWatched} \subseteq Nat \ {0}
  /\ kKeptFractionalDigits \in Nat

VARIABLES
  wall,     \* the fields that the wall clock shows
  elapsed,  \* units since it was started
  started   \* the instant at which it was

clock == <<wall, elapsed, started>>

UnitsPerSecond == power_of_ten[kKeptFractionalDigits]
UnitsPerMinute == SecondsPerMinute * UnitsPerSecond
UnitsPerHour == MinutesPerHour * UnitsPerMinute
UnitsPerDay == HoursPerDay * UnitsPerHour

-----------------------------------------------------------------------------
(***************************************************************************)
(* std::chrono's calendar: proleptic Gregorian, days counted from 1970.    *)
(***************************************************************************)
IsLeap(year) == year % 4 = 0 /\ (year % 100 # 0 \/ year % 400 = 0)

DaysIn(year, month) ==
  IF month = 2 THEN (IF IsLeap(year) THEN 29 ELSE 28)
  ELSE IF month \in {4, 6, 9, 11} THEN 30 ELSE 31

Exists(date) ==
  /\ date.month \in 1..12
  /\ date.day \in 1 .. DaysIn(date.year, date.month)

DaysBeforeYear(year) ==
  365 * (year - 1970)
    + ((year - 1) \div 4 - (year - 1) \div 100 + (year - 1) \div 400) - 477

DaysBeforeMonth(year, month) ==
  <<0, 31, 59, 90, 120, 151, 181, 212, 243, 273, 304, 334>>[month]
    + (IF month > 2 /\ IsLeap(year) THEN 1 ELSE 0)

DaysOf(date) ==
  DaysBeforeYear(date.year) + DaysBeforeMonth(date.year, date.month) + date.day - 1

\* The last year, then the last month, that has begun.
DateOf(days) ==
  LET guess == 1970 + (days * 400) \div 146097
      year  == CHOOSE y \in guess - 1 .. guess + 1 :
                 DaysBeforeYear(y) <= days /\ days < DaysBeforeYear(y + 1)
      day   == days - DaysBeforeYear(year)
      month == CHOOSE m \in 1..12 :
                 /\ DaysBeforeMonth(year, m) <= day
                 /\ m < 12 => day < DaysBeforeMonth(year, m + 1)
  IN  [year |-> year, month |-> month, day |-> day - DaysBeforeMonth(year, month) + 1]

Dates == [year : Int, month : 1..12, day : 1..31]

-----------------------------------------------------------------------------
(***************************************************************************)
(* Texts.  `fraction` is a sequence of digits, empty when there is no      *)
(* point; `zone` is Z, an offset, or Odd.                                  *)
(***************************************************************************)
Z == [sign |-> 0, hours |-> 0, minutes |-> 0]

ASSUME ClockAssumption ==
  /\ \A date \in Midnights : date \in Dates /\ Exists(date)
  /\ \A zone \in Zones : /\ zone.sign \in {-1, 1}
                         /\ zone.hours \in 0 .. HoursPerDay - 1
                         /\ zone.minutes \in 0 .. MinutesPerHour - 1
  /\ Odd \notin Int \cup Seq(0..9) \cup Zones \cup {Z}

\* Only the leading digits count; a short run is padded.
KeptFraction(fraction) ==
  LET kept[i \in 0..kKeptFractionalDigits] ==
        IF i = 0 THEN 0
        ELSE kept[i - 1] * 10 + (IF i <= Len(fraction) THEN fraction[i] ELSE 0)
  IN  kept[kKeptFractionalDigits]

Malformed(written) == \E name \in DOMAIN written : written[name] = Odd

Offset(zone) == zone.sign * (zone.hours * UnitsPerHour + zone.minutes * UnitsPerMinute)

\* Faulty: the offset is added.
InstantOfOffsetAdded(written) ==
  DaysOf(written) * UnitsPerDay + written.hour * UnitsPerHour
    + written.minute * UnitsPerMinute + written.second * UnitsPerSecond
    + KeptFraction(written.fraction) + Offset(written.zone)

InstantOf(written) ==
  DaysOf(written) * UnitsPerDay + written.hour * UnitsPerHour
    + written.minute * UnitsPerMinute + written.second * UnitsPerSecond
    + KeptFraction(written.fraction) - Offset(written.zone)

\* Faulty: any day from 1 to 31 is taken for one of the month.
RefusalAnyDay(written) ==
  IF Malformed(written) THEN "MalformedFormat"
  ELSE IF written.zone.hours >= HoursPerDay \/ written.zone.minutes >= MinutesPerHour
  THEN "InvalidOffset"
  ELSE IF ~(written.month \in 1..12 /\ written.day \in 1..31) THEN "InvalidDate"
  ELSE IF \/ written.hour >= HoursPerDay
          \/ written.minute >= MinutesPerHour
          \/ written.second >= SecondsPerMinute
  THEN "InvalidTime"
  ELSE "none"

\* Why parse_rfc3339 refuses a text.
Refusal(written) ==
  IF Malformed(written) THEN "MalformedFormat"
  ELSE IF written.zone.hours >= HoursPerDay \/ written.zone.minutes >= MinutesPerHour
  THEN "InvalidOffset"
  ELSE IF ~Exists(written) THEN "InvalidDate"
  ELSE IF \/ written.hour >= HoursPerDay
          \/ written.minute >= MinutesPerHour
          \/ written.second >= SecondsPerMinute
  THEN "InvalidTime"
  ELSE "none"

\* Faulty: truncated towards the epoch and not towards the past.
FlooredTowardsEpoch(instant) ==
  IF instant >= 0 THEN instant \div UnitsPerDay ELSE -((-instant) \div UnitsPerDay)

\* The day in which an instant is, before 1970 as after it.
Floored(instant) == instant \div UnitsPerDay

format_rfc3339(instant) ==
  LET date == DateOf(Floored(instant))
      time == instant - Floored(instant) * UnitsPerDay
  IN  [year     |-> date.year,
       month    |-> date.month,
       day      |-> date.day,
       hour     |-> time \div UnitsPerHour,
       minute   |-> (time % UnitsPerHour) \div UnitsPerMinute,
       second   |-> (time % UnitsPerMinute) \div UnitsPerSecond,
       fraction |-> Numeral(time % UnitsPerSecond, kKeptFractionalDigits),
       zone     |-> Z]

\* Faulty: the day comes before the month.
segment_stampDayFirst(instant) ==
  LET text == format_rfc3339(instant)
  IN  <<text.year, text.day, text.month, text.hour, text.minute, text.second>>

\* The name's digits, cut off at the second.
segment_stamp(instant) ==
  LET text == format_rfc3339(instant)
  IN  <<text.year, text.month, text.day, text.hour, text.minute, text.second>>

-----------------------------------------------------------------------------
(***************************************************************************)
(* The clock on the wall.                                                  *)
(***************************************************************************)
At0(date) ==
  [year |-> date.year, month |-> date.month, day |-> date.day,
   hour |-> 0, minute |-> 0, second |-> 0, unit |-> 0]

TimeInit(midnights) ==
  \E date \in midnights :
    /\ wall = At0(date)
    /\ elapsed = 0
    /\ started = DaysOf(date) * UnitsPerDay

Carry(shown, lower, limit, next) ==
  IF shown[lower] + 1 < limit THEN [shown EXCEPT ![lower] = @ + 1]
  ELSE [next EXCEPT ![lower] = 0]

Tomorrow(shown) ==
  IF shown.day < DaysIn(shown.year, shown.month) THEN [shown EXCEPT !.day = @ + 1]
  ELSE IF shown.month < 12 THEN [shown EXCEPT !.month = @ + 1, !.day = 1]
  ELSE [shown EXCEPT !.year = @ + 1, !.month = 1, !.day = 1]

Ticked(shown) ==
  LET hours   == Carry(shown, "hour", HoursPerDay, Tomorrow(shown))
      minutes == Carry(shown, "minute", MinutesPerHour, hours)
      seconds == Carry(shown, "second", SecondsPerMinute, minutes)
  IN  Carry(shown, "unit", UnitsPerSecond, seconds)

Tick ==
  /\ elapsed < DaysWatched * UnitsPerDay
  /\ wall' = Ticked(wall)
  /\ elapsed' = elapsed + 1
  /\ UNCHANGED started

TimeSpec == TimeInit(Midnights) /\ [][Tick]_clock

-----------------------------------------------------------------------------
now == started + elapsed

\* A clock that has never ticked is not looked at.
Watched == elapsed > 0

\* The text of the wall clock, hung in a zone.
WallText(zone, finer) ==
  [year |-> wall.year, month |-> wall.month, day |-> wall.day, hour |-> wall.hour,
   minute |-> wall.minute, second |-> wall.second,
   fraction |-> Numeral(wall.unit, kKeptFractionalDigits) \o finer, zone |-> zone]

\* An instant is written as the wall clock shows it, before 1970, across leap
\* days and the ends of centuries (time.cpp:176-192), and the text is read back
\* as the same instant, digits below the resolution being cut off
\* (time.cpp:104-121).
WrittenAsShown ==
  Watched =>
    /\ format_rfc3339(now) = WallText(Z, <<>>)
    /\ \A finer \in {<<>>, <<0>>, <<9, 9>>} :
         LET text == WallText(Z, finer)
         IN  Refusal(text) = "none" /\ InstantOf(text) = now

\* The same instant is read from the clocks of two zones that show it: a clock
\* ahead by an offset shows now what this one shows later by that much
\* (time.cpp:164-172).
ZonesAgree ==
  Watched => \A zone \in Zones :
    LET shown == [format_rfc3339(now + Offset(zone)) EXCEPT !.zone = zone]
    IN  Refusal(shown) = "none" /\ InstantOf(shown) = now

\* A text is taken only for a moment that exists: no date of another month, no
\* 24th hour and no 60th second is folded into the next (time.cpp:150-160).
NothingIsFolded ==
  Watched => \A month \in 0..13, day \in 0..32, more \in {0, 1} :
    LET text == [WallText(Z, <<>>) EXCEPT !.month = month, !.day = day,
                                          !.hour = @ + more, !.second = @ + more]
    IN  Refusal(text) = "none" => format_rfc3339(InstantOf(text)) = text

\* Names sort into the order of their seconds (journal.cpp:41-43,
\* journal.hpp:143-145), as long as the clock does not go back.
Precedes(a, b) ==
  \E i \in DOMAIN a : a[i] < b[i] /\ \A j \in 1 .. i - 1 : a[j] = b[j]

StampsSort ==
  [][LET before == segment_stamp(now)
         after  == segment_stamp(now')
     IN  IF wall'.unit = 0 THEN Precedes(before, after) ELSE before = after]_clock
=============================================================================
