------------------------------- MODULE Dates --------------------------------
(***************************************************************************)
(* Dates and timestamps of sql/src/value.rs.  A date is a number of days   *)
(* from 1970-01-01; a timestamp is in microseconds in the code and in      *)
(* seconds here, since the fraction of a second is only carried along.     *)
(***************************************************************************)
EXTENDS Integers

\* Rust's / and % round toward zero; rem_euclid is TLA+'s %
Quot(a, b) == IF a >= 0 THEN a \div b ELSE -((-a) \div b)
Rem(a, b) == a - b * Quot(a, b)

\* days_from_ymd; the division of era is outside the IF of the code
DaysFromYmd(year, m, d) ==
  LET y   == IF m <= 2 THEN year - 1 ELSE year
      era == Quot(IF y >= 0 THEN y ELSE y - 399, 400)
      yoe == y - era * 400
      doy == Quot(153 * (IF m > 2 THEN m - 3 ELSE m + 9) + 2, 5) + d - 1
      doe == yoe * 365 + Quot(yoe, 4) - Quot(yoe, 100) + doy
  IN  era * 146097 + doe - 719468

\* Mutant: days before the era count toward zero.
YmdFromDaysTowardZero(days) ==
  LET z   == days + 719468
      era == Quot(z, 146097)
      doe == z - era * 146097
      yoe == Quot(doe - Quot(doe, 1460) + Quot(doe, 36524) - Quot(doe, 146096), 365)
      doy == doe - (365 * yoe + Quot(yoe, 4) - Quot(yoe, 100))
      mp  == Quot(5 * doy + 2, 153)
      m   == IF mp < 10 THEN mp + 3 ELSE mp - 9
  IN  [y |-> yoe + era * 400 + (IF m <= 2 THEN 1 ELSE 0),
       m |-> m,
       d |-> doy - Quot(153 * mp + 2, 5) + 1]

YmdFromDays(days) ==
  LET z   == days + 719468
      era == Quot(IF z >= 0 THEN z ELSE z - 146096, 146097)
      doe == z - era * 146097
      yoe == Quot(doe - Quot(doe, 1460) + Quot(doe, 36524) - Quot(doe, 146096), 365)
      doy == doe - (365 * yoe + Quot(yoe, 4) - Quot(yoe, 100))
      mp  == Quot(5 * doy + 2, 153)
      m   == IF mp < 10 THEN mp + 3 ELSE mp - 9
  IN  [y |-> yoe + era * 400 + (IF m <= 2 THEN 1 ELSE 0),
       m |-> m,
       d |-> doy - Quot(153 * mp + 2, 5) + 1]

\* parse_date_str on numbers: the day is not checked against the month
Unparsed == -999999
ParseDate(y, m, d) ==
  IF m \in 1..12 /\ d \in 1..31 THEN DaysFromYmd(y, m, d) ELSE Unparsed

-----------------------------------------------------------------------------
DAY == 86400

\* format_timestamp and extract_field: the days round toward zero, the time of
\* day is Euclidean
Fields(ts) ==
  LET ymd  == YmdFromDays(Quot(ts, DAY))
      secs == ts % DAY
  IN  [y |-> ymd.y, m |-> ymd.m, d |-> ymd.d,
       h |-> secs \div 3600, mi |-> (secs % 3600) \div 60, s |-> secs % 60]

\* parse_timestamp_str of the text that format_timestamp writes
ParseTimestamp(f) == ParseDate(f.y, f.m, f.d) * DAY + f.h * 3600 + f.mi * 60 + f.s

\* Mutant: the week starts on Sunday.
WeekdayFromSunday(days) == Rem(Rem(days + 4, 7) + 7, 7)

\* The days since Monday
Weekday(days) == Rem(Rem(days + 3, 7) + 7, 7)

DateTrunc(field, ts) ==
  LET days == Quot(ts, DAY)
      ymd  == YmdFromDays(days)
  IN  CASE field = "second"  -> ts
        [] field = "minute"  -> Quot(ts, 60) * 60
        [] field = "hour"    -> Quot(ts, 3600) * 3600
        [] field = "day"     -> days * DAY
        [] field = "week"    -> (days - Weekday(days)) * DAY
        [] field = "month"   -> DaysFromYmd(ymd.y, ymd.m, 1) * DAY
        [] field = "quarter" -> DaysFromYmd(ymd.y, Quot(ymd.m - 1, 3) * 3 + 1, 1) * DAY
        [] field = "year"    -> DaysFromYmd(ymd.y, 1, 1) * DAY
        [] field = "decade"  -> DaysFromYmd(Quot(ymd.y, 10) * 10, 1, 1) * DAY
        [] field = "century" -> DaysFromYmd(Quot(ymd.y - 1, 100) * 100 + 1, 1, 1) * DAY

\* extract_field, for the fields that Fields does not have
ExtractField(field, ts) ==
  LET days == Quot(ts, DAY)
      ymd  == YmdFromDays(days)
      jan1 == DaysFromYmd(ymd.y, 1, 1)
  IN  CASE field = "dow"        -> (days + 4) % 7
        [] field = "doy"        -> days - jan1 + 1
        [] field = "quarter"    -> Quot(ymd.m - 1, 3) + 1
        [] field = "week"       -> Quot(days - jan1, 7) + 1
        [] field = "decade"     -> Quot(ymd.y, 10)
        [] field = "century"    -> Quot(ymd.y + 99, 100)
        [] field = "millennium" -> Quot(ymd.y + 999, 1000)
=============================================================================
