---------------------------- MODULE RetryAfter ----------------------------
(***************************************************************************)
(* The Retry-After header (transport/retry-after.ts): seconds, or a date   *)
(* in one of three spellings, of which one has a year of two digits.       *)
(* No state.                                                               *)
(*                                                                         *)
(* An instant is <<day, second of the day>>, days counted from 1970.  A    *)
(* header is [form |-> "seconds", count], [form |-> "fixdate" or "rfc850"  *)
(* or "asctime", year, month, day, second], the month 0 where no such name *)
(* is known, the second -1 where the time is none; or "other".             *)
(***************************************************************************)
EXTENDS Integers, Sequences

CONSTANT MaxSeconds  \* RETRY_AFTER_MAX_SECONDS

ASSUME MaxSecondsAssumption == MaxSeconds \in Nat

SecondsADay == 86400

Leap(year) == year % 4 = 0 /\ (year % 100 # 0 \/ year % 400 = 0)

MonthLength(year, month) ==
  CASE month = 2                -> IF Leap(year) THEN 29 ELSE 28
    [] month \in {4, 6, 9, 11} -> 30
    [] OTHER                   -> 31

\* Days from 1970 to the first of January of a year.
YearStart(year) ==
  LET y == year - 1
  IN  365 * (year - 1970) + (y \div 4 - y \div 100 + y \div 400) - 477

\* Days from the first of January to the first of a month.
MonthStart(year, month) ==
  <<0, 31, 59, 90, 120, 151, 181, 212, 243, 273, 304, 334>>[month]
    + IF Leap(year) /\ month > 2 THEN 1 ELSE 0

\* Date.UTC, which carries a day the month does not have into the next.
DayOf(year, month, day) == YearStart(year) + MonthStart(year, month) + day - 1

\* Mutant: a year of two digits is one of this century.
ThisCentury(twoDigits, yearNow) == 2000 + twoDigits

\* A year of two digits that would lie more than fifty years ahead is past.
FullYear(twoDigits, yearNow) ==
  IF 2000 + twoDigits - yearNow > 50 THEN 1900 + twoDigits ELSE 2000 + twoDigits

InRange(h) == h.month \in 1..12 /\ h.day \in 1..31 /\ h.second \in 0..SecondsADay

\* Seconds until an instant, none if it is past.
SecondsUntil(day, second, now) ==
  IF day < now[1] THEN 0
  ELSE LET apart == (day - now[1]) * SecondsADay + (second - now[2])
       IN  IF apart > 0 THEN apart ELSE 0

\* unboundedRetryAfterSeconds: <<seconds>>, or <<>> where the header says nothing.
UnboundedSeconds(h, now, yearNow) ==
  CASE h.form = "seconds" -> <<h.count>>
    [] h.form \in {"fixdate", "asctime", "rfc850"} ->
         IF ~InRange(h) THEN <<>>
         ELSE LET year == IF h.form = "rfc850" THEN FullYear(h.year, yearNow) ELSE h.year
              IN  <<SecondsUntil(DayOf(year, h.month, h.day), h.second, now)>>
    [] OTHER -> <<>>

\* parseRetryAfter
ParseRetryAfter(h, now, yearNow) ==
  LET seconds == UnboundedSeconds(h, now, yearNow)
  IN  IF seconds # <<>> /\ seconds[1] <= MaxSeconds THEN seconds ELSE <<>>

=============================================================================
