------------------------------- MODULE Dates -------------------------------
(***************************************************************************)
(* Dates as serial numbers, their arithmetic, the partial order of periods *)
(* and the dates of the money market (src/crates/libitofin/src/time).      *)
(*                                                                         *)
(* A date is its serial number, as in the code.  The tables of the code    *)
(* that follow a rule (leap years, offsets) are the rule; those of Easter  *)
(* are copied, and the property says what rule they follow.                *)
(***************************************************************************)
EXTENDS Integers, Sequences

CONSTANTS
  SampleDates,     \* the dates on which the arithmetic is checked
  SamplePeriods    \* the periods whose order is

Days == "Days"
Weeks == "Weeks"
Months == "Months"
Years == "Years"

MinDate == 367
MaxDate == 109574
NullDate == 0

-----------------------------------------------------------------------------
(* date.rs *)

\* The table makes 1900 a leap year, as Excel does.
is_leap(y) == y = 1900 \/ (y % 4 = 0 /\ (y % 100 # 0 \/ y % 400 = 0))

month_length(m, leap) ==
  CASE m = 2 -> IF leap THEN 29 ELSE 28
    [] m \in {4, 6, 9, 11} -> 30
    [] OTHER -> 31

\* Days before month m; month 13 gives the length of the year.
month_offset(m, leap) ==
  <<0, 31, 59, 90, 120, 151, 181, 212, 243, 273, 304, 334, 365>>[m]
    + IF leap /\ m > 2 THEN 1 ELSE 0

\* The serial number of the last day before year y.
year_offset(y) ==
  IF y = 1900 THEN 0
  ELSE 365 * (y - 1900) + 1 + ((y - 1) \div 4 - 475) - IF y > 2100 THEN 1 ELSE 0

DateOf(d, m, y) == d + month_offset(m, is_leap(y)) + year_offset(y)

weekday(s) == IF s % 7 = 0 THEN 7 ELSE s % 7      \* 1 is Sunday
Wednesday == 4

\* One step back from the estimate is enough: the leap days of three centuries
\* do not make a year.
year(s) ==
  LET y == s \div 365 + 1900 IN IF s <= year_offset(y) THEN y - 1 ELSE y

day_of_year(s) == s - year_offset(year(s))

MonthOfDay(n, leap) ==
  CHOOSE m \in 1 .. 12 : month_offset(m, leap) < n /\ n <= month_offset(m + 1, leap)

month(s) == MonthOfDay(day_of_year(s), is_leap(year(s)))

day_of_month(s) == day_of_year(s) - month_offset(month(s), is_leap(year(s)))

start_of_month(s) == DateOf(1, month(s), year(s))

end_of_month(s) ==
  DateOf(month_length(month(s), is_leap(year(s))), month(s), year(s))

AtEndOfMonthIf(test, s) == IF test THEN end_of_month(s) ELSE s

is_end_of_month(s) == day_of_month(s) = month_length(month(s), is_leap(year(s)))

nth_weekday(n, w, m, y) ==
  LET first == weekday(DateOf(1, m, y))
      skip  == n - IF w >= first THEN 1 ELSE 0
  IN  DateOf(1 + w + skip * 7 - first, m, y)

\* Day d of a month counted from year 0; one it does not have becomes its last.
OnDay(d, k) ==
  LET m == (k % 12) + 1
      length == month_length(m, is_leap(k \div 12))
  IN  DateOf(IF d > length THEN length ELSE d, m, k \div 12)

MonthCount(s) == 12 * year(s) + month(s) - 1

\* Date + Period.  The leap day a year does not have is the only day that years
\* may lose, as OnDay finds.
advance(s, n, unit) ==
  CASE unit = Days  -> s + n
    [] unit = Weeks -> s + 7 * n
    [] OTHER -> OnDay(day_of_month(s), MonthCount(s) + IF unit = Years THEN 12 * n ELSE n)

-----------------------------------------------------------------------------
(* imm.rs *)

is_imm_date(s) == weekday(s) = Wednesday /\ day_of_month(s) \in 15 .. 21

MainCycle == {3, 6, 9, 12}

\* The third Wednesday of this month, or of the next one of the cycle when the
\* month is not of the cycle or the date is past its third week.
ThirdWednesdayFrom(s, mainCycle) ==
  LET offset == IF mainCycle THEN 3 ELSE 1
      skip   == offset - (month(s) % offset)
      k      == MonthCount(s) + IF skip # offset \/ day_of_month(s) > 21 THEN skip ELSE 0
  IN  nth_weekday(3, Wednesday, (k % 12) + 1, k \div 12)

\* Starting again on the 22nd moves on by a month of the cycle.
next_imm_date(s, mainCycle) ==
  LET r == ThirdWednesdayFrom(s, mainCycle)
  IN  IF r > s THEN r ELSE ThirdWednesdayFrom(DateOf(22, month(r), year(r)), mainCycle)

\* A code is a month and the last digit of a year.
imm_code(s) == <<month(s), year(s) % 10>>

\* Mutant: the year is taken in the decade of the reference date, past or not.
ImmDateThisDecade(code, ref) ==
  LET y == code[2] + year(ref) - (year(ref) % 10)
             + IF code[2] = 0 /\ year(ref) <= 1909 THEN 10 ELSE 0
  IN  next_imm_date(DateOf(1, code[1], y), FALSE)

imm_date(code, ref) ==
  LET y == code[2] + year(ref) - (year(ref) % 10)
             + IF code[2] = 0 /\ year(ref) <= 1909 THEN 10 ELSE 0
      r == next_imm_date(DateOf(1, code[1], y), FALSE)
  IN  IF r < ref THEN next_imm_date(DateOf(1, code[1], y + 10), FALSE) ELSE r

-----------------------------------------------------------------------------
(* period.rs *)

Period(n, unit) == [length |-> n, units |-> unit]

\* Mutant: the bounds of QuantLib, in the wrong order for negative lengths.
BoundsAsInQuantLib(p) ==
  CASE p.units = Days   -> <<p.length, p.length>>
    [] p.units = Weeks  -> <<7 * p.length, 7 * p.length>>
    [] p.units = Months -> <<28 * p.length, 31 * p.length>>
    [] p.units = Years  -> <<365 * p.length, 366 * p.length>>

days_min_max(p) ==
  LET bounds(lo, hi) == IF p.length >= 0 THEN <<lo * p.length, hi * p.length>>
                                         ELSE <<hi * p.length, lo * p.length>>
  IN  CASE p.units = Days   -> bounds(1, 1)
        [] p.units = Weeks  -> bounds(7, 7)
        [] p.units = Months -> bounds(28, 31)
        [] p.units = Years  -> bounds(365, 366)

InMonths(p) == p.length * IF p.units = Years THEN 12 ELSE 1
InDays(p) == p.length * IF p.units = Weeks THEN 7 ELSE 1
Comparable(p, q) == (p.units \in {Months, Years}) = (q.units \in {Months, Years})

YesNo(b) == IF b THEN "yes" ELSE "no"

less(p, q) ==
  CASE p.length = 0 -> YesNo(q.length > 0)
    [] p.length # 0 /\ q.length = 0 -> YesNo(p.length < 0)
    [] p.length # 0 /\ q.length # 0 /\ Comparable(p, q) ->
         YesNo(IF p.units \in {Months, Years} THEN InMonths(p) < InMonths(q)
                                              ELSE InDays(p) < InDays(q))
    [] OTHER -> IF days_min_max(p)[2] < days_min_max(q)[1] THEN "yes"
                ELSE IF days_min_max(p)[1] > days_min_max(q)[2] THEN "no"
                ELSE "undecided"

partial_cmp(p, q) ==
  CASE less(p, q) = "yes" -> "Less"
    [] less(p, q) # "yes" /\ less(q, p) = "yes" -> "Greater"
    [] less(p, q) = "no" /\ less(q, p) = "no" -> "Equal"
    [] OTHER -> "None"

allows_end_of_month(p) == p.units \in {Months, Years} /\ p.length >= 1

-----------------------------------------------------------------------------
(* calendar.rs: Easter Monday, as a day of the year, from 1901 *)

WesternEasterMondays == <<
    98, 90, 103, 95, 114, 106, 91, 111, 102, 87, 107, 99, 83, 103, 95, 115,
    99, 91, 111, 96, 87, 107, 92, 112, 103, 95, 108, 100, 91, 111, 96, 88,
    107, 92, 112, 104, 88, 108, 100, 85, 104, 96, 116, 101, 92, 112, 97, 89,
    108, 100, 85, 105, 96, 109, 101, 93, 112, 97, 89, 109, 93, 113, 105, 90,
    109, 101, 86, 106, 97, 89, 102, 94, 113, 105, 90, 110, 101, 86, 106, 98,
    110, 102, 94, 114, 98, 90, 110, 95, 86, 106, 91, 111, 102, 94, 107, 99,
    90, 103, 95, 115, 106, 91, 111, 103, 87, 107, 99, 84, 103, 95, 115, 100,
    91, 111, 96, 88, 107, 92, 112, 104, 95, 108, 100, 92, 111, 96, 88, 108,
    92, 112, 104, 89, 108, 100, 85, 105, 96, 116, 101, 93, 112, 97, 89, 109,
    100, 85, 105, 97, 109, 101, 93, 113, 97, 89, 109, 94, 113, 105, 90, 110,
    101, 86, 106, 98, 89, 102, 94, 114, 105, 90, 110, 102, 86, 106, 98, 111,
    102, 94, 114, 99, 90, 110, 95, 87, 106, 91, 111, 103, 94, 107, 99, 91,
    103, 95, 115, 107, 91, 111, 103, 88, 108, 100, 85, 105, 96, 109, 101, 93,
    112, 97, 89, 109, 93, 113, 105, 90, 109, 101, 86, 106, 97, 89, 102, 94,
    113, 105, 90, 110, 101, 86, 106, 98, 110, 102, 94, 114, 98, 90, 110, 95,
    86, 106, 91, 111, 102, 94, 107, 99, 90, 103, 95, 115, 106, 91, 111, 103,
    87, 107, 99, 84, 103, 95, 115, 100, 91, 111, 96, 88, 107, 92, 112, 104,
    95, 108, 100, 92, 111, 96, 88, 108, 92, 112, 104, 89, 108, 100, 85, 105,
    96, 116, 101, 93, 112, 97, 89, 109, 100, 85, 105>>

OrthodoxEasterMondays == <<
    105, 118, 110, 102, 121, 106, 126, 118, 102, 122, 114, 99, 118, 110, 95,
    115, 106, 126, 111, 103, 122, 107, 99, 119, 110, 123, 115, 107, 126, 111,
    103, 123, 107, 99, 119, 104, 123, 115, 100, 120, 111, 96, 116, 108, 127,
    112, 104, 124, 115, 100, 120, 112, 96, 116, 108, 128, 112, 104, 124, 109,
    100, 120, 105, 125, 116, 101, 121, 113, 104, 117, 109, 101, 120, 105,
    125, 117, 101, 121, 113, 98, 117, 109, 129, 114, 105, 125, 110, 102, 121,
    106, 98, 118, 109, 122, 114, 106, 118, 110, 102, 122, 106, 126, 118, 103,
    122, 114, 99, 119, 110, 95, 115, 107, 126, 111, 103, 123, 107, 99, 119,
    111, 123, 115, 107, 127, 111, 103, 123, 108, 99, 119, 104, 124, 115, 100,
    120, 112, 96, 116, 108, 128, 112, 104, 124, 116, 100, 120, 112, 97, 116,
    108, 128, 113, 104, 124, 109, 101, 120, 105, 125, 117, 101, 121, 113,
    105, 117, 109, 101, 121, 105, 125, 110, 102, 121, 113, 98, 118, 109, 129,
    114, 106, 125, 110, 102, 122, 106, 98, 118, 110, 122, 114, 99, 119, 110,
    102, 115, 107, 126, 118, 103, 123, 115, 100, 120, 112, 96, 116, 108, 128,
    112, 104, 124, 109, 100, 120, 105, 125, 116, 108, 121, 113, 104, 124,
    109, 101, 120, 105, 125, 117, 101, 121, 113, 98, 117, 109, 129, 114, 105,
    125, 110, 102, 121, 113, 98, 118, 109, 129, 114, 106, 125, 110, 102, 122,
    106, 126, 118, 103, 122, 114, 99, 119, 110, 102, 115, 107, 126, 111, 103,
    123, 114, 99, 119, 111, 130, 115, 107, 127, 111, 103, 123, 108, 99, 119,
    104, 124, 115, 100, 120, 112, 103, 116, 108, 128, 119, 104, 124, 116,
    100, 120, 112>>

western_easter_monday(y) == WesternEasterMondays[y - 1900]
orthodox_easter_monday(y) == OrthodoxEasterMondays[y - 1900]

-----------------------------------------------------------------------------
(* What the arithmetic must satisfy; module Schedule states it of its runs. *)

\* Dates from which the months that are added here lead to dates of the type.
InnerDates == DateOf(1, 1, 1915) .. DateOf(30, 12, 2185)

ASSUME SampleDatesAssumption == SampleDates \subseteq InnerDates

\* Periods that lead from the sample dates to dates of the type.
ASSUME SamplePeriodsAssumption ==
  /\ SamplePeriods \subseteq [length : Int, units : {Days, Weeks, Months, Years}]
  /\ \A s \in SampleDates, p \in SamplePeriods :
       p.units \in {Months, Years} => MonthCount(s) + InMonths(p) \in 12 * 1901 .. 12 * 2199 + 11

\* Over the whole range of the type, a serial number is the date of its own day,
\* month and year, across the leap day 1900 did not have;
SerialsNameDates ==
  \A s \in MinDate .. MaxDate :
    /\ day_of_month(s) \in 1 .. month_length(month(s), is_leap(year(s)))
    /\ DateOf(day_of_month(s), month(s), year(s)) = s

\* months added to dates land in the month they name and keep the dates' order;
MonthsAddInOrder ==
  \A s \in SampleDates, n \in -14 .. 14 :
    LET k(d) == 12 * year(d) + month(d)
    IN  /\ k(advance(s, n, Months)) = k(s) + n
        /\ advance(s, n, Months) <= advance(s + 1, n, Months)
        /\ advance(s, 12 * n, Months) = advance(s, n, Years)

\* a period that is decided shorter than another takes every date to an earlier
\* one, and equal periods to the same one.
PeriodsOrderDates ==
  LET order == [p \in SamplePeriods |-> [q \in SamplePeriods |-> partial_cmp(p, q)]]
  IN  \A s \in SampleDates :
        LET to == [p \in SamplePeriods |-> advance(s, p.length, p.units)]
        IN  \A p, q \in SamplePeriods : /\ order[p][q] = "Less" => to[p] < to[q]
                                        /\ order[p][q] = "Equal" => to[p] = to[q]

\* The next IMM date is a third Wednesday after the date with no other between
\* them, and its code names it again from any date it may have been asked from,
\* in the same decade or the one before;
CodesNameImmDates ==
  \A s \in SampleDates, mainCycle \in BOOLEAN :
    LET next == next_imm_date(s, mainCycle)
        eligible(d) == is_imm_date(d) /\ (mainCycle => month(d) \in MainCycle)
    IN  /\ s < next /\ eligible(next)
        /\ \A d \in s + 1 .. next - 1 : ~eligible(d)
        /\ \A ref \in {s, advance(s, -9, Years)} : imm_date(imm_code(next), ref) = next

\* The Sunday of Easter by the computus of Gauss, as a day of the year; the
\* Julian one is 13 days late in the Gregorian calendar, 14 after 2100.
GregorianEaster(y) ==
  LET a == y % 19
      b == y \div 100
      c == y % 100
      h == (19 * a + b - (b \div 4) - ((b - ((b + 8) \div 25) + 1) \div 3) + 15) % 30
      l == (32 + 2 * (b % 4) + 2 * (c \div 4) - h - (c % 4)) % 7
      n == h + l - 7 * ((a + 11 * h + 22 * l) \div 451) + 114
  IN  DateOf((n % 31) + 1, n \div 31, y) - year_offset(y)

JulianEaster(y) ==
  LET d == (19 * (y % 19) + 15) % 30
      e == (2 * (y % 4) + 4 * (y % 7) - d + 34) % 7
      n == d + e + 114
  IN  DateOf((n % 31) + 1, n \div 31, y) - year_offset(y) + IF y >= 2100 THEN 14 ELSE 13

\* the tables the market calendars take Easter Monday from follow the computus of
\* their church in every year they cover.
EasterIsComputed ==
  \A y \in 1901 .. 2199 : /\ western_easter_monday(y) = GregorianEaster(y) + 1
                           /\ orthodox_easter_monday(y) = JulianEaster(y) + 1
=============================================================================
