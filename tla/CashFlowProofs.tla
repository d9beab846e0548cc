--------------------------- MODULE CashFlowProofs ---------------------------
(***************************************************************************)
(* When payments fall, and that each is counted once.                      *)
(*                                                                         *)
(* Of dates: serial numbers name them, months are added in order, a period *)
(* that compares shorter leads less far, and the rules of the markets name *)
(* the dates they mean.  Of every calendar, whatever its holidays: users'  *)
(* overrides never hide one another, rolling keeps the order of dates and  *)
(* counting business days agrees with advancing by them.  Of every         *)
(* schedule: it covers its term, flags what is regular, and loses nothing  *)
(* when it is cut (Dates, Calendar, Schedule).                             *)
(*                                                                         *)
(* Of any grid, any deals and any way of cutting a rollback into calls:    *)
(* the coupons that are left and the exercises count once each             *)
(* (DiscretizedAsset).                                                     *)
(***************************************************************************)
EXTENDS Schedule, DiscretizedAsset, FiniteSetTheorems, SequenceTheorems, WellFoundedInduction,
        TLAPS

-----------------------------------------------------------------------------
(* CALENDARS AND SCHEDULES                                                   *)

(* Overrides *)

\* A calendar starts without overrides.
LEMMA InitEffective == CalendarInit => OverridesAreEffective
  BY DEF CalendarInit, OverridesAreEffective

\* An override is recorded only where it differs from the market's own rule.
LEMMA StepEffective == OverridesAreEffective /\ CalendarNext => OverridesAreEffective'
<1> SUFFICES ASSUME OverridesAreEffective, CalendarNext
             PROVE  OverridesAreEffective'
  OBVIOUS
<1>1. ASSUME NEW d \in Editable, add_holiday(d)
      PROVE  OverridesAreEffective'
  BY <1>1 DEF add_holiday, OverridesAreEffective
<1>2. ASSUME NEW d \in Editable, remove_holiday(d)
      PROVE  OverridesAreEffective'
  BY <1>2 DEF remove_holiday, OverridesAreEffective
<1>3. CASE reset_added_and_removed_holidays
  BY <1>3 DEF reset_added_and_removed_holidays, OverridesAreEffective
<1> QED
  BY <1>1, <1>2, <1>3 DEF CalendarNext

\* Of any calendar and any number of overrides, in any order: an override never
\* repeats the market's rule, so undoing it restores the market's answer.
THEOREM OverridesEffective == ScheduleSpec => []OverridesAreEffective
<1>1. ScheduleInit => OverridesAreEffective
  BY InitEffective DEF ScheduleInit
<1>2. OverridesAreEffective /\ [ScheduleNext]_scheduleVars => OverridesAreEffective'
  <2> SUFFICES ASSUME OverridesAreEffective, [ScheduleNext]_scheduleVars
               PROVE  OverridesAreEffective'
    OBVIOUS
  <2>1. CASE ChangeCalendar
    BY <2>1, StepEffective DEF ChangeCalendar
  <2>2. CASE UNCHANGED <<added, removed>>
    BY <2>2 DEF OverridesAreEffective
  <2> QED
    BY <2>1, <2>2 DEF ScheduleNext, scheduleVars, New, FromDates, CutAfter, CutUntil
<1> QED
  BY <1>1, <1>2, PTL DEF ScheduleSpec

-----------------------------------------------------------------------------
(* Rolling *)

\* A business day is in reach of d in both directions, as the loops of adjust
\* need to end.
Rollable(d) == /\ \E k \in 0 .. Reach : is_business_day(d + k)
               /\ \E k \in 0 .. Reach : is_business_day(d - k)

\* A nonempty set of natural numbers has a least element.
LEMMA LeastNumber ==
  ASSUME NEW T \in SUBSET Nat, T # {}
  PROVE  \E n \in T : \A m \in T : n <= m
<1> DEFINE R == OpToRel(<, Nat)
<1>1. IsWellFoundedOn(R, Nat)
  BY NatLessThanWellFounded
<1>2. \A m, n \in Nat : m < n => <<m, n>> \in R
  BY DEF OpToRel
<1> HIDE DEF R
<1>3. PICK n \in T : \A m \in T : ~(<<m, n>> \in R)
  BY <1>1, WFMin
<1>4. \A m \in T : m \in Nat /\ n \in Nat /\ ~(m < n)
  BY <1>2, <1>3
<1> QED
  BY <1>4

\* Rolling forward ends on the first business day from d on.
LEMMA NextIsFirst ==
  ASSUME NEW d \in Int, Rollable(d)
  PROVE  /\ NextBusinessDay(d) \in Int /\ NextBusinessDay(d) >= d
         /\ NextBusinessDay(d) <= d + Reach
         /\ is_business_day(NextBusinessDay(d))
         /\ \A e \in d .. NextBusinessDay(d) - 1 : ~is_business_day(e)
<1> DEFINE T == {k \in 0 .. Reach : is_business_day(d + k)}
           First(k) == /\ is_business_day(d + k)
                       /\ \A j \in 0 .. k - 1 : is_holiday(d + j)
<1>1. /\ T # {}
      /\ T \in SUBSET Nat
  <2>1. T # {}
    BY DEF Rollable
  <2>2. T \subseteq 0 .. Reach /\ 0 .. Reach \subseteq Nat
    BY DEF Reach
  <2> QED
    BY <2>1, <2>2
<1>2. PICK n \in T : \A m \in T : n <= m
  BY <1>1, LeastNumber
<1>3. \E k \in 0 .. Reach : First(k)
  <2>1. n \in 0 .. Reach /\ is_business_day(d + n)
    BY <1>2
  <2>2. \A j \in 0 .. n - 1 : j \in 0 .. Reach /\ ~(n <= j)
    BY <2>1 DEF Reach
  <2>3. \A j \in 0 .. n - 1 : is_holiday(d + j)
    BY <1>2, <2>2 DEF is_holiday
  <2> QED
    BY <2>1, <2>3
<1> DEFINE k == CHOOSE k \in 0 .. Reach : First(k)
<1>4. k \in 0 .. Reach /\ First(k)
  BY <1>3
<1>5. NextBusinessDay(d) = d + k
  BY DEF NextBusinessDay
<1> HIDE DEF k, First
<1>6. k \in Int /\ k >= 0 /\ k <= Reach /\ Reach \in Int
  BY <1>4 DEF Reach
<1> USE DEF First
<1>7. ASSUME NEW e \in d .. d + k - 1
      PROVE  ~is_business_day(e)
  <2>1. e - d \in 0 .. k - 1 /\ d + (e - d) = e
    BY <1>6, <1>7
  <2> QED
    BY <2>1, <1>4 DEF is_holiday
<1> QED
  BY <1>4, <1>5, <1>6, <1>7

\* Rolling back ends on the last business day up to d.
LEMMA PreviousIsLast ==
  ASSUME NEW d \in Int, Rollable(d)
  PROVE  /\ PreviousBusinessDay(d) \in Int /\ PreviousBusinessDay(d) <= d
         /\ d - Reach <= PreviousBusinessDay(d)
         /\ is_business_day(PreviousBusinessDay(d))
         /\ \A e \in PreviousBusinessDay(d) + 1 .. d : ~is_business_day(e)
<1> DEFINE T == {k \in 0 .. Reach : is_business_day(d - k)}
           First(k) == /\ is_business_day(d - k)
                       /\ \A j \in 0 .. k - 1 : is_holiday(d - j)
<1>1. /\ T # {}
      /\ T \in SUBSET Nat
  <2>1. T # {}
    BY DEF Rollable
  <2>2. T \subseteq 0 .. Reach /\ 0 .. Reach \subseteq Nat
    BY DEF Reach
  <2> QED
    BY <2>1, <2>2
<1>2. PICK n \in T : \A m \in T : n <= m
  BY <1>1, LeastNumber
<1>3. \E k \in 0 .. Reach : First(k)
  <2>1. n \in 0 .. Reach /\ is_business_day(d - n)
    BY <1>2
  <2>2. \A j \in 0 .. n - 1 : j \in 0 .. Reach /\ ~(n <= j)
    BY <2>1 DEF Reach
  <2>3. \A j \in 0 .. n - 1 : is_holiday(d - j)
    BY <1>2, <2>2 DEF is_holiday
  <2> QED
    BY <2>1, <2>3
<1> DEFINE k == CHOOSE k \in 0 .. Reach : First(k)
<1>4. k \in 0 .. Reach /\ First(k)
  BY <1>3
<1>5. PreviousBusinessDay(d) = d - k
  BY DEF PreviousBusinessDay
<1> HIDE DEF k, First
<1>6. k \in Int /\ k >= 0 /\ k <= Reach /\ Reach \in Int
  BY <1>4 DEF Reach
<1> USE DEF First
<1>7. ASSUME NEW e \in (d - k) + 1 .. d
      PROVE  ~is_business_day(e)
  <2>1. d - e \in 0 .. k - 1 /\ d - (d - e) = e
    BY <1>6, <1>7
  <2> QED
    BY <2>1, <1>4 DEF is_holiday
<1> QED
  BY <1>4, <1>5, <1>6, <1>7

\* The three conventions that never turn round.
LEMMA AdjustByConvention ==
  ASSUME NEW d
  PROVE  /\ adjust(d, Unadjusted) = d
         /\ adjust(d, Following) = NextBusinessDay(d)
         /\ adjust(d, Preceding) = PreviousBusinessDay(d)
  BY DEF adjust, RollTo, Unadjusted, Following, Preceding, ModifiedFollowing, ModifiedPreceding,
         HalfMonthModifiedFollowing, Nearest

\* Of any calendar under any overrides: rolling forward or back keeps the order
\* of dates and moves no business day, so dates that a schedule rolled are in
\* order and may be rolled again.
THEOREM RollingKeepsDatesInOrder ==
  ASSUME NEW d \in Int, NEW e \in Int, d <= e, Rollable(d), Rollable(e),
         NEW c \in {Unadjusted, Following, Preceding}
  PROVE  /\ adjust(d, c) <= adjust(e, c)
         /\ is_business_day(d) => adjust(d, c) = d
<1>1. CASE c = Unadjusted
  BY <1>1, AdjustByConvention
<1>2. CASE c = Following
  <2>1. adjust(d, c) = NextBusinessDay(d) /\ adjust(e, c) = NextBusinessDay(e)
    BY <1>2, AdjustByConvention
  <2>2. /\ NextBusinessDay(e) \in Int /\ NextBusinessDay(e) >= e
        /\ is_business_day(NextBusinessDay(e))
    BY NextIsFirst
  <2>3. /\ NextBusinessDay(d) \in Int /\ NextBusinessDay(d) >= d
        /\ \A f \in d .. NextBusinessDay(d) - 1 : ~is_business_day(f)
    BY NextIsFirst
  <2>4. NextBusinessDay(e) \notin d .. NextBusinessDay(d) - 1
    BY <2>2, <2>3
  <2>5. is_business_day(d) => d \notin d .. NextBusinessDay(d) - 1
    BY <2>3
  <2> QED
    BY <2>1, <2>2, <2>3, <2>4, <2>5
<1>3. CASE c = Preceding
  <2>1. adjust(d, c) = PreviousBusinessDay(d) /\ adjust(e, c) = PreviousBusinessDay(e)
    BY <1>3, AdjustByConvention
  <2>2. /\ PreviousBusinessDay(d) \in Int /\ PreviousBusinessDay(d) <= d
        /\ is_business_day(PreviousBusinessDay(d))
        /\ \A f \in PreviousBusinessDay(d) + 1 .. d : ~is_business_day(f)
    BY PreviousIsLast
  <2>3. /\ PreviousBusinessDay(e) \in Int /\ PreviousBusinessDay(e) <= e
        /\ \A f \in PreviousBusinessDay(e) + 1 .. e : ~is_business_day(f)
    BY PreviousIsLast
  <2>4. PreviousBusinessDay(d) \notin PreviousBusinessDay(e) + 1 .. e
    BY <2>2, <2>3
  <2>5. is_business_day(d) => d \notin PreviousBusinessDay(d) + 1 .. d
    BY <2>2
  <2> QED
    BY <2>1, <2>2, <2>3, <2>4, <2>5
<1> QED
  BY <1>1, <1>2, <1>3

-----------------------------------------------------------------------------
(* Years, months and days *)

\* The years and the months a date may be in.
CivilYears == 1900 .. 2199
CivilMonths == 1 .. 12
LengthOfYear(y) == IF is_leap(y) THEN 366 ELSE 365

\* The years, their days before them and their months follow one another.
LEMMA YearOffsetIs ==
  ASSUME NEW y \in 1900 .. 2201
  PROVE  /\ year_offset(y) \in Int
         /\ 365 * (y - 1900) <= year_offset(y)
         /\ year_offset(y) <= 365 * (y - 1900) + 76
BY SMT DEF year_offset

LEMMA YearsFollow ==
  ASSUME NEW y \in CivilYears
  PROVE  /\ year_offset(y) \in Int
         /\ LengthOfYear(y) \in {365, 366}
         /\ year_offset(y + 1) = year_offset(y) + LengthOfYear(y)
<1>0. y \in 1900 .. 2199
  BY DEF CivilYears
<1>1. CASE y = 1900
  BY <1>0, <1>1 DEF year_offset, is_leap, LengthOfYear
<1>2. CASE y # 1900 /\ y % 4 # 0
  BY <1>0, <1>2 DEF year_offset, is_leap, LengthOfYear
<1>3. CASE y \in {2000, 2100}
  BY <1>0, <1>3 DEF year_offset, is_leap, LengthOfYear
<1>4. CASE y \notin {1900, 2000, 2100} /\ y % 4 = 0
  <2>1. y % 100 # 0
    BY <1>0, <1>4
  <2> QED
  BY <1>0, <1>4, <2>1 DEF year_offset, is_leap, LengthOfYear
<1> QED
  BY <1>1, <1>2, <1>3, <1>4

LEMMA YearsInOrder ==
  ASSUME NEW y \in CivilYears, NEW z \in CivilYears, y < z
  PROVE  /\ year_offset(y + 1) \in Int /\ year_offset(z) \in Int
         /\ year_offset(y + 1) <= year_offset(z)
BY SMT DEF year_offset, CivilYears

LEMMA MonthsFill ==
  ASSUME NEW leap \in BOOLEAN, NEW m \in CivilMonths
  PROVE  /\ month_offset(m, leap) \in Int /\ month_length(m, leap) \in 28 .. 31
         /\ month_offset(m + 1, leap) = month_offset(m, leap) + month_length(m, leap)
         /\ 0 <= month_offset(m, leap)
         /\ month_offset(m + 1, leap) <= IF leap THEN 366 ELSE 365
<1>1. m \in {1, 2, 3, 4, 5, 6, 7, 8, 9, 10, 11, 12}
  BY DEF CivilMonths
<1> QED
  BY <1>1, SMT DEF month_offset, month_length

LEMMA MonthsInOrder ==
  ASSUME NEW leap \in BOOLEAN, NEW m \in CivilMonths, NEW n \in CivilMonths, m < n
  PROVE  /\ month_offset(m + 1, leap) \in Int /\ month_offset(n, leap) \in Int
         /\ month_offset(m + 1, leap) <= month_offset(n, leap)
<1>1. m \in {1, 2, 3, 4, 5, 6, 7, 8, 9, 10, 11, 12}
  BY DEF CivilMonths
<1>2. n \in {1, 2, 3, 4, 5, 6, 7, 8, 9, 10, 11, 12}
  BY DEF CivilMonths
<1> QED
  BY <1>1, <1>2, SMT DEF month_offset

\* The last day before the month m of the year y.
BeforeMonth(y, m) == month_offset(m, is_leap(y)) + year_offset(y)
LengthOf(y, m) == month_length(m, is_leap(y))

LEMMA LeapOrNot == \A y : is_leap(y) \in BOOLEAN
  BY DEF is_leap

LEMMA MonthsAre ==
  ASSUME NEW y \in CivilYears, NEW m \in CivilMonths
  PROVE  /\ BeforeMonth(y, m) \in Int
         /\ LengthOf(y, m) \in 28 .. 31
         /\ BeforeMonth(y, m + 1) = BeforeMonth(y, m) + LengthOf(y, m)
         /\ year_offset(y) <= BeforeMonth(y, m)
         /\ BeforeMonth(y, m + 1) <= year_offset(y + 1)
<1> DEFINE leap == is_leap(y)
<1>1. leap \in BOOLEAN
  BY LeapOrNot
<1> HIDE DEF leap
<1>2. /\ month_offset(m, leap) \in Int /\ month_length(m, leap) \in 28 .. 31
      /\ month_offset(m + 1, leap) = month_offset(m, leap) + month_length(m, leap)
      /\ 0 <= month_offset(m, leap)
      /\ month_offset(m + 1, leap) <= IF leap THEN 366 ELSE 365
  BY <1>1, MonthsFill
<1>3. /\ year_offset(y) \in Int
      /\ year_offset(y + 1) = year_offset(y) + LengthOfYear(y)
  BY YearsFollow
<1>4. LengthOfYear(y) = IF leap THEN 366 ELSE 365
  BY DEF LengthOfYear, leap
<1>5. /\ BeforeMonth(y, m) = month_offset(m, leap) + year_offset(y)
      /\ BeforeMonth(y, m + 1) = month_offset(m + 1, leap) + year_offset(y)
      /\ LengthOf(y, m) = month_length(m, leap)
  BY DEF BeforeMonth, LengthOf, leap
<1> QED
  BY <1>1, <1>2, <1>3, <1>4, <1>5

\* A month ends before the next one begins.
LEMMA MonthsOneByOne ==
  ASSUME NEW y \in CivilYears, NEW m \in CivilMonths,
         NEW z \in CivilYears, NEW n \in CivilMonths, y < z \/ (y = z /\ m < n)
  PROVE  BeforeMonth(y, m + 1) <= BeforeMonth(z, n)
<1>1. CASE y = z /\ m < n
  <2> DEFINE leap == is_leap(y)
  <2>1. leap \in BOOLEAN
    BY LeapOrNot
  <2> HIDE DEF leap
  <2>2. /\ month_offset(m + 1, leap) \in Int /\ month_offset(n, leap) \in Int
        /\ month_offset(m + 1, leap) <= month_offset(n, leap)
    BY <1>1, <2>1, MonthsInOrder
  <2>3. year_offset(y) \in Int
    BY YearsFollow
  <2>4. /\ BeforeMonth(y, m + 1) = month_offset(m + 1, leap) + year_offset(y)
        /\ BeforeMonth(z, n) = month_offset(n, leap) + year_offset(y)
    BY <1>1 DEF BeforeMonth, leap
  <2> QED BY <2>2, <2>3, <2>4
<1>2. CASE y < z
  <2>1. BeforeMonth(y, m) \in Int /\ BeforeMonth(y, m + 1) = BeforeMonth(y, m) + LengthOf(y, m)
        /\ LengthOf(y, m) \in 28 .. 31 /\ BeforeMonth(y, m + 1) <= year_offset(y + 1)
    BY MonthsAre
  <2>2. BeforeMonth(z, n) \in Int /\ year_offset(z) <= BeforeMonth(z, n)
    BY MonthsAre
  <2>3. year_offset(y + 1) \in Int /\ year_offset(z) \in Int /\ year_offset(y + 1) <= year_offset(z) 
    BY <1>2, YearsInOrder
  <2> QED BY <2>1, <2>2, <2>3
<1> QED
  BY <1>1, <1>2

\* The serial numbers a date may have, each a number.
ValidDates == MinDate .. MaxDate

LEMMA ValidDatesAre ==
  ASSUME NEW s \in ValidDates
  PROVE  s \in Int /\ 367 <= s /\ s <= 109574
<1>1. ASSUME NEW a \in Int, NEW b \in Int, NEW t \in a .. b
      PROVE  t \in Int /\ a <= t /\ t <= b
  BY <1>1
<1>2. MinDate = 367 /\ MaxDate = 109574
  BY DEF MinDate, MaxDate
<1>3. MinDate \in Int /\ MaxDate \in Int
  BY <1>2
<1>4. s \in Int /\ MinDate <= s /\ s <= MaxDate
  BY <1>1, <1>3, Zenon DEF ValidDates
<1> QED BY <1>2, <1>4

\* The year of a date.
LEMMA YearIs ==
  ASSUME NEW s \in ValidDates
  PROVE  /\ s \in Int
         /\ year(s) \in CivilYears
         /\ year_offset(year(s)) < s
         /\ s <= year_offset(year(s) + 1)
<1>1. s \in Int /\ 367 <= s /\ s <= 109574
  BY ValidDatesAre
<1> DEFINE q == s \div 365
           r == s % 365
<1>2. q \in Int
  BY <1>1
<1>3. r \in 0 .. 364
  BY <1>1
<1>4. s = 365 * q + r
  BY <1>1
<1>5. year(s) = IF s <= year_offset(q + 1900) THEN (q + 1900) - 1 ELSE q + 1900
  BY DEF year
<1> HIDE DEF q, r
<1>6. 1 <= q /\ q <= 300
  <2>1. r \in Int /\ 0 <= r /\ r <= 364
    BY <1>3
  <2>2. 365 * q <= 109574 /\ 3 <= 365 * q
    BY <1>1, <1>2, <1>4, <2>1
  <2> QED BY <1>2, <2>2
<1> DEFINE o(y) == year_offset(y)
           z == q + 1900
<1>8. z \in 1901 .. 2200 /\ z - 1 \in 1900 .. 2199 /\ z + 1 \in 1902 .. 2201 /\ q = z - 1900
  BY <1>2, <1>6
<1>9. /\ o(z) \in Int /\ 365 * q <= o(z) /\ o(z) <= 365 * q + 76
      /\ o(z - 1) \in Int /\ o(z - 1) <= 365 * (q - 1) + 76
      /\ o(z + 1) \in Int /\ 365 * (q + 1) <= o(z + 1)
  <2>1. o(z) \in Int /\ 365 * q <= o(z) /\ o(z) <= 365 * q + 76
    BY <1>8, YearOffsetIs
  <2>2. o(z - 1) \in Int /\ o(z - 1) <= 365 * (q - 1) + 76
    BY <1>8, YearOffsetIs
  <2>3. o(z + 1) \in Int /\ 365 * (q + 1) <= o(z + 1)
    BY <1>8, YearOffsetIs
  <2> QED BY <2>1, <2>2, <2>3
<1>10. o(2200) = 109574
  BY DEF year_offset
<1>7. year(s) = IF s <= o(z) THEN z - 1 ELSE z
  BY <1>5, <1>2
<1> HIDE DEF o, z
<1>12. CASE s <= o(z)
  <2>1. year(s) = z - 1 /\ z - 1 + 1 = z
    BY <1>7, <1>12, <1>8
  <2>3. o(z - 1) < s
    BY <1>9, <1>4, <1>3, <1>6, <1>2, <1>1
  <2> QED BY <1>1, <2>1, <2>3, <1>8, <1>12 DEF o, CivilYears
<1>13. CASE ~(s <= o(z))
  <2>1. year(s) = z
    BY <1>7, <1>13
  <2>2. z # 2200
    BY <1>10, <1>13, <1>1
  <2>3. s <= o(z + 1)
    BY <1>9, <1>4, <1>3, <1>6, <1>2, <1>1
  <2>4. o(z) < s
    BY <1>13, <1>9, <1>1
  <2> QED BY <1>1, <2>1, <2>2, <2>3, <2>4, <1>8 DEF o, CivilYears
<1> QED
  BY <1>12, <1>13

\* The month and the day of a date.
LEMMA DateIs ==
  ASSUME NEW s \in ValidDates
  PROVE  /\ month(s) \in CivilMonths
         /\ BeforeMonth(year(s), month(s)) < s
         /\ s <= BeforeMonth(year(s), month(s) + 1)
         /\ day_of_month(s) = s - BeforeMonth(year(s), month(s))
<1> DEFINE y == year(s)
           n == day_of_year(s)
           leap == is_leap(y)
           o(m) == month_offset(m, leap)
           In(m) == o(m) < n /\ n <= o(m + 1)
<1>1. s \in Int /\ y \in CivilYears /\ year_offset(y) < s /\ s <= year_offset(y + 1)
  BY YearIs
<1>2. year_offset(y) \in Int /\ year_offset(y + 1) = year_offset(y) + LengthOfYear(y)
  BY <1>1, YearsFollow
<1>3. leap \in BOOLEAN
  BY LeapOrNot
<1>4. LengthOfYear(y) = IF leap THEN 366 ELSE 365
  BY DEF LengthOfYear
<1>5. n = s - year_offset(y)
  BY DEF day_of_year
<1> HIDE DEF y, n, leap
<1>6. n \in Int /\ 0 < n /\ n <= IF leap THEN 366 ELSE 365
  BY <1>1, <1>2, <1>3, <1>4, <1>5
<1>7. \E m \in 1 .. 12 : In(m)
  <2>1. o(1) = 0 /\ o(13) = IF leap THEN 366 ELSE 365
    BY <1>3 DEF month_offset
  <2>3. o(1) \in Int /\ o(2) \in Int /\ o(3) \in Int /\ o(4) \in Int /\ o(5) \in Int /\ o(6) \in Int
        /\ o(7) \in Int /\ o(8) \in Int /\ o(9) \in Int /\ o(10) \in Int /\ o(11) \in Int
        /\ o(12) \in Int /\ o(13) \in Int
    BY <1>3 DEF month_offset
  <2> HIDE DEF o
  <2>4. \/ (o(1) < n /\ n <= o(2)) \/ (o(2) < n /\ n <= o(3)) \/ (o(3) < n /\ n <= o(4))
        \/ (o(4) < n /\ n <= o(5)) \/ (o(5) < n /\ n <= o(6)) \/ (o(6) < n /\ n <= o(7))
        \/ (o(7) < n /\ n <= o(8)) \/ (o(8) < n /\ n <= o(9)) \/ (o(9) < n /\ n <= o(10))
        \/ (o(10) < n /\ n <= o(11)) \/ (o(11) < n /\ n <= o(12)) \/ (o(12) < n /\ n <= o(13))
    BY <1>6, <2>1, <2>3
  <2>5. /\ 1 + 1 = 2 /\ 2 + 1 = 3 /\ 3 + 1 = 4 /\ 4 + 1 = 5 /\ 5 + 1 = 6 /\ 6 + 1 = 7
        /\ 7 + 1 = 8 /\ 8 + 1 = 9 /\ 9 + 1 = 10 /\ 10 + 1 = 11 /\ 11 + 1 = 12 /\ 12 + 1 = 13
    OBVIOUS
  <2> QED BY <2>4, <2>5
<1>8. month(s) = CHOOSE m \in 1 .. 12 : In(m)
  BY DEF month, MonthOfDay, y, n, leap
<1> DEFINE m == month(s)
<1>9. m \in CivilMonths /\ In(m)
  BY <1>7, <1>8 DEF CivilMonths
<1>10. /\ BeforeMonth(y, m) = o(m) + year_offset(y)
       /\ BeforeMonth(y, m + 1) = o(m + 1) + year_offset(y)
  BY DEF BeforeMonth, leap
<1>12. day_of_month(s) = n - o(m)
  BY DEF day_of_month, n, leap, y
<1> HIDE DEF m
<1>11. o(m) \in Int /\ o(m + 1) \in Int
  <2>1. /\ month_offset(m, leap) \in Int /\ month_length(m, leap) \in 28 .. 31
        /\ month_offset(m + 1, leap) = month_offset(m, leap) + month_length(m, leap)
    BY <1>3, <1>9, MonthsFill
  <2> QED BY <2>1
<1> HIDE DEF o
<1> QED
  BY <1>1, <1>2, <1>5, <1>9, <1>10, <1>11, <1>12 DEF y, m

\* A later date is in the same month or a later one.
LEMMA MonthsInOrderOfDates ==
  ASSUME NEW d \in ValidDates, NEW e \in ValidDates, d <= e
  PROVE  \/ year(d) < year(e)
         \/ year(d) = year(e) /\ month(d) <= month(e)
<1>1. /\ d \in Int /\ year(d) \in CivilYears /\ e \in Int /\ year(e) \in CivilYears
  BY YearIs
<1>2. /\ month(d) \in CivilMonths /\ month(e) \in CivilMonths
      /\ BeforeMonth(year(d), month(d)) < d
      /\ e <= BeforeMonth(year(e), month(e) + 1)
  BY DateIs
<1>3. year(d) \in Int /\ year(e) \in Int /\ month(d) \in Int /\ month(e) \in Int
  BY <1>1, <1>2 DEF CivilYears, CivilMonths
<1>4. BeforeMonth(year(d), month(d)) \in Int
  BY <1>1, <1>2, MonthsAre
<1>5. BeforeMonth(year(e), month(e) + 1) \in Int
  <2>1. /\ BeforeMonth(year(e), month(e)) \in Int /\ LengthOf(year(e), month(e)) \in 28 .. 31
        /\ BeforeMonth(year(e), month(e) + 1) = BeforeMonth(year(e), month(e)) + LengthOf(year(e), month(e))
    BY <1>1, <1>2, MonthsAre
  <2> QED BY <2>1
<1>6. ASSUME year(e) < year(d) \/ (year(e) = year(d) /\ month(e) < month(d)) PROVE FALSE
  <2>1. BeforeMonth(year(e), month(e) + 1) <= BeforeMonth(year(d), month(d))
    BY <1>1, <1>2, <1>6, MonthsOneByOne
  <2> QED BY <1>1, <1>2, <1>4, <1>5, <2>1
<1> QED BY <1>3, <1>6

\* Two dates of one month are as far apart as their days.
LEMMA DaysOfAMonth ==
  ASSUME NEW d \in ValidDates, NEW e \in ValidDates, year(d) = year(e), month(d) = month(e)
  PROVE  /\ day_of_month(d) \in Int /\ day_of_month(e) \in Int
         /\ day_of_month(e) - day_of_month(d) = e - d
<1>1. /\ d \in Int /\ year(d) \in CivilYears /\ e \in Int
  BY YearIs
<1>2. /\ month(d) \in CivilMonths
      /\ day_of_month(d) = d - BeforeMonth(year(d), month(d))
      /\ day_of_month(e) = e - BeforeMonth(year(d), month(d))
  BY DateIs
<1>3. BeforeMonth(year(d), month(d)) \in Int
  BY <1>1, <1>2, MonthsAre
<1> QED BY <1>1, <1>2, <1>3

SameMonth(d, e) == year(d) = year(e) /\ month(d) = month(e)

\* Dates between two of a month are of it;
LEMMA BetweenIsSameMonth ==
  ASSUME NEW d \in ValidDates, NEW e \in ValidDates, NEW x \in ValidDates,
         d <= x, x <= e, SameMonth(d, e)
  PROVE  SameMonth(d, x) /\ SameMonth(x, e)
<1>1. /\ year(d) \in CivilYears /\ year(e) \in CivilYears /\ year(x) \in CivilYears
  BY YearIs
<1>2. /\ month(d) \in CivilMonths /\ month(e) \in CivilMonths /\ month(x) \in CivilMonths
  BY DateIs
<1>3. /\ year(d) \in Int /\ year(e) \in Int /\ year(x) \in Int
      /\ month(d) \in Int /\ month(e) \in Int /\ month(x) \in Int
  BY <1>1, <1>2 DEF CivilYears, CivilMonths
<1>4. year(d) < year(x) \/ (year(d) = year(x) /\ month(d) <= month(x))
  BY MonthsInOrderOfDates
<1>5. year(x) < year(e) \/ (year(x) = year(e) /\ month(x) <= month(e))
  BY MonthsInOrderOfDates
<1> QED BY <1>3, <1>4, <1>5 DEF SameMonth

\* and near dates of months of one name are of one month.
LEMMA NearDatesOfAMonth ==
  ASSUME NEW d \in ValidDates, NEW e \in ValidDates, d <= e, e <= d + Reach, month(d) = month(e)
  PROVE  SameMonth(d, e)
<1> DEFINE y == year(d)
           z == year(e)
           m == month(d)
<1>1. /\ d \in Int /\ y \in CivilYears /\ e \in Int /\ z \in CivilYears
  BY YearIs
<1>2. /\ m \in CivilMonths
      /\ d <= BeforeMonth(y, m + 1)
      /\ BeforeMonth(z, m) < e
  BY DateIs
<1>0. y \in Int /\ z \in Int
  BY <1>1 DEF CivilYears
<1>3. y < z \/ y = z
  BY MonthsInOrderOfDates
<1> HIDE DEF y, z, m
<1>4. ASSUME y < z PROVE FALSE
  <2>1. BeforeMonth(y, m) \in Int /\ LengthOf(y, m) \in 28 .. 31 /\ BeforeMonth(z, m) \in Int
        /\ BeforeMonth(y, m + 1) = BeforeMonth(y, m) + LengthOf(y, m)
    BY <1>1, <1>2, MonthsAre
  <2>2. /\ year_offset(y) \in Int /\ year_offset(y + 1) = year_offset(y) + LengthOfYear(y)
        /\ LengthOfYear(y) \in {365, 366}
    BY <1>1, YearsFollow
  <2>3. year_offset(y + 1) <= year_offset(z) /\ year_offset(z) \in Int
    BY <1>1, <1>4, YearsInOrder
  <2>4. month_offset(m, is_leap(y)) \in Int /\ month_offset(m, is_leap(z)) \in Int
        /\ month_offset(m, is_leap(y)) <= month_offset(m, is_leap(z)) + 1
    <3>1. is_leap(y) \in BOOLEAN /\ is_leap(z) \in BOOLEAN
      BY LeapOrNot
    <3> DEFINE p == is_leap(y)
               q == is_leap(z)
    <3> HIDE DEF p, q
    <3>2. m \in {1, 2, 3, 4, 5, 6, 7, 8, 9, 10, 11, 12}
      BY <1>2 DEF CivilMonths
    <3>3. \A a, b \in BOOLEAN : /\ month_offset(m, a) \in Int /\ month_offset(m, b) \in Int
                                /\ month_offset(m, a) <= month_offset(m, b) + 1
      BY <3>2, SMT DEF month_offset
    <3> QED BY <3>1, <3>3
  <2>5. /\ BeforeMonth(y, m) = month_offset(m, is_leap(y)) + year_offset(y)
        /\ BeforeMonth(z, m) = month_offset(m, is_leap(z)) + year_offset(z)
    BY DEF BeforeMonth
  <2>6. Reach = 60
    BY DEF Reach
  <2>7. d <= BeforeMonth(y, m) + 31
    BY <1>1, <1>2, <2>1
  <2>8. BeforeMonth(z, m) >= BeforeMonth(y, m) + 364
    <3> HIDE DEF y, z, m
    <3> DEFINE a == month_offset(m, is_leap(y))
               b == month_offset(m, is_leap(z))
    <3>1. a \in Int /\ b \in Int /\ a <= b + 1 /\ BeforeMonth(y, m) = a + year_offset(y)
          /\ BeforeMonth(z, m) = b + year_offset(z)
      BY <2>4, <2>5
    <3> HIDE DEF a, b
    <3> QED BY <3>1, <2>2, <2>3
  <2>9. e <= d + 60
    BY <2>6
  <2> QED BY <1>1, <1>2, <2>1, <2>7, <2>8, <2>9
<1>5. y = z
  BY <1>3, <1>4
<1> QED BY <1>5 DEF SameMonth, y, z

-----------------------------------------------------------------------------
(* Serial numbers, and adding months *)

\* Over the whole range of the type a serial number is the date of its own day,
\* month and year, in a month that has the day.
THEOREM SerialNumbersNameDates == SerialsNameDates
<1> SUFFICES ASSUME NEW s \in ValidDates
    PROVE  /\ day_of_month(s) \in 1 .. month_length(month(s), is_leap(year(s)))
           /\ DateOf(day_of_month(s), month(s), year(s)) = s
  BY DEF SerialsNameDates, ValidDates
<1> DEFINE y == year(s)
           m == month(s)
           d == day_of_month(s)
<1>1. s \in Int /\ y \in CivilYears
  BY YearIs
<1>2. m \in CivilMonths /\ BeforeMonth(y, m) < s /\ s <= BeforeMonth(y, m + 1)
      /\ d = s - BeforeMonth(y, m)
  BY DateIs
<1> HIDE DEF y, m, d
<1>3. /\ BeforeMonth(y, m) \in Int /\ LengthOf(y, m) \in 28 .. 31
      /\ BeforeMonth(y, m + 1) = BeforeMonth(y, m) + LengthOf(y, m)
  BY <1>1, <1>2, MonthsAre
<1>4. d \in 1 .. LengthOf(y, m)
  BY <1>1, <1>2, <1>3
<1>5. DateOf(d, m, y) = s
  <2> DEFINE o == month_offset(m, is_leap(y))
             z == year_offset(y)
  <2>1. z \in Int
    BY <1>1, YearsFollow
  <2>2. o \in Int
    <3> DEFINE leap == is_leap(y)
    <3>1. leap \in BOOLEAN
      BY LeapOrNot
    <3> HIDE DEF leap
    <3>2. month_offset(m, leap) \in Int
      BY <1>2, <3>1, MonthsFill
    <3> QED BY <3>2 DEF leap
  <2>3. DateOf(d, m, y) = d + o + z /\ BeforeMonth(y, m) = o + z
    BY DEF DateOf, BeforeMonth
  <2> HIDE DEF o, z
  <2> QED BY <1>1, <1>2, <2>1, <2>2, <2>3
<1> QED BY <1>4, <1>5 DEF LengthOf, y, m, d

\* The months counted from year 0 of which all days are dates.
MonthCounts == 12 * 1901 .. 12 * 2199 + 11
CountedYear(k) == k \div 12
CountedMonth(k) == (k % 12) + 1

LEMMA CountedMonthIs ==
  ASSUME NEW k \in MonthCounts
  PROVE  /\ k \in Int /\ CountedYear(k) \in CivilYears /\ CountedYear(k) >= 1901
         /\ CountedMonth(k) \in CivilMonths
         /\ 12 * CountedYear(k) + CountedMonth(k) - 1 = k
<1> DEFINE q == k \div 12
           r == k % 12
<1>1. k \in Int /\ 12 * 1901 <= k /\ k <= 12 * 2199 + 11
  BY DEF MonthCounts
<1>2. q \in Int /\ r \in 0 .. 11 /\ k = 12 * q + r
  BY <1>1
<1> HIDE DEF q, r
<1>3. q >= 1901 /\ q <= 2199
  BY <1>1, <1>2
<1>4. q \in CivilYears /\ r + 1 \in CivilMonths /\ 12 * q + (r + 1) - 1 = k
  BY <1>1, <1>2, <1>3 DEF CivilYears, CivilMonths
<1> QED BY <1>1, <1>3, <1>4 DEF q, r, CountedYear, CountedMonth

\* The day a date is made of is the day it has.
LEMMA DateHasItsDay ==
  ASSUME NEW y \in CivilYears, y >= 1901, NEW m \in CivilMonths, NEW d \in 1 .. LengthOf(y, m)
  PROVE  /\ DateOf(d, m, y) \in ValidDates
         /\ DateOf(d, m, y) = BeforeMonth(y, m) + d
         /\ year(DateOf(d, m, y)) = y /\ month(DateOf(d, m, y)) = m
         /\ day_of_month(DateOf(d, m, y)) = d
<1> DEFINE s == DateOf(d, m, y)
<1>1. /\ BeforeMonth(y, m) \in Int /\ LengthOf(y, m) \in 28 .. 31
      /\ BeforeMonth(y, m + 1) = BeforeMonth(y, m) + LengthOf(y, m)
      /\ year_offset(y) <= BeforeMonth(y, m)
      /\ BeforeMonth(y, m + 1) <= year_offset(y + 1)
  BY MonthsAre
<1>2. d \in Int /\ 1 <= d /\ d <= LengthOf(y, m)
  BY <1>1
<1>3. s = BeforeMonth(y, m) + d
  <2> DEFINE o == month_offset(m, is_leap(y))
             z == year_offset(y)
  <2>1. z \in Int
    BY YearsFollow
  <2>2. o \in Int
    <3> DEFINE leap == is_leap(y)
    <3>1. leap \in BOOLEAN
      BY LeapOrNot
    <3> HIDE DEF leap
    <3>2. month_offset(m, leap) \in Int
      BY <3>1, MonthsFill
    <3> QED BY <3>2 DEF leap
  <2>3. DateOf(d, m, y) = d + o + z /\ BeforeMonth(y, m) = o + z
    BY DEF DateOf, BeforeMonth
  <2> HIDE DEF o, z
  <2> QED BY <1>2, <2>1, <2>2, <2>3
<1>4. s \in ValidDates
  <2>1. year_offset(y) \in Int /\ year_offset(y + 1) \in Int
    <3>1. year_offset(y + 1) = year_offset(y) + LengthOfYear(y) /\ year_offset(y) \in Int
          /\ LengthOfYear(y) \in {365, 366}
      BY YearsFollow
    <3> QED BY <3>1
  <2>2. year_offset(1901) = 366 /\ year_offset(2200) = 109574
    BY SMT DEF year_offset
  <2>3. 366 <= year_offset(y)
    <3>1. y \in 1901 .. 2199
      BY DEF CivilYears
    <3> QED BY <3>1, SMT DEF year_offset
  <2>4. year_offset(y + 1) <= 109574
    <3>1. y \in 1901 .. 2199
      BY DEF CivilYears
    <3> QED BY <3>1, SMT DEF year_offset
  <2> HIDE DEF s
  <2>5. s \in Int /\ 367 <= s /\ s <= 109574
    BY <1>1, <1>2, <1>3, <2>1, <2>3, <2>4
  <2>6. MinDate \in Int /\ MaxDate \in Int /\ MinDate <= s /\ s <= MaxDate
    BY <2>5, SMT DEF MinDate, MaxDate
  <2> QED BY <2>5, <2>6 DEF ValidDates
<1> HIDE DEF s
<1> DEFINE z == year(s)
           n == month(s)
<1>5. s \in Int /\ z \in CivilYears
  BY <1>4, YearIs
<1>6. n \in CivilMonths /\ BeforeMonth(z, n) < s /\ s <= BeforeMonth(z, n + 1)
      /\ day_of_month(s) = s - BeforeMonth(z, n)
  BY <1>4, DateIs
<1> HIDE DEF z, n
<1>7. /\ BeforeMonth(z, n) \in Int /\ LengthOf(z, n) \in 28 .. 31
      /\ BeforeMonth(z, n + 1) = BeforeMonth(z, n) + LengthOf(z, n)
  BY <1>5, <1>6, MonthsAre
<1>8. y \in Int /\ z \in Int /\ m \in Int /\ n \in Int
  BY <1>5, <1>6 DEF CivilYears, CivilMonths
<1>9. ~(y < z \/ (y = z /\ m < n))
  <2> SUFFICES ASSUME y < z \/ (y = z /\ m < n) PROVE FALSE
    OBVIOUS
  <2>1. BeforeMonth(y, m + 1) <= BeforeMonth(z, n)
    BY <1>5, <1>6, MonthsOneByOne
  <2> QED BY <1>1, <1>2, <1>3, <1>5, <1>6, <1>7, <2>1
<1>10. ~(z < y \/ (z = y /\ n < m))
  <2> SUFFICES ASSUME z < y \/ (z = y /\ n < m) PROVE FALSE
    OBVIOUS
  <2>1. BeforeMonth(z, n + 1) <= BeforeMonth(y, m)
    BY <1>5, <1>6, MonthsOneByOne
  <2> QED BY <1>1, <1>2, <1>3, <1>5, <1>6, <1>7, <2>1
<1>11. z = y /\ n = m
  BY <1>8, <1>9, <1>10
<1>12. day_of_month(s) = d
  BY <1>1, <1>2, <1>3, <1>6, <1>11
<1> QED BY <1>3, <1>4, <1>11, <1>12 DEF s, z, n

\* A day put in a month, or the last of the month that does not have it.
LEMMA OnDayIs ==
  ASSUME NEW k \in MonthCounts, NEW d \in 1 .. 31
  PROVE  /\ OnDay(d, k) \in ValidDates
         /\ MonthCount(OnDay(d, k)) = k
         /\ LengthOf(CountedYear(k), CountedMonth(k)) \in 28 .. 31
         /\ day_of_month(OnDay(d, k)) =
              IF d > LengthOf(CountedYear(k), CountedMonth(k))
              THEN LengthOf(CountedYear(k), CountedMonth(k)) ELSE d
<1> DEFINE y == CountedYear(k)
           m == CountedMonth(k)
           length == LengthOf(y, m)
           e == IF d > length THEN length ELSE d
<1>1. k \in Int /\ y \in CivilYears /\ y >= 1901 /\ m \in CivilMonths /\ 12 * y + m - 1 = k
  BY CountedMonthIs
<1>2. length \in 28 .. 31
  BY <1>1, MonthsAre
<1>3. OnDay(d, k) = DateOf(e, m, y)
  BY DEF OnDay, CountedYear, CountedMonth, LengthOf
<1> HIDE DEF y, m, length
<1>4. e \in 1 .. length
  BY <1>2
<1> HIDE DEF e
<1>5. /\ DateOf(e, m, y) \in ValidDates
      /\ year(DateOf(e, m, y)) = y /\ month(DateOf(e, m, y)) = m
      /\ day_of_month(DateOf(e, m, y)) = e
  BY <1>1, <1>4, DateHasItsDay DEF length
<1>6. MonthCount(OnDay(d, k)) = k
  BY <1>1, <1>3, <1>5 DEF MonthCount
<1> QED BY <1>2, <1>3, <1>5, <1>6 DEF e, length, y, m

\* The month a date is in, counted, and its place in it.
LEMMA MonthCountIs ==
  ASSUME NEW s \in ValidDates
  PROVE  /\ s \in Int /\ year(s) \in Int /\ month(s) \in 1 .. 12
         /\ year(s) \in CivilYears /\ month(s) \in CivilMonths
         /\ MonthCount(s) \in Int
         /\ CountedYear(MonthCount(s)) = year(s) /\ CountedMonth(MonthCount(s)) = month(s)
         /\ day_of_month(s) \in 1 .. LengthOf(year(s), month(s))
         /\ LengthOf(year(s), month(s)) \in 28 .. 31
         /\ day_of_month(s) = s - BeforeMonth(year(s), month(s))
<1> DEFINE y == year(s)
           m == month(s)
<1>1. s \in Int /\ y \in CivilYears
  BY YearIs
<1>2. m \in CivilMonths /\ BeforeMonth(y, m) < s /\ s <= BeforeMonth(y, m + 1)
      /\ day_of_month(s) = s - BeforeMonth(y, m)
  BY DateIs
<1> HIDE DEF y, m
<1>3. y \in Int /\ m \in 1 .. 12
  BY <1>1, <1>2 DEF CivilYears, CivilMonths
<1>4. /\ BeforeMonth(y, m) \in Int /\ LengthOf(y, m) \in 28 .. 31
      /\ BeforeMonth(y, m + 1) = BeforeMonth(y, m) + LengthOf(y, m)
  BY <1>1, <1>2, MonthsAre
<1>5. day_of_month(s) \in 1 .. LengthOf(y, m)
  BY <1>1, <1>2, <1>4
<1>6. MonthCount(s) = 12 * y + m - 1
  BY DEF MonthCount, y, m
<1>7. (12 * y + m - 1) \div 12 = y /\ ((12 * y + m - 1) % 12) + 1 = m
  BY <1>3
<1>8. CountedYear(MonthCount(s)) = y /\ CountedMonth(MonthCount(s)) = m /\ MonthCount(s) \in Int
  BY <1>3, <1>6, <1>7 DEF CountedYear, CountedMonth
<1> QED BY <1>1, <1>2, <1>3, <1>4, <1>5, <1>8 DEF y, m

\* Dates of later months are later.
LEMMA MonthsOrderDates ==
  ASSUME NEW s \in ValidDates, NEW t \in ValidDates, MonthCount(s) < MonthCount(t)
  PROVE  s < t
<1>1. /\ s \in Int /\ year(s) \in Int /\ month(s) \in 1 .. 12
      /\ t \in Int /\ year(t) \in Int /\ month(t) \in 1 .. 12
  BY MonthCountIs
<1>2. 12 * year(s) + month(s) - 1 < 12 * year(t) + month(t) - 1
  BY DEF MonthCount
<1>3. ASSUME t <= s PROVE FALSE
  <2>1. year(t) < year(s) \/ (year(t) = year(s) /\ month(t) <= month(s))
    BY <1>3, MonthsInOrderOfDates
  <2> QED BY <1>1, <1>2, <2>1
<1> QED BY <1>1, <1>3

\* The day after a date is the next of its month, or one of the next month.
LEMMA NextDay ==
  ASSUME NEW s \in ValidDates, NEW t \in ValidDates, t = s + 1
  PROVE  \/ MonthCount(t) = MonthCount(s) /\ day_of_month(t) = day_of_month(s) + 1
         \/ MonthCount(t) > MonthCount(s)
<1>1. /\ s \in Int /\ year(s) \in Int /\ month(s) \in 1 .. 12
      /\ t \in Int /\ year(t) \in Int /\ month(t) \in 1 .. 12
  BY MonthCountIs
<1>2. year(s) < year(t) \/ (year(s) = year(t) /\ month(s) <= month(t))
  BY <1>1, MonthsInOrderOfDates
<1>3. CASE year(s) = year(t) /\ month(s) = month(t)
  <2>1. /\ day_of_month(s) \in Int /\ day_of_month(t) \in Int
        /\ day_of_month(t) - day_of_month(s) = t - s
    BY <1>3, DaysOfAMonth
  <2>2. MonthCount(t) = MonthCount(s)
    BY <1>3 DEF MonthCount
  <2> QED BY <1>1, <2>1, <2>2
<1>4. CASE ~(year(s) = year(t) /\ month(s) = month(t))
  <2>1. 12 * year(t) + month(t) - 1 > 12 * year(s) + month(s) - 1
    BY <1>1, <1>2, <1>4
  <2> QED BY <2>1 DEF MonthCount
<1> QED BY <1>3, <1>4

\* Adding n months to dates of whose months the n-th is one of the type lands in
\* that month, and keeps the order of a date and the next.
LEMMA AddingMonths ==
  ASSUME NEW s \in ValidDates, NEW n \in Int, MonthCount(s) + n \in MonthCounts
  PROVE  /\ advance(s, n, Months) = OnDay(day_of_month(s), MonthCount(s) + n)
         /\ advance(s, n, Months) \in ValidDates
         /\ MonthCount(advance(s, n, Months)) = MonthCount(s) + n
<1>1. advance(s, n, Months) = OnDay(day_of_month(s), MonthCount(s) + n)
  BY DEF advance, Days, Weeks, Months, Years
<1>2. day_of_month(s) \in 1 .. 31
  <2>1. day_of_month(s) \in 1 .. LengthOf(year(s), month(s)) /\ LengthOf(year(s), month(s)) \in 28 .. 31
    BY MonthCountIs
  <2> QED BY <2>1
<1> QED BY <1>1, <1>2, OnDayIs

LEMMA AddingKeepsOrder ==
  ASSUME NEW s \in ValidDates, NEW t \in ValidDates, t = s + 1, NEW n \in Int,
         MonthCount(s) + n \in MonthCounts, MonthCount(t) + n \in MonthCounts
  PROVE  advance(s, n, Months) <= advance(t, n, Months)
<1> DEFINE x == advance(s, n, Months)
           z == advance(t, n, Months)
           k == MonthCount(s) + n
           j == MonthCount(t) + n
<1>1. /\ x \in ValidDates /\ MonthCount(x) = k /\ x = OnDay(day_of_month(s), k)
      /\ z \in ValidDates /\ MonthCount(z) = j /\ z = OnDay(day_of_month(t), j)
  BY AddingMonths
<1>2. MonthCount(s) \in Int /\ MonthCount(t) \in Int /\ x \in Int /\ z \in Int
  BY <1>1, MonthCountIs
<1>3. CASE MonthCount(t) > MonthCount(s)
  <2>1. k < j
    BY <1>2, <1>3
  <2> HIDE DEF x, z, k, j
  <2>2. x < z
    BY <1>1, <2>1, MonthsOrderDates
  <2> QED BY <1>2, <2>2 DEF x, z
<1>4. CASE MonthCount(t) = MonthCount(s) /\ day_of_month(t) = day_of_month(s) + 1
  <2> DEFINE d == day_of_month(s)
             e == day_of_month(t)
             length == LengthOf(CountedYear(k), CountedMonth(k))
  <2>1. d \in 1 .. 31 /\ e \in 1 .. 31
    <3>1. /\ d \in 1 .. LengthOf(year(s), month(s)) /\ LengthOf(year(s), month(s)) \in 28 .. 31
          /\ e \in 1 .. LengthOf(year(t), month(t)) /\ LengthOf(year(t), month(t)) \in 28 .. 31
      BY MonthCountIs
    <3> QED BY <3>1
  <2>2. k = j
    BY <1>4
  <2>3. /\ length \in 28 .. 31
        /\ day_of_month(x) = IF d > length THEN length ELSE d
        /\ day_of_month(z) = IF e > length THEN length ELSE e
    BY <1>1, <2>1, <2>2, OnDayIs
  <2>4. year(x) = year(z) /\ month(x) = month(z)
    <3>1. CountedYear(MonthCount(x)) = year(x) /\ CountedMonth(MonthCount(x)) = month(x)
          /\ CountedYear(MonthCount(z)) = year(z) /\ CountedMonth(MonthCount(z)) = month(z)
      BY <1>1, MonthCountIs
    <3> QED BY <1>1, <2>2, <3>1
  <2>5. day_of_month(z) - day_of_month(x) = z - x
    BY <1>1, <2>4, DaysOfAMonth
  <2>6. e = d + 1
    BY <1>4
  <2> HIDE DEF d, e, length, x, z, k, j
  <2>7. day_of_month(x) <= day_of_month(z) /\ day_of_month(x) \in Int /\ day_of_month(z) \in Int
    BY <2>1, <2>3, <2>6
  <2>8. x <= z
    BY <1>2, <2>5, <2>7
  <2> QED BY <2>8 DEF x, z
<1> QED BY <1>3, <1>4, NextDay

\* Years are twelve months.
LEMMA YearsAreMonths ==
  ASSUME NEW s, NEW n PROVE advance(s, 12 * n, Months) = advance(s, n, Years)
BY DEF advance, Days, Weeks, Months, Years

\* The inner dates are far from the first and the last of the type.
LEMMA InnerDatesAre ==
  ASSUME NEW s \in InnerDates
  PROVE  /\ s \in Int /\ s \in ValidDates /\ s + 1 \in ValidDates
         /\ MinDate + 5000 <= s /\ s + 5000 <= MaxDate
         /\ MinDate + Reach <= s /\ s + Reach + 1 <= MaxDate
         /\ 1915 <= year(s) /\ year(s + 1) <= 2185
<1> DEFINE a == DateOf(1, 1, 1915)
           b == DateOf(31, 12, 2185)
           e == DateOf(30, 12, 2185)
<1>1. s \in a .. e
  BY DEF InnerDates
<1>2. /\ a \in ValidDates /\ year(a) = 1915 /\ a = BeforeMonth(1915, 1) + 1
  <2>1. 1915 \in CivilYears /\ 1 \in CivilMonths /\ 1915 >= 1901
    BY SMT DEF CivilYears, CivilMonths
  <2>2. 1 \in 1 .. LengthOf(1915, 1)
    BY <2>1, MonthsAre
  <2> QED BY <2>1, <2>2, DateHasItsDay
<1>3. /\ b \in ValidDates /\ year(b) = 2185 /\ b = BeforeMonth(2185, 12) + 31
      /\ e = BeforeMonth(2185, 12) + 30
  <2>1. 2185 \in CivilYears /\ 12 \in CivilMonths /\ 2185 >= 1901
    BY SMT DEF CivilYears, CivilMonths
  <2>2. LengthOf(2185, 12) = 31
    BY SMT DEF LengthOf, month_length
  <2>3. 31 \in 1 .. LengthOf(2185, 12) /\ 30 \in 1 .. LengthOf(2185, 12)
    BY <2>2
  <2> QED BY <2>1, <2>3, DateHasItsDay
<1>4. BeforeMonth(1915, 1) = 5479
  <2>1. year_offset(1915) = 5479
    BY SMT DEF year_offset
  <2>2. \A leap \in BOOLEAN : month_offset(1, leap) = 0
    BY SMT DEF month_offset
  <2>3. is_leap(1915) \in BOOLEAN
    BY LeapOrNot
  <2>4. month_offset(1, is_leap(1915)) = 0
    BY <2>2, <2>3
  <2> QED BY <2>1, <2>4 DEF BeforeMonth
<1>5. BeforeMonth(2185, 12) \in Int /\ BeforeMonth(2185, 12) + 5100 <= MaxDate
  <2>1. year_offset(2185) = 104096 /\ MaxDate = 109574
    BY SMT DEF year_offset, MaxDate
  <2>2. \A leap \in BOOLEAN : month_offset(12, leap) \in {334, 335}
    BY SMT DEF month_offset
  <2>3. is_leap(2185) \in BOOLEAN
    BY LeapOrNot
  <2>4. month_offset(12, is_leap(2185)) \in {334, 335}
    BY <2>2, <2>3
  <2> DEFINE o == month_offset(12, is_leap(2185))
  <2>5. BeforeMonth(2185, 12) = o + year_offset(2185) /\ o \in {334, 335}
    BY <2>4 DEF BeforeMonth
  <2> HIDE DEF o
  <2> QED BY <2>1, <2>5, SMT
<1> HIDE DEF a, b, e
<1>6. a = 5480 /\ b = e + 1 /\ e \in Int /\ b \in Int /\ b + 5000 <= MaxDate
  <2>1. a = 5480
    BY <1>2, <1>4
  <2> DEFINE o == BeforeMonth(2185, 12)
  <2>2. o \in Int /\ o + 5100 <= MaxDate /\ b = o + 31 /\ e = o + 30 /\ MaxDate \in Int
    BY <1>3, <1>5 DEF MaxDate
  <2> HIDE DEF o
  <2> QED BY <2>1, <2>2
<1>7. s \in Int /\ a <= s /\ s + 1 <= b
  BY <1>1, <1>6
<1>8. MinDate = 367 /\ Reach = 60 /\ MaxDate \in Int
  BY DEF MinDate, Reach, MaxDate
<1>9. s \in MinDate .. MaxDate /\ s + 1 \in MinDate .. MaxDate
  BY <1>6, <1>7, <1>8
<1>10. s \in ValidDates /\ s + 1 \in ValidDates
  BY <1>9 DEF ValidDates
<1>11. /\ MinDate + 5000 <= s /\ s + 5000 <= MaxDate
       /\ MinDate + Reach <= s /\ s + Reach + 1 <= MaxDate
  BY <1>6, <1>7, <1>8
<1>12. 1915 <= year(s)
  <2>1. year(a) < year(s) \/ year(a) = year(s)
    BY <1>2, <1>7, <1>10, MonthsInOrderOfDates
  <2>2. year(s) \in Int
    BY <1>10, MonthCountIs
  <2> QED BY <1>2, <2>1, <2>2
<1>13. year(s + 1) <= 2185
  <2> DEFINE t == s + 1
  <2>1. t \in ValidDates /\ t <= b
    BY <1>7, <1>10
  <2> HIDE DEF t
  <2>2. year(t) < year(b) \/ year(t) = year(b)
    BY <1>3, <2>1, MonthsInOrderOfDates
  <2>3. year(t) \in Int
    BY <2>1, MonthCountIs
  <2>4. year(t) <= 2185
    BY <1>3, <2>2, <2>3
  <2> QED BY <2>4 DEF t
<1> QED BY <1>7, <1>10, <1>11, <1>12, <1>13

LEMMA SamplesAre ==
  ASSUME NEW s \in SampleDates
  PROVE  /\ s \in Int /\ s \in ValidDates /\ s + 1 \in ValidDates
         /\ MinDate + Reach <= s /\ s + Reach + 1 <= MaxDate
         /\ 1915 <= year(s) /\ year(s + 1) <= 2185
<1>1. s \in InnerDates
  BY SampleDatesAssumption
<1> QED BY <1>1, InnerDatesAre

\* Months added to dates far enough from the first and the last of the type land in
\* the month they name and keep the order of dates; years are twelve.
THEOREM MonthsKeepOrder == MonthsAddInOrder
<1> SUFFICES ASSUME NEW s \in SampleDates, NEW n \in -14 .. 14
    PROVE  /\ 12 * year(advance(s, n, Months)) + month(advance(s, n, Months))
                = 12 * year(s) + month(s) + n
           /\ advance(s, n, Months) <= advance(s + 1, n, Months)
           /\ advance(s, 12 * n, Months) = advance(s, n, Years)
  BY DEF MonthsAddInOrder
<1> DEFINE t == s + 1
           x == advance(s, n, Months)
<1>1. s \in ValidDates /\ t \in ValidDates /\ 1915 <= year(s) /\ year(t) <= 2185
  BY SamplesAre
<1>2. /\ s \in Int /\ year(s) \in Int /\ month(s) \in 1 .. 12 /\ MonthCount(s) \in Int
      /\ year(t) \in Int /\ month(t) \in 1 .. 12 /\ MonthCount(t) \in Int
  BY <1>1, MonthCountIs
<1>3. year(s) < year(t) \/ (year(s) = year(t) /\ month(s) <= month(t))
  BY <1>1, <1>2, MonthsInOrderOfDates
<1>4. MonthCount(s) = 12 * year(s) + month(s) - 1 /\ MonthCount(t) = 12 * year(t) + month(t) - 1
  BY DEF MonthCount
<1>5. MonthCount(s) + n \in MonthCounts /\ MonthCount(t) + n \in MonthCounts
  <2> DEFINE k == MonthCount(s)
             j == MonthCount(t)
  <2>1. k \in Int /\ j \in Int /\ 12 * 1915 <= k /\ k <= j /\ j <= 12 * 2185 + 11
    BY <1>1, <1>2, <1>3, <1>4
  <2> HIDE DEF k, j
  <2>2. \A i \in Int : 12 * 1915 <= i /\ i <= 12 * 2185 + 11 => i + n \in MonthCounts
    BY SMT DEF MonthCounts
  <2> QED BY <2>1, <2>2 DEF k, j
<1>6. x \in ValidDates /\ MonthCount(x) = MonthCount(s) + n
  BY <1>1, <1>5, AddingMonths
<1>7. advance(s, n, Months) <= advance(t, n, Months)
  BY <1>1, <1>5, AddingKeepsOrder
<1>8. 12 * year(x) + month(x) = 12 * year(s) + month(s) + n
  <2>1. year(x) \in Int /\ month(x) \in 1 .. 12
    BY <1>6, MonthCountIs
  <2>2. MonthCount(x) = 12 * year(x) + month(x) - 1
    BY DEF MonthCount
  <2> HIDE DEF x
  <2> QED BY <1>2, <1>4, <1>6, <2>1, <2>2
<1> QED BY <1>7, <1>8, YearsAreMonths

-----------------------------------------------------------------------------
(* Rolling from one date and from the next, under every convention *)

\* Where the loops of adjust stop for a date and for the day after.
Ups(d) == NextBusinessDay(d)
Downs(d) == PreviousBusinessDay(d)

LEMMA RollFacts ==
  ASSUME NEW d \in Int, NEW e \in Int, e = d + 1, Rollable(d), Rollable(e)
  PROVE  /\ Ups(d) \in Int /\ Ups(e) \in Int /\ Downs(d) \in Int /\ Downs(e) \in Int
         /\ Downs(d) <= d /\ d <= Ups(d) /\ Downs(e) <= e /\ e <= Ups(e)
         /\ Ups(d) <= d + Reach /\ Ups(e) <= e + Reach
         /\ d - Reach <= Downs(d) /\ e - Reach <= Downs(e)
         /\ is_business_day(Ups(d)) /\ is_business_day(Downs(d))
         /\ is_business_day(Ups(e)) /\ is_business_day(Downs(e))
         /\ Ups(d) <= Ups(e) /\ Downs(d) <= Downs(e)
         /\ is_business_day(d) => Ups(d) = d /\ Downs(d) = d /\ d <= Downs(e)
         /\ ~is_business_day(d) => Ups(d) = Ups(e)
         /\ is_business_day(e) => Ups(e) = e /\ Downs(e) = e
         /\ ~is_business_day(e) => Downs(e) = Downs(d)
<1> DEFINE u == Ups(d)
           v == Ups(e)
           w == Downs(d)
           x == Downs(e)
<1>0. e = d + 1 /\ Reach \in Int
  BY DEF Reach
<1>1. /\ u \in Int /\ u >= d /\ u <= d + Reach /\ is_business_day(u)
      /\ \A a \in d .. u - 1 : ~is_business_day(a)
  BY NextIsFirst DEF Ups
<1>2. /\ v \in Int /\ v >= e /\ v <= e + Reach /\ is_business_day(v)
      /\ \A a \in e .. v - 1 : ~is_business_day(a)
  BY <1>0, NextIsFirst DEF Ups
<1>3. /\ w \in Int /\ w <= d /\ d - Reach <= w /\ is_business_day(w)
      /\ \A a \in w + 1 .. d : ~is_business_day(a)
  BY PreviousIsLast DEF Downs
<1>4. /\ x \in Int /\ x <= e /\ e - Reach <= x /\ is_business_day(x)
      /\ \A a \in x + 1 .. e : ~is_business_day(a)
  BY <1>0, PreviousIsLast DEF Downs
<1> HIDE DEF u, v, w, x
<1>5. v \notin d .. u - 1 /\ w \notin x + 1 .. e
  BY <1>1, <1>2, <1>3, <1>4
<1>6. u <= v /\ w <= x
  BY <1>0, <1>1, <1>2, <1>3, <1>4, <1>5
<1>7. ASSUME is_business_day(d) PROVE u = d /\ w = d /\ d <= x
  <2>1. d \notin d .. u - 1 /\ d \notin w + 1 .. d /\ d \notin x + 1 .. e
    BY <1>1, <1>3, <1>4, <1>7
  <2> QED BY <1>0, <1>1, <1>3, <1>4, <2>1
<1>8. ASSUME ~is_business_day(d) PROVE u = v
  <2>1. u # d
    BY <1>1, <1>8
  <2>2. u \notin e .. v - 1
    BY <1>1, <1>2
  <2> QED BY <1>0, <1>1, <1>2, <1>6, <2>1, <2>2
<1>9. ASSUME is_business_day(e) PROVE v = e /\ x = e
  <2>1. e \notin e .. v - 1 /\ e \notin x + 1 .. e
    BY <1>2, <1>4, <1>9
  <2> QED BY <1>0, <1>2, <1>4, <2>1
<1>10. ASSUME ~is_business_day(e) PROVE x = w
  <2>1. x # e
    BY <1>4, <1>10
  <2>2. x \notin w + 1 .. d
    BY <1>3, <1>4
  <2> QED BY <1>0, <1>3, <1>4, <1>6, <2>1, <2>2
<1>11. /\ w <= d /\ d <= u /\ x <= e /\ e <= v
       /\ u <= d + Reach /\ v <= e + Reach /\ d - Reach <= w /\ e - Reach <= x
  BY <1>0, <1>1, <1>2, <1>3, <1>4
<1> QED BY <1>1, <1>2, <1>3, <1>4, <1>6, <1>7, <1>8, <1>9, <1>10, <1>11 DEF u, v, w, x

SameHalf(d, e) ==
  SameMonth(d, e) /\ (day_of_month(d) <= 15) = (day_of_month(e) <= 15)

\* A date between two of a half is of it.
LEMMA BetweenIsSameHalf ==
  ASSUME NEW d \in ValidDates, NEW e \in ValidDates, NEW x \in ValidDates,
         d <= x, x <= e, SameHalf(d, e)
  PROVE  SameHalf(d, x) /\ SameHalf(e, x)
<1>1. SameMonth(d, x) /\ SameMonth(x, e)
  BY BetweenIsSameMonth DEF SameHalf
<1>2. d \in Int /\ e \in Int /\ x \in Int
  BY YearIs
<1>3. /\ day_of_month(d) \in Int /\ day_of_month(x) \in Int
      /\ day_of_month(x) - day_of_month(d) = x - d
  BY <1>1, DaysOfAMonth DEF SameMonth
<1>4. /\ day_of_month(e) \in Int
      /\ day_of_month(e) - day_of_month(x) = e - x
  BY <1>1, DaysOfAMonth DEF SameMonth
<1> DEFINE i == day_of_month(d)
           j == day_of_month(e)
           k == day_of_month(x)
<1>5. (i <= 15) = (j <= 15)
  BY DEF SameHalf
<1> HIDE DEF i, j, k
<1>6. i <= k /\ k <= j
  BY <1>2, <1>3, <1>4 DEF i, j, k
<1>7. i \in Int /\ j \in Int /\ k \in Int
  BY <1>3, <1>4 DEF i, j, k
<1>8. (i <= 15) = (k <= 15) /\ (j <= 15) = (k <= 15)
  BY <1>5, <1>6, <1>7
<1> QED BY <1>1, <1>8 DEF SameHalf, SameMonth, i, j, k

\* A business day of the half of a month of d.
OpenHalf(d) == \E b \in d - 15 .. d + 15 : /\ is_business_day(b) /\ b \in ValidDates
                                           /\ SameHalf(d, b)

\* So a roll up or a roll down stays in the half.
LEMMA RollsStay ==
  ASSUME NEW d \in ValidDates, Rollable(d), OpenHalf(d),
         Ups(d) \in ValidDates, Downs(d) \in ValidDates
  PROVE  SameHalf(d, Ups(d)) \/ SameHalf(d, Downs(d))
<1> DEFINE u == Ups(d)
           w == Downs(d)
<1>0. d \in Int
  BY YearIs
<1>1. /\ u \in Int /\ u >= d 
      /\ \A a \in d .. u - 1 : ~is_business_day(a)
  BY <1>0, NextIsFirst DEF Ups
<1>2. /\ w \in Int /\ w <= d 
      /\ \A a \in w + 1 .. d : ~is_business_day(a)
  BY <1>0, PreviousIsLast DEF Downs
<1>3. PICK b \in d - 15 .. d + 15 : is_business_day(b) /\ b \in ValidDates /\ SameHalf(d, b)
  BY DEF OpenHalf
<1>4. u \in ValidDates /\ w \in ValidDates /\ b \in Int
  BY <1>0
<1> HIDE DEF u, w
<1>5. CASE d <= b
  <2>1. b \notin d .. u - 1
    BY <1>1, <1>3
  <2>2. u <= b
    BY <1>0, <1>1, <1>4, <1>5, <2>1
  <2>3. SameHalf(d, u)
    BY <1>1, <1>3, <1>4, <2>2, BetweenIsSameHalf
  <2> QED BY <2>3 DEF u
<1>6. CASE b <= d
  <2>1. b \notin w + 1 .. d
    BY <1>2, <1>3
  <2>2. b <= w
    BY <1>0, <1>2, <1>4, <1>6, <2>1
  <2>3. SameHalf(b, d)
    BY <1>3 DEF SameHalf, SameMonth
  <2>4. SameHalf(d, w)
    BY <1>2, <1>3, <1>4, <2>2, <2>3, BetweenIsSameHalf
  <2> QED BY <2>4 DEF w
<1> QED BY <1>0, <1>4, <1>5, <1>6

Crosses(d, c) ==
  \/ month(Ups(d)) # month(d)
  \/ c = HalfMonthModifiedFollowing /\ day_of_month(d) <= 15 /\ day_of_month(Ups(d)) > 15

\* Where each convention that may turn round ends.
LEMMA AdjustIs ==
  ASSUME NEW d
  PROVE  /\ adjust(d, Following) = Ups(d)
         /\ adjust(d, Preceding) = Downs(d)
         /\ \A c \in {ModifiedFollowing, HalfMonthModifiedFollowing} :
              adjust(d, c) = IF Crosses(d, c) THEN Downs(d) ELSE Ups(d)
         /\ adjust(d, ModifiedPreceding) =
              IF month(Downs(d)) # month(d) THEN Ups(d) ELSE Downs(d)
         /\ adjust(d, Nearest) = IF Ups(d) - d <= d - Downs(d) THEN Ups(d) ELSE Downs(d)
<1>1. adjust(d, Following) = Ups(d) /\ adjust(d, Preceding) = Downs(d)
  BY DEF adjust, RollTo, Unadjusted, Following, Preceding, ModifiedFollowing, ModifiedPreceding,
         HalfMonthModifiedFollowing, Nearest, Ups, Downs
<1>2. ASSUME NEW c \in {ModifiedFollowing, HalfMonthModifiedFollowing}
      PROVE  adjust(d, c) = IF Crosses(d, c) THEN Downs(d) ELSE Ups(d)
  BY DEF adjust, RollTo, Unadjusted, Following, Preceding, ModifiedFollowing, ModifiedPreceding,
         HalfMonthModifiedFollowing, Nearest, Ups, Downs, Crosses
<1>3. adjust(d, ModifiedPreceding) = IF month(Downs(d)) # month(d) THEN Ups(d) ELSE Downs(d)
  BY DEF adjust, RollTo, Unadjusted, Following, Preceding, ModifiedFollowing, ModifiedPreceding,
         HalfMonthModifiedFollowing, Nearest, Ups, Downs
<1>4. adjust(d, Nearest) = IF Ups(d) - d <= d - Downs(d) THEN Ups(d) ELSE Downs(d)
  BY DEF adjust, RollTo, Unadjusted, Following, Preceding, ModifiedFollowing, ModifiedPreceding,
         HalfMonthModifiedFollowing, Nearest, Ups, Downs
<1> QED BY <1>1, <1>2, <1>3, <1>4

\* What rolling needs of a date: business days in reach, one of them in its half.
Placed(d) ==
  /\ d \in ValidDates /\ Rollable(d) /\ OpenHalf(d)
  /\ Ups(d) \in ValidDates /\ Downs(d) \in ValidDates

\* A roll up that does not cross stays in the month and in the half; one that
\* crosses leaves the half.
LEMMA UpStays ==
  ASSUME NEW d, Placed(d), NEW c \in {ModifiedFollowing, HalfMonthModifiedFollowing}
  PROVE  /\ ~Crosses(d, c) => /\ SameMonth(d, Ups(d))
                              /\ c = HalfMonthModifiedFollowing => SameHalf(d, Ups(d))
         /\ Crosses(d, c) => ~SameHalf(d, Ups(d))
<1> DEFINE u == Ups(d)
<1>1. d \in Int /\ u \in Int /\ d <= u /\ u <= d + Reach /\ d \in ValidDates /\ u \in ValidDates
  <2>1. d \in Int
    BY YearIs DEF Placed
  <2> QED BY <2>1, NextIsFirst DEF Placed, Ups
<1> HIDE DEF u
<1>2. ASSUME ~Crosses(d, c)
      PROVE  SameMonth(d, u) /\ (c = HalfMonthModifiedFollowing => SameHalf(d, u))
  <2>1. SameMonth(d, u)
    <3>1. month(d) = month(u)
      BY <1>2 DEF Crosses, u
    <3> QED BY <1>1, <3>1, NearDatesOfAMonth
  <2>2. /\ day_of_month(d) \in Int /\ day_of_month(u) \in Int
        /\ day_of_month(u) - day_of_month(d) = u - d
    BY <1>1, <2>1, DaysOfAMonth DEF SameMonth
  <2>3. day_of_month(d) <= day_of_month(u)
    BY <1>1, <2>2
  <2>4. ASSUME c = HalfMonthModifiedFollowing PROVE SameHalf(d, u)
    <3>1. ~(day_of_month(d) <= 15 /\ day_of_month(u) > 15)
      BY <1>2, <2>4 DEF Crosses, u
    <3> DEFINE i == day_of_month(d)
               j == day_of_month(u)
    <3> HIDE DEF i, j
    <3>2. i \in Int /\ j \in Int /\ i <= j /\ ~(i <= 15 /\ j > 15)
      BY <2>2, <2>3, <3>1 DEF i, j
    <3>3. (i <= 15) = (j <= 15)
      BY <3>2
    <3> QED BY <2>1, <3>3 DEF SameHalf, i, j
  <2> QED BY <2>1, <2>4
<1>3. ASSUME Crosses(d, c), SameHalf(d, u) PROVE FALSE
  <2>1. month(d) = month(u) /\ (day_of_month(d) <= 15) = (day_of_month(u) <= 15)
    BY <1>3 DEF SameHalf, SameMonth
  <2>2. day_of_month(d) <= 15 /\ day_of_month(u) > 15
    BY <1>3, <2>1 DEF Crosses, u
  <2>3. day_of_month(u) \in Int
    BY <1>1, <1>3, DaysOfAMonth DEF SameMonth, SameHalf
  <2> QED BY <2>1, <2>2, <2>3
<1> QED BY <1>2, <1>3 DEF u

\* A convention that turns round at an end of month stays in the month, and
\* HalfMonthModifiedFollowing in the half.
LEMMA ModifiedStays ==
  ASSUME NEW d, Placed(d),
         NEW c \in {ModifiedFollowing, ModifiedPreceding, HalfMonthModifiedFollowing}
  PROVE  /\ month(adjust(d, c)) = month(d)
         /\ c = HalfMonthModifiedFollowing => SameHalf(d, adjust(d, c))
<1>0. SameHalf(d, Ups(d)) \/ SameHalf(d, Downs(d))
  BY RollsStay DEF Placed
<1>1. CASE c \in {ModifiedFollowing, HalfMonthModifiedFollowing}
  <2>1. adjust(d, c) = IF Crosses(d, c) THEN Downs(d) ELSE Ups(d)
    BY <1>1, AdjustIs
  <2>2. CASE Crosses(d, c)
    <3>1. SameHalf(d, Downs(d))
      BY <1>0, <1>1, <2>2, UpStays
    <3> QED BY <2>1, <2>2, <3>1 DEF SameHalf, SameMonth
  <2>3. CASE ~Crosses(d, c)
    <3>1. /\ SameMonth(d, Ups(d))
          /\ c = HalfMonthModifiedFollowing => SameHalf(d, Ups(d))
      BY <1>1, <2>3, UpStays
    <3> QED BY <2>1, <2>3, <3>1 DEF SameMonth
  <2> QED BY <2>2, <2>3
<1>2. CASE c = ModifiedPreceding
  <2>1. adjust(d, c) = IF month(Downs(d)) # month(d) THEN Ups(d) ELSE Downs(d)
    BY <1>2, AdjustIs
  <2>2. month(adjust(d, c)) = month(d)
    BY <1>0, <2>1 DEF SameHalf, SameMonth
  <2> QED BY <1>2, <2>2 DEF ModifiedPreceding, HalfMonthModifiedFollowing
<1> QED BY <1>1, <1>2

\* A business day is left alone.
LEMMA BusinessDaysStay ==
  ASSUME NEW r \in Int, is_business_day(r), NEW c \in Conventions
  PROVE  adjust(r, c) = r
<1>1. Rollable(r)
  <2>1. 0 \in 0 .. Reach /\ r + 0 = r /\ r - 0 = r
    BY DEF Reach
  <2> QED BY <2>1 DEF Rollable
<1>2. NextBusinessDay(r) = r
  <2>1. /\ NextBusinessDay(r) \in Int /\ NextBusinessDay(r) >= r
        /\ \A e \in r .. NextBusinessDay(r) - 1 : ~is_business_day(e)
    BY <1>1, NextIsFirst
  <2>2. r \notin r .. NextBusinessDay(r) - 1
    BY <2>1
  <2> QED BY <2>1, <2>2
<1>3. PreviousBusinessDay(r) = r
  <2>1. /\ PreviousBusinessDay(r) \in Int /\ PreviousBusinessDay(r) <= r
        /\ \A e \in PreviousBusinessDay(r) + 1 .. r : ~is_business_day(e)
    BY <1>1, PreviousIsLast
  <2>2. r \notin PreviousBusinessDay(r) + 1 .. r
    BY <2>1
  <2> QED BY <2>1, <2>2
<1> QED BY <1>2, <1>3 DEF adjust, RollTo, Conventions, Unadjusted, Following, Preceding,
         ModifiedFollowing, ModifiedPreceding, HalfMonthModifiedFollowing, Nearest

\* The conventions that turn round keep the order of dates.
LEMMA ModifiedFollowingOrder ==
  ASSUME NEW d \in Int, NEW e \in Int, e = d + 1, Placed(d), Placed(e),
         NEW c \in {ModifiedFollowing, HalfMonthModifiedFollowing}
  PROVE  adjust(d, c) <= adjust(e, c)
<1>1. /\ adjust(d, c) = IF Crosses(d, c) THEN Downs(d) ELSE Ups(d)
      /\ adjust(e, c) = IF Crosses(e, c) THEN Downs(e) ELSE Ups(e)
  BY AdjustIs
<1>2. /\ Ups(d) \in Int /\ Ups(e) \in Int /\ Downs(d) \in Int /\ Downs(e) \in Int
      /\ Downs(d) <= d /\ d <= Ups(d) /\ Downs(e) <= e /\ e <= Ups(e)
      /\ Ups(d) <= Ups(e) /\ Downs(d) <= Downs(e)
      /\ is_business_day(Downs(e))
      /\ is_business_day(d) => Ups(d) = d /\ Downs(d) = d /\ d <= Downs(e)
      /\ ~is_business_day(d) => Ups(d) = Ups(e)
      /\ is_business_day(e) => Ups(e) = e /\ Downs(e) = e
  BY RollFacts DEF Placed
<1>3. ASSUME ~Crosses(d, c), Crosses(e, c), ~is_business_day(d)
      PROVE  FALSE
  <2>1. ~SameHalf(e, Ups(e)) /\ Ups(d) = Ups(e)
    BY <1>2, <1>3, UpStays
  <2>2. SameHalf(e, Downs(e))
    BY <2>1, RollsStay DEF Placed
  <2>3. Downs(e) # e
    <3>1. ASSUME is_business_day(e) PROVE FALSE
      <4>1. Ups(e) = e /\ Downs(e) = e
        BY <1>2, <3>1
      <4> QED BY <2>1, <2>2, <4>1
    <3> QED BY <1>2, <3>1
  <2>4. Downs(e) <= d /\ d <= e
    BY <1>2, <2>3
  <2>5. SameHalf(Downs(e), e)
    BY <2>2 DEF SameHalf, SameMonth
  <2>6. SameHalf(e, d)
    BY <2>4, <2>5, BetweenIsSameHalf DEF Placed
  <2>7. month(e) = month(d) /\ (day_of_month(e) <= 15) = (day_of_month(d) <= 15)
    BY <2>6 DEF SameHalf, SameMonth
  <2> QED BY <1>3, <2>1, <2>7 DEF Crosses
<1> QED BY <1>1, <1>2, <1>3

LEMMA ModifiedPrecedingOrder ==
  ASSUME NEW d \in Int, NEW e \in Int, e = d + 1, Placed(d), Placed(e)
  PROVE  adjust(d, ModifiedPreceding) <= adjust(e, ModifiedPreceding)
<1>1. /\ adjust(d, ModifiedPreceding) = IF month(Downs(d)) # month(d) THEN Ups(d) ELSE Downs(d)
      /\ adjust(e, ModifiedPreceding) = IF month(Downs(e)) # month(e) THEN Ups(e) ELSE Downs(e)
  BY AdjustIs
<1>2. /\ Ups(d) \in Int /\ Ups(e) \in Int /\ Downs(d) \in Int /\ Downs(e) \in Int
      /\ Downs(d) <= d /\ d <= Ups(d) /\ Downs(e) <= e /\ e <= Ups(e)
      /\ e - Reach <= Downs(e)
      /\ Ups(d) <= Ups(e) /\ Downs(d) <= Downs(e)
      /\ is_business_day(d) => Ups(d) = d /\ Downs(d) = d /\ d <= Downs(e)
      /\ ~is_business_day(d) => Ups(d) = Ups(e)
      /\ is_business_day(e) => Ups(e) = e /\ Downs(e) = e
      /\ ~is_business_day(e) => Downs(e) = Downs(d)
  BY RollFacts DEF Placed
<1>3. ASSUME month(Downs(d)) # month(d), month(Downs(e)) = month(e), ~is_business_day(e)
      PROVE  FALSE
  <2>1. Downs(e) = Downs(d) /\ Downs(e) <= d /\ d <= e
    BY <1>2, <1>3
  <2>2. e <= Downs(e) + Reach
    <3>1. Reach \in Int
      BY DEF Reach
    <3> QED BY <1>2, <3>1
  <2>3. SameMonth(Downs(e), e)
    <3>1. Downs(e) <= e
      BY <1>2
    <3> QED BY <1>3, <2>2, <3>1, NearDatesOfAMonth DEF Placed
  <2>4. SameMonth(Downs(e), d)
    BY <2>1, <2>3, BetweenIsSameMonth DEF Placed
  <2> QED BY <1>3, <2>1, <2>4 DEF SameMonth
<1> QED BY <1>1, <1>2, <1>3

LEMMA NearestOrder ==
  ASSUME NEW d \in Int, NEW e \in Int, e = d + 1, Placed(d), Placed(e)
  PROVE  adjust(d, Nearest) <= adjust(e, Nearest)
<1>1. /\ adjust(d, Nearest) = IF Ups(d) - d <= d - Downs(d) THEN Ups(d) ELSE Downs(d)
      /\ adjust(e, Nearest) = IF Ups(e) - e <= e - Downs(e) THEN Ups(e) ELSE Downs(e)
  BY AdjustIs
<1>2. /\ Ups(d) \in Int /\ Ups(e) \in Int /\ Downs(d) \in Int /\ Downs(e) \in Int
      /\ Downs(d) <= d /\ d <= Ups(d) /\ Downs(e) <= e /\ e <= Ups(e)
      /\ Ups(d) <= Ups(e) /\ Downs(d) <= Downs(e)
      /\ is_business_day(d) => Ups(d) = d /\ Downs(d) = d /\ d <= Downs(e)
      /\ ~is_business_day(d) => Ups(d) = Ups(e)
      /\ is_business_day(e) => Ups(e) = e /\ Downs(e) = e
      /\ ~is_business_day(e) => Downs(e) = Downs(d)
  BY RollFacts DEF Placed
<1> QED BY <1>1, <1>2

LEMMA SimpleOrder ==
  ASSUME NEW d \in Int, NEW e \in Int, e = d + 1, Placed(d), Placed(e),
         NEW c \in {Following, Preceding}
  PROVE  adjust(d, c) <= adjust(e, c)
<1>1. Ups(d) <= Ups(e) /\ Downs(d) <= Downs(e)
  BY RollFacts DEF Placed
<1> QED BY <1>1, AdjustIs

\* Nobody makes a holiday of an open day, so business days are in reach of the
\* sample dates and in the half of their month.
LEMMA OpenIsBusiness ==
  ASSUME added \subseteq Editable, NEW b \in OpenDays
  PROVE  is_business_day(b)
BY DEF OpenDays, is_business_day

LEMMA OpenIsRollable ==
  ASSUME added \subseteq Editable, NEW d, OpenAround(d)
  PROVE  Rollable(d)
<1>1. \E k \in 0 .. Reach : is_business_day(d + k)
  BY OpenIsBusiness DEF OpenAround
<1>2. \E k \in 0 .. Reach : is_business_day(d - k)
  BY OpenIsBusiness DEF OpenAround
<1> QED BY <1>1, <1>2 DEF Rollable

LEMMA AroundIsRollable ==
  ASSUME added \subseteq Editable, NEW s \in SampleDates, NEW d \in s - Around .. s + Around
  PROVE  Rollable(d)
BY OpenDaysAssumption, OpenIsRollable

LEMMA OpenIsPlaced ==
  ASSUME added \subseteq Editable, NEW d \in Int, d - Reach >= MinDate, d + Reach <= MaxDate,
         OpenAround(d), OpenInHalf(d)
  PROVE  Placed(d)
<1>1. Reach = 60 /\ MinDate \in Int /\ MaxDate \in Int
  BY DEF Reach, MinDate, MaxDate
<1>2. Rollable(d)
  BY OpenIsRollable
<1>3. \A x \in d - Reach .. d + Reach : x \in ValidDates
  BY <1>1 DEF ValidDates
<1>4. Ups(d) \in d .. d + Reach /\ Downs(d) \in d - Reach .. d
  BY <1>1, <1>2, NextIsFirst, PreviousIsLast DEF Ups, Downs
<1>5. Ups(d) \in ValidDates /\ Downs(d) \in ValidDates /\ d \in ValidDates
  BY <1>1, <1>3, <1>4
<1>6. OpenHalf(d)
  <2>1. PICK b \in d - 15 .. d + 15 : b \in OpenDays /\ HalfOf(b) = HalfOf(d)
    BY DEF OpenInHalf
  <2>2. is_business_day(b) /\ b \in ValidDates
    BY <1>1, <1>3, <2>1, OpenIsBusiness
  <2>3. SameHalf(d, b)
    BY <2>1 DEF HalfOf, SameHalf, SameMonth
  <2> QED BY <2>2, <2>3 DEF OpenHalf
<1> QED BY <1>2, <1>5, <1>6 DEF Placed

LEMMA SamplesArePlaced ==
  ASSUME added \subseteq Editable, NEW s \in SampleDates, NEW d \in {s, s + 1}
  PROVE  Placed(d)
<1>1. s \in Int /\ MinDate + Reach <= s /\ s + Reach + 1 <= MaxDate
  BY SamplesAre
<1>2. Reach = 60 /\ Around \in Int /\ Around >= 1 /\ MinDate \in Int /\ MaxDate \in Int
  BY DEF Reach, Around, MinDate, MaxDate
<1>3. d \in Int /\ d - Reach >= MinDate /\ d + Reach <= MaxDate
  BY <1>1, <1>2
<1>4. d \in s - Around .. s + Around
  BY <1>1, <1>2
<1>5. OpenAround(d) /\ OpenInHalf(d)
  BY <1>4, OpenDaysAssumption
<1> QED BY <1>3, <1>5, OpenIsPlaced

\* Every convention rolls to a business day.
LEMMA AdjustIsBusinessDay ==
  ASSUME NEW d \in Int, Rollable(d), NEW c \in Conventions \ {Unadjusted}
  PROVE  adjust(d, c) \in Int /\ is_business_day(adjust(d, c))
<1>1. /\ Ups(d) \in Int /\ is_business_day(Ups(d))
      /\ Downs(d) \in Int /\ is_business_day(Downs(d))
  BY NextIsFirst, PreviousIsLast DEF Ups, Downs
<1>2. adjust(d, c) \in {Ups(d), Downs(d)}
  <2>1. CASE c \in {Following, Preceding}
    BY <2>1, AdjustIs
  <2>2. CASE c \in {ModifiedFollowing, HalfMonthModifiedFollowing}
    BY <2>2, AdjustIs
  <2>3. CASE c \in {ModifiedPreceding, Nearest}
    BY <2>3, AdjustIs
  <2> QED BY <2>1, <2>2, <2>3 DEF Conventions
<1> QED BY <1>1, <1>2

\* Every convention keeps the order of a date and the next.
LEMMA NeighboursKeepOrder ==
  ASSUME NEW d \in Int, Placed(d), Placed(d + 1), NEW c \in Conventions \ {Unadjusted}
  PROVE  adjust(d, c) <= adjust(d + 1, c)
<1> DEFINE e == d + 1
<1>1. e \in Int /\ e = d + 1 /\ Placed(e)
  OBVIOUS
<1> HIDE DEF e
<1>2. CASE c \in {Following, Preceding}
  BY <1>1, <1>2, SimpleOrder
<1>3. CASE c \in {ModifiedFollowing, HalfMonthModifiedFollowing}
  BY <1>1, <1>3, ModifiedFollowingOrder
<1>4. CASE c = ModifiedPreceding
  BY <1>1, <1>4, ModifiedPrecedingOrder
<1>5. CASE c = Nearest
  BY <1>1, <1>5, NearestOrder
<1>6. \/ c \in {Following, Preceding} \/ c \in {ModifiedFollowing, HalfMonthModifiedFollowing}
      \/ c = ModifiedPreceding \/ c = Nearest
  BY DEF Conventions
<1> QED BY <1>1, <1>2, <1>3, <1>4, <1>5, <1>6

LEMMA RollsAreInOrder ==
  ASSUME added \subseteq Editable
  PROVE  RollingKeepsOrder
<1> SUFFICES ASSUME NEW d \in SampleDates, NEW c \in Conventions \ {Unadjusted}
    PROVE  /\ is_business_day(adjust(d, c)) /\ adjust(adjust(d, c), c) = adjust(d, c)
           /\ adjust(d, c) <= adjust(d + 1, c)
           /\ c \in {ModifiedFollowing, ModifiedPreceding, HalfMonthModifiedFollowing} =>
                month(adjust(d, c)) = month(d)
           /\ c = HalfMonthModifiedFollowing =>
                (day_of_month(d) <= 15) = (day_of_month(adjust(d, c)) <= 15)
  BY DEF RollingKeepsOrder
<1>1. d \in Int /\ d + 1 \in Int /\ Placed(d) /\ Placed(d + 1)
  BY SamplesAre, SamplesArePlaced
<1>2. adjust(d, c) \in Int /\ is_business_day(adjust(d, c))
  BY <1>1, AdjustIsBusinessDay DEF Placed
<1>3. adjust(adjust(d, c), c) = adjust(d, c)
  BY <1>2, BusinessDaysStay
<1>4. adjust(d, c) <= adjust(d + 1, c)
  BY <1>1, NeighboursKeepOrder
<1>5. ASSUME c \in {ModifiedFollowing, ModifiedPreceding, HalfMonthModifiedFollowing}
      PROVE  month(adjust(d, c)) = month(d)
  BY <1>1, <1>5, ModifiedStays
<1>6. ASSUME c = HalfMonthModifiedFollowing
      PROVE  (day_of_month(d) <= 15) = (day_of_month(adjust(d, c)) <= 15)
  <2>1. SameHalf(d, adjust(d, c))
    BY <1>1, <1>6, ModifiedStays
  <2> QED BY <2>1 DEF SameHalf
<1> QED BY <1>2, <1>3, <1>4, <1>5, <1>6

-----------------------------------------------------------------------------
(* Counting business days and advancing by them *)

\* One business day on, or back.
Onward(x, up) == IF up THEN NextBusinessDay(x + 1) ELSE PreviousBusinessDay(x - 1)

Walks(g, d, N, up) ==
  g = [k \in 0 .. N |-> IF k = 0 THEN d ELSE Onward(g[k - 1], up)]

\* What holds at the start and goes on from each step to the next holds at the end.
LEMMA StepByStep ==
  ASSUME NEW N \in Nat, NEW T, 0 \in T, \A k \in 0 .. N - 1 : k \in T => k + 1 \in T
  PROVE  \A k \in 0 .. N : k \in T
<1> DEFINE Missed == {k \in 0 .. N : k \notin T}
<1> SUFFICES ASSUME Missed # {} PROVE FALSE
  OBVIOUS
<1>1. Missed \in SUBSET Nat
  OBVIOUS
<1> HIDE DEF Missed
<1>2. PICK n \in Missed : \A m \in Missed : n <= m
  BY <1>1, LeastNumber
<1>3. n \in 0 .. N /\ n \notin T
  BY DEF Missed
<1>4. n # 0 /\ n - 1 \in 0 .. N - 1 /\ n - 1 \in 0 .. N /\ (n - 1) + 1 = n
  BY <1>3
<1>5. n - 1 \notin Missed
  BY <1>2, <1>3
<1>6. n - 1 \in T
  BY <1>4, <1>5 DEF Missed
<1> QED BY <1>3, <1>4, <1>6

\* The steps of AdvanceDays are those of a function.
LEMMA WalkExists ==
  ASSUME NEW d, NEW N \in Nat, NEW up \in BOOLEAN
  PROVE  \E g : Walks(g, d, N, up)
<1> DEFINE T == {m \in 0 .. N : \E g : Walks(g, d, m, up)}
<1>1. 0 \in T
  <2> DEFINE g == [k \in 0 .. 0 |-> d]
  <2>1. g = [k \in 0 .. 0 |-> IF k = 0 THEN d ELSE Onward(g[k - 1], up)]
    OBVIOUS
  <2> HIDE DEF g
  <2>2. \E f : Walks(f, d, 0, up)
    BY <2>1 DEF Walks
  <2> QED BY <2>2
<1>2. ASSUME NEW m \in 0 .. N - 1, m \in T PROVE m + 1 \in T
  <2>1. PICK g : Walks(g, d, m, up)
    BY <1>2
  <2> DEFINE h == [k \in 0 .. m + 1 |-> IF k = m + 1 THEN Onward(g[m], up) ELSE g[k]]
  <2>2. ASSUME NEW k \in 0 .. m + 1
        PROVE  h[k] = IF k = 0 THEN d ELSE Onward(h[k - 1], up)
    <3>1. CASE k = m + 1
      <4>1. k # 0 /\ k - 1 = m /\ m \in 0 .. m + 1 /\ m # m + 1
        BY <3>1
      <4>2. h[m] = g[m]
        BY <4>1
      <4> QED BY <3>1, <4>1, <4>2
    <3>2. CASE k # m + 1
      <4>1. k \in 0 .. m
        BY <3>2
      <4>2. g[k] = IF k = 0 THEN d ELSE Onward(g[k - 1], up)
        BY <2>1, <4>1 DEF Walks
      <4>3. h[k] = g[k]
        BY <3>2
      <4>4. ASSUME k # 0 PROVE h[k - 1] = g[k - 1]
        <5>1. k - 1 \in 0 .. m + 1 /\ k - 1 # m + 1
          BY <4>1, <4>4
        <5> QED BY <5>1
      <4> QED BY <4>2, <4>3, <4>4
    <3> QED BY <3>1, <3>2
  <2>3. h = [k \in 0 .. m + 1 |-> IF k = 0 THEN d ELSE Onward(h[k - 1], up)]
    <3>1. h = [k \in 0 .. m + 1 |-> h[k]]
      OBVIOUS
    <3> HIDE DEF h
    <3> QED BY <2>2, <3>1
  <2>4. m + 1 \in 0 .. N
    OBVIOUS
  <2> HIDE DEF h
  <2>5. \E f : Walks(f, d, m + 1, up)
    BY <2>3 DEF Walks
  <2> QED BY <2>4, <2>5
<1> HIDE DEF T
<1>3. N \in T
  <2>1. \A k \in 0 .. N : k \in T
    BY <1>1, <1>2, StepByStep
  <2> QED BY <2>1
<1> QED BY <1>3 DEF T

LEMMA AdvanceWalks ==
  ASSUME NEW d, NEW n \in Int, n # 0, NEW N \in Nat, n = N \/ n = -N
  PROVE  \E g : Walks(g, d, N, n > 0) /\ AdvanceDays(d, n) = g[N]
<1> DEFINE go == CHOOSE g : g = [k \in 0 .. (IF n >= 0 THEN n ELSE -n) |->
                       IF k = 0 THEN d
                       ELSE IF n > 0 THEN NextBusinessDay(g[k - 1] + 1)
                                     ELSE PreviousBusinessDay(g[k - 1] - 1)]
<1>1. AdvanceDays(d, n) = go[IF n >= 0 THEN n ELSE -n]
  BY DEF AdvanceDays
<1>2. (IF n >= 0 THEN n ELSE -n) = N
  OBVIOUS
<1> DEFINE Is(g) == g = [k \in 0 .. (IF n >= 0 THEN n ELSE -n) |->
                       IF k = 0 THEN d
                       ELSE IF n > 0 THEN NextBusinessDay(g[k - 1] + 1)
                                     ELSE PreviousBusinessDay(g[k - 1] - 1)]
<1>3. ASSUME NEW g PROVE Is(g) <=> Walks(g, d, N, n > 0)
  BY <1>2 DEF Walks, Onward
<1>4. \E g : Is(g)
  <2> DEFINE up == n > 0
  <2>1. up \in BOOLEAN
    OBVIOUS
  <2> HIDE DEF up, Is
  <2>2. \E g : Walks(g, d, N, up)
    BY <2>1, WalkExists
  <2> QED BY <1>3, <2>2 DEF up
<1>5. go = CHOOSE g : Is(g)
  OBVIOUS
<1> HIDE DEF Is, go
<1>6. Is(go)
  BY <1>4, <1>5
<1>7. Walks(go, d, N, n > 0)
  BY <1>3, <1>6
<1> QED BY <1>1, <1>2, <1>7

\* Two business days with none between them.
Consecutive(x, y) ==
  /\ x \in Int /\ y \in Int /\ x < y /\ is_business_day(x) /\ is_business_day(y)
  /\ \A z \in x + 1 .. y - 1 : ~is_business_day(z)

\* Business days in a row, all dates of which can be rolled.
Chain(c, N) ==
  /\ N \in Nat \ {0} /\ c \in [0 .. N -> Int]
  /\ \A k \in 0 .. N - 1 : Consecutive(c[k], c[k + 1])
  /\ \A x \in c[0] .. c[N] : Rollable(x)

\* A step on from one ends at the other, and a step back returns.
LEMMA NextIsConsecutive ==
  ASSUME NEW x \in Int, is_business_day(x), Rollable(x + 1)
  PROVE  Consecutive(x, NextBusinessDay(x + 1)) /\ NextBusinessDay(x + 1) <= x + 1 + Reach
<1> DEFINE y == x + 1
<1>1. /\ NextBusinessDay(y) \in Int /\ NextBusinessDay(y) >= y /\ NextBusinessDay(y) <= y + Reach
      /\ is_business_day(NextBusinessDay(y))
      /\ \A e \in y .. NextBusinessDay(y) - 1 : ~is_business_day(e)
  BY NextIsFirst
<1> QED BY <1>1 DEF Consecutive

LEMMA PreviousIsConsecutive ==
  ASSUME NEW y \in Int, is_business_day(y), Rollable(y - 1)
  PROVE  Consecutive(PreviousBusinessDay(y - 1), y) /\ y - 1 - Reach <= PreviousBusinessDay(y - 1)
<1> DEFINE x == y - 1
<1>1. /\ PreviousBusinessDay(x) \in Int /\ PreviousBusinessDay(x) <= x
      /\ x - Reach <= PreviousBusinessDay(x)
      /\ is_business_day(PreviousBusinessDay(x))
      /\ \A e \in PreviousBusinessDay(x) + 1 .. x : ~is_business_day(e)
  BY PreviousIsLast
<1> QED BY <1>1 DEF Consecutive

LEMMA StepOn ==
  ASSUME NEW x, NEW y, Consecutive(x, y), Rollable(x + 1)
  PROVE  NextBusinessDay(x + 1) = y
<1>0. x \in Int
  BY DEF Consecutive
<1>1. Consecutive(x, NextBusinessDay(x + 1))
  BY <1>0, NextIsConsecutive DEF Consecutive
<1> DEFINE z == NextBusinessDay(x + 1)
<1> HIDE DEF z
<1>2. Consecutive(x, z)
  BY <1>1 DEF z
<1>3. z \notin x + 1 .. y - 1 /\ y \notin x + 1 .. z - 1
  BY <1>2 DEF Consecutive
<1>4. z = y
  BY <1>2, <1>3 DEF Consecutive
<1> QED BY <1>4 DEF z

LEMMA StepBack ==
  ASSUME NEW x, NEW y, Consecutive(x, y), Rollable(y - 1)
  PROVE  PreviousBusinessDay(y - 1) = x
<1>0. y \in Int
  BY DEF Consecutive
<1>1. Consecutive(PreviousBusinessDay(y - 1), y)
  BY <1>0, PreviousIsConsecutive DEF Consecutive
<1> DEFINE z == PreviousBusinessDay(y - 1)
<1> HIDE DEF z
<1>2. Consecutive(z, y)
  BY <1>1 DEF z
<1>3. z \notin x + 1 .. y - 1 /\ x \notin z + 1 .. y - 1
  BY <1>2 DEF Consecutive
<1>4. z = x
  BY <1>2, <1>3 DEF Consecutive
<1> QED BY <1>4 DEF z

\* A chain goes up.
LEMMA ChainIsOrdered ==
  ASSUME NEW c, NEW N, Chain(c, N)
  PROVE  /\ \A k \in 0 .. N : c[k] \in Int /\ c[0] <= c[k] /\ c[k] <= c[N]
         /\ c[0] < c[N]
<1>1. N \in Nat /\ N # 0 /\ 0 \in 0 .. N
  BY DEF Chain
<1>2. \A k \in 0 .. N : c[k] \in Int
  BY DEF Chain
<1>3. \A k \in 0 .. N - 1 : c[k] < c[k + 1] /\ k \in 0 .. N /\ k + 1 \in 0 .. N
  BY <1>1 DEF Chain, Consecutive
<1> DEFINE T == {k \in 0 .. N : \A j \in 0 .. k : c[j] <= c[k]}
<1>4. 0 \in T
  <2>1. \A j \in 0 .. 0 : j = 0
    OBVIOUS
  <2> QED BY <1>1, <1>2, <2>1
<1>5. ASSUME NEW k \in 0 .. N - 1, k \in T PROVE k + 1 \in T
  <2>1. ASSUME NEW j \in 0 .. k + 1 PROVE c[j] <= c[k + 1]
    <3>1. CASE j = k + 1
      BY <1>2, <1>3, <3>1
    <3>2. CASE j # k + 1
      <4>1. j \in 0 .. k /\ j \in 0 .. N
        BY <1>1, <3>2
      <4>2. c[j] <= c[k] /\ c[k] < c[k + 1]
        BY <1>3, <1>5, <4>1
      <4>3. c[j] \in Int /\ c[k] \in Int /\ c[k + 1] \in Int
        BY <1>2, <1>3, <4>1
      <4> QED BY <4>2, <4>3
    <3> QED BY <3>1, <3>2
  <2> QED BY <1>3, <2>1
<1> HIDE DEF T
<1>6. \A k \in 0 .. N : k \in T
  BY <1>1, <1>4, <1>5, StepByStep
<1>7. \A k \in 0 .. N : c[0] <= c[k] /\ c[k] <= c[N]
  BY <1>1, <1>6 DEF T
<1>8. c[0] < c[N]
  <2>1. 0 \in 0 .. N - 1 /\ 0 + 1 = 1 /\ 1 \in 0 .. N /\ N \in 0 .. N
    BY <1>1
  <2>2. c[0] < c[1] /\ c[1] <= c[N]
    BY <1>3, <1>7, <2>1
  <2>3. c[0] \in Int /\ c[1] \in Int /\ c[N] \in Int
    BY <1>2, <2>1
  <2> QED BY <2>2, <2>3
<1> QED BY <1>2, <1>7, <1>8

\* Advancing by the length of a chain leads from end to end of it.
LEMMA ChainsAdvance ==
  ASSUME NEW c, NEW N, Chain(c, N)
  PROVE  AdvanceDays(c[0], N) = c[N] /\ AdvanceDays(c[N], -N) = c[0]
<1>0. N \in Nat /\ N \in Int /\ -N \in Int /\ N > 0 /\ ~(-N > 0) /\ N # 0 /\ -N # 0 /\ N \in 0 .. N
  BY DEF Chain
<1>1. /\ \A k \in 0 .. N : c[k] \in Int /\ c[0] <= c[k] /\ c[k] <= c[N]
      /\ c[0] < c[N]
  BY ChainIsOrdered
<1>2. AdvanceDays(c[0], N) = c[N]
  <2>1. PICK g : Walks(g, c[0], N, N > 0) /\ AdvanceDays(c[0], N) = g[N]
    BY <1>0, AdvanceWalks
  <2>2. /\ g[0] = c[0]
        /\ \A k \in 0 .. N - 1 : g[k + 1] = NextBusinessDay(g[k] + 1)
    <3>1. g = [k \in 0 .. N |-> IF k = 0 THEN c[0] ELSE Onward(g[k - 1], N > 0)]
      BY <2>1 DEF Walks
    <3>2. 0 \in 0 .. N
      BY <1>0
    <3>3. g[0] = c[0]
      BY <3>1, <3>2
    <3>4. ASSUME NEW k \in 0 .. N - 1 PROVE g[k + 1] = NextBusinessDay(g[k] + 1)
      <4>1. k + 1 \in 0 .. N /\ k + 1 # 0 /\ (k + 1) - 1 = k
        BY <1>0
      <4>2. g[k + 1] = Onward(g[(k + 1) - 1], N > 0)
        BY <3>1, <4>1
      <4> QED BY <1>0, <4>1, <4>2 DEF Onward
    <3> QED BY <3>3, <3>4
  <2> DEFINE P(k) == g[k] = c[k]
  <2>3. P(0)
    BY <2>2
  <2>4. ASSUME NEW k \in 0 .. N - 1, P(k) PROVE P(k + 1)
    <3>1. Consecutive(c[k], c[k + 1]) /\ g[k + 1] = NextBusinessDay(c[k] + 1)
      BY <2>2, <2>4 DEF Chain
    <3>2. k \in 0 .. N /\ k + 1 \in 0 .. N
      BY <1>0
    <3>3. c[k] \in Int /\ c[k + 1] \in Int /\ c[k] < c[k + 1] /\ c[0] <= c[k] /\ c[k + 1] <= c[N]
          /\ c[0] \in Int /\ c[N] \in Int
      BY <1>0, <1>1, <3>1, <3>2 DEF Consecutive, Chain
    <3>4. c[k] + 1 \in c[0] .. c[N]
      BY <3>3
    <3>5. NextBusinessDay(c[k] + 1) = c[k + 1]
      BY <3>1, <3>4, StepOn DEF Chain
    <3> QED BY <3>1, <3>5
  <2> HIDE DEF P
  <2>5. P(N)
    <3> DEFINE T == {k \in 0 .. N : P(k)}
    <3>1. 0 \in T
      BY <1>0, <2>3
    <3>2. ASSUME NEW k \in 0 .. N - 1, k \in T PROVE k + 1 \in T
      <4>1. P(k + 1)
        BY <2>4, <3>2
      <4>2. k + 1 \in 0 .. N
        BY <1>0
      <4> QED BY <4>1, <4>2
    <3> HIDE DEF T
    <3>3. \A k \in 0 .. N : k \in T
      BY <1>0, <3>1, <3>2, StepByStep
    <3> QED BY <1>0, <3>3 DEF T
  <2> QED BY <2>1, <2>5 DEF P
<1>3. AdvanceDays(c[N], -N) = c[0]
  <2>1. PICK g : Walks(g, c[N], N, -N > 0) /\ AdvanceDays(c[N], -N) = g[N]
    BY <1>0, AdvanceWalks
  <2>2. /\ g[0] = c[N]
        /\ \A k \in 0 .. N - 1 : g[k + 1] = PreviousBusinessDay(g[k] - 1)
    <3>1. g = [k \in 0 .. N |-> IF k = 0 THEN c[N] ELSE Onward(g[k - 1], -N > 0)]
      BY <2>1 DEF Walks
    <3>2. 0 \in 0 .. N
      BY <1>0
    <3>3. g[0] = c[N]
      BY <3>1, <3>2
    <3>4. ASSUME NEW k \in 0 .. N - 1 PROVE g[k + 1] = PreviousBusinessDay(g[k] - 1)
      <4>1. k + 1 \in 0 .. N /\ k + 1 # 0 /\ (k + 1) - 1 = k
        BY <1>0
      <4>2. g[k + 1] = Onward(g[(k + 1) - 1], -N > 0)
        BY <3>1, <4>1
      <4> QED BY <1>0, <4>1, <4>2 DEF Onward
    <3> QED BY <3>3, <3>4
  <2> DEFINE P(k) == g[k] = c[N - k]
  <2>3. P(0)
    <3>1. N - 0 = N
      BY <1>0
    <3> QED BY <2>2, <3>1
  <2>4. ASSUME NEW k \in 0 .. N - 1, P(k) PROVE P(k + 1)
    <3> DEFINE j == N - (k + 1)
    <3>1. j \in 0 .. N - 1 /\ j + 1 = N - k /\ j \in 0 .. N /\ j + 1 \in 0 .. N
      BY <1>0
    <3> HIDE DEF j
    <3>2. Consecutive(c[j], c[j + 1]) /\ g[k + 1] = PreviousBusinessDay(c[j + 1] - 1)
      BY <2>2, <2>4, <3>1 DEF Chain
    <3>3. c[j] \in Int /\ c[j + 1] \in Int /\ c[j] < c[j + 1] /\ c[0] <= c[j] /\ c[j + 1] <= c[N]
          /\ c[0] \in Int /\ c[N] \in Int
      BY <1>0, <1>1, <3>1, <3>2 DEF Consecutive, Chain
    <3>4. c[j + 1] - 1 \in c[0] .. c[N]
      BY <3>3
    <3>5. PreviousBusinessDay(c[j + 1] - 1) = c[j]
      BY <3>2, <3>4, StepBack DEF Chain
    <3> QED BY <3>2, <3>5 DEF j
  <2> HIDE DEF P
  <2>5. P(N)
    <3> DEFINE T == {k \in 0 .. N : P(k)}
    <3>1. 0 \in T
      BY <1>0, <2>3
    <3>2. ASSUME NEW k \in 0 .. N - 1, k \in T PROVE k + 1 \in T
      <4>1. P(k + 1)
        BY <2>4, <3>2
      <4>2. k + 1 \in 0 .. N
        BY <1>0
      <4> QED BY <4>1, <4>2
    <3> HIDE DEF T
    <3>3. \A k \in 0 .. N : k \in T
      BY <1>0, <3>1, <3>2, StepByStep
    <3> QED BY <1>0, <3>3 DEF T
  <2>6. N - N = 0
    BY <1>0
  <2> QED BY <2>1, <2>5, <2>6 DEF P
<1> QED BY <1>2, <1>3

Open(a, b) == {x \in a .. b : is_business_day(x)}

\* One date more for each step of a chain.
LEMMA OpenIsFinite ==
  ASSUME NEW a \in Int, NEW b \in Int
  PROVE  IsFiniteSet(Open(a, b)) /\ Cardinality(Open(a, b)) \in Nat
<1>1. IsFiniteSet(a .. b)
  BY FS_Interval
<1>2. Open(a, b) \subseteq a .. b
  BY DEF Open
<1> HIDE DEF Open
<1> QED BY <1>1, <1>2, FS_Subset, FS_CardinalityType

LEMMA CountGrows ==
  ASSUME NEW a \in Int, NEW x, NEW y, Consecutive(x, y), a <= x
  PROVE  Cardinality(Open(a, y - 1)) = Cardinality(Open(a, x - 1)) + 1
<1>0. x \in Int /\ y \in Int /\ x < y /\ is_business_day(x)
  BY DEF Consecutive
<1>1. Open(a, y - 1) = Open(a, x - 1) \cup {x}
  <2>1. ASSUME NEW z \in Open(a, y - 1) PROVE z \in Open(a, x - 1) \cup {x}
    <3>1. z \in a .. y - 1 /\ is_business_day(z)
      BY <2>1 DEF Open
    <3>2. z \notin x + 1 .. y - 1
      BY <3>1 DEF Consecutive
    <3>3. z \in a .. x - 1 \/ z = x
      BY <1>0, <3>1, <3>2
    <3> QED BY <3>1, <3>3 DEF Open
  <2>2. ASSUME NEW z \in Open(a, x - 1) \cup {x} PROVE z \in Open(a, y - 1)
    <3>1. is_business_day(z)
      BY <1>0, <2>2 DEF Open
    <3>2. z \in a .. y - 1
      BY <1>0, <2>2 DEF Open
    <3> QED BY <3>1, <3>2 DEF Open
  <2> QED BY <2>1, <2>2
<1>2. x \notin Open(a, x - 1)
  BY <1>0 DEF Open
<1>3. IsFiniteSet(Open(a, x - 1))
  BY <1>0, OpenIsFinite
<1> QED BY <1>1, <1>2, <1>3, FS_AddElement

LEMMA ChainCounts ==
  ASSUME NEW c, NEW N, Chain(c, N)
  PROVE  /\ Cardinality(Open(c[0], c[N] - 1)) = N
         /\ Cardinality(Open(c[0] + 1, c[N] - 1)) = N - 1
<1>1. /\ \A k \in 0 .. N : c[k] \in Int /\ c[0] <= c[k] /\ c[k] <= c[N]
      /\ c[0] < c[N]
  BY ChainIsOrdered
<1>2. N \in Nat /\ N # 0 /\ 0 \in 0 .. N /\ N \in 0 .. N /\ 0 \in 0 .. N - 1
  BY DEF Chain
<1>3. c[0] \in Int /\ c[N] \in Int
  BY <1>1, <1>2
<1> DEFINE T == {k \in 0 .. N : Cardinality(Open(c[0], c[k] - 1)) = k}
<1>4. 0 \in T
  <2>1. Open(c[0], c[0] - 1) = {}
    BY <1>3 DEF Open
  <2> QED BY <1>2, <2>1, FS_EmptySet
<1>5. ASSUME NEW k \in 0 .. N - 1, k \in T PROVE k + 1 \in T
  <2>1. k \in 0 .. N /\ k + 1 \in 0 .. N
    BY <1>2
  <2>2. Consecutive(c[k], c[k + 1]) /\ c[0] <= c[k]
    BY <1>1, <2>1 DEF Chain
  <2>3. Cardinality(Open(c[0], c[k + 1] - 1)) = Cardinality(Open(c[0], c[k] - 1)) + 1
    BY <1>3, <2>2, CountGrows
  <2> QED BY <1>5, <2>1, <2>3
<1> HIDE DEF T
<1>6. \A k \in 0 .. N : k \in T
  BY <1>2, <1>4, <1>5, StepByStep
<1>7. Cardinality(Open(c[0], c[N] - 1)) = N
  BY <1>2, <1>6 DEF T
<1>8. Open(c[0], c[N] - 1) = Open(c[0] + 1, c[N] - 1) \cup {c[0]}
  <2>1. is_business_day(c[0])
    BY <1>2 DEF Chain, Consecutive
  <2> DEFINE a == c[0]
             b == c[N] - 1
  <2>2. a \in Int /\ b \in Int /\ a <= b /\ is_business_day(a)
    BY <1>1, <1>3, <2>1
  <2> HIDE DEF a, b
  <2>3. Open(a, b) = Open(a + 1, b) \cup {a}
    BY <2>2 DEF Open
  <2> QED BY <2>3 DEF a, b
<1>9. c[0] \notin Open(c[0] + 1, c[N] - 1)
  BY <1>3 DEF Open
<1>10. /\ IsFiniteSet(Open(c[0] + 1, c[N] - 1))
       /\ Cardinality(Open(c[0] + 1, c[N] - 1)) \in Nat
  <2>1. c[0] + 1 \in Int /\ c[N] - 1 \in Int
    BY <1>3
  <2> QED BY <2>1, OpenIsFinite
<1>11. Cardinality(Open(c[0], c[N] - 1)) = Cardinality(Open(c[0] + 1, c[N] - 1)) + 1
  BY <1>8, <1>9, <1>10, FS_AddElement
<1> QED BY <1>2, <1>7, <1>10, <1>11

\* Counting over a chain gives its length, negative from its end.
LEMMA ChainsAreCounted ==
  ASSUME NEW c, NEW N, Chain(c, N)
  PROVE  /\ business_days_between(c[0], c[N], FALSE, TRUE) = N
         /\ business_days_between(c[N], c[0], FALSE, TRUE) = -N
<1>1. /\ \A k \in 0 .. N : c[k] \in Int /\ c[0] <= c[k] /\ c[k] <= c[N]
      /\ c[0] < c[N]
  BY ChainIsOrdered
<1>2. N \in Nat /\ N # 0 /\ 0 \in 0 .. N /\ N \in 0 .. N /\ N - 1 \in 0 .. N - 1
  BY DEF Chain
<1>3. c[0] \in Int /\ c[N] \in Int
  BY <1>1, <1>2
<1>4. is_business_day(c[N])
  <2>1. Consecutive(c[N - 1], c[(N - 1) + 1]) /\ (N - 1) + 1 = N
    BY <1>2 DEF Chain
  <2> QED BY <2>1 DEF Consecutive
<1> DEFINE a == c[0]
           b == c[N]
<1>5. /\ a \in Int /\ b \in Int /\ a < b /\ is_business_day(b)
      /\ Cardinality(Open(a, b - 1)) = N
      /\ Cardinality(Open(a + 1, b - 1)) = N - 1
  BY <1>1, <1>3, <1>4, ChainCounts
<1> HIDE DEF a, b
<1>6. business_days_between(a, b, FALSE, TRUE) = Cardinality(Open(a + 1, b - 1)) + 1
  BY <1>5 DEF business_days_between, Quantify, Open
<1>7. business_days_between(b, a, FALSE, TRUE) = -(Cardinality(Open(a, b - 1)) + 0)
  BY <1>5 DEF business_days_between, Quantify, Open
<1>8. /\ business_days_between(a, b, FALSE, TRUE) = N
      /\ business_days_between(b, a, FALSE, TRUE) = -N
  <2>1. N + 0 = N /\ (N - 1) + 1 = N
    BY <1>2
  <2>2. business_days_between(a, b, FALSE, TRUE) = (N - 1) + 1
    BY <1>5, <1>6
  <2>3. business_days_between(b, a, FALSE, TRUE) = -(N + 0)
    BY <1>5, <1>7
  <2> QED BY <2>1, <2>2, <2>3
<1> QED BY <1>8 DEF a, b

\* From a business day the steps of AdvanceDays, on or back, are a chain.
LEMMA WalkOnIsChain ==
  ASSUME NEW d \in Int, is_business_day(d), \A x \in d - Around .. d + Around : Rollable(x),
         NEW N \in 1 .. 4
  PROVE  \E c : Chain(c, N) /\ c[0] = d
<1>0. N \in Nat /\ N # 0 /\ N \in 0 .. N /\ 0 \in 0 .. N
  OBVIOUS
<1>1. PICK g : Walks(g, d, N, TRUE)
  BY <1>0, WalkExists
<1>2. g = [k \in 0 .. N |-> IF k = 0 THEN d ELSE Onward(g[k - 1], TRUE)]
  BY <1>1 DEF Walks
<1>3. g[0] = d
  BY <1>0, <1>2
<1>4. ASSUME NEW k \in 0 .. N - 1 PROVE g[k + 1] = NextBusinessDay(g[k] + 1)
  <2>1. k + 1 \in 0 .. N /\ k + 1 # 0 /\ (k + 1) - 1 = k
    OBVIOUS
  <2>2. g[k + 1] = Onward(g[(k + 1) - 1], TRUE)
    BY <1>2, <2>1
  <2> QED BY <2>1, <2>2 DEF Onward
<1> DEFINE T == {k \in 0 .. N : /\ g[k] \in Int /\ is_business_day(g[k])
                                /\ d <= g[k] /\ g[k] <= d + 61 * k}
<1>5. 0 \in T
  BY <1>0, <1>3
<1>6. ASSUME NEW k \in 0 .. N - 1, k \in T
      PROVE  k + 1 \in T /\ Consecutive(g[k], g[k + 1])
  <2>1. g[k] \in Int /\ is_business_day(g[k]) /\ d <= g[k] /\ g[k] <= d + 61 * k
    BY <1>6
  <2>2. g[k] + 1 \in d - Around .. d + Around
    BY <2>1 DEF Around, Reach
  <2>3. Rollable(g[k] + 1)
    BY <2>2
  <2>4. /\ Consecutive(g[k], g[k + 1])
        /\ g[k + 1] <= g[k] + 1 + Reach
    BY <1>4, <2>1, <2>3, NextIsConsecutive
  <2>5. g[k + 1] \in Int /\ is_business_day(g[k + 1]) /\ g[k] < g[k + 1]
    BY <2>4 DEF Consecutive
  <2>6. d <= g[k + 1] /\ g[k + 1] <= d + 61 * (k + 1)
    BY <2>1, <2>4, <2>5 DEF Reach
  <2>7. k + 1 \in 0 .. N
    OBVIOUS
  <2> QED BY <2>4, <2>5, <2>6, <2>7
<1> HIDE DEF T
<1>7. \A k \in 0 .. N : k \in T
  BY <1>0, <1>5, <1>6, StepByStep
<1>8. g \in [0 .. N -> Int]
  <2>1. \A k \in 0 .. N : g[k] \in Int
    BY <1>7 DEF T
  <2>2. g = [k \in 0 .. N |-> g[k]]
    BY <1>2
  <2> QED BY <2>1, <2>2
<1>9. \A k \in 0 .. N - 1 : Consecutive(g[k], g[k + 1])
  <2>1. \A k \in 0 .. N - 1 : k \in 0 .. N
    OBVIOUS
  <2> QED BY <1>6, <1>7, <2>1
<1>10. \A x \in g[0] .. g[N] : Rollable(x)
  <2>1. g[N] \in Int /\ g[N] <= d + 61 * N
    BY <1>0, <1>7 DEF T
  <2>2. d <= d + Around /\ d - Around <= d /\ g[N] <= d + Around
    BY <2>1 DEF Around, Reach
  <2>3. Around \in Int
    BY DEF Around, Reach
  <2>4. \A x \in g[0] .. g[N] : x \in d - Around .. d + Around
    BY <1>3, <2>1, <2>2, <2>3
  <2> QED BY <2>4
<1> QED BY <1>0, <1>3, <1>8, <1>9, <1>10 DEF Chain

LEMMA WalkBackIsChain ==
  ASSUME NEW d \in Int, is_business_day(d), \A x \in d - Around .. d + Around : Rollable(x),
         NEW N \in 1 .. 4
  PROVE  \E c : Chain(c, N) /\ c[N] = d
<1>0. N \in Nat /\ N # 0 /\ N \in 0 .. N /\ 0 \in 0 .. N /\ N - N = 0 /\ N - 0 = N
  OBVIOUS
<1>1. PICK g : Walks(g, d, N, FALSE)
  BY <1>0, WalkExists
<1>2. g = [k \in 0 .. N |-> IF k = 0 THEN d ELSE Onward(g[k - 1], FALSE)]
  BY <1>1 DEF Walks
<1>3. g[0] = d
  BY <1>0, <1>2
<1>4. ASSUME NEW k \in 0 .. N - 1 PROVE g[k + 1] = PreviousBusinessDay(g[k] - 1)
  <2>1. k + 1 \in 0 .. N /\ k + 1 # 0 /\ (k + 1) - 1 = k
    OBVIOUS
  <2>2. g[k + 1] = Onward(g[(k + 1) - 1], FALSE)
    BY <1>2, <2>1
  <2> QED BY <2>1, <2>2 DEF Onward
<1> DEFINE T == {k \in 0 .. N : /\ g[k] \in Int /\ is_business_day(g[k])
                                /\ g[k] <= d /\ d - 61 * k <= g[k]}
<1>5. 0 \in T
  BY <1>0, <1>3
<1>6. ASSUME NEW k \in 0 .. N - 1, k \in T
      PROVE  k + 1 \in T /\ Consecutive(g[k + 1], g[k])
  <2>1. g[k] \in Int /\ is_business_day(g[k]) /\ g[k] <= d /\ d - 61 * k <= g[k]
    BY <1>6
  <2>2. g[k] - 1 \in d - Around .. d + Around
    BY <2>1 DEF Around, Reach
  <2>3. Rollable(g[k] - 1)
    BY <2>2
  <2>4. /\ Consecutive(g[k + 1], g[k])
        /\ g[k] - 1 - Reach <= g[k + 1]
    BY <1>4, <2>1, <2>3, PreviousIsConsecutive
  <2>5. g[k + 1] \in Int /\ is_business_day(g[k + 1]) /\ g[k + 1] < g[k]
    BY <2>4 DEF Consecutive
  <2>6. g[k + 1] <= d /\ d - 61 * (k + 1) <= g[k + 1]
    BY <2>1, <2>4, <2>5 DEF Reach
  <2>7. k + 1 \in 0 .. N
    OBVIOUS
  <2> QED BY <2>4, <2>5, <2>6, <2>7
<1> HIDE DEF T
<1>7. \A k \in 0 .. N : k \in T
  BY <1>0, <1>5, <1>6, StepByStep
<1>8. \A k \in 0 .. N - 1 : Consecutive(g[k + 1], g[k])
  <2>1. \A k \in 0 .. N - 1 : k \in 0 .. N
    OBVIOUS
  <2> QED BY <1>6, <1>7, <2>1
<1> DEFINE c == [k \in 0 .. N |-> g[N - k]]
<1>9. c[0] = g[N] /\ c[N] = d
  BY <1>0, <1>3
<1>10. c \in [0 .. N -> Int]
  <2>1. ASSUME NEW k \in 0 .. N PROVE g[N - k] \in Int
    <3>1. N - k \in 0 .. N
      OBVIOUS
    <3> QED BY <1>7, <3>1 DEF T
  <2> QED BY <2>1
<1>11. ASSUME NEW k \in 0 .. N - 1 PROVE Consecutive(c[k], c[k + 1])
  <2> DEFINE j == N - (k + 1)
  <2>1. j \in 0 .. N - 1 /\ j + 1 = N - k /\ k \in 0 .. N /\ k + 1 \in 0 .. N
    OBVIOUS
  <2>2. c[k] = g[N - k] /\ c[k + 1] = g[j]
    BY <2>1
  <2> HIDE DEF j, c
  <2>3. Consecutive(g[j + 1], g[j])
    BY <1>8, <2>1
  <2> QED BY <2>1, <2>2, <2>3
<1> HIDE DEF c
<1>12. \A x \in c[0] .. c[N] : Rollable(x)
  <2>1. g[N] \in Int /\ d - 61 * N <= g[N]
    BY <1>0, <1>7 DEF T
  <2>2. d <= d + Around /\ d - Around <= d /\ d - Around <= g[N]
    BY <2>1 DEF Around, Reach
  <2>3. Around \in Int
    BY DEF Around, Reach
  <2>4. \A x \in c[0] .. c[N] : x \in d - Around .. d + Around
    BY <1>9, <2>1, <2>2, <2>3
  <2> QED BY <2>4
<1> QED BY <1>0, <1>9, <1>10, <1>11, <1>12 DEF Chain

LEMMA CountsMatch ==
  ASSUME added \subseteq Editable
  PROVE  CountingMatchesAdvancing
<1> SUFFICES ASSUME NEW d \in SampleDates, NEW n \in -4 .. 4, is_business_day(d)
    PROVE  LET e == calendar_advance(d, n, Days, Unadjusted, FALSE)
           IN  /\ business_days_between(d, e, FALSE, TRUE) = n
               /\ calendar_advance(e, -n, Days, Unadjusted, FALSE) = d
  BY DEF CountingMatchesAdvancing
<1> DEFINE e == calendar_advance(d, n, Days, Unadjusted, FALSE)
<1>0. d \in Int
  BY SamplesAre
<1>1. \A x \in d - Around .. d + Around : Rollable(x)
  BY AroundIsRollable
<1>2. CASE n = 0
  <2>1. calendar_advance(d, 0, Days, Unadjusted, FALSE) = d
    <3>1. adjust(d, Unadjusted) = d
      BY <1>0, BusinessDaysStay DEF Conventions
    <3> QED BY <3>1 DEF calendar_advance
  <2>2. e = d
    BY <1>2, <2>1
  <2>5. -n = 0
    <3> DEFINE m == -n
    <3>1. m \in Int /\ m <= 0 /\ 0 <= m
      BY <1>2
    <3> HIDE DEF m
    <3>2. m = 0
      BY <3>1
    <3> QED BY <3>2 DEF m
  <2>3. business_days_between(d, d, FALSE, TRUE) = 0
    BY <1>0 DEF business_days_between
  <2> QED BY <1>2, <2>1, <2>2, <2>3, <2>5
<1>3. CASE n > 0
  <2>1. PICK c : Chain(c, n) /\ c[0] = d
    <3>1. n \in 1 .. 4
      BY <1>3
    <3> QED BY <1>0, <1>1, <3>1, WalkOnIsChain
  <2>2. \A x : /\ calendar_advance(x, n, Days, Unadjusted, FALSE) = AdvanceDays(x, n)
               /\ calendar_advance(x, -n, Days, Unadjusted, FALSE) = AdvanceDays(x, -n)
    <3>1. n # 0 /\ -n # 0
      BY <1>3
    <3> QED BY <3>1 DEF calendar_advance
  <2>3. e = c[n] /\ calendar_advance(c[n], -n, Days, Unadjusted, FALSE) = d
    BY <2>1, <2>2, ChainsAdvance
  <2>4. business_days_between(d, c[n], FALSE, TRUE) = n
    BY <2>1, ChainsAreCounted
  <2> QED BY <2>3, <2>4
<1>4. CASE n < 0
  <2> DEFINE N == -n
  <2>0. N \in 1 .. 4 /\ n = -N /\ -n = N
    BY <1>4
  <2> HIDE DEF N
  <2>1. PICK c : Chain(c, N) /\ c[N] = d
    BY <1>0, <1>1, <2>0, WalkBackIsChain
  <2>2. \A x : /\ calendar_advance(x, n, Days, Unadjusted, FALSE) = AdvanceDays(x, n)
               /\ calendar_advance(x, -n, Days, Unadjusted, FALSE) = AdvanceDays(x, -n)
    <3>1. n # 0 /\ -n # 0
      BY <1>4
    <3> QED BY <3>1 DEF calendar_advance
  <2>3. e = c[0] /\ calendar_advance(c[0], -n, Days, Unadjusted, FALSE) = d
    BY <2>0, <2>1, <2>2, ChainsAdvance
  <2>4. business_days_between(d, c[0], FALSE, TRUE) = n
    BY <2>0, <2>1, ChainsAreCounted
  <2> QED BY <2>3, <2>4
<1>5. n = 0 \/ n > 0 \/ n < 0
  OBVIOUS
<1> QED BY <1>2, <1>3, <1>4, <1>5

\* The open days are no user's to close.
LEMMA StepAddsEditable == added \subseteq Editable /\ CalendarNext => (added \subseteq Editable)'
<1> SUFFICES ASSUME added \subseteq Editable, CalendarNext
             PROVE  added' \subseteq Editable
  OBVIOUS
<1>1. ASSUME NEW d \in Editable, add_holiday(d) PROVE added' \subseteq Editable
  BY <1>1 DEF add_holiday
<1>2. ASSUME NEW d \in Editable, remove_holiday(d) PROVE added' \subseteq Editable
  BY <1>2 DEF remove_holiday
<1>3. CASE reset_added_and_removed_holidays
  BY <1>3 DEF reset_added_and_removed_holidays
<1> QED BY <1>1, <1>2, <1>3 DEF CalendarNext

\* Of any calendar whose open days are as OpenDaysAssumption says, whatever users
\* make of the others in any order: every convention rolls to a business day, in
\* the order of dates and as often as one likes, the modified ones within the
\* month or its half; and counting business days is the inverse of advancing.
THEOREM CalendarsAgree == ScheduleSpec => []CalendarAnswersAgree
<1>1. ScheduleInit => added \subseteq Editable
  BY DEF ScheduleInit, CalendarInit
<1>2. added \subseteq Editable /\ [ScheduleNext]_scheduleVars => (added \subseteq Editable)'
  <2> SUFFICES ASSUME added \subseteq Editable, [ScheduleNext]_scheduleVars
               PROVE  (added \subseteq Editable)'
    OBVIOUS
  <2>1. CASE ChangeCalendar
    BY <2>1, StepAddsEditable DEF ChangeCalendar
  <2>2. CASE UNCHANGED <<added, removed>>
    BY <2>2
  <2> QED
    BY <2>1, <2>2 DEF ScheduleNext, scheduleVars, New, FromDates, CutAfter, CutUntil
<1>3. added \subseteq Editable => CalendarAnswersAgree
  BY RollsAreInOrder, CountsMatch DEF CalendarAnswersAgree
<1> QED
  BY <1>1, <1>2, <1>3, PTL DEF ScheduleSpec

-----------------------------------------------------------------------------
(* Truncations *)

\* A schedule as Schedule::new leaves it: dates, and a flag for each period.
Flagged(s) ==
  /\ s \in [dates : Seq(Int), regular : Seq(BOOLEAN), convention : Conventions,
            terminationConvention : Conventions, first : Int, nextToLast : Int,
            asked : {s.asked}]
  /\ Len(s.dates) > 0
  /\ OneFlagPerPeriod(s)

-----------------------------------------------------------------------------
(* A sequence that never decreases is in order throughout.                   *)
LEMMA InOrder ==
  ASSUME NEW d \in Seq(Int), NonDecreasing(d)
  PROVE  \A i, j \in 1 .. Len(d) : i <= j => d[i] <= d[j]
<1> DEFINE n == Len(d)
           T == {k \in Nat : \E i \in 1 .. n : i + k \in 1 .. n /\ d[i] > d[i + k]}
<1>1. n \in Nat /\ \A i \in 1 .. n : d[i] \in Int
  BY LenProperties
<1>2. T = {}
  <2> SUFFICES ASSUME T # {} PROVE FALSE
    OBVIOUS
  <2>1. T \subseteq Nat
    OBVIOUS
  <2> HIDE DEF T
  <2>2. PICK k \in T : \A m \in T : k <= m
    BY <2>1, LeastNumber
  <2>3. k \in Nat /\ k - 1 \notin T
    BY <2>1, <2>2
  <2> USE DEF T
  <2>4. PICK i \in 1 .. n : i + k \in 1 .. n /\ d[i] > d[i + k]
    BY <2>2
  <2> DEFINE j == i + (k - 1)
  <2>5. k - 1 \in Nat /\ j \in 1 .. n /\ j + 1 = i + k
    <3>1. k # 0
      BY <1>1, <2>3, <2>4
    <3> QED BY <1>1, <2>3, <2>4, <3>1
  <2>6. d[i] <= d[j]
    <3>1. ~(d[i] > d[j])
      BY <2>3, <2>5
    <3>2. d[i] \in Int /\ d[j] \in Int
      BY <1>1, <2>5
    <3> HIDE DEF j, n, T
    <3> QED BY <3>1, <3>2
  <2> HIDE DEF j
  <2>7. d[j] <= d[i + k]
    <3>1. j \in 1 .. n - 1
      BY <1>1, <2>4, <2>5
    <3> QED BY <2>5, <3>1 DEF NonDecreasing
  <2>8. d[i] \in Int /\ d[j] \in Int /\ d[i + k] \in Int
    BY <1>1, <2>4, <2>5
  <2>9. d[i] > d[i + k]
    BY <2>4
  <2> HIDE DEF n, T
  <2> QED BY <2>6, <2>7, <2>8, <2>9
<1> SUFFICES ASSUME NEW i \in 1 .. n, NEW j \in 1 .. n, i <= j PROVE d[i] <= d[j]
  OBVIOUS
<1>3. j - i \in Nat /\ i + (j - i) = j
  BY <1>1
<1>4. j - i \notin T
  BY <1>2
<1> QED BY <1>1, <1>3, <1>4

\* The first c dates of s are before t, those up to the m-th are t, the rest is after.
CutAt(s, t, c, m) ==
  /\ c \in 1 .. Len(s.dates) - 1 /\ m \in c .. Len(s.dates) - 1
  /\ \A i \in 1 .. c : s.dates[i] < t
  /\ \A i \in c + 1 .. m : s.dates[i] = t
  /\ \A i \in m + 1 .. Len(s.dates) : t < s.dates[i]

Within(s, t) == NonDecreasing(s.dates) /\ s.dates[1] < t /\ t < Last(s.dates)

(* What is below a value comes first in a sequence in order.                 *)
LEMMA SmallerComeFirst ==
  ASSUME NEW d \in Seq(Int), NonDecreasing(d), NEW v \in Int,
         Len(d) > 0, d[1] < v, v <= d[Len(d)]
  PROVE  \E c \in 1 .. Len(d) - 1 : \A i \in 1 .. Len(d) : d[i] < v <=> i <= c
<1> DEFINE n == Len(d)
           T == {i \in 1 .. n : ~(d[i] < v)}
<1>1. n \in Nat /\ n > 0 /\ \A i \in 1 .. n : d[i] \in Int
  BY LenProperties
<1>2. \A i, j \in 1 .. n : i <= j => d[i] <= d[j]
  BY InOrder
<1>3. n \in T /\ T \subseteq Nat
  BY <1>1
<1> HIDE DEF T
<1>4. PICK m \in T : \A i \in T : m <= i
  BY <1>3, LeastNumber
<1> USE DEF T
<1>5. m \in 1 .. n /\ m # 1 /\ m - 1 \in 1 .. n - 1
  <2>1. m \in 1 .. n /\ m # 1
    BY <1>4
  <2> HIDE DEF n
  <2> QED BY <1>1, <2>1
<1>6. ASSUME NEW i \in 1 .. n PROVE d[i] < v <=> i <= m - 1
  <2>1. CASE i <= m - 1
    <3>1. i \notin T
      BY <1>1, <1>4, <1>5, <2>1
    <3> QED BY <2>1, <3>1
  <2>2. CASE ~(i <= m - 1)
    <3>1. m <= i
      BY <1>1, <1>5, <2>2
    <3>2. d[m] <= d[i] /\ d[m] \in Int /\ d[i] \in Int /\ ~(d[m] < v)
      BY <1>1, <1>2, <1>4, <1>5, <3>1
    <3> HIDE DEF n, T
    <3> QED BY <2>2, <3>2
  <2> QED BY <2>1, <2>2
<1> QED BY <1>5, <1>6

(* How many numbers there are from one to another.                           *)
LEMMA SizeOfRange ==
  ASSUME NEW i \in Int, NEW j \in Int, i <= j PROVE Cardinality(i + 1 .. j) = j - i
<1> DEFINE k == i + 1
<1>1. k \in Int /\ (IF k > j THEN 0 ELSE j - k + 1) = j - i
  OBVIOUS
<1> HIDE DEF k
<1>2. Cardinality(k .. j) = IF k > j THEN 0 ELSE j - k + 1
  BY ONLY <1>1, j \in Int, FS_Interval, Zenon
<1> QED BY <1>1, <1>2 DEF k

(* The search by halves finds where s is cut.                                *)
LEMMA LowerBoundCuts ==
  ASSUME NEW s, Flagged(s), NEW t \in Int, Within(s, t)
  PROVE  \E m : CutAt(s, t, lower_bound(s, t), m) /\ Occurrences(s, t) = m - lower_bound(s, t)
<1> DEFINE d == s.dates
           n == Len(d)
<1>1. /\ d \in Seq(Int) /\ n \in Nat /\ n > 0 /\ DOMAIN d = 1 .. n
      /\ \A i \in 1 .. n : d[i] \in Int
      /\ NonDecreasing(d) /\ d[1] < t /\ t < d[n]
  BY LenProperties DEF Flagged, Within, Last
<1> HIDE DEF d, n
<1>2. PICK c \in 1 .. n - 1 : \A i \in 1 .. n : d[i] < t <=> i <= c
  <2>1. t <= d[n]
    BY <1>1
  <2> QED BY <1>1, <2>1, SmallerComeFirst DEF n
<1>3. PICK m \in 1 .. n - 1 : \A i \in 1 .. n : d[i] < t + 1 <=> i <= m
  <2>1. t + 1 \in Int /\ d[1] < t + 1 /\ t + 1 <= d[n]
    BY <1>1
  <2> HIDE DEF n
  <2> DEFINE v == t + 1
  <2>2. v \in Int /\ d[1] < v /\ v <= d[Len(d)]
    BY <2>1 DEF n
  <2> HIDE DEF v
  <2>3. \E k \in 1 .. n - 1 : \A i \in 1 .. n : d[i] < v <=> i <= k
    BY <1>1, <2>2, SmallerComeFirst DEF n
  <2> QED BY <2>3 DEF v
<1>4. c <= m
  BY <1>1, <1>2, <1>3
<1>5. {i \in DOMAIN d : d[i] < t} = 0 + 1 .. c
  BY <1>1, <1>2
<1>6. {i \in DOMAIN d : d[i] = t} = c + 1 .. m
  BY <1>1, <1>2, <1>3
<1>7. lower_bound(s, t) = c
  <2>1. Cardinality(0 + 1 .. c) = c - 0 /\ c - 0 = c
    <3>1. 0 \in Int /\ c \in Int /\ 0 <= c /\ c - 0 = c
      BY <1>1, <1>2
    <3> QED BY <3>1, SizeOfRange
  <2> QED BY <1>5, <2>1 DEF lower_bound, d
<1>8. Occurrences(s, t) = m - c
  <2>1. c \in Int /\ m \in Int
    BY <1>1, <1>2, <1>3
  <2>2. Cardinality(c + 1 .. m) = m - c
    BY <1>4, <2>1, SizeOfRange
  <2> QED BY <1>6, <2>2 DEF Occurrences, d
<1>9. CutAt(s, t, c, m)
  <2>1. m \in c .. n - 1
    BY <1>1, <1>2, <1>3, <1>4
  <2>2. \A i \in 1 .. c : d[i] < t
    BY <1>1, <1>2
  <2>3. \A i \in c + 1 .. m : d[i] = t
    BY <1>6
  <2>4. \A i \in m + 1 .. n : t < d[i]
    <3> SUFFICES ASSUME NEW i \in m + 1 .. n PROVE t < d[i]
      OBVIOUS
    <3>1. i \in 1 .. n /\ ~(i <= m) /\ d[i] \in Int
      BY <1>1, <1>3
    <3>2. ~(d[i] < t + 1)
      BY <1>3, <3>1
    <3> QED BY <3>1, <3>2
  <2> QED BY <1>2, <2>1, <2>2, <2>3, <2>4 DEF CutAt, d, n
<1> QED BY <1>7, <1>8, <1>9

\* The parts of a schedule before and after its c-th date.
DatesTo(s, c) == SubSeq(s.dates, 1, c)
DatesFrom(s, c) == SubSeq(s.dates, c + 1, Len(s.dates))
FlagsTo(s, c) == SubSeq(s.regular, 1, c)
FlagsFrom(s, c) == SubSeq(s.regular, c + 1, Len(s.dates) - 1)

(* What the parts are made of.                                               *)
LEMMA PartsOf ==
  ASSUME NEW s, Flagged(s), NEW c \in 0 .. Len(s.dates)
  PROVE  /\ DatesTo(s, c) \in Seq(Int) /\ Len(DatesTo(s, c)) = c
         /\ \A i \in 1 .. c : DatesTo(s, c)[i] = s.dates[i]
         /\ DatesFrom(s, c) \in Seq(Int) /\ Len(DatesFrom(s, c)) = Len(s.dates) - c
         /\ \A i \in 1 .. Len(s.dates) - c : DatesFrom(s, c)[i] = s.dates[c + i]
         /\ c < Len(s.dates) =>
              /\ FlagsTo(s, c) \in Seq(BOOLEAN) /\ Len(FlagsTo(s, c)) = c
              /\ \A i \in 1 .. c : FlagsTo(s, c)[i] = s.regular[i]
              /\ FlagsFrom(s, c) \in Seq(BOOLEAN) /\ Len(FlagsFrom(s, c)) = Len(s.dates) - 1 - c
              /\ \A i \in 1 .. Len(s.dates) - 1 - c : FlagsFrom(s, c)[i] = s.regular[c + i]
<1> DEFINE d == s.dates
           r == s.regular
           n == Len(d)
<1>1. /\ d \in Seq(Int) /\ n \in Nat /\ r \in Seq(BOOLEAN) /\ Len(r) = n - 1 /\ c \in Int
      /\ \A i \in 1 .. n : d[i] \in Int
      /\ \A i \in 1 .. n - 1 : r[i] \in BOOLEAN
  <2>1. d \in Seq(Int) /\ r \in Seq(BOOLEAN) /\ Len(r) = n - 1
    BY DEF Flagged, OneFlagPerPeriod
  <2>2. n \in Nat /\ c \in Int
    BY <2>1, LenProperties
  <2> HIDE DEF d, r, n
  <2>3. \A i \in 1 .. Len(r) : r[i] \in BOOLEAN
    BY <2>1, ElementOfSeq
  <2>4. \A i \in 1 .. n : d[i] \in Int
    BY <2>1, ElementOfSeq DEF n
  <2> QED BY <2>1, <2>2, <2>3, <2>4
<1> HIDE DEF d, r, n
<1>2. /\ SubSeq(d, 1, c) \in Seq(Int) /\ Len(SubSeq(d, 1, c)) = c
      /\ \A i \in 1 .. c : SubSeq(d, 1, c)[i] = d[i]
  <2>1. \A i \in 1 .. c : d[i] \in Int
    <3>1. c \in 0 .. n
      BY DEF n, d
    <3> QED BY <1>1, <3>1
  <2> QED BY <1>1, <2>1, SubSeqProperties
<1>3. /\ SubSeq(d, c + 1, n) \in Seq(Int) /\ Len(SubSeq(d, c + 1, n)) = n - c
      /\ \A i \in 1 .. n - c : SubSeq(d, c + 1, n)[i] = d[c + i]
  <2>1. \A i \in c + 1 .. n : d[i] \in Int
    BY <1>1 DEF n
  <2>2. c \in 0 .. n
    BY DEF n, d
  <2>3. /\ SubSeq(d, c + 1, n) \in Seq(Int)
        /\ Len(SubSeq(d, c + 1, n)) = IF c + 1 <= n THEN n - (c + 1) + 1 ELSE 0
        /\ \A i \in 1 .. n - (c + 1) + 1 : SubSeq(d, c + 1, n)[i] = d[(c + 1) + i - 1]
    BY <1>1, <2>1, SubSeqProperties
  <2>4. \A i \in 1 .. n - c : i \in 1 .. n - (c + 1) + 1 /\ (c + 1) + i - 1 = c + i
    BY <1>1
  <2>5. (IF c + 1 <= n THEN n - (c + 1) + 1 ELSE 0) = n - c
    BY <1>1, <2>2
  <2> QED BY <2>3, <2>4, <2>5
<1>4. ASSUME c < n
      PROVE  /\ SubSeq(r, 1, c) \in Seq(BOOLEAN) /\ Len(SubSeq(r, 1, c)) = c
             /\ \A i \in 1 .. c : SubSeq(r, 1, c)[i] = r[i]
  BY <1>1, <1>4
<1>5. ASSUME c < n
      PROVE  /\ SubSeq(r, c + 1, n - 1) \in Seq(BOOLEAN) /\ Len(SubSeq(r, c + 1, n - 1)) = n - 1 - c
             /\ \A i \in 1 .. n - 1 - c : SubSeq(r, c + 1, n - 1)[i] = r[c + i]
  BY <1>1, <1>5
<1> QED BY <1>2, <1>3, <1>4, <1>5 DEF DatesTo, DatesFrom, FlagsTo, FlagsFrom, d, r, n

\* A schedule cut at one of its dates, and between two.
CutsOnDate(s, t, c, m) ==
  /\ After(s, t).dates = DatesFrom(s, c) /\ After(s, t).regular = FlagsFrom(s, c)
  /\ Until(s, t).dates = DatesTo(s, m) /\ Until(s, t).regular = FlagsTo(s, m - 1)

CutsBetween(s, t, c) ==
  /\ After(s, t).dates = <<t>> \o DatesFrom(s, c)
  /\ After(s, t).regular = <<FALSE>> \o FlagsFrom(s, c)
  /\ Until(s, t).dates = Append(DatesTo(s, c), t)
  /\ Until(s, t).regular = Append(FlagsTo(s, c - 1), FALSE)

(* What is left of a schedule after and until the date of a cut: the parts,  *)
(* and between two dates the date of the cut with an irregular period.       *)
LEMMA Cuts ==
  ASSUME NEW s, Flagged(s), NEW t \in Int, Within(s, t), NEW c, NEW m, CutAt(s, t, c, m),
         lower_bound(s, t) = c
  PROVE  IF c < m THEN CutsOnDate(s, t, c, m) ELSE CutsBetween(s, t, c)
<1> DEFINE d == s.dates
           n == Len(d)
<1>1. /\ d \in Seq(Int) /\ n \in Nat /\ n > 0 /\ DOMAIN d = 1 .. n /\ Len(s.regular) = n - 1
      /\ \A i \in 1 .. n : d[i] \in Int
  BY LenProperties DEF Flagged, OneFlagPerPeriod
<1>2. /\ c \in 1 .. n - 1 /\ c \in Nat /\ c + 1 \in 1 .. n /\ m \in c .. n - 1
      /\ \A i \in 1 .. c : d[i] < t
      /\ \A i \in c + 1 .. m : d[i] = t
      /\ \A i \in m + 1 .. n : t < d[i]
  <2>1. /\ c \in 1 .. n - 1 /\ m \in c .. n - 1
        /\ \A i \in 1 .. c : d[i] < t
        /\ \A i \in c + 1 .. m : d[i] = t
        /\ \A i \in m + 1 .. n : t < d[i]
    BY Zenon DEF CutAt
  <2> HIDE DEF n, d
  <2>2. c \in Nat /\ c + 1 \in 1 .. n
    BY <1>1, <2>1
  <2> QED BY <2>1, <2>2
<1>3. /\ Last(d) = d[n] /\ ~(t <= d[1]) /\ ~(t >= d[n])
  BY <1>1 DEF Within, Last
<1>4. DatesFrom(s, c)[1] = d[c + 1]
  <2>1. 1 \in 1 .. n - c /\ c \in 0 .. n
    <3> HIDE DEF n
    <3> QED BY <1>1, <1>2
  <2>2. DatesFrom(s, c)[1] = s.dates[c + 1]
    BY <2>1, PartsOf
  <2> QED BY <2>2
<1>5. /\ After(s, t).dates = IF d[c + 1] # t THEN <<t>> \o DatesFrom(s, c) ELSE DatesFrom(s, c)
      /\ After(s, t).regular = IF d[c + 1] # t THEN <<FALSE>> \o FlagsFrom(s, c) ELSE FlagsFrom(s, c)
  BY <1>1, <1>3, <1>4 DEF After, WithoutFirst, DatesFrom, FlagsFrom, Flagged
<1>6. m \in 1 .. n - 1 /\ \A i \in 1 .. n : d[i] > t <=> i > m
  <2> HIDE DEF n, d
  <2>1. m \in 1 .. n - 1
    BY <1>1, <1>2
  <2>2. ASSUME NEW i \in 1 .. n PROVE d[i] > t <=> i > m
    <3>1. d[i] \in Int
      BY <1>1
    <3>2. CASE i <= c
      <4>1. i \in 1 .. c /\ ~(i > m)
        BY <1>1, <1>2, <3>2
      <4>2. d[i] < t
        BY <1>2, <4>1
      <4> QED BY <3>1, <4>1, <4>2
    <3>3. CASE i > c /\ i <= m
      <4>1. i \in c + 1 .. m /\ ~(i > m)
        BY <1>1, <1>2, <3>3
      <4>2. d[i] = t
        BY <1>2, <4>1
      <4> QED BY <3>1, <4>1, <4>2
    <3>4. CASE i > m
      <4>1. i \in m + 1 .. n
        BY <1>1, <1>2, <3>4
      <4>2. t < d[i]
        BY <1>2, <4>1
      <4> QED BY <3>1, <3>4, <4>2
    <3>5. i <= c \/ (i > c /\ i <= m) \/ i > m
      BY <1>1, <1>2
    <3> QED BY <3>2, <3>3, <3>4, <3>5
  <2> QED BY <2>1, <2>2
<1>7. Max({i \in DOMAIN d : d[i] <= t}) = m
  <2> DEFINE K == {i \in DOMAIN d : d[i] <= t}
  <2>1. \A i \in 1 .. n : d[i] <= t <=> i <= m
    <3> HIDE DEF n, d
    <3> QED BY <1>1, <1>6, <1>2
  <2>2. m \in K /\ (\A k \in K : k \in Int /\ k <= m) /\ m \in Int
    <3> HIDE DEF n, d
    <3> QED BY <1>1, <1>6, <2>1
  <2> HIDE DEF K
  <2>4. \A k \in K : (\A j \in K : k >= j) => k = m
    BY <2>2
  <2>5. Max(K) = m
    BY <2>2, <2>4 DEF Max
  <2> QED BY <2>5 DEF K
<1>8. /\ Until(s, t).dates = IF DatesTo(s, m)[m] # t THEN Append(DatesTo(s, m), t) ELSE DatesTo(s, m)
      /\ Until(s, t).regular = IF DatesTo(s, m)[m] # t
                                 THEN Append(FlagsTo(s, m - 1), FALSE) ELSE FlagsTo(s, m - 1)
  <2>1. Len(s.regular) - (n - m) = m - 1
    BY <1>1, <1>6
  <2> QED BY <1>1, <1>3, <1>7, <2>1 DEF Until, DatesTo, FlagsTo, Flagged
<1>9. DatesTo(s, m)[m] = d[m]
  <2>1. m \in 0 .. n /\ m \in 1 .. m
    BY <1>1, <1>6
  <2> QED BY <2>1, PartsOf
<1>10. CASE c < m
  <2>1. d[c + 1] = t /\ d[m] = t
    <3>1. c + 1 \in c + 1 .. m /\ m \in c + 1 .. m
      <4> HIDE DEF n
      <4> QED BY <1>1, <1>2, <1>10
    <3> QED BY <1>2, <3>1
  <2> QED BY <1>5, <1>8, <1>9, <1>10, <2>1 DEF CutsOnDate
<1>11. CASE ~(c < m)
  <2>1. m = c
    BY <1>1, <1>2, <1>11
  <2>2. c \in 1 .. c /\ c \in 1 .. n /\ c + 1 \in m + 1 .. n
    BY <1>1, <1>2, <2>1
  <2>3. d[c] < t /\ t < d[c + 1]
    BY <1>2, <2>2
  <2>4. d[c] # t /\ d[c + 1] # t
    <3>1. d[c] \in Int /\ d[c + 1] \in Int
      BY <1>1, <1>2, <2>2
    <3> HIDE DEF d
    <3> QED BY <2>3, <3>1
  <2> QED BY <1>5, <1>8, <1>9, <1>11, <2>1, <2>4 DEF CutsBetween
<1> QED BY <1>10, <1>11

(* Two parts of a sequence make the whole.                                   *)
LEMMA Glued ==
  ASSUME NEW r \in Seq(BOOLEAN), NEW x \in Seq(BOOLEAN), NEW y \in Seq(BOOLEAN), NEW c \in Nat,
         c <= Len(r), Len(x) = c, Len(y) = Len(r) - c,
         \A i \in 1 .. c : x[i] = r[i],
         \A i \in 1 .. Len(r) - c : y[i] = r[c + i]
  PROVE  x \o y = r
<1> DEFINE n == Len(r)
           w == x \o y
<1>1. n \in Nat
  BY LenProperties
<1>2. /\ w \in Seq(BOOLEAN) /\ Len(w) = Len(x) + Len(y)
      /\ \A i \in 1 .. Len(x) + Len(y) : w[i] = IF i <= Len(x) THEN x[i] ELSE y[i - Len(x)]
  BY ConcatProperties
<1> HIDE DEF w
<1>3. Len(x) + Len(y) = n
  BY <1>1
<1>4. ASSUME NEW i \in 1 .. n PROVE w[i] = r[i]
  <2>1. w[i] = IF i <= c THEN x[i] ELSE y[i - c]
    BY <1>2, <1>3
  <2>2. CASE i <= c
    <3>1. i \in 1 .. c
      BY <2>2
    <3> QED BY <2>1, <2>2, <3>1
  <2>3. CASE ~(i <= c)
    <3>1. i - c \in 1 .. n - c /\ c + (i - c) = i
      BY <1>1, <2>3
    <3>2. y[i - c] = r[i]
      BY <3>1
    <3> QED BY <2>1, <2>3, <3>2
  <2> QED BY <2>2, <2>3
<1>5. Len(w) = Len(r)
  BY <1>2, <1>3
<1> HIDE DEF n
<1>6. w = r
  BY <1>2, <1>4, <1>5, SeqEqual DEF n
<1> QED BY <1>6 DEF w

(* A sequence with one element put before it.                                *)
LEMMA Headed ==
  ASSUME NEW S, NEW q \in Seq(S), NEW e \in S, NEW k \in Nat, Len(q) = k
  PROVE  /\ <<e>> \o q \in Seq(S) /\ Len(<<e>> \o q) = k + 1
         /\ (<<e>> \o q)[1] = e
         /\ \A i \in 1 .. k : (<<e>> \o q)[i + 1] = q[i]
<1> DEFINE w == <<e>> \o q
<1>1. <<e>> \in Seq(S) /\ Len(<<e>>) = 1 /\ <<e>>[1] = e
  OBVIOUS
<1>2. /\ w \in Seq(S) /\ Len(w) = 1 + k
      /\ \A i \in 1 .. 1 + k : w[i] = IF i <= 1 THEN <<e>>[i] ELSE q[i - 1]
  BY <1>1, ConcatProperties
<1> HIDE DEF w
<1>3. 1 \in 1 .. 1 + k /\ w[1] = e
  BY <1>1, <1>2
<1>4. ASSUME NEW i \in 1 .. k PROVE w[i + 1] = q[i]
  <2>1. i + 1 \in 1 .. 1 + k /\ ~(i + 1 <= 1) /\ (i + 1) - 1 = i
    OBVIOUS
  <2> QED BY <1>2, <2>1
<1>5. 1 + k = k + 1
  OBVIOUS
<1> QED BY <1>2, <1>3, <1>4, <1>5 DEF w

(* Flags with that of an irregular period put after or before them.          *)
LEMMA Irregular ==
  ASSUME NEW q \in Seq(BOOLEAN)
  PROVE  /\ Append(q, FALSE) \in Seq(BOOLEAN) /\ Len(Append(q, FALSE)) = Len(q) + 1
         /\ \A i \in 1 .. Len(q) : Append(q, FALSE)[i] = q[i]
         /\ Append(q, FALSE)[Len(q) + 1] = FALSE
         /\ <<FALSE>> \o q \in Seq(BOOLEAN) /\ Len(<<FALSE>> \o q) = Len(q) + 1
         /\ (<<FALSE>> \o q)[1] = FALSE
         /\ \A i \in 1 .. Len(q) : (<<FALSE>> \o q)[i + 1] = q[i]
<1>1. Append(q, FALSE) \in Seq(BOOLEAN) /\ Len(Append(q, FALSE)) = Len(q) + 1
  OBVIOUS
<1>2. \A i \in 1 .. Len(q) : Append(q, FALSE)[i] = q[i]
  OBVIOUS
<1>3. Append(q, FALSE)[Len(q) + 1] = FALSE
  OBVIOUS
<1>4. <<FALSE>> \o q \in Seq(BOOLEAN) /\ Len(<<FALSE>> \o q) = Len(q) + 1
  OBVIOUS
<1>5. (<<FALSE>> \o q)[1] = FALSE
  OBVIOUS
<1>6. \A i \in 1 .. Len(q) : (<<FALSE>> \o q)[i + 1] = q[i]
  OBVIOUS
<1> QED BY <1>1, <1>2, <1>3, <1>4, <1>5, <1>6

\* What a schedule that is to be cut must be: in order, with one flag per period.
Cuttable(s) == Flagged(s) /\ NonDecreasing(s.dates)

(* A cut changes of a schedule only what must be seen to here.               *)
LEMMA CutsAreSchedules ==
  ASSUME NEW s, Flagged(s), NEW t \in Int, NEW cut,
         NEW h \in {Until(s, t), After(s, t), WithoutFirst(s, t, cut)}, h.dates \in Seq(Int),
         h.regular \in Seq(BOOLEAN), Len(h.dates) > 0, OneFlagPerPeriod(h)
  PROVE  Flagged(h)
<1>1. NullDate \in Int /\ Unadjusted \in Conventions
  BY DEF NullDate, Unadjusted, Conventions
<1>3. /\ h.convention \in Conventions /\ h.terminationConvention \in Conventions
      /\ h.first \in Int /\ h.nextToLast \in Int /\ h.asked = s.asked
      /\ h = [dates |-> h.dates, regular |-> h.regular, convention |-> h.convention,
              terminationConvention |-> h.terminationConvention, first |-> h.first,
              nextToLast |-> h.nextToLast, asked |-> h.asked]
  <2>1. /\ s.convention \in Conventions /\ s.terminationConvention \in Conventions
        /\ s.first \in Int /\ s.nextToLast \in Int
        /\ s = [dates |-> s.dates, regular |-> s.regular, convention |-> s.convention,
                terminationConvention |-> s.terminationConvention, first |-> s.first,
                nextToLast |-> s.nextToLast, asked |-> s.asked]
    BY DEF Flagged
  <2>2. ASSUME NEW ds, NEW rs, NEW tc \in Conventions, NEW f \in Int, NEW g \in Int,
               h = [s EXCEPT !.dates = ds, !.regular = rs, !.terminationConvention = tc,
                             !.first = f, !.nextToLast = g]
        PROVE  /\ h.convention \in Conventions /\ h.terminationConvention \in Conventions
               /\ h.first \in Int /\ h.nextToLast \in Int /\ h.asked = s.asked
               /\ h = [dates |-> h.dates, regular |-> h.regular, convention |-> h.convention,
                       terminationConvention |-> h.terminationConvention, first |-> h.first,
                       nextToLast |-> h.nextToLast, asked |-> h.asked]
    <3>1. h = [dates |-> ds, regular |-> rs, convention |-> s.convention,
               terminationConvention |-> tc, first |-> f, nextToLast |-> g, asked |-> s.asked]
      BY <2>1, <2>2
    <3> QED BY <2>1, <3>1
  <2>3. CASE h = s
    BY <2>1, <2>3
  <2>4. CASE h = Until(s, t) /\ h # s
    <3>1. PICK tc \in {Unadjusted, s.convention} : \E ds, rs :
            h = [s EXCEPT !.dates = ds, !.regular = rs, !.terminationConvention = tc,
                          !.first = KeepIf(s.first, s.first < t),
                          !.nextToLast = KeepIf(s.nextToLast, s.nextToLast < t)]
      BY <2>4 DEF Until
    <3>2. /\ tc \in Conventions
          /\ KeepIf(s.first, s.first < t) \in Int
          /\ KeepIf(s.nextToLast, s.nextToLast < t) \in Int
      BY <1>1, <2>1 DEF KeepIf
    <3>3. PICK ds, rs :
            h = [s EXCEPT !.dates = ds, !.regular = rs, !.terminationConvention = tc,
                          !.first = KeepIf(s.first, s.first < t),
                          !.nextToLast = KeepIf(s.nextToLast, s.nextToLast < t)]
      BY <3>1
    <3>4. PICK f \in Int, g \in Int :
            h = [s EXCEPT !.dates = ds, !.regular = rs, !.terminationConvention = tc,
                          !.first = f, !.nextToLast = g]
      BY <3>2, <3>3
    <3> QED BY <2>2, <3>2, <3>4
  <2>5. CASE h \in {After(s, t), WithoutFirst(s, t, cut)} /\ h # s
    <3>0. PICK c : h = WithoutFirst(s, t, c)
      BY <2>5 DEF After
    <3>1. PICK tc \in {Unadjusted, s.convention} : \E ds, rs :
            h = [s EXCEPT !.dates = ds, !.regular = rs, !.terminationConvention = tc,
                          !.first = KeepIf(s.first, s.first > t),
                          !.nextToLast = KeepIf(s.nextToLast, s.nextToLast > t)]
      BY <3>0 DEF WithoutFirst
    <3>2. /\ tc \in Conventions
          /\ KeepIf(s.first, s.first > t) \in Int
          /\ KeepIf(s.nextToLast, s.nextToLast > t) \in Int
      BY <1>1, <2>1 DEF KeepIf
    <3>3. PICK ds, rs :
            h = [s EXCEPT !.dates = ds, !.regular = rs, !.terminationConvention = tc,
                          !.first = KeepIf(s.first, s.first > t),
                          !.nextToLast = KeepIf(s.nextToLast, s.nextToLast > t)]
      BY <3>1
    <3>4. PICK f \in Int, g \in Int :
            h = [s EXCEPT !.dates = ds, !.regular = rs, !.terminationConvention = tc,
                          !.first = f, !.nextToLast = g]
      BY <3>2, <3>3
    <3> QED BY <2>2, <3>2, <3>4
  <2> QED BY <2>3, <2>4, <2>5
<1> QED BY <1>3 DEF Flagged

(* What is left after a date, wherever the search for it ends.                *)
LEMMA WithoutFirstIs ==
  ASSUME NEW s, Flagged(s), NEW t \in Int, NEW cut \in SearchesEnd(s, t)
  PROVE  Flagged(WithoutFirst(s, t, cut))
<1> DEFINE n == Len(s.dates)
           dates == SubSeq(s.dates, cut + 1, n)
           regular == SubSeq(s.regular, cut + 1, Len(s.regular))
           h == WithoutFirst(s, t, cut)
<1>1. n \in Nat /\ n > 0 /\ Len(s.regular) = n - 1
  BY DEF Flagged, OneFlagPerPeriod
<1>3. cut \in 1 .. n - 1
  BY DEF SearchesEnd
<1>4. dates \in Seq(Int) /\ Len(dates) = n - cut
  <2>1. cut \in 0 .. n
    <3> HIDE DEF n
    <3> QED BY <1>1, <1>3
  <2> QED BY <2>1, PartsOf DEF DatesFrom
<1>5. regular \in Seq(BOOLEAN) /\ Len(regular) = n - 1 - cut
  <2>1. s.regular \in Seq(BOOLEAN) /\ Len(s.regular) \in Nat
    BY DEF Flagged
  <2> QED
    BY <1>1, <1>3, <2>1
<1>6. /\ h.dates = IF dates[1] # t THEN <<t>> \o dates ELSE dates
      /\ h.regular = IF dates[1] # t THEN <<FALSE>> \o regular ELSE regular
  BY DEF WithoutFirst, Flagged
<1> HIDE DEF n, dates, regular, h
<1>7. /\ <<t>> \o dates \in Seq(Int) /\ Len(<<t>> \o dates) = n - cut + 1
      /\ <<FALSE>> \o regular \in Seq(BOOLEAN) /\ Len(<<FALSE>> \o regular) = n - cut
  BY <1>1, <1>3, <1>4, <1>5
<1>8. h.dates \in Seq(Int) /\ h.regular \in Seq(BOOLEAN)
  BY <1>4, <1>5, <1>6, <1>7
<1>9. Len(h.dates) > 0 /\ OneFlagPerPeriod(h)
  BY <1>1, <1>3, <1>4, <1>5, <1>6, <1>7 DEF OneFlagPerPeriod
<1> QED BY <1>8, <1>9, CutsAreSchedules DEF h

(* What is left up to a date, of dates in any order.                          *)
LEMMA UntilIs ==
  ASSUME NEW s, Flagged(s), NEW t \in Int, s.dates[1] < t
  PROVE  Flagged(Until(s, t))
<1> DEFINE n == Len(s.dates)
           K == {i \in DOMAIN s.dates : s.dates[i] <= t}
           kept == Max(K)
           dates == SubSeq(s.dates, 1, kept)
           regular == SubSeq(s.regular, 1, Len(s.regular) - (n - kept))
           h == Until(s, t)
<1> SUFFICES ASSUME ~(t >= Last(s.dates)) PROVE Flagged(h)
  BY DEF Until
<1>1. /\ n \in Nat /\ n > 0 /\ Len(s.regular) = n - 1 /\ DOMAIN s.dates = 1 .. n
      /\ s.dates \in Seq(Int) /\ s.regular \in Seq(BOOLEAN) /\ s.dates[1] \in Int
  BY LenProperties DEF Flagged, OneFlagPerPeriod
<1>2. kept \in 1 .. n
  <2>1. 1 \in K /\ K \subseteq 1 .. n
    <3> HIDE DEF n
    <3> QED BY <1>1
  <2> HIDE DEF K
  <2>2. PICK m \in {n - k : k \in K} : \A i \in {n - k : k \in K} : m <= i
    <3>1. {n - k : k \in K} \subseteq Nat /\ {n - k : k \in K} # {}
      <4> HIDE DEF n
      <4> QED BY <1>1, <2>1
    <3> HIDE DEF n
    <3> QED BY <3>1, LeastNumber
  <2>3. \E k \in K : \A j \in K : k >= j
    <3>1. PICK k \in K : m = n - k
      BY <2>2
    <3>2. \A j \in K : m <= n - j
      BY <2>2
    <3> HIDE DEF n
    <3> QED BY <1>1, <2>1, <3>1, <3>2
  <2>4. Max(K) \in K
    BY <2>3 DEF Max
  <2> QED BY <2>1, <2>4
<1>6. /\ h.dates = IF dates[kept] # t THEN Append(dates, t) ELSE dates
      /\ h.regular = IF dates[kept] # t THEN Append(regular, FALSE) ELSE regular
  BY DEF Until, Flagged
<1> HIDE DEF K, kept, h
<1>4. dates \in Seq(Int) /\ Len(dates) = kept
  BY <1>1, <1>2
<1>5. regular \in Seq(BOOLEAN) /\ Len(regular) = kept - 1
  <2>1. Len(s.regular) - (n - kept) = kept - 1 /\ kept - 1 \in 0 .. n /\ kept - 1 < n
    <3> HIDE DEF n
    <3> QED BY <1>1, <1>2
  <2>2. FlagsTo(s, kept - 1) \in Seq(BOOLEAN) /\ Len(FlagsTo(s, kept - 1)) = kept - 1
    BY <2>1, PartsOf
  <2> QED BY <2>1, <2>2 DEF FlagsTo
<1> HIDE DEF n, dates, regular
<1>7. /\ Append(dates, t) \in Seq(Int) /\ Len(Append(dates, t)) = kept + 1
      /\ Append(regular, FALSE) \in Seq(BOOLEAN) /\ Len(Append(regular, FALSE)) = kept
  BY <1>2, <1>4, <1>5
<1>8. h.dates \in Seq(Int) /\ h.regular \in Seq(BOOLEAN)
  BY <1>4, <1>5, <1>6, <1>7
<1>9. Len(h.dates) > 0 /\ OneFlagPerPeriod(h)
  BY <1>1, <1>2, <1>4, <1>5, <1>6, <1>7 DEF OneFlagPerPeriod
<1> QED BY <1>8, <1>9, CutsAreSchedules DEF h

(* Whatever schedule is cut after or until whatever date, be its dates in order *)
(* or not: each period of what is left has its flag (schedule.rs:664-745).      *)
THEOREM CutsKeepOneFlagPerPeriod ==
  ASSUME NEW s, Flagged(s), NEW t \in Int
  PROVE  /\ \A cut \in SearchesEnd(s, t) : OneFlagPerPeriod(WithoutFirst(s, t, cut))
         /\ s.dates[1] < t => OneFlagPerPeriod(Until(s, t))
BY WithoutFirstIs, UntilIs DEF Flagged

(* A search by halves of dates in order ends at one place.                    *)
LEMMA SearchesEndOnce ==
  ASSUME NEW s, Flagged(s), NEW t \in Int, Within(s, t)
  PROVE  SearchesEnd(s, t) = {lower_bound(s, t)}
<1> DEFINE d == s.dates
           n == Len(d)
           b == lower_bound(s, t)
<1>1. PICK m : CutAt(s, t, b, m)
  BY LowerBoundCuts
<1>2. /\ b \in 1 .. n - 1 /\ m \in b .. n - 1 /\ n \in Nat
      /\ \A i \in 1 .. n : d[i] \in Int /\ (d[i] < t <=> i <= b)
  <2>1. /\ d \in Seq(Int) /\ b \in 1 .. n - 1 /\ m \in b .. n - 1
        /\ \A i \in 1 .. b : d[i] < t
        /\ \A i \in b + 1 .. m : d[i] = t
        /\ \A i \in m + 1 .. n : t < d[i]
    BY <1>1 DEF CutAt, Flagged
  <2>2. n \in Nat /\ \A i \in 1 .. n : d[i] \in Int
    BY <2>1, LenProperties
  <2> HIDE DEF d, n, b
  <2>3. ASSUME NEW i \in 1 .. n PROVE d[i] < t <=> i <= b
    <3>1. d[i] \in Int /\ (i \in 1 .. b \/ i \in b + 1 .. m \/ i \in m + 1 .. n)
      BY <2>1, <2>2
    <3> QED BY <2>1, <2>2, <3>1
  <2> QED BY <2>1, <2>2, <2>3
<1>3. ASSUME NEW c \in 1 .. n - 1 PROVE d[c] < t /\ t <= d[c + 1] <=> c = b
  <2> HIDE DEF d, n, b
  <2>1. c \in 1 .. n /\ c + 1 \in 1 .. n
    BY <1>2
  <2>2. /\ d[c] \in Int /\ d[c + 1] \in Int
        /\ d[c] < t <=> c <= b
        /\ d[c + 1] < t <=> c + 1 <= b
    BY <1>2, <2>1
  <2> QED BY <1>2, <2>1, <2>2
<1> HIDE DEF d, n, b
<1>4. SearchesEnd(s, t) = {c \in 1 .. n - 1 : d[c] < t /\ t <= d[c + 1]}
  BY DEF SearchesEnd, d, n
<1> QED BY <1>2, <1>3, <1>4 DEF b

(* Whatever schedule is cut in two at whatever date within it, the halves    *)
(* make the whole and can be cut again.                                      *)
LEMMA HalvesOf ==
  ASSUME NEW s, Cuttable(s), NEW t \in Int, s.dates[1] < t, t < Last(s.dates)
  PROVE  Halves(s, t) /\ Cuttable(Until(s, t)) /\ Cuttable(After(s, t))
<1> DEFINE d == s.dates
           r == s.regular
           n == Len(d)
           c == lower_bound(s, t)
           u == Until(s, t)
           a == After(s, t)
<1> SUFFICES ASSUME Flagged(s), NonDecreasing(s.dates)
             PROVE  Halves(s, t) /\ Cuttable(Until(s, t)) /\ Cuttable(After(s, t))
  BY DEF Cuttable
<1>0. Within(s, t)
  BY DEF Within
<1>1. /\ d \in Seq(Int) /\ n \in Nat /\ n > 0 /\ DOMAIN d = 1 .. n
      /\ r \in Seq(BOOLEAN) /\ Len(r) = n - 1 /\ DOMAIN r = 1 .. n - 1
      /\ \A i \in 1 .. n : d[i] \in Int
  <2>1. d \in Seq(Int) /\ r \in Seq(BOOLEAN) /\ Len(r) = n - 1
    BY DEF Flagged, OneFlagPerPeriod
  <2> QED BY <2>1, LenProperties DEF Flagged
<1>2. PICK m : CutAt(s, t, c, m) /\ Occurrences(s, t) = m - c
  BY <1>0, LowerBoundCuts
<1>3. /\ c \in 1 .. n - 1 /\ c \in Nat /\ c + 1 \in 1 .. n /\ c \in 0 .. n /\ c < n
      /\ c - 1 \in 0 .. n /\ c - 1 < n
      /\ m \in c .. n - 1 /\ m \in Nat /\ m \in 0 .. n
      /\ m - 1 \in 0 .. n /\ m - 1 < n
  <2>1. c \in 1 .. n - 1 /\ m \in c .. n - 1
    BY <1>2 DEF CutAt
  <2> HIDE DEF c, n
  <2> QED BY <1>1, <2>1
<1>4. \A i, j \in 1 .. n : i <= j => d[i] <= d[j]
  BY <1>1, InOrder
<1>5. OneFlagPerPeriod(s) /\ lower_bound(s, t) = c
  BY DEF Flagged
<1> HIDE DEF c
<1>6. CASE c < m
  <2>1. /\ a.dates = DatesFrom(s, c) /\ a.regular = FlagsFrom(s, c)
        /\ u.dates = DatesTo(s, m) /\ u.regular = FlagsTo(s, m - 1)
    <3>1. CutsOnDate(s, t, c, m)
      BY <1>0, <1>2, <1>5, <1>6, Cuts
    <3> QED BY <3>1 DEF CutsOnDate
  <2> HIDE DEF a, u
  <2>2. /\ u.dates \in Seq(Int) /\ Len(u.dates) = m /\ \A i \in 1 .. m : u.dates[i] = d[i]
        /\ a.dates \in Seq(Int) /\ Len(a.dates) = n - c /\ \A i \in 1 .. n - c : a.dates[i] = d[c + i]
        /\ u.regular \in Seq(BOOLEAN) /\ Len(u.regular) = m - 1
        /\ \A i \in 1 .. m - 1 : u.regular[i] = r[i]
        /\ a.regular \in Seq(BOOLEAN) /\ Len(a.regular) = n - 1 - c
        /\ \A i \in 1 .. n - 1 - c : a.regular[i] = r[c + i]
    <3>1. /\ DatesTo(s, m) \in Seq(Int) /\ Len(DatesTo(s, m)) = m
          /\ \A i \in 1 .. m : DatesTo(s, m)[i] = d[i]
      BY <1>3, PartsOf
    <3>2. /\ DatesFrom(s, c) \in Seq(Int) /\ Len(DatesFrom(s, c)) = n - c
          /\ \A i \in 1 .. n - c : DatesFrom(s, c)[i] = d[c + i]
      BY <1>3, PartsOf
    <3>3. /\ FlagsTo(s, m - 1) \in Seq(BOOLEAN) /\ Len(FlagsTo(s, m - 1)) = m - 1
          /\ \A i \in 1 .. m - 1 : FlagsTo(s, m - 1)[i] = r[i]
      BY <1>3, PartsOf
    <3>4. /\ FlagsFrom(s, c) \in Seq(BOOLEAN) /\ Len(FlagsFrom(s, c)) = n - 1 - c
          /\ \A i \in 1 .. n - 1 - c : FlagsFrom(s, c)[i] = r[c + i]
      BY <1>3, PartsOf
    <3> QED BY <2>1, <3>1, <3>2, <3>3, <3>4
  <2>3. OneFlagPerPeriod(u) /\ OneFlagPerPeriod(a)
    <3>1. n - 1 - c = (n - c) - 1
      <4> HIDE DEF n
      <4> QED BY <1>1, <1>3
    <3> QED BY <2>2, <3>1 DEF OneFlagPerPeriod
  <2>4. d[m] = t /\ d[c + 1] = t /\ m \in 1 .. m /\ m \in 1 .. n
    <3>1. m \in c + 1 .. m /\ c + 1 \in c + 1 .. m /\ m \in 1 .. m /\ m \in 1 .. n
      <4> HIDE DEF n
      <4> QED BY <1>1, <1>3, <1>6
    <3> QED BY <1>2, <3>1, Zenon DEF CutAt
  <2>5. Last(u.dates) = t /\ a.dates[1] = t
    <3>1. 1 \in 1 .. n - c
      <4> HIDE DEF n
      <4> QED BY <1>1, <1>3
    <3>2. u.dates[m] = t /\ a.dates[1] = t
      BY <2>2, <2>4, <3>1
    <3> QED BY <2>2, <3>2 DEF Last
  <2>6. DOMAIN u.dates = 1 .. m /\ DOMAIN a.dates = 1 .. n - c
    BY <2>2, LenProperties
  <2>7. t \in Range(d) /\ Range(u.dates) \cup Range(a.dates) = Range(d)
    <3>1. t \in Range(d)
      BY <1>1, <2>4 DEF Range
    <3>2. \A i \in 1 .. m : i \in 1 .. n
      BY <1>1, <1>3
    <3>3. \A i \in 1 .. n - c : c + i \in 1 .. n
      BY <1>1, <1>3
    <3>4. Range(u.dates) \subseteq Range(d) /\ Range(a.dates) \subseteq Range(d)
      <4>1. ASSUME NEW i \in DOMAIN u.dates PROVE u.dates[i] \in Range(d)
        BY <1>1, <2>2, <2>6, <3>2, Zenon DEF Range
      <4>2. ASSUME NEW i \in DOMAIN a.dates PROVE a.dates[i] \in Range(d)
        <5>1. i \in 1 .. n - c /\ a.dates[i] = d[c + i] /\ c + i \in 1 .. n
          BY <2>2, <2>6, <3>3
        <5> QED BY <1>1, <5>1, Zenon DEF Range
      <4> HIDE DEF d
      <4> QED BY <4>1, <4>2, Zenon DEF Range
    <3>5. ASSUME NEW i \in 1 .. n PROVE d[i] \in Range(u.dates) \cup Range(a.dates)
      <4>1. CASE i <= m
        <5>1. i \in 1 .. m
          BY <1>3, <4>1
        <5> QED BY <2>2, <2>6, <5>1 DEF Range
      <4>2. CASE ~(i <= m)
        <5>1. i - c \in 1 .. n - c /\ c + (i - c) = i
          BY <1>1, <1>3, <4>2
        <5>2. a.dates[i - c] = d[i]
          BY <2>2, <5>1
        <5> QED BY <2>6, <5>1, <5>2 DEF Range
      <4> QED BY <4>1, <4>2
    <3> QED BY <1>1, <3>1, <3>4, <3>5 DEF Range
  <2>8. u.regular \o SubSeq(a.regular, m - c, n - 1 - c) = r
    <3> DEFINE q == a.regular
               y == SubSeq(q, m - c, n - 1 - c)
               k == m - 1
    <3>1. /\ k \in Nat /\ k <= n - 1 /\ m - c \in 1 .. n - 1 - c /\ n - 1 - c \in Nat
          /\ (n - 1 - c) - (m - c) + 1 = (n - 1) - k
          /\ \A i \in 1 .. (n - 1) - k :
               /\ (m - c) + i - 1 \in 1 .. n - 1 - c
               /\ c + ((m - c) + i - 1) = k + i
      <4> HIDE DEF n
      <4> QED BY <1>1, <1>3, <1>6
    <3>2. q \in Seq(BOOLEAN) /\ Len(q) = n - 1 - c /\ \A i \in 1 .. n - 1 - c : q[i] = r[c + i]
      BY <2>2
    <3> HIDE DEF q
    <3>3. y \in Seq(BOOLEAN) /\ Len(y) = (n - 1) - k
          /\ \A i \in 1 .. (n - 1) - k : y[i] = q[(m - c) + i - 1]
      <4> HIDE DEF n
      <4> QED BY <3>1, <3>2
    <3> HIDE DEF y
    <3>4. \A i \in 1 .. (n - 1) - k : y[i] = r[k + i]
      BY <3>1, <3>2, <3>3
    <3>5. /\ Len(u.regular) = k /\ Len(y) = Len(r) - k /\ k <= Len(r)
          /\ \A i \in 1 .. k : u.regular[i] = r[i]
          /\ \A i \in 1 .. Len(r) - k : y[i] = r[k + i]
      BY <1>1, <2>2, <3>1, <3>3, <3>4
    <3>6. u.regular \in Seq(BOOLEAN) /\ y \in Seq(BOOLEAN) /\ r \in Seq(BOOLEAN) /\ k \in Nat
      BY <1>1, <2>2, <3>1, <3>3
    <3> HIDE DEF r, n, k
    <3>7. u.regular \o y = r
      BY <3>5, <3>6, Glued
    <3> QED BY <3>7 DEF y, q
  <2>9. Halves(s, t)
    <3>1. IF t \in Range(d)
          THEN u.regular \o SubSeq(a.regular, Occurrences(s, t), Len(a.regular)) = r
          ELSE /\ Front(u.regular) \o <<r[c]>> \o Tail(a.regular) = r
               /\ ~Last(u.regular) /\ ~Head(a.regular)
      BY <1>2, <2>2, <2>7, <2>8
    <3>2. Range(d) \cup {t} = Range(d)
      BY <2>7
    <3> QED BY <1>5, <2>3, <2>5, <2>7, <3>1, <3>2, Zenon DEF Halves, u, a
  <2>10. NonDecreasing(u.dates)
    <3>1. ASSUME NEW i \in 1 .. Len(u.dates) - 1
          PROVE  i \in 1 .. n /\ i + 1 \in 1 .. n /\ i <= i + 1
                   /\ u.dates[i] = d[i] /\ u.dates[i + 1] = d[i + 1]
      <4>1. i \in 1 .. m - 1
        BY <2>2
      <4>2. /\ i \in 1 .. n /\ i + 1 \in 1 .. n /\ i <= i + 1
            /\ i \in 1 .. m /\ i + 1 \in 1 .. m
        <5> HIDE DEF n
        <5> QED BY <1>1, <1>3, <4>1
      <4> QED BY <2>2, <4>2
    <3> QED BY <1>4, <3>1 DEF NonDecreasing
  <2>11. NonDecreasing(a.dates)
    <3>1. ASSUME NEW i \in 1 .. Len(a.dates) - 1
          PROVE  c + i \in 1 .. n /\ c + (i + 1) \in 1 .. n /\ c + i <= c + (i + 1)
                   /\ a.dates[i] = d[c + i] /\ a.dates[i + 1] = d[c + (i + 1)]
      <4>1. i \in 1 .. (n - c) - 1
        BY <2>2
      <4>2. /\ c + i \in 1 .. n /\ c + (i + 1) \in 1 .. n /\ c + i <= c + (i + 1)
            /\ i \in 1 .. n - c /\ i + 1 \in 1 .. n - c
        <5> HIDE DEF n
        <5> QED BY <1>1, <1>3, <4>1
      <4> QED BY <2>2, <4>2
    <3> QED BY <1>4, <3>1 DEF NonDecreasing
  <2>12. Flagged(u) /\ Flagged(a)
    <3>1. Len(u.dates) > 0 /\ Len(a.dates) > 0
      <4>1. Len(u.dates) = m /\ Len(a.dates) = n - c
        BY <2>2
      <4> HIDE DEF n
      <4> QED BY <1>1, <1>3, <1>6, <4>1
    <3> QED BY <2>2, <2>3, <3>1, CutsAreSchedules DEF u, a
  <2> QED BY <2>9, <2>10, <2>11, <2>12 DEF u, a, Cuttable
<1>7. CASE ~(c < m)
  <2>1. /\ a.dates = <<t>> \o DatesFrom(s, c) /\ a.regular = <<FALSE>> \o FlagsFrom(s, c)
        /\ u.dates = Append(DatesTo(s, c), t) /\ u.regular = Append(FlagsTo(s, c - 1), FALSE)
    <3>1. CutsBetween(s, t, c)
      BY <1>0, <1>2, <1>5, <1>7, Cuts
    <3> QED BY <3>1 DEF CutsBetween
  <2> HIDE DEF a, u
  <2>2. /\ u.dates \in Seq(Int) /\ Len(u.dates) = c + 1
        /\ \A i \in 1 .. c : u.dates[i] = d[i]
        /\ u.dates[c + 1] = t
    <3>1. /\ DatesTo(s, c) \in Seq(Int) /\ Len(DatesTo(s, c)) = c
          /\ \A i \in 1 .. c : DatesTo(s, c)[i] = d[i]
      BY <1>3, PartsOf
    <3> HIDE DEF d
    <3> QED BY <2>1, <3>1, AppendProperties
  <2>3. /\ a.dates \in Seq(Int) /\ Len(a.dates) = n - c + 1
        /\ a.dates[1] = t
        /\ \A i \in 1 .. n - c : a.dates[i + 1] = d[c + i]
    <3>1. /\ DatesFrom(s, c) \in Seq(Int) /\ Len(DatesFrom(s, c)) = n - c
          /\ \A i \in 1 .. n - c : DatesFrom(s, c)[i] = d[c + i]
      BY <1>3, PartsOf
    <3>2. n - c \in Nat
      BY <1>1, <1>3
    <3> DEFINE q == DatesFrom(s, c)
               w == <<t>> \o q
               k == n - c
    <3>3. q \in Seq(Int) /\ Len(q) = k /\ k \in Nat
      BY <3>1, <3>2
    <3> HIDE DEF q, k
    <3>4. w \in Seq(Int) /\ Len(w) = k + 1 /\ w[1] = t /\ \A i \in 1 .. k : w[i + 1] = q[i]
      BY <3>3, Headed
    <3>5. w = a.dates
      BY <2>1 DEF q
    <3> HIDE DEF w
    <3>6. \A i \in 1 .. k : q[i] = d[c + i]
      BY <3>1 DEF q, k
    <3> QED BY <3>4, <3>5, <3>6 DEF k
  <2>4. /\ u.regular \in Seq(BOOLEAN) /\ Len(u.regular) = c
        /\ \A i \in 1 .. c - 1 : u.regular[i] = r[i]
        /\ u.regular[c] = FALSE
    <3>1. /\ FlagsTo(s, c - 1) \in Seq(BOOLEAN) /\ Len(FlagsTo(s, c - 1)) = c - 1
          /\ \A i \in 1 .. c - 1 : FlagsTo(s, c - 1)[i] = r[i]
      BY <1>3, PartsOf
    <3>2. (c - 1) + 1 = c /\ FALSE \in BOOLEAN
      BY <1>3
    <3> DEFINE q == FlagsTo(s, c - 1)
               w == Append(q, FALSE)
    <3> HIDE DEF r, q
    <3>3. /\ w \in Seq(BOOLEAN) /\ Len(w) = Len(q) + 1
          /\ \A i \in 1 .. Len(q) : w[i] = q[i]
          /\ w[Len(q) + 1] = FALSE
      BY <3>1, Irregular DEF q
    <3>4. w = u.regular
      BY <2>1 DEF q
    <3> HIDE DEF w
    <3>5. Len(q) = c - 1 /\ \A i \in 1 .. c - 1 : q[i] = r[i]
      BY <3>1 DEF q
    <3> QED BY <3>2, <3>3, <3>4, <3>5
  <2>5. /\ a.regular \in Seq(BOOLEAN) /\ Len(a.regular) = n - c
        /\ a.regular[1] = FALSE
        /\ \A i \in 1 .. n - 1 - c : a.regular[i + 1] = r[c + i]
    <3>1. /\ FlagsFrom(s, c) \in Seq(BOOLEAN) /\ Len(FlagsFrom(s, c)) = n - 1 - c
          /\ \A i \in 1 .. n - 1 - c : FlagsFrom(s, c)[i] = r[c + i]
      BY <1>3, PartsOf
    <3>2. n - 1 - c \in Nat /\ (n - 1 - c) + 1 = n - c
      <4> HIDE DEF n
      <4> QED BY <1>1, <1>3
    <3> DEFINE q == FlagsFrom(s, c)
               w == <<FALSE>> \o q
               k == n - 1 - c
    <3>3. q \in Seq(BOOLEAN) /\ Len(q) = k
      BY <3>1
    <3> HIDE DEF q
    <3>4. /\ w \in Seq(BOOLEAN) /\ Len(w) = Len(q) + 1 /\ w[1] = FALSE
          /\ \A i \in 1 .. Len(q) : w[i + 1] = q[i]
      BY <3>3, Irregular
    <3> HIDE DEF k
    <3>5. w = a.regular
      BY <2>1 DEF q
    <3> HIDE DEF w
    <3>6. k + 1 = n - c
      BY <3>2 DEF k
    <3>7. \A i \in 1 .. k : q[i] = r[c + i]
      BY <3>1 DEF q, k
    <3> QED BY <3>3, <3>4, <3>5, <3>6, <3>7 DEF k
  <2>6. OneFlagPerPeriod(u) /\ OneFlagPerPeriod(a)
    <3>1. c = (c + 1) - 1 /\ n - c = (n - c + 1) - 1
      <4> HIDE DEF n
      <4> QED BY <1>1, <1>3
    <3> QED BY <2>2, <2>3, <2>4, <2>5, <3>1 DEF OneFlagPerPeriod
  <2>7. Last(u.dates) = t /\ ~Last(u.regular)
    BY <2>2, <2>4 DEF Last
  <2>8. DOMAIN u.dates = 1 .. c + 1 /\ DOMAIN a.dates = 1 .. n - c + 1
    BY <2>2, <2>3, LenProperties
  <2>9. t \notin Range(d)
    <3>1. ASSUME NEW i \in 1 .. n PROVE d[i] # t
      <4>1. d[i] \in Int
        BY <1>1
      <4>2. CASE i <= c
        <5>1. i \in 1 .. c
          BY <1>3, <4>2
        <5>2. d[i] < t
          BY <1>2, <5>1, Zenon DEF CutAt
        <5> HIDE DEF d
        <5> QED BY <4>1, <5>2
      <4>3. CASE ~(i <= c)
        <5>1. i \in m + 1 .. n
          BY <1>1, <1>3, <1>7, <4>3
        <5>2. t < d[i]
          BY <1>2, <5>1, Zenon DEF CutAt
        <5> HIDE DEF d
        <5> QED BY <4>1, <5>2
      <4> QED BY <4>2, <4>3
    <3> QED BY <1>1, <3>1 DEF Range
  <2>10. Range(u.dates) \cup Range(a.dates) = Range(d) \cup {t}
    <3>1. ASSUME NEW i \in 1 .. c + 1 PROVE u.dates[i] \in Range(d) \cup {t}
      <4>1. CASE i = c + 1
        BY <2>2, <4>1
      <4>2. CASE i # c + 1
        <5>1. i \in 1 .. c /\ i \in 1 .. n
          BY <1>1, <1>3, <4>2
        <5>2. u.dates[i] = d[i]
          BY <2>2, <5>1
        <5> QED BY <1>1, <5>1, <5>2 DEF Range
      <4> QED BY <4>1, <4>2
    <3>2. ASSUME NEW i \in 1 .. n - c + 1 PROVE a.dates[i] \in Range(d) \cup {t}
      <4>1. CASE i = 1
        BY <2>3, <4>1
      <4>2. CASE i # 1
        <5>1. i - 1 \in 1 .. n - c /\ c + (i - 1) \in 1 .. n /\ (i - 1) + 1 = i
          BY <1>1, <1>3, <4>2
        <5>2. a.dates[i] = d[c + (i - 1)]
          BY <2>3, <5>1
        <5> QED BY <1>1, <5>1, <5>2 DEF Range
      <4> QED BY <4>1, <4>2
    <3>3. t \in Range(u.dates)
      <4>1. c + 1 \in 1 .. c + 1
        BY <1>3
      <4> QED BY <2>2, <2>8, <4>1 DEF Range
    <3>4. ASSUME NEW i \in 1 .. n PROVE d[i] \in Range(u.dates) \cup Range(a.dates)
      <4>1. CASE i <= c
        <5>1. i \in 1 .. c /\ i \in 1 .. c + 1
          BY <1>3, <4>1
        <5>2. u.dates[i] = d[i]
          BY <2>2, <5>1
        <5> QED BY <2>8, <5>1, <5>2 DEF Range
      <4>2. CASE ~(i <= c)
        <5>1. i - c \in 1 .. n - c /\ c + (i - c) = i /\ (i - c) + 1 \in 1 .. n - c + 1
          BY <1>1, <1>3, <4>2
        <5>2. a.dates[(i - c) + 1] = d[i]
          BY <2>3, <5>1
        <5> QED BY <2>8, <5>1, <5>2 DEF Range
      <4> QED BY <4>1, <4>2
    <3>5. \A z \in Range(u.dates) : z \in Range(d) \cup {t}
      BY <2>8, <3>1 DEF Range
    <3>6. \A z \in Range(a.dates) : z \in Range(d) \cup {t}
      BY <2>8, <3>2 DEF Range
    <3>7. \A z \in Range(d) : z \in Range(u.dates) \cup Range(a.dates)
      BY <1>1, <3>4 DEF Range
    <3> QED BY <3>3, <3>5, <3>6, <3>7
  <2>11. Front(u.regular) \o <<r[c]>> \o Tail(a.regular) = r /\ ~Head(a.regular)
    <3> DEFINE f == Front(u.regular)
               x == f \o <<r[c]>>
               y == Tail(a.regular)
    <3>1. /\ c \in Nat /\ c <= n - 1 /\ c - 1 \in Nat /\ n - c > 0 /\ (c - 1) + 1 = c
          /\ (n - c) - 1 = n - 1 - c /\ c \in 1 .. n - 1
      BY <1>1, <1>3
    <3>2. r[c] \in BOOLEAN
      <4> HIDE DEF r
      <4> QED BY <1>1, <3>1, ElementOfSeq
    <3>3. f \in Seq(BOOLEAN) /\ Len(f) = c - 1 /\ \A i \in 1 .. c - 1 : f[i] = r[i]
      BY <2>4, <3>1 DEF Front
    <3>4. /\ y \in Seq(BOOLEAN) /\ Len(y) = n - 1 - c /\ Head(a.regular) = FALSE
          /\ \A i \in 1 .. n - 1 - c : y[i] = r[c + i]
      <4>1. a.regular # <<>> /\ Head(a.regular) = a.regular[1]
        BY <2>5, <3>1
      <4>2. y \in Seq(BOOLEAN) /\ Len(y) = n - 1 - c
            /\ \A i \in 1 .. n - 1 - c : y[i] = a.regular[i + 1]
        <5> DEFINE q == a.regular
        <5>1. q \in Seq(BOOLEAN) /\ q # <<>> /\ Len(q) = n - c
          BY <2>5, <4>1
        <5> HIDE DEF q
        <5>2. y = Tail(q)
          BY DEF q
        <5> HIDE DEF y
        <5>3. /\ y \in Seq(BOOLEAN) /\ Len(y) = Len(q) - 1
              /\ \A i \in 1 .. Len(y) : y[i] = q[i + 1]
          BY <5>1, <5>2, HeadTailProperties, Zenon
        <5> HIDE DEF n
        <5>4. Len(y) = n - 1 - c
          BY <3>1, <5>1, <5>3
        <5> QED BY <5>3, <5>4 DEF q
      <4> QED BY <2>5, <4>1, <4>2
    <3> HIDE DEF f, y
    <3>5. x \in Seq(BOOLEAN) /\ Len(x) = c /\ \A i \in 1 .. c : x[i] = r[i]
      <4>1. x = Append(f, r[c])
        BY <3>2, <3>3, AppendIsConcat
      <4>2. /\ x \in Seq(BOOLEAN) /\ Len(x) = (c - 1) + 1
            /\ \A i \in 1 .. c - 1 : x[i] = f[i]
            /\ x[(c - 1) + 1] = r[c]
        <5> HIDE DEF x, r
        <5> QED BY <3>2, <3>3, <4>1, AppendProperties
      <4> HIDE DEF x
      <4>3. ASSUME NEW i \in 1 .. c PROVE x[i] = r[i]
        <5>1. CASE i = c
          BY <3>1, <4>2, <5>1
        <5>2. CASE i # c
          <6>1. i \in 1 .. c - 1
            BY <3>1, <5>2
          <6> QED BY <3>3, <4>2, <6>1
        <5> QED BY <5>1, <5>2
      <4> QED BY <3>1, <4>2, <4>3
    <3> HIDE DEF x
    <3>6. x \o y = r
      <4>1. Len(y) = Len(r) - c /\ c <= Len(r) /\ \A i \in 1 .. Len(r) - c : y[i] = r[c + i]
        BY <1>1, <3>1, <3>4
      <4>2. x \in Seq(BOOLEAN) /\ y \in Seq(BOOLEAN) /\ r \in Seq(BOOLEAN)
        BY <1>1, <3>4, <3>5
      <4> HIDE DEF r
      <4> QED BY <3>1, <3>5, <4>1, <4>2, Glued, ZenonT(60)
    <3> QED BY <3>4, <3>6 DEF x, y, f
  <2>12. Halves(s, t)
    <3>1. IF t \in Range(d)
          THEN u.regular \o SubSeq(a.regular, Occurrences(s, t), Len(a.regular)) = r
          ELSE /\ Front(u.regular) \o <<r[c]>> \o Tail(a.regular) = r
               /\ ~Last(u.regular) /\ ~Head(a.regular)
      BY <2>7, <2>9, <2>11
    <3> QED BY <1>5, <2>3, <2>6, <2>7, <2>10, <3>1, Zenon DEF Halves, u, a
  <2>13. NonDecreasing(u.dates)
    <3>0. Len(u.dates) = c + 1
      BY <2>2
    <3>1. ASSUME NEW i \in 1 .. Len(u.dates) - 1 PROVE u.dates[i] <= u.dates[i + 1]
      <4>1. i \in 1 .. c /\ i \in 1 .. n /\ i <= c
        <5>1. i \in 1 .. (c + 1) - 1
          BY <3>0
        <5> HIDE DEF n
        <5> QED BY <1>1, <1>3, <5>1
      <4>2. u.dates[i] = d[i] /\ d[i] \in Int
        BY <1>1, <2>2, <4>1
      <4>3. CASE i = c
        <5>1. d[i] < t
          BY <1>2, <4>1 DEF CutAt
        <5> QED BY <2>2, <4>2, <4>3, <5>1
      <4>4. CASE i # c
        <5>1. i + 1 \in 1 .. c /\ i + 1 \in 1 .. n /\ i <= i + 1
          <6> HIDE DEF n
          <6> QED BY <1>1, <1>3, <4>1, <4>4
        <5>2. u.dates[i + 1] = d[i + 1]
          BY <2>2, <5>1
        <5> QED BY <1>4, <4>1, <4>2, <5>1, <5>2
      <4> QED BY <4>3, <4>4
    <3> QED BY <3>1 DEF NonDecreasing
  <2>14. NonDecreasing(a.dates)
    <3>0. Len(a.dates) = n - c + 1
      BY <2>3
    <3>1. ASSUME NEW i \in 1 .. Len(a.dates) - 1 PROVE a.dates[i] <= a.dates[i + 1]
      <4>1. i \in 1 .. n - c /\ c + i \in 1 .. n /\ i \in Nat
        <5>1. i \in 1 .. (n - c + 1) - 1
          BY <3>0
        <5> HIDE DEF n
        <5> QED BY <1>1, <1>3, <5>1
      <4>2. a.dates[i + 1] = d[c + i]
        BY <2>3, <4>1
      <4>3. CASE i = 1
        <5>1. c + 1 \in m + 1 .. n
          BY <1>1, <1>3, <1>7
        <5>2. t < d[c + 1] /\ d[c + 1] \in Int
          BY <1>1, <1>2, <1>3, <5>1 DEF CutAt
        <5> QED BY <2>3, <4>2, <4>3, <5>2
      <4>4. CASE i # 1
        <5>1. /\ i - 1 \in 1 .. n - c /\ (i - 1) + 1 = i /\ c + (i - 1) \in 1 .. n
              /\ c + (i - 1) <= c + i
          <6> HIDE DEF n
          <6> QED BY <1>1, <1>3, <4>1, <4>4
        <5>2. a.dates[i] = d[c + (i - 1)]
          BY <2>3, <5>1
        <5> QED BY <1>4, <4>1, <4>2, <5>1, <5>2
      <4> QED BY <4>3, <4>4
    <3> QED BY <3>1 DEF NonDecreasing
  <2>15. Flagged(u) /\ Flagged(a)
    <3>1. Len(u.dates) > 0 /\ Len(a.dates) > 0
      <4>1. Len(u.dates) = c + 1 /\ Len(a.dates) = n - c + 1
        BY <2>2, <2>3
      <4> HIDE DEF n
      <4> QED BY <1>1, <1>3, <4>1
    <3> QED BY <2>2, <2>3, <2>4, <2>5, <2>6, <3>1, CutsAreSchedules DEF u, a
  <2> QED BY <2>12, <2>13, <2>14, <2>15 DEF u, a, Cuttable
<1> QED BY <1>6, <1>7

-----------------------------------------------------------------------------
(* Generation *)

\* What a generation has found: a flag for each period between two dates.
Matched(g) ==
  \E S : \E ds \in Seq(S), rs \in Seq(BOOLEAN) :
    g = [dates |-> ds, regular |-> rs] /\ Len(ds) = Len(rs) + 1

LEMMA MatchedWhen ==
  ASSUME NEW S, NEW ds \in Seq(S), NEW rs \in Seq(BOOLEAN), Len(ds) = Len(rs) + 1
  PROVE  Matched([dates |-> ds, regular |-> rs])
BY DEF Matched

LEMMA MatchedIs ==
  ASSUME NEW g, Matched(g)
  PROVE  /\ g = [dates |-> g.dates, regular |-> g.regular]
         /\ \E S : g.dates \in Seq(S)
         /\ g.regular \in Seq(BOOLEAN)
         /\ Len(g.regular) \in Nat /\ Len(g.dates) = Len(g.regular) + 1
         /\ DOMAIN g.regular = 1 .. Len(g.regular)
<1>1. PICK S : \E ds \in Seq(S), rs \in Seq(BOOLEAN) :
        g = [dates |-> ds, regular |-> rs] /\ Len(ds) = Len(rs) + 1
  BY DEF Matched
<1>2. PICK ds \in Seq(S), rs \in Seq(BOOLEAN) :
        g = [dates |-> ds, regular |-> rs] /\ Len(ds) = Len(rs) + 1
  BY <1>1
<1>3. Len(rs) \in Nat /\ DOMAIN rs = 1 .. Len(rs)
  BY LenProperties
<1> QED BY <1>2, <1>3

\* h continues what g has found.
Continues(h, g) == Matched(h) /\ h.dates[1] = g.dates[1]

\* A first date has no period.
LEMMA OneDateMatches == ASSUME NEW d PROVE Matched([dates |-> <<d>>, regular |-> <<>>])
<1> DEFINE ds == <<d>>
           rs == <<>>
<1>1. ds \in Seq({d}) /\ Len(ds) = 1
  OBVIOUS
<1>2. rs \in Seq(BOOLEAN) /\ Len(rs) = 0
  BY EmptySeq
<1> HIDE DEF ds, rs
<1>3. Len(ds) = Len(rs) + 1
  BY <1>1, <1>2
<1>4. Matched([dates |-> ds, regular |-> rs])
  BY <1>1, <1>2, <1>3, MatchedWhen
<1> QED BY <1>4 DEF ds, rs

\* A date that is pushed comes with the flag of its period.
LEMMA PushContinues ==
  ASSUME NEW g, Matched(g), NEW d, NEW flag \in BOOLEAN
  PROVE  Continues(Push(g, d, flag), g) /\ Last(Push(g, d, flag).dates) = d
<1>1. PICK S : \E ds \in Seq(S), rs \in Seq(BOOLEAN) :
        g = [dates |-> ds, regular |-> rs] /\ Len(ds) = Len(rs) + 1
  BY DEF Matched
<1>2. PICK ds \in Seq(S), rs \in Seq(BOOLEAN) :
        g = [dates |-> ds, regular |-> rs] /\ Len(ds) = Len(rs) + 1
  BY <1>1
<1> DEFINE T == S \cup {d}
           es == Append(ds, d)
           qs == Append(rs, flag)
<1>3. /\ es \in Seq(T) /\ Len(es) = Len(ds) + 1
      /\ es[1] = ds[1] /\ Last(es) = d
  <2>1. ds \in Seq(T) /\ d \in T
    BY SeqMonotonic
  <2> HIDE DEF T
  <2>2. /\ es \in Seq(T) /\ Len(es) = Len(ds) + 1 /\ es[Len(ds) + 1] = d
        /\ \A i \in 1 .. Len(ds) : es[i] = ds[i]
    BY <2>1, AppendProperties
  <2>3. 1 \in 1 .. Len(ds)
    <3>1. Len(rs) \in Nat
      BY LenProperties
    <3> QED BY <1>2, <3>1
  <2> QED BY <2>2, <2>3 DEF Last
<1>4. qs \in Seq(BOOLEAN) /\ Len(qs) = Len(rs) + 1
  BY AppendProperties
<1>5. Push(g, d, flag) = [dates |-> es, regular |-> qs]
  BY <1>2 DEF Push
<1>6. Len(es) = Len(qs) + 1
  BY <1>2, <1>3, <1>4
<1> HIDE DEF es, qs, T
<1>7. Matched([dates |-> es, regular |-> qs])
  BY <1>3, <1>4, <1>6, MatchedWhen
<1> QED BY <1>2, <1>3, <1>5, <1>7 DEF Continues

LEMMA PushDistinctContinues ==
  ASSUME NEW g, Matched(g), NEW d, NEW flag \in BOOLEAN, NEW c
  PROVE  /\ Continues(PushDistinct(g, d, flag, c), g)
         /\ adjust(Last(PushDistinct(g, d, flag, c).dates), c) = adjust(d, c)
BY PushContinues DEF PushDistinct, Continues

LEMMA PushLastContinues ==
  ASSUME NEW a, NEW g, Matched(g), NEW sign, NEW d
  PROVE  /\ Continues(PushLast(a, g, sign, d), g)
         /\ adjust(Last(PushLast(a, g, sign, d).dates), a.convention) = adjust(d, a.convention)
<1> DEFINE flag == Step(a, Last(g.dates), sign) = d
<1>1. flag \in BOOLEAN
  OBVIOUS
<1>2. PushLast(a, g, sign, d) = PushDistinct(g, d, flag, a.convention)
  BY DEF PushLast
<1> HIDE DEF flag
<1> QED BY <1>1, <1>2, PushDistinctContinues

LEMMA PushStubContinues ==
  ASSUME NEW a, NEW g, Matched(g), NEW stub, NEW sign
  PROVE  Continues(PushStub(a, g, stub, sign), g)
<1> DEFINE flag == Step(a, Last(g.dates), sign) = stub
<1>1. flag \in BOOLEAN
  OBVIOUS
<1>2. PushStub(a, g, stub, sign) = IF stub = NullDate THEN g ELSE Push(g, stub, flag)
  BY DEF PushStub
<1> HIDE DEF flag
<1> QED BY <1>1, <1>2, PushContinues DEF Continues

LEMMA PushTwentiethContinues ==
  ASSUME NEW a, NEW g, Matched(g)
  PROVE  Continues(PushTwentieth(a, g), g)
<1> DEFINE flag == a.rule \in {CDS, CDS2015}
           t == next_twentieth(a.effective, a.rule)
           next == IF a.rule = OldCDS /\ t - a.effective < 30
                   THEN next_twentieth(t + 1, a.rule) ELSE t
<1>1. flag \in BOOLEAN
  OBVIOUS
<1>2. PushTwentieth(a, g) = IF a.rule \in OnTheTwentieth /\ next # a.effective
                            THEN Push(g, next, flag) ELSE g
  BY DEF PushTwentieth
<1> HIDE DEF flag, next
<1> QED BY <1>1, <1>2, PushContinues DEF Continues

\* Where a schedule that is generated forward ends: at the termination or, on the
\* twentieths, at the next of them, unless it already rolls onto the termination.
EndsAtTermination(a, d) ==
  \/ adjust(d, a.terminationConvention) = adjust(a.termination, a.terminationConvention)
  \/ a.rule \in OnTheTwentieth /\ d = next_twentieth(a.termination, a.rule)

LEMMA PushTerminationContinues ==
  ASSUME NEW a, NEW g, Matched(g)
  PROVE  /\ Continues(PushTermination(a, g), g)
         /\ EndsAtTermination(a, Last(PushTermination(a, g).dates))
BY PushContinues DEF PushTermination, Continues, EndsAtTermination

LEMMA ForwardStartMatches == ASSUME NEW a PROVE Matched(ForwardStart(a))
<1> DEFINE t == previous_twentieth(a.effective, a.rule)
           e == advance(t, -3, Months)
<1>1. ForwardStart(a) \in {[dates |-> <<a.effective>>, regular |-> <<>>],
                           [dates |-> <<e, t>>, regular |-> <<TRUE>>],
                           [dates |-> <<t>>, regular |-> <<>>]}
  BY DEF ForwardStart
<1> HIDE DEF t, e
<1>2. Matched([dates |-> <<e, t>>, regular |-> <<TRUE>>])
  <2> DEFINE ds == <<e, t>>
             rs == <<TRUE>>
  <2>1. ds \in Seq({e, t}) /\ Len(ds) = 2
    OBVIOUS
  <2>2. rs \in Seq(BOOLEAN) /\ Len(rs) = 1
    OBVIOUS
  <2> HIDE DEF ds, rs
  <2>3. Len(ds) = Len(rs) + 1
    BY <2>1, <2>2
  <2>4. Matched([dates |-> ds, regular |-> rs])
    BY <2>1, <2>2, <2>3, MatchedWhen
  <2> QED BY <2>4 DEF ds, rs
<1> QED BY <1>1, <1>2, OneDateMatches

\* The dates found after each of n tenors.
Finds(f, a, g, date, n) ==
  f = [k \in 0 .. n |-> IF k = 0 THEN g ELSE PushDistinct(f[k - 1], date[k], TRUE, a.convention)]

\* The loop is a function, and keeps what is found matched.
LEMMA FindsExists ==
  ASSUME NEW a, NEW g, NEW date, NEW N \in Nat
  PROVE  \E f : Finds(f, a, g, date, N)
<1> DEFINE T == {m \in 0 .. N : \E f : Finds(f, a, g, date, m)}
           next(x, k) == PushDistinct(x, date[k], TRUE, a.convention)
<1>0. ASSUME NEW f, NEW m
      PROVE  Finds(f, a, g, date, m)
               <=> f = [k \in 0 .. m |-> IF k = 0 THEN g ELSE next(f[k - 1], k)]
  BY DEF Finds
<1> HIDE DEF next
<1>1. 0 \in T
  <2> DEFINE f == [k \in 0 .. 0 |-> g]
  <2>1. f = [k \in 0 .. 0 |-> IF k = 0 THEN g ELSE next(f[k - 1], k)]
    OBVIOUS
  <2> HIDE DEF f
  <2>2. Finds(f, a, g, date, 0)
    BY <1>0, <2>1
  <2> QED BY <2>2
<1>2. ASSUME NEW m \in 0 .. N - 1, m \in T PROVE m + 1 \in T
  <2>1. PICK f : Finds(f, a, g, date, m)
    BY <1>2
  <2> DEFINE h == [k \in 0 .. m + 1 |-> IF k = m + 1 THEN next(f[m], m + 1) ELSE f[k]]
  <2>0. f = [k \in 0 .. m |-> IF k = 0 THEN g ELSE next(f[k - 1], k)]
    BY <1>0, <2>1
  <2>2. ASSUME NEW k \in 0 .. m + 1
        PROVE  h[k] = IF k = 0 THEN g ELSE next(h[k - 1], k)
    <3>1. CASE k = m + 1
      <4>1. k # 0 /\ k - 1 = m /\ m \in 0 .. m + 1 /\ m # m + 1
        BY <3>1
      <4>2. h[m] = f[m]
        BY <4>1
      <4> QED BY <3>1, <4>1, <4>2
    <3>2. CASE k # m + 1
      <4>1. k \in 0 .. m
        BY <3>2
      <4>2. f[k] = IF k = 0 THEN g ELSE next(f[k - 1], k)
        BY <2>0, <4>1
      <4>3. h[k] = f[k]
        BY <3>2
      <4>4. ASSUME k # 0 PROVE h[k - 1] = f[k - 1]
        <5>1. k - 1 \in 0 .. m + 1 /\ k - 1 # m + 1
          BY <4>1, <4>4
        <5> QED BY <5>1
      <4> QED BY <4>2, <4>3, <4>4
    <3> QED BY <3>1, <3>2
  <2>3. h = [k \in 0 .. m + 1 |-> IF k = 0 THEN g ELSE next(h[k - 1], k)]
    <3>1. h = [k \in 0 .. m + 1 |-> h[k]]
      OBVIOUS
    <3> HIDE DEF h
    <3> QED BY <2>2, <3>1
  <2>4. m + 1 \in 0 .. N
    OBVIOUS
  <2> HIDE DEF h
  <2>5. Finds(h, a, g, date, m + 1)
    BY <1>0, <2>3
  <2> QED BY <2>4, <2>5
<1> HIDE DEF T
<1>3. N \in T
  <2>1. \A k \in 0 .. N : k \in T
    BY <1>1, <1>2, StepByStep
  <2> QED BY <2>1
<1> QED BY <1>3 DEF T

LEMMA FindsContinue ==
  ASSUME NEW a, NEW g, Matched(g), NEW date, NEW N \in Nat, NEW f, Finds(f, a, g, date, N)
  PROVE  Continues(f[N], g)
<1> DEFINE T == {m \in 0 .. N : Continues(f[m], g)}
           next(x, k) == PushDistinct(x, date[k], TRUE, a.convention)
<1>1. f = [k \in 0 .. N |-> IF k = 0 THEN g ELSE next(f[k - 1], k)]
  BY DEF Finds
<1>2. ASSUME NEW x, Continues(x, g), NEW k PROVE Continues(next(x, k), g)
  <2> DEFINE y == PushDistinct(x, date[k], TRUE, a.convention)
  <2>1. Matched(x) /\ TRUE \in BOOLEAN
    BY <1>2 DEF Continues
  <2>2. Continues(y, x)
    BY <2>1, PushDistinctContinues
  <2>3. next(x, k) = y
    OBVIOUS
  <2> HIDE DEF y, next
  <2> QED BY <1>2, <2>2, <2>3 DEF Continues
<1> HIDE DEF next
<1>3. 0 \in T
  <2>1. 0 \in 0 .. N
    OBVIOUS
  <2>2. f[0] = g
    BY <1>1, <2>1
  <2> QED BY <2>1, <2>2 DEF Continues
<1>4. ASSUME NEW m \in 0 .. N - 1, m \in T PROVE m + 1 \in T
  <2>1. m + 1 \in 0 .. N /\ m + 1 # 0 /\ (m + 1) - 1 = m
    OBVIOUS
  <2>2. f[m + 1] = next(f[m], m + 1)
    BY <1>1, <2>1
  <2> QED BY <1>2, <1>4, <2>1, <2>2
<1> HIDE DEF T
<1>5. \A k \in 0 .. N : k \in T
  BY <1>3, <1>4, StepByStep
<1>6. N \in 0 .. N
  OBVIOUS
<1> QED BY <1>5, <1>6 DEF T

\* Generation goes through a number of periods.
LEMMA PeriodsAre ==
  ASSUME NEW B, NEW N \in Nat
  PROVE  \E k \in 0 .. N : (k = N \/ k + 1 \in B) /\ (k = 0 \/ k \notin B)
<1> DEFINE T == {k \in 0 .. N : k = 0 \/ k \notin B}
<1>1. CASE \A k \in 0 .. N - 1 : k \in T => k + 1 \in T
  <2>1. 0 \in T
    OBVIOUS
  <2> HIDE DEF T
  <2>2. \A k \in 0 .. N : k \in T
    BY <1>1, <2>1, StepByStep
  <2>3. N \in 0 .. N
    OBVIOUS
  <2> QED BY <2>2, <2>3 DEF T
<1>2. CASE ~(\A k \in 0 .. N - 1 : k \in T => k + 1 \in T)
  <2>1. PICK k \in 0 .. N - 1 : k \in T /\ k + 1 \notin T
    BY <1>2
  <2>2. k \in 0 .. N /\ k + 1 \in 0 .. N /\ k + 1 # 0
    OBVIOUS
  <2>3. k + 1 \in B
    BY <2>1, <2>2
  <2> QED BY <2>1, <2>2, <2>3
<1> QED BY <1>1, <1>2

\* The tenors counted from a seed, up to the one numbered periods.
TenorDates(a, seed, sign, periods) == [k \in 0 .. periods |-> Step(a, seed, sign * k)]

\* The loop over the tenors: how many it goes through, and what it finds.
LEMMA RollTenorsAre ==
  ASSUME NEW a, NEW g, NEW seed, NEW sign, NEW exit
  PROVE  \E N, f :
           /\ N \in Nat
           /\ Finds(f, a, g, TenorDates(a, seed, sign, N), N)
           /\ N = 0 \/ ~(sign * (Step(a, seed, sign * N) - exit) > 0)
           /\ RollTenors(a, g, seed, sign, exit) = f[N]
<1> DEFINE date(k) == Step(a, seed, sign * k)
           beyond(k) == sign * (date(k) - exit) > 0
           B == {k \in 1 .. MaxPeriods : beyond(k)}
           lastOne(k) == k = MaxPeriods \/ beyond(k + 1)
           periods == CHOOSE k \in 0 .. MaxPeriods : lastOne(k) /\ (k = 0 \/ ~beyond(k))
<1>1. periods \in 0 .. MaxPeriods /\ (periods = 0 \/ ~beyond(periods))
  <2>0. MaxPeriods \in Nat
    BY MaxPeriodsAssumption
  <2>1. PICK k \in 0 .. MaxPeriods : (k = MaxPeriods \/ k + 1 \in B) /\ (k = 0 \/ k \notin B)
    BY <2>0, PeriodsAre
  <2> HIDE DEF beyond
  <2>2. lastOne(k) /\ (k = 0 \/ ~beyond(k))
    <3>1. k = 0 \/ k \in 1 .. MaxPeriods
      BY <2>0
    <3> QED BY <2>1, <3>1
  <2> HIDE DEF lastOne
  <2> QED BY <2>2
<1> DEFINE found == CHOOSE f : f = [k \in 0 .. periods |->
                      IF k = 0 THEN g ELSE PushDistinct(f[k - 1], date(k), TRUE, a.convention)]
<1>2. RollTenors(a, g, seed, sign, exit) = found[periods]
  BY DEF RollTenors
<1> HIDE DEF periods
<1>3. periods \in Nat
  BY <1>1
<1> DEFINE dates == [k \in 0 .. periods |-> date(k)]
           Is(f) == f = [k \in 0 .. periods |->
                      IF k = 0 THEN g ELSE PushDistinct(f[k - 1], date(k), TRUE, a.convention)]
<1>4. ASSUME NEW f PROVE Is(f) <=> Finds(f, a, g, dates, periods)
  BY DEF Finds
<1> HIDE DEF dates
<1>5. \E f : Is(f)
  BY <1>3, <1>4, FindsExists
<1>6. found = CHOOSE f : Is(f)
  OBVIOUS
<1> HIDE DEF Is, found
<1>7. Is(found)
  BY <1>5, <1>6
<1>8. Finds(found, a, g, dates, periods)
  BY <1>4, <1>7
<1> QED BY <1>1, <1>2, <1>3, <1>8 DEF dates, TenorDates

LEMMA RollTenorsContinues ==
  ASSUME NEW a, NEW g, Matched(g), NEW seed, NEW sign, NEW exit
  PROVE  Continues(RollTenors(a, g, seed, sign, exit), g)
<1>1. PICK N, f : /\ N \in Nat
                  /\ Finds(f, a, g, TenorDates(a, seed, sign, N), N)
                  /\ RollTenors(a, g, seed, sign, exit) = f[N]
  BY RollTenorsAre
<1> QED BY <1>1, FindsContinue

LEMMA RollContinues ==
  ASSUME NEW a, NEW g, Matched(g), NEW sign, NEW end, NEW stub
  PROVE  Continues(Roll(a, g, sign, end, stub), g)
<1> DEFINE exit == IF stub # NullDate THEN stub ELSE end
           all == RollTenors(a, g, Last(g.dates), sign, exit)
<1>1. Continues(all, g)
  BY RollTenorsContinues
<1>2. Roll(a, g, sign, end, stub) = IF stub = NullDate THEN all ELSE PushLast(a, all, sign, stub)
  BY DEF Roll
<1> HIDE DEF all
<1>3. Matched(all)
  BY <1>1 DEF Continues
<1>4. Continues(PushLast(a, all, sign, stub), all)
  BY <1>3, PushLastContinues
<1> QED BY <1>1, <1>2, <1>4 DEF Continues

\* What was generated, which keeps its seed.
WithSeed(g) ==
  \E m, seed : Matched(m) /\ g = [dates |-> m.dates, regular |-> m.regular, seed |-> seed]

\* Found from the end, the dates and their flags are turned round alike.
LEMMA ReversedMatches ==
  ASSUME NEW g, Matched(g), NEW seed
  PROVE  /\ WithSeed(Reversed(g, seed))
         /\ Reversed(g, seed).dates[1] = Last(g.dates)
         /\ Last(Reversed(g, seed).dates) = g.dates[1]
<1>1. PICK S : \E ds \in Seq(S), rs \in Seq(BOOLEAN) :
        g = [dates |-> ds, regular |-> rs] /\ Len(ds) = Len(rs) + 1
  BY DEF Matched
<1>2. PICK ds \in Seq(S), rs \in Seq(BOOLEAN) :
        g = [dates |-> ds, regular |-> rs] /\ Len(ds) = Len(rs) + 1
  BY <1>1
<1>3. ASSUME NEW T, NEW s \in Seq(T)
      PROVE  /\ Reverse(s) \in Seq(T) /\ Len(Reverse(s)) = Len(s)
             /\ Len(s) > 0 => Reverse(s)[1] = Last(s) /\ Last(Reverse(s)) = s[1]
  <2> DEFINE n == Len(s)
  <2>1. n \in Nat /\ \A i \in 1 .. n : s[i] \in T
    BY <1>3, LenProperties, ElementOfSeq
  <2>2. Reverse(s) = [i \in 1 .. n |-> s[(n - i) + 1]]
    BY DEF Reverse
  <2> HIDE DEF n
  <2>3. \A i \in 1 .. n : s[(n - i) + 1] \in T
    <3> SUFFICES ASSUME NEW i \in 1 .. n PROVE s[(n - i) + 1] \in T
      OBVIOUS
    <3>1. (n - i) + 1 \in 1 .. n
      BY <2>1
    <3> QED BY <2>1, <3>1
  <2>4. Reverse(s) \in [1 .. n -> T]
    BY <2>2, <2>3
  <2>5. Reverse(s) \in Seq(T) /\ Len(Reverse(s)) = n
    BY <2>1, <2>4
  <2>6. ASSUME n > 0 PROVE Reverse(s)[1] = s[n] /\ Reverse(s)[n] = s[1]
    <3>1. 1 \in 1 .. n /\ n \in 1 .. n /\ (n - 1) + 1 = n /\ (n - n) + 1 = 1
      BY <2>1, <2>6
    <3> QED BY <2>2, <3>1
  <2> QED BY <2>5, <2>6 DEF n, Last
<1> DEFINE es == Reverse(ds)
           qs == Reverse(rs)
           m == [dates |-> es, regular |-> qs]
<1>4. /\ es \in Seq(S) /\ Len(es) = Len(ds) /\ qs \in Seq(BOOLEAN) /\ Len(qs) = Len(rs)
      /\ es[1] = Last(ds) /\ Last(es) = ds[1]
  <2>1. Len(ds) > 0
    <3>1. Len(rs) \in Nat
      BY LenProperties
    <3> QED BY <1>2, <3>1
  <2> QED BY <1>3, <2>1
<1>5. Reversed(g, seed) = [dates |-> m.dates, regular |-> m.regular, seed |-> seed]
  BY <1>2 DEF Reversed
<1> HIDE DEF es, qs
<1>6. Matched(m)
  BY <1>2, <1>4, MatchedWhen
<1>7. m.dates = es
  OBVIOUS
<1> HIDE DEF m
<1>8. Reversed(g, seed).dates = es /\ g.dates = ds
  BY <1>2, <1>5, <1>7
<1>9. WithSeed(Reversed(g, seed))
  BY <1>5, <1>6 DEF WithSeed
<1> QED BY <1>4, <1>8, <1>9

\* Where the dates found start and end.
StartsAndEnds(a, s) ==
  /\ a.rule \in {Zero, Backward} => /\ adjust(s[1], a.convention) = adjust(a.effective, a.convention)
                                    /\ Last(s) = a.termination
  /\ a.rule \notin {Zero, Backward} => /\ s[1] = ForwardStart(a).dates[1]
                                       /\ EndsAtTermination(a, Last(s))

\* Every rule generates dates with a flag for each period.
LEMMA GenerateMatches ==
  ASSUME NEW a
  PROVE  WithSeed(Generate(a)) /\ StartsAndEnds(a, Generate(a).dates)
<1>1. CASE a.rule = Zero
  <2> DEFINE ds == <<a.effective, a.termination>>
             rs == <<TRUE>>
             m == [dates |-> ds, regular |-> rs]
  <2>1. /\ ds \in Seq({a.effective, a.termination}) /\ Len(ds) = 2
        /\ ds[1] = a.effective /\ ds[2] = a.termination
    OBVIOUS
  <2>2. rs \in Seq(BOOLEAN) /\ Len(rs) = 1
    OBVIOUS
  <2>3. Generate(a) = [dates |-> ds, regular |-> rs, seed |-> NullDate]
    BY <1>1 DEF Generate, Zero, Backward
  <2> HIDE DEF ds, rs
  <2>4. Len(ds) = Len(rs) + 1
    BY <2>1, <2>2
  <2>5. Matched(m)
    BY <2>1, <2>2, <2>4, MatchedWhen
  <2>6. m.dates = ds /\ m.regular = rs
    OBVIOUS
  <2> HIDE DEF m
  <2>7. WithSeed(Generate(a))
    BY <2>3, <2>5, <2>6 DEF WithSeed
  <2>8. StartsAndEnds(a, ds)
    BY <1>1, <2>1 DEF StartsAndEnds, Last
  <2> QED BY <2>3, <2>7, <2>8
<1>2. CASE a.rule = Backward
  <2> DEFINE seeded == [dates |-> <<a.termination>>, regular |-> <<>>]
             stubbed == PushStub(a, seeded, a.nextToLast, -1)
             all == Roll(a, stubbed, -1, a.effective, a.first)
             g == PushLast(a, all, -1, a.effective)
  <2>1. Generate(a) = Reversed(g, Last(stubbed.dates))
    BY <1>2 DEF Generate, GenerateBackward, BackwardFrom, Zero, Backward
  <2>2. Matched(seeded) /\ seeded.dates[1] = a.termination
    BY OneDateMatches
  <2> HIDE DEF seeded
  <2>3. Matched(stubbed) /\ stubbed.dates[1] = a.termination
    BY <2>2, PushStubContinues DEF Continues
  <2> HIDE DEF stubbed
  <2>4. Matched(all) /\ all.dates[1] = a.termination
    BY <2>3, RollContinues DEF Continues
  <2> HIDE DEF all
  <2>5. /\ Matched(g) /\ g.dates[1] = a.termination
        /\ adjust(Last(g.dates), a.convention) = adjust(a.effective, a.convention)
    BY <2>4, PushLastContinues DEF Continues
  <2> HIDE DEF g
  <2>6. /\ WithSeed(Generate(a))
        /\ Generate(a).dates[1] = Last(g.dates)
        /\ Last(Generate(a).dates) = a.termination
    BY <2>1, <2>5, ReversedMatches
  <2> QED BY <1>2, <2>5, <2>6 DEF StartsAndEnds
<1>3. CASE a.rule \notin {Zero, Backward}
  <2> DEFINE seeded == ForwardStart(a)
             stubbed == IF a.first # NullDate THEN PushStub(a, seeded, a.first, 1)
                                              ELSE PushTwentieth(a, seeded)
             all == Roll(a, stubbed, 1, a.termination, a.nextToLast)
             g == PushTermination(a, all)
             seed == Last(stubbed.dates)
  <2>1. Generate(a) = [dates |-> g.dates, regular |-> g.regular, seed |-> seed]
    BY <1>3 DEF Generate, GenerateForward, ForwardFrom
  <2> DEFINE d == ForwardStart(a).dates[1]
  <2>2. Matched(seeded) /\ seeded.dates[1] = d
    BY ForwardStartMatches
  <2> HIDE DEF seeded, d
  <2>3. Matched(stubbed) /\ stubbed.dates[1] = d
    BY <2>2, PushStubContinues, PushTwentiethContinues DEF Continues
  <2> HIDE DEF stubbed
  <2>4. Matched(all) /\ all.dates[1] = d
    BY <2>3, RollContinues DEF Continues
  <2> HIDE DEF all
  <2>5. Matched(g) /\ g.dates[1] = d /\ EndsAtTermination(a, Last(g.dates))
    BY <2>4, PushTerminationContinues DEF Continues
  <2> HIDE DEF g, seed
  <2>6. WithSeed(Generate(a))
    BY <2>1, <2>5 DEF WithSeed
  <2>7. Generate(a).dates = g.dates
    BY <2>1
  <2> QED BY <1>3, <2>5, <2>6, <2>7 DEF StartsAndEnds, d
<1> QED BY <1>1, <1>2, <1>3

\* Rolling moves dates and leaves none out.
RolledEnds(a, s, t) ==
  /\ Len(t) = Len(s)
  /\ Len(t) > 1 /\ a.rule # ThirdWednesdayInclusive =>
       /\ t[1] = IF a.rule = OldCDS THEN s[1] ELSE adjust(s[1], a.convention)
       /\ Last(t) = IF a.rule \in {CDS, CDS2015} THEN Last(s)
                    ELSE adjust(Last(s), a.terminationConvention)

LEMMA RolledMatches ==
  ASSUME NEW a, NEW g, WithSeed(g)
  PROVE  Matched(Rolled(a, g)) /\ RolledEnds(a, g.dates, Rolled(a, g).dates)
<1>1. PICK m, seed : Matched(m) /\ g = [dates |-> m.dates, regular |-> m.regular, seed |-> seed]
  BY DEF WithSeed
<1>2. PICK S : \E ds \in Seq(S), rs \in Seq(BOOLEAN) :
        m = [dates |-> ds, regular |-> rs] /\ Len(ds) = Len(rs) + 1
  BY <1>1 DEF Matched
<1>3. PICK ds \in Seq(S), rs \in Seq(BOOLEAN) :
        m = [dates |-> ds, regular |-> rs] /\ Len(ds) = Len(rs) + 1
  BY <1>2
<1> DEFINE es == OnThirdWednesdays(a, ds)
           fs == AdjustDates(a, g.seed, es)
<1>4. ASSUME NEW s, NEW n \in Nat, NEW T, s \in [1 .. n -> T]
      PROVE  s \in Seq(T) /\ Len(s) = n
  BY <1>4
<1>5. DOMAIN ds = 1 .. Len(ds) /\ Len(ds) \in Nat
  BY LenProperties
<1>6. \E T : es \in [1 .. Len(ds) -> T]
  <2>1. \E e : es = [i \in 1 .. Len(ds) |-> e[i]]
    <3>1. DOMAIN es = 1 .. Len(ds)
      BY <1>5 DEF OnThirdWednesdays
    <3>2. es = [i \in 1 .. Len(ds) |-> es[i]]
      BY <3>1 DEF OnThirdWednesdays
    <3> HIDE DEF es
    <3> QED BY <3>2
  <2> HIDE DEF es
  <2>2. PICK e : es = [i \in 1 .. Len(ds) |-> e[i]]
    BY <2>1
  <2>3. es \in [1 .. Len(ds) -> {e[i] : i \in 1 .. Len(ds)}]
    BY <2>2
  <2> QED BY <2>3
<1>14. ASSUME Len(ds) > 1, a.rule # ThirdWednesdayInclusive
       PROVE  es[1] = ds[1] /\ es[Len(ds)] = ds[Len(ds)]
  <2>1. 1 \in DOMAIN ds /\ Len(ds) \in DOMAIN ds /\ 1 \notin Interior(ds) /\ Len(ds) \notin Interior(ds)
    BY <1>5, <1>14 DEF Interior
  <2> QED BY <1>14, <2>1 DEF OnThirdWednesdays
<1> HIDE DEF es
<1>7. PICK T : es \in [1 .. Len(ds) -> T]
  BY <1>6
<1>8. DOMAIN es = 1 .. Len(ds)
  BY <1>7
<1>9. fs = [i \in 1 .. Len(ds) |-> fs[i]]
  BY <1>8 DEF AdjustDates
<1>15. Len(es) = Len(ds)
  BY <1>4, <1>5, <1>7
<1>16. ASSUME Len(ds) > 1, a.rule # ThirdWednesdayInclusive
       PROVE  /\ fs[1] = IF a.rule = OldCDS THEN ds[1] ELSE adjust(ds[1], a.convention)
              /\ fs[Len(ds)] = IF a.rule \in {CDS, CDS2015} THEN ds[Len(ds)]
                               ELSE adjust(ds[Len(ds)], a.terminationConvention)
  <2> DEFINE n == Len(ds)
  <2>1. /\ n \in Nat /\ n > 1 /\ Len(es) = n /\ DOMAIN es = 1 .. n
        /\ es[1] = ds[1] /\ es[n] = ds[n]
    BY <1>5, <1>8, <1>14, <1>15, <1>16
  <2> HIDE DEF n
  <2>2. /\ 1 \in 1 .. n /\ n \in 1 .. n /\ n # 1
        /\ 1 \notin Interior(es) /\ n \notin Interior(es)
    BY <2>1 DEF Interior
  <2>3. fs[1] = IF a.rule = OldCDS THEN es[1] ELSE adjust(es[1], a.convention)
    BY <2>1, <2>2 DEF AdjustDates
  <2>4. fs[n] = IF a.rule \in {CDS, CDS2015} THEN es[n] ELSE adjust(es[n], a.terminationConvention)
    BY <2>1, <2>2 DEF AdjustDates
  <2> QED BY <2>1, <2>3, <2>4 DEF n
<1>10. Rolled(a, g) = [dates |-> fs, regular |-> rs]
  BY <1>1, <1>3 DEF Rolled, es
<1> HIDE DEF fs
<1>11. fs \in [1 .. Len(ds) -> {fs[i] : i \in 1 .. Len(ds)}]
  BY <1>9
<1>12. fs \in Seq({fs[i] : i \in 1 .. Len(ds)}) /\ Len(fs) = Len(ds)
  BY <1>4, <1>5, <1>11
<1>13. Len(fs) = Len(rs) + 1
  BY <1>3, <1>12
<1>17. Matched(Rolled(a, g))
  BY <1>10, <1>12, <1>13, MatchedWhen
<1>18. g.dates = ds /\ Rolled(a, g).dates = fs
  BY <1>1, <1>3, <1>10
<1> QED BY <1>12, <1>16, <1>17, <1>18 DEF RolledEnds, Last

\* What a collapse leaves.
LEMMA CollapsedLast ==
  ASSUME NEW g, Matched(g), NEW m, m = Len(g.regular), m >= 1, g.dates[m] >= g.dates[m + 1]
  PROVE  LET h == CollapseLast(g)
         IN  /\ Matched(h) /\ Len(h.regular) = m - 1
             /\ h.dates[m] = g.dates[m + 1]
             /\ \A i \in 1 .. m - 1 : h.dates[i] = g.dates[i]
             /\ \A i \in 1 .. m - 2 : h.regular[i] = g.regular[i]
             /\ m >= 2 => h.regular[m - 1] = (g.dates[m] = g.dates[m + 1])
<1> DEFINE ds == g.dates
           rs == g.regular
           n == m + 1
           met == ds[n - 1] = ds[n]
           qs == IF m >= 2 THEN [rs EXCEPT ![m - 1] = met] ELSE rs
           es == Append(SubSeq(ds, 1, n - 2), ds[n])
           fs == Front(qs)
<1>1. PICK S : ds \in Seq(S)
  BY MatchedIs
<1>2. /\ g = [dates |-> ds, regular |-> rs] /\ rs \in Seq(BOOLEAN)
      /\ m \in Nat /\ Len(ds) = n /\ Len(rs) = m /\ n - 1 = m /\ n - 2 = m - 1 /\ n \in Nat
  BY MatchedIs
<1>3. \A i \in 1 .. n : ds[i] \in S
  BY <1>1, <1>2, ElementOfSeq
<1>4. CollapseLast(g) = [dates |-> es, regular |-> fs]
  <2>1. CollapseLast(g) = [g EXCEPT !.dates = es, !.regular = fs]
    BY <1>2 DEF CollapseLast
  <2> HIDE DEF es, fs
  <2> QED BY <1>2, <2>1
<1>5. /\ es \in Seq(S) /\ Len(es) = m /\ es[m] = ds[m + 1]
      /\ \A i \in 1 .. m - 1 : es[i] = ds[i]
  <2> DEFINE kept == SubSeq(ds, 1, n - 2)
  <2>1. \A i \in 1 .. n - 2 : ds[i] \in S
    BY <1>2, <1>3
  <2>2. /\ kept \in Seq(S) /\ Len(kept) = IF 1 <= n - 2 THEN (n - 2) - 1 + 1 ELSE 0
        /\ \A i \in 1 .. (n - 2) - 1 + 1 : kept[i] = ds[1 + i - 1]
    <3> HIDE DEF n
    <3>1. n - 2 \in Int /\ 1 \in Int
      BY <1>2
    <3> QED BY <2>1, <3>1, SubSeqProperties
  <2> HIDE DEF kept, n
  <2>3. Len(kept) = m - 1
    BY <1>2, <2>2
  <2>4. \A i \in 1 .. m - 1 : kept[i] = ds[i]
    <3>1. ASSUME NEW i \in 1 .. m - 1 PROVE i \in 1 .. (n - 2) - 1 + 1 /\ 1 + i - 1 = i
      BY <1>2
    <3> QED BY <2>2, <3>1
  <2>5. ds[n] \in S
    BY <1>2, <1>3
  <2>6. /\ Append(kept, ds[n]) \in Seq(S) /\ Len(Append(kept, ds[n])) = Len(kept) + 1
        /\ Append(kept, ds[n])[Len(kept) + 1] = ds[n]
        /\ \A i \in 1 .. Len(kept) : Append(kept, ds[n])[i] = kept[i]
    BY <2>2, <2>5, AppendProperties
  <2>7. (m - 1) + 1 = m
    BY <1>2
  <2> QED BY <2>3, <2>4, <2>6, <2>7 DEF kept, n
<1>6. /\ qs \in Seq(BOOLEAN) /\ Len(qs) = m
      /\ \A i \in 1 .. m - 2 : qs[i] = rs[i]
      /\ m >= 2 => qs[m - 1] = met
  <2>1. ASSUME m >= 2
        PROVE  /\ [rs EXCEPT ![m - 1] = met] \in Seq(BOOLEAN)
               /\ Len([rs EXCEPT ![m - 1] = met]) = m
               /\ [rs EXCEPT ![m - 1] = met][m - 1] = met
               /\ \A i \in 1 .. m - 2 : [rs EXCEPT ![m - 1] = met][i] = rs[i]
    <3>1. m - 1 \in 1 .. Len(rs) /\ met \in BOOLEAN /\ DOMAIN rs = 1 .. Len(rs)
      BY <1>2, <2>1, LenProperties
    <3> HIDE DEF met
    <3>2. [rs EXCEPT ![m - 1] = met] \in Seq(BOOLEAN) /\ Len([rs EXCEPT ![m - 1] = met]) = m
      BY <1>2, <3>1, ExceptSeq
    <3>3. ASSUME NEW i \in 1 .. m - 2 PROVE i \in 1 .. Len(rs) /\ i # m - 1
      BY <1>2
    <3> QED BY <3>1, <3>2, <3>3
  <2>2. ASSUME ~(m >= 2), NEW i \in 1 .. m - 2 PROVE FALSE
    BY <1>2, <2>2
  <2> HIDE DEF met
  <2> QED BY <1>2, <2>1, <2>2
<1> HIDE DEF qs
<1>7. /\ fs \in Seq(BOOLEAN) /\ Len(fs) = m - 1
      /\ \A i \in 1 .. m - 1 : fs[i] = qs[i]
  <2>1. \A i \in 1 .. m - 1 : qs[i] \in BOOLEAN
    BY <1>2, <1>6, ElementOfSeq
  <2>2. fs = SubSeq(qs, 1, m - 1)
    BY <1>6 DEF Front
  <2> HIDE DEF fs
  <2>3. m - 1 \in Int /\ 1 \in Int
    BY <1>2
  <2>4. /\ SubSeq(qs, 1, m - 1) \in Seq(BOOLEAN)
        /\ Len(SubSeq(qs, 1, m - 1)) = IF 1 <= m - 1 THEN (m - 1) - 1 + 1 ELSE 0
        /\ \A i \in 1 .. (m - 1) - 1 + 1 : SubSeq(qs, 1, m - 1)[i] = qs[1 + i - 1]
    BY <2>1, <2>3, SubSeqProperties
  <2>5. ASSUME NEW i \in 1 .. m - 1 PROVE fs[i] = qs[i]
    <3>1. i \in 1 .. (m - 1) - 1 + 1 /\ 1 + i - 1 = i
      BY <1>2
    <3> QED BY <2>2, <2>4, <3>1
  <2>6. Len(fs) = m - 1
    <3>1. (IF 1 <= m - 1 THEN (m - 1) - 1 + 1 ELSE 0) = m - 1
      <4>1. m \in Nat /\ m >= 1
        BY <1>2
      <4> QED BY <4>1
    <3> QED BY <2>2, <2>4, <3>1
  <2> QED BY <2>2, <2>4, <2>5, <2>6
<1> HIDE DEF es, fs
<1>8. Matched(CollapseLast(g))
  <2>1. Len(es) = Len(fs) + 1
    BY <1>2, <1>5, <1>7
  <2> QED BY <1>4, <1>5, <1>7, <2>1, MatchedWhen
<1>9. CollapseLast(g).dates = es /\ CollapseLast(g).regular = fs
  BY <1>4
<1>10. \A i \in 1 .. m - 2 : fs[i] = rs[i]
  <2>1. ASSUME NEW i \in 1 .. m - 2 PROVE i \in 1 .. m - 1
    BY <1>2
  <2> QED BY <1>6, <1>7, <2>1
<1>11. m >= 2 => fs[m - 1] = met
  <2>1. ASSUME m >= 2 PROVE m - 1 \in 1 .. m - 1
    BY <1>2, <2>1
  <2> QED BY <1>6, <1>7, <2>1
<1>12. met = (ds[m] = ds[m + 1])
  BY <1>2
<1> HIDE DEF met
<1> QED BY <1>5, <1>7, <1>8, <1>9, <1>10, <1>11, <1>12

LEMMA CollapsedFirst ==
  ASSUME NEW g, Matched(g), NEW m, m = Len(g.regular), m >= 1, g.dates[2] <= g.dates[1]
  PROVE  LET h == CollapseFirst(g)
         IN  /\ Matched(h) /\ Len(h.regular) = m - 1
             /\ h.dates[1] = g.dates[1]
             /\ \A i \in 2 .. m : h.dates[i] = g.dates[i + 1]
             /\ \A i \in 2 .. m - 1 : h.regular[i] = g.regular[i + 1]
             /\ m >= 2 => h.regular[1] = (g.dates[2] = g.dates[1])
<1> DEFINE ds == g.dates
           rs == g.regular
           n == m + 1
           met == ds[2] = ds[1]
           qs == IF m >= 2 THEN [rs EXCEPT ![2] = met] ELSE rs
           first == <<ds[1]>>
           kept == SubSeq(ds, 3, n)
           es == first \o kept
           fs == Tail(qs)
<1>1. PICK S : ds \in Seq(S)
  BY MatchedIs
<1>2. /\ g = [dates |-> ds, regular |-> rs] /\ rs \in Seq(BOOLEAN)
      /\ m \in Nat /\ Len(ds) = n /\ Len(rs) = m /\ n \in Nat /\ n >= 2
  BY MatchedIs
<1>3. \A i \in 1 .. n : ds[i] \in S
  BY <1>1, <1>2, ElementOfSeq
<1>4. CollapseFirst(g) = [dates |-> es, regular |-> fs]
  <2>1. CollapseFirst(g) = [g EXCEPT !.dates = es, !.regular = fs]
    BY <1>2 DEF CollapseFirst
  <2> HIDE DEF es, fs
  <2> QED BY <1>2, <2>1
<1>5. /\ es \in Seq(S) /\ Len(es) = m /\ es[1] = ds[1]
      /\ \A i \in 2 .. m : es[i] = ds[i + 1]
  <2>1. \A i \in 3 .. n : ds[i] \in S
    BY <1>2, <1>3
  <2>2. /\ kept \in Seq(S) /\ Len(kept) = IF 3 <= n THEN n - 3 + 1 ELSE 0
        /\ \A i \in 1 .. n - 3 + 1 : kept[i] = ds[3 + i - 1]
    <3> HIDE DEF n
    <3>1. n \in Int /\ 3 \in Int
      BY <1>2
    <3> QED BY <2>1, <3>1, SubSeqProperties
  <2>3. first \in Seq(S) /\ Len(first) = 1 /\ first[1] = ds[1]
    <3>1. ds[1] \in S
      BY <1>2, <1>3
    <3> QED BY <3>1
  <2>4. Len(kept) = m - 1
    <3>1. (IF 3 <= n THEN n - 3 + 1 ELSE 0) = m - 1
      <4>1. m \in Nat /\ m >= 1
        BY <1>2
      <4> QED BY <4>1
    <3> HIDE DEF kept, n
    <3> QED BY <2>2, <3>1
  <2> HIDE DEF kept, first
  <2>5. /\ first \o kept \in Seq(S) /\ Len(first \o kept) = Len(first) + Len(kept)
        /\ \A i \in 1 .. Len(first) + Len(kept) :
             (first \o kept)[i] = IF i <= Len(first) THEN first[i] ELSE kept[i - Len(first)]
    <3>1. first \in Seq(S) /\ kept \in Seq(S)
      BY <2>2, <2>3
    <3> QED BY <3>1, ConcatProperties
  <2>6. 1 + (m - 1) = m
    BY <1>2
  <2>7. es[1] = ds[1]
    <3>1. 1 \in 1 .. 1 + (m - 1)
      BY <1>2
    <3> QED BY <2>3, <2>4, <2>5, <3>1
  <2>8. ASSUME NEW i \in 2 .. m PROVE es[i] = ds[i + 1]
    <3>1. /\ i \in 1 .. 1 + (m - 1) /\ ~(i <= 1)
          /\ i - 1 \in 1 .. n - 3 + 1 /\ 3 + (i - 1) - 1 = i + 1
      BY <1>2
    <3>2. es[i] = kept[i - 1]
      BY <2>3, <2>4, <2>5, <3>1
    <3>3. kept[i - 1] = ds[3 + (i - 1) - 1]
      BY <2>2, <3>1
    <3> QED BY <3>1, <3>2, <3>3
  <2> QED BY <2>3, <2>4, <2>5, <2>6, <2>7, <2>8
<1>6. /\ qs \in Seq(BOOLEAN) /\ Len(qs) = m
      /\ \A i \in 3 .. m : qs[i] = rs[i]
      /\ m >= 2 => qs[2] = met
  <2>1. ASSUME m >= 2
        PROVE  /\ [rs EXCEPT ![2] = met] \in Seq(BOOLEAN)
               /\ Len([rs EXCEPT ![2] = met]) = m
               /\ [rs EXCEPT ![2] = met][2] = met
               /\ \A i \in 3 .. m : [rs EXCEPT ![2] = met][i] = rs[i]
    <3>1. 2 \in 1 .. Len(rs) /\ met \in BOOLEAN /\ DOMAIN rs = 1 .. Len(rs)
      BY <1>2, <2>1, LenProperties
    <3> HIDE DEF met
    <3>2. [rs EXCEPT ![2] = met] \in Seq(BOOLEAN) /\ Len([rs EXCEPT ![2] = met]) = m
      BY <1>2, <3>1, ExceptSeq
    <3>3. ASSUME NEW i \in 3 .. m PROVE i \in 1 .. Len(rs) /\ i # 2
      BY <1>2
    <3> QED BY <3>1, <3>2, <3>3
  <2>2. ASSUME ~(m >= 2), NEW i \in 3 .. m PROVE FALSE
    BY <1>2, <2>2
  <2> HIDE DEF met
  <2> QED BY <1>2, <2>1, <2>2
<1> HIDE DEF qs
<1>7. /\ fs \in Seq(BOOLEAN) /\ Len(fs) = m - 1
      /\ \A i \in 1 .. m - 1 : fs[i] = qs[i + 1]
  <2>1. qs # <<>>
    BY <1>2, <1>6, EmptySeq
  <2> HIDE DEF fs
  <2>2. /\ Tail(qs) \in Seq(BOOLEAN) /\ Len(Tail(qs)) = Len(qs) - 1
        /\ \A i \in 1 .. Len(Tail(qs)) : Tail(qs)[i] = qs[i + 1]
    BY <1>6, <2>1, HeadTailProperties
  <2> QED BY <1>6, <2>2 DEF fs
<1> HIDE DEF es, fs
<1>8. Matched(CollapseFirst(g))
  <2>1. Len(es) = Len(fs) + 1
    BY <1>2, <1>5, <1>7
  <2> QED BY <1>4, <1>5, <1>7, <2>1, MatchedWhen
<1>9. CollapseFirst(g).dates = es /\ CollapseFirst(g).regular = fs
  BY <1>4
<1>10. \A i \in 2 .. m - 1 : fs[i] = rs[i + 1]
  <2>1. ASSUME NEW i \in 2 .. m - 1 PROVE i \in 1 .. m - 1 /\ i + 1 \in 3 .. m
    BY <1>2
  <2> QED BY <1>6, <1>7, <2>1
<1>11. m >= 2 => fs[1] = met
  <2>1. ASSUME m >= 2 PROVE 1 \in 1 .. m - 1 /\ 1 + 1 = 2
    BY <1>2, <2>1
  <2> QED BY <1>6, <1>7, <2>1
<1> HIDE DEF met
<1> QED BY <1>5, <1>7, <1>8, <1>9, <1>10, <1>11 DEF met

\* What is dropped of either end is one date and one flag, and not the end itself
\* where two dates are left.
KeepsEnds(s, t) ==
  Len(t) > 1 => Len(s) > 1 /\ t[1] = s[1] /\ Last(t) = Last(s)

LEMMA CollapseLastMatches ==
  ASSUME NEW g, Matched(g)
  PROVE  Matched(CollapseLast(g)) /\ KeepsEnds(g.dates, CollapseLast(g).dates)
<1> DEFINE m == Len(g.regular)
           h == CollapseLast(g)
<1>1. m \in Nat /\ Len(g.dates) = m + 1
  BY MatchedIs
<1>2. CASE m >= 1 /\ g.dates[m] >= g.dates[m + 1]
  <2>1. /\ Matched(h) /\ Len(h.regular) = m - 1
        /\ h.dates[m] = g.dates[m + 1]
        /\ \A i \in 1 .. m - 1 : h.dates[i] = g.dates[i]
    BY <1>2, CollapsedLast
  <2> HIDE DEF h, m
  <2>2. Len(h.dates) = m
    BY <1>1, <2>1, MatchedIs
  <2>3. ASSUME m > 1 PROVE h.dates[1] = g.dates[1]
    <3>1. 1 \in 1 .. m - 1
      BY <1>1, <2>3
    <3> QED BY <2>1, <3>1
  <2>4. KeepsEnds(g.dates, h.dates)
    BY <1>1, <2>1, <2>2, <2>3 DEF KeepsEnds, Last
  <2> QED BY <2>1, <2>4 DEF h
<1>3. CASE ~(m >= 1 /\ g.dates[m] >= g.dates[m + 1])
  <2>1. ~(m + 1 >= 2 /\ g.dates[(m + 1) - 1] >= g.dates[m + 1])
    BY <1>1, <1>3
  <2>2. h = g
    BY <1>1, <2>1 DEF CollapseLast
  <2> QED BY <2>2 DEF KeepsEnds
<1> QED BY <1>2, <1>3

LEMMA CollapseFirstMatches ==
  ASSUME NEW g, Matched(g)
  PROVE  Matched(CollapseFirst(g)) /\ KeepsEnds(g.dates, CollapseFirst(g).dates)
<1> DEFINE m == Len(g.regular)
           h == CollapseFirst(g)
<1>1. m \in Nat /\ Len(g.dates) = m + 1
  BY MatchedIs
<1>2. CASE m >= 1 /\ g.dates[2] <= g.dates[1]
  <2>1. /\ Matched(h) /\ Len(h.regular) = m - 1
        /\ h.dates[1] = g.dates[1]
        /\ \A i \in 2 .. m : h.dates[i] = g.dates[i + 1]
    BY <1>2, CollapsedFirst
  <2> HIDE DEF h, m
  <2>2. Len(h.dates) = m
    BY <1>1, <2>1, MatchedIs
  <2>3. ASSUME m > 1 PROVE h.dates[m] = g.dates[m + 1]
    <3>1. m \in 2 .. m
      BY <1>1, <2>3
    <3> QED BY <2>1, <3>1
  <2>4. KeepsEnds(g.dates, h.dates)
    BY <1>1, <2>1, <2>2, <2>3 DEF KeepsEnds, Last
  <2> QED BY <2>1, <2>4 DEF h
<1>3. CASE ~(m >= 1 /\ g.dates[2] <= g.dates[1])
  <2>1. ~(m + 1 >= 2 /\ g.dates[2] <= g.dates[1])
    BY <1>1, <1>3
  <2>2. h = g
    BY <1>1, <2>1 DEF CollapseFirst
  <2> QED BY <2>2 DEF KeepsEnds
<1> QED BY <1>2, <1>3

(* Whatever is asked of Schedule::new and whatever the calendar: what it builds has *)
(* one flag for each period between two of its dates.                               *)
THEOREM BuiltHasOneFlagPerPeriod ==
  ASSUME NEW a
  PROVE  /\ \E S : Built(a).dates \in Seq(S)
         /\ Built(a).regular \in Seq(BOOLEAN)
         /\ OneFlagPerPeriod(Built(a))
<1> DEFINE g == CollapseFirst(CollapseLast(Rolled(a, Generate(a))))
<1>1. Matched(g)
  BY GenerateMatches, RolledMatches, CollapseLastMatches, CollapseFirstMatches
<1>2. Built(a).dates = g.dates /\ Built(a).regular = g.regular
  BY DEF Built, Recorded
<1> HIDE DEF g
<1>3. PICK S : \E ds \in Seq(S), rs \in Seq(BOOLEAN) :
        g = [dates |-> ds, regular |-> rs] /\ Len(ds) = Len(rs) + 1
  BY <1>1 DEF Matched
<1>4. g.dates \in Seq(S) /\ g.regular \in Seq(BOOLEAN) /\ Len(g.dates) = Len(g.regular) + 1
  BY <1>3
<1>5. Len(g.regular) \in Nat
  BY <1>4, LenProperties
<1> QED BY <1>2, <1>4, <1>5 DEF OneFlagPerPeriod

\* What Schedule::new leaves is a schedule if what it found is dates.
LEMMA NewIsFlagged ==
  ASSUME New, schedule'.dates \in Seq(Int)
  PROVE  Flagged(schedule')
<1>1. PICK spec \in Specifications :
        schedule' = Built(Normalised(spec)) /\ Len(schedule'.dates) > 1
  BY DEF New
<1> DEFINE a == Normalised(spec)
           s == Built(a)
<1>2. /\ a.convention \in Conventions /\ a.terminationConvention \in Conventions
      /\ a.first \in Int /\ a.nextToLast \in Int
  <2>1. spec \in [effective : InnerDates, termination : InnerDates,
                  tenor : [length : Int, units : {Days, Weeks, Months, Years}],
                  convention : Conventions, terminationConvention : Conventions,
                  rule : DateGeneration, endOfMonth : BOOLEAN, first : Int, nextToLast : Int]
    BY SpecificationsAssumption
  <2>2. NullDate \in Int
    BY DEF NullDate
  <2>3. /\ a.convention = spec.convention /\ a.terminationConvention = spec.terminationConvention
        /\ a.first \in {spec.first, NullDate} /\ a.nextToLast \in {spec.nextToLast, NullDate}
    BY <2>1 DEF Normalised
  <2>4. /\ spec.convention \in Conventions /\ spec.terminationConvention \in Conventions
        /\ spec.first \in Int /\ spec.nextToLast \in Int
    BY <2>1
  <2> HIDE DEF a
  <2> QED BY <2>2, <2>3, <2>4
<1> HIDE DEF a
<1>3. s.regular \in Seq(BOOLEAN) /\ OneFlagPerPeriod(s)
  BY BuiltHasOneFlagPerPeriod
<1>4. schedule' = s
  BY <1>1 DEF a
<1>5. s.dates \in Seq(Int) /\ Len(s.dates) > 0
  <2>1. s.dates \in Seq(Int) /\ Len(s.dates) > 1
    BY <1>1, <1>4
  <2>2. Len(s.dates) \in Nat
    BY <2>1, LenProperties
  <2> QED BY <2>1, <2>2
<1>6. s = [dates |-> s.dates, regular |-> s.regular, convention |-> a.convention,
           terminationConvention |-> a.terminationConvention, first |-> a.first,
           nextToLast |-> a.nextToLast, asked |-> a]
  BY DEF Built, Recorded
<1> HIDE DEF s
<1>7. s \in [dates : Seq(Int), regular : Seq(BOOLEAN), convention : Conventions,
             terminationConvention : Conventions, first : Int, nextToLast : Int,
             asked : {s.asked}]
  <2>1. s.asked = a
    BY <1>6
  <2> QED BY <1>2, <1>3, <1>5, <1>6, <2>1
<1>8. Flagged(s)
  BY <1>3, <1>5, <1>7 DEF Flagged
<1> QED BY <1>4, <1>8

-----------------------------------------------------------------------------
\* What was generated has its flags, and whatever was given its dates is known to be.
CutsInv ==
  /\ schedule # NoSchedule => "asked" \in DOMAIN schedule
  /\ Generated => Flagged(schedule)

\* What is cut after a date, or until one.
Cut(s, h, t) ==
  \/ h = s
  \/ s.dates[1] < t /\ h = Until(s, t)
  \/ /\ s.dates[1] < t /\ t < Last(s.dates)
     /\ \E cut \in SearchesEnd(s, t) : h = WithoutFirst(s, t, cut)

LEMMA CutsAre ==
  ASSUME CutAfter \/ CutUntil
  PROVE  schedule # NoSchedule /\ \E t \in Int : Cut(schedule, schedule', t)
<1>1. CASE CutAfter
  <2>1. PICK t \in CutDates :
          /\ t < Last(schedule.dates)
          /\ \/ t <= schedule.dates[1] /\ UNCHANGED schedule
             \/ /\ schedule.dates[1] < t
                /\ \E cut \in SearchesEnd(schedule, t) : schedule' = WithoutFirst(schedule, t, cut)
    BY <1>1 DEF CutAfter
  <2> QED BY <1>1, <2>1, CutDatesAssumption DEF Cut, CutAfter
<1>2. CASE CutUntil
  BY <1>2, CutDatesAssumption DEF Cut, CutUntil
<1> QED BY <1>1, <1>2

(* A cut knows where its schedule came from.                                 *)
LEMMA CutsRemember ==
  ASSUME NEW s, NEW h, NEW t, Cut(s, h, t), "asked" \in DOMAIN s
  PROVE  "asked" \in DOMAIN h /\ h.asked = s.asked
BY DEF Cut, Until, WithoutFirst

(* A cut leaves flags as they should be, and dates in order.                 *)
LEMMA CutsKeep ==
  ASSUME NEW s, NEW h, NEW t \in Int, Cut(s, h, t), Flagged(s)
  PROVE  Flagged(h) /\ (NonDecreasing(s.dates) => NonDecreasing(h.dates))
<1>1. CASE h = s
  BY <1>1
<1>2. CASE s.dates[1] < t /\ h = Until(s, t)
  <2>1. Flagged(h)
    BY <1>2, UntilIs
  <2>2. CASE t < Last(s.dates)
    BY <1>2, <2>1, <2>2, HalvesOf DEF Cuttable
  <2>3. CASE ~(t < Last(s.dates))
    <3>1. Last(s.dates) \in Int
      BY DEF Flagged, Last
    <3>2. h = s
      BY <1>2, <2>3, <3>1 DEF Until
    <3> QED BY <3>2
  <2> QED BY <2>2, <2>3
<1>3. CASE /\ s.dates[1] < t /\ t < Last(s.dates)
           /\ \E cut \in SearchesEnd(s, t) : h = WithoutFirst(s, t, cut)
  <2>1. Flagged(h)
    BY <1>3, WithoutFirstIs
  <2>2. ASSUME NonDecreasing(s.dates) PROVE NonDecreasing(h.dates)
    <3>1. Within(s, t)
      BY <1>3, <2>2 DEF Within
    <3>2. h = WithoutFirst(s, t, lower_bound(s, t))
      BY <1>3, <3>1, SearchesEndOnce
    <3>3. s.dates[1] \in Int
      BY LenProperties DEF Flagged
    <3>4. h = After(s, t)
      BY <1>3, <3>2, <3>3 DEF After
    <3> QED BY <1>3, <2>2, <3>4, HalvesOf DEF Cuttable
  <2> QED BY <2>1, <2>2
<1> QED BY <1>1, <1>2, <1>3 DEF Cut

\* What was built is dates.
DatesWhenBuilt == schedule'.dates \in Seq(Int)

(* Whatever schedule Schedule::new has built, if only of dates: however often it *)
(* is cut by after and until, at its dates, between them or outside, it has a    *)
(* flag for each period, and any further cut in two would lose no date and no    *)
(* flag where its dates are in order (schedule.rs:664-745).                      *)
THEOREM CutsLoseNothing ==
  ScheduleSpec /\ [][New => DatesWhenBuilt]_scheduleVars => []HalvesMakeTheWhole
<1>1. ScheduleInit => CutsInv
  BY DEF ScheduleInit, CutsInv, Generated
<1>2. CutsInv /\ [ScheduleNext]_scheduleVars /\ [New => DatesWhenBuilt]_scheduleVars => CutsInv'
  <2> SUFFICES ASSUME CutsInv, [ScheduleNext]_scheduleVars,
                      [New => DatesWhenBuilt]_scheduleVars
               PROVE  CutsInv'
    OBVIOUS
  <2>1. CASE UNCHANGED schedule
    BY <2>1 DEF CutsInv, Generated
  <2>2. CASE New
    <3>1. schedule' # schedule => Flagged(schedule')
      BY <2>2, NewIsFlagged DEF scheduleVars, DatesWhenBuilt
    <3>2. "asked" \in DOMAIN schedule'
      BY <2>2 DEF New, Built, Recorded
    <3> QED BY <2>1, <3>1, <3>2 DEF CutsInv
  <2>3. CASE FromDates
    BY <2>3 DEF FromDates, CutsInv, Generated
  <2>4. CASE CutAfter \/ CutUntil
    <3>1. PICK t \in Int : schedule # NoSchedule /\ Cut(schedule, schedule', t)
      BY <2>4, CutsAre
    <3>2. "asked" \in DOMAIN schedule' /\ schedule'.asked = schedule.asked
      BY <3>1, CutsRemember DEF CutsInv
    <3>3. Generated' => Flagged(schedule')
      <4>1. Generated' => Generated
        BY <3>1, <3>2 DEF Generated
      <4> QED BY <3>1, <4>1, CutsKeep DEF CutsInv
    <3> QED BY <3>2, <3>3 DEF CutsInv
  <2> QED BY <2>1, <2>2, <2>3, <2>4 DEF ScheduleNext, ChangeCalendar, scheduleVars
<1>3. CutsInv => HalvesMakeTheWhole
  BY HalvesOf, CutDatesAssumption DEF CutsInv, HalvesMakeTheWhole, Cuttable, Flagged
<1> QED BY <1>1, <1>2, <1>3, PTL DEF ScheduleSpec

-----------------------------------------------------------------------------
(* Tenors counted from a date *)

\* Two dates one tenor apart, counted from one of them.
TenorApart(a, d, e) == Step(a, d, 1) = e \/ Step(a, e, -1) = d

\* A tenor that is not snapped to ends of month.
Plain(a) ==
  /\ a.endOfMonth = FALSE
  /\ a.tenor.length \in Nat
  /\ a.tenor.units \in {Days, Weeks, Months, Years}

LEMMA StepIs ==
  ASSUME NEW a, Plain(a), NEW d, NEW n
  PROVE  Step(a, d, n) = advance(d, n * a.tenor.length, a.tenor.units)
BY DEF Step, Shift, AtEndOfMonthIf, Plain

CountsMonths(a) == a.tenor.units \in {Months, Years}

LEMMA StepMonths ==
  ASSUME NEW a, Plain(a), CountsMonths(a), NEW d, NEW n \in Int
  PROVE  /\ InMonths(a.tenor) \in Nat
         /\ Step(a, d, n) = OnDay(day_of_month(d), MonthCount(d) + n * InMonths(a.tenor))
<1> DEFINE l == a.tenor.length
<1>0. l \in Nat
  BY DEF Plain
<1>1. Step(a, d, n) = advance(d, n * l, a.tenor.units)
  BY StepIs
<1>2. 12 * (n * l) = n * (l * 12) /\ n * (l * 1) = n * l
  <2> HIDE DEF l
  <2>1. ASSUME NEW x \in Int, NEW y \in Int PROVE 12 * (x * y) = x * (y * 12) /\ x * (y * 1) = x * y
    OBVIOUS
  <2> QED BY <1>0, <2>1
<1>3. CASE a.tenor.units = Years
  <2>1. Step(a, d, n) = OnDay(day_of_month(d), MonthCount(d) + 12 * (n * l))
    BY <1>1, <1>3 DEF advance, Days, Weeks, Years
  <2>2. InMonths(a.tenor) = l * 12
    BY <1>3 DEF InMonths
  <2> HIDE DEF l
  <2>3. l * 12 \in Nat /\ l * 1 \in Nat
    BY <1>0
  <2> QED BY <1>2, <2>1, <2>2, <2>3
<1>4. CASE a.tenor.units = Months
  <2>1. Step(a, d, n) = OnDay(day_of_month(d), MonthCount(d) + n * l)
    BY <1>1, <1>4 DEF advance, Days, Weeks, Years, Months
  <2>2. InMonths(a.tenor) = l * 1
    BY <1>4 DEF InMonths, Years, Months
  <2> HIDE DEF l
  <2>3. l * 12 \in Nat /\ l * 1 \in Nat
    BY <1>0
  <2> QED BY <1>2, <2>1, <2>2, <2>3
<1> QED BY <1>3, <1>4 DEF CountsMonths

\* A month holds the days up to its last.
Clamped(d, length) == IF d > length THEN length ELSE d
MonthLength(k) == LengthOf(CountedYear(k), CountedMonth(k))

LEMMA OnDayClamps ==
  ASSUME NEW k, NEW d, NEW e, Clamped(d, MonthLength(k)) = Clamped(e, MonthLength(k))
  PROVE  OnDay(d, k) = OnDay(e, k)
BY DEF OnDay, Clamped, MonthLength, LengthOf, CountedYear, CountedMonth

LEMMA OnItsDay ==
  ASSUME NEW s \in ValidDates
  PROVE  OnDay(day_of_month(s), MonthCount(s)) = s
<1>1. /\ CountedYear(MonthCount(s)) = year(s) /\ CountedMonth(MonthCount(s)) = month(s)
      /\ day_of_month(s) \in 1 .. LengthOf(year(s), month(s))
      /\ LengthOf(year(s), month(s)) \in 28 .. 31
  BY MonthCountIs
<1>2. DateOf(day_of_month(s), month(s), year(s)) = s
  BY SerialNumbersNameDates DEF SerialsNameDates, ValidDates
<1>3. Clamped(day_of_month(s), LengthOf(year(s), month(s))) = day_of_month(s)
  BY <1>1 DEF Clamped
<1>4. OnDay(day_of_month(s), MonthCount(s))
        = DateOf(Clamped(day_of_month(s), LengthOf(year(s), month(s))), month(s), year(s))
  BY <1>1 DEF OnDay, Clamped, LengthOf, CountedYear, CountedMonth
<1> QED BY <1>2, <1>3, <1>4

\* The n-th tenor from a date ends in a month of the type.
InType(a, seed, n) == CountsMonths(a) => MonthCount(seed) + n * InMonths(a.tenor) \in MonthCounts

LEMMA ConsecutiveTenors ==
  ASSUME NEW a, Plain(a), NEW seed \in ValidDates, NEW n \in Int,
         InType(a, seed, n), InType(a, seed, n + 1)
  PROVE  TenorApart(a, Step(a, seed, n), Step(a, seed, n + 1))
<1> DEFINE x == Step(a, seed, n)
           y == Step(a, seed, n + 1)
<1>1. seed \in Int
  BY ValidDatesAre
<1>2. CASE CountsMonths(a)
  <2> DEFINE l == InMonths(a.tenor)
             c == MonthCount(seed)
             d == day_of_month(seed)
             i == c + n * l
             j == c + (n + 1) * l
             dx == Clamped(d, MonthLength(i))
             dy == Clamped(d, MonthLength(j))
  <2>1. l \in Nat /\ x = OnDay(d, i) /\ y = OnDay(d, j)
    <3>1. n + 1 \in Int
      OBVIOUS
    <3>2. l \in Nat
      BY <1>2, <3>1, StepMonths, Zenon
    <3> QED BY <1>2, <3>1, <3>2, StepMonths, Zenon
  <2>2. c \in Int /\ d \in 1 .. 31
    <3>1. d \in 1 .. LengthOf(year(seed), month(seed)) /\ LengthOf(year(seed), month(seed)) \in 28 .. 31
      BY MonthCountIs
    <3>2. c \in Int
      BY MonthCountIs
    <3> QED BY <3>1, <3>2
  <2>3. i \in MonthCounts /\ j \in MonthCounts
    BY <1>2 DEF InType
  <2> HIDE DEF c, d, l
  <2>4. i + 1 * l = j /\ j + (-1) * l = i
    <3>1. ASSUME NEW u \in Int, NEW v \in Int, NEW w \in Int
          PROVE  (u + v * w) + 1 * w = u + (v + 1) * w /\ (u + (v + 1) * w) + (-1) * w = u + v * w
      OBVIOUS
    <3>2. c \in Int /\ n \in Int /\ l \in Int
      BY <2>1, <2>2
    <3> QED BY <3>1, <3>2
  <2> HIDE DEF i, j, x, y
  <2>5. /\ MonthLength(i) \in 28 .. 31 /\ MonthLength(j) \in 28 .. 31
        /\ MonthCount(x) = i /\ MonthCount(y) = j
        /\ day_of_month(x) = dx /\ day_of_month(y) = dy
    BY <2>1, <2>2, <2>3, OnDayIs DEF MonthLength, Clamped
  <2>6. Step(a, x, 1) = OnDay(dx, j) /\ Step(a, y, -1) = OnDay(dy, i)
    <3>0. ASSUME NEW z, NEW k \in Int
          PROVE  Step(a, z, k) = OnDay(day_of_month(z), MonthCount(z) + k * l)
      BY <1>2, <3>0, StepMonths, Zenon DEF l
    <3>1. Step(a, x, 1) = OnDay(day_of_month(x), MonthCount(x) + 1 * l)
      <4>1. 1 \in Int
        OBVIOUS
      <4> QED BY <3>0, <4>1, Zenon
    <3>2. Step(a, y, -1) = OnDay(day_of_month(y), MonthCount(y) + (-1) * l)
      <4>1. -1 \in Int
        OBVIOUS
      <4> QED BY <3>0, <4>1, Zenon
    <3> HIDE DEF dx, dy
    <3> QED BY <2>4, <2>5, <3>1, <3>2
  <2>7. \/ Clamped(dx, MonthLength(j)) = Clamped(d, MonthLength(j))
        \/ Clamped(dy, MonthLength(i)) = Clamped(d, MonthLength(i))
    <3> DEFINE p == MonthLength(i)
               q == MonthLength(j)
    <3>1. p \in Int /\ q \in Int /\ d \in Int
      BY <2>2, <2>5
    <3> HIDE DEF p, q
    <3>2. \/ Clamped(Clamped(d, p), q) = Clamped(d, q)
          \/ Clamped(Clamped(d, q), p) = Clamped(d, p)
      BY <3>1 DEF Clamped
    <3> QED BY <3>2 DEF p, q
  <2> HIDE DEF dx, dy
  <2>8. Step(a, x, 1) = y \/ Step(a, y, -1) = x
    BY <2>1, <2>6, <2>7, OnDayClamps
  <2> QED BY <2>8 DEF TenorApart, x, y
<1>3. CASE ~CountsMonths(a)
  <2> DEFINE l == a.tenor.length
  <2>1. l \in Int /\ a.tenor.units \in {Days, Weeks}
    BY <1>3 DEF Plain, CountsMonths
  <2>2. /\ x = advance(seed, n * l, a.tenor.units) /\ y = advance(seed, (n + 1) * l, a.tenor.units)
        /\ Step(a, x, 1) = advance(x, 1 * l, a.tenor.units)
    BY StepIs
  <2> HIDE DEF x, y, l
  <2>3. (n + 1) * l = n * l + l /\ 1 * l = l /\ n * l \in Int
    <3>1. ASSUME NEW v \in Int, NEW w \in Int
          PROVE  (v + 1) * w = v * w + w /\ 1 * w = w /\ v * w \in Int
      OBVIOUS
    <3> QED BY <2>1, <3>1, Zenon
  <2> DEFINE z == n * l
  <2>4. CASE a.tenor.units = Days
    <3>1. x = seed + z /\ y = seed + (z + l) /\ Step(a, x, 1) = x + l
      BY <2>2, <2>3, <2>4 DEF advance, Days, Weeks
    <3> HIDE DEF z
    <3>2. z \in Int
      BY <2>3 DEF z
    <3> QED BY <1>1, <2>1, <3>1, <3>2 DEF TenorApart, x, y
  <2>5. CASE a.tenor.units = Weeks
    <3>1. x = seed + 7 * z /\ y = seed + 7 * (z + l) /\ Step(a, x, 1) = x + 7 * l
      BY <2>2, <2>3, <2>5 DEF advance, Days, Weeks
    <3> HIDE DEF z
    <3>2. z \in Int
      BY <2>3 DEF z
    <3>3. Step(a, x, 1) = y
      BY <1>1, <2>1, <3>1, <3>2
    <3> QED BY <3>3 DEF TenorApart, x, y
  <2> QED BY <2>1, <2>4, <2>5
<1> QED BY <1>2, <1>3

FirstCount == 12 * 1901
LastCount == 12 * 2199 + 11

LEMMA MonthCountsAre ==
  ASSUME NEW k
  PROVE  k \in MonthCounts <=> k \in Int /\ FirstCount <= k /\ k <= LastCount
<1>1. ASSUME NEW p \in Int, NEW q \in Int
      PROVE  k \in p .. q <=> k \in Int /\ p <= k /\ k <= q
  OBVIOUS
<1>2. FirstCount \in Int /\ LastCount \in Int
  BY SMT DEF FirstCount, LastCount
<1>3. MonthCounts = FirstCount .. LastCount
  BY DEF MonthCounts, FirstCount, LastCount
<1> QED BY <1>1, <1>2, <1>3, Zenon

LEMMA InnerDatesBetween ==
  ASSUME NEW s \in InnerDates
  PROVE  /\ s \in Int /\ s > 367 /\ s < 109500
         /\ MonthCount(s) \in MonthCounts
         /\ FirstCount + 12 <= MonthCount(s) /\ MonthCount(s) + 12 <= LastCount
         /\ day_of_month(s) \in 1 .. 31
<1>1. s \in Int /\ s \in ValidDates /\ MinDate + Reach <= s /\ 1915 <= year(s)
  BY InnerDatesAre
<1>2. year(s + 1) <= 2185 /\ s + 1 \in ValidDates
  BY InnerDatesAre
<1>3. day_of_month(s) \in 1 .. 31
  <2>1. /\ day_of_month(s) \in 1 .. LengthOf(year(s), month(s))
        /\ LengthOf(year(s), month(s)) \in 28 .. 31
    BY <1>1, MonthCountIs
  <2> QED BY <2>1
<1>4. year(s) \in Int /\ month(s) \in 1 .. 12 /\ year(s) <= 2185
  <2> DEFINE t == s + 1
  <2>1. t \in ValidDates /\ s <= t /\ year(t) <= 2185
    BY <1>1, <1>2
  <2> HIDE DEF t
  <2>2. year(s) < year(t) \/ year(s) = year(t)
    BY <1>1, <2>1, MonthsInOrderOfDates
  <2>3. year(s) \in Int /\ month(s) \in 1 .. 12 /\ year(t) \in Int
    BY <1>1, <2>1, MonthCountIs
  <2> QED BY <2>1, <2>2, <2>3
<1>5. /\ MonthCount(s) \in MonthCounts
      /\ FirstCount + 12 <= MonthCount(s) /\ MonthCount(s) + 12 <= LastCount
  <2> DEFINE n == 12 * year(s) + month(s) - 1
  <2>1. n \in MonthCounts /\ FirstCount + 12 <= n /\ n + 12 <= LastCount
    <3> DEFINE y == year(s)
               m == month(s)
    <3>1. y \in Int /\ m \in 1 .. 12 /\ 1915 <= y /\ y <= 2185
      BY <1>1, <1>4
    <3> HIDE DEF y, m
    <3> DEFINE t == 12 * y + m - 1
    <3>2. t \in Int /\ FirstCount + 12 <= t /\ t + 12 <= LastCount
            /\ FirstCount <= t /\ t <= LastCount
      BY <3>1 DEF FirstCount, LastCount
    <3> HIDE DEF t
    <3>3. t \in MonthCounts
      BY <3>2, MonthCountsAre
    <3> QED BY <3>2, <3>3 DEF y, m, t
  <2> QED BY <2>1 DEF MonthCount
<1>6. s > 367 /\ s < 109500
  <2>1. s >= 367 + 60
    BY <1>1 DEF MinDate, Reach
  <2>2. s < 109500
    <3>1. s <= BeforeMonth(year(s), month(s) + 1)
      BY <1>1, DateIs
    <3>2. year(s) \in CivilYears /\ month(s) \in CivilMonths /\ year(s) \in 1900 .. 2201
      BY <1>1, <1>4, YearIs, DateIs, SMT DEF CivilYears
    <3>3. BeforeMonth(year(s), month(s) + 1) <= year_offset(year(s) + 1)
      BY <3>2, MonthsAre
    <3>4. BeforeMonth(year(s), month(s) + 1) \in Int
      <4>1. BeforeMonth(year(s), month(s)) \in Int /\ LengthOf(year(s), month(s)) \in 28 .. 31
            /\ BeforeMonth(year(s), month(s) + 1) = BeforeMonth(year(s), month(s)) + LengthOf(year(s), month(s))
        BY <3>2, MonthsAre
      <4> QED BY <4>1
    <3> DEFINE z == year(s) + 1
    <3>5. z \in 1900 .. 2201 /\ z <= 2186
      BY <1>1, <1>4
    <3> HIDE DEF z
    <3>6. year_offset(z) \in Int /\ year_offset(z) <= 365 * (z - 1900) + 76
      BY <3>5, YearOffsetIs
    <3>7. year_offset(z) < 109500
      BY <3>5, <3>6
    <3> QED BY <1>1, <3>1, <3>3, <3>4, <3>6, <3>7 DEF z
  <2> QED BY <1>1, <2>1, <2>2
<1> QED BY <1>1, <1>3, <1>5, <1>6

\* Months past the last of the type, or before its first, have no inner dates.
LEMMA OutOfType ==
  ASSUME NEW d \in 1 .. 31, NEW k \in Int, NEW s \in InnerDates
  PROVE  /\ k > LastCount => OnDay(d, k) \in Int /\ OnDay(d, k) > s
         /\ k < FirstCount => OnDay(d, k) \in Int /\ OnDay(d, k) < s
<1> DEFINE y == k \div 12
           m == (k % 12) + 1
           leap == is_leap(y)
           e == Clamped(d, month_length(m, leap))
           o == month_offset(m, leap)
<1>1. y \in Int /\ m \in 1 .. 12 /\ k = 12 * y + m - 1
  BY SMT
<1>2. leap \in BOOLEAN
  BY LeapOrNot
<1>3. OnDay(d, k) = e + o + year_offset(y)
  BY DEF OnDay, DateOf, Clamped
<1> HIDE DEF y, m, leap
<1>4. o \in Int /\ 0 <= o /\ o <= 335 /\ e \in 1 .. 31
  <2>1. o \in 0 .. 335
    BY <1>1, <1>2, SMT DEF month_offset
  <2>2. month_length(m, leap) \in 28 .. 31
    BY <1>1, <1>2, SMT DEF month_length
  <2> DEFINE length == month_length(m, leap)
  <2> HIDE DEF length
  <2>3. length \in 28 .. 31
    BY <2>2 DEF length
  <2>4. Clamped(d, length) \in 1 .. 31
    BY <2>3 DEF Clamped
  <2> HIDE DEF o
  <2> QED BY <2>1, <2>4 DEF length
<1> HIDE DEF e, o
<1>5. ASSUME y >= 2200 PROVE year_offset(y) \in Int /\ year_offset(y) >= 109500
  BY <1>1, <1>5, SMT DEF year_offset
<1>6. ASSUME y <= 1900 PROVE year_offset(y) \in Int /\ year_offset(y) <= 0
  BY <1>1, <1>6, SMT DEF year_offset
<1>7. ASSUME k > LastCount PROVE y >= 2200
  BY <1>1, <1>7 DEF LastCount
<1>8. ASSUME k < FirstCount PROVE y <= 1900
  BY <1>1, <1>8 DEF FirstCount
<1> DEFINE z == year_offset(y)
<1>9. OnDay(d, k) = e + o + z
  BY <1>3
<1> HIDE DEF z
<1>10. ASSUME k > LastCount PROVE z \in Int /\ z >= 109500
  BY <1>5, <1>7, <1>10 DEF z
<1>11. ASSUME k < FirstCount PROVE z \in Int /\ z <= 0
  BY <1>6, <1>8, <1>11 DEF z
<1>12. s \in Int /\ s > 367 /\ s < 109500
  BY InnerDatesBetween
<1> QED BY <1>4, <1>9, <1>10, <1>11, <1>12

\* What is not beyond the exit date is of the type, with all that is before it.
LEMMA NotBeyondIsInType ==
  ASSUME NEW a, Plain(a), NEW seed \in InnerDates, NEW exit \in InnerDates,
         NEW sign \in {1, -1}, NEW N \in Nat,
         N = 0 \/ ~(sign * (Step(a, seed, sign * N) - exit) > 0),
         NEW k \in 0 .. N
  PROVE  InType(a, seed, sign * k)
<1> SUFFICES ASSUME CountsMonths(a)
             PROVE  MonthCount(seed) + (sign * k) * InMonths(a.tenor) \in MonthCounts
  BY DEF InType
<1> DEFINE c == MonthCount(seed)
           d == day_of_month(seed)
           l == InMonths(a.tenor)
           t == c + (sign * N) * l
           x == Step(a, seed, sign * N)
<1>1. c \in MonthCounts /\ d \in 1 .. 31
  BY InnerDatesBetween
<1>2. exit \in Int
  BY InnerDatesBetween
<1>3. sign * N \in Int /\ sign * k \in Int
  OBVIOUS
<1>4. l \in Nat /\ x = OnDay(d, t)
  BY <1>3, StepMonths, Zenon
<1>5. /\ c \in Int /\ FirstCount <= c /\ c <= LastCount
      /\ FirstCount \in Int /\ LastCount \in Int
  <2>1. FirstCount \in Int /\ LastCount \in Int
    BY SMT DEF FirstCount, LastCount
  <2> QED BY <1>1, <2>1, MonthCountsAre, Zenon
<1>6. N = 0 \/ ~(sign * (x - exit) > 0)
  OBVIOUS
<1> HIDE DEF c, d, l, x
<1>7. k * l \in Nat /\ N * l \in Nat /\ k * l <= N * l
  <2>1. ASSUME NEW p \in Nat, NEW q \in Nat, NEW r \in Nat
        PROVE  p * r \in Nat /\ q * r \in Nat /\ (p + q) * r = p * r + q * r
    OBVIOUS
  <2> DEFINE j == N - k
  <2>2. j \in Nat /\ N = k + j /\ k \in Nat
    OBVIOUS
  <2> HIDE DEF j
  <2>3. k * l \in Nat /\ j * l \in Nat /\ (k + j) * l = k * l + j * l
    <3>1. l \in Nat
      BY <1>4
    <3>2. k * l \in Nat
      BY <2>1, <2>2, <3>1, Zenon
    <3>3. j * l \in Nat
      BY <2>1, <2>2, <3>1, Zenon
    <3>4. (k + j) * l = k * l + j * l
      BY <2>2, <3>1
    <3> QED BY <3>2, <3>3, <3>4
  <2>4. N * l = k * l + j * l
    BY <2>2, <2>3
  <2> QED BY <2>3, <2>4
<1> DEFINE u == k * l
           v == N * l
<1>8. CASE sign = 1
  <2>1. (sign * k) * l = u /\ t = c + v
    <3>1. sign * k = k /\ sign * N = N
      BY <1>8
    <3> QED BY <3>1
  <2> HIDE DEF t, u, v
  <2>2. u \in Nat /\ v \in Nat /\ u <= v /\ (N = 0 => v = 0)
    <3>1. N = 0 => v = 0
      BY <1>4 DEF v
    <3> QED BY <1>7, <3>1 DEF u, v
  <2>3. ASSUME t > LastCount PROVE FALSE
    <3>1. t \in Int
      BY <1>5, <2>1, <2>2
    <3>2. OnDay(d, t) \in Int /\ OnDay(d, t) > exit
      BY <1>1, <2>3, <3>1, OutOfType, Zenon
    <3>3. N # 0
      BY <1>5, <2>1, <2>2, <2>3
    <3> QED BY <1>2, <1>4, <1>6, <1>8, <3>2, <3>3
  <2>4. c + u \in Int /\ FirstCount <= c + u /\ c + u <= LastCount
    BY <1>5, <2>1, <2>2, <2>3
  <2>5. c + u \in MonthCounts
    BY <2>4, MonthCountsAre, Zenon
  <2> QED BY <2>1, <2>5 DEF c, l
<1>9. CASE sign = -1
  <2>1. (sign * k) * l = -u /\ t = c - v
    <3>1. sign * k = -k /\ sign * N = -N
      BY <1>9
    <3>2. (-k) * l = -(k * l) /\ (-N) * l = -(N * l)
      BY <1>4
    <3> QED BY <1>5, <1>7, <3>1, <3>2
  <2> HIDE DEF t, u, v
  <2>2. u \in Nat /\ v \in Nat /\ u <= v /\ (N = 0 => v = 0)
    <3>1. N = 0 => v = 0
      BY <1>4 DEF v
    <3> QED BY <1>7, <3>1 DEF u, v
  <2>3. ASSUME t < FirstCount PROVE FALSE
    <3>1. t \in Int
      BY <1>5, <2>1, <2>2
    <3>2. OnDay(d, t) \in Int /\ OnDay(d, t) < exit
      BY <1>1, <2>3, <3>1, OutOfType, Zenon
    <3>3. N # 0
      BY <1>5, <2>1, <2>2, <2>3
    <3> QED BY <1>2, <1>4, <1>6, <1>9, <3>2, <3>3
  <2>4. c + -u \in Int /\ FirstCount <= c + -u /\ c + -u <= LastCount
    BY <1>5, <2>1, <2>2, <2>3
  <2>5. c + -u \in MonthCounts
    BY <2>4, MonthCountsAre, Zenon
  <2> QED BY <2>1, <2>5 DEF c, l
<1> QED BY <1>8, <1>9

-----------------------------------------------------------------------------
(* Which periods are flagged regular *)

\* Two dates one tenor apart, in the direction they are found in.
Spans(a, sign, d, e) == IF sign = 1 THEN TenorApart(a, d, e) ELSE TenorApart(a, e, d)

\* No date was found twice, and no period is flagged that is not a tenor.
TenorsFlagged(a, sign, g) ==
  /\ Matched(g)
  /\ \A i \in 1 .. Len(g.regular) :
       /\ g.dates[i] # g.dates[i + 1]
       /\ g.regular[i] => Spans(a, sign, g.dates[i], g.dates[i + 1])

LEMMA PushKeepsFlags ==
  ASSUME NEW a, NEW sign, NEW g, TenorsFlagged(a, sign, g), NEW d, NEW flag \in BOOLEAN,
         d # Last(g.dates), flag => Spans(a, sign, Last(g.dates), d)
  PROVE  TenorsFlagged(a, sign, Push(g, d, flag)) /\ Last(Push(g, d, flag).dates) = d
<1> DEFINE ds == g.dates
           rs == g.regular
           m == Len(rs)
           es == Append(ds, d)
           qs == Append(rs, flag)
<1>1. PICK S : ds \in Seq(S)
  BY MatchedIs DEF TenorsFlagged
<1>2. rs \in Seq(BOOLEAN) /\ m \in Nat /\ Len(ds) = m + 1 /\ Matched(g)
  BY MatchedIs DEF TenorsFlagged
<1>3. /\ \A i \in 1 .. m + 1 : es[i] = ds[i]
      /\ es[(m + 1) + 1] = d
  <2>1. ds \in Seq(S \cup {d}) /\ d \in S \cup {d}
    BY <1>1, SeqMonotonic
  <2> DEFINE T == S \cup {d}
  <2> HIDE DEF T
  <2>2. es[Len(ds) + 1] = d /\ \A i \in 1 .. Len(ds) : es[i] = ds[i]
    BY <2>1, AppendProperties DEF T
  <2> QED BY <1>2, <2>2
<1>4. Len(qs) = m + 1 /\ qs[m + 1] = flag /\ \A i \in 1 .. m : qs[i] = rs[i]
  BY <1>2, AppendProperties
<1>5. Matched(Push(g, d, flag)) /\ Last(Push(g, d, flag).dates) = d
  BY <1>2, PushContinues DEF Continues
<1>6. Push(g, d, flag).dates = es /\ Push(g, d, flag).regular = qs
  BY DEF Push
<1>7. Last(ds) = ds[m + 1]
  BY <1>2 DEF Last
<1> HIDE DEF es, qs
<1>8. ASSUME NEW i \in 1 .. m + 1
      PROVE  es[i] # es[i + 1] /\ (qs[i] => Spans(a, sign, es[i], es[i + 1]))
  <2>1. CASE i = m + 1
    <3>1. es[i] = Last(ds) /\ es[i + 1] = d /\ qs[i] = flag
      BY <1>2, <1>3, <1>4, <1>7, <2>1
    <3> QED BY <3>1
  <2>2. CASE i # m + 1
    <3>1. i \in 1 .. m /\ i \in 1 .. m + 1 /\ i + 1 \in 1 .. m + 1
      BY <1>2, <2>2
    <3>2. es[i] = ds[i] /\ es[i + 1] = ds[i + 1] /\ qs[i] = rs[i]
      BY <1>3, <1>4, <3>1
    <3>3. ds[i] # ds[i + 1] /\ (rs[i] => Spans(a, sign, ds[i], ds[i + 1]))
      BY <3>1 DEF TenorsFlagged
    <3> QED BY <3>2, <3>3
  <2> QED BY <2>1, <2>2
<1> QED BY <1>4, <1>5, <1>6, <1>8 DEF TenorsFlagged

LEMMA PushDistinctKeepsFlags ==
  ASSUME NEW a, NEW sign, NEW g, TenorsFlagged(a, sign, g), NEW d, NEW flag \in BOOLEAN,
         flag => Spans(a, sign, Last(g.dates), d)
  PROVE  /\ TenorsFlagged(a, sign, PushDistinct(g, d, flag, Unadjusted))
         /\ Last(PushDistinct(g, d, flag, Unadjusted).dates) = d
<1>1. adjust(d, Unadjusted) = d /\ adjust(Last(g.dates), Unadjusted) = Last(g.dates)
  BY AdjustByConvention
<1>2. PushDistinct(g, d, flag, Unadjusted) = IF Last(g.dates) # d THEN Push(g, d, flag) ELSE g
  BY <1>1 DEF PushDistinct
<1> QED BY <1>2, PushKeepsFlags

\* Directions of a generation.
Directions == {1, -1}

LEMMA PushLastKeepsFlags ==
  ASSUME NEW a, a.convention = Unadjusted, NEW sign \in Directions, NEW g,
         TenorsFlagged(a, sign, g), NEW d
  PROVE  /\ TenorsFlagged(a, sign, PushLast(a, g, sign, d))
         /\ Last(PushLast(a, g, sign, d).dates) = d
<1> DEFINE flag == Step(a, Last(g.dates), sign) = d
<1>1. flag => Spans(a, sign, Last(g.dates), d)
  BY DEF Spans, TenorApart, Directions
<1>2. PushLast(a, g, sign, d) = PushDistinct(g, d, flag, Unadjusted) /\ flag \in BOOLEAN
  BY DEF PushLast
<1> HIDE DEF flag
<1> QED BY <1>1, <1>2, PushDistinctKeepsFlags

LEMMA PushStubKeepsFlags ==
  ASSUME NEW a, NEW sign \in Directions, NEW g, TenorsFlagged(a, sign, g), NEW stub,
         stub # Last(g.dates)
  PROVE  /\ TenorsFlagged(a, sign, PushStub(a, g, stub, sign))
         /\ Last(PushStub(a, g, stub, sign).dates)
              = IF stub = NullDate THEN Last(g.dates) ELSE stub
<1> DEFINE flag == Step(a, Last(g.dates), sign) = stub
<1>1. flag => Spans(a, sign, Last(g.dates), stub)
  BY DEF Spans, TenorApart, Directions
<1>2. /\ PushStub(a, g, stub, sign) = IF stub = NullDate THEN g ELSE Push(g, stub, flag)
      /\ flag \in BOOLEAN
  BY DEF PushStub
<1> HIDE DEF flag
<1> QED BY <1>1, <1>2, PushKeepsFlags

\* The first of the tenors is none, and each spans from the one before.
LEMMA NoTenor ==
  ASSUME NEW a, Plain(a), NEW seed \in InnerDates
  PROVE  Step(a, seed, 0) = seed
<1>1. seed \in ValidDates /\ seed \in Int
  BY InnerDatesAre
<1>2. CASE CountsMonths(a)
  <2>1. 0 \in Int
    OBVIOUS
  <2>2. /\ InMonths(a.tenor) \in Nat
        /\ Step(a, seed, 0) = OnDay(day_of_month(seed), MonthCount(seed) + 0 * InMonths(a.tenor))
    BY <1>2, <2>1, StepMonths, Zenon
  <2>3. MonthCount(seed) \in Int
    BY <1>1, MonthCountIs
  <2>4. MonthCount(seed) + 0 * InMonths(a.tenor) = MonthCount(seed)
    <3> DEFINE c == MonthCount(seed)
               l == InMonths(a.tenor)
    <3>1. c \in Int /\ l \in Nat
      BY <2>2, <2>3
    <3> HIDE DEF c, l
    <3>2. c + 0 * l = c
      BY <3>1
    <3> QED BY <3>2 DEF c, l
  <2>5. Step(a, seed, 0) = OnDay(day_of_month(seed), MonthCount(seed))
    BY <2>2, <2>4, Zenon
  <2> QED BY <1>1, <2>5, OnItsDay
<1>3. CASE ~CountsMonths(a)
  <2> DEFINE z == 0 * a.tenor.length
  <2>1. a.tenor.units \in {Days, Weeks} /\ z = 0
    BY <1>3 DEF Plain, CountsMonths
  <2>2. Step(a, seed, 0) = advance(seed, z, a.tenor.units)
    BY StepIs
  <2> HIDE DEF z
  <2>3. Step(a, seed, 0) \in {seed + 0, seed + 7 * 0}
    BY <2>1, <2>2 DEF advance, Days, Weeks
  <2> QED BY <1>1, <2>3
<1> QED BY <1>2, <1>3

LEMMA TenorSpans ==
  ASSUME NEW a, Plain(a), NEW seed \in InnerDates, NEW sign \in Directions, NEW k \in Nat,
         InType(a, seed, sign * k), InType(a, seed, sign * (k + 1))
  PROVE  Spans(a, sign, Step(a, seed, sign * k), Step(a, seed, sign * (k + 1)))
<1>1. seed \in ValidDates
  BY InnerDatesAre
<1>2. CASE sign = 1
  <2>1. k \in Int /\ sign * k = k /\ sign * (k + 1) = k + 1
    BY <1>2
  <2>2. TenorApart(a, Step(a, seed, k), Step(a, seed, k + 1))
    BY <1>1, <2>1, ConsecutiveTenors
  <2> QED BY <1>2, <2>1, <2>2 DEF Spans
<1>3. CASE sign = -1
  <2> DEFINE n == -(k + 1)
  <2>1. n \in Int /\ sign * k = n + 1 /\ sign * (k + 1) = n
    BY <1>3
  <2> HIDE DEF n
  <2>2. TenorApart(a, Step(a, seed, n), Step(a, seed, n + 1))
    BY <1>1, <2>1, ConsecutiveTenors
  <2>3. sign # 1
    BY <1>3
  <2> QED BY <2>1, <2>2, <2>3 DEF Spans
<1> QED BY <1>2, <1>3 DEF Directions

LEMMA FindsKeepFlags ==
  ASSUME NEW a, Plain(a), a.convention = Unadjusted, NEW sign \in Directions, NEW g,
         TenorsFlagged(a, sign, g), Last(g.dates) \in InnerDates, NEW N \in Nat,
         \A k \in 0 .. N : InType(a, Last(g.dates), sign * k), NEW f,
         Finds(f, a, g, TenorDates(a, Last(g.dates), sign, N), N)
  PROVE  TenorsFlagged(a, sign, f[N])
<1> DEFINE seed == Last(g.dates)
           dates == [k \in 0 .. N |-> Step(a, seed, sign * k)]
           T == {k \in 0 .. N : TenorsFlagged(a, sign, f[k])
                                  /\ Last(f[k].dates) = Step(a, seed, sign * k)}
           next(x, k) == PushDistinct(x, dates[k], TRUE, a.convention)
<1>1. f = [k \in 0 .. N |-> IF k = 0 THEN g ELSE next(f[k - 1], k)]
  BY DEF Finds, TenorDates
<1>2. 0 \in T
  <2>1. 0 \in 0 .. N /\ sign * 0 = 0
    BY DEF Directions
  <2>2. f[0] = g
    BY <1>1, <2>1
  <2>3. Step(a, seed, sign * 0) = seed
    BY <2>1, NoTenor
  <2> QED BY <2>1, <2>2, <2>3
<1>3. ASSUME NEW k \in 0 .. N - 1, k \in T PROVE k + 1 \in T
  <2>1. /\ k + 1 \in 0 .. N /\ k \in 0 .. N /\ k + 1 # 0 /\ (k + 1) - 1 = k /\ k \in Nat
    OBVIOUS
  <2>2. f[k + 1] = PushDistinct(f[k], dates[k + 1], TRUE, Unadjusted)
    BY <1>1, <2>1
  <2>3. dates[k + 1] = Step(a, seed, sign * (k + 1))
    BY <2>1
  <2>4. TenorsFlagged(a, sign, f[k]) /\ Last(f[k].dates) = Step(a, seed, sign * k)
    BY <1>3
  <2>5. Spans(a, sign, Step(a, seed, sign * k), Step(a, seed, sign * (k + 1)))
    <3>1. InType(a, seed, sign * k) /\ InType(a, seed, sign * (k + 1))
      BY <2>1, Zenon
    <3> HIDE DEF seed
    <3>2. seed \in InnerDates
      BY DEF seed
    <3> QED BY <2>1, <3>1, <3>2, TenorSpans, Zenon
  <2> DEFINE d == Step(a, seed, sign * (k + 1))
             x == f[k]
             flag == TRUE
  <2> HIDE DEF dates, seed, d, x, T, next
  <2>6. TenorsFlagged(a, sign, x) /\ Spans(a, sign, Last(x.dates), d)
    BY <2>4, <2>5 DEF d, x
  <2>7. /\ TenorsFlagged(a, sign, PushDistinct(x, d, flag, Unadjusted))
        /\ Last(PushDistinct(x, d, flag, Unadjusted).dates) = d
    <3>1. flag \in BOOLEAN
      OBVIOUS
    <3> HIDE DEF flag
    <3> QED BY <2>6, <3>1, PushDistinctKeepsFlags
  <2>8. TenorsFlagged(a, sign, f[k + 1]) /\ Last(f[k + 1].dates) = d
    BY <2>2, <2>3, <2>7 DEF d, x
  <2> QED BY <2>1, <2>8 DEF d, T
<1> HIDE DEF T
<1>4. \A k \in 0 .. N : k \in T
  BY <1>2, <1>3, StepByStep
<1>5. N \in 0 .. N
  OBVIOUS
<1> QED BY <1>4, <1>5 DEF T

LEMMA RollTenorsKeepsFlags ==
  ASSUME NEW a, Plain(a), a.convention = Unadjusted, NEW sign \in Directions, NEW g,
         TenorsFlagged(a, sign, g), Last(g.dates) \in InnerDates, NEW exit \in InnerDates
  PROVE  TenorsFlagged(a, sign, RollTenors(a, g, Last(g.dates), sign, exit))
<1> DEFINE seed == Last(g.dates)
<1> HIDE DEF seed
<1>1. PICK N, f :
        /\ N \in Nat
        /\ Finds(f, a, g, TenorDates(a, seed, sign, N), N)
        /\ N = 0 \/ ~(sign * (Step(a, seed, sign * N) - exit) > 0)
        /\ RollTenors(a, g, seed, sign, exit) = f[N]
  BY RollTenorsAre
<1>2. \A k \in 0 .. N : InType(a, seed, sign * k)
  <2>1. seed \in InnerDates /\ sign \in {1, -1}
    BY DEF seed, Directions
  <2> QED BY <1>1, <2>1, NotBeyondIsInType, Zenon
<1>3. TenorsFlagged(a, sign, f[N])
  BY <1>1, <1>2, FindsKeepFlags, Zenon DEF seed
<1> QED BY <1>1, <1>3, Zenon DEF seed

LEMMA RollKeepsFlags ==
  ASSUME NEW a, Plain(a), a.convention = Unadjusted, NEW sign \in Directions, NEW g,
         TenorsFlagged(a, sign, g), Last(g.dates) \in InnerDates, NEW end \in InnerDates,
         NEW stub \in InnerDates \cup {NullDate}
  PROVE  TenorsFlagged(a, sign, Roll(a, g, sign, end, stub))
<1> DEFINE exit == IF stub # NullDate THEN stub ELSE end
           all == RollTenors(a, g, Last(g.dates), sign, exit)
<1>1. exit \in InnerDates
  BY Zenon
<1>2. Roll(a, g, sign, end, stub) = IF stub = NullDate THEN all ELSE PushLast(a, all, sign, stub)
  BY DEF Roll
<1> HIDE DEF exit
<1>3. TenorsFlagged(a, sign, all)
  BY <1>1, RollTenorsKeepsFlags
<1> HIDE DEF all
<1> QED BY <1>2, <1>3, PushLastKeepsFlags

LEMMA ReversedKeepsFlags ==
  ASSUME NEW a, NEW g, TenorsFlagged(a, -1, g), NEW seed
  PROVE  \E m : /\ TenorsFlagged(a, 1, m)
                /\ Reversed(g, seed) = [dates |-> m.dates, regular |-> m.regular, seed |-> seed]
<1> DEFINE ds == g.dates
           rs == g.regular
           n == Len(rs)
           es == Reverse(ds)
           qs == Reverse(rs)
           m == [dates |-> es, regular |-> qs]
<1>1. PICK S : ds \in Seq(S)
  BY MatchedIs DEF TenorsFlagged
<1>2. rs \in Seq(BOOLEAN) /\ n \in Nat /\ Len(ds) = n + 1 /\ Matched(g)
  BY MatchedIs DEF TenorsFlagged
<1>3. ASSUME NEW T, NEW s \in Seq(T), NEW c \in Nat, Len(s) = c
      PROVE  /\ Reverse(s) \in Seq(T) /\ Len(Reverse(s)) = c
             /\ \A i \in 1 .. c : Reverse(s)[i] = s[(c - i) + 1]
  <2>1. \A i \in 1 .. c : s[i] \in T
    BY <1>3, ElementOfSeq
  <2>2. Reverse(s) = [i \in 1 .. c |-> s[(c - i) + 1]]
    BY <1>3 DEF Reverse
  <2>3. \A i \in 1 .. c : s[(c - i) + 1] \in T
    <3> SUFFICES ASSUME NEW i \in 1 .. c PROVE s[(c - i) + 1] \in T
      OBVIOUS
    <3>1. (c - i) + 1 \in 1 .. c
      OBVIOUS
    <3> QED BY <2>1, <3>1
  <2>4. Reverse(s) \in [1 .. c -> T]
    BY <2>2, <2>3
  <2> QED BY <2>2, <2>4
<1>4. /\ es \in Seq(S) /\ Len(es) = n + 1
      /\ \A i \in 1 .. n + 1 : es[i] = ds[((n + 1) - i) + 1]
  <2>1. n + 1 \in Nat
    BY <1>2
  <2> HIDE DEF n
  <2> QED BY <1>1, <1>2, <1>3, <2>1
<1>5. /\ qs \in Seq(BOOLEAN) /\ Len(qs) = n
      /\ \A i \in 1 .. n : qs[i] = rs[(n - i) + 1]
  BY <1>2, <1>3
<1>6. Reversed(g, seed) = [dates |-> m.dates, regular |-> m.regular, seed |-> seed]
  BY DEF Reversed
<1> HIDE DEF es, qs
<1>7. Matched(m)
  BY <1>4, <1>5, MatchedWhen
<1>8. m.dates = es /\ m.regular = qs
  OBVIOUS
<1> HIDE DEF m
<1>9. ASSUME NEW i \in 1 .. n
      PROVE  es[i] # es[i + 1] /\ (qs[i] => Spans(a, 1, es[i], es[i + 1]))
  <2> DEFINE j == (n - i) + 1
  <2>1. /\ j \in 1 .. n /\ i \in 1 .. n + 1 /\ i + 1 \in 1 .. n + 1
        /\ ((n + 1) - i) + 1 = j + 1 /\ ((n + 1) - (i + 1)) + 1 = j
    <3> HIDE DEF n
    <3> QED BY <1>2
  <2>2. es[i] = ds[j + 1] /\ es[i + 1] = ds[j] /\ qs[i] = rs[j]
    BY <1>4, <1>5, <2>1
  <2> HIDE DEF j
  <2>3. ds[j] # ds[j + 1] /\ (rs[j] => Spans(a, -1, ds[j], ds[j + 1]))
    BY <2>1 DEF TenorsFlagged
  <2> QED BY <2>2, <2>3 DEF Spans
<1>10. TenorsFlagged(a, 1, m)
  BY <1>5, <1>7, <1>8, <1>9 DEF TenorsFlagged
<1> QED BY <1>6, <1>10

LEMMA PushTerminationKeepsFlags ==
  ASSUME NEW a, a.rule \notin OnTheTwentieth, a.terminationConvention = Unadjusted,
         NEW g, TenorsFlagged(a, 1, g)
  PROVE  TenorsFlagged(a, 1, PushTermination(a, g))
<1> DEFINE flag == FALSE
<1>1. PushTermination(a, g) = PushDistinct(g, a.termination, flag, Unadjusted)
  BY DEF PushTermination, PushDistinct
<1>2. flag \in BOOLEAN /\ ~flag
  OBVIOUS
<1> HIDE DEF flag
<1> QED BY <1>1, <1>2, PushDistinctKeepsFlags

LEMMA OneDateFlagged ==
  ASSUME NEW a, NEW sign, NEW d
  PROVE  /\ TenorsFlagged(a, sign, [dates |-> <<d>>, regular |-> <<>>])
         /\ Last([dates |-> <<d>>, regular |-> <<>>].dates) = d
<1> DEFINE g == [dates |-> <<d>>, regular |-> <<>>]
<1>1. Matched(g)
  BY OneDateMatches
<1>2. g.dates = <<d>> /\ Len(g.regular) = 0
  OBVIOUS
<1>3. Last(<<d>>) = d
  BY DEF Last
<1> HIDE DEF g
<1>4. TenorsFlagged(a, sign, g) /\ Last(g.dates) = d
  BY <1>1, <1>2, <1>3 DEF TenorsFlagged
<1> QED BY <1>4 DEF g

\* Between two inner dates are inner dates.
LEMMA InnerDatesAreAll ==
  ASSUME NEW d \in InnerDates, NEW e \in InnerDates, NEW x \in Int, d <= x, x <= e
  PROVE  x \in InnerDates
<1> DEFINE a == DateOf(1, 1, 1915)
           b == DateOf(30, 12, 2185)
<1>1. a \in ValidDates
  <2>1. 1915 \in CivilYears /\ 1 \in CivilMonths /\ 1915 >= 1901
    BY SMT DEF CivilYears, CivilMonths
  <2>2. 1 \in 1 .. LengthOf(1915, 1)
    BY <2>1, MonthsAre
  <2> QED BY <2>1, <2>2, DateHasItsDay
<1>2. b \in ValidDates
  <2>1. 2185 \in CivilYears /\ 12 \in CivilMonths /\ 2185 >= 1901
    BY SMT DEF CivilYears, CivilMonths
  <2>2. LengthOf(2185, 12) = 31
    BY SMT DEF LengthOf, month_length
  <2>3. 30 \in 1 .. LengthOf(2185, 12)
    BY <2>2
  <2> QED BY <2>1, <2>3, DateHasItsDay
<1>3. d \in a .. b /\ e \in a .. b
  BY DEF InnerDates
<1> HIDE DEF a, b
<1>4. a \in Int /\ b \in Int
  BY <1>1, <1>2, ValidDatesAre
<1>5. x \in a .. b
  BY <1>3, <1>4
<1> QED BY <1>5 DEF InnerDates, a, b

\* Arguments whose dates no rolling moves.
Unrolled(a) ==
  /\ Plain(a) /\ a.rule \in {Backward, Forward}
  /\ a.convention = Unadjusted /\ a.terminationConvention = Unadjusted
  /\ a.effective \in InnerDates /\ a.termination \in InnerDates
  /\ a.first \in InnerDates \cup {NullDate} /\ a.nextToLast \in InnerDates \cup {NullDate}
  /\ a.first # a.effective /\ a.nextToLast # a.termination

LEMMA BackwardKeepsFlags ==
  ASSUME NEW a, Unrolled(a), a.rule = Backward
  PROVE  \E m, seed : /\ TenorsFlagged(a, 1, m)
                      /\ Generate(a) = [dates |-> m.dates, regular |-> m.regular, seed |-> seed]
<1> DEFINE sign == -1
           seeded == [dates |-> <<a.termination>>, regular |-> <<>>]
           stubbed == PushStub(a, seeded, a.nextToLast, sign)
           all == Roll(a, stubbed, sign, a.effective, a.first)
           g == PushLast(a, all, sign, a.effective)
           seed == Last(stubbed.dates)
<1>1. Generate(a) = Reversed(g, seed)
  BY DEF Generate, GenerateBackward, BackwardFrom, Zero, Backward
<1>2. TenorsFlagged(a, sign, seeded) /\ Last(seeded.dates) = a.termination
  BY OneDateFlagged
<1>0. sign \in Directions /\ Plain(a) /\ a.convention = Unadjusted
  BY DEF Directions, Unrolled
<1> HIDE DEF seeded, sign
<1>3. TenorsFlagged(a, sign, stubbed) /\ seed \in InnerDates
  <2>1. a.nextToLast # Last(seeded.dates)
    BY <1>2 DEF Unrolled
  <2>2. /\ TenorsFlagged(a, sign, stubbed)
        /\ seed = IF a.nextToLast = NullDate THEN a.termination ELSE a.nextToLast
    BY <1>0, <1>2, <2>1, PushStubKeepsFlags
  <2> HIDE DEF stubbed
  <2> QED BY <2>2 DEF Unrolled
<1> HIDE DEF stubbed
<1>4. TenorsFlagged(a, sign, all)
  <2>1. a.effective \in InnerDates /\ a.first \in InnerDates \cup {NullDate}
    BY DEF Unrolled
  <2> QED BY <1>0, <1>3, <2>1, RollKeepsFlags
<1> HIDE DEF all
<1>5. TenorsFlagged(a, sign, g)
  BY <1>0, <1>4, PushLastKeepsFlags
<1> HIDE DEF g, seed
<1>6. TenorsFlagged(a, -1, g)
  BY <1>5 DEF sign
<1> QED BY <1>1, <1>6, ReversedKeepsFlags

LEMMA ForwardKeepsFlags ==
  ASSUME NEW a, Unrolled(a), a.rule = Forward
  PROVE  \E m, seed : /\ TenorsFlagged(a, 1, m)
                      /\ Generate(a) = [dates |-> m.dates, regular |-> m.regular, seed |-> seed]
<1> DEFINE sign == 1
           seeded == [dates |-> <<a.effective>>, regular |-> <<>>]
           stubbed == PushStub(a, seeded, a.first, sign)
           all == Roll(a, stubbed, sign, a.termination, a.nextToLast)
           g == PushTermination(a, all)
           seed == Last(stubbed.dates)
<1>1. Generate(a) = [dates |-> g.dates, regular |-> g.regular, seed |-> seed]
  <2>1. a.rule \notin OnTheTwentieth /\ a.rule \notin {CDS, CDS2015, Zero, Backward}
    BY DEF OnTheTwentieth, Twentieth, TwentiethIMM, OldCDS, CDS, CDS2015, Zero, Backward, Forward
  <2>2. ForwardStart(a) = seeded
    BY <2>1 DEF ForwardStart
  <2>3. PushTwentieth(a, seeded) = seeded
    BY <2>1 DEF PushTwentieth
  <2>4. (IF a.first # NullDate THEN PushStub(a, ForwardStart(a), a.first, 1)
                               ELSE PushTwentieth(a, ForwardStart(a))) = stubbed
    BY <2>2, <2>3 DEF PushStub
  <2>5. Generate(a) = GenerateForward(a)
    BY <2>1 DEF Generate
  <2> HIDE DEF stubbed
  <2>6. Generate(a) = ForwardFrom(a, stubbed)
    BY <2>4, <2>5 DEF GenerateForward
  <2> QED BY <2>6 DEF ForwardFrom
<1>2. TenorsFlagged(a, sign, seeded) /\ Last(seeded.dates) = a.effective
  BY OneDateFlagged
<1>0. sign \in Directions /\ Plain(a) /\ a.convention = Unadjusted
  BY DEF Directions, Unrolled
<1> HIDE DEF seeded, sign
<1>3. TenorsFlagged(a, sign, stubbed) /\ seed \in InnerDates
  <2>1. a.first # Last(seeded.dates)
    BY <1>2 DEF Unrolled
  <2>2. /\ TenorsFlagged(a, sign, stubbed)
        /\ seed = IF a.first = NullDate THEN a.effective ELSE a.first
    BY <1>0, <1>2, <2>1, PushStubKeepsFlags
  <2> HIDE DEF stubbed
  <2> QED BY <2>2 DEF Unrolled
<1> HIDE DEF stubbed
<1>4. TenorsFlagged(a, sign, all)
  <2>1. a.termination \in InnerDates /\ a.nextToLast \in InnerDates \cup {NullDate}
    BY DEF Unrolled
  <2> QED BY <1>0, <1>3, <2>1, RollKeepsFlags
<1> HIDE DEF all
<1>5. TenorsFlagged(a, 1, g)
  <2>1. a.rule \notin OnTheTwentieth /\ a.terminationConvention = Unadjusted
    BY DEF Unrolled, OnTheTwentieth, Twentieth, TwentiethIMM, OldCDS, CDS, CDS2015, Forward
  <2>2. TenorsFlagged(a, 1, all)
    BY <1>4 DEF sign
  <2> QED BY <2>1, <2>2, PushTerminationKeepsFlags
<1> HIDE DEF g, seed
<1> QED BY <1>1, <1>5

\* Dates that no convention moves are left as they were found.
LEMMA UnrolledStays ==
  ASSUME NEW a, Unrolled(a), NEW m, Matched(m), NEW seed
  PROVE  Rolled(a, [dates |-> m.dates, regular |-> m.regular, seed |-> seed]) = m
<1> DEFINE s == m.dates
           es == OnThirdWednesdays(a, s)
           fs == AdjustDates(a, seed, s)
<1>1. PICK S : s \in Seq(S)
  BY MatchedIs
<1>2. m = [dates |-> s, regular |-> m.regular]
  BY MatchedIs
<1>3. s = [i \in DOMAIN s |-> s[i]]
  BY <1>1
<1> HIDE DEF s
<1>4. a.rule \notin {ThirdWednesday, ThirdWednesdayInclusive, OldCDS, CDS, CDS2015}
  BY DEF Unrolled, ThirdWednesday, ThirdWednesdayInclusive, OldCDS, CDS, CDS2015, Backward, Forward
<1>5. es = s
  BY <1>3, <1>4 DEF OnThirdWednesdays
<1>6. fs = s
  <2>1. a.convention = Unadjusted /\ a.terminationConvention = Unadjusted /\ a.endOfMonth = FALSE
    BY DEF Unrolled, Plain
  <2>2. ASSUME NEW d PROVE adjust(d, Unadjusted) = d
    BY AdjustByConvention
  <2>3. fs = [i \in DOMAIN s |-> s[i]]
    BY <1>4, <2>1, <2>2 DEF AdjustDates
  <2> QED BY <1>3, <2>3
<1>7. Rolled(a, [dates |-> s, regular |-> m.regular, seed |-> seed])
        = [dates |-> fs, regular |-> m.regular]
  BY <1>5 DEF Rolled
<1> QED BY <1>2, <1>6, <1>7 DEF s

\* What is dropped where dates met leaves no flag that is not a tenor's, and only
\* the last two dates may still be one.
TenorsKept(a, g) ==
  /\ Matched(g)
  /\ \A i \in 1 .. Len(g.regular) :
       /\ i < Len(g.regular) => g.dates[i] # g.dates[i + 1]
       /\ g.regular[i] => TenorApart(a, g.dates[i], g.dates[i + 1])

LEMMA CollapseLastKeepsTenors ==
  ASSUME NEW a, NEW g, TenorsFlagged(a, 1, g)
  PROVE  TenorsKept(a, CollapseLast(g))
<1> DEFINE m == Len(g.regular)
           h == CollapseLast(g)
<1>1. Matched(g) /\ m \in Nat /\ Len(g.dates) = m + 1
  BY MatchedIs DEF TenorsFlagged
<1>2. ASSUME NEW i \in 1 .. m
      PROVE  /\ g.dates[i] # g.dates[i + 1]
             /\ g.regular[i] => TenorApart(a, g.dates[i], g.dates[i + 1])
  BY DEF TenorsFlagged, Spans
<1>3. CASE m >= 1 /\ g.dates[m] >= g.dates[m + 1]
  <2>1. /\ Matched(h) /\ Len(h.regular) = m - 1
        /\ h.dates[m] = g.dates[m + 1]
        /\ \A i \in 1 .. m - 1 : h.dates[i] = g.dates[i]
        /\ \A i \in 1 .. m - 2 : h.regular[i] = g.regular[i]
        /\ m >= 2 => h.regular[m - 1] = (g.dates[m] = g.dates[m + 1])
    BY <1>1, <1>3, CollapsedLast
  <2> HIDE DEF h, m
  <2>2. ASSUME NEW i \in 1 .. m - 1
        PROVE  /\ i < m - 1 => h.dates[i] # h.dates[i + 1]
               /\ h.regular[i] => TenorApart(a, h.dates[i], h.dates[i + 1])
    <3>1. CASE i = m - 1
      <4>1. m >= 2 /\ m \in 1 .. m /\ ~(i < m - 1)
        BY <1>1, <3>1
      <4>2. g.dates[m] # g.dates[m + 1]
        BY <1>2, <4>1
      <4>3. h.regular[i] = FALSE
        BY <2>1, <3>1, <4>1, <4>2
      <4> QED BY <4>1, <4>3
    <3>2. CASE i # m - 1
      <4>1. i \in 1 .. m - 2 /\ i \in 1 .. m - 1 /\ i + 1 \in 1 .. m - 1 /\ i \in 1 .. m
        BY <1>1, <3>2
      <4>2. h.dates[i] = g.dates[i] /\ h.dates[i + 1] = g.dates[i + 1] /\ h.regular[i] = g.regular[i]
        BY <2>1, <4>1
      <4> QED BY <1>2, <4>1, <4>2
    <3> QED BY <3>1, <3>2
  <2>3. TenorsKept(a, h)
    BY <2>1, <2>2 DEF TenorsKept
  <2> QED BY <2>3 DEF h
<1>4. CASE ~(m >= 1 /\ g.dates[m] >= g.dates[m + 1])
  <2>1. ~(m + 1 >= 2 /\ g.dates[(m + 1) - 1] >= g.dates[m + 1])
    BY <1>1, <1>4
  <2>2. h = g
    BY <1>1, <2>1 DEF CollapseLast
  <2> QED BY <1>1, <1>2, <2>2 DEF TenorsKept
<1> QED BY <1>3, <1>4

LEMMA CollapseFirstKeepsTenors ==
  ASSUME NEW a, NEW g, TenorsKept(a, g)
  PROVE  LET h == CollapseFirst(g)
         IN  \A i \in DOMAIN h.regular : h.regular[i] => TenorApart(a, h.dates[i], h.dates[i + 1])
<1> DEFINE m == Len(g.regular)
           h == CollapseFirst(g)
<1>1. /\ Matched(g) /\ m \in Nat /\ Len(g.dates) = m + 1 /\ DOMAIN g.regular = 1 .. m
  BY MatchedIs DEF TenorsKept
<1>2. ASSUME NEW i \in 1 .. m
      PROVE  /\ i < m => g.dates[i] # g.dates[i + 1]
             /\ g.regular[i] => TenorApart(a, g.dates[i], g.dates[i + 1])
  BY DEF TenorsKept
<1>3. CASE m >= 1 /\ g.dates[2] <= g.dates[1]
  <2>1. /\ Matched(h) /\ Len(h.regular) = m - 1
        /\ h.dates[1] = g.dates[1]
        /\ \A i \in 2 .. m : h.dates[i] = g.dates[i + 1]
        /\ \A i \in 2 .. m - 1 : h.regular[i] = g.regular[i + 1]
        /\ m >= 2 => h.regular[1] = (g.dates[2] = g.dates[1])
    BY <1>1, <1>3, CollapsedFirst
  <2>2. DOMAIN h.regular = 1 .. m - 1
    <3> HIDE DEF h, m
    <3>1. DOMAIN h.regular = 1 .. Len(h.regular)
      BY <2>1, MatchedIs
    <3> QED BY <2>1, <3>1
  <2> HIDE DEF h, m
  <2>3. ASSUME NEW i \in 1 .. m - 1
        PROVE  h.regular[i] => TenorApart(a, h.dates[i], h.dates[i + 1])
    <3>1. CASE i = 1
      <4>1. m >= 2 /\ 1 \in 1 .. m /\ 1 < m
        BY <1>1, <3>1
      <4>2. g.dates[1] # g.dates[2]
        BY <1>2, <4>1
      <4>3. h.regular[i] = FALSE
        BY <2>1, <3>1, <4>1, <4>2
      <4> QED BY <4>3
    <3>2. CASE i # 1
      <4>1. i \in 2 .. m - 1 /\ i \in 2 .. m /\ i + 1 \in 2 .. m /\ i + 1 \in 1 .. m
        BY <1>1, <3>2
      <4>2. /\ h.dates[i] = g.dates[i + 1] /\ h.dates[i + 1] = g.dates[(i + 1) + 1]
            /\ h.regular[i] = g.regular[i + 1]
        BY <2>1, <4>1
      <4> QED BY <1>2, <4>1, <4>2
    <3> QED BY <3>1, <3>2
  <2> QED BY <2>2, <2>3 DEF h
<1>4. CASE ~(m >= 1 /\ g.dates[2] <= g.dates[1])
  <2>1. ~(m + 1 >= 2 /\ g.dates[2] <= g.dates[1])
    BY <1>1, <1>4
  <2>2. h = g
    BY <1>1, <2>1 DEF CollapseFirst
  <2> QED BY <1>1, <1>2, <2>2
<1> QED BY <1>3, <1>4

\* Where no rolling moves the dates, what is built flags tenors and nothing else.
LEMMA BuiltFlagsTenors ==
  ASSUME NEW a, Unrolled(a)
  PROVE  LET s == Built(a)
         IN  \A i \in DOMAIN s.regular : s.regular[i] => TenorApart(a, s.dates[i], s.dates[i + 1])
<1>1. PICK m, seed : /\ TenorsFlagged(a, 1, m)
                     /\ Generate(a) = [dates |-> m.dates, regular |-> m.regular, seed |-> seed]
  BY BackwardKeepsFlags, ForwardKeepsFlags DEF Unrolled
<1>2. Rolled(a, Generate(a)) = m
  BY <1>1, UnrolledStays DEF TenorsFlagged
<1> DEFINE h == CollapseFirst(CollapseLast(m))
<1>3. \A i \in DOMAIN h.regular : h.regular[i] => TenorApart(a, h.dates[i], h.dates[i + 1])
  BY <1>1, CollapseLastKeepsTenors, CollapseFirstKeepsTenors
<1>4. Built(a).dates = h.dates /\ Built(a).regular = h.regular
  BY <1>2 DEF Built, Recorded
<1> QED BY <1>3, <1>4

\* The arguments of a schedule that is rolled nowhere and snapped nowhere.
LEMMA AcceptedIsUnrolled ==
  ASSUME NEW spec \in Specifications, Accepted(Normalised(spec)),
         Normalised(spec).rule \in {Backward, Forward}, ~Normalised(spec).endOfMonth,
         Normalised(spec).convention = Unadjusted,
         Normalised(spec).terminationConvention = Unadjusted
  PROVE  Unrolled(Normalised(spec))
<1> DEFINE a == Normalised(spec)
<1>1. /\ spec.effective \in InnerDates /\ spec.termination \in InnerDates
      /\ spec.tenor \in [length : Int, units : {Days, Weeks, Months, Years}]
      /\ spec.first \in Int /\ spec.nextToLast \in Int
  BY SpecificationsAssumption
<1>2. /\ a.effective = spec.effective /\ a.termination = spec.termination /\ a.tenor = spec.tenor
      /\ a.endOfMonth = (spec.endOfMonth /\ allows_end_of_month(spec.tenor))
      /\ a.first = IF spec.first = spec.effective THEN NullDate ELSE spec.first
      /\ a.nextToLast = IF spec.nextToLast = spec.termination THEN NullDate ELSE spec.nextToLast
  <2>1. spec \in [effective : InnerDates, termination : InnerDates,
                  tenor : [length : Int, units : {Days, Weeks, Months, Years}],
                  convention : Conventions, terminationConvention : Conventions,
                  rule : DateGeneration, endOfMonth : BOOLEAN, first : Int, nextToLast : Int]
    BY SpecificationsAssumption
  <2> QED BY <2>1 DEF Normalised
<1>3. Accepted(a) /\ a.rule \in {Backward, Forward} /\ ~a.endOfMonth
      /\ a.convention = Unadjusted /\ a.terminationConvention = Unadjusted
  OBVIOUS
<1> HIDE DEF a
<1>4. a.rule # ThirdWednesday /\ NullDate \in Int
  BY <1>3 DEF Backward, Forward, ThirdWednesday, NullDate
<1>5. /\ NullDate < a.effective /\ a.effective < a.termination /\ a.tenor.length >= 0
      /\ a.first # NullDate => a.effective < a.first /\ a.first <= a.termination
      /\ a.nextToLast # NullDate => a.effective <= a.nextToLast /\ a.nextToLast < a.termination
  BY <1>3, <1>4 DEF Accepted
<1>6. Plain(a)
  BY <1>1, <1>2, <1>3, <1>5 DEF Plain
<1>7. /\ a.effective \in Int /\ a.termination \in Int
      /\ a.effective \in InnerDates /\ a.termination \in InnerDates
      /\ a.first \in Int /\ a.nextToLast \in Int
  BY <1>1, <1>2, <1>4, InnerDatesAre
<1>8. /\ a.first = NullDate \/ a.first \in InnerDates
      /\ a.nextToLast = NullDate \/ a.nextToLast \in InnerDates
  <2>1. ASSUME a.first # NullDate PROVE a.first \in InnerDates
    <3>1. a.effective <= a.first /\ a.first <= a.termination
      BY <1>5, <1>7, <2>1
    <3> QED BY <1>7, <3>1, InnerDatesAreAll
  <2>2. ASSUME a.nextToLast # NullDate PROVE a.nextToLast \in InnerDates
    <3>1. a.effective <= a.nextToLast /\ a.nextToLast <= a.termination
      BY <1>5, <1>7, <2>2
    <3> QED BY <1>7, <3>1, InnerDatesAreAll
  <2> QED BY <2>1, <2>2
<1>9. a.first # a.effective /\ a.nextToLast # a.termination
  BY <1>4, <1>5, <1>7
<1> QED BY <1>3, <1>6, <1>7, <1>8, <1>9 DEF Unrolled, a

\* No cut has been made, or the count of them says so.
FlagsInv == StubsAreNotRegular /\ cuts \in Nat

(* Whatever Schedule::new is asked for, within the dates: where nothing rolls the *)
(* dates nor snaps them to ends of month, no stub is flagged as a whole period,   *)
(* which a leg would pay in full (schedule.rs:232-560).                           *)
THEOREM StubsStayIrregular == ScheduleSpec => []StubsAreNotRegular
<1>1. ScheduleInit => FlagsInv
  BY DEF ScheduleInit, FlagsInv, StubsAreNotRegular, Generated
<1>2. FlagsInv /\ [ScheduleNext]_scheduleVars => FlagsInv'
  <2> SUFFICES ASSUME FlagsInv, [ScheduleNext]_scheduleVars PROVE FlagsInv'
    OBVIOUS
  <2>1. CASE UNCHANGED <<schedule, cuts>>
    BY <2>1 DEF FlagsInv, StubsAreNotRegular, Generated, RegularPeriodsAreTenors, Step, Shift,
                AtEndOfMonthIf, advance
  <2>2. CASE New
    <3>1. PICK spec \in Specifications :
            Accepted(Normalised(spec)) /\ schedule' = Built(Normalised(spec))
      BY <2>2 DEF New
    <3> DEFINE a == Normalised(spec)
               s == Built(a)
    <3>2. s.asked = a /\ s.convention = a.convention
          /\ s.terminationConvention = a.terminationConvention
      BY DEF Built, Recorded
    <3>3. ASSUME ~a.endOfMonth PROVE RegularPeriodsAreTenors(s)
      <4> SUFFICES ASSUME a.rule \in {Backward, Forward}, a.convention = Unadjusted,
                          a.terminationConvention = Unadjusted
                   PROVE  \A i \in DOMAIN s.regular :
                            s.regular[i] => TenorApart(a, s.dates[i], s.dates[i + 1])
        <5> HIDE DEF a, s
        <5> QED BY <3>2 DEF RegularPeriodsAreTenors, TenorApart
      <4>1. Unrolled(a)
        BY <3>1, <3>3, AcceptedIsUnrolled
      <4> HIDE DEF a
      <4> QED BY <4>1, BuiltFlagsTenors
    <3>4. schedule' = s /\ cuts' = cuts
      BY <2>2, <3>1 DEF New
    <3> HIDE DEF s, a
    <3>5. RegularPeriodsAreTenors(schedule') \/ schedule'.asked.endOfMonth
      BY <3>2, <3>3, <3>4
    <3> QED BY <3>4, <3>5 DEF FlagsInv, StubsAreNotRegular, Generated
  <2>3. CASE FromDates
    BY <2>3 DEF FromDates, FlagsInv, StubsAreNotRegular, Generated
  <2>4. CASE CutAfter \/ CutUntil
    <3>1. cuts' = cuts + 1
      BY <2>4 DEF CutAfter, CutUntil
    <3>2. cuts' \in Nat /\ cuts' # 0
      BY <3>1 DEF FlagsInv
    <3> QED BY <3>2 DEF FlagsInv, StubsAreNotRegular
  <2> QED BY <2>1, <2>2, <2>3, <2>4 DEF ScheduleNext, ChangeCalendar, scheduleVars
<1> QED BY <1>1, <1>2, PTL DEF ScheduleSpec, FlagsInv

-----------------------------------------------------------------------------
(* Terms, and the twentieths that some start and end with *)

\* A month before the last begins as many days before the next as it is long.
LEMMA MonthsFollow ==
  ASSUME NEW k \in MonthCounts, k + 1 \in MonthCounts
  PROVE  /\ BeforeMonth(CountedYear(k), CountedMonth(k)) \in Int
         /\ LengthOf(CountedYear(k), CountedMonth(k)) \in 28 .. 31
         /\ BeforeMonth(CountedYear(k + 1), CountedMonth(k + 1))
              = BeforeMonth(CountedYear(k), CountedMonth(k)) + LengthOf(CountedYear(k), CountedMonth(k))
<1> DEFINE y == CountedYear(k)
           m == CountedMonth(k)
           z == CountedYear(k + 1)
           n == CountedMonth(k + 1)
<1>1. /\ k \in Int /\ y \in CivilYears /\ m \in CivilMonths /\ 12 * y + m - 1 = k
      /\ z \in CivilYears /\ n \in CivilMonths /\ 12 * z + n - 1 = k + 1
  <2> DEFINE j == k + 1
  <2>1. j \in MonthCounts
    OBVIOUS
  <2> HIDE DEF j
  <2>2. CountedYear(j) \in CivilYears /\ CountedMonth(j) \in CivilMonths
        /\ 12 * CountedYear(j) + CountedMonth(j) - 1 = j
    BY <2>1, CountedMonthIs
  <2> QED BY <2>2, CountedMonthIs DEF j
<1> HIDE DEF y, m, z, n
<1>2. /\ BeforeMonth(y, m) \in Int /\ LengthOf(y, m) \in 28 .. 31
      /\ BeforeMonth(y, m + 1) = BeforeMonth(y, m) + LengthOf(y, m)
  BY <1>1, MonthsAre
<1>3. y \in Int /\ z \in Int /\ m \in 1 .. 12 /\ n \in 1 .. 12
  BY <1>1 DEF CivilYears, CivilMonths
<1>4. BeforeMonth(z, n) = BeforeMonth(y, m + 1)
  <2>1. CASE m < 12
    <3>1. z = y /\ n = m + 1
      BY <1>1, <1>3, <2>1
    <3> QED BY <3>1
  <2>2. CASE m = 12
    <3>1. z = y + 1 /\ n = 1
      BY <1>1, <1>3, <2>2
    <3>2. /\ year_offset(y) \in Int
          /\ year_offset(y + 1) = year_offset(y) + LengthOfYear(y)
      BY <1>1, YearsFollow
    <3>3. \A leap \in BOOLEAN : /\ month_offset(1, leap) = 0
                                /\ month_offset(13, leap) = IF leap THEN 366 ELSE 365
      BY SMT DEF month_offset
    <3>4. month_offset(1, is_leap(z)) = 0 /\ month_offset(13, is_leap(y)) = LengthOfYear(y)
      BY <3>3, LeapOrNot DEF LengthOfYear
    <3>5. BeforeMonth(y, 13) = LengthOfYear(y) + year_offset(y)
          /\ BeforeMonth(z, 1) = 0 + year_offset(z)
      BY <3>4 DEF BeforeMonth
    <3>6. LengthOfYear(y) \in Int
      BY DEF LengthOfYear
    <3>7. BeforeMonth(y, 13) = BeforeMonth(z, 1)
      BY <3>1, <3>2, <3>5, <3>6
    <3> QED BY <2>2, <3>1, <3>7
  <2> QED BY <1>3, <2>1, <2>2
<1> QED BY <1>2, <1>4 DEF y, m, z, n

\* The twentieth of a month, and of the months after it.
LEMMA TwentiethIs ==
  ASSUME NEW k \in MonthCounts
  PROVE  /\ OnDay(20, k) \in ValidDates /\ OnDay(20, k) \in Int
         /\ MonthCount(OnDay(20, k)) = k /\ day_of_month(OnDay(20, k)) = 20
         /\ OnDay(20, k) = BeforeMonth(CountedYear(k), CountedMonth(k)) + 20
<1> DEFINE d == OnDay(20, k)
           length == LengthOf(CountedYear(k), CountedMonth(k))
<1>1. /\ d \in ValidDates /\ MonthCount(d) = k /\ length \in 28 .. 31
      /\ day_of_month(d) = IF 20 > length THEN length ELSE 20
  <2>1. 20 \in 1 .. 31
    OBVIOUS
  <2> QED BY <2>1, OnDayIs
<1> HIDE DEF d, length
<1>2. day_of_month(d) = 20
  BY <1>1
<1>3. /\ d \in Int /\ CountedYear(MonthCount(d)) = year(d) /\ CountedMonth(MonthCount(d)) = month(d)
      /\ day_of_month(d) = d - BeforeMonth(year(d), month(d))
      /\ year(d) \in CivilYears /\ month(d) \in CivilMonths
  BY <1>1, MonthCountIs
<1>4. BeforeMonth(year(d), month(d)) \in Int
  BY <1>3, MonthsAre
<1> DEFINE b == BeforeMonth(year(d), month(d))
<1>5. b \in Int /\ 20 = d - b /\ b = BeforeMonth(CountedYear(k), CountedMonth(k))
  BY <1>1, <1>2, <1>3, <1>4
<1> HIDE DEF b
<1>6. d = b + 20
  BY <1>3, <1>5
<1> QED BY <1>1, <1>2, <1>3, <1>5, <1>6 DEF d

LEMMA NextTwentieth ==
  ASSUME NEW k \in MonthCounts, k + 1 \in MonthCounts
  PROVE  OnDay(20, k + 1) \in OnDay(20, k) + 28 .. OnDay(20, k) + 31
<1> DEFINE j == k + 1
<1>1. j \in MonthCounts
  OBVIOUS
<1>2. PICK length \in 28 .. 31 :
        BeforeMonth(CountedYear(j), CountedMonth(j))
          = BeforeMonth(CountedYear(k), CountedMonth(k)) + length
  BY MonthsFollow
<1>3. BeforeMonth(CountedYear(k), CountedMonth(k)) \in Int
  BY MonthsFollow
<1> HIDE DEF j
<1>4. /\ OnDay(20, j) = BeforeMonth(CountedYear(j), CountedMonth(j)) + 20
      /\ OnDay(20, k) = BeforeMonth(CountedYear(k), CountedMonth(k)) + 20
  BY <1>1, TwentiethIs
<1> DEFINE b == BeforeMonth(CountedYear(k), CountedMonth(k))
           c == BeforeMonth(CountedYear(j), CountedMonth(j))
           x == OnDay(20, j)
           w == OnDay(20, k)
<1>5. b \in Int /\ c = b + length /\ x = c + 20 /\ w = b + 20
  BY <1>2, <1>3, <1>4
<1> HIDE DEF b, c, x, w
<1>6. x \in w + 28 .. w + 31
  BY <1>5
<1> QED BY <1>6 DEF x, w, j

LEMMA TwentiethsApart ==
  ASSUME NEW k \in Int, NEW n \in 0 .. 6, FirstCount <= k, k + n <= LastCount
  PROVE  /\ OnDay(20, k) \in Int /\ OnDay(20, k + n) \in Int
         /\ OnDay(20, k) + 28 * n <= OnDay(20, k + n)
         /\ OnDay(20, k + n) <= OnDay(20, k) + 31 * n
<1> DEFINE t(j) == OnDay(20, k + j)
           T == {j \in 0 .. n : t(j) \in Int /\ t(0) + 28 * j <= t(j) /\ t(j) <= t(0) + 31 * j}
<1>1. \A j \in 0 .. n : k + j \in MonthCounts
  <2>1. FirstCount \in Int /\ LastCount \in Int
    BY SMT DEF FirstCount, LastCount
  <2>2. \A j \in 0 .. n : k + j \in Int /\ FirstCount <= k + j /\ k + j <= LastCount
    BY <2>1
  <2> QED BY <2>2, MonthCountsAre
<1>2. 0 \in 0 .. n /\ n \in 0 .. n /\ k + 0 = k /\ n \in Nat
  OBVIOUS
<1>3. t(0) \in Int
  BY <1>1, <1>2, TwentiethIs
<1>4. 0 \in T
  BY <1>2, <1>3
<1>5. ASSUME NEW j \in 0 .. n - 1, j \in T PROVE j + 1 \in T
  <2>1. j \in 0 .. n /\ j + 1 \in 0 .. n /\ j \in Int
    OBVIOUS
  <2> DEFINE i == k + j
  <2>2. i \in MonthCounts /\ i + 1 \in MonthCounts /\ i + 1 = k + (j + 1)
    <3>1. i + 1 = k + (j + 1)
      BY <2>1
    <3> HIDE DEF i
    <3> QED BY <1>1, <2>1, <3>1 DEF i
  <2> HIDE DEF i
  <2>3. OnDay(20, i + 1) \in OnDay(20, i) + 28 .. OnDay(20, i) + 31
    BY <2>2, NextTwentieth
  <2>4. t(j + 1) \in t(j) + 28 .. t(j) + 31
    BY <2>2, <2>3 DEF i
  <2>5. t(j) \in Int /\ t(0) + 28 * j <= t(j) /\ t(j) <= t(0) + 31 * j
    BY <1>5
  <2> HIDE DEF t
  <2> QED BY <1>3, <2>1, <2>4, <2>5
<1> HIDE DEF T
<1>6. \A j \in 0 .. n : j \in T
  BY <1>2, <1>4, <1>5, StepByStep
<1>7. n \in T
  BY <1>2, <1>6
<1> QED BY <1>2, <1>3, <1>7 DEF T

\* The twentieths around a date.
LEMMA TwentiethsAround ==
  ASSUME NEW d \in InnerDates, NEW n \in 0 .. 6
  PROVE  LET k == MonthCount(d)
         IN  /\ d \in Int /\ k \in Int /\ FirstCount + 12 <= k /\ k + 12 <= LastCount
             /\ OnDay(20, k) \in Int /\ OnDay(20, k - n) \in Int /\ OnDay(20, k + n) \in Int
             /\ OnDay(20, k) = d - day_of_month(d) + 20 /\ day_of_month(d) \in 1 .. 31
             /\ OnDay(20, k - n) + 28 * n <= OnDay(20, k)
             /\ OnDay(20, k) <= OnDay(20, k - n) + 31 * n
             /\ OnDay(20, k) + 28 * n <= OnDay(20, k + n)
             /\ OnDay(20, k + n) <= OnDay(20, k) + 31 * n
<1> DEFINE k == MonthCount(d)
<1>1. d \in Int /\ d \in ValidDates
  BY InnerDatesAre
<1>2. /\ k \in MonthCounts /\ day_of_month(d) \in 1 .. 31
      /\ FirstCount + 12 <= k /\ k + 12 <= LastCount
  BY InnerDatesBetween
<1>3. /\ CountedYear(k) = year(d) /\ CountedMonth(k) = month(d)
      /\ day_of_month(d) = d - BeforeMonth(year(d), month(d))
      /\ year(d) \in CivilYears /\ month(d) \in CivilMonths /\ k \in Int
  BY <1>1, MonthCountIs
<1>4. BeforeMonth(year(d), month(d)) \in Int
  BY <1>3, MonthsAre
<1> HIDE DEF k
<1>5. OnDay(20, k) = BeforeMonth(year(d), month(d)) + 20
  BY <1>2, <1>3, TwentiethIs
<1>6. OnDay(20, k) = d - day_of_month(d) + 20
  BY <1>1, <1>3, <1>4, <1>5
<1>7. FirstCount \in Int /\ LastCount \in Int
  BY SMT DEF FirstCount, LastCount
<1>8. /\ OnDay(20, k) \in Int /\ OnDay(20, k + n) \in Int
      /\ OnDay(20, k) + 28 * n <= OnDay(20, k + n)
      /\ OnDay(20, k + n) <= OnDay(20, k) + 31 * n
  <2>1. FirstCount <= k /\ k + n <= LastCount
    BY <1>2, <1>3, <1>7
  <2> QED BY <1>3, <2>1, TwentiethsApart
<1>9. /\ OnDay(20, k - n) \in Int
      /\ OnDay(20, k - n) + 28 * n <= OnDay(20, k)
      /\ OnDay(20, k) <= OnDay(20, k - n) + 31 * n
  <2> DEFINE j == k - n
  <2>1. j \in Int /\ FirstCount <= j /\ j + n <= LastCount /\ j + n = k
    BY <1>2, <1>3, <1>7
  <2> HIDE DEF j
  <2>2. /\ OnDay(20, j) \in Int
        /\ OnDay(20, j) + 28 * n <= OnDay(20, j + n)
        /\ OnDay(20, j + n) <= OnDay(20, j) + 31 * n
    BY <2>1, TwentiethsApart
  <2> QED BY <2>1, <2>2 DEF j
<1> QED BY <1>1, <1>2, <1>3, <1>6, <1>8, <1>9 DEF k

\* The month of a twentieth, in the cycle of quarters.
LEMMA TwentiethFromTwentieth ==
  ASSUME NEW d, NEW n \in Int, NEW i \in Int, MonthCount(d) + n \in MonthCounts
  PROVE  /\ TwentiethFrom(d, n) = OnDay(20, MonthCount(d) + n)
         /\ TwentiethFrom(TwentiethFrom(d, n), i) = OnDay(20, MonthCount(d) + n + i)
         /\ month(TwentiethFrom(d, n)) \in 1 .. 12
<1> DEFINE r == TwentiethFrom(d, n)
<1>1. r = OnDay(20, MonthCount(d) + n)
  BY DEF TwentiethFrom
<1>2. MonthCount(r) = MonthCount(d) + n /\ r \in ValidDates
  BY <1>1, TwentiethIs
<1>3. month(r) \in 1 .. 12
  BY <1>2, MonthCountIs
<1> HIDE DEF r
<1>4. TwentiethFrom(r, i) = OnDay(20, MonthCount(d) + n + i)
  BY <1>2 DEF TwentiethFrom
<1> QED BY <1>1, <1>3, <1>4 DEF r

LEMMA PreviousTwentiethIs ==
  ASSUME NEW d \in InnerDates, NEW rule
  PROVE  \E n \in 0 .. 3 : /\ previous_twentieth(d, rule) = OnDay(20, MonthCount(d) - n)
                           /\ OnDay(20, MonthCount(d) - n) <= d
<1> DEFINE k == MonthCount(d)
           m == IF day_of_month(d) < 20 THEN -1 ELSE 0
           r == TwentiethFrom(d, m)
           q == month(r) % 3
<1>1. /\ d \in Int /\ k \in Int /\ FirstCount + 12 <= k /\ k + 12 <= LastCount
      /\ day_of_month(d) \in 1 .. 31 /\ OnDay(20, k) = d - day_of_month(d) + 20
      /\ FirstCount \in Int /\ LastCount \in Int
  <2>1. 0 \in 0 .. 6
    OBVIOUS
  <2>2. FirstCount \in Int /\ LastCount \in Int
    BY SMT DEF FirstCount, LastCount
  <2> QED BY <2>1, <2>2, TwentiethsAround
<1>2. m \in {-1, 0} /\ m \in Int
  OBVIOUS
<1>3. k + m \in MonthCounts
  <2>1. k + m \in Int /\ FirstCount <= k + m /\ k + m <= LastCount
    BY <1>1, <1>2
  <2> QED BY <2>1, MonthCountsAre
<1>4. ASSUME NEW i \in Int
      PROVE  r = OnDay(20, k + m) /\ TwentiethFrom(r, i) = OnDay(20, k + m + i) /\ month(r) \in 1 .. 12
  <2> HIDE DEF m
  <2> QED BY <1>2, <1>3, TwentiethFromTwentieth
<1>5. q \in 0 .. 2
  <2>1. 0 \in Int
    OBVIOUS
  <2>2. month(r) \in 1 .. 12
    BY <1>4, <2>1
  <2> HIDE DEF r
  <2> QED BY <2>2
<1>6. previous_twentieth(d, rule) = IF rule \in Quarterly THEN TwentiethFrom(r, -q) ELSE r
  BY Zenon DEF previous_twentieth
<1> HIDE DEF q, r
<1> DEFINE n == IF rule \in Quarterly THEN q - m ELSE -m
<1>7. n \in 0 .. 3
  <2> HIDE DEF m
  <2>1. q - m \in 0 .. 3 /\ -m \in 0 .. 3
    BY <1>2, <1>5
  <2> QED BY <2>1
<1>8. previous_twentieth(d, rule) = OnDay(20, k - n)
  <2>1. CASE rule \in Quarterly
    <3>1. -q \in Int /\ k + m + (-q) = k - n
      BY <1>1, <1>2, <1>5, <2>1
    <3>2. TwentiethFrom(r, -q) = OnDay(20, k + m + (-q))
      BY <1>4, <3>1
    <3> QED BY <1>6, <2>1, <3>1, <3>2
  <2>2. CASE rule \notin Quarterly
    <3>1. k + m = k - n /\ 0 \in Int
      BY <1>1, <1>2, <2>2
    <3> QED BY <1>4, <1>6, <2>2, <3>1
  <2> QED BY <2>1, <2>2
<1>9. OnDay(20, k - n) <= d
  <2>1. n \in 0 .. 6
    BY <1>7
  <2>2. n = 0 => day_of_month(d) >= 20
    BY <1>1, <1>5
  <2> HIDE DEF n
  <2>3. OnDay(20, k - n) \in Int /\ OnDay(20, k - n) + 28 * n <= OnDay(20, k)
    BY <2>1, TwentiethsAround
  <2> HIDE DEF k
  <2>4. n >= 1 \/ n = 0
    BY <2>1
  <2> QED BY <1>1, <2>1, <2>2, <2>3, <2>4
<1> HIDE DEF n
<1> QED BY <1>7, <1>8, <1>9

LEMMA NextTwentiethIs ==
  ASSUME NEW d \in InnerDates, NEW rule
  PROVE  \E n \in 0 .. 3 : /\ next_twentieth(d, rule) = OnDay(20, MonthCount(d) + n)
                           /\ d <= OnDay(20, MonthCount(d) + n)
<1> DEFINE k == MonthCount(d)
           m == IF day_of_month(d) > 20 THEN 1 ELSE 0
           r == TwentiethFrom(d, m)
           q == month(r) % 3
<1>1. /\ d \in Int /\ k \in Int /\ FirstCount + 12 <= k /\ k + 12 <= LastCount
      /\ day_of_month(d) \in 1 .. 31 /\ OnDay(20, k) = d - day_of_month(d) + 20
      /\ FirstCount \in Int /\ LastCount \in Int
  <2>1. 0 \in 0 .. 6
    OBVIOUS
  <2>2. FirstCount \in Int /\ LastCount \in Int
    BY SMT DEF FirstCount, LastCount
  <2> QED BY <2>1, <2>2, TwentiethsAround
<1>2. m \in {1, 0} /\ m \in Int
  OBVIOUS
<1>3. k + m \in MonthCounts
  <2>1. k + m \in Int /\ FirstCount <= k + m /\ k + m <= LastCount
    BY <1>1, <1>2
  <2> QED BY <2>1, MonthCountsAre
<1>4. ASSUME NEW i \in Int
      PROVE  r = OnDay(20, k + m) /\ TwentiethFrom(r, i) = OnDay(20, k + m + i) /\ month(r) \in 1 .. 12
  <2> HIDE DEF m
  <2> QED BY <1>2, <1>3, TwentiethFromTwentieth
<1>5. q \in 0 .. 2
  <2>1. 0 \in Int
    OBVIOUS
  <2>2. month(r) \in 1 .. 12
    BY <1>4, <2>1
  <2> HIDE DEF r
  <2> QED BY <2>2
<1>6. next_twentieth(d, rule) = IF rule \in Quarterly /\ q # 0 THEN TwentiethFrom(r, 3 - q) ELSE r
  BY DEF next_twentieth
<1> HIDE DEF q, r
<1> DEFINE n == IF rule \in Quarterly /\ q # 0 THEN m + (3 - q) ELSE m
<1>7. n \in 0 .. 3
  BY <1>2, <1>5
<1>8. next_twentieth(d, rule) = OnDay(20, k + n)
  <2>1. CASE rule \in Quarterly /\ q # 0
    <3>1. 3 - q \in Int /\ k + m + (3 - q) = k + n
      BY <1>1, <1>2, <1>5, <2>1
    <3>2. TwentiethFrom(r, 3 - q) = OnDay(20, k + m + (3 - q))
      BY <1>4, <3>1
    <3> QED BY <1>6, <2>1, <3>1, <3>2
  <2>2. CASE ~(rule \in Quarterly /\ q # 0)
    <3>1. k + m = k + n /\ 0 \in Int
      BY <1>1, <1>2, <2>2
    <3> QED BY <1>4, <1>6, <2>2, <3>1
  <2> QED BY <2>1, <2>2
<1>9. d <= OnDay(20, k + n)
  <2>1. n \in 0 .. 6
    BY <1>7
  <2>2. n = 0 => day_of_month(d) <= 20
    BY <1>1, <1>5
  <2> HIDE DEF n
  <2>3. OnDay(20, k + n) \in Int /\ OnDay(20, k) + 28 * n <= OnDay(20, k + n)
    BY <2>1, TwentiethsAround
  <2> HIDE DEF k
  <2>4. n >= 1 \/ n = 0
    BY <2>1
  <2> QED BY <1>1, <2>1, <2>2, <2>3, <2>4
<1> HIDE DEF n
<1> QED BY <1>7, <1>8, <1>9

\* Every convention keeps the order of dates between which all can be rolled.
LEMMA RollsKeepOrder ==
  ASSUME NEW d \in Int, NEW e \in Int, d <= e, \A x \in d .. e : Placed(x), NEW c \in Conventions
  PROVE  adjust(d, c) <= adjust(e, c)
<1>1. CASE c = Unadjusted
  BY <1>1, AdjustByConvention
<1>2. CASE c # Unadjusted
  <2> DEFINE N == e - d
             T == {k \in 0 .. N : adjust(d, c) <= adjust(d + k, c)}
  <2>1. N \in Nat /\ d + 0 = d /\ d + N = e /\ 0 \in 0 .. N /\ N \in 0 .. N
    OBVIOUS
  <2>2. \A k \in 0 .. N : d + k \in Int /\ Placed(d + k)
    <3>1. \A k \in 0 .. N : d + k \in d .. e
      OBVIOUS
    <3> QED BY <3>1
  <2> HIDE DEF N
  <2>3. \A k \in 0 .. N : adjust(d + k, c) \in Int
    <3>1. \A k \in 0 .. N : d + k \in Int /\ Rollable(d + k)
      BY <2>2 DEF Placed
    <3>2. c \in Conventions \ {Unadjusted}
      BY <1>2
    <3> QED BY <3>1, <3>2, AdjustIsBusinessDay
  <2>4. 0 \in T
    <3>1. adjust(d + 0, c) \in Int
      BY <2>1, <2>3
    <3> QED BY <2>1, <3>1
  <2>5. ASSUME NEW k \in 0 .. N - 1, k \in T PROVE k + 1 \in T
    <3>1. k \in 0 .. N /\ k + 1 \in 0 .. N
      BY <2>1
    <3> DEFINE x == d + k
    <3>2. x \in Int /\ Placed(x) /\ x + 1 = d + (k + 1)
      <4>1. (d + k) + 1 = d + (k + 1)
        BY <3>1
      <4> QED BY <2>2, <3>1, <4>1
    <3>3. Placed(x + 1)
      BY <2>2, <3>1, <3>2
    <3> HIDE DEF x
    <3>4. adjust(x, c) <= adjust(x + 1, c)
      BY <1>2, <3>2, <3>3, NeighboursKeepOrder
    <3>5. adjust(d, c) <= adjust(x, c)
      BY <2>5 DEF x
    <3>6. adjust(d, c) \in Int /\ adjust(x, c) \in Int /\ adjust(x + 1, c) \in Int
      BY <2>1, <2>3, <3>1, <3>2 DEF x
    <3>7. adjust(d, c) <= adjust(x + 1, c)
      BY <3>4, <3>5, <3>6
    <3> QED BY <3>1, <3>2, <3>7
  <2> HIDE DEF T
  <2>6. \A k \in 0 .. N : k \in T
    BY <2>1, <2>4, <2>5, StepByStep
  <2>7. N \in T
    BY <2>1, <2>6
  <2> QED BY <2>1, <2>7 DEF T
<1> QED BY <1>1, <1>2

\* What has been rolled stays.
LEMMA RolledStays ==
  ASSUME NEW d \in Int, Placed(d), NEW c \in Conventions
  PROVE  adjust(adjust(d, c), c) = adjust(d, c) /\ adjust(d, c) \in Int
<1>1. CASE c = Unadjusted
  BY <1>1, AdjustByConvention
<1>2. CASE c # Unadjusted
  <2>1. adjust(d, c) \in Int /\ is_business_day(adjust(d, c))
    BY <1>2, AdjustIsBusinessDay DEF Placed
  <2> QED BY <1>2, <2>1, BusinessDaysStay
<1> QED BY <1>1, <1>2

\* A date rolls no further than the loops reach.
LEMMA RollsNear ==
  ASSUME NEW d \in Int, Placed(d), NEW c \in Conventions
  PROVE  adjust(d, c) \in Int /\ adjust(d, c) <= d + Reach
<1>0. Reach = 60
  BY DEF Reach
<1>1. CASE c = Unadjusted
  BY <1>0, <1>1, AdjustByConvention
<1>2. CASE c # Unadjusted
  <2>1. /\ Ups(d) \in Int /\ Ups(d) <= d + Reach
        /\ Downs(d) \in Int /\ Downs(d) <= d
    BY NextIsFirst, PreviousIsLast DEF Ups, Downs, Placed
  <2>2. adjust(d, c) \in {Ups(d), Downs(d)}
    <3>1. CASE c \in {Following, Preceding}
      BY <3>1, AdjustIs
    <3>2. CASE c \in {ModifiedFollowing, HalfMonthModifiedFollowing}
      BY <3>2, AdjustIs
    <3>3. CASE c \in {ModifiedPreceding, Nearest}
      BY <3>3, AdjustIs
    <3> QED BY <1>2, <3>1, <3>2, <3>3 DEF Conventions
  <2>3. Downs(d) <= d + Reach
    BY <1>0, <2>1
  <2> QED BY <2>1, <2>2, <2>3
<1> QED BY <1>1, <1>2

\* The ends of the terms, and all dates of half a year around them, can be rolled.
LEMMA TermsArePlaced ==
  ASSUME added \subseteq Editable, NEW spec \in Specifications,
         NEW d \in {spec.effective, spec.termination}, NEW x \in d - HalfYear .. d + HalfYear
  PROVE  d \in InnerDates /\ d \in Int /\ x \in Int /\ Placed(x)
<1>1. d \in InnerDates
  BY SpecificationsAssumption
<1>2. d \in Int /\ MinDate + 5000 <= d /\ d + 5000 <= MaxDate
  BY <1>1, InnerDatesAre
<1>3. HalfYear = 217 /\ Reach = 60 /\ MinDate \in Int /\ MaxDate \in Int
  BY DEF HalfYear, Reach, MinDate, MaxDate
<1>4. x \in Int /\ x - Reach >= MinDate /\ x + Reach <= MaxDate
  BY <1>2, <1>3
<1>5. OpenAround(x) /\ OpenInHalf(x)
  BY TermsAssumption
<1> QED BY <1>1, <1>2, <1>4, <1>5, OpenIsPlaced

\* The ends of what is built are those of what is generated, rolled.
LEMMA BuiltEnds ==
  ASSUME NEW a, Len(Built(a).dates) > 1, a.rule # ThirdWednesdayInclusive
  PROVE  LET s == Generate(a).dates
             t == Built(a).dates
         IN  /\ StartsAndEnds(a, s)
             /\ t[1] = IF a.rule = OldCDS THEN s[1] ELSE adjust(s[1], a.convention)
             /\ Last(t) = IF a.rule \in {CDS, CDS2015} THEN Last(s)
                          ELSE adjust(Last(s), a.terminationConvention)
<1> DEFINE g == Generate(a)
           h == Rolled(a, g)
           i == CollapseLast(h)
           j == CollapseFirst(i)
<1>1. WithSeed(g) /\ StartsAndEnds(a, g.dates)
  BY GenerateMatches
<1>2. Built(a).dates = j.dates
  BY DEF Built, Recorded
<1> HIDE DEF g
<1>3. Matched(h) /\ RolledEnds(a, g.dates, h.dates)
  BY <1>1, RolledMatches
<1> HIDE DEF h
<1>4. Matched(i) /\ KeepsEnds(h.dates, i.dates)
  BY <1>3, CollapseLastMatches
<1> HIDE DEF i
<1>5. KeepsEnds(i.dates, j.dates)
  BY <1>4, CollapseFirstMatches
<1> HIDE DEF j
<1>6. Len(j.dates) > 1
  BY <1>2
<1>7. Len(h.dates) > 1 /\ j.dates[1] = h.dates[1] /\ Last(j.dates) = Last(h.dates)
  BY <1>4, <1>5, <1>6 DEF KeepsEnds
<1> QED BY <1>1, <1>2, <1>3, <1>7 DEF RolledEnds, g

\* A term on the twentieths starts, rolled, on or before its effective date.
LEMMA StartCovers ==
  ASSUME added \subseteq Editable, NEW spec \in Specifications, NEW a,
         a.effective = spec.effective, a.convention \in Conventions, a.rule \in {CDS, CDS2015}
  PROVE  adjust(ForwardStart(a).dates[1], a.convention) <= a.effective
<1> DEFINE d == a.effective
           t == previous_twentieth(d, a.rule)
           k == MonthCount(d)
<1>1. CASE ~(adjust(t, a.convention) > d)
  <2>1. ForwardStart(a).dates[1] = t
    BY <1>1 DEF ForwardStart
  <2>2. adjust(t, a.convention) \in Int /\ d \in Int
    <3>1. d \in InnerDates
      BY SpecificationsAssumption
    <3>2. PICK n \in 0 .. 3 : t = OnDay(20, k - n) /\ OnDay(20, k - n) <= d
      BY <3>1, PreviousTwentiethIs
    <3>3. n \in 0 .. 6
      OBVIOUS
    <3>4. /\ d \in Int /\ OnDay(20, k) \in Int /\ OnDay(20, k - n) \in Int
          /\ OnDay(20, k) = d - day_of_month(d) + 20 /\ day_of_month(d) \in 1 .. 31
          /\ OnDay(20, k) <= OnDay(20, k - n) + 31 * n
      BY <3>1, <3>3, TwentiethsAround
    <3> HIDE DEF d, t, k
    <3>5. t \in d - HalfYear .. d + HalfYear
      BY <3>2, <3>4 DEF HalfYear
    <3>6. d \in {spec.effective, spec.termination}
      BY DEF d
    <3>7. t \in Int /\ Placed(t)
      BY <3>5, <3>6, TermsArePlaced
    <3> QED BY <3>4, <3>7, RollsNear
  <2> HIDE DEF t
  <2> QED BY <1>1, <2>1, <2>2
<1>2. CASE adjust(t, a.convention) > d
  <2> DEFINE u == advance(t, -3, Months)
  <2>1. ForwardStart(a).dates[1] = u
    BY <1>2 DEF ForwardStart
  <2>2. d \in InnerDates
    BY SpecificationsAssumption
  <2>3. PICK n \in 0 .. 3 : t = OnDay(20, k - n) /\ OnDay(20, k - n) <= d
    BY <2>2, PreviousTwentiethIs
  <2> DEFINE m == n + 3
  <2>4. n \in 0 .. 6 /\ m \in 0 .. 6
    OBVIOUS
  <2>5. /\ d \in Int /\ k \in Int /\ FirstCount + 12 <= k /\ k + 12 <= LastCount
        /\ OnDay(20, k) \in Int /\ OnDay(20, k - n) \in Int
        /\ OnDay(20, k) = d - day_of_month(d) + 20 /\ day_of_month(d) \in 1 .. 31
    BY <2>2, <2>4, TwentiethsAround
  <2>6. /\ OnDay(20, k - m) \in Int
        /\ OnDay(20, k) <= OnDay(20, k - m) + 31 * m
    <3> HIDE DEF m
    <3> QED BY <2>2, <2>4, TwentiethsAround
  <2>7. FirstCount \in Int /\ LastCount \in Int
    BY SMT DEF FirstCount, LastCount
  <2> HIDE DEF d, t, k, u, m
  <2>8. k - n \in MonthCounts /\ k - m \in MonthCounts /\ (k - n) + (-3) = k - m
        /\ k - m \in Int /\ FirstCount <= k - m /\ (k - m) + 3 <= LastCount /\ (k - m) + 3 = k - n
    <3>1. /\ k - n \in Int /\ FirstCount <= k - n /\ k - n <= LastCount
          /\ k - m \in Int /\ FirstCount <= k - m /\ k - m <= LastCount
          /\ (k - m) + 3 <= LastCount /\ (k - n) + (-3) = k - m /\ (k - m) + 3 = k - n
      BY <2>4, <2>5, <2>7 DEF m
    <3> QED BY <3>1, MonthCountsAre
  <2>9. u = OnDay(20, k - m)
    <3>1. t \in ValidDates /\ MonthCount(t) = k - n /\ day_of_month(t) = 20
      BY <2>3, <2>8, TwentiethIs
    <3>2. MonthCount(t) + (-3) \in MonthCounts /\ -3 \in Int
      BY <2>8, <3>1
    <3>3. advance(t, -3, Months) = OnDay(day_of_month(t), MonthCount(t) + (-3))
      BY <3>1, <3>2, AddingMonths
    <3> QED BY <2>8, <3>1, <3>3 DEF u
  <2>10. OnDay(20, k - m) + 84 <= OnDay(20, k - n)
    <3> DEFINE j == k - m
    <3>1. j \in Int /\ 3 \in 0 .. 6 /\ FirstCount <= j /\ j + 3 <= LastCount /\ j + 3 = k - n
      BY <2>8
    <3> HIDE DEF j
    <3>2. OnDay(20, j) + 28 * 3 <= OnDay(20, j + 3)
      BY <3>1, TwentiethsApart
    <3> QED BY <2>6, <3>1, <3>2 DEF j
  <2>11. u \in Int /\ u + 84 <= d /\ u \in d - HalfYear .. d + HalfYear
    BY <2>3, <2>4, <2>5, <2>6, <2>9, <2>10 DEF HalfYear, m
  <2>12. d \in {spec.effective, spec.termination}
    BY DEF d
  <2>13. Placed(u)
    BY <2>11, <2>12, TermsArePlaced
  <2>14. adjust(u, a.convention) \in Int /\ adjust(u, a.convention) <= u + Reach /\ Reach = 60
    BY <2>11, <2>13, RollsNear DEF Reach
  <2>15. adjust(u, a.convention) <= d
    BY <2>5, <2>11, <2>14
  <2> QED BY <2>1, <2>15 DEF d
<1> QED BY <1>1, <1>2

\* A term on the twentieths ends, rolled, on or after its termination.
LEMMA EndCovers ==
  ASSUME added \subseteq Editable, NEW spec \in Specifications, NEW a, a.termination = spec.termination,
         a.terminationConvention \in Conventions, NEW d, EndsAtTermination(a, d)
  PROVE  LET c == a.terminationConvention
         IN  /\ adjust(adjust(d, c), c) >= adjust(a.termination, c)
             /\ adjust(d, c) >= adjust(a.termination, c)
<1> DEFINE c == a.terminationConvention
           e == a.termination
           k == MonthCount(e)
           t == next_twentieth(e, a.rule)
<1>0. HalfYear = 217
  BY DEF HalfYear
<1>1. e \in InnerDates /\ e \in Int /\ Placed(e) /\ e \in {spec.effective, spec.termination}
  <2>1. e \in InnerDates
    BY SpecificationsAssumption
  <2>2. e \in Int
    BY <2>1, InnerDatesAre
  <2>3. e \in e - HalfYear .. e + HalfYear
    BY <1>0, <2>2
  <2> HIDE DEF e
  <2>4. e \in {spec.effective, spec.termination}
    BY DEF e
  <2> QED BY <2>1, <2>2, <2>3, <2>4, TermsArePlaced
<1>2. adjust(adjust(e, c), c) = adjust(e, c) /\ adjust(e, c) \in Int
  BY <1>1, RolledStays
<1>3. CASE adjust(d, c) = adjust(e, c)
  <2> HIDE DEF c, e
  <2>1. adjust(adjust(d, c), c) = adjust(e, c)
    BY <1>2, <1>3
  <2> QED BY <1>2, <1>3, <2>1 DEF c, e
<1>4. CASE d = t
  <2>1. PICK n \in 0 .. 3 : t = OnDay(20, k + n) /\ e <= OnDay(20, k + n)
    BY <1>1, NextTwentiethIs
  <2>2. n \in 0 .. 6
    OBVIOUS
  <2>3. /\ OnDay(20, k) \in Int /\ OnDay(20, k + n) \in Int
        /\ OnDay(20, k) = e - day_of_month(e) + 20 /\ day_of_month(e) \in 1 .. 31
        /\ OnDay(20, k + n) <= OnDay(20, k) + 31 * n
    BY <1>1, <2>2, TwentiethsAround
  <2> HIDE DEF c, e, t, k
  <2>4. d \in Int /\ e <= d /\ d <= e + HalfYear
    BY <1>0, <1>1, <1>4, <2>1, <2>3
  <2>5. \A x \in e .. d : x \in e - HalfYear .. e + HalfYear
    BY <1>0, <1>1, <2>4
  <2>6. \A x \in e .. d : Placed(x)
    BY <1>1, <2>5, TermsArePlaced
  <2>7. c \in Conventions
    BY DEF c
  <2>8. adjust(e, c) <= adjust(d, c)
    BY <1>1, <2>4, <2>6, <2>7, RollsKeepOrder
  <2>9. adjust(adjust(d, c), c) = adjust(d, c) /\ adjust(d, c) \in Int
    <3>1. d \in e .. d
      BY <1>1, <2>4
    <3> QED BY <2>4, <2>6, <2>7, <3>1, RolledStays
  <2>10. adjust(d, c) >= adjust(e, c)
    BY <1>2, <2>8, <2>9
  <2> QED BY <2>9, <2>10 DEF c, e
<1> QED BY <1>3, <1>4 DEF EndsAtTermination

LEMMA BuiltCovers ==
  ASSUME added \subseteq Editable, NEW spec \in Specifications, NEW a,
         a.effective = spec.effective, a.termination = spec.termination,
         a.convention \in Conventions, a.terminationConvention \in Conventions,
         Len(Built(a).dates) > 1
  PROVE  Covers(a, Built(a))
<1> DEFINE s == Generate(a).dates
           t == Built(a).dates
           c == a.terminationConvention
<1>1. a.rule # ThirdWednesdayInclusive =>
        /\ StartsAndEnds(a, s)
        /\ t[1] = IF a.rule = OldCDS THEN s[1] ELSE adjust(s[1], a.convention)
        /\ Last(t) = IF a.rule \in {CDS, CDS2015} THEN Last(s) ELSE adjust(Last(s), c)
  BY BuiltEnds
<1> HIDE DEF s
<1>2. ASSUME a.rule \notin OnTheTwentieth \cup {ThirdWednesdayInclusive}
      PROVE  t[1] = adjust(a.effective, a.convention) /\ Last(t) = adjust(a.termination, c)
  <2>1. a.rule \notin {OldCDS, CDS, CDS2015} /\ a.rule # ThirdWednesdayInclusive
    BY <1>2 DEF OnTheTwentieth
  <2>2. t[1] = adjust(s[1], a.convention) /\ Last(t) = adjust(Last(s), c) /\ StartsAndEnds(a, s)
    BY <1>1, <2>1
  <2>3. CASE a.rule \in {Zero, Backward}
    BY <2>2, <2>3 DEF StartsAndEnds
  <2>4. CASE a.rule \notin {Zero, Backward}
    <3>1. s[1] = ForwardStart(a).dates[1] /\ EndsAtTermination(a, Last(s))
      BY <2>2, <2>4 DEF StartsAndEnds
    <3>2. ForwardStart(a).dates[1] = a.effective
      BY <2>1 DEF ForwardStart
    <3>3. adjust(Last(s), c) = adjust(a.termination, c)
      BY <1>2, <3>1 DEF EndsAtTermination
    <3> QED BY <2>2, <3>1, <3>2, <3>3
  <2> QED BY <2>3, <2>4
<1>3. ASSUME a.rule \in OnTheTwentieth
      PROVE  /\ a.rule \notin {Zero, Backward, ThirdWednesdayInclusive}
             /\ s[1] = ForwardStart(a).dates[1] /\ EndsAtTermination(a, Last(s))
  <2>1. a.rule \notin {Zero, Backward, ThirdWednesdayInclusive}
    BY <1>3 DEF OnTheTwentieth, Zero, Backward, ThirdWednesdayInclusive, Twentieth, TwentiethIMM,
                OldCDS, CDS, CDS2015
  <2> QED BY <1>1, <2>1 DEF StartsAndEnds
<1>4. ASSUME a.rule \in {CDS, CDS2015} PROVE t[1] <= a.effective
  <2>1. a.rule \in OnTheTwentieth /\ a.rule # OldCDS
    BY <1>4 DEF OnTheTwentieth, OldCDS, CDS, CDS2015
  <2>2. t[1] = adjust(ForwardStart(a).dates[1], a.convention)
    BY <1>1, <1>3, <2>1
  <2>3. adjust(ForwardStart(a).dates[1], a.convention) <= a.effective
    BY <1>4, StartCovers
  <2> QED BY <2>2, <2>3
<1>5. ASSUME a.rule \in OnTheTwentieth PROVE adjust(Last(t), c) >= adjust(a.termination, c)
  <2>1. EndsAtTermination(a, Last(s)) /\ Last(t) \in {Last(s), adjust(Last(s), c)}
    BY <1>1, <1>3, <1>5
  <2> DEFINE d == Last(s)
  <2> HIDE DEF d
  <2>2. EndsAtTermination(a, d) => /\ adjust(adjust(d, c), c) >= adjust(a.termination, c)
                                   /\ adjust(d, c) >= adjust(a.termination, c)
    BY EndCovers
  <2> QED BY <2>1, <2>2 DEF d
<1> QED BY <1>2, <1>4, <1>5 DEF Covers

\* Whatever term is asked for, within the dates and with open days around its ends:
\* the schedule starts and ends there, rolled by the convention of that end and
\* whatever collapses; on the twentieths it protects the whole term
\* (schedule.rs:232-560).
THEOREM TermStaysCovered == ScheduleSpec => TermIsCovered
<1>1. ScheduleInit => added \subseteq Editable
  BY DEF ScheduleInit, CalendarInit
<1>2. added \subseteq Editable /\ [ScheduleNext]_scheduleVars => (added \subseteq Editable)'
  <2> SUFFICES ASSUME added \subseteq Editable, [ScheduleNext]_scheduleVars
               PROVE  (added \subseteq Editable)'
    OBVIOUS
  <2>1. CASE ChangeCalendar
    BY <2>1, StepAddsEditable DEF ChangeCalendar
  <2>2. CASE UNCHANGED <<added, removed>>
    BY <2>2
  <2> QED
    BY <2>1, <2>2 DEF ScheduleNext, scheduleVars, New, FromDates, CutAfter, CutUntil
<1>3. added \subseteq Editable /\ [ScheduleNext]_scheduleVars =>
        [schedule = NoSchedule /\ Generated' => Covers(schedule'.asked, schedule')]_scheduleVars
  <2> SUFFICES ASSUME added \subseteq Editable, ScheduleNext, schedule = NoSchedule, Generated'
               PROVE  Covers(schedule'.asked, schedule')
    OBVIOUS
  <2>1. CASE New
    <3>1. PICK spec \in Specifications :
            schedule' = Built(Normalised(spec)) /\ Len(schedule'.dates) > 1
      BY <2>1 DEF New
    <3> DEFINE a == Normalised(spec)
    <3>2. /\ a.effective = spec.effective /\ a.termination = spec.termination
          /\ a.convention \in Conventions /\ a.terminationConvention \in Conventions
      <4>1. spec \in [effective : InnerDates, termination : InnerDates,
                      tenor : [length : Int, units : {Days, Weeks, Months, Years}],
                      convention : Conventions, terminationConvention : Conventions,
                      rule : DateGeneration, endOfMonth : BOOLEAN, first : Int, nextToLast : Int]
        BY SpecificationsAssumption
      <4> QED BY <4>1 DEF Normalised
    <3>3. schedule' = Built(a) /\ Len(Built(a).dates) > 1
      BY <3>1
    <3> HIDE DEF a
    <3>4. Built(a).asked = a
      BY DEF Built, Recorded
    <3>5. Covers(a, Built(a))
      BY <3>2, <3>3, BuiltCovers
    <3> QED BY <3>3, <3>4, <3>5
  <2>2. CASE FromDates
    BY <2>2 DEF FromDates, Generated
  <2>3. CASE CutAfter \/ CutUntil
    BY <2>3 DEF CutAfter, CutUntil
  <2>4. CASE ChangeCalendar
    BY <2>4 DEF ChangeCalendar, Generated
  <2> QED BY <2>1, <2>2, <2>3, <2>4 DEF ScheduleNext
<1> QED BY <1>1, <1>2, <1>3, PTL DEF ScheduleSpec, TermIsCovered


-----------------------------------------------------------------------------
(* Easter *)

EasterYears == 1901 .. 2199
SpringDays == 93 .. 154

\* Of March or April, days n counted so that the 93rd is the first of March's.
LEMMA DayOfSpring ==
  ASSUME NEW y \in EasterYears, NEW n \in SpringDays
  PROVE  DateOf((n % 31) + 1, n \div 31, y) - year_offset(y) = n - 33 + IF is_leap(y) THEN 1 ELSE 0
<1> DEFINE leap == is_leap(y)
           m == n \div 31
           o == month_offset(m, leap)
           z == year_offset(y)
           r == n % 31
<1>1. leap \in BOOLEAN
  BY LeapOrNot
<1>2. n \in Int /\ m \in {3, 4} /\ r \in Int /\ n = 31 * m + r
  BY DEF SpringDays
<1> HIDE DEF leap, m, r
<1>3. o = (IF m = 3 THEN 59 ELSE 90) + IF leap THEN 1 ELSE 0
  BY <1>1, <1>2, SMT DEF month_offset
<1>4. z \in Int
  <2>1. y \in 1900 .. 2201
    BY DEF EasterYears
  <2> QED BY <2>1, YearOffsetIs
<1>5. DateOf(r + 1, m, y) = (r + 1) + o + z
  BY DEF DateOf, leap
<1> HIDE DEF o, z
<1>6. DateOf(r + 1, m, y) - z = n - 33 + IF leap THEN 1 ELSE 0
  BY <1>1, <1>2, <1>3, <1>4, <1>5
<1> QED BY <1>6 DEF leap, m, r, z

Gregorian(y) ==
  LET a == y % 19
      b == y \div 100
      c == y % 100
      h == (19 * a + b - (b \div 4) - ((b - ((b + 8) \div 25) + 1) \div 3) + 15) % 30
      l == (32 + 2 * (b % 4) + 2 * (c \div 4) - h - (c % 4)) % 7
  IN  h + l - 7 * ((a + 11 * h + 22 * l) \div 451) + 114

Julian(y) ==
  LET d == (19 * (y % 19) + 15) % 30
      e == (2 * (y % 4) + 4 * (y % 7) - d + 34) % 7
  IN  d + e + 114

LEMMA EastersAre ==
  ASSUME NEW y \in EasterYears
  PROVE  /\ GregorianEaster(y) = Gregorian(y) - 33 + IF is_leap(y) THEN 1 ELSE 0
         /\ JulianEaster(y) = (Julian(y) - 33 + IF is_leap(y) THEN 1 ELSE 0)
                                + IF y >= 2100 THEN 14 ELSE 13
<1>1. Gregorian(y) \in SpringDays
  <2>1. ASSUME NEW a \in 0 .. 18, NEW h \in 0 .. 29, NEW l \in 0 .. 6
        PROVE  h + l - 7 * ((a + 11 * h + 22 * l) \div 451) + 114 \in 93 .. 154
    OBVIOUS
  <2> DEFINE a == y % 19
             b == y \div 100
             c == y % 100
             x == 19 * a + b - (b \div 4) - ((b - ((b + 8) \div 25) + 1) \div 3) + 15
             h == x % 30
             z == 32 + 2 * (b % 4) + 2 * (c \div 4) - h - (c % 4)
             l == z % 7
  <2>2. a \in 0 .. 18 /\ a \in Int /\ b \in Int /\ c \in Int
    BY DEF EasterYears
  <2> HIDE DEF a, b, c
  <2>3. x \in Int
    BY <2>2
  <2> HIDE DEF x
  <2>4. h \in 0 .. 29
    BY <2>3
  <2> HIDE DEF h
  <2>5. z \in Int
    BY <2>2, <2>4
  <2> HIDE DEF z
  <2>6. l \in 0 .. 6
    BY <2>5
  <2> HIDE DEF l
  <2>7. h + l - 7 * ((a + 11 * h + 22 * l) \div 451) + 114 \in 93 .. 154
    BY <2>1, <2>2, <2>4, <2>6
  <2> QED BY <2>7 DEF SpringDays, Gregorian, a, b, c, x, h, z, l
<1>2. Julian(y) \in SpringDays
  BY DEF Julian, SpringDays, EasterYears
<1> DEFINE g == Gregorian(y)
           j == Julian(y)
           late == IF y >= 2100 THEN 14 ELSE 13
           leap == IF is_leap(y) THEN 1 ELSE 0
           Day(n) == DateOf((n % 31) + 1, n \div 31, y) - year_offset(y)
<1>3. GregorianEaster(y) = Day(g)
  BY DEF GregorianEaster, Gregorian
<1>4. JulianEaster(y) = Day(j) + late
  BY SMTT(30) DEF JulianEaster, Julian
<1>5. \A n \in SpringDays : Day(n) = n - 33 + leap
  BY DayOfSpring
<1>7. g \in Int /\ j \in Int /\ late \in Int /\ leap \in Int
  BY <1>1, <1>2 DEF SpringDays
<1> HIDE DEF g, j, Day, late, leap
<1>6. GregorianEaster(y) = g - 33 + leap /\ JulianEaster(y) = (j - 33 + leap) + late
  BY <1>1, <1>2, <1>3, <1>4, <1>5, <1>7 DEF g, j
<1> QED BY <1>6, SMTT(30) DEF g, j, late, leap

LEMMA WesternTable ==
  \A y \in 1901 .. 2199 :
    western_easter_monday(y) = Gregorian(y) - 32 + IF is_leap(y) THEN 1 ELSE 0
<1> DEFINE Right(y) == western_easter_monday(y) = Gregorian(y) - 32 + IF is_leap(y) THEN 1 ELSE 0
<1>1. \A y \in 1901 .. 1950 : Right(y)
  BY SMTT(60) DEF western_easter_monday, WesternEasterMondays, is_leap, Gregorian
<1>2. \A y \in 1951 .. 2000 : Right(y)
  BY SMTT(60) DEF western_easter_monday, WesternEasterMondays, is_leap, Gregorian
<1>3. \A y \in 2001 .. 2050 : Right(y)
  BY SMTT(60) DEF western_easter_monday, WesternEasterMondays, is_leap, Gregorian
<1>4. \A y \in 2051 .. 2100 : Right(y)
  BY SMTT(60) DEF western_easter_monday, WesternEasterMondays, is_leap, Gregorian
<1>5. \A y \in 2101 .. 2150 : Right(y)
  BY SMTT(60) DEF western_easter_monday, WesternEasterMondays, is_leap, Gregorian
<1>6. \A y \in 2151 .. 2199 : Right(y)
  BY SMTT(60) DEF western_easter_monday, WesternEasterMondays, is_leap, Gregorian
<1> HIDE DEF Right
<1>7. \A y \in 1901 .. 2199 : Right(y)
  BY <1>1, <1>2, <1>3, <1>4, <1>5, <1>6
<1> QED BY <1>7 DEF Right

LEMMA OrthodoxTable ==
  \A y \in 1901 .. 2199 :
    orthodox_easter_monday(y) = (Julian(y) - 32 + IF is_leap(y) THEN 1 ELSE 0)
                                  + IF y >= 2100 THEN 14 ELSE 13
  BY SMTT(60) DEF orthodox_easter_monday, OrthodoxEasterMondays, is_leap, Julian

\* Both tables follow the computus of their church in all years of the type
\* (western.rs and orthodox.rs, of time/calendars).
THEOREM EasterFollowsComputus == EasterIsComputed
<1> SUFFICES ASSUME NEW y \in 1901 .. 2199
             PROVE  /\ western_easter_monday(y) = GregorianEaster(y) + 1
                    /\ orthodox_easter_monday(y) = JulianEaster(y) + 1
  BY DEF EasterIsComputed
<1> DEFINE g == Gregorian(y)
           j == Julian(y)
           leap == IF is_leap(y) THEN 1 ELSE 0
           late == IF y >= 2100 THEN 14 ELSE 13
<1>1. g \in Int /\ j \in Int /\ leap \in Int /\ late \in Int
  <2>1. j \in Int
    BY DEF Julian
  <2>2. g \in Int
    BY DEF Gregorian
  <2> QED BY <2>1, <2>2
<1>2. /\ western_easter_monday(y) = g - 32 + leap
      /\ orthodox_easter_monday(y) = (j - 32 + leap) + late
  BY WesternTable, OrthodoxTable
<1>3. GregorianEaster(y) = g - 33 + leap /\ JulianEaster(y) = (j - 33 + leap) + late
  BY EastersAre DEF EasterYears
<1> HIDE DEF g, j, leap, late
<1> QED BY <1>1, <1>2, <1>3

-----------------------------------------------------------------------------
(* The order of periods *)

LEMMA SamplePeriodsAre ==
  ASSUME NEW p \in SamplePeriods
  PROVE  /\ p.length \in Int /\ p.units \in {Days, Weeks, Months, Years}
         /\ \A s \in SampleDates :
              p.units \in {Months, Years} => MonthCount(s) + InMonths(p) \in MonthCounts
<1>1. p \in [length : Int, units : {Days, Weeks, Months, Years}]
  BY SamplePeriodsAssumption
<1> QED BY <1>1, SamplePeriodsAssumption DEF MonthCounts

\* A day of a month, or its last.
LEMMA OnDayFrom ==
  ASSUME NEW k \in MonthCounts, NEW d \in 1 .. 31
  PROVE  LET b == BeforeMonth(CountedYear(k), CountedMonth(k))
             length == LengthOf(CountedYear(k), CountedMonth(k))
         IN  /\ b \in Int /\ length \in 28 .. 31
             /\ OnDay(d, k) \in Int
             /\ OnDay(d, k) = b + IF d > length THEN length ELSE d
<1> DEFINE x == OnDay(d, k)
           b == BeforeMonth(CountedYear(k), CountedMonth(k))
           length == LengthOf(CountedYear(k), CountedMonth(k))
<1>1. /\ x \in ValidDates /\ MonthCount(x) = k /\ length \in 28 .. 31
      /\ day_of_month(x) = IF d > length THEN length ELSE d
  BY OnDayIs
<1>2. /\ x \in Int /\ CountedYear(MonthCount(x)) = year(x) /\ CountedMonth(MonthCount(x)) = month(x)
      /\ day_of_month(x) = x - BeforeMonth(year(x), month(x))
      /\ year(x) \in CivilYears /\ month(x) \in CivilMonths
  BY <1>1, MonthCountIs
<1>3. b \in Int
  <2>1. BeforeMonth(year(x), month(x)) \in Int
    BY <1>2, MonthsAre
  <2> QED BY <1>1, <1>2, <2>1
<1>4. day_of_month(x) = x - b
  BY <1>1, <1>2
<1> HIDE DEF x, b, length
<1>5. x = b + IF d > length THEN length ELSE d
  BY <1>1, <1>2, <1>3, <1>4
<1> QED BY <1>1, <1>2, <1>3, <1>5 DEF x, b, length

\* The same day of the next month is four weeks later, or up to three days more;
LEMMA NextMonth ==
  ASSUME NEW k \in MonthCounts, k + 1 \in MonthCounts, NEW d \in 1 .. 31
  PROVE  /\ OnDay(d, k) \in Int
         /\ OnDay(d, k + 1) \in OnDay(d, k) + 28 .. OnDay(d, k) + 31
<1> DEFINE j == k + 1
           x == OnDay(d, k)
           y == OnDay(d, j)
           b == BeforeMonth(CountedYear(k), CountedMonth(k))
           c == BeforeMonth(CountedYear(j), CountedMonth(j))
           l == LengthOf(CountedYear(k), CountedMonth(k))
           n == LengthOf(CountedYear(j), CountedMonth(j))
<1>1. c = b + l
  BY MonthsFollow
<1>2. j \in MonthCounts
  OBVIOUS
<1> HIDE DEF j
<1>3. b \in Int /\ l \in 28 .. 31 /\ x \in Int /\ x = b + IF d > l THEN l ELSE d
  BY OnDayFrom
<1>4. n \in 28 .. 31 /\ y = c + IF d > n THEN n ELSE d
  BY <1>2, OnDayFrom
<1> HIDE DEF b, c, l, n, x, y
<1>5. y \in x + 28 .. x + 31
  BY <1>1, <1>3, <1>4
<1> QED BY <1>3, <1>5 DEF x, y, j

\* of the next year, a year of either length later.
LEMMA NextYear ==
  ASSUME NEW k \in MonthCounts, k + 12 \in MonthCounts, NEW d \in 1 .. 31
  PROVE  /\ OnDay(d, k) \in Int
         /\ OnDay(d, k + 12) \in OnDay(d, k) + 365 .. OnDay(d, k) + 366
<1> DEFINE j == k + 12
           x == OnDay(d, k)
           t == OnDay(d, j)
           y == CountedYear(k)
           m == CountedMonth(k)
           b == BeforeMonth(y, m)
           c == BeforeMonth(y + 1, m)
           p == is_leap(y)
           q == is_leap(y + 1)
           v == IF d > LengthOf(y, m) THEN LengthOf(y, m) ELSE d
           w == IF d > LengthOf(y + 1, m) THEN LengthOf(y + 1, m) ELSE d
<1>1. /\ k \in Int /\ y \in CivilYears /\ m \in CivilMonths
      /\ CountedYear(j) = y + 1 /\ CountedMonth(j) = m
  <2>1. k \in Int /\ y \in CivilYears /\ m \in CivilMonths
    BY CountedMonthIs
  <2>2. (k + 12) \div 12 = (k \div 12) + 1 /\ (k + 12) % 12 = k % 12
    BY <2>1
  <2> QED BY <2>1, <2>2 DEF CountedYear, CountedMonth
<1>2. x \in Int /\ b \in Int /\ x = b + v
  BY OnDayFrom
<1>3. c \in Int /\ t = c + w
  <2>1. j \in MonthCounts
    OBVIOUS
  <2> HIDE DEF j
  <2> QED BY <1>1, <2>1, OnDayFrom
<1>4. p \in BOOLEAN /\ q \in BOOLEAN
  BY LeapOrNot
<1>5. /\ year_offset(y) \in Int
      /\ year_offset(y + 1) = year_offset(y) + IF p THEN 366 ELSE 365
  BY <1>1, YearsFollow DEF LengthOfYear
<1>6. /\ b = month_offset(m, p) + year_offset(y) /\ c = month_offset(m, q) + year_offset(y + 1)
      /\ v = IF d > month_length(m, p) THEN month_length(m, p) ELSE d
      /\ w = IF d > month_length(m, q) THEN month_length(m, q) ELSE d
  BY DEF BeforeMonth, LengthOf
<1> HIDE DEF j, x, t, y, m, b, c, p, q, v, w
<1>7. m \in {1, 2, 3, 4, 5, 6, 7, 8, 9, 10, 11, 12}
  BY <1>1 DEF CivilMonths
<1>8. \A e \in 1 .. 31 :
        (month_offset(m, q) + IF e > month_length(m, q) THEN month_length(m, q) ELSE e)
          - (month_offset(m, p) + IF e > month_length(m, p) THEN month_length(m, p) ELSE e)
        + (IF p THEN 366 ELSE 365) \in 365 .. 366
  BY <1>4, <1>7, SMTT(30) DEF month_offset, month_length
<1>9. month_offset(m, p) \in Int /\ month_offset(m, q) \in Int /\ v \in Int /\ w \in Int
  <2>1. /\ month_offset(m, p) \in Int /\ month_offset(m, q) \in Int
        /\ month_length(m, p) \in 28 .. 31 /\ month_length(m, q) \in 28 .. 31
    BY <1>1, <1>4, MonthsFill
  <2> QED BY <1>6, <2>1
<1>10. (month_offset(m, q) + w) - (month_offset(m, p) + v) + (IF p THEN 366 ELSE 365) \in 365 .. 366
  BY <1>6, <1>8
<1>11. t \in x + 365 .. x + 366
  <2> DEFINE f == month_offset(m, p)
             g == month_offset(m, q)
             l == IF p THEN 366 ELSE 365
             z == year_offset(y)
             z1 == year_offset(y + 1)
  <2>1. /\ f \in Int /\ g \in Int /\ v \in Int /\ w \in Int /\ z \in Int /\ l \in Int /\ z1 = z + l
        /\ b = f + z /\ c = g + z1 /\ (g + w) - (f + v) + l \in 365 .. 366
    BY <1>5, <1>6, <1>9, <1>10
  <2> HIDE DEF f, g, l, z, z1
  <2> QED BY <1>2, <1>3, <2>1
<1> QED BY <1>2, <1>11 DEF x, t, j

\* As many months on, and as many years.
LEMMA MonthsSpan ==
  ASSUME NEW k \in Int, NEW n \in Nat, FirstCount <= k, k + n <= LastCount, NEW d \in 1 .. 31
  PROVE  /\ OnDay(d, k) \in Int /\ OnDay(d, k + n) \in Int
         /\ OnDay(d, k) + 28 * n <= OnDay(d, k + n)
         /\ OnDay(d, k + n) <= OnDay(d, k) + 31 * n
<1> DEFINE t(j) == OnDay(d, k + j)
           T == {j \in 0 .. n : t(j) \in Int /\ t(0) + 28 * j <= t(j) /\ t(j) <= t(0) + 31 * j}
<1>1. \A j \in 0 .. n : k + j \in MonthCounts
  <2>1. FirstCount \in Int /\ LastCount \in Int
    BY SMT DEF FirstCount, LastCount
  <2>2. \A j \in 0 .. n : k + j \in Int /\ FirstCount <= k + j /\ k + j <= LastCount
    BY <2>1
  <2> QED BY <2>2, MonthCountsAre
<1>2. 0 \in 0 .. n /\ n \in 0 .. n /\ k + 0 = k
  OBVIOUS
<1>3. t(0) \in Int
  BY <1>1, <1>2, OnDayFrom
<1>4. 0 \in T
  BY <1>2, <1>3
<1>5. ASSUME NEW j \in 0 .. n - 1, j \in T PROVE j + 1 \in T
  <2>1. j \in 0 .. n /\ j + 1 \in 0 .. n /\ j \in Int
    OBVIOUS
  <2> DEFINE i == k + j
  <2>2. i \in MonthCounts /\ i + 1 \in MonthCounts /\ i + 1 = k + (j + 1)
    <3>1. i + 1 = k + (j + 1)
      BY <2>1
    <3> HIDE DEF i
    <3> QED BY <1>1, <2>1, <3>1 DEF i
  <2> HIDE DEF i
  <2>3. OnDay(d, i + 1) \in OnDay(d, i) + 28 .. OnDay(d, i) + 31
    BY <2>2, NextMonth
  <2>4. t(j + 1) \in t(j) + 28 .. t(j) + 31
    BY <2>2, <2>3 DEF i
  <2>5. t(j) \in Int /\ t(0) + 28 * j <= t(j) /\ t(j) <= t(0) + 31 * j
    BY <1>5
  <2> HIDE DEF t
  <2> QED BY <1>3, <2>1, <2>4, <2>5
<1> HIDE DEF T
<1>6. \A j \in 0 .. n : j \in T
  BY <1>2, <1>4, <1>5, StepByStep
<1>7. n \in T
  BY <1>2, <1>6
<1> QED BY <1>2, <1>3, <1>7 DEF T

LEMMA YearsSpan ==
  ASSUME NEW k \in Int, NEW n \in Nat, FirstCount <= k, k + 12 * n <= LastCount, NEW d \in 1 .. 31
  PROVE  /\ OnDay(d, k) \in Int /\ OnDay(d, k + 12 * n) \in Int
         /\ OnDay(d, k) + 365 * n <= OnDay(d, k + 12 * n)
         /\ OnDay(d, k + 12 * n) <= OnDay(d, k) + 366 * n
<1> DEFINE t(j) == OnDay(d, k + 12 * j)
           T == {j \in 0 .. n : t(j) \in Int /\ t(0) + 365 * j <= t(j) /\ t(j) <= t(0) + 366 * j}
<1>1. \A j \in 0 .. n : k + 12 * j \in MonthCounts
  <2>1. FirstCount \in Int /\ LastCount \in Int
    BY SMT DEF FirstCount, LastCount
  <2>2. \A j \in 0 .. n : k + 12 * j \in Int /\ FirstCount <= k + 12 * j /\ k + 12 * j <= LastCount
    BY <2>1
  <2> QED BY <2>2, MonthCountsAre
<1>2. 0 \in 0 .. n /\ n \in 0 .. n /\ k + 12 * 0 = k
  OBVIOUS
<1>3. t(0) \in Int
  BY <1>1, <1>2, OnDayFrom
<1>4. 0 \in T
  BY <1>2, <1>3
<1>5. ASSUME NEW j \in 0 .. n - 1, j \in T PROVE j + 1 \in T
  <2>1. j \in 0 .. n /\ j + 1 \in 0 .. n /\ j \in Int
    OBVIOUS
  <2> DEFINE i == k + 12 * j
  <2>2. i \in MonthCounts /\ i + 12 \in MonthCounts /\ i + 12 = k + 12 * (j + 1)
    <3>1. i + 12 = k + 12 * (j + 1)
      BY <2>1
    <3> HIDE DEF i
    <3> QED BY <1>1, <2>1, <3>1 DEF i
  <2> HIDE DEF i
  <2>3. OnDay(d, i + 12) \in OnDay(d, i) + 365 .. OnDay(d, i) + 366
    BY <2>2, NextYear
  <2>4. t(j + 1) \in t(j) + 365 .. t(j) + 366
    BY <2>2, <2>3 DEF i
  <2>5. t(j) \in Int /\ t(0) + 365 * j <= t(j) /\ t(j) <= t(0) + 366 * j
    BY <1>5
  <2> HIDE DEF t
  <2> QED BY <1>3, <2>1, <2>4, <2>5
<1> HIDE DEF T
<1>6. \A j \in 0 .. n : j \in T
  BY <1>2, <1>4, <1>5, StepByStep
<1>7. n \in T
  BY <1>2, <1>6
<1> QED BY <1>2, <1>3, <1>7 DEF T

LeadsWithin(p, s, t) ==
  /\ t \in Int /\ days_min_max(p)[1] \in Int /\ days_min_max(p)[2] \in Int
  /\ s + days_min_max(p)[1] <= t /\ t <= s + days_min_max(p)[2]

\* A period takes a sample date as many days on as days_min_max says.
LEMMA PeriodSpans ==
  ASSUME NEW s \in SampleDates, NEW p \in SamplePeriods
  PROVE  /\ LeadsWithin(p, s, advance(s, p.length, p.units))
         /\ p.units \notin {Months, Years} => advance(s, p.length, p.units) = s + InDays(p)
         /\ p.units \in {Months, Years} =>
              /\ MonthCount(s) \in Int /\ InMonths(p) \in Int
              /\ advance(s, p.length, p.units) = OnDay(day_of_month(s), MonthCount(s) + InMonths(p))
              /\ MonthCount(s) + InMonths(p) \in MonthCounts /\ day_of_month(s) \in 1 .. 31
<1> DEFINE l == p.length
           t == advance(s, l, p.units)
           d == day_of_month(s)
           k == MonthCount(s)
<1>1. l \in Int /\ p.units \in {Days, Weeks, Months, Years}
  BY SamplePeriodsAre
<1>2. s \in Int /\ s \in ValidDates
  BY SamplesAre
<1>3. k \in MonthCounts /\ k \in Int /\ d \in 1 .. 31
  <2>1. s \in InnerDates
    BY SampleDatesAssumption
  <2>2. k \in MonthCounts /\ d \in 1 .. 31
    BY <2>1, InnerDatesBetween
  <2>3. k \in Int
    BY <1>2, MonthCountIs
  <2> QED BY <2>2, <2>3
<1>4. OnDay(d, k) = s
  BY <1>2, OnItsDay
<1>0. FirstCount \in Int /\ LastCount \in Int /\ FirstCount <= k /\ k <= LastCount
  <2>1. FirstCount \in Int /\ LastCount \in Int
    BY SMT DEF FirstCount, LastCount
  <2> HIDE DEF k
  <2> QED BY <1>3, <2>1, MonthCountsAre
<1>5. CASE p.units = Days
  <2>1. t = s + l
    BY <1>5 DEF advance, Days, Weeks
  <2>2. InDays(p) = l * 1
    BY <1>5 DEF InDays, Days, Weeks
  <2>3. days_min_max(p) = IF l >= 0 THEN <<1 * l, 1 * l>> ELSE <<1 * l, 1 * l>>
    BY <1>5 DEF days_min_max, Days, Weeks, Months, Years
  <2>4. p.units \notin {Months, Years}
    BY <1>5 DEF Days, Months, Years
  <2> HIDE DEF l, t
  <2> QED BY <1>1, <1>2, <2>1, <2>2, <2>3, <2>4 DEF LeadsWithin, l, t
<1>6. CASE p.units = Weeks
  <2>1. t = s + 7 * l
    BY <1>6 DEF advance, Days, Weeks
  <2>2. InDays(p) = l * 7
    BY <1>6 DEF InDays, Days, Weeks
  <2>3. days_min_max(p) = IF l >= 0 THEN <<7 * l, 7 * l>> ELSE <<7 * l, 7 * l>>
    BY <1>6 DEF days_min_max, Days, Weeks, Months, Years
  <2>4. p.units \notin {Months, Years}
    BY <1>6 DEF Weeks, Months, Years
  <2> HIDE DEF l, t
  <2> QED BY <1>1, <1>2, <2>1, <2>2, <2>3, <2>4 DEF LeadsWithin, l, t
<1>7. CASE p.units = Months
  <2>1. t = OnDay(d, k + l)
    BY <1>7 DEF advance, Days, Weeks, Months, Years
  <2>2. InMonths(p) = l
    <3>1. InMonths(p) = l * 1
      BY <1>7 DEF InMonths, Months, Years
    <3> HIDE DEF l
    <3> QED BY <1>1, <3>1
  <2>3. days_min_max(p) = IF l >= 0 THEN <<28 * l, 31 * l>> ELSE <<31 * l, 28 * l>>
    BY <1>7 DEF days_min_max, Days, Weeks, Months, Years
  <2>4. k + l \in MonthCounts
    BY <1>7, <2>2, SamplePeriodsAre
  <2> HIDE DEF l, t, d, k
  <2>5. k + l \in Int /\ FirstCount <= k + l /\ k + l <= LastCount
    BY <1>0, <2>4, MonthCountsAre
  <2>6. t \in Int /\ IF l >= 0 THEN s + 28 * l <= t /\ t <= s + 31 * l
                     ELSE s + 31 * l <= t /\ t <= s + 28 * l
    <3>1. CASE l >= 0
      <4>1. l \in Nat
        BY <1>1, <3>1
      <4> QED BY <1>0, <1>3, <1>4, <2>1, <2>5, <3>1, <4>1, MonthsSpan
    <3>2. CASE ~(l >= 0)
      <4> DEFINE n == -l
                 j == k + l
      <4>1. n \in Nat /\ j + n = k /\ j \in Int
        BY <1>1, <1>3, <3>2
      <4>2. FirstCount <= j /\ j + n <= LastCount
        BY <1>0, <2>5, <4>1
      <4> HIDE DEF n, j
      <4>3. /\ OnDay(d, j) \in Int
            /\ OnDay(d, j) + 28 * n <= OnDay(d, j + n) /\ OnDay(d, j + n) <= OnDay(d, j) + 31 * n
        BY <1>3, <4>1, <4>2, MonthsSpan
      <4>4. t \in Int /\ t + 28 * n <= s /\ s <= t + 31 * n
        BY <1>4, <2>1, <4>1, <4>3 DEF j
      <4> QED BY <1>1, <1>2, <3>2, <4>4 DEF n
    <3> QED BY <3>1, <3>2
  <2>7. p.units \in {Months, Years}
    BY <1>7
  <2> QED BY <1>1, <1>2, <1>3, <2>1, <2>2, <2>3, <2>4, <2>6, <2>7 DEF LeadsWithin, l, t, d, k
<1>8. CASE p.units = Years
  <2>1. t = OnDay(d, k + 12 * l)
    BY <1>8 DEF advance, Days, Weeks, Months, Years
  <2>2. InMonths(p) = 12 * l
    <3>1. InMonths(p) = l * 12
      BY <1>8 DEF InMonths, Months, Years
    <3> HIDE DEF l
    <3> QED BY <1>1, <3>1
  <2>3. days_min_max(p) = IF l >= 0 THEN <<365 * l, 366 * l>> ELSE <<366 * l, 365 * l>>
    BY <1>8 DEF days_min_max, Days, Weeks, Months, Years
  <2>4. k + 12 * l \in MonthCounts
    BY <1>8, <2>2, SamplePeriodsAre
  <2> HIDE DEF l, t, d, k
  <2>5. k + 12 * l \in Int /\ FirstCount <= k + 12 * l /\ k + 12 * l <= LastCount
    BY <1>0, <2>4, MonthCountsAre
  <2>6. t \in Int /\ IF l >= 0 THEN s + 365 * l <= t /\ t <= s + 366 * l
                     ELSE s + 366 * l <= t /\ t <= s + 365 * l
    <3>1. CASE l >= 0
      <4>1. l \in Nat
        BY <1>1, <3>1
      <4> QED BY <1>0, <1>3, <1>4, <2>1, <2>5, <3>1, <4>1, YearsSpan
    <3>2. CASE ~(l >= 0)
      <4> DEFINE n == -l
                 j == k + 12 * l
      <4>1. n \in Nat /\ j + 12 * n = k /\ j \in Int
        BY <1>1, <1>3, <3>2
      <4>2. FirstCount <= j /\ j + 12 * n <= LastCount
        BY <1>0, <2>5, <4>1
      <4> HIDE DEF n, j
      <4>3. /\ OnDay(d, j) \in Int
            /\ OnDay(d, j) + 365 * n <= OnDay(d, j + 12 * n)
            /\ OnDay(d, j + 12 * n) <= OnDay(d, j) + 366 * n
        BY <1>3, <4>1, <4>2, YearsSpan
      <4>4. t \in Int /\ t + 365 * n <= s /\ s <= t + 366 * n
        BY <1>4, <2>1, <4>1, <4>3 DEF j
      <4> QED BY <1>1, <1>2, <3>2, <4>4 DEF n
    <3> QED BY <3>1, <3>2
  <2>7. p.units \in {Months, Years} /\ 12 * l \in Int
    BY <1>1, <1>8
  <2> QED BY <1>1, <1>2, <1>3, <2>1, <2>2, <2>3, <2>4, <2>6, <2>7 DEF LeadsWithin, l, t, d, k
<1> QED BY <1>1, <1>5, <1>6, <1>7, <1>8

\* What less decides, by what it decides from.
LEMMA LessMeans ==
  ASSUME NEW p, NEW q, p.length \in Int, q.length \in Int
  PROVE  /\ p.length = 0 => less(p, q) = YesNo(q.length > 0)
         /\ p.length # 0 /\ q.length = 0 => less(p, q) = YesNo(p.length < 0)
         /\ p.length # 0 /\ q.length # 0 /\ Comparable(p, q) =>
              less(p, q) = YesNo(IF p.units \in {Months, Years} THEN InMonths(p) < InMonths(q)
                                                                ELSE InDays(p) < InDays(q))
         /\ p.length # 0 /\ q.length # 0 /\ ~Comparable(p, q) =>
              less(p, q) = IF days_min_max(p)[2] < days_min_max(q)[1] THEN "yes"
                           ELSE IF days_min_max(p)[1] > days_min_max(q)[2] THEN "no"
                           ELSE "undecided"
<1>1. ASSUME p.length = 0 PROVE less(p, q) = YesNo(q.length > 0)
  BY <1>1 DEF less
<1>2. ASSUME p.length # 0, q.length = 0 PROVE less(p, q) = YesNo(p.length < 0)
  BY <1>2 DEF less
<1>3. ASSUME p.length # 0, q.length # 0, Comparable(p, q)
      PROVE  less(p, q) = YesNo(IF p.units \in {Months, Years} THEN InMonths(p) < InMonths(q)
                                                               ELSE InDays(p) < InDays(q))
  BY <1>3 DEF less
<1>4. ASSUME p.length # 0, q.length # 0, ~Comparable(p, q)
      PROVE  less(p, q) = IF days_min_max(p)[2] < days_min_max(q)[1] THEN "yes"
                          ELSE IF days_min_max(p)[1] > days_min_max(q)[2] THEN "no"
                          ELSE "undecided"
  BY <1>4 DEF less
<1> QED BY <1>1, <1>2, <1>3, <1>4

LEMMA CmpMeans ==
  ASSUME NEW p, NEW q
  PROVE  /\ partial_cmp(p, q) = "Less" => less(p, q) = "yes"
         /\ partial_cmp(p, q) = "Equal" => less(p, q) = "no" /\ less(q, p) = "no"
<1>1. CASE less(p, q) = "yes"
  <2>1. partial_cmp(p, q) = "Less"
    BY <1>1 DEF partial_cmp
  <2> QED BY <1>1, <2>1
<1>2. CASE less(p, q) # "yes" /\ less(q, p) = "yes"
  <2>1. partial_cmp(p, q) = "Greater"
    BY <1>2 DEF partial_cmp
  <2> QED BY <2>1
<1>3. CASE less(p, q) = "no" /\ less(q, p) = "no"
  <2>1. partial_cmp(p, q) = "Equal"
    BY <1>3 DEF partial_cmp
  <2> QED BY <1>3, <2>1
<1>4. CASE /\ ~(less(p, q) = "yes") /\ ~(less(p, q) # "yes" /\ less(q, p) = "yes")
           /\ ~(less(p, q) = "no" /\ less(q, p) = "no")
  <2>1. partial_cmp(p, q) = "None"
    BY <1>4 DEF partial_cmp
  <2> QED BY <2>1
<1> QED BY <1>1, <1>2, <1>3, <1>4

\* A longer period has more days, and one of none has no days.
LEMMA SignOfSpan ==
  ASSUME NEW p \in SamplePeriods, NEW s \in Int, NEW t, LeadsWithin(p, s, t)
  PROVE  /\ p.length = 0 => t = s
         /\ p.length > 0 => t > s
         /\ p.length < 0 => t < s
<1> DEFINE l == p.length
<1>1. l \in Int /\ p.units \in {Days, Weeks, Months, Years}
  BY SamplePeriodsAre
<1>2. \E lo, hi \in {1, 7, 28, 31, 365, 366} :
        days_min_max(p) = IF l >= 0 THEN <<lo * l, hi * l>> ELSE <<hi * l, lo * l>>
  <2>1. CASE p.units = Days
    BY <2>1 DEF days_min_max, Days, Weeks, Months, Years
  <2>2. CASE p.units = Weeks
    BY <2>2 DEF days_min_max, Days, Weeks, Months, Years
  <2>3. CASE p.units = Months
    BY <2>3 DEF days_min_max, Days, Weeks, Months, Years
  <2>4. CASE p.units = Years
    BY <2>4 DEF days_min_max, Days, Weeks, Months, Years
  <2> QED BY <1>1, <2>1, <2>2, <2>3, <2>4
<1>3. PICK lo \in {1, 7, 28, 31, 365, 366}, hi \in {1, 7, 28, 31, 365, 366} :
        days_min_max(p) = IF l >= 0 THEN <<lo * l, hi * l>> ELSE <<hi * l, lo * l>>
  BY <1>2
<1> DEFINE a == days_min_max(p)[1]
           b == days_min_max(p)[2]
<1>4. t \in Int /\ a \in Int /\ b \in Int /\ s + a <= t /\ t <= s + b
  BY DEF LeadsWithin
<1>5. a \in {lo * l, hi * l} /\ b \in {lo * l, hi * l}
  BY <1>3
<1> HIDE DEF l, a, b
<1>6. \A c \in {1, 7, 28, 31, 365, 366} : /\ l = 0 => c * l = 0
                                          /\ l > 0 => c * l > 0
                                          /\ l < 0 => c * l < 0
  BY <1>1
<1>7. /\ l = 0 => a = 0 /\ b = 0
      /\ l > 0 => a > 0
      /\ l < 0 => b < 0
  BY <1>5, <1>6
<1> QED BY <1>1, <1>4, <1>7 DEF l

\* A period that is decided shorter leads to an earlier date, from any date and for
\* any lengths, and equal periods to the same (period.rs).
THEOREM PeriodsKeepOrder == PeriodsOrderDates
<1> DEFINE to(s, p) == advance(s, p.length, p.units)
<1>1. ASSUME NEW s \in SampleDates, NEW p \in SamplePeriods, NEW q \in SamplePeriods
      PROVE  /\ less(p, q) = "yes" => to(s, p) < to(s, q)
             /\ less(p, q) = "no" /\ less(q, p) = "no" => to(s, p) = to(s, q)
  <2> DEFINE x == to(s, p)
             y == to(s, q)
             a == p.length
             b == q.length
  <2>1. a \in Int /\ b \in Int /\ s \in Int /\ p.units \in {Days, Weeks, Months, Years}
        /\ q.units \in {Days, Weeks, Months, Years}
    BY SamplePeriodsAre, SamplesAre
  <2>2. LeadsWithin(p, s, x) /\ LeadsWithin(q, s, y)
    BY PeriodSpans
  <2>3. "yes" # "no" /\ "undecided" \notin {"yes", "no"}
    OBVIOUS
  <2>4. CASE a = 0 \/ b = 0
    <3>1. /\ a = 0 => x = s
          /\ a > 0 => x > s
          /\ a < 0 => x < s
      BY <2>1, <2>2, SignOfSpan
    <3>2. /\ b = 0 => y = s
          /\ b > 0 => y > s
          /\ b < 0 => y < s
      BY <2>1, <2>2, SignOfSpan
    <3>3. /\ a = 0 => less(p, q) = YesNo(b > 0)
          /\ a # 0 /\ b = 0 => less(p, q) = YesNo(a < 0)
          /\ b = 0 => less(q, p) = YesNo(a > 0)
          /\ b # 0 /\ a = 0 => less(q, p) = YesNo(b < 0)
      BY <2>1, LessMeans
    <3>4. x \in Int /\ y \in Int
      BY <2>2 DEF LeadsWithin
    <3> HIDE DEF a, b, x, y
    <3>5. CASE a = 0
      <4>1. less(p, q) = YesNo(b > 0) /\ less(q, p) \in {YesNo(b < 0), YesNo(a > 0)}
        BY <3>3, <3>5
      <4>2. /\ less(p, q) = "yes" => b > 0
            /\ less(p, q) = "no" => ~(b > 0)
            /\ less(q, p) = "no" /\ b < 0 => FALSE
        BY <2>3, <3>3, <3>5, <4>1 DEF YesNo
      <4> QED BY <2>1, <3>1, <3>2, <3>4, <3>5, <4>2 DEF x, y
    <3>6. CASE a # 0 /\ b = 0
      <4>1. /\ less(p, q) = "yes" => a < 0
            /\ less(p, q) = "no" => ~(a < 0)
            /\ less(q, p) = "no" => ~(a > 0)
        BY <2>3, <3>3, <3>6 DEF YesNo
      <4> QED BY <2>1, <3>1, <3>2, <3>4, <3>6, <4>1 DEF x, y
    <3> QED BY <2>4, <3>5, <3>6 DEF x, y
  <2>5. CASE a # 0 /\ b # 0 /\ ~Comparable(p, q)
    <3> DEFINE pmin == days_min_max(p)[1]
               pmax == days_min_max(p)[2]
               qmin == days_min_max(q)[1]
               qmax == days_min_max(q)[2]
    <3>1. ~Comparable(q, p)
      BY <2>5 DEF Comparable
    <3>2. /\ less(p, q) = IF pmax < qmin THEN "yes" ELSE IF pmin > qmax THEN "no" ELSE "undecided"
          /\ less(q, p) = IF qmax < pmin THEN "yes" ELSE IF qmin > pmax THEN "no" ELSE "undecided"
      BY <2>1, <2>5, <3>1, LessMeans
    <3>3. /\ x \in Int /\ y \in Int /\ pmin \in Int /\ pmax \in Int /\ qmin \in Int /\ qmax \in Int
          /\ s + pmin <= x /\ x <= s + pmax /\ s + qmin <= y /\ y <= s + qmax
      BY <2>2 DEF LeadsWithin
    <3> HIDE DEF pmin, pmax, qmin, qmax, x, y, a, b
    <3>4. less(p, q) = "yes" => pmax < qmin
      BY <2>3, <3>2
    <3>5. less(p, q) = "no" => pmin > qmax
      BY <2>3, <3>2
    <3>6. less(q, p) = "no" => qmin > pmax
      BY <2>3, <3>2
    <3>7. /\ less(p, q) = "yes" => x < y
          /\ less(p, q) = "no" /\ less(q, p) = "no" => x = y
      BY <2>1, <3>3, <3>4, <3>5, <3>6
    <3> QED BY <3>7 DEF x, y
  <2>6. CASE a # 0 /\ b # 0 /\ Comparable(p, q) /\ p.units \in {Months, Years}
    <3> DEFINE k == MonthCount(s)
               d == day_of_month(s)
               m == InMonths(p)
               n == InMonths(q)
    <3>1. Comparable(q, p) /\ q.units \in {Months, Years}
      BY <2>6 DEF Comparable
    <3>2. less(p, q) = YesNo(m < n) /\ less(q, p) = YesNo(n < m)
      BY <2>1, <2>6, <3>1, LessMeans
    <3>3. /\ k \in Int /\ m \in Int /\ x = OnDay(d, k + m) /\ k + m \in MonthCounts /\ d \in 1 .. 31
      BY <2>6, PeriodSpans
    <3>4. n \in Int /\ y = OnDay(d, k + n) /\ k + n \in MonthCounts
      BY <3>1, PeriodSpans
    <3> HIDE DEF k, d, m, n, x, y
    <3>5. /\ x \in ValidDates /\ MonthCount(x) = k + m
          /\ y \in ValidDates /\ MonthCount(y) = k + n
      BY <3>3, <3>4, OnDayIs
    <3>6. less(p, q) = "yes" => x < y
      <4>1. less(p, q) = "yes" => m < n
        BY <2>3, <3>2 DEF YesNo
      <4>2. m < n => MonthCount(x) < MonthCount(y)
        BY <3>3, <3>4, <3>5
      <4> QED BY <3>5, <4>1, <4>2, MonthsOrderDates
    <3>7. less(p, q) = "no" /\ less(q, p) = "no" => x = y
      <4>1. less(p, q) = "no" /\ less(q, p) = "no" => ~(m < n) /\ ~(n < m)
        BY <2>3, <3>2 DEF YesNo
      <4>2. ~(m < n) /\ ~(n < m) => m = n
        BY <3>3, <3>4
      <4> QED BY <3>3, <3>4, <4>1, <4>2
    <3> QED BY <3>6, <3>7 DEF x, y
  <2>7. CASE a # 0 /\ b # 0 /\ Comparable(p, q) /\ p.units \notin {Months, Years}
    <3> DEFINE m == InDays(p)
               n == InDays(q)
    <3>1. Comparable(q, p) /\ q.units \notin {Months, Years}
      BY <2>7 DEF Comparable
    <3>2. less(p, q) = YesNo(m < n) /\ less(q, p) = YesNo(n < m)
      BY <2>1, <2>7, <3>1, LessMeans
    <3>3. x = s + m /\ y = s + n
      BY <2>7, <3>1, PeriodSpans
    <3>4. m \in Int /\ n \in Int
      BY <2>1 DEF InDays
    <3> HIDE DEF m, n, x, y
    <3>5. /\ less(p, q) = "yes" => m < n
          /\ less(p, q) = "no" /\ less(q, p) = "no" => ~(m < n) /\ ~(n < m)
      BY <2>3, <3>2 DEF YesNo
    <3>6. /\ less(p, q) = "yes" => x < y
          /\ less(p, q) = "no" /\ less(q, p) = "no" => x = y
      BY <2>1, <3>3, <3>4, <3>5
    <3> QED BY <3>6 DEF x, y
  <2> QED BY <2>4, <2>5, <2>6, <2>7
<1> DEFINE order == [p \in SamplePeriods |-> [q \in SamplePeriods |-> partial_cmp(p, q)]]
           all(s) == [p \in SamplePeriods |-> advance(s, p.length, p.units)]
<1>2. \A p, q \in SamplePeriods : order[p][q] = partial_cmp(p, q)
  OBVIOUS
<1>3. \A s \in SampleDates, p \in SamplePeriods : all(s)[p] = to(s, p)
  OBVIOUS
<1> HIDE DEF to, order, all
<1>4. ASSUME NEW s \in SampleDates, NEW p \in SamplePeriods, NEW q \in SamplePeriods
      PROVE  /\ order[p][q] = "Less" => all(s)[p] < all(s)[q]
             /\ order[p][q] = "Equal" => all(s)[p] = all(s)[q]
  <2>1. order[p][q] = partial_cmp(p, q) /\ all(s)[p] = to(s, p) /\ all(s)[q] = to(s, q)
    BY <1>2, <1>3
  <2> QED BY <1>1, <2>1, CmpMeans
<1> QED BY <1>4 DEF PeriodsOrderDates, order, all

-----------------------------------------------------------------------------
(* IMM dates *)

\* The third Wednesday of a month counted from year 0.
Third(k) == nth_weekday(3, Wednesday, CountedMonth(k), CountedYear(k))

LEMMA ThirdIs ==
  ASSUME NEW k \in MonthCounts
  PROVE  /\ Third(k) \in ValidDates /\ Third(k) \in Int
         /\ MonthCount(Third(k)) = k /\ month(Third(k)) = CountedMonth(k)
         /\ is_imm_date(Third(k)) /\ day_of_month(Third(k)) \in 15 .. 21
<1> DEFINE y == CountedYear(k)
           m == CountedMonth(k)
           b == BeforeMonth(y, m)
           first == weekday(b + 1)
           skip == 3 - IF 4 >= first THEN 1 ELSE 0
           e == 1 + 4 + skip * 7 - first
           t == Third(k)
<1>1. /\ k \in Int /\ y \in CivilYears /\ y >= 1901 /\ m \in CivilMonths /\ 12 * y + m - 1 = k
  BY CountedMonthIs
<1>2. b \in Int /\ LengthOf(y, m) \in 28 .. 31
  BY <1>1, MonthsAre
<1> HIDE DEF y, m
<1>3. DateOf(1, m, y) = b + 1
  <2>1. 1 \in 1 .. LengthOf(y, m)
    BY <1>2
  <2> QED BY <1>1, <2>1, DateHasItsDay
<1>4. t = DateOf(e, m, y)
  BY <1>3 DEF Third, nth_weekday, Wednesday, y, m
<1> HIDE DEF b
<1>5. first \in 1 .. 7 /\ (b + 1) % 7 = first % 7
  BY <1>2 DEF weekday
<1> HIDE DEF first
<1>6. e \in 15 .. 21 /\ (first <= 4 => e = 19 - first) /\ (first > 4 => e = 26 - first)
  BY <1>5
<1> HIDE DEF e
<1>7. /\ t \in ValidDates /\ t = b + e /\ year(t) = y /\ month(t) = m /\ day_of_month(t) = e
  <2>1. e \in 1 .. LengthOf(y, m)
    BY <1>2, <1>6
  <2> QED BY <1>1, <1>4, <2>1, DateHasItsDay DEF b
<1> HIDE DEF t
<1>8. t \in Int /\ weekday(t) = 4
  <2>1. (b + e) % 7 = 4
    <3> DEFINE q == (b + 1) \div 7
               r == (b + 1) % 7
    <3>1. q \in Int /\ r \in 0 .. 6 /\ b + 1 = 7 * q + r
      BY <1>2
    <3>2. r = first % 7
      BY <1>5
    <3> HIDE DEF q, r
    <3>3. (r = first /\ first < 7) \/ (r = 0 /\ first = 7)
      BY <1>5, <3>2
    <3>4. b + e = 7 * (q + 2) + 4 \/ b + e = 7 * (q + 3) + 4
          \/ b + e = 7 * (q + 4) + 4 \/ b + e = 7 * (q + 1) + 4
      BY <1>2, <1>6, <3>1, <3>3
    <3> QED BY <3>1, <3>4
  <2>2. t \in Int
    BY <1>2, <1>6, <1>7
  <2> QED BY <1>7, <2>1, <2>2 DEF weekday
<1>9. is_imm_date(t)
  BY <1>6, <1>7, <1>8 DEF is_imm_date, Wednesday
<1>10. MonthCount(t) = k
  BY <1>1, <1>7 DEF MonthCount
<1> QED BY <1>6, <1>7, <1>8, <1>9, <1>10 DEF t, m

\* A month has one.
LEMMA ImmDateIsThird ==
  ASSUME NEW s \in ValidDates, is_imm_date(s), MonthCount(s) \in MonthCounts
  PROVE  s = Third(MonthCount(s))
<1> DEFINE t == Third(MonthCount(s))
<1>1. /\ t \in ValidDates /\ t \in Int /\ MonthCount(t) = MonthCount(s) /\ is_imm_date(t)
  BY ThirdIs
<1> HIDE DEF t
<1>2. /\ s \in Int /\ CountedYear(MonthCount(s)) = year(s) /\ CountedMonth(MonthCount(s)) = month(s)
      /\ CountedYear(MonthCount(t)) = year(t) /\ CountedMonth(MonthCount(t)) = month(t)
  BY <1>1, MonthCountIs
<1>3. /\ day_of_month(s) \in Int /\ day_of_month(t) \in Int
      /\ day_of_month(t) - day_of_month(s) = t - s
  <2>1. year(s) = year(t) /\ month(s) = month(t)
    BY <1>1, <1>2
  <2> QED BY <1>1, <2>1, DaysOfAMonth
<1>4. /\ day_of_month(s) \in 15 .. 21 /\ day_of_month(t) \in 15 .. 21
      /\ s % 7 = 4 /\ t % 7 = 4
  <2>1. weekday(s) = 4 /\ weekday(t) = 4
    BY <1>1 DEF is_imm_date, Wednesday
  <2>2. \A x \in Int : weekday(x) = 4 => x % 7 = 4
    BY DEF weekday
  <2> QED BY <1>1, <1>2, <2>1, <2>2 DEF is_imm_date
<1>5. t - s \in -6 .. 6
  BY <1>3, <1>4
<1>6. t = s
  <2> DEFINE q == s \div 7
             r == t \div 7
  <2>1. q \in Int /\ r \in Int /\ s = 7 * q + 4 /\ t = 7 * r + 4
    BY <1>1, <1>2, <1>4
  <2> HIDE DEF q, r
  <2> QED BY <1>1, <1>2, <1>5, <2>1
<1> QED BY <1>6 DEF t

\* A date is not before one of an earlier month.
LEMMA CountsKeepOrder ==
  ASSUME NEW s \in ValidDates, NEW t \in ValidDates, s <= t
  PROVE  MonthCount(s) \in Int /\ MonthCount(t) \in Int /\ MonthCount(s) <= MonthCount(t)
<1>1. s \in Int /\ t \in Int /\ MonthCount(s) \in Int /\ MonthCount(t) \in Int
  BY MonthCountIs
<1>2. MonthCount(t) < MonthCount(s) => t < s
  BY MonthsOrderDates
<1> QED BY <1>1, <1>2

OnCycle(k, mainCycle) == mainCycle => (k + 1) % 3 = 0

LEMMA CycleIs ==
  ASSUME NEW k \in MonthCounts, NEW mainCycle \in BOOLEAN
  PROVE  OnCycle(k, mainCycle) <=> (mainCycle => CountedMonth(k) \in MainCycle)
<1> DEFINE q == CountedYear(k)
           m == CountedMonth(k)
<1>1. k \in Int /\ q \in Int /\ m \in 1 .. 12 /\ 12 * q + m - 1 = k
  <2>1. k \in Int /\ q \in CivilYears /\ m \in CivilMonths /\ 12 * q + m - 1 = k
    BY CountedMonthIs
  <2> QED BY <2>1 DEF CivilYears, CivilMonths
<1> HIDE DEF q, m
<1>2. k + 1 = 3 * (4 * q) + m
  BY <1>1
<1>3. (k + 1) % 3 = m % 3
  <2> DEFINE p == 4 * q
  <2>1. p \in Int
    BY <1>1
  <2> HIDE DEF p
  <2> QED BY <1>1, <1>2, <2>1 DEF p
<1>4. m % 3 = 0 <=> m \in {3, 6, 9, 12}
  BY <1>1
<1> QED BY <1>3, <1>4 DEF OnCycle, MainCycle, m

\* The month ThirdWednesdayFrom goes on to: the first of the cycle, the month itself
\* unless its third week is past.
LEMMA FromIs ==
  ASSUME NEW s \in ValidDates, NEW mainCycle \in BOOLEAN
  PROVE  \E n \in 0 .. 3 :
           /\ ThirdWednesdayFrom(s, mainCycle) = Third(MonthCount(s) + n)
           /\ OnCycle(MonthCount(s) + n, mainCycle)
           /\ \A i \in MonthCount(s) .. MonthCount(s) + n - 1 :
                OnCycle(i, mainCycle) => i = MonthCount(s) /\ day_of_month(s) > 21
           /\ n = 0 => ~(day_of_month(s) > 21)
<1> DEFINE k == MonthCount(s)
           m == month(s)
           late == day_of_month(s) > 21
           offset == IF mainCycle THEN 3 ELSE 1
           skip == offset - (m % offset)
           n == IF skip # offset \/ late THEN skip ELSE 0
<1>1. k \in Int /\ m \in 1 .. 12 /\ year(s) \in Int /\ late \in BOOLEAN
  BY MonthCountIs
<1>2. ThirdWednesdayFrom(s, mainCycle) = Third(k + n)
  <2>1. n = 0 => k + n = k
    BY <1>1
  <2>2. ThirdWednesdayFrom(s, mainCycle)
          = LET j == k + n IN nth_weekday(3, Wednesday, (j % 12) + 1, j \div 12)
    BY DEF ThirdWednesdayFrom
  <2> QED BY <2>2 DEF Third, CountedMonth, CountedYear
<1>3. k = 12 * year(s) + m - 1
  BY DEF MonthCount
<1>4. (k + 1) % 3 = m % 3
  <2> DEFINE p == 4 * year(s)
  <2>1. p \in Int /\ k + 1 = 3 * p + m
    BY <1>1, <1>3
  <2> HIDE DEF p, k, m
  <2> QED BY <1>1, <2>1
<1> HIDE DEF k, m, late
<1>5. n \in 0 .. 3 /\ (n = 0 => ~late)
  BY <1>1
<1>6. OnCycle(k + n, mainCycle)
  <2>1. CASE mainCycle
    <3>1. skip = 3 - (m % 3) /\ n = IF skip # 3 \/ late THEN skip ELSE 0
      BY <2>1
    <3> DEFINE r == m % 3
               q == (k + 1) \div 3
    <3>2. r \in 0 .. 2 /\ q \in Int /\ k + 1 = 3 * q + r
      BY <1>1, <1>4
    <3> HIDE DEF r, q
    <3>3. n = 3 - r \/ (n = 0 /\ r = 0)
      BY <1>1, <3>1, <3>2 DEF r
    <3> HIDE DEF n
    <3>4. k + n + 1 = 3 * (q + 1) \/ k + n + 1 = 3 * q
      BY <1>1, <1>5, <3>2, <3>3
    <3>5. (k + n + 1) % 3 = 0
      BY <3>2, <3>4
    <3> QED BY <3>5 DEF OnCycle
  <2> QED BY <2>1 DEF OnCycle
<1>7. ASSUME NEW i \in k .. k + n - 1, OnCycle(i, mainCycle) PROVE i = k /\ late
  <2>1. CASE ~mainCycle
    <3>1. offset = 1 /\ m % 1 = 0
      BY <1>1, <2>1
    <3>2. skip = 1 /\ n = IF late THEN 1 ELSE 0
      BY <3>1
    <3> HIDE DEF n
    <3> QED BY <1>1, <1>5, <1>7, <3>2
  <2>2. CASE mainCycle
    <3>1. skip = 3 - (m % 3) /\ n = IF skip # 3 \/ late THEN skip ELSE 0
      BY <2>2
    <3> DEFINE r == m % 3
               q == (k + 1) \div 3
               p == (i + 1) \div 3
    <3>2. r \in 0 .. 2 /\ q \in Int /\ k + 1 = 3 * q + r
      BY <1>1, <1>4
    <3>3. i \in Int /\ k <= i /\ i <= k + n - 1
      BY <1>1, <1>5
    <3>4. p \in Int /\ i + 1 = 3 * p
      BY <1>7, <2>2, <3>3 DEF OnCycle
    <3>5. (n = 3 - r /\ (r # 0 \/ late)) \/ n = 0
      BY <1>1, <3>1, <3>2
    <3> HIDE DEF r, q, p, n
    <3>6. n = 3 - r /\ (r # 0 \/ late)
      BY <1>1, <3>3, <3>5
    <3>7. 3 * q + r <= 3 * p /\ 3 * p <= 3 * q + 2
      BY <1>1, <3>2, <3>3, <3>4, <3>6
    <3>8. p = q /\ r = 0
      BY <3>2, <3>4, <3>7
    <3> QED BY <1>1, <3>2, <3>3, <3>4, <3>6, <3>8
  <2> QED BY <2>1, <2>2
<1> HIDE DEF n
<1> QED BY <1>2, <1>5, <1>6, <1>7 DEF k, late

\* Months from one of the type on, as far as a search goes.
Searchable(k) == k \in Int /\ FirstCount <= k /\ k + 6 <= LastCount

LEMMA SearchableIs ==
  ASSUME NEW k, Searchable(k), NEW n \in 0 .. 6
  PROVE  k + n \in MonthCounts
<1>1. FirstCount \in Int /\ LastCount \in Int
  BY SMT DEF FirstCount, LastCount
<1>2. k + n \in Int /\ FirstCount <= k + n /\ k + n <= LastCount
  BY <1>1 DEF Searchable
<1> QED BY <1>2, MonthCountsAre

\* The next IMM date is in the first month of the cycle whose third Wednesday is later.
LEMMA NextIs ==
  ASSUME NEW s \in ValidDates, NEW mainCycle \in BOOLEAN, Searchable(MonthCount(s))
  PROVE  \E n \in 0 .. 3 :
           /\ next_imm_date(s, mainCycle) = Third(MonthCount(s) + n)
           /\ OnCycle(MonthCount(s) + n, mainCycle)
           /\ s < Third(MonthCount(s) + n)
           /\ \A i \in MonthCount(s) .. MonthCount(s) + n - 1 :
                OnCycle(i, mainCycle) => Third(i) <= s
<1> DEFINE k == MonthCount(s)
           r == ThirdWednesdayFrom(s, mainCycle)
<1>1. s \in Int /\ k \in Int /\ k \in MonthCounts
  <2>1. s \in Int /\ k \in Int /\ k + 0 = k
    BY MonthCountIs
  <2>2. 0 \in 0 .. 6
    OBVIOUS
  <2> HIDE DEF k
  <2>3. k + 0 \in MonthCounts
    BY <2>2, SearchableIs DEF k
  <2> QED BY <2>1, <2>3
<1>2. PICK n \in 0 .. 3 :
        /\ r = Third(k + n) /\ OnCycle(k + n, mainCycle)
        /\ \A i \in k .. k + n - 1 : OnCycle(i, mainCycle) => i = k /\ day_of_month(s) > 21
        /\ n = 0 => ~(day_of_month(s) > 21)
  BY FromIs
<1>3. k + n \in MonthCounts
  <2>1. n \in 0 .. 6
    OBVIOUS
  <2> QED BY <2>1, SearchableIs
<1>4. r \in ValidDates /\ r \in Int /\ MonthCount(r) = k + n
  BY <1>2, <1>3, ThirdIs
\* The third Wednesday of a month is past on its twenty-second.
<1>5. ASSUME NEW d \in ValidDates, MonthCount(d) = k, day_of_month(d) > 21 PROVE Third(k) <= d
  <2> DEFINE t == Third(k)
  <2>1. t \in ValidDates /\ t \in Int /\ MonthCount(t) = k /\ day_of_month(t) \in 15 .. 21
    BY <1>1, ThirdIs
  <2> HIDE DEF t, k
  <2>2. /\ d \in Int /\ CountedYear(MonthCount(d)) = year(d) /\ CountedMonth(MonthCount(d)) = month(d)
        /\ CountedYear(MonthCount(t)) = year(t) /\ CountedMonth(MonthCount(t)) = month(t)
    BY <2>1, MonthCountIs
  <2>3. day_of_month(d) \in Int /\ day_of_month(d) - day_of_month(t) = d - t
    <3>1. year(d) = year(t) /\ month(d) = month(t)
      BY <1>5, <2>1, <2>2
    <3> QED BY <2>1, <3>1, DaysOfAMonth
  <2>4. t <= d
    BY <1>5, <2>1, <2>2, <2>3
  <2> QED BY <2>4 DEF t
<1>6. CASE r > s
  <2>1. next_imm_date(s, mainCycle) = r
    BY <1>6 DEF next_imm_date
  <2>2. \A i \in k .. k + n - 1 : OnCycle(i, mainCycle) => Third(i) <= s
    <3>1. day_of_month(s) > 21 => Third(k) <= s
      BY <1>5
    <3> QED BY <1>2, <3>1
  <2>3. s < Third(k + n)
    BY <1>1, <1>2, <1>4, <1>6
  <2> HIDE DEF r
  <2>4. next_imm_date(s, mainCycle) = Third(k + n)
    BY <1>2, <2>1
  <2> QED BY <1>2, <2>2, <2>3, <2>4
<1>7. CASE ~(r > s)
  <2> DEFINE u == DateOf(22, month(r), year(r))
  <2>1. n = 0
    <3>1. k < k + n => s < r
      BY <1>4, MonthsOrderDates
    <3> QED BY <1>1, <1>4, <1>7, <3>1
  <2>2. k + n = k
    BY <1>1, <2>1
  <2>3. /\ u \in ValidDates /\ MonthCount(u) = k /\ day_of_month(u) = 22
    <3> DEFINE y == year(r)
               m == month(r)
    <3>1. /\ y \in CivilYears /\ m \in CivilMonths /\ LengthOf(y, m) \in 28 .. 31
          /\ CountedYear(MonthCount(r)) = y
      BY <1>4, MonthCountIs
    <3>2. y >= 1901
      BY <1>3, <1>4, <3>1, CountedMonthIs
    <3>3. 22 \in 1 .. LengthOf(y, m)
      BY <3>1
    <3> HIDE DEF y, m
    <3> DEFINE v == DateOf(22, m, y)
    <3>4. v \in ValidDates /\ year(v) = y /\ month(v) = m /\ day_of_month(v) = 22
      BY <3>1, <3>2, <3>3, DateHasItsDay
    <3> HIDE DEF v
    <3>5. MonthCount(v) = MonthCount(r)
      BY <3>4 DEF MonthCount, y, m
    <3> QED BY <1>4, <2>2, <3>4, <3>5 DEF v, y, m
  <2>4. next_imm_date(s, mainCycle) = ThirdWednesdayFrom(u, mainCycle)
    BY <1>7 DEF next_imm_date
  <2> HIDE DEF u
  <2>5. PICK j \in 0 .. 3 :
          /\ ThirdWednesdayFrom(u, mainCycle) = Third(k + j) /\ OnCycle(k + j, mainCycle)
          /\ \A i \in k .. k + j - 1 : OnCycle(i, mainCycle) => i = k
          /\ j = 0 => ~(day_of_month(u) > 21)
    BY <2>3, FromIs
  <2>6. j # 0
    BY <2>3, <2>5
  <2>7. Third(k) <= s
    BY <1>1, <1>2, <1>4, <1>7, <2>2
  <2>8. s < Third(k + j)
    <3>1. k + j \in MonthCounts
      <4>1. j \in 0 .. 6
        OBVIOUS
      <4> QED BY <4>1, SearchableIs
    <3>2. Third(k + j) \in ValidDates /\ MonthCount(Third(k + j)) = k + j
      BY <3>1, ThirdIs
    <3>3. k < k + j
      BY <1>1, <2>6
    <3> QED BY <3>2, <3>3, MonthsOrderDates
  <2> HIDE DEF k
  <2>9. next_imm_date(s, mainCycle) = Third(k + j)
    BY <2>4, <2>5
  <2>10. \A i \in k .. k + j - 1 : OnCycle(i, mainCycle) => Third(i) <= s
    BY <2>5, <2>7
  <2> QED BY <2>5, <2>8, <2>9, <2>10 DEF k
<1> QED BY <1>6, <1>7

SearchYears == 1901 .. 2190
CountOf(y, m) == 12 * y + m - 1

\* From the first of a month it is the month's own.
LEMMA NextFromFirst ==
  ASSUME NEW y \in SearchYears, NEW m \in CivilMonths, NEW every \in BOOLEAN, ~every
  PROVE  next_imm_date(DateOf(1, m, y), every) = Third(CountOf(y, m))
<1> DEFINE k == CountOf(y, m)
           f == DateOf(1, m, y)
<1>0. y \in Int /\ 1901 <= y /\ y <= 2190 /\ m \in 1 .. 12
  BY SMT DEF SearchYears, CivilMonths
<1>1. /\ f \in ValidDates /\ year(f) = y /\ month(f) = m /\ day_of_month(f) = 1
  <2>1. y \in CivilYears /\ m \in CivilMonths
    BY <1>0, SMT DEF CivilYears, CivilMonths
  <2>2. LengthOf(y, m) \in 28 .. 31
    BY <2>1, MonthsAre
  <2>3. 1 \in 1 .. LengthOf(y, m)
    BY <2>2
  <2> QED BY <1>0, <2>1, <2>3, DateHasItsDay
<1> HIDE DEF f
<1>2. MonthCount(f) = k
  BY <1>1 DEF MonthCount, CountOf
<1>3. Searchable(k) /\ k \in Int
  BY <1>0, SMT DEF Searchable, FirstCount, LastCount, CountOf
<1> HIDE DEF k
<1>4. \A i : OnCycle(i, every)
  BY DEF OnCycle
<1>5. PICK n \in 0 .. 3 :
        /\ next_imm_date(f, every) = Third(k + n)
        /\ \A i \in k .. k + n - 1 : OnCycle(i, every) => Third(i) <= f
  BY <1>1, <1>2, <1>3, <1>4, NextIs
<1>6. n = 0
  <2> SUFFICES ASSUME n # 0 PROVE FALSE
    OBVIOUS
  <2>1. k \in k .. k + n - 1
    BY <1>3
  <2> DEFINE t == Third(k)
  <2>2. t <= f
    BY <1>4, <1>5, <2>1
  <2>3. k \in MonthCounts
    <3>1. 0 \in 0 .. 6 /\ k + 0 = k
      BY <1>3
    <3>2. k + 0 \in MonthCounts
      BY <1>3, <3>1, SearchableIs
    <3> QED BY <3>1, <3>2
  <2>4. t \in ValidDates /\ t \in Int /\ MonthCount(t) = k /\ day_of_month(t) \in 15 .. 21
    BY <2>3, ThirdIs
  <2> HIDE DEF t
  <2>5. /\ f \in Int /\ CountedYear(MonthCount(f)) = year(f) /\ CountedMonth(MonthCount(f)) = month(f)
        /\ CountedYear(MonthCount(t)) = year(t) /\ CountedMonth(MonthCount(t)) = month(t)
    BY <1>1, <2>4, MonthCountIs
  <2>6. day_of_month(t) - day_of_month(f) = t - f
    <3>1. year(f) = year(t) /\ month(f) = month(t)
      BY <1>2, <2>4, <2>5
    <3> QED BY <1>1, <2>4, <3>1, DaysOfAMonth
  <2> QED BY <1>1, <2>2, <2>4, <2>5, <2>6
<1>7. k + n = k
  BY <1>3, <1>6
<1>8. next_imm_date(f, every) = Third(k)
  BY <1>5, <1>7
<1> QED BY <1>8 DEF f, k

\* The last digit of a year names it, or the one ten years before, in the decade of
\* a year at most ten years earlier.
LEMMA DigitNames ==
  ASSUME NEW v \in Int, NEW z \in Int, 1906 <= v, v <= z, z <= v + 10
  PROVE  LET y == (z % 10) + v - (v % 10) + IF z % 10 = 0 /\ v <= 1909 THEN 10 ELSE 0
         IN  y \in {z, z - 10} /\ y >= 1901
<1> DEFINE a == z \div 10
           c == z % 10
           b == v \div 10
           e == v % 10
<1>1. /\ a \in Int /\ c \in 0 .. 9 /\ z = 10 * a + c
      /\ b \in Int /\ e \in 0 .. 9 /\ v = 10 * b + e
  OBVIOUS
<1> HIDE DEF a, b, c, e
<1> DEFINE y == c + v - e + IF c = 0 /\ v <= 1909 THEN 10 ELSE 0
<1>2. b <= a /\ a <= b + 1
  BY <1>1
<1>3. y \in {z, z - 10} /\ y >= 1901
  BY <1>1, <1>2
<1> QED BY <1>3 DEF c, e, y

LEMMA SearchMonths ==
  ASSUME NEW y \in SearchYears, NEW m \in CivilMonths
  PROVE  CountOf(y, m) \in MonthCounts
<1> DEFINE k == CountOf(y, m)
<1>1. y \in Int /\ 1901 <= y /\ y <= 2190 /\ m \in 1 .. 12
  BY SMT DEF SearchYears, CivilMonths
<1>2. k \in Int /\ FirstCount <= k /\ k <= LastCount
  BY <1>1, SMT DEF FirstCount, LastCount, CountOf
<1> HIDE DEF k
<1>3. k \in MonthCounts
  BY <1>2, MonthCountsAre
<1> QED BY <1>3 DEF k

\* The code of an IMM date names it from any date up to it that is less than ten
\* years before: the decade of the reference date is the right one, or the date it
\* leads to is past.
LEMMA CodeNames ==
  ASSUME NEW k \in MonthCounts, CountedYear(k) \in SearchYears,
         NEW ref \in ValidDates, ref <= Third(k), k - 120 < MonthCount(ref),
         1906 <= year(ref)
  PROVE  imm_date(imm_code(Third(k)), ref) = Third(k)
<1> DEFINE t == Third(k)
           z == CountedYear(k)
           m == CountedMonth(k)
           v == year(ref)
           code == imm_code(t)
           every == FALSE
           y == (z % 10) + v - (v % 10) + IF z % 10 = 0 /\ v <= 1909 THEN 10 ELSE 0
           r == next_imm_date(DateOf(1, m, y), every)
<1>1. /\ t \in ValidDates /\ t \in Int /\ MonthCount(t) = k /\ month(t) = m
  BY ThirdIs
<1>2. year(t) = z
  BY <1>1, MonthCountIs
<1>3. code[1] = m /\ code[2] = z % 10
  BY <1>1, <1>2 DEF imm_code
<1>0. \A a \in SearchYears, b \in CivilMonths :
        next_imm_date(DateOf(1, b, a), every) = Third(CountOf(a, b))
  <2>1. every \in BOOLEAN /\ ~every
    OBVIOUS
  <2> HIDE DEF every
  <2> QED BY <2>1, NextFromFirst
<1>4. imm_date(code, ref)
        = IF r < ref THEN next_imm_date(DateOf(1, m, y + 10), every) ELSE r
  BY <1>3 DEF imm_date
<1>5. /\ k \in Int /\ z \in Int /\ m \in 1 .. 12 /\ m \in CivilMonths
      /\ 12 * z + m - 1 = k /\ CountOf(z, m) = k
  <2>1. k \in Int /\ z \in CivilYears /\ m \in CivilMonths /\ 12 * z + m - 1 = k
    BY CountedMonthIs
  <2> QED BY <2>1 DEF CivilYears, CivilMonths, CountOf
<1>6. /\ ref \in Int /\ v \in Int /\ month(ref) \in 1 .. 12
      /\ MonthCount(ref) = 12 * v + month(ref) - 1
  <2>1. MonthCount(ref) = 12 * v + month(ref) - 1
    BY DEF MonthCount
  <2> QED BY <2>1, MonthCountIs
<1> HIDE DEF code, t, every
<1>7. 1906 <= v /\ v <= z /\ z <= v + 10
  <2>1. MonthCount(ref) <= k
    BY <1>1, CountsKeepOrder DEF t
  <2> HIDE DEF z, m, v
  <2>2. 1906 <= v
    BY DEF v
  <2> QED BY <1>5, <1>6, <2>1, <2>2
<1>8. y \in {z, z - 10} /\ y >= 1901
  <2> HIDE DEF z, v
  <2> QED BY <1>5, <1>6, <1>7, DigitNames
<1>9. z \in SearchYears
  OBVIOUS
<1>10. next_imm_date(DateOf(1, m, z), every) = t
  BY <1>0, <1>5, <1>9 DEF t
<1>11. CASE y = z
  <2>1. r = t
    BY <1>10, <1>11
  <2>2. ~(r < ref)
    BY <1>1, <1>6, <2>1 DEF t
  <2> HIDE DEF r
  <2> QED BY <1>4, <2>1, <2>2 DEF code, t
<1>12. CASE y = z - 10
  <2>1. y \in Int /\ y + 10 = z
    BY <1>5, <1>12
  <2>2. y \in SearchYears
    <3> HIDE DEF y, z
    <3>1. 1901 <= z /\ z <= 2190
      BY <1>9, SMT DEF SearchYears
    <3> QED BY <1>5, <1>8, <1>12, <3>1, SMT DEF SearchYears
  <2> HIDE DEF y
  <2>3. r = Third(CountOf(y, m))
    BY <1>0, <1>5, <2>2
  <2> HIDE DEF z, m, r
  <2>4. CountOf(y, m) = k - 120
    BY <1>5, <2>1 DEF CountOf
  <2>5. k - 120 \in MonthCounts
    <3>1. CountOf(y, m) \in MonthCounts
      BY <1>5, <2>2, SearchMonths
    <3> QED BY <2>4, <3>1
  <2>6. r \in ValidDates /\ MonthCount(r) = k - 120
    BY <2>3, <2>4, <2>5, ThirdIs
  <2>7. r < ref
    BY <2>6, MonthsOrderDates
  <2>8. imm_date(code, ref) = next_imm_date(DateOf(1, m, z), every)
    BY <1>4, <2>1, <2>7
  <2> QED BY <1>10, <2>8 DEF code, t
<1>13. imm_date(code, ref) = t
  BY <1>8, <1>11, <1>12 DEF code, t
<1> QED BY <1>13 DEF code, t

\* A date of the runs is far enough from the ends of the type for a search, and for
\* the ten years a code leaves open.
LEMMA SamplesLeaveRoom ==
  ASSUME NEW s \in SampleDates
  PROVE  /\ s \in ValidDates /\ s \in Int /\ MonthCount(s) \in Int
         /\ year(s) \in Int /\ 1915 <= year(s) /\ year(s) <= 2185
         /\ month(s) \in 1 .. 12 /\ MonthCount(s) = 12 * year(s) + month(s) - 1
         /\ Searchable(MonthCount(s)) /\ MonthCount(s) - 108 \in MonthCounts
<1> DEFINE k == MonthCount(s)
<1>1. /\ s \in ValidDates /\ s \in Int /\ s + 1 \in ValidDates
      /\ 1915 <= year(s) /\ year(s + 1) <= 2185
  BY SamplesAre
<1>2. k \in Int /\ year(s) \in Int /\ month(s) \in 1 .. 12 /\ year(s + 1) \in Int
      /\ month(s + 1) \in 1 .. 12
  BY <1>1, MonthCountIs
<1>3. k = 12 * year(s) + month(s) - 1
  BY DEF MonthCount
<1>4. year(s) <= 2185
  <2>1. MonthCount(s) <= MonthCount(s + 1)
    <3>1. s <= s + 1
      BY <1>1
    <3> QED BY <1>1, <3>1, CountsKeepOrder
  <2>2. MonthCount(s + 1) = 12 * year(s + 1) + month(s + 1) - 1
    BY DEF MonthCount
  <2> QED BY <1>1, <1>2, <1>3, <2>1, <2>2
<1> HIDE DEF k
<1>5. Searchable(k)
  BY <1>1, <1>2, <1>3, <1>4, SMT DEF Searchable, FirstCount, LastCount
<1>6. k - 108 \in MonthCounts
  <2> DEFINE i == k - 108
  <2>1. i \in Int /\ FirstCount <= i /\ i <= LastCount
    BY <1>1, <1>2, <1>3, <1>4, SMT DEF FirstCount, LastCount
  <2> HIDE DEF i
  <2>2. i \in MonthCounts
    BY <2>1, MonthCountsAre
  <2> QED BY <2>2 DEF i
<1> QED BY <1>1, <1>2, <1>3, <1>4, <1>5, <1>6 DEF k

\* The next IMM date is a third Wednesday after the date with no other between them,
\* and its code names it again from the date and from nine years before
\* (next_imm_date, imm_code and imm_date of imm.rs).
THEOREM ImmCodesName == CodesNameImmDates
<1> SUFFICES ASSUME NEW s \in SampleDates, NEW mainCycle \in BOOLEAN
    PROVE  LET next == next_imm_date(s, mainCycle)
               eligible(d) == is_imm_date(d) /\ (mainCycle => month(d) \in MainCycle)
           IN  /\ s < next /\ eligible(next)
               /\ \A d \in s + 1 .. next - 1 : ~eligible(d)
               /\ \A ref \in {s, advance(s, -9, Years)} : imm_date(imm_code(next), ref) = next
  BY DEF CodesNameImmDates
<1> DEFINE k == MonthCount(s)
           next == next_imm_date(s, mainCycle)
           eligible(d) == is_imm_date(d) /\ (mainCycle => month(d) \in MainCycle)
<1>1. /\ s \in ValidDates /\ s \in Int /\ k \in Int
      /\ year(s) \in Int /\ 1915 <= year(s) /\ year(s) <= 2185
      /\ month(s) \in 1 .. 12 /\ k = 12 * year(s) + month(s) - 1
      /\ Searchable(k) /\ k - 108 \in MonthCounts
  BY SamplesLeaveRoom
<1>2. PICK n \in 0 .. 3 :
        /\ next = Third(k + n) /\ OnCycle(k + n, mainCycle) /\ s < Third(k + n)
        /\ \A i \in k .. k + n - 1 : OnCycle(i, mainCycle) => Third(i) <= s
  BY <1>1, NextIs
<1> DEFINE e == k + n
<1> HIDE DEF next, k
<1>3. e \in MonthCounts /\ e \in Int
  <2>1. n \in 0 .. 6 /\ e \in Int
    BY <1>1
  <2> QED BY <1>1, <2>1, SearchableIs
<1>4. \A i \in k .. e : i \in MonthCounts
  <2> TAKE i \in k .. e
  <2>1. i \in Int /\ i - k \in 0 .. 6 /\ k + (i - k) = i
    BY <1>1
  <2> DEFINE j == i - k
  <2> HIDE DEF j
  <2>2. k + j \in MonthCounts
    BY <1>1, <2>1, SearchableIs DEF j
  <2> QED BY <2>1, <2>2 DEF j
<1> HIDE DEF e
<1>5. /\ next = Third(e) /\ OnCycle(e, mainCycle) /\ s < next
      /\ \A i \in k .. e - 1 : OnCycle(i, mainCycle) => Third(i) <= s
  <2>1. next = Third(e) /\ OnCycle(e, mainCycle)
    BY <1>2 DEF e
  <2>3. s < next
    BY <1>2
  <2>2. ASSUME NEW i \in k .. e - 1, OnCycle(i, mainCycle) PROVE Third(i) <= s
    <3>1. i \in k .. k + n - 1
      BY <1>1 DEF e
    <3> QED BY <1>2, <2>2, <3>1
  <2> QED BY <2>1, <2>2, <2>3
<1>6. /\ next \in ValidDates /\ next \in Int /\ MonthCount(next) = e
      /\ month(next) = CountedMonth(e) /\ is_imm_date(next)
  BY <1>3, <1>5, ThirdIs
<1>7. eligible(next)
  <2>1. mainCycle => CountedMonth(e) \in MainCycle
    BY <1>3, <1>5, CycleIs
  <2> QED BY <1>6, <2>1
<1>8. \A d \in s + 1 .. next - 1 : ~eligible(d)
  <2> SUFFICES ASSUME NEW d \in s + 1 .. next - 1, eligible(d) PROVE FALSE
    OBVIOUS
  <2>1. d \in ValidDates /\ d \in Int /\ s < d /\ d < next /\ s <= d /\ d <= next
    <3>1. d \in Int /\ s < d /\ d < next /\ s <= d /\ d <= next
      BY <1>1, <1>6
    <3>2. MinDate \in Int /\ MaxDate \in Int
      BY SMT DEF MinDate, MaxDate
    <3>3. MinDate <= d /\ d <= MaxDate
      BY <1>1, <1>6, <3>1, <3>2, SMT DEF ValidDates
    <3> QED BY <3>1, <3>2, <3>3, SMT DEF ValidDates
  <2> DEFINE i == MonthCount(d)
  <2>2. i \in Int /\ k <= i /\ i <= e
    <3>1. MonthCount(s) <= i /\ i <= MonthCount(next) /\ i \in Int
      BY <1>1, <1>6, <2>1, CountsKeepOrder
    <3> QED BY <1>6, <3>1 DEF k
  <2>3. i \in MonthCounts
    BY <1>1, <1>3, <1>4, <2>2
  <2>4. d = Third(i) /\ month(d) = CountedMonth(i)
    BY <2>1, <2>3, ImmDateIsThird, ThirdIs
  <2>5. OnCycle(i, mainCycle)
    BY <2>3, <2>4, CycleIs
  <2> HIDE DEF i
  <2>6. i # e
    BY <1>5, <1>6, <2>1, <2>4
  <2>7. i \in k .. e - 1
    BY <1>1, <1>3, <2>2, <2>6
  <2>8. Third(i) <= s
    BY <1>5, <2>5, <2>7
  <2> QED BY <1>1, <2>1, <2>4, <2>8
<1>9. CountedYear(e) \in SearchYears
  <2> DEFINE z == CountedYear(e)
             m == CountedMonth(e)
  <2>1. z \in Int /\ m \in 1 .. 12 /\ 12 * z + m - 1 = e
    <3>1. z \in CivilYears /\ m \in CivilMonths /\ 12 * z + m - 1 = e
      BY <1>3, CountedMonthIs
    <3> QED BY <3>1 DEF CivilYears, CivilMonths
  <2> HIDE DEF z, m
  <2>2. 1901 <= z /\ z <= 2190
    BY <1>1, <2>1 DEF e
  <2>3. z \in SearchYears
    BY <2>1, <2>2, SMT DEF SearchYears
  <2> QED BY <2>3 DEF z
<1>10. imm_date(imm_code(next), s) = next
  <2>1. e - 120 < MonthCount(s) /\ s <= next /\ 1906 <= year(s)
    <3>1. e - 120 < k
      BY <1>1 DEF e
    <3>2. s <= next /\ 1906 <= year(s)
      BY <1>1, <1>5, <1>6
    <3> QED BY <3>1, <3>2 DEF k
  <2> QED BY <1>1, <1>3, <1>5, <1>9, <2>1, CodeNames
<1>11. imm_date(imm_code(next), advance(s, -9, Years)) = next
  <2> DEFINE ref == advance(s, -9, Years)
             j == k - 108
  <2>1. /\ ref \in ValidDates /\ MonthCount(ref) = j
    <3>1. advance(s, -9, Years) = OnDay(day_of_month(s), MonthCount(s) + 12 * (-9))
      BY DEF advance, Days, Weeks, Months, Years
    <3>2. day_of_month(s) \in 1 .. 31
      <4>1. day_of_month(s) \in 1 .. LengthOf(year(s), month(s)) /\ LengthOf(year(s), month(s)) \in 28 .. 31
        BY <1>1, MonthCountIs
      <4> QED BY <4>1
    <3>3. MonthCount(s) + 12 * (-9) = j
      BY <1>1 DEF k
    <3> HIDE DEF j
    <3>4. j \in MonthCounts
      BY <1>1 DEF j
    <3>5. advance(s, -9, Years) = OnDay(day_of_month(s), j)
      BY <3>1, <3>3
    <3> QED BY <3>2, <3>4, <3>5, OnDayIs
  <2> HIDE DEF ref
  <2>2. /\ year(ref) \in Int /\ month(ref) \in 1 .. 12
        /\ MonthCount(ref) = 12 * year(ref) + month(ref) - 1 /\ ref \in Int
    <3>1. MonthCount(ref) = 12 * year(ref) + month(ref) - 1
      BY DEF MonthCount
    <3> QED BY <2>1, <3>1, MonthCountIs
  <2>3. 1906 <= year(ref)
    BY <1>1, <2>1, <2>2
  <2>4. ref <= next
    <3>1. MonthCount(ref) < MonthCount(next)
      BY <1>1, <1>6, <2>1 DEF e
    <3>2. ref < next
      BY <1>6, <2>1, <3>1, MonthsOrderDates
    <3> QED BY <1>6, <2>2, <3>2
  <2>5. e - 120 < MonthCount(ref)
    BY <1>1, <2>1 DEF e
  <2>6. imm_date(imm_code(next), ref) = next
    BY <1>3, <1>5, <1>9, <2>1, <2>3, <2>4, <2>5, CodeNames
  <2> QED BY <2>6 DEF ref
<1> QED BY <1>5, <1>7, <1>8, <1>10, <1>11 DEF next

\* Before any schedule is built, and whatever users make of the calendar: what the
\* dates, the periods and the rules of the markets promise each other is so.
THEOREM DatesAlwaysFollowRules == ScheduleSpec => []DatesFollowRules
<1>1. DatesFollowRules
  BY SerialNumbersNameDates, MonthsKeepOrder, PeriodsKeepOrder, ImmCodesName, EasterFollowsComputus
  DEF DatesFollowRules
<1> QED BY <1>1, PTL

-----------------------------------------------------------------------------
(* ROLLBACKS                                                                 *)

Swaps == [time : Int, pre : Int, post : Int, values : [Coupons -> Int]]

\* A swap counts what it should where it stands, given its marks.
CountsRight(s) ==
  \A i \in Coupons :
    s.values[i] =
      IF /\ EntryTime(i) >= 0
         /\ \/ EntryTime(i) > s.time
            \/ EntryTime(i) = s.time /\ Mark(s, CouponAdjustment(i)) = s.time
        THEN 1 ELSE 0

-----------------------------------------------------------------------------
(* What the deals are made of.                                               *)
LEMMA CouponFacts ==
  ASSUME deal \in Deals, NEW i \in Coupons
  PROVE  /\ deal.coupons[i].reset \in Int /\ deal.coupons[i].pay \in Int
         /\ deal.coupons[i].pass \in {"pre", "post"}
         /\ deal.coupons[i].reset < deal.coupons[i].pay
         /\ deal.coupons[i].pay <= deal.lastPayment
         /\ deal.lastPayment \in Int /\ 0 <= deal.lastPayment
         /\ deal.lastPayment <= LastNode /\ LastNode \in Int
         /\ EntryTime(i) \in Int /\ EntryTime(i) <= deal.lastPayment
         /\ CouponAdjustment(i) \in {"pre", "post"}
  <1>1. deal.coupons \in Seq(Coupon) /\ deal.lastPayment \in Times
    BY DealsAssumption
  <1>2. deal.coupons[i] \in Coupon
    <2>1. i \in 1 .. Len(deal.coupons)
      BY <1>1, LenProperties DEF Coupons
    <2> QED BY <1>1, <2>1, ElementOfSeq
  <1>3. deal.coupons[i].reset < deal.coupons[i].pay /\ deal.coupons[i].pay <= deal.lastPayment
    BY DealsAssumption DEF Coupons
  <1>4. LastNode \in Nat
    BY GridAssumption
  <1> QED
    BY <1>1, <1>2, <1>3, <1>4 DEF Coupon, Times, EntryTime, CouponAdjustment

(* A pass takes in exactly the coupons whose time it is and that are its own. *)
LEMMA PassTakesItsOwn ==
  ASSUME deal \in Deals, NEW i \in Coupons, NEW t \in Int, NEW pass \in {"pre", "post"}
  PROVE  (Begins(i, pass, t) \/ (pass = "post" /\ IsPaid(i, t)))
           <=> (EntryTime(i) >= 0 /\ EntryTime(i) = t /\ CouponAdjustment(i) = pass)
  <1>1. CASE is_reset_time_in_past(i)
    BY <1>1, CouponFacts
       DEF is_reset_time_in_past, Begins, IsPaid, EntryTime, CouponAdjustment, is_on_time, NearestNode
  <1>2. CASE ~is_reset_time_in_past(i)
    BY <1>2, CouponFacts
       DEF Begins, IsPaid, EntryTime, CouponAdjustment, is_on_time, NearestNode
  <1> QED BY <1>1, <1>2

(* The pre-adjustment leaves the swap right, with its first mark set.        *)
LEMMA PreKeepsCount ==
  ASSUME deal \in Deals, NEW s \in Swaps
  PROVE  /\ PreAdjusted(s) \in Swaps
         /\ PreAdjusted(s).time = s.time
         /\ PreAdjusted(s).pre = s.time
         /\ PreAdjusted(s).post = s.post
         /\ CountsRight(s) => CountsRight(PreAdjusted(s))
  <1>1. CASE s.pre = s.time
    BY <1>1 DEF PreAdjusted, Swaps
  <1>2. CASE s.pre # s.time
    <2> DEFINE v == Plus(s.values, "pre", s.time)
    <2>1. v \in [Coupons -> Int]
      BY DEF Plus, Swaps
    <2>2. PreAdjusted(s) = [s EXCEPT !.pre = s.time, !.values = v]
      BY <1>2 DEF PreAdjusted
    <2> HIDE DEF v
    <2>3. /\ PreAdjusted(s) \in Swaps /\ PreAdjusted(s).time = s.time
          /\ PreAdjusted(s).pre = s.time /\ PreAdjusted(s).post = s.post
          /\ PreAdjusted(s).values = v
      BY <2>1, <2>2 DEF Swaps
    <2>4. ASSUME CountsRight(s), NEW i \in Coupons
          PROVE  v[i] = IF /\ EntryTime(i) >= 0
                           /\ \/ EntryTime(i) > s.time
                              \/ /\ EntryTime(i) = s.time
                                 /\ Mark(PreAdjusted(s), CouponAdjustment(i)) = s.time
                          THEN 1 ELSE 0
      <3>1. v[i] = s.values[i] + IF Begins(i, "pre", s.time) \/ ("pre" = "post" /\ IsPaid(i, s.time))
                                   THEN 1 ELSE 0
        BY DEF v, Plus
      <3>2. s.time \in Int
        BY DEF Swaps
      <3>3. (Begins(i, "pre", s.time) \/ ("pre" = "post" /\ IsPaid(i, s.time)))
              <=> (EntryTime(i) >= 0 /\ EntryTime(i) = s.time /\ CouponAdjustment(i) = "pre")
        BY <3>2, PassTakesItsOwn
      <3>4. s.values[i] =
              IF /\ EntryTime(i) >= 0
                 /\ \/ EntryTime(i) > s.time
                    \/ EntryTime(i) = s.time /\ Mark(s, CouponAdjustment(i)) = s.time
                THEN 1 ELSE 0
        BY <2>4 DEF CountsRight
      <3>5. EntryTime(i) \in Int /\ CouponAdjustment(i) \in {"pre", "post"}
        BY CouponFacts
      <3>6. CASE CouponAdjustment(i) = "pre"
        BY <1>2, <2>3, <3>1, <3>2, <3>3, <3>4, <3>5, <3>6 DEF Mark
      <3>7. CASE CouponAdjustment(i) = "post"
        BY <1>2, <2>3, <3>1, <3>2, <3>3, <3>4, <3>5, <3>7 DEF Mark
      <3> QED BY <3>5, <3>6, <3>7
    <2> QED BY <2>3, <2>4 DEF CountsRight
  <1> QED BY <1>1, <1>2

(* So does the post-adjustment, with the second.                             *)
LEMMA PostKeepsCount ==
  ASSUME deal \in Deals, NEW s \in Swaps
  PROVE  /\ PostAdjusted(s) \in Swaps
         /\ PostAdjusted(s).time = s.time
         /\ PostAdjusted(s).pre = s.pre
         /\ PostAdjusted(s).post = s.time
         /\ CountsRight(s) => CountsRight(PostAdjusted(s))
  <1>1. CASE s.post = s.time
    BY <1>1 DEF PostAdjusted, Swaps
  <1>2. CASE s.post # s.time
    <2> DEFINE v == Plus(s.values, "post", s.time)
    <2>1. v \in [Coupons -> Int]
      BY DEF Plus, Swaps
    <2>2. PostAdjusted(s) = [s EXCEPT !.post = s.time, !.values = v]
      BY <1>2 DEF PostAdjusted
    <2> HIDE DEF v
    <2>3. /\ PostAdjusted(s) \in Swaps /\ PostAdjusted(s).time = s.time
          /\ PostAdjusted(s).pre = s.pre /\ PostAdjusted(s).post = s.time
          /\ PostAdjusted(s).values = v
      BY <2>1, <2>2 DEF Swaps
    <2>4. ASSUME CountsRight(s), NEW i \in Coupons
          PROVE  v[i] = IF /\ EntryTime(i) >= 0
                           /\ \/ EntryTime(i) > s.time
                              \/ /\ EntryTime(i) = s.time
                                 /\ Mark(PostAdjusted(s), CouponAdjustment(i)) = s.time
                          THEN 1 ELSE 0
      <3>1. v[i] = s.values[i] + IF Begins(i, "post", s.time) \/ ("post" = "post" /\ IsPaid(i, s.time))
                                   THEN 1 ELSE 0
        BY DEF v, Plus
      <3>2. s.time \in Int
        BY DEF Swaps
      <3>3. (Begins(i, "post", s.time) \/ ("post" = "post" /\ IsPaid(i, s.time)))
              <=> (EntryTime(i) >= 0 /\ EntryTime(i) = s.time /\ CouponAdjustment(i) = "post")
        BY <3>2, PassTakesItsOwn
      <3>4. s.values[i] =
              IF /\ EntryTime(i) >= 0
                 /\ \/ EntryTime(i) > s.time
                    \/ EntryTime(i) = s.time /\ Mark(s, CouponAdjustment(i)) = s.time
                THEN 1 ELSE 0
        BY <2>4 DEF CountsRight
      <3>5. EntryTime(i) \in Int /\ CouponAdjustment(i) \in {"pre", "post"}
        BY CouponFacts
      <3>6. CASE CouponAdjustment(i) = "pre"
        BY <1>2, <2>3, <3>1, <3>2, <3>3, <3>4, <3>5, <3>6 DEF Mark
      <3>7. CASE CouponAdjustment(i) = "post"
        BY <1>2, <2>3, <3>1, <3>2, <3>3, <3>4, <3>5, <3>7 DEF Mark
      <3> QED BY <3>5, <3>6, <3>7
    <2> QED BY <2>3, <2>4 DEF CountsRight
  <1> QED BY <1>1, <1>2

(* And both together.                                                        *)
LEMMA AdjustKeepsCount ==
  ASSUME deal \in Deals, NEW s \in Swaps
  PROVE  /\ Adjusted(s) \in Swaps
         /\ Adjusted(s).time = s.time
         /\ Settled(Adjusted(s))
         /\ CountsRight(s) => CountsRight(Adjusted(s))
  BY PreKeepsCount, PostKeepsCount DEF Adjusted, Settled

(* From a node where it is adjusted, a swap is right at the node before.     *)
LEMMA StepKeepsCount ==
  ASSUME deal \in Deals, NEW s \in Swaps, Settled(s)
  PROVE  /\ Stepped(s) \in Swaps
         /\ Stepped(s).time = s.time - 1
         /\ Stepped(s).post # Stepped(s).time
         /\ CountsRight(s) => CountsRight(Stepped(s))
  <1>1. /\ Stepped(s) \in Swaps /\ Stepped(s).time = s.time - 1
        /\ Stepped(s).pre = s.time /\ Stepped(s).post = s.time
        /\ Stepped(s).values = s.values /\ s.time \in Int
    BY DEF Stepped, Swaps, Settled
  <1>2. ASSUME CountsRight(s), NEW i \in Coupons
        PROVE  s.values[i] = IF /\ EntryTime(i) >= 0
                                /\ \/ EntryTime(i) > Stepped(s).time
                                   \/ /\ EntryTime(i) = Stepped(s).time
                                      /\ Mark(Stepped(s), CouponAdjustment(i)) = Stepped(s).time
                               THEN 1 ELSE 0
    <2>1. EntryTime(i) \in Int
      BY CouponFacts
    <2>2. /\ Mark(s, CouponAdjustment(i)) = s.time
          /\ Mark(Stepped(s), CouponAdjustment(i)) = s.time
      BY <1>1 DEF Mark, Settled
    <2>3. s.values[i] = IF EntryTime(i) >= 0 /\ EntryTime(i) >= s.time THEN 1 ELSE 0
      BY <1>1, <1>2, <2>1, <2>2 DEF CountsRight
    <2> QED BY <1>1, <2>1, <2>2, <2>3
  <1> QED BY <1>1, <1>2 DEF CountsRight

(* A slice: right again, and adjusted unless it is the last.                 *)
LEMMA SliceKeepsCount ==
  ASSUME deal \in Deals, NEW s \in Swaps, Settled(s), NEW to \in Int
  PROVE  LET n == Slice(Stepped(s), to)
         IN /\ n \in Swaps /\ n.time = s.time - 1
            /\ n.time # to => Settled(n)
            /\ n.time = to => n.post # n.time
            /\ CountsRight(s) => CountsRight(n)
  BY StepKeepsCount, AdjustKeepsCount DEF Slice

(* A swap initialised for the first time is right.                           *)
LEMMA ResetCounts ==
  ASSUME deal \in Deals, swap \in Swaps
  PROVE  /\ SwapReset \in Swaps /\ SwapReset.time = deal.lastPayment /\ Settled(SwapReset)
         /\ (swap.pre = Never /\ swap.post = Never) => CountsRight(SwapReset)
  <1> DEFINE z == [swap EXCEPT !.time = deal.lastPayment, !.values = NoCoupons]
  <1>1. deal.lastPayment \in Int /\ LastNode \in Int /\ deal.lastPayment <= LastNode
    BY DealsAssumption, GridAssumption DEF Times
  <1>2. NoCoupons \in [Coupons -> Int] /\ \A i \in Coupons : NoCoupons[i] = 0
    BY DEF NoCoupons
  <1>3. z \in Swaps /\ z.time = deal.lastPayment /\ z.pre = swap.pre /\ z.post = swap.post
        /\ z.values = NoCoupons
    BY <1>1, <1>2 DEF Swaps
  <1>4. SwapReset = Adjusted(z)
    BY DEF SwapReset
  <1> HIDE DEF z
  <1>5. ASSUME swap.pre = Never, swap.post = Never PROVE CountsRight(z)
    <2>1. ASSUME NEW i \in Coupons
          PROVE  /\ ~(EntryTime(i) > z.time)
                 /\ Mark(z, CouponAdjustment(i)) # z.time
                 /\ z.values[i] = 0
      <3>1. EntryTime(i) \in Int /\ EntryTime(i) <= deal.lastPayment
        BY CouponFacts
      <3> QED BY <1>1, <1>2, <1>3, <1>5, <3>1 DEF Mark, Never
    <2> QED BY <2>1 DEF CountsRight
  <1> QED BY <1>3, <1>4, <1>5, AdjustKeepsCount

-----------------------------------------------------------------------------
(* The inductive invariant                                                   *)

\* The users of a swaption, who leave its underlying alone.
OptionUsers == {"option", "engine"}

AssetsOK ==
  /\ deal \in Deals /\ inits \in Nat
  /\ swap \in Swaps
  /\ option.time \in Int /\ option.post \in Int
  /\ option = [time |-> option.time, pre |-> option.pre,
               post |-> option.post, values |-> option.values]
  /\ phase \in {"idle", "swap", "option", "underlying"}
  /\ phase = "swap" => goal.to \in Int
  /\ inits = 0 => /\ phase = "idle" /\ start = NoStart /\ option.values = {}
                  /\ swap.pre = Never /\ swap.post = Never /\ swap.time = 0
                  /\ engine = "new"

\* Who may be where, and what is adjusted by then: all of the swap, but where a
\* loop has just brought it to its destination or its user has left it so.
ControlOK ==
  /\ phase \in {"option", "underlying"} => user \in OptionUsers \cup {"both"}
  /\ phase = "swap" => user \in {"swap", "both"}
  /\ phase = "underlying" => option.post # option.time
  /\ start # NoStart => user \in OptionUsers \cup {"both"}
  /\ engine # "new" => user = "engine"
  /\ \/ Settled(swap)
     \/ phase = "swap" /\ swap.time = goal.to
     \/ phase = "underlying" /\ swap.time = option.time /\ swap.post # swap.time
     \/ phase = "idle" /\ (user \in OptionUsers => inits = 0)

\* An option that is about to be exercised finds its swap not yet post-adjusted.
OptionLeads ==
  (user \in OptionUsers /\ inits = 1 /\ swap.post = swap.time) =>
    \/ swap.time = deal.lastPayment
    \/ swap.time > option.time
    \/ swap.time = option.time /\ option.post = option.time

IInv ==
  /\ AssetsOK /\ ControlOK /\ OptionLeads
  /\ inits = 1 => CountsRight(swap)
  /\ ExercisesSeeTheRest

\* What an exercise at a time should see.
SeesTheRest(e) ==
  e.at < deal.lastPayment =>
    \A i \in Coupons :
      e.sees[i] = IF /\ EntryTime(i) >= 0
                     /\ \/ EntryTime(i) > e.at
                        \/ EntryTime(i) = e.at /\ CouponAdjustment(i) = "pre"
                    THEN 1 ELSE 0

(* The deal does not change, so what is said of it before a step holds after. *)
LEMMA DealStays ==
  ASSUME deal' = deal
  PROVE  /\ Swaps' = Swaps
         /\ CountsRight(swap)' <=> CountsRight(swap')
         /\ ExercisesSeeTheRest'
              <=> ((user' # "both" /\ inits' = 1) => \A e \in option'.values : SeesTheRest(e))
  <1>1. Swaps' = Swaps
    BY DEF Swaps, Coupons
  <1>2. CountsRight(swap)' <=> CountsRight(swap')
    BY DEF CountsRight, Coupons, EntryTime, Mark, CouponAdjustment, is_reset_time_in_past
  <1>3. ExercisesSeeTheRest'
          <=> ((user' # "both" /\ inits' = 1) => \A e \in option'.values : SeesTheRest(e))
    BY DEF ExercisesSeeTheRest, SeesTheRest, Coupons, EntryTime, CouponAdjustment,
           is_reset_time_in_past
  <1> QED BY <1>1, <1>2, <1>3

LEMMA ExercisesAre ==
  ExercisesSeeTheRest
    <=> ((user # "both" /\ inits = 1) => \A e \in option.values : SeesTheRest(e))
  BY DEF ExercisesSeeTheRest, SeesTheRest

(* The invariant holds to begin with.                                        *)
LEMMA InitIInv == Init => IInv
  <1> SUFFICES ASSUME Init PROVE IInv
    OBVIOUS
  <1>1. LastNode \in Int /\ 0 <= LastNode
    BY GridAssumption
  <1>2. NoCoupons \in [Coupons -> Int]
    BY DEF NoCoupons
  <1>3. AssetsOK
    BY <1>1, <1>2 DEF Init, AssetsOK, Swaps, Never
  <1>4. ControlOK
    BY DEF Init, ControlOK, OptionUsers
  <1>5. OptionLeads /\ ExercisesSeeTheRest
    BY DEF Init, OptionLeads, ExercisesSeeTheRest
  <1> QED BY <1>3, <1>4, <1>5 DEF IInv, Init

(* The user of a swap keeps it.                                              *)
LEMMA SwapInitializeKeeps == IInv /\ SwapInitialize => IInv'
  <1> SUFFICES ASSUME IInv, SwapInitialize PROVE IInv'
    OBVIOUS
  <1>0. deal' = deal /\ UNCHANGED <<user, option, phase, goal, start, engine>>
    BY DEF SwapInitialize, fixed
  <1>1. /\ SwapReset \in Swaps /\ Settled(SwapReset)
        /\ (swap.pre = Never /\ swap.post = Never) => CountsRight(SwapReset)
    BY ResetCounts DEF IInv, AssetsOK
  <1>2. AssetsOK'
    BY <1>0, <1>1, DealStays DEF IInv, AssetsOK, SwapInitialize
  <1>3. ControlOK'
    BY <1>0, <1>1 DEF IInv, ControlOK, SwapInitialize, Settled
  <1>4. OptionLeads'
    BY <1>0 DEF OptionLeads, SwapInitialize, OptionUsers
  <1>5. (inits = 1 => CountsRight(swap))'
    BY <1>0, <1>1, DealStays DEF IInv, AssetsOK, SwapInitialize
  <1>6. ExercisesSeeTheRest'
    <2>1. inits' = 1 => option'.values = {}
      BY <1>0 DEF IInv, AssetsOK, SwapInitialize
    <2> QED BY <1>0, <2>1, DealStays
  <1> QED BY <1>2, <1>3, <1>4, <1>5, <1>6 DEF IInv

LEMMA RollSwapKeeps ==
  ASSUME IInv, NEW t \in Times, NEW adjusting \in BOOLEAN, RollSwap(t, adjusting)
  PROVE  IInv'
  <1>0. deal' = deal /\ UNCHANGED <<user, swap, option, inits, start, engine>>
    BY DEF RollSwap, fixed
  <1>1. t \in Int
    BY GridAssumption DEF Times
  <1>2. AssetsOK'
    BY <1>0, <1>1, DealStays DEF IInv, AssetsOK, RollSwap
  <1>3. ControlOK'
    BY <1>0, <1>1 DEF IInv, ControlOK, RollSwap, Settled
  <1>4. OptionLeads'
    BY <1>0 DEF IInv, OptionLeads
  <1>5. (inits = 1 => CountsRight(swap))'
    BY <1>0, DealStays DEF IInv
  <1>6. ExercisesSeeTheRest'
    BY <1>0, DealStays, ExercisesAre DEF IInv
  <1> QED BY <1>2, <1>3, <1>4, <1>5, <1>6 DEF IInv

LEMMA StepSwapKeeps == IInv /\ StepSwap => IInv'
  <1> SUFFICES ASSUME IInv, StepSwap PROVE IInv'
    OBVIOUS
  <1>0. deal' = deal /\ UNCHANGED <<user, option, phase, goal, inits, start, engine>>
    BY DEF StepSwap, fixed
  <1>1. RollTarget \in Int /\ swap.time \in Int /\ swap \in Swaps
    BY DEF IInv, AssetsOK, StepSwap, RollTarget, Swaps
  <1>2. Settled(swap)
    BY <1>1 DEF IInv, ControlOK, StepSwap, RollTarget
  <1>3. /\ swap' \in Swaps /\ swap'.time = swap.time - 1
        /\ swap'.time # RollTarget => Settled(swap')
        /\ swap'.time = RollTarget => swap'.post # swap'.time
        /\ CountsRight(swap) => CountsRight(swap')
    BY <1>1, <1>2, SliceKeepsCount DEF IInv, AssetsOK, StepSwap
  <1>4. AssetsOK'
    BY <1>0, <1>3, DealStays DEF IInv, AssetsOK, StepSwap
  <1>5. ControlOK'
    <2>1. CASE phase = "swap"
      BY <1>0, <1>3, <2>1 DEF IInv, ControlOK, RollTarget, Settled
    <2>2. CASE phase = "underlying"
      BY <1>0, <1>3, <2>2 DEF IInv, ControlOK, RollTarget, Settled
    <2> QED BY <2>1, <2>2 DEF StepSwap
  <1>6. OptionLeads'
    <2>1. CASE user \in OptionUsers
      <3>1. RollTarget = option.time
        BY <2>1 DEF IInv, ControlOK, StepSwap, RollTarget, OptionUsers
      <3>2. swap'.time \in Int /\ option.time \in Int
        BY <1>1, <1>3, <3>1
      <3>3. swap'.post = swap'.time => swap'.time > option.time
        BY <1>1, <1>3, <3>1, <3>2 DEF StepSwap
      <3> QED BY <1>0, <3>3 DEF OptionLeads
    <2>2. CASE user \notin OptionUsers
      BY <1>0, <2>2 DEF OptionLeads, OptionUsers
    <2> QED BY <2>1, <2>2
  <1>7. (inits = 1 => CountsRight(swap))'
    BY <1>0, <1>3, DealStays DEF IInv
  <1>8. ExercisesSeeTheRest'
    BY <1>0, DealStays, ExercisesAre DEF IInv
  <1> QED BY <1>4, <1>5, <1>6, <1>7, <1>8 DEF IInv

LEMMA SwapArrivesKeeps == IInv /\ SwapArrives => IInv'
  <1> SUFFICES ASSUME IInv, SwapArrives PROVE IInv'
    OBVIOUS
  <1>0. deal' = deal /\ UNCHANGED <<user, option, goal, inits, start, engine>>
    BY DEF SwapArrives, fixed
  <1>1. /\ swap' \in Swaps
        /\ CountsRight(swap) => CountsRight(swap')
    BY AdjustKeepsCount DEF IInv, AssetsOK, SwapArrives
  <1>2. user \in {"swap", "both"} /\ inits # 0 /\ phase' = "idle"
    BY DEF IInv, AssetsOK, ControlOK, SwapArrives
  <1>3. AssetsOK'
    BY <1>0, <1>1, <1>2, DealStays DEF IInv, AssetsOK
  <1>4. ControlOK'
    BY <1>0, <1>2 DEF IInv, ControlOK, OptionUsers
  <1>5. OptionLeads'
    BY <1>0, <1>2 DEF OptionLeads, OptionUsers
  <1>6. (inits = 1 => CountsRight(swap))'
    BY <1>0, <1>1, DealStays DEF IInv
  <1>7. ExercisesSeeTheRest'
    BY <1>0, DealStays, ExercisesAre DEF IInv
  <1> QED BY <1>3, <1>4, <1>5, <1>6, <1>7 DEF IInv

-----------------------------------------------------------------------------
(* The user of an option, and the engine, keep it too.                       *)

\* The option is a record whose times are numbers.
OptionOK(o) ==
  /\ o.time \in Int /\ o.post \in Int
  /\ o = [time |-> o.time, pre |-> o.pre, post |-> o.post, values |-> o.values]

(* The beginning of an option's adjustment keeps everything but its mark.    *)
LEMMA AdjustOptionIs ==
  ASSUME NEW o, OptionOK(o), AdjustOption(o)
  PROVE  /\ OptionOK(option')
         /\ option'.time = o.time /\ option'.post = o.post /\ option'.values = o.values
         /\ phase' = IF o.post = o.time THEN "option" ELSE "underlying"
  BY DEF OptionOK, AdjustOption

LEMMA StepOptionKeeps == IInv /\ StepOption => IInv'
  <1> SUFFICES ASSUME IInv, StepOption PROVE IInv'
    OBVIOUS
  <1>0. deal' = deal /\ UNCHANGED <<user, swap, goal, inits, start, engine>>
    BY DEF StepOption, fixed
  <1>1. OptionOK(option) /\ option.time \in Int
    BY DEF IInv, AssetsOK, OptionOK
  <1>2. /\ OptionOK(Stepped(option)) /\ Stepped(option).time = option.time - 1
        /\ Stepped(option).post = option.post /\ Stepped(option).values = option.values
    BY <1>1 DEF OptionOK, Stepped
  <1>3. /\ OptionOK(option') /\ option'.time = option.time - 1
        /\ option'.post = option.post /\ option'.values = option.values
        /\ phase' = "option" \/ (phase' = "underlying" /\ option'.post # option'.time)
    <2>1. CASE Stepped(option).time = goal.to
      BY <1>2, <2>1 DEF StepOption
    <2>2. CASE Stepped(option).time # goal.to
      <3>1. AdjustOption(Stepped(option))
        BY <2>2 DEF StepOption
      <3> HIDE DEF AdjustOption, Stepped
      <3> QED BY <1>2, <3>1, AdjustOptionIs
    <2> QED BY <2>1, <2>2
  <1>4. AssetsOK'
    BY <1>0, <1>3, DealStays DEF IInv, AssetsOK, OptionOK, StepOption
  <1>5. ControlOK'
    <2>1. Settled(swap)
      BY DEF IInv, ControlOK, StepOption
    <2> QED BY <1>0, <1>3, <2>1 DEF IInv, ControlOK, StepOption, Settled
  <1>6. OptionLeads'
    <2>1. swap.time \in Int
      BY DEF IInv, AssetsOK, Swaps
    <2> QED BY <1>0, <1>1, <1>3, <2>1 DEF IInv, OptionLeads
  <1>7. (inits = 1 => CountsRight(swap))'
    BY <1>0, DealStays DEF IInv
  <1>8. ExercisesSeeTheRest'
    BY <1>0, <1>3, DealStays, ExercisesAre DEF IInv
  <1> QED BY <1>4, <1>5, <1>6, <1>7, <1>8 DEF IInv

LEMMA OptionArrivesKeeps == IInv /\ OptionArrives => IInv'
  <1> SUFFICES ASSUME IInv, OptionArrives PROVE IInv'
    OBVIOUS
  <1>0. deal' = deal /\ UNCHANGED <<user, swap, inits, start, engine>>
    BY DEF OptionArrives, fixed
  <1>1. OptionOK(option)
    BY DEF IInv, AssetsOK, OptionOK
  <1>2. /\ OptionOK(option') /\ option'.time = option.time
        /\ option'.post = option.post /\ option'.values = option.values
        /\ phase' \in {"option", "idle"} \/ (phase' = "underlying" /\ option'.post # option'.time)
    <2>1. CASE goal.adjust
      <3>1. AdjustOption(option)
        BY <2>1 DEF OptionArrives
      <3> QED BY <1>1, <3>1, AdjustOptionIs
    <2>2. CASE ~goal.adjust
      BY <1>1, <2>2 DEF OptionArrives
    <2> QED BY <2>1, <2>2
  <1>3. AssetsOK'
    BY <1>0, <1>2, DealStays DEF IInv, AssetsOK, OptionOK, OptionArrives
  <1>4. ControlOK'
    <2>1. Settled(swap)
      BY DEF IInv, ControlOK, OptionArrives
    <2> QED BY <1>0, <1>2, <2>1 DEF IInv, ControlOK, OptionArrives, Settled
  <1>5. OptionLeads'
    BY <1>0, <1>2 DEF IInv, OptionLeads
  <1>6. (inits = 1 => CountsRight(swap))'
    BY <1>0, DealStays DEF IInv
  <1>7. ExercisesSeeTheRest'
    BY <1>0, <1>2, DealStays, ExercisesAre DEF IInv
  <1> QED BY <1>3, <1>4, <1>5, <1>6, <1>7 DEF IInv

(* An exercise sees a right swap that is adjusted in its first half only.    *)
LEMMA ExerciseKeeps == IInv /\ Exercise => IInv'
  <1> SUFFICES ASSUME IInv, Exercise PROVE IInv'
    OBVIOUS
  <1>0. deal' = deal /\ UNCHANGED <<user, goal, inits, start, engine>>
    BY DEF Exercise, fixed
  <1> DEFINE s == Seen(swap)
  <1>1. /\ swap.time \in Int
        /\ s \in Swaps /\ s.time = swap.time /\ s.pre = swap.time /\ s.post = swap.post
        /\ CountsRight(swap) => CountsRight(s)
    BY PreKeepsCount DEF IInv, AssetsOK, Seen, Swaps
  <1>2. swap' = PostAdjusted(s)
    BY DEF Exercise
  <1>3. /\ option'.time = option.time /\ option'.post = option.time /\ OptionOK(option')
        /\ \/ option'.values = option.values
           \/ option'.values = option.values \cup {[at |-> option.time, sees |-> s.values]}
    <2>1. OptionOK(option)
      BY DEF IInv, AssetsOK, OptionOK
    <2> QED BY <2>1 DEF Exercise, OptionOK
  <1> HIDE DEF s
  <1>4. /\ swap' \in Swaps /\ swap'.time = swap.time /\ Settled(swap')
        /\ CountsRight(s) => CountsRight(swap')
    BY <1>1, <1>2, PostKeepsCount DEF IInv, AssetsOK, Settled
  <1>5. AssetsOK'
    BY <1>0, <1>3, <1>4, DealStays DEF IInv, AssetsOK, OptionOK, Exercise
  <1>6. ControlOK'
    BY <1>0, <1>3, <1>4 DEF IInv, ControlOK, Exercise, Settled
  <1>7. OptionLeads'
    BY <1>0, <1>3, <1>4 DEF OptionLeads, Exercise
  <1>8. (inits = 1 => CountsRight(swap))'
    BY <1>0, <1>1, <1>4, DealStays DEF IInv
  <1>9. ExercisesSeeTheRest'
    <2>1. CASE user = "both" \/ inits # 1
      BY <1>0, <2>1, DealStays
    <2>2. CASE user # "both" /\ inits = 1
      <3> DEFINE e == [at |-> option.time, sees |-> s.values]
      <3>1. e.at = swap.time /\ e.sees = s.values
        BY DEF Exercise
      <3>2. s.post # s.time \/ swap.time = deal.lastPayment
        <4>1. user \in OptionUsers /\ option.post # option.time /\ swap.time = option.time
          BY <2>2 DEF IInv, ControlOK, Exercise
        <4>2. ~(swap.time > option.time)
          BY <1>1, <4>1
        <4> QED BY <1>1, <2>2, <4>1, <4>2 DEF IInv, OptionLeads
      <3>3. CountsRight(s)
        BY <1>1, <2>2 DEF IInv
      <3>4. SeesTheRest(e)
        <4>1. CASE swap.time = deal.lastPayment
          <5>1. deal.lastPayment \in Int
            BY <1>1, <4>1
          <5> QED BY <3>1, <4>1, <5>1 DEF SeesTheRest
        <4>2. CASE s.post # s.time
          <5> HIDE DEF e
          <5>1. ASSUME NEW i \in Coupons
                PROVE  e.sees[i] = IF /\ EntryTime(i) >= 0
                                      /\ \/ EntryTime(i) > e.at
                                         \/ EntryTime(i) = e.at /\ CouponAdjustment(i) = "pre"
                                     THEN 1 ELSE 0
            <6>1. CouponAdjustment(i) \in {"pre", "post"}
              BY CouponFacts DEF IInv, AssetsOK
            <6>2. Mark(s, CouponAdjustment(i)) = s.time <=> CouponAdjustment(i) = "pre"
              BY <1>1, <4>2, <6>1 DEF Mark
            <6> QED BY <1>1, <3>1, <3>3, <6>2 DEF CountsRight
          <5> QED BY <5>1 DEF SeesTheRest
        <4> QED BY <3>2, <4>1, <4>2
      <3>5. \A x \in option.values : SeesTheRest(x)
        BY <2>2, ExercisesAre DEF IInv
      <3> HIDE DEF e
      <3>6. \A x \in option'.values : SeesTheRest(x)
        BY <1>3, <3>4, <3>5 DEF e
      <3> QED BY <1>0, <3>6, DealStays
    <2> QED BY <2>1, <2>2
  <1> QED BY <1>5, <1>6, <1>7, <1>8, <1>9 DEF IInv

LEMMA ExerciseFailsKeeps == IInv /\ ExerciseFails => IInv'
  <1> SUFFICES ASSUME IInv, ExerciseFails PROVE IInv'
    OBVIOUS
  <1>0. deal' = deal /\ UNCHANGED <<user, swap, option, goal, inits, start, engine>>
    BY DEF ExerciseFails, fixed
  <1>1. AssetsOK'
    BY <1>0, DealStays DEF IInv, AssetsOK, ExerciseFails
  <1>2. ControlOK'
    <2>1. swap.time # option.time
      BY DEF IInv, AssetsOK, Swaps, ExerciseFails
    <2>2. Settled(swap)
      BY <2>1 DEF IInv, ControlOK, ExerciseFails
    <2> QED BY <1>0, <2>2 DEF IInv, ControlOK, ExerciseFails, Settled
  <1>3. OptionLeads' /\ (inits = 1 => CountsRight(swap))' /\ ExercisesSeeTheRest'
    BY <1>0, DealStays, ExercisesAre DEF IInv, OptionLeads
  <1> QED BY <1>1, <1>2, <1>3 DEF IInv

(* Whoever initialises the option does it on a fresh swap, or for the second time. *)
LEMMA InitializeOptionKeeps ==
  ASSUME IInv, NEW t \in Int, InitializeOption(t), phase = "idle", UNCHANGED user,
         user \in OptionUsers \cup {"both"},
         engine' # "new" => user = "engine"
  PROVE  IInv'
  <1>0. deal' = deal /\ inits' = inits + 1 /\ inits \in Nat /\ start' = t
    BY DEF InitializeOption, fixed, IInv, AssetsOK
  <1>1. /\ swap' \in Swaps /\ swap'.time = deal.lastPayment /\ Settled(swap')
        /\ (swap.pre = Never /\ swap.post = Never) => CountsRight(swap')
    BY ResetCounts DEF IInv, AssetsOK, InitializeOption
  <1> DEFINE o == [time |-> t, pre |-> option.pre, post |-> option.post, values |-> {}]
  <1>2. OptionOK(o) /\ o.values = {}
    <2>1. option.post \in Int
      BY DEF IInv, AssetsOK
    <2> QED BY <2>1 DEF OptionOK
  <1>3. AdjustOption(o)
    BY DEF InitializeOption
  <1> HIDE DEF o
  <1>4. /\ OptionOK(option') /\ option'.values = {}
        /\ phase' = "option" \/ (phase' = "underlying" /\ option'.post # option'.time)
    BY <1>2, <1>3, AdjustOptionIs
  <1>5. AssetsOK'
    BY <1>0, <1>1, <1>4, DealStays DEF IInv, AssetsOK, OptionOK
  <1>6. ControlOK'
    BY <1>1, <1>4 DEF ControlOK, Settled
  <1>7. OptionLeads'
    BY <1>0, <1>1 DEF OptionLeads
  <1>8. (inits = 1 => CountsRight(swap))'
    BY <1>0, <1>1, DealStays DEF IInv, AssetsOK
  <1>9. ExercisesSeeTheRest'
    BY <1>0, <1>4, DealStays
  <1> QED BY <1>5, <1>6, <1>7, <1>8, <1>9 DEF IInv

(* A rollback of the option starts with its swap adjusted.                   *)
LEMMA RollOptionKeeps ==
  ASSUME IInv, NEW to, NEW adjusting, RollOption(to, adjusting), UNCHANGED user,
         Settled(swap), inits # 0, engine' # "new" => user = "engine"
  PROVE  IInv'
  <1>0. deal' = deal /\ UNCHANGED <<swap, option, inits, start>> /\ phase' = "option"
    BY DEF RollOption, fixed
  <1>1. AssetsOK'
    BY <1>0, DealStays DEF IInv, AssetsOK
  <1>2. ControlOK'
    BY <1>0 DEF IInv, ControlOK, RollOption, Settled
  <1>3. OptionLeads' /\ (inits = 1 => CountsRight(swap))' /\ ExercisesSeeTheRest'
    BY <1>0, DealStays, ExercisesAre DEF IInv, OptionLeads
  <1> QED BY <1>1, <1>2, <1>3 DEF IInv

LEMMA EngineKeeps == IInv /\ (EngineInitializes \/ EngineRolls \/ EnginePrices) => IInv'
  <1> SUFFICES ASSUME IInv, EngineInitializes \/ EngineRolls \/ EnginePrices PROVE IInv'
    OBVIOUS
  <1>1. CASE EngineInitializes
    <2>1. LastExercise \in Int
      <3>1. deal.exercise \in Seq(Int) /\ deal.exercise # <<>>
        BY DealsAssumption DEF IInv, AssetsOK
      <3>2. Len(deal.exercise) \in 1 .. Len(deal.exercise)
        BY <3>1, EmptySeq, LenProperties
      <3> QED BY <3>1, <3>2, ElementOfSeq DEF LastExercise
    <2>2. InitializeOption(LastExercise) /\ phase = "idle" /\ user = "engine"
      BY <1>1 DEF EngineInitializes
    <2>3. UNCHANGED user
      BY <2>2 DEF InitializeOption, fixed
    <2> QED BY <2>1, <2>2, <2>3, InitializeOptionKeeps DEF OptionUsers
  <1>2. CASE EngineRolls
    <2>1. RollOption(NextExercise, TRUE) /\ engine = "initialised" /\ phase = "idle"
      BY <1>2 DEF EngineRolls
    <2>2. user = "engine" /\ inits # 0 /\ UNCHANGED user
      BY <2>1 DEF IInv, AssetsOK, ControlOK, RollOption, fixed
    <2>3. Settled(swap)
      BY <2>1, <2>2 DEF IInv, ControlOK, OptionUsers
    <2> QED BY <2>1, <2>2, <2>3, RollOptionKeeps
  <1>3. CASE EnginePrices
    <2>0. deal' = deal /\ UNCHANGED <<user, swap, option, phase, goal, inits, start>>
      BY <1>3 DEF EnginePrices, fixed
    <2>1. user = "engine" /\ inits # 0
      BY <1>3 DEF IInv, AssetsOK, ControlOK, EnginePrices
    <2>2. AssetsOK' /\ ControlOK'
      BY <2>0, <2>1, DealStays DEF IInv, AssetsOK, ControlOK, Settled
    <2>3. OptionLeads' /\ (inits = 1 => CountsRight(swap))' /\ ExercisesSeeTheRest'
      BY <2>0, DealStays, ExercisesAre DEF IInv, OptionLeads
    <2> QED BY <2>2, <2>3 DEF IInv
  <1> QED BY <1>1, <1>2, <1>3

LEMMA UserOfOptionKeeps ==
  ASSUME IInv, NEW t \in Times, NEW adjusting \in BOOLEAN,
         UserInitializesOption(t) \/ UserRollsOption(t, adjusting)
  PROVE  IInv'
  <1>1. t \in Int
    BY GridAssumption DEF Times
  <1>2. engine # "new" => user = "engine"
    BY DEF IInv, ControlOK
  <1>3. CASE UserInitializesOption(t)
    <2>1. /\ InitializeOption(t) /\ phase = "idle" /\ UNCHANGED <<user, engine>>
          /\ user \in OptionUsers \cup {"both"}
      BY <1>3 DEF UserInitializesOption, InitializeOption, fixed, OptionUsers
    <2> QED BY <1>1, <1>2, <2>1, InitializeOptionKeeps
  <1>4. CASE UserRollsOption(t, adjusting)
    <2>1. RollOption(t, adjusting) /\ Settled(swap) /\ UNCHANGED <<user, engine>>
      BY <1>4 DEF UserRollsOption, RollOption, fixed
    <2>2. inits # 0
      BY <2>1 DEF IInv, AssetsOK, RollOption
    <2> QED BY <1>2, <2>1, <2>2, RollOptionKeeps
  <1> QED BY <1>3, <1>4

(* Every step keeps the invariant.                                           *)
LEMMA StepIInv == IInv /\ [Next]_vars => IInv'
  <1> SUFFICES ASSUME IInv, [Next]_vars PROVE IInv'
    OBVIOUS
  <1>1. CASE UNCHANGED vars
    <2>1. deal' = deal /\ UNCHANGED <<user, swap, option, phase, goal, inits, start, engine>>
      BY <1>1 DEF vars
    <2>2. AssetsOK' /\ ControlOK'
      BY <2>1, DealStays DEF IInv, AssetsOK, ControlOK, Settled
    <2>3. OptionLeads' /\ (inits = 1 => CountsRight(swap))' /\ ExercisesSeeTheRest'
      BY <2>1, DealStays, ExercisesAre DEF IInv, OptionLeads
    <2> QED BY <2>2, <2>3 DEF IInv
  <1>2. CASE SwapInitialize \/ StepSwap \/ SwapArrives
    BY <1>2, SwapInitializeKeeps, StepSwapKeeps, SwapArrivesKeeps
  <1>3. CASE StepOption \/ OptionArrives \/ Exercise \/ ExerciseFails
    BY <1>3, StepOptionKeeps, OptionArrivesKeeps, ExerciseKeeps, ExerciseFailsKeeps
  <1>4. ASSUME NEW t \in Times, NEW adjusting \in BOOLEAN,
               RollSwap(t, adjusting) \/ UserRollsOption(t, adjusting)
        PROVE  IInv'
    BY <1>4, RollSwapKeeps, UserOfOptionKeeps
  <1>5. ASSUME NEW t \in Times, UserInitializesOption(t) PROVE IInv'
    BY <1>5, UserOfOptionKeeps
  <1>6. CASE EngineInitializes \/ EngineRolls \/ EnginePrices
    BY <1>6, EngineKeeps
  <1> QED BY <1>1, <1>2, <1>3, <1>4, <1>5, <1>6 DEF Next

-----------------------------------------------------------------------------
(* A swap rolled back by anybody, in any number of calls, counts what is left. *)
THEOREM SwapCounts == Spec => []SwapIsWhatIsLeft
  <1>1. IInv => SwapIsWhatIsLeft
    BY DEF IInv, CountsRight, SwapIsWhatIsLeft
  <1> QED BY InitIInv, StepIInv, <1>1, PTL DEF Spec

(* Every exercise of a swaption, priced by the engine or by its own user, sees
   the coupons of the swap that begin then or later, and nothing of that day's
   payments. *)
THEOREM ExercisesCorrect == Spec => []ExercisesSeeTheRest
  <1>1. IInv => ExercisesSeeTheRest
    BY DEF IInv
  <1> QED BY InitIInv, StepIInv, <1>1, PTL DEF Spec

-----------------------------------------------------------------------------
(* No exercise is lost                                                       *)

\* The exercises taken are those on the way, the present one once it is marked;
\* and nobody leaves a time without its mark.
TakenOnTheWay ==
  /\ (inits = 1 /\ start # NoStart /\ ~failed) =>
       ExerciseTimes = {t \in option.time .. start :
                          Exercisable(t) /\ (t > option.time \/ option.post = option.time)}
  /\ phase = "option" => option.post = option.time \/ option.time = goal.to
  /\ inits = 0 => option.post = Never
  /\ start # NoStart => start \in Int
  /\ (inits = 1 /\ start # NoStart) => option.time <= start

(* What may be exercised is fixed with the deal.                             *)
LEMMA ExercisableStays ==
  ASSUME deal' = deal, NEW t PROVE Exercisable(t)' <=> Exercisable(t)
  BY DEF Exercisable

(* A step that leaves the option alone loses nothing.                        *)
LEMMA OptionAlone ==
  ASSUME TakenOnTheWay, UNCHANGED <<deal, option, start>>,
         inits' = inits \/ start = NoStart \/ inits' # 1, inits' = 0 => inits = 0,
         failed' = failed \/ failed' = TRUE,
         phase' # "option" \/ (phase = "option" /\ goal' = goal)
  PROVE  TakenOnTheWay'
  <1>1. ExerciseTimes' = ExerciseTimes
    BY DEF ExerciseTimes
  <1>2. \A t : Exercisable(t)' <=> Exercisable(t)
    BY ExercisableStays
  <1> QED BY <1>1, <1>2 DEF TakenOnTheWay

LEMMA StepOptionTakes ==
  ASSUME IInv, TakenOnTheWay, StepOption PROVE TakenOnTheWay'
  <1>0. deal' = deal /\ UNCHANGED <<swap, goal, inits, start, failed>>
    BY DEF StepOption, fixed
  <1>1. OptionOK(option) /\ option.time \in Int /\ option.post = option.time
    BY DEF IInv, AssetsOK, OptionOK, StepOption, TakenOnTheWay
  <1>2. /\ OptionOK(Stepped(option)) /\ Stepped(option).time = option.time - 1
        /\ Stepped(option).post = option.post /\ Stepped(option).values = option.values
    BY <1>1 DEF OptionOK, Stepped
  <1>3. /\ option'.time = option.time - 1 /\ option'.post = option.time
        /\ option'.values = option.values
        /\ phase' = "option" => option'.time = goal.to
    <2>1. CASE Stepped(option).time = goal.to
      BY <1>1, <1>2, <2>1 DEF StepOption
    <2>2. CASE Stepped(option).time # goal.to
      <3>1. AdjustOption(Stepped(option))
        BY <2>2 DEF StepOption
      <3> HIDE DEF Stepped
      <3> QED BY <1>1, <1>2, <3>1, AdjustOptionIs
    <2> QED BY <2>1, <2>2
  <1>4. \A t : Exercisable(t)' <=> Exercisable(t)
    BY <1>0, ExercisableStays
  <1>5. ExerciseTimes' = ExerciseTimes
    BY <1>3 DEF ExerciseTimes
  <1>6. ASSUME inits = 1, start # NoStart, ~failed
        PROVE  ExerciseTimes = {t \in option.time - 1 .. start :
                                  Exercisable(t) /\ t > option.time - 1}
    <2>1. ExerciseTimes = {t \in option.time .. start : Exercisable(t)}
      BY <1>1, <1>6 DEF TakenOnTheWay
    <2>2. start \in Int
      BY <1>6 DEF TakenOnTheWay
    <2> QED BY <1>1, <2>1, <2>2
  <1>7. option'.post # option'.time
    BY <1>1, <1>3
  <1>8. (inits = 1 /\ start # NoStart /\ ~failed) =>
          ExerciseTimes' = {t \in option'.time .. start :
                              Exercisable(t)' /\ (t > option'.time \/ option'.post = option'.time)}
    BY <1>3, <1>4, <1>5, <1>6, <1>7
  <1>9. inits # 0
    BY DEF IInv, AssetsOK, StepOption
  <1>10. (inits = 1 /\ start # NoStart) => option'.time <= start
    BY <1>1, <1>3 DEF TakenOnTheWay
  <1> QED BY <1>0, <1>3, <1>8, <1>9, <1>10 DEF TakenOnTheWay

LEMMA OptionArrivesTakes ==
  ASSUME IInv, TakenOnTheWay, OptionArrives PROVE TakenOnTheWay'
  <1>0. deal' = deal /\ UNCHANGED <<swap, inits, start, failed>> /\ goal'.to = goal.to
    <2>1. CASE goal.adjust
      BY <2>1 DEF OptionArrives, fixed
    <2>2. CASE ~goal.adjust
      BY <2>2 DEF OptionArrives, fixed
    <2> QED BY <2>1, <2>2
  <1>1. OptionOK(option)
    BY DEF IInv, AssetsOK, OptionOK
  <1>2. /\ option'.time = option.time /\ option'.post = option.post
        /\ option'.values = option.values /\ option.time = goal.to
    <2>1. CASE goal.adjust
      <3>1. AdjustOption(option)
        BY <2>1 DEF OptionArrives
      <3> QED BY <1>1, <3>1, AdjustOptionIs DEF OptionArrives
    <2>2. CASE ~goal.adjust
      BY <2>2 DEF OptionArrives
    <2> QED BY <2>1, <2>2
  <1>3. \A t : Exercisable(t)' <=> Exercisable(t)
    BY <1>0, ExercisableStays
  <1>4. ExerciseTimes' = ExerciseTimes
    BY <1>2 DEF ExerciseTimes
  <1> QED BY <1>0, <1>2, <1>3, <1>4 DEF TakenOnTheWay

LEMMA ExerciseTakes ==
  ASSUME IInv, TakenOnTheWay, Exercise PROVE TakenOnTheWay'
  <1>0. deal' = deal /\ UNCHANGED <<inits, start, failed>>
    BY DEF Exercise, fixed
  <1> DEFINE e == [at |-> option.time, sees |-> Seen(swap).values]
  <1>1. OptionOK(option) /\ option.post # option.time /\ inits # 0
    BY DEF IInv, AssetsOK, ControlOK, OptionOK, Exercise
  <1>2. /\ option'.time = option.time /\ option'.post = option.time
        /\ option'.values = IF Exercisable(option.time) THEN option.values \cup {e}
                                                        ELSE option.values
    BY <1>1 DEF Exercise, OptionOK
  <1>3. e.at = option.time
    OBVIOUS
  <1> HIDE DEF e
  <1>4. ExerciseTimes' = ExerciseTimes \cup IF Exercisable(option.time) THEN {option.time} ELSE {}
    BY <1>2, <1>3 DEF ExerciseTimes
  <1>5. \A t : Exercisable(t)' <=> Exercisable(t)
    BY <1>0, ExercisableStays
  <1>6. ASSUME inits = 1, start # NoStart, ~failed
        PROVE  ExerciseTimes' = {t \in option.time .. start : Exercisable(t)}
    <2>1. ExerciseTimes = {t \in option.time .. start : Exercisable(t) /\ t > option.time}
      BY <1>1, <1>6 DEF TakenOnTheWay
    <2>2. start \in Int /\ option.time \in Int
      BY <1>1, <1>6 DEF TakenOnTheWay, OptionOK
    <2>3. option.time <= start
      BY <1>6 DEF TakenOnTheWay
    <2> QED BY <1>4, <2>1, <2>2, <2>3
  <1>7. (inits = 1 /\ start # NoStart /\ ~failed) =>
          ExerciseTimes' = {t \in option'.time .. start :
                              Exercisable(t)' /\ (t > option'.time \/ option'.post = option'.time)}
    BY <1>2, <1>5, <1>6
  <1> QED BY <1>0, <1>1, <1>2, <1>7 DEF TakenOnTheWay

LEMMA AloneTakes ==
  ASSUME IInv, TakenOnTheWay, NEW to, NEW adjusting,
         \/ SwapInitialize \/ StepSwap \/ SwapArrives \/ ExerciseFails \/ EnginePrices
         \/ RollSwap(to, adjusting)
  PROVE  TakenOnTheWay'
  <1>0. inits \in Nat /\ (inits = 0 => start = NoStart)
    BY DEF IInv, AssetsOK
  <1>1. CASE SwapInitialize
    <2>1. /\ UNCHANGED <<deal, option, goal, start, failed, phase>>
          /\ inits' = inits + 1
      BY <1>1 DEF SwapInitialize, fixed
    <2> QED BY <1>0, <2>1, OptionAlone
  <1>2. CASE StepSwap \/ SwapArrives \/ EnginePrices \/ RollSwap(to, adjusting)
    <2>1. UNCHANGED <<deal, option, start, failed, inits>>
      BY <1>2 DEF StepSwap, SwapArrives, EnginePrices, RollSwap, fixed
    <2>2. phase' # "option"
      BY <1>2 DEF StepSwap, SwapArrives, EnginePrices, RollSwap
    <2> QED BY <2>1, <2>2, OptionAlone
  <1>3. CASE ExerciseFails
    <2>1. /\ UNCHANGED <<deal, option, start, inits>>
          /\ failed' = TRUE /\ phase' # "option"
      BY <1>3 DEF ExerciseFails, fixed
    <2> QED BY <2>1, OptionAlone
  <1> QED BY <1>1, <1>2, <1>3

(* The option takes nothing from where it is initialised, but what it exercises there. *)
LEMMA InitializeOptionTakes ==
  ASSUME IInv, TakenOnTheWay, NEW t \in Int, t <= LastNode, InitializeOption(t)
  PROVE  TakenOnTheWay'
  <1> DEFINE o == [time |-> t, pre |-> option.pre, post |-> option.post, values |-> {}]
  <1>0. /\ inits' = inits + 1 /\ inits \in Nat /\ start' = t /\ goal'.to = t
        /\ option.post \in Int
    BY DEF InitializeOption, IInv, AssetsOK
  <1>1. OptionOK(o) /\ o.time = t /\ o.post = option.post /\ o.values = {}
    BY <1>0 DEF OptionOK
  <1>2. AdjustOption(o)
    BY DEF InitializeOption
  <1> HIDE DEF o
  <1>3. /\ option'.time = t /\ option'.post = option.post /\ option'.values = {}
    BY <1>1, <1>2, AdjustOptionIs
  <1>4. ExerciseTimes' = {}
    BY <1>3 DEF ExerciseTimes
  <1>5. ASSUME inits' = 1 PROVE option'.post # t
    <2>1. option.post = Never
      BY <1>0, <1>5 DEF TakenOnTheWay
    <2>2. LastNode \in Int
      BY GridAssumption
    <2> QED BY <1>3, <2>1, <2>2 DEF Never
  <1>6. ASSUME inits' = 1
        PROVE  {x \in t .. t : Exercisable(x)' /\ (x > t \/ option'.post = t)} = {}
    BY <1>5, <1>6
  <1> QED BY <1>0, <1>3, <1>4, <1>6 DEF TakenOnTheWay

LEMMA RollOptionTakes ==
  ASSUME IInv, TakenOnTheWay, NEW to, NEW adjusting, RollOption(to, adjusting)
  PROVE  TakenOnTheWay'
  <1>1. /\ UNCHANGED <<deal, option, start, failed, inits>>
        /\ goal'.to = to /\ (to = option.time \/ option.post = option.time)
    BY DEF RollOption, Settled, fixed
  <1>2. ExerciseTimes' = ExerciseTimes
    BY <1>1 DEF ExerciseTimes
  <1>3. \A t : Exercisable(t)' <=> Exercisable(t)
    BY <1>1, ExercisableStays
  <1> QED BY <1>1, <1>2, <1>3 DEF TakenOnTheWay

(* Every step keeps the exercises taken those on the way.                    *)
LEMMA StepTakes == IInv /\ TakenOnTheWay /\ [Next]_vars => TakenOnTheWay'
  <1> SUFFICES ASSUME IInv, TakenOnTheWay, [Next]_vars PROVE TakenOnTheWay'
    OBVIOUS
  <1>1. CASE UNCHANGED vars
    BY <1>1, ExercisableStays DEF vars, TakenOnTheWay, ExerciseTimes
  <1>2. CASE SwapInitialize \/ StepSwap \/ SwapArrives \/ ExerciseFails \/ EnginePrices
    BY <1>2, AloneTakes
  <1>3. CASE StepOption \/ OptionArrives \/ Exercise
    BY <1>3, StepOptionTakes, OptionArrivesTakes, ExerciseTakes
  <1>4. ASSUME NEW t \in Times, NEW adjusting \in BOOLEAN,
               RollSwap(t, adjusting) \/ UserRollsOption(t, adjusting)
        PROVE  TakenOnTheWay'
    BY <1>4, AloneTakes, RollOptionTakes DEF UserRollsOption
  <1>5. ASSUME NEW t \in Times, UserInitializesOption(t) PROVE TakenOnTheWay'
    <2>1. t \in Int /\ t <= LastNode
      BY GridAssumption DEF Times
    <2> QED BY <1>5, <2>1, InitializeOptionTakes DEF UserInitializesOption
  <1>6. CASE EngineInitializes
    <2>1. deal.exercise \in Seq(Int) /\ deal.exercise # <<>>
          /\ \A k \in DOMAIN deal.exercise : deal.exercise[k] <= LastNode
      BY DealsAssumption DEF IInv, AssetsOK
    <2>2. Len(deal.exercise) \in DOMAIN deal.exercise
      BY <2>1, EmptySeq, LenProperties
    <2>3. LastExercise \in Int /\ LastExercise <= LastNode
      BY <2>1, <2>2, LenProperties, ElementOfSeq DEF LastExercise
    <2> QED BY <1>6, <2>3, InitializeOptionTakes DEF EngineInitializes
  <1>7. CASE EngineRolls
    BY <1>7, RollOptionTakes DEF EngineRolls
  <1> QED BY <1>1, <1>2, <1>3, <1>4, <1>5, <1>6, <1>7 DEF Next

(* However the way of an option is cut into calls, every exercise between where it
   was initialised and where it stands adjusted has been taken, and no other. *)
THEOREM ExercisesAreTaken == Spec => []NoExerciseIsLost
  <1>1. Init => TakenOnTheWay
    BY DEF Init, TakenOnTheWay
  <1>2. TakenOnTheWay /\ IInv => NoExerciseIsLost
    <2> SUFFICES ASSUME TakenOnTheWay, inits = 1, start # NoStart, ~failed,
                        option.post = option.time
                 PROVE  ExerciseTimes = {t \in option.time .. start : Exercisable(t)}
      BY DEF NoExerciseIsLost
    <2> QED BY DEF TakenOnTheWay
  <1> QED BY InitIInv, StepIInv, StepTakes, <1>1, <1>2, PTL DEF Spec

-----------------------------------------------------------------------------
(* Rolled back to today and adjusted there, a swap counts what discounting   *)
(* counts, whatever the two settings about today's payments say, but for the *)
(* one combination the swap does not read (discretizedswap.rs:54).           *)
THEOREM TreeIsDiscounting == Spec => []TreeAgreesWithDiscounting
  <1>1. IInv => TreeAgreesWithDiscounting
    <2> SUFFICES ASSUME IInv, inits = 1, swap.time = 0, Settled(swap),
                        deal.includeTodays # "unset" \/ ~deal.includeEvents,
                        NEW i \in Coupons
                 PROVE  swap.values[i] =
                          IF cash_flow_has_occurred(deal.coupons[i].pay) THEN 0 ELSE 1
      BY DEF TreeAgreesWithDiscounting
    <2>1. /\ deal \in Deals
          /\ deal.includeTodays \in {"unset", "yes", "no"} /\ deal.includeEvents \in BOOLEAN
      BY DealsAssumption DEF IInv, AssetsOK
    <2>2. swap.values[i] = IF EntryTime(i) >= 0 THEN 1 ELSE 0
      <3>1. EntryTime(i) \in Int /\ CouponAdjustment(i) \in {"pre", "post"}
        BY <2>1, CouponFacts
      <3>2. Mark(swap, CouponAdjustment(i)) = 0
        BY <3>1 DEF Mark, Settled
      <3> QED BY <3>1, <3>2 DEF IInv, CountsRight
    <2>3. EntryTime(i) >= 0 <=> ~cash_flow_has_occurred(deal.coupons[i].pay)
      <3>1. /\ deal.coupons[i].reset \in Int /\ deal.coupons[i].pay \in Int
            /\ deal.coupons[i].reset < deal.coupons[i].pay
        BY <2>1, CouponFacts
      <3> QED BY <2>1, <3>1 DEF EntryTime, is_reset_time_in_past, cash_flow_has_occurred
    <2> QED BY <2>2, <2>3
  <1> QED BY InitIInv, StepIInv, <1>1, PTL DEF Spec

-----------------------------------------------------------------------------
(* The engine                                                                *)

(* The exercises are on the grid and in order, and the engine rolls from the *)
(* last of them to the first that is not past: none is beyond.               *)
LEMMA ExercisesBetween ==
  ASSUME deal \in Deals, LastExercise >= 0
  PROVE  /\ NextExercise \in Int /\ 0 <= NextExercise
         /\ LastExercise \in Int /\ LastExercise <= LastNode
         /\ (deal.style = "American" => deal.exercise[1] >= 0) =>
              \A t \in Times : Exercisable(t) => NextExercise <= t /\ t <= LastExercise
  <1> DEFINE n == Len(deal.exercise)
             x(k) == deal.exercise[k]
             S == {k \in 1 .. n : x(k) >= 0}
  <1>1. deal.exercise \in Seq(Int) /\ n \in Nat /\ n > 0 /\ DOMAIN deal.exercise = 1 .. n
    BY DealsAssumption, EmptySeq, LenProperties
  <1>2. \A k \in 1 .. n : x(k) \in Int /\ x(k) <= LastNode /\ \A j \in 1 .. k : x(j) <= x(k)
    BY <1>1, DealsAssumption, ElementOfSeq
  <1>3. deal.style = "American" => n = 2
    BY DealsAssumption
  <1>4. LastNode \in Nat
    BY GridAssumption
  <1>5. LastExercise = x(n) /\ n \in S
    BY <1>1 DEF LastExercise
  <1> HIDE DEF n, x
  <1>6. PICK k \in S : \A j \in S : k <= j
    <2> DEFINE R == OpToRel(<, Nat)
    <2>1. IsWellFoundedOn(R, Nat)
      BY NatLessThanWellFounded
    <2>2. \A i, j \in Nat : i < j => <<i, j>> \in R
      BY DEF OpToRel
    <2>3. S \subseteq Nat /\ S # {}
      BY <1>1, <1>5
    <2> HIDE DEF R, S
    <2>4. PICK k \in S : \A j \in S : ~(<<j, k>> \in R)
      BY <2>1, <2>3, WFMin
    <2>5. \A j \in S : j \in Nat /\ k \in Nat /\ ~(j < k)
      BY <2>2, <2>3, <2>4
    <2> QED BY <2>5
  <1>7. NextExercise = x(k)
    <2> DEFINE First(m) == x(m) >= 0 /\ \A j \in 1 .. m - 1 : x(j) < 0
    <2>1. First(k)
      BY <1>1, <1>2, <1>6
    <2>2. \A m \in 1 .. n : First(m) => m = k
      BY <1>1, <1>2, <1>6
    <2>3. NextExercise = x(CHOOSE m \in 1 .. n : First(m))
      BY <1>1 DEF NextExercise, x
    <2>4. (CHOOSE m \in 1 .. n : First(m)) = k
      <3> HIDE DEF First
      <3> QED BY <2>1, <2>2, <1>6
    <2> QED BY <2>3, <2>4
  <1>8. \A j \in S : x(k) <= x(j) /\ x(j) <= x(n)
    BY <1>1, <1>2, <1>6
  <1>9. ASSUME deal.style = "American" => x(1) >= 0, NEW t \in Times, Exercisable(t)
        PROVE  x(k) <= t /\ t <= x(n)
    <2>1. CASE deal.style = "American"
      <3>1. x(1) <= t /\ t <= x(2) /\ n = 2 /\ x(1) >= 0
        BY <1>3, <1>9, <2>1 DEF Exercisable, x
      <3> QED BY <1>1, <1>2, <1>6, <1>8, <3>1
    <2>2. CASE deal.style # "American"
      <3>1. PICK j \in 1 .. n : x(j) >= 0 /\ NearestNode(x(j)) = t
        BY <1>1, <1>9, <2>2 DEF Exercisable, is_on_time, x
      <3>2. x(j) = t /\ j \in S
        BY <1>2, <1>4, <3>1 DEF NearestNode
      <3> QED BY <1>8, <3>2
    <2> QED BY <2>1, <2>2
  <1> QED BY <1>1, <1>2, <1>5, <1>6, <1>7, <1>9 DEF x

\* How far the engine has come: it initialised the option once, at the last exercise,
\* and rolls it, adjusted at its destination, to the next.
EngineOnItsWay ==
  /\ user = "engine" /\ engine = "new" => inits = 0
  /\ engine # "new" => /\ inits = 1 /\ start = LastExercise /\ LastExercise >= 0
                       /\ engine \in {"initialised", "rolling", "priced"}
  /\ engine \in {"rolling", "priced"} /\ ~failed => goal.to = NextExercise
  /\ engine = "rolling" /\ ~failed =>
       /\ phase # "idle" /\ option.time # goal.to => goal.adjust
       /\ phase = "option" /\ option.time = goal.to => goal.adjust \/ option.post = option.time
       /\ phase = "idle" => option.time = goal.to /\ option.post = option.time
  /\ engine = "priced" => /\ phase = "idle" /\ ~failed
                          /\ option.time = goal.to /\ option.post = option.time

(* Where the engine starts and stops does not change.                        *)
LEMMA ScheduleStays ==
  ASSUME deal' = deal PROVE LastExercise' = LastExercise /\ NextExercise' = NextExercise
  BY DEF LastExercise, NextExercise

(* The steps of the option on its way to where the engine wants it.          *)
LEMMA WayOn ==
  ASSUME IInv, TakenOnTheWay, EngineOnItsWay,
         StepOption \/ OptionArrives \/ Exercise \/ ExerciseFails
  PROVE  EngineOnItsWay'
  <1>0. UNCHANGED <<deal, user, inits, start, engine>>
    <2>1. CASE OptionArrives
      BY <2>1 DEF OptionArrives, fixed
    <2> QED BY <2>1 DEF StepOption, Exercise, ExerciseFails, fixed
  <1>1. LastExercise' = LastExercise /\ NextExercise' = NextExercise
    BY <1>0, ScheduleStays
  <1>2. OptionOK(option) /\ engine # "priced"
    BY DEF IInv, AssetsOK, OptionOK, EngineOnItsWay, StepOption, OptionArrives, Exercise,
           ExerciseFails
  <1>3. CASE StepOption
    <2>1. phase = "option" /\ option.time # goal.to /\ UNCHANGED <<goal, failed>>
          /\ option.time > goal.to
      BY <1>2, <1>3 DEF StepOption, OptionOK
    <2>2. option.post = option.time /\ option.time \in Int
      BY <1>2, <2>1 DEF TakenOnTheWay, OptionOK
    <2>3. Stepped(option).time = option.time - 1 /\ OptionOK(Stepped(option))
      BY <1>2, <2>2 DEF Stepped, OptionOK
    <2>4. phase' # "idle" /\ (phase' = "option" => option'.time = goal.to \/ option'.post = option'.time)
      <3>1. CASE Stepped(option).time = goal.to
        BY <1>3, <2>1, <3>1 DEF StepOption
      <3>2. CASE Stepped(option).time # goal.to
        BY <1>3, <2>3, <3>2, AdjustOptionIs DEF StepOption
      <3> QED BY <3>1, <3>2
    <2> QED BY <1>0, <1>1, <1>2, <2>1, <2>4 DEF EngineOnItsWay
  <1>4. CASE OptionArrives
    <2>1. phase = "option" /\ option.time = goal.to /\ UNCHANGED failed /\ goal'.to = goal.to
      <3>1. CASE goal.adjust
        BY <1>4, <3>1 DEF OptionArrives
      <3> QED BY <1>4, <3>1 DEF OptionArrives
    <2>2. /\ option'.time = option.time /\ option'.post = option.post
          /\ IF goal.adjust
               THEN phase' = "underlying" \/ (phase' = "option" /\ option.post = option.time)
               ELSE phase' = "idle"
      <3>1. CASE goal.adjust
        <4>1. AdjustOption(option)
          BY <1>4, <3>1 DEF OptionArrives
        <4> QED BY <1>2, <3>1, <4>1, AdjustOptionIs DEF AdjustOption
      <3>2. CASE ~goal.adjust
        BY <1>4, <3>2 DEF OptionArrives
      <3> QED BY <3>1, <3>2
    <2> QED BY <1>0, <1>1, <1>2, <2>1, <2>2 DEF EngineOnItsWay
  <1>5. CASE Exercise
    <2>1. /\ phase = "underlying" /\ phase' = "option" /\ UNCHANGED <<goal, failed>>
          /\ option'.time = option.time /\ option'.post = option.time
      BY <1>2, <1>5 DEF Exercise, OptionOK
    <2> QED BY <1>0, <1>1, <1>2, <2>1 DEF EngineOnItsWay
  <1>6. CASE ExerciseFails
    <2>1. failed' /\ UNCHANGED goal
      BY <1>6 DEF ExerciseFails
    <2> QED BY <1>0, <1>1, <1>2, <2>1 DEF EngineOnItsWay
  <1> QED BY <1>3, <1>4, <1>5, <1>6

(* The calls of the engine.                                                  *)
LEMMA EngineCalls ==
  ASSUME IInv, EngineOnItsWay, EngineInitializes \/ EngineRolls \/ EnginePrices
  PROVE  EngineOnItsWay'
  <1>1. CASE EngineInitializes
    <2>1. /\ user = "engine" /\ engine = "new" /\ LastExercise >= 0 /\ engine' = "initialised"
          /\ inits' = inits + 1 /\ start' = LastExercise /\ UNCHANGED <<deal, user>>
      BY <1>1 DEF EngineInitializes, InitializeOption, fixed
    <2>2. inits' = 1
      BY <2>1 DEF EngineOnItsWay
    <2> QED BY <2>1, <2>2, ScheduleStays DEF EngineOnItsWay
  <1>2. CASE EngineRolls
    <2>1. /\ engine = "initialised" /\ ~failed /\ engine' = "rolling" /\ phase' = "option"
          /\ goal' = [to |-> NextExercise, adjust |-> TRUE]
          /\ UNCHANGED <<deal, user, inits, start, failed, option>>
      BY <1>2 DEF EngineRolls, RollOption, fixed
    <2>2. goal'.to = NextExercise /\ goal'.adjust
      BY <2>1
    <2> QED BY <2>1, <2>2, ScheduleStays DEF EngineOnItsWay
  <1>3. CASE EnginePrices
    <2>1. /\ engine = "rolling" /\ phase = "idle" /\ ~failed /\ engine' = "priced"
          /\ UNCHANGED <<deal, user, inits, start, failed, option, phase, goal>>
      BY <1>3 DEF EnginePrices, fixed
    <2> QED BY <2>1, ScheduleStays DEF EngineOnItsWay
  <1> QED BY <1>1, <1>2, <1>3

(* Nobody else calls while the engine does.                                  *)
LEMMA EngineStep ==
  IInv /\ TakenOnTheWay /\ EngineOnItsWay /\ [Next]_vars => EngineOnItsWay'
  <1> SUFFICES ASSUME IInv, TakenOnTheWay, EngineOnItsWay, [Next]_vars PROVE EngineOnItsWay'
    OBVIOUS
  <1>1. CASE UNCHANGED vars
    BY <1>1, ScheduleStays DEF EngineOnItsWay, vars
  <1>2. CASE StepSwap
    <2>1. /\ UNCHANGED <<deal, user, inits, start, engine, option, phase, goal, failed>>
      BY <1>2 DEF StepSwap, fixed
    <2> QED BY <2>1, ScheduleStays DEF EngineOnItsWay
  <1>3. ASSUME user # "engine", UNCHANGED <<user, engine>> PROVE EngineOnItsWay'
    <2>1. engine = "new"
      BY <1>3 DEF IInv, ControlOK
    <2> QED BY <1>3, <2>1 DEF EngineOnItsWay
  <1>4. CASE SwapInitialize \/ SwapArrives
    <2>1. user # "engine" /\ UNCHANGED <<user, engine>>
      BY <1>4 DEF SwapInitialize, SwapArrives, fixed, IInv, ControlOK
    <2> QED BY <1>3, <2>1
  <1>5. ASSUME NEW t \in Times, NEW adjusting \in BOOLEAN,
               RollSwap(t, adjusting) \/ UserRollsOption(t, adjusting) \/ UserInitializesOption(t)
        PROVE  EngineOnItsWay'
    <2>1. user # "engine" /\ UNCHANGED <<user, engine>>
      BY <1>5 DEF RollSwap, UserRollsOption, UserInitializesOption, RollOption,
                  InitializeOption, fixed
    <2> QED BY <1>3, <2>1
  <1>6. CASE StepOption \/ OptionArrives \/ Exercise \/ ExerciseFails
    BY <1>6, WayOn
  <1>7. CASE EngineInitializes \/ EngineRolls \/ EnginePrices
    BY <1>7, EngineCalls
  <1> QED BY <1>1, <1>2, <1>4, <1>5, <1>6, <1>7 DEF Next

(* No exercise is lost: of those between where a swaption was initialised    *)
(* and where it stands all are taken, and the price of the engine counts     *)
(* every exercise there is, but for a window that opened before today        *)
(* (treeswaptionengine.rs:147-155).                                          *)
THEOREM ExercisesCount == Spec => []EveryExerciseCounts
  <1>1. Init => EngineOnItsWay
    BY DEF Init, EngineOnItsWay
  <1>2. IInv /\ TakenOnTheWay /\ EngineOnItsWay => EngineExercisesAll
    <2> SUFFICES ASSUME IInv, TakenOnTheWay, EngineOnItsWay, engine = "priced",
                        deal.style = "American" => deal.exercise[1] >= 0
                 PROVE  ExerciseTimes = {t \in Times : Exercisable(t)}
      BY DEF EngineExercisesAll
    <2>1. /\ inits = 1 /\ start = LastExercise /\ LastExercise >= 0 /\ ~failed
          /\ option.time = NextExercise /\ option.post = option.time
      BY DEF EngineOnItsWay
    <2>2. deal \in Deals
      BY DEF IInv, AssetsOK
    <2>3. /\ NextExercise \in Int /\ 0 <= NextExercise
          /\ LastExercise \in Int /\ LastExercise <= LastNode
          /\ \A t \in Times : Exercisable(t) => NextExercise <= t /\ t <= LastExercise
      BY <2>1, <2>2, ExercisesBetween
    <2>4. LastNode \in Nat
      BY GridAssumption
    <2>5. start # NoStart
      BY <2>1, <2>3, <2>4 DEF NoStart
    <2>6. ExerciseTimes = {t \in NextExercise .. LastExercise : Exercisable(t)}
      BY <2>1, <2>5 DEF TakenOnTheWay
    <2>7. \A t : t \in NextExercise .. LastExercise /\ Exercisable(t)
                   <=> t \in Times /\ Exercisable(t)
      BY <2>3, <2>4 DEF Times
    <2> QED BY <2>6, <2>7
  <1>3. EngineExercisesAll /\ NoExerciseIsLost => EveryExerciseCounts
    BY DEF EveryExerciseCounts
  <1>4. Init => TakenOnTheWay
    BY DEF Init, TakenOnTheWay
  <1> QED BY InitIInv, StepIInv, StepTakes, EngineStep, ExercisesAreTaken,
             <1>1, <1>2, <1>3, <1>4, PTL DEF Spec
=============================================================================
