----------------------------- MODULE Calendar -----------------------------
(***************************************************************************)
(* A calendar: the holidays of a market with those its users have added    *)
(* and removed, and the date rolling built on them (time/calendar.rs).     *)
(* The overrides are shared by all clones of a calendar and change between *)
(* any two questions; the market's own rule is a constant.                 *)
(***************************************************************************)
EXTENDS Dates, FiniteSetsExt

CONSTANTS
  NaturalBusinessDays,  \* CalendarImpl::is_business_day
  Editable,             \* bound: the dates whose status users change
  MaxOverrides          \* bound: overrides at one time

VARIABLES added, removed

calendarVars == <<added, removed>>

is_business_day(d) ==
  /\ d \notin added
  /\ d \in removed \/ d \in NaturalBusinessDays

is_holiday(d) == ~is_business_day(d)

-----------------------------------------------------------------------------
(* Overrides *)

add_holiday(d) ==
  /\ removed' = removed \ {d}
  /\ added' = IF d \in NaturalBusinessDays THEN added \cup {d} ELSE added

remove_holiday(d) ==
  /\ added' = added \ {d}
  /\ removed' = IF d \notin NaturalBusinessDays THEN removed \cup {d} ELSE removed

reset_added_and_removed_holidays == added' = {} /\ removed' = {}

CalendarInit == added = {} /\ removed = {}

CalendarNext ==
  \/ /\ Cardinality(added) + Cardinality(removed) < MaxOverrides
     /\ \E d \in Editable : add_holiday(d) \/ remove_holiday(d)
  \/ reset_added_and_removed_holidays

-----------------------------------------------------------------------------
(* Rolling *)

Following == "Following"
ModifiedFollowing == "ModifiedFollowing"
Preceding == "Preceding"
ModifiedPreceding == "ModifiedPreceding"
Unadjusted == "Unadjusted"
HalfMonthModifiedFollowing == "HalfMonthModifiedFollowing"
Nearest == "Nearest"

Conventions == {Following, ModifiedFollowing, Preceding, ModifiedPreceding,
                Unadjusted, HalfMonthModifiedFollowing, Nearest}

Reach == 60   \* bound: no stretch of holidays is longer

\* The loops `while is_holiday(d1) { d1 += 1 }` and `{ d1 -= 1 }`.
NextBusinessDay(d) ==
  d + CHOOSE k \in 0 .. Reach : /\ is_business_day(d + k)
                                /\ \A j \in 0 .. k - 1 : is_holiday(d + j)
PreviousBusinessDay(d) ==
  d - CHOOSE k \in 0 .. Reach : /\ is_business_day(d - k)
                                /\ \A j \in 0 .. k - 1 : is_holiday(d - j)

\* Mutant: a roll that passes the middle of the month is kept.
RollPastMidMonth(d, c, up, down) ==
  CASE c = Unadjusted -> d
    [] c = Following -> up
    [] c = Preceding -> down
    [] c \in {ModifiedFollowing, HalfMonthModifiedFollowing} ->
         IF month(up) # month(d) THEN down ELSE up
    [] c = ModifiedPreceding -> IF month(down) # month(d) THEN up ELSE down
    [] c = Nearest -> IF up - d <= d - down THEN up ELSE down

\* Up or down, by the convention; what turns at an end of month turns back.
RollTo(d, c, up, down) ==
  LET crosses == \/ month(up) # month(d)
                 \/ /\ c = HalfMonthModifiedFollowing
                    /\ day_of_month(d) <= 15 /\ day_of_month(up) > 15
  IN  CASE c = Unadjusted -> d
        [] c = Following -> up
        [] c = Preceding -> down
        [] c \in {ModifiedFollowing, HalfMonthModifiedFollowing} ->
             IF crosses THEN down ELSE up
        [] c = ModifiedPreceding -> IF month(down) # month(d) THEN up ELSE down
        [] c = Nearest -> IF up - d <= d - down THEN up ELSE down

adjust(d, c) == RollTo(d, c, NextBusinessDay(d), PreviousBusinessDay(d))

calendar_end_of_month(d) == adjust(end_of_month(d), Preceding)
calendar_is_end_of_month(d) == d >= calendar_end_of_month(d)

\* n business days on or back, holidays not counted.
AdvanceDays(d, n) ==
  LET go[k \in 0 .. (IF n >= 0 THEN n ELSE -n)] ==
        IF k = 0 THEN d
        ELSE IF n > 0 THEN NextBusinessDay(go[k - 1] + 1)
                      ELSE PreviousBusinessDay(go[k - 1] - 1)
  IN  go[IF n >= 0 THEN n ELSE -n]

\* later is d advanced by the period.
Landed(d, later, c, endOfMonth) ==
  IF endOfMonth /\ c = Unadjusted /\ is_end_of_month(d) THEN end_of_month(later)
  ELSE IF endOfMonth /\ c # Unadjusted /\ calendar_is_end_of_month(d)
  THEN calendar_end_of_month(later)
  ELSE adjust(later, c)

calendar_advance(d, n, unit, c, endOfMonth) ==
  CASE n = 0 -> adjust(d, c)
    [] n # 0 /\ unit = Days -> AdvanceDays(d, n)
    [] OTHER -> Landed(d, advance(d, n, unit), c, endOfMonth /\ unit # Weeks)

\* days_between_impl for from < to, negated and with the ends swapped otherwise.
business_days_between(from, to, includeFirst, includeLast) ==
  LET count(a, b, first, last) ==
        Quantify((IF first THEN a ELSE a + 1) .. b - 1, is_business_day)
          + IF last /\ is_business_day(b) THEN 1 ELSE 0
  IN  CASE from < to -> count(from, to, includeFirst, includeLast)
        [] from > to -> -count(to, from, includeLast, includeFirst)
        [] OTHER -> IF includeFirst /\ includeLast /\ is_business_day(from) THEN 1 ELSE 0

-----------------------------------------------------------------------------
\* The half of a month a date is in.
HalfOf(d) == <<year(d), month(d), day_of_month(d) <= 15>>

OpenDays == NaturalBusinessDays \ Editable   \* nobody makes them holidays
Around == 4 * (Reach + 1)                    \* bound: how far four steps may lead

\* What the loops of adjust need to end, and the modified conventions to find a
\* business day in the month and in the half of it.
OpenAround(d) == /\ \E k \in 0 .. Reach : d + k \in OpenDays
                 /\ \E k \in 0 .. Reach : d - k \in OpenDays
OpenInHalf(d) == \E b \in d - 15 .. d + 15 : b \in OpenDays /\ HalfOf(b) = HalfOf(d)

ASSUME OpenDaysAssumption ==
  \A s \in SampleDates :
    /\ \A d \in s - Around .. s + Around : OpenAround(d)
    /\ \A d \in {s, s + 1} : OpenInHalf(d)

-----------------------------------------------------------------------------
\* Every override changes an answer, and one that is undone leaves no trace:
\* what users add and remove in any order never hides a holiday of the market
\* behind one of theirs.
OverridesAreEffective ==
  /\ added \subseteq NaturalBusinessDays
  /\ removed \cap NaturalBusinessDays = {}

\* What the calendar answers on the sample dates, whatever was made a holiday:
\* rolling ends on a business day and keeps the order of dates, the modified
\* conventions keep the month, or the half of it;
RollingKeepsOrder ==
  \A d \in SampleDates, c \in Conventions \ {Unadjusted} :
    LET r == adjust(d, c)
    IN  /\ is_business_day(r) /\ adjust(r, c) = r
        /\ r <= adjust(d + 1, c)
        /\ c \in {ModifiedFollowing, ModifiedPreceding, HalfMonthModifiedFollowing} =>
             month(r) = month(d)
        /\ c = HalfMonthModifiedFollowing => (day_of_month(d) <= 15) = (day_of_month(r) <= 15)

\* and counting business days agrees with advancing by them, in both directions.
CountingMatchesAdvancing ==
  \A d \in SampleDates, n \in -4 .. 4 :
    is_business_day(d) =>
      LET e == calendar_advance(d, n, Days, Unadjusted, FALSE)
      IN  /\ business_days_between(d, e, FALSE, TRUE) = n
          /\ calendar_advance(e, -n, Days, Unadjusted, FALSE) = d
=============================================================================
