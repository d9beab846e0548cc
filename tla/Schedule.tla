----------------------------- MODULE Schedule -----------------------------
(***************************************************************************)
(* Payment schedules (time/schedule.rs): the dates a rule generates from a *)
(* tenor, rolled on a calendar whose overrides may change, and what is cut *)
(* from them afterwards.  A schedule is built once and keeps its dates.    *)
(***************************************************************************)
EXTENDS Calendar, SequencesExt

CONSTANTS
  Specifications,   \* the arguments of Schedule::new that are tried
  DateLists,        \* the lists given to Schedule::from_dates
  CutDates,         \* the truncation dates that are tried
  MaxCuts,          \* bound: truncations of one schedule
  MaxPeriods        \* bound: periods a generation goes through

ASSUME CutDatesAssumption == CutDates \subseteq Int

ASSUME MaxPeriodsAssumption == MaxPeriods \in Nat

VARIABLES
  schedule,         \* the schedule in use, NoSchedule before one is built
  cuts              \* the truncations it went through

scheduleVars == <<added, removed, schedule, cuts>>

Backward == "Backward"
Forward == "Forward"
Zero == "Zero"
ThirdWednesday == "ThirdWednesday"
ThirdWednesdayInclusive == "ThirdWednesdayInclusive"
Twentieth == "Twentieth"
TwentiethIMM == "TwentiethIMM"
OldCDS == "OldCDS"
CDS == "CDS"
CDS2015 == "CDS2015"

OnTheTwentieth == {Twentieth, TwentiethIMM, OldCDS, CDS, CDS2015}
Quarterly == {TwentiethIMM, OldCDS, CDS, CDS2015}
OnThirdWednesday == {ThirdWednesday, ThirdWednesdayInclusive}

DateGeneration ==
  OnTheTwentieth \cup {Zero, Backward, Forward, ThirdWednesday, ThirdWednesdayInclusive}

\* Terms as far from the ends of the type as the sample dates are.
ASSUME SpecificationsAssumption ==
  Specifications \subseteq
    [effective : InnerDates, termination : InnerDates,
     tenor : [length : Int, units : {Days, Weeks, Months, Years}],
     convention : Conventions, terminationConvention : Conventions,
     rule : DateGeneration, endOfMonth : BOOLEAN, first : Int, nextToLast : Int]

HalfYear == 7 * 31   \* bound: no twentieth that ends a term is further from it

\* Open days around the ends of the terms, as around the sample dates.
ASSUME TermsAssumption ==
  \A d \in UNION {{spec.effective, spec.termination} : spec \in Specifications} :
    \A x \in d - HalfYear .. d + HalfYear : OpenAround(x) /\ OpenInHalf(x)

NoSchedule == [dates |-> <<>>]
NoArguments == [rule |-> "None"]     \* a schedule that was given its dates

-----------------------------------------------------------------------------
(* Helpers of the generation *)

\* The twentieth of the month of d, or of the month n later.
TwentiethFrom(d, n) == OnDay(20, MonthCount(d) + n)

previous_twentieth(d, rule) ==
  LET r == TwentiethFrom(d, IF day_of_month(d) < 20 THEN -1 ELSE 0)
  IN  IF rule \in Quarterly THEN TwentiethFrom(r, -(month(r) % 3)) ELSE r

next_twentieth(d, rule) ==
  LET r == TwentiethFrom(d, IF day_of_month(d) > 20 THEN 1 ELSE 0)
  IN  IF rule \in Quarterly /\ month(r) % 3 # 0
      THEN TwentiethFrom(r, 3 - (month(r) % 3)) ELSE r

\* NullCalendar::advance_by_period: every day is a business day.
Shift(d, n, unit, endOfMonth) ==
  AtEndOfMonthIf(n # 0 /\ unit \in {Months, Years} /\ endOfMonth /\ is_end_of_month(d),
                 advance(d, n, unit))

\* The arguments as the generation reads them: a stub at an end is no stub, a
\* null tenor is the rule Zero, and short tenors have no end of month.
Normalised(a) ==
  [a EXCEPT !.endOfMonth = @ /\ allows_end_of_month(a.tenor),
            !.first = IF @ = a.effective THEN NullDate ELSE @,
            !.nextToLast = IF @ = a.termination THEN NullDate ELSE @,
            !.rule = IF a.tenor.length = 0 THEN Zero ELSE @]

\* The assertions of Schedule::new, on normalised arguments.
Accepted(a) ==
  /\ NullDate < a.effective /\ a.effective < a.termination
  /\ a.tenor.length >= 0
  /\ a.first # NullDate =>
       \/ /\ a.rule \in {Backward, Forward}
          /\ a.effective < a.first /\ a.first <= a.termination
       \/ a.rule = ThirdWednesday /\ is_imm_date(a.first)
  /\ a.nextToLast # NullDate =>
       \/ /\ a.rule \in {Backward, Forward}
          /\ a.effective <= a.nextToLast /\ a.nextToLast < a.termination
       \/ a.rule = ThirdWednesday /\ is_imm_date(a.nextToLast)
  /\ a.endOfMonth => a.rule \in {Zero, Backward, Forward}

-----------------------------------------------------------------------------
(* Generation: [dates, regular], in the order the dates are found *)

Push(g, d, flag) == [dates |-> Append(g.dates, d), regular |-> Append(g.regular, flag)]

\* Pushed unless it rolls onto the last date found.
PushDistinct(g, d, flag, convention) ==
  IF adjust(Last(g.dates), convention) # adjust(d, convention) THEN Push(g, d, flag) ELSE g

Step(a, d, n) == Shift(d, n * a.tenor.length, a.tenor.units, a.endOfMonth)

\* The loop: whole tenors counted from the seed, up to the exit date.  sign is
\* the direction of the generation.
RollTenors(a, g, seed, sign, exit) ==
  LET date(k) == Step(a, seed, sign * k)
      beyond(k) == sign * (date(k) - exit) > 0
      lastOne(k) == k = MaxPeriods \/ beyond(k + 1)
      periods == CHOOSE k \in 0 .. MaxPeriods : lastOne(k) /\ (k = 0 \/ ~beyond(k))
      found[k \in 0 .. periods] ==
        IF k = 0 THEN g ELSE PushDistinct(found[k - 1], date(k), TRUE, a.convention)
  IN  found[periods]

\* A last period to date d, regular if it is one tenor long.
PushLast(a, g, sign, d) ==
  PushDistinct(g, d, Step(a, Last(g.dates), sign) = d, a.convention)

\* The periods up to the exit date, and the stub where one was asked for.
Roll(a, g, sign, end, stub) ==
  LET exit == IF stub # NullDate THEN stub ELSE end
      PushStubIf(all) == IF stub = NullDate THEN all ELSE PushLast(a, all, sign, stub)
  IN  PushStubIf(RollTenors(a, g, Last(g.dates), sign, exit))

\* Mutant: a stub is taken for a period.
PushStubAsRegular(a, g, stub, sign) ==
  IF stub = NullDate THEN g ELSE Push(g, stub, TRUE)

\* A stub that starts the generation.
PushStub(a, g, stub, sign) ==
  IF stub = NullDate THEN g ELSE Push(g, stub, Step(a, Last(g.dates), sign) = stub)

\* The seed is the date the tenors are counted from.
Reversed(g, seed) ==
  [dates |-> Reverse(g.dates), regular |-> Reverse(g.regular), seed |-> seed]

BackwardFrom(a, stubbed) ==
  Reversed(PushLast(a, Roll(a, stubbed, -1, a.effective, a.first), -1, a.effective),
           Last(stubbed.dates))

GenerateBackward(a) ==
  BackwardFrom(a, PushStub(a, [dates |-> <<a.termination>>, regular |-> <<>>],
                           a.nextToLast, -1))

\* Mutant: the protection starts at the twentieth, wherever it rolls.
ForwardStartLate(a) ==
  IF a.rule \notin {CDS, CDS2015} THEN [dates |-> <<a.effective>>, regular |-> <<>>]
  ELSE [dates |-> <<previous_twentieth(a.effective, a.rule)>>, regular |-> <<>>]

\* A credit default swap starts at the twentieth on or before the effective
\* date, a quarter earlier when that one rolls past the effective date.
ForwardStart(a) ==
  LET twentieth == previous_twentieth(a.effective, a.rule)
  IN  IF a.rule \notin {CDS, CDS2015} THEN [dates |-> <<a.effective>>, regular |-> <<>>]
      ELSE IF adjust(twentieth, a.convention) > a.effective
      THEN [dates |-> <<advance(twentieth, -3, Months), twentieth>>, regular |-> <<TRUE>>]
      ELSE [dates |-> <<twentieth>>, regular |-> <<>>]

\* The first twentieth after the start; OldCDS skips one less than 30 days off.
PushTwentieth(a, g) ==
  LET t == next_twentieth(a.effective, a.rule)
      next == IF a.rule = OldCDS /\ t - a.effective < 30
              THEN next_twentieth(t + 1, a.rule) ELSE t
  IN  IF a.rule \in OnTheTwentieth /\ next # a.effective
      THEN Push(g, next, a.rule \in {CDS, CDS2015}) ELSE g

PushTermination(a, g) ==
  IF adjust(Last(g.dates), a.terminationConvention)
       = adjust(a.termination, a.terminationConvention) THEN g
  ELSE IF a.rule \in OnTheTwentieth
  THEN Push(g, next_twentieth(a.termination, a.rule), TRUE)
  ELSE Push(g, a.termination, FALSE)

ForwardFrom(a, stubbed) ==
  LET g == PushTermination(a, Roll(a, stubbed, 1, a.termination, a.nextToLast))
  IN  [dates |-> g.dates, regular |-> g.regular, seed |-> Last(stubbed.dates)]

GenerateForward(a) ==
  ForwardFrom(a, IF a.first # NullDate THEN PushStub(a, ForwardStart(a), a.first, 1)
                                       ELSE PushTwentieth(a, ForwardStart(a)))

Generate(a) ==
  CASE a.rule = Zero -> [dates |-> <<a.effective, a.termination>>, regular |-> <<TRUE>>,
                         seed |-> NullDate]
    [] a.rule = Backward -> GenerateBackward(a)
    [] OTHER -> GenerateForward(a)

-----------------------------------------------------------------------------
(* Rolling of what was generated *)

Interior(s) == 2 .. Len(s) - 1

OnThirdWednesdays(a, s) ==
  LET moved == IF a.rule = ThirdWednesday THEN Interior(s)
               ELSE IF a.rule = ThirdWednesdayInclusive THEN DOMAIN s ELSE {}
  IN  [i \in DOMAIN s |-> IF i \in moved
                          THEN nth_weekday(3, Wednesday, month(s[i]), year(s[i])) ELSE s[i]]

\* The ends first, each by its own convention, then the dates between them.
AdjustDates(a, seed, s) ==
  LET atEnd == a.endOfMonth /\ seed # NullDate /\ calendar_is_end_of_month(seed)
      start(d) == IF a.rule = OldCDS THEN d ELSE adjust(d, a.convention)
      end(d) == IF a.rule \in {CDS, CDS2015} THEN d ELSE adjust(d, a.terminationConvention)
      between(d) == adjust(IF atEnd THEN end_of_month(d) ELSE d, a.convention)
  IN  [i \in DOMAIN s |->
         CASE i \in Interior(s) -> between(s[i])
           [] Len(s) = 1 -> end(start(s[i]))
           [] i = 1 /\ Len(s) > 1 -> start(s[i])
           [] OTHER -> end(s[i])]

\* Mutant: the last two dates are one only where they met.
CollapseLastMet(g) ==
  LET n == Len(g.dates)
  IN  IF n >= 2 /\ g.dates[n - 1] = g.dates[n]
      THEN [g EXCEPT !.dates = Front(@), !.regular = Front(@)] ELSE g

\* The last two dates are one when they met or passed each other; the period
\* before them is then regular only if they met.
CollapseLast(g) ==
  LET n == Len(g.dates)
      m == Len(g.regular)
      met == g.dates[n - 1] = g.dates[n]
  IN  IF n >= 2 /\ g.dates[n - 1] >= g.dates[n]
      THEN [g EXCEPT !.dates = Append(SubSeq(@, 1, n - 2), g.dates[n]),
                     !.regular = Front(IF m >= 2 THEN [@ EXCEPT ![m - 1] = met] ELSE @)]
      ELSE g

CollapseFirst(g) ==
  LET met == g.dates[2] = g.dates[1]
  IN  IF Len(g.dates) >= 2 /\ g.dates[2] <= g.dates[1]
      THEN [g EXCEPT !.dates = <<g.dates[1]>> \o SubSeq(@, 3, Len(@)),
                     !.regular = Tail(IF Len(@) >= 2 THEN [@ EXCEPT ![2] = met] ELSE @)]
      ELSE g

Rolled(a, g) ==
  [dates |-> AdjustDates(a, g.seed, OnThirdWednesdays(a, g.dates)), regular |-> g.regular]

Recorded(a, g) ==
  [dates |-> g.dates, regular |-> g.regular,
   convention |-> a.convention, terminationConvention |-> a.terminationConvention,
   first |-> a.first, nextToLast |-> a.nextToLast, asked |-> a]

Built(a) == Recorded(a, CollapseFirst(CollapseLast(Rolled(a, Generate(a)))))

-----------------------------------------------------------------------------
(* Queries and truncations *)

\* How many dates are earlier, of dates in order.
lower_bound(s, d) == Cardinality({i \in DOMAIN s.dates : s.dates[i] < d})

KeepIf(d, test) == IF test THEN d ELSE NullDate

\* Where the search by halves may end: between a date before t and one that is
\* not, of which dates in order have one (lower_bound), others several.
SearchesEnd(s, t) ==
  {c \in 1 .. Len(s.dates) - 1 : s.dates[c] < t /\ t <= s.dates[c + 1]}

\* Mutant: the flags are cut by one less than the dates.
AfterFlagsShifted(s, t, cut) ==
  LET dates == SubSeq(s.dates, cut + 1, Len(s.dates))
      regular == SubSeq(s.regular, cut, Len(s.regular))
  IN  [s EXCEPT !.dates = IF dates[1] # t THEN <<t>> \o dates ELSE dates,
                !.regular = IF dates[1] # t THEN regular ELSE Tail(regular),
                !.terminationConvention = IF dates[1] # t THEN Unadjusted ELSE s.convention,
                !.first = KeepIf(@, @ > t), !.nextToLast = KeepIf(@, @ > t)]

\* Without the first cut dates: from t on, a date of its own, with an irregular
\* period, where t is between two dates.
WithoutFirst(s, t, cut) ==
  LET dates == SubSeq(s.dates, cut + 1, Len(s.dates))
      regular == SubSeq(s.regular, cut + 1, Len(s.regular))
      stub == dates[1] # t
  IN  [s EXCEPT !.dates = IF stub THEN <<t>> \o dates ELSE dates,
                !.regular = IF stub THEN <<FALSE>> \o regular ELSE regular,
                !.terminationConvention = IF stub THEN Unadjusted ELSE s.convention,
                !.first = KeepIf(@, @ > t), !.nextToLast = KeepIf(@, @ > t)]

\* From t on, of dates in order.
After(s, t) ==
  IF t <= s.dates[1] THEN s ELSE WithoutFirst(s, t, lower_bound(s, t))

\* Up to t: dates go from the end while they are later.
Until(s, t) ==
  LET kept == Max({i \in DOMAIN s.dates : s.dates[i] <= t})
      dates == SubSeq(s.dates, 1, kept)
      popped == Len(s.dates) - kept
      regular == SubSeq(s.regular, 1, Len(s.regular) - popped)
      stub == dates[kept] # t
  IN  IF t >= Last(s.dates) THEN s
      ELSE [s EXCEPT !.dates = IF stub THEN Append(dates, t) ELSE dates,
                     !.regular = IF stub THEN Append(regular, FALSE) ELSE regular,
                     !.terminationConvention = IF stub THEN Unadjusted ELSE s.convention,
                     !.first = KeepIf(@, @ < t), !.nextToLast = KeepIf(@, @ < t)]

-----------------------------------------------------------------------------
(* The schedule in use *)

ScheduleInit == CalendarInit /\ schedule = NoSchedule /\ cuts = 0

\* Schedule::new panics on a single date.
New ==
  /\ schedule = NoSchedule
  /\ \E spec \in Specifications :
       LET a == Normalised(spec) IN
       /\ Accepted(a)
       /\ schedule' = Built(a)
       /\ Len(schedule'.dates) > 1
  /\ UNCHANGED <<added, removed, cuts>>

\* A list as it is: no flags, nothing checked.
FromDates ==
  /\ schedule = NoSchedule
  /\ \E s \in DateLists :
       schedule' = [dates |-> s, regular |-> <<>>, convention |-> Unadjusted,
                    terminationConvention |-> Unadjusted,
                    first |-> NullDate, nextToLast |-> NullDate, asked |-> NoArguments]
  /\ UNCHANGED <<added, removed, cuts>>

CutAfter ==
  /\ schedule # NoSchedule /\ cuts < MaxCuts
  /\ \E t \in CutDates :
       /\ t < Last(schedule.dates)
       /\ \/ t <= schedule.dates[1] /\ UNCHANGED schedule
          \/ /\ schedule.dates[1] < t
             /\ \E cut \in SearchesEnd(schedule, t) : schedule' = WithoutFirst(schedule, t, cut)
  /\ cuts' = cuts + 1
  /\ UNCHANGED <<added, removed>>

CutUntil ==
  /\ schedule # NoSchedule /\ cuts < MaxCuts
  /\ \E t \in CutDates : /\ t > schedule.dates[1]
                         /\ schedule' = Until(schedule, t)
  /\ cuts' = cuts + 1
  /\ UNCHANGED <<added, removed>>

ChangeCalendar == CalendarNext /\ UNCHANGED <<schedule, cuts>>

ScheduleNext == New \/ FromDates \/ CutAfter \/ CutUntil \/ ChangeCalendar

ScheduleSpec == ScheduleInit /\ [][ScheduleNext]_scheduleVars

-----------------------------------------------------------------------------
Generated == schedule # NoSchedule /\ schedule.asked # NoArguments

\* Serial numbers, calendar dates and periods agree and add up in order, so that a
\* period that compares shorter is shorter from any date, and the dates that
\* markets fix by rule, coded or tabulated, are those of the rule.
DatesFollowRules ==
  schedule = NoSchedule =>
    /\ SerialsNameDates /\ MonthsAddInOrder /\ PeriodsOrderDates
    /\ CodesNameImmDates /\ EasterIsComputed

\* Rolling by any convention keeps the order of dates, the modified conventions
\* keeping the month or the half of it, and counting business days inverts
\* advancing by them, under any overrides.  (Asked before a schedule is built:
\* no schedule has a say in it.)
CalendarAnswersAgree ==
  schedule = NoSchedule => RollingKeepsOrder /\ CountingMatchesAdvancing

NonDecreasing(s) == \A i \in 1 .. Len(s) - 1 : s[i] <= s[i + 1]

\* Stubs in the term, that do not cross.
StubsInTurn(a) ==
  LET first == IF a.first = NullDate THEN a.effective ELSE a.first
      last == IF a.nextToLast = NullDate THEN a.termination ELSE a.nextToLast
  IN  a.effective <= first /\ first <= last /\ last <= a.termination

\* Arguments whose dates nothing carries past one another: besides the stubs, two
\* dates of a month would snap to one third Wednesday, a next-to-last date to an
\* end of month beyond the termination, and an end that rolls back alone passes
\* what does not roll, or what was snapped.
KeepsOrder(a) ==
  /\ StubsInTurn(a)
  /\ a.rule \in OnThirdWednesday => a.tenor.units \in {Months, Years}
  /\ a.endOfMonth => a.nextToLast = NullDate
  /\ a.convention # a.terminationConvention =>
       a.convention # Unadjusted /\ ~a.endOfMonth /\ a.rule \notin OnThirdWednesday

\* Where its arguments keep the order, "a payment schedule" is "a non-decreasing
\* sequence of dates" (schedule.rs:24), whatever the calendar and however it is
\* cut: one date at each end goes where rolling and snapping make the dates there
\* meet or pass (schedule.rs:433-450), and no second one has to.
SchedulesAreOrdered ==
  Generated /\ KeepsOrder(schedule.asked) => NonDecreasing(schedule.dates)

\* "A payment schedule: a non-decreasing sequence of dates" (schedule.rs:24), of
\* whatever arguments Schedule::new accepts.  Violated (MCScheduleOrder.cfg): where
\* two weeks of a month snap to its third Wednesday, before the effective date,
\* one of them is left.
DatesAreNonDecreasing == Generated => NonDecreasing(schedule.dates)

\* The periods flagged regular are one tenor long, counted from one of their
\* ends, where no rolling moves the dates.
RegularPeriodsAreTenors(s) ==
  s.asked.rule \in {Backward, Forward} /\ s.convention = Unadjusted
    /\ s.terminationConvention = Unadjusted =>
    \A i \in DOMAIN s.regular :
      s.regular[i] => \/ Step(s.asked, s.dates[i], 1) = s.dates[i + 1]
                      \/ Step(s.asked, s.dates[i + 1], -1) = s.dates[i]

\* No stub passes for a whole period, which the legs would then pay in full:
\* what is flagged regular is a tenor, where nothing is snapped to ends of month.
StubsAreNotRegular ==
  Generated /\ cuts = 0 /\ ~schedule.asked.endOfMonth => RegularPeriodsAreTenors(schedule)

\* "Whether the i-th period is regular" (schedule.rs:603).  Violated: the flags
\* are of the dates as they were asked for, and a stub that is snapped to an
\* end of month, or onto its neighbour, keeps the flag of the date it was.
FlaggedPeriodsAreRegular == Generated /\ cuts = 0 => RegularPeriodsAreTenors(schedule)

\* Where a schedule has to start and end, of the arguments of Schedule::new.
Covers(a, s) ==
  LET start == s.dates[1]
      end == Last(s.dates)
  IN  /\ a.rule \notin OnTheTwentieth \cup {ThirdWednesdayInclusive} =>
           /\ start = adjust(a.effective, a.convention)
           /\ end = adjust(a.termination, a.terminationConvention)
      /\ a.rule \in {CDS, CDS2015} => start <= a.effective
      /\ a.rule \in OnTheTwentieth =>
           adjust(end, a.terminationConvention) >= adjust(a.termination, a.terminationConvention)

\* A schedule starts and ends where it was asked to, rolled by the convention
\* of that end; on the twentieths it covers the term: its first date rolls on
\* or before the effective date and its last is not before the termination.
TermIsCovered ==
  [][schedule = NoSchedule /\ Generated' => Covers(schedule'.asked, schedule')]_scheduleVars

OneFlagPerPeriod(s) == Len(s.regular) = Len(s.dates) - 1

Occurrences(s, t) == Cardinality({i \in DOMAIN s.dates : s.dates[i] = t})

Halves(s, t) ==
  LET u == Until(s, t)
      a == After(s, t)
      i == lower_bound(s, t)
  IN  /\ OneFlagPerPeriod(s) /\ OneFlagPerPeriod(u) /\ OneFlagPerPeriod(a)
      /\ Last(u.dates) = t /\ a.dates[1] = t
      /\ Range(u.dates) \cup Range(a.dates) = Range(s.dates) \cup {t}
      /\ IF t \in Range(s.dates)
         THEN u.regular \o SubSeq(a.regular, Occurrences(s, t), Len(a.regular)) = s.regular
         ELSE /\ Front(u.regular) \o <<s.regular[i]>> \o Tail(a.regular) = s.regular
              /\ ~Last(u.regular) /\ ~Head(a.regular)

\* A schedule has one flag per period, whatever dates met at its ends; and one in
\* order, cut in two at a date, loses nothing: the halves meet at the date, have
\* between them its dates and no other, and every period that was not cut keeps its
\* flag, the cut one being irregular on both sides.  (Where dates met at the date,
\* the empty periods between them are on both sides.)
HalvesMakeTheWhole ==
  Generated =>
    /\ OneFlagPerPeriod(schedule)
    /\ NonDecreasing(schedule.dates) =>
         \A t \in CutDates :
           schedule.dates[1] < t /\ t < Last(schedule.dates) => Halves(schedule, t)
=============================================================================
