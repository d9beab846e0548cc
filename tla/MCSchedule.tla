---------------------------- MODULE MCSchedule ----------------------------
(***************************************************************************)
(* Schedules of 2022 and 2023 on a calendar with weekends, Easter and      *)
(* holidays on an end of month and on a twentieth, and the arithmetic of   *)
(* dates over the whole range of the type.                                 *)
(***************************************************************************)
EXTENDS Schedule

D(d, m, y) == DateOf(d, m, y)

Holidays == {D(15, 4, 2022), D(18, 4, 2022), D(31, 5, 2022), D(20, 12, 2022),
             D(21, 12, 2022), D(26, 12, 2022), D(16, 1, 2023), D(28, 2, 2023)}

MCNaturalBusinessDays ==
  {d \in D(1, 1, 2021) .. D(31, 12, 2024) : weekday(d) \notin {1, 7}} \ Holidays

\* A leap day, two ends of month, an end of year and a holiday of two days.
MCSampleDates == D(25, 2, 2024) .. D(1, 3, 2024) \cup D(11, 12, 2022) .. D(4, 2, 2023)

MCSamplePeriods ==
  {Period(n, u) : n \in {-30, -13, -1, 0, 1, 2, 4, 5, 12, 13, 30, 61}, u \in {Days, Weeks, Months, Years}}

MCEditable == {D(20, 9, 2022), D(26, 12, 2022)}

Ends == {<<D(31, 1, 2022), D(30, 6, 2022)>>, <<D(16, 6, 2022), D(21, 9, 2022)>>,
         <<D(20, 3, 2022), D(21, 12, 2022)>>, <<D(21, 12, 2022), D(15, 3, 2023)>>}

Tenors == {Period(0, Days), Period(1, Weeks), Period(1, Months), Period(3, Months)}

Rules == {Backward, Forward, ThirdWednesday, ThirdWednesdayInclusive, Twentieth,
          TwentiethIMM, OldCDS, CDS, CDS2015}

Stubs == {<<NullDate, NullDate>>, <<D(15, 4, 2022), NullDate>>, <<NullDate, D(15, 6, 2022)>>,
          <<NullDate, D(20, 12, 2022)>>,
          <<D(15, 2, 2022), D(15, 6, 2022)>>, <<D(20, 4, 2022), D(21, 9, 2022)>>, <<D(15, 6, 2022), D(15, 4, 2022)>>}

Rolls == {<<Unadjusted, Unadjusted>>, <<ModifiedFollowing, ModifiedFollowing>>,
          <<Following, Preceding>>}

\* Weeks are for terms of a quarter.
Cases == {x \in [ends : Ends, tenor : Tenors, rolls : Rolls, rule : Rules,
                 endOfMonth : BOOLEAN, stubs : Stubs] :
            x.tenor.units = Weeks => x.ends[2] - x.ends[1] < 100}

MCSpecifications ==
  {[effective |-> x.ends[1], termination |-> x.ends[2], tenor |-> x.tenor,
    convention |-> x.rolls[1], terminationConvention |-> x.rolls[2],
    rule |-> x.rule, endOfMonth |-> x.endOfMonth,
    first |-> x.stubs[1], nextToLast |-> x.stubs[2]]
     : x \in Cases}

\* The weeks of 16 June snap to the third Wednesday before it, two weeks at a time.
MCWeeklySpecifications ==
  {[effective |-> D(16, 6, 2022), termination |-> D(21, 9, 2022), tenor |-> Period(1, Weeks),
    convention |-> Following, terminationConvention |-> Following, rule |-> ThirdWednesday,
    endOfMonth |-> FALSE, first |-> NullDate, nextToLast |-> NullDate]}

MCDateLists == {<<D(20, 3, 2022), D(20, 6, 2022), D(20, 9, 2022), D(20, 12, 2022)>>}

\* Where a first date snaps onto its neighbour, the thirtieth is a date twice.
MCCutDates == {D(15, 4, 2022), D(30, 4, 2022), D(20, 9, 2022)}
=============================================================================
