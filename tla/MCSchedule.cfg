SPECIFICATION ScheduleSpec
CONSTANTS
  SampleDates <- MCSampleDates
  SamplePeriods <- MCSamplePeriods
  NaturalBusinessDays <- MCNaturalBusinessDays
  Editable <- MCEditable
  MaxOverrides = 2
  Specifications <- MCSpecifications
  DateLists <- MCDateLists
  CutDates <- MCCutDates
  MaxCuts = 1
  MaxPeriods = 30
INVARIANT DatesFollowRules
INVARIANT CalendarAnswersAgree
INVARIANT SchedulesAreOrdered
INVARIANT StubsAreNotRegular
INVARIANT HalvesMakeTheWhole
PROPERTY TermIsCovered
CHECK_DEADLOCK FALSE
