SPECIFICATION Spec
CONSTANTS
  Curves <- MCCurves
  Helpers <- MCHelpers
  Instruments <- MCInstruments
  Reads <- MCReads
  Relative <- MCRelative
  Pillar <- MCPillar
  Latest <- MCLatest
  EvalDates = {2}
  FirstDate = 1
  Quotes = {1, 2}
  NoQuote = 0
  Algorithms = {"iterative"}
  GlobalCurves = {}
  RequiredPoints = 2
  Localisation = 2
  MaxIterations = 3
  MaxChanges = 1
INVARIANT ValidIsASolution
CHECK_DEADLOCK FALSE
