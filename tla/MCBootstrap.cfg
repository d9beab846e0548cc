SPECIFICATION Spec
CONSTANTS
  Curves <- MCCurves
  Helpers <- MCHelpers
  Instruments <- MCInstruments
  Reads <- MCReads
  Relative <- MCRelative
  Pillar <- MCPillar
  Latest <- MCLatest
  EvalDates = {1, 2}
  FirstDate = 1
  Quotes = {1}
  NoQuote = 0
  Algorithms = {"iterative", "local", "global"}
  GlobalCurves = {}
  RequiredPoints = 2
  Localisation = 2
  MaxIterations = 3
  MaxChanges = 2
INVARIANTS CalculatedIsSolved ShapesMatch RangeCoversHelpers
PROPERTY BootstrapEnds
CHECK_DEADLOCK FALSE
