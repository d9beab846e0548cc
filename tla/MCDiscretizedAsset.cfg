SPECIFICATION Spec
CONSTANTS
  LastNode = 4
  Deals <- MCDeals
  Users = {"swap", "option", "both", "engine"}
  MaxInitialize = 1
INVARIANTS SwapIsWhatIsLeft ExercisesSeeTheRest EveryExerciseCounts TreeAgreesWithDiscounting
CHECK_DEADLOCK FALSE
