SPECIFICATION Spec
CONSTANTS
  LastNode = 4
  Deals <- MCDeals
  Users = {"swap", "option", "both", "engine"}
  MaxInitialize = 1
INVARIANT WindowIsExercised
CHECK_DEADLOCK FALSE
