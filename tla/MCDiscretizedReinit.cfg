SPECIFICATION Spec
CONSTANTS
  LastNode = 4
  Deals <- MCDeals
  Users = {"swap", "option", "both", "engine"}
  MaxInitialize = 2
INVARIANT AppliedWhenInitialized
CHECK_DEADLOCK FALSE
