SPECIFICATION DialogSpec
CONSTANTS
  Texts = {"b1", "b2", "broken"}
  Bundles = {"b1", "b2"}
  NoPlan = NoPlan
  MaxRequests = 3
  MaxActions = 7
INVARIANTS ShownIsArmed
PROPERTIES AppliedAsShown ButtonReturns
CHECK_DEADLOCK FALSE
