SPECIFICATION Spec
CONSTANTS
  UrlTokens = {u1, u2}
  ForeignTokens = {f1}
  CursorTokens = {c1}
  CursorParam = TRUE
  MaxPages = 3
  Limits <- MCLimits
  PageRows = 2
  MaxScans = 2
INVARIANTS DeliveredInOrder EndIsComplete FollowsTokens LoopsOnly NoTokenTwice PagesBounded
PROPERTIES ImplementsRelationScan
CHECK_DEADLOCK FALSE
