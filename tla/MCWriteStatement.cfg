SPECIFICATION Spec
CONSTANTS
  Ids = {1, 3}
  Kinds = {"insert", "update", "delete"}
  IdempotentKinds = {"delete"}
  PageRows = 1
  MaxCalls = 3
  MaxEffects = 2
  MaxChanges = 1
INVARIANTS OneRowInDoubt EachRowOnce NothingLeft
