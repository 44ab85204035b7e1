SPECIFICATION Spec
CONSTANTS
  Forms = {"f1", "f2"}
  NoForm = NoForm
  Tables = {"t1", "t2"}
  MaxPlans = 3
  MaxActions = 6
INVARIANTS PreviewIsCurrent
CHECK_DEADLOCK FALSE
