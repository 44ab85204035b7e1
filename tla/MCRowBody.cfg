SPECIFICATION Spec
CONSTANTS
  ColumnOrder <- MCOrder
  Identity = "id"
  Attrs = "attrs"
  u = u
  v = v
  Null = Null
  NotAnObject = NotAnObject
  JsonColumns = {"x", "id"}
  Values = {u, v}
  Objects <- MCObjects
  Identities <- MCIdentities
  Jobs <- MCJobs
INVARIANTS RoundTrip AttrsPreserved BodyAccounted RowAddressed
CHECK_DEADLOCK FALSE
