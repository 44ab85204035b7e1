SPECIFICATION Spec
CONSTANTS
  Columns = {"id", "kind"}
  Collection <- MCCollection
  PageRows = 2
  Conventions <- MCConventions
  AllowCrossOrigin = FALSE
  Filters <- MCFilters
  Tables <- MCTables
  Queries <- MCQueries
INVARIANTS AnswerIsExact SameCollection
CHECK_DEADLOCK FALSE
