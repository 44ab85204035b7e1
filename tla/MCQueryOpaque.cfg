SPECIFICATION Spec
CONSTANTS
  Columns = {"id", "kind"}
  Collection <- MCCollection
  PageRows = 2
  Conventions = {"unpaged", "link"}
  AllowCrossOrigin = FALSE
  Filters <- MCFilters
  Tables <- MCTables
  Queries <- MCOpaqueQueries
INVARIANTS OpaqueIsHarmless
CHECK_DEADLOCK FALSE
