SPECIFICATION Spec
CONSTANTS
  a = a
  b = b
  one = one
  both = both
  Names = {a, b}
  Tables = {t1, t2}
  Definitions = {one, both}
  Selected <- MCSelected
  Operations <- MCCrossing
  Requests = {r1, r2, r3}
  PoolSize = 2
  MaxSql = 1
INVARIANTS RecordsMatch TablesMatch
PROPERTIES ReplaceIsExplicit AllOrNothing EveryRequestAnswered
CHECK_DEADLOCK FALSE
