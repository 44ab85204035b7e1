SPECIFICATION Spec
CONSTANTS
  NameOrder <- MCOrder
  Sanitized <- MCSanitized
  Plain <- MCPlain
  Components <- MCComponents
  Combined <- MCCombined
  MaxDepth = 6
  Documents <- MCOrders
INVARIANTS ChangesOneRow
CHECK_DEADLOCK FALSE
