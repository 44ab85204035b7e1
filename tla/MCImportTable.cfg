SPECIFICATION Spec
CONSTANTS
  NameOrder <- MCOrder
  Sanitized <- MCSanitized
  Plain <- MCPlain
  Components <- MCComponents
  Combined <- MCCombined
  MaxDepth = 6
  Documents <- MCDocuments
INVARIANTS ImportAccepted ReadsItsField WritesDeclared RowsAsImported PromisedColumns
CHECK_DEADLOCK FALSE
