CONSTANTS
  Columns = {c1, c2}
  Null = Null
  Values = {Null, v1}
  NoRow = NoRow
  Kinds = {"rows", "one", "stream", "each", "nested"}
  MaxRows = 3
  ArraySize = 2
  Limit = 2
  MaxEmpty = 1
  Usage = {}
SPECIFICATION Spec
CHECK_DEADLOCK FALSE
INVARIANTS ReadsTheTable LeavesNothingBehind
PROPERTIES Terminates
