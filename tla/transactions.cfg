CONSTANTS
  Borrowers = {b1, b2}
  Ids = {i1, i2}
  Xids = {x1}
  Usage = {"lost", "fail", "limit", "pipeline"}
SPECIFICATION Spec
SYMMETRY Alike
CHECK_DEADLOCK FALSE
INVARIANTS NothingCrossesRelease ClientKnows
PROPERTIES KeepsServerTransaction
