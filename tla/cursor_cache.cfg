CONSTANTS
  Owners = {o1, o2}
  Queries = {q1, q2}
  Dmls = {d1}
  Binding = {q1}
  Lobs = {q2}
  CacheSize = 2
  Usage = {"fail", "abandon", "uncached"}
  MaxExecs = 4
SYMMETRY OwnerSymmetry
SPECIFICATION Spec
CHECK_DEADLOCK FALSE
INVARIANTS CursorsInUse  CacheHonest
