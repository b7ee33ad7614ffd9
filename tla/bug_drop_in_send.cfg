SPECIFICATION Spec
CONSTANTS
  Handles = {h1}
  MaxOps = 2
  MaxCancels = 0
  Environments = {{"drop", "in_send"}}
  Nobody = nobody
  Owner = owner
CHECK_DEADLOCK FALSE
INVARIANTS OwnResponse
