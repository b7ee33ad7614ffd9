SPECIFICATION Spec
CONSTANTS
  Handles = {h1}
  MaxOps = 4
  MaxCancels = 3
  Environments = {
    {"drop", "timeout", "cancel", "ahead"},
    {"handle", "reconcile"},
    {"drop", "timeout", "close", "cancel", "ahead", "stall", "garbled", "fatal", "send_error"}}
  Nobody = nobody
  Owner = owner
CHECK_DEADLOCK FALSE
INVARIANTS OwnResponse CleanWhenReady SurvivesCancel
