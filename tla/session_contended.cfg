SPECIFICATION FairSpec
CONSTANTS
  Handles = {h1, h2}
  MaxOps = 2
  MaxCancels = 2
  Environments = {
    {"drop", "in_send", "drop_handle", "timeout", "close", "cancel", "handle",
     "reconcile", "stream", "ahead", "stall", "garbled", "fatal", "send_error"}}
  Nobody = nobody
  Owner = owner
CHECK_DEADLOCK FALSE
INVARIANTS DrainingIsOwned WriteMutexHeld
PROPERTIES DeadIsKept OperationReturns
