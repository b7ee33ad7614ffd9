CONSTANTS
  Descriptors <- MCDescriptors
  Credentials = {"password", "token", "source", "unsupported"}
  Targets = {"r1", "r2"}
  MaxResend = 1
  MaxRedirect = 2
  RetryBudgets = {0, 1, 3, 5}
  Bases = {0, 1, 3}
  Caps = {0, 2, 8, 15}
  MaxDuration = 15
SPECIFICATION CallsSpec
CHECK_DEADLOCK FALSE
INVARIANTS StaysSecure FailoverExact SafeToRepeat PolicyHolds
PROPERTIES ConnectReturns AlwaysStops
