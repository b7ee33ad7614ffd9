CONSTANTS
  Tasks = {t1, t2, t3}
  Closers = {k1}
  PoolMin = 1
  PoolMax = 2
  Increment = 1
  NoClass = none
  PoolClass = none
  Classes = {none}
  InitMode = "WAIT"
  SetModes = {}
  AskClasses = {none}
  AskNew = {FALSE}
  Environments = {{"noping", "force"}}
  MaxConnId = 5
SPECIFICATION FairSpec
CHECK_DEADLOCK FALSE
PROPERTIES FifoHandout AcquireReturns CloseReturns
