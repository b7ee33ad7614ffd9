CONSTANTS
  Tasks = {t1, t2}
  Closers = {k1}
  PoolMin = 1
  PoolMax = 2
  Increment = 1
  NoClass = none
  PoolClass = ca
  Classes = {none, ca, cb}
  InitMode = "TIMEDWAIT"
  SetModes = {"NOWAIT", "FORCEGET"}
  AskClasses = {none, ca, cb}
  AskNew = {TRUE, FALSE}
  Environments = {
    {"cancel", "unfit", "noping", "refuse", "discard", "idle", "retime", "force", "forget", "expire"},
    {"ping", "noping", "unfit", "idle", "discard", "class", "new"},
    {"cancel", "noping", "refuse", "discard", "mode"}}
  MaxConnId = 4
SPECIFICATION Spec
CHECK_DEADLOCK FALSE
INVARIANTS TypeOK NoDoubleHandout NothingLeaks BusyMatchesGuards WithinMax NobodyOversleeps RestsComplete
PROPERTIES HandoutHonoursRequest ImplementsContract
