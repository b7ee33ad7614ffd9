CONSTANTS
  MaxOps = 2
  MaxCalls = 3
  Usage = {}
SPECIFICATION Spec
CHECK_DEADLOCK FALSE
INVARIANTS AnswersMatch
PROPERTIES FlagFollowsServer EveryCallReturns
