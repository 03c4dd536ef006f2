CONSTANTS
  Clients = {c1, c2}
  Helpers = {h1, h2, h3}
  Outsiders = {o1}
  Null = Null
  MaxTasks = 2
SPECIFICATION FairSpec
CHECK_DEADLOCK FALSE
INVARIANTS AllThreadsHelp FinishIsFinal
PROPERTIES FinishReturns PoolDies
