CONSTANTS
  NumThreads = 2
  Clients = {http, main}
  Tasks = {"h1", "h2", "l1", "m1", "l2"}
  Calls = {"waitall", "setup", "render", "again"}
  CallTasks <- MCCallTasks
  Priority <- MCPriority
  IsWait <- MCIsWait
  Children <- MCChildren

SPECIFICATION FairSpec

INVARIANTS
  TypeOK
  NoEmptySearch
  WaitSemaAlive
  NoUseAfterFree

PROPERTIES
  ImplementsBag
  CallsReturn

CHECK_DEADLOCK FALSE
