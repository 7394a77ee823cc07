CONSTANTS
  Ids = {1, 2}
  Sizes = {2}
  Captures = {1}
  PriosUsed = {"High", "Normal"}
  MaxRates = {0, 1}
  MinRates = {1}
  QueueLimits = {0}
  MinInterval = 1
  MaxInterval = 1
  MaxNoSend = 1
  BudgetFloor = 1
  MaxAge = 1
  Calls = {"Pause", "SetStatus", "UpdateBitrate", "SetMaxQueueLength"}
SPECIFICATION FairSpec
INVARIANTS TypeOK ListsInv
PROPERTIES LeavesOnlyWhenSent QueueSpec HighServed NormalServed
CHECK_DEADLOCK FALSE
