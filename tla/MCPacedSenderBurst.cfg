CONSTANTS
  Ids = {1, 2}
  Sizes = {1, 3}
  Captures = {1}
  PriosUsed = {"Normal"}
  MaxRates = {1, 2}
  MinRates = {0}
  QueueLimits = {1}
  MinInterval = 1
  MaxInterval = 2
  MaxNoSend = 2
  BudgetFloor = 3
  MaxAge = 2
  Calls = {"UpdateBitrate", "SetMaxQueueLength"}
SPECIFICATION BurstSpec
INVARIANTS PacedBurst
CHECK_DEADLOCK FALSE
