CONSTANTS
  Modules = {m1, m2}
  Threads = {t1, t2}
  Intervals = {1, 3}
  MaxWait = 2
  NoThread = NoThread
SPECIFICATION FairSpec
INVARIANTS TypeOK CallsOnlyRegistered
PROPERTIES PromptWake Progress
CHECK_DEADLOCK FALSE
