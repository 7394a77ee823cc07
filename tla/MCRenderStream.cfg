CONSTANTS
  Delays = {0, 1}
  Old = 0
  Future = 2
  MaxWait = 2
  Startup = 1
  MaxNumber = 0
  MaxFrames = 4
  MaxStarts = 2
SPECIFICATION FairSpec
INVARIANTS TypeOK ShownInOrder SilentWhenStopped BuffersBounded WakesForHead
PROPERTY QueueServed
CHECK_DEADLOCK FALSE
