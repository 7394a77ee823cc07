CONSTANTS
  SeqSpace = 4
  HistSizes = {1, 2}
  Lens = {1, 2}
  MaxLens = {1, 2}
  MinRequest = 2
  MinElapsed = {0, 1}
  StartTime = 1
  MaxTime = 2
  MaxPackets = 7
SPECIFICATION Spec
INVARIANTS TypeOK LookupExact RingInv
PROPERTY WindowSpec
CHECK_DEADLOCK FALSE
