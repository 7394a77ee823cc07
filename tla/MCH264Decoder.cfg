CONSTANTS
  MaxInputs = 9
  MaxResets = 2
  MaxDelay = 1
  MemoryLength = 4
  TsSpace = 8
SPECIFICATION Spec
INVARIANTS TypeOK StartUpOnce RenderTimeOfCall DroppedOnlyAtWrap
CHECK_DEADLOCK FALSE
