CONSTANTS
  Delay = 1
  Failures = {}
  MaxPictures = 2
  MaxInits = 1
SPECIFICATION EncoderSpec
INVARIANT DeliversTheInput
CHECK_DEADLOCK FALSE
