CONSTANTS
  SeqSpace = 6
  MinRequest = 1
  HistSize = 2
  MinResend = 1
  StartTime = 1
  MaxTime = 2
  MaxPackets = 3
SPECIFICATION Spec
INVARIANTS TypeOK PaddingOutsideFrames OriginalsInOrder LostOnlyWhenBehind ResentOnRequest
CHECK_DEADLOCK FALSE
