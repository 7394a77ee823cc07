CONSTANTS
  Streams <- MCStreams
  MaxNumberOfFrames = 3
  MaxOldPackets = 1
  MaxNackListSize = 1
  MaxPacketAge = 3
  NackModes = {TRUE, FALSE}
SPECIFICATION Spec
INVARIANTS TypeOK NackListRight
PROPERTIES FollowsOrMarked InOrder
CHECK_DEADLOCK FALSE
