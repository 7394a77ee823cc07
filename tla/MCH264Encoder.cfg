CONSTANTS
  Delay = 2
  Failures = {"open", "encode"}
  MaxPictures = 4
  MaxInits = 2
SPECIFICATION EncoderSpec
INVARIANTS EncoderTypeOK NoPictureLost FragmentsOnce
CHECK_DEADLOCK FALSE
