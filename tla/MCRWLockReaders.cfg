CONSTANTS
  Readers = {r1, r2}
  Writers = {w1}
  r1 = r1
  r2 = r2
  w1 = w1
SPECIFICATION Spec
INVARIANT NoReaderForgotten
CHECK_DEADLOCK FALSE
