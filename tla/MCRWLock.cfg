CONSTANTS
  Readers = {r1, r2}
  Writers = {w1, w2}
  r1 = r1
  r2 = r2
  w1 = w1
  w2 = w2
SPECIFICATION Spec
INVARIANTS TypeOK MutualExclusion NoWriterForgotten
CHECK_DEADLOCK FALSE
