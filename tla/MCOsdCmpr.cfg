SPECIFICATION Spec
CONSTANTS
  Colors <- MCColors
  Depths = {0, 1, 2}
  N = 5
  RunBits = 1
  LitBits = 32
  RgbTrunc = 1
  AlphaTrunc = 0
  Zeroize = TRUE
INVARIANTS TypeOK RoundTrip CachesAgree FitsBuffer
PROPERTY RunsLongest
CHECK_DEADLOCK FALSE
