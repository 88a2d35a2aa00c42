SPECIFICATION CanvasSpec
CONSTANTS
  Colors <- MCColors
  Depths = {1}
  W = 5
  H = 4
  N = 20
  RunBits = 1
  LitBits = 32
  RgbTrunc = 0
  AlphaTrunc = 0
  Zeroize = FALSE
  Ground <- bg
  PairMax = 2
  Pictures <- MCPictures
PROPERTIES DrawEnds SweepMoves DrawsPicture
CHECK_DEADLOCK FALSE
