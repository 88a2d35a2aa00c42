CONSTANTS
  VtsDef = 1125
  BRL = 1109
  FullLinesMax = 262143
  GainMode = "SNS_GAIN_MODE_WDR_2F"
  Rates = {30, 60}
  IntTimes = {1123, 1125}
  Ratios = {1024}
  Steps = {0}
  Gains <- MCGains
  OtherThread = TRUE
  MaxCalls = 4
SPECIFICATION Spec
INVARIANT PrevIsAnswered
