SPECIFICATION Spec
CONSTANTS
  LowValues = 8
  SectValues = 4
  DevValues = 4
  HighValues = 16
  NorValues = 4
  ExtValues = 8
  SataFeature = 2
  MAX_LBA = 25
  Codes <- MCCodes
  Lows = {0, 1, 7}
  Devs = {0, 3}
  Highs = {0, 2, 3, 15, 18}
  Counts = {0, 1, 2, 7}
INVARIANTS
  FtlAskedRight
  ToldRight
  PioExclusive
CHECK_DEADLOCK FALSE
