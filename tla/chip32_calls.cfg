SPECIFICATION CSpec
CONSTANTS
  Width = 5
  REG_PC = 1
  REG_STK = 2
  REG_FRM = 3
  PageSize = 6
  Images <- CallImages
  Junk = {0}
  EnvFails = FALSE
INVARIANTS FramesIntact
PROPERTIES ReturnsToCaller RetDefined
CHECK_DEADLOCK FALSE
