SPECIFICATION Spec
CONSTANTS
  Width = 4
  REG_PC = 1
  REG_STK = 2
  REG_FRM = 3
  PageSize = 5
  Images <- LoopImages
  Junk = {0}
  EnvFails = FALSE
PROPERTIES RunsWrittenOperands
CHECK_DEADLOCK FALSE
