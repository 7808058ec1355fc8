SPECIFICATION Spec
CONSTANTS
  Width = 4
  REG_PC = 1
  REG_STK = 2
  REG_FRM = 3
  PageSize = 5
  Images <- TwoPageImages
  Junk = {0}
  EnvFails = FALSE
PROPERTIES FetchesAddressed
CHECK_DEADLOCK FALSE
