SPECIFICATION Spec
CONSTANTS
  Width = 4
  REG_PC = 1
  REG_STK = 2
  REG_FRM = 3
  PageSize = 5
  Images <- AllImages
  Junk <- SomeJunk
  EnvFails = TRUE
INVARIANTS TypeOK Running ExecutesImage StaysDefined KeepsRegisters
PROPERTIES NoEarlyStop FirstPageFetches ForwardHalts
CHECK_DEADLOCK FALSE
