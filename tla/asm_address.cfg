SPECIFICATION Spec
CONSTANTS
  Names <- AllNames
  Sources <- FixedAddresses
  TooLong = {"long"}
  A32_START_ADDR = 35
  MallocFails = FALSE
PROPERTIES DeclaredWhereAsked
CHECK_DEADLOCK FALSE
