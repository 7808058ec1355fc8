CONSTANTS
  Files <- Documented
  FaultyFiles = {}
  CHUNK = 3
  Letters = {"a"}
  Digits = {"1"}
  Others = {"#"}
  A32_START_CMD_SIZE = 1
  A32_MAX_TOKEN = 4
  MallocFails = FALSE
SPECIFICATION Spec
CHECK_DEADLOCK FALSE
PROPERTIES CommentsEndLines
