CONSTANTS
  Files <- Texts
  FaultyFiles <- Unreliable
  CHUNK = 3
  Letters = {"a"}
  Digits = {"1"}
  Others = {"#"}
  A32_START_CMD_SIZE = 1
  A32_MAX_TOKEN = 4
  MallocFails = TRUE
SPECIFICATION Spec
CHECK_DEADLOCK FALSE
INVARIANTS TypeOK WholeText NothingLost LinesAreCommands FitsParser QuotesAgree
PROPERTIES Ends
