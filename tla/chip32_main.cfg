SPECIFICATION DSpec
CONSTANTS
  Names <- AllNames
  Sources <- AllSources
  TooLong = {"long"}
  A32_START_ADDR = 4
  MallocFails = TRUE
  Sessions <- AllSessions
  Files <- Texts
  Directories <- Folders
  Malformed <- NotLexed
  MAX_DIR_INCLUDE = 1
  Cwd <- Dir
  Home <- NoHome
  Width = 8
  REG_PC = 1
  REG_STK = 2
  REG_FRM = 3
  PageSize = 12
  Junk <- OneJunk
  EnvFails = TRUE
INVARIANTS OnePassSuffices AutoApart
INVARIANTS DTypeOK ZeroMeansDone FailedBuildKeepsImages ImageOfOneProgram VariablesReady
PROPERTIES BranchesRelative InvocationEnds
CHECK_DEADLOCK FALSE
