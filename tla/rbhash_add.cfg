CONSTANTS
  k1 = k1 k2 = k2 k3 = k3 k4 = k4 d1 = d1 d2 = d2
  nul = nul blank = blank waste = waste wild = wild
  Zeroed = FALSE
  Sizes <- Sizes8
  Keys = {k1, k2, k4}
  Hash <- MCHash
  Datas = {d1}
  NULL = nul
  Fill <- MCFill
  Calls = {"add"}
  Min = 25
  MallocFails = TRUE
  MaxCount = 3
  TooLong = {}
  StartsWithNul = {blank}
  SearchKeys = {k1}
  SearchFrom = 1
SPECIFICATION SSpec
CHECK_DEADLOCK FALSE
INVARIANTS TypeOK Placed FindsStored KeepsMin ExitsForewarned SearchFindsAll
PROPERTIES Terminates
