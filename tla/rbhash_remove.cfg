CONSTANTS
  k1 = k1 k2 = k2 k3 = k3 k4 = k4 d1 = d1 d2 = d2
  nul = nul blank = blank waste = waste wild = wild
  Zeroed = TRUE
  Sizes <- Sizes8
  Keys = {k1, k2, k4}
  Hash <- MCHash
  Datas = {d1}
  NULL = nul
  Fill <- MCFill
  Calls = {"add_unique", "remove"}
  Min = 10
  MallocFails = FALSE
  MaxCount = 4
  TooLong = {}
  StartsWithNul = {blank}
  SearchKeys = {}
  SearchFrom = 2
SPECIFICATION SSpec
CHECK_DEADLOCK FALSE
INVARIANTS FindsStored
