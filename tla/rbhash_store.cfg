CONSTANTS
  k1 = k1 k2 = k2 k3 = k3 k4 = k4 d1 = d1 d2 = d2
  nul = nul blank = blank waste = waste wild = wild
  Zeroed = TRUE
  Sizes <- Sizes8
  Keys = {k1, k2, k3, k4}
  Hash <- MCHash
  Datas = {d1, d2}
  NULL = nul
  Fill <- MCFill
  Calls = {"add_unique", "remove", "free"}
  Min = 10
  MallocFails = TRUE
  MaxCount = 3
  TooLong = {k3}
  StartsWithNul = {blank}
  SearchKeys = {}
  SearchFrom = 3
SPECIFICATION SSpec
CHECK_DEADLOCK FALSE
INVARIANTS KeysUnique CountsLive
PROPERTIES ImplementsStore
