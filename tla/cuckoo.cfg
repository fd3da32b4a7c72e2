SPECIFICATION Spec
CONSTANTS
  t1 = t1
  t2 = t2
  k1 = k1
  k2 = k2
  k3 = k3
  k4 = k4
  k5 = k5
  v1 = v1
  v2 = v2
  Threads = {t1, t2}
  Keys = {k1, k2, k3, k4, k5}
  Vals = {v1, v2}
  Empty = Empty
  None = None
  NoCall = NoCall
  Hash <- KeyHash
  HashOfTag <- TagHash
  SlotPerBucket = 1
  NumLocks = 8
  MaxPathLen = 3
  MaxCuckooCount = 8
  MinLoad = 100
  MaxHashpower = 3
  InitHashpower = 2
  Stored <- FourStored
  Calls <- AllCalls
  MaxCalls = 3
  RehashAlone = TRUE
SYMMETRY ThreadSymmetry
INVARIANTS KeysFindable FreedSlotIsOurs
PROPERTIES ImplementsDictionary
