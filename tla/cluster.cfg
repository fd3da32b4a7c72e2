SPECIFICATION FairSpec
CONSTANTS
  PartitionNum = 3
  MemSize = 2
  CacheSize <- Shares
  ghost_th = 1
  Plans <- SmallPlans
INVARIANTS SentWhenConnected Connected HeldOnce 
PROPERTIES FenceIsBarrier 
CHECK_DEADLOCK FALSE
