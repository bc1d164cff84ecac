SPECIFICATION FairSpec
CONSTANTS
  k1 = k1
  k2 = k2
  Keys = {k1, k2}
  N = 2
  ShardOf <- TwoShards
  Procs = {p1, p2}
  Sweeper = sweeper
  None = none
  Ops = {"set", "del", "msetnx"}
  Vals <- OneValue
  TTLs = {1}
  Deadlines = {}
  Increments = {}
  KeyLists <- BothKeys
  Batches <- BothPairs
  MaxTime = 2
  MaxDrift = 0
  IntMax = 3
  MaxValLen = 2
  TicksPerSec = 1
  TicksPerMs = 1
PROPERTIES CallsReturn ExpiredPurged
