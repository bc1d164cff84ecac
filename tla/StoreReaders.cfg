SPECIFICATION ReaderSpec
CONSTANTS
  k1 = k1
  k2 = k2
  Keys = {k1, k2}
  Matching = {k1, k2}
  N = 2
  ShardOf <- TwoShards
  Procs = {p1}
  Sweeper = sweeper
  None = none
  Ops = {"set", "del", "flush"}
  Vals <- OneValue
  TTLs = {0, 1}
  Deadlines = {}
  Increments = {}
  KeyLists <- Lists
  Batches <- OnePair
  MaxTime = 2
  MaxDrift = 0
  IntMax = 1
  MaxValLen = 1
  TicksPerSec = 1
  TicksPerMs = 1
INVARIANT ReadsBracketed
