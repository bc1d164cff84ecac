SPECIFICATION Spec
CONSTANTS
  k1 = k1
  k2 = k2
  Keys = {k1}
  N = 1
  ShardOf <- OneKey
  Procs = {p1}
  Sweeper = sweeper
  None = none
  Ops = {"get", "set", "incrby", "append", "expire", "expireat", "pexpireat", "ttl", "persist", "getset", "del", "msetnx"}
  Vals <- AllValues
  TTLs <- MinusOne
  Deadlines = {1, 2}
  Increments = {1}
  KeyLists <- OneList
  Batches <- OnePair
  MaxTime = 4
  MaxDrift = 1
  IntMax = 1
  MaxValLen = 2
  TicksPerSec = 2
  TicksPerMs = 1
INVARIANT DeadlineTracked
PROPERTIES Linearizable SweepsOnlyExpired
