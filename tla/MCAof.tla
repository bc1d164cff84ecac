------------------------------- MODULE MCAof --------------------------------
\* Commands and constant values for model-checking Aof.
EXTENDS Aof, TLC

CONSTANTS k1, k2

One == <<1>>

\* One command of every handler on k1, and the multi-key ones.  With MaxDur = 7 the TTL
\* 12 wraps to -4.
AllCmds ==
  {SetNXCmd(k1, One), SetCmd(k1, One, 4, "always"), SetCmd(k1, One, 0, "XX"),
   [op |-> "getset", key |-> k1, val |-> <<Letter>>],
   IncrCmd(k1, 1), IncrCmd(k1, -1),
   [op |-> "append", key |-> k1, val |-> One],
   ExpireCmd(k1, 5), ExpireCmd(k1, 0), ExpireCmd(k1, 12), PExpireAtCmd(k1, 3), PExpireAtCmd(k1, 0),
   [op |-> "expireat", key |-> k1, sec |-> 1],
   [op |-> "persist", key |-> k1],
   DelCmd(<<k2, k1>>),
   MSetCmd(<<<<k1, One>>, <<k2, One>>>>),
   [op |-> "msetnx", pairs |-> <<<<k2, <<Letter>>>>, <<k1, One>>>>],
   [op |-> "flushdb"]}

\* Commands that write whole entries; absolute deadlines, all of them the same.
OverwritingCmds ==
  {SetCmd(k1, One, 0, "always"), SetNXCmd(k1, <<Letter>>),
   [op |-> "getset", key |-> k1, val |-> <<Letter>>],
   PExpireAtCmd(k1, 3), DelCmd(<<k1>>), MSetCmd(<<<<k1, One>>>>),
   [op |-> "flushdb"]}

\* SET, then a deadline, then a later one.
RefreshCmds == {SetCmd(k1, One, 0, "always"), PExpireAtCmd(k1, 2), PExpireAtCmd(k1, 4)}

\* SET, a deadline, APPEND.
AppendCmds ==
  {SetCmd(k1, One, 0, "always"), PExpireAtCmd(k1, 2),
   [op |-> "append", key |-> k1, val |-> One]}

\* SET ... PX only.
SetPXCmds == {SetCmd(k1, One, 3, "always")}

\* A SET whose TTL wraps to -4.
OverflowCmds == {SetCmd(k1, One, 12, "always")}

Clients == Permutations(Procs)
=============================================================================
