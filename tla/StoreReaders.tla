---------------------------- MODULE StoreReaders ----------------------------
(***************************************************************************)
(* The reading commands of several keys, on top of Store: EXISTS, MGET,    *)
(* KEYS and a client's SCAN loop, one call of a reader next to the writers *)
(* and the sweeper.  They visit key after key, or shard after shard, each  *)
(* under that shard's lock alone, so the store changes between the visits. *)
(***************************************************************************)
EXTENDS Store

CONSTANT Matching  \* the keys the pattern of KEYS and SCAN matches

VARIABLES
  reader,  \* "idle", "exists", "mget", "keys", "scan" or "done"
  cursor,  \* SCAN's cursor; for the others the next shard or argument
  list,    \* the arguments of EXISTS and MGET
  result,  \* how often each key was found so far
  always,  \* history: the keys live at every instant of the call
  ever     \* history: the keys live at some instant of the call

rvars == <<reader, cursor, list, result, always, ever>>

LiveKeys == {k \in Keys : Live(m[k], now)}

ReaderInit ==
  /\ reader = "idle" /\ cursor = 0 /\ list = <<>>
  /\ result = [k \in Keys |-> 0]
  /\ always = {} /\ ever = {}

Begin(what, from, ks) ==
  /\ reader = "idle"
  /\ reader' = what /\ cursor' = from /\ list' = ks
  /\ result' = [k \in Keys |-> 0]
  /\ always' = LiveKeys /\ ever' = LiveKeys
  /\ UNCHANGED vars

BeginExists == \E ks \in KeyLists : Begin("exists", 1, ks)
BeginMGet == \E ks \in KeyLists : Begin("mget", 1, ks)
BeginKeys == Begin("keys", 0, <<>>)
BeginScan == Begin("scan", 0, <<>>)

\* Count the keys in found once more.
Return(found) == result' = [k \in Keys |-> result[k] + (IF k \in found THEN 1 ELSE 0)]

\* The live matching keys of shard s, under its read lock.
Visit(s) ==
  /\ owner[s] = None
  /\ Return({k \in LiveKeys \cap Matching : ShardOf[k] = s})

ExistsKey ==
  /\ reader = "exists"
  /\ owner[ShardOf[list[cursor]]] = None
  /\ Return(LiveKeys \cap {list[cursor]})
  /\ cursor' = cursor + 1
  /\ reader' = IF cursor = Len(list) THEN "done" ELSE "exists"
  /\ UNCHANGED <<vars, list, always, ever>>

\* hMGet's Get of the next argument, which purges an expired entry under the lock.
MGetKey ==
  LET k == list[cursor]
      o == GetSection(m[k], now)
  IN  /\ reader = "mget"
      /\ owner[ShardOf[k]] = None
      /\ Return(IF o.reply = Nil THEN {} ELSE {k})
      /\ m' = [m EXCEPT ![k] = o.entry] /\ count' = count + o.delta
      /\ cursor' = cursor + 1
      /\ reader' = IF cursor = Len(list) THEN "done" ELSE "mget"
      /\ UNCHANGED <<heap, now, owner, pc, need, args, pend, snow, popped, reply, list, always, ever>>

KeysShard ==
  /\ reader = "keys"
  /\ Visit(cursor)
  /\ cursor' = cursor + 1
  /\ reader' = IF cursor + 1 = N THEN "done" ELSE "keys"
  /\ UNCHANGED <<vars, list, always, ever>>

\* Mutant: the last shard is taken for the end.
ScanCallShort ==
  LET start == IF cursor <= 0 \/ cursor > N THEN 1 ELSE cursor
      idx == start - 1
  IN  /\ reader = "scan"
      /\ Visit(idx)
      /\ cursor' = IF idx + 2 >= N THEN 0 ELSE idx + 2
      /\ reader' = IF cursor' = 0 THEN "done" ELSE "scan"
      /\ UNCHANGED <<vars, list, always, ever>>

\* One call of Scan with the cursor the last one returned: a 1-based shard index, 0
\* at the start and when the iteration is complete.
ScanCall ==
  LET start == IF cursor <= 0 \/ cursor > N THEN 1 ELSE cursor
      idx == start - 1
  IN  /\ reader = "scan"
      /\ Visit(idx)
      /\ cursor' = IF idx + 1 >= N THEN 0 ELSE idx + 2
      /\ reader' = IF cursor' = 0 THEN "done" ELSE "scan"
      /\ UNCHANGED <<vars, list, always, ever>>

\* A step of the writers, the sweeper or the clock, as the history sees it.
Others ==
  /\ Next
  /\ IF reader = "done" THEN UNCHANGED <<always, ever>>
     ELSE always' = always \cap LiveKeys' /\ ever' = ever \cup LiveKeys'
  /\ UNCHANGED <<reader, cursor, list, result>>

Reading == ExistsKey \/ MGetKey \/ KeysShard \/ ScanCall

ReaderNext == BeginExists \/ BeginMGet \/ BeginKeys \/ BeginScan \/ Reading \/ Others

ReaderSpec == Init /\ ReaderInit /\ [][ReaderNext]_<<vars, rvars>>

-----------------------------------------------------------------------------
Mentions(k) == Cardinality({i \in DOMAIN list : list[i] = k})

\* What a finished KEYS or SCAN returned: every matching key that was there all the
\* time, no key that was never there, none twice ("a key present for the whole scan is
\* returned at least once"); what EXISTS counted and MGET found: once per mention, every key
\* that was there all the time, none that never was.
ReadsBracketed ==
  reader = "done" =>
    \A k \in Keys :
      LET most == IF list # <<>> THEN Mentions(k) ELSE IF k \in Matching THEN 1 ELSE 0
      IN  /\ k \in always => result[k] = most
          /\ result[k] <= (IF k \in ever THEN most ELSE 0)
=============================================================================
