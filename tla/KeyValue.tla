------------------------------ MODULE KeyValue ------------------------------
(***************************************************************************)
(* What internal/store promises its callers: one dictionary of live keys.  *)
(* A call takes effect in one step, at an instant between its start and    *)
(* its return; a key is gone the instant its deadline is reached; MSETNX   *)
(* stores all its pairs or none; there are no shards, no locks, no purges, *)
(* no counter and no sweeper.  Store.tla is shown to implement this.       *)
(*                                                                         *)
(* Time may pass during a call (now' > now): a call looks its key up at    *)
(* now and computes a deadline or a remaining time from now'.              *)
(***************************************************************************)
EXTENDS StoreOps, FiniteSetsExt

CONSTANTS Keys, Procs, None, Vals, TTLs, Deadlines, Increments, Batches, MaxTime

VARIABLES
  kv,     \* the live keys: an entry, or NoEntry
  now,    \* the clock
  reply   \* the latest reply, with its caller

kvars == <<kv, now, reply>>

\* The entries of f that are still live at time t.
AsOf(f, t) == [k \in Keys |-> IF Live(f[k], t) THEN f[k] ELSE NoEntry]

Has(k) == kv[k] # NoEntry

Init ==
  /\ kv = [k \in Keys |-> NoEntry]
  /\ now = 1
  /\ reply = <<None, Nil>>

TimePasses == now' \in now .. MaxTime

\* p's call leaves e as the entry of k and replies r.
Do(p, k, e, r) ==
  /\ TimePasses
  /\ kv' = AsOf([kv EXCEPT ![k] = e], now')
  /\ reply' = <<p, r>>

-----------------------------------------------------------------------------
Get(p) == \E k \in Keys : Do(p, k, kv[k], IF Has(k) THEN BulkReply(kv[k].val) ELSE Nil)

SetAs(p, k, v, ttl) ==
  Do(p, k, Entry(v, IF ttl > 0 THEN now' + ttl ELSE 0), BoolReply(TRUE))

Set(p) == \E k \in Keys, v \in Vals, ttl \in TTLs : SetAs(p, k, v, ttl)

SetNX(p) ==
  \E k \in Keys, v \in Vals, ttl \in TTLs :
    IF Has(k) THEN Do(p, k, kv[k], BoolReply(FALSE)) ELSE SetAs(p, k, v, ttl)

SetXX(p) ==
  \E k \in Keys, v \in Vals, ttl \in TTLs :
    IF Has(k) THEN SetAs(p, k, v, ttl) ELSE Do(p, k, NoEntry, BoolReply(FALSE))

\* DEL removes its keys one by one, each atomically.
Del(p) ==
  \E k \in Keys : Do(p, k, NoEntry, IntReply(IF Has(k) THEN 1 ELSE 0))

IncrBy(p) ==
  \E k \in Keys, by \in Increments :
    LET sum == Wrap((IF Has(k) THEN IntOf(kv[k].val) ELSE 0) + by)
    IN  IF Has(k) /\ ~IsInteger(kv[k].val)
        THEN Do(p, k, kv[k], ErrReply("not an integer"))
        ELSE Do(p, k, Entry(FormatInt(sum), 0), IntReply(sum))

AppendTo(p) ==
  \E k \in Keys, v \in Vals :
    LET whole == (IF Has(k) THEN kv[k].val ELSE <<>>) \o v
    IN  IF Len(whole) > MaxValLen THEN Do(p, k, kv[k], ErrReply("value too large"))
        ELSE Do(p, k, Entry(whole, IF Has(k) THEN kv[k].exp ELSE 0), IntReply(Len(whole)))

\* k gets deadline dl, at once gone if that has passed.
SetDeadline(p, k, dl) ==
  Do(p, k, IF dl > now' THEN Entry(kv[k].val, dl) ELSE NoEntry, BoolReply(TRUE))

Expire(p) ==
  \E k \in Keys, ttl \in TTLs :
    IF Has(k) THEN SetDeadline(p, k, now' + ttl) ELSE Do(p, k, NoEntry, BoolReply(FALSE))

ExpireAt(p) ==
  \E k \in Keys, sec \in Deadlines :
    IF Has(k) THEN SetDeadline(p, k, sec * TicksPerSec)
    ELSE Do(p, k, NoEntry, BoolReply(FALSE))

ExpireAtMs(p) ==
  \E k \in Keys, ms \in Deadlines :
    IF Has(k) THEN SetDeadline(p, k, ms * TicksPerMs)
    ELSE Do(p, k, NoEntry, BoolReply(FALSE))

TTL(p) ==
  \E k \in Keys :
    Do(p, k, kv[k], IF ~Has(k) THEN Nil
                    ELSE IntReply(IF kv[k].exp = 0 THEN -1 ELSE kv[k].exp - now'))

Persist(p) ==
  \E k \in Keys :
    IF Has(k) /\ kv[k].exp # 0 THEN Do(p, k, Entry(kv[k].val, 0), BoolReply(TRUE))
    ELSE Do(p, k, kv[k], BoolReply(FALSE))

GetSet(p) ==
  \E k \in Keys, v \in Vals :
    Do(p, k, Entry(v, 0), IF Has(k) THEN BulkReply(kv[k].val) ELSE Nil)

\* No key of batch b is there; the dictionary with the pairs of b stored, of which a
\* later one of a key wins.
Fresh(b) == \A i \in DOMAIN b : ~Has(b[i][1])
Stored(b) ==
  [k \in Keys |-> IF \E i \in DOMAIN b : b[i][1] = k
                  THEN Entry(b[Max({i \in DOMAIN b : b[i][1] = k})][2], 0) ELSE kv[k]]

\* MSETNX: every pair is stored, or none.
MSetNX(p) ==
  \E b \in Batches :
    /\ TimePasses
    /\ kv' = AsOf(IF Fresh(b) THEN Stored(b) ELSE kv, now')
    /\ reply' = <<p, BoolReply(Fresh(b))>>

Flush(p) ==
  /\ UNCHANGED now
  /\ kv' = [k \in Keys |-> NoEntry]
  /\ reply' = <<p, Nil>>

Tick ==
  /\ TimePasses
  /\ kv' = AsOf(kv, now')
  /\ UNCHANGED reply

Next ==
  \/ \E p \in Procs :
       \/ Get(p) \/ Set(p) \/ SetNX(p) \/ SetXX(p) \/ Del(p) \/ IncrBy(p) \/ AppendTo(p)
       \/ Expire(p) \/ ExpireAt(p) \/ ExpireAtMs(p) \/ TTL(p) \/ Persist(p) \/ GetSet(p)
       \/ MSetNX(p) \/ Flush(p)
  \/ Tick

Spec == Init /\ [][Next]_kvars
=============================================================================
