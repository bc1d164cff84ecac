------------------------------- MODULE Store --------------------------------
(***************************************************************************)
(* The sharded store of internal/store/store.go: N shards, each a map      *)
(* behind its own lock; a live-key counter updated next to, but not in one *)
(* step with, the maps; the heap of expiry deadlines behind a lock of its  *)
(* own; the sweeper goroutine; and any number of client goroutines calling *)
(* the methods of Store concurrently.                                      *)
(*                                                                         *)
(* A single-key method is two steps: Enter takes the shard lock and works  *)
(* on the map, Leave updates the count, pushes the deadline and unlocks.   *)
(* A method that changes neither count nor heap is one step.  Flush and    *)
(* SetNXMulti take and release their shard locks one step at a time, Del   *)
(* and the sweeper run one critical section per key.  expMu guards single  *)
(* steps of the model and needs no variable.                               *)
(***************************************************************************)
EXTENDS StoreOps, FiniteSets, FiniteSetsExt

CONSTANTS
  Keys,       \* key names
  N,          \* number of shards
  ShardOf,    \* shardIndex: the shard (0 .. N-1) of every key
  Procs,      \* client goroutines
  Sweeper,    \* the goroutine of StartExpiry
  None,       \* holder of a free lock
  Ops,        \* the methods the clients call
  Vals,       \* the values they write, append or swap in
  TTLs,       \* relative TTLs (<= 0 included where wanted)
  Deadlines,  \* absolute deadlines, in seconds or milliseconds
  Increments, \* arguments of IncrBy
  KeyLists,   \* arguments of Del: sequences of keys
  Batches,    \* arguments of SetNXMulti: non-empty sequences of <<key, value>>
  MaxTime,    \* bound on the clock
  MaxDrift    \* how far the clock moves between two readings of one section

Shards == 0 .. N - 1
Actors == Procs \cup {Sweeper}

ASSUME StoreAssumption ==
  /\ N \in Nat \ {0}
  /\ IsFiniteSet(Keys)
  /\ ShardOf \in [Keys -> Shards]
  /\ Sweeper \notin Procs
  /\ None \notin Actors
  /\ TTLs \subseteq Int /\ Deadlines \subseteq Nat /\ Increments \subseteq Int
  /\ KeyLists \subseteq Seq(Keys) \ {<<>>}
  /\ Batches \subseteq Seq(Keys \X Vals) \ {<<>>}
  /\ MaxTime \in Nat \ {0} /\ MaxDrift \in Nat

VARIABLES
  m,       \* the shard maps: the entry of every key, or NoEntry
  count,   \* Store.count
  heap,    \* Store.exp: pending [deadline, key]
  now,     \* the clock, in ticks
  owner,   \* the goroutine holding each shard's lock
  pc,      \* where each goroutine is
  need,    \* shards a multi-shard method still has to lock
  args,    \* what is left of a multi-key call: keys of Del, pairs of SetNXMulti
  pend,    \* what a goroutine owes before it unlocks: [key, delta, push]
  snow,    \* the clock reading of the running sweep
  popped,  \* entries the running sweep has popped and not yet looked at
  reply    \* the latest reply, with its caller

vars == <<m, count, heap, now, owner, pc, need, args, pend, snow, popped, reply>>

Nothing == [key |-> None, delta |-> 0, push |-> 0]
Present == {k \in Keys : m[k] # NoEntry}
Due(t) == {e \in heap : e.deadline <= t}

Init ==
  /\ m = [k \in Keys |-> NoEntry]
  /\ count = 0
  /\ heap = {}
  /\ now = 1
  /\ owner = [s \in Shards |-> None]
  /\ pc = [a \in Actors |-> "idle"]
  /\ need = [p \in Procs |-> {}]
  /\ args = [p \in Procs |-> <<>>]
  /\ pend = [a \in Actors |-> Nothing]
  /\ snow = 0
  /\ popped = {}
  /\ reply = <<None, Nil>>

-----------------------------------------------------------------------------
(***************************************************************************)
(* The critical section on one key.                                        *)
(***************************************************************************)

\* Take the lock of k's shard and apply outcome o of the section's code; go on
\* to next.  The lock stays held as long as something is still owed.
Enter(a, k, o, next) ==
  /\ owner[ShardOf[k]] = None
  /\ m' = [m EXCEPT ![k] = o.entry]
  /\ IF o.delta = 0 /\ o.push = 0
     THEN /\ pc' = [pc EXCEPT ![a] = next]
          /\ UNCHANGED <<owner, pend>>
     ELSE /\ pc' = [pc EXCEPT ![a] = "leave"]
          /\ owner' = [owner EXCEPT ![ShardOf[k]] = a]
          /\ pend' = [pend EXCEPT ![a] = [key |-> k, delta |-> o.delta, push |-> o.push]]
  /\ UNCHANGED <<count, heap>>

\* Where a goroutine goes on to once its section is over.
Resume(a) == IF a = Sweeper THEN IF popped = {} THEN "idle" ELSE "purge"
             ELSE IF args[a] = <<>> THEN "idle" ELSE "del"

\* count.Add, pushExpiry and the deferred Unlock.
Leave(a) ==
  /\ pc[a] = "leave"
  /\ count' = count + pend[a].delta
  /\ heap' = IF pend[a].push = 0 THEN heap
             ELSE heap \cup {[deadline |-> pend[a].push, key |-> pend[a].key]}
  /\ owner' = [owner EXCEPT ![ShardOf[pend[a].key]] = None]
  /\ pend' = [pend EXCEPT ![a] = Nothing]
  /\ pc' = [pc EXCEPT ![a] = Resume(a)]
  /\ UNCHANGED <<m, now, need, args, snow, popped, reply>>

\* A call of a single-key method whose section has outcome o.
Call(p, op, k, o) ==
  /\ op \in Ops
  /\ pc[p] = "idle"
  /\ Enter(p, k, o, "idle")
  /\ reply' = <<p, o.reply>>
  /\ UNCHANGED <<need, args, snow, popped>>

\* The section reads the clock once, or a second time at now'.
ReadsClockOnce == UNCHANGED now
ReadsClockTwice == now' \in now .. now + MaxDrift /\ now' <= MaxTime

Get(p) ==
  \E k \in Keys : ReadsClockOnce /\ Call(p, "get", k, GetSection(m[k], now))

Set(p) ==
  \E k \in Keys, v \in Vals, ttl \in TTLs, mode \in {"always", "NX", "XX"} :
    ReadsClockTwice /\ Call(p, "set", k, SetSection(m[k], now, now', v, ttl, mode))

IncrBy(p) ==
  \E k \in Keys, by \in Increments :
    ReadsClockOnce /\ Call(p, "incrby", k, IncrBySection(m[k], now, by))

AppendTo(p) ==
  \E k \in Keys, v \in Vals :
    ReadsClockOnce /\ Call(p, "append", k, AppendSection(m[k], now, v))

Expire(p) ==
  \E k \in Keys, ttl \in TTLs :
    ReadsClockTwice /\ Call(p, "expire", k, ExpireSection(m[k], now, now', ttl))

ExpireAt(p) ==
  \E k \in Keys, sec \in Deadlines :
    ReadsClockTwice /\ Call(p, "expireat", k, ExpireAtSection(m[k], now, now', sec))

ExpireAtMs(p) ==
  \E k \in Keys, ms \in Deadlines :
    ReadsClockTwice /\ Call(p, "pexpireat", k, ExpireAtMsSection(m[k], now, now', ms))

TTLOf(p, k) == ReadsClockTwice /\ Call(p, "ttl", k, TTLSection(m[k], now, now'))

TTL(p) == \E k \in Keys : TTLOf(p, k)

Persist(p) ==
  \E k \in Keys : ReadsClockOnce /\ Call(p, "persist", k, PersistSection(m[k], now))

GetSet(p) ==
  \E k \in Keys, v \in Vals :
    ReadsClockOnce /\ Call(p, "getset", k, GetSetSection(m[k], now, v))

-----------------------------------------------------------------------------
(***************************************************************************)
(* Del: one critical section per key of the argument list.                 *)
(***************************************************************************)
Del(p) ==
  /\ "del" \in Ops
  /\ pc[p] = "idle"
  /\ args' \in {[args EXCEPT ![p] = ks] : ks \in KeyLists}
  /\ pc' = [pc EXCEPT ![p] = "del"]
  /\ UNCHANGED <<m, count, heap, now, owner, need, pend, snow, popped, reply>>

DelKey(p) ==
  LET k == Head(args[p])
      o == DelSection(m[k], now)
  IN  /\ pc[p] = "del"
      /\ Enter(p, k, o, IF Tail(args[p]) = <<>> THEN "idle" ELSE "del")
      /\ args' = [args EXCEPT ![p] = Tail(@)]
      /\ reply' = <<p, o.reply>>
      /\ UNCHANGED <<now, need, snow, popped>>

-----------------------------------------------------------------------------
(***************************************************************************)
(* The methods that hold several shard locks.                              *)
(***************************************************************************)

\* SetNXMulti up to the locks: the involved shards, each once.
SetNXMulti(p) ==
  /\ "msetnx" \in Ops
  /\ pc[p] = "idle"
  /\ \E batch \in Batches :
       /\ args' = [args EXCEPT ![p] = batch]
       /\ need' = [need EXCEPT ![p] = {ShardOf[batch[i][1]] : i \in DOMAIN batch}]
  /\ pc' = [pc EXCEPT ![p] = "msetnx"]
  /\ UNCHANGED <<m, count, heap, now, owner, pend, snow, popped, reply>>

Flush(p) ==
  /\ "flush" \in Ops
  /\ pc[p] = "idle"
  /\ need' = [need EXCEPT ![p] = Shards]
  /\ pc' = [pc EXCEPT ![p] = "flush"]
  /\ UNCHANGED <<m, count, heap, now, owner, args, pend, snow, popped, reply>>

\* Mutant: the shards are locked in the order of the arguments.
LockAny(p) ==
  /\ pc[p] \in {"msetnx", "flush"}
  /\ \E s \in need[p] :
       /\ owner[s] = None
       /\ owner' = [owner EXCEPT ![s] = p]
       /\ need' = [need EXCEPT ![p] = @ \ {s}]
  /\ UNCHANGED <<m, count, heap, now, pc, args, pend, snow, popped, reply>>

\* Mutant: a busy shard makes the loop give up the locks it has and start over.
LockOrRetry(p) ==
  LET held == {r \in Shards : owner[r] = p}
  IN  /\ pc[p] \in {"msetnx", "flush"}
      /\ \E s \in need[p] :
           /\ \A r \in need[p] : s <= r
           /\ \/ /\ owner[s] = None
                 /\ owner' = [owner EXCEPT ![s] = p]
                 /\ need' = [need EXCEPT ![p] = @ \ {s}]
              \/ /\ owner[s] # None /\ held # {}
                 /\ owner' = [r \in Shards |-> IF r \in held THEN None ELSE owner[r]]
                 /\ need' = [need EXCEPT ![p] = @ \cup held]
      /\ UNCHANGED <<m, count, heap, now, pc, args, pend, snow, popped, reply>>

\* Both lock in ascending shard order ...
LockNext(p) ==
  /\ pc[p] \in {"msetnx", "flush"}
  /\ \E s \in need[p] :
       /\ \A r \in need[p] : s <= r
       /\ owner[s] = None
       /\ owner' = [owner EXCEPT ![s] = p]
       /\ need' = [need EXCEPT ![p] = @ \ {s}]
  /\ UNCHANGED <<m, count, heap, now, pc, args, pend, snow, popped, reply>>

\* ... and unlock in descending order; Flush then drops the heap.
AfterUnlock(p, holders) ==
  IF \E r \in Shards : holders[r] = p THEN pc[p]
  ELSE IF pc[p] = "unlock" THEN "idle" ELSE "dropheap"

UnlockNext(p) ==
  /\ pc[p] \in {"unlock", "unlockall"}
  /\ \E s \in Shards :
       /\ owner[s] = p
       /\ \A r \in Shards : owner[r] = p => r <= s
       /\ owner' = [owner EXCEPT ![s] = None]
  /\ pc' = [pc EXCEPT ![p] = AfterUnlock(p, owner')]
  /\ UNCHANGED <<m, count, heap, now, need, args, pend, snow, popped, reply>>

\* Mutant: one loop that checks and stores, leaving the pairs before a live key.
SetNXPartly(p) ==
  LET b == args[p]
      live == {i \in DOMAIN b : Live(m[b[i][1]], now)}
      checked == {i \in DOMAIN b : \A j \in live : i < j}
      stored == {b[i][1] : i \in checked}
      valueOf(k) == b[Max({i \in DOMAIN b : b[i][1] = k})][2]
  IN  /\ pc[p] = "msetnx"
      /\ need[p] = {}
      /\ m' = [k \in Keys |-> IF k \in stored THEN Entry(valueOf(k), 0) ELSE m[k]]
      /\ count' = count + Cardinality(stored \ Present)
      /\ reply' = <<p, BoolReply(live = {})>>
      /\ args' = [args EXCEPT ![p] = <<>>]
      /\ pc' = [pc EXCEPT ![p] = "unlock"]
      /\ UNCHANGED <<heap, now, owner, need, pend, snow, popped>>

\* The two loops of SetNXMulti.  The first purges the expired keys it meets
\* before a live one, which aborts.  The clock is read per pair; a key that is
\* not live stays so, hence one reading, the last, decides the outcome.
\* The second loop counts every pair, a key given twice included.
SetNXPairs(p) ==
  LET b == args[p]
      live == {i \in DOMAIN b : Live(m[b[i][1]], now)}
      checked == {i \in DOMAIN b : \A j \in live : i < j}
      purged == {k \in Present : \E i \in checked : b[i][1] = k}
      stored == IF live = {} THEN {b[i][1] : i \in DOMAIN b} ELSE {}
      valueOf(k) == b[Max({i \in DOMAIN b : b[i][1] = k})][2]
  IN  /\ pc[p] = "msetnx"
      /\ need[p] = {}
      /\ m' = [k \in Keys |-> IF k \in stored THEN Entry(valueOf(k), 0)
                              ELSE IF k \in purged THEN NoEntry ELSE m[k]]
      /\ count' = count - Cardinality(purged) + (IF live = {} THEN Len(b) ELSE 0)
      /\ reply' = <<p, BoolReply(live = {})>>
      /\ args' = [args EXCEPT ![p] = <<>>]
      /\ pc' = [pc EXCEPT ![p] = "unlock"]
      /\ UNCHANGED <<heap, now, owner, need, pend, snow, popped>>

FlushClear(p) ==
  /\ pc[p] = "flush"
  /\ need[p] = {}
  /\ m' = [k \in Keys |-> NoEntry]
  /\ reply' = <<p, Nil>>
  /\ pc' = [pc EXCEPT ![p] = "reset"]
  /\ UNCHANGED <<count, heap, now, owner, need, args, pend, snow, popped>>

FlushCount(p) ==
  /\ pc[p] = "reset"
  /\ count' = 0
  /\ pc' = [pc EXCEPT ![p] = "unlockall"]
  /\ UNCHANGED <<m, heap, now, owner, need, args, pend, snow, popped, reply>>

FlushHeap(p) ==
  /\ pc[p] = "dropheap"
  /\ heap' = {}
  /\ pc' = [pc EXCEPT ![p] = "idle"]
  /\ UNCHANGED <<m, count, now, owner, need, args, pend, snow, popped, reply>>

-----------------------------------------------------------------------------
(***************************************************************************)
(* The sweeper: read the clock, pop what is due under expMu, then visit    *)
(* the popped entries in deadline order, each under its shard's lock.      *)
(***************************************************************************)
SweepRead ==
  /\ pc[Sweeper] = "idle"
  /\ snow' = now
  /\ pc' = [pc EXCEPT ![Sweeper] = "pop"]
  /\ UNCHANGED <<m, count, heap, now, owner, need, args, pend, popped, reply>>

\* Mutant: everything due is popped, only one earliest entry is kept for purging.
SweepPopFirst ==
  /\ pc[Sweeper] = "pop"
  /\ popped' = IF Due(snow) = {} THEN {}
               ELSE {CHOOSE e \in Due(snow) : \A f \in Due(snow) : e.deadline <= f.deadline}
  /\ heap' = heap \ Due(snow)
  /\ pc' = [pc EXCEPT ![Sweeper] = IF Due(snow) = {} THEN "idle" ELSE "purge"]
  /\ UNCHANGED <<m, count, now, owner, need, args, pend, snow, reply>>

SweepPop ==
  /\ pc[Sweeper] = "pop"
  /\ popped' = Due(snow)
  /\ heap' = heap \ Due(snow)
  /\ pc' = [pc EXCEPT ![Sweeper] = IF Due(snow) = {} THEN "idle" ELSE "purge"]
  /\ UNCHANGED <<m, count, now, owner, need, args, pend, snow, reply>>

\* Mutants: the sweeper counts a removal without looking whether the key is there;
\* it removes the key whatever deadline it has by now.
SweepUnseen(c, deadline) ==
  IF c = NoEntry \/ c.exp = deadline THEN Outcome(NoEntry, Nil, -1, 0)
  ELSE Outcome(c, Nil, 0, 0)
SweepAnyway(c, deadline) ==
  IF c # NoEntry THEN Outcome(NoEntry, Nil, -1, 0) ELSE Outcome(c, Nil, 0, 0)

\* What the sweeper does to the current entry c of a popped key: purge it if
\* it still carries the popped deadline.
SweepSection(c, deadline) ==
  IF c # NoEntry /\ c.exp = deadline THEN Outcome(NoEntry, Nil, -1, 0)
  ELSE Outcome(c, Nil, 0, 0)

SweepPurge ==
  /\ pc[Sweeper] = "purge"
  /\ \E e \in popped :
       /\ \A f \in popped : e.deadline <= f.deadline
       /\ popped' = popped \ {e}
       /\ Enter(Sweeper, e.key, SweepSection(m[e.key], e.deadline),
                IF popped' = {} THEN "idle" ELSE "purge")
  /\ UNCHANGED <<now, need, args, snow, reply>>

Tick ==
  /\ now < MaxTime
  /\ now' = now + 1
  /\ UNCHANGED <<m, count, heap, owner, pc, need, args, pend, snow, popped, reply>>

-----------------------------------------------------------------------------
Start(p) ==
  \/ Get(p) \/ Set(p) \/ IncrBy(p) \/ AppendTo(p) \/ Expire(p) \/ ExpireAt(p)
  \/ ExpireAtMs(p) \/ TTL(p) \/ Persist(p) \/ GetSet(p)
  \/ Del(p) \/ SetNXMulti(p) \/ Flush(p)

Continue(p) ==
  \/ Leave(p) \/ DelKey(p)
  \/ LockNext(p) \/ UnlockNext(p) \/ SetNXPairs(p)
  \/ FlushClear(p) \/ FlushCount(p) \/ FlushHeap(p)

Sweep == SweepRead \/ SweepPop \/ SweepPurge \/ Leave(Sweeper)

Next ==
  \/ \E p \in Procs : Start(p) \/ Continue(p)
  \/ Sweep
  \/ Tick

Spec == Init /\ [][Next]_vars

(***************************************************************************)
(* Fairness: a goroutine inside a method keeps running, and a lock that is *)
(* released again and again is eventually granted (Go's mutexes switch to  *)
(* hand-off when a waiter starves), hence strong fairness; the ticker      *)
(* starts sweep after sweep.  No client has to call anything and time may  *)
(* stop.                                                                   *)
(***************************************************************************)
FairSpec == Spec /\ (\A p \in Procs : SF_vars(Continue(p))) /\ SF_vars(Sweep)

-----------------------------------------------------------------------------
(***************************************************************************)
(* Properties.                                                             *)
(***************************************************************************)
HeapEntry == [deadline : Nat \ {0}, key : Keys]
PCs == {"idle", "leave", "del", "msetnx", "flush", "reset", "unlock", "unlockall",
        "dropheap", "pop", "purge"}
ArgLists == Seq(Keys) \cup Seq(Keys \X Vals)
Debts == [key : Keys \cup {None}, delta : {-1, 0, 1}, push : Nat]

\* The variables have their types: an entry's expireAt is 0 or a deadline, a
\* goroutine owes at most one count update and one heap push.
TypeOK ==
  /\ DOMAIN m = Keys
  /\ \A k \in Keys : WellFormed(m[k])
  /\ count \in Int
  /\ heap \subseteq HeapEntry /\ popped \subseteq HeapEntry
  /\ now \in Nat \ {0} /\ snow \in Nat
  /\ owner \in [Shards -> Actors \cup {None}]
  /\ pc \in [Actors -> PCs]
  /\ need \in [Procs -> SUBSET Shards]
  /\ args \in [Procs -> ArgLists]
  /\ pend \in [Actors -> Debts]

\* Store.count (what Len reports) is the number of entries in the maps whenever
\* no goroutine is between a map update and its count update: no interleaving of
\* single-key methods, SetNXMulti, Flush and the sweeper loses or repeats one.
CountExact ==
  (\A a \in Actors : pc[a] \notin {"leave", "reset"}) => count = Cardinality(Present)

\* a waits for the lock of a shard some goroutine holds.
Blocked(a) ==
  \/ /\ a \in Procs /\ pc[a] \in {"msetnx", "flush"}
     /\ \E s \in need[a] : (\A r \in need[a] : s <= r) /\ owner[s] # None
  \/ a \in Procs /\ pc[a] = "del" /\ owner[ShardOf[Head(args[a])]] # None
  \/ a = Sweeper /\ pc[a] = "purge" /\ \E e \in popped : owner[ShardOf[e.key]] # None

\* The lock order of docs/CONCURRENCY.md works: while any shard is locked, some
\* goroutine that holds a lock is not itself waiting for one, so the methods of
\* Store can never all wait for each other.
SomeHolderRuns ==
  (\E s \in Shards : owner[s] # None) =>
    \E s \in Shards : owner[s] # None /\ ~Blocked(owner[s])

\* Every deadline in the maps is known to the sweeper: it is in the heap, in the
\* hands of the running sweep, or about to be pushed by the lock holder.
DeadlineTracked ==
  \A k \in Keys : m[k] # NoEntry /\ m[k].exp # 0 =>
    \/ [deadline |-> m[k].exp, key |-> k] \in heap \cup popped
    \/ \E a \in Actors : pend[a].key = k /\ pend[a].push = m[k].exp

\* The sweeper removes nothing but expired entries, although the deadline it
\* acts on was popped before the key was possibly overwritten, deleted and
\* written again, or given a new TTL.
SweepsOnlyExpired ==
  [][\A k \in Keys : m[k] # NoEntry /\ m'[k] = NoEntry /\ popped' # popped
       => Expired(m[k], now)]_vars

\* Every method a goroutine enters returns, whatever the others do.
CallsReturn == \A p \in Procs : pc[p] # "idle" ~> pc[p] = "idle"

\* An expired entry does not stay: it is purged, or its key is written again.
ExpiredPurged ==
  \A k \in Keys :
    m[k] # NoEntry /\ Expired(m[k], now) ~> ~(m[k] # NoEntry /\ Expired(m[k], now))

\* TTL answers a negative duration only for a key without a deadline.
NegativeTTLMeansNone ==
  [][\A p \in Procs, k \in Keys :
       TTLOf(p, k) /\ Live(m[k], now) /\ m[k].exp # 0 => reply'[2][2] >= 0]_vars

-----------------------------------------------------------------------------
(***************************************************************************)
(* The invariant behind CountExact, SomeHolderRuns and DeadlineTracked,    *)
(* inductive together with TypeOK (StoreProofs.tla, StoreClientProofs).    *)
(***************************************************************************)

\* A goroutine that owes a count update or a push holds exactly the lock of its
\* key; the others owe nothing.
DebtCovered(a) ==
  IF pc[a] = "leave"
  THEN /\ pend[a].key \in Keys
       /\ \A s \in Shards : owner[s] = a <=> s = ShardOf[pend[a].key]
  ELSE pend[a] = Nothing

OwesUnderLock == \A a \in Actors : DebtCovered(a)

\* Locks are held only inside critical sections.
HoldersInside ==
  /\ \A s \in Shards : owner[s] # None =>
       pc[owner[s]] \in {"leave", "msetnx", "flush", "reset", "unlock", "unlockall"}
  /\ pc[Sweeper] \in {"idle", "pop", "purge", "leave"}
  /\ \A p \in Procs : pc[p] \notin {"pop", "purge"}

\* Flush and SetNXMulti, while locking, hold only shards below those they still
\* need, and every shard they work on is held or still needed.
BatchShards(p) == {ShardOf[args[p][i][1]] : i \in DOMAIN args[p]}

LocksInOrder(p) ==
  /\ pc[p] \in {"msetnx", "flush"} =>
       \A s \in Shards, r \in need[p] : owner[s] = p => s < r
  /\ pc[p] = "flush" => \A s \in Shards : s \in need[p] \/ owner[s] = p
  /\ pc[p] = "reset" => \A s \in Shards : owner[s] = p
  /\ pc[p] = "msetnx" =>
       \A s \in Shards : s \in BatchShards(p) => s \in need[p] \/ owner[s] = p

LockOrder == \A p \in Procs : LocksInOrder(p)

LockInv == OwesUnderLock /\ HoldersInside /\ LockOrder

\* What is left of a multi-key call has the shape its steps expect.
ArgsFit(p) ==
  /\ pc[p] = "del" => args[p] \in Seq(Keys) \ {<<>>}
  /\ pc[p] = "leave" => args[p] \in Seq(Keys)
  /\ pc[p] = "msetnx" => args[p] \in Batches
  /\ pc[p] \notin {"del", "leave", "msetnx"} => args[p] = <<>>

ArgsInv == \A p \in Procs : ArgsFit(p)

\* The keys the count stands for: those in the maps, less the ones inserted but
\* not yet counted, plus the ones removed but still counted.
Owing(k, delta) == \E a \in Actors : pend[a].key = k /\ pend[a].delta = delta
Counted == {k \in Keys : (k \in Present /\ ~Owing(k, 1)) \/ Owing(k, -1)}

CountInv ==
  /\ \A a \in Actors : pc[a] = "leave" =>
       /\ pend[a].delta = 1 => m[pend[a].key] # NoEntry
       /\ pend[a].delta = -1 => m[pend[a].key] = NoEntry
  /\ \A p \in Procs : pc[p] = "reset" => Present = {}
  /\ (\A p \in Procs : pc[p] # "reset") => count = Cardinality(Counted)

\* The sweep runs on a clock reading that is not in the future.
SweepInv == snow <= now /\ \A e \in popped : e.deadline <= snow
=============================================================================
