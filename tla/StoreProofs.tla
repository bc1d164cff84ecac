---------------------------- MODULE StoreProofs -----------------------------
(***************************************************************************)
(* Proofs about Store.tla for every number of shards, keys, goroutines and *)
(* every choice of arguments: the types and the lock invariant; the shard  *)
(* locks cannot deadlock; the sweeper removes nothing but expired entries; *)
(* and, as long as nobody calls Flush, no deadline is ever lost between    *)
(* the maps, the heap and the running sweep.  StoreClientProofs.tla (what  *)
(* is counted and read, and the refinement) builds on BaseInvariant and    *)
(* SweepInvariant.                                                         *)
(*                                                                         *)
(* First the steps: each critical section leaves a well-formed entry and   *)
(* owes exactly the count update and the push that go with it; the methods *)
(* that hold several shard locks keep the types and the lock discipline.   *)
(***************************************************************************)
EXTENDS Store, FiniteSetTheorems, WellFoundedInduction, TLAPS

-----------------------------------------------------------------------------
(***************************************************************************)
(* The critical sections.                                                  *)
(***************************************************************************)
Weight(e) == IF e = NoEntry THEN 0 ELSE 1

\* What Enter needs of the outcome o of a section that found entry e: the count
\* update matches what happened to the map, and a new deadline is pushed.
Sound(e, o) ==
  /\ WellFormed(o.entry)
  /\ o.delta = Weight(o.entry) - Weight(e)
  /\ o.push \in Nat
  /\ o.push # 0 => o.entry # NoEntry /\ o.push = o.entry.exp
  /\ o.entry # NoEntry /\ o.entry.exp # 0 =>
       o.push = o.entry.exp \/ (e # NoEntry /\ e.exp = o.entry.exp)

\* An entry with an expireAt in Nat is never the absent one.
LEMMA EntryPresent ==
  ASSUME NEW v, NEW x \in Nat
  PROVE  /\ Entry(v, x) # NoEntry
         /\ Entry(v, x).val = v /\ Entry(v, x).exp = x
         /\ WellFormed(Entry(v, x))
BY DEF Entry, NoEntry, WellFormed

\* The sections of store.go keep the count in step with the map and push every
\* deadline they write, whatever entry they find and whatever the clock says.
LEMMA SectionsSound ==
  ASSUME NEW e, WellFormed(e), NEW t \in Nat, NEW u \in Nat \ {0}
  PROVE  /\ Sound(e, GetSection(e, t))
         /\ \A v, mode : \A ttl \in Int : Sound(e, SetSection(e, t, u, v, ttl, mode))
         /\ Sound(e, DelSection(e, t))
         /\ \A by \in Int : Sound(e, IncrBySection(e, t, by))
         /\ \A v : Sound(e, AppendSection(e, t, v))
         /\ \A ttl \in Int : Sound(e, ExpireSection(e, t, u, ttl))
         /\ \A dl \in Nat : Sound(e, DeadlineSection(e, t, u, dl))
         /\ Sound(e, TTLSection(e, t, u))
         /\ Sound(e, PersistSection(e, t))
         /\ \A v : Sound(e, GetSetSection(e, t, v))
         /\ \A dl \in Nat : Sound(e, SweepSection(e, dl))
<1> DEFINE added == PurgeDelta(e, t) + (IF Live(e, t) THEN 0 ELSE 1)
<1> USE DEF Sound, Outcome, Weight, WellFormed, Live, Expired, PurgeDelta, Missed
<1>1. \A r : Sound(e, Outcome(e, r, 0, 0))
  OBVIOUS
<1>2. ASSUME ~Live(e, t) PROVE \A r : Sound(e, Missed(e, t, r))
  BY <1>2
<1>3. \A r : Sound(e, Outcome(NoEntry, r, IF e # NoEntry THEN -1 ELSE 0, 0))
  OBVIOUS
<1>4. Live(e, t) => e # NoEntry
  OBVIOUS
<1>5. ASSUME NEW x \in Nat PROVE \A v, r : Sound(e, Outcome(Entry(v, x), r, added, x))
  BY EntryPresent
<1>6. ASSUME NEW x \in Nat, Live(e, t) PROVE \A v, r : Sound(e, Outcome(Entry(v, x), r, 0, x))
  BY <1>6, EntryPresent
<1>7. \A v, r : Sound(e, Outcome(Entry(v, IF Live(e, t) THEN e.exp ELSE 0), r, added, 0))
  BY EntryPresent
<1>8. \A r : Sound(e, Outcome(IF Live(e, t) THEN e ELSE NoEntry, r, PurgeDelta(e, t), 0))
  OBVIOUS
<1> HIDE DEF Sound, Outcome, Weight, WellFormed, Live, Expired, PurgeDelta, Missed
<1>9. ASSUME Live(e, t) PROVE \A r : Sound(e, Outcome(NoEntry, r, -1, 0))
  BY <1>3, <1>4, <1>9, Zenon
<1>10. Sound(e, GetSection(e, t)) /\ Sound(e, TTLSection(e, t, u)) /\ Sound(e, DelSection(e, t))
  BY <1>1, <1>2, <1>3, Zenon DEF GetSection, TTLSection, DelSection
<1>11. ASSUME NEW v, NEW mode, NEW ttl \in Int
       PROVE  Sound(e, SetSection(e, t, u, v, ttl, mode))
  <2>1. (IF ttl > 0 THEN u + ttl ELSE 0) \in Nat
    OBVIOUS
  <2> QED
    BY <1>1, <1>2, <1>5, <2>1, Zenon DEF SetSection
<1>12. ASSUME NEW by \in Int PROVE Sound(e, IncrBySection(e, t, by))
  BY <1>1, <1>5, 0 \in Nat, Zenon DEF IncrBySection
<1>13. ASSUME NEW v PROVE Sound(e, AppendSection(e, t, v))
  BY <1>7, <1>8, Zenon DEF AppendSection
<1>14. ASSUME NEW ttl \in Int PROVE Sound(e, ExpireSection(e, t, u, ttl))
  <2>1. ttl <= 0 \/ u + ttl \in Nat
    OBVIOUS
  <2> QED
    BY <1>2, <1>6, <1>9, <2>1, Zenon DEF ExpireSection
<1>15. ASSUME NEW dl \in Nat PROVE Sound(e, DeadlineSection(e, t, u, dl))
  BY <1>2, <1>6, <1>9, Zenon DEF DeadlineSection
<1>16. Sound(e, PersistSection(e, t))
  BY <1>1, <1>2, <1>6, 0 \in Nat, Zenon DEF PersistSection
<1>17. ASSUME NEW v PROVE Sound(e, GetSetSection(e, t, v))
  <2>1. ~Live(e, t) => added = PurgeDelta(e, t) + 1
    BY Zenon
  <2> QED
    BY <1>5, <1>6, <2>1, 0 \in Nat, Zenon DEF GetSetSection
<1>18. ASSUME NEW dl \in Nat PROVE Sound(e, SweepSection(e, dl))
  BY <1>1, <1>3, Zenon DEF SweepSection
<1> QED
  BY <1>10, <1>11, <1>12, <1>13, <1>14, <1>15, <1>16, <1>17, <1>18, Zenon

-----------------------------------------------------------------------------
(***************************************************************************)
(* The actions, as critical sections.                                      *)
(***************************************************************************)

\* Types, lock discipline and arguments: inductive, and what all proofs start from.
BaseInv == TypeOK /\ LockInv /\ ArgsInv

\* The program points at which a goroutine may take a shard lock for one key,
\* holding none, and those it goes on to.
Ready(a) == IF a = Sweeper THEN {"idle", "purge"} ELSE {"idle", "del"}

\* What most steps need of the constants.
LEMMA Setting ==
  /\ ShardOf \in [Keys -> Shards]
  /\ Sweeper \notin Procs /\ None \notin Actors
BY StoreAssumption, Zenon

\* A call with nothing left to do.
LEMMA EmptyArgs == <<>> \in Seq(Keys) /\ <<>> \in ArgLists
<1>1. <<>> \in Seq(Keys)
  OBVIOUS
<1> QED
  BY <1>1, Zenon DEF ArgLists

\* The pairs of a SetNXMulti call name keys, hence shards.
LEMMA BatchKeys ==
  ASSUME NEW b \in Batches, NEW i \in DOMAIN b
  PROVE  b[i][1] \in Keys /\ ShardOf[b[i][1]] \in Shards
<1>1. b \in Seq(Keys \X Vals)
  BY StoreAssumption, Zenon
<1>2. b[i] \in Keys \X Vals
  BY <1>1
<1> QED
  BY <1>2, StoreAssumption, Zenon

SingleKey(p) ==
  \/ Get(p) \/ Set(p) \/ IncrBy(p) \/ AppendTo(p) \/ Expire(p) \/ ExpireAt(p)
  \/ ExpireAtMs(p) \/ TTL(p) \/ Persist(p) \/ GetSet(p)

\* Every single-key method is a call whose section is sound.
LEMMA SingleKeyCall ==
  ASSUME TypeOK, NEW p \in Procs, SingleKey(p)
  PROVE  /\ \E k \in Keys : \E op, o : Sound(m[k], o) /\ Call(p, op, k, o)
         /\ now' \in Nat \ {0} /\ now <= now'
<1> USE StoreAssumption, OpsAssumption
<1>1. now \in Nat \ {0} /\ \A k \in Keys : WellFormed(m[k])
  BY Zenon DEF TypeOK
<1>2. ASSUME ReadsClockTwice PROVE now' \in Nat \ {0} /\ now <= now'
  BY <1>1, <1>2 DEF ReadsClockTwice
<1>3. ASSUME ReadsClockOnce PROVE now' \in Nat \ {0} /\ now <= now'
  BY <1>1, <1>3 DEF ReadsClockOnce
<1>4. CASE Get(p)
  BY <1>1, <1>3, <1>4, SectionsSound, Zenon DEF Get
<1>5. CASE Set(p)
  <2>1. PICK k \in Keys, v \in Vals, ttl \in TTLs, mode \in {"always", "NX", "XX"} :
          ReadsClockTwice /\ Call(p, "set", k, SetSection(m[k], now, now', v, ttl, mode))
    BY <1>5, Zenon DEF Set
  <2> QED
    BY <1>1, <1>2, <2>1, SectionsSound, Zenon
<1>6. CASE IncrBy(p)
  BY <1>1, <1>3, <1>6, SectionsSound, Zenon DEF IncrBy
<1>7. CASE AppendTo(p)
  BY <1>1, <1>3, <1>7, SectionsSound, Zenon DEF AppendTo
<1>8. CASE Expire(p)
  BY <1>1, <1>2, <1>8, SectionsSound, Zenon DEF Expire
<1>9. CASE ExpireAt(p)
  <2>1. PICK k \in Keys, sec \in Deadlines :
          ReadsClockTwice /\ Call(p, "expireat", k, ExpireAtSection(m[k], now, now', sec))
    BY <1>9, Zenon DEF ExpireAt
  <2>2. sec * TicksPerSec \in Nat
    OBVIOUS
  <2> QED
    BY <1>1, <1>2, <2>1, <2>2, SectionsSound, Zenon DEF ExpireAtSection
<1>10. CASE ExpireAtMs(p)
  <2>1. PICK k \in Keys, ms \in Deadlines :
          ReadsClockTwice /\ Call(p, "pexpireat", k, ExpireAtMsSection(m[k], now, now', ms))
    BY <1>10, Zenon DEF ExpireAtMs
  <2>2. ms * TicksPerMs \in Nat
    OBVIOUS
  <2> QED
    BY <1>1, <1>2, <2>1, <2>2, SectionsSound, Zenon DEF ExpireAtMsSection
<1>11. CASE TTL(p)
  BY <1>1, <1>2, <1>11, SectionsSound, Zenon DEF TTL, TTLOf
<1>12. CASE Persist(p)
  BY <1>1, <1>3, <1>12, SectionsSound, Zenon DEF Persist
<1>13. CASE GetSet(p)
  BY <1>1, <1>3, <1>13, SectionsSound, Zenon DEF GetSet
<1> QED
  BY <1>4, <1>5, <1>6, <1>7, <1>8, <1>9, <1>10, <1>11, <1>12, <1>13, Zenon DEF SingleKey

\* The next-state relation, with the single-key methods taken together.
LEMMA NextCases ==
  ASSUME Next
  PROVE  \/ \E p \in Procs :
              \/ SingleKey(p) \/ Del(p) \/ DelKey(p) \/ SetNXMulti(p) \/ Flush(p)
              \/ LockNext(p) \/ UnlockNext(p) \/ SetNXPairs(p)
              \/ FlushClear(p) \/ FlushCount(p) \/ FlushHeap(p)
         \/ \E a \in Actors : Leave(a)
         \/ SweepRead \/ SweepPop \/ SweepPurge \/ Tick
BY Zenon DEF Next, Start, Continue, Sweep, SingleKey, Actors

\* A step of Del is a sound section on the first key left.
LEMMA DelKeyEnters ==
  ASSUME BaseInv, NEW p \in Procs, DelKey(p)
  PROVE  \E k \in Keys, next \in {"idle", "del"} : \E o :
           /\ Sound(m[k], o) /\ Enter(p, k, o, next)
           /\ args' = [args EXCEPT ![p] = Tail(@)] /\ Tail(args[p]) \in Seq(Keys)
           /\ next = IF Tail(args[p]) = <<>> THEN "idle" ELSE "del"
<1> DEFINE k == Head(args[p])
           o == DelSection(m[k], now)
           next == IF Tail(args[p]) = <<>> THEN "idle" ELSE "del"
<1>1. args[p] \in Seq(Keys) \ {<<>>}
  BY Zenon DEF BaseInv, ArgsInv, ArgsFit, DelKey
<1>2. k \in Keys /\ Tail(args[p]) \in Seq(Keys)
  BY <1>1
<1>3. Sound(m[k], o)
  BY <1>2, SectionsSound, Zenon DEF BaseInv, TypeOK
<1>4. Enter(p, k, o, next) /\ args' = [args EXCEPT ![p] = Tail(@)]
  BY Zenon DEF DelKey
<1>5. next \in {"idle", "del"} /\ next = IF Tail(args[p]) = <<>> THEN "idle" ELSE "del"
  OBVIOUS
<1> HIDE DEF k, o, next
<1> QED
  BY <1>2, <1>3, <1>4, <1>5, Zenon

\* A step of the sweeper purges with the deadline of one popped heap entry.
LEMMA SweepPurgeEnters ==
  ASSUME BaseInv, SweepPurge
  PROVE  \E e \in popped, next \in {"idle", "purge"} :
           /\ e.key \in Keys /\ e.deadline \in Nat \ {0}
           /\ popped' = popped \ {e}
           /\ Sound(m[e.key], SweepSection(m[e.key], e.deadline))
           /\ Enter(Sweeper, e.key, SweepSection(m[e.key], e.deadline), next)
<1>1. PICK e \in popped :
        /\ popped' = popped \ {e}
        /\ Enter(Sweeper, e.key, SweepSection(m[e.key], e.deadline),
                 IF popped' = {} THEN "idle" ELSE "purge")
  BY Zenon DEF SweepPurge
<1>2. e.key \in Keys /\ e.deadline \in Nat \ {0}
  BY Zenon DEF BaseInv, TypeOK, HeapEntry
<1>3. Sound(m[e.key], SweepSection(m[e.key], e.deadline))
  BY <1>2, SectionsSound, Zenon DEF BaseInv, TypeOK
<1> QED
  BY <1>1, <1>2, <1>3, Zenon

-----------------------------------------------------------------------------
(***************************************************************************)
(* The methods that hold several shard locks, Flush and SetNXMulti, and    *)
(* the first step of Del keep the types and the lock discipline.           *)
(***************************************************************************)

\* What LocksInOrder says of q depends on q's program point, needs, arguments and
\* locks only.
LEMMA OrderKept ==
  ASSUME NEW q \in Procs, LocksInOrder(q),
         pc'[q] = pc[q], need'[q] = need[q], args'[q] = args[q],
         \A s \in Shards : owner'[s] = q <=> owner[s] = q
  PROVE  LocksInOrder(q)'
<1>1. BatchShards(q)' = BatchShards(q)
  BY Zenon DEF BatchShards
<1> QED
  BY <1>1, Zenon DEF LocksInOrder

\* What ArgsFit says of q depends on its program point and arguments only.
LEMMA ArgsKept ==
  ASSUME NEW q \in Procs, ArgsFit(q), pc'[q] = pc[q], args'[q] = args[q]
  PROVE  ArgsFit(q)'
BY Zenon DEF ArgsFit

\* What DebtCovered says of a depends on its debt, its locks and whether it is
\* inside a section only.
LEMMA DebtKept ==
  ASSUME NEW a \in Actors, DebtCovered(a),
         pc'[a] = pc[a] \/ (pc[a] # "leave" /\ pc'[a] # "leave"), pend'[a] = pend[a],
         \A s \in Shards : owner'[s] = a <=> owner[s] = a
  PROVE  DebtCovered(a)'
BY Zenon DEF DebtCovered, Nothing

\* A step that leaves locks and program points alone keeps the discipline.
LEMMA Untouched ==
  ASSUME LockInv, ArgsInv,
         owner' = owner, pc' = pc, need' = need, args' = args, pend' = pend
  PROVE  LockInv' /\ ArgsInv'
<1>1. OwesUnderLock'
  BY DebtKept, Zenon DEF LockInv, OwesUnderLock
<1>2. HoldersInside'
  BY Zenon DEF LockInv, HoldersInside
<1>3. LockOrder'
  BY OrderKept, Zenon DEF LockInv, LockOrder
<1>4. ArgsInv'
  BY ArgsKept, Zenon DEF ArgsInv
<1> QED
  BY <1>1, <1>2, <1>3, <1>4, Zenon DEF LockInv

\* A step of p outside its single-key sections, on its own program counter, needs,
\* arguments and locks, does not disturb what the invariant says of the others.
LEMMA OthersKept ==
  ASSUME BaseInv, NEW p \in Procs, pend' = pend,
         pc[p] # "leave", pc'[p] # "leave",
         \A q \in Actors \ {p} : pc'[q] = pc[q],
         \A q \in Procs \ {p} : need'[q] = need[q] /\ args'[q] = args[q],
         \A s \in Shards, q \in Actors \ {p} : owner'[s] = q <=> owner[s] = q
  PROVE  /\ OwesUnderLock'
         /\ \A q \in Procs \ {p} : LocksInOrder(q)'
         /\ \A q \in Procs \ {p} : ArgsFit(q)'
<1>1. OwesUnderLock'
  <2> SUFFICES ASSUME NEW a \in Actors PROVE DebtCovered(a)'
    BY Zenon DEF OwesUnderLock
  <2>1. DebtCovered(a)
    BY Zenon DEF BaseInv, LockInv, OwesUnderLock
  <2>2. CASE a = p
    BY <2>1, <2>2, Zenon DEF DebtCovered, Nothing
  <2>3. CASE a # p
    BY <2>1, <2>3, DebtKept, Zenon
  <2> QED
    BY <2>2, <2>3, Zenon
<1>2. ASSUME NEW q \in Procs \ {p} PROVE LocksInOrder(q)' /\ ArgsFit(q)'
  <2>1. pc'[q] = pc[q] /\ need'[q] = need[q] /\ args'[q] = args[q]
    BY Zenon DEF Actors
  <2>2. \A s \in Shards : owner'[s] = q <=> owner[s] = q
    BY Zenon DEF Actors
  <2>3. LocksInOrder(q) /\ ArgsFit(q)
    BY Zenon DEF BaseInv, LockInv, LockOrder, ArgsInv
  <2> QED
    BY <2>1, <2>2, <2>3, OrderKept, ArgsKept, Zenon
<1> QED
  BY <1>1, <1>2, Zenon

\* The steps of Flush and SetNXMulti keep types and lock discipline.
LEMMA MultiBase ==
  ASSUME BaseInv, NEW p \in Procs,
         \/ Del(p) \/ SetNXMulti(p) \/ Flush(p) \/ LockNext(p) \/ UnlockNext(p)
         \/ SetNXPairs(p) \/ FlushClear(p) \/ FlushCount(p) \/ FlushHeap(p)
  PROVE  BaseInv'
<1> USE Setting
<1>0. p \in Actors /\ p # Sweeper /\ p # None
  BY Zenon DEF Actors
<1>1. CASE Del(p)
  <2>1. PICK ks \in KeyLists : args' = [args EXCEPT ![p] = ks]
    BY <1>1, Zenon DEF Del
  <2>2. ks \in Seq(Keys) \ {<<>>}
    BY StoreAssumption, Zenon
  <2>3. TypeOK'
    <3>1. ks \in ArgLists
      BY <2>2, Zenon DEF ArgLists
    <3> QED
      BY <1>0, <1>1, <2>1, <3>1, Zenon DEF Del, BaseInv, TypeOK, PCs
  <2>4. /\ OwesUnderLock'
        /\ \A q \in Procs \ {p} : LocksInOrder(q)'
        /\ \A q \in Procs \ {p} : ArgsFit(q)'
    BY <1>0, <1>1, <2>1, OthersKept, Zenon DEF Del, BaseInv, TypeOK
  <2>5. HoldersInside'
    BY <1>0, <1>1, Zenon DEF Del, BaseInv, TypeOK, LockInv, HoldersInside, Actors
  <2>6. LocksInOrder(p)' /\ ArgsFit(p)'
    BY <1>0, <1>1, <2>1, <2>2, Zenon DEF Del, BaseInv, TypeOK, LocksInOrder, ArgsFit
  <2> QED
    BY <2>3, <2>4, <2>5, <2>6, Zenon DEF BaseInv, LockInv, LockOrder, ArgsInv
<1>2. CASE SetNXMulti(p)
  <2>1. PICK b \in Batches :
          /\ args' = [args EXCEPT ![p] = b]
          /\ need' = [need EXCEPT ![p] = {ShardOf[b[i][1]] : i \in DOMAIN b}]
    BY <1>2, Zenon DEF SetNXMulti
  <2>2. b \in Seq(Keys \X Vals) /\ \A i \in DOMAIN b : ShardOf[b[i][1]] \in Shards
    BY BatchKeys, StoreAssumption, Zenon
  <2>3. TypeOK'
    <3>1. b \in ArgLists
      BY <2>2, Zenon DEF ArgLists
    <3>2. {ShardOf[b[i][1]] : i \in DOMAIN b} \in SUBSET Shards
      BY <2>2, Zenon
    <3>3. args' \in [Procs -> ArgLists] /\ need' \in [Procs -> SUBSET Shards]
      BY <2>1, <3>1, <3>2, Zenon DEF BaseInv, TypeOK
    <3> QED
      BY <1>0, <1>2, <3>3, Zenon DEF SetNXMulti, BaseInv, TypeOK, PCs
  <2>4. /\ OwesUnderLock'
        /\ \A q \in Procs \ {p} : LocksInOrder(q)'
        /\ \A q \in Procs \ {p} : ArgsFit(q)'
    <3>1. /\ pend' = pend /\ pc[p] # "leave" /\ pc'[p] # "leave"
          /\ \A q \in Actors \ {p} : pc'[q] = pc[q]
      BY <1>0, <1>2, <2>1, Zenon DEF SetNXMulti, BaseInv, TypeOK
    <3>2. \A q \in Procs \ {p} : need'[q] = need[q] /\ args'[q] = args[q]
      BY <1>0, <1>2, <2>1, Zenon DEF SetNXMulti, BaseInv, TypeOK
    <3>3. \A r \in Shards, q \in Actors \ {p} : owner'[r] = q <=> owner[r] = q
      BY <1>0, <1>2, <2>1, Zenon DEF SetNXMulti, BaseInv, TypeOK
    <3> QED
      BY <3>1, <3>2, <3>3, OthersKept, Zenon
  <2>5. HoldersInside'
    BY <1>0, <1>2, Zenon DEF SetNXMulti, BaseInv, TypeOK, LockInv, HoldersInside, Actors
  <2>6. \A s \in Shards : owner[s] # p
    BY <1>0, <1>2, Zenon DEF SetNXMulti, BaseInv, TypeOK, LockInv, HoldersInside
  <2>7. LocksInOrder(p)' /\ ArgsFit(p)'
    <3>1. /\ pc'[p] = "msetnx" /\ args'[p] = b /\ owner' = owner
          /\ need'[p] = {ShardOf[b[i][1]] : i \in DOMAIN b}
      BY <1>0, <1>2, <2>1, Zenon DEF SetNXMulti, BaseInv, TypeOK
    <3>2. need'[p] = BatchShards(p)'
      BY <3>1, Zenon DEF BatchShards
    <3> QED
      BY <2>6, <3>1, <3>2, Zenon DEF LocksInOrder, ArgsFit
  <2> QED
    BY <2>3, <2>4, <2>5, <2>7, Zenon DEF BaseInv, LockInv, LockOrder, ArgsInv
<1>3. CASE Flush(p)
  <2>1. TypeOK'
    BY <1>0, <1>3, Zenon DEF Flush, BaseInv, TypeOK, PCs
  <2>2. /\ OwesUnderLock'
        /\ \A q \in Procs \ {p} : LocksInOrder(q)'
        /\ \A q \in Procs \ {p} : ArgsFit(q)'
    <3>1. /\ pend' = pend /\ pc[p] # "leave" /\ pc'[p] # "leave"
          /\ \A q \in Actors \ {p} : pc'[q] = pc[q]
      BY <1>0, <1>3, Zenon DEF Flush, BaseInv, TypeOK
    <3>2. \A q \in Procs \ {p} : need'[q] = need[q] /\ args'[q] = args[q]
      BY <1>0, <1>3, Zenon DEF Flush, BaseInv, TypeOK
    <3>3. \A r \in Shards, q \in Actors \ {p} : owner'[r] = q <=> owner[r] = q
      BY <1>0, <1>3, Zenon DEF Flush, BaseInv, TypeOK
    <3> QED
      BY <3>1, <3>2, <3>3, OthersKept, Zenon
  <2>3. HoldersInside'
    BY <1>0, <1>3, Zenon DEF Flush, BaseInv, TypeOK, LockInv, HoldersInside, Actors
  <2>4. \A s \in Shards : owner[s] # p
    BY <1>0, <1>3, Zenon DEF Flush, BaseInv, TypeOK, LockInv, HoldersInside
  <2>5. LocksInOrder(p)' /\ ArgsFit(p)'
    BY <1>0, <1>3, <2>4, Zenon DEF Flush, BaseInv, TypeOK, ArgsInv, ArgsFit, LocksInOrder
  <2> QED
    BY <2>1, <2>2, <2>3, <2>5, Zenon DEF BaseInv, LockInv, LockOrder, ArgsInv
<1>4. CASE LockNext(p)
  <2>1. PICK s \in need[p] :
          /\ \A r \in need[p] : s <= r
          /\ owner[s] = None
          /\ owner' = [owner EXCEPT ![s] = p]
          /\ need' = [need EXCEPT ![p] = @ \ {s}]
    BY <1>4, Zenon DEF LockNext
  <2>2. s \in Shards /\ need[p] \subseteq Shards
    BY Zenon DEF BaseInv, TypeOK
  <2>3. TypeOK'
    BY <1>0, <1>4, <2>1, <2>2, Zenon DEF LockNext, BaseInv, TypeOK
  <2>4. /\ OwesUnderLock'
        /\ \A q \in Procs \ {p} : LocksInOrder(q)'
        /\ \A q \in Procs \ {p} : ArgsFit(q)'
    <3>1. /\ pend' = pend /\ pc[p] # "leave" /\ pc'[p] # "leave"
          /\ \A q \in Actors \ {p} : pc'[q] = pc[q]
      BY <1>0, <1>4, <2>1, <2>2, Zenon DEF LockNext, BaseInv, TypeOK
    <3>2. \A q \in Procs \ {p} : need'[q] = need[q] /\ args'[q] = args[q]
      BY <1>0, <1>4, <2>1, <2>2, Zenon DEF LockNext, BaseInv, TypeOK
    <3>3. \A r \in Shards, q \in Actors \ {p} : owner'[r] = q <=> owner[r] = q
      BY <1>0, <1>4, <2>1, <2>2, Zenon DEF LockNext, BaseInv, TypeOK
    <3> QED
      BY <3>1, <3>2, <3>3, OthersKept, Zenon
  <2>5. HoldersInside'
    BY <1>0, <1>4, <2>1, <2>2 DEF LockNext, BaseInv, TypeOK, LockInv, HoldersInside, Actors
  <2>6. /\ pc' = pc /\ args' = args /\ need'[p] = need[p] \ {s}
        /\ \A r \in Shards : owner'[r] = p <=> (r = s \/ owner[r] = p)
    BY <1>0, <1>4, <2>1, <2>2, Zenon DEF LockNext, BaseInv, TypeOK
  <2>7. \A r \in need[p] \ {s} : s < r
    BY <2>1, <2>2 DEF Shards
  <2>8. LocksInOrder(p)' /\ ArgsFit(p)'
    <3>1. LocksInOrder(p) /\ ArgsFit(p) /\ pc[p] \in {"msetnx", "flush"}
      BY <1>4, Zenon DEF LockNext, BaseInv, LockInv, LockOrder, ArgsInv
    <3>2. \A q \in Shards, r \in need[p] : owner[q] = p => q < r
      BY <3>1, Zenon DEF LocksInOrder
    <3>3. \A q \in Shards, r \in need'[p] : owner'[q] = p => q < r
      BY <2>6, <2>7, <3>2, Zenon
    <3>4. pc[p] = "flush" => \A r \in Shards : r \in need'[p] \/ owner'[r] = p
      BY <2>6, <3>1, Zenon DEF LocksInOrder
    <3>5. BatchShards(p)' = BatchShards(p)
      BY <2>6, Zenon DEF BatchShards
    <3>6. pc[p] = "msetnx" =>
            \A r \in Shards : r \in BatchShards(p) => r \in need'[p] \/ owner'[r] = p
      BY <2>6, <3>1, Zenon DEF LocksInOrder
    <3>7. LocksInOrder(p)'
      BY <2>6, <3>1, <3>3, <3>4, <3>5, <3>6, Zenon DEF LocksInOrder
    <3> QED
      BY <2>6, <3>1, <3>7, ArgsKept, Zenon
  <2> QED
    BY <2>3, <2>4, <2>5, <2>8, Zenon DEF BaseInv, LockInv, LockOrder, ArgsInv
<1>5. CASE UnlockNext(p)
  <2>1. PICK s \in Shards : owner[s] = p /\ owner' = [owner EXCEPT ![s] = None]
    BY <1>5, Zenon DEF UnlockNext
  <2>2. /\ pc'[p] \in {"unlock", "unlockall", "idle", "dropheap"}
        /\ (\E r \in Shards : owner'[r] = p) => pc'[p] \in {"unlock", "unlockall"}
    <3>1. pc'[p] = AfterUnlock(p, owner')
      BY <1>0, <1>5, Zenon DEF UnlockNext, BaseInv, TypeOK
    <3> QED
      BY <1>5, <3>1, Zenon DEF UnlockNext, AfterUnlock
  <2>3. TypeOK'
    BY <1>0, <1>5, <2>1, Zenon DEF UnlockNext, AfterUnlock, BaseInv, TypeOK, PCs
  <2>4. /\ OwesUnderLock'
        /\ \A q \in Procs \ {p} : LocksInOrder(q)'
        /\ \A q \in Procs \ {p} : ArgsFit(q)'
    <3>1. /\ pend' = pend /\ pc[p] # "leave" /\ pc'[p] # "leave"
          /\ \A q \in Actors \ {p} : pc'[q] = pc[q]
      BY <1>0, <1>5, <2>1, <2>2 DEF UnlockNext, BaseInv, TypeOK
    <3>2. \A q \in Procs \ {p} : need'[q] = need[q] /\ args'[q] = args[q]
      BY <1>0, <1>5, <2>1, <2>2, Zenon DEF UnlockNext, BaseInv, TypeOK
    <3>3. \A r \in Shards, q \in Actors \ {p} : owner'[r] = q <=> owner[r] = q
      BY <1>0, <1>5, <2>1, <2>2, Zenon DEF UnlockNext, BaseInv, TypeOK
    <3> QED
      BY <3>1, <3>2, <3>3, OthersKept, Zenon
  <2>5. HoldersInside'
    <3>1. \A q \in Actors \ {p} : pc'[q] = pc[q]
      BY <1>0, <1>5, Zenon DEF UnlockNext, BaseInv, TypeOK
    <3>2. \A r \in Shards : owner'[r] \in {None, owner[r]}
      BY <2>1, Zenon DEF BaseInv, TypeOK
    <3>3. ASSUME NEW r \in Shards, owner'[r] # None
          PROVE  pc'[owner'[r]] \in {"leave", "msetnx", "flush", "reset", "unlock", "unlockall"}
      <4>1. CASE owner'[r] = p
        BY <2>2, <4>1, Zenon
      <4>2. CASE owner'[r] # p
        <5>1. owner'[r] = owner[r] /\ owner[r] # None
          BY <3>2, <3>3, Zenon
        <5>2. owner[r] \in Actors \ {p}
          BY <4>2, <5>1, Zenon DEF BaseInv, TypeOK
        <5>3. pc[owner[r]] \in {"leave", "msetnx", "flush", "reset", "unlock", "unlockall"}
          BY <5>1, Zenon DEF BaseInv, LockInv, HoldersInside
        <5> QED
          BY <3>1, <5>1, <5>2, <5>3, Zenon
      <4> QED
        BY <4>1, <4>2, Zenon
    <3> QED
      BY <1>0, <2>2, <3>1, <3>3, Zenon DEF BaseInv, LockInv, HoldersInside, Actors
  <2>6. LocksInOrder(p)' /\ ArgsFit(p)'
    BY <1>5, <2>2, Zenon DEF UnlockNext, BaseInv, ArgsInv, ArgsFit, LocksInOrder
  <2> QED
    BY <2>3, <2>4, <2>5, <2>6, Zenon DEF BaseInv, LockInv, LockOrder, ArgsInv
<1>6. CASE SetNXPairs(p)
  <2>0. /\ pc[p] = "msetnx" /\ DOMAIN m' = Keys
        /\ args' = [args EXCEPT ![p] = <<>>] /\ pc' = [pc EXCEPT ![p] = "unlock"]
        /\ UNCHANGED <<heap, now, owner, need, pend, snow, popped>>
    BY <1>6, ZenonT(30) DEF SetNXPairs
  <2>1. \A k \in Keys : WellFormed(m'[k])
    <3>1. \A v : WellFormed(Entry(v, 0))
      BY EntryPresent, Zenon
    <3>2. WellFormed(NoEntry)
      BY Zenon DEF WellFormed
    <3> QED
      BY <1>6, <3>1, <3>2, Zenon DEF SetNXPairs, BaseInv, TypeOK
  <2>2. count' \in Int
    <3>1. \A S : S \subseteq Keys => Cardinality(S) \in Nat
      BY StoreAssumption, FS_Subset, FS_CardinalityType, Zenon
    <3>2. Len(args[p]) \in Nat
      <4>1. args[p] \in Batches
        BY <2>0, Zenon DEF BaseInv, ArgsInv, ArgsFit
      <4>2. args[p] \in Seq(Keys \X Vals)
        BY <4>1, StoreAssumption, Zenon
      <4> QED
        BY <4>2
    <3>3. PICK S \in SUBSET Keys, n \in {0, Len(args[p])} : count' = count - Cardinality(S) + n
      BY <1>6, Zenon DEF SetNXPairs, Present
    <3> QED
      BY <3>1, <3>2, <3>3 DEF BaseInv, TypeOK
  <2>3. TypeOK'
    <3>1. /\ args' \in [Procs -> ArgLists]
          /\ pc' \in [Actors -> PCs]
      BY <1>0, <2>0, EmptyArgs, Zenon DEF BaseInv, TypeOK, PCs
    <3> QED
      BY <2>0, <2>1, <2>2, <3>1, Zenon DEF BaseInv, TypeOK
  <2>4. /\ OwesUnderLock'
        /\ \A q \in Procs \ {p} : LocksInOrder(q)'
        /\ \A q \in Procs \ {p} : ArgsFit(q)'
    <3>1. /\ pend' = pend /\ pc[p] # "leave" /\ pc'[p] # "leave"
          /\ owner' = owner /\ need' = need
          /\ \A q \in Actors \ {p} : pc'[q] = pc[q]
          /\ \A q \in Procs \ {p} : args'[q] = args[q]
      BY <1>0, <2>0, Zenon DEF BaseInv, TypeOK
    <3> QED
      BY <3>1, OthersKept, Zenon
  <2>5. HoldersInside'
    BY <1>0, <2>0, Zenon DEF BaseInv, TypeOK, LockInv, HoldersInside, Actors
  <2>6. LocksInOrder(p)' /\ ArgsFit(p)'
    BY <1>0, <2>0, Zenon DEF BaseInv, TypeOK, LocksInOrder, ArgsFit
  <2> QED
    BY <2>3, <2>4, <2>5, <2>6, Zenon DEF BaseInv, LockInv, LockOrder, ArgsInv
<1>7. CASE FlushClear(p)
  <2>1. TypeOK'
    BY <1>0, <1>7, Zenon DEF FlushClear, BaseInv, TypeOK, PCs, WellFormed
  <2>2. /\ OwesUnderLock'
        /\ \A q \in Procs \ {p} : LocksInOrder(q)'
        /\ \A q \in Procs \ {p} : ArgsFit(q)'
    <3>1. /\ pend' = pend /\ pc[p] # "leave" /\ pc'[p] # "leave"
          /\ owner' = owner /\ need' = need
          /\ \A q \in Actors \ {p} : pc'[q] = pc[q]
          /\ \A q \in Procs \ {p} : args'[q] = args[q]
      BY <1>0, <1>7, Zenon DEF FlushClear, BaseInv, TypeOK
    <3> QED
      BY <3>1, OthersKept, Zenon
  <2>3. HoldersInside'
    BY <1>0, <1>7, Zenon DEF FlushClear, BaseInv, TypeOK, LockInv, HoldersInside, Actors
  <2>4. LocksInOrder(p)' /\ ArgsFit(p)'
    <3>1. \A r \in Shards : owner'[r] = p
      BY <1>7, Zenon DEF FlushClear, BaseInv, LockInv, LockOrder, LocksInOrder
    <3>2. pc'[p] = "reset" /\ args'[p] = <<>>
      BY <1>0, <1>7, Zenon DEF FlushClear, BaseInv, TypeOK, ArgsInv, ArgsFit
    <3> QED
      BY <3>1, <3>2, Zenon DEF LocksInOrder, ArgsFit
  <2> QED
    BY <2>1, <2>2, <2>3, <2>4, Zenon DEF BaseInv, LockInv, LockOrder, ArgsInv
<1>8. CASE FlushCount(p)
  <2>1. TypeOK'
    BY <1>0, <1>8 DEF FlushCount, BaseInv, TypeOK, PCs
  <2>2. /\ OwesUnderLock'
        /\ \A q \in Procs \ {p} : LocksInOrder(q)'
        /\ \A q \in Procs \ {p} : ArgsFit(q)'
    <3>1. /\ pend' = pend /\ pc[p] # "leave" /\ pc'[p] # "leave"
          /\ owner' = owner /\ need' = need
          /\ \A q \in Actors \ {p} : pc'[q] = pc[q]
          /\ \A q \in Procs \ {p} : args'[q] = args[q]
      BY <1>0, <1>8, Zenon DEF FlushCount, BaseInv, TypeOK
    <3> QED
      BY <3>1, OthersKept, Zenon
  <2>3. HoldersInside'
    BY <1>0, <1>8, Zenon DEF FlushCount, BaseInv, TypeOK, LockInv, HoldersInside, Actors
  <2>4. LocksInOrder(p)' /\ ArgsFit(p)'
    BY <1>0, <1>8, Zenon DEF FlushCount, BaseInv, TypeOK, ArgsInv, ArgsFit, LocksInOrder
  <2> QED
    BY <2>1, <2>2, <2>3, <2>4, Zenon DEF BaseInv, LockInv, LockOrder, ArgsInv
<1>9. CASE FlushHeap(p)
  <2>1. TypeOK'
    BY <1>0, <1>9, Zenon DEF FlushHeap, BaseInv, TypeOK, PCs
  <2>2. /\ OwesUnderLock'
        /\ \A q \in Procs \ {p} : LocksInOrder(q)'
        /\ \A q \in Procs \ {p} : ArgsFit(q)'
    <3>1. /\ pend' = pend /\ pc[p] # "leave" /\ pc'[p] # "leave"
          /\ owner' = owner /\ need' = need
          /\ \A q \in Actors \ {p} : pc'[q] = pc[q]
          /\ \A q \in Procs \ {p} : args'[q] = args[q]
      BY <1>0, <1>9, Zenon DEF FlushHeap, BaseInv, TypeOK
    <3> QED
      BY <3>1, OthersKept, Zenon
  <2>3. HoldersInside'
    BY <1>0, <1>9, Zenon DEF FlushHeap, BaseInv, TypeOK, LockInv, HoldersInside, Actors
  <2>4. LocksInOrder(p)' /\ ArgsFit(p)'
    BY <1>0, <1>9, Zenon DEF FlushHeap, BaseInv, TypeOK, ArgsInv, ArgsFit, LocksInOrder
  <2> QED
    BY <2>1, <2>2, <2>3, <2>4, Zenon DEF BaseInv, LockInv, LockOrder, ArgsInv
<1> QED
  BY <1>1, <1>2, <1>3, <1>4, <1>5, <1>6, <1>7, <1>8, <1>9, Zenon

-----------------------------------------------------------------------------
(***************************************************************************)
(* Types and locks.                                                        *)
(***************************************************************************)

\* A critical section entered from such a point keeps types and lock discipline.
LEMMA EnterBase ==
  ASSUME BaseInv, NEW a \in Actors, NEW k \in Keys, NEW o, NEW next \in Ready(a),
         Sound(m[k], o), pc[a] \in Ready(a), Enter(a, k, o, next), need' = need,
         \A p \in Procs \ {a} : args'[p] = args[p]
  PROVE  /\ DOMAIN m' = Keys /\ \A j \in Keys : WellFormed(m'[j])
         /\ owner' \in [Shards -> Actors \cup {None}]
         /\ pc' \in [Actors -> PCs]
         /\ pend' \in [Actors -> Debts]
         /\ LockInv'
<1> USE Setting
<1> DEFINE sh == ShardOf[k]
<1>1. /\ DOMAIN m' = Keys /\ \A j \in Keys : WellFormed(m'[j])
  BY Zenon DEF BaseInv, TypeOK, Enter, Sound
<1>2. o.delta \in {-1, 0, 1} /\ o.push \in Nat
  BY DEF Sound, Weight
<1>3. sh \in Shards /\ owner[sh] = None
  BY Zenon DEF Enter
<1>4. \A s \in Shards : owner[s] # a
  BY Zenon DEF BaseInv, TypeOK, LockInv, HoldersInside, Ready, Actors
<1>5. pc[a] # "leave" /\ pend[a] = Nothing
  BY Zenon DEF BaseInv, LockInv, OwesUnderLock, DebtCovered, Ready
<1>6. pc[a] \notin {"msetnx", "flush", "reset", "unlock", "unlockall", "leave"}
  BY Zenon DEF Ready
<1>7. CASE o.delta = 0 /\ o.push = 0
  <2>1. owner' = owner /\ pend' = pend /\ pc' = [pc EXCEPT ![a] = next]
    BY <1>7, Zenon DEF Enter
  <2>2. pc' \in [Actors -> PCs]
    BY <2>1, Zenon DEF BaseInv, TypeOK, PCs, Ready
  <2>3. OwesUnderLock'
    <3>1. \A b \in Actors : pc'[b] = pc[b] \/ (pc[b] # "leave" /\ pc'[b] # "leave")
      BY <2>1, <1>5, Zenon DEF BaseInv, TypeOK, Ready
    <3> QED
      BY <2>1, <3>1, DebtKept, Zenon DEF BaseInv, LockInv, OwesUnderLock
  <2>4. HoldersInside'
    BY <2>1, <1>4, Zenon DEF BaseInv, LockInv, TypeOK, HoldersInside, Ready, Actors
  <2>5. LockOrder'
    <3> SUFFICES ASSUME NEW p \in Procs PROVE LocksInOrder(p)'
      BY Zenon DEF LockOrder
    <3>1. CASE p = a
      BY <2>1, <3>1, Zenon DEF BaseInv, TypeOK, Ready, LocksInOrder
    <3>2. CASE p # a
      <4>1. pc'[p] = pc[p] /\ need'[p] = need[p] /\ args'[p] = args[p] /\ owner' = owner
        BY <2>1, <3>2, Zenon DEF BaseInv, TypeOK, Actors
      <4> QED
        BY <4>1, OrderKept, Zenon DEF BaseInv, LockInv, LockOrder
    <3> QED
      BY <3>1, <3>2, Zenon
  <2> QED
    BY <1>1, <2>1, <2>2, <2>3, <2>4, <2>5, Zenon DEF BaseInv, TypeOK, LockInv
<1>8. CASE ~(o.delta = 0 /\ o.push = 0)
  <2>1. /\ pc' = [pc EXCEPT ![a] = "leave"]
        /\ owner' = [owner EXCEPT ![sh] = a]
        /\ pend' = [pend EXCEPT ![a] = [key |-> k, delta |-> o.delta, push |-> o.push]]
    BY <1>8, Zenon DEF Enter
  <2>2. /\ pc' \in [Actors -> PCs]
        /\ owner' \in [Shards -> Actors \cup {None}]
        /\ pend' \in [Actors -> Debts]
    BY <2>1, <1>2, <1>3, Zenon DEF BaseInv, TypeOK, PCs, Debts
  <2>3. OwesUnderLock'
    <3> SUFFICES ASSUME NEW b \in Actors PROVE DebtCovered(b)'
      BY Zenon DEF OwesUnderLock
    <3>1. CASE b = a
      BY <2>1, <1>3, <1>4, <3>1, Zenon DEF BaseInv, TypeOK, DebtCovered
    <3>2. CASE b # a
      <4>1. /\ pc'[b] = pc[b] /\ pend'[b] = pend[b]
            /\ \A s \in Shards : owner'[s] = b <=> owner[s] = b
        BY <2>1, <1>3, <3>2, Zenon DEF BaseInv, TypeOK
      <4> QED
        BY <4>1, DebtKept, Zenon DEF BaseInv, LockInv, OwesUnderLock
    <3> QED
      BY <3>1, <3>2, Zenon
  <2>4. HoldersInside'
    BY <2>1, <1>3, <1>4, Zenon DEF BaseInv, LockInv, TypeOK, HoldersInside, Ready, Actors
  <2>5. LockOrder'
    <3> SUFFICES ASSUME NEW p \in Procs PROVE LocksInOrder(p)'
      BY Zenon DEF LockOrder
    <3>1. CASE p = a
      BY <2>1, <3>1, Zenon DEF BaseInv, TypeOK, Ready, LocksInOrder
    <3>2. CASE p # a
      <4>1. /\ pc'[p] = pc[p] /\ need'[p] = need[p] /\ args'[p] = args[p]
            /\ \A s \in Shards : owner'[s] = p <=> owner[s] = p
        BY <2>1, <1>3, <3>2, Zenon DEF BaseInv, TypeOK, Actors
      <4> QED
        BY <4>1, OrderKept, Zenon DEF BaseInv, LockInv, LockOrder
    <3> QED
      BY <3>1, <3>2, Zenon
  <2> QED
    BY <1>1, <2>2, <2>3, <2>4, <2>5, Zenon DEF LockInv
<1> QED
  BY <1>7, <1>8, Zenon

\* Initially nothing is held, owed or running.
LEMMA BaseInit == Init => BaseInv
<1> SUFFICES ASSUME Init PROVE BaseInv
  OBVIOUS
<1> USE Setting
<1>1. TypeOK
  <2>1. Nothing \in Debts
    BY Zenon DEF Nothing, Debts
  <2> QED
    BY <2>1, EmptyArgs DEF Init, TypeOK, PCs, WellFormed
<1>2. LockInv
  BY Zenon DEF Init, LockInv, OwesUnderLock, DebtCovered, HoldersInside, LockOrder, LocksInOrder, Actors
<1>3. ArgsInv
  BY Zenon DEF Init, ArgsInv, ArgsFit, Actors
<1> QED
  BY <1>1, <1>2, <1>3, Zenon DEF BaseInv

\* Leaving a critical section gives the lock back and owes nothing more.
LEMMA LeaveBase ==
  ASSUME BaseInv, NEW a \in Actors, Leave(a)
  PROVE  BaseInv'
<1> USE Setting
<1> DEFINE k == pend[a].key
           sh == ShardOf[k]
<1>1. k \in Keys /\ sh \in Shards /\ \A s \in Shards : owner[s] = a <=> s = sh
  BY Zenon DEF BaseInv, LockInv, OwesUnderLock, DebtCovered, Leave
<1>2. /\ owner' = [owner EXCEPT ![sh] = None]
      /\ pend' = [pend EXCEPT ![a] = Nothing]
      /\ pc' = [pc EXCEPT ![a] = Resume(a)]
      /\ UNCHANGED <<m, now, need, args, snow, popped, reply>>
  BY Zenon DEF Leave
<1>3. Resume(a) \in Ready(a)
  BY Zenon DEF Resume, Ready
<1>4. TypeOK'
  <2>1. /\ owner' \in [Shards -> Actors \cup {None}]
        /\ pc' \in [Actors -> PCs]
        /\ pend' \in [Actors -> Debts]
    BY <1>1, <1>2, <1>3, Zenon DEF BaseInv, TypeOK, PCs, Debts, Nothing, Ready
  <2>2. count' \in Int
    BY DEF BaseInv, TypeOK, Debts, Leave
  <2>3. heap' \subseteq HeapEntry
    <3>1. pend[a].push \in Nat
      BY Zenon DEF BaseInv, TypeOK, Debts
    <3>2. pend[a].push # 0 => [deadline |-> pend[a].push, key |-> k] \in HeapEntry
      BY <1>1, <3>1, Zenon DEF HeapEntry
    <3> QED
      BY <3>2, Zenon DEF BaseInv, TypeOK, Leave
  <2> QED
    BY <1>2, <2>1, <2>2, <2>3, Zenon DEF BaseInv, TypeOK, PCs
<1>5. OwesUnderLock'
  <2> SUFFICES ASSUME NEW b \in Actors PROVE DebtCovered(b)'
    BY Zenon DEF OwesUnderLock
  <2>1. CASE b = a
    BY <1>2, <1>3, <2>1, Zenon DEF BaseInv, TypeOK, DebtCovered, Ready
  <2>2. CASE b # a
    <3>1. /\ pc'[b] = pc[b] /\ pend'[b] = pend[b]
          /\ \A s \in Shards : owner'[s] = b <=> owner[s] = b
      BY <1>1, <1>2, <2>2 DEF BaseInv, TypeOK
    <3> QED
      BY <3>1, DebtKept, Zenon DEF BaseInv, LockInv, OwesUnderLock
  <2> QED
    BY <2>1, <2>2, Zenon
<1>6. HoldersInside'
  BY <1>1, <1>2, <1>3, Zenon DEF BaseInv, LockInv, TypeOK, HoldersInside, Ready, Actors
<1>7. LockOrder'
  <2> SUFFICES ASSUME NEW p \in Procs PROVE LocksInOrder(p)'
    BY Zenon DEF LockOrder
  <2>1. CASE p = a
    BY <1>2, <1>3, <2>1, Zenon DEF BaseInv, TypeOK, Ready, LocksInOrder
  <2>2. CASE p # a
    <3>1. /\ pc'[p] = pc[p] /\ need'[p] = need[p] /\ args'[p] = args[p]
          /\ \A s \in Shards : owner'[s] = p <=> owner[s] = p
      BY <1>1, <1>2, <2>2 DEF BaseInv, TypeOK, Actors
    <3> QED
      BY <3>1, OrderKept, Zenon DEF BaseInv, LockInv, LockOrder
  <2> QED
    BY <2>1, <2>2, Zenon
<1>8. ArgsInv'
  <2> SUFFICES ASSUME NEW p \in Procs PROVE ArgsFit(p)'
    BY Zenon DEF ArgsInv
  <2>1. CASE p = a
    BY <1>2, <2>1, Zenon DEF BaseInv, TypeOK, ArgsInv, ArgsFit, Resume, Leave
  <2>2. CASE p # a
    <3>1. pc'[p] = pc[p] /\ args'[p] = args[p]
      BY <1>2, <2>2, Zenon DEF BaseInv, TypeOK, Actors
    <3> QED
      BY <3>1, ArgsKept, Zenon DEF BaseInv, ArgsInv
  <2> QED
    BY <2>1, <2>2, Zenon
<1> QED
  BY <1>4, <1>5, <1>6, <1>7, <1>8, Zenon DEF BaseInv, LockInv

\* Types and lock discipline are preserved by every step.
LEMMA BaseStep == BaseInv /\ [Next]_vars => BaseInv'
<1> SUFFICES ASSUME BaseInv, [Next]_vars PROVE BaseInv'
  OBVIOUS
<1> USE Setting
<1>1. CASE UNCHANGED vars
  <2>1. TypeOK'
    BY <1>1, Zenon DEF vars, BaseInv, TypeOK
  <2> QED
    BY <1>1, <2>1, Untouched, Zenon DEF vars, BaseInv
<1>2. ASSUME NEW p \in Procs, SingleKey(p) PROVE BaseInv'
  <2>1. now' \in Nat \ {0} /\ now <= now'
    BY <1>2, SingleKeyCall, Zenon DEF BaseInv
  <2>2. PICK k \in Keys : \E op, o : Sound(m[k], o) /\ Call(p, op, k, o)
    BY <1>2, SingleKeyCall, Zenon DEF BaseInv
  <2>3. PICK op, o : Sound(m[k], o) /\ Call(p, op, k, o)
    BY <2>2, Zenon
  <2>4. /\ Enter(p, k, o, "idle") /\ pc[p] = "idle" /\ p \in Actors /\ p # Sweeper
        /\ UNCHANGED <<need, args, snow, popped>>
    BY <2>3, Zenon DEF Call, Actors
  <2>5. /\ DOMAIN m' = Keys /\ \A j \in Keys : WellFormed(m'[j])
        /\ owner' \in [Shards -> Actors \cup {None}]
        /\ pc' \in [Actors -> PCs]
        /\ pend' \in [Actors -> Debts]
        /\ LockInv'
    BY <2>3, <2>4, EnterBase, Zenon DEF Ready
  <2>6. count' = count /\ heap' = heap
    BY <2>4, Zenon DEF Enter
  <2>7. TypeOK'
    BY <2>1, <2>4, <2>5, <2>6, Zenon DEF BaseInv, TypeOK, PCs
  <2>8. ArgsInv'
    <3>1. /\ pc'[p] \in {"idle", "leave"} /\ args'[p] = <<>>
          /\ \A q \in Actors \ {p} : pc'[q] = pc[q]
      BY <2>4, Zenon DEF Enter, BaseInv, TypeOK, ArgsInv, ArgsFit
    <3>2. ArgsFit(p)'
      BY <3>1, EmptyArgs, Zenon DEF ArgsFit
    <3>3. ASSUME NEW q \in Procs \ {p} PROVE ArgsFit(q)'
      BY <2>4, <3>1, ArgsKept, Zenon DEF BaseInv, ArgsInv, Actors
    <3> QED
      BY <3>2, <3>3 DEF ArgsInv, ArgsFit
  <2> QED
    BY <2>5, <2>7, <2>8, Zenon DEF BaseInv
<1>3. ASSUME NEW p \in Procs, DelKey(p) PROVE BaseInv'
  <2>1. PICK k \in Keys, next \in {"idle", "del"} : \E o :
          /\ Sound(m[k], o) /\ Enter(p, k, o, next)
          /\ args' = [args EXCEPT ![p] = Tail(@)] /\ Tail(args[p]) \in Seq(Keys)
          /\ next = IF Tail(args[p]) = <<>> THEN "idle" ELSE "del"
    BY <1>3, DelKeyEnters, Zenon
  <2>2. PICK o : Sound(m[k], o) /\ Enter(p, k, o, next)
    BY <2>1, Zenon
  <2>3. /\ pc[p] = "del" /\ p \in Actors /\ p # Sweeper
        /\ UNCHANGED <<now, need, snow, popped>>
    BY <1>3, Zenon DEF DelKey, Actors
  <2>4. \A q \in Procs \ {p} : args'[q] = args[q]
    BY <2>1, Zenon DEF BaseInv, TypeOK
  <2>5. /\ DOMAIN m' = Keys /\ \A j \in Keys : WellFormed(m'[j])
        /\ owner' \in [Shards -> Actors \cup {None}]
        /\ pc' \in [Actors -> PCs]
        /\ pend' \in [Actors -> Debts]
        /\ LockInv'
    BY <2>1, <2>2, <2>3, <2>4, EnterBase, Zenon DEF Ready
  <2>6. count' = count /\ heap' = heap
    BY <2>2, Zenon DEF Enter
  <2>7. args' \in [Procs -> ArgLists]
    <3>1. Tail(args[p]) \in ArgLists
      BY <2>1, Zenon DEF ArgLists
    <3> QED
      BY <2>1, <3>1, Zenon DEF BaseInv, TypeOK
  <2>8. TypeOK'
    BY <2>3, <2>5, <2>6, <2>7, Zenon DEF BaseInv, TypeOK, PCs
  <2>9. ArgsInv'
    <3>1. /\ pc'[p] \in {next, "leave"} /\ args'[p] = Tail(args[p])
          /\ \A q \in Actors \ {p} : pc'[q] = pc[q]
      BY <2>1, <2>2, <2>3 DEF Enter, BaseInv, TypeOK
    <3>2. ArgsFit(p)'
      BY <2>1, <3>1, Zenon DEF ArgsFit
    <3>3. ASSUME NEW q \in Procs \ {p} PROVE ArgsFit(q)'
      BY <2>4, <3>1, ArgsKept, Zenon DEF BaseInv, ArgsInv, Actors
    <3> QED
      BY <3>2, <3>3, Zenon DEF ArgsInv
  <2> QED
    BY <2>5, <2>8, <2>9, Zenon DEF BaseInv
<1>4. CASE SweepPurge
  <2>1. PICK e \in popped, next \in {"idle", "purge"} :
          /\ e.key \in Keys
          /\ popped' = popped \ {e}
          /\ Sound(m[e.key], SweepSection(m[e.key], e.deadline))
          /\ Enter(Sweeper, e.key, SweepSection(m[e.key], e.deadline), next)
    BY <1>4, SweepPurgeEnters, Zenon
  <2>2. pc[Sweeper] = "purge" /\ Sweeper \in Actors /\ UNCHANGED <<now, need, args, snow>>
    BY <1>4, Zenon DEF SweepPurge, Actors
  <2>3. /\ DOMAIN m' = Keys /\ \A j \in Keys : WellFormed(m'[j])
        /\ owner' \in [Shards -> Actors \cup {None}]
        /\ pc' \in [Actors -> PCs]
        /\ pend' \in [Actors -> Debts]
        /\ LockInv'
    BY <2>1, <2>2, EnterBase, Zenon DEF Ready
  <2>4. count' = count /\ heap' = heap /\ \A q \in Procs : pc'[q] = pc[q]
    BY <2>1, Zenon DEF Enter, BaseInv, TypeOK, Actors
  <2>5. TypeOK'
    BY <2>1, <2>2, <2>3, <2>4, Zenon DEF BaseInv, TypeOK, PCs
  <2>6. ArgsInv'
    BY <2>2, <2>4, ArgsKept, Zenon DEF BaseInv, ArgsInv
  <2> QED
    BY <2>3, <2>5, <2>6, Zenon DEF BaseInv
<1>5. ASSUME SweepRead \/ SweepPop PROVE BaseInv'
  <2>1. /\ UNCHANGED <<m, count, now, owner, need, args, pend, reply>>
        /\ pc[Sweeper] \in {"idle", "pop"} /\ Sweeper \in Actors
        /\ \E w \in {"idle", "pop", "purge"} : pc' = [pc EXCEPT ![Sweeper] = w]
    BY <1>5, Zenon DEF SweepRead, SweepPop, Actors
  <2>2. /\ \A q \in Actors \ {Sweeper} : pc'[q] = pc[q]
        /\ pc'[Sweeper] \in {"idle", "pop", "purge"}
        /\ pc' \in [Actors -> PCs]
    BY <2>1, Zenon DEF BaseInv, TypeOK, PCs
  <2>3. heap' \subseteq HeapEntry /\ popped' \subseteq HeapEntry /\ snow' \in Nat
    BY <1>5, Zenon DEF SweepRead, SweepPop, Due, BaseInv, TypeOK
  <2>4. TypeOK'
    BY <2>1, <2>2, <2>3, Zenon DEF BaseInv, TypeOK, PCs
  <2>5. \A p \in Procs : pc'[p] = pc[p]
    BY <2>2, Zenon DEF Actors
  <2>6. OwesUnderLock'
    <3>1. \A a \in Actors : pc'[a] = pc[a] \/ (pc[a] # "leave" /\ pc'[a] # "leave")
      BY <2>1, <2>2, Zenon
    <3> QED
      BY <2>1, <3>1, DebtKept, Zenon DEF BaseInv, LockInv, OwesUnderLock
  <2>7. HoldersInside'
    <3>1. \A s \in Shards : owner[s] # None => owner[s] \in Procs \/ owner[s] = Sweeper
      BY Zenon DEF BaseInv, TypeOK, Actors
    <3>2. \A s \in Shards : owner[s] # Sweeper
      BY <2>1, Zenon DEF BaseInv, LockInv, HoldersInside
    <3> QED
      BY <2>1, <2>2, <2>5, <3>1, <3>2, Zenon DEF BaseInv, LockInv, HoldersInside
  <2>8. LockOrder'
    BY <2>1, <2>5, OrderKept, Zenon DEF BaseInv, LockInv, LockOrder
  <2>9. ArgsInv'
    BY <2>1, <2>5, ArgsKept, Zenon DEF BaseInv, ArgsInv
  <2> QED
    BY <2>4, <2>6, <2>7, <2>8, <2>9, Zenon DEF BaseInv, LockInv
<1>6. CASE Tick
  <2>1. TypeOK'
    BY <1>6 DEF Tick, BaseInv, TypeOK
  <2> QED
    BY <1>6, <2>1, Untouched, Zenon DEF Tick, BaseInv
<1>7. ASSUME NEW a \in Actors, Leave(a) PROVE BaseInv'
  BY <1>7, LeaveBase, Zenon
<1>8. ASSUME NEW p \in Procs,
             \/ Del(p) \/ SetNXMulti(p) \/ Flush(p) \/ LockNext(p) \/ UnlockNext(p)
             \/ SetNXPairs(p) \/ FlushClear(p) \/ FlushCount(p) \/ FlushHeap(p)
      PROVE  BaseInv'
  BY <1>8, MultiBase, Zenon
<1>9. CASE Next
  <2> HIDE DEF BaseInv
  <2> QED
    BY <1>2, <1>3, <1>4, <1>5, <1>6, <1>7, <1>8, <1>9, NextCases, Zenon
<1> QED
  BY <1>1, <1>9, Zenon

\* Every reachable state has the types of TypeOK and keeps the lock discipline:
\* who holds which shard lock, in which order, and what it owes before unlocking.
THEOREM BaseInvariant == Spec => []BaseInv
BY BaseInit, BaseStep, PTL DEF Spec

\* The state of the store always has the types of TypeOK.
THEOREM TypeCorrect == Spec => []TypeOK
<1>1. BaseInv => TypeOK
  BY Zenon DEF BaseInv
<1> QED
  BY <1>1, BaseInvariant, PTL

-----------------------------------------------------------------------------
(***************************************************************************)
(* The shard locks cannot deadlock.                                        *)
(***************************************************************************)

\* A non-empty set of shards has a greatest member.
LEMMA GreatestShard ==
  ASSUME NEW S \in SUBSET Shards, S # {}
  PROVE  \E s \in S : \A r \in S : r <= s
<1> USE StoreAssumption DEF Shards
<1> DEFINE D == {N - s : s \in S}
<1>1. D \subseteq Nat /\ D # {}
  <2>1. \A s \in S : N - s \in Nat
    OBVIOUS
  <2>2. PICK s \in S : TRUE
    OBVIOUS
  <2>3. N - s \in D
    OBVIOUS
  <2> QED
    BY <2>1, <2>3, Zenon
<1>2. PICK d \in D : \A c \in D : ~(<<c, d>> \in OpToRel(<, Nat))
  BY <1>1, NatLessThanWellFounded, WFMin, Zenon
<1>3. PICK s \in S : d = N - s
  BY <1>2, Zenon
<1>4. \A r \in S : ~(N - r < N - s)
  BY <1>1, <1>2, <1>3, Zenon DEF OpToRel
<1> QED
  BY <1>3, <1>4

\* The holder of the highest locked shard is never waiting: a goroutine inside a
\* single-key section takes no second lock, and one in the locking loop of Flush
\* or SetNXMulti waits only for shards above those it holds, which are free.
LEMMA HighestHolderRuns == BaseInv => SomeHolderRuns
<1> SUFFICES ASSUME BaseInv, \E s \in Shards : owner[s] # None
             PROVE  \E s \in Shards : owner[s] # None /\ ~Blocked(owner[s])
  BY Zenon DEF SomeHolderRuns
<1> USE Setting
<1>1. PICK s \in Shards : owner[s] # None /\ \A r \in Shards : owner[r] # None => r <= s
  <2> DEFINE S == {s \in Shards : owner[s] # None}
  <2>1. S \in SUBSET Shards /\ S # {}
    OBVIOUS
  <2>2. \E s \in S : \A r \in S : r <= s
    BY <2>1, GreatestShard, Zenon
  <2> QED
    BY <2>2, Zenon
<1>2. owner[s] \in Actors /\ pc[owner[s]] \notin {"del", "purge"}
  BY <1>1, Zenon DEF BaseInv, TypeOK, LockInv, HoldersInside
<1>3. ASSUME owner[s] \in Procs, pc[owner[s]] \in {"msetnx", "flush"},
             NEW t \in need[owner[s]], owner[t] # None
      PROVE  FALSE
  <2>1. t \in Shards /\ s < t
    BY <1>3, Zenon DEF BaseInv, TypeOK, LockInv, LockOrder, LocksInOrder
  <2> QED
    BY <1>1, <1>3, <2>1 DEF Shards
<1> QED
  BY <1>1, <1>2, <1>3, Zenon DEF Blocked

\* No deadlock among the shard locks: whatever the clients call, some holder of a
\* lock can always go on.
THEOREM NoDeadlock == Spec => []SomeHolderRuns
BY HighestHolderRuns, BaseInvariant, PTL

-----------------------------------------------------------------------------
(***************************************************************************)
(* Expiry.                                                                 *)
(***************************************************************************)

\* The clock never goes back, and only the sweeper's own steps touch the state of
\* the running sweep.
LEMMA ClockAndSweep ==
  ASSUME BaseInv, [Next]_vars
  PROVE  /\ now \in Nat /\ now' \in Nat /\ now <= now'
         /\ SweepRead \/ snow' = snow
         /\ SweepPop \/ SweepPurge \/ popped' = popped
<1> USE Setting
<1>1. now \in Nat
  BY Zenon DEF BaseInv, TypeOK
<1>2. CASE UNCHANGED vars
  BY <1>1, <1>2 DEF vars
<1>3. ASSUME NEW p \in Procs, SingleKey(p)
      PROVE  now' \in Nat /\ now <= now' /\ snow' = snow /\ popped' = popped
  <2>1. now' \in Nat /\ now <= now'
    BY <1>3, SingleKeyCall, Zenon DEF BaseInv
  <2> QED
    BY <1>3, <2>1, SingleKeyCall, Zenon DEF BaseInv, Call
<1>4. ASSUME NEW p \in Procs,
             \/ Del(p) \/ DelKey(p) \/ SetNXMulti(p) \/ Flush(p) \/ LockNext(p)
             \/ UnlockNext(p) \/ SetNXPairs(p) \/ FlushClear(p) \/ FlushCount(p)
             \/ FlushHeap(p)
      PROVE  now' = now /\ snow' = snow /\ popped' = popped
  BY <1>4, Zenon DEF Del, DelKey, SetNXMulti, Flush, LockNext, UnlockNext, SetNXPairs,
              FlushClear, FlushCount, FlushHeap
<1>5. ASSUME NEW a \in Actors, Leave(a)
      PROVE  now' = now /\ snow' = snow /\ popped' = popped
  BY <1>5, Zenon DEF Leave
<1>6. CASE Tick
  BY <1>1, <1>6 DEF Tick
<1>7. CASE SweepRead
  BY <1>1, <1>7 DEF SweepRead
<1>8. CASE SweepPop
  BY <1>1, <1>8 DEF SweepPop
<1>9. CASE SweepPurge
  BY <1>1, <1>9 DEF SweepPurge
<1> QED
  BY <1>1, <1>2, <1>3, <1>4, <1>5, <1>6, <1>7, <1>8, <1>9, NextCases

\* The deadlines in the hands of the sweep have passed.
THEOREM SweepInvariant == Spec => []SweepInv
<1>1. Init => SweepInv
  BY DEF Init, SweepInv
<1>2. BaseInv /\ SweepInv /\ [Next]_vars => SweepInv'
  <2> SUFFICES ASSUME BaseInv, SweepInv, [Next]_vars PROVE SweepInv'
    OBVIOUS
  <2>1. /\ now \in Nat /\ now' \in Nat /\ now <= now' /\ snow \in Nat
        /\ \A e \in popped \cup heap : e.deadline \in Nat
    BY ClockAndSweep, Zenon DEF BaseInv, TypeOK, HeapEntry
  <2>2. CASE SweepRead
    BY <2>1, <2>2 DEF SweepRead, SweepInv
  <2>3. CASE SweepPop
    BY <2>1, <2>3, Zenon DEF SweepPop, SweepInv, Due
  <2>4. CASE SweepPurge
    BY <2>1, <2>4, Zenon DEF SweepPurge, SweepInv
  <2>5. CASE snow' = snow /\ popped' = popped
    BY <2>1, <2>5 DEF SweepInv
  <2> QED
    BY <2>2, <2>3, <2>4, <2>5, ClockAndSweep, Zenon
<1> QED
  BY <1>1, <1>2, BaseInvariant, PTL DEF Spec

\* The sweeper purges only entries that have expired when it does: an entry is
\* purged for a popped deadline it still carries, so a key written again or given
\* a new TTL after the pop stays.
THEOREM SweeperSound == Spec => SweepsOnlyExpired
<1> DEFINE Step == \A k \in Keys : m[k] # NoEntry /\ m'[k] = NoEntry /\ popped' # popped
                     => Expired(m[k], now)
<1>1. BaseInv /\ SweepInv /\ [Next]_vars => [Step]_vars
  <2> SUFFICES ASSUME BaseInv, SweepInv, [Next]_vars,
                      NEW k \in Keys, m[k] # NoEntry, m'[k] = NoEntry, popped' # popped
               PROVE  Expired(m[k], now)
    OBVIOUS
  <2>1. ~SweepPop
    BY Zenon DEF SweepPop
  <2>2. SweepPurge
    BY <2>1, ClockAndSweep, Zenon
  <2>3. PICK e \in popped, next \in {"idle", "purge"} :
          /\ e.key \in Keys /\ e.deadline \in Nat \ {0}
          /\ Enter(Sweeper, e.key, SweepSection(m[e.key], e.deadline), next)
    BY <2>2, SweepPurgeEnters, Zenon
  <2>4. m' = [m EXCEPT ![e.key] = SweepSection(m[e.key], e.deadline).entry]
    BY <2>3, Zenon DEF Enter
  <2>5. k = e.key /\ m[k].exp = e.deadline
    BY <2>3, <2>4, Zenon DEF SweepSection, Outcome, BaseInv, TypeOK
  <2>6. e.deadline <= snow /\ snow <= now /\ snow \in Nat /\ now \in Nat
    BY Zenon DEF SweepInv, BaseInv, TypeOK
  <2> QED
    BY <2>3, <2>5, <2>6 DEF Expired
<1> QED
  BY <1>1, BaseInvariant, SweepInvariant, PTL DEF Spec, SweepsOnlyExpired

-----------------------------------------------------------------------------
(***************************************************************************)
(* No deadline is lost while nobody flushes.                               *)
(***************************************************************************)

\* No goroutine is inside Flush, and the sweeper pops only when its last sweep is
\* over: it never forgets the entries it has still to look at.
TrackInv ==
  /\ DeadlineTracked
  /\ \A p \in Procs : pc[p] \notin {"flush", "reset", "unlockall", "dropheap"}
  /\ pc[Sweeper] \in {"idle", "pop"} => popped = {}

\* The record the heap keeps for the deadline of key k's entry.
Pending(k) == [deadline |-> m[k].exp, key |-> k]

\* A section that changes no entry but k's, and pushes the deadline it writes there,
\* keeps every deadline tracked, as long as nobody owed a push for k.
LEMMA EnterTracks ==
  ASSUME BaseInv, DeadlineTracked, NEW a \in Actors, NEW k \in Keys, NEW o, NEW next,
         Sound(m[k], o), Enter(a, k, o, next), pc[a] # "leave",
         \A j \in Keys : j # k /\ Pending(j) \in popped => Pending(j) \in popped',
         o.entry # NoEntry /\ o.push = 0 /\ Pending(k) \in popped => Pending(k) \in popped'
  PROVE  DeadlineTracked'
<1> USE Setting
<1>1. /\ m' = [m EXCEPT ![k] = o.entry] /\ DOMAIN m = Keys /\ heap' = heap
      /\ m'[k] = o.entry /\ \A j \in Keys \ {k} : m'[j] = m[j]
  BY Zenon DEF Enter, BaseInv, TypeOK
<1>2. \A b \in Actors : pend[b].push # 0 => b # a /\ pend[b].key # k
  <2>1. ASSUME NEW b \in Actors, pend[b].push # 0
        PROVE  pc[b] = "leave" /\ owner[ShardOf[pend[b].key]] = b
    <3>1. DebtCovered(b)
      BY Zenon DEF BaseInv, LockInv, OwesUnderLock
    <3>2. pend[b] # Nothing
      BY <2>1 DEF Nothing
    <3> QED
      BY <3>1, <3>2, Zenon DEF DebtCovered
  <2>2. owner[ShardOf[k]] = None
    BY Zenon DEF Enter
  <2> QED
    BY <2>1, <2>2, Zenon
<1>3. \A b \in Actors \ {a} : pend'[b] = pend[b]
  BY Zenon DEF Enter, BaseInv, TypeOK
<1>4. ASSUME NEW j \in Keys, m'[j] # NoEntry, m'[j].exp # 0
      PROVE  \/ [deadline |-> m'[j].exp, key |-> j] \in heap' \cup popped'
             \/ \E b \in Actors : pend'[b].key = j /\ pend'[b].push = m'[j].exp
  <2>1. CASE j # k
    <3>1. m'[j] = m[j]
      BY <1>1, <2>1, Zenon
    <3>2. CASE Pending(j) \in heap \cup popped
      BY <1>1, <2>1, <3>1, <3>2, Zenon DEF Pending
    <3>3. ASSUME NEW b \in Actors, pend[b].key = j, pend[b].push = m[j].exp
          PROVE  pend'[b].key = j /\ pend'[b].push = m'[j].exp
      BY <1>2, <1>3, <1>4, <3>1, <3>3, Zenon
    <3> QED
      BY <1>4, <3>1, <3>2, <3>3, Zenon DEF DeadlineTracked, Pending
  <2>2. CASE j = k /\ o.push # 0
    <3>1. pend' = [pend EXCEPT ![a] = [key |-> k, delta |-> o.delta, push |-> o.push]]
      BY <2>2, Zenon DEF Enter
    <3>2. pend'[a].key = k /\ pend'[a].push = o.push
      BY <3>1, Zenon DEF BaseInv, TypeOK
    <3> QED
      BY <1>1, <2>2, <3>2, Zenon DEF Sound
  <2>3. CASE j = k /\ o.push = 0
    <3>1. m[k] # NoEntry /\ m[k].exp = m'[k].exp
      BY <1>1, <1>4, <2>3, Zenon DEF Sound
    <3>2. Pending(k) \in heap \cup popped
      BY <1>2, <1>4, <2>3, <3>1, Zenon DEF DeadlineTracked, Pending
    <3> QED
      BY <1>1, <1>4, <2>3, <3>1, <3>2, Zenon DEF Pending
  <2> QED
    BY <2>1, <2>2, <2>3, Zenon
<1> QED
  BY <1>4, Zenon DEF DeadlineTracked

\* A step that leaves the tracked state alone, or only removes entries and
\* deadlines from the maps, keeps every deadline tracked.
LEMMA KeptTracked ==
  ASSUME DeadlineTracked, UNCHANGED <<heap, popped, pend>>,
         \A k \in Keys : m'[k] = m[k] \/ m'[k] = NoEntry \/ m'[k].exp = 0
  PROVE  DeadlineTracked'
BY DEF DeadlineTracked

\* Without Flush, no step loses a deadline.
LEMMA TrackStep ==
  ASSUME "flush" \notin Ops, BaseInv, TrackInv, [Next]_vars
  PROVE  TrackInv'
<1> USE Setting
<1>0. DeadlineTracked /\ pc \in [Actors -> PCs] /\ Sweeper \in Actors
  BY Zenon DEF TrackInv, BaseInv, TypeOK, PCs, Actors
<1>1. CASE UNCHANGED vars
  BY <1>0, <1>1, KeptTracked, Zenon DEF vars, TrackInv
<1>2. ASSUME NEW p \in Procs, SingleKey(p) PROVE TrackInv'
  <2>1. PICK k \in Keys : \E op, o : Sound(m[k], o) /\ Call(p, op, k, o)
    BY <1>2, SingleKeyCall, Zenon DEF BaseInv
  <2>2. PICK op, o : Sound(m[k], o) /\ Call(p, op, k, o)
    BY <2>1, Zenon
  <2>3. Enter(p, k, o, "idle") /\ pc[p] # "leave" /\ popped' = popped /\ p \in Actors
    BY <2>2, Zenon DEF Call, Actors
  <2>4. DeadlineTracked'
    BY <1>0, <2>2, <2>3, EnterTracks, Zenon
  <2> QED
    BY <1>0, <2>3, <2>4, Zenon DEF TrackInv, Enter, Actors
<1>3. ASSUME NEW p \in Procs, DelKey(p) PROVE TrackInv'
  <2>1. PICK k \in Keys, next \in {"idle", "del"} : \E o :
          Sound(m[k], o) /\ Enter(p, k, o, next)
    BY <1>3, DelKeyEnters, Zenon
  <2>2. PICK o : Sound(m[k], o) /\ Enter(p, k, o, next)
    BY <2>1, Zenon
  <2>3. pc[p] # "leave" /\ popped' = popped /\ p \in Actors
    BY <1>3, Zenon DEF DelKey, Actors
  <2>4. DeadlineTracked'
    BY <1>0, <2>2, <2>3, EnterTracks, Zenon
  <2> QED
    BY <1>0, <2>2, <2>3, <2>4, Zenon DEF TrackInv, Enter, Actors
<1>4. CASE SweepPurge
  <2>1. PICK e \in popped :
          /\ popped' = popped \ {e}
          /\ Enter(Sweeper, e.key, SweepSection(m[e.key], e.deadline),
                   IF popped' = {} THEN "idle" ELSE "purge")
    BY <1>4, Zenon DEF SweepPurge
  <2>2. /\ e.key \in Keys /\ e.deadline \in Nat \ {0} /\ pc[Sweeper] # "leave"
        /\ Sound(m[e.key], SweepSection(m[e.key], e.deadline))
    BY <1>4, SectionsSound, Zenon DEF SweepPurge, BaseInv, TypeOK, HeapEntry
  <2> DEFINE o == SweepSection(m[e.key], e.deadline)
  <2>3. \A j \in Keys : j # e.key /\ Pending(j) \in popped => Pending(j) \in popped'
    BY <2>1 DEF Pending
  <2>4. o.entry # NoEntry => Pending(e.key) # e
    BY <2>2 DEF SweepSection, Outcome, Pending
  <2>5. o.entry # NoEntry /\ Pending(e.key) \in popped => Pending(e.key) \in popped'
    BY <2>1, <2>4, Zenon
  <2>6. DeadlineTracked'
    <3> HIDE DEF o
    <3>1. Sound(m[e.key], o)
          /\ Enter(Sweeper, e.key, o, IF popped' = {} THEN "idle" ELSE "purge")
      BY <2>1, <2>2, Zenon DEF o
    <3> QED
      BY <1>0, <2>2, <2>3, <2>5, <3>1, EnterTracks, Zenon
  <2>7. /\ \A p \in Procs : pc'[p] = pc[p]
        /\ pc'[Sweeper] \in {"leave", "purge"} \/ popped' = {}
    BY <1>0, <2>1, Zenon DEF Enter, Actors
  <2> QED
    BY <2>6, <2>7, Zenon DEF TrackInv
<1>5. CASE SweepPop
  <2>1. popped = {} /\ heap' \cup popped' = heap /\ UNCHANGED <<m, pend>>
    BY <1>5, Zenon DEF TrackInv, SweepPop, Due
  <2>2. DeadlineTracked'
    BY <1>0, <2>1, Zenon DEF DeadlineTracked
  <2> QED
    BY <1>0, <1>5, <2>2, Zenon DEF TrackInv, SweepPop, Actors
<1>6. CASE SweepRead \/ Tick
  BY <1>0, <1>6, KeptTracked, Zenon DEF SweepRead, Tick, TrackInv, Actors
<1>7. ASSUME NEW a \in Actors, Leave(a) PROVE TrackInv'
  <2>1. /\ \A b \in Actors : b # a => pend'[b] = pend[b]
        /\ UNCHANGED <<m, popped>> /\ heap \subseteq heap'
        /\ pend[a].push # 0 => [deadline |-> pend[a].push, key |-> pend[a].key] \in heap'
    BY <1>7, Zenon DEF Leave, BaseInv, TypeOK
  <2>2. DeadlineTracked'
    <3> SUFFICES ASSUME NEW k \in Keys, m[k] # NoEntry, m[k].exp # 0
                 PROVE  \/ Pending(k) \in heap' \cup popped'
                        \/ \E b \in Actors : pend'[b].key = k /\ pend'[b].push = m[k].exp
      BY <2>1, Zenon DEF DeadlineTracked, Pending
    <3>1. CASE Pending(k) \in heap \cup popped
      BY <2>1, <3>1, Zenon
    <3>2. ASSUME NEW b \in Actors, pend[b].key = k, pend[b].push = m[k].exp
          PROVE  \/ Pending(k) \in heap' \cup popped'
                 \/ \E c \in Actors : pend'[c].key = k /\ pend'[c].push = m[k].exp
      BY <2>1, <3>2, Zenon DEF Pending
    <3> QED
      BY <1>0, <3>1, <3>2, Zenon DEF DeadlineTracked, Pending
  <2>3. pc' = [pc EXCEPT ![a] = Resume(a)]
    BY <1>7, Zenon DEF Leave
  <2> QED
    BY <1>0, <2>1, <2>2, <2>3, Zenon DEF TrackInv, Resume, Actors
<1>8. ASSUME NEW p \in Procs,
             \/ Del(p) \/ SetNXMulti(p) \/ Flush(p) \/ LockNext(p) \/ UnlockNext(p)
             \/ SetNXPairs(p) \/ FlushClear(p) \/ FlushCount(p) \/ FlushHeap(p)
      PROVE  TrackInv'
  <2>1. ~Flush(p) /\ ~FlushClear(p) /\ ~FlushCount(p) /\ ~FlushHeap(p)
    BY Zenon DEF TrackInv, Flush, FlushClear, FlushCount, FlushHeap
  <2>2. UNCHANGED <<heap, popped, pend>> /\ p \in Actors /\ p # Sweeper
    BY <1>8, <2>1, Zenon DEF Del, SetNXMulti, LockNext, UnlockNext, SetNXPairs, Actors
  <2>3. \A k \in Keys : m'[k] = m[k] \/ m'[k] = NoEntry \/ m'[k].exp = 0
    <3>1. CASE SetNXPairs(p)
      <4> DEFINE b == args[p]
                 live == {i \in DOMAIN b : Live(m[b[i][1]], now)}
                 checked == {i \in DOMAIN b : \A j \in live : i < j}
                 purged == {k \in Present : \E i \in checked : b[i][1] = k}
                 stored == IF live = {} THEN {b[i][1] : i \in DOMAIN b} ELSE {}
                 valueOf(k) == b[Max({i \in DOMAIN b : b[i][1] = k})][2]
      <4>1. m' = [k \in Keys |-> IF k \in stored THEN Entry(valueOf(k), 0)
                                ELSE IF k \in purged THEN NoEntry ELSE m[k]]
        BY <3>1, ZenonT(30) DEF SetNXPairs
      <4>2. \A v : Entry(v, 0).exp = 0
        BY Zenon DEF Entry
      <4> HIDE DEF stored, purged, valueOf
      <4> QED
        BY <4>1, <4>2, Zenon
    <3> QED
      BY <1>8, <2>1, <3>1, Zenon DEF Del, SetNXMulti, LockNext, UnlockNext
  <2>4. \E w \in {"idle", "del", "msetnx", "unlock"} : pc' = [pc EXCEPT ![p] = w]
    <3>1. pc[p] \notin {"flush", "unlockall"}
      BY Zenon DEF TrackInv
    <3>2. CASE UnlockNext(p)
      BY <3>1, <3>2, Zenon DEF UnlockNext, AfterUnlock
    <3>3. CASE LockNext(p)
      <4>1. pc[p] = "msetnx" /\ pc' = [pc EXCEPT ![p] = "msetnx"]
        BY <1>0, <3>1, <3>3, Zenon DEF LockNext
      <4> QED
        BY <4>1, Zenon
    <3> QED
      BY <1>8, <2>1, <3>2, <3>3, Zenon DEF Del, SetNXMulti, SetNXPairs
  <2>5. DeadlineTracked'
    BY <1>0, <2>2, <2>3, KeptTracked, Zenon
  <2> QED
    BY <1>0, <2>2, <2>4, <2>5, Zenon DEF TrackInv, Actors
<1> QED
  BY <1>1, <1>2, <1>3, <1>4, <1>5, <1>6, <1>7, <1>8, NextCases, Zenon

\* As long as nobody calls Flush, every deadline an entry carries is in the heap,
\* in the hands of the sweeper or about to be pushed by the goroutine that holds
\* the entry's shard: pushExpiry after the map update loses none.
THEOREM DeadlinesTracked ==
  ASSUME "flush" \notin Ops
  PROVE  Spec => []DeadlineTracked
<1>1. Init => TrackInv
  BY StoreAssumption, Zenon DEF Init, TrackInv, DeadlineTracked, Actors
<1>2. BaseInv /\ TrackInv /\ [Next]_vars => TrackInv'
  BY TrackStep, Zenon
<1>3. TrackInv => DeadlineTracked
  BY Zenon DEF TrackInv
<1> QED
  BY <1>1, <1>2, <1>3, BaseInvariant, PTL DEF Spec
=============================================================================
