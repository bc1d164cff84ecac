------------------------- MODULE StoreClientProofs --------------------------
(***************************************************************************)
(* What the clients of the store see, for every number of shards, keys and *)
(* goroutines and every choice of arguments.                               *)
(*                                                                         *)
(* Len (DBSIZE): the counter that Get, Set, Del, SetNXMulti, Flush and the *)
(* sweeper update next to the maps, one after the other, is the number of  *)
(* entries whenever no update is outstanding.  SetNXMulti counts pairs,    *)
(* not keys, so the theorem assumes that no batch names a key twice.       *)
(*                                                                         *)
(* EXISTS, MGET, KEYS and SCAN, which are not atomic: they return what was *)
(* there all the time and nothing that never was.                          *)
(*                                                                         *)
(* The store is linearizable: Store.tla implements the atomic dictionary   *)
(* of KeyValue.tla under the mapping of StoreImplements.tla.               *)
(***************************************************************************)
EXTENDS StoreProofs, StoreReaders, StoreImplements

-----------------------------------------------------------------------------
(***************************************************************************)
(* The count.                                                              *)
(***************************************************************************)

\* No batch names a key twice.
DistinctKeys ==
  \A b \in Batches : \A i, j \in DOMAIN b : b[i][1] = b[j][1] => i = j

\* Whoever owes a count update for a key holds the lock of the key's shard.
LEMMA OwerHolds ==
  ASSUME BaseInv, NEW b \in Actors, pend[b].delta # 0
  PROVE  /\ pc[b] = "leave" /\ pend[b].key \in Keys
         /\ owner[ShardOf[pend[b].key]] = b
BY Setting DEF BaseInv, LockInv, OwesUnderLock, DebtCovered, Nothing

\* While Flush has cleared the maps and not yet reset the count, nobody else holds
\* a lock.
LEMMA ResetHoldsAll ==
  ASSUME BaseInv, NEW p \in Procs, pc[p] = "reset"
  PROVE  \A s \in Shards : owner[s] = p
BY Zenon DEF BaseInv, LockInv, LockOrder, LocksInOrder

\* The keys counted are keys, finitely many.
LEMMA CountedFinite == IsFiniteSet(Counted) /\ Counted \subseteq Keys
BY StoreAssumption, FS_Subset, Zenon DEF Counted

-----------------------------------------------------------------------------
\* A section counts for what it does to its key: the keys the count stands for stay
\* the same when it is entered.
LEMMA EnterCount ==
  ASSUME BaseInv, CountInv, NEW a \in Actors, NEW k \in Keys, NEW o,
         NEW next \in Ready(a), pc[a] \in Ready(a), Sound(m[k], o), Enter(a, k, o, next)
  PROVE  CountInv'
<1> USE Setting
<1>1. /\ m'[k] = o.entry /\ \A j \in Keys \ {k} : m'[j] = m[j]
      /\ count' = count /\ owner[ShardOf[k]] = None /\ ShardOf[k] \in Shards
  BY Zenon DEF Enter, BaseInv, TypeOK
<1>2. \A b \in Actors \ {a} : pc'[b] = pc[b] /\ pend'[b] = pend[b]
  BY Zenon DEF Enter, BaseInv, TypeOK
<1>3. pend[a] = Nothing /\ pc'[a] \in Ready(a) \cup {"leave"}
  BY Zenon DEF Enter, BaseInv, TypeOK, LockInv, OwesUnderLock, DebtCovered, Ready
<1>4. \A b \in Actors : pend[b].delta # 0 => b # a /\ pend[b].key # k
  BY <1>1, <1>3, OwerHolds DEF Nothing
<1>5. /\ o.delta = 0 => pend'[a].delta = 0
      /\ o.delta # 0 => pend'[a].delta = o.delta /\ pend'[a].key = k
      /\ pc'[a] = "leave" => pend'[a].delta = o.delta /\ pend'[a].key = k
  BY <1>3 DEF Enter, BaseInv, TypeOK, Nothing, Ready
<1>6. \A p \in Procs : pc[p] # "reset"
  BY <1>1, ResetHoldsAll, Zenon DEF Actors
<1>7. \A p \in Procs : pc'[p] # "reset"
  BY <1>2, <1>3, <1>6, Zenon DEF Actors, Ready
<1>8. /\ o.delta = 1 => o.entry # NoEntry /\ m[k] = NoEntry
      /\ o.delta = -1 => o.entry = NoEntry /\ m[k] # NoEntry
      /\ o.delta = 0 => (o.entry = NoEntry <=> m[k] = NoEntry)
      /\ o.delta \in {-1, 0, 1}
  BY DEF Sound, Weight
<1>9. Counted' = Counted
  <2>1. ASSUME NEW j \in Keys \ {k}, NEW d \in {1, -1} PROVE Owing(j, d)' <=> Owing(j, d)
    BY <1>2, <1>4, <1>5 DEF Owing
  <2>2. ASSUME NEW d \in {1, -1} PROVE ~Owing(k, d)
    BY <1>4 DEF Owing
  <2>3. ASSUME NEW d \in {1, -1} PROVE Owing(k, d)' <=> o.delta = d
    BY <1>2, <1>4, <1>5, <1>8 DEF Owing
  <2>4. ASSUME NEW j \in Keys \ {k} PROVE j \in Counted' <=> j \in Counted
    BY <1>1, <2>1, Zenon DEF Counted, Present
  <2>5. k \in Counted' <=> k \in Counted
    BY <1>1, <1>8, <2>2, <2>3, Zenon DEF Counted, Present
  <2> QED
    BY <2>4, <2>5, Zenon DEF Counted
<1>10. ASSUME NEW b \in Actors, pc'[b] = "leave"
       PROVE  /\ pend'[b].delta = 1 => m'[pend'[b].key] # NoEntry
              /\ pend'[b].delta = -1 => m'[pend'[b].key] = NoEntry
  <2>1. CASE b = a
    BY <1>1, <1>5, <1>8, <1>10, <2>1, Zenon
  <2>2. CASE b # a
    <3>1. pc[b] = "leave" /\ pend'[b] = pend[b]
      BY <1>2, <1>10, <2>2, Zenon
    <3>2. pend[b].delta # 0 => pend[b].key \in Keys \ {k}
      BY <1>4, OwerHolds, Zenon
    <3> QED
      BY <1>1, <3>1, <3>2 DEF CountInv
  <2> QED
    BY <2>1, <2>2, Zenon
<1> QED
  BY <1>1, <1>6, <1>7, <1>9, <1>10, Zenon DEF CountInv

\* The deferred count update catches up with what the section did.
LEMMA LeaveCount ==
  ASSUME BaseInv, CountInv, NEW a \in Actors, Leave(a)
  PROVE  CountInv'
<1> USE Setting
<1>0. PICK k \in Keys, d \in {-1, 0, 1} : k = pend[a].key /\ d = pend[a].delta
  BY Zenon DEF Leave, BaseInv, TypeOK, Debts, LockInv, OwesUnderLock, DebtCovered
<1>1. /\ pc[a] = "leave" /\ k \in Keys /\ owner[ShardOf[k]] = a /\ ShardOf[k] \in Shards
      /\ d \in {-1, 0, 1} /\ m' = m /\ count' = count + d
      /\ pend'[a] = Nothing /\ \A b \in Actors \ {a} : pend'[b] = pend[b]
      /\ \A b \in Actors \ {a} : pc'[b] = pc[b]
      /\ pc'[a] \in {"idle", "purge", "del"}
  BY <1>0, Zenon DEF Leave, Resume, BaseInv, TypeOK, LockInv, OwesUnderLock, DebtCovered
<1>2. \A p \in Procs : pc[p] # "reset" /\ pc'[p] # "reset"
  BY <1>1, ResetHoldsAll, Zenon DEF Actors
<1>3. count = Cardinality(Counted)
  BY <1>2, Zenon DEF CountInv
<1>4. \A b \in Actors \ {a} : pend[b].delta # 0 => pend[b].key # k
  BY <1>0, <1>1, OwerHolds, Zenon
<1>5. ASSUME NEW j \in Keys, NEW e \in {1, -1}
      PROVE  /\ j # k => (Owing(j, e)' <=> Owing(j, e))
             /\ ~Owing(k, e)' /\ (Owing(k, e) <=> d = e)
  BY <1>0, <1>1, <1>4 DEF Owing, Nothing
<1>6. \A j \in Keys : j # k => (j \in Counted' <=> j \in Counted)
  BY <1>1, <1>5, Zenon DEF Counted, Present
<1>7. /\ k \in Counted' <=> m[k] # NoEntry
      /\ k \in Counted <=> (m[k] # NoEntry /\ d # 1) \/ d = -1
  BY <1>1, <1>5, Zenon DEF Counted, Present
<1>8. /\ d = 1 => m[k] # NoEntry
      /\ d = -1 => m[k] = NoEntry
  BY <1>0, <1>1, Zenon DEF CountInv
<1>9. count' = Cardinality(Counted')
  <2>1. IsFiniteSet(Counted) /\ Counted \subseteq Keys /\ Counted' \subseteq Keys
    BY CountedFinite, Zenon DEF Counted
  <2>2. CASE d = 0
    <3>0. \A j \in Keys : j \in Counted' <=> j \in Counted
      BY <1>1, <1>6, <1>7, <2>2
    <3>1. Counted' = Counted
      BY <2>1, <3>0, Zenon
    <3>2. Cardinality(Counted) \in Nat
      BY <2>1, FS_CardinalityType, Zenon
    <3> QED
      BY <1>1, <1>3, <2>2, <3>1, <3>2
  <2>3. CASE d = 1
    <3>1. k \notin Counted /\ Counted' = Counted \cup {k}
      BY <1>1, <1>6, <1>7, <1>8, <2>1, <2>3, Zenon
    <3> QED
      BY <1>1, <1>3, <2>1, <2>3, <3>1, FS_AddElement, Zenon
  <2>4. CASE d = -1
    <3>1. k \in Counted /\ Counted' = Counted \ {k}
      BY <1>1, <1>6, <1>7, <1>8, <2>1, <2>4, Zenon
    <3>2. Cardinality(Counted) \in Nat
      BY <2>1, FS_CardinalityType, Zenon
    <3> QED
      BY <1>1, <1>3, <2>1, <2>4, <3>1, <3>2, FS_RemoveElement, Zenon
  <2> QED
    BY <1>1, <2>2, <2>3, <2>4, Zenon
<1>10. \A b \in Actors : pc'[b] = "leave" => b # a /\ pc[b] = "leave" /\ pend'[b] = pend[b]
  BY <1>1, Zenon
<1> QED
  BY <1>1, <1>2, <1>9, <1>10 DEF CountInv

\* A batch without repetitions has as many keys as pairs.
LEMMA BatchSize ==
  ASSUME DistinctKeys, NEW b \in Batches
  PROVE  /\ IsFiniteSet({b[i][1] : i \in DOMAIN b})
         /\ Cardinality({b[i][1] : i \in DOMAIN b}) = Len(b)
<1> DEFINE K == {b[i][1] : i \in DOMAIN b}
           f == [i \in 1 .. Len(b) |-> b[i][1]]
<1>1. b \in Seq(Keys \X Vals)
  BY StoreAssumption, Zenon
<1>2. Len(b) \in Nat /\ DOMAIN b = 1 .. Len(b)
  BY <1>1
<1>3. f \in Bijection(1 .. Len(b), K)
  <2>1. f \in [1 .. Len(b) -> K] /\ \A y \in K : \E i \in 1 .. Len(b) : f[i] = y
    BY <1>2, Zenon
  <2>2. \A i, j \in 1 .. Len(b) : f[i] = f[j] => i = j
    BY <1>2, Zenon DEF DistinctKeys
  <2> HIDE DEF f, K
  <2>3. f \in Injection(1 .. Len(b), K)
    BY <2>1, <2>2, Zenon DEF Injection, IsInjective
  <2>4. f \in Surjection(1 .. Len(b), K)
    BY <2>1, Zenon DEF Surjection
  <2> QED
    BY <2>3, <2>4, Zenon DEF Bijection
<1>4. IsFiniteSet(1 .. Len(b)) /\ Cardinality(1 .. Len(b)) = Len(b)
  <2>1. /\ IsFiniteSet(1 .. Len(b))
        /\ Cardinality(1 .. Len(b)) = IF 1 > Len(b) THEN 0 ELSE Len(b) - 1 + 1
    <3>1. 1 \in Int /\ Len(b) \in Int
      BY <1>2
    <3> QED
      BY <3>1, FS_Interval, Zenon
  <2> QED
    BY <1>2, <2>1
<1> HIDE DEF f, K
<1>5. ExistsBijection(1 .. Len(b), K)
  BY <1>3, Zenon DEF ExistsBijection
<1>6. IsFiniteSet(K) /\ Cardinality(K) = Cardinality(1 .. Len(b))
  BY <1>4, <1>5, FS_Bijection, Zenon
<1> QED
  BY <1>4, <1>6, Zenon DEF K

\* SetNXMulti, holding the locks of its whole batch, counts what it purges and what
\* it stores.
LEMMA SetNXCount ==
  ASSUME DistinctKeys, BaseInv, CountInv, NEW p \in Procs, SetNXPairs(p)
  PROVE  CountInv'
<1> USE Setting
<1>0. PICK b \in Batches : b = args[p]
  <2>1. pc[p] = "msetnx"
    BY ZenonT(30) DEF SetNXPairs
  <2> QED
    BY <2>1, Zenon DEF BaseInv, ArgsInv, ArgsFit
<1> DEFINE K == {b[i][1] : i \in DOMAIN b}
           live == {i \in DOMAIN b : Live(m[b[i][1]], now)}
           checked == {i \in DOMAIN b : \A j \in live : i < j}
<1>1. PICK purged, stored :
        /\ purged = {k \in Present : \E i \in checked : b[i][1] = k}
        /\ stored = IF live = {} THEN K ELSE {}
  OBVIOUS
<1>2. K \subseteq Keys /\ \A k \in K : owner[ShardOf[k]] = p /\ ShardOf[k] \in Shards
  <2>1. pc[p] = "msetnx" /\ need[p] = {}
    BY ZenonT(30) DEF SetNXPairs
  <2>2. \A s \in Shards : s \in BatchShards(p) => owner[s] = p
    BY <2>1, Zenon DEF BaseInv, LockInv, LockOrder, LocksInOrder
  <2>3. \A i \in DOMAIN b : b[i][1] \in Keys /\ ShardOf[b[i][1]] \in Shards
    BY BatchKeys, Zenon
  <2>4. \A i \in DOMAIN b : ShardOf[b[i][1]] \in BatchShards(p)
    BY <1>0, Zenon DEF BatchShards
  <2> QED
    BY <2>2, <2>3, <2>4, Zenon
<1>3. K # {}
  <2>1. b \in Seq(Keys \X Vals) /\ b # <<>>
    BY StoreAssumption, Zenon
  <2>2. 1 \in DOMAIN b
    BY <2>1
  <2>3. b[1][1] \in K
    BY <2>2, Zenon
  <2> QED
    BY <2>3, Zenon
<1>4. /\ count' = count - Cardinality(purged) + (IF live = {} THEN Len(b) ELSE 0)
      /\ pc[p] = "msetnx" /\ pc' = [pc EXCEPT ![p] = "unlock"] /\ pend' = pend
  BY <1>0, <1>1, Zenon DEF SetNXPairs
<1>5. \A k \in Keys : m'[k] # NoEntry <=> k \in stored \/ (k \in Present /\ k \notin purged)
  <2> DEFINE valueOf(k) == b[Max({i \in DOMAIN b : b[i][1] = k})][2]
  <2>1. m' = [k \in Keys |-> IF k \in stored THEN Entry(valueOf(k), 0)
                             ELSE IF k \in purged THEN NoEntry ELSE m[k]]
    BY <1>0, <1>1, Zenon DEF SetNXPairs
  <2>2. \A k : Entry(valueOf(k), 0) # NoEntry
    BY EntryPresent, Zenon
  <2> HIDE DEF valueOf
  <2> QED
    BY <2>1, <2>2, Zenon DEF Present
<1>6. /\ purged \subseteq Present \cap K /\ stored \subseteq K
      /\ live = {} => purged = Present \cap K /\ stored = K
      /\ live # {} => stored = {}
  BY <1>1, Zenon
<1>7. \A q \in Procs : pc[q] # "reset" /\ pc'[q] # "reset"
  <2>1. \A q \in Procs : pc[q] # "reset"
    BY <1>2, <1>3, <1>4, ResetHoldsAll, Zenon
  <2> QED
    BY <1>4, <2>1, Zenon DEF BaseInv, TypeOK, Actors
<1>8. \A a \in Actors : pend[a].delta # 0 => pend[a].key \in Keys \ K /\ pc[a] = "leave"
  BY <1>2, <1>4, OwerHolds, Zenon
<1>9. \A k \in K : ~Owing(k, 1) /\ ~Owing(k, -1)
  BY <1>8 DEF Owing
<1>10. \A k, d : Owing(k, d)' <=> Owing(k, d)
  BY <1>4, Zenon DEF Owing
<1>11. Counted' = (Counted \ purged) \cup stored
  <2> HIDE DEF K, live
  <2>1. ASSUME NEW k \in Keys \ K PROVE k \in Counted' <=> k \in Counted
    BY <1>5, <1>6, <1>10, Zenon DEF Counted, Present
  <2>2. ASSUME NEW k \in K
        PROVE  k \in Counted' <=> k \in stored \/ (k \in Counted /\ k \notin purged)
    BY <1>2, <1>5, <1>9, <1>10, Zenon DEF Counted, Present
  <2>3. Counted \subseteq Keys /\ Counted' \subseteq Keys
    BY Zenon DEF Counted
  <2> QED
    BY <1>2, <1>6, <2>1, <2>2, <2>3, Zenon
<1>12. purged \subseteq Counted /\ (live = {} => (Counted \ purged) \cap stored = {})
  BY <1>2, <1>6, <1>9, Zenon DEF Counted, Present
<1>13. Cardinality(Counted') = Cardinality(Counted) - Cardinality(purged)
                                 + (IF live = {} THEN Len(b) ELSE 0)
  <2>1. /\ IsFiniteSet(Counted) /\ IsFiniteSet(Counted \ purged)
        /\ Cardinality(Counted \ purged) = Cardinality(Counted) - Cardinality(purged)
    <3>1. Counted \cap purged = purged
      BY <1>12, Zenon
    <3> QED
      BY <3>1, CountedFinite, FS_Difference, Zenon
  <2>2. IsFiniteSet(K) /\ Cardinality(K) = Len(b)
    BY BatchSize, Zenon
  <2> HIDE DEF K, live
  <2>3. Cardinality(Counted) \in Nat /\ Cardinality(purged) \in Nat
    BY <1>12, <2>1, FS_Subset, FS_CardinalityType, Zenon
  <2>4. CASE live = {}
    <3>1. Cardinality({}) = 0
      BY FS_EmptySet, Zenon
    <3>2. /\ Cardinality((Counted \ purged) \cup K)
               = Cardinality(Counted \ purged) + Cardinality(K)
                   - Cardinality((Counted \ purged) \cap K)
      BY <2>1, <2>2, FS_Union, Zenon
    <3>3. stored = K /\ (Counted \ purged) \cap K = {}
      BY <1>6, <1>12, <2>4, Zenon
    <3>4. Cardinality(K) \in Nat
      BY <2>2, FS_CardinalityType, Zenon
    <3>5. Cardinality(Counted') = Cardinality(Counted \ purged) + Cardinality(K) - 0
      BY <1>11, <3>1, <3>2, <3>3, Zenon
    <3> QED
      BY <2>1, <2>2, <2>3, <2>4, <3>4, <3>5
  <2>5. CASE live # {}
    <3>1. Counted' = Counted \ purged
      BY <1>6, <1>11, <2>5, Zenon
    <3> QED
      BY <2>1, <2>3, <2>5, <3>1
  <2> QED
    BY <2>4, <2>5, Zenon
<1>14. count' = Cardinality(Counted')
  BY <1>4, <1>7, <1>13, Zenon DEF CountInv
<1>15. ASSUME NEW a \in Actors, pc'[a] = "leave"
       PROVE  /\ pend'[a].delta = 1 => m'[pend'[a].key] # NoEntry
              /\ pend'[a].delta = -1 => m'[pend'[a].key] = NoEntry
  <2>1. pc[a] = "leave" /\ pend'[a] = pend[a]
    BY <1>4, <1>15, Zenon DEF BaseInv, TypeOK, Actors
  <2>2. /\ pend[a].delta = 1 => m[pend[a].key] # NoEntry
        /\ pend[a].delta = -1 => m[pend[a].key] = NoEntry
    BY <2>1, Zenon DEF CountInv
  <2>3. \A k \in Keys \ K : m'[k] # NoEntry <=> m[k] # NoEntry
    <3> HIDE DEF K, live
    <3> QED
      BY <1>5, <1>6, Zenon DEF Present
  <2>4. pend[a].delta \in {1, -1} => pend[a].key \in Keys \ K
    <3> HIDE DEF K, live
    <3> QED
      BY <1>8
  <2> HIDE DEF K, live
  <2> QED
    BY <2>1, <2>2, <2>3, <2>4, Zenon
<1> QED
  BY <1>7, <1>14, <1>15, Zenon DEF CountInv

\* Flush clears the maps when no update is outstanding and resets the count before
\* anybody else can count.
LEMMA FlushCounts ==
  ASSUME BaseInv, CountInv, NEW p \in Procs, FlushClear(p) \/ FlushCount(p)
  PROVE  CountInv'
<1> USE Setting
<1>1. /\ pc[p] \in {"flush", "reset"} /\ pend' = pend /\ p \in Actors
      /\ \A s \in Shards : owner[s] = p
  BY Zenon DEF FlushClear, FlushCount, BaseInv, LockInv, LockOrder, LocksInOrder, Actors
<1>2. \A a \in Actors : pend[a].delta = 0
  BY <1>1, OwerHolds, Zenon
<1>3. \A k \in Keys : ~Owing(k, 1)' /\ ~Owing(k, -1)'
  BY <1>1, <1>2 DEF Owing
<1>4. \A a \in Actors : pc[a] # "leave" /\ (a \in Procs /\ pc[a] = "reset" => a = p)
  <2>1. PICK s \in Shards : TRUE
    BY StoreAssumption DEF Shards
  <2>2. \A a \in Actors : pc[a] = "leave" => \E r \in Shards : owner[r] = a
    BY Zenon DEF BaseInv, LockInv, OwesUnderLock, DebtCovered
  <2> QED
    BY <1>1, <2>1, <2>2, ResetHoldsAll, Zenon
<1>5. Present' = {}
  <2>1. CASE FlushClear(p)
    BY <2>1, Zenon DEF FlushClear, Present
  <2>2. CASE FlushCount(p)
    BY <2>2, Zenon DEF FlushCount, Present, CountInv
  <2> QED
    BY <2>1, <2>2, Zenon
<1>6. Counted' = {}
  BY <1>3, <1>5, Zenon DEF Counted
<1>7. Cardinality({}) = 0
  BY FS_EmptySet, Zenon
<1>8. CASE FlushClear(p)
  <2>1. pc'[p] = "reset" /\ \A a \in Actors : a # p => pc'[a] = pc[a]
    BY <1>1, <1>8, Zenon DEF FlushClear, BaseInv, TypeOK
  <2> QED
    BY <1>4, <1>5, <2>1, Zenon DEF CountInv
<1>9. CASE FlushCount(p)
  <2>1. /\ pc'[p] = "unlockall" /\ \A a \in Actors : a # p => pc'[a] = pc[a]
        /\ count' = 0
    BY <1>1, <1>9, Zenon DEF FlushCount, BaseInv, TypeOK
  <2> QED
    BY <1>4, <1>5, <1>6, <1>7, <2>1, Zenon DEF CountInv
<1> QED
  BY <1>8, <1>9, Zenon

\* The other steps neither change the maps nor owe or pay a count update.
LEMMA QuietCount ==
  ASSUME CountInv, UNCHANGED <<m, count, pend>>,
         \A a \in Actors : pc'[a] = pc[a]
           \/ (pc[a] \notin {"leave", "reset"} /\ pc'[a] \notin {"leave", "reset"})
  PROVE  CountInv'
<1>1. Present' = Present /\ Counted' = Counted
  BY Zenon DEF Present, Counted, Owing
<1>2. \A a \in Actors : pc'[a] = "leave" <=> pc[a] = "leave"
  OBVIOUS
<1>3. \A p \in Procs : pc'[p] = "reset" <=> pc[p] = "reset"
  BY Zenon DEF Actors
<1> QED
  BY <1>1, <1>2, <1>3, Zenon DEF CountInv

\* Every step keeps the count in line with the keys it stands for.
LEMMA CountStep ==
  ASSUME DistinctKeys, BaseInv, CountInv, [Next]_vars
  PROVE  CountInv'
<1> USE Setting
<1>0. pc \in [Actors -> PCs] /\ Sweeper \in Actors /\ Procs \subseteq Actors
  BY Zenon DEF BaseInv, TypeOK, PCs, Actors
<1>1. CASE UNCHANGED vars
  BY <1>1, QuietCount, Zenon DEF vars
<1>2. ASSUME NEW p \in Procs, SingleKey(p) PROVE CountInv'
  <2>1. PICK k \in Keys : \E op, o : Sound(m[k], o) /\ Call(p, op, k, o)
    BY <1>2, SingleKeyCall, Zenon DEF BaseInv
  <2>2. PICK op, o : Sound(m[k], o) /\ Call(p, op, k, o)
    BY <2>1, Zenon
  <2>3. Enter(p, k, o, "idle") /\ pc[p] = "idle"
    BY <2>2, Zenon DEF Call
  <2> QED
    BY <1>0, <2>2, <2>3, EnterCount, Zenon DEF Ready
<1>3. ASSUME NEW p \in Procs, DelKey(p) PROVE CountInv'
  <2>1. PICK k \in Keys, next \in {"idle", "del"} : \E o :
          Sound(m[k], o) /\ Enter(p, k, o, next)
    BY <1>3, DelKeyEnters, Zenon
  <2>2. PICK o : Sound(m[k], o) /\ Enter(p, k, o, next)
    BY <2>1, Zenon
  <2>3. p \in Actors /\ pc[p] \in Ready(p) /\ next \in Ready(p)
    BY <1>0, <1>3, Zenon DEF DelKey, Ready
  <2> QED
    BY <2>2, <2>3, EnterCount, Zenon
<1>4. CASE SweepPurge
  <2>1. PICK e \in popped, next \in {"idle", "purge"} :
          /\ e.key \in Keys
          /\ Sound(m[e.key], SweepSection(m[e.key], e.deadline))
          /\ Enter(Sweeper, e.key, SweepSection(m[e.key], e.deadline), next)
    BY <1>4, SweepPurgeEnters, Zenon
  <2>2. pc[Sweeper] \in Ready(Sweeper) /\ next \in Ready(Sweeper)
    BY <1>4, Zenon DEF SweepPurge, Ready
  <2> QED
    BY <1>0, <2>1, <2>2, EnterCount, Zenon
<1>5. CASE SweepRead \/ SweepPop \/ Tick
  BY <1>0, <1>5, QuietCount, Zenon DEF SweepRead, SweepPop, Tick
<1>6. ASSUME NEW a \in Actors, Leave(a) PROVE CountInv'
  BY <1>6, LeaveCount, Zenon
<1>7. ASSUME NEW p \in Procs, SetNXPairs(p) PROVE CountInv'
  BY <1>7, SetNXCount, Zenon
<1>8. ASSUME NEW p \in Procs, FlushClear(p) \/ FlushCount(p) PROVE CountInv'
  BY <1>8, FlushCounts, Zenon
<1>9. ASSUME NEW p \in Procs,
             \/ Del(p) \/ SetNXMulti(p) \/ Flush(p) \/ LockNext(p) \/ UnlockNext(p)
             \/ FlushHeap(p)
      PROVE  CountInv'
  <2>1. /\ UNCHANGED <<m, count, pend>>
        /\ \/ pc' = pc
           \/ /\ pc[p] \notin {"leave", "reset"}
              /\ \E w \in PCs \ {"leave", "reset"} : pc' = [pc EXCEPT ![p] = w]
    BY <1>9, Zenon DEF Del, SetNXMulti, Flush, LockNext, UnlockNext, AfterUnlock, FlushHeap, PCs
  <2> QED
    BY <1>0, <2>1, QuietCount, Zenon
<1> QED
  BY <1>1, <1>2, <1>3, <1>4, <1>5, <1>6, <1>7, <1>8, <1>9, NextCases, Zenon

\* If no MSETNX names a key twice, Store.count is the number of entries in the maps
\* whenever no goroutine stands between a map update and its count update.
THEOREM CountCorrect ==
  ASSUME DistinctKeys
  PROVE  Spec => []CountExact
<1>1. Init => CountInv
  <2> SUFFICES ASSUME Init PROVE CountInv
    OBVIOUS
  <2>1. Counted = {}
    BY DEF Init, Counted, Present, Owing, Nothing
  <2> QED
    BY <2>1, FS_EmptySet, Zenon DEF Init, CountInv, Actors
<1>2. BaseInv /\ CountInv /\ [Next]_vars => CountInv'
  BY CountStep, Zenon
<1>3. BaseInv /\ CountInv => CountExact
  <2> SUFFICES ASSUME BaseInv, CountInv, \A a \in Actors : pc[a] \notin {"leave", "reset"}
               PROVE  count = Cardinality(Present)
    BY Zenon DEF CountExact
  <2>1. \A k \in Keys : ~Owing(k, 1) /\ ~Owing(k, -1)
    BY OwerHolds DEF Owing
  <2>2. Counted = Present
    BY <2>1, Zenon DEF Counted, Present
  <2> QED
    BY <2>2, Zenon DEF CountInv, Actors
<1> QED
  BY <1>1, <1>2, <1>3, BaseInvariant, PTL DEF Spec

-----------------------------------------------------------------------------
(***************************************************************************)
(* EXISTS, MGET, KEYS and SCAN.                                            *)
(***************************************************************************)

\* The shards, or positions of the argument list, the reader has visited.
Passed ==
  IF reader \in {"exists", "mget"} THEN 1 .. cursor - 1
  ELSE IF reader = "keys" THEN 0 .. cursor - 1
  ELSE 0 .. cursor - 2

\* How often each key should have been found there.
Goal ==
  [k \in Keys |->
    IF list # <<>> THEN Cardinality({i \in Passed : list[i] = k})
    ELSE IF k \in Matching /\ ShardOf[k] \in Passed THEN 1 ELSE 0]

\* The result lies between what was there all the time and what was there at all.
Bracketed(goal) ==
  \A k \in Keys :
    /\ k \in always => result[k] = goal[k]
    /\ result[k] <= (IF k \in ever THEN goal[k] ELSE 0)

\* Where the cursor may stand.
CursorFits ==
  /\ reader \in {"exists", "mget"} =>
       list \in Seq(Keys) /\ list # <<>> /\ cursor \in 1 .. Len(list)
  /\ reader = "keys" => list = <<>> /\ cursor \in 0 .. N - 1
  /\ reader = "scan" => list = <<>> /\ cursor \in (0 .. N) \ {1}

\* The inductive invariant: while a call runs, the history variables bracket the live
\* keys, and the result the visits made so far.
ReaderInv ==
  /\ reader \in {"idle", "exists", "mget", "keys", "scan", "done"}
  /\ result \in [Keys -> Nat]
  /\ CursorFits
  /\ reader \notin {"idle", "done"} =>
       always \subseteq LiveKeys /\ LiveKeys \subseteq ever /\ Bracketed(Goal)
  /\ ReadsBracketed

\* The mentions of k among the first n arguments.
Count(n, k) == Cardinality({i \in 1 .. n : list[i] = k})

\* One argument more adds its mention.
LEMMA CountNext ==
  ASSUME NEW n \in Nat, NEW k
  PROVE  /\ Count(n, k) \in Nat
         /\ Count(n + 1, k) = Count(n, k) + (IF list[n + 1] = k THEN 1 ELSE 0)
<1> DEFINE S == {i \in 1 .. n : list[i] = k}
           T == {i \in 1 .. n + 1 : list[i] = k}
<1>1. IsFiniteSet(S) /\ Cardinality(S) \in Nat
  <2>1. IsFiniteSet(1 .. n)
    BY FS_Interval
  <2>2. S \subseteq 1 .. n
    OBVIOUS
  <2> QED
    BY <2>1, <2>2, FS_Subset, FS_CardinalityType, Zenon
<1>2. CASE list[n + 1] = k
  <2>1. T = S \cup {n + 1} /\ n + 1 \notin S
    BY <1>2
  <2> HIDE DEF S, T
  <2> QED
    BY <1>1, <1>2, <2>1, FS_AddElement, Zenon DEF Count, S, T
<1>3. CASE list[n + 1] # k
  <2>1. T = S
    BY <1>3
  <2> QED
    BY <1>1, <1>3, <2>1 DEF Count
<1> QED
  BY <1>2, <1>3, <1>1, Zenon DEF Count

\* Visiting some keys and counting the live ones keeps the bracket.
LEMMA VisitBrackets ==
  ASSUME NEW goal, NEW next, NEW visited, NEW found,
         result \in [Keys -> Nat], \A k \in Keys : goal[k] \in Nat,
         Bracketed(goal), always \subseteq LiveKeys, LiveKeys \subseteq ever,
         found = LiveKeys \cap visited, Return(found), always' = always, ever' = ever,
         \A k \in Keys : next[k] = goal[k] + (IF k \in visited THEN 1 ELSE 0)
  PROVE  /\ result' \in [Keys -> Nat]
         /\ \A k \in Keys : /\ k \in always' => result'[k] = next[k]
                           /\ result'[k] <= (IF k \in ever' THEN next[k] ELSE 0)
<1>1. \A k \in Keys : result'[k] = result[k] + (IF k \in found THEN 1 ELSE 0)
  BY Zenon DEF Return
<1>2. result' \in [Keys -> Nat]
  BY DEF Return
<1>3. ASSUME NEW k \in Keys
      PROVE  /\ k \in always' => result'[k] = next[k]
             /\ result'[k] <= (IF k \in ever' THEN next[k] ELSE 0)
  BY <1>1, <1>3 DEF Bracketed
<1> QED
  BY <1>2, <1>3, Zenon

\* A step of EXISTS or MGET: the next argument is looked up.
LEMMA ArgumentVisited ==
  ASSUME ReaderInv, reader \in {"exists", "mget"}, LiveKeys' = LiveKeys,
         Return(LiveKeys \cap {list[cursor]}), cursor' = cursor + 1,
         reader' = (IF cursor = Len(list) THEN "done" ELSE reader),
         UNCHANGED <<list, always, ever>>
  PROVE  ReaderInv'
<1> DEFINE next == [k \in Keys |-> Count(cursor, k)]
<1>1. /\ list \in Seq(Keys) /\ list # <<>> /\ cursor \in 1 .. Len(list)
      /\ result \in [Keys -> Nat]
      /\ always \subseteq LiveKeys /\ LiveKeys \subseteq ever /\ Bracketed(Goal)
  BY Zenon DEF ReaderInv, CursorFits
<1>2. cursor \in Nat /\ cursor - 1 \in Nat /\ Len(list) \in Nat /\ cursor <= Len(list)
      /\ (cursor - 1) + 1 = cursor
  BY <1>1
<1>3. \A k \in Keys : Goal[k] = Count(cursor - 1, k)
  BY <1>1, Zenon DEF Goal, Passed, Count
<1>4. \A k \in Keys : /\ Goal[k] \in Nat
                      /\ next[k] = Goal[k] + (IF k \in {list[cursor]} THEN 1 ELSE 0)
  <2> DEFINE n == cursor - 1
  <2>1. n \in Nat /\ n + 1 = cursor
    BY <1>2, Zenon
  <2>2. \A k \in Keys : /\ Count(n, k) \in Nat
                        /\ Count(n + 1, k) = Count(n, k) + (IF list[n + 1] = k THEN 1 ELSE 0)
    <3> HIDE DEF n
    <3> QED
      BY <2>1, CountNext, Zenon
  <2>3. \A k \in Keys : Goal[k] = Count(n, k)
    BY <1>3, Zenon
  <2> HIDE DEF n
  <2> QED
    BY <2>1, <2>2, <2>3, Zenon
<1> HIDE DEF next
<1>5. /\ result' \in [Keys -> Nat]
      /\ \A k \in Keys : /\ k \in always' => result'[k] = next[k]
                        /\ result'[k] <= (IF k \in ever' THEN next[k] ELSE 0)
  BY <1>1, <1>4, VisitBrackets, Zenon
<1>6. CASE cursor = Len(list)
  <2>1. \A k \in Keys : Mentions(k)' = next[k]
    <3>1. DOMAIN list = 1 .. cursor
      BY <1>1, <1>6
    <3> QED
      BY <3>1, Zenon DEF Mentions, next, Count
  <2>2. ReadsBracketed'
    BY <1>1, <1>5, <2>1, Zenon DEF ReadsBracketed
  <2> QED
    BY <1>5, <1>6, <2>2, Zenon DEF ReaderInv, CursorFits
<1>7. CASE cursor # Len(list)
  <2>1. reader' = reader /\ cursor' \in 1 .. Len(list) /\ cursor' - 1 = cursor
    BY <1>2, <1>7
  <2>2. \A k \in Keys : Goal'[k] = next[k]
    BY <1>1, <2>1, Zenon DEF Goal, Passed, Count, next
  <2>3. Bracketed(Goal)'
    BY <1>5, <2>2, Zenon DEF Bracketed
  <2>4. CursorFits' /\ ReadsBracketed'
    BY <1>1, <2>1, Zenon DEF CursorFits, ReadsBracketed
  <2> QED
    BY <1>1, <1>5, <2>1, <2>3, <2>4, Zenon DEF ReaderInv
<1> QED
  BY <1>6, <1>7, Zenon

\* A step of KEYS or SCAN: shard s is visited.
LEMMA ShardVisited ==
  ASSUME ReaderInv, reader \in {"keys", "scan"}, LiveKeys' = LiveKeys, NEW s \in Shards,
         Passed = 0 .. s - 1, Visit(s), UNCHANGED <<list, always, ever>>,
         IF s + 1 = N THEN reader' = "done" ELSE reader' = reader /\ Passed' = 0 .. s,
         CursorFits'
  PROVE  ReaderInv'
<1> DEFINE visited == {k \in Matching : ShardOf[k] = s}
           next == [k \in Keys |-> IF k \in Matching /\ ShardOf[k] \in 0 .. s THEN 1 ELSE 0]
<1>1. /\ list = <<>> /\ result \in [Keys -> Nat]
      /\ always \subseteq LiveKeys /\ LiveKeys \subseteq ever /\ Bracketed(Goal)
  BY Zenon DEF ReaderInv, CursorFits
<1>2. \A k \in Keys : ShardOf[k] \in Shards
  BY Setting, Zenon
<1>3. \A k \in Keys : Goal[k] = IF k \in Matching /\ ShardOf[k] \in 0 .. s - 1 THEN 1 ELSE 0
  BY <1>1, Zenon DEF Goal
<1>4. \A k \in Keys : /\ Goal[k] \in Nat
                      /\ next[k] = Goal[k] + (IF k \in visited THEN 1 ELSE 0)
  BY <1>2, <1>3, StoreAssumption DEF Shards
<1>5. Return(LiveKeys \cap visited)
  <2>1. LiveKeys \cap visited = {k \in LiveKeys \cap Matching : ShardOf[k] = s}
    OBVIOUS
  <2> QED
    BY <2>1, Zenon DEF Visit
<1> HIDE DEF next, visited
<1>6. /\ result' \in [Keys -> Nat]
      /\ \A k \in Keys : /\ k \in always' => result'[k] = next[k]
                        /\ result'[k] <= (IF k \in ever' THEN next[k] ELSE 0)
  BY <1>1, <1>4, <1>5, VisitBrackets, Zenon
<1>7. CASE s + 1 = N
  <2>1. \A k \in Keys : next[k] = IF k \in Matching THEN 1 ELSE 0
    BY <1>2, <1>7, StoreAssumption DEF next, Shards
  <2>2. ReadsBracketed'
    BY <1>1, <1>6, <2>1, Zenon DEF ReadsBracketed
  <2> QED
    BY <1>6, <1>7, <2>2, Zenon DEF ReaderInv
<1>8. CASE s + 1 # N
  <2>1. \A k \in Keys : Goal'[k] = next[k]
    BY <1>1, <1>8, Zenon DEF Goal, next
  <2>2. Bracketed(Goal)'
    BY <1>6, <2>1, Zenon DEF Bracketed
  <2>3. ReadsBracketed'
    BY <1>8, Zenon DEF ReadsBracketed
  <2> QED
    BY <1>1, <1>6, <1>8, <2>2, <2>3, Zenon DEF ReaderInv
<1> QED
  BY <1>7, <1>8, Zenon

\* The goal is a number of visits.
LEMMA GoalType ==
  ASSUME ReaderInv, reader \notin {"idle", "done"}
  PROVE  \A k \in Keys : Goal[k] \in Nat
<1>1. CASE reader \in {"exists", "mget"}
  <2> DEFINE n == cursor - 1
  <2>1. n \in Nat /\ list # <<>>
    BY <1>1 DEF ReaderInv, CursorFits
  <2>2. \A k \in Keys : Goal[k] = Count(n, k)
    BY <1>1, <2>1, Zenon DEF Goal, Passed, Count
  <2> HIDE DEF n
  <2> QED
    BY <2>1, <2>2, CountNext
<1>2. CASE reader \in {"keys", "scan"}
  BY <1>2, Zenon DEF ReaderInv, CursorFits, Goal
<1> QED
  BY <1>1, <1>2, Zenon DEF ReaderInv

\* The argument EXISTS and MGET look at next is a key.
LEMMA ArgumentIsKey ==
  ASSUME ReaderInv, reader \in {"exists", "mget"}
  PROVE  list[cursor] \in Keys
<1>1. list \in Seq(Keys) /\ cursor \in 1 .. Len(list)
  BY Zenon DEF ReaderInv, CursorFits
<1> QED
  BY <1>1

\* The store keeps its types and its lock discipline next to a reader.
LEMMA ReaderBase ==
  ASSUME BaseInv, ReaderInv, [ReaderNext]_<<vars, rvars>>
  PROVE  BaseInv'
<1>1. CASE [Next]_vars
  BY <1>1, BaseStep, Zenon
<1>2. ASSUME MGetKey PROVE BaseInv'
  <2> DEFINE k == list[cursor]
             o == GetSection(m[k], now)
  <2>1. k \in Keys
    <3>1. reader = "mget"
      BY <1>2, Zenon DEF MGetKey
    <3> QED
      BY <3>1, ArgumentIsKey, Zenon
  <2>2. /\ m' = [m EXCEPT ![k] = o.entry] /\ count' = count + o.delta
        /\ UNCHANGED <<heap, now, owner, pc, need, args, pend, snow, popped>>
    BY <1>2, Zenon DEF MGetKey
  <2>3. Sound(m[k], o)
    <3> HIDE DEF k
    <3> QED
      BY <2>1, SectionsSound, Zenon DEF BaseInv, TypeOK
  <2> HIDE DEF k, o
  <2>4. TypeOK'
    <3>1. DOMAIN m' = Keys /\ \A j \in Keys : WellFormed(m'[j])
      BY <2>1, <2>2, <2>3, Zenon DEF BaseInv, TypeOK, Sound
    <3>2. count' \in Int
      <4>1. count \in Int
        BY Zenon DEF BaseInv, TypeOK
      <4>2. o.delta \in Int
        BY <2>3 DEF Sound, Weight
      <4> QED
        BY <2>2, <4>1, <4>2
    <3> QED
      BY <2>2, <3>1, <3>2, Zenon DEF BaseInv, TypeOK
  <2> QED
    BY <2>2, <2>4, Untouched, Zenon DEF BaseInv
<1> QED
  BY <1>1, <1>2, Zenon DEF ReaderNext, BeginExists, BeginMGet, BeginKeys, BeginScan, Begin, Reading,
     ExistsKey, KeysShard, ScanCall, Others, rvars

\* What MGET removes under the lock was not live.
LEMMA MGetUnseen ==
  ASSUME TypeOK, list[cursor] \in Keys, MGetKey
  PROVE  LiveKeys' = LiveKeys /\ Return(LiveKeys \cap {list[cursor]})
<1> DEFINE k == list[cursor]
           o == GetSection(m[k], now)
<1>1. /\ m' = [m EXCEPT ![k] = o.entry] /\ now' = now
      /\ Return(IF o.reply = Nil THEN {} ELSE {k})
  BY Zenon DEF MGetKey
<1>2. /\ o.entry = IF Live(m[k], now) THEN m[k] ELSE NoEntry
      /\ o.reply = Nil <=> ~Live(m[k], now)
  BY Zenon DEF GetSection, Outcome, Missed, BulkReply, Nil
<1> HIDE DEF o, k
<1>3. \A j \in Keys : Live(m'[j], now') <=> Live(m[j], now)
  BY <1>1, <1>2, Zenon DEF TypeOK, Live
<1>4. LiveKeys \cap {k} = IF o.reply = Nil THEN {} ELSE {k}
  BY <1>2, Zenon DEF LiveKeys, k
<1> QED
  BY <1>1, <1>3, <1>4, Zenon DEF LiveKeys, k

\* Every step, of the reader and of the others, keeps the reader's invariant.
LEMMA ReaderStep ==
  ASSUME BaseInv, ReaderInv, [ReaderNext]_<<vars, rvars>>
  PROVE  ReaderInv'
<1>1. ASSUME NEW what \in {"exists", "mget", "keys", "scan"}, NEW from, NEW ks,
             Begin(what, from, ks),
             \/ what \in {"exists", "mget"} /\ from = 1 /\ ks \in Seq(Keys) \ {<<>>}
             \/ what \in {"keys", "scan"} /\ from = 0 /\ ks = <<>>
      PROVE  ReaderInv'
  <2>1. /\ reader' = what /\ cursor' = from /\ list' = ks
        /\ result' = [k \in Keys |-> 0]
        /\ always' = LiveKeys' /\ ever' = LiveKeys'
    BY <1>1, Zenon DEF Begin, vars, LiveKeys
  <2>2. CursorFits'
    BY <1>1, <2>1, StoreAssumption DEF CursorFits
  <2>3. Passed' = {}
    BY <1>1, <2>1 DEF Passed
  <2>4. \A k \in Keys : Goal'[k] = 0
    BY <2>3, FS_EmptySet, Zenon DEF Goal
  <2>5. Bracketed(Goal)'
    BY <2>1, <2>4 DEF Bracketed
  <2>6. ReadsBracketed'
    BY <1>1, <2>1, Zenon DEF ReadsBracketed
  <2> QED
    BY <2>1, <2>2, <2>5, <2>6, Zenon DEF ReaderInv
<1>2. CASE BeginExists \/ BeginMGet \/ BeginKeys \/ BeginScan
  BY <1>1, <1>2, StoreAssumption, Zenon DEF BeginExists, BeginMGet, BeginKeys, BeginScan
<1>3. CASE ExistsKey
  <2>1. LiveKeys' = LiveKeys
    BY <1>3, Zenon DEF ExistsKey, vars, LiveKeys
  <2> QED
    BY <1>3, <2>1, ArgumentVisited, Zenon DEF ExistsKey
<1>4. CASE MGetKey
  <2>1. reader = "mget" /\ TypeOK
    BY <1>4, Zenon DEF MGetKey, BaseInv
  <2>2. list[cursor] \in Keys
    BY <2>1, ArgumentIsKey, Zenon
  <2> QED
    BY <1>4, <2>1, <2>2, MGetUnseen, ArgumentVisited, Zenon DEF MGetKey
<1>5. CASE KeysShard
  <2>1. LiveKeys' = LiveKeys
    BY <1>5, Zenon DEF KeysShard, vars, LiveKeys
  <2>2. reader = "keys" /\ cursor \in Shards /\ cursor \in Nat /\ Visit(cursor)
    BY <1>5 DEF KeysShard, ReaderInv, CursorFits, Shards
  <2>3. Passed = 0 .. cursor - 1
    BY <2>2, Zenon DEF Passed
  <2>4. IF cursor + 1 = N THEN reader' = "done"
        ELSE reader' = reader /\ Passed' = 0 .. cursor
    BY <1>5, <2>2 DEF KeysShard, Passed
  <2>5. CursorFits'
    BY <1>5, <2>2, StoreAssumption DEF KeysShard, ReaderInv, CursorFits, Shards
  <2> QED
    BY <1>5, <2>1, <2>2, <2>3, <2>4, <2>5, ShardVisited, Zenon DEF KeysShard
<1>6. CASE ScanCall
  <2> DEFINE s == (IF cursor <= 0 \/ cursor > N THEN 1 ELSE cursor) - 1
  <2>1. LiveKeys' = LiveKeys
    BY <1>6, Zenon DEF ScanCall, vars, LiveKeys
  <2>2. /\ reader = "scan" /\ Visit(s) /\ UNCHANGED <<list, always, ever>>
        /\ cursor' = (IF s + 1 >= N THEN 0 ELSE s + 2)
        /\ reader' = (IF cursor' = 0 THEN "done" ELSE "scan")
    BY <1>6, Zenon DEF ScanCall
  <2>3. list = <<>> /\ cursor \in (0 .. N) \ {1}
    BY <2>2, Zenon DEF ReaderInv, CursorFits
  <2>4. s \in Shards /\ s \in Nat /\ Passed = 0 .. s - 1
    BY <2>2, <2>3, StoreAssumption DEF Shards, Passed
  <2> HIDE DEF s
  <2>5. IF s + 1 = N THEN reader' = "done" ELSE reader' = reader /\ Passed' = 0 .. s
    BY <2>2, <2>4, StoreAssumption DEF Shards, Passed
  <2>6. CursorFits'
    BY <2>2, <2>3, <2>4, StoreAssumption DEF CursorFits, Shards
  <2> QED
    BY <2>1, <2>2, <2>4, <2>5, <2>6, ShardVisited, Zenon
<1>7. CASE Others
  <2>1. /\ UNCHANGED <<reader, cursor, list, result>>
        /\ IF reader = "done" THEN UNCHANGED <<always, ever>>
           ELSE always' = always \cap LiveKeys' /\ ever' = ever \cup LiveKeys'
    BY <1>7, Zenon DEF Others
  <2>2. CursorFits' /\ Goal' = Goal
    BY <2>1, Zenon DEF ReaderInv, CursorFits, Goal, Passed
  <2>3. ASSUME reader \notin {"idle", "done"} PROVE Bracketed(Goal)'
    <3>1. Bracketed(Goal) /\ \A k \in Keys : result[k] \in Nat
      BY <2>3, Zenon DEF ReaderInv
    <3>2. \A k \in Keys : Goal[k] \in Nat
      BY <2>3, GoalType, Zenon
    <3>3. /\ always' \subseteq always /\ ever \subseteq ever' /\ result' = result
          /\ Goal' = Goal
      BY <2>1, <2>2, <2>3, Zenon
    <3>4. ASSUME NEW k \in Keys
          PROVE  /\ k \in always' => result[k] = Goal[k]
                 /\ result[k] <= (IF k \in ever' THEN Goal[k] ELSE 0)
      BY <3>1, <3>2, <3>3 DEF Bracketed
    <3> QED
      BY <3>3, <3>4, Zenon DEF Bracketed
  <2>4. ReadsBracketed'
    BY <2>1, Zenon DEF ReaderInv, ReadsBracketed, Mentions
  <2> QED
    BY <2>1, <2>2, <2>3, <2>4, Zenon DEF ReaderInv
<1>8. CASE UNCHANGED <<vars, rvars>>
  BY <1>8, Zenon DEF vars, rvars, ReaderInv, CursorFits, LiveKeys, Goal, Passed, Bracketed,
     ReadsBracketed, Mentions
<1> QED
  BY <1>2, <1>3, <1>4, <1>5, <1>6, <1>7, <1>8, Zenon DEF ReaderNext, Reading

\* KEYS, SCAN, EXISTS and MGET, which take one shard lock at a time: next to any writers,
\* a finished call has found every key that was there all the time, exactly once per visit,
\* and none that never was.
THEOREM ReadsCorrect == ReaderSpec => []ReadsBracketed
<1>1. Init /\ ReaderInit => BaseInv /\ ReaderInv
  BY BaseInit DEF ReaderInit, ReaderInv, CursorFits, ReadsBracketed
<1>2. BaseInv /\ ReaderInv /\ [ReaderNext]_<<vars, rvars>> => BaseInv' /\ ReaderInv'
  BY ReaderBase, ReaderStep, Zenon
<1>3. ReaderInv => ReadsBracketed
  BY Zenon DEF ReaderInv
<1> QED
  BY <1>1, <1>2, <1>3, PTL DEF ReaderSpec

-----------------------------------------------------------------------------
(***************************************************************************)
(* The dictionary, in terms of the store.                                  *)
(***************************************************************************)

\* The dictionary uses the operators of StoreOps under its own names.
LEMMA SameOperators ==
  /\ KV!NoEntry = NoEntry /\ KV!Nil = Nil
  /\ \A v, x : KV!Entry(v, x) = Entry(v, x)
  /\ \A v : KV!BulkReply(v) = BulkReply(v) /\ KV!BoolReply(v) = BoolReply(v)
  /\ \A v : KV!IntReply(v) = IntReply(v) /\ KV!ErrReply(v) = ErrReply(v)
  /\ \A e, t : KV!Live(e, t) <=> Live(e, t)
  /\ \A n : KV!Wrap(n) = Wrap(n)
  /\ \A v : KV!IsInteger(v) <=> IsInteger(v)
  /\ \A v : KV!IntOf(v) = IntOf(v)
  /\ \A n : KV!FormatInt(n) = FormatInt(n)
  /\ \A S : KV!Max(S) = Max(S)
<1>1. KV!NoEntry = NoEntry /\ KV!Nil = Nil
  BY Zenon DEF KV!NoEntry, NoEntry, KV!Nil, Nil
<1>2. \A v, x : KV!Entry(v, x) = Entry(v, x)
  BY Zenon DEF KV!Entry, Entry
<1>3. \A v : KV!BulkReply(v) = BulkReply(v) /\ KV!BoolReply(v) = BoolReply(v)
  BY Zenon DEF KV!BulkReply, BulkReply, KV!BoolReply, BoolReply
<1>4. \A v : KV!IntReply(v) = IntReply(v) /\ KV!ErrReply(v) = ErrReply(v)
  BY Zenon DEF KV!IntReply, IntReply, KV!ErrReply, ErrReply
<1>5. \A e, t : KV!Live(e, t) <=> Live(e, t)
  BY <1>1, Zenon DEF KV!Live, Live, KV!Expired, Expired
<1>6. \A n : KV!Wrap(n) = Wrap(n)
  BY Zenon DEF KV!Wrap, Wrap
<1>7. \A v : KV!IntOf(v) = IntOf(v)
  BY Zenon DEF KV!IntOf, IntOf, KV!Magnitude, Magnitude, KV!Unsigned, Unsigned, KV!Minus, Minus,
         KV!Plus, Plus, KV!Radix, Radix
<1>8. \A v : KV!IsInteger(v) <=> IsInteger(v)
  BY <1>7, Zenon DEF KV!IsInteger, IsInteger, KV!Unsigned, Unsigned, KV!Digits, Digits,
              KV!Radix, Radix, KV!Minus, Minus, KV!Plus, Plus
<1>9. \A n : KV!FormatInt(n) = FormatInt(n)
  BY Zenon DEF KV!FormatInt, FormatInt, KV!Minus, Minus, KV!Radix, Radix
<1>10. \A S : KV!Max(S) = Max(S)
  BY Zenon DEF KV!Max, Max
<1> QED
  BY <1>1, <1>2, <1>3, <1>4, <1>5, <1>6, <1>7, <1>8, <1>9, <1>10, Zenon

\* What is hidden stays hidden: looking again later shows what looking later shows.
LEMMA ShownLater ==
  ASSUME NEW e, NEW t \in Nat, NEW u \in Nat, t <= u, WellFormed(e)
  PROVE  /\ Shown(Shown(e, t), u) = Shown(e, u)
         /\ Shown(e, t) # NoEntry <=> Live(e, t)
         /\ Live(e, t) => Shown(e, t) = e
         /\ ~Live(e, t) => ~Live(e, u)
BY DEF Shown, Live, Expired, NoEntry, WellFormed

\* An absent entry shows nothing.
LEMMA ShownNothing == ASSUME NEW t PROVE ~Live(NoEntry, t) /\ Shown(NoEntry, t) = NoEntry
BY Zenon DEF Live, Shown

\* A step that writes one entry and replies is a call of the dictionary with that effect,
\* if at the step's second clock reading both entries show the same.
LEMMA CallIsDo ==
  ASSUME TypeOK, NEW p, NEW k \in Keys, NEW e, NEW f, NEW r,
         now' \in now .. MaxTime, m' = [m EXCEPT ![k] = f], Shown(e, now') = Shown(f, now'),
         reply' = <<p, r>>
  PROVE  KV!Do(p, k, e, r)
<1> USE StoreAssumption
<1>1. /\ now \in Nat /\ now' \in Nat /\ now <= now' /\ now' \in now .. MaxTime
      /\ \A j \in Keys : WellFormed(m[j])
      /\ DOMAIN m = Keys
  BY DEF TypeOK
<1>2. m'[k] = f /\ \A j \in Keys : j # k => m'[j] = m[j]
  BY <1>1, Zenon
<1> DEFINE old == [View EXCEPT ![k] = e]
<1>3. \A j \in Keys : View[j] = Shown(m[j], now) /\ old[j] = IF j = k THEN e ELSE View[j]
  BY Zenon DEF View
<1>4. \A j \in Keys : Shown(m'[j], now') = Shown(old[j], now')
  <2> SUFFICES ASSUME NEW j \in Keys PROVE Shown(m'[j], now') = Shown(old[j], now')
    OBVIOUS
  <2>1. CASE j = k
    BY <1>2, <1>3, <2>1, Zenon
  <2>2. CASE j # k
    <3>1. old[j] = Shown(m[j], now) /\ m'[j] = m[j]
      BY <1>2, <1>3, <2>2, Zenon
    <3> HIDE DEF old
    <3> QED
      BY <1>1, <3>1, ShownLater
  <2> QED
    BY <2>1, <2>2, Zenon
<1> HIDE DEF old
<1>5. [j \in Keys |-> Shown(m'[j], now')] = [j \in Keys |-> Shown(old[j], now')]
  BY <1>4, Zenon
<1>6. KV!AsOf(old, now') = [j \in Keys |-> Shown(old[j], now')]
  BY SameOperators, Zenon DEF KV!AsOf, Shown
<1>7. KV!TimePasses
  BY <1>1, Zenon DEF KV!TimePasses
<1>8. View' = KV!AsOf(old, now')
  BY <1>5, <1>6, Zenon DEF View
<1> QED
  BY <1>7, <1>8, Zenon DEF KV!Do, old

\* The dictionary has a key exactly when its entry is live, and then it is that entry.
LEMMA ViewOf ==
  ASSUME TypeOK, NEW k \in Keys
  PROVE  /\ View[k] = Shown(m[k], now)
         /\ KV!Has(k) <=> Live(m[k], now)
         /\ Live(m[k], now) => View[k] = m[k]
         /\ ~Live(m[k], now) => View[k] = NoEntry
<1>1. View[k] = Shown(m[k], now)
  BY Zenon DEF View
<1>2. now \in Nat /\ WellFormed(m[k])
  BY Zenon DEF TypeOK
<1> QED
  BY <1>1, <1>2, ShownLater, SameOperators DEF KV!Has, Shown

\* A single-key method is the dictionary's call with the same entry and the same reply.
LEMMA CallDoes ==
  ASSUME TypeOK, NEW p, NEW op, NEW k \in Keys, NEW o, NEW e, NEW r,
         now' \in now .. MaxTime, Call(p, op, k, o),
         o.entry = e \/ (~Live(o.entry, now') /\ ~Live(e, now')), o.reply = r
  PROVE  KV!Do(p, k, e, r)
<1>1. m' = [m EXCEPT ![k] = o.entry] /\ reply' = <<p, r>>
  BY Zenon DEF Call, Enter
<1>2. Shown(e, now') = Shown(o.entry, now')
  BY Zenon DEF Shown
<1> QED
  BY <1>1, <1>2, CallIsDo, Zenon

-----------------------------------------------------------------------------
(***************************************************************************)
(* One lemma per method: its critical section is the dictionary's call.    *)
(***************************************************************************)

\* A section reads the clock once or twice: the dictionary's time passes alike.
LEMMA ClockMoves ==
  ASSUME TypeOK, now <= MaxTime, ReadsClockOnce \/ ReadsClockTwice
  PROVE  now' \in now .. MaxTime /\ now' \in Nat /\ now' > 0
BY StoreAssumption DEF ReadsClockOnce, ReadsClockTwice, TypeOK

\* Get, purge included, is the dictionary's Get.
LEMMA GetAtomic ==
  ASSUME TypeOK, now <= MaxTime, NEW p \in Procs, Get(p)
  PROVE  KV!Get(p)
<1>1. PICK k \in Keys : ReadsClockOnce /\ Call(p, "get", k, GetSection(m[k], now))
  BY Zenon DEF Get
<1> DEFINE o == GetSection(m[k], now)
           r == IF KV!Has(k) THEN KV!BulkReply(View[k].val) ELSE KV!Nil
<1>2. o.entry = View[k] /\ o.reply = r
  BY ViewOf, SameOperators, Zenon DEF GetSection, Outcome, Missed
<1> HIDE DEF o
<1>3. KV!Do(p, k, View[k], r)
  BY <1>1, <1>2, ClockMoves, CallDoes, Zenon DEF o
<1> QED
  BY <1>3, Zenon DEF KV!Get

\* Set in its three modes.
LEMMA SetAtomic ==
  ASSUME TypeOK, now <= MaxTime, NEW p \in Procs, Set(p)
  PROVE  KV!Set(p) \/ KV!SetNX(p) \/ KV!SetXX(p)
<1>1. PICK k \in Keys, v \in Vals, ttl \in TTLs, mode \in {"always", "NX", "XX"} :
        ReadsClockTwice /\ Call(p, "set", k, SetSection(m[k], now, now', v, ttl, mode))
  BY Zenon DEF Set
<1> DEFINE o == SetSection(m[k], now, now', v, ttl, mode)
           dl == IF ttl > 0 THEN now' + ttl ELSE 0
<1>2. \A e, r : o.entry = e /\ o.reply = r => KV!Do(p, k, e, r)
  BY <1>1, ClockMoves, CallDoes, Zenon
<1>3. CASE mode = "NX" /\ Live(m[k], now)
  <2>1. o.entry = View[k] /\ o.reply = KV!BoolReply(FALSE)
    BY <1>3, ViewOf, SameOperators, Zenon DEF SetSection, Outcome
  <2> QED
    BY <1>2, <1>3, <2>1, ViewOf, Zenon DEF KV!SetNX
<1>4. CASE mode = "XX" /\ ~Live(m[k], now)
  <2>1. o.entry = KV!NoEntry /\ o.reply = KV!BoolReply(FALSE)
    BY <1>4, SameOperators, Zenon DEF SetSection, Outcome, Missed
  <2> QED
    BY <1>2, <1>4, <2>1, ViewOf, Zenon DEF KV!SetXX
<1>5. CASE ~(mode = "NX" /\ Live(m[k], now)) /\ ~(mode = "XX" /\ ~Live(m[k], now))
  <2>1. o.entry = KV!Entry(v, dl) /\ o.reply = KV!BoolReply(TRUE)
    BY <1>5, SameOperators, Zenon DEF SetSection, Outcome
  <2>2. KV!SetAs(p, k, v, ttl)
    BY <1>2, <2>1, Zenon DEF KV!SetAs
  <2>3. CASE mode = "always"
    BY <2>2, Zenon DEF KV!Set
  <2>4. CASE mode = "NX"
    BY <1>5, <2>2, <2>4, ViewOf, Zenon DEF KV!SetNX
  <2>5. CASE mode = "XX"
    BY <1>5, <2>2, <2>5, ViewOf, Zenon DEF KV!SetXX
  <2> QED
    BY <2>3, <2>4, <2>5, Zenon
<1> QED
  BY <1>3, <1>4, <1>5, Zenon

\* IncrBy: the same sum, wrapped alike, and the same refusal.
LEMMA IncrByAtomic ==
  ASSUME TypeOK, now <= MaxTime, NEW p \in Procs, IncrBy(p)
  PROVE  KV!IncrBy(p)
<1>1. PICK k \in Keys, by \in Increments :
        ReadsClockOnce /\ Call(p, "incrby", k, IncrBySection(m[k], now, by))
  BY Zenon DEF IncrBy
<1> DEFINE o == IncrBySection(m[k], now, by)
           sum == KV!Wrap((IF KV!Has(k) THEN KV!IntOf(View[k].val) ELSE 0) + by)
<1>2. \A e, r : o.entry = e /\ o.reply = r => KV!Do(p, k, e, r)
  BY <1>1, ClockMoves, CallDoes, Zenon
<1>3. sum = Wrap((IF Live(m[k], now) THEN IntOf(m[k].val) ELSE 0) + by)
  BY ViewOf, SameOperators, Zenon
<1>4. CASE KV!Has(k) /\ ~KV!IsInteger(View[k].val)
  <2>1. o.entry = View[k] /\ o.reply = KV!ErrReply("not an integer")
    BY <1>4, ViewOf, SameOperators, Zenon DEF IncrBySection, Outcome
  <2> QED
    BY <1>2, <1>4, <2>1, Zenon DEF KV!IncrBy
<1>5. CASE ~(KV!Has(k) /\ ~KV!IsInteger(View[k].val))
  <2>1. o.entry = KV!Entry(KV!FormatInt(sum), 0) /\ o.reply = KV!IntReply(sum)
    <3> HIDE DEF sum
    <3> QED
      BY <1>3, <1>5, ViewOf, SameOperators, Zenon DEF IncrBySection, Outcome
  <2> QED
    BY <1>2, <1>5, <2>1, Zenon DEF KV!IncrBy
<1> QED
  BY <1>4, <1>5, Zenon

\* Append: an expired value is not extended, the limit applies to the whole.
LEMMA AppendAtomic ==
  ASSUME TypeOK, now <= MaxTime, NEW p \in Procs, AppendTo(p)
  PROVE  KV!AppendTo(p)
<1>1. PICK k \in Keys, v \in Vals :
        ReadsClockOnce /\ Call(p, "append", k, AppendSection(m[k], now, v))
  BY Zenon DEF AppendTo
<1> DEFINE o == AppendSection(m[k], now, v)
           whole == (IF KV!Has(k) THEN View[k].val ELSE <<>>) \o v
<1>2. \A e, r : o.entry = e /\ o.reply = r => KV!Do(p, k, e, r)
  BY <1>1, ClockMoves, CallDoes, Zenon
<1>3. whole = (IF Live(m[k], now) THEN m[k].val ELSE <<>>) \o v
  BY ViewOf, Zenon
<1>4. CASE Len(whole) > MaxValLen
  <2>1. o.entry = View[k] /\ o.reply = KV!ErrReply("value too large")
    <3> HIDE DEF whole
    <3> QED
      BY <1>3, <1>4, ViewOf, SameOperators, Zenon DEF AppendSection, Outcome
  <2> QED
    BY <1>2, <1>4, <2>1, Zenon DEF KV!AppendTo
<1>5. CASE ~(Len(whole) > MaxValLen)
  <2>1. /\ o.entry = KV!Entry(whole, IF KV!Has(k) THEN View[k].exp ELSE 0)
        /\ o.reply = KV!IntReply(Len(whole))
    <3> HIDE DEF whole
    <3> QED
      BY <1>3, <1>5, ViewOf, SameOperators, Zenon DEF AppendSection, Outcome
  <2> QED
    BY <1>2, <1>5, <2>1, Zenon DEF KV!AppendTo
<1> QED
  BY <1>4, <1>5, Zenon

\* Expire, ExpireAt and ExpireAtMs from the deadline on: a key whose deadline has passed is
\* gone at once.
LEMMA DeadlineAtomic ==
  ASSUME TypeOK, now <= MaxTime, NEW p, NEW op, NEW k \in Keys, NEW dl \in Int,
         ReadsClockTwice, Call(p, op, k, DeadlineSection(m[k], now, now', dl))
  PROVE  IF KV!Has(k) THEN KV!SetDeadline(p, k, dl)
         ELSE KV!Do(p, k, KV!NoEntry, KV!BoolReply(FALSE))
<1> DEFINE o == DeadlineSection(m[k], now, now', dl)
           e == IF dl > now' THEN KV!Entry(View[k].val, dl) ELSE KV!NoEntry
<1>1. \A f, r : o.entry = f /\ o.reply = r => KV!Do(p, k, f, r)
  BY ClockMoves, CallDoes, Zenon
<1>2. CASE Live(m[k], now)
  <2>0. dl <= now' <=> ~(dl > now')
    BY ClockMoves
  <2>1. o.entry = e /\ o.reply = KV!BoolReply(TRUE)
    BY <1>2, <2>0, ViewOf, SameOperators, Zenon DEF DeadlineSection, Outcome
  <2> QED
    BY <1>1, <1>2, <2>1, ViewOf, Zenon DEF KV!SetDeadline
<1>3. CASE ~Live(m[k], now)
  <2>1. o.entry = KV!NoEntry /\ o.reply = KV!BoolReply(FALSE)
    BY <1>3, SameOperators, Zenon DEF DeadlineSection, Outcome, Missed
  <2> QED
    BY <1>1, <1>3, <2>1, ViewOf, Zenon
<1> QED
  BY <1>2, <1>3, Zenon

\* Expire sets the deadline its second clock reading gives.
LEMMA ExpireAtomic ==
  ASSUME TypeOK, now <= MaxTime, NEW p \in Procs, Expire(p)
  PROVE  KV!Expire(p)
<1>1. PICK k \in Keys, ttl \in TTLs :
        ReadsClockTwice /\ Call(p, "expire", k, ExpireSection(m[k], now, now', ttl))
  BY Zenon DEF Expire
<1>2. now' + ttl \in Int /\ (ttl <= 0 <=> now' + ttl <= now')
  BY <1>1, ClockMoves, StoreAssumption
<1>3. ExpireSection(m[k], now, now', ttl) = DeadlineSection(m[k], now, now', now' + ttl)
  BY <1>2, Zenon DEF ExpireSection, DeadlineSection
<1> QED
  BY <1>1, <1>2, <1>3, DeadlineAtomic, Zenon DEF KV!Expire

\* ExpireAt: seconds.
LEMMA ExpireAtAtomic ==
  ASSUME TypeOK, now <= MaxTime, NEW p \in Procs, ExpireAt(p)
  PROVE  KV!ExpireAt(p)
<1>1. PICK k \in Keys, sec \in Deadlines :
        ReadsClockTwice /\ Call(p, "expireat", k, ExpireAtSection(m[k], now, now', sec))
  BY Zenon DEF ExpireAt
<1>2. sec * TicksPerSec \in Int
  BY StoreAssumption, OpsAssumption
<1> QED
  BY <1>1, <1>2, DeadlineAtomic, Zenon DEF KV!ExpireAt, ExpireAtSection

\* ExpireAtMs: milliseconds.
LEMMA ExpireAtMsAtomic ==
  ASSUME TypeOK, now <= MaxTime, NEW p \in Procs, ExpireAtMs(p)
  PROVE  KV!ExpireAtMs(p)
<1>1. PICK k \in Keys, ms \in Deadlines :
        ReadsClockTwice /\ Call(p, "pexpireat", k, ExpireAtMsSection(m[k], now, now', ms))
  BY Zenon DEF ExpireAtMs
<1>2. ms * TicksPerMs \in Int
  BY StoreAssumption, OpsAssumption
<1> QED
  BY <1>1, <1>2, DeadlineAtomic, Zenon DEF KV!ExpireAtMs, ExpireAtMsSection

\* TTL looks the key up at one reading and subtracts a later one.
LEMMA TTLAtomic ==
  ASSUME TypeOK, now <= MaxTime, NEW p \in Procs, TTL(p)
  PROVE  KV!TTL(p)
<1>1. PICK k \in Keys : ReadsClockTwice /\ Call(p, "ttl", k, TTLSection(m[k], now, now'))
  BY Zenon DEF TTL, TTLOf
<1> DEFINE o == TTLSection(m[k], now, now')
           r == IF ~KV!Has(k) THEN KV!Nil
                ELSE KV!IntReply(IF View[k].exp = 0 THEN -1 ELSE View[k].exp - now')
<1>2. o.entry = View[k] /\ o.reply = r
  BY ViewOf, SameOperators, Zenon DEF TTLSection, Outcome, Missed
<1> HIDE DEF o
<1>3. KV!Do(p, k, View[k], r)
  BY <1>1, <1>2, ClockMoves, CallDoes, Zenon DEF o
<1> QED
  BY <1>3, Zenon DEF KV!TTL

\* Persist.
LEMMA PersistAtomic ==
  ASSUME TypeOK, now <= MaxTime, NEW p \in Procs, Persist(p)
  PROVE  KV!Persist(p)
<1>1. PICK k \in Keys : ReadsClockOnce /\ Call(p, "persist", k, PersistSection(m[k], now))
  BY Zenon DEF Persist
<1> DEFINE o == PersistSection(m[k], now)
<1>2. \A e, r : o.entry = e /\ o.reply = r => KV!Do(p, k, e, r)
  BY <1>1, ClockMoves, CallDoes, Zenon
<1>3. CASE KV!Has(k) /\ View[k].exp # 0
  <2>1. o.entry = KV!Entry(View[k].val, 0) /\ o.reply = KV!BoolReply(TRUE)
    BY <1>3, ViewOf, SameOperators, Zenon DEF PersistSection, Outcome
  <2> QED
    BY <1>2, <1>3, <2>1, Zenon DEF KV!Persist
<1>4. CASE ~(KV!Has(k) /\ View[k].exp # 0)
  <2>1. o.entry = View[k] /\ o.reply = KV!BoolReply(FALSE)
    BY <1>4, ViewOf, SameOperators, Zenon DEF PersistSection, Outcome, Missed
  <2> QED
    BY <1>2, <1>4, <2>1, Zenon DEF KV!Persist
<1> QED
  BY <1>3, <1>4, Zenon

\* GetSet returns the live value and drops the deadline.
LEMMA GetSetAtomic ==
  ASSUME TypeOK, now <= MaxTime, NEW p \in Procs, GetSet(p)
  PROVE  KV!GetSet(p)
<1>1. PICK k \in Keys, v \in Vals :
        ReadsClockOnce /\ Call(p, "getset", k, GetSetSection(m[k], now, v))
  BY Zenon DEF GetSet
<1> DEFINE o == GetSetSection(m[k], now, v)
           r == IF KV!Has(k) THEN KV!BulkReply(View[k].val) ELSE KV!Nil
<1>2. o.entry = KV!Entry(v, 0) /\ o.reply = r
  BY ViewOf, SameOperators, Zenon DEF GetSetSection, Outcome
<1> HIDE DEF o
<1>3. KV!Do(p, k, KV!Entry(v, 0), r)
  BY <1>1, <1>2, ClockMoves, CallDoes, Zenon DEF o
<1> QED
  BY <1>3, Zenon DEF KV!GetSet

\* Every key of a Del call is one atomic deletion.
LEMMA DelKeyAtomic ==
  ASSUME BaseInv, now <= MaxTime, NEW p \in Procs, DelKey(p)
  PROVE  KV!Del(p)
<1> DEFINE k == Head(args[p])
           o == DelSection(m[k], now)
           r == KV!IntReply(IF KV!Has(k) THEN 1 ELSE 0)
<1>1. args[p] \in Seq(Keys) \ {<<>>}
  BY Zenon DEF BaseInv, ArgsInv, ArgsFit, DelKey
<1>2. TypeOK /\ k \in Keys
  BY <1>1 DEF BaseInv
<1>3. m' = [m EXCEPT ![k] = o.entry] /\ reply' = <<p, o.reply>> /\ now' = now
  BY Zenon DEF DelKey, Enter
<1>4. now' \in now .. MaxTime
  BY <1>2, <1>3, StoreAssumption DEF TypeOK
<1> HIDE DEF k
<1>5. o.entry = KV!NoEntry /\ o.reply = r
  BY <1>2, ViewOf, SameOperators, Zenon DEF DelSection, Outcome
<1> HIDE DEF o
<1>6. KV!Do(p, k, KV!NoEntry, r)
  BY <1>2, <1>3, <1>4, <1>5, CallIsDo, Zenon
<1> QED
  BY <1>2, <1>6, Zenon DEF KV!Del

\* A step that leaves what every entry shows alone.
LEMMA Unseen ==
  ASSUME now' = now, reply' = reply, \A k \in Keys : Shown(m'[k], now) = Shown(m[k], now)
  PROVE  UNCHANGED KV!kvars
<1>1. View' = View
  BY Zenon DEF View
<1> QED
  BY <1>1, Zenon DEF KV!kvars

\* The sweeper's purge is invisible: what it removes is expired, although its deadline was
\* popped before.
LEMMA PurgeUnseen ==
  ASSUME BaseInv, SweepInv, SweepPurge
  PROVE  UNCHANGED KV!kvars
<1>1. PICK e \in popped :
        /\ e.key \in Keys /\ e.deadline \in Nat \ {0}
        /\ m' = [m EXCEPT ![e.key] = SweepSection(m[e.key], e.deadline).entry]
  BY SweepPurgeEnters, Zenon DEF Enter
<1>2. /\ now \in Nat /\ snow \in Nat /\ e.deadline <= now
      /\ WellFormed(m[e.key]) /\ DOMAIN m = Keys
  BY <1>1 DEF BaseInv, TypeOK, SweepInv
<1>3. Shown(SweepSection(m[e.key], e.deadline).entry, now) = Shown(m[e.key], now)
  BY <1>1, <1>2, Zenon DEF SweepSection, Outcome, Shown, Live, Expired
<1>4. now' = now /\ reply' = reply
  BY Zenon DEF SweepPurge
<1> QED
  BY <1>1, <1>2, <1>3, <1>4, Unseen, Zenon

\* Flush takes effect when the maps are cleared, under all locks.
LEMMA FlushAtomic ==
  ASSUME NEW p \in Procs, FlushClear(p)
  PROVE  KV!Flush(p)
<1>1. m' = [k \in Keys |-> NoEntry] /\ now' = now /\ reply' = <<p, KV!Nil>>
  BY SameOperators, Zenon DEF FlushClear
<1>2. View' = [k \in Keys |-> KV!NoEntry]
  BY <1>1, SameOperators, Zenon DEF View, Shown
<1> QED
  BY <1>1, <1>2, Zenon DEF KV!Flush

\* When time passes, the entries it expires leave the dictionary.
LEMMA TickAtomic ==
  ASSUME TypeOK, Tick
  PROVE  KV!Tick
<1>1. now \in Nat /\ now' = now + 1 /\ now < MaxTime /\ m' = m /\ reply' = reply
  BY Zenon DEF Tick, TypeOK
<1>2. \A k \in Keys : WellFormed(m[k]) /\ View[k] = Shown(m[k], now)
  BY Zenon DEF TypeOK, View
<1>3. \A k \in Keys : Shown(m'[k], now') = Shown(View[k], now')
  BY <1>1, <1>2, ShownLater
<1>4. KV!AsOf(View, now') = [k \in Keys |-> Shown(View[k], now')]
  BY SameOperators, Zenon DEF KV!AsOf, Shown
<1>5. View' = KV!AsOf(View, now')
  BY <1>3, <1>4, Zenon DEF View
<1>6. KV!TimePasses
  BY <1>1, StoreAssumption DEF KV!TimePasses
<1> QED
  BY <1>1, <1>5, <1>6, Zenon DEF KV!Tick

\* SetNXMulti takes effect in one step: all pairs are stored, or only expired entries
\* disappear.
LEMMA SetNXAtomic ==
  ASSUME BaseInv, now <= MaxTime, NEW p \in Procs, SetNXPairs(p)
  PROVE  KV!MSetNX(p)
<1> DEFINE b == args[p]
           live == {i \in DOMAIN b : Live(m[b[i][1]], now)}
           checked == {i \in DOMAIN b : \A j \in live : i < j}
           purged == {k \in Present : \E i \in checked : b[i][1] = k}
           named == {b[i][1] : i \in DOMAIN b}
           stored == IF live = {} THEN named ELSE {}
           valueOf(k) == b[Max({i \in DOMAIN b : b[i][1] = k})][2]
           all == IF KV!Fresh(b) THEN KV!Stored(b) ELSE View
<1>1. /\ pc[p] = "msetnx"
      /\ m' = [k \in Keys |-> IF k \in stored THEN Entry(valueOf(k), 0)
                              ELSE IF k \in purged THEN NoEntry ELSE m[k]]
      /\ reply' = <<p, BoolReply(live = {})>> /\ now' = now
  BY Zenon DEF SetNXPairs
<1>2. TypeOK /\ b \in Batches
  BY <1>1, Zenon DEF BaseInv, ArgsInv, ArgsFit
<1>3. \A i \in DOMAIN b : b[i][1] \in Keys
  BY <1>2, BatchKeys, Zenon
<1>4. KV!Fresh(b) <=> live = {}
  BY <1>2, <1>3, ViewOf, Zenon DEF KV!Fresh
<1>5. \A k \in purged : k \in Keys /\ ~Live(m[k], now)
  <2> SUFFICES ASSUME NEW k \in purged PROVE k \in Keys /\ ~Live(m[k], now)
    OBVIOUS
  <2>1. PICK i \in DOMAIN b : b[i][1] = k /\ \A j \in live : i < j
    OBVIOUS
  <2>2. i \notin live
    <3>1. i \in Int
      BY <1>2, StoreAssumption
    <3> QED
      BY <2>1, <3>1
  <2> QED
    BY <1>3, <2>1, <2>2, Zenon
<1>6. /\ now \in Nat /\ \A k \in Keys : WellFormed(m[k]) /\ View[k] = Shown(m[k], now)
      /\ \A k \in purged : Shown(m[k], now) = NoEntry
  BY <1>2, <1>5, Zenon DEF TypeOK, View, Shown
<1>7. \A k \in Keys : all[k] = IF k \in stored THEN Entry(valueOf(k), 0) ELSE View[k]
  <2> SUFFICES ASSUME NEW k \in Keys
               PROVE  all[k] = IF k \in stored THEN Entry(valueOf(k), 0) ELSE View[k]
    BY Zenon
  <2>1. KV!Stored(b)[k] = IF k \in named THEN Entry(valueOf(k), 0) ELSE View[k]
    <3>1. KV!Stored(b)[k] = IF \E i \in DOMAIN b : b[i][1] = k
                            THEN KV!Entry(valueOf(k), 0) ELSE View[k]
      BY SameOperators, Zenon DEF KV!Stored
    <3>2. k \in named <=> \E i \in DOMAIN b : b[i][1] = k
      OBVIOUS
    <3> HIDE DEF named, valueOf
    <3> QED
      BY <3>1, <3>2, SameOperators, Zenon
  <2> HIDE DEF named, valueOf, live, b
  <2> QED
    BY <1>4, <2>1, Zenon
<1> HIDE DEF live, checked, purged, named, stored, valueOf, all, b
<1>8. \A k \in Keys : Shown(m'[k], now) = Shown(all[k], now)
  <2> SUFFICES ASSUME NEW k \in Keys PROVE Shown(m'[k], now) = Shown(all[k], now)
    OBVIOUS
  <2>1. CASE k \in stored
    BY <1>1, <1>7, <2>1, Zenon
  <2>2. CASE k \notin stored
    <3>1. all[k] = Shown(m[k], now) /\ m'[k] = IF k \in purged THEN NoEntry ELSE m[k]
      BY <1>1, <1>6, <1>7, <2>2, Zenon
    <3>2. Shown(all[k], now) = Shown(m[k], now)
      BY <1>6, <3>1, ShownLater
    <3> QED
      BY <1>6, <3>1, <3>2, ShownNothing, Zenon
  <2> QED
    BY <2>1, <2>2, Zenon
<1>9. View' = KV!AsOf(all, now')
  <2>1. View' = [k \in Keys |-> Shown(all[k], now)]
    BY <1>1, <1>8, Zenon DEF View
  <2>2. KV!AsOf(all, now') = [k \in Keys |-> Shown(all[k], now')]
    BY SameOperators, Zenon DEF KV!AsOf, Shown
  <2> QED
    BY <1>1, <2>1, <2>2, Zenon
<1>10. KV!TimePasses
  BY <1>1, <1>6, StoreAssumption DEF KV!TimePasses
<1>11. reply' = <<p, KV!BoolReply(KV!Fresh(b))>>
  <2>1. KV!Fresh(b) \in BOOLEAN
    BY Zenon DEF KV!Fresh
  <2>2. CASE live = {}
    BY <1>1, <1>4, <2>1, <2>2, SameOperators, Zenon
  <2>3. CASE live # {}
    BY <1>1, <1>4, <2>1, <2>3, SameOperators, Zenon
  <2> QED
    BY <2>2, <2>3, Zenon
<1> QED
  BY <1>2, <1>9, <1>10, <1>11, Zenon DEF KV!MSetNX, all

\* The clock stays below its bound.
ClockBounded == now <= MaxTime

\* Every step of the store is a step of the dictionary or leaves it unchanged.
LEMMA StepIsAtomic ==
  ASSUME BaseInv, SweepInv, ClockBounded, [Next]_vars
  PROVE  [KV!Next]_KV!kvars
<1>0. TypeOK /\ now <= MaxTime
  BY Zenon DEF BaseInv, ClockBounded
<1>1. CASE UNCHANGED <<m, now, reply>>
  BY <1>1, Unseen, Zenon
<1>2. ASSUME NEW p \in Procs, SingleKey(p) PROVE KV!Next
  <2>1. \/ KV!Get(p) \/ KV!Set(p) \/ KV!SetNX(p) \/ KV!SetXX(p) \/ KV!IncrBy(p)
        \/ KV!AppendTo(p) \/ KV!Expire(p) \/ KV!ExpireAt(p) \/ KV!ExpireAtMs(p)
        \/ KV!TTL(p) \/ KV!Persist(p) \/ KV!GetSet(p)
    BY <1>0, <1>2, GetAtomic, SetAtomic, IncrByAtomic, AppendAtomic, ExpireAtomic,
       ExpireAtAtomic, ExpireAtMsAtomic, TTLAtomic, PersistAtomic, GetSetAtomic, Zenon
       DEF SingleKey
  <2> QED
    BY <2>1, Zenon DEF KV!Next
<1>3. ASSUME NEW p \in Procs, DelKey(p) PROVE KV!Next
  BY <1>0, <1>3, DelKeyAtomic, Zenon DEF KV!Next
<1>4. ASSUME NEW p \in Procs, SetNXPairs(p) PROVE KV!Next
  BY <1>0, <1>4, SetNXAtomic, Zenon DEF KV!Next
<1>5. ASSUME NEW p \in Procs, FlushClear(p) PROVE KV!Next
  BY <1>5, FlushAtomic, Zenon DEF KV!Next
<1>6. ASSUME Tick PROVE KV!Next
  BY <1>0, <1>6, TickAtomic, Zenon DEF KV!Next
<1>7. ASSUME SweepPurge PROVE UNCHANGED KV!kvars
  BY <1>7, PurgeUnseen, Zenon
<1>8. CASE UNCHANGED vars
  BY <1>1, <1>8, Zenon DEF vars
<1>9. ASSUME NEW p \in Procs,
             \/ Del(p) \/ SetNXMulti(p) \/ Flush(p) \/ LockNext(p) \/ UnlockNext(p)
             \/ FlushCount(p) \/ FlushHeap(p)
      PROVE  UNCHANGED <<m, now, reply>>
  BY <1>9, Zenon DEF Del, SetNXMulti, Flush, LockNext, UnlockNext, FlushCount, FlushHeap
<1>10. ASSUME (\E a \in Actors : Leave(a)) \/ SweepRead \/ SweepPop
       PROVE  UNCHANGED <<m, now, reply>>
  BY <1>10, Zenon DEF Leave, SweepRead, SweepPop
<1> QED
  BY <1>1, <1>2, <1>3, <1>4, <1>5, <1>6, <1>7, <1>8, <1>9, <1>10, NextCases, Zenon

\* No step moves the clock beyond it.
LEMMA ClockStep ==
  ASSUME TypeOK, ClockBounded, [Next]_vars
  PROVE  ClockBounded'
<1>1. ASSUME NEW p \in Procs, SingleKey(p) PROVE now' <= MaxTime
  <2>1. ReadsClockOnce \/ ReadsClockTwice
    BY <1>1, Zenon DEF SingleKey, Get, Set, IncrBy, AppendTo, Expire, ExpireAt, ExpireAtMs,
              TTL, TTLOf, Persist, GetSet
  <2> QED
    BY <2>1, Zenon DEF ReadsClockOnce, ReadsClockTwice, ClockBounded
<1>2. ASSUME Tick PROVE now' <= MaxTime
  BY <1>2, StoreAssumption DEF Tick, TypeOK
<1>3. ASSUME NEW p \in Procs,
             \/ Del(p) \/ DelKey(p) \/ SetNXMulti(p) \/ Flush(p) \/ LockNext(p)
             \/ UnlockNext(p) \/ FlushClear(p) \/ FlushCount(p) \/ FlushHeap(p)
      PROVE  now' = now
  BY <1>3, Zenon DEF Del, DelKey, SetNXMulti, Flush, LockNext, UnlockNext, FlushClear, FlushCount,
              FlushHeap
<1>4. ASSUME NEW p \in Procs, SetNXPairs(p) PROVE now' = now
  BY <1>4, Zenon DEF SetNXPairs
<1>5. ASSUME (\E a \in Actors : Leave(a)) \/ SweepRead \/ SweepPop \/ SweepPurge
      PROVE  now' = now
  BY <1>5, Zenon DEF Leave, SweepRead, SweepPop, SweepPurge
<1>6. CASE UNCHANGED vars
  BY <1>6, Zenon DEF vars, ClockBounded
<1> QED
  BY <1>1, <1>2, <1>3, <1>4, <1>5, <1>6, NextCases, Zenon DEF ClockBounded

\* The store is linearizable: whatever clients and sweeper interleave, every step of a
\* method is one atomic call of the dictionary of KeyValue.tla with its reply, and every
\* lock, count, heap and purge step is invisible.
THEOREM StoreLinearizable == Spec => Linearizable
<1>1. Init => KV!Init
  <2> SUFFICES ASSUME Init PROVE KV!Init
    OBVIOUS
  <2>1. View = [k \in Keys |-> KV!NoEntry]
    BY ShownNothing, SameOperators, Zenon DEF Init, View
  <2> QED
    BY <2>1, SameOperators, Zenon DEF Init, KV!Init
<1>2. Init => ClockBounded
  BY StoreAssumption DEF Init, ClockBounded
<1>3. BaseInv /\ ClockBounded /\ [Next]_vars => ClockBounded'
  BY ClockStep, Zenon DEF BaseInv
<1>4. BaseInv /\ SweepInv /\ ClockBounded /\ [Next]_vars => [KV!Next]_KV!kvars
  BY StepIsAtomic, Zenon
<1> QED
  BY <1>1, <1>2, <1>3, <1>4, BaseInvariant, SweepInvariant, PTL DEF Spec, Linearizable, KV!Spec
=============================================================================
