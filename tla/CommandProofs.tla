--------------------------- MODULE CommandProofs ----------------------------
(***************************************************************************)
(* Lemmas about the handlers of Commands.tla, on which the proofs about    *)
(* Aof.tla rest: what a handler does to a dictionary, what it propagates,  *)
(* and what the replay of that does to another dictionary.                 *)
(*                                                                         *)
(* The argument for the replay: as long as no deadline is near, every      *)
(* entry is live at every clock reading, so a record has the same effect   *)
(* whenever it is executed (SameLater); and what a handler propagates,     *)
(* stamped at any later time, does to the rebuilt dictionary what the      *)
(* handler did to the real one, up to the cut to milliseconds (Carried).   *)
(***************************************************************************)
EXTENDS Commands, TLAPS

\* A section leaves an entry a map can hold, or none.
Leaves(o) == WellFormed(o.entry)

\* Every section does.
LEMMA SectionsLeave ==
  ASSUME NEW e, WellFormed(e), NEW t, NEW u \in Nat
  PROVE  /\ \A v, mode : \A ttl \in Int : Leaves(SetSection(e, t, u, v, ttl, mode))
         /\ \A v : Leaves(GetSetSection(e, t, v))
         /\ \A by : Leaves(IncrBySection(e, t, by))
         /\ \A v : Leaves(AppendSection(e, t, v))
         /\ \A ttl \in Int : Leaves(ExpireSection(e, t, u, ttl))
         /\ \A dl \in Int : Leaves(DeadlineSection(e, t, u, dl))
         /\ Leaves(PersistSection(e, t)) /\ Leaves(DelSection(e, t))
<1>1. \A r, d, x : Leaves(Outcome(NoEntry, r, d, x)) /\ Leaves(Outcome(e, r, d, x))
  BY Zenon DEF Leaves, Outcome, WellFormed
<1>2. \A v, r, d, x : \A dl \in Nat : Leaves(Outcome(Entry(v, dl), r, d, x))
  BY DEF Leaves, Outcome, WellFormed, Entry
<1>3. (IF Live(e, t) THEN e.exp ELSE 0) \in Nat
  BY Zenon DEF Live, WellFormed
<1> HIDE DEF Leaves
<1>4. \A r : Leaves(Missed(e, t, r))
  BY <1>1, Zenon DEF Missed
<1>5. ASSUME NEW v, NEW mode, NEW ttl \in Int PROVE Leaves(SetSection(e, t, u, v, ttl, mode))
  <2>1. (IF ttl > 0 THEN u + ttl ELSE 0) \in Nat
    OBVIOUS
  <2> QED
    BY <1>1, <1>2, <1>4, <2>1, Zenon DEF SetSection
<1>6. /\ \A v : Leaves(GetSetSection(e, t, v))
      /\ \A by : Leaves(IncrBySection(e, t, by))
  BY <1>1, <1>2, 0 \in Nat, Zenon DEF GetSetSection, IncrBySection
<1>7. ASSUME NEW v PROVE Leaves(AppendSection(e, t, v))
  BY <1>1, <1>2, <1>3, Zenon DEF AppendSection
<1>8. ASSUME NEW ttl \in Int PROVE Leaves(ExpireSection(e, t, u, ttl))
  <2>1. ttl <= 0 \/ u + ttl \in Nat
    OBVIOUS
  <2> QED
    BY <1>1, <1>2, <1>4, <2>1, Zenon DEF ExpireSection
<1>9. ASSUME NEW dl \in Int PROVE Leaves(DeadlineSection(e, t, u, dl))
  <2>1. dl <= u \/ dl \in Nat
    OBVIOUS
  <2> QED
    BY <1>1, <1>2, <1>4, <2>1, Zenon DEF DeadlineSection
<1>10. Leaves(PersistSection(e, t)) /\ Leaves(DelSection(e, t))
  BY <1>1, <1>2, <1>4, 0 \in Nat, Zenon DEF PersistSection, DelSection
<1> QED
  BY <1>5, <1>6, <1>7, <1>8, <1>9, <1>10, Zenon

\* A dictionary of entries.
Dictionary(mm) == DOMAIN mm = Keys /\ \A k \in Keys : WellFormed(mm[k])

\* The product with the unit wraps, but it is a number.
LEMMA DurationInt == \A d \in Int : Duration(d) \in Int
  BY DurAssumption DEF Duration

\* Every handler leaves a dictionary.
LEMMA ExecuteMem ==
  ASSUME NEW c, IsWriteCmd(c), NEW mm, Dictionary(mm), NEW t, NEW u \in Nat
  PROVE  Dictionary(Execute(c, mm, t, u).mem)
<1>1. ASSUME NEW k, NEW o, NEW e, NEW x, k \in Keys => Leaves(o)
      PROVE  Dictionary(OnKey(mm, k, o, e, x).mem)
  BY <1>1, Zenon DEF Dictionary, Leaves, OnKey, Handled
<1>2. c.key \in Keys => WellFormed(mm[c.key])
  BY Zenon DEF Dictionary
<1> HIDE DEF Dictionary, Leaves, OnKey
<1>3. CASE c.op = "set"
  <2>1. Duration(c.ttl) \in Int
    BY <1>3, DurationInt, Zenon DEF IsWriteCmd
  <2>2. Dictionary(HSet(c, mm, t, u).mem)
    BY <1>1, <1>2, <2>1, SectionsLeave, Zenon DEF HSet
  <2> QED
    BY <1>3, <2>2, Zenon DEF Execute
<1>4. CASE c.op \in {"getset", "incrby", "append", "persist"}
  <2>1. Dictionary(HGetSet(c, mm, t).mem) /\ Dictionary(HIncrBy(c, mm, t).mem)
    BY <1>1, <1>2, SectionsLeave, Zenon DEF HGetSet, HIncrBy
  <2>2. Dictionary(HAppend(c, mm, t).mem) /\ Dictionary(HPersist(c, mm, t).mem)
    BY <1>1, <1>2, SectionsLeave, Zenon DEF HAppend, HPersist
  <2> QED
    BY <1>4, <2>1, <2>2, Zenon DEF Execute
<1>5. CASE c.op = "expire"
  <2>1. Duration(c.ttl) \in Int
    BY <1>5, DurationInt, Zenon DEF IsWriteCmd
  <2>2. Dictionary(HExpire(c, mm, t, u).mem)
    BY <1>1, <1>2, <2>1, SectionsLeave, Zenon DEF HExpire
  <2> QED
    BY <1>5, <2>2, Zenon DEF Execute
<1>6. CASE c.op = "expireat"
  <2>1. c.sec * TicksPerSec \in Int
    BY <1>6, OpsAssumption DEF IsWriteCmd
  <2>2. Dictionary(HExpireAt(c, mm, t, u).mem)
    BY <1>1, <1>2, <2>1, SectionsLeave, Zenon DEF HExpireAt, ExpireAtSection
  <2> QED
    BY <1>6, <2>2, Zenon DEF Execute
<1>7. CASE c.op = "pexpireat"
  <2>1. c.ms * TicksPerMs \in Int
    BY <1>7, OpsAssumption DEF IsWriteCmd
  <2>2. Dictionary(HPExpireAt(c, mm, t, u).mem)
    BY <1>1, <1>2, <2>1, SectionsLeave, Zenon DEF HPExpireAt, ExpireAtMsSection
  <2> QED
    BY <1>7, <2>2, Zenon DEF Execute
<1>8. CASE c.op \in {"del", "flushdb"}
  <2>1. WellFormed(NoEntry)
    BY Zenon DEF WellFormed
  <2>2. Dictionary(HDel(c, mm, t).mem) /\ Dictionary(HFlushDB(c, mm).mem)
    BY <2>1, Zenon DEF HDel, HFlushDB, Handled, Dictionary
  <2> QED
    BY <1>8, <2>2, Zenon DEF Execute
<1>9. CASE c.op \in {"mset", "msetnx"}
  <2>1. \A v : WellFormed(Entry(v, 0))
    BY Zenon DEF WellFormed, Entry
  <2>2. Dictionary(StorePairs(mm, c.pairs))
    BY <2>1, Zenon DEF StorePairs, Dictionary
  <2>3. Dictionary(HMSet(c, mm).mem) /\ Dictionary(HMSetNX(c, mm, t).mem)
    BY <2>2, Zenon DEF HMSet, HMSetNX, Handled
  <2> QED
    BY <1>9, <2>3, Zenon DEF Execute
<1> QED
  BY <1>3, <1>4, <1>5, <1>6, <1>7, <1>8, <1>9, Zenon DEF IsWriteCmd, WriteOps

\* What a handler propagates: a SET has no TTL, its deadline comes on its own.
Propagated(c) == IsWriteCmd(c) /\ c.op # "msetnx" /\ (c.op = "set" => c.ttl = 0)

\* What the file holds: deadlines are absolute.
Logged(r) == Propagated(r) /\ r.op # "expire"

\* The handlers propagate finitely many commands: none, one or two.
LEMMA ExecuteOut ==
  ASSUME NEW c, IsWriteCmd(c), NEW mm, NEW t, NEW u
  PROVE  \E S : Execute(c, mm, t, u).out \in Seq(S) /\ \A x \in S : Propagated(x)
<1> DEFINE Some(o) == \E S : o \in Seq(S) /\ \A x \in S : Propagated(x)
<1> SUFFICES Some(Execute(c, mm, t, u).out)
  OBVIOUS
<1>1. ASSUME NEW S, \A x \in S : Propagated(x) PROVE \A o \in Seq(S) : Some(o)
  BY <1>1, Zenon
<1> HIDE DEF Some
<1>2. Some(<<>>)
  <2>1. <<>> \in Seq({})
    OBVIOUS
  <2> QED
    BY <1>1, <2>1, Zenon
<1>3. ASSUME NEW x, NEW y, Propagated(x), Propagated(y)
      PROVE  Some(<<x>>) /\ Some(<<x>> \o <<>>) /\ Some(<<x>> \o <<y>>)
  <2>1. <<x>> \in Seq({x, y}) /\ <<x>> \o <<>> = <<x>> /\ <<x>> \o <<y>> \in Seq({x, y})
    OBVIOUS
  <2>2. \A z \in {x, y} : Propagated(z)
    BY <1>3, Zenon
  <2> QED
    BY <1>1, <2>1, <2>2, Zenon
<1>4. ASSUME NEW k, NEW o, NEW e, NEW x, Some(x) PROVE Some(OnKey(mm, k, o, e, x).out)
  BY <1>2, <1>4, Zenon DEF OnKey, Handled
<1>5. ASSUME NEW x, NEW y, Some(y) PROVE Some(Handled(x, y).out)
  BY <1>5, Zenon DEF Handled
<1>6. /\ \A k, v : Propagated(Plain(k, v))
      /\ \A k : \A n \in Int : Propagated(ExpireCmd(k, n)) /\ Propagated(PExpireAtCmd(k, n))
      /\ \A ks : Propagated(DelCmd(ks)) /\ Propagated(MSetCmd(ks))
  BY DEF Propagated, IsWriteCmd, WriteOps, Plain, SetCmd, ExpireCmd, PExpireAtCmd, DelCmd, MSetCmd
<1> HIDE DEF OnKey, Handled
<1>7. CASE c.op = "set"
  <2>1. Duration(c.ttl) \in Int
    BY <1>7, DurationInt, Zenon DEF IsWriteCmd
  <2>2. Some(HSet(c, mm, t, u).out)
    BY <1>3, <1>4, <1>6, <2>1, Zenon DEF HSet
  <2> QED
    BY <1>7, <2>2, Zenon DEF Execute
<1>8. CASE c.op \in {"getset", "incrby", "append", "pexpireat", "persist", "del"}
  <2>0. Propagated(c)
    BY <1>8, Zenon DEF Propagated
  <2>1. Some(HGetSet(c, mm, t).out)
    BY <1>3, <1>4, <1>6, Zenon DEF HGetSet
  <2>2. /\ Some(HIncrBy(c, mm, t).out) /\ Some(HAppend(c, mm, t).out)
        /\ Some(HPExpireAt(c, mm, t, u).out) /\ Some(HPersist(c, mm, t).out)
    BY <1>3, <1>4, <2>0, Zenon DEF HIncrBy, HAppend, HPExpireAt, HPersist
  <2>3. Some(HDel(c, mm, t).out)
    BY <1>2, <1>3, <1>5, <2>0, Zenon DEF HDel
  <2> QED
    BY <1>8, <2>1, <2>2, <2>3, Zenon DEF Execute
<1>9. CASE c.op = "expire"
  <2>1. Duration(c.ttl) \in Int
    BY <1>9, DurationInt, Zenon DEF IsWriteCmd
  <2>2. Some(HExpire(c, mm, t, u).out)
    BY <1>3, <1>4, <1>6, <2>1, Zenon DEF HExpire
  <2> QED
    BY <1>9, <2>2, Zenon DEF Execute
<1>10. CASE c.op = "expireat"
  <2>1. c.sec * (TicksPerSec \div TicksPerMs) \in Int
    <3>1. TicksPerSec \div TicksPerMs \in Int
      BY OpsAssumption
    <3> QED
      BY <1>10, <3>1 DEF IsWriteCmd
  <2>2. Some(HExpireAt(c, mm, t, u).out)
    BY <1>3, <1>4, <1>6, <2>1, Zenon DEF HExpireAt
  <2> QED
    BY <1>10, <2>2, Zenon DEF Execute
<1>11. CASE c.op \in {"mset", "flushdb"}
  <2>0. Propagated(c)
    BY <1>11, Zenon DEF Propagated
  <2>1. Some(HMSet(c, mm).out) /\ Some(HFlushDB(c, mm).out)
    BY <1>2, <1>3, <1>5, <1>6, <2>0, Zenon DEF HMSet, HFlushDB
  <2> QED
    BY <1>11, <2>1, Zenon DEF Execute
<1>12. CASE c.op = "msetnx"
  <2>1. Some(HMSetNX(c, mm, t).out)
    BY <1>2, <1>3, <1>5, <1>6, Zenon DEF HMSetNX
  <2> QED
    BY <1>12, <2>1, Zenon DEF Execute
<1> QED
  BY <1>7, <1>8, <1>9, <1>10, <1>11, <1>12, Zenon DEF IsWriteCmd, WriteOps

-----------------------------------------------------------------------------
\* A record is the command it stands for, or an absolute deadline.
LEMMA StampTyped ==
  ASSUME NEW c, Propagated(c), NEW t \in Nat
  PROVE  Logged(Stamp(c, t))
<1>1. CASE c.op = "expire"
  <2>1. (t + c.ttl) \div TicksPerMs \in Int
    BY <1>1, OpsAssumption DEF Propagated, IsWriteCmd
  <2> QED
    BY <1>1, <2>1, Zenon DEF Stamp, PExpireAtCmd, Logged, Propagated, IsWriteCmd, WriteOps
<1>2. CASE c.op # "expire"
  BY <1>2, Zenon DEF Stamp, Logged
<1> QED
  BY <1>1, <1>2, Zenon

\* No deadline of e before a millisecond after t.
Far(e, t) == e # NoEntry /\ e.exp # 0 => t + TicksPerMs <= e.exp

\* r is e with a deadline less than a millisecond earlier at worst.
Agree(e, r) ==
  /\ e = NoEntry <=> r = NoEntry
  /\ e.val = r.val
  /\ e.exp = 0 <=> r.exp = 0
  /\ e.exp < r.exp + TicksPerMs

\* Dictionary rr is dictionary mm in this sense.
Reflects(mm, rr) == Dictionary(rr) /\ \A k \in Keys : Agree(mm[k], rr[k])

-----------------------------------------------------------------------------
(***************************************************************************)
(* Arithmetic.                                                             *)
(***************************************************************************)

\* Cutting to milliseconds loses less than one.
LEMMA Cut ==
  ASSUME NEW x \in Int
  PROVE  /\ x \div TicksPerMs \in Int /\ (x \div TicksPerMs) * TicksPerMs \in Int
         /\ (x \div TicksPerMs) * TicksPerMs <= x
         /\ x < (x \div TicksPerMs) * TicksPerMs + TicksPerMs
  BY OpsAssumption

\* Seconds are whole milliseconds.
LEMMA SecondsInMs ==
  ASSUME NEW sec \in Int
  PROVE  (sec * (TicksPerSec \div TicksPerMs)) * TicksPerMs = sec * TicksPerSec
<1>1. TicksPerSec \div TicksPerMs \in Int /\ (TicksPerSec \div TicksPerMs) * TicksPerMs = TicksPerSec
  BY OpsAssumption, UnitAssumption
<1>2. \A a, b, c \in Int : (a * b) * c = a * (b * c)
  OBVIOUS
<1> QED
  BY <1>1, <1>2, OpsAssumption

\* No TTL is no Duration.
LEMMA NoTTL == Duration(0) = 0
<1>1. \A a, b \in Nat : a < b => a % b = a
  OBVIOUS
<1> QED
  BY <1>1, DurAssumption DEF Duration

-----------------------------------------------------------------------------
(***************************************************************************)
(* Entries whose deadline is far.                                          *)
(***************************************************************************)

\* An entry of the map that has not expired at n.
Steady(e, n) == Live(e, n) <=> e # NoEntry

\* Such an entry is live at every time until then.
LEMMA FarLive ==
  ASSUME NEW e, WellFormed(e), NEW t \in Nat, Far(e, t), NEW n \in Nat, n <= t
  PROVE  Steady(e, n)
  BY OpsAssumption DEF Steady, WellFormed, Far, Live, Expired

\* So is what a restart makes of it.
LEMMA FarAgreeLive ==
  ASSUME NEW e, WellFormed(e), NEW t \in Nat, Far(e, t), NEW r, WellFormed(r), Agree(e, r)
  PROVE  Steady(r, t)
  BY OpsAssumption DEF Steady, WellFormed, Far, Live, Expired, Agree

\* An entry agrees with itself.
LEMMA AgreeSelf == ASSUME NEW e, WellFormed(e) PROVE Agree(e, e)
  BY OpsAssumption DEF Agree, WellFormed, NoEntry

\* Entries without a deadline, and without the entry.
LEMMA AgreePlain == \A v : Agree(Entry(v, 0), Entry(v, 0)) /\ WellFormed(Entry(v, 0))
  BY OpsAssumption DEF Agree, Entry, WellFormed, NoEntry

\* No entry agrees with no entry.
LEMMA AgreeNone == Agree(NoEntry, NoEntry) /\ WellFormed(NoEntry)
  BY OpsAssumption DEF Agree, WellFormed, NoEntry

\* Another value, with the deadlines kept.
LEMMA AgreeValue ==
  ASSUME NEW e, WellFormed(e), NEW r, WellFormed(r), Agree(e, r), e # NoEntry, NEW v
  PROVE  Agree(Entry(v, e.exp), Entry(v, r.exp)) /\ WellFormed(Entry(v, r.exp))
  BY OpsAssumption DEF Agree, Entry, WellFormed, NoEntry

\* The same value with a deadline cut.
LEMMA AgreeCut ==
  ASSUME NEW v, NEW d \in Nat \ {0}, NEW x \in Nat \ {0}, d < x + TicksPerMs
  PROVE  Agree(Entry(v, d), Entry(v, x)) /\ WellFormed(Entry(v, x))
  BY OpsAssumption DEF Agree, Entry, WellFormed, NoEntry

-----------------------------------------------------------------------------
(***************************************************************************)
(* What the sections leave of an entry that is live if it is there at all. *)
(***************************************************************************)

\* The call was effective.
Done(o) == o.reply = BoolReply(TRUE)

\* SET and GETSET.
LEMMA SetLeaves ==
  ASSUME NEW e, NEW n, Steady(e, n), NEW u, NEW v, NEW ttl, NEW mode
  PROVE  /\ SetSection(e, n, u, v, ttl, mode).entry =
              IF Done(SetSection(e, n, u, v, ttl, mode))
              THEN Entry(v, IF ttl > 0 THEN u + ttl ELSE 0) ELSE e
         /\ mode \notin {"NX", "XX"} =>
              SetSection(e, n, u, v, ttl, mode).entry = Entry(v, IF ttl > 0 THEN u + ttl ELSE 0)
         /\ GetSetSection(e, n, v).entry = Entry(v, 0)
<1>1. BoolReply(TRUE) # BoolReply(FALSE)
  BY Zenon DEF BoolReply
<1> QED
  BY <1>1, Zenon DEF Steady, Done, SetSection, GetSetSection, Missed, Outcome

\* INCRBY: not on an entry that is no integer.
Sum(e, by) == Wrap((IF e # NoEntry THEN IntOf(e.val) ELSE 0) + by)
NotAnInteger(e) == e # NoEntry /\ ~IsInteger(e.val)

\* The sum replaces the entry.
LEMMA IncrByLeaves ==
  ASSUME NEW e, NEW n, Steady(e, n), NEW by
  PROVE  /\ IncrBySection(e, n, by).reply[1] # "err" <=> ~NotAnInteger(e)
         /\ IncrBySection(e, n, by).entry =
              IF NotAnInteger(e) THEN e ELSE Entry(FormatInt(Sum(e, by)), 0)
  BY Zenon DEF Steady, IncrBySection, Sum, NotAnInteger, Outcome, ErrReply, IntReply

\* APPEND: not beyond the limit.
Longer(e, v) == (IF e # NoEntry THEN e.val ELSE <<>>) \o v

\* The longer value, with the old deadline.
LEMMA AppendLeaves ==
  ASSUME NEW e, NEW n, Steady(e, n), NEW v
  PROVE  /\ AppendSection(e, n, v).reply[1] # "err" <=> ~(Len(Longer(e, v)) > MaxValLen)
         /\ AppendSection(e, n, v).entry =
              IF Len(Longer(e, v)) > MaxValLen THEN e
              ELSE Entry(Longer(e, v), IF e # NoEntry THEN e.exp ELSE 0)
  BY Zenon DEF Steady, AppendSection, Longer, Outcome, ErrReply, IntReply

\* The deadlines, PERSIST and DEL.
LEMMA DeadlineLeaves ==
  ASSUME NEW e, NEW n, Steady(e, n), NEW u, NEW x
  PROVE  /\ Done(ExpireSection(e, n, u, x)) <=> e # NoEntry
         /\ ExpireSection(e, n, u, x).entry =
              IF e = NoEntry \/ x <= 0 THEN NoEntry ELSE Entry(e.val, u + x)
         /\ Done(DeadlineSection(e, n, u, x)) <=> e # NoEntry
         /\ DeadlineSection(e, n, u, x).entry =
              IF e = NoEntry \/ x <= u THEN NoEntry ELSE Entry(e.val, x)
<1>1. BoolReply(TRUE) # BoolReply(FALSE)
  BY Zenon DEF BoolReply
<1> QED
  BY <1>1, Zenon DEF Steady, Done, ExpireSection, DeadlineSection, Missed, Outcome

\* PERSIST and DEL.
LEMMA PersistLeaves ==
  ASSUME NEW e, NEW n, Steady(e, n)
  PROVE  /\ Done(PersistSection(e, n)) <=> e # NoEntry /\ e.exp # 0
         /\ PersistSection(e, n).entry =
              IF e # NoEntry /\ e.exp # 0 THEN Entry(e.val, 0) ELSE e
         /\ DelSection(e, n).reply = IntReply(1) <=> e # NoEntry
         /\ DelSection(e, n).entry = NoEntry
<1>1. BoolReply(TRUE) # BoolReply(FALSE) /\ IntReply(1) # IntReply(0)
  BY DEF BoolReply, IntReply
<1> QED
  BY <1>1, Zenon DEF Steady, Done, PersistSection, DelSection, Missed, Outcome

-----------------------------------------------------------------------------
(***************************************************************************)
(* Handlers.                                                               *)
(***************************************************************************)

\* The dispatch.
LEMMA Dispatch ==
  ASSUME NEW c, NEW mm, NEW n, NEW u
  PROVE  /\ c.op = "set"       => Execute(c, mm, n, u) = HSet(c, mm, n, u)
         /\ c.op = "getset"    => Execute(c, mm, n, u) = HGetSet(c, mm, n)
         /\ c.op = "incrby"    => Execute(c, mm, n, u) = HIncrBy(c, mm, n)
         /\ c.op = "append"    => Execute(c, mm, n, u) = HAppend(c, mm, n)
         /\ c.op = "expire"    => Execute(c, mm, n, u) = HExpire(c, mm, n, u)
         /\ c.op = "expireat"  => Execute(c, mm, n, u) = HExpireAt(c, mm, n, u)
         /\ c.op = "pexpireat" => Execute(c, mm, n, u) = HPExpireAt(c, mm, n, u)
         /\ c.op = "persist"   => Execute(c, mm, n, u) = HPersist(c, mm, n)
         /\ c.op = "del"       => Execute(c, mm, n, u) = HDel(c, mm, n)
         /\ c.op = "mset"      => Execute(c, mm, n, u) = HMSet(c, mm)
         /\ c.op = "msetnx"    => Execute(c, mm, n, u) = HMSetNX(c, mm, n)
         /\ c.op = "flushdb"   => Execute(c, mm, n, u) = HFlushDB(c, mm)
<1> HIDE DEF HSet, HGetSet, HIncrBy, HAppend, HExpire, HExpireAt, HPExpireAt, HPersist, HDel, HMSet,
             HMSetNX, HFlushDB
<1> QED
  BY Zenon DEF Execute

\* Both dictionaries get a new entry for k.
LEMMA ReflectsOnKey ==
  ASSUME NEW mm, NEW rr, DOMAIN mm = Keys, Reflects(mm, rr), NEW k, NEW e, NEW r,
         k \in Keys => Agree(e, r) /\ WellFormed(r)
  PROVE  Reflects([mm EXCEPT ![k] = e], [rr EXCEPT ![k] = r])
  BY Zenon DEF Reflects, Dictionary

\* Only the store's does.
LEMMA ReflectsStill ==
  ASSUME NEW mm, NEW rr, DOMAIN mm = Keys, Reflects(mm, rr), NEW k, NEW e,
         k \in Keys => e = mm[k]
  PROVE  Reflects([mm EXCEPT ![k] = e], rr)
  BY Zenon DEF Reflects, Dictionary

\* A handler's result x is that of one store call with outcome o on key k, after which it
\* propagates cmds.
Does(x, mm, k, o, cmds) == x.mem = [mm EXCEPT ![k] = o.entry] /\ x.out = cmds

\* The handlers of one key.
LEMMA SingleKey ==
  ASSUME NEW c, NEW mm, NEW n, NEW u
  PROVE  /\ c.op = "set" =>
              LET o == SetSection(mm[c.key], n, u, c.val, Duration(c.ttl), c.mode)
              IN  Does(Execute(c, mm, n, u), mm, c.key, o,
                       IF Done(o)
                       THEN <<Plain(c.key, c.val)>>
                              \o (IF c.ttl > 0 THEN <<ExpireCmd(c.key, Duration(c.ttl))>> ELSE <<>>)
                       ELSE <<>>)
         /\ c.op = "getset" =>
              Does(Execute(c, mm, n, u), mm, c.key, GetSetSection(mm[c.key], n, c.val),
                   <<Plain(c.key, c.val)>>)
         /\ c.op = "incrby" =>
              LET o == IncrBySection(mm[c.key], n, c.by)
              IN  Does(Execute(c, mm, n, u), mm, c.key, o, IF o.reply[1] # "err" THEN <<c>> ELSE <<>>)
         /\ c.op = "append" =>
              LET o == AppendSection(mm[c.key], n, c.val)
              IN  Does(Execute(c, mm, n, u), mm, c.key, o, IF o.reply[1] # "err" THEN <<c>> ELSE <<>>)
         /\ c.op = "expire" /\ c.ttl <= 0 =>
              LET o == DelSection(mm[c.key], n)
              IN  Does(Execute(c, mm, n, u), mm, c.key, o,
                       IF o.reply = IntReply(1) THEN <<DelCmd(<<c.key>>)>> ELSE <<>>)
         /\ c.op = "expire" /\ ~(c.ttl <= 0) =>
              LET o == ExpireSection(mm[c.key], n, u, Duration(c.ttl))
              IN  Does(Execute(c, mm, n, u), mm, c.key, o,
                       IF Done(o) THEN <<ExpireCmd(c.key, Duration(c.ttl))>> ELSE <<>>)
         /\ c.op = "expireat" =>
              LET o == DeadlineSection(mm[c.key], n, u, c.sec * TicksPerSec)
              IN  Does(Execute(c, mm, n, u), mm, c.key, o,
                       IF Done(o) THEN <<PExpireAtCmd(c.key, c.sec * (TicksPerSec \div TicksPerMs))>> ELSE <<>>)
         /\ c.op = "pexpireat" =>
              LET o == DeadlineSection(mm[c.key], n, u, c.ms * TicksPerMs)
              IN  Does(Execute(c, mm, n, u), mm, c.key, o, IF Done(o) THEN <<c>> ELSE <<>>)
         /\ c.op = "persist" =>
              LET o == PersistSection(mm[c.key], n)
              IN  Does(Execute(c, mm, n, u), mm, c.key, o, IF Done(o) THEN <<c>> ELSE <<>>)
<1>1. ASSUME c.op = "set"
      PROVE  LET o == SetSection(mm[c.key], n, u, c.val, Duration(c.ttl), c.mode)
             IN  Does(Execute(c, mm, n, u), mm, c.key, o,
                      IF Done(o)
                      THEN <<Plain(c.key, c.val)>>
                             \o (IF c.ttl > 0 THEN <<ExpireCmd(c.key, Duration(c.ttl))>> ELSE <<>>)
                      ELSE <<>>)
  <2>1. Execute(c, mm, n, u) = HSet(c, mm, n, u)
    BY <1>1, Dispatch, Zenon
  <2> QED
    BY <1>1, <2>1 DEF HSet, OnKey, Handled, Does, Done
<1>2. ASSUME c.op = "getset"
      PROVE  Does(Execute(c, mm, n, u), mm, c.key, GetSetSection(mm[c.key], n, c.val),
                  <<Plain(c.key, c.val)>>)
  <2>1. Execute(c, mm, n, u) = HGetSet(c, mm, n)
    BY <1>2, Dispatch, Zenon
  <2> QED
    BY <1>2, <2>1 DEF HGetSet, OnKey, Handled, Does, Done
<1>3. ASSUME c.op = "incrby"
      PROVE  LET o == IncrBySection(mm[c.key], n, c.by)
             IN  Does(Execute(c, mm, n, u), mm, c.key, o, IF o.reply[1] # "err" THEN <<c>> ELSE <<>>)
  <2>1. Execute(c, mm, n, u) = HIncrBy(c, mm, n)
    BY <1>3, Dispatch, Zenon
  <2> QED
    BY <1>3, <2>1 DEF HIncrBy, OnKey, Handled, Does, Done
<1>4. ASSUME c.op = "append"
      PROVE  LET o == AppendSection(mm[c.key], n, c.val)
             IN  Does(Execute(c, mm, n, u), mm, c.key, o, IF o.reply[1] # "err" THEN <<c>> ELSE <<>>)
  <2>1. Execute(c, mm, n, u) = HAppend(c, mm, n)
    BY <1>4, Dispatch, Zenon
  <2> QED
    BY <1>4, <2>1 DEF HAppend, OnKey, Handled, Does, Done
<1>5. ASSUME c.op = "expire" /\ c.ttl <= 0
      PROVE  LET o == DelSection(mm[c.key], n)
             IN  Does(Execute(c, mm, n, u), mm, c.key, o,
                       IF o.reply = IntReply(1) THEN <<DelCmd(<<c.key>>)>> ELSE <<>>)
  <2>1. Execute(c, mm, n, u) = HExpire(c, mm, n, u)
    BY <1>5, Dispatch, Zenon
  <2> QED
    BY <1>5, <2>1 DEF HExpire, OnKey, Handled, Does, Done
<1>6. ASSUME c.op = "expire" /\ ~(c.ttl <= 0)
      PROVE  LET o == ExpireSection(mm[c.key], n, u, Duration(c.ttl))
             IN  Does(Execute(c, mm, n, u), mm, c.key, o,
                      IF Done(o) THEN <<ExpireCmd(c.key, Duration(c.ttl))>> ELSE <<>>)
  <2>1. Execute(c, mm, n, u) = HExpire(c, mm, n, u)
    BY <1>6, Dispatch, Zenon
  <2> QED
    BY <1>6, <2>1 DEF HExpire, OnKey, Handled, Does, Done
<1>7. ASSUME c.op = "expireat"
      PROVE  LET o == DeadlineSection(mm[c.key], n, u, c.sec * TicksPerSec)
             IN  Does(Execute(c, mm, n, u), mm, c.key, o,
                      IF Done(o) THEN <<PExpireAtCmd(c.key, c.sec * (TicksPerSec \div TicksPerMs))>> ELSE <<>>)
  <2>1. Execute(c, mm, n, u) = HExpireAt(c, mm, n, u)
    BY <1>7, Dispatch, Zenon
  <2> QED
    BY <1>7, <2>1 DEF HExpireAt, OnKey, Handled, Does, Done, ExpireAtSection
<1>8. ASSUME c.op = "pexpireat"
      PROVE  LET o == DeadlineSection(mm[c.key], n, u, c.ms * TicksPerMs)
             IN  Does(Execute(c, mm, n, u), mm, c.key, o, IF Done(o) THEN <<c>> ELSE <<>>)
  <2>1. Execute(c, mm, n, u) = HPExpireAt(c, mm, n, u)
    BY <1>8, Dispatch, Zenon
  <2> QED
    BY <1>8, <2>1 DEF HPExpireAt, OnKey, Handled, Does, Done, ExpireAtMsSection
<1>9. ASSUME c.op = "persist"
      PROVE  LET o == PersistSection(mm[c.key], n)
             IN  Does(Execute(c, mm, n, u), mm, c.key, o, IF Done(o) THEN <<c>> ELSE <<>>)
  <2>1. Execute(c, mm, n, u) = HPersist(c, mm, n)
    BY <1>9, Dispatch, Zenon
  <2> QED
    BY <1>9, <2>1 DEF HPersist, OnKey, Handled, Does, Done
<1> QED
  BY <1>1, <1>2, <1>3, <1>4, <1>5, <1>6, <1>7, <1>8, <1>9, Zenon

\* Dictionary x is rr with an entry for k that agrees with e.
Mirrors(x, rr, k, e) ==
  \E r : /\ x = [rr EXCEPT ![k] = r]
         /\ k \in Keys => Agree(e, r) /\ WellFormed(r)

\* If the store's dictionary gets e for k, x reflects it.
LEMMA MirrorsReflects ==
  ASSUME NEW mm, NEW rr, DOMAIN mm = Keys, Reflects(mm, rr), NEW x, NEW k, NEW e, Mirrors(x, rr, k, e)
  PROVE  Reflects([mm EXCEPT ![k] = e], x)
<1>1. PICK r : x = [rr EXCEPT ![k] = r] /\ (k \in Keys => Agree(e, r) /\ WellFormed(r))
  BY Zenon DEF Mirrors
<1>2. Reflects([mm EXCEPT ![k] = e], [rr EXCEPT ![k] = r])
  BY <1>1, ReflectsOnKey, Zenon
<1> QED
  BY <1>1, <1>2, Zenon

\* A record of one store call is replayed as that call.
LEMMA MirrorsCall ==
  ASSUME NEW x, NEW rr, NEW k, NEW e, NEW o, NEW cmds, Does(x, rr, k, o, cmds),
         k \in Keys => Agree(e, o.entry) /\ WellFormed(o.entry)
  PROVE  Mirrors(x.mem, rr, k, e)
  BY Zenon DEF Does, Mirrors

\* The plain SET in the file writes its value whatever was there.
LEMMA PlainRuns ==
  ASSUME NEW rr, NEW k, NEW v, NEW t
  PROVE  Mirrors(Execute(Plain(k, v), rr, t, t).mem, rr, k, Entry(v, 0))
<1> DEFINE c == Plain(k, v)
           o == SetSection(rr[c.key], t, t, c.val, Duration(c.ttl), c.mode)
<1>1. c.op = "set" /\ c.key = k /\ c.val = v /\ c.ttl = 0 /\ c.mode = "always"
  BY Zenon DEF Plain, SetCmd
<1> HIDE DEF c
<1>2. o.entry = Entry(v, 0)
  BY <1>1, NoTTL DEF SetSection, Outcome
<1>3. \E x : Does(Execute(c, rr, t, t), rr, c.key, o, x)
  BY <1>1, SingleKey, Zenon
<1> HIDE DEF o
<1>4. Mirrors(Execute(c, rr, t, t).mem, rr, k, Entry(v, 0))
  BY <1>1, <1>2, <1>3, AgreePlain, MirrorsCall, Zenon
<1> QED
  BY <1>4, Zenon DEF c

\* The deadline in the file.
LEMMA DeadlineRuns ==
  ASSUME NEW rr, NEW k, NEW ms, NEW t
  PROVE  \E x : Does(Execute(PExpireAtCmd(k, ms), rr, t, t), rr, k,
                     DeadlineSection(rr[k], t, t, ms * TicksPerMs), x)
<1> DEFINE c == PExpireAtCmd(k, ms)
<1>1. c.op = "pexpireat" /\ c.key = k /\ c.ms = ms
  BY Zenon DEF PExpireAtCmd
<1> HIDE DEF c
<1>2. \E x : Does(Execute(c, rr, t, t), rr, c.key,
                    DeadlineSection(rr[c.key], t, t, c.ms * TicksPerMs), x)
  BY <1>1, SingleKey, Zenon
<1> QED
  BY <1>1, <1>2, Zenon DEF c

-----------------------------------------------------------------------------
(***************************************************************************)
(* A record has the same effect at every time before the deadlines.        *)
(***************************************************************************)

\* No deadline of mm is near at t.
AllFar(mm, t) == \A k \in Keys : Far(mm[k], t)

\* Replaying a record now or later.
LEMMA SameLater ==
  ASSUME NEW r, Logged(r), NEW mm, Dictionary(mm), NEW n \in Nat, NEW u \in Nat, NEW t \in Nat,
         n <= u, u <= t, AllFar(mm, t), AllFar(Execute(r, mm, n, u).mem, t)
  PROVE  Execute(r, mm, n, u).mem = Execute(r, mm, t, t).mem
<1>1. ASSUME NEW k \in Keys
      PROVE  Steady(mm[k], n) /\ Steady(mm[k], t)
  <2>1. WellFormed(mm[k]) /\ Far(mm[k], t) /\ n <= t /\ t <= t
    BY DEF Dictionary, AllFar
  <2> QED
    BY <2>1, FarLive, Zenon
<1>2. ASSUME NEW k, NEW o, NEW p, k \in Keys => o.entry = p.entry, NEW x, NEW y,
             Does(Execute(r, mm, n, u), mm, k, o, x), Does(Execute(r, mm, t, t), mm, k, p, y)
      PROVE  Execute(r, mm, n, u).mem = Execute(r, mm, t, t).mem
  BY <1>2, Zenon DEF Does, Dictionary
<1>3. IsWriteCmd(r) /\ r.op # "expire" /\ r.op # "msetnx" /\ (r.op = "set" => r.ttl = 0)
  BY Zenon DEF Logged, Propagated
<1>4. CASE r.op = "set"
  <2> DEFINE o(x, y) == SetSection(mm[r.key], x, y, r.val, Duration(r.ttl), r.mode)
  <2>1. r.key \in Keys => o(n, u).entry = o(t, t).entry
    BY <1>1, <1>3, <1>4, NoTTL DEF Steady, SetSection, Missed, Outcome
  <2>2. PICK x, y : /\ Does(Execute(r, mm, n, u), mm, r.key, o(n, u), x)
                    /\ Does(Execute(r, mm, t, t), mm, r.key, o(t, t), y)
    BY <1>4, SingleKey, Zenon
  <2> HIDE DEF o
  <2> QED
    BY <1>2, <2>1, <2>2, Zenon
<1>5. CASE r.op = "getset"
  <2> DEFINE o(x, y) == GetSetSection(mm[r.key], x, r.val)
  <2>1. r.key \in Keys => o(n, u).entry = o(t, t).entry
    BY Zenon DEF GetSetSection, Outcome
  <2>2. PICK x, y : /\ Does(Execute(r, mm, n, u), mm, r.key, o(n, u), x)
                    /\ Does(Execute(r, mm, t, t), mm, r.key, o(t, t), y)
    BY <1>3, <1>5, SingleKey, Zenon
  <2> HIDE DEF o
  <2> QED
    BY <1>2, <2>1, <2>2, Zenon
<1>6. CASE r.op = "incrby"
  <2> DEFINE o(x, y) == IncrBySection(mm[r.key], x, r.by)
  <2>1. r.key \in Keys => o(n, u).entry = o(t, t).entry
    BY <1>1, IncrByLeaves
  <2>2. PICK x, y : /\ Does(Execute(r, mm, n, u), mm, r.key, o(n, u), x)
                    /\ Does(Execute(r, mm, t, t), mm, r.key, o(t, t), y)
    BY <1>3, <1>6, SingleKey, Zenon
  <2> HIDE DEF o
  <2> QED
    BY <1>2, <2>1, <2>2, Zenon
<1>7. CASE r.op = "append"
  <2> DEFINE o(x, y) == AppendSection(mm[r.key], x, r.val)
  <2>1. r.key \in Keys => o(n, u).entry = o(t, t).entry
    BY <1>1, AppendLeaves
  <2>2. PICK x, y : /\ Does(Execute(r, mm, n, u), mm, r.key, o(n, u), x)
                    /\ Does(Execute(r, mm, t, t), mm, r.key, o(t, t), y)
    BY <1>3, <1>7, SingleKey, Zenon
  <2> HIDE DEF o
  <2> QED
    BY <1>2, <2>1, <2>2, Zenon
<1>8. CASE r.op = "persist"
  <2> DEFINE o(x, y) == PersistSection(mm[r.key], x)
  <2>1. ASSUME r.key \in Keys PROVE o(n, u).entry = o(t, t).entry
    <3>1. Steady(mm[r.key], n) /\ Steady(mm[r.key], t)
      BY <1>1, <2>1, Zenon
    <3> QED
      BY <3>1, PersistLeaves
  <2>2. PICK x, y : /\ Does(Execute(r, mm, n, u), mm, r.key, o(n, u), x)
                    /\ Does(Execute(r, mm, t, t), mm, r.key, o(t, t), y)
    BY <1>3, <1>8, SingleKey, Zenon
  <2> HIDE DEF o
  <2> QED
    BY <1>2, <2>1, <2>2, Zenon
<1>9. ASSUME NEW x \in Int, NEW k \in Keys, Far(DeadlineSection(mm[k], n, u, x).entry, t)
      PROVE  DeadlineSection(mm[k], n, u, x).entry = DeadlineSection(mm[k], t, t, x).entry
  <2>1. /\ DeadlineSection(mm[k], n, u, x).entry =
             IF mm[k] = NoEntry \/ x <= u THEN NoEntry ELSE Entry(mm[k].val, x)
        /\ DeadlineSection(mm[k], t, t, x).entry =
             IF mm[k] = NoEntry \/ x <= t THEN NoEntry ELSE Entry(mm[k].val, x)
    <3>1. Steady(mm[k], n) /\ Steady(mm[k], t)
      BY <1>1, Zenon
    <3> QED
      BY <3>1, DeadlineLeaves
  <2>2. ASSUME x > u, Far(Entry(mm[k].val, x), t) PROVE x > t
    BY <2>2, OpsAssumption DEF Far, Entry, NoEntry
  <2> QED
    BY <1>9, <2>1, <2>2
<1>10. CASE r.op = "pexpireat"
  <2> DEFINE o(x, y) == DeadlineSection(mm[r.key], x, y, r.ms * TicksPerMs)
  <2>1. r.ms * TicksPerMs \in Int
    BY <1>3, <1>10, OpsAssumption DEF IsWriteCmd
  <2>2. PICK x, y : /\ Does(Execute(r, mm, n, u), mm, r.key, o(n, u), x)
                    /\ Does(Execute(r, mm, t, t), mm, r.key, o(t, t), y)
    BY <1>10, SingleKey, Zenon
  <2>3. r.key \in Keys => Far(o(n, u).entry, t)
    BY <2>2, Zenon DEF AllFar, Does, Dictionary
  <2>4. r.key \in Keys => o(n, u).entry = o(t, t).entry
    BY <1>9, <2>1, <2>3, Zenon
  <2> HIDE DEF o
  <2> QED
    BY <1>2, <2>2, <2>4, Zenon
<1>11. CASE r.op = "expireat"
  <2> DEFINE o(x, y) == DeadlineSection(mm[r.key], x, y, r.sec * TicksPerSec)
  <2>1. r.sec * TicksPerSec \in Int
    BY <1>3, <1>11, OpsAssumption DEF IsWriteCmd
  <2>2. PICK x, y : /\ Does(Execute(r, mm, n, u), mm, r.key, o(n, u), x)
                    /\ Does(Execute(r, mm, t, t), mm, r.key, o(t, t), y)
    BY <1>11, SingleKey, Zenon
  <2>3. r.key \in Keys => Far(o(n, u).entry, t)
    BY <2>2, Zenon DEF AllFar, Does, Dictionary
  <2>4. r.key \in Keys => o(n, u).entry = o(t, t).entry
    BY <1>9, <2>1, <2>3, Zenon
  <2> HIDE DEF o
  <2> QED
    BY <1>2, <2>2, <2>4, Zenon
<1>12. CASE r.op \in {"del", "mset", "flushdb"}
  <2>1. HDel(r, mm, n).mem = HDel(r, mm, t).mem
    BY Zenon DEF HDel, Handled
  <2> QED
    BY <1>12, <2>1, Dispatch
<1> QED
  BY <1>3, <1>4, <1>5, <1>6, <1>7, <1>8, <1>10, <1>11, <1>12, Zenon DEF IsWriteCmd, WriteOps

-----------------------------------------------------------------------------
(***************************************************************************)
(* What a handler propagates brings the rebuilt dictionary up to date.     *)
(***************************************************************************)

\* The records of o, written at any times from n to t and replayed at t, make of rr what
\* reflects mm.
Catches(o, mm, rr, n, t) ==
  \/ Len(o) = 0 /\ Reflects(mm, rr)
  \/ /\ Len(o) = 1
     /\ \A s \in n .. t : Reflects(mm, Execute(Stamp(o[1], s), rr, t, t).mem)
  \/ /\ Len(o) = 2
     /\ \A s, v \in n .. t :
          Reflects(mm, Execute(Stamp(o[2], v), Execute(Stamp(o[1], s), rr, t, t).mem, t, t).mem)

\* A handler reads the clock at n and at u; the file is replayed at t.
Setting(mm, rr, n, u, t) ==
  /\ Dictionary(mm) /\ Reflects(mm, rr) /\ AllFar(mm, t)
  /\ n \in Nat /\ u \in Nat /\ t \in Nat /\ n <= u /\ u <= t

\* The entries of a key then.
LEMMA InSetting ==
  ASSUME NEW mm, NEW rr, NEW n, NEW u, NEW t, Setting(mm, rr, n, u, t), NEW k \in Keys
  PROVE  /\ Steady(mm[k], n) /\ Steady(rr[k], t) /\ Agree(mm[k], rr[k])
         /\ WellFormed(mm[k]) /\ WellFormed(rr[k])
<1>1. WellFormed(mm[k]) /\ WellFormed(rr[k]) /\ Far(mm[k], t) /\ Agree(mm[k], rr[k])
  BY Zenon DEF Setting, Dictionary, Reflects, AllFar
<1>2. n \in Nat /\ t \in Nat /\ n <= t
  BY DEF Setting
<1> QED
  BY <1>1, <1>2, FarLive, FarAgreeLive, Zenon

\* A handler that propagates nothing has left the entry alone.
LEMMA CarriesNothing ==
  ASSUME NEW mm, NEW rr, NEW n, NEW u, NEW t, Setting(mm, rr, n, u, t),
         NEW x, NEW k, NEW o, Does(x, mm, k, o, <<>>), k \in Keys => o.entry = mm[k]
  PROVE  Catches(x.out, x.mem, rr, u, t)
<1>1. DOMAIN mm = Keys /\ Reflects(mm, rr)
  BY Zenon DEF Setting, Dictionary
<1>2. Reflects([mm EXCEPT ![k] = o.entry], rr)
  BY <1>1, ReflectsStill, Zenon
<1> QED
  BY <1>2, Zenon DEF Does, Catches

\* A handler that propagates d has made of the entry what the replay of d does.
LEMMA CarriesOne ==
  ASSUME NEW mm, NEW rr, NEW n, NEW u, NEW t, Setting(mm, rr, n, u, t),
         NEW x, NEW k, NEW o, NEW d, Does(x, mm, k, o, <<d>>),
         \A s \in u .. t : Mirrors(Execute(Stamp(d, s), rr, t, t).mem, rr, k, o.entry)
  PROVE  Catches(x.out, x.mem, rr, u, t)
<1>1. DOMAIN mm = Keys /\ Reflects(mm, rr)
  BY Zenon DEF Setting, Dictionary
<1>2. ASSUME NEW s \in u .. t PROVE Reflects(x.mem, Execute(Stamp(d, s), rr, t, t).mem)
  <2>1. Reflects([mm EXCEPT ![k] = o.entry], Execute(Stamp(d, s), rr, t, t).mem)
    BY <1>1, MirrorsReflects, Zenon
  <2> QED
    BY <2>1, Zenon DEF Does
<1>3. Len(x.out) = 1 /\ x.out[1] = d
  BY DEF Does
<1> QED
  BY <1>2, <1>3, Zenon DEF Catches

\* A deadline d given at u and far at t, and its replay at t as a deadline x that is less
\* than a millisecond before d.
LEMMA DeadlineAgrees ==
  ASSUME NEW e, NEW r, Agree(e, r), NEW u \in Nat, NEW t \in Nat, NEW d \in Int, NEW x \in Int,
         d < x + TicksPerMs, d <= u => x <= t,
         NEW f, f = IF e = NoEntry \/ d <= u THEN NoEntry ELSE Entry(e.val, d), Far(f, t),
         NEW g, g = IF r = NoEntry \/ x <= t THEN NoEntry ELSE Entry(r.val, x)
  PROVE  Agree(f, g) /\ WellFormed(g)
<1>1. e.val = r.val /\ (e = NoEntry <=> r = NoEntry)
  BY Zenon DEF Agree
<1>2. CASE e = NoEntry \/ d <= u
  BY <1>1, <1>2, AgreeNone, Zenon
<1>3. CASE ~(e = NoEntry \/ d <= u)
  <2>1. Entry(e.val, d) # NoEntry /\ Entry(e.val, d).exp = d
    BY <1>3 DEF Entry, NoEntry
  <2>2. t + TicksPerMs <= d
    BY <1>3, <2>1 DEF Far
  <2>3. x > t /\ d \in Nat \ {0} /\ x \in Nat \ {0}
    BY <1>3, <2>2, OpsAssumption
  <2>4. f = Entry(e.val, d) /\ g = Entry(e.val, x)
    BY <1>1, <1>3, <2>3
  <2> QED
    BY <2>3, <2>4, AgreeCut, Zenon
<1> QED
  BY <1>2, <1>3, Zenon

\* INCRBY, APPEND, PERSIST and PEXPIREAT are written as they are: the same call on entries
\* that agree.
LEMMA CarriedAsIs ==
  ASSUME NEW c, c.op \in {"incrby", "append", "persist", "pexpireat"}, IsWriteCmd(c),
         NEW mm, NEW rr, NEW n, NEW u, NEW t, Setting(mm, rr, n, u, t),
         AllFar(Execute(c, mm, n, u).mem, t)
  PROVE  Catches(Execute(c, mm, n, u).out, Execute(c, mm, n, u).mem, rr, u, t)
<1> DEFINE x == Execute(c, mm, n, u)
           y == Execute(c, rr, t, t)
           k == c.key
           Carried == Catches(x.out, x.mem, rr, u, t)
<1>1. \A s : Stamp(c, s) = c
  BY Zenon DEF Stamp
<1>2. ASSUME k \in Keys
      PROVE  /\ Steady(mm[k], n) /\ Steady(rr[k], t) /\ Agree(mm[k], rr[k])
             /\ WellFormed(mm[k]) /\ WellFormed(rr[k])
  BY <1>2, InSetting, Zenon
<1>3. ASSUME NEW o, Does(x, mm, k, o, <<>>), k \in Keys => o.entry = mm[k]
      PROVE  Carried
  BY <1>3, CarriesNothing, Zenon
<1>4. ASSUME NEW o, NEW p, NEW f, Does(x, mm, k, o, <<c>>), Does(y, rr, k, p, f),
             k \in Keys => Agree(o.entry, p.entry) /\ WellFormed(p.entry)
      PROVE  Carried
  <2>1. Mirrors(y.mem, rr, k, o.entry)
    BY <1>4, MirrorsCall, Zenon
  <2>2. \A s \in u .. t : Mirrors(Execute(Stamp(c, s), rr, t, t).mem, rr, k, o.entry)
    BY <1>1, <2>1, Zenon
  <2> QED
    BY <1>4, <2>2, CarriesOne, Zenon
<1>5. CASE c.op = "incrby"
  <2> DEFINE o == IncrBySection(mm[k], n, c.by)
             p == IncrBySection(rr[k], t, c.by)
  <2>1. /\ Does(x, mm, k, o, IF o.reply[1] # "err" THEN <<c>> ELSE <<>>)
        /\ Does(y, rr, k, p, IF p.reply[1] # "err" THEN <<c>> ELSE <<>>)
    BY <1>5, SingleKey, Zenon
  <2>2. ASSUME k \in Keys
        PROVE  IF o.reply[1] # "err" THEN Agree(o.entry, p.entry) /\ WellFormed(p.entry)
               ELSE o.entry = mm[k]
    <3>1. /\ NotAnInteger(mm[k]) <=> NotAnInteger(rr[k])
          /\ Sum(mm[k], c.by) = Sum(rr[k], c.by)
      BY <1>2, <2>2, Zenon DEF Agree, NotAnInteger, Sum
    <3>2. /\ o.reply[1] # "err" <=> ~NotAnInteger(mm[k])
          /\ o.entry = IF NotAnInteger(mm[k]) THEN mm[k] ELSE Entry(FormatInt(Sum(mm[k], c.by)), 0)
          /\ p.entry = IF NotAnInteger(rr[k]) THEN rr[k] ELSE Entry(FormatInt(Sum(rr[k], c.by)), 0)
      BY <1>2, <2>2, IncrByLeaves
    <3> HIDE DEF o, p
    <3> QED
      BY <3>1, <3>2, AgreePlain, Zenon
  <2> HIDE DEF o, p
  <2>3. CASE o.reply[1] # "err"
    BY <1>4, <2>1, <2>2, <2>3, Zenon
  <2>4. CASE o.reply[1] = "err"
    BY <1>3, <2>1, <2>2, <2>4, Zenon
  <2> QED
    BY <2>3, <2>4, Zenon
<1>6. CASE c.op = "append"
  <2> DEFINE o == AppendSection(mm[k], n, c.val)
             p == AppendSection(rr[k], t, c.val)
  <2>1. /\ Does(x, mm, k, o, IF o.reply[1] # "err" THEN <<c>> ELSE <<>>)
        /\ Does(y, rr, k, p, IF p.reply[1] # "err" THEN <<c>> ELSE <<>>)
    BY <1>6, SingleKey, Zenon
  <2>2. ASSUME k \in Keys
        PROVE  IF o.reply[1] # "err" THEN Agree(o.entry, p.entry) /\ WellFormed(p.entry)
               ELSE o.entry = mm[k]
    <3> DEFINE l == Longer(mm[k], c.val)
    <3>1. Longer(rr[k], c.val) = l
      BY <1>2, <2>2, Zenon DEF Agree, Longer
    <3>2. /\ o.reply[1] # "err" <=> ~(Len(l) > MaxValLen)
          /\ o.entry = IF Len(l) > MaxValLen THEN mm[k]
                       ELSE Entry(l, IF mm[k] # NoEntry THEN mm[k].exp ELSE 0)
      BY <1>2, <2>2, AppendLeaves, Zenon
    <3>3. p.entry = IF Len(l) > MaxValLen THEN rr[k]
                    ELSE Entry(l, IF rr[k] # NoEntry THEN rr[k].exp ELSE 0)
      <4>1. p.entry = IF Len(Longer(rr[k], c.val)) > MaxValLen THEN rr[k]
                      ELSE Entry(Longer(rr[k], c.val), IF rr[k] # NoEntry THEN rr[k].exp ELSE 0)
        BY <1>2, <2>2, AppendLeaves, Zenon
      <4> QED
        BY <3>1, <4>1, Zenon
    <3> HIDE DEF o, p, l
    <3>4. CASE mm[k] = NoEntry
      BY <1>2, <2>2, <3>2, <3>3, <3>4, AgreePlain, Zenon DEF Agree
    <3>5. CASE mm[k] # NoEntry
      <4>1. rr[k] # NoEntry
        BY <1>2, <2>2, <3>5, Zenon DEF Agree
      <4>2. Agree(Entry(l, mm[k].exp), Entry(l, rr[k].exp)) /\ WellFormed(Entry(l, rr[k].exp))
        BY <1>2, <2>2, <3>5, AgreeValue, Zenon
      <4> QED
        BY <3>2, <3>3, <3>5, <4>1, <4>2, Zenon
    <3> QED
      BY <3>4, <3>5, Zenon
  <2> HIDE DEF o, p
  <2>3. CASE o.reply[1] # "err"
    BY <1>4, <2>1, <2>2, <2>3, Zenon
  <2>4. CASE o.reply[1] = "err"
    BY <1>3, <2>1, <2>2, <2>4, Zenon
  <2> QED
    BY <2>3, <2>4, Zenon
<1>7. CASE c.op = "persist"
  <2> DEFINE o == PersistSection(mm[k], n)
             p == PersistSection(rr[k], t)
  <2>1. /\ Does(x, mm, k, o, IF Done(o) THEN <<c>> ELSE <<>>)
        /\ Does(y, rr, k, p, IF Done(p) THEN <<c>> ELSE <<>>)
    BY <1>7, SingleKey, Zenon
  <2>2. ASSUME k \in Keys
        PROVE  IF Done(o) THEN Agree(o.entry, p.entry) /\ WellFormed(p.entry) ELSE o.entry = mm[k]
    <3>1. /\ Done(o) <=> mm[k] # NoEntry /\ mm[k].exp # 0
          /\ o.entry = IF mm[k] # NoEntry /\ mm[k].exp # 0 THEN Entry(mm[k].val, 0) ELSE mm[k]
          /\ p.entry = IF rr[k] # NoEntry /\ rr[k].exp # 0 THEN Entry(rr[k].val, 0) ELSE rr[k]
      BY <1>2, <2>2, PersistLeaves, Zenon
    <3> HIDE DEF o, p
    <3> QED
      BY <1>2, <2>2, <3>1, AgreePlain, Zenon DEF Agree
  <2> HIDE DEF o, p
  <2>3. CASE Done(o)
    BY <1>4, <2>1, <2>2, <2>3, Zenon
  <2>4. CASE ~Done(o)
    BY <1>3, <2>1, <2>2, <2>4, Zenon
  <2> QED
    BY <2>3, <2>4, Zenon
<1>8. CASE c.op = "pexpireat"
  <2> DEFINE d == c.ms * TicksPerMs
             o == DeadlineSection(mm[k], n, u, d)
             p == DeadlineSection(rr[k], t, t, d)
  <2>1. /\ Does(x, mm, k, o, IF Done(o) THEN <<c>> ELSE <<>>)
        /\ Does(y, rr, k, p, IF Done(p) THEN <<c>> ELSE <<>>)
    BY <1>8, SingleKey, Zenon
  <2>2. d \in Int
    BY <1>8, OpsAssumption DEF IsWriteCmd
  <2>3. ASSUME k \in Keys
        PROVE  IF Done(o) THEN Agree(o.entry, p.entry) /\ WellFormed(p.entry) ELSE o.entry = mm[k]
    <3>1. Far(o.entry, t)
      BY <2>1, <2>3, Zenon DEF AllFar, Does, Setting, Dictionary
    <3> HIDE DEF d
    <3>2. /\ Done(o) <=> mm[k] # NoEntry
          /\ o.entry = IF mm[k] = NoEntry \/ d <= u THEN NoEntry ELSE Entry(mm[k].val, d)
          /\ p.entry = IF rr[k] = NoEntry \/ d <= t THEN NoEntry ELSE Entry(rr[k].val, d)
      BY <1>2, <2>3, DeadlineLeaves
    <3>3. Agree(mm[k], rr[k]) /\ u \in Nat /\ t \in Nat /\ u <= t
      BY <1>2, <2>3, Zenon DEF Setting
    <3>4. d < d + TicksPerMs /\ (d <= u => d <= t)
      BY <2>2, <3>3, OpsAssumption
    <3> HIDE DEF o, p
    <3>5. Agree(o.entry, p.entry) /\ WellFormed(p.entry)
      BY <2>2, <3>1, <3>2, <3>3, <3>4, DeadlineAgrees, Zenon
    <3> QED
      BY <3>2, <3>5, Zenon
  <2> HIDE DEF o, p
  <2>4. CASE Done(o)
    BY <1>4, <2>1, <2>3, <2>4, Zenon
  <2>5. CASE ~Done(o)
    BY <1>3, <2>1, <2>3, <2>5, Zenon
  <2> QED
    BY <2>4, <2>5, Zenon
<1> QED
  BY <1>5, <1>6, <1>7, <1>8, Zenon

\* A deadline d in the store, and one in the file less than a millisecond before it.
LEMMA MirrorsDeadline ==
  ASSUME NEW mm, NEW rr, NEW n, NEW u, NEW t, Setting(mm, rr, n, u, t), NEW k,
         NEW d \in Int, NEW ms \in Int, d < ms * TicksPerMs + TicksPerMs, d <= u => ms * TicksPerMs <= t,
         NEW f, k \in Keys => f = IF mm[k] = NoEntry \/ d <= u THEN NoEntry ELSE Entry(mm[k].val, d),
         k \in Keys => Far(f, t)
  PROVE  Mirrors(Execute(PExpireAtCmd(k, ms), rr, t, t).mem, rr, k, f)
<1> DEFINE x == ms * TicksPerMs
           o == DeadlineSection(rr[k], t, t, x)
<1>1. x \in Int /\ d < x + TicksPerMs /\ (d <= u => x <= t) /\ u \in Nat /\ t \in Nat
  BY OpsAssumption DEF Setting
<1> HIDE DEF x
<1>2. ASSUME k \in Keys PROVE Agree(f, o.entry) /\ WellFormed(o.entry)
  <2>1. Steady(rr[k], t) /\ Agree(mm[k], rr[k])
    BY <1>2, InSetting, Zenon
  <2>2. o.entry = IF rr[k] = NoEntry \/ x <= t THEN NoEntry ELSE Entry(rr[k].val, x)
    BY <2>1, DeadlineLeaves
  <2> HIDE DEF o
  <2> QED
    BY <1>1, <1>2, <2>1, <2>2, DeadlineAgrees, Zenon
<1>3. \E y : Does(Execute(PExpireAtCmd(k, ms), rr, t, t), rr, k, o, y)
  BY DeadlineRuns, Zenon DEF x
<1> HIDE DEF o
<1> QED
  BY <1>2, <1>3, MirrorsCall, Zenon

\* EXPIRE and its absolute form, written at s.
LEMMA MirrorsExpire ==
  ASSUME NEW mm, NEW rr, NEW n, NEW u, NEW t, Setting(mm, rr, n, u, t), NEW k,
         NEW ttl \in Int, NEW s \in u .. t,
         NEW f, k \in Keys => f = IF mm[k] = NoEntry \/ ttl <= 0 THEN NoEntry ELSE Entry(mm[k].val, u + ttl),
         k \in Keys => Far(f, t)
  PROVE  Mirrors(Execute(Stamp(ExpireCmd(k, ttl), s), rr, t, t).mem, rr, k, f)
<1> DEFINE d == u + ttl
           ms == (s + ttl) \div TicksPerMs
<1>1. u \in Nat /\ t \in Nat /\ s \in Int
  BY DEF Setting
<1>2. ms \in Int /\ ms * TicksPerMs <= s + ttl /\ s + ttl < ms * TicksPerMs + TicksPerMs
  BY <1>1, Cut
<1>3. Stamp(ExpireCmd(k, ttl), s) = PExpireAtCmd(k, ms)
  BY Zenon DEF Stamp, ExpireCmd
<1> HIDE DEF ms
<1>4. d \in Int /\ (d <= u <=> ttl <= 0) /\ u <= s /\ s <= t
  BY <1>1
<1>5. d < ms * TicksPerMs + TicksPerMs /\ (d <= u => ms * TicksPerMs <= t)
  BY <1>1, <1>2, <1>4, OpsAssumption
<1>6. k \in Keys => f = IF mm[k] = NoEntry \/ d <= u THEN NoEntry ELSE Entry(mm[k].val, d)
  BY <1>4, Zenon
<1> HIDE DEF d
<1>7. Mirrors(Execute(PExpireAtCmd(k, ms), rr, t, t).mem, rr, k, f)
  BY <1>2, <1>4, <1>5, <1>6, MirrorsDeadline, Zenon
<1> QED
  BY <1>3, <1>7, Zenon

\* The entry a handler leaves is far.
LEMMA DoesFar ==
  ASSUME NEW mm, Dictionary(mm), NEW x, NEW k, NEW o, NEW cmds, Does(x, mm, k, o, cmds),
         NEW t, AllFar(x.mem, t)
  PROVE  k \in Keys => Far(o.entry, t)
  BY Zenon DEF AllFar, Does, Dictionary

\* EXPIRE with a positive TTL and EXPIREAT.
LEMMA CarriedDeadline ==
  ASSUME NEW c, c.op = "expireat" \/ (c.op = "expire" /\ ~(c.ttl <= 0)), IsWriteCmd(c),
         NEW mm, NEW rr, NEW n, NEW u, NEW t, Setting(mm, rr, n, u, t),
         AllFar(Execute(c, mm, n, u).mem, t)
  PROVE  Catches(Execute(c, mm, n, u).out, Execute(c, mm, n, u).mem, rr, u, t)
<1> DEFINE x == Execute(c, mm, n, u)
           k == c.key
<1>1. Dictionary(mm) /\ u \in Nat /\ t \in Nat /\ u <= t
  BY Zenon DEF Setting
<1>2. k \in Keys => Steady(mm[k], n)
  BY InSetting, Zenon
<1>3. CASE c.op = "expire" /\ ~(c.ttl <= 0)
  <2> DEFINE ttl == Duration(c.ttl)
             o == ExpireSection(mm[k], n, u, ttl)
  <2>1. Does(x, mm, k, o, IF Done(o) THEN <<ExpireCmd(k, ttl)>> ELSE <<>>)
    BY <1>3, SingleKey, Zenon
  <2>2. k \in Keys => Far(o.entry, t)
    BY <1>1, <2>1, DoesFar, Zenon
  <2>3. ttl \in Int
    BY <1>3, DurAssumption DEF IsWriteCmd, Duration
  <2> HIDE DEF ttl
  <2>4. k \in Keys => /\ Done(o) <=> mm[k] # NoEntry
                      /\ o.entry = IF mm[k] = NoEntry \/ ttl <= 0 THEN NoEntry ELSE Entry(mm[k].val, u + ttl)
    <3>1. ASSUME k \in Keys PROVE Steady(mm[k], n)
      BY <1>2, <3>1, Zenon
    <3> QED
      BY <3>1, DeadlineLeaves
  <2> HIDE DEF o
  <2>5. CASE Done(o)
    <3>1. \A s \in u .. t : Mirrors(Execute(Stamp(ExpireCmd(k, ttl), s), rr, t, t).mem, rr, k, o.entry)
      BY <2>2, <2>3, <2>4, MirrorsExpire, Zenon
    <3> QED
      BY <2>1, <2>5, <3>1, CarriesOne, Zenon
  <2>6. CASE ~Done(o)
    BY <2>1, <2>4, <2>6, CarriesNothing, Zenon
  <2> QED
    BY <2>5, <2>6, Zenon
<1>4. CASE c.op = "expireat"
  <2> DEFINE d == c.sec * TicksPerSec
             ms == c.sec * (TicksPerSec \div TicksPerMs)
             o == DeadlineSection(mm[k], n, u, d)
  <2>1. Does(x, mm, k, o, IF Done(o) THEN <<PExpireAtCmd(k, ms)>> ELSE <<>>)
    BY <1>4, SingleKey, Zenon
  <2>2. k \in Keys => Far(o.entry, t)
    BY <1>1, <2>1, DoesFar, Zenon
  <2>3. d \in Int /\ ms \in Int /\ ms * TicksPerMs = d
    <3>1. c.sec \in Int
      BY <1>4, Zenon DEF IsWriteCmd
    <3>2. TicksPerSec \div TicksPerMs \in Int
      BY OpsAssumption
    <3>3. ms * TicksPerMs = d
      BY <3>1, SecondsInMs, Zenon
    <3> QED
      BY <3>1, <3>2, <3>3, OpsAssumption
  <2> HIDE DEF d, ms
  <2>4. k \in Keys => /\ Done(o) <=> mm[k] # NoEntry
                      /\ o.entry = IF mm[k] = NoEntry \/ d <= u THEN NoEntry ELSE Entry(mm[k].val, d)
    <3>1. ASSUME k \in Keys PROVE Steady(mm[k], n)
      BY <1>2, <3>1, Zenon
    <3> QED
      BY <3>1, DeadlineLeaves
  <2> HIDE DEF o
  <2>5. CASE Done(o)
    <3>1. Mirrors(Execute(PExpireAtCmd(k, ms), rr, t, t).mem, rr, k, o.entry)
      <4>1. d < ms * TicksPerMs + TicksPerMs /\ (d <= u => ms * TicksPerMs <= t)
        BY <1>1, <2>3, OpsAssumption
      <4> QED
        BY <2>2, <2>3, <2>4, <4>1, MirrorsDeadline, Zenon
    <3>2. \A s : Stamp(PExpireAtCmd(k, ms), s) = PExpireAtCmd(k, ms)
      BY Zenon DEF Stamp, PExpireAtCmd
    <3>3. \A s \in u .. t : Mirrors(Execute(Stamp(PExpireAtCmd(k, ms), s), rr, t, t).mem, rr, k, o.entry)
      BY <3>1, <3>2, Zenon
    <3> QED
      BY <2>1, <2>5, <3>3, CarriesOne, Zenon
  <2>6. CASE ~Done(o)
    BY <2>1, <2>4, <2>6, CarriesNothing, Zenon
  <2> QED
    BY <2>5, <2>6, Zenon
<1> QED
  BY <1>3, <1>4, Zenon

\* SET and GETSET: the value, then the deadline.
LEMMA CarriedSet ==
  ASSUME NEW c, c.op = "getset" \/ (c.op = "set" /\ (c.ttl > 0 <=> Duration(c.ttl) > 0)), IsWriteCmd(c),
         NEW mm, NEW rr, NEW n, NEW u, NEW t, Setting(mm, rr, n, u, t),
         AllFar(Execute(c, mm, n, u).mem, t)
  PROVE  Catches(Execute(c, mm, n, u).out, Execute(c, mm, n, u).mem, rr, u, t)
<1> DEFINE x == Execute(c, mm, n, u)
           k == c.key
           plain == Plain(k, c.val)
           y == Execute(plain, rr, t, t).mem
<1>1. Dictionary(mm) /\ Reflects(mm, rr) /\ u \in Nat /\ t \in Nat /\ u <= t
  BY Zenon DEF Setting
<1>2. k \in Keys => Steady(mm[k], n)
  BY InSetting, Zenon
<1>3. \A s : Stamp(plain, s) = plain
  BY Zenon DEF Stamp, Plain, SetCmd
<1>4. Mirrors(y, rr, k, Entry(c.val, 0))
  BY PlainRuns, Zenon
<1>5. ASSUME NEW o, Does(x, mm, k, o, <<plain>>), k \in Keys => o.entry = Entry(c.val, 0)
      PROVE  Catches(x.out, x.mem, rr, u, t)
  <2>1. Mirrors(y, rr, k, o.entry)
    BY <1>4, <1>5, Zenon DEF Mirrors
  <2>2. \A s \in u .. t : Mirrors(Execute(Stamp(plain, s), rr, t, t).mem, rr, k, o.entry)
    BY <1>3, <2>1, Zenon
  <2> HIDE DEF plain
  <2> QED
    BY <1>5, <2>2, CarriesOne, Zenon
<1>6. CASE c.op = "getset"
  <2> DEFINE o == GetSetSection(mm[k], n, c.val)
  <2>1. Does(x, mm, k, o, <<plain>>)
    BY <1>6, SingleKey, Zenon
  <2>2. o.entry = Entry(c.val, 0)
    BY Zenon DEF GetSetSection, Outcome
  <2> HIDE DEF o
  <2> QED
    BY <1>5, <2>1, <2>2, Zenon
<1>7. CASE c.op = "set" /\ (c.ttl > 0 <=> Duration(c.ttl) > 0)
  <2> DEFINE ttl == Duration(c.ttl)
             o == SetSection(mm[k], n, u, c.val, ttl, c.mode)
             d == ExpireCmd(k, ttl)
  <2>1. Does(x, mm, k, o, IF Done(o) THEN <<plain>> \o (IF c.ttl > 0 THEN <<d>> ELSE <<>>) ELSE <<>>)
    BY <1>7, SingleKey, Zenon
  <2>2. k \in Keys => Far(o.entry, t)
    BY <1>1, <2>1, DoesFar, Zenon
  <2>3. ttl \in Int /\ (c.ttl > 0 <=> ttl > 0)
    BY <1>7, DurAssumption DEF IsWriteCmd, Duration
  <2> HIDE DEF ttl
  <2>4. k \in Keys => o.entry = IF Done(o) THEN Entry(c.val, IF ttl > 0 THEN u + ttl ELSE 0) ELSE mm[k]
    BY <1>2, SetLeaves
  <2> HIDE DEF o, plain, d
  <2>5. /\ <<plain>> \o <<>> = <<plain>>
        /\ Len(<<plain>> \o <<d>>) = 2 /\ (<<plain>> \o <<d>>)[1] = plain /\ (<<plain>> \o <<d>>)[2] = d
    <3>1. <<plain>> \in Seq({plain, d}) /\ <<d>> \in Seq({plain, d})
      OBVIOUS
    <3> QED
      BY <3>1
  <2>6. CASE ~Done(o)
    BY <2>1, <2>4, <2>6, CarriesNothing, Zenon
  <2>7. CASE Done(o) /\ ~(c.ttl > 0)
    <3>1. Does(x, mm, k, o, <<plain>>)
      BY <2>1, <2>7, <2>5, Zenon
    <3> QED
      BY <1>5, <2>3, <2>4, <2>7, <3>1, Zenon
  <2>8. CASE Done(o) /\ c.ttl > 0
    <3> DEFINE m == [mm EXCEPT ![k] = Entry(c.val, 0)]
    <3>1. x.out = <<plain>> \o <<d>>
      BY <2>1, <2>8, Zenon DEF Does
    <3>2. Setting(m, y, n, u, t)
      <4>1. Reflects(m, y)
        BY <1>1, <1>4, MirrorsReflects, Zenon DEF Dictionary
      <4>2. Dictionary(m) /\ AllFar(m, t)
        BY AgreePlain, Zenon DEF Setting, Dictionary, AllFar, Far, Entry
      <4> QED
        BY <4>1, <4>2, Zenon DEF Setting
    <3>3. k \in Keys => o.entry = IF m[k] = NoEntry \/ ttl <= 0 THEN NoEntry ELSE Entry(m[k].val, u + ttl)
      <4>1. ASSUME k \in Keys PROVE m[k] = Entry(c.val, 0)
        BY <1>1, <4>1, Zenon DEF Dictionary
      <4>2. Entry(c.val, 0) # NoEntry /\ Entry(c.val, 0).val = c.val
        BY DEF Entry, NoEntry
      <4> QED
        BY <2>3, <2>4, <2>8, <4>1, <4>2
    <3>4. [m EXCEPT ![k] = o.entry] = x.mem /\ DOMAIN m = Keys
      BY <1>1, <2>1, Zenon DEF Does, Dictionary
    <3> HIDE DEF m, y
    <3>5. ASSUME NEW v \in u .. t PROVE Reflects(x.mem, Execute(Stamp(d, v), y, t, t).mem)
      <4>1. Mirrors(Execute(Stamp(d, v), y, t, t).mem, y, k, o.entry)
        BY <2>2, <2>3, <3>2, <3>3, MirrorsExpire, Zenon DEF d
      <4>2. Reflects(m, y)
        BY <3>2, Zenon DEF Setting
      <4>3. Reflects([m EXCEPT ![k] = o.entry], Execute(Stamp(d, v), y, t, t).mem)
        BY <3>4, <4>1, <4>2, MirrorsReflects, Zenon
      <4> QED
        BY <3>4, <4>3, Zenon
    <3>6. \A s, v \in u .. t : Reflects(x.mem, Execute(Stamp(d, v), Execute(Stamp(plain, s), rr, t, t).mem, t, t).mem)
      BY <1>3, <3>5, Zenon DEF y
    <3>7. Len(x.out) = 2 /\ x.out[1] = plain /\ x.out[2] = d
      BY <2>5, <3>1, Zenon
    <3> QED
      BY <3>6, <3>7, Zenon DEF Catches
  <2> QED
    BY <2>6, <2>7, <2>8, Zenon
<1> QED
  BY <1>6, <1>7, Zenon

\* EXPIRE with no positive TTL is a DEL.
LEMMA CarriedExpired ==
  ASSUME NEW c, c.op = "expire", c.ttl <= 0,
         NEW mm, NEW rr, NEW n, NEW u, NEW t, Setting(mm, rr, n, u, t)
  PROVE  Catches(Execute(c, mm, n, u).out, Execute(c, mm, n, u).mem, rr, u, t)
<1> DEFINE x == Execute(c, mm, n, u)
           k == c.key
           o == DelSection(mm[k], n)
           d == DelCmd(<<k>>)
<1>1. Does(x, mm, k, o, IF o.reply = IntReply(1) THEN <<d>> ELSE <<>>)
  BY SingleKey, Zenon
<1>2. k \in Keys => (o.reply = IntReply(1) <=> mm[k] # NoEntry) /\ o.entry = NoEntry
  <2>1. k \in Keys => Steady(mm[k], n)
    BY InSetting, Zenon
  <2> QED
    BY <2>1, PersistLeaves, Zenon
<1>3. CASE o.reply = IntReply(1)
  <2>1. d.op = "del" /\ d.keys = <<k>> /\ \A s : Stamp(d, s) = d
    BY Zenon DEF Stamp, DelCmd
  <2>2. {d.keys[i] : i \in DOMAIN d.keys} = {k}
    BY <2>1
  <2> HIDE DEF d
  <2>3. Execute(d, rr, t, t).mem = [j \in DOMAIN rr |-> IF j \in {k} THEN NoEntry ELSE rr[j]]
    <3>1. d.op = "del"
      BY <2>1, Zenon
    <3>2. Execute(d, rr, t, t) = HDel(d, rr, t)
      BY <3>1, Dispatch, Zenon
    <3> QED
      BY <2>2, <3>2 DEF HDel, Handled
  <2>4. [j \in DOMAIN rr |-> IF j \in {k} THEN NoEntry ELSE rr[j]] = [rr EXCEPT ![k] = NoEntry]
    BY Zenon DEF Setting, Reflects, Dictionary
  <2>5. Mirrors(Execute(d, rr, t, t).mem, rr, k, o.entry)
    BY <1>2, <2>3, <2>4, AgreeNone, Zenon DEF Mirrors
  <2> HIDE DEF o
  <2>6. \A s \in u .. t : Mirrors(Execute(Stamp(d, s), rr, t, t).mem, rr, k, o.entry)
    BY <2>1, <2>5, Zenon
  <2> QED
    BY <1>1, <1>3, <2>6, CarriesOne, Zenon
<1>4. CASE o.reply # IntReply(1)
  <2> HIDE DEF o
  <2> QED
    BY <1>1, <1>2, <1>4, CarriesNothing, Zenon
<1> QED
  BY <1>3, <1>4, Zenon

\* DEL, MSET, MSETNX and FLUSHDB do to the rebuilt dictionary what they did to the store's.
LEMMA CarriedMany ==
  ASSUME NEW c, c.op \in {"del", "mset", "msetnx", "flushdb"},
         NEW mm, NEW rr, NEW n, NEW u, NEW t, Setting(mm, rr, n, u, t)
  PROVE  Catches(Execute(c, mm, n, u).out, Execute(c, mm, n, u).mem, rr, u, t)
<1> DEFINE x == Execute(c, mm, n, u)
<1>1. Dictionary(mm) /\ Dictionary(rr) /\ Reflects(mm, rr)
  BY Zenon DEF Setting, Reflects
<1>2. ASSUME NEW d, d.op # "expire", x.out = <<d>>, Reflects(x.mem, Execute(d, rr, t, t).mem)
      PROVE  Catches(x.out, x.mem, rr, u, t)
  <2>1. \A s : Stamp(d, s) = d
    BY <1>2, Zenon DEF Stamp
  <2>2. Len(x.out) = 1 /\ x.out[1] = d
    BY <1>2
  <2>3. \A s \in u .. t : Reflects(x.mem, Execute(Stamp(x.out[1], s), rr, t, t).mem)
    BY <1>2, <2>1, <2>2, Zenon
  <2> QED
    BY <2>2, <2>3, Zenon DEF Catches
<1>3. ASSUME x.out = <<>>, Reflects(x.mem, rr) PROVE Catches(x.out, x.mem, rr, u, t)
  BY <1>3, Zenon DEF Catches
<1>4. ASSUME NEW ps PROVE Reflects(StorePairs(mm, ps), StorePairs(rr, ps))
  BY <1>1, AgreePlain, Zenon DEF StorePairs, Reflects, Dictionary
<1>5. CASE c.op = "del"
  <2> DEFINE ks == {c.keys[i] : i \in DOMAIN c.keys}
             m == [k \in DOMAIN mm |-> IF k \in ks THEN NoEntry ELSE mm[k]]
             r == [k \in DOMAIN rr |-> IF k \in ks THEN NoEntry ELSE rr[k]]
  <2>1. /\ x.mem = m /\ x.out = IF \E k \in ks : Live(mm[k], n) THEN <<c>> ELSE <<>>
        /\ Execute(c, rr, t, t).mem = r
    <3>1. x = HDel(c, mm, n) /\ Execute(c, rr, t, t) = HDel(c, rr, t)
      BY <1>5, Dispatch, Zenon
    <3>2. /\ HDel(c, mm, n) = Handled(m, IF \E k \in ks : Live(mm[k], n) THEN <<c>> ELSE <<>>)
          /\ HDel(c, rr, t) = Handled(r, IF \E k \in ks : Live(rr[k], t) THEN <<c>> ELSE <<>>)
      BY Zenon DEF HDel
    <3> HIDE DEF ks, m, r
    <3> QED
      BY <3>1, <3>2 DEF Handled
  <2> HIDE DEF ks
  <2>2. Reflects(m, r)
    BY <1>1, AgreeNone, Zenon DEF Reflects, Dictionary
  <2>3. CASE \E k \in ks : Live(mm[k], n)
    BY <1>2, <1>5, <2>1, <2>2, <2>3, Zenon
  <2>4. CASE ~\E k \in ks : Live(mm[k], n)
    <3>1. \A k \in Keys : Steady(mm[k], n)
      BY InSetting, Zenon
    <3>2. Reflects(m, rr)
      BY <1>1, <2>4, <3>1, Zenon DEF Steady, Dictionary, Reflects
    <3> QED
      BY <1>3, <2>1, <2>4, <3>2, Zenon
  <2> QED
    BY <2>3, <2>4, Zenon
<1>6. CASE c.op = "mset"
  <2>1. /\ x.mem = StorePairs(mm, c.pairs) /\ x.out = <<c>>
        /\ Execute(c, rr, t, t).mem = StorePairs(rr, c.pairs)
    <3>1. x = HMSet(c, mm) /\ Execute(c, rr, t, t) = HMSet(c, rr)
      BY <1>6, Dispatch, Zenon
    <3> QED
      BY <3>1 DEF HMSet, Handled
  <2> QED
    BY <1>2, <1>4, <1>6, <2>1, Zenon
<1>7. CASE c.op = "msetnx"
  <2>1. x = HMSetNX(c, mm, n)
    BY <1>7, Dispatch, Zenon
  <2>2. CASE x = Handled(mm, <<>>)
    BY <1>1, <1>3, <2>2 DEF Handled
  <2>3. CASE x = Handled(StorePairs(mm, c.pairs), <<MSetCmd(c.pairs)>>)
    <3> DEFINE d == MSetCmd(c.pairs)
    <3>1. d.op = "mset" /\ d.pairs = c.pairs
      BY Zenon DEF MSetCmd
    <3>2. x.out = <<d>> /\ x.mem = StorePairs(mm, c.pairs)
      BY <2>3 DEF Handled
    <3> HIDE DEF d
    <3>3. Execute(d, rr, t, t).mem = StorePairs(rr, c.pairs)
      <4>1. Execute(d, rr, t, t) = HMSet(d, rr)
        BY <3>1, Dispatch, Zenon
      <4> QED
        BY <3>1, <4>1 DEF HMSet, Handled
    <3> QED
      BY <1>2, <1>4, <3>1, <3>2, <3>3, Zenon
  <2> QED
    BY <2>1, <2>2, <2>3, Zenon DEF HMSetNX
<1>8. CASE c.op = "flushdb"
  <2> DEFINE m == [k \in DOMAIN mm |-> NoEntry]
             r == [k \in DOMAIN rr |-> NoEntry]
  <2>1. x.mem = m /\ x.out = <<c>> /\ Execute(c, rr, t, t).mem = r
    <3>1. x = HFlushDB(c, mm) /\ Execute(c, rr, t, t) = HFlushDB(c, rr)
      BY <1>8, Dispatch, Zenon
    <3> QED
      BY <3>1 DEF HFlushDB, Handled
  <2>2. Reflects(m, r)
    BY <1>1, AgreeNone, Zenon DEF Reflects, Dictionary
  <2> QED
    BY <1>2, <1>8, <2>1, <2>2, Zenon
<1> QED
  BY <1>5, <1>6, <1>7, <1>8, Zenon

\* Every handler.
LEMMA Carried ==
  ASSUME NEW c, IsWriteCmd(c), c.op = "set" => (c.ttl > 0 <=> Duration(c.ttl) > 0),
         NEW mm, NEW rr, NEW n, NEW u, NEW t, Setting(mm, rr, n, u, t),
         AllFar(Execute(c, mm, n, u).mem, t)
  PROVE  Catches(Execute(c, mm, n, u).out, Execute(c, mm, n, u).mem, rr, u, t)
<1>1. CASE c.op \in {"incrby", "append", "persist", "pexpireat"}
  BY <1>1, CarriedAsIs
<1>2. CASE c.op = "expireat" \/ (c.op = "expire" /\ ~(c.ttl <= 0))
  BY <1>2, CarriedDeadline, Zenon
<1>3. CASE c.op = "expire" /\ c.ttl <= 0
  BY <1>3, CarriedExpired, Zenon
<1>4. CASE c.op = "getset" \/ c.op = "set"
  BY <1>4, CarriedSet, Zenon
<1>5. CASE c.op \in {"del", "mset", "msetnx", "flushdb"}
  BY <1>5, CarriedMany
<1> QED
  BY <1>1, <1>2, <1>3, <1>4, <1>5, Zenon DEF IsWriteCmd, WriteOps

=============================================================================
