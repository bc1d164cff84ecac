------------------------------ MODULE Commands ------------------------------
(***************************************************************************)
(* The write commands of internal/command/command.go, one operator per     *)
(* handler: what it does to the dictionary mm, and the commands it then    *)
(* propagates to the append-only file, in order.  Replaying the file runs  *)
(* the same handlers: Aof.tla builds both its live path and its replay     *)
(* from Execute.                                                           *)
(*                                                                         *)
(* Commands are records and durations are in clock ticks, so that EX and   *)
(* PX, EXPIRE and PEXPIRE differ in their argument only.  INCR, DECR,      *)
(* INCRBY and DECRBY are "incrby", SETNX is "set" with mode NX.  Syntax    *)
(* errors change and propagate nothing and are left out.                   *)
(*                                                                         *)
(* A relative TTL is multiplied by its unit in an int64, which wraps; the  *)
(* tests for a positive TTL are made on the argument, before that.         *)
(***************************************************************************)
EXTENDS StoreOps, FiniteSets, FiniteSetsExt

CONSTANTS
  Keys,   \* key names: the domain of every dictionary
  MaxDur  \* the largest time.Duration, in ticks

ASSUME DurAssumption == MaxDur \in Nat

\* EXPIREAT is propagated in milliseconds, of which a second is a whole number.
ASSUME UnitAssumption == TicksPerSec % TicksPerMs = 0

\* time.Duration(n) * unit, where the exact product is d.
Duration(d) == ((d + MaxDur + 1) % (2 * MaxDur + 2)) - MaxDur - 1

SetCmd(key, val, ttl, mode) ==
  [op |-> "set", key |-> key, val |-> val, ttl |-> ttl, mode |-> mode]
SetNXCmd(key, val) == SetCmd(key, val, 0, "NX")
IncrCmd(key, by) == [op |-> "incrby", key |-> key, by |-> by]
ExpireCmd(key, ttl) == [op |-> "expire", key |-> key, ttl |-> ttl]
PExpireAtCmd(key, ms) == [op |-> "pexpireat", key |-> key, ms |-> ms]
DelCmd(keys) == [op |-> "del", keys |-> keys]
MSetCmd(pairs) == [op |-> "mset", pairs |-> pairs]

Handled(mem, out) == [mem |-> mem, out |-> out]

\* A handler that calls one store method, with outcome o on key k, and propagates
\* cmds if the call was effective.
OnKey(mm, k, o, effective, cmds) ==
  Handled([mm EXCEPT ![k] = o.entry], IF effective THEN cmds ELSE <<>>)

Plain(key, val) == SetCmd(key, val, 0, "always")

-----------------------------------------------------------------------------
\* The deadline is propagated on its own, after the value.
HSet(c, mm, t, u) ==
  LET ttl == Duration(c.ttl)
      o == SetSection(mm[c.key], t, u, c.val, ttl, c.mode)
  IN  OnKey(mm, c.key, o, o.reply = BoolReply(TRUE),
            <<Plain(c.key, c.val)>>
              \o (IF c.ttl > 0 THEN <<ExpireCmd(c.key, ttl)>> ELSE <<>>))

\* Mutant: GETSET is not propagated.
HGetSetUnlogged(c, mm, t) ==
  OnKey(mm, c.key, GetSetSection(mm[c.key], t, c.val), FALSE, <<>>)

HGetSet(c, mm, t) ==
  OnKey(mm, c.key, GetSetSection(mm[c.key], t, c.val), TRUE, <<Plain(c.key, c.val)>>)

HIncrBy(c, mm, t) ==
  LET o == IncrBySection(mm[c.key], t, c.by)
  IN  OnKey(mm, c.key, o, o.reply[1] # "err", <<c>>)

HAppend(c, mm, t) ==
  LET o == AppendSection(mm[c.key], t, c.val)
  IN  OnKey(mm, c.key, o, o.reply[1] # "err", <<c>>)

HExpire(c, mm, t, u) ==
  LET del == DelSection(mm[c.key], t)
      exp == ExpireSection(mm[c.key], t, u, Duration(c.ttl))
  IN  IF c.ttl <= 0
      THEN OnKey(mm, c.key, del, del.reply = IntReply(1), <<DelCmd(<<c.key>>)>>)
      ELSE OnKey(mm, c.key, exp, exp.reply = BoolReply(TRUE), <<ExpireCmd(c.key, Duration(c.ttl))>>)

HExpireAt(c, mm, t, u) ==
  LET o == ExpireAtSection(mm[c.key], t, u, c.sec)
  IN  OnKey(mm, c.key, o, o.reply = BoolReply(TRUE),
            <<PExpireAtCmd(c.key, c.sec * (TicksPerSec \div TicksPerMs))>>)

HPExpireAt(c, mm, t, u) ==
  LET o == ExpireAtMsSection(mm[c.key], t, u, c.ms)
  IN  OnKey(mm, c.key, o, o.reply = BoolReply(TRUE), <<c>>)

HPersist(c, mm, t) ==
  LET o == PersistSection(mm[c.key], t)
  IN  OnKey(mm, c.key, o, o.reply = BoolReply(TRUE), <<c>>)

\* DEL, MSET and MSETNX are one step: no other write command can run in between, and
\* a key that has expired stays so.
HDel(c, mm, t) ==
  LET keys == {c.keys[i] : i \in DOMAIN c.keys}
  IN  Handled([k \in DOMAIN mm |-> IF k \in keys THEN NoEntry ELSE mm[k]],
              IF \E k \in keys : Live(mm[k], t) THEN <<c>> ELSE <<>>)

KeysOf(pairs) == {pairs[i][1] : i \in DOMAIN pairs}

StorePairs(mm, pairs) ==
  [k \in DOMAIN mm |->
     IF k \notin KeysOf(pairs) THEN mm[k]
     ELSE Entry(pairs[Max({i \in DOMAIN pairs : pairs[i][1] = k})][2], 0)]

HMSet(c, mm) == Handled(StorePairs(mm, c.pairs), <<c>>)

HMSetNX(c, mm, t) ==
  IF \E k \in KeysOf(c.pairs) : Live(mm[k], t) THEN Handled(mm, <<>>)
  ELSE Handled(StorePairs(mm, c.pairs), <<MSetCmd(c.pairs)>>)

HFlushDB(c, mm) == Handled([k \in DOMAIN mm |-> NoEntry], <<c>>)

\* The commands with Write: true, where SETNX is a SET, INCR, DECR and DECRBY are an INCRBY
\* and PEXPIRE is an EXPIRE.
WriteOps == {"set", "getset", "incrby", "append", "expire", "expireat", "pexpireat", "persist",
             "del", "mset", "msetnx", "flushdb"}

\* A write command whose arguments were parsed: the numbers are numbers.
IsWriteCmd(c) ==
  /\ c.op \in WriteOps
  /\ c.op \in {"set", "expire"} => c.ttl \in Int
  /\ c.op = "expireat" => c.sec \in Int
  /\ c.op = "pexpireat" => c.ms \in Int

Execute(c, mm, t, u) ==
  CASE c.op = "set"       -> HSet(c, mm, t, u)
    [] c.op = "getset"    -> HGetSet(c, mm, t)
    [] c.op = "incrby"    -> HIncrBy(c, mm, t)
    [] c.op = "append"    -> HAppend(c, mm, t)
    [] c.op = "expire"    -> HExpire(c, mm, t, u)
    [] c.op = "expireat"  -> HExpireAt(c, mm, t, u)
    [] c.op = "pexpireat" -> HPExpireAt(c, mm, t, u)
    [] c.op = "persist"   -> HPersist(c, mm, t)
    [] c.op = "del"       -> HDel(c, mm, t)
    [] c.op = "mset"      -> HMSet(c, mm)
    [] c.op = "msetnx"    -> HMSetNX(c, mm, t)
    [] c.op = "flushdb"   -> HFlushDB(c, mm)

\* Mutant: the TTL itself is written where the absolute deadline belongs.
StampRelative(c, t) ==
  IF c.op = "expire" THEN PExpireAtCmd(c.key, c.ttl \div TicksPerMs) ELSE c

\* What reaches the log for a propagated command: a relative expiry is made absolute,
\* store.Now().Add(ttl).UnixMilli(), from a clock reading of its own, cut to
\* milliseconds.
Stamp(c, t) ==
  IF c.op = "expire" THEN PExpireAtCmd(c.key, (t + c.ttl) \div TicksPerMs) ELSE c
=============================================================================
