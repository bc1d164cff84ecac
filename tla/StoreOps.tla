------------------------------ MODULE StoreOps ------------------------------
(***************************************************************************)
(* The critical sections of internal/store/store.go as pure operators.     *)
(*                                                                         *)
(* Every single-key method of Store locks the shard of its key, looks the  *)
(* key up, works on that one entry and unlocks.  Here such a section maps  *)
(* the entry it finds, the arguments and the clock readings to the entry   *)
(* it leaves, its reply, what it adds to the live count and the deadline   *)
(* it pushes on the expiry heap.  Store.tla runs these sections under the  *)
(* locks; KeyValue.tla uses only their effect on live keys.                *)
(*                                                                         *)
(* t is the reading of the clock made by expired(), u >= t the later one   *)
(* from which a deadline or a remaining time is computed.                  *)
(***************************************************************************)
EXTENDS Integers, Sequences

CONSTANTS
  IntMax,       \* math.MaxInt64, scaled down: the integers wrap beyond it
  MaxValLen,    \* Store.maxValLen, the bound APPEND enforces
  TicksPerSec,  \* clock ticks (nanoseconds in the code) in a second
  TicksPerMs    \* clock ticks in a millisecond

ASSUME OpsAssumption ==
  /\ IntMax \in Nat \ {0}
  /\ MaxValLen \in Nat
  /\ TicksPerSec \in Nat \ {0}
  /\ TicksPerMs \in Nat \ {0}

-----------------------------------------------------------------------------
(***************************************************************************)
(* Values are byte strings: sequences of bytes, of which only the digits   *)
(* (in radix 2 instead of 10), the signs and "any other byte" differ.      *)
(***************************************************************************)
Minus == -1
Plus == -2
Letter == -3
Radix == 2
Digits == 0 .. Radix - 1

\* int64 arithmetic: two's complement wrap-around at IntMax.
Wrap(n) == ((n + IntMax + 1) % (2 * (IntMax + 1))) - (IntMax + 1)

\* strconv.ParseInt on a value: what it accepts, and the number it returns.
Unsigned(v) == IF v # <<>> /\ v[1] \in {Minus, Plus} THEN Tail(v) ELSE v

Magnitude(ds) ==
  LET upTo[i \in 0 .. Len(ds)] == IF i = 0 THEN 0 ELSE upTo[i - 1] * Radix + ds[i]
  IN  upTo[Len(ds)]

IntOf(v) == IF v[1] = Minus THEN -Magnitude(Unsigned(v)) ELSE Magnitude(Unsigned(v))

IsInteger(v) ==
  /\ Unsigned(v) # <<>>
  /\ \A i \in DOMAIN Unsigned(v) : Unsigned(v)[i] \in Digits
  /\ IntOf(v) \in -(IntMax + 1) .. IntMax

\* strconv.AppendInt: the canonical digits of n.
FormatInt(n) ==
  LET digitsOf[i \in 0 .. IntMax + 1] ==
        IF i < Radix THEN <<i>> ELSE Append(digitsOf[i \div Radix], i % Radix)
  IN  IF n < 0 THEN <<Minus>> \o digitsOf[-n] ELSE digitsOf[n]

-----------------------------------------------------------------------------
\* An entry of a shard's map; exp = 0 means no expiry.  NoEntry stands for a
\* key the map does not hold.
Entry(val, exp) == [val |-> val, exp |-> exp]
NoEntry == [val |-> <<>>, exp |-> -1]

\* The entries a map can hold, and the absent one.
WellFormed(e) == e = NoEntry \/ (e = Entry(e.val, e.exp) /\ e.exp \in Nat)

Expired(e, t) == e.exp # 0 /\ t >= e.exp

\* The lookup every section starts with: ok and not expired.
Live(e, t) == e # NoEntry /\ ~Expired(e, t)

\* purge of an expired entry: the count.Add(-1) it makes.
PurgeDelta(e, t) == IF e # NoEntry /\ Expired(e, t) THEN -1 ELSE 0

Nil == <<"nil">>
BulkReply(v) == <<"bulk", v>>
BoolReply(b) == <<"bool", b>>
IntReply(n) == <<"int", n>>
ErrReply(msg) == <<"err", msg>>

Outcome(entry, reply, delta, push) ==
  [entry |-> entry, reply |-> reply, delta |-> delta, push |-> push]

\* The early return of a section that finds no live entry: an expired one is
\* purged on the way out.
Missed(e, t, reply) == Outcome(NoEntry, reply, PurgeDelta(e, t), 0)

-----------------------------------------------------------------------------
GetSection(e, t) ==
  IF Live(e, t) THEN Outcome(e, BulkReply(e.val), 0, 0) ELSE Missed(e, t, Nil)

SetSection(e, t, u, val, ttl, mode) ==
  LET exists == Live(e, t)
      dl == IF ttl > 0 THEN u + ttl ELSE 0
  IN  IF mode = "NX" /\ exists THEN Outcome(e, BoolReply(FALSE), 0, 0)
      ELSE IF mode = "XX" /\ ~exists THEN Missed(e, t, BoolReply(FALSE))
      ELSE Outcome(Entry(val, dl), BoolReply(TRUE),
                   PurgeDelta(e, t) + (IF exists THEN 0 ELSE 1), dl)

\* Mutant: Del purges an expired key and then counts its removal again.
DelSectionTwice(e, t) ==
  Outcome(NoEntry, IntReply(IF Live(e, t) THEN 1 ELSE 0),
          IF e # NoEntry THEN PurgeDelta(e, t) - 1 ELSE 0, 0)

\* One iteration of Del: an expired key is removed too, but not reported.
DelSection(e, t) ==
  Outcome(NoEntry, IntReply(IF Live(e, t) THEN 1 ELSE 0),
          IF e # NoEntry THEN -1 ELSE 0, 0)

\* The new entry carries no expireAt, whatever the old one had.
IncrBySection(e, t, by) ==
  LET ok == Live(e, t)
      sum == Wrap((IF ok THEN IntOf(e.val) ELSE 0) + by)
  IN  IF ok /\ ~IsInteger(e.val) THEN Outcome(e, ErrReply("not an integer"), 0, 0)
      ELSE Outcome(Entry(FormatInt(sum), 0), IntReply(sum),
                   PurgeDelta(e, t) + (IF ok THEN 0 ELSE 1), 0)

\* Mutant: Append extends the old value of an expired key.
AppendToExpired(e, t, suffix) ==
  LET ok == Live(e, t)
      val == e.val \o suffix
  IN  IF Len(val) > MaxValLen
      THEN Outcome(IF ok THEN e ELSE NoEntry, ErrReply("value too large"),
                   PurgeDelta(e, t), 0)
      ELSE Outcome(Entry(val, IF ok THEN e.exp ELSE 0), IntReply(Len(val)),
                   PurgeDelta(e, t) + (IF ok THEN 0 ELSE 1), 0)

AppendSection(e, t, suffix) ==
  LET ok == Live(e, t)
      val == (IF ok THEN e.val ELSE <<>>) \o suffix
  IN  IF Len(val) > MaxValLen
      THEN Outcome(IF ok THEN e ELSE NoEntry, ErrReply("value too large"),
                   PurgeDelta(e, t), 0)
      ELSE Outcome(Entry(val, IF ok THEN e.exp ELSE 0), IntReply(Len(val)),
                   PurgeDelta(e, t) + (IF ok THEN 0 ELSE 1), 0)

\* Mutant: Expire forgets pushExpiry.
ExpireUnpushed(e, t, u, ttl) ==
  IF ~Live(e, t) THEN Missed(e, t, BoolReply(FALSE))
  ELSE IF ttl <= 0 THEN Outcome(NoEntry, BoolReply(TRUE), -1, 0)
  ELSE Outcome(Entry(e.val, u + ttl), BoolReply(TRUE), 0, 0)

ExpireSection(e, t, u, ttl) ==
  IF ~Live(e, t) THEN Missed(e, t, BoolReply(FALSE))
  ELSE IF ttl <= 0 THEN Outcome(NoEntry, BoolReply(TRUE), -1, 0)
  ELSE Outcome(Entry(e.val, u + ttl), BoolReply(TRUE), 0, u + ttl)

\* ExpireAt and ExpireAtMs from the point where dl is in nanoseconds.
DeadlineSection(e, t, u, dl) ==
  IF ~Live(e, t) THEN Missed(e, t, BoolReply(FALSE))
  ELSE IF dl <= u THEN Outcome(NoEntry, BoolReply(TRUE), -1, 0)
  ELSE Outcome(Entry(e.val, dl), BoolReply(TRUE), 0, dl)

ExpireAtSection(e, t, u, sec) == DeadlineSection(e, t, u, sec * TicksPerSec)

ExpireAtMsSection(e, t, u, ms) == DeadlineSection(e, t, u, ms * TicksPerMs)

TTLSection(e, t, u) ==
  IF ~Live(e, t) THEN Missed(e, t, Nil)
  ELSE Outcome(e, IntReply(IF e.exp = 0 THEN -1 ELSE e.exp - u), 0, 0)

PersistSection(e, t) ==
  IF ~Live(e, t) THEN Missed(e, t, BoolReply(FALSE))
  ELSE IF e.exp = 0 THEN Outcome(e, BoolReply(FALSE), 0, 0)
  ELSE Outcome(Entry(e.val, 0), BoolReply(TRUE), 0, 0)

GetSetSection(e, t, val) ==
  IF Live(e, t) THEN Outcome(Entry(val, 0), BulkReply(e.val), 0, 0)
  ELSE Outcome(Entry(val, 0), Nil, PurgeDelta(e, t) + 1, 0)

=============================================================================
