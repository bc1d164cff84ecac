-------------------------- MODULE StoreImplements ---------------------------
(***************************************************************************)
(* Store.tla implements KeyValue.tla.                                      *)
(***************************************************************************)
EXTENDS Store

\* What a client sees of an entry at time t, and of the whole store now.
Shown(e, t) == IF Live(e, t) THEN e ELSE NoEntry
View == [k \in Keys |-> Shown(m[k], now)]

\* The dictionary of KeyValue.tla, seen through the entries that are live now.
KV == INSTANCE KeyValue WITH kv <- View

\* The store is linearizable: every step of its methods is one atomic call of the
\* dictionary with its reply, time passing, or nothing at all (locking, counting,
\* purging, sweeping).
Linearizable == KV!Spec
=============================================================================
