-------------------------------- MODULE Aof ---------------------------------
(***************************************************************************)
(* Persistence: the write path of command.Registry under writeMu, the      *)
(* append-only file of internal/persist/persist.go with its fsync policies *)
(* and the startup sequence of cmd/mem-x/main.go, over crashes, disk       *)
(* errors, torn writes, shutdowns and restarts.                            *)
(*                                                                         *)
(* The store is the dictionary of KeyValue.tla; write commands reach it    *)
(* one at a time.  Reads and the sweeper only remove expired entries here, *)
(* which no command can tell, and are left out.                            *)
(***************************************************************************)
EXTENDS Commands, Functions

CONSTANTS
  Procs,      \* connection goroutines
  None,       \* holder of the free writeMu
  Cmds,       \* the write commands the clients send
  Policy,     \* "always", "everysec" or "no"
  DiskFails,  \* whether write(2) and fsync(2) may fail
  TornWrites, \* whether a crash may cut a record in two
  MaxLog,     \* bound on the mutations of one history
  MaxCrashes, \* bound on crashes
  MaxTime,    \* bound on the clock
  MaxDrift    \* how far the clock moves inside one store call

ASSUME AofAssumption ==
  /\ IsFiniteSet(Keys)
  /\ None \notin Procs
  /\ \A c \in Cmds : IsWriteCmd(c)
  /\ Policy \in {"always", "everysec", "no"}
  /\ DiskFails \in BOOLEAN /\ TornWrites \in BOOLEAN
  /\ MaxLog \in Nat /\ MaxCrashes \in Nat /\ MaxTime \in Nat /\ MaxDrift \in Nat

VARIABLES
  mem,     \* the store's dictionary
  now,     \* the clock, in ticks
  status,  \* the server: "up", "down", "loading", or "failed" (exit 1 on load)
  mu,      \* the goroutine holding writeMu
  pc,      \* where each goroutine is
  cmd,     \* the command it executes
  out,     \* what the running handler still has to propagate
  file,    \* the records in the file, as read(2) would return them
  synced,  \* how many of them are on stable storage
  broken,  \* the bufio.Writer has met an error, which it then always returns
  pos,     \* how many records Load has replayed
  crashes, \* crashes so far
  muts,    \* history: the commands that stand for the mutations, in order
  acked,   \* history: how many of them belong to commands that were answered
  due      \* history: the earliest deadline an entry was ever given, or 0

vars == <<mem, now, status, mu, pc, cmd, out, file, synced, broken, pos, crashes, muts,
          acked, due>>

Empty == [k \in Keys |-> NoEntry]
Torn == [op |-> "torn"]
Idle == [op |-> "none"]

Init ==
  /\ mem = Empty
  /\ now = 1
  /\ status = "up"
  /\ mu = None
  /\ pc = [p \in Procs |-> "idle"]
  /\ cmd = [p \in Procs |-> Idle]
  /\ out = <<>>
  /\ file = <<>>
  /\ synced = 0
  /\ broken = FALSE
  /\ pos = 0
  /\ crashes = 0
  /\ muts = <<>>
  /\ acked = 0
  /\ due = 0

\* The earliest of d and the deadlines in mm.
EarliestDue(d, mm) ==
  LET dls == ({mm[k].exp : k \in {j \in Keys : mm[j] # NoEntry}} \cup {d}) \ {0}
  IN  IF dls = {} THEN 0 ELSE Min(dls)

-----------------------------------------------------------------------------
(***************************************************************************)
(* A write command.                                                        *)
(***************************************************************************)

\* Mutant: writes are not serialized.
LockFree(p) ==
  /\ status = "up"
  /\ pc[p] = "idle"
  /\ Len(muts) < MaxLog
  /\ \E c \in Cmds : cmd' = [cmd EXCEPT ![p] = c]
  /\ mu' = p
  /\ pc' = [pc EXCEPT ![p] = "handler"]
  /\ UNCHANGED <<mem, now, status, out, file, synced, broken, pos, crashes, muts, acked, due>>

\* Execute up to writeMu.Lock.
Lock(p) ==
  /\ status = "up"
  /\ pc[p] = "idle"
  /\ mu = None
  /\ Len(muts) < MaxLog
  /\ \E c \in Cmds : cmd' = [cmd EXCEPT ![p] = c]
  /\ mu' = p
  /\ pc' = [pc EXCEPT ![p] = "handler"]
  /\ UNCHANGED <<mem, now, status, out, file, synced, broken, pos, crashes, muts, acked, due>>

\* The handler's store call.
Mutate(p) ==
  /\ pc[p] = "handler"
  /\ now' \in now .. now + MaxDrift /\ now' <= MaxTime
  /\ LET r == Execute(cmd[p], mem, now, now')
     IN  /\ mem' = r.mem
         /\ out' = r.out
         /\ due' = EarliestDue(due, r.mem)
  /\ muts' = muts \o out'
  /\ pc' = [pc EXCEPT ![p] = "propagate"]
  /\ UNCHANGED <<status, mu, cmd, file, synced, broken, pos, crashes, acked>>

\* Mutants: only the first command a handler propagates is written; writing goes on
\* after an error; Append returns before its fsync.
WriteFirst(p) ==
  /\ pc[p] = "propagate"
  /\ out # <<>>
  /\ out' = <<>>
  /\ file' = Append(file, Stamp(Head(out), now))
  /\ pc' = [pc EXCEPT ![p] = "fsync"]
  /\ UNCHANGED <<mem, now, status, mu, cmd, synced, broken, pos, crashes, muts, acked, due>>
WriteOn(p) ==
  /\ pc[p] = "propagate"
  /\ out # <<>>
  /\ out' = Tail(out)
  /\ \/ file' = Append(file, Stamp(Head(out), now))
     \/ DiskFails /\ UNCHANGED file
  /\ UNCHANGED <<mem, now, status, mu, pc, cmd, synced, broken, pos, crashes, muts, acked, due>>
WriteUnsynced(p) ==
  /\ pc[p] = "propagate"
  /\ out # <<>>
  /\ out' = Tail(out)
  /\ file' = Append(file, Stamp(Head(out), now))
  /\ UNCHANGED <<mem, now, status, mu, pc, cmd, synced, broken, pos, crashes, muts, acked, due>>

\* AOF.Append up to the end of its Flush.  After an error nothing is written any
\* more; the caller logs the error and goes on.
Write(p) ==
  /\ pc[p] = "propagate"
  /\ out # <<>>
  /\ out' = Tail(out)
  /\ \/ /\ ~broken
        /\ file' = Append(file, Stamp(Head(out), now))
        /\ pc' = [pc EXCEPT ![p] = IF Policy = "always" THEN "fsync" ELSE "propagate"]
        /\ UNCHANGED broken
     \/ /\ ~broken /\ DiskFails
        /\ file' \in {file, Append(file, Torn)}
        /\ broken' = TRUE
        /\ UNCHANGED pc
     \/ broken /\ UNCHANGED <<file, broken, pc>>
  /\ UNCHANGED <<mem, now, status, mu, cmd, synced, pos, crashes, muts, acked, due>>

\* The Sync that ends Append under FsyncAlways.
Fsync(p) ==
  /\ pc[p] = "fsync"
  /\ synced' \in {Len(file)} \cup (IF DiskFails THEN {synced} ELSE {})
  /\ pc' = [pc EXCEPT ![p] = "propagate"]
  /\ UNCHANGED <<mem, now, status, mu, cmd, out, file, broken, pos, crashes, muts, acked, due>>

\* writeMu.Unlock and the reply.
Reply(p) ==
  /\ pc[p] = "propagate"
  /\ out = <<>>
  /\ mu' = None
  /\ pc' = [pc EXCEPT ![p] = "idle"]
  /\ cmd' = [cmd EXCEPT ![p] = Idle]
  /\ acked' = Len(muts)
  /\ UNCHANGED <<mem, now, status, out, file, synced, broken, pos, crashes, muts, due>>

\* Mutant: the ticker flushes and does not fsync.
FlushTick ==
  /\ Policy = "everysec" /\ status = "up"
  /\ ~broken
  /\ UNCHANGED vars

\* The everysec ticker's AOF.Sync: flush, which repeats an earlier error, and fsync.
SyncTick ==
  /\ Policy = "everysec" /\ status = "up"
  /\ ~broken
  /\ synced' = Len(file)
  /\ UNCHANGED <<mem, now, status, mu, pc, cmd, out, file, broken, pos, crashes, muts, acked,
                 due>>

-----------------------------------------------------------------------------
(***************************************************************************)
(* Crash, shutdown and startup.                                            *)
(***************************************************************************)

\* The process and the page cache are gone: what was not fsynced survives up to an
\* arbitrary point, possibly inside a record.
Crash ==
  /\ status \in {"up", "loading"}
  /\ crashes < MaxCrashes
  /\ \E n \in synced .. Len(file), cut \in {<<>>} \cup (IF TornWrites THEN {<<Torn>>} ELSE {}) :
       /\ cut # <<>> => n < Len(file)
       /\ file' = SubSeq(file, 1, n) \o cut
  /\ synced' = Len(file')
  /\ status' = "down"
  /\ mem' = Empty /\ mu' = None /\ out' = <<>>
  /\ pc' = [p \in Procs |-> "idle"] /\ cmd' = [p \in Procs |-> Idle]
  /\ muts' = <<>> /\ acked' = 0 /\ due' = 0
  /\ crashes' = crashes + 1
  /\ UNCHANGED <<now, broken, pos>>

\* SIGTERM: Serve returns when the handlers are done, then the deferred Close.
Stop ==
  /\ status = "up"
  /\ \A p \in Procs : pc[p] = "idle"
  /\ synced' = Len(file)
  /\ status' = "down"
  /\ mem' = Empty /\ muts' = <<>> /\ acked' = 0 /\ due' = 0
  /\ UNCHANGED <<now, mu, pc, cmd, out, file, broken, pos, crashes>>

\* Open with O_APPEND, then Load with no propagator installed.
Start ==
  /\ status \in {"down", "failed"}
  /\ status' = "loading"
  /\ broken' = FALSE
  /\ pos' = 0
  /\ mem' = Empty
  /\ UNCHANGED <<now, mu, pc, cmd, out, file, synced, crashes, muts, acked, due>>

\* One iteration of Load's loop on a whole record.
Replay ==
  /\ status = "loading" /\ pos < Len(file)
  /\ file[pos + 1] # Torn
  /\ now' \in now .. now + MaxDrift /\ now' <= MaxTime
  /\ mem' = Execute(file[pos + 1], mem, now, now').mem
  /\ due' = EarliestDue(due, mem')
  /\ pos' = pos + 1
  /\ UNCHANGED <<status, mu, pc, cmd, out, file, synced, broken, crashes, muts, acked>>

\* A torn record is an error, except that one cut at the end of a line, or inside
\* a header line, at the very end of the file is io.EOF to ReadCommand.
ReplayTorn ==
  /\ status = "loading" /\ pos < Len(file)
  /\ file[pos + 1] = Torn
  /\ \/ status' = "failed"
        /\ UNCHANGED muts
     \/ /\ pos + 1 = Len(file)
        /\ status' = "up"
        /\ muts' = SubSeq(file, 1, pos)
  /\ UNCHANGED <<mem, now, mu, pc, cmd, out, file, synced, broken, pos, crashes, acked, due>>

\* Load returns; SetPropagator.
Loaded ==
  /\ status = "loading" /\ pos = Len(file)
  /\ status' = "up"
  /\ muts' = file
  /\ acked' = Len(file)
  /\ UNCHANGED <<mem, now, mu, pc, cmd, out, file, synced, broken, pos, crashes, due>>

Tick ==
  /\ now < MaxTime
  /\ now' = now + 1
  /\ UNCHANGED <<mem, status, mu, pc, cmd, out, file, synced, broken, pos, crashes, muts,
                 acked, due>>

Client(p) == Lock(p) \/ Mutate(p) \/ Write(p) \/ Fsync(p) \/ Reply(p)

Next ==
  \/ \E p \in Procs : Client(p)
  \/ SyncTick
  \/ Crash \/ Stop \/ Start \/ Replay \/ ReplayTorn \/ Loaded
  \/ Tick

Spec == Init /\ [][Next]_vars

(***************************************************************************)
(* Fairness: handlers run on, the everysec ticker keeps ticking, and Load  *)
(* goes through the file.  Nobody has to send a command, crash or restart. *)
(***************************************************************************)
FairSpec ==
  /\ Spec
  /\ \A p \in Procs : WF_vars(Mutate(p) \/ Write(p) \/ Fsync(p) \/ Reply(p))
  /\ WF_vars(SyncTick)
  /\ WF_vars(Replay \/ ReplayTorn \/ Loaded)

-----------------------------------------------------------------------------
(***************************************************************************)
(* Properties.                                                             *)
(***************************************************************************)

\* The types, and writeMu: a goroutine is inside a write command exactly when it
\* holds the lock, and only the holder has something to propagate.
TypeOK ==
  /\ DOMAIN mem = Keys /\ \A k \in Keys : WellFormed(mem[k])
  /\ now \in Nat \ {0} /\ due \in Nat
  /\ status \in {"up", "down", "loading", "failed"}
  /\ mu \in Procs \cup {None}
  /\ pc \in [Procs -> {"idle", "handler", "propagate", "fsync"}]
  /\ \A p \in Procs : pc[p] # "idle" <=> mu = p
  /\ mu = None => out = <<>>
  /\ synced \in 0 .. Len(file) /\ pos \in 0 .. Len(file)
  /\ broken \in BOOLEAN
  /\ acked \in 0 .. Len(muts)

\* Record r is what command c was propagated as.
Records(r, c) == r = c \/ (c.op = "expire" /\ r.op = "pexpireat" /\ r.key = c.key)

Whole == Torn \notin Range(file)

\* The file is the mutation history (docs/CONCURRENCY.md, section 6): whoever ran
\* when, its records are the mutations in the order the store made them, without
\* gaps; none is missing when no write command is running, unless the disk failed,
\* and after a failure the file is still a prefix.
LogFollowsMutations ==
  status = "up" /\ Whole =>
    /\ Len(file) <= Len(muts)
    /\ \A i \in DOMAIN file : Records(file[i], muts[i])
    /\ mu = None /\ ~broken => Len(file) = Len(muts)

\* Under "always" no answered command can be lost by a crash.
AckedDurable == Policy = "always" /\ status = "up" => acked <= synced

\* Under "everysec" every record reaches stable storage, unless the server goes down or
\* the disk fails before.
EverysecSyncs ==
  \A n \in 1 .. MaxLog :
    status = "up" /\ Len(file) >= n ~> synced >= n \/ status # "up" \/ broken

\* What Load would rebuild from the file now.
Rebuilt ==
  LET after[n \in 0 .. Len(file)] ==
        IF n = 0 THEN Empty ELSE Execute(file[n], after[n - 1], now, now).mem
  IN  after[Len(file)]

Settled == status = "up" /\ mu = None /\ ~broken /\ Whole

\* Until the first deadline the store handed out is a millisecond away, the file
\* rebuilds the dictionary: the same keys with the same values, and a deadline
\* where there was one, less than a millisecond earlier at worst.
ReplayFaithful ==
  Settled /\ (due = 0 \/ now + TicksPerMs <= due) =>
    \A k \in Keys :
      LET e == mem[k]
          r == Rebuilt[k]
      IN  /\ e = NoEntry <=> r = NoEntry
          /\ e.val = r.val
          /\ e.exp = 0 <=> r.exp = 0
          /\ e.exp < r.exp + TicksPerMs

\* A restart now would rebuild the live keys with their values.
ReplayExact ==
  Settled => \A k \in Keys :
    /\ Live(mem[k], now) <=> Live(Rebuilt[k], now)
    /\ Live(mem[k], now) => mem[k].val = Rebuilt[k].val

\* A restart brings back no key that has expired.
NoResurrection ==
  Settled => \A k \in Keys : Live(Rebuilt[k], now) => Live(mem[k], now)

\* When every write gives its key a TTL, no key without one appears.
KeysKeepTTL == status = "up" /\ mu = None => \A k \in Keys : mem[k].exp # 0

\* Every answered write is in the file.
AckedLogged == status = "up" /\ Whole => acked <= Len(file)
=============================================================================
