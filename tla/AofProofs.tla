----------------------------- MODULE AofProofs ------------------------------
(***************************************************************************)
(* Proofs about Aof.tla, for any goroutines, commands, fsync policy,       *)
(* failures and number of crashes: the file is the mutation history, under *)
(* "always" no answered command is lost, and Load rebuilds the store.      *)
(*                                                                         *)
(* The inductive invariant says where the holder of writeMu is, and that   *)
(* the file continued by what that goroutine has still to propagate is the *)
(* history; for the order of the records, what a command does to the       *)
(* dictionary does not matter.  For the replay it is all that does: the    *)
(* handlers' lemmas are in CommandProofs.tla, and the invariant adds that  *)
(* the file, loaded at any time before the first deadline is near, gives   *)
(* what the commands still to be propagated turn into the store.           *)
(***************************************************************************)
EXTENDS Aof, CommandProofs, WellFoundedInduction, TLAPS

\* The three logs are sequences, and positions in the file numbers.
Logs ==
  /\ \E S : file \in Seq(S) /\ out \in Seq(S) /\ muts \in Seq(S)
  /\ synced \in 0 .. Len(file) /\ pos \in Nat

\* Only the holder of writeMu is inside a write command, only while the server is up, and
\* it has nothing to propagate before the store call.
Holder ==
  /\ mu \in Procs \cup {None}
  /\ pc \in [Procs -> {"idle", "handler", "propagate", "fsync"}]
  /\ cmd \in [Procs -> Cmds \cup {Idle}]
  /\ \A p \in Procs : /\ pc[p] # "idle" <=> mu = p
                      /\ pc[p] = "handler" => out = <<>> /\ cmd[p] \in Cmds
  /\ mu = None => out = <<>>
  /\ status # "up" => mu = None

\* A whole file, followed by what is still to be propagated, is the history; after a disk
\* error it is a prefix.
Follows ==
  status = "up" /\ Whole =>
    /\ Len(file) + Len(out) <= Len(muts)
    /\ \A i \in 1 .. Len(file) : Records(file[i], muts[i])
    /\ ~broken => /\ Len(file) + Len(out) = Len(muts)
                  /\ \A j \in 1 .. Len(out) : out[j] = muts[Len(file) + j]

Inv == Logs /\ Holder /\ Follows

-----------------------------------------------------------------------------
\* A sequence stays one when its elements are taken from a larger set.
LEMMA SeqMono == ASSUME NEW S, NEW T, S \subseteq T, NEW s \in Seq(S) PROVE s \in Seq(T)
  OBVIOUS
(***************************************************************************)
(* The invariant holds initially and every step preserves its parts.       *)
(***************************************************************************)

\* Initially everything is empty.
LEMMA InitInv == Init => Inv
<1> SUFFICES ASSUME Init PROVE Inv
  OBVIOUS
<1>1. Logs
  <2>1. <<>> \in Seq({}) /\ Len(<<>>) = 0
    OBVIOUS
  <2> QED
    BY <2>1 DEF Init, Logs
<1>2. Holder
  BY AofAssumption, Zenon DEF Init, Holder
<1>3. Follows
  BY DEF Init, Follows
<1> QED
  BY <1>1, <1>2, <1>3, Zenon DEF Inv

\* Logs stay sequences.
LEMMA LogsStep == Inv /\ [Next]_vars => Logs'
<1> SUFFICES ASSUME Inv, [Next]_vars PROVE Logs'
  OBVIOUS
<1>1. PICK S : file \in Seq(S) /\ out \in Seq(S) /\ muts \in Seq(S)
  BY Zenon DEF Inv, Logs
<1>2. synced \in 0 .. Len(file) /\ pos \in Nat
  BY Zenon DEF Inv, Logs
<1>3. ASSUME UNCHANGED <<file, out, muts>>, synced' \in 0 .. Len(file), pos' \in Nat PROVE Logs'
  BY <1>1, <1>3, Zenon DEF Logs
<1>4. ASSUME NEW p \in Procs, Lock(p) PROVE Logs'
  BY <1>2, <1>3, <1>4, Zenon DEF Lock
<1>5. ASSUME NEW p \in Procs, Mutate(p) PROVE Logs'
  <2>1. IsWriteCmd(cmd[p])
    BY <1>5, AofAssumption, Zenon DEF Inv, Holder, Mutate
  <2>2. PICK T : out' \in Seq(T)
    BY <1>5, <2>1, ExecuteOut, Zenon DEF Mutate
  <2>3. file \in Seq(S \cup T) /\ out' \in Seq(S \cup T) /\ muts \in Seq(S \cup T)
    BY <1>1, <2>2, SeqMono, Zenon
  <2>4. muts' \in Seq(S \cup T)
    BY <1>5, <2>3 DEF Mutate
  <2> QED
    BY <1>2, <1>5, <2>3, <2>4, Zenon DEF Mutate, Logs
<1>6. ASSUME NEW p \in Procs, Write(p) PROVE Logs'
  <2> DEFINE r == Stamp(Head(out), now)
             T == S \cup {r, Torn}
  <2>1. file \in Seq(T) /\ out \in Seq(T) /\ muts \in Seq(T)
    BY <1>1, SeqMono, Zenon
  <2>2. out' = Tail(out) /\ out # <<>> /\ muts' = muts /\ synced' = synced /\ pos' = pos
    BY <1>6, Zenon DEF Write
  <2>3. file' \in {file, Append(file, r), Append(file, Torn)}
    BY <1>6, Zenon DEF Write
  <2>4. r \in T /\ Torn \in T
    OBVIOUS
  <2> HIDE DEF r, T
  <2>5. file' \in Seq(T) /\ out' \in Seq(T) /\ Len(file) <= Len(file')
    <3>1. out' \in Seq(T)
      BY <2>1, <2>2
    <3>2. CASE file' = file
      BY <2>1, <3>1, <3>2
    <3>3. ASSUME NEW x \in T, file' = Append(file, x) PROVE file' \in Seq(T) /\ Len(file) <= Len(file')
      BY <2>1, <3>3
    <3> QED
      BY <2>3, <2>4, <3>1, <3>2, <3>3, Zenon
  <2> QED
    BY <1>2, <2>1, <2>2, <2>5 DEF Logs
<1>7. ASSUME NEW p \in Procs, Fsync(p) PROVE Logs'
  BY <1>1, <1>2, <1>3, <1>7 DEF Fsync
<1>8. ASSUME NEW p \in Procs, Reply(p) PROVE Logs'
  BY <1>2, <1>3, <1>8, Zenon DEF Reply
<1>9. CASE SyncTick
  BY <1>1, <1>2, <1>3, <1>9 DEF SyncTick
<1>10. CASE Crash
  <2>1. PICK n \in synced .. Len(file), cut \in {<<>>, <<Torn>>} : file' = SubSeq(file, 1, n) \o cut
    BY <1>10, Zenon DEF Crash
  <2>2. file \in Seq(S \cup {Torn}) /\ cut \in Seq(S \cup {Torn})
    <3>1. <<>> \in Seq(S \cup {Torn}) /\ <<Torn>> \in Seq(S \cup {Torn})
      OBVIOUS
    <3> QED
      BY <1>1, <3>1, SeqMono, Zenon
  <2>3. file' \in Seq(S \cup {Torn})
    BY <1>2, <2>1, <2>2
  <2>4. out' = <<>> /\ muts' = <<>> /\ synced' = Len(file') /\ pos' = pos
    BY <1>10, Zenon DEF Crash
  <2> QED
    BY <1>2, <2>3, <2>4 DEF Logs
<1>11. CASE Stop
  BY <1>1, <1>2, <1>11 DEF Stop, Logs
<1>12. CASE Start
  BY <1>2, <1>3, <1>12, Zenon DEF Start
<1>13. CASE Replay
  BY <1>2, <1>3, <1>13 DEF Replay
<1>14. CASE ReplayTorn
  <2>1. SubSeq(file, 1, pos) \in Seq(S)
    BY <1>1, <1>2, <1>14 DEF ReplayTorn
  <2> QED
    BY <1>1, <1>2, <1>14, <2>1, Zenon DEF ReplayTorn, Logs
<1>15. CASE Loaded
  BY <1>1, <1>2, <1>15, Zenon DEF Loaded, Logs
<1>16. CASE Tick
  BY <1>2, <1>3, <1>16, Zenon DEF Tick
<1>17. CASE UNCHANGED vars
  BY <1>2, <1>3, <1>17, Zenon DEF vars
<1> QED
  BY <1>4, <1>5, <1>6, <1>7, <1>8, <1>9, <1>10, <1>11, <1>12, <1>13, <1>14, <1>15, <1>16, <1>17, Zenon
     DEF Next, Client

\* writeMu has one holder.
LEMMA HolderStep == Inv /\ [Next]_vars => Holder'
<1> SUFFICES ASSUME Inv, [Next]_vars PROVE Holder'
  OBVIOUS
<1> USE AofAssumption DEF Inv, Holder
<1>1. ASSUME NEW p \in Procs, Lock(p) PROVE Holder'
  BY <1>1, Zenon DEF Lock
<1>2. ASSUME NEW p \in Procs, Mutate(p) PROVE Holder'
  BY <1>2, Zenon DEF Mutate
<1>3. ASSUME NEW p \in Procs, Write(p) PROVE Holder'
  BY <1>3, Zenon DEF Write
<1>4. ASSUME NEW p \in Procs, Fsync(p) PROVE Holder'
  BY <1>4, Zenon DEF Fsync
<1>5. ASSUME NEW p \in Procs, Reply(p) PROVE Holder'
  BY <1>5, Zenon DEF Reply
<1>6. CASE SyncTick
  BY <1>6, Zenon DEF SyncTick
<1>7. CASE Crash
  BY <1>7, Zenon DEF Crash
<1>8. CASE Stop
  BY <1>8, Zenon DEF Stop
<1>9. CASE Start
  BY <1>9, Zenon DEF Start
<1>10. CASE Replay
  BY <1>10, Zenon DEF Replay
<1>11. CASE ReplayTorn
  BY <1>11, Zenon DEF ReplayTorn
<1>12. CASE Loaded
  BY <1>12, Zenon DEF Loaded
<1>13. CASE Tick
  BY <1>13, Zenon DEF Tick
<1>14. CASE UNCHANGED vars
  BY <1>14, Zenon DEF vars
<1> QED
  BY <1>1, <1>2, <1>3, <1>4, <1>5, <1>6, <1>7, <1>8, <1>9, <1>10, <1>11, <1>12, <1>13, <1>14, Zenon
     DEF Next, Client

\* A record appended to a file.
LEMMA AppendWhole ==
  ASSUME NEW S, file \in Seq(S), NEW r, file' = Append(file, r)
  PROVE  Whole' => Whole /\ r # Torn
<1>1. /\ DOMAIN file = 1 .. Len(file) /\ Len(file) \in Nat
      /\ DOMAIN file' = 1 .. Len(file) + 1 /\ file'[Len(file) + 1] = r
      /\ \A i \in 1 .. Len(file) : file'[i] = file[i]
  OBVIOUS
<1> QED
  BY <1>1 DEF Whole, Range

\* The file stays the history as far as it goes.
LEMMA FollowsStep == Inv /\ [Next]_vars => Follows'
<1> SUFFICES ASSUME Inv, [Next]_vars PROVE Follows'
  OBVIOUS
<1>1. PICK S : file \in Seq(S) /\ out \in Seq(S) /\ muts \in Seq(S)
  BY Zenon DEF Inv, Logs
<1>2. PICK S2 : file' \in Seq(S2) /\ out' \in Seq(S2) /\ muts' \in Seq(S2)
  BY LogsStep, Zenon DEF Logs
<1>3. ASSUME UNCHANGED <<file, out, muts, status, broken>> PROVE Follows'
  BY <1>3, Zenon DEF Inv, Follows, Whole, Records
<1>4. ASSUME NEW p \in Procs, Lock(p) PROVE Follows'
  BY <1>3, <1>4, Zenon DEF Lock
<1>5. ASSUME NEW p \in Procs, Mutate(p) PROVE Follows'
  <2>1. out = <<>> /\ muts' = muts \o out' /\ UNCHANGED <<file, status, broken>>
    BY <1>5, Zenon DEF Inv, Holder, Mutate
  <2>2. Len(muts') = Len(muts) + Len(out') /\ Len(out) = 0
    BY <1>1, <1>2, <2>1
  <2>3. \A i \in 1 .. Len(muts) : muts'[i] = muts[i]
    BY <1>1, <1>2, <2>1
  <2>4. \A j \in 1 .. Len(out') : muts'[Len(muts) + j] = out'[j]
    BY <1>1, <1>2, <2>1
  <2>5. Len(file) \in Nat /\ Len(muts) \in Nat /\ Len(out') \in Nat
    BY <1>1, <1>2
  <2> SUFFICES ASSUME status = "up", Whole
               PROVE  /\ Len(file) + Len(out') <= Len(muts')
                      /\ \A i \in 1 .. Len(file) : Records(file[i], muts'[i])
                      /\ ~broken => /\ Len(file) + Len(out') = Len(muts')
                                    /\ \A j \in 1 .. Len(out') : out'[j] = muts'[Len(file) + j]
    BY <2>1, Zenon DEF Follows, Whole, Records
  <2>6. /\ Len(file) <= Len(muts)
        /\ \A i \in 1 .. Len(file) : Records(file[i], muts[i])
        /\ ~broken => Len(file) = Len(muts)
    BY <2>2, <2>5 DEF Inv, Follows
  <2>7. \A i \in 1 .. Len(file) : Records(file[i], muts'[i])
    BY <2>3, <2>5, <2>6
  <2>8. ASSUME ~broken PROVE \A j \in 1 .. Len(out') : out'[j] = muts'[Len(file) + j]
    <3>1. Len(file) = Len(muts)
      BY <2>6, <2>8, Zenon
    <3> QED
      BY <2>4, <3>1, Zenon
  <2>9. Len(file) + Len(out') <= Len(muts') /\ (~broken => Len(file) + Len(out') = Len(muts'))
    BY <2>2, <2>5, <2>6
  <2> QED
    BY <2>7, <2>8, <2>9, Zenon
<1>6. ASSUME NEW p \in Procs, Write(p) PROVE Follows'
  <2> SUFFICES ASSUME status' = "up", Whole'
               PROVE  /\ Len(file') + Len(out') <= Len(muts')
                      /\ \A i \in 1 .. Len(file') : Records(file'[i], muts'[i])
                      /\ ~broken' => /\ Len(file') + Len(out') = Len(muts')
                                     /\ \A j \in 1 .. Len(out') : out'[j] = muts'[Len(file') + j]
    BY Zenon DEF Follows, Records
  <2>1. out # <<>> /\ out' = Tail(out) /\ UNCHANGED <<muts, status>>
    BY <1>6, Zenon DEF Write
  <2>2. /\ Len(out') = Len(out) - 1 /\ Len(out) \in Nat /\ Len(file) \in Nat /\ Len(muts) \in Nat
        /\ Len(out) >= 1 /\ Head(out) = out[1]
        /\ \A j \in 1 .. Len(out') : out'[j] = out[j + 1]
    BY <1>1, <2>1
  <2>3. CASE UNCHANGED file /\ broken'
    BY <2>1, <2>2, <2>3 DEF Inv, Follows, Whole
  <2>4. CASE file' = Append(file, Torn)
    BY <1>1, <2>4, AppendWhole, Zenon
  <2>5. CASE ~broken /\ file' = Append(file, Stamp(Head(out), now)) /\ UNCHANGED broken
    <3> DEFINE r == Stamp(Head(out), now)
    <3>1. Whole
      BY <1>1, <2>5, AppendWhole, Zenon
    <3>2. /\ Len(file) + Len(out) = Len(muts)
          /\ \A j \in 1 .. Len(out) : out[j] = muts[Len(file) + j]
          /\ \A i \in 1 .. Len(file) : Records(file[i], muts[i])
      BY <2>1, <2>5, <3>1, Zenon DEF Inv, Follows
    <3>3. Records(r, muts[Len(file) + 1])
      BY <2>2, <3>2 DEF Records, Stamp, PExpireAtCmd
    <3> HIDE DEF r
    <3>4. /\ Len(file') = Len(file) + 1 /\ file'[Len(file) + 1] = r
          /\ \A i \in 1 .. Len(file) : file'[i] = file[i]
      BY <1>1, <2>5 DEF r
    <3>5. \A i \in 1 .. Len(file') : Records(file'[i], muts'[i])
      BY <2>1, <2>2, <3>2, <3>3, <3>4
    <3> QED
      BY <2>1, <2>2, <3>2, <3>4, <3>5
  <2> QED
    BY <1>6, <2>3, <2>4, <2>5 DEF Write
<1>7. ASSUME NEW p \in Procs, Fsync(p) PROVE Follows'
  BY <1>3, <1>7, Zenon DEF Fsync
<1>8. ASSUME NEW p \in Procs, Reply(p) PROVE Follows'
  BY <1>3, <1>8, Zenon DEF Reply
<1>9. CASE SyncTick
  BY <1>3, <1>9, Zenon DEF SyncTick
<1>10. CASE Crash
  BY <1>10, Zenon DEF Crash, Follows
<1>11. CASE Stop
  BY <1>11, Zenon DEF Stop, Follows
<1>12. CASE Start
  BY <1>12, Zenon DEF Start, Follows
<1>13. CASE Replay
  BY <1>3, <1>13, Zenon DEF Replay
<1>14. CASE ReplayTorn
  <2>1. file[pos + 1] = Torn /\ pos + 1 \in 1 .. Len(file) /\ file' = file
    BY <1>1, <1>14 DEF ReplayTorn, Inv, Logs
  <2>2. ~Whole'
    BY <1>1, <2>1 DEF Whole, Range
  <2> QED
    BY <2>2, Zenon DEF Follows
<1>15. CASE Loaded
  <2>1. out' = <<>> /\ file' = file /\ muts' = file
    BY <1>15, Zenon DEF Loaded, Inv, Holder
  <2>2. Len(out') = 0 /\ Len(file) \in Nat
    BY <1>1, <2>1
  <2> QED
    BY <2>1, <2>2 DEF Follows, Records
<1>16. CASE Tick
  BY <1>3, <1>16, Zenon DEF Tick
<1>17. CASE UNCHANGED vars
  BY <1>3, <1>17, Zenon DEF vars
<1> QED
  BY <1>4, <1>5, <1>6, <1>7, <1>8, <1>9, <1>10, <1>11, <1>12, <1>13, <1>14, <1>15, <1>16, <1>17, Zenon
     DEF Next, Client

\* Together.
THEOREM Invariance == Spec => []Inv
<1>1. Inv /\ [Next]_vars => Inv'
  BY LogsStep, HolderStep, FollowsStep, Zenon DEF Inv
<1> QED
  BY InitInv, <1>1, PTL DEF Spec

\* The file is the mutation history: whichever goroutines run, whatever fails and however
\* often the server crashes, a file without a torn record holds the mutations of the store
\* in their order and without a gap.
THEOREM LogIsHistory == Spec => []LogFollowsMutations
<1>1. Inv => LogFollowsMutations
  <2> SUFFICES ASSUME Inv, status = "up", Whole
               PROVE  /\ Len(file) <= Len(muts)
                      /\ \A i \in DOMAIN file : Records(file[i], muts[i])
                      /\ mu = None /\ ~broken => Len(file) = Len(muts)
    BY Zenon DEF LogFollowsMutations
  <2>1. PICK S : file \in Seq(S) /\ out \in Seq(S) /\ muts \in Seq(S)
    BY Zenon DEF Inv, Logs
  <2>2. /\ Len(file) \in Nat /\ Len(out) \in Nat /\ Len(muts) \in Nat
        /\ DOMAIN file = 1 .. Len(file) /\ (out = <<>> => Len(out) = 0)
    BY <2>1
  <2> QED
    BY <2>2 DEF Inv, Holder, Follows
<1> QED
  BY Invariance, <1>1, PTL

-----------------------------------------------------------------------------
(***************************************************************************)
(* Types.                                                                  *)
(***************************************************************************)

\* The dictionary and the clock.
Stored == Dictionary(mem) /\ now \in Nat \ {0} /\ due \in Nat

\* What is replayed is a prefix of what is on stable storage, which is the whole file when
\* the server does not run.
Positions ==
  /\ status \in {"up", "down", "loading", "failed"}
  /\ pos <= synced /\ acked \in 0 .. Len(muts)
  /\ status # "up" => synced = Len(file) /\ acked = 0

\* What is written and what is to be written are commands a handler can run.
Runnable ==
  /\ \A i \in 1 .. Len(file) : file[i] = Torn \/ Logged(file[i])
  /\ \A i \in 1 .. Len(out) : Propagated(out[i])

\* The writer has met an error or not.
Flagged == broken \in BOOLEAN

\* The parts of TypeOK that Inv does not speak of, made inductive.
Types == Stored /\ Positions /\ Runnable /\ Flagged

\* The earliest deadline is one, and no later than d and those of the entries.
LEMMA EarliestDueIs ==
  ASSUME NEW d \in Nat, NEW mm, Dictionary(mm)
  PROVE  /\ EarliestDue(d, mm) \in Nat
         /\ d # 0 => EarliestDue(d, mm) # 0 /\ EarliestDue(d, mm) <= d
         /\ \A k \in Keys : mm[k] # NoEntry /\ mm[k].exp # 0 =>
              EarliestDue(d, mm) # 0 /\ EarliestDue(d, mm) <= mm[k].exp
<1> DEFINE dls == ({mm[k].exp : k \in {j \in Keys : mm[j] # NoEntry}} \cup {d}) \ {0}
<1>1. dls \subseteq Nat \ {0}
  BY Zenon DEF Dictionary, WellFormed
<1>2. d # 0 => d \in dls
  BY Zenon
<1>3. \A k \in Keys : mm[k] # NoEntry /\ mm[k].exp # 0 => mm[k].exp \in dls
  BY Zenon
<1> HIDE DEF dls
<1>4. ASSUME dls # {} PROVE Min(dls) \in dls /\ \A y \in dls : Min(dls) <= y
  <2>0. dls \subseteq Nat
    BY <1>1, Zenon
  <2>1. PICK x \in dls : \A y \in dls : ~(<<y, x>> \in OpToRel(<, Nat))
    BY <1>4, <2>0, NatLessThanWellFounded, WFMin, Zenon
  <2>2. \A y \in dls : ~(y < x)
    BY <2>0, <2>1, Zenon DEF OpToRel
  <2>3. \A y \in dls : x <= y
    BY <2>0, <2>2
  <2> QED
    BY <2>3, Zenon DEF Min
<1>5. EarliestDue(d, mm) = IF dls = {} THEN 0 ELSE Min(dls)
  BY Zenon DEF EarliestDue, dls
<1>6. CASE dls = {}
  BY <1>2, <1>3, <1>5, <1>6, Zenon
<1>7. CASE dls # {}
  <2>1. EarliestDue(d, mm) \in dls /\ \A y \in dls : EarliestDue(d, mm) <= y
    BY <1>4, <1>5, <1>7, Zenon
  <2> HIDE DEF EarliestDue
  <2> QED
    BY <1>1, <1>2, <1>3, <2>1, Zenon
<1> QED
  BY <1>6, <1>7, Zenon

\* An empty dictionary is one.
LEMMA EmptyDictionary == Dictionary(Empty)
  BY Zenon DEF Dictionary, Empty, WellFormed

\* The handler of the goroutine inside it runs a write command.
LEMMA MutateRuns ==
  ASSUME Inv, NEW p \in Procs, Mutate(p)
  PROVE  /\ IsWriteCmd(cmd[p]) /\ status = "up"
         /\ mem' = Execute(cmd[p], mem, now, now').mem /\ out' = Execute(cmd[p], mem, now, now').out
         /\ due' = EarliestDue(due, mem') /\ now' \in now .. now + MaxDrift
<1>1. IsWriteCmd(cmd[p]) /\ status = "up"
  BY AofAssumption, Zenon DEF Inv, Holder, Mutate
<1> QED
  BY <1>1, Zenon DEF Mutate

\* Every step leaves a dictionary, whether a client's command or a record of the file ran.
LEMMA StoredStep == Inv /\ Stored /\ Runnable /\ [Next]_vars => Stored'
<1> SUFFICES ASSUME Inv, Stored, Runnable, [Next]_vars PROVE Stored'
  OBVIOUS
<1>1. ASSUME NEW c, IsWriteCmd(c), now' \in now .. now + MaxDrift,
             mem' = Execute(c, mem, now, now').mem, due' = EarliestDue(due, mem')
      PROVE  Stored'
  <2>1. now' \in Nat \ {0}
    BY <1>1, AofAssumption DEF Stored
  <2>2. Dictionary(mem')
    BY <1>1, <2>1, ExecuteMem, Zenon DEF Stored
  <2>3. due' \in Nat
    BY <1>1, <2>2, EarliestDueIs, Zenon DEF Stored
  <2> QED
    BY <2>1, <2>2, <2>3, Zenon DEF Stored, Dictionary
<1>2. ASSUME NEW p \in Procs, Mutate(p) PROVE Stored'
  BY <1>1, <1>2, MutateRuns, Zenon
<1>3. CASE Replay
  <2>1. IsWriteCmd(file[pos + 1])
    BY <1>3 DEF Replay, Inv, Logs, Runnable, Logged, Propagated
  <2> QED
    BY <1>1, <1>3, <2>1, Zenon DEF Replay
<1>4. CASE Crash \/ Stop
  BY <1>4, EmptyDictionary DEF Crash, Stop, Stored, Dictionary
<1>5. CASE Start
  BY <1>5, EmptyDictionary, Zenon DEF Start, Stored, Dictionary
<1>6. CASE Tick
  BY <1>6 DEF Tick, Stored, Dictionary
<1>7. ASSUME UNCHANGED <<mem, now, due>> PROVE Stored'
  BY <1>7, Zenon DEF Stored, Dictionary
<1>8. ASSUME NEW p \in Procs, Lock(p) \/ Write(p) \/ Fsync(p) \/ Reply(p) PROVE Stored'
  BY <1>7, <1>8, Zenon DEF Lock, Write, Fsync, Reply
<1>9. CASE SyncTick \/ ReplayTorn \/ Loaded \/ UNCHANGED vars
  BY <1>7, <1>9, Zenon DEF SyncTick, ReplayTorn, Loaded, vars
<1> QED
  BY <1>2, <1>3, <1>4, <1>5, <1>6, <1>8, <1>9, Zenon DEF Next, Client

\* Every step leaves runnable commands.
LEMMA RunnableStep == Inv /\ Stored /\ Runnable /\ [Next]_vars => Runnable'
<1> SUFFICES ASSUME Inv, Stored, Runnable, [Next]_vars PROVE Runnable'
  OBVIOUS
<1>1. PICK S : file \in Seq(S) /\ out \in Seq(S)
  BY Zenon DEF Inv, Logs
<1>2. Len(<<>>) = 0
  OBVIOUS
<1>3. ASSUME UNCHANGED <<file, out>> PROVE Runnable'
  BY <1>3, Zenon DEF Runnable
<1>4. ASSUME NEW p \in Procs, Mutate(p) PROVE Runnable'
  <2>1. PICK T : out' \in Seq(T) /\ \A x \in T : Propagated(x)
    BY <1>4, MutateRuns, ExecuteOut
  <2>2. \A i \in 1 .. Len(out') : Propagated(out'[i])
    BY <2>1
  <2> QED
    BY <1>4, <2>2, Zenon DEF Mutate, Runnable
<1>5. ASSUME NEW p \in Procs, Write(p) PROVE Runnable'
  <2>1. out # <<>> /\ out' = Tail(out)
    BY <1>5, Zenon DEF Write
  <2>2. /\ Len(out) \in Nat \ {0} /\ Head(out) = out[1] /\ Len(out') = Len(out) - 1
        /\ \A i \in 1 .. Len(out') : out'[i] = out[i + 1]
    BY <1>1, <2>1
  <2>3. \A i \in 1 .. Len(out') : Propagated(out'[i])
    BY <2>2 DEF Runnable
  <2>4. Logged(Stamp(Head(out), now))
    BY <2>2, StampTyped DEF Runnable, Stored
  <2>5. PICK r : /\ r = Torn \/ Logged(r)
                 /\ file' = file \/ file' = Append(file, r)
    BY <1>5, <2>4, Zenon DEF Write
  <2>6. CASE file' = file
    BY <2>3, <2>6, Zenon DEF Runnable
  <2>7. CASE file' = Append(file, r)
    <3>1. /\ Len(file) \in Nat /\ Len(file') = Len(file) + 1 /\ file'[Len(file) + 1] = r
          /\ \A i \in 1 .. Len(file) : file'[i] = file[i]
      BY <1>1, <2>7
    <3> QED
      BY <2>3, <2>5, <3>1 DEF Runnable
  <2> QED
    BY <2>5, <2>6, <2>7, Zenon
<1>6. CASE Crash
  <2>1. PICK n \in synced .. Len(file), cut \in {<<>>, <<Torn>>} : file' = SubSeq(file, 1, n) \o cut
    BY <1>6, Zenon DEF Crash
  <2>2. n \in Nat /\ n <= Len(file) /\ Len(file) \in Nat
    BY <1>1, <2>1 DEF Inv, Logs
  <2>3. /\ Len(file') \in {n, n + 1} /\ \A i \in 1 .. n : file'[i] = file[i]
        /\ Len(file') = n + 1 => file'[n + 1] = Torn
    <3>1. CASE cut = <<>>
      BY <1>1, <2>1, <2>2, <3>1
    <3>2. CASE cut = <<Torn>>
      BY <1>1, <2>1, <2>2, <3>2
    <3> QED
      BY <2>1, <3>1, <3>2, Zenon
  <2>4. \A i \in 1 .. Len(file') : file'[i] = Torn \/ Logged(file'[i])
    BY <2>2, <2>3 DEF Runnable
  <2>5. out' = <<>>
    BY <1>6, Zenon DEF Crash
  <2> QED
    BY <1>2, <2>4, <2>5 DEF Runnable
<1>7. ASSUME NEW p \in Procs, Lock(p) \/ Fsync(p) \/ Reply(p) PROVE Runnable'
  BY <1>3, <1>7, Zenon DEF Lock, Fsync, Reply
<1>8. CASE SyncTick \/ Stop \/ Start \/ Replay \/ ReplayTorn \/ Loaded \/ Tick \/ UNCHANGED vars
  BY <1>3, <1>8, Zenon DEF SyncTick, Stop, Start, Replay, ReplayTorn, Loaded, Tick, vars
<1> QED
  BY <1>4, <1>5, <1>6, <1>7, <1>8, Zenon DEF Next, Client

\* Every step keeps the positions in order.
LEMMA PositionsStep == Inv /\ Positions /\ [Next]_vars => Positions'
<1> SUFFICES ASSUME Inv, Positions, [Next]_vars PROVE Positions'
  OBVIOUS
<1>1. PICK S : file \in Seq(S) /\ out \in Seq(S) /\ muts \in Seq(S)
  BY Zenon DEF Inv, Logs
<1>2. Len(file) \in Nat /\ Len(muts) \in Nat /\ synced \in 0 .. Len(file) /\ pos \in Nat
  BY <1>1 DEF Inv, Logs
<1>3. Len(<<>>) = 0
  OBVIOUS
<1>4. ASSUME UNCHANGED <<status, pos, synced, acked, muts, file>> PROVE Positions'
  BY <1>4, Zenon DEF Positions
<1>5. ASSUME NEW p \in Procs, Mutate(p) PROVE Positions'
  <2>1. PICK T : out' \in Seq(T)
    BY LogsStep, Zenon DEF Logs
  <2>2. Len(muts') = Len(muts) + Len(out') /\ Len(out') \in Nat
    <3>1. out' \in Seq(S \cup T) /\ muts \in Seq(S \cup T)
      BY <1>1, <2>1, SeqMono, Zenon
    <3>2. muts' = muts \o out'
      BY <1>5, Zenon DEF Mutate
    <3> HIDE <1>5
    <3> QED
      BY <3>1, <3>2
  <2>3. UNCHANGED <<status, pos, synced, acked, file>>
    BY <1>5, Zenon DEF Mutate
  <2> HIDE <1>5
  <2> QED
    BY <1>2, <2>2, <2>3 DEF Positions
<1>6. ASSUME NEW p \in Procs, Write(p) PROVE Positions'
  <2>1. status = "up" /\ UNCHANGED <<status, pos, synced, acked, muts>>
    BY <1>6, AofAssumption, Zenon DEF Write, Inv, Holder
  <2> QED
    BY <2>1, Zenon DEF Positions
<1>7. ASSUME NEW p \in Procs, Fsync(p) PROVE Positions'
  <2>1. synced' \in {synced, Len(file)} /\ UNCHANGED <<status, pos, acked, muts, file>>
    BY <1>7, Zenon DEF Fsync
  <2> QED
    BY <1>2, <2>1 DEF Positions
<1>8. ASSUME NEW p \in Procs, Reply(p) PROVE Positions'
  <2>1. status = "up" /\ acked' = Len(muts) /\ UNCHANGED <<status, pos, synced, muts, file>>
    BY <1>8, AofAssumption, Zenon DEF Reply, Inv, Holder
  <2> QED
    BY <1>2, <2>1 DEF Positions
<1>9. CASE SyncTick
  <2>1. synced' = Len(file) /\ UNCHANGED <<status, pos, acked, muts, file>>
    BY <1>9, Zenon DEF SyncTick
  <2> QED
    BY <1>2, <2>1 DEF Positions
<1>10. CASE Crash
  <2>1. PICK n \in synced .. Len(file), cut \in {<<>>, <<Torn>>} : file' = SubSeq(file, 1, n) \o cut
    BY <1>10, Zenon DEF Crash
  <2>2. Len(file') \in {n, n + 1} /\ n \in Nat
    <3>1. CASE cut = <<>>
      BY <1>1, <1>2, <2>1, <3>1
    <3>2. CASE cut = <<Torn>>
      BY <1>1, <1>2, <2>1, <3>2
    <3> QED
      BY <2>1, <3>1, <3>2, Zenon
  <2>3. /\ synced' = Len(file') /\ status' = "down" /\ muts' = <<>> /\ acked' = 0 /\ pos' = pos
    BY <1>10, Zenon DEF Crash
  <2>4. synced <= n
    BY <1>2, <2>1
  <2> QED
    BY <1>2, <1>3, <2>2, <2>3, <2>4 DEF Positions
<1>11. CASE Stop
  <2>1. /\ synced' = Len(file) /\ status' = "down" /\ muts' = <<>> /\ acked' = 0
        /\ UNCHANGED <<pos, file>>
    BY <1>11, Zenon DEF Stop
  <2> QED
    BY <1>2, <1>3, <2>1 DEF Positions
<1>12. CASE Start
  <2>1. /\ status # "up" /\ status' = "loading" /\ pos' = 0
        /\ UNCHANGED <<synced, acked, muts, file>>
    BY <1>12, Zenon DEF Start
  <2> QED
    BY <1>2, <2>1 DEF Positions
<1>13. CASE Replay
  <2>1. /\ status = "loading" /\ pos < Len(file) /\ pos' = pos + 1
        /\ UNCHANGED <<status, synced, acked, muts, file>>
    BY <1>13, Zenon DEF Replay
  <2> QED
    BY <1>2, <2>1 DEF Positions
<1>14. CASE ReplayTorn
  <2>1. /\ status = "loading" /\ pos < Len(file) /\ status' \in {"up", "failed"}
        /\ muts' \in {muts, SubSeq(file, 1, pos)} /\ UNCHANGED <<pos, synced, acked, file>>
    BY <1>14, Zenon DEF ReplayTorn
  <2>2. Len(muts') \in Nat
    BY <1>1, <1>2, <2>1
  <2> QED
    BY <1>2, <2>1, <2>2 DEF Positions
<1>15. CASE Loaded
  <2>1. /\ status' = "up" /\ muts' = file /\ acked' = Len(file)
        /\ UNCHANGED <<pos, synced, file>>
    BY <1>15, Zenon DEF Loaded
  <2> QED
    BY <1>2, <2>1 DEF Positions
<1>16. ASSUME NEW p \in Procs, Lock(p) PROVE Positions'
  BY <1>4, <1>16, Zenon DEF Lock
<1>17. CASE Tick \/ UNCHANGED vars
  BY <1>4, <1>17, Zenon DEF Tick, vars
<1> QED
  BY <1>5, <1>6, <1>7, <1>8, <1>9, <1>10, <1>11, <1>12, <1>13, <1>14, <1>15, <1>16, <1>17, Zenon
     DEF Next, Client

\* The flag stays one.
LEMMA FlaggedStep == Flagged /\ [Next]_vars => Flagged'
  BY Zenon DEF Flagged, Next, Client, Lock, Mutate, Write, Fsync, Reply, SyncTick, Crash, Stop, Start, Replay,
     ReplayTorn, Loaded, Tick, vars

\* The types hold at first.
LEMMA InitTypes == Init => Types
<1> SUFFICES ASSUME Init PROVE Types
  OBVIOUS
<1>1. Len(<<>>) = 0
  OBVIOUS
<1>2. Stored
  BY EmptyDictionary DEF Init, Stored
<1>3. Positions
  BY <1>1 DEF Init, Positions
<1>4. Runnable
  BY <1>1 DEF Init, Runnable
<1>5. Flagged
  BY Zenon DEF Init, Flagged
<1> QED
  BY <1>2, <1>3, <1>4, <1>5, Zenon DEF Types

\* Every step keeps them.
LEMMA TypesStep == Inv /\ Types /\ [Next]_vars => Types'
  BY StoredStep, PositionsStep, RunnableStep, FlaggedStep, Zenon DEF Types

\* The types of the log, the store and the lock, over any number of crashes and restarts:
\* one goroutine at a time is inside a write command, and Load replays only what is there.
THEOREM AofTypes == Spec => []TypeOK
<1>1. Inv /\ Types => TypeOK
  <2> SUFFICES ASSUME Inv, Types PROVE TypeOK
    OBVIOUS
  <2>1. synced \in 0 .. Len(file) /\ pos \in 0 .. Len(file)
    <3>1. Len(file) \in Nat
      BY DEF Inv, Logs
    <3> QED
      BY <3>1 DEF Inv, Logs, Types, Positions
  <2>2. /\ mu \in Procs \cup {None}
        /\ pc \in [Procs -> {"idle", "handler", "propagate", "fsync"}]
        /\ \A p \in Procs : pc[p] # "idle" <=> mu = p
        /\ mu = None => out = <<>>
    BY Zenon DEF Inv, Holder
  <2> QED
    BY <2>1, <2>2, Zenon DEF Types, Stored, Dictionary, Positions, Flagged, TypeOK
<1> QED
  BY <1>1, InitTypes, TypesStep, Invariance, PTL DEF Spec

-----------------------------------------------------------------------------
(***************************************************************************)
(* Durability, when the disk does not fail.                                *)
(***************************************************************************)

\* The file ends on stable storage except inside Append, and lags behind the history by what
\* is still to be propagated.
Durable ==
  /\ ~broken
  /\ (\A p \in Procs : pc[p] # "fsync") => synced = Len(file)
  /\ status = "up" => /\ Len(muts) <= Len(file) + Len(out)
                      /\ acked \in Nat /\ acked <= synced
  /\ status # "up" => acked = 0

\* Every step keeps it so.
LEMMA DurableStep ==
  ASSUME Policy = "always", ~DiskFails PROVE Inv /\ Durable /\ [Next]_vars => Durable'
<1> SUFFICES ASSUME Inv, Durable, [Next]_vars PROVE Durable'
  OBVIOUS
<1>1. PICK S : file \in Seq(S) /\ out \in Seq(S) /\ muts \in Seq(S)
  BY Zenon DEF Inv, Logs
<1>2. Len(file) \in Nat /\ Len(out) \in Nat /\ Len(muts) \in Nat /\ synced \in 0 .. Len(file)
  BY <1>1 DEF Inv, Logs
<1>3. ASSUME UNCHANGED <<file, out, muts, status, broken, pc, synced, acked>> PROVE Durable'
  BY <1>3, Zenon DEF Durable
<1>4. ASSUME NEW p \in Procs, Lock(p) PROVE Durable'
  BY <1>4, Zenon DEF Lock, Durable, Inv, Holder
<1>5. ASSUME NEW p \in Procs, Mutate(p) PROVE Durable'
  <2>1. PICK S2 : out' \in Seq(S2)
    BY LogsStep, Zenon DEF Logs
  <2>2. Len(muts') = Len(muts) + Len(out') /\ Len(out) = 0 /\ Len(out') \in Nat
    BY <1>1, <1>5, <2>1 DEF Mutate, Inv, Holder
  <2>3. /\ UNCHANGED <<status, file, synced, broken, acked>>
        /\ pc[p] = "handler" /\ pc' = [pc EXCEPT ![p] = "propagate"] /\ DOMAIN pc = Procs
    BY <1>5, Zenon DEF Mutate, Inv, Holder
  <2>4. (\A q \in Procs : pc'[q] # "fsync") => \A q \in Procs : pc[q] # "fsync"
    BY <2>3, Zenon
  <2> QED
    BY <1>2, <2>2, <2>3, <2>4 DEF Durable
<1>6. ASSUME NEW p \in Procs, Write(p) PROVE Durable'
  <2>1. /\ ~broken' /\ out' = Tail(out) /\ out # <<>> /\ file' = Append(file, Stamp(Head(out), now))
        /\ pc' = [pc EXCEPT ![p] = "fsync"] /\ UNCHANGED <<muts, status, synced, acked>>
    BY <1>6 DEF Write, Durable
  <2>2. Len(out') = Len(out) - 1
    BY <1>1, <2>1
  <2>3. Len(file') = Len(file) + 1
    BY <1>1, <2>1
  <2> QED
    BY <1>2, <2>1, <2>2, <2>3 DEF Durable, Inv, Holder
<1>7. ASSUME NEW p \in Procs, Fsync(p) PROVE Durable'
  BY <1>2, <1>7 DEF Fsync, Durable
<1>8. ASSUME NEW p \in Procs, Reply(p) PROVE Durable'
  <2>1. \A q \in Procs : pc[q] # "fsync"
    BY <1>8, Zenon DEF Reply, Inv, Holder
  <2>2. Len(out) = 0
    BY <1>8, Zenon DEF Reply
  <2>3. status = "up"
    BY <1>8, AofAssumption, Zenon DEF Reply, Inv, Holder
  <2> QED
    BY <1>2, <1>8, <2>1, <2>2, <2>3 DEF Reply, Durable, Inv, Holder
<1>9. CASE SyncTick
  BY <1>9, Zenon DEF SyncTick
<1>10. CASE Crash
  BY <1>10, Zenon DEF Crash, Durable
<1>11. CASE Stop
  BY <1>11, Zenon DEF Stop, Durable
<1>12. CASE Start
  BY <1>12, Zenon DEF Start, Durable
<1>13. CASE Replay
  BY <1>3, <1>13, Zenon DEF Replay
<1>14. CASE ReplayTorn
  <2>1. status' = "up" => Len(muts') <= Len(file)
    BY <1>1, <1>2, <1>14 DEF ReplayTorn, Inv, Logs
  <2>2. acked = 0
    BY <1>14, Zenon DEF ReplayTorn, Durable
  <2> QED
    BY <1>2, <1>14, <2>1, <2>2 DEF ReplayTorn, Durable
<1>15. CASE Loaded
  BY <1>2, <1>15, AofAssumption DEF Loaded, Durable, Inv, Holder
<1>16. CASE Tick
  BY <1>3, <1>16, Zenon DEF Tick
<1>17. CASE UNCHANGED vars
  BY <1>3, <1>17, Zenon DEF vars
<1> QED
  BY <1>4, <1>5, <1>6, <1>7, <1>8, <1>9, <1>10, <1>11, <1>12, <1>13, <1>14, <1>15, <1>16, <1>17, Zenon
     DEF Next, Client

\* Under "always" and on a disk that does not fail, no crash loses an answered command,
\* torn records and restarts notwithstanding.
THEOREM NothingAnsweredIsLost == Spec => [](~DiskFails => AckedDurable)
<1> DEFINE Safe == Policy = "always" /\ ~DiskFails => Durable
<1>1. Init => Safe
  <2>1. Len(<<>>) = 0
    OBVIOUS
  <2> QED
    BY <2>1 DEF Init, Durable
<1>2. Inv /\ Safe /\ [Next]_vars => Safe'
  BY DurableStep, Zenon
<1>3. Safe => (~DiskFails => AckedDurable)
  BY Zenon DEF Durable, AckedDurable
<1> QED
  BY <1>1, <1>2, <1>3, Invariance, PTL DEF Spec

(***************************************************************************)
(* What Load would rebuild.                                                *)
(***************************************************************************)

\* Loading the first m records at time t, position by position.
Runs(f, m, t) == f = [n \in 0 .. m |-> IF n = 0 THEN Empty ELSE Execute(file[n], f[n - 1], t, t).mem]

\* One more record can always be loaded.
LEMMA RunsOn ==
  ASSUME NEW m \in Nat, NEW t, NEW f, Runs(f, m, t)
  PROVE  \E g : Runs(g, m + 1, t)
<1> DEFINE x == Execute(file[m + 1], f[m], t, t).mem
           g == [n \in 0 .. m + 1 |-> IF n = m + 1 THEN x ELSE f[n]]
<1>1. g = [n \in 0 .. m + 1 |-> g[n]]
  <2> HIDE DEF x
  <2> QED
    OBVIOUS
<1>2. g[m + 1] = x /\ \A n \in 0 .. m : g[n] = f[n]
  <2> HIDE DEF x
  <2> QED
    OBVIOUS
<1>3. f[0] = Empty /\ \A n \in 1 .. m : f[n] = Execute(file[n], f[n - 1], t, t).mem
  BY DEF Runs
<1> HIDE DEF g
<1>4. ASSUME NEW n \in 0 .. m + 1
      PROVE  g[n] = IF n = 0 THEN Empty ELSE Execute(file[n], g[n - 1], t, t).mem
  <2>1. CASE n = 0
    BY <1>2, <1>3, <2>1
  <2>2. CASE n \in 1 .. m
    <3>1. g[n] = f[n] /\ g[n - 1] = f[n - 1]
      BY <1>2, <2>2
    <3> QED
      BY <1>3, <2>2, <3>1, Zenon
  <2>3. CASE n = m + 1
    <3>1. g[n - 1] = f[m] /\ n # 0
      BY <1>2, <2>3
    <3> QED
      BY <1>2, <2>3, <3>1, Zenon
  <2> QED
    BY <2>1, <2>2, <2>3
<1>5. Runs(g, m + 1, t)
  BY <1>1, <1>4, Zenon DEF Runs
<1> QED
  BY <1>5, Zenon

\* The file can be loaded as far as it goes.
LEMMA RunsExist == ASSUME NEW m \in Nat, NEW t PROVE \E f : Runs(f, m, t)
<1> DEFINE T == {n \in Nat : ~\E f : Runs(f, n, t)}
<1>1. SUFFICES ASSUME T # {} PROVE FALSE
  BY Zenon
<1>2. T \subseteq Nat
  OBVIOUS
<1> HIDE DEF T
<1>3. PICK n \in T : \A i \in T : ~(<<i, n>> \in OpToRel(<, Nat))
  BY <1>1, <1>2, NatLessThanWellFounded, WFMin, Zenon
<1>4. \A i \in T : ~(i < n)
  BY <1>3, <1>2, Zenon DEF OpToRel
<1>5. n \in Nat /\ \A i \in 0 .. n - 1 : i \notin T
  BY <1>2, <1>4
<1>6. CASE n = 0
  <2> DEFINE f == [i \in 0 .. 0 |-> Empty]
  <2>1. f = [i \in 0 .. 0 |-> IF i = 0 THEN Empty ELSE Execute(file[i], f[i - 1], t, t).mem]
    OBVIOUS
  <2>2. Runs(f, 0, t)
    BY <2>1, Zenon DEF Runs
  <2> QED
    BY <1>6, <2>2, Zenon DEF T
<1>7. CASE n # 0
  <2>1. n - 1 \in Nat /\ n - 1 \in 0 .. n - 1 /\ n - 1 + 1 = n
    BY <1>5, <1>7
  <2>2. PICK f : Runs(f, n - 1, t)
    BY <1>5, <2>1, Zenon DEF T
  <2>3. \E g : Runs(g, n, t)
    BY <2>1, <2>2, RunsOn, Zenon
  <2> QED
    BY <2>3, Zenon DEF T
<1> QED
  BY <1>6, <1>7, Zenon

\* Function g follows the replay of the first m records of f at time t.
Replays(g, f, m, t) ==
  g[0] = Empty /\ \A i \in 1 .. m : g[i] = Execute(f[i], g[i - 1], t, t).mem

\* What Load would rebuild is what such a function has at the end.
LEMMA RebuiltReplays ==
  ASSUME Len(file) \in Nat
  PROVE  \E g : Replays(g, file, Len(file), now) /\ Rebuilt = g[Len(file)]
<1> DEFINE g == CHOOSE h : Runs(h, Len(file), now)
<1>1. Runs(g, Len(file), now)
  BY RunsExist, Zenon
<1>2. Rebuilt = g[Len(file)]
  BY Zenon DEF Rebuilt, Runs
<1> HIDE DEF g
<1>3. Replays(g, file, Len(file), now)
  BY <1>1 DEF Runs, Replays
<1> QED
  BY <1>2, <1>3, Zenon

\* It also follows the replay of fewer records, of any file that has them.
LEMMA ReplaysPrefix ==
  ASSUME NEW g, NEW f, NEW m \in Nat, NEW t, Replays(g, f, m, t),
         NEW h, NEW n \in Nat, n <= m, \A i \in 1 .. n : h[i] = f[i]
  PROVE  Replays(g, h, n, t)
  BY DEF Replays

-----------------------------------------------------------------------------
(***************************************************************************)
(* The file and the store.                                                 *)
(***************************************************************************)

\* From now until t nothing is about to expire.
Calm(t) == t \in Nat /\ now <= t /\ (due = 0 \/ t + TicksPerMs <= due)

\* The deadlines in the store are no earlier than the earliest one.
Tracked ==
  \A k \in Keys : mem[k] # NoEntry /\ mem[k].exp # 0 => due # 0 /\ due <= mem[k].exp

\* While Load runs, the store is what the records replayed so far give at any calm time.
Loads == status = "loading" => \A t, g : Calm(t) /\ Replays(g, file, pos, t) => mem = g[pos]

\* The TTL of a SET is positive as a number exactly if it is as a Duration.
TTLsFit == \A c \in Cmds : c.op = "set" => (c.ttl > 0 <=> Duration(c.ttl) > 0)

\* While the server is up, the file gives at any calm time what the commands still to be
\* propagated turn into the store.
Keeps ==
  status = "up" /\ Whole /\ ~broken =>
    \A t, g : Calm(t) /\ Replays(g, file, Len(file), t) => Catches(out, mem, g[Len(file)], now, t)

\* No deadline is near before the earliest one, d, is.
LEMMA FarBefore ==
  ASSUME NEW mm, Dictionary(mm), NEW d \in Nat, NEW t \in Nat, d = 0 \/ t + TicksPerMs <= d,
         \A k \in Keys : mm[k] # NoEntry /\ mm[k].exp # 0 => d # 0 /\ d <= mm[k].exp
  PROVE  AllFar(mm, t)
  BY OpsAssumption DEF Dictionary, WellFormed, AllFar, Far

\* So it is at a calm time.
LEMMA CalmFar ==
  /\ \A t : Stored /\ Tracked /\ Calm(t) => AllFar(mem, t)
  /\ \A t : Stored' /\ Tracked' /\ Calm(t)' => AllFar(mem', t)
<1>1. ASSUME NEW t, Stored, Tracked, Calm(t) PROVE AllFar(mem, t)
  BY <1>1, FarBefore, Zenon DEF Stored, Tracked, Calm
<1>2. ASSUME NEW t, Stored', Tracked', Calm(t)' PROVE AllFar(mem', t)
  <2>1. Dictionary(mem') /\ due' \in Nat
    BY <1>2, Zenon DEF Stored, Dictionary
  <2>2. t \in Nat /\ (due' = 0 \/ t + TicksPerMs <= due')
    BY <1>2, Zenon DEF Calm
  <2>3. \A k \in Keys : mem'[k] # NoEntry /\ mem'[k].exp # 0 => due' # 0 /\ due' <= mem'[k].exp
    BY <1>2, Zenon DEF Tracked
  <2> QED
    BY <2>1, <2>2, <2>3, FarBefore, Zenon
<1> QED
  BY <1>1, <1>2, Zenon

\* A calm time after the store call was calm before it.
LEMMA CalmBefore ==
  ASSUME Stored, Stored', now <= now', due' = EarliestDue(due, mem') \/ due' = due, NEW t, Calm(t)'
  PROVE  Calm(t)
<1>1. due # 0 => due' # 0 /\ due' <= due
  BY EarliestDueIs DEF Stored, Dictionary
<1> QED
  BY <1>1, OpsAssumption DEF Stored, Calm

\* The deadlines stay tracked.
LEMMA TrackedStep == Inv /\ Types /\ Tracked /\ [Next]_vars => Tracked'
<1> SUFFICES ASSUME Inv, Types, Tracked, [Next]_vars PROVE Tracked'
  OBVIOUS
<1>1. Stored /\ Stored'
  BY TypesStep, Zenon DEF Types
<1>2. ASSUME due' = EarliestDue(due, mem') PROVE Tracked'
  <2>1. due \in Nat /\ Dictionary(mem')
    BY <1>1, Zenon DEF Stored, Dictionary
  <2>2. \A k \in Keys : mem'[k] # NoEntry /\ mem'[k].exp # 0 =>
          EarliestDue(due, mem') # 0 /\ EarliestDue(due, mem') <= mem'[k].exp
    BY <2>1, EarliestDueIs, Zenon
  <2> QED
    BY <1>2, <2>2, Zenon DEF Tracked
<1>3. ASSUME mem' = Empty PROVE Tracked'
  BY <1>3, Zenon DEF Tracked, Empty
<1>4. ASSUME UNCHANGED <<mem, due>> PROVE Tracked'
  BY <1>4, Zenon DEF Tracked
<1>5. ASSUME NEW p \in Procs, Mutate(p) PROVE Tracked'
  BY <1>2, <1>5, MutateRuns, Zenon
<1>6. CASE Replay
  BY <1>2, <1>6, Zenon DEF Replay
<1>7. CASE Crash \/ Stop \/ Start
  BY <1>3, <1>7, Zenon DEF Crash, Stop, Start
<1>8. ASSUME NEW p \in Procs, Lock(p) \/ Write(p) \/ Fsync(p) \/ Reply(p) PROVE Tracked'
  BY <1>4, <1>8, Zenon DEF Lock, Write, Fsync, Reply
<1>9. CASE SyncTick \/ ReplayTorn \/ Loaded \/ Tick \/ UNCHANGED vars
  BY <1>4, <1>9, Zenon DEF SyncTick, ReplayTorn, Loaded, Tick, vars
<1> QED
  BY <1>5, <1>6, <1>7, <1>8, <1>9, Zenon DEF Next, Client

\* Load follows the replay, whatever the time it takes.
LEMMA LoadsStep == Inv /\ Types /\ Tracked /\ Loads /\ [Next]_vars => Loads'
<1> SUFFICES ASSUME Inv, Types, Tracked, Loads, [Next]_vars PROVE Loads'
  OBVIOUS
<1>1. Stored /\ Stored' /\ Tracked' /\ pos \in Nat /\ Len(file) \in Nat
  <2>1. Len(file) \in Nat
    BY DEF Inv, Logs
  <2> QED
    BY <2>1, TypesStep, TrackedStep, Zenon DEF Types, Inv, Logs
<1>2. ASSUME status' # "loading" PROVE Loads'
  BY <1>2, Zenon DEF Loads
<1>3. CASE Start
  <2>1. pos' = 0 /\ mem' = Empty
    BY <1>3, Zenon DEF Start
  <2> QED
    BY <2>1, Zenon DEF Loads, Replays
<1>4. CASE Replay
  <2> DEFINE r == file[pos + 1]
  <2>1. /\ status = "loading" /\ pos + 1 \in 1 .. Len(file) /\ r # Torn
        /\ now' \in now .. now + MaxDrift /\ mem' = Execute(r, mem, now, now').mem
        /\ due' = EarliestDue(due, mem') /\ pos' = pos + 1 /\ file' = file
    BY <1>1, <1>4 DEF Replay
  <2>2. Logged(r)
    BY <2>1, Zenon DEF Types, Runnable
  <2>3. ASSUME NEW t, NEW g, Calm(t)', Replays(g, file, pos + 1, t) PROVE mem' = g[pos + 1]
    <3>1. now \in Nat /\ now' \in Nat /\ now <= now' /\ now' <= t /\ t \in Nat
      BY <1>1, <2>1, <2>3 DEF Stored, Calm
    <3>2. Calm(t)
      BY <1>1, <2>1, <2>3, <3>1, CalmBefore, Zenon
    <3>3. AllFar(mem, t)
      BY <1>1, <3>2, CalmFar, Zenon
    <3>4. AllFar(mem', t)
      BY <1>1, <2>3, CalmFar, Zenon
    <3>5. mem = g[pos]
      <4>1. Replays(g, file, pos, t)
        BY <1>1, <2>3, ReplaysPrefix
      <4> QED
        BY <2>1, <3>2, <4>1, Zenon DEF Loads
    <3>6. Execute(r, mem, now, now').mem = Execute(r, mem, t, t).mem
      <4>1. Dictionary(mem) /\ AllFar(Execute(r, mem, now, now').mem, t)
        BY <1>1, <2>1, <3>4, Zenon DEF Stored
      <4> HIDE DEF r
      <4> QED
        BY <2>2, <3>1, <3>3, <4>1, SameLater
    <3>7. g[pos + 1] = Execute(r, g[pos], t, t).mem
      <4>1. pos + 1 \in 1 .. pos + 1 /\ (pos + 1) - 1 = pos
        BY <1>1
      <4>2. \A i \in 1 .. pos + 1 : g[i] = Execute(file[i], g[i - 1], t, t).mem
        BY <2>3, Zenon DEF Replays
      <4> QED
        BY <4>1, <4>2, Zenon
    <3> QED
      BY <2>1, <3>5, <3>6, <3>7, Zenon
  <2> HIDE DEF r
  <2>4. \A t, g : Calm(t)' /\ Replays(g, file, pos + 1, t) => mem' = g[pos + 1]
    BY <2>3, Zenon
  <2> QED
    BY <2>1, <2>4, Zenon DEF Loads
<1>5. CASE Tick \/ UNCHANGED vars
  <2>1. UNCHANGED <<status, mem, file, pos, due>> /\ now <= now'
    BY <1>1, <1>5 DEF Tick, vars, Stored
  <2>2. ASSUME NEW t, Calm(t)' PROVE Calm(t)
    BY <1>1, <2>1, <2>2, CalmBefore, Zenon
  <2> QED
    BY <2>1, <2>2, Zenon DEF Loads
<1>6. ASSUME NEW p \in Procs, Client(p) PROVE Loads'
  <2>1. status = "up" /\ status' = status
    <3>1. CASE Lock(p)
      BY <3>1, Zenon DEF Lock
    <3>2. CASE Mutate(p) \/ Write(p) \/ Fsync(p) \/ Reply(p)
      <4>1. pc[p] # "idle" /\ status' = status
        BY <3>2, Zenon DEF Mutate, Write, Fsync, Reply
      <4> QED
        BY <4>1, AofAssumption, Zenon DEF Inv, Holder
    <3> QED
      BY <1>6, <3>1, <3>2, Zenon DEF Client
  <2> QED
    BY <1>2, <2>1, Zenon
<1>7. CASE SyncTick \/ Crash \/ Stop \/ ReplayTorn \/ Loaded
  BY <1>2, <1>7, Zenon DEF SyncTick, Crash, Stop, ReplayTorn, Loaded
<1> QED
  BY <1>3, <1>4, <1>5, <1>6, <1>7, Zenon DEF Next

\* A later write catches up as well.
LEMMA CatchesLater ==
  ASSUME NEW o, NEW mm, NEW rr, NEW n \in Int, NEW u \in Int, n <= u, NEW t \in Int,
         Catches(o, mm, rr, n, t)
  PROVE  Catches(o, mm, rr, u, t)
<1>1. \A s \in u .. t : s \in n .. t
  OBVIOUS
<1> QED
  BY <1>1, Zenon DEF Catches

\* With nothing left to write, the rebuilt dictionary reflects the store's.
LEMMA CatchesNone ==
  ASSUME NEW mm, NEW rr, NEW n, NEW t
  PROVE  Catches(<<>>, mm, rr, n, t) <=> Reflects(mm, rr)
<1>1. Len(<<>>) = 0
  OBVIOUS
<1> QED
  BY <1>1 DEF Catches

\* One record is written, at n.
LEMMA CatchesWrite ==
  ASSUME NEW S, NEW o \in Seq(S), o # <<>>, NEW mm, NEW rr, NEW n \in Nat, NEW t \in Nat, n <= t,
         Catches(o, mm, rr, n, t)
  PROVE  Catches(Tail(o), mm, Execute(Stamp(Head(o), n), rr, t, t).mem, n, t)
<1> DEFINE x == Execute(Stamp(Head(o), n), rr, t, t).mem
<1>1. n \in n .. t
  OBVIOUS
<1>2. Len(o) # 0 /\ Head(o) = o[1] /\ Len(Tail(o)) = Len(o) - 1 /\ Len(o) \in Nat
  OBVIOUS
<1>3. CASE Len(o) = 1 /\ \A s \in n .. t : Reflects(mm, Execute(Stamp(o[1], s), rr, t, t).mem)
  <2>1. Reflects(mm, x)
    BY <1>1, <1>2, <1>3, Zenon
  <2>2. Len(Tail(o)) = 0
    BY <1>2, <1>3
  <2> HIDE DEF x
  <2>3. Catches(Tail(o), mm, x, n, t)
    BY <2>1, <2>2, Zenon DEF Catches
  <2> QED
    BY <2>3, Zenon DEF x
<1>4. CASE /\ Len(o) = 2
           /\ \A s, v \in n .. t :
                Reflects(mm, Execute(Stamp(o[2], v), Execute(Stamp(o[1], s), rr, t, t).mem, t, t).mem)
  <2>1. \A v \in n .. t : Reflects(mm, Execute(Stamp(o[2], v), x, t, t).mem)
    BY <1>1, <1>2, <1>4, Zenon
  <2>2. Len(Tail(o)) = 1 /\ Tail(o)[1] = o[2]
    <3>1. Len(o) = 2
      BY <1>4, Zenon
    <3> HIDE <1>4
    <3> QED
      BY <1>2, <3>1
  <2> HIDE DEF x
  <2>3. Catches(Tail(o), mm, x, n, t)
    BY <2>1, <2>2, Zenon DEF Catches
  <2> QED
    BY <2>3, Zenon DEF x
<1> QED
  BY <1>2, <1>3, <1>4, Zenon DEF Catches

\* The file keeps up with the store.
LEMMA KeepsStep ==
  ASSUME TTLsFit PROVE Inv /\ Types /\ Tracked /\ Loads /\ Keeps /\ [Next]_vars => Keeps'
<1> SUFFICES ASSUME Inv, Types, Tracked, Loads, Keeps, [Next]_vars PROVE Keeps'
  OBVIOUS
<1>1. PICK S : file \in Seq(S) /\ out \in Seq(S)
  BY Zenon DEF Inv, Logs
<1>2. Stored /\ Stored' /\ Tracked' /\ Len(file) \in Nat
  BY <1>1, TypesStep, TrackedStep DEF Types
<1>3. ASSUME status' # "up" \/ broken' \/ ~Whole' PROVE Keeps'
  BY <1>3, Zenon DEF Keeps
<1>4. ASSUME UNCHANGED <<status, mem, out, file, broken, due>>, now <= now' PROVE Keeps'
  <2>1. UNCHANGED Whole
    BY <1>4, Zenon DEF Whole
  <2>2. ASSUME status = "up", Whole, ~broken, NEW t, NEW g, Calm(t)', Replays(g, file, Len(file), t)
        PROVE  Catches(out, mem, g[Len(file)], now', t)
    <3>1. Calm(t) /\ now \in Int /\ now' \in Int /\ t \in Int
      BY <1>2, <1>4, <2>2, CalmBefore DEF Stored, Calm
    <3>2. Catches(out, mem, g[Len(file)], now, t)
      BY <2>2, <3>1, Zenon DEF Keeps
    <3> QED
      BY <1>4, <3>1, <3>2, CatchesLater, Zenon
  <2> QED
    BY <1>4, <2>1, <2>2, Zenon DEF Keeps
<1>5. ASSUME NEW p \in Procs, Mutate(p) PROVE Keeps'
  <2> DEFINE c == cmd[p]
  <2>1. /\ mem' = Execute(c, mem, now, now').mem /\ out' = Execute(c, mem, now, now').out
        /\ due' = EarliestDue(due, mem') /\ now' \in now .. now + MaxDrift
        /\ IsWriteCmd(c)
    BY <1>5, MutateRuns, Zenon
  <2>2. c \in Cmds /\ out = <<>> /\ UNCHANGED <<status, file, broken>>
    BY <1>5, Zenon DEF Mutate, Inv, Holder
  <2>3. c.op = "set" => (c.ttl > 0 <=> Duration(c.ttl) > 0)
    BY <2>2, Zenon DEF TTLsFit
  <2>4. UNCHANGED Whole
    BY <2>2, Zenon DEF Whole
  <2> HIDE DEF c
  <2>5. ASSUME status = "up", Whole, ~broken, NEW t, NEW g, Calm(t)', Replays(g, file, Len(file), t)
        PROVE  Catches(out', mem', g[Len(file)], now', t)
    <3>1. now \in Nat /\ now' \in Nat /\ now <= now' /\ now' <= t /\ t \in Nat
      BY <1>2, <2>1, <2>5 DEF Stored, Calm
    <3>2. Calm(t)
      BY <1>2, <2>1, <2>5, <3>1, CalmBefore, Zenon
    <3>3. AllFar(mem, t) /\ AllFar(mem', t)
      BY <1>2, <2>5, <3>2, CalmFar, Zenon
    <3>4. Reflects(mem, g[Len(file)])
      <4>1. Catches(out, mem, g[Len(file)], now, t)
        BY <2>5, <3>2, Zenon DEF Keeps
      <4> QED
        BY <2>2, <4>1, CatchesNone, Zenon
    <3>5. Setting(mem, g[Len(file)], now, now', t)
      BY <1>2, <3>1, <3>3, <3>4, Zenon DEF Setting, Stored
    <3>6. AllFar(Execute(c, mem, now, now').mem, t)
      BY <2>1, <3>3, Zenon
    <3>7. Catches(Execute(c, mem, now, now').out, Execute(c, mem, now, now').mem, g[Len(file)], now', t)
      BY <2>1, <2>3, <3>5, <3>6, Carried, Zenon
    <3> QED
      BY <2>1, <3>7, Zenon
  <2> QED
    BY <2>2, <2>4, <2>5, Zenon DEF Keeps
<1>6. ASSUME NEW p \in Procs, Write(p) PROVE Keeps'
  <2> DEFINE r == Stamp(Head(out), now)
  <2>1. /\ out # <<>> /\ out' = Tail(out) /\ UNCHANGED <<status, mem, now, due>>
        /\ broken' \/ (~broken /\ file' = Append(file, r))
    BY <1>6 DEF Write
  <2>2. CASE broken'
    BY <1>3, <2>2, Zenon
  <2>3. CASE ~broken /\ file' = Append(file, r)
    <3>1. Whole' => Whole
      BY <1>1, <2>3, AppendWhole, Zenon
    <3> HIDE DEF r
    <3>2. /\ Len(file') = Len(file) + 1 /\ file'[Len(file) + 1] = r
          /\ \A i \in 1 .. Len(file) : file'[i] = file[i]
      BY <1>1, <2>3
    <3>3. ASSUME status = "up", Whole, NEW t, NEW g, Calm(t)', Replays(g, file', Len(file) + 1, t)
          PROVE  Catches(out', mem, g[Len(file) + 1], now, t)
      <4>1. Calm(t) /\ now \in Nat /\ t \in Nat /\ now <= t
        BY <1>2, <2>1, <3>3, Zenon DEF Stored, Calm
      <4>2. Replays(g, file, Len(file), t)
        BY <1>2, <3>2, <3>3, ReplaysPrefix
      <4>3. Catches(out, mem, g[Len(file)], now, t)
        BY <2>3, <3>3, <4>1, <4>2, Zenon DEF Keeps
      <4>4. g[Len(file) + 1] = Execute(r, g[Len(file)], t, t).mem
        <5>1. Len(file) + 1 \in 1 .. Len(file) + 1 /\ (Len(file) + 1) - 1 = Len(file)
          BY <1>2, <3>2
        <5> QED
          BY <3>2, <3>3, <5>1, Zenon DEF Replays
      <4>5. Catches(Tail(out), mem, Execute(r, g[Len(file)], t, t).mem, now, t)
        BY <1>1, <2>1, <4>1, <4>3, CatchesWrite, Zenon DEF r
      <4> QED
        BY <2>1, <4>4, <4>5, Zenon
    <3> QED
      BY <2>1, <3>1, <3>2, <3>3, Zenon DEF Keeps
  <2> QED
    BY <2>1, <2>2, <2>3, Zenon
<1>7. CASE Loaded
  <2>1. /\ status = "loading" /\ pos = Len(file)
        /\ UNCHANGED <<mem, now, out, file, broken, due>>
    BY <1>7, Zenon DEF Loaded
  <2>2. out = <<>>
    BY <2>1, Zenon DEF Inv, Holder
  <2>3. ASSUME NEW t, NEW g, Calm(t)', Replays(g, file, Len(file), t)
        PROVE  Catches(out, mem, g[Len(file)], now, t)
    <3>1. Calm(t)
      BY <2>1, <2>3, Zenon DEF Calm
    <3>2. mem = g[Len(file)]
      BY <2>1, <2>3, <3>1, Zenon DEF Loads
    <3>3. Reflects(mem, mem)
      BY <1>2, AgreeSelf, Zenon DEF Reflects, Stored, Dictionary
    <3> QED
      BY <2>2, <3>2, <3>3, CatchesNone, Zenon
  <2> QED
    BY <2>1, <2>3, Zenon DEF Keeps
<1>8. CASE ReplayTorn
  <2>1. pos + 1 \in 1 .. Len(file) /\ file[pos + 1] = Torn /\ file' = file
    BY <1>2, <1>8 DEF ReplayTorn, Inv, Logs
  <2>2. ~Whole'
    BY <1>1, <2>1 DEF Whole, Range
  <2> QED
    BY <1>3, <2>2, Zenon
<1>9. CASE Crash \/ Stop \/ Start
  BY <1>3, <1>9, Zenon DEF Crash, Stop, Start
<1>10. CASE Replay
  BY <1>3, <1>10, Zenon DEF Replay
<1>11. ASSUME NEW p \in Procs, Lock(p) \/ Fsync(p) \/ Reply(p) PROVE Keeps'
  <2>1. UNCHANGED <<status, mem, out, file, broken, due, now>>
    BY <1>11, Zenon DEF Lock, Fsync, Reply
  <2>2. now <= now'
    BY <1>2, <2>1 DEF Stored
  <2> QED
    BY <1>4, <2>1, <2>2, Zenon
<1>12. CASE SyncTick \/ Tick \/ UNCHANGED vars
  <2>1. UNCHANGED <<status, mem, out, file, broken, due>> /\ now' \in {now, now + 1}
    BY <1>12, Zenon DEF SyncTick, Tick, vars
  <2>2. now <= now'
    BY <1>2, <2>1 DEF Stored
  <2> QED
    BY <1>4, <2>1, <2>2, Zenon
<1> QED
  BY <1>5, <1>6, <1>7, <1>8, <1>9, <1>10, <1>11, <1>12, Zenon DEF Next, Client

\* A restart loses nothing: whatever write commands run, wherever the server crashes and
\* however often it restarts, as long as no deadline is near the file rebuilds every key
\* with its value, and its deadline up to the cut to milliseconds.  The TTLs of SET must be
\* positive as durations if they are as numbers.
THEOREM FileRebuildsStore == Spec => [](TTLsFit => ReplayFaithful)
<1> DEFINE Faithful == TTLsFit => Keeps
<1>1. Init => Tracked /\ Loads /\ Faithful
  <2> SUFFICES ASSUME Init PROVE Tracked /\ Loads /\ Keeps
    OBVIOUS
  <2>1. Tracked
    BY Zenon DEF Init, Tracked, Empty
  <2>2. Loads
    BY Zenon DEF Init, Loads
  <2>3. Len(<<>>) = 0
    OBVIOUS
  <2>4. Reflects(Empty, Empty)
    BY EmptyDictionary, AgreeNone, Zenon DEF Reflects, Empty
  <2>5. Keeps
    <3>1. ASSUME NEW t, NEW g, Replays(g, file, 0, t) PROVE Catches(out, mem, g[0], now, t)
      BY <2>3, <2>4, <3>1, Zenon DEF Init, Replays, Catches
    <3> QED
      BY <2>3, <3>1, Zenon DEF Init, Keeps
  <2> QED
    BY <2>1, <2>2, <2>5, Zenon
<1>2. Inv /\ Types /\ Tracked /\ Loads /\ Faithful /\ [Next]_vars => (Tracked /\ Loads /\ Faithful)'
  BY TrackedStep, LoadsStep, KeepsStep, Zenon DEF TTLsFit
<1>3. Inv /\ Types /\ Faithful => (TTLsFit => ReplayFaithful)
  <2> SUFFICES ASSUME Inv, Types, Keeps, Settled, due = 0 \/ now + TicksPerMs <= due, NEW k \in Keys
               PROVE  Agree(mem[k], Rebuilt[k])
    BY Zenon DEF ReplayFaithful, Agree
  <2>1. Len(file) \in Nat
    BY DEF Inv, Logs
  <2>2. PICK g : Replays(g, file, Len(file), now) /\ Rebuilt = g[Len(file)]
    BY <2>1, RebuiltReplays, Zenon
  <2>3. Calm(now)
    BY DEF Types, Stored, Calm
  <2>4. Catches(out, mem, Rebuilt, now, now)
    BY <2>2, <2>3, Zenon DEF Keeps, Settled
  <2>5. out = <<>>
    BY Zenon DEF Settled, Inv, Holder
  <2>6. Reflects(mem, Rebuilt)
    BY <2>4, <2>5, CatchesNone, Zenon
  <2> QED
    BY <2>6, Zenon DEF Reflects
<1> QED
  BY <1>1, <1>2, <1>3, InitTypes, TypesStep, Invariance, PTL DEF Spec

=============================================================================
