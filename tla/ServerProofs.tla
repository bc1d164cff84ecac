---------------------------- MODULE ServerProofs ----------------------------
(***************************************************************************)
(* Proofs about Server.tla, for any number of connections and slots, with  *)
(* panics, idle timeouts and authentication or without them.               *)
(*                                                                         *)
(* Counts of connections are the heart of the matter: sem, connected and   *)
(* wg each count the handlers in some of their states.  CountMoves says    *)
(* what one handler's step does to such a count.  The inductive invariant  *)
(* adds to TypeOK that the counters are exact, that the connection being   *)
(* accepted has no handler yet, that handlers in their loop are in         *)
(* s.conns, and what is left to close in each phase of the shutdown.       *)
(***************************************************************************)
EXTENDS ServerImplements, FiniteSetTheorems, TLAPS

\* How many handlers are in the states S.
Count(S) == Cardinality({c \in Conns : h[c] \in S})

OneIf(cond) == IF cond THEN 1 ELSE 0

-----------------------------------------------------------------------------
\* The handlers in S are finitely many.
LEMMA CountType == ASSUME NEW S PROVE Count(S) \in Nat /\ IsFiniteSet({c \in Conns : h[c] \in S})
BY ServerAssumption, FS_Subset, FS_CardinalityType DEF Count

\* One handler goes from one state to another.
LEMMA CountMoves ==
  ASSUME NEW S, NEW c \in Conns, NEW to, h \in [Conns -> {"none", "done"} \cup Live],
         h' = [h EXCEPT ![c] = to]
  PROVE  /\ Count(S)' = Count(S) - OneIf(h[c] \in S) + OneIf(to \in S)
         /\ Count(S) \in Nat /\ Count(S)' \in Nat
<1> DEFINE old == {d \in Conns : h[d] \in S}
           new == {d \in Conns : h'[d] \in S}
<1>1. IsFiniteSet(old) /\ Cardinality(old) \in Nat /\ Count(S) = Cardinality(old)
  BY CountType, FS_CardinalityType DEF Count
<1>2. Count(S)' = Cardinality(new)
  BY DEF Count
<1>3. c \in old <=> h[c] \in S
  OBVIOUS
<1>4. CASE to \in S
  <2>1. new = old \cup {c}
    BY <1>4
  <2>2. /\ Cardinality(new) = IF c \in old THEN Cardinality(old) ELSE Cardinality(old) + 1
        /\ Cardinality(new) \in Nat
    BY <1>1, <2>1, FS_AddElement, FS_CardinalityType
  <2> QED
    BY <1>1, <1>2, <1>3, <1>4, <2>2 DEF OneIf
<1>5. CASE to \notin S
  <2>1. new = old \ {c}
    BY <1>5
  <2>2. /\ Cardinality(new) = IF c \in old THEN Cardinality(old) - 1 ELSE Cardinality(old)
        /\ Cardinality(new) \in Nat
    BY <1>1, <2>1, FS_RemoveElement, FS_CardinalityType
  <2> QED
    BY <1>1, <1>2, <1>3, <1>5, <2>2 DEF OneIf
<1> QED
  BY <1>4, <1>5

\* A count of zero means nobody.
LEMMA CountZero ==
  ASSUME NEW S, Count(S) = 0 PROVE \A c \in Conns : h[c] \notin S
<1>1. {c \in Conns : h[c] \in S} = {}
  BY CountType, FS_EmptySet DEF Count
<1> QED
  BY <1>1

\* A count of one means nobody else.
LEMMA CountOne ==
  ASSUME NEW S, NEW c \in Conns, h[c] \in S, Count(S) = 1
  PROVE  \A d \in Conns \ {c} : h[d] \notin S
<1> DEFINE all == {d \in Conns : h[d] \in S}
<1>1. IsFiniteSet(all) /\ Cardinality(all) = 1 /\ c \in all
  BY CountType DEF Count
<1>2. all \ {c} = {}
  <2> HIDE DEF all
  <2>1. IsFiniteSet(all \ {c}) /\ Cardinality(all \ {c}) = 0
    BY <1>1, FS_RemoveElement
  <2> QED
    BY <2>1, FS_EmptySet
<1> QED
  BY <1>2

-----------------------------------------------------------------------------
(***************************************************************************)
(* The inductive invariant.                                                *)
(***************************************************************************)

Connected == HasSlot \cup {"close"}
Slots == Count(HasSlot)
Clients == Count(Connected)
Handlers == Count(Live)

\* Each counter counts the handlers that have still to give their share back, and the
\* connection whose handler is about to start.
CountersExact ==
  /\ sem = Slots + OneIf(accept \in {"register", "spawn"})
  /\ connected = Clients + OneIf(accept = "spawn")
  /\ wg = Handlers
  /\ Slots \in Nat /\ Clients \in Nat /\ Handlers \in Nat

\* A connection that is not yet accepted, or just being accepted, has no handler; a handler
\* is in s.conns from before its first check until its cleanup; the accept loop starts once;
\* and what a connection has buffered was sent.
Coherent ==
  /\ accept \in {"admit", "reject", "register", "spawn"} =>
       cur \in Conns /\ h[cur] = "none" /\ net[cur] \notin {"new", "queued"}
  /\ accept = "spawn" => cur \in conns
  /\ \A c \in Conns :
       /\ net[c] \in {"new", "queued"} => h[c] = "none"
       /\ h[c] \in {"check", "cleanup"} \cup InLoop => c \in conns
       /\ buffered[c] <= sent
  /\ main = "boot" => serve = "none"
  /\ serve \in {"none", "start"} => accept = "none"

Stopping == {"range", "ranging", "waiting", "released", "join", "returned", "panicked"}

\* What is left to do in each phase of the shutdown: nobody enters the loop any more, the
\* open connections of those inside are still to be visited, then all of them are closed,
\* and after the WaitGroup nobody is inside.
Phases ==
  /\ serve \in Stopping => done /\ ~listening
  /\ serve \notin Stopping => listening
  /\ serve = "ranging" => \A c \in Conns : h[c] \in InLoop => net[c] = "closed" \/ c \in range
  /\ serve \in {"waiting", "released", "join", "returned", "panicked"} =>
       \A c \in Conns : h[c] \in InLoop => net[c] = "closed"
  /\ serve \in {"released", "join", "returned", "panicked"} =>
       \A c \in Conns : h[c] \notin InLoop

Inv == TypeOK /\ CountersExact /\ Coherent /\ Phases

-----------------------------------------------------------------------------
(***************************************************************************)
(* It holds initially and every step preserves each of its parts.          *)
(***************************************************************************)

\* What a handler's step does to the three counts.
LEMMA CountsMove ==
  ASSUME TypeOK, NEW c \in Conns, NEW to, h' = [h EXCEPT ![c] = to]
  PROVE  /\ Slots' = Slots - OneIf(h[c] \in HasSlot) + OneIf(to \in HasSlot)
         /\ Clients' = Clients - OneIf(h[c] \in Connected) + OneIf(to \in Connected)
         /\ Handlers' = Handlers - OneIf(h[c] \in Live) + OneIf(to \in Live)
         /\ Slots' \in Nat /\ Clients' \in Nat /\ Handlers' \in Nat
<1>1. h \in [Conns -> {"none", "done"} \cup Live]
  BY DEF TypeOK
<1>2. Slots' = Slots - OneIf(h[c] \in HasSlot) + OneIf(to \in HasSlot) /\ Slots' \in Nat
  BY <1>1, CountMoves DEF Slots
<1>3. Clients' = Clients - OneIf(h[c] \in Connected) + OneIf(to \in Connected) /\ Clients' \in Nat
  BY <1>1, CountMoves DEF Clients
<1>4. Handlers' = Handlers - OneIf(h[c] \in Live) + OneIf(to \in Live) /\ Handlers' \in Nat
  BY <1>1, CountMoves DEF Handlers
<1> QED
  BY <1>2, <1>3, <1>4

\* A step of a handler that keeps its slot changes none of them.
LEMMA CountsSame ==
  ASSUME TypeOK, CountersExact, NEW c \in Conns, NEW to \in HasSlot, h[c] \in HasSlot,
         h' = [h EXCEPT ![c] = to]
  PROVE  Slots' = Slots /\ Clients' = Clients /\ Handlers' = Handlers
<1>1. \A s \in {h[c], to} : s \in HasSlot /\ s \in Connected /\ s \in Live
  BY DEF Connected, Live
<1>2. /\ Slots' = Slots - OneIf(h[c] \in HasSlot) + OneIf(to \in HasSlot)
      /\ Clients' = Clients - OneIf(h[c] \in Connected) + OneIf(to \in Connected)
      /\ Handlers' = Handlers - OneIf(h[c] \in Live) + OneIf(to \in Live)
  BY CountsMove
<1> QED
  BY <1>1, <1>2 DEF OneIf, CountersExact

\* What the absence of one does.
LEMMA CountsStay ==
  ASSUME h' = h PROVE Slots' = Slots /\ Clients' = Clients /\ Handlers' = Handlers
BY DEF Slots, Clients, Handlers, Count

\* Initially no connection has a handler.
LEMMA InitInv == Init => Inv
<1> SUFFICES ASSUME Init PROVE Inv
  OBVIOUS
<1>1. ASSUME NEW S, "none" \notin S PROVE Count(S) = 0
  <2>1. {c \in Conns : h[c] \in S} = {}
    BY <1>1 DEF Init
  <2> QED
    BY <2>1, FS_EmptySet DEF Count
<1>2. Slots = 0 /\ Clients = 0 /\ Handlers = 0
  BY <1>1 DEF Slots, Clients, Handlers, Connected, HasSlot, Live, InLoop
<1>3. CountersExact
  BY <1>2 DEF Init, CountersExact, OneIf
<1>4. TypeOK
  <2>1. /\ buffered \in [Conns -> 0 .. MaxCmds] /\ sent \in 0 .. MaxCmds /\ sem \in 0 .. MaxConn
        /\ connected \in Nat /\ wg \in Nat
    BY ServerAssumption DEF Init
  <2>2. /\ done \in BOOLEAN /\ errCh \in BOOLEAN /\ listening \in BOOLEAN
        /\ authed \in [Conns -> BOOLEAN] /\ conns \subseteq Conns /\ range \subseteq Conns
    BY DEF Init
  <2> QED
    BY <2>1, <2>2 DEF Init, TypeOK
<1>5. Coherent /\ Phases
  BY ServerAssumption DEF Init, Coherent, Phases, Stopping, InLoop
<1> QED
  BY <1>3, <1>4, <1>5 DEF Inv

\* The counters stay exact.
LEMMA CountersStep == Inv /\ [Next]_vars => CountersExact'
<1> SUFFICES ASSUME Inv, [Next]_vars PROVE CountersExact'
  OBVIOUS
<1> USE DEF Inv, mainVars, acceptVars, connVars, slotVars
<1>1. CASE Signal
  BY <1>1, CountsStay DEF Signal, CountersExact, OneIf
<1>2. CASE StartServe
  BY <1>2, CountsStay DEF StartServe, CountersExact, OneIf
<1>3. CASE Select
  BY <1>3, CountsStay DEF Select, CountersExact, OneIf
<1>4. CASE Exit
  BY <1>4, CountsStay DEF Exit, CountersExact, OneIf
<1>5. CASE StartAccepting
  BY <1>5, CountsStay DEF StartAccepting, CountersExact, OneIf, Coherent
<1>6. CASE CloseListener
  BY <1>6, CountsStay DEF CloseListener, CountersExact, OneIf
<1>7. CASE StartRange
  BY <1>7, CountsStay DEF StartRange, CountersExact, OneIf
<1>8. CASE CloseNext
  BY <1>8, CountsStay DEF CloseNext, CountersExact, OneIf
<1>9. CASE Wait
  BY <1>9, CountsStay DEF Wait, CountersExact, OneIf
<1>10. CASE Wake
  BY <1>10, CountsStay DEF Wake, CountersExact, OneIf
<1>11. CASE Return
  BY <1>11, CountsStay DEF Return, CountersExact, OneIf
<1>12. CASE Accept
  BY <1>12, CountsStay DEF Accept, CountersExact, OneIf
<1>13. CASE AcceptError
  BY <1>13, CountsStay DEF AcceptError, CountersExact, OneIf
<1>14. CASE Backoff
  BY <1>14, CountsStay DEF Backoff, CountersExact, OneIf
<1>15. CASE Admit
  BY <1>15, CountsStay DEF Admit, CountersExact, OneIf
<1>16. CASE Reject
  BY <1>16, CountsStay DEF Reject, CountersExact, OneIf
<1>17. CASE Register
  BY <1>17, CountsStay DEF Register, CountersExact, OneIf
<1>18. CASE Spawn
  <2>1. h[cur] = "none" /\ h' = [h EXCEPT ![cur] = "check"] /\ cur \in Conns
    BY <1>18 DEF Spawn, Coherent
  <2>2. /\ "none" \notin HasSlot /\ "none" \notin Connected /\ "none" \notin Live
        /\ "check" \in HasSlot /\ "check" \in Connected /\ "check" \in Live
    BY DEF HasSlot, Connected, Live, InLoop
  <2>3. /\ Slots' = Slots - OneIf("none" \in HasSlot) + OneIf("check" \in HasSlot)
        /\ Clients' = Clients - OneIf("none" \in Connected) + OneIf("check" \in Connected)
        /\ Handlers' = Handlers - OneIf("none" \in Live) + OneIf("check" \in Live)
        /\ Slots' \in Nat /\ Clients' \in Nat /\ Handlers' \in Nat
    BY <2>1, CountsMove
  <2> QED
    BY <1>18, <2>2, <2>3 DEF Spawn, CountersExact, OneIf
<1>19. ASSUME NEW c \in Conns, Connect(c) PROVE CountersExact'
  BY <1>19, CountsStay DEF Connect, CountersExact, OneIf
<1>20. ASSUME NEW c \in Conns, Send(c) PROVE CountersExact'
  BY <1>20, CountsStay DEF Send, CountersExact, OneIf
<1>21. ASSUME NEW c \in Conns, Leave(c) PROVE CountersExact'
  BY <1>21, CountsStay DEF Leave, CountersExact, OneIf
<1>22. ASSUME NEW c \in Conns, Check(c) PROVE CountersExact'
  <2>1. h[c] \in HasSlot /\ \E to \in HasSlot : h' = [h EXCEPT ![c] = to]
    BY <1>22 DEF Check, Goto, HasSlot, InLoop
  <2> QED
    BY <1>22, <2>1, CountsSame DEF Check, CountersExact, OneIf
<1>23. ASSUME NEW c \in Conns, Read(c) PROVE CountersExact'
  <2>1. h[c] \in HasSlot /\ \E to \in HasSlot : h' = [h EXCEPT ![c] = to]
    BY <1>23 DEF Read, Goto, HasSlot, InLoop
  <2> QED
    BY <1>23, <2>1, CountsSame DEF Read, CountersExact, OneIf
<1>24. ASSUME NEW c \in Conns, ReadError(c) PROVE CountersExact'
  <2>1. h[c] \in HasSlot /\ \E to \in HasSlot : h' = [h EXCEPT ![c] = to]
    BY <1>24 DEF ReadError, Goto, HasSlot, InLoop
  <2> QED
    BY <1>24, <2>1, CountsSame DEF ReadError, CountersExact, OneIf
<1>25. ASSUME NEW c \in Conns, Answer(c) PROVE CountersExact'
  <2>1. h[c] \in HasSlot /\ \E to \in HasSlot : h' = [h EXCEPT ![c] = to]
    BY <1>25 DEF Answer, Goto, HasSlot, InLoop
  <2> QED
    BY <1>25, <2>1, CountsSame DEF Answer, CountersExact, OneIf
<1>26. ASSUME NEW c \in Conns, LockWriteMu(c) PROVE CountersExact'
  <2>1. h[c] \in HasSlot /\ \E to \in HasSlot : h' = [h EXCEPT ![c] = to]
    BY <1>26 DEF LockWriteMu, Goto, HasSlot, InLoop
  <2> QED
    BY <1>26, <2>1, CountsSame DEF LockWriteMu, CountersExact, OneIf
<1>27. ASSUME NEW c \in Conns, Exec(c) PROVE CountersExact'
  <2>1. h[c] \in HasSlot /\ \E to \in HasSlot : h' = [h EXCEPT ![c] = to]
    BY <1>27 DEF Exec, Goto, HasSlot, InLoop
  <2> QED
    BY <1>27, <2>1, CountsSame DEF Exec, CountersExact, OneIf
<1>28. ASSUME NEW c \in Conns, Panic(c) PROVE CountersExact'
  <2>1. h[c] \in HasSlot /\ \E to \in HasSlot : h' = [h EXCEPT ![c] = to]
    BY <1>28 DEF Panic, Goto, HasSlot, InLoop
  <2> QED
    BY <1>28, <2>1, CountsSame DEF Panic, CountersExact, OneIf
<1>29. ASSUME NEW c \in Conns, WriteReply(c) PROVE CountersExact'
  <2>1. h[c] \in HasSlot /\ \E to \in HasSlot : h' = [h EXCEPT ![c] = to]
    BY <1>29 DEF WriteReply, Goto, HasSlot, InLoop
  <2> QED
    BY <1>29, <2>1, CountsSame DEF WriteReply, CountersExact, OneIf
<1>30. ASSUME NEW c \in Conns, Deregister(c) PROVE CountersExact'
  <2>1. h[c] \in HasSlot /\ \E to \in HasSlot : h' = [h EXCEPT ![c] = to]
    BY <1>30 DEF Deregister, Goto, HasSlot, InLoop
  <2> QED
    BY <1>30, <2>1, CountsSame DEF Deregister, CountersExact, OneIf
<1>31. ASSUME NEW c \in Conns, Release(c) PROVE CountersExact'
  <2>1. h[c] = "release" /\ h' = [h EXCEPT ![c] = "close"]
    BY <1>31 DEF Release, Goto
  <2>2. /\ "release" \in HasSlot /\ "release" \in Connected /\ "release" \in Live
        /\ "close" \notin HasSlot /\ "close" \in Connected /\ "close" \in Live
    BY DEF HasSlot, Connected, Live, InLoop
  <2>3. /\ Slots' = Slots - OneIf("release" \in HasSlot) + OneIf("close" \in HasSlot)
        /\ Clients' = Clients - OneIf("release" \in Connected) + OneIf("close" \in Connected)
        /\ Handlers' = Handlers - OneIf("release" \in Live) + OneIf("close" \in Live)
        /\ Slots' \in Nat /\ Clients' \in Nat /\ Handlers' \in Nat
    BY <2>1, CountsMove
  <2> QED
    BY <1>31, <2>2, <2>3 DEF Release, CountersExact, OneIf
<1>32. ASSUME NEW c \in Conns, Close(c) PROVE CountersExact'
  <2>1. h[c] = "close" /\ h' = [h EXCEPT ![c] = "finish"]
    BY <1>32 DEF Close, Goto
  <2>2. /\ "close" \notin HasSlot /\ "close" \in Connected /\ "close" \in Live
        /\ "finish" \notin HasSlot /\ "finish" \notin Connected /\ "finish" \in Live
    BY DEF HasSlot, Connected, Live, InLoop
  <2>3. /\ Slots' = Slots - OneIf("close" \in HasSlot) + OneIf("finish" \in HasSlot)
        /\ Clients' = Clients - OneIf("close" \in Connected) + OneIf("finish" \in Connected)
        /\ Handlers' = Handlers - OneIf("close" \in Live) + OneIf("finish" \in Live)
        /\ Slots' \in Nat /\ Clients' \in Nat /\ Handlers' \in Nat
    BY <2>1, CountsMove
  <2> QED
    BY <1>32, <2>2, <2>3 DEF Close, CountersExact, OneIf
<1>33. ASSUME NEW c \in Conns, Done(c) PROVE CountersExact'
  <2>1. h[c] = "finish" /\ h' = [h EXCEPT ![c] = "done"]
    BY <1>33 DEF Done, Goto
  <2>2. /\ "finish" \notin HasSlot /\ "finish" \notin Connected /\ "finish" \in Live
        /\ "done" \notin HasSlot /\ "done" \notin Connected /\ "done" \notin Live
    BY DEF HasSlot, Connected, Live, InLoop
  <2>3. /\ Slots' = Slots - OneIf("finish" \in HasSlot) + OneIf("done" \in HasSlot)
        /\ Clients' = Clients - OneIf("finish" \in Connected) + OneIf("done" \in Connected)
        /\ Handlers' = Handlers - OneIf("finish" \in Live) + OneIf("done" \in Live)
        /\ Slots' \in Nat /\ Clients' \in Nat /\ Handlers' \in Nat
    BY <2>1, CountsMove
  <2> QED
    BY <1>33, <2>2, <2>3 DEF Done, CountersExact, OneIf
<1>34. CASE UNCHANGED vars
  BY <1>34, CountsStay DEF vars, CountersExact
<1> QED
  BY <1>1, <1>2, <1>3, <1>4, <1>5, <1>6, <1>7, <1>8, <1>9, <1>10, <1>11, <1>12, <1>13, <1>14, <1>15, <1>16, <1>17,
     <1>18, <1>19, <1>20, <1>21, <1>22, <1>23, <1>24, <1>25, <1>26, <1>27, <1>28, <1>29, <1>30, <1>31, <1>32, <1>33, <1>34
     DEF Next, Main, Serve, AcceptLoop, Client, Handler

\* Types; that a counter does not fall below zero is in CountersExact.
LEMMA TypeStep == Inv /\ [Next]_vars => TypeOK'
<1> SUFFICES ASSUME Inv, [Next]_vars PROVE TypeOK'
  OBVIOUS
<1> USE ServerAssumption DEF Inv, TypeOK, mainVars, acceptVars, connVars, slotVars
<1>1. CASE Signal
  BY <1>1 DEF Signal
<1>2. CASE StartServe
  BY <1>2 DEF StartServe
<1>3. CASE Select
  <2>1. errCh' \in BOOLEAN
    BY <1>3, Zenon DEF Select
  <2>2. main' \in {"boot", "ready", "select", "drain", "exited"}
    BY <1>3, Zenon DEF Select
  <2> QED
    BY <1>3, <2>1, <2>2, ZenonT(30) DEF Select
<1>4. CASE Exit
  BY <1>4, ZenonT(30) DEF Exit
<1>5. CASE StartAccepting
  BY <1>5 DEF StartAccepting
<1>6. CASE CloseListener
  BY <1>6, ZenonT(30) DEF CloseListener
<1>7. CASE StartRange
  BY <1>7 DEF StartRange
<1>8. CASE CloseNext
  BY <1>8 DEF CloseNext
<1>9. CASE Wait
  BY <1>9 DEF Wait
<1>10. CASE Wake
  BY <1>10 DEF Wake
<1>11. CASE Return
  BY <1>11 DEF Return
<1>12. CASE Accept
  BY <1>12 DEF Accept
<1>13. CASE AcceptError
  BY <1>13 DEF AcceptError
<1>14. CASE Backoff
  BY <1>14 DEF Backoff
<1>15. CASE Admit
  BY <1>15 DEF Admit
<1>16. CASE Reject
  BY <1>16, ZenonT(30) DEF Reject
<1>17. CASE Register
  <2>1. /\ conns' \subseteq Conns /\ range' \subseteq Conns
        /\ connected' \in Nat
    BY <1>17 DEF Register, Coherent
  <2> QED
    BY <1>17, <2>1 DEF Register
<1>18. CASE Spawn
  <2>1. authed' \in [Conns -> BOOLEAN]
    BY <1>18 DEF Spawn
  <2>2. h' \in [Conns -> {"none", "done"} \cup Live]
    BY <1>18 DEF Spawn, Live, HasSlot
  <2> QED
    BY <1>18, <2>1, <2>2 DEF Spawn
<1>19. ASSUME NEW c \in Conns, Connect(c) PROVE TypeOK'
  BY <1>19 DEF Connect
<1>20. ASSUME NEW c \in Conns, Send(c) PROVE TypeOK'
  BY <1>20 DEF Send, Coherent
<1>21. ASSUME NEW c \in Conns, Leave(c) PROVE TypeOK'
  BY <1>21 DEF Leave
<1>22. ASSUME NEW c \in Conns, Check(c) PROVE TypeOK'
  BY <1>22 DEF Check, Goto, Live, HasSlot, InLoop
<1>23. ASSUME NEW c \in Conns, Read(c) PROVE TypeOK'
  <2>1. authed' \in [Conns -> BOOLEAN]
    BY <1>23 DEF Read
  <2>2. h' \in [Conns -> {"none", "done"} \cup Live]
    BY <1>23 DEF Read, Goto, Live, HasSlot, InLoop
  <2>3. buffered' \in [Conns -> 0 .. MaxCmds]
    BY <1>23 DEF Read
  <2> QED
    BY <1>23, <2>1, <2>2, <2>3 DEF Read
<1>24. ASSUME NEW c \in Conns, ReadError(c) PROVE TypeOK'
  BY <1>24 DEF ReadError, Goto, Live, HasSlot, InLoop
<1>25. ASSUME NEW c \in Conns, Answer(c) PROVE TypeOK'
  BY <1>25 DEF Answer, Goto, Live, HasSlot, InLoop
<1>26. ASSUME NEW c \in Conns, LockWriteMu(c) PROVE TypeOK'
  BY <1>26 DEF LockWriteMu, Goto, Live, HasSlot, InLoop
<1>27. ASSUME NEW c \in Conns, Exec(c) PROVE TypeOK'
  BY <1>27 DEF Exec, Goto, Live, HasSlot, InLoop
<1>28. ASSUME NEW c \in Conns, Panic(c) PROVE TypeOK'
  BY <1>28 DEF Panic, Goto, Live, HasSlot, InLoop
<1>29. ASSUME NEW c \in Conns, WriteReply(c) PROVE TypeOK'
  BY <1>29 DEF WriteReply, Goto, Live, HasSlot, InLoop
<1>30. ASSUME NEW c \in Conns, Deregister(c) PROVE TypeOK'
  BY <1>30 DEF Deregister, Goto, Live, HasSlot, InLoop
<1>31. ASSUME NEW c \in Conns, Release(c) PROVE TypeOK'
  BY <1>31, CountersStep DEF Release, Goto, CountersExact, OneIf, Live, HasSlot
<1>32. ASSUME NEW c \in Conns, Close(c) PROVE TypeOK'
  BY <1>32, CountersStep DEF Close, Goto, CountersExact, OneIf, Live, HasSlot
<1>33. ASSUME NEW c \in Conns, Done(c) PROVE TypeOK'
  BY <1>33, CountersStep DEF Done, Goto, CountersExact, OneIf, Live, HasSlot
<1>34. CASE UNCHANGED vars
  BY <1>34 DEF vars
<1> QED
  BY <1>1, <1>2, <1>3, <1>4, <1>5, <1>6, <1>7, <1>8, <1>9, <1>10, <1>11, <1>12, <1>13, <1>14, <1>15, <1>16, <1>17,
     <1>18, <1>19, <1>20, <1>21, <1>22, <1>23, <1>24, <1>25, <1>26, <1>27, <1>28, <1>29, <1>30, <1>31, <1>32, <1>33, <1>34
     DEF Next, Main, Serve, AcceptLoop, Client, Handler

\* The accept loop deals with connections that have no handler, and handlers stay in
\* s.conns until their cleanup.
LEMMA CoherentStep == Inv /\ [Next]_vars => Coherent'
<1> SUFFICES ASSUME Inv, [Next]_vars PROVE Coherent'
  OBVIOUS
<1> USE DEF Inv, Coherent, TypeOK, mainVars, acceptVars, connVars, slotVars
<1>1. CASE Signal
  BY <1>1 DEF Signal
<1>2. CASE StartServe
  BY <1>2 DEF StartServe
<1>3. CASE Select
  BY <1>3 DEF Select
<1>4. CASE Exit
  BY <1>4 DEF Exit
<1>5. CASE StartAccepting
  BY <1>5 DEF StartAccepting
<1>6. CASE CloseListener
  BY <1>6 DEF CloseListener
<1>7. CASE StartRange
  BY <1>7 DEF StartRange
<1>8. CASE CloseNext
  BY <1>8 DEF CloseNext
<1>9. CASE Wait
  BY <1>9 DEF Wait
<1>10. CASE Wake
  BY <1>10 DEF Wake
<1>11. CASE Return
  BY <1>11 DEF Return
<1>12. CASE Accept
  BY <1>12 DEF Accept
<1>13. CASE AcceptError
  BY <1>13 DEF AcceptError
<1>14. CASE Backoff
  BY <1>14 DEF Backoff
<1>15. CASE Admit
  BY <1>15 DEF Admit
<1>16. CASE Reject
  BY <1>16 DEF Reject
<1>17. CASE Register
  BY <1>17 DEF Register
<1>18. CASE Spawn
  BY <1>18 DEF Spawn, InLoop
<1>19. ASSUME NEW c \in Conns, Connect(c) PROVE Coherent'
  BY <1>19 DEF Connect
<1>20. ASSUME NEW c \in Conns, Send(c) PROVE Coherent'
  BY <1>20 DEF Send
<1>21. ASSUME NEW c \in Conns, Leave(c) PROVE Coherent'
  BY <1>21 DEF Leave
<1>22. ASSUME NEW c \in Conns, Check(c) PROVE Coherent'
  BY <1>22 DEF Check, Goto, InLoop
<1>23. ASSUME NEW c \in Conns, Read(c) PROVE Coherent'
  BY <1>23 DEF Read, Goto, InLoop
<1>24. ASSUME NEW c \in Conns, ReadError(c) PROVE Coherent'
  BY <1>24 DEF ReadError, Goto, InLoop
<1>25. ASSUME NEW c \in Conns, Answer(c) PROVE Coherent'
  BY <1>25 DEF Answer, Goto, InLoop
<1>26. ASSUME NEW c \in Conns, LockWriteMu(c) PROVE Coherent'
  BY <1>26 DEF LockWriteMu, Goto, InLoop
<1>27. ASSUME NEW c \in Conns, Exec(c) PROVE Coherent'
  BY <1>27 DEF Exec, Goto, InLoop
<1>28. ASSUME NEW c \in Conns, Panic(c) PROVE Coherent'
  BY <1>28 DEF Panic, Goto, InLoop
<1>29. ASSUME NEW c \in Conns, WriteReply(c) PROVE Coherent'
  BY <1>29 DEF WriteReply, Goto, InLoop
<1>30. ASSUME NEW c \in Conns, Deregister(c) PROVE Coherent'
  BY <1>30 DEF Deregister, Goto, InLoop
<1>31. ASSUME NEW c \in Conns, Release(c) PROVE Coherent'
  BY <1>31 DEF Release, Goto, InLoop
<1>32. ASSUME NEW c \in Conns, Close(c) PROVE Coherent'
  BY <1>32 DEF Close, Goto, InLoop
<1>33. ASSUME NEW c \in Conns, Done(c) PROVE Coherent'
  BY <1>33 DEF Done, Goto, InLoop
<1>34. CASE UNCHANGED vars
  BY <1>34 DEF vars
<1> QED
  BY <1>1, <1>2, <1>3, <1>4, <1>5, <1>6, <1>7, <1>8, <1>9, <1>10, <1>11, <1>12, <1>13, <1>14, <1>15, <1>16, <1>17,
     <1>18, <1>19, <1>20, <1>21, <1>22, <1>23, <1>24, <1>25, <1>26, <1>27, <1>28, <1>29, <1>30, <1>31, <1>32, <1>33, <1>34
     DEF Next, Main, Serve, AcceptLoop, Client, Handler

-----------------------------------------------------------------------------
(***************************************************************************)
(* The shutdown: the phases of Serve are invariant, and with them the      *)
(* properties of Server.tla and the refinement of ServeContract.tla.       *)
(***************************************************************************)


\* Each phase of the shutdown leaves what the next one starts from.
LEMMA PhasesStep == Inv /\ [Next]_vars => Phases'
<1> SUFFICES ASSUME Inv, [Next]_vars PROVE Phases'
  OBVIOUS
<1> USE DEF Inv, Phases, Stopping, TypeOK, mainVars, acceptVars, connVars, slotVars
<1>1. CASE Signal
  BY <1>1 DEF Signal
<1>2. CASE StartServe
  BY <1>2 DEF StartServe, Coherent
<1>3. CASE Select
  BY <1>3 DEF Select
<1>4. CASE Exit
  BY <1>4 DEF Exit
<1>5. CASE StartAccepting
  BY <1>5 DEF StartAccepting
<1>6. CASE CloseListener
  BY <1>6 DEF CloseListener
<1>7. CASE StartRange
  BY <1>7 DEF StartRange, Coherent
<1>8. CASE CloseNext
  BY <1>8 DEF CloseNext
<1>9. CASE Wait
  <2>1. CASE wg = 0
    <3>1. \A c \in Conns : h[c] \notin Live
      BY <2>1, CountZero DEF CountersExact, Handlers
    <3> QED
      BY <1>9, <3>1 DEF Wait, Live, HasSlot
  <2>2. CASE wg # 0
    BY <1>9, <2>2 DEF Wait
  <2> QED
    BY <2>1, <2>2
<1>10. CASE Wake
  BY <1>10 DEF Wake
<1>11. CASE Return
  BY <1>11 DEF Return
<1>12. CASE Accept
  BY <1>12 DEF Accept
<1>13. CASE AcceptError
  BY <1>13 DEF AcceptError
<1>14. CASE Backoff
  BY <1>14 DEF Backoff
<1>15. CASE Admit
  BY <1>15 DEF Admit
<1>16. CASE Reject
  BY <1>16 DEF Reject
<1>17. CASE Register
  BY <1>17 DEF Register
<1>18. CASE Spawn
  BY <1>18 DEF Spawn, Coherent, InLoop
<1>19. ASSUME NEW c \in Conns, Connect(c) PROVE Phases'
  BY <1>19 DEF Connect
<1>20. ASSUME NEW c \in Conns, Send(c) PROVE Phases'
  BY <1>20 DEF Send
<1>21. ASSUME NEW c \in Conns, Leave(c) PROVE Phases'
  BY <1>21 DEF Leave
<1>22. ASSUME NEW c \in Conns, Check(c) PROVE Phases'
  BY <1>22 DEF Check, Goto, InLoop
<1>23. ASSUME NEW c \in Conns, Read(c) PROVE Phases'
  BY <1>23 DEF Read, Goto, InLoop
<1>24. ASSUME NEW c \in Conns, ReadError(c) PROVE Phases'
  BY <1>24 DEF ReadError, Goto, InLoop
<1>25. ASSUME NEW c \in Conns, Answer(c) PROVE Phases'
  BY <1>25 DEF Answer, Goto, InLoop
<1>26. ASSUME NEW c \in Conns, LockWriteMu(c) PROVE Phases'
  BY <1>26 DEF LockWriteMu, Goto, InLoop
<1>27. ASSUME NEW c \in Conns, Exec(c) PROVE Phases'
  BY <1>27 DEF Exec, Goto, InLoop
<1>28. ASSUME NEW c \in Conns, Panic(c) PROVE Phases'
  BY <1>28 DEF Panic, Goto, InLoop
<1>29. ASSUME NEW c \in Conns, WriteReply(c) PROVE Phases'
  BY <1>29 DEF WriteReply, Goto, InLoop
<1>30. ASSUME NEW c \in Conns, Deregister(c) PROVE Phases'
  BY <1>30 DEF Deregister, Goto, InLoop
<1>31. ASSUME NEW c \in Conns, Release(c) PROVE Phases'
  BY <1>31 DEF Release, Goto, InLoop
<1>32. ASSUME NEW c \in Conns, Close(c) PROVE Phases'
  BY <1>32 DEF Close, Goto, InLoop
<1>33. ASSUME NEW c \in Conns, Done(c) PROVE Phases'
  <2>1. h[c] = "finish" /\ h' = [h EXCEPT ![c] = "done"]
    BY <1>33 DEF Done, Goto
  <2>2. wg = 1 => \A d \in Conns \ {c} : h[d] \notin Live
    <3>1. h[c] \in Live
      BY <2>1 DEF Live
    <3> QED
      BY <3>1, CountOne DEF CountersExact, Handlers
  <2> QED
    BY <1>33, <2>1, <2>2 DEF Done, Live, HasSlot, InLoop
<1>34. CASE UNCHANGED vars
  BY <1>34 DEF vars
<1> QED
  BY <1>1, <1>2, <1>3, <1>4, <1>5, <1>6, <1>7, <1>8, <1>9, <1>10, <1>11, <1>12, <1>13, <1>14, <1>15, <1>16, <1>17,
     <1>18, <1>19, <1>20, <1>21, <1>22, <1>23, <1>24, <1>25, <1>26, <1>27, <1>28, <1>29, <1>30, <1>31, <1>32, <1>33, <1>34
     DEF Next, Main, Serve, AcceptLoop, Client, Handler

\* Together.
THEOREM Invariance == Spec => []Inv
<1>1. Inv /\ [Next]_vars => Inv'
  BY CountersStep, TypeStep, CoherentStep, PhasesStep DEF Inv
<1> QED
  BY InitInv, <1>1, PTL DEF Spec

\* The server's variables keep their types: in particular sem stays within MaxConn, and no
\* counter falls below zero, however handlers end.
THEOREM TypeCorrect == Spec => []TypeOK
<1>1. Inv => TypeOK
  BY DEF Inv
<1> QED
  BY Invariance, <1>1, PTL

\* No slot of s.sem leaks and none is freed twice, for any number of connections.
THEOREM NoSlotLeaks == Spec => []SlotsExact
<1>1. Inv => SlotsExact
  BY DEF Inv, CountersExact, SlotsExact, Slots, Count, OneIf
<1> QED
  BY Invariance, <1>1, PTL

\* Once Serve has run through s.conns every handler in its loop has a closed connection.
THEOREM NobodyMissed == Spec => []RangeMissesNobody
<1>1. Inv => RangeMissesNobody
  BY DEF Inv, Phases, RangeMissesNobody
<1> QED
  BY Invariance, <1>1, PTL

-----------------------------------------------------------------------------
(***************************************************************************)
(* Serve keeps its contract.                                               *)
(***************************************************************************)

\* What a handler's step does to the set of handlers inside their loop.
LEMMA LoopMoves ==
  ASSUME TypeOK, NEW c \in Conns, NEW to, h' = [h EXCEPT ![c] = to]
  PROVE  InCommandLoop' = IF to \in InLoop THEN InCommandLoop \cup {c} ELSE InCommandLoop \ {c}
<1> USE DEF TypeOK, InCommandLoop
<1>1. CASE to \in InLoop
  BY <1>1
<1>2. CASE to \notin InLoop
  BY <1>2
<1> QED
  BY <1>1, <1>2

\* The variables of the contract that a handler's step leaves alone.
ServeUnchanged == done' = done /\ listening' = listening /\ ServeResult' = ServeResult

\* A step of a handler is a step of the contract if it enters the loop before the
\* cancellation, leaves it, or stays where it is.
LEMMA HandlerMoves ==
  ASSUME TypeOK, NEW c \in Conns, NEW to, h' = [h EXCEPT ![c] = to], ServeUnchanged,
         to \in InLoop /\ h[c] \notin InLoop => ~done
  PROVE  Contract!Next \/ UNCHANGED Contract!vars
<1>1. c \in InCommandLoop <=> h[c] \in InLoop
  BY DEF InCommandLoop
<1>2. CASE to \in InLoop
  <2>1. InCommandLoop' = InCommandLoop \cup {c}
    BY <1>2, LoopMoves
  <2>2. CASE h[c] \in InLoop
    BY <1>1, <2>1, <2>2 DEF Contract!vars, ServeUnchanged
  <2>3. CASE h[c] \notin InLoop
    BY <1>1, <1>2, <2>1, <2>3 DEF Contract!Next, Contract!Take, ServeUnchanged
  <2> QED
    BY <2>2, <2>3
<1>3. CASE to \notin InLoop
  <2>1. InCommandLoop' = InCommandLoop \ {c}
    BY <1>3, LoopMoves
  <2>2. CASE h[c] \in InLoop
    BY <1>1, <2>1, <2>2 DEF Contract!Next, Contract!Drop, ServeUnchanged
  <2>3. CASE h[c] \notin InLoop
    BY <1>1, <2>1, <2>3 DEF Contract!vars, ServeUnchanged
  <2> QED
    BY <2>2, <2>3
<1> QED
  BY <1>2, <1>3

\* Every step of the server is a step of the contract or changes nothing it speaks of.
LEMMA ContractStep == Inv /\ [Next]_vars => [Contract!Next]_(Contract!vars)
<1> SUFFICES ASSUME Inv, [Next]_vars PROVE Contract!Next \/ UNCHANGED Contract!vars
  OBVIOUS
<1> USE DEF Inv, mainVars, acceptVars, connVars, slotVars
<1>1. CASE Signal
  BY <1>1 DEF Signal, Contract!Next, Contract!Cancel, ServeResult, InCommandLoop
<1>2. CASE StartServe
  BY <1>2 DEF StartServe, Coherent, ServeResult, InCommandLoop, Contract!vars
<1>3. CASE Select
  BY <1>3 DEF Select, ServeResult, InCommandLoop, Contract!vars
<1>4. CASE Exit
  BY <1>4 DEF Exit, ServeResult, InCommandLoop, Contract!vars
<1>5. CASE StartAccepting
  BY <1>5 DEF StartAccepting, ServeResult, InCommandLoop, Contract!vars
<1>6. CASE CloseListener
  BY <1>6 DEF CloseListener, Phases, Stopping, Contract!Next, Contract!CloseListener, ServeResult,
     InCommandLoop
<1>7. CASE StartRange
  BY <1>7 DEF StartRange, ServeResult, InCommandLoop, Contract!vars
<1>8. CASE CloseNext
  BY <1>8 DEF CloseNext, ServeResult, InCommandLoop, Contract!vars
<1>9. CASE Wait
  BY <1>9 DEF Wait, ServeResult, InCommandLoop, Contract!vars
<1>10. CASE Wake
  <2>1. InCommandLoop = {} /\ done /\ ~listening
    BY <1>10 DEF Wake, Phases, Stopping, InCommandLoop
  <2>2. CASE wg = 0
    BY <1>10, <2>2 DEF Wake, ServeResult, InCommandLoop, Contract!vars
  <2>3. CASE wg # 0
    BY <1>10, <2>1, <2>3 DEF Wake, Contract!Next, Contract!Return, ServeResult, InCommandLoop
  <2> QED
    BY <2>2, <2>3
<1>11. CASE Return
  <2>1. InCommandLoop = {} /\ done /\ ~listening
    BY <1>11 DEF Return, Phases, Stopping, InCommandLoop
  <2> QED
    BY <1>11, <2>1 DEF Return, Contract!Next, Contract!Return, ServeResult, InCommandLoop
<1>12. CASE Accept
  BY <1>12 DEF Accept, ServeResult, InCommandLoop, Contract!vars
<1>13. CASE AcceptError
  BY <1>13 DEF AcceptError, ServeResult, InCommandLoop, Contract!vars
<1>14. CASE Backoff
  BY <1>14 DEF Backoff, ServeResult, InCommandLoop, Contract!vars
<1>15. CASE Admit
  BY <1>15 DEF Admit, ServeResult, InCommandLoop, Contract!vars
<1>16. CASE Reject
  BY <1>16 DEF Reject, ServeResult, InCommandLoop, Contract!vars
<1>17. CASE Register
  BY <1>17 DEF Register, ServeResult, InCommandLoop, Contract!vars
<1>18. CASE Spawn
  <2>1. cur \in Conns /\ ServeUnchanged
    BY <1>18 DEF Spawn, Coherent, ServeUnchanged, ServeResult
  <2>2. h' = [h EXCEPT ![cur] = "check"] /\ "check" \notin InLoop
    BY <1>18 DEF Spawn, InLoop
  <2> QED
    BY <2>1, <2>2, HandlerMoves
<1>19. ASSUME NEW c \in Conns, Connect(c) PROVE Contract!Next \/ UNCHANGED Contract!vars
  BY <1>19 DEF Connect, ServeResult, InCommandLoop, Contract!vars
<1>20. ASSUME NEW c \in Conns, Send(c) PROVE Contract!Next \/ UNCHANGED Contract!vars
  BY <1>20 DEF Send, ServeResult, InCommandLoop, Contract!vars
<1>21. ASSUME NEW c \in Conns, Leave(c) PROVE Contract!Next \/ UNCHANGED Contract!vars
  BY <1>21 DEF Leave, ServeResult, InCommandLoop, Contract!vars
<1>22. ASSUME NEW c \in Conns, Check(c) PROVE Contract!Next \/ UNCHANGED Contract!vars
  <2>1. c \in Conns /\ ServeUnchanged
    BY <1>22 DEF Check, Goto, ServeUnchanged, ServeResult
  <2>2. CASE done
    <3>1. h' = [h EXCEPT ![c] = "cleanup"] /\ "cleanup" \notin InLoop
      BY <1>22, <2>2 DEF Check, Goto, InLoop
    <3> QED
      BY <2>1, <3>1, HandlerMoves
  <2>3. CASE ~done
    <3>1. h' = [h EXCEPT ![c] = "read"]
      BY <1>22, <2>3 DEF Check, Goto
    <3> QED
      BY <2>1, <2>3, <3>1, HandlerMoves
  <2> QED
    BY <2>2, <2>3
<1>23. ASSUME NEW c \in Conns, Read(c) PROVE Contract!Next \/ UNCHANGED Contract!vars
  <2>1. c \in Conns /\ ServeUnchanged
    BY <1>23 DEF Read, Goto, ServeUnchanged, ServeResult
  <2>2. \E to : h' = [h EXCEPT ![c] = to] /\ (to \in InLoop /\ h[c] \notin InLoop => ~done)
    BY <1>23 DEF Read, Goto, InLoop
  <2> QED
    BY <2>1, <2>2, HandlerMoves
<1>24. ASSUME NEW c \in Conns, ReadError(c) PROVE Contract!Next \/ UNCHANGED Contract!vars
  <2>1. c \in Conns /\ ServeUnchanged
    BY <1>24 DEF ReadError, Goto, ServeUnchanged, ServeResult
  <2>2. \E to : h' = [h EXCEPT ![c] = to] /\ (to \in InLoop /\ h[c] \notin InLoop => ~done)
    BY <1>24 DEF ReadError, Goto, InLoop
  <2> QED
    BY <2>1, <2>2, HandlerMoves
<1>25. ASSUME NEW c \in Conns, Answer(c) PROVE Contract!Next \/ UNCHANGED Contract!vars
  <2>1. c \in Conns /\ ServeUnchanged
    BY <1>25 DEF Answer, Goto, ServeUnchanged, ServeResult
  <2>2. \E to : h' = [h EXCEPT ![c] = to] /\ (to \in InLoop /\ h[c] \notin InLoop => ~done)
    BY <1>25 DEF Answer, Goto, InLoop
  <2> QED
    BY <2>1, <2>2, HandlerMoves
<1>26. ASSUME NEW c \in Conns, LockWriteMu(c) PROVE Contract!Next \/ UNCHANGED Contract!vars
  <2>1. c \in Conns /\ ServeUnchanged
    BY <1>26 DEF LockWriteMu, Goto, ServeUnchanged, ServeResult
  <2>2. \E to : h' = [h EXCEPT ![c] = to] /\ (to \in InLoop /\ h[c] \notin InLoop => ~done)
    BY <1>26 DEF LockWriteMu, Goto, InLoop
  <2> QED
    BY <2>1, <2>2, HandlerMoves
<1>27. ASSUME NEW c \in Conns, Exec(c) PROVE Contract!Next \/ UNCHANGED Contract!vars
  <2>1. c \in Conns /\ ServeUnchanged
    BY <1>27 DEF Exec, Goto, ServeUnchanged, ServeResult
  <2>2. \E to : h' = [h EXCEPT ![c] = to] /\ (to \in InLoop /\ h[c] \notin InLoop => ~done)
    BY <1>27 DEF Exec, Goto, InLoop
  <2> QED
    BY <2>1, <2>2, HandlerMoves
<1>28. ASSUME NEW c \in Conns, Panic(c) PROVE Contract!Next \/ UNCHANGED Contract!vars
  <2>1. c \in Conns /\ ServeUnchanged
    BY <1>28 DEF Panic, Goto, ServeUnchanged, ServeResult
  <2>2. \E to : h' = [h EXCEPT ![c] = to] /\ (to \in InLoop /\ h[c] \notin InLoop => ~done)
    BY <1>28 DEF Panic, Goto, InLoop
  <2> QED
    BY <2>1, <2>2, HandlerMoves
<1>29. ASSUME NEW c \in Conns, WriteReply(c) PROVE Contract!Next \/ UNCHANGED Contract!vars
  <2>1. c \in Conns /\ ServeUnchanged
    BY <1>29 DEF WriteReply, Goto, ServeUnchanged, ServeResult
  <2>2. \E to : h' = [h EXCEPT ![c] = to] /\ (to \in InLoop /\ h[c] \notin InLoop => ~done)
    BY <1>29 DEF WriteReply, Goto, InLoop
  <2> QED
    BY <2>1, <2>2, HandlerMoves
<1>30. ASSUME NEW c \in Conns, Deregister(c) PROVE Contract!Next \/ UNCHANGED Contract!vars
  <2>1. c \in Conns /\ ServeUnchanged
    BY <1>30 DEF Deregister, Goto, ServeUnchanged, ServeResult
  <2>2. h' = [h EXCEPT ![c] = "release"] /\ "release" \notin InLoop
    BY <1>30 DEF Deregister, Goto, InLoop
  <2> QED
    BY <2>1, <2>2, HandlerMoves
<1>31. ASSUME NEW c \in Conns, Release(c) PROVE Contract!Next \/ UNCHANGED Contract!vars
  <2>1. c \in Conns /\ ServeUnchanged
    BY <1>31 DEF Release, Goto, ServeUnchanged, ServeResult
  <2>2. h' = [h EXCEPT ![c] = "close"] /\ "close" \notin InLoop
    BY <1>31 DEF Release, Goto, InLoop
  <2> QED
    BY <2>1, <2>2, HandlerMoves
<1>32. ASSUME NEW c \in Conns, Close(c) PROVE Contract!Next \/ UNCHANGED Contract!vars
  <2>1. c \in Conns /\ ServeUnchanged
    BY <1>32 DEF Close, Goto, ServeUnchanged, ServeResult
  <2>2. h' = [h EXCEPT ![c] = "finish"] /\ "finish" \notin InLoop
    BY <1>32 DEF Close, Goto, InLoop
  <2> QED
    BY <2>1, <2>2, HandlerMoves
<1>33. ASSUME NEW c \in Conns, Done(c) PROVE Contract!Next \/ UNCHANGED Contract!vars
  <2>1. c \in Conns /\ ServeUnchanged
    BY <1>33 DEF Done, Goto, ServeUnchanged, ServeResult
  <2>2. h' = [h EXCEPT ![c] = "done"] /\ "done" \notin InLoop
    BY <1>33 DEF Done, Goto, InLoop
  <2> QED
    BY <2>1, <2>2, HandlerMoves
<1>34. CASE UNCHANGED vars
  BY <1>34 DEF vars, ServeResult, InCommandLoop, Contract!vars
<1> QED
  BY <1>1, <1>2, <1>3, <1>4, <1>5, <1>6, <1>7, <1>8, <1>9, <1>10, <1>11, <1>12, <1>13, <1>14, <1>15, <1>16, <1>17,
     <1>18, <1>19, <1>20, <1>21, <1>22, <1>23, <1>24, <1>25, <1>26, <1>27, <1>28, <1>29, <1>30, <1>31, <1>32, <1>33, <1>34
     DEF Next, Main, Serve, AcceptLoop, Client, Handler

\* Serve keeps its contract with its caller, for any number of connections: no command is
\* taken up after the cancellation, and Serve returns only when none is left.
THEOREM Refinement == Spec => KeepsContract
<1>1. Init => Contract!Init
  BY DEF Init, Contract!Init, ServeResult, InCommandLoop, InLoop
<1> QED
  BY <1>1, Invariance, ContractStep, PTL DEF Spec, KeepsContract, Contract!Spec

=============================================================================
