------------------------------- MODULE Server -------------------------------
(***************************************************************************)
(* Connections and shutdown: the accept loop, the connection handlers and  *)
(* Serve of internal/server/server.go, and the main goroutine of           *)
(* cmd/mem-x/main.go around them.                                          *)
(*                                                                         *)
(* A command is one step here (Store.tla and Aof.tla look inside), except  *)
(* that a write command holds Registry.writeMu while it executes.  A       *)
(* client sends commands, reads replies, goes away or does nothing.        *)
(***************************************************************************)
EXTENDS Naturals, FiniteSets

CONSTANTS
  Conns,       \* the connections clients open, one after the other or together
  MaxConn,     \* cfg.MaxConn
  MaxCmds,     \* bound on the commands sent, over all connections
  RequirePass, \* whether a password is configured
  IdleTimeout, \* whether an idle timeout is configured
  TLS,         \* whether the listener is wrapped in TLS
  Panics,      \* whether a handler may panic
  None

ASSUME ServerAssumption ==
  /\ IsFiniteSet(Conns)
  /\ MaxConn \in Nat \ {0} /\ MaxCmds \in Nat
  /\ RequirePass \in BOOLEAN /\ IdleTimeout \in BOOLEAN /\ TLS \in BOOLEAN /\ Panics \in BOOLEAN
  /\ None \notin Conns

VARIABLES
  done,      \* ctx is cancelled (SIGINT or SIGTERM)
  main,      \* the main goroutine: "boot", "ready", "select", "drain", "exited"
  serve,     \* the goroutine running Serve
  errCh,     \* main's errCh holds Serve's result
  listening, \* the listener is open
  accept,    \* the goroutine running acceptLoop
  cur,       \* the connection it is dealing with
  net,       \* each connection: "new", "queued", "open", "gone" (by the peer), "closed"
  sent,      \* commands sent so far, which MaxCmds bounds
  buffered,  \* commands received and not yet read by the handler
  h,         \* each connection's handler
  authed,    \* its authed flag
  writeMu,   \* the connection whose handler holds Registry.writeMu
  sem,       \* tokens in s.sem
  connected, \* stats.ConnectedClients
  conns,     \* s.conns
  range,     \* the connections conns.Range has yet to visit
  wg         \* the counter of s.wg

mainVars == <<done, main, errCh>>
acceptVars == <<accept, cur>>
connVars == <<sent, buffered, authed>>
slotVars == <<sem, connected, conns>>
vars == <<mainVars, serve, listening, acceptVars, net, connVars, h, writeMu, slotVars,
          range, wg>>

Init ==
  /\ done = FALSE
  /\ main = "boot"
  /\ serve = "none"
  /\ errCh = FALSE
  /\ listening = TRUE
  /\ accept = "none"
  /\ cur = None
  /\ net = [c \in Conns |-> "new"]
  /\ sent = 0
  /\ buffered = [c \in Conns |-> 0]
  /\ h = [c \in Conns |-> "none"]
  /\ authed = [c \in Conns |-> FALSE]
  /\ writeMu = None
  /\ sem = 0
  /\ connected = 0
  /\ conns = {}
  /\ range = {}
  /\ wg = 0

\* The process runs: main has not returned and no goroutine has panicked.
Running == main # "exited" /\ serve # "panicked"

-----------------------------------------------------------------------------
(***************************************************************************)
(* Clients and signals.                                                    *)
(***************************************************************************)
Connect(c) ==
  /\ Running /\ listening
  /\ net[c] = "new"
  /\ net' = [net EXCEPT ![c] = "queued"]
  /\ UNCHANGED <<mainVars, serve, listening, acceptVars, connVars, h, writeMu, slotVars, range, wg>>

Send(c) ==
  /\ Running
  /\ net[c] = "open" /\ sent < MaxCmds
  /\ sent' = sent + 1
  /\ buffered' = [buffered EXCEPT ![c] = @ + 1]
  /\ UNCHANGED <<mainVars, serve, listening, acceptVars, net, authed, h, writeMu, slotVars, range, wg>>

Leave(c) ==
  /\ Running
  /\ net[c] = "open"
  /\ net' = [net EXCEPT ![c] = "gone"]
  /\ UNCHANGED <<mainVars, serve, listening, acceptVars, connVars, h, writeMu, slotVars, range, wg>>

\* The signal cancels ctx.  A main goroutine that is blocked in its select is
\* woken by ctx.Done.
Signal ==
  /\ Running /\ ~done
  /\ done' = TRUE
  /\ main' = IF main = "select" THEN "drain" ELSE main
  /\ UNCHANGED <<errCh, serve, listening, acceptVars, net, connVars, h, writeMu, slotVars, range, wg>>

-----------------------------------------------------------------------------
(***************************************************************************)
(* main, from the start of Serve on.                                       *)
(***************************************************************************)
StartServe ==
  /\ main = "boot"
  /\ main' = "ready"
  /\ serve' = "start"
  /\ UNCHANGED <<done, errCh, listening, acceptVars, net, connVars, h, writeMu, slotVars, range, wg>>

\* The select: take a case that is ready, any of them, or block.  A nil result of
\* Serve falls through to the receive below, like a signal.
Select ==
  /\ main = "ready" /\ Running
  /\ \/ done /\ main' = "drain" /\ UNCHANGED errCh
     \/ errCh /\ main' = "drain" /\ errCh' = FALSE
     \/ ~done /\ ~errCh /\ main' = "select" /\ UNCHANGED errCh
  /\ UNCHANGED <<done, serve, listening, acceptVars, net, connVars, h, writeMu, slotVars, range, wg>>

\* Receive Serve's result and return; the deferred calls close the AOF.
Exit ==
  /\ main = "drain" /\ Running
  /\ errCh
  /\ errCh' = FALSE
  /\ main' = "exited"
  /\ UNCHANGED <<done, serve, listening, acceptVars, net, connVars, h, writeMu, slotVars, range, wg>>

-----------------------------------------------------------------------------
(***************************************************************************)
(* Serve.                                                                  *)
(***************************************************************************)
StartAccepting ==
  /\ serve = "start"
  /\ serve' = "serving"
  /\ accept' = "accepting"
  /\ UNCHANGED <<mainVars, listening, cur, net, connVars, h, writeMu, slotVars, range, wg>>

\* ctx.Done, ln.Close: queued connections are refused.
CloseListener ==
  /\ serve = "serving" /\ done
  /\ listening' = FALSE
  /\ net' = [c \in Conns |-> IF net[c] = "queued" THEN "closed" ELSE net[c]]
  /\ serve' = "range"
  /\ UNCHANGED <<mainVars, acceptVars, connVars, h, writeMu, slotVars, range, wg>>

StartRange ==
  /\ serve = "range"
  /\ range' = conns
  /\ serve' = "ranging"
  /\ UNCHANGED <<mainVars, listening, acceptVars, net, connVars, h, writeMu, slotVars, wg>>

CloseNext ==
  /\ serve = "ranging"
  /\ \E c \in range :
       /\ net' = [net EXCEPT ![c] = "closed"]
       /\ range' = range \ {c}
  /\ UNCHANGED <<mainVars, serve, listening, acceptVars, connVars, h, writeMu, slotVars, wg>>

\* wg.Wait returns at once if the counter is 0, and blocks otherwise.
Wait ==
  /\ serve = "ranging" /\ range = {}
  /\ serve' = IF wg = 0 THEN "join" ELSE "waiting"
  /\ UNCHANGED <<mainVars, listening, acceptVars, net, connVars, h, writeMu, slotVars, range, wg>>

\* Released by the last Done, Wait runs again: it panics if the counter has been
\* raised in the meantime.
Wake ==
  /\ serve = "released" /\ Running
  /\ serve' = IF wg = 0 THEN "join" ELSE "panicked"
  /\ UNCHANGED <<mainVars, listening, acceptVars, net, connVars, h, writeMu, slotVars, range, wg>>

\* return <-errCh, into main's errCh.
Return ==
  /\ serve = "join" /\ accept = "returned"
  /\ serve' = "returned"
  /\ errCh' = TRUE
  /\ UNCHANGED <<done, main, listening, acceptVars, net, connVars, h, writeMu, slotVars, range, wg>>

-----------------------------------------------------------------------------
(***************************************************************************)
(* acceptLoop.                                                             *)
(***************************************************************************)
Accept ==
  /\ accept = "accepting" /\ Running
  /\ \E c \in Conns :
       /\ net[c] = "queued"
       /\ net' = [net EXCEPT ![c] = "open"]
       /\ cur' = c
  /\ accept' = "admit"
  /\ UNCHANGED <<mainVars, serve, listening, connVars, h, writeMu, slotVars, range, wg>>

\* Mutant: a closed listener is taken for a passing error.
AcceptRetries ==
  /\ accept = "accepting" /\ Running
  /\ accept' = "backoff"
  /\ UNCHANGED <<mainVars, serve, listening, cur, net, connVars, h, writeMu, slotVars, range, wg>>

\* Accept fails because the listener is closed, or for a passing reason.
AcceptError ==
  /\ accept = "accepting" /\ Running
  /\ accept' = IF done THEN "returned" ELSE "backoff"
  /\ UNCHANGED <<mainVars, serve, listening, cur, net, connVars, h, writeMu, slotVars, range, wg>>

Backoff ==
  /\ accept = "backoff" /\ Running
  /\ \/ accept' = "accepting"
     \/ done /\ accept' = "returned"
  /\ UNCHANGED <<mainVars, serve, listening, cur, net, connVars, h, writeMu, slotVars, range, wg>>

\* Mutant: one connection more than MaxConn.
AdmitOneMore ==
  /\ accept = "admit" /\ Running
  /\ \/ sem <= MaxConn /\ sem' = sem + 1 /\ accept' = "register"
     \/ sem > MaxConn /\ accept' = "reject" /\ UNCHANGED sem
  /\ UNCHANGED <<mainVars, serve, listening, cur, net, connVars, h, writeMu, connected, conns, range, wg>>

Admit ==
  /\ accept = "admit" /\ Running
  /\ \/ sem < MaxConn /\ sem' = sem + 1 /\ accept' = "register"
     \/ sem >= MaxConn /\ accept' = "reject" /\ UNCHANGED sem
  /\ UNCHANGED <<mainVars, serve, listening, cur, net, connVars, h, writeMu, connected, conns, range, wg>>

\* The error reply and conn.Close.
Reject ==
  /\ accept = "reject" /\ Running
  /\ net' = [net EXCEPT ![cur] = "closed"]
  /\ accept' = "accepting"
  /\ cur' = None
  /\ UNCHANGED <<mainVars, serve, listening, connVars, h, writeMu, slotVars, range, wg>>

\* Mutant: the connection is not put into s.conns.
Unregistered ==
  /\ accept = "register" /\ Running
  /\ connected' = connected + 1
  /\ accept' = "spawn"
  /\ UNCHANGED <<mainVars, serve, listening, cur, net, connVars, h, writeMu, sem, conns, range, wg>>

\* Range may or may not visit a connection stored while it runs.
Register ==
  /\ accept = "register" /\ Running
  /\ connected' = connected + 1
  /\ conns' = conns \cup {cur}
  /\ range' \in IF serve = "ranging" THEN {range, range \cup {cur}} ELSE {range}
  /\ accept' = "spawn"
  /\ UNCHANGED <<mainVars, serve, listening, cur, net, connVars, h, writeMu, sem, wg>>

Spawn ==
  /\ accept = "spawn" /\ Running
  /\ wg' = wg + 1
  /\ h' = [h EXCEPT ![cur] = "check"]
  /\ authed' = [authed EXCEPT ![cur] = ~RequirePass]
  /\ accept' = "accepting"
  /\ cur' = None
  /\ UNCHANGED <<mainVars, serve, listening, net, sent, buffered, writeMu, slotVars, range>>

-----------------------------------------------------------------------------
(***************************************************************************)
(* handleConn.                                                             *)
(***************************************************************************)
Goto(c, from, to) ==
  /\ h[c] = from /\ Running
  /\ h' = [h EXCEPT ![c] = to]

\* Mutant: the loop does not look at ctx.
NoCheck(c) ==
  /\ Goto(c, "check", "read")
  /\ UNCHANGED <<mainVars, serve, listening, acceptVars, net, connVars, writeMu, slotVars, range, wg>>

\* The top of the loop.
Check(c) ==
  /\ Goto(c, "check", IF done THEN "cleanup" ELSE "read")
  /\ UNCHANGED <<mainVars, serve, listening, acceptVars, net, connVars, writeMu, slotVars, range, wg>>

\* ReadCommand returns a command: what the client sent is read even after the
\* connection is closed, if bufio holds it.  Before AUTH only AUTH is served; then a
\* write waits for writeMu, anything else executes at once.
Read(c) ==
  /\ buffered[c] > 0
  /\ buffered' = [buffered EXCEPT ![c] = @ - 1]
  /\ \/ authed[c] /\ Goto(c, "read", "lock") /\ UNCHANGED authed
     \/ authed[c] /\ Goto(c, "read", "exec") /\ UNCHANGED authed
     \/ /\ ~authed[c] /\ Goto(c, "read", "refuse")
        /\ authed' \in {authed, [authed EXCEPT ![c] = TRUE]}
  /\ UNCHANGED <<mainVars, serve, listening, acceptVars, net, sent, writeMu, slotVars, range, wg>>

\* Mutant: the end of the stream is taken for an empty read.
ReadOn(c) ==
  /\ \/ /\ buffered[c] > 0
        /\ Goto(c, "read", "report")
        /\ buffered' = [buffered EXCEPT ![c] = @ - 1]
     \/ /\ net[c] = "gone" /\ buffered[c] = 0
        /\ Goto(c, "read", "check")
        /\ UNCHANGED buffered
     \/ /\ net[c] = "closed" \/ IdleTimeout
        /\ Goto(c, "read", "cleanup")
        /\ UNCHANGED buffered
  /\ UNCHANGED <<mainVars, serve, listening, acceptVars, net, sent, authed, writeMu, slotVars, range, wg>>

\* ReadCommand fails: a protocol error is answered; at the end of the stream, on a
\* closed connection and after the idle timeout the handler just returns.
ReadError(c) ==
  /\ \/ /\ buffered[c] > 0
        /\ Goto(c, "read", "report")
        /\ buffered' = [buffered EXCEPT ![c] = @ - 1]
     \/ /\ \/ net[c] = "gone" /\ buffered[c] = 0
           \/ net[c] = "closed"
           \/ IdleTimeout
        /\ Goto(c, "read", "cleanup")
        /\ UNCHANGED buffered
  /\ UNCHANGED <<mainVars, serve, listening, acceptVars, net, sent, authed, writeMu, slotVars, range, wg>>

\* The replies of the authentication gate and of handleReadError: whether they can
\* be written does not matter.
Answer(c) ==
  /\ \/ Goto(c, "refuse", "check")
     \/ Goto(c, "report", "cleanup")
  /\ UNCHANGED <<mainVars, serve, listening, acceptVars, net, connVars, writeMu, slotVars, range, wg>>

LockWriteMu(c) ==
  /\ writeMu = None
  /\ Goto(c, "lock", "exec")
  /\ writeMu' = c
  /\ UNCHANGED <<mainVars, serve, listening, acceptVars, net, connVars, slotVars, range, wg>>

\* Mutant: a path out of Execute that does not unlock.
ExecLocked(c) ==
  /\ Goto(c, "exec", "write")
  /\ writeMu' \in {writeMu, IF writeMu = c THEN None ELSE writeMu}
  /\ UNCHANGED <<mainVars, serve, listening, acceptVars, net, connVars, slotVars, range, wg>>

\* The command handler, and writeMu.Unlock after a write.
Exec(c) ==
  /\ Goto(c, "exec", "write")
  /\ writeMu' = IF writeMu = c THEN None ELSE writeMu
  /\ UNCHANGED <<mainVars, serve, listening, acceptVars, net, connVars, slotVars, range, wg>>

\* The command handler panics: handleConn recovers, nobody unlocks writeMu.
Panic(c) ==
  /\ Panics
  /\ Goto(c, "exec", "cleanup")
  /\ UNCHANGED <<mainVars, serve, listening, acceptVars, net, connVars, writeMu, slotVars, range, wg>>

\* WriteTo and Flush; only a closed connection makes them fail.
WriteReply(c) ==
  /\ \/ net[c] # "closed" /\ Goto(c, "write", "check")
     \/ net[c] # "open" /\ Goto(c, "write", "cleanup")
  /\ UNCHANGED <<mainVars, serve, listening, acceptVars, net, connVars, writeMu, slotVars, range, wg>>

\* The deferred function, in its order, then wg.Done.
Deregister(c) ==
  /\ Goto(c, "cleanup", "release")
  /\ conns' = conns \ {c}
  /\ UNCHANGED <<mainVars, serve, listening, acceptVars, net, connVars, writeMu, sem, connected, range, wg>>

\* Mutant: the slot is not given back.
Unreleased(c) ==
  /\ Goto(c, "release", "close")
  /\ UNCHANGED <<mainVars, serve, listening, acceptVars, net, connVars, writeMu, slotVars, range, wg>>

Release(c) ==
  /\ Goto(c, "release", "close")
  /\ sem' = sem - 1
  /\ UNCHANGED <<mainVars, serve, listening, acceptVars, net, connVars, writeMu, connected, conns, range, wg>>

Close(c) ==
  /\ Goto(c, "close", "finish")
  /\ connected' = connected - 1
  /\ net' = [net EXCEPT ![c] = "closed"]
  /\ UNCHANGED <<mainVars, serve, listening, acceptVars, connVars, writeMu, sem, conns, range, wg>>

Done(c) ==
  /\ Goto(c, "finish", "done")
  /\ wg' = wg - 1
  /\ serve' = IF wg = 1 /\ serve = "waiting" THEN "released" ELSE serve
  /\ UNCHANGED <<mainVars, listening, acceptVars, net, connVars, writeMu, slotVars, range>>

-----------------------------------------------------------------------------
Handler(c) ==
  \/ Check(c) \/ Read(c) \/ ReadError(c) \/ Answer(c)
  \/ LockWriteMu(c) \/ Exec(c) \/ Panic(c) \/ WriteReply(c)
  \/ Deregister(c) \/ Release(c) \/ Close(c) \/ Done(c)

Serve ==
  \/ StartAccepting \/ CloseListener \/ StartRange \/ CloseNext
  \/ Wait \/ Wake \/ Return

AcceptLoop == Accept \/ AcceptError \/ Backoff \/ Admit \/ Reject \/ Register \/ Spawn

Main == StartServe \/ Select \/ Exit

Client(c) == Connect(c) \/ Send(c) \/ Leave(c)

Next ==
  \/ Signal \/ Main \/ Serve \/ AcceptLoop
  \/ \E c \in Conns : Client(c) \/ Handler(c)

Spec == Init /\ [][Next]_vars

\* The client of c decides when the handler goes on: no command has arrived and no
\* timeout is set, or the handler writes, without a deadline, to a client that may
\* not read.
ClientHolds(c) ==
  /\ net[c] = "open"
  /\ \/ h[c] = "read" /\ buffered[c] = 0 /\ ~IdleTimeout
     \/ h[c] \in {"write", "refuse", "report"}

\* The client of the rejected connection decides: the error reply needs the TLS
\* handshake, which has no read deadline.
HandshakeHolds == accept = "reject" /\ TLS /\ net[cur] = "open"

\* Goroutines are scheduled, writeMu does not starve a waiter, and a closed listener
\* fails Accept.  Nothing is assumed of clients, or of Accept on an open listener.
FairSpec ==
  /\ Spec
  /\ WF_vars(Main) /\ WF_vars(Serve)
  /\ WF_vars(AcceptLoop /\ ~HandshakeHolds /\ (accept = "accepting" => ~listening))
  /\ \A c \in Conns : WF_vars(Handler(c) /\ ~ClientHolds(c)) /\ SF_vars(LockWriteMu(c))

-----------------------------------------------------------------------------
(***************************************************************************)
(* Properties.                                                             *)
(***************************************************************************)
InLoop == {"read", "refuse", "report", "lock", "exec", "write"}
HasSlot == {"check", "cleanup", "release"} \cup InLoop
Live == {"close", "finish"} \cup HasSlot

\* The variables of the server and of main keep their types.
TypeOK ==
  /\ done \in BOOLEAN /\ errCh \in BOOLEAN /\ listening \in BOOLEAN
  /\ main \in {"boot", "ready", "select", "drain", "exited"}
  /\ serve \in {"none", "start", "serving", "range", "ranging", "waiting", "released",
                "join", "returned", "panicked"}
  /\ accept \in {"none", "accepting", "backoff", "admit", "reject", "register", "spawn",
                 "returned"}
  /\ cur \in Conns \cup {None}
  /\ net \in [Conns -> {"new", "queued", "open", "gone", "closed"}]
  /\ sent \in 0 .. MaxCmds /\ buffered \in [Conns -> 0 .. MaxCmds]
  /\ h \in [Conns -> {"none", "done"} \cup Live]
  /\ authed \in [Conns -> BOOLEAN]
  /\ writeMu \in Conns \cup {None}
  /\ sem \in 0 .. MaxConn /\ connected \in Nat /\ wg \in Nat
  /\ conns \subseteq Conns /\ range \subseteq Conns

\* A slot of s.sem is taken exactly by the connection being registered and by the
\* handlers that have not given it back: whatever way a handler ends (client gone,
\* protocol error, failed write, panic, shutdown), no slot leaks and none is freed twice.
SlotsExact ==
  sem = Cardinality({c \in Conns : h[c] \in HasSlot})
          + (IF accept \in {"register", "spawn"} THEN 1 ELSE 0)

\* Once Serve has run through s.conns, a handler still inside its loop has a closed
\* connection: no connection, however late it was accepted, is left reading after
\* "closes all live connections to unblock their handlers".
RangeMissesNobody ==
  serve = "waiting" \/ serve = "released" \/ serve = "join" \/ serve = "returned"
    => \A c \in Conns : h[c] \in InLoop => net[c] = "closed"

\* After a signal the process ends, whatever the clients do: main has Serve's result and
\* returns.  The exceptions are the WaitGroup's panic, which ends it too, and a select that
\* has taken the result away from the receive after it (see MainExits).
ShutdownEnds == done ~> (~Running \/ (main = "drain" /\ serve = "returned" /\ ~errCh))

\* A connection whose client has gone is closed by its handler, or by the accept loop
\* that rejects it: its goroutine and its slot do not stay behind.
GoneReleased == \A c \in Conns : net[c] = "gone" ~> (net[c] = "closed" \/ ~Running)

\* Serve "shuts down gracefully": waiting for the handlers does not panic.
NoWaitGroupPanic == serve # "panicked"

\* After a signal main gets Serve's result and returns ("mem-x stopped").
MainExits == done ~> ~Running

\* A panic "kills one conn, never the server": a write on another connection still
\* gets writeMu.
WritesProceed == \A c \in Conns : h[c] = "lock" ~> (h[c] # "lock" \/ ~Running)
=============================================================================
