--------------------------- MODULE SessionProofs ----------------------------
(***************************************************************************)
(* Proofs about Session.tla, for any number of sessions, any ports,        *)
(* environments and arguments: the types, that embedded servers are scoped *)
(* to their session, that a session started with the output of memx-url    *)
(* meets mem-x, that mem-x finds a port nobody else uses, and that the     *)
(* sessions rely on the contract of Serve only.                            *)
(*                                                                         *)
(* The invariant ties a session's program counter to the state of its      *)
(* embedded server, and a connection to the state of the server at its     *)
(* other end.                                                              *)
(***************************************************************************)
EXTENDS Session, TLAPS

Links == {"none", "queued", "open", "closed"}
States == {"off", "binding", "serving", "cancelled", "draining", "returned", "panicked", "gone"}
PCs == {"off", "dial", "spawn", "redial", "auth", "select", "prompt", "do", "closing", "exited",
        "failed"}

\* A session is a record with these fields.
Shaped(s) == DOMAIN s = {"pc", "target", "oneShot", "conn", "link", "authed", "invited"}

\* The machine: its ports, and who listens.
Listens(o) == (\E p \in Ports : owner[p] = o) <=> sv[o] \in {"serving", "cancelled"}

Machine ==
  /\ env \in Envs
  /\ owner \in [Ports -> Servers \cup {Other, None}]
  /\ sv \in [Servers -> States]
  /\ try \in 0 .. MaxRetries
  /\ \A o \in Servers : Listens(o)

\* Where a session is, and what its embedded server does.
Embedded(c) ==
  /\ cli[c].pc \in PCs
  /\ cli[c].pc \in {"off", "dial", "spawn"} => sv[c] = "off"
  /\ cli[c].pc = "redial" => sv[c] = "serving"
  /\ cli[c].pc \in {"auth", "select", "prompt", "do"} => sv[c] \in {"off", "serving"}
  /\ cli[c].pc = "closing" => sv[c] \in {"off", "serving", "cancelled", "draining", "returned"}
  /\ cli[c].pc = "exited" => sv[c] \in {"off", "returned"}
  /\ cli[c].pc = "failed" => sv[c] \in {"off", "gone"}

\* A connection is queued only at a listener and served only by a server that has not
\* returned.
Linked(c) ==
  /\ cli[c].conn \in Servers \cup {Other, None} /\ cli[c].link \in Links
  /\ cli[c].pc \in {"auth", "select", "prompt", "do"} => cli[c].conn # None
  /\ cli[c].conn \in Servers /\ cli[c].link = "queued" => sv[cli[c].conn] \in {"serving", "cancelled"}
  /\ cli[c].conn \in Servers /\ cli[c].link = "open" =>
       sv[cli[c].conn] \in {"serving", "cancelled", "draining"}

\* The target is what the address on the command line says.
Targets == UNION {ResolveTarget(a) : a \in Args}

Aimed(c) ==
  /\ cli[c].pc \in {"dial", "spawn"} => cli[c].target \in Targets
  /\ cli[c].pc = "spawn" => IsLocalAddr(cli[c].target)

Fits(c) == Shaped(cli[c]) /\ Embedded(c) /\ Linked(c) /\ Aimed(c)

Inv == Machine /\ DOMAIN cli = Clis /\ \A c \in Clis : Fits(c)

-----------------------------------------------------------------------------
(***************************************************************************)
(* Updates of sessions.                                                    *)
(***************************************************************************)

\* r is a session with these fields.
Is(r, pc, target, oneShot, conn, link, authed, invited) ==
  /\ Shaped(r) /\ r.pc = pc /\ r.target = target /\ r.oneShot = oneShot /\ r.conn = conn
  /\ r.link = link /\ r.authed = authed /\ r.invited = invited

\* r is s in all fields but pc, conn, link and authed.
IsWith(r, s, pc, conn, link, authed) ==
  Is(r, pc, s.target, s.oneShot, conn, link, authed, s.invited)

\* Only session c changes.
Only(c) == DOMAIN cli' = Clis /\ \A o \in Clis \ {c} : cli'[o] = cli[o]

\* Assignments to fields of a session.
LEMMA FieldsAssigned ==
  ASSUME NEW s, Shaped(s), NEW x, NEW y, NEW z
  PROVE  /\ IsWith([s EXCEPT !.link = x], s, s.pc, s.conn, x, s.authed)
         /\ IsWith([s EXCEPT !.pc = x], s, x, s.conn, s.link, s.authed)
         /\ IsWith([[[s EXCEPT !.conn = x] EXCEPT !.link = y] EXCEPT !.pc = z], s, z, x, y, s.authed)
         /\ IsWith([[s EXCEPT !.pc = x] EXCEPT !.authed = y], s, x, s.conn, s.link, y)
         /\ IsWith([[s EXCEPT !.link = x] EXCEPT !.pc = y], s, y, s.conn, x, s.authed)
<1>1. IsWith([s EXCEPT !.link = x], s, s.pc, s.conn, x, s.authed)
  BY Zenon DEF IsWith, Is, Shaped
<1>2. IsWith([s EXCEPT !.pc = x], s, x, s.conn, s.link, s.authed)
  BY Zenon DEF IsWith, Is, Shaped
<1>3. IsWith([[[s EXCEPT !.conn = x] EXCEPT !.link = y] EXCEPT !.pc = z], s, z, x, y, s.authed)
  BY Zenon DEF IsWith, Is, Shaped
<1>4. IsWith([[s EXCEPT !.pc = x] EXCEPT !.authed = y], s, x, s.conn, s.link, y)
  BY Zenon DEF IsWith, Is, Shaped
<1>5. IsWith([[s EXCEPT !.link = x] EXCEPT !.pc = y], s, y, s.conn, x, s.authed)
  BY Zenon DEF IsWith, Is, Shaped
<1> QED
  BY <1>1, <1>2, <1>3, <1>4, <1>5, Zenon

\* An assignment to a session.
LEMMA Assigned ==
  ASSUME DOMAIN cli = Clis, NEW c \in Clis, NEW s, cli' = [cli EXCEPT ![c] = s]
  PROVE  Only(c) /\ cli'[c] = s
  BY Zenon DEF Only

\* The updates the actions make.
LEMMA Updates ==
  ASSUME DOMAIN cli = Clis, NEW c \in Clis, Shaped(cli[c]), NEW x, NEW y, NEW z
  PROVE  /\ cli' = [cli EXCEPT ![c].link = x] =>
              Only(c) /\ IsWith(cli'[c], cli[c], cli[c].pc, cli[c].conn, x, cli[c].authed)
         /\ cli' = [cli EXCEPT ![c].pc = x] =>
              Only(c) /\ IsWith(cli'[c], cli[c], x, cli[c].conn, cli[c].link, cli[c].authed)
         /\ cli' = [cli EXCEPT ![c].conn = x, ![c].link = y, ![c].pc = z] =>
              Only(c) /\ IsWith(cli'[c], cli[c], z, x, y, cli[c].authed)
         /\ cli' = [cli EXCEPT ![c].pc = x, ![c].authed = y] =>
              Only(c) /\ IsWith(cli'[c], cli[c], x, cli[c].conn, cli[c].link, y)
         /\ cli' = [cli EXCEPT ![c].link = x, ![c].pc = y] =>
              Only(c) /\ IsWith(cli'[c], cli[c], y, cli[c].conn, x, cli[c].authed)
<1> DEFINE s == cli[c]
<1>1. cli' = [cli EXCEPT ![c].link = x] => Only(c) /\ cli'[c] = [s EXCEPT !.link = x]
  BY Zenon DEF Only
<1>2. cli' = [cli EXCEPT ![c].pc = x] => Only(c) /\ cli'[c] = [s EXCEPT !.pc = x]
  BY Zenon DEF Only
<1>3. cli' = [cli EXCEPT ![c].conn = x, ![c].link = y, ![c].pc = z] =>
        Only(c) /\ cli'[c] = [[[s EXCEPT !.conn = x] EXCEPT !.link = y] EXCEPT !.pc = z]
  BY Zenon DEF Only
<1>4. cli' = [cli EXCEPT ![c].pc = x, ![c].authed = y] =>
        Only(c) /\ cli'[c] = [[s EXCEPT !.pc = x] EXCEPT !.authed = y]
  BY Zenon DEF Only
<1>5. cli' = [cli EXCEPT ![c].link = x, ![c].pc = y] =>
        Only(c) /\ cli'[c] = [[s EXCEPT !.link = x] EXCEPT !.pc = y]
  BY Zenon DEF Only
<1> HIDE DEF s
<1>6. Shaped(s)
  BY Zenon DEF s
<1>7. /\ IsWith([s EXCEPT !.link = x], s, s.pc, s.conn, x, s.authed)
      /\ IsWith([s EXCEPT !.pc = x], s, x, s.conn, s.link, s.authed)
      /\ IsWith([[[s EXCEPT !.conn = x] EXCEPT !.link = y] EXCEPT !.pc = z], s, z, x, y, s.authed)
      /\ IsWith([[s EXCEPT !.pc = x] EXCEPT !.authed = y], s, x, s.conn, s.link, y)
      /\ IsWith([[s EXCEPT !.link = x] EXCEPT !.pc = y], s, y, s.conn, x, s.authed)
  BY <1>6, FieldsAssigned, Zenon
<1>8. s = cli[c]
  BY Zenon DEF s
<1>9. cli' = [cli EXCEPT ![c].link = x] => Only(c) /\ IsWith(cli'[c], s, s.pc, s.conn, x, s.authed)
  BY <1>1, <1>7, Zenon
<1>10. cli' = [cli EXCEPT ![c].pc = x] => Only(c) /\ IsWith(cli'[c], s, x, s.conn, s.link, s.authed)
  BY <1>2, <1>7, Zenon
<1>11. cli' = [cli EXCEPT ![c].conn = x, ![c].link = y, ![c].pc = z] =>
         Only(c) /\ IsWith(cli'[c], s, z, x, y, s.authed)
  BY <1>3, <1>7, Zenon
<1>12. cli' = [cli EXCEPT ![c].pc = x, ![c].authed = y] =>
         Only(c) /\ IsWith(cli'[c], s, x, s.conn, s.link, y)
  BY <1>4, <1>7, Zenon
<1>13. cli' = [cli EXCEPT ![c].link = x, ![c].pc = y] =>
         Only(c) /\ IsWith(cli'[c], s, y, s.conn, x, s.authed)
  BY <1>5, <1>7, Zenon
<1> QED
  BY <1>8, <1>9, <1>10, <1>11, <1>12, <1>13, Zenon

-----------------------------------------------------------------------------
(***************************************************************************)
(* Targets.                                                                *)
(***************************************************************************)

\* What an address means depends on the environment only.
LEMMA TargetsKept ==
  ASSUME env' = env
  PROVE  Targets' = Targets /\ MemxURL' = MemxURL /\ EnvAddr(env)' = EnvAddr(env)
<1>1. MemxURL' = MemxURL
  BY Zenon DEF MemxURL
<1>2. ASSUME NEW a PROVE ResolveTarget(a)' = ResolveTarget(a)
  BY <1>1, Zenon DEF ResolveTarget
<1>3. Targets' = Targets
  BY <1>2, Zenon DEF Targets
<1> QED
  BY <1>1, <1>3, Zenon

\* The port of the URL that memx-url prints is a port of the machine.
LEMMA URLPort ==
  ASSUME env \in Envs
  PROVE  TargetOf(MemxURL).port \in Ports
<1> DEFINE u == NewURL(env)
<1>1. u.port \in Ports
  BY PortAssumption, SessionAssumption, Zenon DEF NewURL, DefaultPort
<1>2. ConnString(u).port = u.port
  BY Zenon DEF ConnString
<1>3. ASSUME NEW text, text.port \in Ports PROVE TargetOf(text).port = text.port
  BY <1>3, SessionAssumption, Zenon DEF TargetOf
<1> QED
  BY <1>1, <1>2, <1>3, Zenon DEF MemxURL

\* The targets' ports are ports of the machine.
LEMMA TargetPort ==
  ASSUME env \in Envs, NEW t \in Targets
  PROVE  t.port \in Ports
<1>1. PICK a \in Args : t \in ResolveTarget(a)
  BY Zenon DEF Targets
<1>2. CASE a.kind = "addr"
  <2>1. t = [NoTarget EXCEPT !.host = a.host, !.port = a.port]
    BY <1>1, <1>2, Zenon DEF ResolveTarget
  <2> QED
    BY <2>1, <1>2, PortAssumption, Zenon DEF NoTarget
<1>3. CASE a.kind = "url"
  <2>1. t = TargetOf(a.text)
    BY <1>1, <1>3, Zenon DEF ResolveTarget
  <2>2. a.text.port \in Ports \cup {0} /\ DefaultPort(a.text.tls) \in Ports
    BY <1>3, PortAssumption, SessionAssumption, Zenon DEF DefaultPort
  <2> QED
    BY <2>1, <2>2, Zenon DEF TargetOf
<1>4. CASE a.kind = "memx-url"
  <2>1. t = TargetOf(MemxURL)
    BY <1>1, <1>4, Zenon DEF ResolveTarget
  <2> QED
    BY <2>1, URLPort, Zenon
<1>5. CASE a.kind = "foreign"
  BY <1>1, <1>5, Zenon DEF ResolveTarget
<1> QED
  BY <1>2, <1>3, <1>4, <1>5, PortAssumption, Zenon

-----------------------------------------------------------------------------
(***************************************************************************)
(* Steps of the machine.                                                   *)
(***************************************************************************)

\* A server's state changes, and its listener is neither opened nor closed.
LEMMA ServerMoves ==
  ASSUME Machine, NEW o \in Servers, NEW x \in States, sv' = [sv EXCEPT ![o] = x],
         sv[o] \in {"serving", "cancelled"} <=> x \in {"serving", "cancelled"},
         UNCHANGED <<env, owner, try>>
  PROVE  Machine'
<1>1. sv' \in [Servers -> States]
  BY Zenon DEF Machine
<1>2. ASSUME NEW p \in Servers PROVE Listens(p)'
  BY Zenon DEF Machine, Listens
<1> QED
  BY <1>1, <1>2, Zenon DEF Machine

\* A server opens its listener on a free port.
LEMMA ServerListens ==
  ASSUME Machine, NEW o \in Servers, sv' = [sv EXCEPT ![o] = "serving"],
         sv[o] \notin {"serving", "cancelled"},
         NEW p \in Ports, owner[p] = None, owner' = [owner EXCEPT ![p] = o],
         UNCHANGED <<env, try>>
  PROVE  Machine'
<1>1. sv' \in [Servers -> States]
  BY Zenon DEF Machine, States
<1>2. owner' \in [Ports -> Servers \cup {Other, None}]
  BY Zenon DEF Machine
<1>3. ASSUME NEW q \in Servers PROVE Listens(q)'
  <2>1. q # None
    BY SessionAssumption, Zenon DEF Servers
  <2>2. CASE q = o
    BY <2>2, Zenon DEF Machine, Listens
  <2>3. CASE q # o
    BY <2>1, <2>3, Zenon DEF Machine, Listens
  <2> QED
    BY <2>2, <2>3, Zenon
<1> QED
  BY <1>1, <1>2, <1>3, Zenon DEF Machine

\* A server's listener closes.
LEMMA ServerUnlistens ==
  ASSUME Machine, NEW o \in Servers, NEW x \in States, sv' = [sv EXCEPT ![o] = x],
         x \notin {"serving", "cancelled"}, owner' = Unlisten(o), UNCHANGED <<env, try>>
  PROVE  Machine'
<1>1. sv' \in [Servers -> States]
  BY Zenon DEF Machine, States
<1>2. owner' \in [Ports -> Servers \cup {Other, None}]
  BY Zenon DEF Machine, Unlisten
<1>3. ASSUME NEW q \in Servers PROVE Listens(q)'
  <2>1. q # None
    BY SessionAssumption, Zenon DEF Servers
  <2>2. CASE q = o
    BY <2>1, <2>2, Zenon DEF Machine, Listens, Unlisten
  <2>3. CASE q # o
    BY <2>1, <2>3, Zenon DEF Machine, Listens, Unlisten
  <2> QED
    BY <2>2, <2>3, Zenon
<1> QED
  BY <1>1, <1>2, <1>3, Zenon DEF Machine

-----------------------------------------------------------------------------
(***************************************************************************)
(* The invariant is preserved.  First the steps of servers that leave the  *)
(* sessions as they are.                                                   *)
(***************************************************************************)

\* A server goes to state x, in which it can keep the connections it has.
Turns(o, x) == sv' = [sv EXCEPT ![o] = x] /\ UNCHANGED <<env, cli>>

Holding(o, x) ==
  \A c \in Clis : cli[c].conn = o =>
    /\ cli[c].link = "queued" => x \in {"serving", "cancelled"}
    /\ cli[c].link = "open" => x \in {"serving", "cancelled", "draining"}

\* A server changes its state and no session moves.
LEMMA ServerStep ==
  ASSUME Inv, Machine', NEW o \in Servers, NEW x, Turns(o, x), Holding(o, x),
         \A c \in Clis : c = o => Embedded(c)'
  PROVE  Inv'
<1>1. Targets' = Targets
  BY TargetsKept, Zenon DEF Turns
<1>2. sv \in [Servers -> States] /\ Clis \subseteq Servers
  BY Zenon DEF Inv, Machine, Servers
<1>3. ASSUME NEW c \in Clis PROVE Fits(c)'
  <2>1. Fits(c)
    BY Zenon DEF Inv
  <2>2. Embedded(c)'
    BY <1>2, <2>1, Zenon DEF Fits, Embedded, Turns
  <2>3. Linked(c)'
    BY <1>2, <2>1, Zenon DEF Fits, Linked, Turns, Holding
  <2>4. Aimed(c)'
    BY <1>1, <2>1, Zenon DEF Fits, Aimed, IsLocalAddr, Turns
  <2> QED
    BY <2>1, <2>2, <2>3, <2>4, Zenon DEF Fits, Turns
<1> QED
  BY <1>3, Zenon DEF Inv, Turns

\* A server holds its connections when it stays "serving" or "cancelled", and when it has
\* not listened before.
LEMMA HoldingOn ==
  ASSUME Inv, NEW o \in Servers, NEW x, x \in {"serving", "cancelled"} \/ sv[o] \in {"off", "binding"}
  PROVE  Holding(o, x)
  BY Zenon DEF Inv, Fits, Linked, Holding

\* Main is no session.
LEMMA MainServes ==
  Main \in Servers /\ Main \notin Clis /\ Main # None /\ Main # Other /\ Clis \subseteq Servers
  BY SessionAssumption, Zenon DEF Servers

\* The same for mem-x.
LEMMA MainStep ==
  ASSUME Inv, Machine', NEW x, Turns(Main, x),
         x \in {"serving", "cancelled"} \/ sv[Main] \in {"off", "binding"}
  PROVE  Inv'
<1>1. Holding(Main, x)
  BY HoldingOn, MainServes, Zenon
<1>2. \A c \in Clis : c # Main
  BY MainServes, Zenon
<1> QED
  BY <1>1, <1>2, ServerStep, MainServes, Zenon

\* mem-x starts.
LEMMA BootStep ==
  ASSUME Inv, Boot
  PROVE  Inv'
<1>1. Machine'
  BY MainServes, ServerMoves, Zenon DEF Boot, Inv, States
<1>2. Turns(Main, "binding") /\ sv[Main] = "off"
  BY Zenon DEF Boot, Turns
<1> QED
  BY <1>1, <1>2, MainStep, Zenon

\* The ports that listenWithRetry tries are ports of the machine.
LEMMA PortsTried ==
  ASSUME Inv
  PROVE  NextPort \in Ports /\ EnvAddr(env) \in Ports
<1>1. env \in Envs /\ try \in 0 .. MaxRetries
  BY Zenon DEF Inv, Machine
<1>2. EnvAddr(env) + try \in Ports /\ EnvAddr(env) + 0 \in Ports
  BY <1>1, PortAssumption, SessionAssumption
<1>3. EnvAddr(env) \in Nat
  <2>1. Ports \subseteq Nat /\ PlainPort \in Ports
    BY SessionAssumption, Zenon
  <2>2. {env.addr, env.port} \subseteq Ports \cup {0}
    BY <1>1, PortAssumption, Zenon
  <2> QED
    BY <2>1, <2>2, Zenon DEF EnvAddr
<1> QED
  BY <1>2, <1>3 DEF NextPort

\* One round of listenWithRetry: the port is taken, or the next one tried, or none is
\* left.
LEMMA TryListenStep ==
  ASSUME Inv, TryListen
  PROVE  Inv'
<1>1. CASE /\ owner[NextPort] = None
           /\ owner' = [owner EXCEPT ![NextPort] = Main]
           /\ sv' = [sv EXCEPT ![Main] = "serving"]
           /\ UNCHANGED try
  <2>1. Machine'
    BY <1>1, PortsTried, MainServes, ServerListens, Zenon DEF TryListen, Inv
  <2>2. Turns(Main, "serving") /\ sv[Main] = "binding"
    BY <1>1, Zenon DEF TryListen, Turns
  <2> QED
    BY <2>1, <2>2, MainStep, Zenon
<1>2. CASE /\ try < MaxRetries /\ try' = try + 1 /\ UNCHANGED <<owner, sv>>
  <2>1. Machine'
    <3>1. try \in 0 .. MaxRetries /\ try < MaxRetries
      BY <1>2, Zenon DEF Inv, Machine
    <3>2. try' \in 0 .. MaxRetries
      BY <1>2, <3>1, SessionAssumption
    <3> QED
      BY <1>2, <3>2, Zenon DEF TryListen, Inv, Machine, Listens
  <2>2. Turns(Main, "binding") /\ sv[Main] = "binding"
    BY <1>2, MainServes, Zenon DEF TryListen, Inv, Machine, Turns
  <2> QED
    BY <2>1, <2>2, MainStep, Zenon
<1>3. CASE sv' = [sv EXCEPT ![Main] = "panicked"] /\ UNCHANGED <<owner, try>>
  <2>1. Machine'
    BY <1>3, MainServes, ServerMoves, Zenon DEF TryListen, Inv, States
  <2>2. Turns(Main, "panicked") /\ sv[Main] = "binding"
    BY <1>3, Zenon DEF TryListen, Turns
  <2> QED
    BY <2>1, <2>2, MainStep, Zenon
<1> QED
  BY <1>1, <1>2, <1>3, Zenon DEF TryListen

\* mem-x gets its signal.
LEMMA SignalStep ==
  ASSUME Inv, Signal
  PROVE  Inv'
<1>1. Machine'
  BY MainServes, ServerMoves, Zenon DEF Signal, Inv, States
<1>2. Turns(Main, "cancelled")
  BY Zenon DEF Signal, Turns
<1> QED
  BY <1>1, <1>2, MainStep, Zenon

\* Serve returns once its handlers have ended.
LEMMA ReturnStep ==
  ASSUME Inv, NEW o \in Servers, Return(o)
  PROVE  Inv'
<1>1. Machine'
  BY ServerMoves, Zenon DEF Return, Inv, States
<1>2. \A c \in Clis : Embedded(c) /\ Linked(c)
  BY Zenon DEF Inv, Fits
<1>3. Turns(o, "returned") /\ sv[o] = "draining" /\ sv \in [Servers -> States]
  BY Zenon DEF Return, Inv, Machine, Turns
<1>4. \A c \in Clis : c = o => Embedded(c)'
  BY <1>2, <1>3, Zenon DEF Turns, Embedded, PCs
<1>5. \A c \in Clis : ~(cli[c].conn = o /\ cli[c].link = "open")
  BY Zenon DEF Return, At
<1>6. \A c \in Clis : ~(cli[c].conn = o /\ cli[c].link = "queued")
  BY <1>2, <1>3, Zenon DEF Linked
<1>7. Holding(o, "returned")
  BY <1>5, <1>6, Zenon DEF Holding
<1> QED
  BY <1>1, <1>3, <1>4, <1>7, ServerStep, Zenon

\* Embedded.Close cancels the context of the embedded server.
LEMMA CancelStep ==
  ASSUME Inv, NEW c \in Clis, Cancel(c)
  PROVE  Inv'
<1>1. c \in Servers
  BY Zenon DEF Servers
<1>2. Machine'
  BY <1>1, ServerMoves, Zenon DEF Cancel, Inv, States
<1>3. Embedded(c)'
  BY <1>1, Zenon DEF Cancel, Inv, Fits, Embedded, PCs, Machine
<1>4. Turns(c, "cancelled") /\ Holding(c, "cancelled")
  BY <1>1, HoldingOn, Zenon DEF Cancel, Turns
<1> QED
  BY <1>1, <1>2, <1>3, <1>4, ServerStep, Zenon

-----------------------------------------------------------------------------
(***************************************************************************)
(* Steps of one session, which leave the machine as it is.                 *)
(***************************************************************************)
Still == UNCHANGED <<env, owner, sv, try>>

\* One session moves; the machine and the servers stay.
LEMMA SessionStep ==
  ASSUME Inv, NEW c \in Clis, Still, Only(c), Fits(c)'
  PROVE  Inv'
<1>1. Machine'
  BY Zenon DEF Inv, Machine, Listens, Still
<1>2. Targets' = Targets
  BY TargetsKept, Zenon DEF Still
<1>3. ASSUME NEW d \in Clis, d # c PROVE Fits(d)'
  <2>1. Fits(d) /\ cli'[d] = cli[d]
    BY <1>3, Zenon DEF Inv, Only
  <2>2. Embedded(d)' /\ Linked(d)'
    BY <2>1, Zenon DEF Fits, Embedded, Linked, Still
  <2>3. Aimed(d)'
    BY <1>2, <2>1, Zenon DEF Fits, Aimed, IsLocalAddr
  <2> QED
    BY <2>1, <2>2, <2>3, Zenon DEF Fits
<1> QED
  BY <1>1, <1>3, Zenon DEF Inv, Only

\* A connection advances or is closed, and the session stays where it is.
LEMMA LinkStep ==
  ASSUME Inv, NEW c \in Clis, Still, NEW link \in Links, cli' = [cli EXCEPT ![c].link = link],
         link = "closed" \/ (link = "open" /\ cli[c].link = "queued")
  PROVE  Inv'
<1>1. Fits(c) /\ DOMAIN cli = Clis
  BY Zenon DEF Inv
<1>2. Only(c) /\ IsWith(cli'[c], cli[c], cli[c].pc, cli[c].conn, link, cli[c].authed)
  BY <1>1, Updates, Zenon DEF Fits
<1>3. Targets' = Targets
  BY TargetsKept, Zenon DEF Still
<1>4. Embedded(c)' /\ Linked(c)'
  BY <1>1, <1>2, Zenon DEF Fits, Embedded, Linked, IsWith, Is, Still, Links
<1>5. Aimed(c)' /\ Shaped(cli[c])'
  BY <1>1, <1>2, <1>3 DEF Fits, Aimed, IsWith, Is, IsLocalAddr
<1> QED
  BY <1>2, <1>4, <1>5, SessionStep, Zenon DEF Fits

\* The steps of the servers' ends of the connections.
LEMMA LinkSteps ==
  ASSUME Inv,
         \/ \E c \in Clis : Serve(c) \/ IdleTimeout(c)
         \/ \E o \in Servers : Disconnect(o)
         \/ OtherCloses
  PROVE  Inv'
<1>1. ASSUME NEW c \in Clis, Serve(c) PROVE Inv'
  BY <1>1, LinkStep, Zenon DEF Serve, At, Still, Links
<1>2. ASSUME NEW c \in Clis, IdleTimeout(c) PROVE Inv'
  BY <1>2, LinkStep, Zenon DEF IdleTimeout, Still, Links
<1>3. ASSUME NEW o \in Servers, Disconnect(o) PROVE Inv'
  BY <1>3, LinkStep, Zenon DEF Disconnect, At, Still, Links
<1>4. ASSUME OtherCloses PROVE Inv'
  BY <1>4, LinkStep, Zenon DEF OtherCloses, At, Still, Links
<1> QED
  BY <1>1, <1>2, <1>3, <1>4, Zenon

\* A session goes on to where its embedded server may be as it is, and it has a connection
\* where it needs one.
LEMMA GotoStep ==
  ASSUME Inv, NEW c \in Clis, NEW pc, Goto(c, pc),
         \/ cli[c].pc = "dial" /\ pc = "spawn" /\ IsLocalAddr(cli[c].target)
         \/ cli[c].pc \in {"redial", "prompt", "do"} /\ pc = "closing"
         \/ cli[c].pc = "auth" /\ pc = "select"
         \/ cli[c].pc = "select" /\ pc \in {"prompt", "do"}
         \/ cli[c].pc = "prompt" /\ pc = "do"
  PROVE  Inv'
<1>1. Fits(c) /\ DOMAIN cli = Clis
  BY Zenon DEF Inv
<1>2. Still /\ cli' = [cli EXCEPT ![c].pc = pc]
  BY Zenon DEF Goto, Still
<1>3. Only(c) /\ IsWith(cli'[c], cli[c], pc, cli[c].conn, cli[c].link, cli[c].authed)
  BY <1>1, <1>2, Updates, Zenon DEF Fits
<1>4. Targets' = Targets
  BY <1>2, TargetsKept, Zenon DEF Still
<1>5. Embedded(c)'
  BY <1>1, <1>2, <1>3, Zenon DEF Fits, Embedded, IsWith, Is, Still, PCs
<1>6. Linked(c)'
  BY <1>1, <1>2, <1>3, Zenon DEF Fits, Linked, IsWith, Is, Still
<1>7. Aimed(c)' /\ Shaped(cli[c])'
  BY <1>1, <1>3, <1>4, Zenon DEF Fits, Aimed, IsWith, Is, IsLocalAddr
<1> QED
  BY <1>2, <1>3, <1>5, <1>6, <1>7, SessionStep, Zenon DEF Fits

\* A session connects to who listens at its target, or to its embedded server.
LEMMA ConnectStep ==
  ASSUME Inv, NEW c \in Clis, NEW o, ConnectTo(c, o), cli[c].pc \in {"dial", "redial"},
         o \in Servers \cup {Other}, o \in Servers => sv[o] \in {"serving", "cancelled"}
  PROVE  Inv'
<1>1. Fits(c) /\ DOMAIN cli = Clis
  BY Zenon DEF Inv
<1>2. Still /\ cli' = [cli EXCEPT ![c].conn = o, ![c].link = "queued", ![c].pc = "auth"]
  BY Zenon DEF ConnectTo, Still
<1>3. Only(c) /\ IsWith(cli'[c], cli[c], "auth", o, "queued", cli[c].authed)
  BY <1>1, <1>2, Updates, Zenon DEF Fits
<1>4. Embedded(c)'
  BY <1>1, <1>2, <1>3, Zenon DEF Fits, Embedded, IsWith, Is, Still, PCs
<1>5. Linked(c)'
  <2>1. o # None
    BY SessionAssumption, Zenon DEF Servers
  <2> QED
    BY <2>1, <1>2, <1>3, Zenon DEF Linked, IsWith, Is, Still, Links
<1>6. Aimed(c)' /\ Shaped(cli[c])'
  BY <1>3, Zenon DEF Aimed, IsWith, Is
<1> QED
  BY <1>2, <1>3, <1>4, <1>5, <1>6, SessionStep, Zenon DEF Fits

\* The replies to AUTH and to a command.
LEMMA AuthStep ==
  ASSUME Inv, NEW c \in Clis, Still, cli[c].pc = "auth",
         cli' = [cli EXCEPT ![c].pc = "select", ![c].authed = TRUE]
  PROVE  Inv'
<1>1. Fits(c) /\ DOMAIN cli = Clis
  BY Zenon DEF Inv
<1>2. Only(c) /\ IsWith(cli'[c], cli[c], "select", cli[c].conn, cli[c].link, TRUE)
  BY <1>1, Updates, Zenon DEF Fits
<1>3. Embedded(c)' /\ Linked(c)'
  BY <1>1, <1>2, Zenon DEF Fits, Embedded, Linked, IsWith, Is, Still, PCs
<1>4. Aimed(c)' /\ Shaped(cli[c])'
  BY <1>2, Zenon DEF Aimed, IsWith, Is
<1> QED
  BY <1>2, <1>3, <1>4, SessionStep, Zenon DEF Fits

\* The answer to a command, or the end of the connection.
LEMMA ReplyStep ==
  ASSUME Inv, NEW c \in Clis, Still, cli[c].pc = "do", cli[c].link = "open",
         NEW link \in {"open", "closed"}, NEW pc \in {"closing", "prompt"},
         cli' = [cli EXCEPT ![c].link = link, ![c].pc = pc]
  PROVE  Inv'
<1>1. Fits(c) /\ DOMAIN cli = Clis
  BY Zenon DEF Inv
<1>2. Only(c) /\ IsWith(cli'[c], cli[c], pc, cli[c].conn, link, cli[c].authed)
  BY <1>1, Updates, Zenon DEF Fits
<1>3. Embedded(c)' /\ Linked(c)'
  BY <1>1, <1>2, Zenon DEF Fits, Embedded, Linked, IsWith, Is, Still, PCs, Links
<1>4. Aimed(c)' /\ Shaped(cli[c])'
  BY <1>2, Zenon DEF Aimed, IsWith, Is
<1> QED
  BY <1>2, <1>3, <1>4, SessionStep, Zenon DEF Fits

\* A session that has ended is not connected.
LEMMA EndedFields ==
  ASSUME NEW c \in Clis, NEW pc
  PROVE  Is(Ended(c, pc), pc, NoTarget, FALSE, None, "none", FALSE, cli[c].invited)
  BY Zenon DEF Is, Ended, Off, Shaped

\* main of a session returns; Embedded.Close has waited for Serve before.
LEMMA ExitStep ==
  ASSUME Inv, NEW c \in Clis, Exit(c)
  PROVE  Inv'
<1>1. Still /\ Only(c) /\ cli'[c] = Ended(c, "exited") /\ sv[c] \in {"off", "returned"}
  BY Assigned, Zenon DEF Inv, Exit, Still
<1>2. Is(cli'[c], "exited", NoTarget, FALSE, None, "none", FALSE, cli[c].invited)
  BY <1>1, EndedFields, Zenon
<1>3. None \notin Servers
  BY SessionAssumption, Zenon DEF Servers
<1>4. Fits(c)'
  BY <1>1, <1>2, <1>3, Zenon DEF Fits, Embedded, Linked, Aimed, Is, Still, PCs, Links
<1> QED
  BY <1>1, <1>4, SessionStep, Zenon

\* A session starts.
LEMMA StartedFields ==
  ASSUME NEW t, NEW oneShot, NEW invited
  PROVE  Is([Off EXCEPT !.pc = "dial", !.target = t, !.oneShot = oneShot, !.invited = invited],
            "dial", t, oneShot, None, "none", FALSE, invited)
  BY Zenon DEF Is, Off, Shaped

\* A session starts with a target.
LEMMA StartedStep ==
  ASSUME Inv, NEW c \in Clis, cli[c].pc = "off", NEW t \in Targets, NEW oneShot, NEW invited, Still,
         cli' = [cli EXCEPT ![c] =
                   [Off EXCEPT !.pc = "dial", !.target = t, !.oneShot = oneShot, !.invited = invited]]
  PROVE  Inv'
<1>1. Only(c) /\ Is(cli'[c], "dial", t, oneShot, None, "none", FALSE, invited)
  BY Assigned, StartedFields, Zenon DEF Inv
<1>2. Targets' = Targets
  BY TargetsKept, Zenon DEF Still
<1>3. None \notin Servers /\ sv[c] = "off"
  BY SessionAssumption, Zenon DEF Servers, Inv, Fits, Embedded
<1>4. Fits(c)'
  BY <1>1, <1>2, <1>3 DEF Fits, Embedded, Linked, Aimed, Is, Still, PCs, Links
<1> QED
  BY <1>1, <1>4, SessionStep, Zenon

-----------------------------------------------------------------------------
(***************************************************************************)
(* Steps that close connections of other sessions: a listener closes, and  *)
(* a process ends.                                                         *)
(***************************************************************************)
LEMMA CloseListenerStep ==
  ASSUME Inv, NEW o \in Servers, CloseListener(o)
  PROVE  Inv'
<1>1. Machine'
  BY ServerUnlistens, Zenon DEF CloseListener, Inv, States
<1>2. Targets' = Targets
  BY TargetsKept, Zenon DEF CloseListener
<1>3. sv \in [Servers -> States] /\ Clis \subseteq Servers /\ DOMAIN cli' = Clis
  BY Zenon DEF Inv, Machine, Servers, CloseListener
<1>4. ASSUME NEW c \in Clis PROVE Fits(c)'
  <2>1. Fits(c)
    BY Zenon DEF Inv
  <2> DEFINE link == IF c \in At(o, "queued") THEN "closed" ELSE cli[c].link
  <2>2. IsWith(cli'[c], cli[c], cli[c].pc, cli[c].conn, link, cli[c].authed)
    <3>1. CASE c \in At(o, "queued")
      <4>1. cli'[c] = [cli[c] EXCEPT !.link = "closed"]
        BY <3>1, Zenon DEF CloseListener
      <4> QED
        BY <2>1, <3>1, <4>1, Zenon DEF Fits, IsWith, Is, Shaped
    <3>2. CASE c \notin At(o, "queued")
      <4>1. cli'[c] = cli[c]
        BY <3>2, Zenon DEF CloseListener
      <4> QED
        BY <2>1, <3>2, <4>1, Zenon DEF Fits, IsWith, Is
    <3> QED
      BY <3>1, <3>2, Zenon
  <2>3. Embedded(c)'
    BY <1>3, <2>1, <2>2, Zenon DEF Fits, Embedded, IsWith, Is, CloseListener
  <2>4. Linked(c)'
    BY <1>3, <2>1, <2>2 DEF Fits, Linked, IsWith, Is, CloseListener, At, Links
  <2>5. Aimed(c)' /\ Shaped(cli[c])'
    BY <1>2, <2>1, <2>2, Zenon DEF Fits, Aimed, IsWith, Is, IsLocalAddr
  <2> QED
    BY <2>3, <2>4, <2>5, Zenon DEF Fits
<1> QED
  BY <1>1, <1>3, <1>4, Zenon DEF Inv

\* What os.Exit of c does to the other sessions.
LEMMA OsExitOthers ==
  ASSUME Inv, NEW c \in Clis, OsExit(c), NEW d \in Clis, d # c
  PROVE  IsWith(cli'[d], cli[d], cli[d].pc, cli[d].conn,
                IF cli[d].conn = c THEN "closed" ELSE cli[d].link, cli[d].authed)
<1>1. Shaped(cli[d])
  BY Zenon DEF Inv, Fits
<1>2. CASE cli[d].conn = c
  <2>1. cli'[d] = [cli[d] EXCEPT !.link = "closed"]
    BY <1>2, Zenon DEF OsExit
  <2> QED
    BY <1>1, <1>2, <2>1, Zenon DEF IsWith, Is, Shaped
<1>3. CASE cli[d].conn # c
  <2>1. cli'[d] = cli[d]
    BY <1>3, Zenon DEF OsExit
  <2> QED
    BY <1>1, <1>3, <2>1, Zenon DEF IsWith, Is
<1> QED
  BY <1>2, <1>3, Zenon

\* os.Exit ends a session and its embedded server with it.
LEMMA OsExitStep ==
  ASSUME Inv, NEW c \in Clis, OsExit(c)
  PROVE  Inv'
<1> DEFINE x == IF sv[c] = "off" THEN "off" ELSE "gone"
<1>1. sv \in [Servers -> States] /\ Clis \subseteq Servers /\ DOMAIN cli' = Clis
  BY Zenon DEF Inv, Machine, Servers, OsExit
<1>2. sv' = [sv EXCEPT ![c] = x] /\ x \in States
  BY <1>1, Zenon DEF OsExit, States
<1>3. Machine'
  BY <1>1, <1>2, ServerUnlistens, Zenon DEF OsExit, Inv
<1>4. Targets' = Targets
  BY TargetsKept, Zenon DEF OsExit
<1>5. Fits(c)'
  <2>1. cli'[c] = Ended(c, "failed")
    BY Zenon DEF OsExit
  <2>2. Is(cli'[c], "failed", NoTarget, FALSE, None, "none", FALSE, cli[c].invited)
    BY <2>1, EndedFields, Zenon
  <2>3. None \notin Servers
    BY SessionAssumption, Zenon DEF Servers
  <2> QED
    BY <1>1, <1>2, <2>2, <2>3, Zenon DEF Fits, Embedded, Linked, Aimed, Is, PCs, Links
<1>6. ASSUME NEW d \in Clis, d # c PROVE Fits(d)'
  <2>1. Fits(d)
    BY Zenon DEF Inv
  <2>2. IsWith(cli'[d], cli[d], cli[d].pc, cli[d].conn,
               IF cli[d].conn = c THEN "closed" ELSE cli[d].link, cli[d].authed)
    BY <1>6, OsExitOthers, Zenon
  <2>3. Embedded(d)'
    BY <1>1, <1>2, <1>6, <2>1, <2>2, Zenon DEF Fits, Embedded, IsWith, Is
  <2>4. Linked(d)'
    BY <1>1, <1>2, <2>1, <2>2, Zenon DEF Fits, Linked, IsWith, Is, Links
  <2>5. Aimed(d)' /\ Shaped(cli[d])'
    BY <1>4, <2>1, <2>2, Zenon DEF Fits, Aimed, IsWith, Is, IsLocalAddr
  <2> QED
    BY <2>3, <2>4, <2>5, Zenon DEF Fits
<1> QED
  BY <1>1, <1>3, <1>5, <1>6, Zenon DEF Inv

-----------------------------------------------------------------------------
(***************************************************************************)
(* The handlers of a session, put together from these steps.               *)
(***************************************************************************)

\* Who listens at a target is a server that serves or is about to close, or Other.
LEMMA ListenerServes ==
  ASSUME Inv, NEW c \in Clis, cli[c].pc \in {"dial", "spawn"}, Listener(c) # None
  PROVE  /\ IsLocalAddr(cli[c].target) /\ Listener(c) = owner[cli[c].target.port]
         /\ Listener(c) \in Servers \cup {Other}
         /\ Listener(c) \in Servers => sv[Listener(c)] \in {"serving", "cancelled"}
<1>1. cli[c].target \in Targets /\ env \in Envs
  BY Zenon DEF Inv, Fits, Aimed, Machine
<1>2. cli[c].target.port \in Ports
  BY <1>1, TargetPort, Zenon
<1>3. IsLocalAddr(cli[c].target) /\ Listener(c) = owner[cli[c].target.port]
  BY Zenon DEF Listener
<1> QED
  BY <1>2, <1>3 DEF Inv, Machine, Listens

\* A session starts, or rejects its arguments.
LEMMA StartStep ==
  ASSUME Inv, NEW c \in Clis, Start(c)
  PROVE  Inv'
<1>1. CASE OsExit(c)
  BY <1>1, OsExitStep, Zenon
<1>2. ASSUME NEW a \in Args, NEW oneShot \in BOOLEAN, NEW t \in ResolveTarget(a),
             cli' = [cli EXCEPT ![c] =
                       [Off EXCEPT !.pc = "dial", !.target = t, !.oneShot = oneShot,
                                   !.invited = a.kind = "memx-url" /\ sv[Main] = "serving" /\ try = 0]],
             UNCHANGED <<env, owner, sv, try>>
      PROVE  Inv'
  <2> DEFINE invited == a.kind = "memx-url" /\ sv[Main] = "serving" /\ try = 0
  <2>1. cli' = [cli EXCEPT ![c] =
                  [Off EXCEPT !.pc = "dial", !.target = t, !.oneShot = oneShot, !.invited = invited]]
    BY <1>2, Zenon
  <2>2. t \in Targets /\ Still /\ cli[c].pc = "off"
    BY <1>2, Zenon DEF Targets, Still, Start
  <2> HIDE DEF invited
  <2> QED
    BY <2>1, <2>2, StartedStep, Zenon
<1> QED
  BY <1>1, <1>2, Zenon DEF Start

\* The first dial reaches a listener, or leads to the embedded server, or fails.
LEMMA DialStep ==
  ASSUME Inv, NEW c \in Clis, Dial(c) \/ DialTLS(c)
  PROVE  Inv'
<1>1. cli[c].pc = "dial"
  BY Zenon DEF Dial, DialTLS
<1>2. CASE OsExit(c)
  BY <1>2, OsExitStep, Zenon
<1>3. CASE Listener(c) # None /\ ConnectTo(c, Listener(c))
  BY <1>1, <1>3, ListenerServes, ConnectStep, Zenon
<1>4. CASE IsLocalAddr(cli[c].target) /\ Goto(c, "spawn")
  BY <1>1, <1>4, GotoStep, Zenon
<1> QED
  BY <1>2, <1>3, <1>4, Zenon DEF Dial, DialTLS

\* StartEmbedded listens, or finds the port taken.
LEMMA SpawnStep ==
  ASSUME Inv, NEW c \in Clis, Spawn(c)
  PROVE  Inv'
<1>1. CASE OsExit(c)
  BY <1>1, OsExitStep, Zenon
<1>2. CASE /\ Listener(c) = None
           /\ owner' = [owner EXCEPT ![cli[c].target.port] = c]
           /\ sv' = [sv EXCEPT ![c] = "serving"]
           /\ cli' = [cli EXCEPT ![c].pc = "redial"]
           /\ UNCHANGED <<env, try>>
  <2>1. Fits(c) /\ cli[c].pc = "spawn" /\ DOMAIN cli = Clis /\ env \in Envs
    BY Zenon DEF Inv, Machine, Spawn
  <2>2. c \in Servers /\ sv[c] = "off" /\ sv \in [Servers -> States] /\ Clis \subseteq Servers
    BY <2>1, Zenon DEF Inv, Machine, Servers, Fits, Embedded
  <2>3. cli[c].target \in Targets /\ IsLocalAddr(cli[c].target)
    BY <2>1, Zenon DEF Fits, Aimed
  <2>4. cli[c].target.port \in Ports
    BY <2>1, <2>3, TargetPort, Zenon
  <2>5. owner[cli[c].target.port] = None
    BY <1>2, <2>3, Zenon DEF Listener
  <2>6. Machine'
    BY <1>2, <2>2, <2>4, <2>5, ServerListens, Zenon DEF Inv
  <2>7. Only(c) /\ IsWith(cli'[c], cli[c], "redial", cli[c].conn, cli[c].link, cli[c].authed)
    BY <1>2, <2>1, Updates, Zenon DEF Fits
  <2>8. Targets' = Targets
    BY <1>2, TargetsKept, Zenon
  <2>9. Fits(c)'
    <3>1. Embedded(c)' /\ Aimed(c)' /\ Shaped(cli[c])'
      BY <1>2, <2>2, <2>7, Zenon DEF Embedded, Aimed, IsWith, Is, PCs
    <3>2. Linked(c)'
      BY <1>2, <2>1, <2>2, <2>7, Zenon DEF Fits, Linked, IsWith, Is
    <3> QED
      BY <3>1, <3>2, Zenon DEF Fits
  <2>10. ASSUME NEW d \in Clis, d # c PROVE Fits(d)'
    <3>1. Fits(d) /\ cli'[d] = cli[d]
      BY <2>7, <2>10, Zenon DEF Inv, Only
    <3>2. Embedded(d)'
      BY <1>2, <2>2, <2>10, <3>1, Zenon DEF Fits, Embedded
    <3>3. Linked(d)'
      BY <1>2, <2>2, <3>1, Zenon DEF Fits, Linked
    <3>4. Aimed(d)' /\ Shaped(cli[d])'
      BY <2>8, <3>1, Zenon DEF Fits, Aimed, IsLocalAddr
    <3> QED
      BY <3>2, <3>3, <3>4, Zenon DEF Fits
  <2> QED
    BY <2>6, <2>7, <2>9, <2>10, Zenon DEF Inv, Only
<1> QED
  BY <1>1, <1>2, Zenon DEF Spawn

\* The second dial, AUTH, SELECT, the prompt and the commands.
LEMMA CommandStep ==
  ASSUME Inv, NEW c \in Clis, Redial(c) \/ Auth(c) \/ Select(c) \/ Type(c) \/ Do(c)
  PROVE  Inv'
<1>1. CASE Redial(c)
  <2>1. c \in Servers /\ sv[c] = "serving" /\ cli[c].pc = "redial"
    BY <1>1, Zenon DEF Redial, Inv, Fits, Embedded, Servers
  <2>2. CASE ConnectTo(c, c)
    BY <2>1, <2>2, ConnectStep, Zenon
  <2>3. CASE Goto(c, "closing")
    BY <2>1, <2>3, GotoStep, Zenon
  <2> QED
    BY <1>1, <2>2, <2>3, Zenon DEF Redial
<1>2. CASE Auth(c)
  <2>1. CASE Goto(c, "select")
    BY <1>2, <2>1, GotoStep, Zenon DEF Auth
  <2>2. CASE Still /\ cli' = [cli EXCEPT ![c].pc = "select", ![c].authed = TRUE]
    BY <1>2, <2>2, AuthStep, Zenon DEF Auth
  <2>3. CASE OsExit(c)
    BY <2>3, OsExitStep, Zenon
  <2> QED
    BY <1>2, <2>1, <2>2, <2>3, Zenon DEF Auth, Still
<1>3. CASE Select(c)
  <2>1. CASE Goto(c, IF cli[c].oneShot THEN "do" ELSE "prompt")
    BY <1>3, <2>1, GotoStep, Zenon DEF Select
  <2>2. CASE OsExit(c)
    BY <2>2, OsExitStep, Zenon
  <2> QED
    BY <1>3, <2>1, <2>2, Zenon DEF Select
<1>4. CASE Type(c)
  BY <1>4, GotoStep, Zenon DEF Type
<1>5. CASE Do(c)
  <2>1. ASSUME Replies(c), NEW link \in {"open", "closed"}, Still,
               cli' = [cli EXCEPT ![c].link = link,
                                  ![c].pc = IF cli[c].oneShot THEN "closing" ELSE "prompt"]
        PROVE  Inv'
    <3> DEFINE pc == IF cli[c].oneShot THEN "closing" ELSE "prompt"
    <3>1. cli' = [cli EXCEPT ![c].link = link, ![c].pc = pc] /\ pc \in {"closing", "prompt"}
      BY <2>1, Zenon
    <3>2. cli[c].pc = "do" /\ cli[c].link = "open"
      BY <1>5, <2>1, Zenon DEF Do, Replies
    <3> HIDE DEF pc
    <3> QED
      BY <2>1, <3>1, <3>2, ReplyStep, Zenon
  <2>2. CASE Goto(c, "closing")
    BY <1>5, <2>2, GotoStep, Zenon DEF Do
  <2>3. CASE OsExit(c)
    BY <2>3, OsExitStep, Zenon
  <2> QED
    BY <1>5, <2>1, <2>2, <2>3, Zenon DEF Do, Still
<1> QED
  BY <1>1, <1>2, <1>3, <1>4, <1>5, Zenon

-----------------------------------------------------------------------------
(***************************************************************************)
(* The invariant, and what follows from it.                                *)
(***************************************************************************)
LEMMA InitInv == Init => Inv
<1> SUFFICES ASSUME Init PROVE Inv
  OBVIOUS
<1>1. None \notin Servers /\ Other \notin Servers
  BY SessionAssumption, Zenon DEF Servers
<1>2. Machine
  <2>1. owner \in [Ports -> {Other, None}] /\ sv \in [Servers -> {"off"}]
    BY Zenon DEF Init
  <2>2. ASSUME NEW o \in Servers PROVE Listens(o)
    BY <1>1, <2>1, Zenon DEF Listens
  <2> QED
    BY <2>1, <2>2, SessionAssumption DEF Init, Machine, States
<1>3. ASSUME NEW c \in Clis PROVE Fits(c)
  <2>1. cli[c] = Off /\ sv[c] = "off"
    BY Zenon DEF Init, Servers
  <2> QED
    BY <1>1, <2>1 DEF Fits, Shaped, Embedded, Linked, Aimed, Off, PCs, Links
<1> QED
  BY <1>2, <1>3, Zenon DEF Inv, Init

\* Every step keeps the invariant.
LEMMA NextInv == Inv /\ [Next]_vars => Inv'
<1> SUFFICES ASSUME Inv, [Next]_vars PROVE Inv'
  OBVIOUS
<1>1. CASE UNCHANGED vars
  <2>1. Targets' = Targets /\ Still /\ cli' = cli
    BY <1>1, TargetsKept, Zenon DEF vars, Still
  <2>2. Machine'
    BY <2>1, Zenon DEF Inv, Machine, Listens, Still
  <2>3. \A c \in Clis : Fits(c)'
    BY <2>1, Zenon DEF Inv, Fits, Embedded, Linked, Aimed, IsLocalAddr, Still
  <2> QED
    BY <2>1, <2>2, <2>3, Zenon DEF Inv
<1>2. CASE Boot \/ TryListen \/ Signal
  BY <1>2, BootStep, TryListenStep, SignalStep, Zenon
<1>3. CASE OtherCloses
  BY <1>3, LinkSteps, Zenon
<1>4. ASSUME NEW o \in Servers, Shutdown(o) PROVE Inv'
  BY <1>4, CloseListenerStep, LinkSteps, ReturnStep, Zenon DEF Shutdown
<1>5. ASSUME NEW c \in Clis, Serve(c) \/ IdleTimeout(c) PROVE Inv'
  BY <1>5, LinkSteps, Zenon
<1>6. ASSUME NEW c \in Clis, Start(c) \/ Type(c) \/ Steps(c) PROVE Inv'
  BY <1>6, StartStep, DialStep, SpawnStep, CommandStep, CancelStep, ExitStep, Zenon DEF Steps
<1> QED
  BY <1>1, <1>2, <1>3, <1>4, <1>5, <1>6, Zenon DEF Next

\* The invariant holds throughout.
LEMMA Invariant == Spec => []Inv
  BY InitInv, NextInv, PTL DEF Spec

\* The types of the machine and of the sessions; a server owns a port exactly while its
\* listener is open, and a session in the middle of something has a connection.
THEOREM SessionTypes == Spec => []TypeOK
<1>1. Inv => TypeOK
  BY Zenon DEF Inv, Machine, Listens, Fits, Embedded, Linked, TypeOK, States, PCs, Links
<1> QED
  BY <1>1, Invariant, PTL

\* An embedded server is session-scoped (Embedded.Close cancels and waits for Serve): once
\* its session has returned from main it serves nobody and its port is free.
THEOREM EmbeddedScoped == Spec => []SessionScoped
<1>1. Inv => SessionScoped
  <2> SUFFICES ASSUME Inv, NEW c \in Clis, cli[c].pc = "exited"
               PROVE  At(c, "open") = {} /\ \A p \in Ports : owner[p] # c
    BY Zenon DEF SessionScoped
  <2>1. c \in Servers /\ sv[c] \in {"off", "returned"}
    BY Zenon DEF Inv, Fits, Embedded, Servers
  <2>2. \A p \in Ports : owner[p] # c
    BY <2>1, Zenon DEF Inv, Machine, Listens
  <2>3. ASSUME NEW d \in Clis PROVE ~(cli[d].conn = c /\ cli[d].link = "open")
    BY <2>1, Zenon DEF Inv, Fits, Linked
  <2> QED
    BY <2>2, <2>3, Zenon DEF At
<1> QED
  BY <1>1, Invariant, PTL

-----------------------------------------------------------------------------
(***************************************************************************)
(* mem-x finds a port.                                                     *)
(***************************************************************************)

\* The ports at which sessions may start embedded servers.
CliPorts == {t.port : t \in {u \in Targets : IsLocalAddr(u)}}

\* What a step other than TryListen does to mem-x and to the ports.
Frame ==
  /\ env' = env /\ try' = try
  /\ \/ sv'[Main] = sv[Main]
     \/ sv[Main] = "off" /\ sv'[Main] = "binding"
     \/ sv[Main] \in {"serving", "cancelled", "draining"} /\ sv'[Main] \in {"cancelled", "draining", "returned"}
  /\ \A p \in Ports :
       /\ owner'[p] \in {owner[p], None} \/ p \in CliPorts
       /\ owner[p] = Main /\ sv'[Main] = "serving" => owner'[p] = Main

\* A step that leaves the machine alone is framed.
LEMMA StillFrame ==
  ASSUME Still
  PROVE  Frame
  BY Zenon DEF Still, Frame

\* os.Exit of a session frees its own ports only.
LEMMA OsExitFrame ==
  ASSUME Inv, NEW c \in Clis, OsExit(c)
  PROVE  Frame
<1>1. sv \in [Servers -> States] /\ c # Main /\ Main \in Servers
  BY MainServes, Zenon DEF Inv, Machine
<1>2. sv'[Main] = sv[Main]
  BY <1>1, Zenon DEF OsExit
<1>3. \A p \in Ports : owner'[p] = IF owner[p] = c THEN None ELSE owner[p]
  BY Zenon DEF OsExit, Unlisten
<1> QED
  BY <1>1, <1>2, <1>3, Zenon DEF Frame, OsExit

\* So does the shutdown of a server; mem-x goes through its states in their order.
LEMMA ServerFrame ==
  ASSUME Inv, NEW o \in Servers, Shutdown(o) \/ Boot \/ Signal
  PROVE  Frame
<1>1. sv \in [Servers -> States] /\ Main \in Servers
  BY MainServes, Zenon DEF Inv, Machine
<1>2. CASE Boot \/ Signal
  BY <1>1, <1>2, Zenon DEF Boot, Signal, Frame
<1>3. CASE CloseListener(o)
  <2>1. \A p \in Ports : owner'[p] = IF owner[p] = o THEN None ELSE owner[p]
    BY <1>3, Zenon DEF CloseListener, Unlisten
  <2>2. sv' = [sv EXCEPT ![o] = "draining"] /\ sv[o] = "cancelled"
    BY <1>3, Zenon DEF CloseListener
  <2> QED
    BY <1>1, <1>3, <2>1, <2>2, Zenon DEF Frame, CloseListener
<1>4. CASE Disconnect(o)
  BY <1>4, StillFrame, Zenon DEF Disconnect, Still
<1>5. CASE Return(o)
  BY <1>1, <1>5, Zenon DEF Return, Frame
<1> QED
  BY <1>2, <1>3, <1>4, <1>5, Zenon DEF Shutdown

\* An embedded server takes a port of a local target.
LEMMA SpawnFrame ==
  ASSUME Inv, NEW c \in Clis, Spawn(c)
  PROVE  Frame
<1>1. CASE OsExit(c)
  BY <1>1, OsExitFrame, Zenon
<1>2. CASE /\ Listener(c) = None
           /\ owner' = [owner EXCEPT ![cli[c].target.port] = c]
           /\ sv' = [sv EXCEPT ![c] = "serving"]
           /\ UNCHANGED <<env, try>>
  <2>1. cli[c].target \in Targets /\ IsLocalAddr(cli[c].target)
    BY Zenon DEF Inv, Fits, Aimed, Spawn
  <2>2. owner[cli[c].target.port] = None /\ cli[c].target.port \in CliPorts
    BY <1>2, <2>1, Zenon DEF Listener, CliPorts
  <2>3. sv'[Main] = sv[Main] /\ Main # None
    BY <1>2, MainServes, Zenon DEF Inv, Machine
  <2>4. owner \in [Ports -> Servers \cup {Other, None}]
    BY Zenon DEF Inv, Machine
  <2>5. \A p \in Ports : owner'[p] = IF p = cli[c].target.port THEN c ELSE owner[p]
    BY <1>2, <2>4, Zenon
  <2> QED
    BY <1>2, <2>2, <2>3, <2>5, Zenon DEF Frame
<1> QED
  BY <1>1, <1>2, Zenon DEF Spawn

\* Every step but TryListen is framed.
LEMMA Frames ==
  ASSUME Inv, [Next]_vars
  PROVE  TryListen \/ Frame
<1>1. CASE UNCHANGED vars
  BY <1>1, StillFrame, Zenon DEF vars, Still
<1>2. CASE Boot \/ Signal
  BY <1>2, MainServes, ServerFrame, Zenon
<1>3. ASSUME NEW o \in Servers, Shutdown(o) PROVE Frame
  BY <1>3, ServerFrame, Zenon
<1>4. CASE OtherCloses
  BY <1>4, StillFrame, Zenon DEF OtherCloses, Still
<1>5. ASSUME NEW c \in Clis PROVE Serve(c) \/ IdleTimeout(c) \/ Start(c) \/ Type(c) \/ Steps(c) => Frame
  <2>1. OsExit(c) => Frame
    BY OsExitFrame, Zenon
  <2>2. Serve(c) \/ IdleTimeout(c) => Still
    BY Zenon DEF Serve, IdleTimeout, Still
  <2>3. Start(c) => Still \/ OsExit(c)
    BY Zenon DEF Start, Still
  <2>4. Dial(c) \/ DialTLS(c) => Still \/ OsExit(c)
    BY Zenon DEF Dial, DialTLS, ConnectTo, Goto, Still
  <2>5. Redial(c) \/ Type(c) \/ Select(c) \/ Exit(c) => Still \/ OsExit(c)
    BY Zenon DEF Redial, Type, Select, Exit, ConnectTo, Goto, Still
  <2>6. Auth(c) \/ Do(c) => Still \/ OsExit(c)
    BY Zenon DEF Auth, Do, Goto, Still
  <2>7. Spawn(c) => Frame
    BY SpawnFrame, Zenon
  <2>8. Cancel(c) => Frame
    BY MainServes, Zenon DEF Cancel, Frame, Inv, Machine
  <2> QED
    BY <2>1, <2>2, <2>3, <2>4, <2>5, <2>6, <2>7, <2>8, StillFrame, Zenon DEF Steps
<1> QED
  BY <1>1, <1>2, <1>3, <1>4, <1>5, Zenon DEF Next

\* The i-th port mem-x tries is nobody else's: Other does not listen there, and no session
\* was told to use it.
Spare(i) == EnvAddr(env) + i \notin Taken \cup CliPorts
HasSpare == \E i \in 0 .. MaxRetries : Spare(i)

\* mem-x has not passed it by.
Ahead ==
  \A i \in 0 .. MaxRetries : Spare(i) =>
    /\ owner[EnvAddr(env) + i] \in {None, Main}
    /\ sv[Main] \in {"off", "binding"} => try <= i
    /\ sv[Main] # "panicked"

\* At first no port has been tried.
LEMMA InitAhead == Init => Ahead
<1> SUFFICES ASSUME Init, NEW i \in 0 .. MaxRetries, Spare(i)
             PROVE  /\ owner[EnvAddr(env) + i] \in {None, Main}
                    /\ sv[Main] \in {"off", "binding"} => try <= i
                    /\ sv[Main] # "panicked"
  BY Zenon DEF Ahead
<1>1. EnvAddr(env) + i \in Ports
  BY PortAssumption, Zenon DEF Init
<1> QED
  BY <1>1, MainServes, SessionAssumption DEF Init, Spare

\* Every step keeps Ahead: a port that is tried and left behind was taken.
LEMMA NextAhead == Inv /\ Ahead /\ [Next]_vars => Ahead'
<1> SUFFICES ASSUME Inv, Ahead, [Next]_vars, NEW i \in 0 .. MaxRetries, Spare(i)'
             PROVE  /\ owner'[EnvAddr(env') + i] \in {None, Main}
                    /\ sv'[Main] \in {"off", "binding"} => try' <= i
                    /\ sv'[Main] # "panicked"
  BY Zenon DEF Ahead
<1>1. env' = env
  BY Frames, Zenon DEF Frame, TryListen
<1>2. Targets' = Targets
  BY <1>1, TargetsKept, Zenon
<1>3. Spare(i) /\ CliPorts' = CliPorts
  BY <1>1, <1>2, Zenon DEF Spare, CliPorts, IsLocalAddr
<1> DEFINE p == EnvAddr(env) + i
<1>4. p \in Ports /\ p \notin CliPorts /\ EnvAddr(env') + i = p
  BY <1>1, <1>3, PortAssumption, Zenon DEF Inv, Machine, Spare
<1>5. /\ owner[p] \in {None, Main}
      /\ sv[Main] \in {"off", "binding"} => try <= i
      /\ sv[Main] # "panicked"
  BY <1>3, Zenon DEF Ahead
<1>6. try \in 0 .. MaxRetries /\ MaxRetries \in Nat /\ owner \in [Ports -> Servers \cup {Other, None}]
  BY SessionAssumption, Zenon DEF Inv, Machine
<1>7. CASE Frame
  BY <1>4, <1>5, <1>7, Zenon DEF Frame
<1>8. CASE TryListen
  <2>1. sv[Main] = "binding" /\ sv \in [Servers -> States] /\ Main \in Servers
    BY <1>8, MainServes, Zenon DEF TryListen, Inv, Machine
  <2>2. owner[p] = None
    BY <1>4, <1>5, <2>1, MainServes, Zenon DEF Inv, Machine, Listens
  <2>3. i = try => NextPort = p
    BY Zenon DEF NextPort
  <2>4. CASE owner[NextPort] = None /\ owner' = [owner EXCEPT ![NextPort] = Main]
             /\ sv' = [sv EXCEPT ![Main] = "serving"]
    BY <1>4, <1>5, <1>6, <2>1, <2>4, Zenon
  <2>5. CASE owner[NextPort] # None /\ try' = try + 1 /\ UNCHANGED <<owner, sv>>
    BY <1>4, <1>5, <1>6, <2>1, <2>2, <2>3, <2>5
  <2>6. CASE owner[NextPort] # None /\ try = MaxRetries
    BY <1>5, <1>6, <2>1, <2>2, <2>3, <2>6
  <2> QED
    BY <1>8, <2>4, <2>5, <2>6, Zenon DEF TryListen
<1> QED
  BY <1>7, <1>8, Frames, Zenon

\* A busy default never blocks startup (listenWithRetry): when one of the MaxRetries + 1
\* ports is left alone by the other processes and by the sessions, mem-x gets a port in
\* every interleaving with them.
THEOREM StartupFindsPort == Spec => [](HasSpare => StartupSurvives)
<1>1. Ahead => (HasSpare => StartupSurvives)
  BY Zenon DEF Ahead, HasSpare, StartupSurvives
<1> QED
  BY <1>1, Invariant, InitAhead, NextAhead, PTL DEF Spec

-----------------------------------------------------------------------------
(***************************************************************************)
(* A session started with the output of memx-url meets mem-x.              *)
(***************************************************************************)

\* In an explicit environment the URL leads to where mem-x listens first, with its password
\* and its kind of connection.
LEMMA ExplicitTarget ==
  ASSUME env \in Envs, Explicit
  PROVE  LET t == TargetOf(MemxURL)
         IN  /\ IsLocalAddr(t) /\ t.port = EnvAddr(env) /\ t.pass = env.pass
             /\ t.db = 0 /\ t.tls = env.tls
<1> DEFINE u == NewURL(env)
           text == ConnString(u)
<1>1. /\ u.host = "local" /\ u.port = EnvAddr(env) /\ u.pass = env.pass /\ u.db = 0
      /\ u.tls = env.tls
  BY PortAssumption, Zenon DEF Explicit, NewURL, DefaultPort, EnvAddr
<1>2. u.port \in Nat \ {0}
  BY PortAssumption, SessionAssumption, Zenon DEF NewURL, DefaultPort
<1> HIDE DEF u
<1>3. /\ text.host = u.host /\ text.port = u.port /\ text.tls = u.tls
      /\ u.db = 0 => text.path = <<>>
      /\ text.userInfo = IF u.user = "" /\ u.pass = "" THEN <<>>
                         ELSE IF u.pass = "" THEN <<u.user>> ELSE <<u.user, u.pass>>
  BY Zenon DEF ConnString
<1> HIDE DEF text
<1>4. TargetOf(text).pass = u.pass
  <2>1. CASE u.pass = ""
    <3>1. text.userInfo = <<>> \/ text.userInfo = <<u.user>>
      BY <1>3, <2>1, Zenon
    <3>2. Len(text.userInfo) # 2
      <4>1. CASE text.userInfo = <<>>
        BY <4>1
      <4>2. CASE text.userInfo = <<u.user>>
        BY <4>2
      <4> QED
        BY <3>1, <4>1, <4>2, Zenon
    <3> QED
      BY <2>1, <3>2, Zenon DEF TargetOf
  <2>2. CASE u.pass # ""
    <3>1. text.userInfo = <<u.user, u.pass>>
      BY <1>3, <2>2, Zenon
    <3>2. Len(text.userInfo) = 2 /\ text.userInfo[2] = u.pass
      BY <3>1
    <3> QED
      BY <3>2, Zenon DEF TargetOf
  <2> QED
    BY <2>1, <2>2, Zenon
<1>5. /\ TargetOf(text).host = text.host /\ TargetOf(text).tls = text.tls
      /\ text.port # 0 => TargetOf(text).port = text.port
      /\ text.path = <<>> => TargetOf(text).db = 0
  BY Zenon DEF TargetOf
<1>6. MemxURL = text
  BY Zenon DEF MemxURL, u, text
<1> QED
  BY <1>1, <1>2, <1>3, <1>4, <1>5, <1>6, Zenon DEF IsLocalAddr

\* mem-x listens at the port it tried last.
Holds == sv[Main] = "serving" => owner[NextPort] = Main

\* At first mem-x does not serve.
LEMMA InitHolds == Init => Holds
  BY MainServes, Zenon DEF Init, Holds

\* Every step keeps Holds.
LEMMA NextHolds == Inv /\ Holds /\ [Next]_vars => Holds'
<1> SUFFICES ASSUME Inv, Holds, [Next]_vars, sv'[Main] = "serving"
             PROVE  owner'[NextPort'] = Main
  BY Zenon DEF Holds
<1>1. NextPort \in Ports
  BY PortsTried, Zenon
<1>2. CASE Frame
  <2>1. NextPort' = NextPort /\ sv[Main] = "serving"
    BY <1>2, Zenon DEF Frame, NextPort
  <2> QED
    BY <1>1, <1>2, <2>1, Zenon DEF Frame, Holds
<1>3. CASE TryListen
  <2>1. CASE owner' = [owner EXCEPT ![NextPort] = Main] /\ UNCHANGED <<env, try>>
    <3>1. NextPort' = NextPort
      BY <2>1, Zenon DEF NextPort
    <3> QED
      BY <1>1, <2>1, <3>1, Zenon DEF Inv, Machine
  <2>2. CASE UNCHANGED sv
    BY <1>3, <2>2, Zenon DEF TryListen
  <2>3. CASE sv' = [sv EXCEPT ![Main] = "panicked"]
    BY <2>3, MainServes, Zenon DEF Inv, Machine
  <2> QED
    BY <1>3, <2>1, <2>2, <2>3, Zenon DEF TryListen
<1> QED
  BY <1>2, <1>3, Frames, Zenon

\* A session that took its address from memx-url while mem-x served, and that mem-x still
\* serves for.
Met(c) ==
  /\ cli[c].pc \notin {"spawn", "redial", "failed"}
  /\ cli[c].pc \in {"auth", "select", "prompt", "do"} => cli[c].conn = Main
  /\ cli[c].pc \in {"select", "prompt", "do"} => (env.pass # "" => cli[c].authed)
  /\ cli[c].pc \in {"auth", "select"} => cli[c].link \in {"queued", "open"}
  /\ cli[c].pc = "do" /\ cli[c].oneShot => cli[c].link \in {"queued", "open"}
  /\ cli[c].pc = "prompt" => ~cli[c].oneShot

Invited(c) ==
  cli[c].invited =>
    /\ sv[Main] \notin {"off", "binding"} /\ try = 0 /\ cli[c].pc # "off"
    /\ cli[c].pc \notin {"exited", "failed"} => cli[c].target = TargetOf(MemxURL)
    /\ Explicit /\ sv[Main] = "serving" => Met(c)

\* A step that leaves mem-x alone, and gives or takes an invited session's connection only
\* as mem-x would.
LEMMA InvitedKept ==
  ASSUME Frame, NEW d \in Clis, Invited(d), NEW link,
         IsWith(cli'[d], cli[d], cli[d].pc, cli[d].conn, link, cli[d].authed),
         \/ link = cli[d].link \/ link = "open" \/ cli[d].conn # Main \/ cli[d].pc = "prompt"
         \/ sv'[Main] # "serving"
  PROVE  Invited(d)'
<1>1. Explicit' = Explicit /\ MemxURL' = MemxURL
  BY TargetsKept, Zenon DEF Frame, Explicit
<1>2. CASE ~cli[d].invited
  BY <1>2, Zenon DEF Invited, IsWith, Is
<1>3. CASE cli[d].invited
  <2>1. sv'[Main] \notin {"off", "binding"} /\ try' = 0 /\ (sv'[Main] = "serving" => sv[Main] = "serving")
    BY <1>3, Zenon DEF Frame, Invited
  <2>2. Explicit /\ sv'[Main] = "serving" => Met(d)'
    BY <1>3, <2>1, Zenon DEF Invited, Met, IsWith, Is, Frame
  <2> QED
    BY <1>1, <1>3, <2>1, <2>2, Zenon DEF Invited, IsWith, Is
<1> QED
  BY <1>2, <1>3, Zenon

\* A session that does not move stays on its way.
LEMMA InvitedUntouched ==
  ASSUME Frame, NEW d \in Clis, Invited(d), Shaped(cli[d]), cli'[d] = cli[d]
  PROVE  Invited(d)'
<1>1. IsWith(cli'[d], cli[d], cli[d].pc, cli[d].conn, cli[d].link, cli[d].authed)
  BY Zenon DEF IsWith, Is
<1> QED
  BY <1>1, InvitedKept, Zenon

\* os.Exit of a session that need not meet mem-x.
LEMMA InvitedExit ==
  ASSUME Inv, NEW c \in Clis, Invited(c), OsExit(c),
         ~(cli[c].invited /\ Explicit /\ sv[Main] = "serving")
  PROVE  Invited(c)'
<1>1. Frame
  BY OsExitFrame, Zenon
<1>2. cli'[c] = Ended(c, "failed")
  BY Zenon DEF OsExit
<1>3. Is(cli'[c], "failed", NoTarget, FALSE, None, "none", FALSE, cli[c].invited)
  BY <1>2, EndedFields, Zenon
<1>4. Explicit' = Explicit
  BY <1>1, Zenon DEF Frame, Explicit
<1> QED
  BY <1>1, <1>3, <1>4, Zenon DEF Frame, Invited, Is

\* The session itself goes on.
LEMMA InvitedGoes ==
  ASSUME NEW c \in Clis, Invited(c), Still, cli[c].pc \notin {"off", "exited", "failed"},
         NEW pc, NEW conn, NEW link, NEW authed,
         IsWith(cli'[c], cli[c], pc, conn, link, authed), pc # "off",
         cli[c].invited /\ Explicit /\ sv[Main] = "serving" => Met(c)'
  PROVE  Invited(c)'
<1>1. Explicit' = Explicit /\ MemxURL' = MemxURL /\ sv' = sv /\ try' = try
  BY TargetsKept, Zenon DEF Still, Explicit
<1> QED
  BY <1>1, Zenon DEF Invited, IsWith, Is

\* What an invited session knows while mem-x serves in an explicit environment.
LEMMA InvitedKnows ==
  ASSUME Inv, Holds, NEW c \in Clis, Invited(c), cli[c].invited, Explicit, sv[Main] = "serving"
  PROVE  /\ Met(c)
         /\ cli[c].pc \notin {"exited", "failed"} =>
              /\ Listener(c) = Main /\ SameWire(c, Main)
              /\ cli[c].target.pass = env.pass /\ cli[c].target.db = 0
<1>1. Met(c) /\ try = 0
  BY Zenon DEF Invited
<1>2. ASSUME cli[c].pc \notin {"exited", "failed"}
      PROVE  /\ Listener(c) = Main /\ SameWire(c, Main)
             /\ cli[c].target.pass = env.pass /\ cli[c].target.db = 0
  <2>1. cli[c].target = TargetOf(MemxURL) /\ env \in Envs
    BY <1>2, Zenon DEF Invited, Inv, Machine
  <2>2. /\ IsLocalAddr(cli[c].target) /\ cli[c].target.port = EnvAddr(env)
        /\ cli[c].target.pass = env.pass /\ cli[c].target.db = 0 /\ cli[c].target.tls = env.tls
    BY <2>1, ExplicitTarget, Zenon
  <2>3. NextPort = EnvAddr(env)
    <3>1. EnvAddr(env) \in Nat
      BY PortsTried, SessionAssumption, Zenon
    <3> QED
      BY <1>1, <3>1 DEF NextPort
  <2>4. Listener(c) = Main
    BY <2>2, <2>3, Zenon DEF Listener, Holds
  <2>5. SameWire(c, Main)
    <3>1. env.tls \in BOOLEAN /\ Main # Other
      BY <2>1, PortAssumption, MainServes, Zenon
    <3> QED
      BY <2>2, <3>1, Zenon DEF SameWire
  <2> QED
    BY <2>2, <2>4, <2>5, Zenon
<1> QED
  BY <1>1, <1>2, Zenon

\* The dials.
LEMMA InvitedDials ==
  ASSUME Inv, Holds, NEW c \in Clis, Invited(c), Dial(c) \/ DialTLS(c) \/ Spawn(c) \/ Redial(c)
  PROVE  Invited(c)'
<1> DEFINE Lucky == cli[c].invited /\ Explicit /\ sv[Main] = "serving"
<1>1. Fits(c) /\ DOMAIN cli = Clis /\ cli[c].pc \in {"dial", "spawn", "redial"}
  BY Zenon DEF Inv, Dial, DialTLS, Spawn, Redial
<1>2. Lucky => cli[c].pc = "dial" /\ Listener(c) = Main /\ SameWire(c, Main) /\ Main # None
  BY <1>1, InvitedKnows, MainServes, Zenon DEF Met
<1>3. ASSUME OsExit(c), ~Lucky PROVE Invited(c)'
  BY <1>3, InvitedExit, Zenon
<1>4. ASSUME NEW o, ConnectTo(c, o), Lucky => o = Main PROVE Invited(c)'
  <2>1. Still /\ cli' = [cli EXCEPT ![c].conn = o, ![c].link = "queued", ![c].pc = "auth"]
    BY <1>4, Zenon DEF ConnectTo, Still
  <2>2. IsWith(cli'[c], cli[c], "auth", o, "queued", cli[c].authed)
    BY <1>1, <2>1, Updates, Zenon DEF Fits
  <2>3. Lucky => Met(c)'
    BY <1>4, <2>2, Zenon DEF Met, IsWith, Is
  <2> QED
    BY <1>1, <2>1, <2>2, <2>3, InvitedGoes, Zenon
<1>5. ASSUME NEW pc \in {"spawn", "closing"}, Goto(c, pc), ~Lucky PROVE Invited(c)'
  <2>1. Still /\ cli' = [cli EXCEPT ![c].pc = pc]
    BY <1>5, Zenon DEF Goto, Still
  <2>2. IsWith(cli'[c], cli[c], pc, cli[c].conn, cli[c].link, cli[c].authed)
    BY <1>1, <2>1, Updates, Zenon DEF Fits
  <2> QED
    BY <1>1, <1>5, <2>1, <2>2, InvitedGoes, Zenon
<1>6. ASSUME Spawn(c), sv' = [sv EXCEPT ![c] = "serving"], cli' = [cli EXCEPT ![c].pc = "redial"],
             UNCHANGED <<env, try>>
      PROVE  Invited(c)'
  <2>1. IsWith(cli'[c], cli[c], "redial", cli[c].conn, cli[c].link, cli[c].authed)
    BY <1>1, <1>6, Updates, Zenon DEF Fits
  <2>2. sv'[Main] = sv[Main] /\ ~Lucky /\ Explicit' = Explicit /\ MemxURL' = MemxURL /\ cli[c].pc = "spawn"
    BY <1>2, <1>6, MainServes, TargetsKept, Zenon DEF Inv, Machine, Spawn, Explicit
  <2> QED
    BY <1>6, <2>1, <2>2, Zenon DEF Invited, IsWith, Is
<1> HIDE DEF Lucky
<1>7. CASE Dial(c) \/ DialTLS(c)
  <2>1. CASE Listener(c) # None /\ ConnectTo(c, Listener(c))
    BY <1>2, <1>4, <2>1, Zenon
  <2>2. CASE Listener(c) = None /\ Goto(c, "spawn")
    BY <1>2, <1>5, <2>2, Zenon
  <2>3. CASE /\ OsExit(c)
             /\ Listener(c) = None \/ (SameWire(c, Listener(c)) => sv[Listener(c)] # "serving")
    <3>1. ~Lucky
      BY <1>2, <2>3, Zenon DEF Lucky
    <3> QED
      BY <1>3, <2>3, <3>1, Zenon
  <2> QED
    BY <1>7, <2>1, <2>2, <2>3, Zenon DEF Dial, DialTLS
<1>8. CASE Spawn(c)
  <2>1. ~Lucky
    BY <1>2, <1>8, Zenon DEF Spawn
  <2> QED
    BY <1>3, <1>6, <1>8, <2>1, Zenon DEF Spawn
<1>9. CASE Redial(c)
  <2>1. ~Lucky
    BY <1>2, <1>9, Zenon DEF Redial
  <2> QED
    BY <1>4, <1>5, <1>9, <2>1, Zenon DEF Redial
<1> QED
  BY <1>7, <1>8, <1>9, Zenon

\* AUTH and SELECT.
LEMMA InvitedAuths ==
  ASSUME Inv, Holds, NEW c \in Clis, Invited(c), Auth(c) \/ Select(c)
  PROVE  Invited(c)'
<1> DEFINE Lucky == cli[c].invited /\ Explicit /\ sv[Main] = "serving"
<1>1. Fits(c) /\ DOMAIN cli = Clis /\ cli[c].pc \in {"auth", "select"}
  BY Zenon DEF Inv, Auth, Select
<1>2. Lucky => /\ cli[c].conn = Main /\ cli[c].link \in {"queued", "open"} /\ SameWire(c, Main)
               /\ cli[c].target.pass = env.pass /\ cli[c].target.db = 0 /\ Met(c)
  BY <1>1, InvitedKnows, Zenon DEF Met
<1>3. Lucky => ~Fails(c)
  BY <1>2, Zenon DEF Fails
<1>4. ASSUME OsExit(c), ~Lucky PROVE Invited(c)'
  BY <1>4, InvitedExit, Zenon
<1>5. CASE Auth(c)
  <2>1. CASE cli[c].target.pass = "" /\ Goto(c, "select")
    <3>1. Still /\ cli' = [cli EXCEPT ![c].pc = "select"]
      BY <2>1, Zenon DEF Goto, Still
    <3>2. IsWith(cli'[c], cli[c], "select", cli[c].conn, cli[c].link, cli[c].authed)
      BY <1>1, <3>1, Updates, Zenon DEF Fits
    <3>3. Lucky => Met(c)'
      BY <1>2, <2>1, <3>1, <3>2, Zenon DEF Met, IsWith, Is, Still
    <3> QED
      BY <1>1, <3>1, <3>2, <3>3, InvitedGoes, Zenon
  <2>2. CASE Still /\ cli' = [cli EXCEPT ![c].pc = "select", ![c].authed = TRUE]
    <3>1. IsWith(cli'[c], cli[c], "select", cli[c].conn, cli[c].link, TRUE)
      BY <1>1, <2>2, Updates, Zenon DEF Fits
    <3>2. Lucky => Met(c)'
      BY <1>2, <2>2, <3>1, Zenon DEF Met, IsWith, Is, Still
    <3> QED
      BY <1>1, <2>2, <3>1, <3>2, InvitedGoes, Zenon
  <2>3. CASE /\ OsExit(c) /\ cli[c].target.pass # ""
             /\ \/ Fails(c)
                \/ ~(cli[c].conn = Main /\ env.pass # "" /\ cli[c].target.pass = env.pass)
    <3>1. ~Lucky
      BY <1>2, <1>3, <2>3, Zenon
    <3> QED
      BY <1>4, <2>3, <3>1, Zenon
  <2> QED
    BY <1>5, <2>1, <2>2, <2>3, Zenon DEF Auth, Still
<1>6. CASE Select(c)
  <2>1. ASSUME NEW pc, pc = (IF cli[c].oneShot THEN "do" ELSE "prompt"), Goto(c, pc) PROVE Invited(c)'
    <3>1. Still /\ cli' = [cli EXCEPT ![c].pc = pc]
      BY <2>1, Zenon DEF Goto, Still
    <3>2. IsWith(cli'[c], cli[c], pc, cli[c].conn, cli[c].link, cli[c].authed)
      BY <1>1, <3>1, Updates, Zenon DEF Fits
    <3>3. Lucky => Met(c)'
      <4>1. cli[c].pc = "select"
        BY <1>6, Zenon DEF Select
      <4>2. pc \in {"do", "prompt"} /\ (pc = "prompt" => ~cli[c].oneShot)
        BY <2>1, Zenon
      <4> QED
        BY <1>2, <3>1, <3>2, <4>1, <4>2, Zenon DEF Met, IsWith, Is, Still
    <3> QED
      BY <1>1, <2>1, <3>1, <3>2, <3>3, InvitedGoes, Zenon
  <2>2. CASE cli[c].target.db # 0 /\ OsExit(c)
    BY <1>2, <1>4, <2>2, Zenon
  <2> QED
    BY <1>6, <2>1, <2>2, Zenon DEF Select
<1> QED
  BY <1>5, <1>6, Zenon

\* Commands, and the end.
LEMMA InvitedDoes ==
  ASSUME Inv, Holds, NEW c \in Clis, Invited(c), Type(c) \/ Do(c)
  PROVE  Invited(c)'
<1> DEFINE Lucky == cli[c].invited /\ Explicit /\ sv[Main] = "serving"
<1>1. Fits(c) /\ DOMAIN cli = Clis /\ cli[c].pc \in {"prompt", "do"}
  BY Zenon DEF Inv, Type, Do
<1>2. Lucky => Met(c) /\ SameWire(c, Main)
  BY <1>1, InvitedKnows, Zenon
<1>3. ASSUME NEW pc \in {"do", "closing"}, Goto(c, pc), pc = "do" => cli[c].pc = "prompt" PROVE Invited(c)'
  <2>1. Still /\ cli' = [cli EXCEPT ![c].pc = pc]
    BY <1>3, Zenon DEF Goto, Still
  <2>2. IsWith(cli'[c], cli[c], pc, cli[c].conn, cli[c].link, cli[c].authed)
    BY <1>1, <2>1, Updates, Zenon DEF Fits
  <2>3. Lucky => Met(c)'
    BY <1>1, <1>2, <1>3, <2>1, <2>2, Zenon DEF Met, IsWith, Is, Still
  <2> QED
    BY <1>1, <1>3, <2>1, <2>2, <2>3, InvitedGoes, Zenon
<1>4. CASE Type(c)
  BY <1>3, <1>4, Zenon DEF Type
<1>5. CASE Do(c)
  <2>1. ASSUME NEW link \in {"open", "closed"}, Still,
               cli' = [cli EXCEPT ![c].link = link,
                                  ![c].pc = IF cli[c].oneShot THEN "closing" ELSE "prompt"]
        PROVE  Invited(c)'
    <3> DEFINE pc == IF cli[c].oneShot THEN "closing" ELSE "prompt"
    <3>1. cli' = [cli EXCEPT ![c].link = link, ![c].pc = pc]
      BY <2>1, Zenon
    <3>2. pc \in {"closing", "prompt"} /\ (pc = "prompt" => ~cli[c].oneShot)
      OBVIOUS
    <3> HIDE DEF pc
    <3>3. IsWith(cli'[c], cli[c], pc, cli[c].conn, link, cli[c].authed)
      BY <1>1, <3>1, Updates, Zenon DEF Fits
    <3>4. Lucky => Met(c)'
      BY <1>1, <1>2, <2>1, <3>2, <3>3, Zenon DEF Met, IsWith, Is, Still
    <3>5. pc # "off" /\ cli[c].pc \notin {"off", "exited", "failed"}
      BY <1>1, <3>2, Zenon
    <3> QED
      BY <2>1, <3>3, <3>4, <3>5, InvitedGoes, Zenon
  <2>2. CASE Goto(c, "closing")
    BY <1>3, <2>2, Zenon
  <2>3. CASE Fails(c) /\ cli[c].oneShot /\ OsExit(c)
    <3>1. ~Lucky
      <4>1. cli[c].pc = "do"
        BY <1>5, Zenon DEF Do
      <4> QED
        BY <1>2, <2>3, <4>1, Zenon DEF Met, Fails
    <3> QED
      BY <2>3, <3>1, InvitedExit, Zenon
  <2> QED
    BY <1>5, <2>1, <2>2, <2>3, Zenon DEF Do, Still
<1> QED
  BY <1>4, <1>5, Zenon

\* The first and the last step of an invited session.
LEMMA InvitedStartsEnds ==
  ASSUME Inv, NEW c \in Clis, Invited(c), Start(c) \/ Exit(c)
  PROVE  Invited(c)'
<1>1. CASE Start(c)
  <2>1. cli[c].pc = "off" /\ DOMAIN cli = Clis
    BY <1>1, Zenon DEF Start, Inv
  <2>2. CASE OsExit(c)
    BY <2>1, <2>2, InvitedExit, Zenon DEF Invited
  <2>3. ASSUME NEW a \in Args, NEW oneShot \in BOOLEAN, NEW t \in ResolveTarget(a),
               cli' = [cli EXCEPT ![c] =
                         [Off EXCEPT !.pc = "dial", !.target = t, !.oneShot = oneShot,
                                     !.invited = a.kind = "memx-url" /\ sv[Main] = "serving" /\ try = 0]],
               Still
        PROVE  Invited(c)'
    <3> DEFINE invited == a.kind = "memx-url" /\ sv[Main] = "serving" /\ try = 0
    <3>1. cli'[c] =
            [Off EXCEPT !.pc = "dial", !.target = t, !.oneShot = oneShot, !.invited = invited]
      BY <2>1, <2>3, Assigned, Zenon
    <3>2. invited => t = TargetOf(MemxURL) /\ sv[Main] = "serving" /\ try = 0
      BY <2>3, Zenon DEF ResolveTarget
    <3>3. MemxURL' = MemxURL /\ sv' = sv /\ try' = try
      BY <2>3, TargetsKept, Zenon DEF Still
    <3> HIDE DEF invited
    <3>4. Is(cli'[c], "dial", t, oneShot, None, "none", FALSE, invited)
      <4>1. Is([Off EXCEPT !.pc = "dial", !.target = t, !.oneShot = oneShot, !.invited = invited],
               "dial", t, oneShot, None, "none", FALSE, invited)
        BY StartedFields, Zenon
      <4> QED
        BY <3>1, <4>1, Zenon
    <3> QED
      BY <3>2, <3>3, <3>4, Zenon DEF Invited, Met, Is
  <2> QED
    BY <1>1, <2>2, <2>3, Zenon DEF Start, Still
<1>2. CASE Exit(c)
  <2>1. Still /\ cli'[c] = Ended(c, "exited") /\ cli[c].pc = "closing"
    BY <1>2, Assigned, Zenon DEF Inv, Exit, Still
  <2>2. Is(cli'[c], "exited", NoTarget, FALSE, None, "none", FALSE, cli[c].invited)
    BY <2>1, EndedFields, Zenon
  <2> QED
    BY <2>1, <2>2, Zenon DEF Invited, Met, Is, Still
<1> QED
  BY <1>1, <1>2, Zenon

\* Sessions that a step of c leaves alone.
LEMMA InvitedOthers ==
  ASSUME Inv, Frame, NEW c \in Clis, NEW d \in Clis, Invited(d), Only(c) \/ cli' = cli, d # c \/ cli' = cli
  PROVE  Invited(d)'
<1>1. cli'[d] = cli[d] /\ Shaped(cli[d])
  BY Zenon DEF Only, Inv, Fits
<1> QED
  BY <1>1, InvitedUntouched, Zenon

\* A session changes no other one, unless its process ends.
LEMMA StepOnly ==
  ASSUME Inv, NEW c \in Clis, Start(c) \/ Type(c) \/ Steps(c), ~Cancel(c)
  PROVE  Only(c) \/ OsExit(c)
<1>1. DOMAIN cli = Clis
  BY Zenon DEF Inv
<1>2. /\ \A pc : Goto(c, pc) => Only(c)
      /\ \A o : ConnectTo(c, o) => Only(c)
  BY <1>1, Zenon DEF Goto, ConnectTo, Only
<1>3. Dial(c) \/ DialTLS(c) \/ Redial(c) \/ Type(c) \/ Select(c) => Only(c) \/ OsExit(c)
  BY <1>2, Zenon DEF Dial, DialTLS, Redial, Type, Select
<1>4. Start(c) \/ Exit(c) => Only(c) \/ OsExit(c)
  BY <1>1, Zenon DEF Start, Exit, Only
<1>5. Spawn(c) => Only(c) \/ OsExit(c)
  BY <1>1, Zenon DEF Spawn, Only
<1>6. Auth(c) => Only(c) \/ OsExit(c)
  BY <1>1, <1>2, Zenon DEF Auth, Only
<1>7. Do(c) => Only(c) \/ OsExit(c)
  BY <1>1, <1>2, Zenon DEF Do, Only
<1> QED
  BY <1>3, <1>4, <1>5, <1>6, <1>7, Zenon DEF Steps

\* The steps of a session c.
LEMMA InvitedSteps ==
  ASSUME Inv, Holds, NEW c \in Clis, \A d \in Clis : Invited(d), Frame,
         Start(c) \/ Type(c) \/ Steps(c)
  PROVE  \A d \in Clis : Invited(d)'
<1> TAKE d \in Clis
<1>1. Invited(c) /\ Invited(d) /\ Fits(c) /\ DOMAIN cli = Clis
  BY Zenon DEF Inv
<1>2. CASE Cancel(c)
  BY <1>1, <1>2, InvitedOthers, Zenon DEF Cancel
<1>3. CASE ~Cancel(c) /\ d = c
  BY <1>1, <1>3, InvitedDials, InvitedAuths, InvitedDoes, InvitedStartsEnds, Zenon DEF Steps
<1>4. CASE ~Cancel(c) /\ d # c
  <2>1. CASE OsExit(c)
    <3>1. IsWith(cli'[d], cli[d], cli[d].pc, cli[d].conn,
                 IF cli[d].conn = c THEN "closed" ELSE cli[d].link, cli[d].authed)
      BY <1>4, <2>1, OsExitOthers, Zenon
    <3>2. c # Main
      BY MainServes, Zenon
    <3> DEFINE link == IF cli[d].conn = c THEN "closed" ELSE cli[d].link
    <3>3. link = cli[d].link \/ cli[d].conn # Main
      BY <3>2, Zenon
    <3> QED
      BY <1>1, <3>1, <3>3, InvitedKept, Zenon
  <2>2. CASE Only(c)
    BY <1>1, <1>4, <2>2, InvitedOthers, Zenon
  <2> QED
    BY <1>4, <2>1, <2>2, StepOnly, Zenon
<1> QED
  BY <1>2, <1>3, <1>4, Zenon

\* The steps of servers and of Other.
LEMMA InvitedLinks ==
  ASSUME Inv, \A d \in Clis : Invited(d), Frame, NEW d \in Clis,
         \/ Boot \/ Signal \/ OtherCloses
         \/ \E o \in Servers : Shutdown(o)
         \/ \E c \in Clis : Serve(c) \/ IdleTimeout(c)
  PROVE  Invited(d)'
<1>1. Invited(d) /\ \A c \in Clis : Shaped(cli[c])
  BY Zenon DEF Inv, Fits
<1>2. CASE cli' = cli
  BY <1>1, <1>2, InvitedUntouched, Zenon
<1>3. ASSUME NEW c \in Clis, NEW link, cli' = [cli EXCEPT ![c].link = link],
             link = "open" \/ cli[c].conn # Main \/ cli[c].pc = "prompt" \/ sv'[Main] # "serving"
      PROVE  Invited(d)'
  <2>1. Only(c) /\ IsWith(cli'[c], cli[c], cli[c].pc, cli[c].conn, link, cli[c].authed)
    BY <1>1, <1>3, Updates, Zenon DEF Inv
  <2>2. CASE d = c
    BY <1>1, <1>3, <2>1, <2>2, InvitedKept, Zenon
  <2>3. CASE d # c
    BY <1>1, <2>1, <2>3, InvitedUntouched, Zenon DEF Only
  <2> QED
    BY <2>2, <2>3, Zenon
<1>4. CASE Boot \/ Signal
  BY <1>2, <1>4, Zenon DEF Boot, Signal
<1>5. CASE OtherCloses
  <2>1. PICK c \in Clis : cli[c].conn = Other /\ cli' = [cli EXCEPT ![c].link = "closed"]
    BY <1>5, Zenon DEF OtherCloses, At
  <2> QED
    BY <1>3, <2>1, MainServes, Zenon
<1>6. ASSUME NEW o \in Servers, Shutdown(o) PROVE Invited(d)'
  <2>1. CASE CloseListener(o)
    <3>1. sv' = [sv EXCEPT ![o] = "draining"] /\ sv \in [Servers -> States] /\ Main \in Servers
      BY <2>1, MainServes, Zenon DEF CloseListener, Inv, Machine
    <3>2. CASE d \in At(o, "queued")
      <4>1. cli'[d] = [cli[d] EXCEPT !.link = "closed"] /\ cli[d].conn = o
        BY <2>1, <3>2, Zenon DEF CloseListener, At
      <4>2. IsWith(cli'[d], cli[d], cli[d].pc, cli[d].conn, "closed", cli[d].authed)
        BY <1>1, <4>1, Zenon DEF IsWith, Is, Shaped
      <4>3. cli[d].conn # Main \/ sv'[Main] # "serving"
        BY <3>1, <4>1, Zenon
      <4> QED
        BY <1>1, <4>2, <4>3, InvitedKept, Zenon
    <3>3. CASE d \notin At(o, "queued")
      <4>1. cli'[d] = cli[d]
        BY <2>1, <3>3, Zenon DEF CloseListener
      <4> QED
        BY <1>1, <4>1, InvitedUntouched, Zenon
    <3> QED
      BY <3>2, <3>3, Zenon
  <2>2. CASE Disconnect(o)
    <3>1. PICK c \in Clis : cli[c].conn = o /\ cli' = [cli EXCEPT ![c].link = "closed"]
      BY <2>2, Zenon DEF Disconnect, At
    <3>2. sv[o] = "draining" /\ sv' = sv
      BY <2>2, Zenon DEF Disconnect
    <3> QED
      BY <1>3, <3>1, <3>2, Zenon
  <2>3. CASE Return(o)
    BY <1>2, <2>3, Zenon DEF Return
  <2> QED
    BY <1>6, <2>1, <2>2, <2>3, Zenon DEF Shutdown
<1>7. ASSUME NEW c \in Clis, Serve(c) PROVE Invited(d)'
  BY <1>3, <1>7, Zenon DEF Serve
<1>8. ASSUME NEW c \in Clis, IdleTimeout(c) PROVE Invited(d)'
  BY <1>3, <1>8, Zenon DEF IdleTimeout
<1> QED
  BY <1>4, <1>5, <1>6, <1>7, <1>8, Zenon

Guests == Holds /\ \A c \in Clis : Invited(c)

\* At first nobody is invited.
LEMMA InitGuests == Init => Guests
<1>1. Init => \A c \in Clis : Invited(c)
  BY DEF Init, Invited, Off
<1> QED
  BY <1>1, InitHolds, Zenon DEF Guests

\* Every step keeps Guests.
LEMMA NextGuests == Inv /\ Guests /\ [Next]_vars => Guests'
<1> SUFFICES ASSUME Inv, Guests, [Next]_vars PROVE \A d \in Clis : Invited(d)'
  BY NextHolds, Zenon DEF Guests
<1>1. Holds /\ \A d \in Clis : Invited(d) /\ Shaped(cli[d])
  BY Zenon DEF Guests, Inv, Fits
<1>2. CASE TryListen
  BY <1>1, <1>2, Zenon DEF TryListen, Invited
<1>3. CASE Frame
  <2>1. CASE UNCHANGED vars
    BY <1>1, <1>3, <2>1, InvitedUntouched, Zenon DEF vars
  <2>2. CASE \/ Boot \/ Signal \/ OtherCloses
             \/ \E o \in Servers : Shutdown(o)
             \/ \E c \in Clis : Serve(c) \/ IdleTimeout(c)
    BY <1>1, <1>3, <2>2, InvitedLinks, Zenon
  <2>3. ASSUME NEW c \in Clis, Start(c) \/ Type(c) \/ Steps(c) PROVE \A d \in Clis : Invited(d)'
    BY <1>1, <1>3, <2>3, InvitedSteps, Zenon
  <2> QED
    BY <1>2, <2>1, <2>2, <2>3, Zenon DEF Next
<1> QED
  BY <1>2, <1>3, Frames, Zenon

\* "Point it at the same environment as the container and it prints a URL you can hand to
\* memx-cli verbatim": while mem-x serves, a session started with what memx-url prints does
\* not fail, and talks to mem-x and is authenticated there, in an explicit environment.
THEOREM SameEnvironment == Spec => []SameEnvironmentMeets
<1>1. Guests => SameEnvironmentMeets
  BY Zenon DEF Guests, Invited, Met, SameEnvironmentMeets, Meets
<1> QED
  BY <1>1, Invariant, InitGuests, NextGuests, PTL DEF Spec

-----------------------------------------------------------------------------
(***************************************************************************)
(* The sessions rely on the contract of Serve.                             *)
(***************************************************************************)
ContractStep(o) == Contract(o)!Next \/ UNCHANGED Contract(o)!vars \/ sv[o]' = "gone"

\* A server moves on with its connections as they are.
LEMMA ContractMoves ==
  ASSUME NEW o \in Servers, At(o, "open")' = At(o, "open"),
         \/ sv'[o] = sv[o]
         \/ sv[o] = "off" /\ sv'[o] \in {"binding", "serving"}
         \/ sv[o] = "binding" /\ sv'[o] \in {"serving", "panicked"}
         \/ sv[o] = "serving" /\ sv'[o] = "cancelled"
         \/ sv[o] = "cancelled" /\ sv'[o] = "draining"
         \/ sv[o] = "draining" /\ sv'[o] = "returned" /\ At(o, "open") = {}
  PROVE  ContractStep(o)
<1>1. CASE \/ sv'[o] = sv[o]
           \/ sv[o] = "off" /\ sv'[o] \in {"binding", "serving"}
           \/ sv[o] = "binding" /\ sv'[o] \in {"serving", "panicked"}
  BY <1>1 DEF ContractStep, Contract!vars
<1>2. CASE sv[o] = "serving" /\ sv'[o] = "cancelled"
  <2>1. Contract(o)!Cancel
    BY <1>2, Zenon DEF Contract!Cancel
  <2> QED
    BY <2>1, Zenon DEF ContractStep, Contract!Next
<1>3. CASE sv[o] = "cancelled" /\ sv'[o] = "draining"
  <2>1. Contract(o)!CloseListener
    BY <1>3 DEF Contract!CloseListener
  <2> QED
    BY <2>1, Zenon DEF ContractStep, Contract!Next
<1>4. CASE sv[o] = "draining" /\ sv'[o] = "returned" /\ At(o, "open") = {}
  <2>1. Contract(o)!Return
    BY <1>4 DEF Contract!Return
  <2> QED
    BY <2>1, Zenon DEF ContractStep, Contract!Next
<1> QED
  BY <1>1, <1>2, <1>3, <1>4, Zenon

\* A connection is given a handler, or loses it.
LEMMA ContractServes ==
  ASSUME NEW o \in Servers, NEW c \in Clis, sv'[o] = sv[o],
         \A d \in Clis \ {c} : d \in At(o, "open")' <=> d \in At(o, "open"),
         c \in At(o, "open")' => c \in At(o, "open") \/ sv[o] = "serving"
  PROVE  ContractStep(o)
<1>1. At(o, "open") \subseteq Clis /\ At(o, "open")' \subseteq Clis
  BY Zenon DEF At
<1>2. CASE c \in At(o, "open")' <=> c \in At(o, "open")
  <2>1. At(o, "open")' = At(o, "open")
    BY <1>1, <1>2
  <2> QED
    BY <2>1, ContractMoves, Zenon
<1>3. CASE c \in At(o, "open")' /\ c \notin At(o, "open")
  <2>1. At(o, "open")' = At(o, "open") \cup {c}
    BY <1>1, <1>3, Zenon
  <2>2. Contract(o)!Take(c)
    BY <1>3, <2>1, Zenon DEF Contract!Take
  <2> QED
    BY <2>2, Zenon DEF ContractStep, Contract!Next
<1>4. CASE c \notin At(o, "open")' /\ c \in At(o, "open")
  <2>1. At(o, "open")' = At(o, "open") \ {c}
    BY <1>1, <1>4, Zenon
  <2>2. Contract(o)!Drop(c)
    BY <1>4, <2>1, Zenon DEF Contract!Drop
  <2> QED
    BY <2>2, Zenon DEF ContractStep, Contract!Next
<1> QED
  BY <1>2, <1>3, <1>4, Zenon

\* A session whose step does not give it a handler.
NoNewHandler(c) ==
  cli'[c].link = "open" => cli[c].link = "open" /\ cli'[c].conn = cli[c].conn

\* A session that opens no connection to a server that is not serving keeps the server's
\* contract.
LEMMA ContractSession ==
  ASSUME NEW c \in Clis, Only(c), NEW o \in Servers, sv'[o] = sv[o],
         NoNewHandler(c) \/ (cli'[c].conn = o => sv[o] = "serving")
  PROVE  ContractStep(o)
<1>1. \A d \in Clis \ {c} : d \in At(o, "open")' <=> d \in At(o, "open")
  BY Zenon DEF Only, At
<1>2. c \in At(o, "open")' => c \in At(o, "open") \/ sv[o] = "serving"
  BY Zenon DEF At, NoNewHandler
<1> QED
  BY <1>1, <1>2, ContractServes, Zenon

\* The steps of a session open no handler: that is done by the server's accept loop.
LEMMA StepHandlers ==
  ASSUME Inv, NEW c \in Clis, Start(c) \/ Type(c) \/ Steps(c), ~Cancel(c), ~OsExit(c)
  PROVE  NoNewHandler(c)
<1>1. DOMAIN cli = Clis /\ Shaped(cli[c])
  BY Zenon DEF Inv, Fits
<1>2. ASSUME NEW pc, cli' = [cli EXCEPT ![c].pc = pc] PROVE NoNewHandler(c)
  <2>1. IsWith(cli'[c], cli[c], pc, cli[c].conn, cli[c].link, cli[c].authed)
    BY <1>1, <1>2, Updates, Zenon
  <2> QED
    BY <2>1, Zenon DEF NoNewHandler, IsWith, Is
<1>3. ASSUME NEW o, ConnectTo(c, o) PROVE NoNewHandler(c)
  <2>1. cli' = [cli EXCEPT ![c].conn = o, ![c].link = "queued", ![c].pc = "auth"]
    BY <1>3, Zenon DEF ConnectTo
  <2>2. IsWith(cli'[c], cli[c], "auth", o, "queued", cli[c].authed)
    BY <1>1, <2>1, Updates, Zenon
  <2> QED
    BY <2>2, Zenon DEF NoNewHandler, IsWith, Is
<1>4. \A pc : Goto(c, pc) => NoNewHandler(c)
  BY <1>2, Zenon DEF Goto
<1>5. Dial(c) \/ DialTLS(c) \/ Redial(c) \/ Type(c) \/ Select(c) => NoNewHandler(c)
  BY <1>3, <1>4, Zenon DEF Dial, DialTLS, Redial, Type, Select
<1>6. Spawn(c) => NoNewHandler(c)
  BY <1>2, Zenon DEF Spawn
<1>7. Auth(c) => NoNewHandler(c)
  <2>1. ASSUME cli' = [cli EXCEPT ![c].pc = "select", ![c].authed = TRUE] PROVE NoNewHandler(c)
    <3>1. IsWith(cli'[c], cli[c], "select", cli[c].conn, cli[c].link, TRUE)
      BY <1>1, <2>1, Updates, Zenon
    <3> QED
      BY <3>1, Zenon DEF NoNewHandler, IsWith, Is
  <2> QED
    BY <1>4, <2>1, Zenon DEF Auth
<1>8. Do(c) => NoNewHandler(c)
  <2>1. ASSUME NEW link, NEW pc, cli[c].link = "open",
               cli' = [cli EXCEPT ![c].link = link, ![c].pc = pc] PROVE NoNewHandler(c)
    <3>1. IsWith(cli'[c], cli[c], pc, cli[c].conn, link, cli[c].authed)
      BY <1>1, <2>1, Updates, Zenon
    <3> QED
      BY <2>1, <3>1, Zenon DEF NoNewHandler, IsWith, Is
  <2> DEFINE after == IF cli[c].oneShot THEN "closing" ELSE "prompt"
  <2>2. ASSUME Replies(c), NEW link, cli' = [cli EXCEPT ![c].link = link, ![c].pc = after]
        PROVE  NoNewHandler(c)
    <3>1. cli[c].link = "open"
      BY <2>2, Zenon DEF Replies
    <3> HIDE DEF after
    <3> QED
      BY <2>1, <2>2, <3>1, Zenon
  <2> QED
    BY <1>4, <2>2, Zenon DEF Do
<1>9. Exit(c) => NoNewHandler(c)
  <2>1. Exit(c) => cli'[c] = Ended(c, "exited")
    BY <1>1, Assigned, Zenon DEF Exit
  <2> QED
    BY <2>1, EndedFields, Zenon DEF NoNewHandler, Is
<1>10. Start(c) => NoNewHandler(c)
  <2>1. Start(c) => cli'[c].link = "none"
    BY <1>1, Zenon DEF Start, Off
  <2> QED
    BY <2>1, Zenon DEF NoNewHandler
<1> QED
  BY <1>5, <1>6, <1>7, <1>8, <1>9, <1>10, Zenon DEF Steps

\* The steps of the sessions keep every server's contract.
LEMMA ContractSteps ==
  ASSUME Inv, NEW c \in Clis, Start(c) \/ Type(c) \/ Steps(c), NEW o \in Servers
  PROVE  ContractStep(o)
<1>1. sv \in [Servers -> States] /\ c \in Servers /\ Fits(c)
  BY Zenon DEF Inv, Machine, Servers
<1>2. CASE Cancel(c)
  <2>1. At(o, "open")' = At(o, "open")
    BY <1>2, Zenon DEF Cancel, At
  <2> QED
    BY <1>1, <1>2, <2>1, ContractMoves, Zenon DEF Cancel
<1>3. CASE OsExit(c)
  <2>1. sv'[o] = IF o = c /\ sv[o] # "off" THEN "gone" ELSE sv[o]
    BY <1>1, <1>3, Zenon DEF OsExit
  <2>2. CASE sv'[o] = "gone"
    BY <2>2, Zenon DEF ContractStep
  <2>3. CASE sv'[o] # "gone"
    <3>1. sv'[o] = sv[o] /\ (o = c => sv[o] = "off")
      BY <2>1, <2>3, Zenon
    <3>2. ASSUME NEW d \in Clis \ {c} PROVE d \in At(o, "open")' <=> d \in At(o, "open")
      <4>1. IsWith(cli'[d], cli[d], cli[d].pc, cli[d].conn,
                   IF cli[d].conn = c THEN "closed" ELSE cli[d].link, cli[d].authed)
        BY <1>3, OsExitOthers, Zenon
      <4>2. o = c => ~(cli[d].conn = o /\ cli[d].link = "open")
        BY <1>1, <3>1, Zenon DEF Inv, Fits, Linked
      <4> QED
        BY <4>1, <4>2, Zenon DEF At, IsWith, Is
    <3>3. c \notin At(o, "open")'
      <4>1. cli'[c] = Ended(c, "failed")
        BY <1>3, Zenon DEF OsExit
      <4>2. Is(cli'[c], "failed", NoTarget, FALSE, None, "none", FALSE, cli[c].invited)
        BY <4>1, EndedFields, Zenon
      <4> QED
        BY <4>2, Zenon DEF At, Is
    <3> QED
      BY <3>1, <3>2, <3>3, ContractServes, Zenon
  <2> QED
    BY <2>2, <2>3, Zenon
<1>4. CASE ~Cancel(c) /\ ~OsExit(c)
  <2>1. Only(c) /\ NoNewHandler(c)
    BY <1>4, StepOnly, StepHandlers, Zenon
  <2>2. CASE sv'[o] = sv[o]
    BY <2>1, <2>2, ContractSession, Zenon
  <2>3. CASE sv'[o] # sv[o]
    <3>1. Spawn(c)
      <4>1. Dial(c) \/ DialTLS(c) \/ Redial(c) \/ Type(c) \/ Select(c) => Still
        BY <1>4, Zenon DEF Dial, DialTLS, Redial, Type, Select, ConnectTo, Goto, Still
      <4>2. Auth(c) \/ Do(c) \/ Exit(c) \/ Start(c) => Still
        BY <1>4, Zenon DEF Auth, Do, Exit, Start, Goto, Still
      <4>3. ~Still
        BY <2>3, Zenon DEF Still
      <4> QED
        BY <1>4, <4>1, <4>2, <4>3, Zenon DEF Steps
    <3>2. sv' = [sv EXCEPT ![c] = "serving"] /\ cli' = [cli EXCEPT ![c].pc = "redial"] /\ sv[c] = "off"
      BY <1>1, <1>4, <3>1, Zenon DEF Spawn, Fits, Embedded
    <3>3. IsWith(cli'[c], cli[c], "redial", cli[c].conn, cli[c].link, cli[c].authed)
      BY <1>1, <3>2, Updates, Zenon DEF Inv, Fits
    <3>4. At(o, "open")' = At(o, "open")
      <4>1. \A d \in Clis : cli'[d].conn = cli[d].conn /\ cli'[d].link = cli[d].link
        BY <2>1, <3>3, Zenon DEF Only, IsWith, Is
      <4> QED
        BY <4>1, Zenon DEF At
    <3> QED
      BY <1>1, <2>3, <3>2, <3>4, ContractMoves, Zenon
  <2> QED
    BY <2>2, <2>3, Zenon
<1> QED
  BY <1>2, <1>3, <1>4, Zenon

\* The steps of the servers, of mem-x and of the foreign process keep every server's
\* contract.
LEMMA ContractServers ==
  ASSUME Inv, NEW o \in Servers,
         \/ Boot \/ TryListen \/ Signal \/ OtherCloses
         \/ \E q \in Servers : Shutdown(q)
         \/ \E c \in Clis : Serve(c) \/ IdleTimeout(c)
  PROVE  ContractStep(o)
<1>1. sv \in [Servers -> States] /\ Main \in Servers /\ DOMAIN cli = Clis /\ \A c \in Clis : Shaped(cli[c])
  BY MainServes, Zenon DEF Inv, Machine, Fits
<1>2. cli' = cli => At(o, "open")' = At(o, "open")
  BY Zenon DEF At
<1>3. ASSUME NEW c \in Clis, sv' = sv, NEW link, cli' = [cli EXCEPT ![c].link = link],
             link = "closed" \/ (cli[c].conn = o => sv[o] = "serving")
      PROVE  ContractStep(o)
  <2>1. Only(c) /\ IsWith(cli'[c], cli[c], cli[c].pc, cli[c].conn, link, cli[c].authed)
    BY <1>1, <1>3, Updates, Zenon
  <2>2. NoNewHandler(c) \/ (cli'[c].conn = o => sv[o] = "serving")
    BY <1>3, <2>1, Zenon DEF NoNewHandler, IsWith, Is
  <2> QED
    BY <1>3, <2>1, <2>2, ContractSession, Zenon
<1>4. CASE Boot \/ Signal
  BY <1>1, <1>2, <1>4, ContractMoves, Zenon DEF Boot, Signal
<1>5. CASE TryListen
  <2>1. cli' = cli /\ sv[Main] = "binding"
    BY <1>5, Zenon DEF TryListen
  <2>2. \/ sv' = sv \/ sv' = [sv EXCEPT ![Main] = "serving"] \/ sv' = [sv EXCEPT ![Main] = "panicked"]
    BY <1>5, Zenon DEF TryListen
  <2> QED
    BY <1>1, <1>2, <2>1, <2>2, ContractMoves, Zenon
<1>6. CASE OtherCloses
  BY <1>3, <1>6, Zenon DEF OtherCloses, At
<1>7. ASSUME NEW q \in Servers, CloseListener(q) PROVE ContractStep(o)
  <2>1. \A d \in Clis : cli'[d].conn = cli[d].conn /\ (cli'[d].link = "open" <=> cli[d].link = "open")
    <3> TAKE d \in Clis
    <3>1. CASE d \in At(q, "queued")
      <4>1. cli'[d] = [cli[d] EXCEPT !.link = "closed"] /\ cli[d].link = "queued"
        BY <1>7, <3>1, Zenon DEF CloseListener, At
      <4> QED
        BY <1>1, <4>1, Zenon DEF Shaped
    <3>2. CASE d \notin At(q, "queued")
      BY <1>7, <3>2, Zenon DEF CloseListener
    <3> QED
      BY <3>1, <3>2, Zenon
  <2>2. At(o, "open")' = At(o, "open")
    BY <2>1, Zenon DEF At
  <2> QED
    BY <1>1, <1>7, <2>2, ContractMoves, Zenon DEF CloseListener
<1>8. ASSUME NEW q \in Servers, Disconnect(q) PROVE ContractStep(o)
  BY <1>3, <1>8, Zenon DEF Disconnect, At
<1>9. ASSUME NEW q \in Servers, Return(q) PROVE ContractStep(o)
  BY <1>1, <1>2, <1>9, ContractMoves, Zenon DEF Return
<1>10. ASSUME NEW c \in Clis, Serve(c) PROVE ContractStep(o)
  <2>1. cli[c].conn = o => sv[o] = "serving"
    BY <1>10, Zenon DEF Serve, At
  <2> QED
    BY <1>3, <1>10, <2>1, Zenon DEF Serve
<1>11. ASSUME NEW c \in Clis, IdleTimeout(c) PROVE ContractStep(o)
  BY <1>3, <1>11, Zenon DEF IdleTimeout
<1> QED
  BY <1>4, <1>5, <1>6, <1>7, <1>8, <1>9, <1>10, <1>11, Zenon DEF Shutdown

\* The sessions rely on nothing of a server, mem-x or embedded, but what Serve promises
\* (MeetsContract of ServerImplements): every step is one of the contract for every server
\* at once, leaves it alone, or ends its process.
THEOREM ReliesOnContract == Spec => ServesContract
<1>1. Inv /\ [Next]_vars => [\A o \in Servers : ContractStep(o)]_vars
  <2> SUFFICES ASSUME Inv, Next, NEW o \in Servers PROVE ContractStep(o)
    BY Zenon
  <2> QED
    BY ContractSteps, ContractServers, Zenon DEF Next
<1> QED
  BY <1>1, Invariant, PTL DEF Spec, ServesContract, ContractStep
=============================================================================
