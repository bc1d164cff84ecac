------------------------------- MODULE Session ------------------------------
(***************************************************************************)
(* The programs around the server: mem-x finding a port to listen on       *)
(* (cmd/mem-x/main.go), memx-url building a connection URL from the        *)
(* server's environment, and memx-cli sessions, each of which may start an *)
(* embedded server of its own (cmd/memx-cli, internal/cli,                 *)
(* internal/memxurl).  They meet at the TCP ports of one machine.          *)
(*                                                                         *)
(* Of a server only what ServeContract.tla promises is used, which         *)
(* Server.tla implements: ServesContract checks that.                      *)
(*                                                                         *)
(* Names, passwords and hosts are opaque, "" an absent one; a host is this *)
(* machine or one that cannot be reached.  An environment variable that is *)
(* unset is "" or 0.  Certificates are valid.                              *)
(***************************************************************************)
EXTENDS Naturals, Sequences, FiniteSets

CONSTANTS
  Clis,       \* memx-cli processes
  Main,       \* the mem-x process
  Other,      \* a process of somebody else, which answers no command
  None,
  Ports,      \* TCP ports of this machine
  Taken,      \* those Other listens on
  Envs,       \* MEMX_* environments
  Args,       \* addresses given to memx-cli
  MaxRetries, \* of listenWithRetry
  PlainPort,  \* 6379
  TLSPort     \* 6380

\* The address mem-x is to listen on.
EnvAddr(e) == IF e.addr # 0 THEN e.addr ELSE IF e.port # 0 THEN e.port ELSE PlainPort

ASSUME SessionAssumption ==
  /\ IsFiniteSet(Clis) /\ Main \notin Clis /\ Other \notin Clis \cup {Main}
  /\ None \notin Clis \cup {Main, Other}
  /\ Ports \subseteq Nat \ {0} /\ Taken \subseteq Ports /\ MaxRetries \in Nat \ {0}
  /\ PlainPort \in Ports /\ TLSPort \in Ports

\* Every port the programs are told to use is a port of the machine.
ASSUME PortAssumption ==
  /\ \A e \in Envs : /\ {e.addr, e.port} \subseteq Ports \cup {0} /\ e.tls \in BOOLEAN
                     /\ \A i \in 0 .. MaxRetries : EnvAddr(e) + i \in Ports
  /\ \A a \in Args : /\ a.kind \in {"addr", "url", "memx-url", "foreign"}
                     /\ a.kind = "addr" => a.port \in Ports
                     /\ a.kind = "url" => a.text.port \in Ports \cup {0} /\ a.text.tls \in BOOLEAN

Servers == Clis \cup {Main}

VARIABLES
  env,    \* the environment of mem-x and memx-url
  owner,  \* who listens on each port
  sv,     \* each server: "off", "binding", "serving", "cancelled", "draining",
          \* "returned" (Serve has), "panicked", or "gone" with its process
  try,    \* the ports listenWithRetry has tried after the first one
  cli     \* each session

vars == <<env, owner, sv, try, cli>>

\* A session: where it is, its connTarget, whether it has a command on its command line,
\* the server it is connected to, the connection ("none", "queued", "open" once a handler
\* serves it, "closed" by the server) and whether AUTH succeeded.  As history, whether it
\* took its address from memx-url when mem-x served at its address.
NoTarget == [host |-> "", port |-> 0, pass |-> "", db |-> 0, tls |-> FALSE]
Off == [pc |-> "off", target |-> NoTarget, oneShot |-> FALSE, conn |-> None, link |-> "none",
        authed |-> FALSE, invited |-> FALSE]

Init ==
  /\ env \in Envs
  /\ owner = [p \in Ports |-> IF p \in Taken THEN Other ELSE None]
  /\ sv = [o \in Servers |-> "off"]
  /\ try = 0
  /\ cli = [c \in Clis |-> Off]

-----------------------------------------------------------------------------
(***************************************************************************)
(* Connection URLs.  A URL text has an optional port (0), user info of no, *)
(* one or two parts, and a path of no or one part.                         *)
(***************************************************************************)
DefaultPort(tls) == IF tls THEN TLSPort ELSE PlainPort

NewURL(e) ==
  [tls |-> e.tls, host |-> e.host, port |-> IF e.port = 0 THEN DefaultPort(e.tls) ELSE e.port,
   user |-> e.user, pass |-> e.pass, db |-> e.db]

\* Mutant: user info only for a user.
ConnStringForUser(u) ==
  [tls |-> u.tls, host |-> u.host, port |-> u.port,
   userInfo |-> IF u.user = "" THEN <<>> ELSE <<u.user, u.pass>>,
   path |-> IF u.db = 0 THEN <<>> ELSE <<u.db>>]

ConnString(u) ==
  [tls |-> u.tls, host |-> u.host, port |-> u.port,
   userInfo |-> IF u.user = "" /\ u.pass = "" THEN <<>>
                ELSE IF u.pass = "" THEN <<u.user>> ELSE <<u.user, u.pass>>,
   path |-> IF u.db = 0 THEN <<>> ELSE <<u.db>>]

\* Parse, then the parts of it that the client uses.
TargetOf(text) ==
  [host |-> text.host, port |-> IF text.port = 0 THEN DefaultPort(text.tls) ELSE text.port,
   pass |-> IF Len(text.userInfo) = 2 THEN text.userInfo[2] ELSE "",
   db |-> IF text.path = <<>> THEN 0 ELSE text.path[1], tls |-> text.tls]

\* What memx-url prints.
MemxURL == ConnString(NewURL(env))

\* What resolveTarget makes of an argument: nothing of a foreign scheme or of a URL without
\* a host.
ResolveTarget(a) ==
  CASE a.kind = "addr"     -> {[NoTarget EXCEPT !.host = a.host, !.port = a.port]}
    [] a.kind = "url"      -> IF a.text.host = "" THEN {} ELSE {TargetOf(a.text)}
    [] a.kind = "memx-url" -> {TargetOf(MemxURL)}
    [] a.kind = "foreign"  -> {}

-----------------------------------------------------------------------------
(***************************************************************************)
(* mem-x up to Serve, and Serve.                                           *)
(***************************************************************************)
Boot ==
  /\ sv[Main] = "off"
  /\ sv' = [sv EXCEPT ![Main] = "binding"]
  /\ UNCHANGED <<env, owner, try, cli>>

\* Mutant: the first retry is the port that was just refused.
NextPortLate == EnvAddr(env) + (IF try = 0 THEN 0 ELSE try - 1)
NextPort == EnvAddr(env) + try

\* One iteration of listenWithRetry.  When all ports are taken it returns neither an
\* address nor an error, and printing the address panics.
TryListen ==
  /\ sv[Main] = "binding"
  /\ \/ /\ owner[NextPort] = None
        /\ owner' = [owner EXCEPT ![NextPort] = Main]
        /\ sv' = [sv EXCEPT ![Main] = "serving"]
        /\ UNCHANGED try
     \/ /\ owner[NextPort] # None /\ try < MaxRetries
        /\ try' = try + 1
        /\ UNCHANGED <<owner, sv>>
     \/ /\ owner[NextPort] # None /\ try = MaxRetries
        /\ sv' = [sv EXCEPT ![Main] = "panicked"]
        /\ UNCHANGED <<owner, try>>
  /\ UNCHANGED <<env, cli>>

Signal ==
  /\ sv[Main] = "serving"
  /\ sv' = [sv EXCEPT ![Main] = "cancelled"]
  /\ UNCHANGED <<env, owner, try, cli>>

At(o, link) == {c \in Clis : cli[c].conn = o /\ cli[c].link = link}

Unlisten(o) == [p \in Ports |-> IF owner[p] = o THEN None ELSE owner[p]]

\* The accept loop takes the connection, and its handler finds ctx alive.
Serve(c) ==
  /\ \E o \in Servers : c \in At(o, "queued") /\ sv[o] = "serving"
  /\ cli' = [cli EXCEPT ![c].link = "open"]
  /\ UNCHANGED <<env, owner, sv, try>>

\* Mutant: the listener stays open.
LeaveListener(o) ==
  /\ sv[o] = "cancelled"
  /\ sv' = [sv EXCEPT ![o] = "draining"]
  /\ UNCHANGED <<env, owner, try, cli>>

CloseListener(o) ==
  /\ sv[o] = "cancelled"
  /\ sv' = [sv EXCEPT ![o] = "draining"]
  /\ owner' = Unlisten(o)
  /\ cli' = [c \in Clis |-> IF c \in At(o, "queued") THEN [cli[c] EXCEPT !.link = "closed"] ELSE cli[c]]
  /\ UNCHANGED <<env, try>>

Disconnect(o) ==
  /\ sv[o] = "draining"
  /\ \E c \in At(o, "open") : cli' = [cli EXCEPT ![c].link = "closed"]
  /\ UNCHANGED <<env, owner, sv, try>>

\* The idle timeout of mem-x, which an embedded server does not have.
IdleTimeout(c) ==
  /\ c \in At(Main, "open") /\ cli[c].pc = "prompt"
  /\ cli' = [cli EXCEPT ![c].link = "closed"]
  /\ UNCHANGED <<env, owner, sv, try>>

\* Mutant: Serve does not wait for its handlers.
ReturnAtOnce(o) ==
  /\ sv[o] = "draining"
  /\ sv' = [sv EXCEPT ![o] = "returned"]
  /\ UNCHANGED <<env, owner, try, cli>>

Return(o) ==
  /\ sv[o] = "draining" /\ At(o, "open") = {}
  /\ sv' = [sv EXCEPT ![o] = "returned"]
  /\ UNCHANGED <<env, owner, try, cli>>

-----------------------------------------------------------------------------
(***************************************************************************)
(* A session.                                                              *)
(***************************************************************************)
Goto(c, pc) == cli' = [cli EXCEPT ![c].pc = pc] /\ UNCHANGED <<env, owner, sv, try>>

Ended(c, pc) == [Off EXCEPT !.pc = pc, !.invited = cli[c].invited]

\* os.Exit: no deferred function runs, and the embedded server ends with the process.
OsExit(c) ==
  /\ cli' = [d \in Clis |->
               IF d = c THEN Ended(c, "failed")
               ELSE IF cli[d].conn = c THEN [cli[d] EXCEPT !.link = "closed"] ELSE cli[d]]
  /\ sv' = [sv EXCEPT ![c] = IF @ = "off" THEN @ ELSE "gone"]
  /\ owner' = Unlisten(c)
  /\ UNCHANGED <<env, try>>

\* main up to dialOrSpawn.
Start(c) ==
  /\ cli[c].pc = "off"
  /\ \E a \in Args, oneShot \in BOOLEAN :
       \/ /\ ResolveTarget(a) = {}
          /\ OsExit(c)
       \/ \E t \in ResolveTarget(a) :
            /\ cli' = [cli EXCEPT ![c] =
                         [Off EXCEPT !.pc = "dial", !.target = t, !.oneShot = oneShot,
                                     !.invited = a.kind = "memx-url" /\ sv[Main] = "serving" /\ try = 0]]
            /\ UNCHANGED <<env, owner, sv, try>>

IsLocalAddr(t) == t.host = "local"

\* Who answers at the target's address.
Listener(c) == IF IsLocalAddr(cli[c].target) THEN owner[cli[c].target.port] ELSE None

\* Whether the server on the other side speaks TLS when the client does.
SameWire(c, o) == o # Other /\ cli[c].target.tls = (o = Main /\ env.tls)

ConnectTo(c, o) ==
  /\ cli' = [cli EXCEPT ![c].conn = o, ![c].link = "queued", ![c].pc = "auth"]
  /\ UNCHANGED <<env, owner, sv, try>>

\* dialOrSpawn without TLS: a local target that nobody answers at is spawned.
Dial(c) ==
  /\ cli[c].pc = "dial" /\ ~cli[c].target.tls
  /\ LET o == Listener(c)
     IN  \/ o # None /\ ConnectTo(c, o)
         \/ o = None /\ ~IsLocalAddr(cli[c].target) /\ OsExit(c)
         \/ o = None /\ IsLocalAddr(cli[c].target) /\ Goto(c, "spawn")

\* With TLS the dial includes the handshake, and nothing is spawned.
DialTLS(c) ==
  /\ cli[c].pc = "dial" /\ cli[c].target.tls
  /\ LET o == Listener(c)
     IN  \/ o # None /\ SameWire(c, o) /\ ConnectTo(c, o)
         \/ (SameWire(c, o) => sv[o] # "serving") /\ OsExit(c)

\* StartEmbedded: somebody may have taken the port since the dial.
Spawn(c) ==
  /\ cli[c].pc = "spawn"
  /\ \/ Listener(c) # None /\ OsExit(c)
     \/ /\ Listener(c) = None
        /\ owner' = [owner EXCEPT ![cli[c].target.port] = c]
        /\ sv' = [sv EXCEPT ![c] = "serving"]
        /\ cli' = [cli EXCEPT ![c].pc = "redial"]
        /\ UNCHANGED <<env, try>>

\* The second dial; if it fails the embedded server is closed again before the exit.
Redial(c) ==
  /\ cli[c].pc = "redial"
  /\ ConnectTo(c, c) \/ Goto(c, "closing")

\* Client.Do gets a reply, or an error.
Replies(c) == cli[c].link = "open" /\ SameWire(c, cli[c].conn)
Fails(c) == cli[c].link = "closed" \/ (cli[c].link = "open" /\ ~SameWire(c, cli[c].conn))

\* AUTH of applyConnOptions.  A server without a password rejects it.
Auth(c) ==
  /\ cli[c].pc = "auth"
  /\ LET pass == cli[c].target.pass
         accepted == cli[c].conn = Main /\ env.pass # "" /\ pass = env.pass
     IN  \/ pass = "" /\ Goto(c, "select")
         \/ /\ pass # "" /\ Replies(c) /\ accepted
            /\ cli' = [cli EXCEPT ![c].pc = "select", ![c].authed = TRUE]
            /\ UNCHANGED <<env, owner, sv, try>>
         \/ pass # "" /\ (Fails(c) \/ (Replies(c) /\ ~accepted)) /\ OsExit(c)

\* SELECT of applyConnOptions: there is one database.
Select(c) ==
  /\ cli[c].pc = "select"
  /\ \/ cli[c].target.db = 0 /\ Goto(c, IF cli[c].oneShot THEN "do" ELSE "prompt")
     \/ cli[c].target.db # 0 /\ (Replies(c) \/ Fails(c)) /\ OsExit(c)

\* A line is typed: a command, or QUIT, EXIT or the end of the input.
Type(c) ==
  /\ cli[c].pc = "prompt"
  /\ Goto(c, "do") \/ Goto(c, "closing")

\* The command's reply or error, in runOneShot and in runInteractive.  After the reply to a
\* command it cannot read (no tokens, or over its limits) a server closes the connection.
Do(c) ==
  /\ cli[c].pc = "do"
  /\ \/ /\ Replies(c)
        /\ \E link \in {"open", "closed"} :
             cli' = [cli EXCEPT ![c].link = link,
                                ![c].pc = IF cli[c].oneShot THEN "closing" ELSE "prompt"]
        /\ UNCHANGED <<env, owner, sv, try>>
     \/ Fails(c) /\ ~cli[c].oneShot /\ Goto(c, "closing")
     \/ Fails(c) /\ cli[c].oneShot /\ OsExit(c)

\* Mutant: Close does not cancel.
NoCancel(c) == FALSE

\* main returns: Embedded.Close cancels ...
Cancel(c) ==
  /\ cli[c].pc = "closing" /\ sv[c] = "serving"
  /\ sv' = [sv EXCEPT ![c] = "cancelled"]
  /\ UNCHANGED <<env, owner, try, cli>>

\* Mutant: Close does not wait for Serve.
ExitAtOnce(c) ==
  /\ cli[c].pc = "closing" /\ sv[c] # "serving"
  /\ cli' = [cli EXCEPT ![c] = Ended(c, "exited")]
  /\ UNCHANGED <<env, owner, sv, try>>

\* ... and waits for Serve, then Client.Close.
Exit(c) ==
  /\ cli[c].pc = "closing" /\ sv[c] \in {"off", "returned"}
  /\ cli' = [cli EXCEPT ![c] = Ended(c, "exited")]
  /\ UNCHANGED <<env, owner, sv, try>>

\* Somebody else's process closes a connection, if it likes.
OtherCloses ==
  /\ \E c \in At(Other, "queued") : cli' = [cli EXCEPT ![c].link = "closed"]
  /\ UNCHANGED <<env, owner, sv, try>>

-----------------------------------------------------------------------------
Steps(c) ==
  \/ Dial(c) \/ DialTLS(c) \/ Spawn(c) \/ Redial(c)
  \/ Auth(c) \/ Select(c) \/ Do(c) \/ Cancel(c) \/ Exit(c)

Shutdown(o) == CloseListener(o) \/ Disconnect(o) \/ Return(o)

Next ==
  \/ Boot \/ TryListen \/ Signal \/ OtherCloses
  \/ \E o \in Servers : Shutdown(o)
  \/ \E c \in Clis : Serve(c) \/ IdleTimeout(c) \/ Start(c) \/ Type(c) \/ Steps(c)

Spec == Init /\ [][Next]_vars

\* Programs run on, servers serve and shut down (MeetsContract of ServerImplements).  Nobody
\* has to start a program, type, or send a signal, and Other does nothing for certain.
FairSpec ==
  /\ Spec
  /\ WF_vars(TryListen)
  /\ \A o \in Servers : WF_vars(Shutdown(o))
  /\ \A c \in Clis : WF_vars(Serve(c)) /\ WF_vars(Steps(c))

-----------------------------------------------------------------------------
(***************************************************************************)
(* Properties.                                                             *)
(***************************************************************************)

\* The types; a server owns a port exactly while its listener is open, and a session in the
\* middle of something has a connection.
TypeOK ==
  /\ env \in Envs
  /\ owner \in [Ports -> Servers \cup {Other, None}]
  /\ sv \in [Servers -> {"off", "binding", "serving", "cancelled", "draining", "returned",
                         "panicked", "gone"}]
  /\ try \in 0 .. MaxRetries
  /\ \A c \in Clis :
       /\ cli[c].pc \in {"off", "dial", "spawn", "redial", "auth", "select", "prompt", "do",
                         "closing", "exited", "failed"}
       /\ cli[c].conn \in Servers \cup {Other, None}
       /\ cli[c].link \in {"none", "queued", "open", "closed"}
       /\ cli[c].pc \in {"auth", "select", "prompt", "do"} => cli[c].conn # None
  /\ \A o \in Servers :
       (\E p \in Ports : owner[p] = o) <=> sv[o] \in {"serving", "cancelled"}

Contract(o) == INSTANCE ServeContract WITH
  Conns <- Clis,
  cancelled <- sv[o] \in {"cancelled", "draining", "returned"},
  listening <- sv[o] \notin {"draining", "returned"},
  serving <- At(o, "open"),
  result <- IF sv[o] = "returned" THEN "returned" ELSE "running"

\* The sessions rely on nothing of a server, mem-x or embedded, but its contract, unless its
\* process ends.
ServesContract ==
  [][\A o \in Servers : Contract(o)!Next \/ UNCHANGED Contract(o)!vars \/ sv[o]' = "gone"]_vars

\* An embedded server is "session-scoped": when the CLI that started it has returned from
\* main, nobody is served by it any more, the other sessions that found it included, and its
\* port is free.
SessionScoped ==
  \A c \in Clis : cli[c].pc = "exited" =>
    At(c, "open") = {} /\ \A p \in Ports : owner[p] # c

\* The environment says where the server is: MEMX_ADDR, which memx-url does not read, is
\* unset, and so is the default port of TLS, which is the client's and not the server's.
Explicit == env.addr = 0 /\ (env.tls => env.port # 0) /\ env.host = "local" /\ env.db = 0

\* What the client makes of the URL that memx-url prints: as long as mem-x serves, a session
\* started with it does not fail, is connected to mem-x and not to somebody's embedded
\* server, and is authenticated if mem-x wants that.
Meets(c) ==
  cli[c].invited /\ sv[Main] = "serving" =>
    /\ cli[c].pc # "failed"
    /\ cli[c].pc \in {"prompt", "do"} => cli[c].conn = Main /\ (env.pass # "" => cli[c].authed)

\* "Point it at the same environment as the container and it prints a URL you can hand to
\* memx-cli verbatim" (cmd/memx-url), for an explicit environment.
SameEnvironmentMeets == Explicit => \A c \in Clis : Meets(c)

\* "A busy default never blocks startup" (listenWithRetry): mem-x gets a port whatever the
\* sessions and other processes do, as long as they do not take MaxRetries + 1 ports.
StartupSurvives == sv[Main] # "panicked"

\* A session never hangs: it gets from its start to the prompt or to its end, from a command
\* to the next prompt, and from QUIT to its exit, although its embedded server waits for the
\* handler of the session's own connection, which is closed last.
NoCliHangs ==
  \A c \in Clis :
    cli[c].pc \notin {"off", "prompt", "exited", "failed"} ~>
      cli[c].pc \in {"prompt", "exited", "failed"} \/ cli[c].conn = Other

\* The same for every environment: "defaults match the server".
EveryEnvironmentMeets == env.host = "local" /\ env.db = 0 => \A c \in Clis : Meets(c)
=============================================================================
