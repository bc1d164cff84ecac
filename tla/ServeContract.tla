--------------------------- MODULE ServeContract ----------------------------
(***************************************************************************)
(* What server.Serve(ctx) promises its caller, main and the embedded       *)
(* server of memx-cli alike: commands are taken up only until the context  *)
(* is cancelled; after that the listener is closed, the commands in flight *)
(* are finished or abandoned, and Serve returns when there are none left.  *)
(* The one exception is a panic of its WaitGroup, which ends the process.  *)
(*                                                                         *)
(* Server.tla is shown to implement this, and Session.tla is built on it.  *)
(***************************************************************************)
CONSTANT Conns  \* connections

VARIABLES
  cancelled,  \* the context is cancelled
  listening,  \* the listener is open
  serving,    \* the connections whose handler is inside its command loop
  result      \* "running", "returned" or "panicked"

vars == <<cancelled, listening, serving, result>>

Init == cancelled = FALSE /\ listening = TRUE /\ serving = {} /\ result = "running"

Cancel ==
  /\ ~cancelled
  /\ cancelled' = TRUE
  /\ UNCHANGED <<listening, serving, result>>

\* A handler enters its loop, or starts on the next command.
Take(c) ==
  /\ ~cancelled /\ c \notin serving
  /\ serving' = serving \cup {c}
  /\ UNCHANGED <<cancelled, listening, result>>

\* It has answered the command, or the connection has ended.
Drop(c) ==
  /\ c \in serving
  /\ serving' = serving \ {c}
  /\ UNCHANGED <<cancelled, listening, result>>

CloseListener ==
  /\ cancelled /\ listening
  /\ listening' = FALSE
  /\ UNCHANGED <<cancelled, serving, result>>

Return ==
  /\ cancelled /\ ~listening /\ serving = {} /\ result = "running"
  /\ result' \in {"returned", "panicked"}
  /\ UNCHANGED <<cancelled, listening, serving>>

Next == Cancel \/ CloseListener \/ Return \/ \E c \in Conns : Take(c) \/ Drop(c)

Spec == Init /\ [][Next]_vars

\* A cancelled server shuts down.
ShutsDown == CloseListener \/ Return \/ \E c \in Conns : cancelled /\ Drop(c)

FairSpec == Spec /\ WF_vars(ShutsDown)
=============================================================================
