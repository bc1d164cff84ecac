-------------------------- MODULE ServerImplements --------------------------
(***************************************************************************)
(* Server.tla implements ServeContract.tla.                                *)
(***************************************************************************)
EXTENDS Server

InCommandLoop == {c \in Conns : h[c] \in InLoop}

ServeResult ==
  IF serve = "returned" THEN "returned" ELSE IF serve = "panicked" THEN "panicked" ELSE "running"

Contract == INSTANCE ServeContract WITH
  cancelled <- done, serving <- InCommandLoop, result <- ServeResult

\* Serve keeps its contract: no command is taken up after the cancellation, and it returns
\* only when no command is executing, waiting for writeMu or being answered.
KeepsContract == Contract!Spec

\* And it does return after a cancellation, whatever the clients do.
MeetsContract == Contract!FairSpec
=============================================================================
