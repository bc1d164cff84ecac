---------------------------- MODULE RespReplies -----------------------------
(***************************************************************************)
(* The replies of internal/resp/resp.go: how the server writes them and    *)
(* how Client.Do reads them.  Both recurse through nested arrays.          *)
(***************************************************************************)
EXTENDS Resp

\* Reply.WriteTo.
RECURSIVE WriteTo(_)
WriteTo(r) ==
  CASE r.kind = "simple"  -> LineOf(Plus, r.str)
    [] r.kind = "error"   -> LineOf(Minus, r.str)
    [] r.kind = "integer" -> LineOf(Colon, Itoa(r.int))
    [] r.kind = "bulk"    -> Bulk(r.str)
    [] r.kind = "null"    -> LineOf(Dollar, Itoa(-1))
    [] r.kind = "array"   ->
         ArrayLen(Len(r.array)) \o Concat([i \in DOMAIN r.array |-> WriteTo(r.array[i])])

-----------------------------------------------------------------------------
\* ReadReply with readBulkReply and readArrayReply; -1 is the null of both.
RECURSIVE ReadReply(_, _, _)
ReadReply(s, p, lim) ==
  LET Null(q) == Ok([kind |-> "null"], q)
      TextOrInt(line, q) ==
        CASE s[p] = Plus  -> Ok([kind |-> "simple", str |-> Tail(line)], q)
          [] s[p] = Minus -> Ok([kind |-> "error", str |-> Tail(line)], q)
          [] s[p] = Colon -> Then(Header(line, q, Int), LAMBDA n, r :
                               Ok([kind |-> "integer", int |-> n], r))
      BulkBody(n, q) ==
        IF n = -1 THEN Null(q)
        ELSE Then(ReadBody(s, q, n), LAMBDA b, r : Ok([kind |-> "bulk", str |-> b], r))
      Elements(n, q) ==
        IF n = -1 THEN Null(q)
        ELSE Then(ReadEach(LAMBDA e : ReadReply(s, e, lim), q, n), LAMBDA xs, r :
               Ok([kind |-> "array", array |-> xs], r))
  IN  IF p > Len(s) THEN Stop("eof")
      ELSE CASE s[p] \in {Plus, Minus} -> Then(ReadLine(s, p, lim.inline), TextOrInt)
             [] s[p] = Colon -> Then(ReadLine(s, p, lim.header), TextOrInt)
             [] s[p] = Dollar -> Then(ReadLine(s, p, lim.header), LAMBDA line, q :
                  Then(Header(line, q, -1 .. lim.bulk), BulkBody))
             [] s[p] = Star -> Then(ReadLine(s, p, lim.header), LAMBDA line, q :
                  Then(Header(line, q, -1 .. lim.args), Elements))
             [] OTHER -> Stop("perr")
=============================================================================
