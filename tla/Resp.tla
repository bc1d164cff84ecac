-------------------------------- MODULE Resp --------------------------------
(***************************************************************************)
(* The codec of internal/resp/resp.go: commands and replies as bytes, and  *)
(* the readers that turn bytes back into them.                             *)
(*                                                                         *)
(* A byte is its ASCII code, a stream a sequence of bytes, a position is   *)
(* 1-based.  A reader is given a stream that ends where no more bytes can  *)
(* be had and returns                                                      *)
(*   "ok"     with the value and the position after it,                    *)
(*   "eof"    io.EOF, also for a line that has no end yet,                 *)
(*   "short"  io.ErrUnexpectedEOF: the stream ends inside a bulk body,     *)
(*   "perr"   a ProtocolError.                                             *)
(* Limits are records [bulk, args, inline, header].                        *)
(***************************************************************************)
EXTENDS Integers, Sequences

CONSTANT BufLen  \* the size of a bufio.Reader, at which a long line is checked early

ASSUME BufAssumption == BufLen \in Nat \ {0}

Byte == 0 .. 255
LF == 10
CR == 13
Space == 32
Dollar == 36
Star == 42
Plus == 43
Minus == 45
Zero == 48
Colon == 58
CRLF == <<CR, LF>>

\* The sequences of seqs, one after the other.
Concat(seqs) ==
  LET upTo[k \in 0 .. Len(seqs)] == IF k = 0 THEN <<>> ELSE upTo[k - 1] \o seqs[k]
  IN  upTo[Len(seqs)]

Ok(v, p) == [st |-> "ok", val |-> v, next |-> p]
Stop(why) == [st |-> why]

\* Go's  if err != nil { return err }  between two reads.
Then(r, Next(_, _)) == IF r.st = "ok" THEN Next(r.val, r.next) ELSE r

-----------------------------------------------------------------------------
(***************************************************************************)
(* Decimal numbers, as strconv writes and reads them.                      *)
(***************************************************************************)
Digits(n) ==
  LET of[m \in 0 .. n] ==
        IF m < 10 THEN <<Zero + m>> ELSE Append(of[m \div 10], Zero + (m % 10))
  IN  of[n]

Itoa(n) == IF n < 0 THEN <<Minus>> \o Digits(-n) ELSE Digits(n)

Unsigned(s) == IF s # <<>> /\ s[1] \in {Plus, Minus} THEN Tail(s) ELSE s
IsInt(s) == Unsigned(s) # <<>> /\ \A i \in DOMAIN Unsigned(s) : Unsigned(s)[i] \in Zero .. Zero + 9
Worth(u) ==
  LET upTo[k \in 0 .. Len(u)] == IF k = 0 THEN 0 ELSE 10 * upTo[k - 1] + u[k] - Zero
  IN  upTo[Len(u)]
Atoi(s) == IF s[1] = Minus THEN -Worth(Unsigned(s)) ELSE Worth(Unsigned(s))

-----------------------------------------------------------------------------
(***************************************************************************)
(* Writer.                                                                 *)
(***************************************************************************)
LineOf(prefix, s) == <<prefix>> \o s \o CRLF
ArrayLen(n) == LineOf(Star, Itoa(n))

Bulk(b) == LineOf(Dollar, Itoa(Len(b))) \o b \o CRLF

\* AOF.Append and Client.Do: the array header, then every argument as a bulk string.
Multibulk(args) == ArrayLen(Len(args)) \o Concat([i \in DOMAIN args |-> Bulk(args[i])])

-----------------------------------------------------------------------------
(***************************************************************************)
(* Readers.                                                                *)
(***************************************************************************)
\* readLine: up to the next LF, without it and without a CR before it.  A line longer
\* than max is refused, one without an end as soon as the full buffers exceed max (which
\* agrees with the first unless BufLen divides max + 1: no default limit is one).
ReadLine(s, p, max) ==
  LET ends == {i \in p .. Len(s) : s[i] = LF}
      end == CHOOSE i \in ends : \A j \in ends : i <= j
      last == IF end > p /\ s[end - 1] = CR THEN end - 2 ELSE end - 1
  IN  IF ends = {}
      THEN Stop(IF BufLen * ((Len(s) - p + 1) \div BufLen) > max THEN "perr" ELSE "eof")
      ELSE IF last - p + 1 > max THEN Stop("perr") ELSE Ok(SubSeq(s, p, last), end + 1)

\* The number of a header line after its type byte, if it is one of the legal ones.
Header(line, q, legal) ==
  IF IsInt(Tail(line)) /\ Atoi(Tail(line)) \in legal THEN Ok(Atoi(Tail(line)), q) ELSE Stop("perr")

\* Mutant: the slice that is kept is one byte too long.
ReadBodyWithCR(s, p, n) ==
  IF p > Len(s) THEN Stop("eof")
  ELSE IF Len(s) < p + n + 1 THEN Stop("short")
  ELSE IF SubSeq(s, p + n, p + n + 1) # CRLF THEN Stop("perr")
  ELSE Ok(SubSeq(s, p, p + n), p + n + 2)

\* io.ReadFull of n + 2 bytes, the last two of which must be CRLF.
ReadBody(s, p, n) ==
  IF p > Len(s) THEN Stop("eof")
  ELSE IF Len(s) < p + n + 1 THEN Stop("short")
  ELSE IF SubSeq(s, p + n, p + n + 1) # CRLF THEN Stop("perr")
  ELSE Ok(SubSeq(s, p, p + n - 1), p + n + 2)

\* Mutant: a body of exactly the limit is refused.
ReadArgBelowLimit(s, p, lim) ==
  Then(ReadLine(s, p, lim.header), LAMBDA line, q :
    IF line = <<>> \/ line[1] # Dollar THEN Stop("perr")
    ELSE Then(Header(line, q, 0 .. lim.bulk - 1), LAMBDA n, b : ReadBody(s, b, n)))

\* One argument of a multibulk command: its header line and its body.
ReadArg(s, p, lim) ==
  Then(ReadLine(s, p, lim.header), LAMBDA line, q :
    IF line = <<>> \/ line[1] # Dollar THEN Stop("perr")
    ELSE Then(Header(line, q, 0 .. lim.bulk), LAMBDA n, b : ReadBody(s, b, n)))

\* Read n values one after the other: the loops of readMultibulk and readArrayReply.
ReadEach(Read(_), p, n) ==
  LET upTo[k \in 0 .. n] ==
        IF k = 0 THEN Ok(<<>>, p)
        ELSE Then(upTo[k - 1], LAMBDA xs, q : Then(Read(q), LAMBDA x, r : Ok(Append(xs, x), r)))
  IN  upTo[n]

ReadMultibulk(s, p, lim) ==
  Then(ReadLine(s, p, lim.header), LAMBDA line, q :
    Then(Header(line, q, 1 .. lim.args), LAMBDA n, a :
      ReadEach(LAMBDA b : ReadArg(s, b, lim), a, n)))

\* A word in cur is complete.
EndWord(t) == IF t.cur = <<>> THEN t ELSE [t EXCEPT !.words = Append(@, t.cur), !.cur = <<>>]

\* bytes.Fields, for the one space character the lines here contain.
FieldStep(t, c) == IF c = Space THEN EndWord(t) ELSE [t EXCEPT !.cur = Append(@, c)]
Fields(line) ==
  LET after[k \in 0 .. Len(line)] ==
        IF k = 0 THEN [words |-> <<>>, cur |-> <<>>] ELSE FieldStep(after[k - 1], line[k])
  IN  EndWord(after[Len(line)]).words

ReadInline(s, p, lim) ==
  Then(ReadLine(s, p, lim.inline), LAMBDA line, q :
    LET fields == Fields(line)
    IN  IF fields = <<>> \/ Len(fields) > lim.args THEN Stop("perr") ELSE Ok(fields, q))

\* Mutant: the end between two commands is not told from one inside a command.
ReadCommandShort(s, p, lim) ==
  IF p > Len(s) THEN Stop("short")
  ELSE IF s[p] = Star THEN ReadMultibulk(s, p, lim) ELSE ReadInline(s, p, lim)

ReadCommand(s, p, lim) ==
  IF p > Len(s) THEN Stop("eof")
  ELSE IF s[p] = Star THEN ReadMultibulk(s, p, lim) ELSE ReadInline(s, p, lim)
=============================================================================
