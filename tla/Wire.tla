-------------------------------- MODULE Wire --------------------------------
(***************************************************************************)
(* The byte streams of the system and their readers.  A stream is          *)
(*   "request"  what a client sends: handle reads it with ReadCommand;     *)
(*   "reply"    what the server answers: Client.Do reads it with ReadReply;*)
(*   "log"      the append-only file: Append writes it while the server    *)
(*              runs, Load reads it with ReadCommand at the next start.    *)
(*                                                                         *)
(* On a connection the bytes arrive in fragments and the reader waits for  *)
(* more; either side may go away at any byte.  A crash keeps a prefix of   *)
(* the log that ends at any byte.  A start that succeeds appends after     *)
(* whatever is there (O_APPEND).                                           *)
(***************************************************************************)
EXTENDS Resp

CONSTANTS
  Commands,   \* argument lists clients send in the multibulk form
  Lines,      \* argument lists clients send as an inline line
  Typed,      \* argument lists typed, in quotes, at the prompt of memx-cli
  Replies,    \* replies of the server
  Lim,        \* the limits of the server's connections
  LoadLim,    \* DefaultLimits, with which Load and Client.Do read
  WriteReply(_), ParseReply(_, _, _),  \* WriteTo and ReadReply of RespReplies
  MaxItems, MaxCuts

\* Limits as the code has them: a header line has room for its type byte, a number within
\* the limits and a CR (MaxHeaderLen is 64).
IsLimits(lim) ==
  /\ lim.bulk \in Nat /\ lim.args \in Nat /\ lim.inline \in Nat /\ lim.header \in Nat
  /\ \A n \in 0 .. lim.args \cup 0 .. lim.bulk : Len(Itoa(n)) + 2 <= lim.header

\* The characters of a line: an inline command is words of visible ones.
Visible == 33 .. 126
Printable == Visible \cup {Space}

ASSUME WireAssumption ==
  /\ MaxItems \in Nat /\ MaxCuts \in Nat /\ IsLimits(Lim) /\ IsLimits(LoadLim)
  /\ Commands \subseteq Seq(Seq(Byte)) \ {<<>>}
  /\ Lines \subseteq Seq(Seq(Visible) \ {<<>>}) \ {<<>>} /\ \A l \in Lines : l[1][1] # Star
  /\ Typed \subseteq Seq(Seq(Printable)) \ {<<>>}

VARIABLES
  kind,      \* which stream this is
  wrote,     \* the commands or replies in it
  stream,    \* its bytes
  arrived,   \* how many of them the reader can get
  ended,     \* no more will come
  pos, read, \* the reader's position, and what it has returned
  reader,    \* "reading", "ended": a clean end, or "failed": an error
  cuts,      \* ends of the stream so far
  torn       \* the log was appended to after half a record

vars == <<kind, wrote, stream, arrived, ended, pos, read, reader, cuts, torn>>

-----------------------------------------------------------------------------
DoubleQuote == 34
Backslash == 92

\* Tokenize of internal/cli: the arguments in a line typed at the prompt.  Its state is the
\* tokens so far, the one being read and the two flags.
Token(words, cur, inQuote, escape) ==
  [words |-> words, cur |-> cur, inQuote |-> inQuote, escape |-> escape]
EndToken(t) ==
  IF t.cur = <<>> THEN t ELSE Token(Append(t.words, t.cur), <<>>, t.inQuote, t.escape)
TokenStep(t, r) ==
  IF t.escape THEN Token(t.words, Append(t.cur, r), t.inQuote, FALSE)
  ELSE IF r = Backslash THEN Token(t.words, t.cur, t.inQuote, TRUE)
  ELSE IF r = DoubleQuote THEN Token(t.words, t.cur, ~t.inQuote, FALSE)
  ELSE IF r = Space /\ ~t.inQuote THEN EndToken(t)
  ELSE Token(t.words, Append(t.cur, r), t.inQuote, FALSE)
Tokenize(line) ==
  LET after[k \in 0 .. Len(line)] ==
        IF k = 0 THEN Token(<<>>, <<>>, FALSE, FALSE) ELSE TokenStep(after[k - 1], line[k])
  IN  EndToken(after[Len(line)]).words

\* How a user types arguments: each in quotes, with a backslash before what is special there.
Escaped(r) == IF r \in {DoubleQuote, Backslash} THEN <<Backslash, r>> ELSE <<r>>
QuotedArg(arg) ==
  <<DoubleQuote>> \o Concat([i \in DOMAIN arg |-> Escaped(arg[i])]) \o <<DoubleQuote, Space>>
Quoted(args) == Concat([n \in DOMAIN args |-> QuotedArg(args[n])])

Within(args, lim) == Len(args) <= lim.args /\ \A i \in DOMAIN args : Len(args[i]) <= lim.bulk

\* What can be written: clients send what they like, the log holds what the server has
\* accepted, replies are the server's.
Items ==
  CASE kind = "request" -> {[form |-> "multibulk", val |-> c] : c \in Commands}
                             \cup {[form |-> "inline", val |-> l] : l \in Lines}
                             \cup {[form |-> "typed", val |-> l] : l \in Typed}
    [] kind = "log"     -> {[form |-> "multibulk", val |-> c] : c \in {c \in Commands : Within(c, Lim)}}
    [] kind = "reply"   -> {[form |-> "reply", val |-> r] : r \in Replies}

\* An inline command is words, spaces, and an end of line with no CR.
InlineLine(args) == Concat([n \in DOMAIN args |-> Append(args[n], Space)])
Encode(i) ==
  CASE i.form = "multibulk" -> Multibulk(i.val)
    [] i.form = "inline"    -> Append(InlineLine(i.val), LF)
    [] i.form = "typed"     -> Multibulk(Tokenize(Quoted(i.val)))
    [] i.form = "reply"     -> WriteReply(i.val)

Decode(s, p) ==
  CASE kind = "request" -> ReadCommand(s, p, Lim)
    [] kind = "log"     -> ReadCommand(s, p, LoadLim)
    [] kind = "reply"   -> ParseReply(s, p, LoadLim)

Got == Decode(SubSeq(stream, 1, arrived), pos)

Init ==
  /\ kind \in {"request", "reply", "log"}
  /\ wrote = <<>> /\ stream = <<>> /\ arrived = 0 /\ ended = FALSE
  /\ pos = 1 /\ read = <<>> /\ reader = "reading"
  /\ cuts = 0 /\ torn = FALSE

\* Append, Client.Do's request, an inline line, Reply.WriteTo: the bytes and a Flush.
Write ==
  /\ ~ended /\ reader = "reading" /\ Len(wrote) < MaxItems
  /\ \E i \in Items : wrote' = Append(wrote, i) /\ stream' = stream \o Encode(i)
  /\ UNCHANGED <<kind, arrived, ended, pos, read, reader, cuts, torn>>

\* The next fragment of a connection.
Arrive ==
  /\ kind # "log"
  /\ \E n \in arrived + 1 .. Len(stream) : arrived' = n
  /\ UNCHANGED <<kind, wrote, stream, ended, pos, read, reader, cuts, torn>>

\* The writer is gone: the connection is closed, or the server stops or crashes and
\* starts again.  What was not delivered, or not on the disk, may be lost.
Cut ==
  /\ ~ended /\ cuts < MaxCuts
  /\ \E n \in arrived .. Len(stream) : stream' = SubSeq(stream, 1, n) /\ arrived' = n
  /\ ended' = TRUE /\ cuts' = cuts + 1
  /\ UNCHANGED <<kind, wrote, pos, read, reader, torn>>

\* Mutant: a byte between two items is skipped.
ReadSkips ==
  /\ reader = "reading" /\ (kind = "log" => ended)
  /\ \/ /\ Got.st = "ok"
        /\ read' = Append(read, Got.val) /\ pos' = Got.next + 1 /\ UNCHANGED reader
     \/ /\ Got.st = "eof" /\ ended
        /\ reader' = "ended" /\ UNCHANGED <<read, pos>>
     \/ /\ Got.st = "perr" \/ (Got.st = "short" /\ ended)
        /\ reader' = "failed" /\ UNCHANGED <<read, pos>>
  /\ UNCHANGED <<kind, wrote, stream, arrived, ended, cuts, torn>>

\* One turn of the loops of handle and Load, one ReadReply of Do.  Before its end a
\* connection's reader waits where the end of the bytes would stop it.
Read ==
  /\ reader = "reading" /\ (kind = "log" => ended)
  /\ \/ /\ Got.st = "ok"
        /\ read' = Append(read, Got.val) /\ pos' = Got.next /\ UNCHANGED reader
     \/ /\ Got.st = "eof" /\ ended
        /\ reader' = "ended" /\ UNCHANGED <<read, pos>>
     \/ /\ Got.st = "perr" \/ (Got.st = "short" /\ ended)
        /\ reader' = "failed" /\ UNCHANGED <<read, pos>>
  /\ UNCHANGED <<kind, wrote, stream, arrived, ended, cuts, torn>>

\* Load returned no error: the server has what was read, runs and appends to the file.
Restart ==
  /\ kind = "log" /\ reader = "ended"
  /\ torn' = (torn \/ pos <= Len(stream))
  /\ wrote' = [i \in DOMAIN read |-> [form |-> "multibulk", val |-> read[i]]]
  /\ arrived' = 0 /\ ended' = FALSE /\ pos' = 1 /\ read' = <<>> /\ reader' = "reading"
  /\ UNCHANGED <<kind, stream, cuts>>

Next == Write \/ Arrive \/ Cut \/ Read \/ Restart

Spec == Init /\ [][Next]_vars

-----------------------------------------------------------------------------
\* The sequence s begins with the sequence t.
Begins(t, s) == Len(t) <= Len(s) /\ \A i \in DOMAIN t : t[i] = s[i]

Values == [i \in DOMAIN wrote |-> wrote[i].val]

\* Where item i of wrote ends, as long as the log is not torn.
EndOf(i) == Len(Concat([j \in 1 .. i |-> Encode(wrote[j])]))

\* The items a reader must return from what has arrived: the whole ones, up to the first
\* that is over the limits of its reader.
Fits(i, lim) ==
  IF i.form = "inline" THEN Len(i.val) <= lim.args /\ Len(InlineLine(i.val)) <= lim.inline
  ELSE Within(i.val, lim)
Refused(i) == kind = "request" /\ ~Fits(wrote[i], Lim)
Due == CHOOSE n \in 0 .. Len(wrote) :
         /\ \A i \in 1 .. n : EndOf(i) <= arrived /\ ~Refused(i)
         /\ n < Len(wrote) => EndOf(n + 1) > arrived \/ Refused(n + 1)

TypeOK ==
  /\ kind \in {"request", "reply", "log"}
  /\ arrived \in 0 .. Len(stream) /\ pos \in 1 .. Len(stream) + 1
  /\ ended \in BOOLEAN /\ torn \in BOOLEAN /\ cuts \in 0 .. MaxCuts
  /\ reader \in {"reading", "ended", "failed"}

\* ReadCommand and ReadReply invert Append, Do and WriteTo on a pipelined stream, however
\* it is fragmented and wherever it is cut: what they have returned is what was written,
\* in order, with no value invented, merged or altered, whatever bytes the values hold, and
\* Tokenize undoes the quotes.
ReadsBack == ~torn => Begins(read, Values)

\* The log is "a faithful, replayable record of all mutations" after every crash and start.
LogReadsBack == Begins(read, Values)

\* A reader never stops before a whole item and never returns half of one: when it cannot
\* go on, it has returned exactly the whole items that arrived, up to the first over the
\* limits.  After a crash Load replays every record that is entirely in the file.
WholeItemsRead == ~torn /\ (reader # "reading" \/ Got.st # "ok") => Len(read) = Due

\* An error (Load's makes the server exit, handle's closes the connection) is raised only
\* for a command over the limits or for an item the end of the stream has cut.
FailsForCause ==
  reader = "failed" /\ ~torn =>
    /\ Due < Len(wrote)
    /\ Refused(Due + 1) \/ (ended /\ pos <= Len(stream) /\ EndOf(Due + 1) > Len(stream))
=============================================================================
