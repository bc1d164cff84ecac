------------------------------- MODULE MCWire -------------------------------
(***************************************************************************)
(* Small instances of Wire.  The values hold the bytes that frame values:  *)
(* a bulk body that looks like headers, an empty one, one of two digits'   *)
(* length.                                                                 *)
(***************************************************************************)
EXTENDS Wire, RespReplies

a == 97
b == 98
NL == <<CR, LF>>

Word == <<a, b>>
Frame == <<Star, 49, CR, LF>>        \* "*1\r\n"
Ten == <<a, b, Dollar, 49, CR, LF, a, CR, LF, b>>
Long == Append(Ten, a)               \* over MCLim.bulk

MCCommands ==
  { <<Word>>, <<Word, <<>> >>, <<Word, Frame>>, <<Word, Ten>>, <<Word, Long>>,
    <<Word, Word, NL>>, <<Word, Word, Word, Word>> }
MCTyped == { <<Word, <<a, Space, b>> >>, <<Word, <<DoubleQuote, Backslash>>, <<Space>> >> }
\* An empty string is lost between its quotes.
EmptyTyped == { <<Word, <<>> >> }
\* One line as long as MCLim.inline, and one longer.
MCLines == { <<Word>>, << <<a>>, <<Dollar, b>> >>, <<Word, Word>> }

SimpleR(s) == [kind |-> "simple", str |-> s]
ErrorR(s) == [kind |-> "error", str |-> s]
IntR(n) == [kind |-> "integer", int |-> n]
BulkR(s) == [kind |-> "bulk", str |-> s]
NullR == [kind |-> "null"]
ArrayR(xs) == [kind |-> "array", array |-> xs]

\* Every kind of reply, and the nested array of SCAN.
MCReplies ==
  { SimpleR(Word), ErrorR(<<a, CR, b>>), IntR(0), IntR(-12), BulkR(<<>>), BulkR(Ten), NullR,
    ArrayR(<<>>), ArrayR(<<BulkR(Frame), NullR>>),
    ArrayR(<<BulkR(<<Zero>>), ArrayR(<<BulkR(NL), BulkR(Word)>>)>>) }

MCLim == [bulk |-> 10, args |-> 3, inline |-> 5, header |-> 4]

\* The commands of the torn log: a write and a flush.
TornCommands == { <<Word, Word>>, <<Frame>> }
\* A server configured with a larger limit than the defaults Load uses.
LargeLim == [MCLim EXCEPT !.bulk = 11]

====
