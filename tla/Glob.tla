-------------------------------- MODULE Glob --------------------------------
(***************************************************************************)
(* The glob matcher of KEYS and SCAN, internal/store/glob.go: a loop with  *)
(* one backtracking point, run step by step on every pattern and name of a *)
(* bounded size and compared with what the patterns mean.                  *)
(*                                                                         *)
(* Bytes are their ASCII codes, of which the operators are named below.    *)
(* Positions are 1-based.                                                  *)
(***************************************************************************)
EXTENDS Naturals, Sequences

CONSTANTS PatternBytes, NameBytes, MaxPattern, MaxName

Bytes == 0 .. 255

ASSUME GlobAssumption ==
  PatternBytes \subseteq Bytes /\ NameBytes \subseteq Bytes /\ MaxPattern \in Nat /\ MaxName \in Nat

Bang == 33
Star == 42
Dash == 45
Question == 63
Open == 91
Backslash == 92
CloseB == 93
Caret == 94

VARIABLES
  pattern, s,  \* the arguments
  pi, si,      \* positions in them
  star, mark,  \* the last '*' (0: none) and where in s it began to match
  verdict      \* "running", "match" or "mismatch"

vars == <<pattern, s, pi, si, star, mark, verdict>>

\* matchClass: walk the members from position i on.  "closed" tells whether the class
\* ends, "next" where it goes on after it, "hit" whether ch is one of the members.
Walk(p, ch, i) ==
  LET n == Len(p)
      Found(hit, rest) == [closed |-> rest.closed, hit |-> hit \/ rest.hit, next |-> rest.next]
      from[j \in 1 .. n + 1] ==
        IF j > n THEN [closed |-> FALSE, hit |-> FALSE, next |-> 0]
        ELSE IF p[j] = CloseB THEN [closed |-> TRUE, hit |-> FALSE, next |-> j + 1]
        ELSE IF p[j] = Backslash /\ j < n THEN Found(ch = p[j + 1], from[j + 2])
        ELSE IF j + 2 <= n /\ p[j + 1] = Dash /\ p[j + 2] # CloseB
          THEN Found(p[j] <= ch /\ ch <= p[j + 2], from[j + 3])
        ELSE Found(ch = p[j], from[j + 1])
  IN  from[i]

\* Mutant: '^' is an ordinary member.
MatchClassPositive(p, pos, ch) ==
  LET walk == Walk(p, ch, pos + 1)
  IN  [ok |-> walk.closed /\ walk.hit, next |-> walk.next]

MatchClass(p, pos, ch) ==
  LET negate == pos < Len(p) /\ p[pos + 1] \in {Caret, Bang}
      walk == Walk(p, ch, pos + (IF negate THEN 2 ELSE 1))
  IN  [ok |-> walk.closed /\ walk.hit # negate, next |-> walk.next]

StringsOf(bytes, max) == UNION {[1 .. n -> bytes] : n \in 0 .. max}

Init ==
  /\ pattern \in StringsOf(PatternBytes, MaxPattern)
  /\ s \in StringsOf(NameBytes, MaxName)
  /\ pi = 1 /\ si = 1 /\ star = 0 /\ mark = 1
  /\ verdict = "running"

InName == verdict = "running" /\ si <= Len(s)
At == IF pi <= Len(pattern) THEN pattern[pi] ELSE 0
Escaped == At = Backslash /\ pi < Len(pattern)
ClassHere == MatchClass(pattern, pi, s[si])

\* Where the pattern goes on if it takes the byte s[si] here, or 0 if it does not.  A
\* class that does not match leaves '[' as a literal.
TakenTo ==
  IF pi > Len(pattern) THEN 0
  ELSE IF Escaped THEN IF pattern[pi + 1] = s[si] THEN pi + 2 ELSE 0
  ELSE IF At = Question THEN pi + 1
  ELSE IF At = Open /\ ClassHere.ok THEN ClassHere.next
  ELSE IF At = s[si] THEN pi + 1 ELSE 0

StarHere ==
  /\ InName /\ At = Star
  /\ star' = pi /\ mark' = si /\ pi' = pi + 1
  /\ UNCHANGED <<pattern, s, si, verdict>>

Take ==
  /\ InName /\ At # Star /\ TakenTo # 0
  /\ pi' = TakenTo /\ si' = si + 1
  /\ UNCHANGED <<pattern, s, star, mark, verdict>>

\* Mutant: the star swallows no more than it did.
BacktrackInPlace ==
  /\ InName /\ At # Star /\ TakenTo = 0
  /\ IF star # 0
     THEN /\ pi' = star + 1 /\ si' = mark
          /\ UNCHANGED <<mark, verdict>>
     ELSE /\ verdict' = "mismatch"
          /\ UNCHANGED <<pi, mark, si>>
  /\ UNCHANGED <<pattern, s, star>>

\* A mismatch: the last '*' takes one byte more.
Backtrack ==
  /\ InName /\ At # Star /\ TakenTo = 0
  /\ IF star # 0
     THEN /\ pi' = star + 1 /\ mark' = mark + 1 /\ si' = mark + 1
          /\ UNCHANGED verdict
     ELSE /\ verdict' = "mismatch"
          /\ UNCHANGED <<pi, mark, si>>
  /\ UNCHANGED <<pattern, s, star>>

\* After the name: only '*' may be left of the pattern.
Finish ==
  /\ verdict = "running" /\ si > Len(s)
  /\ verdict' = IF \A j \in pi .. Len(pattern) : pattern[j] = Star THEN "match" ELSE "mismatch"
  /\ UNCHANGED <<pattern, s, pi, si, star, mark>>

Next == StarHere \/ Take \/ Backtrack \/ Finish

Spec == Init /\ [][Next]_vars /\ WF_vars(Next)

-----------------------------------------------------------------------------
(***************************************************************************)
(* What a pattern means.  Between the stars it is a row of byte sets.      *)
(***************************************************************************)
\* The class that begins after the '[' at pos: whether it is closed, the set of its
\* members, and where the pattern goes on.
ClassAt(p, pos) ==
  LET n == Len(p)
      plus(set, rest) == [closed |-> rest.closed, set |-> set \cup rest.set, next |-> rest.next]
      from[j \in 1 .. n + 1] ==
        IF j > n THEN [closed |-> FALSE, set |-> {}, next |-> 0]
        ELSE IF p[j] = CloseB THEN [closed |-> TRUE, set |-> {}, next |-> j + 1]
        ELSE IF p[j] = Backslash /\ j < n THEN plus({p[j + 1]}, from[j + 2])
        ELSE IF j + 2 <= n /\ p[j + 1] = Dash /\ p[j + 2] # CloseB
          THEN plus(p[j] .. p[j + 2], from[j + 3])
        ELSE plus({p[j]}, from[j + 1])
      inverted == pos < n /\ p[pos + 1] \in {Caret, Bang}
      members == from[pos + (IF inverted THEN 2 ELSE 1)]
  IN  [closed |-> members.closed, next |-> members.next,
       set |-> IF inverted THEN Bytes \ members.set ELSE members.set]

\* The element at i, which is no '*': the bytes it stands for, and where the next begins.
Element(p, i) ==
  LET class == ClassAt(p, i)
  IN  IF p[i] = Question THEN [set |-> Bytes, next |-> i + 1]
      ELSE IF p[i] = Backslash /\ i < Len(p) THEN [set |-> {p[i + 1]}, next |-> i + 2]
      ELSE IF p[i] = Open /\ class.closed THEN [set |-> class.set, next |-> class.next]
      ELSE [set |-> {p[i]}, next |-> i + 1]

\* For every position i of the pattern the positions of the name from which on, to its
\* end, it is bytes and runs that the pattern stands for from i on.
FitsFrom(p, name) ==
  LET n == Len(p)
      m == Len(name)
      fits[i \in 1 .. n + 1] ==
        IF i > n THEN {m + 1}
        ELSE IF p[i] = Star THEN {j \in 1 .. m + 1 : \E k \in j .. m + 1 : k \in fits[i + 1]}
        ELSE {j \in 1 .. m : /\ name[j] \in Element(p, i).set
                             /\ j + 1 \in fits[Element(p, i).next]}
  IN  fits

Fits(p, name) == 1 \in FitsFrom(p, name)[1]

\* A class and a '[' to be taken literally do not meet: globMatch lets the '[' of a class
\* that does not hold the byte '[' stand for it.
Unambiguous ==
  \/ \A j \in DOMAIN s : s[j] # Open
  \/ \A i \in DOMAIN pattern : pattern[i] = Open => ~ClassAt(pattern, i).closed

\* GlobMatch returns what the pattern means: "*", "?", classes, ranges, negation and
\* escapes in any combination, although the loop remembers only the last '*' it met.
MatchesMeaning ==
  Unambiguous /\ verdict # "running" => (verdict = "match" <=> Fits(pattern, s))

\* No turn of the loop repeats an earlier one: it comes to a later '*', or gives the last
\* one a byte more, or goes on in the name, each of which has an end.
Advances ==
  [][\/ verdict' # "running"
     \/ /\ star' <= Len(pattern) /\ mark' <= Len(s) + 1 /\ si' <= Len(s) + 1
        /\ \/ star' > star
           \/ star' = star /\ mark' > mark
           \/ star' = star /\ mark' = mark /\ si' > si]_vars

\* The matching loop comes to an end: every mismatch moves the mark of the last '*'.
Terminates == <>(verdict # "running")
=============================================================================
