----------------------------- MODULE GlobProofs -----------------------------
(***************************************************************************)
(* Proofs about Glob.tla, for patterns and names of any length: the loop   *)
(* of globMatch, which remembers only the last '*', decides what the       *)
(* pattern means.                                                          *)
(*                                                                         *)
(* The meaning and the walk through a class are recursive functions, so    *)
(* the first lemmas are induction from the end of a string and the         *)
(* existence of functions defined from there.                              *)
(***************************************************************************)
EXTENDS Glob, WellFoundedInduction, TLAPS

\* Induction from N down to 1.
LEMMA Downwards ==
  ASSUME NEW N \in Nat, NEW T,
         \A j \in 1 .. N : (\A i \in j + 1 .. N : i \in T) => j \in T
  PROVE  \A j \in 1 .. N : j \in T
<1> DEFINE U == {k \in Nat : k < N /\ N - k \notin T}
<1>1. SUFFICES ASSUME U # {} PROVE FALSE
  <2>1. SUFFICES ASSUME NEW j \in 1 .. N, j \notin T PROVE FALSE
    OBVIOUS
  <2>2. N - j \in Nat /\ N - j < N /\ N - (N - j) = j
    OBVIOUS
  <2>3. N - j \in U
    BY <2>1, <2>2
  <2> QED
    BY <1>1, <2>3, Zenon
<1>2. U \subseteq Nat
  OBVIOUS
<1> HIDE DEF U
<1>3. PICK k \in U : \A i \in U : ~(<<i, k>> \in OpToRel(<, Nat))
  BY <1>1, <1>2, NatLessThanWellFounded, WFMin, Zenon
<1>4. \A i \in U : ~(i < k)
  BY <1>3, <1>2, Zenon DEF OpToRel
<1>5. k \in Nat /\ k < N /\ N - k \notin T
  BY DEF U
<1>6. N - k \in 1 .. N
  BY <1>5
<1>7. ASSUME NEW i \in N - k + 1 .. N PROVE i \in T
  <2>1. N - i \in Nat /\ N - i < k /\ N - i < N /\ N - (N - i) = i
    BY <1>5
  <2>2. N - i \notin U
    BY <1>4, <2>1
  <2> QED
    BY <2>1, <2>2 DEF U
<1> QED
  BY <1>5, <1>6, <1>7

\* The value of F[f] at j depends only on the values of f after j.
LooksAhead(F, N, V) ==
  /\ F \in [[1 .. N -> V] -> [1 .. N -> V]]
  /\ \A f, g \in [1 .. N -> V] : \A j \in 1 .. N :
        (\A i \in j + 1 .. N : f[i] = g[i]) => F[f][j] = F[g][j]

Defines(F, N, V) == \E f \in [1 .. N -> V] : f = F[f]

\* Then the equation f = F[f] defines a function.
LEMMA DefinedFromTheEnd ==
  ASSUME NEW N \in Nat, NEW V, V # {},
         NEW F, LooksAhead(F, N, V)
  PROVE  Defines(F, N, V)
<1>0. F \in [[1 .. N -> V] -> [1 .. N -> V]]
  BY DEF LooksAhead
<1> DEFINE Done(f, k) == \A j \in k .. N : F[f][j] = f[j]
           T == {k \in 1 .. N + 1 : \E f \in [1 .. N -> V] : Done(f, k)}
<1>1. N + 1 \in T
  <2>1. PICK v \in V : TRUE
    OBVIOUS
  <2>2. [j \in 1 .. N |-> v] \in [1 .. N -> V]
    OBVIOUS
  <2>3. Done([j \in 1 .. N |-> v], N + 1)
    OBVIOUS
  <2> QED
    BY <2>2, <2>3
<1>2. ASSUME NEW k \in 1 .. N, k + 1 \in T PROVE k \in T
  <2>1. PICK f \in [1 .. N -> V] : Done(f, k + 1)
    BY <1>2
  <2> DEFINE g == F[f]
  <2>2. g \in [1 .. N -> V]
    BY <1>0
  <2>3. ASSUME NEW j \in k .. N PROVE F[g][j] = g[j]
    <3>1. \A i \in j + 1 .. N : i \in k + 1 .. N
      OBVIOUS
    <3>2. \A i \in j + 1 .. N : g[i] = f[i]
      BY <2>1, <3>1
    <3>3. j \in 1 .. N
      OBVIOUS
    <3> QED
      BY <2>2, <3>2, <3>3, Zenon DEF LooksAhead
  <2>4. Done(g, k)
    BY <2>3
  <2>5. k \in 1 .. N + 1
    OBVIOUS
  <2> QED
    BY <2>2, <2>4, <2>5, Zenon
<1> HIDE DEF T
<1>3. \A j \in 1 .. N + 1 : (\A i \in j + 1 .. N + 1 : i \in T) => j \in T
  <2> SUFFICES ASSUME NEW j \in 1 .. N + 1, \A i \in j + 1 .. N + 1 : i \in T PROVE j \in T
    OBVIOUS
  <2>1. CASE j = N + 1
    BY <1>1, <2>1
  <2>2. CASE j \in 1 .. N
    <3>1. j + 1 \in j + 1 .. N + 1
      BY <2>2
    <3> QED
      BY <1>2, <2>2, <3>1
  <2> QED
    BY <2>1, <2>2
<1>4. 1 \in T
  <2>1. N + 1 \in Nat /\ 1 \in 1 .. N + 1
    OBVIOUS
  <2> QED
    BY <1>3, <2>1, Downwards, Zenon
<1>5. PICK f \in [1 .. N -> V] : Done(f, 1)
  BY <1>4 DEF T
<1>6. F[f] \in [1 .. N -> V]
  BY <1>0
<1>7. \A j \in 1 .. N : F[f][j] = f[j]
  BY <1>5
<1>8. f = F[f]
  BY <1>6, <1>7
<1> QED
  BY <1>8 DEF Defines

-----------------------------------------------------------------------------
(***************************************************************************)
(* Classes: what matchClass finds, and the set a class stands for.         *)
(***************************************************************************)
Walked == [closed : BOOLEAN, hit : BOOLEAN, next : Nat]

\* The member at j of a class: the bytes it adds, and where the next one begins.
Escape(p, j) == p[j] = Backslash /\ j < Len(p)
Span(p, j) == j + 2 <= Len(p) /\ p[j + 1] = Dash /\ p[j + 2] # CloseB
Members(p, j) ==
  IF Escape(p, j) THEN {p[j + 1]} ELSE IF Span(p, j) THEN p[j] .. p[j + 2] ELSE {p[j]}
Skip(p, j) == IF Escape(p, j) THEN j + 2 ELSE IF Span(p, j) THEN j + 3 ELSE j + 1

\* A member of a class is in the pattern: the next one starts further on.
LEMMA MemberType ==
  ASSUME NEW p \in Seq(Bytes), NEW j \in 1 .. Len(p)
  PROVE  Skip(p, j) \in j + 1 .. Len(p) + 1 /\ Members(p, j) \subseteq Bytes
<1>1. Len(p) \in Nat /\ \A i \in 1 .. Len(p) : p[i] \in Bytes
  OBVIOUS
<1>2. CASE Escape(p, j)
  BY <1>1, <1>2 DEF Skip, Members, Escape
<1>3. CASE ~Escape(p, j) /\ Span(p, j)
  <2>1. p[j] \in Bytes /\ p[j + 2] \in Bytes
    BY <1>1, <1>3 DEF Span
  <2>2. \A a, b \in Bytes : a .. b \subseteq Bytes
    BY DEF Bytes
  <2> QED
    BY <1>1, <1>3, <2>1, <2>2 DEF Skip, Members, Span
<1>4. CASE ~Escape(p, j) /\ ~Span(p, j)
  BY <1>1, <1>4 DEF Skip, Members
<1> QED
  BY <1>2, <1>3, <1>4

\* One turn of the loop of matchClass at j, where f holds the rest.
WalkStep(p, ch, f, j) ==
  IF j > Len(p) THEN [closed |-> FALSE, hit |-> FALSE, next |-> 0]
  ELSE IF p[j] = CloseB THEN [closed |-> TRUE, hit |-> FALSE, next |-> j + 1]
  ELSE [closed |-> f[Skip(p, j)].closed, hit |-> ch \in Members(p, j) \/ f[Skip(p, j)].hit,
        next |-> f[Skip(p, j)].next]

\* What a closed, still to be walked class is from j on.
ClassStep(p, f, j) ==
  IF j > Len(p) THEN [closed |-> FALSE, set |-> {}, next |-> 0]
  ELSE IF p[j] = CloseB THEN [closed |-> TRUE, set |-> {}, next |-> j + 1]
  ELSE [closed |-> f[Skip(p, j)].closed, set |-> Members(p, j) \cup f[Skip(p, j)].set,
        next |-> f[Skip(p, j)].next]

Walks(w, p, ch) == w = [j \in 1 .. Len(p) + 1 |-> WalkStep(p, ch, w, j)]
Collects(w, p) == w = [j \in 1 .. Len(p) + 1 |-> ClassStep(p, w, j)]

Classed == [closed : BOOLEAN, set : SUBSET Bytes, next : Nat]

\* One step of the two walks through a class keeps their types.
LEMMA StepTypes ==
  ASSUME NEW p \in Seq(Bytes), NEW ch, NEW f, NEW j \in 1 .. Len(p) + 1
  PROVE  /\ (j <= Len(p) => f[Skip(p, j)] \in Walked) => WalkStep(p, ch, f, j) \in Walked
         /\ (j <= Len(p) => f[Skip(p, j)] \in Classed) => ClassStep(p, f, j) \in Classed
<1>1. Len(p) \in Nat
  OBVIOUS
<1>2. CASE j > Len(p)
  BY <1>2 DEF WalkStep, ClassStep, Walked, Classed
<1>3. CASE j <= Len(p)
  <2>1. ASSUME f[Skip(p, j)] \in Walked PROVE WalkStep(p, ch, f, j) \in Walked
    BY <1>1, <1>3, <2>1 DEF WalkStep, Walked
  <2>2. ASSUME f[Skip(p, j)] \in Classed PROVE ClassStep(p, f, j) \in Classed
    <3>1. Members(p, j) \subseteq Bytes
      BY <1>1, <1>3, MemberType
    <3> QED
      BY <1>1, <1>3, <2>2, <3>1 DEF ClassStep, Classed
  <2> QED
    BY <1>3, <2>1, <2>2
<1> QED
  BY <1>1, <1>2, <1>3

\* The walk through a class is the function its loop defines.
LEMMA WalkEquation ==
  ASSUME NEW p \in Seq(Bytes), NEW ch \in Bytes
  PROVE  \E w : /\ Walks(w, p, ch)
               /\ \A i \in 1 .. Len(p) + 1 : Walk(p, ch, i) = w[i]
<1> DEFINE D == 1 .. Len(p) + 1
           F == [f \in [D -> Walked] |-> [j \in D |-> WalkStep(p, ch, f, j)]]
<1>1. Len(p) + 1 \in Nat
  OBVIOUS
<1>2. F \in [[D -> Walked] -> [D -> Walked]]
  <2>1. ASSUME NEW f \in [D -> Walked], NEW j \in D PROVE WalkStep(p, ch, f, j) \in Walked
    <3>1. j <= Len(p) => Skip(p, j) \in D
      BY <1>1, MemberType
    <3>2. j <= Len(p) => f[Skip(p, j)] \in Walked
      BY <3>1
    <3> QED
      BY <3>2, StepTypes
  <2> QED
    BY <2>1
<1>3. LooksAhead(F, Len(p) + 1, Walked)
  <2> SUFFICES ASSUME NEW f \in [D -> Walked], NEW g \in [D -> Walked], NEW j \in D,
                      \A i \in j + 1 .. Len(p) + 1 : f[i] = g[i]
               PROVE  F[f][j] = F[g][j]
    BY <1>2, Zenon DEF LooksAhead
  <2>1. j <= Len(p) => f[Skip(p, j)] = g[Skip(p, j)]
    BY <1>1, MemberType
  <2>2. WalkStep(p, ch, f, j) = WalkStep(p, ch, g, j)
    BY <1>1, <2>1 DEF WalkStep
  <2> QED
    BY <2>2
<1>4. Walked # {}
  <2>1. [closed |-> FALSE, hit |-> FALSE, next |-> 0] \in Walked
    BY DEF Walked
  <2> QED
    BY <2>1
<1>5. Defines(F, Len(p) + 1, Walked)
  <2> HIDE DEF F
  <2> QED
    BY <1>1, <1>3, <1>4, DefinedFromTheEnd, Zenon
<1>6. \E f : f = [j \in D |-> WalkStep(p, ch, f, j)]
  BY <1>5 DEF Defines
<1> DEFINE Found(hit, rest) == [closed |-> rest.closed, hit |-> hit \/ rest.hit, next |-> rest.next]
           Turn(f, j) ==
             IF j > Len(p) THEN [closed |-> FALSE, hit |-> FALSE, next |-> 0]
             ELSE IF p[j] = CloseB THEN [closed |-> TRUE, hit |-> FALSE, next |-> j + 1]
             ELSE IF p[j] = Backslash /\ j < Len(p) THEN Found(ch = p[j + 1], f[j + 2])
             ELSE IF j + 2 <= Len(p) /\ p[j + 1] = Dash /\ p[j + 2] # CloseB
               THEN Found(p[j] <= ch /\ ch <= p[j + 2], f[j + 3])
             ELSE Found(ch = p[j], f[j + 1])
           w == CHOOSE f : f = [j \in D |-> Turn(f, j)]
<1>7. \A f : \A j \in D : Turn(f, j) = WalkStep(p, ch, f, j)
  <2> SUFFICES ASSUME NEW f, NEW j \in D PROVE Turn(f, j) = WalkStep(p, ch, f, j)
    BY Zenon
  <2>1. CASE j > Len(p) \/ p[j] = CloseB
    BY <2>1, Zenon DEF WalkStep
  <2>2. CASE ~(j > Len(p)) /\ p[j] # CloseB
    <3>1. CASE Escape(p, j)
      BY <2>2, <3>1 DEF WalkStep, Members, Skip, Escape
    <3>2. CASE ~Escape(p, j) /\ Span(p, j)
      <4>1. p[j] \in Bytes /\ p[j + 2] \in Bytes
        BY <1>1, <2>2, <3>2 DEF Span
      <4>2. Members(p, j) = p[j] .. p[j + 2] /\ Skip(p, j) = j + 3
        BY <3>2, Zenon DEF Members, Skip
      <4>3. ch \in Members(p, j) <=> p[j] <= ch /\ ch <= p[j + 2]
        BY <4>1, <4>2 DEF Bytes
      <4> QED
        BY <2>2, <3>2, <4>2, <4>3 DEF WalkStep, Escape, Span
    <3>3. CASE ~Escape(p, j) /\ ~Span(p, j)
      BY <2>2, <3>3 DEF WalkStep, Members, Skip, Escape, Span
    <3> QED
      BY <3>1, <3>2, <3>3, Zenon
  <2> QED
    BY <2>1, <2>2, Zenon
<1>8. \A i \in D : Walk(p, ch, i) = w[i]
  BY Zenon DEF Walk
<1> HIDE DEF Turn
<1>9. \E f : f = [j \in D |-> Turn(f, j)]
  BY <1>6, <1>7
<1>10. w = [j \in D |-> Turn(w, j)]
  BY <1>9, Zenon
<1> HIDE DEF w
<1>11. Walks(w, p, ch)
  BY <1>7, <1>10 DEF Walks
<1> QED
  BY <1>8, <1>11, Zenon

Negated(p, pos) == pos < Len(p) /\ p[pos + 1] \in {Caret, Bang}
FirstMember(p, pos) == pos + (IF Negated(p, pos) THEN 2 ELSE 1)

\* The class after the '[' at pos, where f holds the members from every position on.
ClassOf(p, f, pos) ==
  LET members == f[FirstMember(p, pos)]
  IN  [closed |-> members.closed, next |-> members.next,
       set |-> IF Negated(p, pos) THEN Bytes \ members.set ELSE members.set]

\* So is the meaning of a class.
LEMMA ClassEquation ==
  ASSUME NEW p \in Seq(Bytes)
  PROVE  \E w : /\ Collects(w, p)
               /\ \A i \in 1 .. Len(p) : ClassAt(p, i) = ClassOf(p, w, i)
<1> DEFINE D == 1 .. Len(p) + 1
           F == [f \in [D -> Classed] |-> [j \in D |-> ClassStep(p, f, j)]]
<1>1. Len(p) + 1 \in Nat
  OBVIOUS
<1>2. F \in [[D -> Classed] -> [D -> Classed]]
  <2>1. ASSUME NEW f \in [D -> Classed], NEW j \in D PROVE ClassStep(p, f, j) \in Classed
    <3>1. j <= Len(p) => Skip(p, j) \in D
      BY <1>1, MemberType
    <3>2. j <= Len(p) => f[Skip(p, j)] \in Classed
      BY <3>1
    <3> QED
      BY <3>2, StepTypes, Zenon
  <2> QED
    BY <2>1
<1>3. LooksAhead(F, Len(p) + 1, Classed)
  <2> SUFFICES ASSUME NEW f \in [D -> Classed], NEW g \in [D -> Classed], NEW j \in D,
                      \A i \in j + 1 .. Len(p) + 1 : f[i] = g[i]
               PROVE  F[f][j] = F[g][j]
    BY <1>2, Zenon DEF LooksAhead
  <2>1. j > Len(p) \/ f[Skip(p, j)] = g[Skip(p, j)]
    BY <1>1, MemberType
  <2>2. ClassStep(p, f, j) = ClassStep(p, g, j)
    BY <2>1, Zenon DEF ClassStep
  <2> QED
    BY <2>2
<1>4. Classed # {}
  <2>1. [closed |-> FALSE, set |-> {}, next |-> 0] \in Classed
    BY DEF Classed
  <2> QED
    BY <2>1
<1>5. Defines(F, Len(p) + 1, Classed)
  <2> HIDE DEF F
  <2> QED
    BY <1>1, <1>3, <1>4, DefinedFromTheEnd, Zenon
<1>6. \E f : f = [j \in D |-> ClassStep(p, f, j)]
  BY <1>5 DEF Defines
<1> DEFINE plus(set, rest) == [closed |-> rest.closed, set |-> set \cup rest.set, next |-> rest.next]
           Turn(f, j) ==
             IF j > Len(p) THEN [closed |-> FALSE, set |-> {}, next |-> 0]
             ELSE IF p[j] = CloseB THEN [closed |-> TRUE, set |-> {}, next |-> j + 1]
             ELSE IF p[j] = Backslash /\ j < Len(p) THEN plus({p[j + 1]}, f[j + 2])
             ELSE IF j + 2 <= Len(p) /\ p[j + 1] = Dash /\ p[j + 2] # CloseB
               THEN plus(p[j] .. p[j + 2], f[j + 3])
             ELSE plus({p[j]}, f[j + 1])
           w == CHOOSE f : f = [j \in D |-> Turn(f, j)]
<1>7. \A f : \A j \in D : Turn(f, j) = ClassStep(p, f, j)
  <2> SUFFICES ASSUME NEW f, NEW j \in D PROVE Turn(f, j) = ClassStep(p, f, j)
    BY Zenon
  <2>1. CASE j > Len(p) \/ p[j] = CloseB
    BY <2>1, Zenon DEF ClassStep
  <2>2. CASE ~(j > Len(p)) /\ p[j] # CloseB
    <3>1. CASE Escape(p, j)
      BY <2>2, <3>1 DEF ClassStep, Members, Skip, Escape
    <3>2. CASE ~Escape(p, j) /\ Span(p, j)
      <4>1. Members(p, j) = p[j] .. p[j + 2] /\ Skip(p, j) = j + 3
        BY <3>2, Zenon DEF Members, Skip
      <4> QED
        BY <2>2, <3>2, <4>1, Zenon DEF ClassStep, Escape, Span
    <3>3. CASE ~Escape(p, j) /\ ~Span(p, j)
      BY <2>2, <3>3, Zenon DEF ClassStep, Members, Skip, Escape, Span
    <3> QED
      BY <3>1, <3>2, <3>3, Zenon
  <2> QED
    BY <2>1, <2>2, Zenon
<1>8. \A i \in 1 .. Len(p) : ClassAt(p, i) = ClassOf(p, w, i)
  BY Zenon DEF ClassAt, ClassOf, FirstMember, Negated
<1> HIDE DEF Turn
<1>9. \E f : f = [j \in D |-> Turn(f, j)]
  BY <1>6, <1>7
<1>10. w = [j \in D |-> Turn(w, j)]
  BY <1>9, Zenon
<1> HIDE DEF w
<1>11. Collects(w, p)
  BY <1>7, <1>10 DEF Collects
<1> QED
  BY <1>8, <1>11, Zenon

\* From j on the loop of matchClass (w) finds what the members (c) are.
Agree(p, ch, w, c, j) ==
  /\ w[j] \in Walked /\ c[j] \in Classed
  /\ w[j].closed = c[j].closed /\ w[j].next = c[j].next
  /\ w[j].hit <=> ch \in c[j].set
  /\ c[j].closed => c[j].next \in j + 1 .. Len(p) + 1

\* matchClass and the set of the class agree from every position of the pattern.
LEMMA ClassesAgree ==
  ASSUME NEW p \in Seq(Bytes), NEW ch \in Bytes, NEW w, NEW c,
         Walks(w, p, ch), Collects(c, p)
  PROVE  \A j \in 1 .. Len(p) + 1 : Agree(p, ch, w, c, j)
<1> DEFINE T == {j \in 1 .. Len(p) + 1 : Agree(p, ch, w, c, j)}
<1>1. Len(p) \in Nat /\ Len(p) + 1 \in Nat
  OBVIOUS
<1>2. ASSUME NEW j \in 1 .. Len(p) + 1, \A i \in j + 1 .. Len(p) + 1 : i \in T
      PROVE  j \in T
  <2>0. SUFFICES Agree(p, ch, w, c, j)
    BY Zenon
  <2>1. w[j] = WalkStep(p, ch, w, j) /\ c[j] = ClassStep(p, c, j)
    BY Zenon DEF Walks, Collects
  <2>2. CASE j > Len(p)
    <3>1. w[j] = [closed |-> FALSE, hit |-> FALSE, next |-> 0]
      BY <2>1, <2>2, Zenon DEF WalkStep
    <3>2. c[j] = [closed |-> FALSE, set |-> {}, next |-> 0]
      BY <2>1, <2>2, Zenon DEF ClassStep
    <3> QED
      BY <3>1, <3>2 DEF Agree, Walked, Classed
  <2>3. CASE ~(j > Len(p)) /\ p[j] = CloseB
    <3>1. w[j] = [closed |-> TRUE, hit |-> FALSE, next |-> j + 1]
      BY <2>1, <2>3, Zenon DEF WalkStep
    <3>2. c[j] = [closed |-> TRUE, set |-> {}, next |-> j + 1]
      BY <2>1, <2>3, Zenon DEF ClassStep
    <3> QED
      BY <1>1, <2>3, <3>1, <3>2 DEF Agree, Walked, Classed
  <2>4. CASE ~(j > Len(p)) /\ p[j] # CloseB
    <3> DEFINE i == Skip(p, j)
    <3>0. j \in 1 .. Len(p)
      BY <1>1, <2>4
    <3>1. i \in j + 1 .. Len(p) + 1 /\ Members(p, j) \subseteq Bytes
      BY <3>0, MemberType
    <3>2. Agree(p, ch, w, c, i)
      BY <1>2, <3>1
    <3>3. w[j] = [closed |-> w[i].closed, hit |-> ch \in Members(p, j) \/ w[i].hit, next |-> w[i].next]
      BY <2>1, <2>4, Zenon DEF WalkStep
    <3>4. c[j] = [closed |-> c[i].closed, set |-> Members(p, j) \cup c[i].set, next |-> c[i].next]
      BY <2>1, <2>4, Zenon DEF ClassStep
    <3>5. w[j].hit <=> ch \in c[j].set
      <4> DEFINE hit == ch \in Members(p, j) \/ w[i].hit
      <4>0. w[j] = [closed |-> w[i].closed, hit |-> hit, next |-> w[i].next]
        BY <3>3, Zenon
      <4> HIDE DEF hit
      <4>1. w[j].hit = hit
        BY <4>0
      <4>2. c[j].set = Members(p, j) \cup c[i].set
        BY <3>4
      <4> QED
        BY <3>2, <4>1, <4>2, Zenon DEF Agree, hit
    <3>6. w[j] \in Walked /\ c[j] \in Classed
      BY <3>1, <3>2, <3>3, <3>4 DEF Agree, Walked, Classed
    <3>7. c[j].closed => c[j].next \in j + 1 .. Len(p) + 1
      BY <1>1, <3>1, <3>2, <3>4 DEF Agree, Classed
    <3>8. w[j].closed = c[j].closed /\ w[j].next = c[j].next
      BY <3>2, <3>3, <3>4 DEF Agree
    <3> QED
      BY <3>5, <3>6, <3>7, <3>8, Zenon DEF Agree
  <2> QED
    BY <2>2, <2>3, <2>4, Zenon
<1> HIDE DEF T
<1>3. \A j \in 1 .. Len(p) + 1 : j \in T
  BY <1>1, <1>2, Downwards, Zenon
<1> QED
  BY <1>3, Zenon DEF T

\* matchClass tells whether the byte belongs to the class, and where the class ends.
LEMMA ClassMatch ==
  ASSUME NEW p \in Seq(Bytes), NEW ch \in Bytes, NEW pos \in 1 .. Len(p)
  PROVE  /\ ClassAt(p, pos).closed \in BOOLEAN
         /\ ClassAt(p, pos).closed => ClassAt(p, pos).next \in pos + 1 .. Len(p) + 1
         /\ MatchClass(p, pos, ch).ok <=> ClassAt(p, pos).closed /\ ch \in ClassAt(p, pos).set
         /\ MatchClass(p, pos, ch).next = ClassAt(p, pos).next
<1>1. PICK w : /\ Walks(w, p, ch)
               /\ \A i \in 1 .. Len(p) + 1 : Walk(p, ch, i) = w[i]
  BY WalkEquation, Zenon
<1>2. PICK c : /\ Collects(c, p)
               /\ \A i \in 1 .. Len(p) : ClassAt(p, i) = ClassOf(p, c, i)
  BY ClassEquation, Zenon
<1> DEFINE f == FirstMember(p, pos)
<1>3. f \in pos + 1 .. Len(p) + 1
  BY DEF FirstMember, Negated
<1>4. f \in 1 .. Len(p) + 1
  BY <1>3
<1>5. Agree(p, ch, w, c, f)
  BY <1>1, <1>2, <1>4, ClassesAgree, Zenon
<1>6. ClassAt(p, pos) = [closed |-> c[f].closed, next |-> c[f].next,
                         set |-> IF Negated(p, pos) THEN Bytes \ c[f].set ELSE c[f].set]
  BY <1>2, Zenon DEF ClassOf
<1>7. MatchClass(p, pos, ch) = [ok |-> w[f].closed /\ w[f].hit # Negated(p, pos), next |-> w[f].next]
  BY <1>1, <1>4, Zenon DEF MatchClass, FirstMember, Negated
<1> HIDE DEF f
<1>8. ch \in ClassAt(p, pos).set <=> w[f].hit # Negated(p, pos)
  <2>1. ClassAt(p, pos).set = IF Negated(p, pos) THEN Bytes \ c[f].set ELSE c[f].set
    BY <1>6
  <2>2. Negated(p, pos) \in BOOLEAN /\ w[f].hit \in BOOLEAN
    BY <1>5 DEF Negated, Agree, Walked
  <2>3. w[f].hit <=> ch \in c[f].set
    BY <1>5, Zenon DEF Agree
  <2> QED
    BY <2>1, <2>2, <2>3, Zenon
<1> DEFINE ok == w[f].closed /\ w[f].hit # Negated(p, pos)
<1>13. MatchClass(p, pos, ch) = [ok |-> ok, next |-> w[f].next]
  BY <1>7, Zenon
<1> HIDE DEF ok
<1>9. /\ ClassAt(p, pos).closed = c[f].closed /\ ClassAt(p, pos).next = c[f].next
      /\ MatchClass(p, pos, ch).next = w[f].next
  BY <1>13, <1>6
<1>10. MatchClass(p, pos, ch).ok = ok
  BY <1>13
<1>11. c[f].closed \in BOOLEAN /\ w[f].closed = c[f].closed /\ w[f].next = c[f].next
  BY <1>5 DEF Agree, Classed
<1>12. c[f].closed => c[f].next \in pos + 1 .. Len(p) + 1
  BY <1>3, <1>5 DEF Agree, Classed
<1> QED
  BY <1>8, <1>9, <1>10, <1>11, <1>12, Zenon DEF ok

-----------------------------------------------------------------------------
(***************************************************************************)
(* The meaning of a pattern.                                               *)
(***************************************************************************)
LEMMA ElementNext ==
  ASSUME NEW p \in Seq(Bytes), NEW i \in 1 .. Len(p)
  PROVE  Element(p, i).next \in i + 1 .. Len(p) + 1
<1>1. Len(p) \in Nat
  OBVIOUS
<1>2. CASE p[i] = Open /\ ClassAt(p, i).closed
  <2>1. ClassAt(p, i).next \in i + 1 .. Len(p) + 1
    <3>1. 0 \in Bytes
      BY DEF Bytes
    <3> QED
      BY <1>2, <3>1, ClassMatch
  <2>2. Element(p, i) = [set |-> ClassAt(p, i).set, next |-> ClassAt(p, i).next]
    BY <1>2 DEF Element, Question, Backslash, Open
  <2> QED
    BY <2>1, <2>2
<1>3. CASE ~(p[i] = Open /\ ClassAt(p, i).closed)
  BY <1>1, <1>3 DEF Element
<1> QED
  BY <1>2, <1>3

\* What FitsFrom defines at i, where f holds what it is after i.
FitsStep(p, name, f, i) ==
  IF i > Len(p) THEN {Len(name) + 1}
  ELSE IF p[i] = Star
    THEN {j \in 1 .. Len(name) + 1 : \E k \in j .. Len(name) + 1 : k \in f[i + 1]}
  ELSE {j \in 1 .. Len(name) : /\ name[j] \in Element(p, i).set
                              /\ j + 1 \in f[Element(p, i).next]}

\* The equation of FitsFrom: the meaning of a pattern from the meanings of its suffixes.
LEMMA FitsEquation ==
  ASSUME NEW p \in Seq(Bytes), NEW name \in Seq(Bytes)
  PROVE  FitsFrom(p, name)
           = [i \in 1 .. Len(p) + 1 |-> FitsStep(p, name, FitsFrom(p, name), i)]
<1> DEFINE D == 1 .. Len(p) + 1
           V == SUBSET (1 .. Len(name) + 1)
           F == [f \in [D -> V] |-> [i \in D |-> FitsStep(p, name, f, i)]]
<1>1. Len(p) + 1 \in Nat /\ Len(name) \in Nat
  OBVIOUS
<1>2. F \in [[D -> V] -> [D -> V]]
  <2>1. \A f : \A i \in D : FitsStep(p, name, f, i) \in V
    BY <1>1 DEF FitsStep
  <2> QED
    BY <2>1
<1>3. LooksAhead(F, Len(p) + 1, V)
  <2> SUFFICES ASSUME NEW f \in [D -> V], NEW g \in [D -> V], NEW i \in D,
                      \A j \in i + 1 .. Len(p) + 1 : f[j] = g[j]
               PROVE  F[f][i] = F[g][i]
    BY <1>2, Zenon DEF LooksAhead
  <2>1. i > Len(p) \/ (f[i + 1] = g[i + 1] /\ f[Element(p, i).next] = g[Element(p, i).next])
    BY <1>1, ElementNext
  <2>2. FitsStep(p, name, f, i) = FitsStep(p, name, g, i)
    BY <2>1, Zenon DEF FitsStep
  <2> QED
    BY <2>2
<1>4. Defines(F, Len(p) + 1, V)
  <2>1. V # {}
    BY Zenon
  <2> HIDE DEF F, V
  <2> QED
    BY <1>1, <1>3, <2>1, DefinedFromTheEnd, Zenon
<1>5. \E f : f = [i \in D |-> FitsStep(p, name, f, i)]
  BY <1>4 DEF Defines
<1>6. FitsFrom(p, name) = CHOOSE f : f = [i \in D |-> FitsStep(p, name, f, i)]
  BY Zenon DEF FitsFrom, FitsStep
<1> QED
  BY <1>5, <1>6, Zenon

\* R is the function FitsFrom defines, seen from outside.
Means(R, p, name) ==
  /\ \A i \in 1 .. Len(p) + 1 : R[i] \subseteq 1 .. Len(name) + 1
  /\ R[Len(p) + 1] = {Len(name) + 1}
  /\ \A i \in 1 .. Len(p) : p[i] = Star =>
       \A j \in 1 .. Len(name) + 1 : j \in R[i] <=> \E k \in j .. Len(name) + 1 : k \in R[i + 1]
  /\ \A i \in 1 .. Len(p) : p[i] # Star =>
       \A j : j \in R[i] <=> /\ j \in 1 .. Len(name)
                            /\ name[j] \in Element(p, i).set
                            /\ j + 1 \in R[Element(p, i).next]

\* FitsFrom gives every suffix of the pattern its meaning.
LEMMA FitsMeans ==
  ASSUME NEW p \in Seq(Bytes), NEW name \in Seq(Bytes)
  PROVE  Means(FitsFrom(p, name), p, name)
<1> DEFINE R == FitsFrom(p, name)
<1>1. Len(p) \in Nat /\ Len(name) \in Nat
  OBVIOUS
<1>2. \A i \in 1 .. Len(p) + 1 : R[i] = FitsStep(p, name, R, i)
  BY FitsEquation, Zenon
<1> HIDE DEF R
<1>3. \A f : \A i \in 1 .. Len(p) + 1 : FitsStep(p, name, f, i) \subseteq 1 .. Len(name) + 1
  BY <1>1 DEF FitsStep
<1>4. \A i \in 1 .. Len(p) + 1 : R[i] \subseteq 1 .. Len(name) + 1
  BY <1>2, <1>3, Zenon
<1>5. R[Len(p) + 1] = {Len(name) + 1}
  <2>1. Len(p) + 1 \in 1 .. Len(p) + 1 /\ Len(p) + 1 > Len(p)
    BY <1>1
  <2> QED
    BY <1>2, <2>1, Zenon DEF FitsStep
<1>6. ASSUME NEW i \in 1 .. Len(p), p[i] = Star, NEW j \in 1 .. Len(name) + 1
      PROVE  j \in R[i] <=> \E k \in j .. Len(name) + 1 : k \in R[i + 1]
  <2>1. i \in 1 .. Len(p) + 1 /\ ~(i > Len(p))
    BY <1>1
  <2>2. R[i] = {l \in 1 .. Len(name) + 1 : \E k \in l .. Len(name) + 1 : k \in R[i + 1]}
    BY <1>2, <1>6, <2>1, Zenon DEF FitsStep
  <2> QED
    BY <2>2, Zenon
<1>7. ASSUME NEW i \in 1 .. Len(p), p[i] # Star, NEW j
      PROVE  j \in R[i] <=> /\ j \in 1 .. Len(name)
                           /\ name[j] \in Element(p, i).set
                           /\ j + 1 \in R[Element(p, i).next]
  <2>1. i \in 1 .. Len(p) + 1 /\ ~(i > Len(p))
    BY <1>1
  <2>2. R[i] = {l \in 1 .. Len(name) : /\ name[l] \in Element(p, i).set
                                      /\ l + 1 \in R[Element(p, i).next]}
    BY <1>2, <1>7, <2>1, Zenon DEF FitsStep
  <2> QED
    BY <2>2, Zenon
<1>8. Means(R, p, name)
  BY <1>4, <1>5, <1>6, <1>7, Zenon DEF Means
<1> QED
  BY <1>8, Zenon DEF R

\* Nothing but stars stands for the empty end of the name.
LEMMA OnlyStars ==
  ASSUME NEW p \in Seq(Bytes), NEW name \in Seq(Bytes), NEW R, Means(R, p, name)
  PROVE  \A i \in 1 .. Len(p) + 1 :
           Len(name) + 1 \in R[i] <=> \A j \in i .. Len(p) : p[j] = Star
<1> DEFINE Good(i) == Len(name) + 1 \in R[i] <=> \A j \in i .. Len(p) : p[j] = Star
           T == {i \in 1 .. Len(p) + 1 : Good(i)}
<1>1. Len(p) \in Nat /\ Len(name) \in Nat /\ Len(p) + 1 \in Nat
  OBVIOUS
<1>2. ASSUME NEW i \in 1 .. Len(p) + 1, \A k \in i + 1 .. Len(p) + 1 : k \in T
      PROVE  i \in T
  <2>0. SUFFICES Good(i)
    BY Zenon
  <2>1. CASE i = Len(p) + 1
    BY <1>1, <2>1 DEF Means
  <2>2. CASE i # Len(p) + 1
    <3>1. i \in 1 .. Len(p) /\ i + 1 \in i + 1 .. Len(p) + 1
      BY <1>1, <2>2
    <3>2. Good(i + 1)
      BY <1>2, <3>1
    <3>3. CASE p[i] = Star
      <4>1. Len(name) + 1 \in R[i] <=> Len(name) + 1 \in R[i + 1]
        BY <1>1, <3>1, <3>3 DEF Means
      <4>2. (\A j \in i .. Len(p) : p[j] = Star) <=> (\A j \in i + 1 .. Len(p) : p[j] = Star)
        BY <1>1, <3>1, <3>3
      <4> QED
        BY <3>2, <4>1, <4>2, Zenon
    <3>4. CASE p[i] # Star
      <4>1. Len(name) + 1 \notin R[i]
        BY <1>1, <3>1, <3>4 DEF Means
      <4>2. i \in i .. Len(p)
        BY <1>1, <3>1
      <4> QED
        BY <3>4, <4>1, <4>2, Zenon
    <3> QED
      BY <3>3, <3>4, Zenon
  <2> QED
    BY <2>1, <2>2, Zenon
<1> HIDE DEF T
<1>3. \A i \in 1 .. Len(p) + 1 : i \in T
  BY <1>1, <1>2, Downwards, Zenon
<1> QED
  BY <1>3, Zenon DEF T

-----------------------------------------------------------------------------
(***************************************************************************)
(* The loop.                                                               *)
(***************************************************************************)
GlobTypes ==
  /\ pattern \in Seq(Bytes) /\ s \in Seq(Bytes)
  /\ pi \in 1 .. Len(pattern) + 1 /\ si \in 1 .. Len(s) + 1
  /\ star \in 0 .. Len(pattern) /\ mark \in 1 .. Len(s) + 1
  /\ star < pi /\ mark <= si
  /\ star # 0 => pattern[star] = Star

Fitting == FitsFrom(pattern, s)

\* While the loop runs the name fits the pattern if it does from the last '*' on, whose
\* run begins at mark.  The bytes since then were taken by the elements since then, each
\* of which takes one: what fits after the '*' fits here that many bytes later, and if
\* the loop can go on to the end from here, so it can from mark.
Resumable ==
  IF star = 0 THEN 1 \in Fitting[1] <=> si \in Fitting[pi]
  ELSE /\ 1 \in Fitting[1] <=> mark \in Fitting[star]
       /\ \A k \in Fitting[star + 1] : k + (si - mark) \in Fitting[pi]
       /\ si \in Fitting[pi] => mark \in Fitting[star + 1]

GlobInv ==
  /\ GlobTypes
  /\ Unambiguous /\ verdict = "running" => Resumable
  /\ MatchesMeaning

\* The element at pi takes a byte of its set, no other, and goes on to the next element.
LEMMA Taken ==
  ASSUME GlobTypes, Unambiguous, pi <= Len(pattern), si <= Len(s), pattern[pi] # Star
  PROVE  TakenTo = IF s[si] \in Element(pattern, pi).set THEN Element(pattern, pi).next ELSE 0
<1>1. pi \in 1 .. Len(pattern) /\ si \in 1 .. Len(s) /\ Len(pattern) \in Nat /\ Len(s) \in Nat
  BY DEF GlobTypes
<1>2. pattern \in Seq(Bytes) /\ pattern[pi] \in Bytes /\ s[si] \in Bytes
  BY <1>1 DEF GlobTypes
<1>3. At = pattern[pi] /\ ~(pi > Len(pattern))
  BY <1>1 DEF At
<1>4. CASE pattern[pi] = Question
  <2>1. Element(pattern, pi) = [set |-> Bytes, next |-> pi + 1]
    BY <1>4, Zenon DEF Element
  <2>2. TakenTo = pi + 1
    BY <1>3, <1>4 DEF TakenTo, Escaped, Question, Backslash
  <2> QED
    BY <1>2, <2>1, <2>2
<1>5. CASE pattern[pi] = Backslash /\ pi < Len(pattern)
  <2>1. Element(pattern, pi) = [set |-> {pattern[pi + 1]}, next |-> pi + 2]
    BY <1>5 DEF Element, Question, Backslash
  <2>2. TakenTo = IF pattern[pi + 1] = s[si] THEN pi + 2 ELSE 0
    BY <1>3, <1>5, Zenon DEF TakenTo, Escaped
  <2> QED
    BY <2>1, <2>2
<1>6. CASE pattern[pi] = Open /\ ClassAt(pattern, pi).closed
  <2>1. Element(pattern, pi) = [set |-> ClassAt(pattern, pi).set, next |-> ClassAt(pattern, pi).next]
    BY <1>6 DEF Element, Question, Backslash, Open
  <2>2. s[si] # Open
    BY <1>1, <1>6 DEF Unambiguous
  <2>3. TakenTo = IF ClassHere.ok THEN ClassHere.next ELSE 0
    BY <1>3, <1>6, <2>2 DEF TakenTo, Escaped, Question, Backslash, Open
  <2>4. /\ ClassHere.ok <=> ClassAt(pattern, pi).closed /\ s[si] \in ClassAt(pattern, pi).set
        /\ ClassHere.next = ClassAt(pattern, pi).next
    BY <1>1, <1>2, ClassMatch, Zenon DEF ClassHere
  <2>5. /\ Element(pattern, pi).set = ClassAt(pattern, pi).set
        /\ Element(pattern, pi).next = ClassAt(pattern, pi).next
    BY <2>1
  <2> QED
    BY <1>6, <2>3, <2>4, <2>5, Zenon
<1>7. CASE /\ pattern[pi] # Question /\ ~(pattern[pi] = Backslash /\ pi < Len(pattern))
           /\ ~(pattern[pi] = Open /\ ClassAt(pattern, pi).closed)
  <2>1. Element(pattern, pi) = [set |-> {pattern[pi]}, next |-> pi + 1]
    BY <1>7, Zenon DEF Element
  <2>2. ~(At = Open /\ ClassHere.ok)
    BY <1>1, <1>2, <1>3, <1>7, ClassMatch, Zenon DEF ClassHere
  <2>3. TakenTo = IF pattern[pi] = s[si] THEN pi + 1 ELSE 0
    BY <1>3, <1>7, <2>2, Zenon DEF TakenTo, Escaped
  <2> QED
    BY <2>1, <2>3
<1> QED
  BY <1>4, <1>5, <1>6, <1>7, Zenon

\* An element that takes a character is left behind.
LEMMA TakenRange ==
  ASSUME GlobTypes, pi <= Len(pattern), si <= Len(s), TakenTo # 0
  PROVE  TakenTo \in pi + 1 .. Len(pattern) + 1
<1>1. pi \in 1 .. Len(pattern) /\ si \in 1 .. Len(s) /\ Len(pattern) \in Nat /\ Len(s) \in Nat
  BY DEF GlobTypes
<1>2. pattern \in Seq(Bytes) /\ s[si] \in Bytes
  BY <1>1 DEF GlobTypes
<1>3. ClassHere.ok => ClassHere.next \in pi + 1 .. Len(pattern) + 1
  BY <1>1, <1>2, ClassMatch, Zenon DEF ClassHere
<1>4. TakenTo = pi + 1 \/ (Escaped /\ TakenTo = pi + 2) \/ (ClassHere.ok /\ TakenTo = ClassHere.next)
  BY Zenon DEF TakenTo
<1> QED
  BY <1>1, <1>3, <1>4 DEF Escaped

\* A step that leaves the arguments alone leaves their meaning alone.
LEMMA SameArguments ==
  ASSUME UNCHANGED <<pattern, s>>
  PROVE  Fitting' = Fitting /\ (Unambiguous' <=> Unambiguous) /\ (Fits(pattern, s)' <=> 1 \in Fitting[1])
BY DEF Fitting, Unambiguous, Fits

\* The positions of globMatch stay in the pattern and in the string.
LEMMA TypesKept == ASSUME GlobTypes, [Next]_vars PROVE GlobTypes'
<1> USE DEF GlobTypes
<1>1. Len(pattern) \in Nat /\ Len(s) \in Nat
  OBVIOUS
<1>2. CASE StarHere
  <2>1. pi <= Len(pattern) /\ pattern[pi] = Star
    BY <1>2 DEF StarHere, At, Star
  <2> QED
    BY <1>1, <1>2, <2>1 DEF StarHere, InName
<1>3. CASE Take
  <2>1. pi <= Len(pattern) /\ si <= Len(s)
    BY <1>1, <1>3 DEF Take, TakenTo, InName
  <2>2. pi' \in pi + 1 .. Len(pattern) + 1
    BY <1>3, <2>1, TakenRange DEF Take
  <2> QED
    BY <1>1, <1>3, <2>1, <2>2 DEF Take
<1>4. CASE Backtrack
  BY <1>1, <1>4 DEF Backtrack, InName
<1>5. CASE Finish
  BY <1>5 DEF Finish
<1>6. CASE UNCHANGED vars
  BY <1>6 DEF vars
<1> QED
  BY <1>2, <1>3, <1>4, <1>5, <1>6 DEF Next

\* Resumable in pieces.
NoStarYet == star = 0 => (1 \in Fitting[1] <=> si \in Fitting[pi])
FromMark == star # 0 => (1 \in Fitting[1] <=> mark \in Fitting[star])
Shifted == star # 0 => \A k \in Fitting[star + 1] : k + (si - mark) \in Fitting[pi]
Back == star # 0 => (si \in Fitting[pi] => mark \in Fitting[star + 1])

\* The invariant in the pieces that the steps keep one by one.
LEMMA Pieces == Resumable <=> NoStarYet /\ FromMark /\ Shifted /\ Back
BY Zenon DEF Resumable, NoStarYet, FromMark, Shifted, Back

\* A new star: what the older one could still do, the new one can.
LEMMA StarHereKeeps ==
  ASSUME GlobTypes, Resumable, StarHere PROVE Resumable'
<1> DEFINE m == Len(s) + 1
<1>1. Len(pattern) \in Nat /\ Len(s) \in Nat
  BY DEF GlobTypes
<1>2. pi \in 1 .. Len(pattern) /\ pattern[pi] = Star /\ si \in 1 .. Len(s) + 1 /\ mark \in 1 .. Len(s) + 1 /\ mark <= si
  BY DEF StarHere, At, Star, GlobTypes
<1>3. Means(Fitting, pattern, s)
  BY FitsMeans, Zenon DEF GlobTypes, Fitting
<1>4. Fitting' = Fitting
  BY SameArguments DEF StarHere
<1>5. NoStarYet /\ FromMark /\ Shifted /\ Back
  BY Pieces
<1>6. star' = pi /\ mark' = si /\ si' = si /\ pi' = pi + 1 /\ star' # 0
  BY <1>2 DEF StarHere
<1>7. 1 \in Fitting[1] <=> si \in Fitting[pi]
  <2>1. CASE star = 0
    BY <1>5, <2>1, Zenon DEF NoStarYet
  <2>2. CASE star # 0
    <3>1. star \in 1 .. Len(pattern) /\ pattern[star] = Star
      BY <2>2 DEF GlobTypes
    <3>2. mark \in Fitting[star] <=> \E k \in mark .. m : k \in Fitting[star + 1]
      BY <1>2, <1>3, <3>1, Zenon DEF Means
    <3>3. si \in Fitting[pi] <=> \E k \in si .. m : k \in Fitting[pi + 1]
      BY <1>2, <1>3, Zenon DEF Means
    <3>4. ASSUME NEW k \in mark .. m, k \in Fitting[star + 1] PROVE si \in Fitting[pi]
      <4>1. k + (si - mark) \in Fitting[pi]
        BY <1>5, <2>2, <3>4, Zenon DEF Shifted
      <4>2. k + (si - mark) \in si .. m
        <5>1. Fitting[pi] \subseteq 1 .. m
          BY <1>1, <1>2, <1>3 DEF Means
        <5> QED
          BY <1>1, <1>2, <3>4, <4>1, <5>1
      <4>3. k + (si - mark) \in 1 .. m
        BY <1>2, <4>2
      <4>4. PICK l \in k + (si - mark) .. m : l \in Fitting[pi + 1]
        BY <1>2, <1>3, <4>1, <4>3, Zenon DEF Means
      <4>5. l \in si .. m
        BY <1>1, <1>2, <4>2, <4>4
      <4> QED
        BY <3>3, <4>4, <4>5, Zenon
    <3>5. si \in Fitting[pi] => mark \in Fitting[star + 1] /\ mark \in mark .. m
      BY <1>2, <1>5, <2>2 DEF Back
    <3> QED
      BY <1>5, <2>2, <3>2, <3>4, <3>5, Zenon DEF FromMark
  <2> QED
    BY <2>1, <2>2
<1>8. FromMark'
  BY <1>4, <1>6, <1>7, Zenon DEF FromMark
<1>9. Shifted'
  <2>1. ASSUME NEW k \in Fitting[pi + 1] PROVE k + (si - si) = k
    <3>1. pi + 1 \in 1 .. Len(pattern) + 1
      BY <1>1, <1>2
    <3>2. k \in 1 .. Len(s) + 1
      BY <1>3, <3>1, Zenon DEF Means
    <3> QED
      BY <1>2, <3>2
  <2> QED
    BY <1>4, <1>6, <2>1, Zenon DEF Shifted
<1>10. Back' /\ NoStarYet'
  BY <1>4, <1>6, Zenon DEF Back, NoStarYet
<1>11. (Resumable <=> NoStarYet /\ FromMark /\ Shifted /\ Back)'
  BY Pieces, PTL
<1> QED
  BY <1>8, <1>9, <1>10, <1>11

\* An element takes a character: the tail of the string fits the tail of the pattern as before.
LEMMA TakeKeeps ==
  ASSUME GlobTypes, Unambiguous, Resumable, Take PROVE Resumable'
<1> DEFINE e == Element(pattern, pi)
<1>1. Len(pattern) \in Nat /\ Len(s) \in Nat
  BY DEF GlobTypes
<1>2. pi \in 1 .. Len(pattern) /\ pattern[pi] # Star /\ si \in 1 .. Len(s)
  BY <1>1 DEF Take, At, TakenTo, InName, GlobTypes
<1>3. Means(Fitting, pattern, s)
  BY FitsMeans, Zenon DEF GlobTypes, Fitting
<1>4. Fitting' = Fitting
  BY SameArguments DEF Take
<1>5. NoStarYet /\ FromMark /\ Shifted /\ Back
  BY Pieces
<1>6. star' = star /\ mark' = mark /\ si' = si + 1
  BY DEF Take
<1>7. s[si] \in e.set /\ pi' = e.next
  BY <1>2, Taken DEF Take
<1> HIDE DEF e
<1>8. \A j : j \in Fitting[pi] <=> j \in 1 .. Len(s) /\ s[j] \in e.set /\ j + 1 \in Fitting[pi']
  BY <1>2, <1>3, <1>7, Zenon DEF Means, e
<1>9. si \in Fitting[pi] <=> si' \in Fitting'[pi']
  BY <1>2, <1>4, <1>6, <1>7, <1>8, Zenon
<1>10. NoStarYet' /\ Back' /\ FromMark'
  BY <1>4, <1>5, <1>6, <1>9, Zenon DEF NoStarYet, Back, FromMark
<1>11. Shifted'
  <2> SUFFICES ASSUME star # 0, NEW k \in Fitting[star + 1]
               PROVE  k + ((si + 1) - mark) \in Fitting[pi']
    BY <1>4, <1>6, Zenon DEF Shifted
  <2>1. k + (si - mark) \in Fitting[pi]
    BY <1>5, Zenon DEF Shifted
  <2>2. (k + (si - mark)) + 1 \in Fitting[pi']
    BY <1>8, <2>1, Zenon
  <2>3. star + 1 \in 1 .. Len(pattern) + 1 /\ mark \in Nat
    BY <1>1 DEF GlobTypes
  <2>4. k \in 1 .. Len(s) + 1
    BY <1>3, <2>3, Zenon DEF Means
  <2>5. (k + (si - mark)) + 1 = k + ((si + 1) - mark)
    BY <1>2, <2>3, <2>4
  <2> QED
    BY <2>2, <2>5
<1>12. (Resumable <=> NoStarYet /\ FromMark /\ Shifted /\ Back)'
  BY Pieces, PTL
<1> QED
  BY <1>10, <1>11, <1>12

\* No element takes the byte, so the rest of the name does not fit here.
LEMMA Stuck ==
  ASSUME GlobTypes, Unambiguous, Backtrack PROVE si \notin Fitting[pi]
<1>1. Len(pattern) \in Nat /\ Len(s) \in Nat
  BY DEF GlobTypes
<1>2. pi \in 1 .. Len(pattern) + 1 /\ si \in 1 .. Len(s)
  BY <1>1 DEF GlobTypes, Backtrack, InName
<1>3. Means(Fitting, pattern, s)
  BY FitsMeans, Zenon DEF GlobTypes, Fitting
<1>4. CASE pi = Len(pattern) + 1
  BY <1>1, <1>2, <1>3, <1>4 DEF Means
<1>5. CASE pi # Len(pattern) + 1
  <2>1. pi \in 1 .. Len(pattern) /\ pattern[pi] # Star
    BY <1>1, <1>2, <1>5 DEF Backtrack, At
  <2>2. Element(pattern, pi).next # 0
    BY <2>1, ElementNext DEF GlobTypes
  <2>3. s[si] \notin Element(pattern, pi).set
    BY <1>2, <2>1, <2>2, Taken DEF Backtrack
  <2> QED
    BY <1>3, <2>1, <2>3, Zenon DEF Means
<1> QED
  BY <1>4, <1>5

\* Back to the star, which takes one more character: the tries up to here have all failed.
LEMMA BacktrackKeeps ==
  ASSUME GlobTypes, Unambiguous, Resumable, Backtrack, star # 0 PROVE Resumable'
<1> DEFINE m == Len(s) + 1
<1>1. Len(pattern) \in Nat /\ Len(s) \in Nat
  BY DEF GlobTypes
<1>2. star \in 1 .. Len(pattern) /\ pattern[star] = Star /\ mark \in 1 .. Len(s) /\ si \in Nat
  BY <1>1 DEF GlobTypes, Backtrack, InName
<1>3. Means(Fitting, pattern, s)
  BY FitsMeans, Zenon DEF GlobTypes, Fitting
<1>4. Fitting' = Fitting
  BY SameArguments DEF Backtrack
<1>5. NoStarYet /\ FromMark /\ Shifted /\ Back
  BY Pieces
<1>6. star' = star /\ mark' = mark + 1 /\ si' = mark + 1 /\ pi' = star + 1
  BY DEF Backtrack
<1>7. mark \notin Fitting[star + 1]
  <2>1. mark + (si - mark) = si
    BY <1>2
  <2> QED
    BY <1>5, <2>1, Stuck DEF Shifted
<1>8. mark \in Fitting[star] <=> mark + 1 \in Fitting[star]
  <2>1. mark \in Fitting[star] <=> \E k \in mark .. m : k \in Fitting[star + 1]
    <3>1. mark \in 1 .. m
      BY <1>2
    <3> QED
      BY <1>2, <1>3, <3>1, Zenon DEF Means
  <2>2. mark + 1 \in Fitting[star] <=> \E k \in mark + 1 .. m : k \in Fitting[star + 1]
    <3>1. mark + 1 \in 1 .. m
      BY <1>2
    <3> QED
      BY <1>2, <1>3, <3>1, Zenon DEF Means
  <2>3. \A k \in mark .. m : k = mark \/ k \in mark + 1 .. m
    BY <1>2
  <2>4. \A k \in mark + 1 .. m : k \in mark .. m
    BY <1>2
  <2> QED
    BY <1>7, <2>1, <2>2, <2>3, <2>4, Zenon
<1>9. FromMark' /\ Back' /\ NoStarYet'
  BY <1>4, <1>5, <1>6, <1>8, Zenon DEF FromMark, Back, NoStarYet
<1>10. Shifted'
  <2>1. ASSUME NEW k \in Fitting[star + 1] PROVE k + ((mark + 1) - (mark + 1)) = k
    <3>1. star + 1 \in 1 .. Len(pattern) + 1
      BY <1>1, <1>2
    <3>2. k \in 1 .. Len(s) + 1
      BY <1>3, <3>1, Zenon DEF Means
    <3> QED
      BY <1>2, <3>2
  <2> QED
    BY <1>4, <1>6, <2>1, Zenon DEF Shifted
<1>11. (Resumable <=> NoStarYet /\ FromMark /\ Shifted /\ Back)'
  BY Pieces, PTL
<1> QED
  BY <1>9, <1>10, <1>11

\* At the end of the name only the last '*' with all the bytes after it can help.
LEMMA AtTheEnd ==
  ASSUME GlobTypes, Resumable, Finish
  PROVE  1 \in Fitting[1] <=> \A j \in pi .. Len(pattern) : pattern[j] = Star
<1> DEFINE m == Len(s) + 1
<1>1. Len(pattern) \in Nat /\ Len(s) \in Nat
  BY DEF GlobTypes
<1>2. pi \in 1 .. Len(pattern) + 1 /\ si = m /\ mark \in 1 .. m
  BY <1>1 DEF GlobTypes, Finish
<1>3. Means(Fitting, pattern, s)
  BY FitsMeans, Zenon DEF GlobTypes, Fitting
<1>4. NoStarYet /\ FromMark /\ Shifted /\ Back
  BY Pieces
<1>5. m \in Fitting[pi] <=> \A j \in pi .. Len(pattern) : pattern[j] = Star
  <2>1. pattern \in Seq(Bytes) /\ s \in Seq(Bytes)
    BY DEF GlobTypes
  <2>2. \A i \in 1 .. Len(pattern) + 1 :
          m \in Fitting[i] <=> \A j \in i .. Len(pattern) : pattern[j] = Star
    BY <1>3, <2>1, OnlyStars, Zenon
  <2> QED
    BY <1>2, <2>2, Zenon
<1>6. CASE star = 0
  BY <1>2, <1>4, <1>5, <1>6, Zenon DEF NoStarYet
<1>7. CASE star # 0
  <2>1. star \in 1 .. Len(pattern) /\ pattern[star] = Star
    BY <1>7 DEF GlobTypes
  <2>2. mark \in Fitting[star] <=> \E k \in mark .. m : k \in Fitting[star + 1]
    BY <1>2, <1>3, <2>1, Zenon DEF Means
  <2>3. ASSUME NEW k \in mark .. m, k \in Fitting[star + 1] PROVE m \in Fitting[pi]
    <3>1. k + (m - mark) \in Fitting[pi]
      BY <1>2, <1>4, <1>7, <2>3, Zenon DEF Shifted
    <3>2. k + (m - mark) \in 1 .. m
      BY <1>2, <1>3, <3>1, Zenon DEF Means
    <3>3. k + (m - mark) = m
      BY <1>1, <1>2, <3>2
    <3> QED
      BY <3>1, <3>3
  <2>4. m \in Fitting[pi] => mark \in Fitting[star + 1] /\ mark \in mark .. m
    BY <1>2, <1>4, <1>7 DEF Back
  <2> QED
    BY <1>4, <1>5, <1>7, <2>2, <2>3, <2>4, Zenon DEF FromMark
<1> QED
  BY <1>6, <1>7

\* Before the first turn the whole pattern is to be matched with the whole string.
LEMMA GlobInit == Init => GlobInv
<1> SUFFICES ASSUME Init PROVE GlobInv
  OBVIOUS
<1>1. ASSUME NEW bytes \in SUBSET Bytes, NEW max \in Nat, NEW x \in StringsOf(bytes, max)
      PROVE  x \in Seq(Bytes)
  BY <1>1 DEF StringsOf
<1>2. pattern \in Seq(Bytes) /\ s \in Seq(Bytes)
  BY <1>1, GlobAssumption DEF Init
<1>3. Len(pattern) \in Nat /\ Len(s) \in Nat
  BY <1>2
<1>4. GlobTypes
  BY <1>2, <1>3 DEF Init, GlobTypes
<1>5. Resumable
  BY DEF Init, Resumable
<1>6. MatchesMeaning
  BY DEF Init, MatchesMeaning
<1> QED
  BY <1>4, <1>5, <1>6 DEF GlobInv

\* Each turn of globMatch's loop keeps the invariant.
LEMMA GlobStep == GlobInv /\ [Next]_vars => GlobInv'
<1> SUFFICES ASSUME GlobInv, [Next]_vars PROVE GlobInv'
  OBVIOUS
<1>0. GlobTypes
  BY DEF GlobInv
<1>1. GlobTypes'
  BY <1>0, TypesKept
<1>2. UNCHANGED <<pattern, s>>
  BY DEF Next, StarHere, Take, Backtrack, Finish, vars
<1>3. Fitting' = Fitting /\ (Unambiguous' <=> Unambiguous) /\ (Fits(pattern, s)' <=> 1 \in Fitting[1])
  BY <1>2, SameArguments
<1>4. SUFFICES ASSUME Unambiguous
               PROVE  /\ verdict' = "running" => Resumable'
                      /\ verdict' # "running" => (verdict' = "match" <=> 1 \in Fitting[1])
  BY <1>1, <1>3 DEF GlobInv, MatchesMeaning
<1>5. CASE StarHere
  <2>1. verdict = "running" /\ verdict' = "running"
    BY <1>5 DEF StarHere, InName
  <2>2. Resumable
    BY <1>4, <2>1 DEF GlobInv
  <2> QED
    BY <1>0, <1>5, <2>1, <2>2, StarHereKeeps
<1>6. CASE Take
  <2>1. verdict = "running" /\ verdict' = "running"
    BY <1>6 DEF Take, InName
  <2>2. Resumable
    BY <1>4, <2>1 DEF GlobInv
  <2> QED
    BY <1>0, <1>4, <1>6, <2>1, <2>2, TakeKeeps
<1>7. CASE Backtrack
  <2>1. Resumable
    BY <1>4, <1>7 DEF GlobInv, Backtrack, InName
  <2>2. CASE star # 0
    <3>1. verdict' = "running"
      BY <1>7, <2>2 DEF Backtrack, InName
    <3> QED
      BY <1>0, <1>4, <1>7, <2>1, <2>2, <3>1, BacktrackKeeps
  <2>3. CASE star = 0
    <3>1. verdict' = "mismatch"
      BY <1>7, <2>3 DEF Backtrack
    <3>2. 1 \notin Fitting[1]
      BY <1>0, <1>4, <1>7, <2>1, <2>3, Stuck, Pieces DEF NoStarYet
    <3> QED
      BY <3>1, <3>2
  <2> QED
    BY <2>2, <2>3
<1>8. CASE Finish
  <2>1. Resumable
    BY <1>4, <1>8 DEF GlobInv, Finish
  <2>2. verdict' = IF \A j \in pi .. Len(pattern) : pattern[j] = Star THEN "match" ELSE "mismatch"
    BY <1>8 DEF Finish
  <2>3. 1 \in Fitting[1] <=> \A j \in pi .. Len(pattern) : pattern[j] = Star
    BY <1>0, <1>8, <2>1, AtTheEnd
  <2> QED
    BY <2>2, <2>3
<1>9. CASE UNCHANGED vars
  <2>1. verdict' = verdict /\ pi' = pi /\ si' = si /\ star' = star /\ mark' = mark
    BY <1>9 DEF vars
  <2>2. Resumable' <=> Resumable
    BY <1>3, <2>1, Zenon DEF Resumable
  <2>3. Fits(pattern, s) <=> 1 \in Fitting[1]
    BY Zenon DEF Fits, Fitting
  <2> QED
    BY <1>4, <2>1, <2>2, <2>3 DEF GlobInv, MatchesMeaning
<1> QED
  BY <1>5, <1>6, <1>7, <1>8, <1>9 DEF Next

\* Whatever the pattern and the name, of whatever length, globMatch returns whether the
\* name is one the pattern stands for: giving only the last '*' more bytes loses no match.
THEOREM GlobCorrect == Spec => []MatchesMeaning
<1>1. GlobInv => MatchesMeaning
  BY DEF GlobInv
<1> QED
  BY <1>1, GlobInit, GlobStep, PTL DEF Spec

\* Whatever the pattern and the name, each turn of the loop is a step up a ladder of
\* finite height, so globMatch cannot run forever.
THEOREM LoopAdvances == Spec => Advances
<1>1. GlobInv /\ [Next]_vars
        => [\/ verdict' # "running"
            \/ /\ star' <= Len(pattern) /\ mark' <= Len(s) + 1 /\ si' <= Len(s) + 1
               /\ \/ star' > star
                  \/ star' = star /\ mark' > mark
                  \/ star' = star /\ mark' = mark /\ si' > si]_vars
  <2> SUFFICES ASSUME GlobInv, Next, verdict' = "running"
               PROVE  /\ star' <= Len(pattern) /\ mark' <= Len(s) + 1 /\ si' <= Len(s) + 1
                      /\ \/ star' > star
                         \/ star' = star /\ mark' > mark
                         \/ star' = star /\ mark' = mark /\ si' > si
    OBVIOUS
  <2>1. GlobTypes /\ GlobTypes'
    BY TypesKept DEF GlobInv
  <2>2. UNCHANGED <<pattern, s>>
    BY DEF Next, StarHere, Take, Backtrack, Finish
  <2>3. star' <= Len(pattern) /\ mark' <= Len(s) + 1 /\ si' <= Len(s) + 1
    BY <2>1, <2>2 DEF GlobTypes
  <2>4. CASE StarHere
    BY <2>1, <2>3, <2>4 DEF StarHere, GlobTypes
  <2>5. CASE Take
    BY <2>1, <2>3, <2>5 DEF Take, GlobTypes
  <2>6. CASE Backtrack
    BY <2>1, <2>3, <2>6 DEF Backtrack, GlobTypes
  <2>7. CASE Finish
    BY <2>7 DEF Finish
  <2> QED
    BY <2>4, <2>5, <2>6, <2>7 DEF Next
<1> QED
  BY <1>1, GlobInit, GlobStep, PTL DEF Spec, Advances
=============================================================================
