----------------------------- MODULE WireProofs -----------------------------
(***************************************************************************)
(* Proofs about Resp.tla and Wire.tla, for values and streams of any       *)
(* length: what the writers write, the readers read back.                  *)
(***************************************************************************)
EXTENDS Wire, WellFoundedInduction, TLAPS

\* Induction from 0 up to N.
LEMMA Upwards ==
  ASSUME NEW N \in Nat, NEW T,
         \A j \in 0 .. N : (\A i \in 0 .. j - 1 : i \in T) => j \in T
  PROVE  \A j \in 0 .. N : j \in T
<1> DEFINE U == {k \in 0 .. N : k \notin T}
<1>1. SUFFICES ASSUME U # {} PROVE FALSE
  OBVIOUS
<1>2. U \subseteq Nat
  OBVIOUS
<1> HIDE DEF U
<1>3. PICK k \in U : \A i \in U : ~(<<i, k>> \in OpToRel(<, Nat))
  BY <1>1, <1>2, NatLessThanWellFounded, WFMin, Zenon
<1>4. \A i \in U : ~(i < k)
  BY <1>3, <1>2, Zenon DEF OpToRel
<1>5. k \in 0 .. N /\ k \notin T
  BY Zenon DEF U
<1>6. ASSUME NEW i \in 0 .. k - 1 PROVE i \in T
  <2>1. i \in 0 .. N /\ i < k
    BY <1>5
  <2> QED
    BY <1>4, <2>1, Zenon DEF U
<1> QED
  BY <1>5, <1>6, Zenon

\* Induction from 0 up to N, one by one.
LEMMA OneByOne ==
  ASSUME NEW N \in Nat, NEW T, 0 \in T,
         \A j \in 0 .. N - 1 : j \in T => j + 1 \in T
  PROVE  \A j \in 0 .. N : j \in T
<1>1. ASSUME NEW j \in 0 .. N, \A i \in 0 .. j - 1 : i \in T PROVE j \in T
  <2>1. CASE j = 0
    BY <2>1, Zenon
  <2>2. CASE j # 0
    <3>1. j - 1 \in 0 .. j - 1 /\ j - 1 \in 0 .. N - 1 /\ j - 1 + 1 = j
      BY <2>2
    <3>2. j - 1 \in T
      BY <1>1, <3>1, Zenon
    <3>3. j - 1 + 1 \in T
      BY <3>1, <3>2, Zenon
    <3> QED
      BY <3>1, <3>3, Zenon
  <2> QED
    BY <2>1, <2>2, Zenon
<1> QED
  BY <1>1, Upwards, Zenon

\* The value of F[f] at j depends only on the values of f before j.
LooksBack(F, N, V) ==
  /\ F \in [[0 .. N -> V] -> [0 .. N -> V]]
  /\ \A f, g \in [0 .. N -> V] : \A j \in 0 .. N :
        (\A i \in 0 .. j - 1 : f[i] = g[i]) => F[f][j] = F[g][j]

Defines(F, N, V) == \E f \in [0 .. N -> V] : f = F[f]

\* Then the equation f = F[f] defines a function.
LEMMA DefinedFromTheStart ==
  ASSUME NEW N \in Nat, NEW V, V # {},
         NEW F, LooksBack(F, N, V)
  PROVE  Defines(F, N, V)
<1>0. F \in [[0 .. N -> V] -> [0 .. N -> V]]
  BY Zenon DEF LooksBack
<1> DEFINE Done(f, k) == \A j \in 0 .. k - 1 : F[f][j] = f[j]
           T == {k \in 0 .. N + 1 : \E f \in [0 .. N -> V] : Done(f, k)}
<1>1. 0 \in T
  <2>1. PICK v \in V : TRUE
    OBVIOUS
  <2>2. [j \in 0 .. N |-> v] \in [0 .. N -> V]
    OBVIOUS
  <2>3. Done([j \in 0 .. N |-> v], 0)
    OBVIOUS
  <2>4. 0 \in 0 .. N + 1
    OBVIOUS
  <2> QED
    BY <2>2, <2>3, <2>4, Zenon
<1>2. ASSUME NEW k \in 0 .. N, k \in T PROVE k + 1 \in T
  <2>1. PICK f \in [0 .. N -> V] : Done(f, k)
    BY <1>2, Zenon
  <2> DEFINE g == F[f]
  <2>2. g \in [0 .. N -> V]
    BY <1>0, Zenon
  <2>3. ASSUME NEW j \in 0 .. (k + 1) - 1 PROVE F[g][j] = g[j]
    <3>1. \A i \in 0 .. j - 1 : i \in 0 .. k - 1
      OBVIOUS
    <3>2. \A i \in 0 .. j - 1 : g[i] = f[i]
      BY <2>1, <3>1, Zenon
    <3>3. j \in 0 .. N
      OBVIOUS
    <3> QED
      BY <2>2, <3>2, <3>3, Zenon DEF LooksBack
  <2>4. Done(g, k + 1)
    BY <2>3, Zenon
  <2>5. k + 1 \in 0 .. N + 1
    OBVIOUS
  <2> QED
    BY <2>2, <2>4, <2>5, Zenon
<1> HIDE DEF T
<1>3. N + 1 \in T
  <2>1. N + 1 \in Nat /\ N + 1 \in 0 .. N + 1 /\ (N + 1) - 1 = N
    OBVIOUS
  <2>2. \A j \in 0 .. (N + 1) - 1 : j \in T => j + 1 \in T
    BY <1>2, <2>1, Zenon
  <2> QED
    BY <1>1, <2>1, <2>2, OneByOne, Zenon
<1>4. PICK f \in [0 .. N -> V] : Done(f, N + 1)
  BY <1>3, Zenon DEF T
<1>5. F[f] \in [0 .. N -> V]
  BY <1>0, Zenon
<1>6. \A j \in 0 .. N : F[f][j] = f[j]
  BY <1>4
<1>7. f = F[f]
  BY <1>5, <1>6
<1> QED
  BY <1>7, Zenon DEF Defines

-----------------------------------------------------------------------------
(***************************************************************************)
(* Sequences joined.                                                       *)
(***************************************************************************)
Joins(f, seqs) == f = [k \in 0 .. Len(seqs) |-> IF k = 0 THEN <<>> ELSE f[k - 1] \o seqs[k]]

\* Concat is the function its recursion defines.
LEMMA ConcatEquation ==
  ASSUME NEW S, NEW seqs \in Seq(Seq(S))
  PROVE  \E f : Joins(f, seqs) /\ Concat(seqs) = f[Len(seqs)]
<1> DEFINE N == Len(seqs)
           F == [f \in [0 .. N -> Seq(S)] |->
                   [k \in 0 .. N |-> IF k = 0 THEN <<>> ELSE f[k - 1] \o seqs[k]]]
<1>1. N \in Nat /\ \A k \in 1 .. N : seqs[k] \in Seq(S)
  OBVIOUS
<1> HIDE DEF N
<1>2. F \in [[0 .. N -> Seq(S)] -> [0 .. N -> Seq(S)]]
  <2>1. ASSUME NEW f \in [0 .. N -> Seq(S)], NEW k \in 0 .. N
        PROVE  (IF k = 0 THEN <<>> ELSE f[k - 1] \o seqs[k]) \in Seq(S)
    <3>1. CASE k = 0
      BY <3>1
    <3>2. CASE k # 0
      <4>1. f[k - 1] \in Seq(S) /\ seqs[k] \in Seq(S)
        BY <1>1, <3>2
      <4> QED
        BY <3>2, <4>1
    <3> QED
      BY <3>1, <3>2, Zenon
  <2> QED
    BY <2>1, Zenon
<1>3. LooksBack(F, N, Seq(S))
  <2> SUFFICES ASSUME NEW f \in [0 .. N -> Seq(S)], NEW g \in [0 .. N -> Seq(S)], NEW j \in 0 .. N,
                      \A i \in 0 .. j - 1 : f[i] = g[i]
               PROVE  F[f][j] = F[g][j]
    BY <1>2, Zenon DEF LooksBack
  <2>1. j # 0 => f[j - 1] = g[j - 1]
    BY <1>1
  <2> QED
    BY <2>1, Zenon
<1>4. <<>> \in Seq(S)
  OBVIOUS
<1>5. Defines(F, N, Seq(S))
  <2> HIDE DEF F
  <2> QED
    BY <1>1, <1>3, <1>4, DefinedFromTheStart, Zenon
<1>6. \E f : f = [k \in 0 .. Len(seqs) |-> IF k = 0 THEN <<>> ELSE f[k - 1] \o seqs[k]]
  BY <1>5, Zenon DEF Defines, N
<1> DEFINE h == CHOOSE f : f = [k \in 0 .. Len(seqs) |-> IF k = 0 THEN <<>> ELSE f[k - 1] \o seqs[k]]
<1>7. Concat(seqs) = h[Len(seqs)]
  BY Zenon DEF Concat
<1>8. h = [k \in 0 .. Len(seqs) |-> IF k = 0 THEN <<>> ELSE h[k - 1] \o seqs[k]]
  BY <1>6, Zenon
<1> HIDE DEF h
<1>9. Joins(h, seqs)
  BY <1>8, Zenon DEF Joins
<1> QED
  BY <1>7, <1>9, Zenon

\* The equation of Concat's fold, one element at a time.
LEMMA JoinsAt ==
  ASSUME NEW f, NEW seqs, Len(seqs) \in Nat, Joins(f, seqs)
  PROVE  f[0] = <<>> /\ \A k \in 1 .. Len(seqs) : f[k] = f[k - 1] \o seqs[k]
<1>1. ASSUME NEW k \in 0 .. Len(seqs)
      PROVE  f[k] = IF k = 0 THEN <<>> ELSE f[k - 1] \o seqs[k]
  BY Zenon DEF Joins
<1>2. 0 \in 0 .. Len(seqs) /\ \A k \in 1 .. Len(seqs) : k \in 0 .. Len(seqs) /\ k # 0
  OBVIOUS
<1> QED
  BY <1>1, <1>2, Zenon

\* Two functions with the same recursion agree as far as both have the same sequences.
LEMMA JoinsAgree ==
  ASSUME NEW f, NEW g, NEW s, NEW t, Joins(f, s), Joins(g, t),
         Len(s) \in Nat, Len(t) \in Nat, DOMAIN s = 1 .. Len(s), Begins(s, t)
  PROVE  \A k \in 0 .. Len(s) : f[k] = g[k]
<1>0. Len(s) <= Len(t) /\ \A k \in 1 .. Len(s) : s[k] = t[k]
  BY Zenon DEF Begins
<1> DEFINE T == {k \in 0 .. Len(s) : f[k] = g[k]}
<1>1. 0 \in T
  <2>1. f[0] = <<>> /\ g[0] = <<>>
    BY JoinsAt, Zenon
  <2> QED
    BY <2>1
<1>2. \A j \in 0 .. Len(s) - 1 : j \in T => j + 1 \in T
  <2> SUFFICES ASSUME NEW j \in 0 .. Len(s) - 1, j \in T PROVE j + 1 \in T
    OBVIOUS
  <2>1. j + 1 \in 1 .. Len(s) /\ j + 1 \in 1 .. Len(t) /\ (j + 1) - 1 = j /\ j + 1 \in 0 .. Len(s)
    BY <1>0
  <2>2. f[j + 1] = f[j] \o s[j + 1]
    <3>1. \A k \in 1 .. Len(s) : f[k] = f[k - 1] \o s[k]
      BY JoinsAt, Zenon
    <3> QED
      BY <2>1, <3>1, Zenon
  <2>3. g[j + 1] = g[j] \o t[j + 1]
    <3>1. \A k \in 1 .. Len(t) : g[k] = g[k - 1] \o t[k]
      BY JoinsAt, Zenon
    <3> QED
      BY <2>1, <3>1, Zenon
  <2>4. f[j] = g[j] /\ s[j + 1] = t[j + 1]
    BY <1>0, <2>1, Zenon
  <2>5. f[j + 1] = g[j + 1]
    BY <2>2, <2>3, <2>4, Zenon
  <2> QED
    BY <2>1, <2>5, Zenon
<1> HIDE DEF T
<1>3. \A j \in 0 .. Len(s) : j \in T
  BY <1>1, <1>2, OneByOne, Zenon
<1> QED
  BY <1>3, Zenon DEF T

\* Concat as its two cases.
LEMMA ConcatEmpty == Concat(<<>>) = <<>>
<1>1. <<>> \in Seq(Seq({})) /\ Len(<<>>) = 0
  OBVIOUS
<1>2. PICK f : Joins(f, <<>>) /\ Concat(<<>>) = f[Len(<<>>)]
  BY <1>1, ConcatEquation, Zenon
<1>3. 0 \in Nat
  OBVIOUS
<1>4. f[0] = <<>>
  BY <1>1, <1>2, <1>3, JoinsAt, Zenon
<1> QED
  BY <1>1, <1>2, <1>4, Zenon

\* Concat of one more sequence: a stream grows at its end.
LEMMA ConcatAppend ==
  ASSUME NEW S, NEW seqs \in Seq(Seq(S)), NEW x \in Seq(S)
  PROVE  Concat(Append(seqs, x)) = Concat(seqs) \o x
<1> DEFINE more == Append(seqs, x)
<1>1. /\ more \in Seq(Seq(S)) /\ Len(seqs) \in Nat /\ Len(more) = Len(seqs) + 1 /\ Len(more) \in Nat
      /\ more[Len(more)] = x /\ \A k \in 1 .. Len(seqs) : seqs[k] = more[k]
      /\ DOMAIN seqs = 1 .. Len(seqs)
  OBVIOUS
<1>2. /\ Begins(seqs, more) /\ Len(more) - 1 = Len(seqs)
      /\ Len(more) \in 1 .. Len(more) /\ Len(seqs) \in 0 .. Len(seqs)
  BY <1>1 DEF Begins
<1> HIDE DEF more
<1>3. PICK f : Joins(f, seqs) /\ Concat(seqs) = f[Len(seqs)]
  BY ConcatEquation, Zenon
<1>4. PICK g : Joins(g, more) /\ Concat(more) = g[Len(more)]
  BY <1>1, ConcatEquation, Zenon
<1>5. f[Len(seqs)] = g[Len(seqs)]
  <2>1. /\ Joins(f, seqs) /\ Joins(g, more) /\ Len(seqs) \in Nat /\ Len(more) \in Nat
        /\ DOMAIN seqs = 1 .. Len(seqs) /\ Begins(seqs, more)
    BY <1>1, <1>2, <1>3, <1>4, Zenon
  <2>2. \A k \in 0 .. Len(seqs) : f[k] = g[k]
    BY <2>1, JoinsAgree, Zenon
  <2> QED
    BY <1>2, <2>2, Zenon
<1>6. g[Len(more)] = g[Len(more) - 1] \o more[Len(more)]
  <2>1. Joins(g, more) /\ Len(more) \in Nat
    BY <1>1, <1>4, Zenon
  <2> DEFINE k == Len(more)
  <2>2. k \in 0 .. Len(more) /\ k # 0
    BY <1>1, <1>2
  <2> HIDE DEF k
  <2>3. g[k] = IF k = 0 THEN <<>> ELSE g[k - 1] \o more[k]
    BY <2>1, <2>2, Zenon DEF Joins
  <2>4. g[k] = g[k - 1] \o more[k]
    BY <2>2, <2>3, Zenon
  <2> QED
    BY <2>4, Zenon DEF k
<1> QED
  BY <1>1, <1>2, <1>3, <1>4, <1>5, <1>6, Zenon DEF more

\* The first k of n sequences, joined.
Joined(seqs, k) == Concat([j \in 1 .. k |-> seqs[j]])

\* Concat goes through its prefixes, one sequence at a time.
LEMMA JoinedStep ==
  ASSUME NEW S, NEW seqs \in Seq(Seq(S)), NEW k \in 0 .. Len(seqs)
  PROVE  /\ Joined(seqs, 0) = <<>> /\ Joined(seqs, Len(seqs)) = Concat(seqs)
         /\ k < Len(seqs) => Joined(seqs, k + 1) = Joined(seqs, k) \o seqs[k + 1]
<1>1. Len(seqs) \in Nat /\ \A j \in 1 .. Len(seqs) : seqs[j] \in Seq(S)
  OBVIOUS
<1>2. Joined(seqs, 0) = <<>>
  <2>1. [j \in 1 .. 0 |-> seqs[j]] = <<>>
    OBVIOUS
  <2> QED
    BY <2>1, ConcatEmpty, Zenon DEF Joined
<1>3. Joined(seqs, Len(seqs)) = Concat(seqs)
  <2>1. [j \in 1 .. Len(seqs) |-> seqs[j]] = seqs
    OBVIOUS
  <2> QED
    BY <2>1, Zenon DEF Joined
<1>4. ASSUME k < Len(seqs) PROVE Joined(seqs, k + 1) = Joined(seqs, k) \o seqs[k + 1]
  <2> DEFINE fst == [j \in 1 .. k |-> seqs[j]]
             more == [j \in 1 .. k + 1 |-> seqs[j]]
  <2>1. k \in Nat /\ k + 1 \in 1 .. Len(seqs) /\ seqs[k + 1] \in Seq(S)
    BY <1>1, <1>4
  <2>2. fst \in Seq(Seq(S)) /\ Len(fst) = k
    BY <1>1, <2>1
  <2>3. more = Append(fst, seqs[k + 1])
    BY <1>1, <2>1, <2>2
  <2> HIDE DEF fst, more
  <2>4. Concat(more) = Concat(fst) \o seqs[k + 1]
    BY <2>1, <2>2, <2>3, ConcatAppend, Zenon
  <2> QED
    BY <2>4, Zenon DEF Joined, fst, more
<1> QED
  BY <1>2, <1>3, <1>4, Zenon

\* Each prefix of Concat is a sequence over the same set.
LEMMA JoinedType ==
  ASSUME NEW S, NEW seqs \in Seq(Seq(S))
  PROVE  \A k \in 0 .. Len(seqs) : Joined(seqs, k) \in Seq(S)
<1>1. Len(seqs) \in Nat /\ \A j \in 1 .. Len(seqs) : seqs[j] \in Seq(S)
  OBVIOUS
<1> DEFINE T == {k \in 0 .. Len(seqs) : Joined(seqs, k) \in Seq(S)}
<1>2. 0 \in T
  <2>1. 0 \in 0 .. Len(seqs)
    BY <1>1
  <2>2. Joined(seqs, 0) = <<>>
    BY <2>1, JoinedStep, Zenon
  <2>3. <<>> \in Seq(S)
    OBVIOUS
  <2> QED
    BY <2>1, <2>2, <2>3, Zenon
<1>3. \A k \in 0 .. Len(seqs) - 1 : k \in T => k + 1 \in T
  <2> SUFFICES ASSUME NEW k \in 0 .. Len(seqs) - 1, k \in T PROVE k + 1 \in T
    OBVIOUS
  <2>1. k \in 0 .. Len(seqs) /\ k < Len(seqs) /\ k + 1 \in 0 .. Len(seqs) /\ k + 1 \in 1 .. Len(seqs)
    BY <1>1
  <2>2. Joined(seqs, k + 1) = Joined(seqs, k) \o seqs[k + 1]
    BY <2>1, JoinedStep, Zenon
  <2>3. Joined(seqs, k) \in Seq(S) /\ seqs[k + 1] \in Seq(S)
    BY <1>1, <2>1, Zenon
  <2>4. Joined(seqs, k) \o seqs[k + 1] \in Seq(S)
    BY <2>3
  <2> QED
    BY <2>1, <2>2, <2>4, Zenon
<1> HIDE DEF T
<1>4. \A k \in 0 .. Len(seqs) : k \in T
  BY <1>1, <1>2, <1>3, OneByOne, Zenon
<1> QED
  BY <1>4, Zenon DEF T

-----------------------------------------------------------------------------
(***************************************************************************)
(* Decimal numbers.                                                        *)
(***************************************************************************)
Counts(f, u) == f = [k \in 0 .. Len(u) |-> IF k = 0 THEN 0 ELSE 10 * f[k - 1] + u[k] - Zero]

\* Worth is the function its recursion defines.
LEMMA WorthEquation ==
  ASSUME NEW u \in Seq(Int)
  PROVE  \E f : Counts(f, u) /\ Worth(u) = f[Len(u)]
<1> DEFINE N == Len(u)
           F == [f \in [0 .. N -> Int] |->
                   [k \in 0 .. N |-> IF k = 0 THEN 0 ELSE 10 * f[k - 1] + u[k] - Zero]]
<1>1. N \in Nat /\ \A k \in 1 .. N : u[k] \in Int
  OBVIOUS
<1> HIDE DEF N
<1>2. F \in [[0 .. N -> Int] -> [0 .. N -> Int]]
  <2>1. ASSUME NEW f \in [0 .. N -> Int], NEW k \in 0 .. N
        PROVE  (IF k = 0 THEN 0 ELSE 10 * f[k - 1] + u[k] - Zero) \in Int
    BY <1>1 DEF Zero
  <2> QED
    BY <2>1, Zenon
<1>3. LooksBack(F, N, Int)
  <2> SUFFICES ASSUME NEW f \in [0 .. N -> Int], NEW g \in [0 .. N -> Int], NEW j \in 0 .. N,
                      \A i \in 0 .. j - 1 : f[i] = g[i]
               PROVE  F[f][j] = F[g][j]
    BY <1>2, Zenon DEF LooksBack
  <2>1. j # 0 => f[j - 1] = g[j - 1]
    BY <1>1
  <2> QED
    BY <2>1, Zenon
<1>4. Defines(F, N, Int)
  <2>1. Int # {}
    OBVIOUS
  <2> HIDE DEF F
  <2> QED
    BY <1>1, <1>3, <2>1, DefinedFromTheStart, Zenon
<1>5. \E f : f = [k \in 0 .. Len(u) |-> IF k = 0 THEN 0 ELSE 10 * f[k - 1] + u[k] - Zero]
  BY <1>4, Zenon DEF Defines, N
<1> DEFINE h == CHOOSE f : f = [k \in 0 .. Len(u) |-> IF k = 0 THEN 0 ELSE 10 * f[k - 1] + u[k] - Zero]
<1>6. Worth(u) = h[Len(u)]
  BY Zenon DEF Worth
<1>7. h = [k \in 0 .. Len(u) |-> IF k = 0 THEN 0 ELSE 10 * h[k - 1] + u[k] - Zero]
  BY <1>5, Zenon
<1> HIDE DEF h
<1>8. Counts(h, u)
  BY <1>7, Zenon DEF Counts
<1> QED
  BY <1>6, <1>8, Zenon

\* The equation of Worth's fold, one digit at a time.
LEMMA CountsAt ==
  ASSUME NEW f, NEW u, Len(u) \in Nat, Counts(f, u)
  PROVE  f[0] = 0 /\ \A k \in 1 .. Len(u) : f[k] = 10 * f[k - 1] + u[k] - Zero
<1>1. ASSUME NEW k \in 0 .. Len(u)
      PROVE  f[k] = IF k = 0 THEN 0 ELSE 10 * f[k - 1] + u[k] - Zero
  BY Zenon DEF Counts
<1>2. 0 \in 0 .. Len(u) /\ \A k \in 1 .. Len(u) : k \in 0 .. Len(u) /\ k # 0
  OBVIOUS
<1> QED
  BY <1>1, <1>2, Zenon

\* The folds of Worth agree on the digits two numerals have in common.
LEMMA CountsAgree ==
  ASSUME NEW f, NEW g, NEW s, NEW t, Counts(f, s), Counts(g, t),
         Len(s) \in Nat, Len(t) \in Nat, DOMAIN s = 1 .. Len(s), Begins(s, t)
  PROVE  \A k \in 0 .. Len(s) : f[k] = g[k]
<1>0. Len(s) <= Len(t) /\ \A k \in 1 .. Len(s) : s[k] = t[k]
  BY Zenon DEF Begins
<1> DEFINE T == {k \in 0 .. Len(s) : f[k] = g[k]}
<1>1. 0 \in T
  <2>1. f[0] = 0 /\ g[0] = 0
    BY CountsAt, Zenon
  <2> QED
    BY <2>1
<1>2. \A j \in 0 .. Len(s) - 1 : j \in T => j + 1 \in T
  <2> SUFFICES ASSUME NEW j \in 0 .. Len(s) - 1, j \in T PROVE j + 1 \in T
    OBVIOUS
  <2>1. j + 1 \in 1 .. Len(s) /\ j + 1 \in 1 .. Len(t) /\ (j + 1) - 1 = j /\ j + 1 \in 0 .. Len(s)
    BY <1>0
  <2>2. f[j + 1] = 10 * f[j] + s[j + 1] - Zero
    <3>1. \A k \in 1 .. Len(s) : f[k] = 10 * f[k - 1] + s[k] - Zero
      BY CountsAt, Zenon
    <3> QED
      BY <2>1, <3>1, Zenon
  <2>3. g[j + 1] = 10 * g[j] + t[j + 1] - Zero
    <3>1. \A k \in 1 .. Len(t) : g[k] = 10 * g[k - 1] + t[k] - Zero
      BY CountsAt, Zenon
    <3> QED
      BY <2>1, <3>1, Zenon
  <2>4. f[j] = g[j] /\ s[j + 1] = t[j + 1]
    BY <1>0, <2>1, Zenon
  <2>5. f[j + 1] = g[j + 1]
    BY <2>2, <2>3, <2>4, Zenon
  <2> QED
    BY <2>1, <2>5, Zenon
<1> HIDE DEF T
<1>3. \A j \in 0 .. Len(s) : j \in T
  BY <1>1, <1>2, OneByOne, Zenon
<1> QED
  BY <1>3, Zenon DEF T

\* Worth as its two cases.
LEMMA WorthCases ==
  /\ Worth(<<>>) = 0
  /\ \A u \in Seq(Int), d \in Int : Worth(Append(u, d)) = 10 * Worth(u) + d - Zero
<1>1. Worth(<<>>) = 0
  <2>1. <<>> \in Seq(Int) /\ Len(<<>>) = 0 /\ 0 \in Nat
    OBVIOUS
  <2>2. PICK f : Counts(f, <<>>) /\ Worth(<<>>) = f[Len(<<>>)]
    BY <2>1, WorthEquation, Zenon
  <2>3. f[0] = 0
    BY <2>1, <2>2, CountsAt, Zenon
  <2> QED
    BY <2>1, <2>2, <2>3, Zenon
<1>2. ASSUME NEW u \in Seq(Int), NEW d \in Int PROVE Worth(Append(u, d)) = 10 * Worth(u) + d - Zero
  <2> DEFINE more == Append(u, d)
  <2>1. /\ more \in Seq(Int) /\ Len(u) \in Nat /\ Len(more) = Len(u) + 1 /\ Len(more) \in Nat
        /\ more[Len(more)] = d /\ \A k \in 1 .. Len(u) : u[k] = more[k]
        /\ DOMAIN u = 1 .. Len(u)
    OBVIOUS
  <2>2. /\ Begins(u, more) /\ Len(more) - 1 = Len(u)
        /\ Len(more) \in 1 .. Len(more) /\ Len(u) \in 0 .. Len(u)
    BY <2>1 DEF Begins
  <2> HIDE DEF more
  <2>3. PICK f : Counts(f, u) /\ Worth(u) = f[Len(u)]
    BY WorthEquation, Zenon
  <2>4. PICK g : Counts(g, more) /\ Worth(more) = g[Len(more)]
    BY <2>1, WorthEquation, Zenon
  <2>5. f[Len(u)] = g[Len(u)]
    <3>1. /\ Counts(f, u) /\ Counts(g, more) /\ Len(u) \in Nat /\ Len(more) \in Nat
          /\ DOMAIN u = 1 .. Len(u) /\ Begins(u, more)
      BY <2>1, <2>2, <2>3, <2>4, Zenon
    <3>2. \A k \in 0 .. Len(u) : f[k] = g[k]
      BY <3>1, CountsAgree, Zenon
    <3> QED
      BY <2>2, <3>2, Zenon
  <2>6. g[Len(more)] = 10 * g[Len(more) - 1] + more[Len(more)] - Zero
    <3>1. Counts(g, more) /\ Len(more) \in Nat
      BY <2>1, <2>4, Zenon
    <3>2. \A k \in 1 .. Len(more) : g[k] = 10 * g[k - 1] + more[k] - Zero
      BY <3>1, CountsAt, Zenon
    <3> QED
      BY <2>2, <3>2, Zenon
  <2> QED
    BY <2>1, <2>2, <2>3, <2>4, <2>5, <2>6, Zenon DEF more
<1> QED
  BY <1>1, <1>2, Zenon

\* Atoi's sum is a number.
LEMMA WorthType == ASSUME NEW u \in Seq(Int) PROVE Worth(u) \in Int
<1>1. PICK f : Counts(f, u) /\ Worth(u) = f[Len(u)]
  BY WorthEquation, Zenon
<1>2. Len(u) \in Nat /\ Len(u) \in 0 .. Len(u) /\ \A k \in 1 .. Len(u) : u[k] \in Int
  OBVIOUS
<1>3. f[0] = 0 /\ \A k \in 1 .. Len(u) : f[k] = 10 * f[k - 1] + u[k] - Zero
  BY <1>1, <1>2, CountsAt, Zenon
<1> DEFINE T == {k \in 0 .. Len(u) : f[k] \in Int}
<1>4. 0 \in T
  BY <1>2, <1>3
<1>5. \A k \in 0 .. Len(u) - 1 : k \in T => k + 1 \in T
  <2> SUFFICES ASSUME NEW k \in 0 .. Len(u) - 1, k \in T PROVE k + 1 \in T
    OBVIOUS
  <2>1. k + 1 \in 1 .. Len(u) /\ (k + 1) - 1 = k /\ k + 1 \in 0 .. Len(u)
    BY <1>2
  <2>2. f[k + 1] = 10 * f[k] + u[k + 1] - Zero
    BY <1>3, <2>1, Zenon
  <2>3. f[k] \in Int /\ u[k + 1] \in Int
    BY <1>2, <2>1, Zenon
  <2> QED
    BY <2>1, <2>2, <2>3 DEF Zero
<1> HIDE DEF T
<1>6. \A k \in 0 .. Len(u) : k \in T
  BY <1>2, <1>4, <1>5, OneByOne, Zenon
<1> QED
  BY <1>1, <1>2, <1>6, Zenon DEF T

Decimal == Zero .. Zero + 9

\* A decimal number: at least one digit, no sign, worth n.
Denotes(u, n) == u \in Seq(Decimal) /\ Len(u) > 0 /\ Worth(u) = n

\* strconv.Itoa writes the decimal digits of a number that is not negative.
LEMMA DigitsDenote == ASSUME NEW n \in Nat PROVE Denotes(Digits(n), n)
<1> DEFINE V == Seq(Decimal)
           F == [f \in [0 .. n -> V] |-> [m \in 0 .. n |->
                   IF m < 10 THEN <<Zero + m>> ELSE Append(f[m \div 10], Zero + (m % 10))]]
<1>1. \A m \in 0 .. n : m < 10 \/ (m \div 10 \in 0 .. m - 1 /\ m \div 10 \in 0 .. n /\ m % 10 \in 0 .. 9
                                   /\ 10 * (m \div 10) + (m % 10) = m)
  OBVIOUS
<1>2. F \in [[0 .. n -> V] -> [0 .. n -> V]]
  <2>1. ASSUME NEW f \in [0 .. n -> V], NEW m \in 0 .. n
        PROVE  (IF m < 10 THEN <<Zero + m>> ELSE Append(f[m \div 10], Zero + (m % 10))) \in V
    <3>1. CASE m < 10
      BY <3>1 DEF Zero, Decimal
    <3>2. CASE ~(m < 10)
      <4>1. f[m \div 10] \in V /\ Zero + (m % 10) \in Decimal
        BY <1>1, <3>2 DEF Zero, Decimal
      <4> QED
        BY <3>2, <4>1
    <3> QED
      BY <3>1, <3>2, Zenon
  <2> QED
    BY <2>1, Zenon
<1>3. LooksBack(F, n, V)
  <2> SUFFICES ASSUME NEW f \in [0 .. n -> V], NEW g \in [0 .. n -> V], NEW j \in 0 .. n,
                      \A i \in 0 .. j - 1 : f[i] = g[i]
               PROVE  F[f][j] = F[g][j]
    BY <1>2, Zenon DEF LooksBack
  <2>1. j < 10 \/ f[j \div 10] = g[j \div 10]
    BY <1>1, Zenon
  <2> QED
    BY <2>1, Zenon
<1>4. Defines(F, n, V)
  <2>1. <<>> \in V
    OBVIOUS
  <2> HIDE DEF F, V
  <2> QED
    BY <1>3, <2>1, DefinedFromTheStart, Zenon
<1> DEFINE G(f) == [m \in 0 .. n |->
                     IF m < 10 THEN <<Zero + m>> ELSE Append(f[m \div 10], Zero + (m % 10))]
           h == CHOOSE f : f = G(f)
<1>5. \E f : f = G(f)
  BY <1>4, Zenon DEF Defines
<1>6. Digits(n) = h[n]
  BY Zenon DEF Digits
<1>7. h = G(h)
  BY <1>5, Zenon
<1> HIDE DEF h
<1>8. \A m \in 0 .. n : h[m] = IF m < 10 THEN <<Zero + m>> ELSE Append(h[m \div 10], Zero + (m % 10))
  BY <1>7, Zenon
<1> DEFINE T == {m \in 0 .. n : Denotes(h[m], m)}
<1>9. ASSUME NEW m \in 0 .. n, \A i \in 0 .. m - 1 : i \in T PROVE m \in T
  <2>1. CASE m < 10
    <3>1. h[m] = <<Zero + m>>
      BY <1>8, <2>1, Zenon
    <3>2. <<Zero + m>> = Append(<<>>, Zero + m) /\ <<>> \in Seq(Int) /\ Zero + m \in Int
      BY DEF Zero
    <3>3. Worth(Append(<<>>, Zero + m)) = 10 * Worth(<<>>) + (Zero + m) - Zero
      BY <3>2, WorthCases, Zenon
    <3>4. Worth(<<>>) = 0
      BY WorthCases, Zenon
    <3>5. 10 * 0 + (Zero + m) - Zero = m
      BY DEF Zero
    <3>6. Worth(<<Zero + m>>) = m
      BY <3>2, <3>3, <3>4, <3>5, Zenon
    <3>7. <<Zero + m>> \in Seq(Decimal) /\ Len(<<Zero + m>>) > 0
      BY <2>1 DEF Zero, Decimal
    <3>8. Denotes(h[m], m)
      BY <3>1, <3>6, <3>7, Zenon DEF Denotes
    <3> QED
      BY <3>8, Zenon
  <2>2. CASE ~(m < 10)
    <3> DEFINE u == h[m \div 10]
    <3>1. h[m] = Append(u, Zero + (m % 10))
      BY <1>8, <2>2, Zenon
    <3>2. m \div 10 \in T /\ m % 10 \in 0 .. 9 /\ 10 * (m \div 10) + (m % 10) = m
      BY <1>1, <1>9, <2>2, Zenon
    <3>3. Denotes(u, m \div 10)
      BY <3>2, Zenon
    <3> HIDE DEF u
    <3>4. u \in Seq(Decimal) /\ Worth(u) = m \div 10
      BY <3>3, Zenon DEF Denotes
    <3>5. Zero + (m % 10) \in Decimal /\ Zero + (m % 10) \in Int
      BY <3>2 DEF Zero, Decimal
    <3>6. u \in Seq(Int)
      BY <3>4 DEF Decimal, Zero
    <3>7. Worth(Append(u, Zero + (m % 10))) = 10 * Worth(u) + (Zero + (m % 10)) - Zero
      BY <3>5, <3>6, WorthCases, Zenon
    <3>8. 10 * (m \div 10) + (Zero + (m % 10)) - Zero = m
      BY <3>2 DEF Zero
    <3>9. Worth(Append(u, Zero + (m % 10))) = m
      BY <3>4, <3>7, <3>8, Zenon
    <3>10. Append(u, Zero + (m % 10)) \in Seq(Decimal) /\ Len(Append(u, Zero + (m % 10))) > 0
      BY <3>4, <3>5
    <3>11. Denotes(h[m], m)
      BY <3>1, <3>9, <3>10, Zenon DEF Denotes
    <3> QED
      BY <3>11, Zenon
  <2> QED
    BY <2>1, <2>2, Zenon
<1> HIDE DEF T
<1>10. \A m \in 0 .. n : m \in T
  BY <1>9, Upwards, Zenon
<1>11. n \in 0 .. n
  OBVIOUS
<1> QED
  BY <1>6, <1>10, <1>11, Zenon DEF T

-----------------------------------------------------------------------------
(***************************************************************************)
(* Lines.                                                                  *)
(***************************************************************************)
\* From p on, t is what e says, as far as t goes.
Carries(t, p, e) == \A i \in 1 .. Len(e) : p + i - 1 <= Len(t) => t[p + i - 1] = e[i]

Plain(l) == \A i \in 1 .. Len(l) : l[i] # LF

\* A stream that carries two texts carries the first, and the second after it.
LEMMA CarriesParts ==
  ASSUME NEW S, NEW t \in Seq(S), NEW p \in Nat \ {0}, NEW c \in Seq(S), NEW d \in Seq(S),
         Carries(t, p, c \o d)
  PROVE  Carries(t, p, c) /\ Carries(t, p + Len(c), d)
<1>1. /\ Len(c) \in Nat /\ Len(d) \in Nat /\ Len(c \o d) = Len(c) + Len(d)
      /\ \A i \in 1 .. Len(c) : (c \o d)[i] = c[i]
      /\ \A i \in 1 .. Len(d) : (c \o d)[Len(c) + i] = d[i]
  OBVIOUS
<1>2. ASSUME NEW i \in 1 .. Len(c), p + i - 1 <= Len(t) PROVE t[p + i - 1] = c[i]
  <2>1. i \in 1 .. Len(c \o d)
    BY <1>1
  <2> QED
    BY <1>1, <1>2, <2>1, Zenon DEF Carries
<1>3. ASSUME NEW i \in 1 .. Len(d), p + Len(c) + i - 1 <= Len(t) PROVE t[p + Len(c) + i - 1] = d[i]
  <2>1. Len(c) + i \in 1 .. Len(c \o d) /\ p + (Len(c) + i) - 1 = p + Len(c) + i - 1
    BY <1>1
  <2> QED
    BY <1>1, <1>3, <2>1, Zenon DEF Carries
<1> QED
  BY <1>2, <1>3, Zenon DEF Carries

\* Two sequences with the same elements are the same.
LEMMA SameSequence ==
  ASSUME NEW S, NEW c \in Seq(S), NEW d \in Seq(S), Len(c) = Len(d),
         \A i \in 1 .. Len(c) : c[i] = d[i]
  PROVE  c = d
  OBVIOUS

\* What a stream carries, cut out of it.
LEMMA CutOut ==
  ASSUME NEW t \in Seq(Byte), NEW p \in Nat \ {0}, NEW c \in Seq(Byte),
         p + Len(c) - 1 <= Len(t), Carries(t, p, c)
  PROVE  SubSeq(t, p, p + Len(c) - 1) = c
<1> DEFINE n == Len(c)
           q == p + n - 1
           d == SubSeq(t, p, q)
<1>1. n \in Nat /\ Len(t) \in Nat /\ q \in Int /\ p <= q + 1 /\ q <= Len(t) /\ q - p + 1 = n
  OBVIOUS
<1>2. \A i \in 1 .. n : p + i - 1 <= Len(t)
  BY <1>1
<1>3. \A i \in 1 .. n : t[p + i - 1] = c[i]
  BY <1>2, Zenon DEF Carries
<1> HIDE DEF n, q
<1>4. d \in Seq(Byte) /\ Len(d) = q - p + 1 /\ \A i \in 1 .. q - p + 1 : d[i] = t[p + i - 1]
  BY <1>1
<1> HIDE DEF d
<1>5. Len(d) = Len(c) /\ \A i \in 1 .. Len(d) : d[i] = c[i]
  BY <1>1, <1>3, <1>4, Zenon DEF n
<1>6. d = c
  BY <1>4, <1>5, SameSequence, Zenon
<1> QED
  BY <1>6, Zenon DEF d, q, n

\* Where a line that t carries at p ends.
LEMMA LineEnds ==
  ASSUME NEW t \in Seq(Byte), NEW p \in Nat \ {0}, NEW l \in Seq(Byte),
         Plain(l), Carries(t, p, l \o CRLF)
  PROVE  /\ Len(l) \in Nat /\ Len(t) \in Nat
         /\ \A i \in p .. Len(t) : i < p + Len(l) + 1 => t[i] # LF
         /\ p + Len(l) + 1 <= Len(t) =>
              t[p + Len(l) + 1] = LF /\ t[p + Len(l)] = CR /\ SubSeq(t, p, p + Len(l) - 1) = l
<1>1. /\ Len(l) \in Nat /\ Len(t) \in Nat /\ CRLF \in Seq(Byte) /\ Len(CRLF) = 2
      /\ CRLF[1] = CR /\ CRLF[2] = LF /\ CR # LF
  BY DEF CRLF, CR, LF, Byte
<1>2. Carries(t, p, l) /\ Carries(t, p + Len(l), CRLF)
  BY <1>1, CarriesParts, Zenon
<1>3. \A i \in 1 .. Len(l) : p + i - 1 <= Len(t) => t[p + i - 1] = l[i]
  BY <1>2, Zenon DEF Carries
<1>4. \A i \in 1 .. 2 : p + Len(l) + i - 1 <= Len(t) => t[p + Len(l) + i - 1] = CRLF[i]
  BY <1>1, <1>2, Zenon DEF Carries
<1>5. p + Len(l) <= Len(t) => t[p + Len(l)] = CR
  <2>1. p + Len(l) + 1 - 1 = p + Len(l) /\ 1 \in 1 .. 2
    BY <1>1
  <2> QED
    BY <1>1, <1>4, <2>1, Zenon
<1>6. p + Len(l) + 1 <= Len(t) => t[p + Len(l) + 1] = LF
  <2>1. p + Len(l) + 2 - 1 = p + Len(l) + 1 /\ 2 \in 1 .. 2
    BY <1>1
  <2> QED
    BY <1>1, <1>4, <2>1, Zenon
<1>7. ASSUME NEW i \in p .. Len(t), i < p + Len(l) + 1 PROVE t[i] # LF
  <2>1. CASE i = p + Len(l)
    BY <1>1, <1>5, <2>1
  <2>2. CASE i # p + Len(l)
    <3>1. i - p + 1 \in 1 .. Len(l) /\ p + (i - p + 1) - 1 = i /\ i <= Len(t)
      BY <1>1, <1>7, <2>2
    <3>2. t[i] = l[i - p + 1]
      BY <1>3, <3>1, Zenon
    <3> QED
      BY <3>1, <3>2, Zenon DEF Plain
  <2> QED
    BY <2>1, <2>2, Zenon
<1>8. ASSUME p + Len(l) + 1 <= Len(t) PROVE SubSeq(t, p, p + Len(l) - 1) = l
  <2>1. p + Len(l) - 1 <= Len(t)
    BY <1>1, <1>8
  <2> QED
    BY <1>2, <2>1, CutOut, Zenon
<1>9. p + Len(l) + 1 <= Len(t) => p + Len(l) <= Len(t)
  BY <1>1
<1> QED
  BY <1>1, <1>5, <1>6, <1>7, <1>8, <1>9, Zenon

\* A line that is all there is read, unless it is too long.
LEMMA WholeLine ==
  ASSUME NEW t \in Seq(Byte), NEW p \in Nat \ {0}, NEW l \in Seq(Byte), NEW max \in Nat,
         Plain(l), Carries(t, p, l \o CRLF), p + Len(l) + 1 <= Len(t)
  PROVE  /\ Len(l) > max => ReadLine(t, p, max) = Stop("perr")
         /\ ~(Len(l) > max) => ReadLine(t, p, max) = Ok(l, p + Len(l) + 2)
<1> DEFINE ends == {i \in p .. Len(t) : t[i] = LF}
           end == CHOOSE i \in ends : \A j \in ends : i <= j
           e == p + Len(l) + 1
           last == IF end > p /\ t[end - 1] = CR THEN end - 2 ELSE end - 1
<1>1. /\ Len(l) \in Nat /\ Len(t) \in Nat
      /\ \A i \in p .. Len(t) : i < e => t[i] # LF
      /\ t[e] = LF /\ t[p + Len(l)] = CR /\ SubSeq(t, p, p + Len(l) - 1) = l
  BY LineEnds, Zenon
<1>2. e \in ends /\ \A j \in ends : e <= j
  BY <1>1
<1>3. \A i \in ends : (\A j \in ends : i <= j) => i = e
  BY <1>1, <1>2
<1>4. end = e
  <2> HIDE DEF ends, e
  <2> QED
    BY <1>2, <1>3, Zenon
<1>5. ends # {}
  BY <1>2, Zenon
<1>6. e > p /\ e - 1 = p + Len(l) /\ e - 2 = p + Len(l) - 1 /\ (e - 2) - p + 1 = Len(l) /\ e + 1 = p + Len(l) + 2
  BY <1>1
<1>7. last = e - 2
  BY <1>1, <1>4, <1>6, Zenon
<1>8. ReadLine(t, p, max) = IF last - p + 1 > max THEN Stop("perr") ELSE Ok(SubSeq(t, p, last), end + 1)
  BY <1>5, Zenon DEF ReadLine
<1> QED
  <2> HIDE DEF e, last, end
  <2> QED
    BY <1>1, <1>4, <1>6, <1>7, <1>8, Zenon

\* A line that is not all there has no end.
LEMMA PartOfLine ==
  ASSUME NEW t \in Seq(Byte), NEW p \in Nat \ {0}, NEW l \in Seq(Byte), NEW max \in Nat,
         Plain(l), Carries(t, p, l \o CRLF), p + Len(l) + 1 > Len(t), p <= Len(t) + 1
  PROVE  /\ ReadLine(t, p, max) \in {Stop("perr"), Stop("eof")}
         /\ Len(l) + 1 <= max => ReadLine(t, p, max) = Stop("eof")
<1> DEFINE ends == {i \in p .. Len(t) : t[i] = LF}
           n == Len(t) - p + 1
<1>1. /\ Len(l) \in Nat /\ Len(t) \in Nat
      /\ \A i \in p .. Len(t) : i < p + Len(l) + 1 => t[i] # LF
  BY LineEnds, Zenon
<1>2. ends = {}
  BY <1>1
<1>3. ReadLine(t, p, max) = Stop(IF BufLen * (n \div BufLen) > max THEN "perr" ELSE "eof")
  BY <1>2, Zenon DEF ReadLine
<1>4. n \in Nat /\ n <= Len(l) + 1
  BY <1>1
<1> HIDE DEF n
<1>5. BufLen * (n \div BufLen) <= n
  BY <1>4, BufAssumption
<1>6. Len(l) + 1 <= max => ~(BufLen * (n \div BufLen) > max)
  BY <1>1, <1>4, <1>5, BufAssumption
<1> QED
  BY <1>3, <1>6, Zenon

\* The line of a header: its type byte and a number.
HeaderLine(prefix, n) == <<prefix>> \o Itoa(n)

\* A header line as Writer writes it: one line of bytes, whose number strconv reads back.
LEMMA HeaderReads ==
  ASSUME NEW n \in Nat, NEW prefix \in Byte \ {LF}
  PROVE  /\ HeaderLine(prefix, n) \in Seq(Byte) /\ Plain(HeaderLine(prefix, n))
         /\ LineOf(prefix, Itoa(n)) = HeaderLine(prefix, n) \o CRLF
         /\ Len(HeaderLine(prefix, n)) = Len(Itoa(n)) + 1 /\ HeaderLine(prefix, n)[1] = prefix
         /\ IsInt(Tail(HeaderLine(prefix, n))) /\ Atoi(Tail(HeaderLine(prefix, n))) = n
<1> DEFINE u == Itoa(n)
           l == HeaderLine(prefix, n)
<1>1. Itoa(n) = Digits(n)
  BY DEF Itoa
<1>2. Denotes(u, n)
  BY <1>1, DigitsDenote, Zenon
<1>3. u \in Seq(Decimal) /\ Len(u) > 0 /\ Worth(u) = n
  BY <1>2, Zenon DEF Denotes
<1> HIDE DEF u
<1>4. u \in Seq(Byte) /\ Len(u) \in Nat /\ \A i \in 1 .. Len(u) : u[i] \in Zero .. Zero + 9
  BY <1>3 DEF Decimal, Zero, Byte
<1>5. l = <<prefix>> \o u
  BY Zenon DEF HeaderLine, u
<1>6. l \in Seq(Byte) /\ Len(l) = Len(u) + 1 /\ l[1] = prefix /\ \A i \in 2 .. Len(l) : l[i] = u[i - 1]
  BY <1>4, <1>5
<1>7. Plain(l)
  <2> SUFFICES ASSUME NEW i \in 1 .. Len(l) PROVE l[i] # LF
    BY Zenon DEF Plain
  <2>1. CASE i = 1
    BY <1>6, <2>1, Zenon
  <2>2. CASE i # 1
    <3>1. i \in 2 .. Len(l) /\ i - 1 \in 1 .. Len(u)
      BY <1>4, <1>6, <2>2
    <3>2. l[i] \in Zero .. Zero + 9
      BY <1>4, <1>6, <3>1, Zenon
    <3>3. LF \notin Zero .. Zero + 9
      BY DEF Zero, LF
    <3> QED
      BY <3>2, <3>3, Zenon
  <2> QED
    BY <2>1, <2>2, Zenon
<1>8. Tail(l) = u
  BY <1>3, <1>4, <1>6
<1>9. u # <<>> /\ u[1] \notin {Plus, Minus}
  BY <1>3, <1>4 DEF Zero, Plus, Minus
<1>10. Unsigned(u) = u
  BY <1>9, Zenon DEF Unsigned
<1>11. IsInt(u) /\ Atoi(u) = n
  <2>1. IsInt(u)
    BY <1>4, <1>9, <1>10 DEF IsInt
  <2>2. Atoi(u) = n
    BY <1>3, <1>9, <1>10, Zenon DEF Atoi
  <2> QED
    BY <2>1, <2>2, Zenon
<1>12. IsInt(Tail(l)) /\ Atoi(Tail(l)) = n
  BY <1>8, <1>11, Zenon
<1>13. LineOf(prefix, u) = l \o CRLF
  BY <1>5, Zenon DEF LineOf
<1> QED
  BY <1>6, <1>7, <1>12, <1>13, Zenon DEF u

\* A header is accepted exactly when its number is a legal one.
LEMMA HeaderValue ==
  ASSUME NEW n \in Nat, NEW prefix \in Byte \ {LF}, NEW q, NEW legal
  PROVE  /\ n \in legal => Header(HeaderLine(prefix, n), q, legal) = Ok(n, q)
         /\ n \notin legal => Header(HeaderLine(prefix, n), q, legal) = Stop("perr")
<1> DEFINE l == HeaderLine(prefix, n)
<1>1. IsInt(Tail(l)) /\ Atoi(Tail(l)) = n
  BY HeaderReads, Zenon
<1> HIDE DEF l
<1>2. /\ n \in legal => Header(l, q, legal) = Ok(n, q)
      /\ n \notin legal => Header(l, q, legal) = Stop("perr")
  BY <1>1, Zenon DEF Header
<1> QED
  BY <1>2, Zenon DEF l

-----------------------------------------------------------------------------
(***************************************************************************)
(* Arguments and commands.                                                 *)
(***************************************************************************)
\* What a reader answers that was given the bytes of v, as far as n bytes go, where v would
\* end before q and fits its limits or not: v itself once it is all there, the end of the
\* stream before, and no value at all if it does not fit.
Reads(r, v, q, n, fits) ==
  /\ fits /\ q <= n + 1 => r = Ok(v, q)
  /\ fits /\ q > n + 1 => r \in {Stop("eof"), Stop("short")}
  /\ ~fits => r \in {Stop("eof"), Stop("short"), Stop("perr")}

\* The type and the length of two sequences, one after the other.
LEMMA JoinFacts ==
  ASSUME NEW S, NEW c \in Seq(S), NEW d \in Seq(S)
  PROVE  c \o d \in Seq(S) /\ Len(c \o d) = Len(c) + Len(d) /\ Len(c) \in Nat
  OBVIOUS

\* A stream that carries a bulk string carries its header line, its body and a CRLF.
LEMMA BulkParts ==
  ASSUME NEW t \in Seq(Byte), NEW p \in Nat \ {0}, NEW b \in Seq(Byte), Carries(t, p, Bulk(b))
  PROVE  LET h == HeaderLine(Dollar, Len(b)) IN
         /\ Bulk(b) \in Seq(Byte) /\ Len(h) \in Nat /\ Len(b) \in Nat
         /\ Len(Bulk(b)) = Len(h) + Len(b) + 4
         /\ Carries(t, p, h \o CRLF) /\ Carries(t, p + Len(h) + 2, b)
         /\ Carries(t, p + Len(h) + 2 + Len(b), CRLF)
<1> DEFINE h == HeaderLine(Dollar, Len(b))
<1>1. Len(b) \in Nat /\ Dollar \in Byte \ {LF} /\ CRLF \in Seq(Byte) /\ Len(CRLF) = 2
  BY DEF Dollar, Byte, LF, CRLF, CR
<1>2. h \in Seq(Byte) /\ LineOf(Dollar, Itoa(Len(b))) = h \o CRLF
  BY <1>1, HeaderReads, Zenon
<1> HIDE DEF h
<1>3. Bulk(b) = ((h \o CRLF) \o b) \o CRLF
  BY <1>2, Zenon DEF Bulk
<1>4. /\ h \o CRLF \in Seq(Byte) /\ Len(h \o CRLF) = Len(h) + 2 /\ Len(h) \in Nat
      /\ (h \o CRLF) \o b \in Seq(Byte) /\ Len((h \o CRLF) \o b) = Len(h) + 2 + Len(b)
  <2>1. h \o CRLF \in Seq(Byte) /\ Len(h \o CRLF) = Len(h) + 2 /\ Len(h) \in Nat
    BY <1>1, <1>2, JoinFacts, Zenon
  <2>2. (h \o CRLF) \o b \in Seq(Byte) /\ Len((h \o CRLF) \o b) = Len(h \o CRLF) + Len(b)
    BY <2>1, JoinFacts, Zenon
  <2> QED
    BY <2>1, <2>2, Zenon
<1>5. Bulk(b) \in Seq(Byte) /\ Len(Bulk(b)) = Len(h) + Len(b) + 4
  <2>1. Bulk(b) \in Seq(Byte) /\ Len(Bulk(b)) = Len((h \o CRLF) \o b) + 2
    BY <1>1, <1>3, <1>4, JoinFacts, Zenon
  <2> QED
    BY <1>1, <1>4, <2>1
<1>6. Carries(t, p, (h \o CRLF) \o b) /\ Carries(t, p + Len((h \o CRLF) \o b), CRLF)
  BY <1>1, <1>3, <1>4, CarriesParts, Zenon
<1>7. Carries(t, p, h \o CRLF) /\ Carries(t, p + Len(h \o CRLF), b)
  BY <1>4, <1>6, CarriesParts, Zenon
<1>8. p + Len(h \o CRLF) = p + Len(h) + 2 /\ p + Len((h \o CRLF) \o b) = p + Len(h) + 2 + Len(b)
  BY <1>1, <1>4
<1> QED
  BY <1>1, <1>4, <1>5, <1>6, <1>7, <1>8, Zenon DEF h

\* The body of an argument.
LEMMA BodyReads ==
  ASSUME NEW t \in Seq(Byte), NEW p \in Nat \ {0}, NEW b \in Seq(Byte),
         Carries(t, p, b), Carries(t, p + Len(b), CRLF)
  PROVE  Reads(ReadBody(t, p, Len(b)), b, p + Len(b) + 2, Len(t), TRUE)
<1> DEFINE n == Len(b)
           r == ReadBody(t, p, n)
<1>1. n \in Nat /\ Len(t) \in Nat /\ Len(CRLF) = 2 /\ CRLF[1] = CR /\ CRLF[2] = LF
  BY DEF CRLF
<1>2. CASE p > Len(t)
  <2>1. r = Stop("eof") /\ p + n + 2 > Len(t) + 1
    BY <1>1, <1>2 DEF ReadBody
  <2> QED
    BY <1>1, <2>1 DEF Reads
<1>3. CASE ~(p > Len(t)) /\ Len(t) < p + n + 1
  <2>1. r = Stop("short") /\ p + n + 2 > Len(t) + 1
    BY <1>1, <1>3 DEF ReadBody
  <2> QED
    BY <1>1, <2>1 DEF Reads
<1>4. CASE ~(p > Len(t)) /\ ~(Len(t) < p + n + 1)
  <2>1. p + n - 1 <= Len(t) /\ \A i \in 1 .. 2 : (p + n) + i - 1 <= Len(t)
    <3> DEFINE y == Len(t)
    <3>1. n \in Nat /\ y \in Nat /\ p \in Nat /\ ~(y < p + n + 1)
      BY <1>1, <1>4, Zenon
    <3> HIDE DEF n, y
    <3> QED
      BY <3>1 DEF y
  <2>2. SubSeq(t, p, p + n - 1) = b
    BY <2>1, CutOut, Zenon
  <2>3. t[p + n] = CR /\ t[p + n + 1] = LF
    <3>1. \A i \in 1 .. 2 : t[p + n + i - 1] = CRLF[i]
      BY <1>1, <2>1, Zenon DEF Carries
    <3>2. 1 \in 1 .. 2 /\ 2 \in 1 .. 2 /\ p + n + 1 - 1 = p + n /\ p + n + 2 - 1 = p + n + 1
      BY <1>1
    <3> QED
      BY <1>1, <3>1, <3>2, Zenon
  <2>4. SubSeq(t, p + n, p + n + 1) = CRLF
    <3> DEFINE s == SubSeq(t, p + n, p + n + 1)
    <3>1. s \in Seq(Byte) /\ Len(s) = 2 /\ s[1] = CR /\ s[2] = LF
      BY <1>1, <1>4, <2>3
    <3>2. CRLF \in Seq(Byte)
      BY DEF CRLF, CR, LF, Byte
    <3> HIDE DEF s
    <3>3. \A i \in 1 .. Len(s) : s[i] = CRLF[i]
      BY <1>1, <3>1
    <3>4. Len(s) = Len(CRLF)
      BY <1>1, <3>1, Zenon
    <3>5. s = CRLF
      BY <3>1, <3>2, <3>3, <3>4, SameSequence, Zenon
    <3> QED
      BY <3>5, Zenon DEF s
  <2>5. r = Ok(b, p + n + 2)
    BY <1>4, <2>2, <2>4, Zenon DEF ReadBody
  <2>6. p + n + 2 <= Len(t) + 1
    BY <1>1, <1>4
  <2> QED
    BY <1>1, <2>5, <2>6 DEF Reads
<1> QED
  BY <1>2, <1>3, <1>4, Zenon

\* The fields of a reader's answer.
LEMMA StopIs ==
  /\ \A why : Stop(why).st = why
  /\ \A v, q : Ok(v, q).st = "ok" /\ Ok(v, q).val = v /\ Ok(v, q).next = q
  BY Zenon DEF Stop, Ok

\* readMultibulk's reading of one argument inverts writing it.
LEMMA ArgReads ==
  ASSUME NEW t \in Seq(Byte), NEW p \in 1 .. Len(t) + 1, NEW b \in Seq(Byte), NEW lim,
         IsLimits(lim), Carries(t, p, Bulk(b))
  PROVE  Reads(ReadArg(t, p, lim), b, p + Len(Bulk(b)), Len(t), Len(b) <= lim.bulk)
<1> DEFINE n == Len(b)
           h == HeaderLine(Dollar, n)
           q == p + Len(h) + 2
           line == ReadLine(t, p, lim.header)
           r == ReadArg(t, p, lim)
           fits == n <= lim.bulk
<1>1. n \in Nat /\ Len(t) \in Nat /\ p \in Nat \ {0} /\ p <= Len(t) + 1 /\ Dollar \in Byte \ {LF}
  BY DEF Dollar, Byte, LF
<1>2. /\ lim.header \in Nat /\ lim.bulk \in Nat
      /\ fits => Len(Itoa(n)) + 2 <= lim.header
  BY <1>1 DEF IsLimits
<1>3. /\ Len(h) \in Nat /\ Len(Bulk(b)) = Len(h) + n + 4
      /\ Carries(t, p, h \o CRLF) /\ Carries(t, q, b) /\ Carries(t, q + n, CRLF)
  BY <1>1, BulkParts, Zenon
<1>4. h \in Seq(Byte) /\ Plain(h) /\ Len(h) = Len(Itoa(n)) + 1 /\ h[1] = Dollar
  BY <1>1, HeaderReads, Zenon
<1>5. /\ n \in 0 .. lim.bulk => Header(h, q, 0 .. lim.bulk) = Ok(n, q)
      /\ n \notin 0 .. lim.bulk => Header(h, q, 0 .. lim.bulk) = Stop("perr")
  BY <1>1, HeaderValue, Zenon
<1>6. /\ fits => Len(h) + 1 <= lim.header /\ ~(Len(h) > lim.header)
      /\ p + Len(Bulk(b)) = q + n + 2 /\ h # <<>> /\ q \in Nat \ {0}
      /\ n \in 0 .. lim.bulk <=> fits
  <2>1. Len(Itoa(n)) \in Nat
    BY <1>3, <1>4
  <2> QED
    BY <1>1, <1>2, <1>3, <1>4, <2>1
<1> HIDE DEF h, q, fits
<1>7. line.st # "ok" => r = line
  BY Zenon DEF ReadArg, Then
<1>8. CASE p + Len(h) + 1 > Len(t)
  <2>1. line \in {Stop("perr"), Stop("eof")} /\ (Len(h) + 1 <= lim.header => line = Stop("eof"))
    BY <1>1, <1>2, <1>3, <1>4, <1>8, PartOfLine, Zenon
  <2>2. r = line
    BY <1>7, <2>1 DEF Stop
  <2>3. q + n + 2 > Len(t) + 1
    BY <1>1, <1>3, <1>8 DEF q
  <2> QED
    BY <1>1, <1>6, <2>1, <2>2, <2>3 DEF Reads
<1>9. CASE p + Len(h) + 1 <= Len(t)
  <2>1. /\ Len(h) > lim.header => line = Stop("perr")
        /\ ~(Len(h) > lim.header) => line = Ok(h, q)
    <3>1. p \in Nat \ {0} /\ h \in Seq(Byte) /\ lim.header \in Nat /\ Plain(h) /\ Carries(t, p, h \o CRLF)
      BY <1>1, <1>2, <1>3, <1>4, Zenon
    <3> QED
      BY <1>9, <3>1, WholeLine, Zenon DEF q
  <2>2. CASE Len(h) > lim.header
    <3>1. r = Stop("perr")
      BY <1>7, <2>1, <2>2 DEF Stop
    <3> QED
      BY <1>6, <2>2, <3>1 DEF Reads
  <2>3. CASE ~(Len(h) > lim.header)
    <3>1. line = Ok(h, q)
      BY <2>1, <2>3, Zenon
    <3>2. r = Then(Header(h, q, 0 .. lim.bulk), LAMBDA m, c : ReadBody(t, c, m))
      <4>1. line.st = "ok" /\ line.val = h /\ line.next = q
        BY <3>1 DEF Ok
      <4> QED
        BY <1>4, <1>6, <4>1, Zenon DEF ReadArg, Then
    <3>3. CASE ~fits
      <4>1. Header(h, q, 0 .. lim.bulk) = Stop("perr")
        BY <1>5, <1>6, <3>3, Zenon
      <4>2. r = Stop("perr")
        BY <3>2, <4>1 DEF Then, Stop
      <4> QED
        BY <3>3, <4>2, Zenon DEF Reads, fits
    <3>4. CASE fits
      <4>1. Header(h, q, 0 .. lim.bulk) = Ok(n, q)
        BY <1>5, <1>6, <3>4, Zenon
      <4>2. r = ReadBody(t, q, n)
        <5>1. Ok(n, q).st = "ok" /\ Ok(n, q).val = n /\ Ok(n, q).next = q
          BY StopIs, Zenon
        <5> QED
          BY <3>2, <4>1, <5>1, Zenon DEF Then
      <4>3. Reads(r, b, q + n + 2, Len(t), TRUE)
        BY <1>3, <1>6, <4>2, BodyReads, Zenon
      <4> QED
        BY <1>6, <3>4, <4>3, Zenon DEF Reads, fits
    <3> QED
      BY <3>3, <3>4, Zenon
  <2> QED
    BY <2>2, <2>3, Zenon
<1> QED
  BY <1>1, <1>3, <1>8, <1>9

\* What a reader of values of V can answer about a stream of n bytes.
Answers(V, n) ==
  {Stop("eof"), Stop("short"), Stop("perr")} \cup {Ok(v, q) : v \in V, q \in 1 .. n + 1}

\* Errors, and values with a position of the stream, are answers.
LEMMA AnAnswer ==
  ASSUME NEW V, NEW n
  PROVE  /\ \A r \in {Stop("eof"), Stop("short"), Stop("perr")} : r \in Answers(V, n)
         /\ \A v \in V, q \in 1 .. n + 1 : Ok(v, q) \in Answers(V, n)
  BY DEF Answers

Gives(r, V, n) == \E v \in V, q \in 1 .. n + 1 : r = Ok(v, q)

\* An answer that is ok holds a value and a position of the stream.
LEMMA GotOk ==
  ASSUME NEW V, NEW n, NEW r \in Answers(V, n), r.st = "ok"
  PROVE  Gives(r, V, n)
<1>1. r \notin {Stop("eof"), Stop("short"), Stop("perr")}
  BY DEF Stop
<1> QED
  BY <1>1 DEF Answers, Gives

\* An answer that is not ok is one of the three errors.
LEMMA GotStop ==
  ASSUME NEW V, NEW n, NEW r \in Answers(V, n), r.st # "ok"
  PROVE  r \in {Stop("eof"), Stop("short"), Stop("perr")}
<1>1. \A v, q : Ok(v, q).st = "ok"
  BY Zenon DEF Ok
<1> QED
  BY <1>1 DEF Answers

\* A set of numbers that is not empty has a least one: the first LF of readLine.
LEMMA Least ==
  ASSUME NEW U, U \subseteq Nat, U # {}
  PROVE  \E k \in U : \A i \in U : k <= i
<1>1. PICK k \in U : \A i \in U : ~(<<i, k>> \in OpToRel(<, Nat))
  BY NatLessThanWellFounded, WFMin, Zenon
<1>2. \A i \in U : ~(i < k)
  BY <1>1, Zenon DEF OpToRel
<1>3. \A i \in U : k <= i
  BY <1>2
<1> QED
  BY <1>3, Zenon

\* The readers return values and positions in the stream, or one of the three errors.
LEMMA LineType ==
  ASSUME NEW t \in Seq(Byte), NEW p \in 1 .. Len(t) + 1, NEW max \in Nat
  PROVE  ReadLine(t, p, max) \in Answers(Seq(Byte), Len(t))
<1> DEFINE ends == {i \in p .. Len(t) : t[i] = LF}
           end == CHOOSE i \in ends : \A j \in ends : i <= j
           last == IF end > p /\ t[end - 1] = CR THEN end - 2 ELSE end - 1
           r == ReadLine(t, p, max)
<1>1. Len(t) \in Nat
  OBVIOUS
<1>2. CASE ends = {}
  <2>1. r = Stop(IF BufLen * ((Len(t) - p + 1) \div BufLen) > max THEN "perr" ELSE "eof")
    BY <1>2, Zenon DEF ReadLine
  <2>2. r \in {Stop("eof"), Stop("short"), Stop("perr")}
    BY <2>1, Zenon
  <2> QED
    BY <2>2, AnAnswer, Zenon
<1>3. CASE ends # {}
  <2>1. \E i \in ends : \A j \in ends : i <= j
    <3>1. ends \subseteq Nat
      BY <1>1
    <3> HIDE DEF ends
    <3> QED
      BY <1>3, <3>1, Least, Zenon
  <2>2. end \in ends
    <3> HIDE DEF ends
    <3> QED
      BY <2>1, Zenon
  <2>3. end \in p .. Len(t)
    BY <2>2, Zenon
  <2>4. r = IF last - p + 1 > max THEN Stop("perr") ELSE Ok(SubSeq(t, p, last), end + 1)
    BY <1>3, Zenon DEF ReadLine
  <2> HIDE DEF end
  <2>5. last \in p - 1 .. Len(t) /\ end + 1 \in 1 .. Len(t) + 1
    BY <1>1, <2>3
  <2> HIDE DEF last
  <2>6. SubSeq(t, p, last) \in Seq(Byte)
    BY <1>1, <2>5
  <2>7. Ok(SubSeq(t, p, last), end + 1) \in Answers(Seq(Byte), Len(t))
    BY <2>5, <2>6, AnAnswer, Zenon
  <2>8. Stop("perr") \in Answers(Seq(Byte), Len(t))
    BY AnAnswer, Zenon
  <2> QED
    BY <2>4, <2>7, <2>8, Zenon
<1> QED
  BY <1>2, <1>3, Zenon

\* A header gives a legal number or a ProtocolError.
LEMMA HeaderType ==
  ASSUME NEW line, NEW q, NEW legal
  PROVE  Header(line, q, legal) \in {Stop("perr")} \cup {Ok(n, q) : n \in legal}
  BY Zenon DEF Header

\* ReadBody returns bytes and a position of the stream, or an error.
LEMMA BodyType ==
  ASSUME NEW t \in Seq(Byte), NEW p \in 1 .. Len(t) + 1, NEW n \in Nat
  PROVE  ReadBody(t, p, n) \in Answers(Seq(Byte), Len(t))
<1>1. Len(t) \in Nat
  OBVIOUS
<1>2. CASE p > Len(t) \/ Len(t) < p + n + 1 \/ SubSeq(t, p + n, p + n + 1) # CRLF
  <2>1. ReadBody(t, p, n) \in {Stop("eof"), Stop("short"), Stop("perr")}
    BY <1>2, Zenon DEF ReadBody
  <2> QED
    BY <2>1, AnAnswer, Zenon
<1>3. CASE ~(p > Len(t)) /\ ~(Len(t) < p + n + 1) /\ SubSeq(t, p + n, p + n + 1) = CRLF
  <2>1. ReadBody(t, p, n) = Ok(SubSeq(t, p, p + n - 1), p + n + 2)
    BY <1>3, Zenon DEF ReadBody
  <2>2. SubSeq(t, p, p + n - 1) \in Seq(Byte) /\ p + n + 2 \in 1 .. Len(t) + 1
    BY <1>1, <1>3
  <2> QED
    BY <2>1, <2>2, AnAnswer, Zenon
<1> QED
  BY <1>2, <1>3, Zenon

\* ReadArg returns bytes and a position of the stream, or an error.
LEMMA ArgType ==
  ASSUME NEW t \in Seq(Byte), NEW p \in 1 .. Len(t) + 1, NEW lim, IsLimits(lim)
  PROVE  ReadArg(t, p, lim) \in Answers(Seq(Byte), Len(t))
<1> DEFINE line == ReadLine(t, p, lim.header)
           r == ReadArg(t, p, lim)
<1>1. lim.header \in Nat /\ lim.bulk \in Nat
  BY Zenon DEF IsLimits
<1>2. line \in Answers(Seq(Byte), Len(t))
  BY <1>1, LineType, Zenon
<1>3. CASE line.st # "ok"
  <2>1. r = line
    BY <1>3, Zenon DEF ReadArg, Then
  <2> QED
    BY <1>2, <2>1, Zenon
<1>4. CASE line.st = "ok"
  <2>1. PICK l \in Seq(Byte), q \in 1 .. Len(t) + 1 : line = Ok(l, q)
    <3>1. Gives(line, Seq(Byte), Len(t))
      BY <1>2, <1>4, GotOk, Zenon
    <3> QED
      BY <3>1, Zenon DEF Gives
  <2>2. line.val = l /\ line.next = q
    BY <2>1 DEF Ok
  <2> DEFINE h == Header(l, q, 0 .. lim.bulk)
  <2>3. \/ r = Stop("perr")
        \/ r = Then(h, LAMBDA m, c : ReadBody(t, c, m))
    BY <1>4, <2>2, Zenon DEF ReadArg, Then
  <2>4. h \in {Stop("perr")} \cup {Ok(n, q) : n \in 0 .. lim.bulk}
    BY HeaderType, Zenon
  <2>5. Stop("perr") \in Answers(Seq(Byte), Len(t))
    BY AnAnswer, Zenon
  <2> HIDE DEF h
  <2>6. CASE h = Stop("perr")
    <3>1. Then(h, LAMBDA m, c : ReadBody(t, c, m)) = h
      BY <2>6, Zenon DEF Then, Stop
    <3> QED
      BY <2>3, <2>5, <2>6, <3>1, Zenon
  <2>7. ASSUME NEW n \in 0 .. lim.bulk, h = Ok(n, q) PROVE r \in Answers(Seq(Byte), Len(t))
    <3>1. h.st = "ok" /\ h.val = n /\ h.next = q
      BY <2>7, Zenon DEF Ok
    <3>2. Then(h, LAMBDA m, c : ReadBody(t, c, m)) = ReadBody(t, q, n)
      BY <3>1, Zenon DEF Then
    <3>3. n \in Nat
      BY <1>1
    <3>4. ReadBody(t, q, n) \in Answers(Seq(Byte), Len(t))
      BY <3>3, BodyType, Zenon
    <3> QED
      BY <2>3, <2>5, <3>2, <3>4, Zenon
  <2> QED
    BY <2>4, <2>6, <2>7, Zenon
<1> QED
  BY <1>3, <1>4, Zenon

-----------------------------------------------------------------------------
\* One turn of the loop of readMultibulk, after r.
Turn(t, lim, r) ==
  IF r.st = "ok"
  THEN LET a == ReadArg(t, r.next, lim)
       IN  IF a.st = "ok" THEN Ok(Append(r.val, a.val), a.next) ELSE a
  ELSE r

ReadArgs(t, lim, p, n) == ReadEach(LAMBDA b : ReadArg(t, b, lim), p, n)

Loops(f, t, lim, p, n) == f = [k \in 0 .. n |-> IF k = 0 THEN Ok(<<>>, p) ELSE Turn(t, lim, f[k - 1])]

Lists(t) == Answers(Seq(Seq(Byte)), Len(t))

\* A turn of readMultibulk's loop keeps a list of arguments and a position, or an error.
LEMMA TurnType ==
  ASSUME NEW t \in Seq(Byte), NEW lim, IsLimits(lim), NEW r \in Lists(t)
  PROVE  Turn(t, lim, r) \in Lists(t)
<1>1. CASE r.st # "ok"
  BY <1>1, Zenon DEF Turn
<1>2. CASE r.st = "ok"
  <2>1. PICK v \in Seq(Seq(Byte)), q \in 1 .. Len(t) + 1 : r = Ok(v, q)
    <3>1. Gives(r, Seq(Seq(Byte)), Len(t))
      BY <1>2, GotOk, Zenon DEF Lists
    <3> QED
      BY <3>1, Zenon DEF Gives
  <2>2. r.val = v /\ r.next = q
    BY <2>1, Zenon DEF Ok
  <2> DEFINE a == ReadArg(t, q, lim)
  <2>3. a \in Answers(Seq(Byte), Len(t))
    BY ArgType, Zenon
  <2>4. Turn(t, lim, r) = IF a.st = "ok" THEN Ok(Append(v, a.val), a.next) ELSE a
    BY <1>2, <2>2, Zenon DEF Turn
  <2> HIDE DEF a
  <2>5. CASE a.st # "ok"
    <3>1. a \in {Stop("eof"), Stop("short"), Stop("perr")}
      BY <2>3, <2>5, GotStop, Zenon
    <3> QED
      BY <2>4, <2>5, <3>1, AnAnswer, Zenon DEF Lists
  <2>6. ASSUME NEW x \in Seq(Byte), NEW c \in 1 .. Len(t) + 1, a = Ok(x, c)
        PROVE  Turn(t, lim, r) \in Lists(t)
    <3>1. a.st = "ok" /\ a.val = x /\ a.next = c
      BY <2>6, Zenon DEF Ok
    <3>2. Append(v, x) \in Seq(Seq(Byte))
      OBVIOUS
    <3>3. Turn(t, lim, r) = Ok(Append(v, x), c)
      BY <2>4, <3>1, Zenon
    <3> QED
      BY <3>2, <3>3, AnAnswer, Zenon DEF Lists
  <2> QED
    <3>1. a.st = "ok" => Gives(a, Seq(Byte), Len(t))
      BY <2>3, GotOk, Zenon
    <3> QED
      BY <2>5, <2>6, <3>1, Zenon DEF Gives
<1> QED
  BY <1>1, <1>2, Zenon

\* The loop of readMultibulk is the function its recursion defines.
LEMMA LoopEquation ==
  ASSUME NEW t \in Seq(Byte), NEW lim, IsLimits(lim), NEW p \in 1 .. Len(t) + 1, NEW n \in Nat
  PROVE  \E f : Loops(f, t, lim, p, n) /\ ReadArgs(t, lim, p, n) = f[n]
<1> DEFINE V == Lists(t)
           F == [f \in [0 .. n -> V] |->
                   [k \in 0 .. n |-> IF k = 0 THEN Ok(<<>>, p) ELSE Turn(t, lim, f[k - 1])]]
<1>0. Ok(<<>>, p) \in V
  <2>1. <<>> \in Seq(Seq(Byte))
    OBVIOUS
  <2> QED
    BY <2>1, AnAnswer, Zenon DEF Lists
<1> HIDE DEF V
<1>1. \A k \in 0 .. n : k = 0 \/ (k - 1 \in 0 .. n /\ k - 1 \in 0 .. k - 1)
  OBVIOUS
<1>2. F \in [[0 .. n -> V] -> [0 .. n -> V]]
  <2>1. ASSUME NEW f \in [0 .. n -> V], NEW k \in 0 .. n
        PROVE  (IF k = 0 THEN Ok(<<>>, p) ELSE Turn(t, lim, f[k - 1])) \in V
    <3>1. k # 0 => f[k - 1] \in V
      BY <1>1, Zenon
    <3>2. k # 0 => Turn(t, lim, f[k - 1]) \in V
      BY <3>1, TurnType, Zenon DEF V
    <3> QED
      BY <1>0, <3>2, Zenon
  <2> QED
    BY <2>1, Zenon
<1>3. LooksBack(F, n, V)
  <2> SUFFICES ASSUME NEW f \in [0 .. n -> V], NEW g \in [0 .. n -> V], NEW j \in 0 .. n,
                      \A i \in 0 .. j - 1 : f[i] = g[i]
               PROVE  F[f][j] = F[g][j]
    BY <1>2, Zenon DEF LooksBack
  <2>1. j # 0 => f[j - 1] = g[j - 1]
    BY <1>1, Zenon
  <2> QED
    BY <2>1, Zenon
<1>4. Defines(F, n, V)
  <2> HIDE DEF F
  <2> QED
    BY <1>0, <1>3, DefinedFromTheStart, Zenon
<1> DEFINE G(f) == [k \in 0 .. n |-> IF k = 0 THEN Ok(<<>>, p)
                     ELSE Then(f[k - 1], LAMBDA xs, q :
                            Then(ReadArg(t, q, lim), LAMBDA x, r : Ok(Append(xs, x), r)))]
           h == CHOOSE f : f = G(f)
<1>5. \A f : G(f) = [k \in 0 .. n |-> IF k = 0 THEN Ok(<<>>, p) ELSE Turn(t, lim, f[k - 1])]
  BY Zenon DEF Turn, Then
<1>6. \E f : f = G(f)
  <2>1. PICK f \in [0 .. n -> V] : f = F[f]
    BY <1>4, Zenon DEF Defines
  <2>2. f = G(f)
    BY <1>5, <2>1, Zenon
  <2> QED
    BY <2>2, Zenon
<1>7. ReadArgs(t, lim, p, n) = h[n]
  BY Zenon DEF ReadArgs, ReadEach
<1>8. h = G(h)
  BY <1>6, Zenon
<1> HIDE DEF h, G
<1>9. Loops(h, t, lim, p, n)
  BY <1>5, <1>8, Zenon DEF Loops
<1> QED
  BY <1>7, <1>9, Zenon

\* The equation of readMultibulk's loop, one turn at a time.
LEMMA LoopAt ==
  ASSUME NEW f, NEW t, NEW lim, NEW p, NEW n \in Nat, Loops(f, t, lim, p, n)
  PROVE  f[0] = Ok(<<>>, p) /\ \A k \in 0 .. n - 1 : f[k + 1] = Turn(t, lim, f[k])
<1>1. ASSUME NEW k \in 0 .. n
      PROVE  f[k] = IF k = 0 THEN Ok(<<>>, p) ELSE Turn(t, lim, f[k - 1])
  BY Zenon DEF Loops
<1>2. 0 \in 0 .. n /\ \A k \in 0 .. n - 1 : k + 1 \in 0 .. n /\ k + 1 # 0 /\ (k + 1) - 1 = k
  OBVIOUS
<1> QED
  BY <1>1, <1>2, Zenon

\* readMultibulk's loop returns a list of arguments and a position, or an error.
LEMMA LoopType ==
  ASSUME NEW t \in Seq(Byte), NEW lim, IsLimits(lim), NEW p \in 1 .. Len(t) + 1, NEW n \in Nat
  PROVE  ReadArgs(t, lim, p, n) \in Lists(t)
<1>1. PICK f : Loops(f, t, lim, p, n) /\ ReadArgs(t, lim, p, n) = f[n]
  BY LoopEquation, Zenon
<1>2. f[0] = Ok(<<>>, p) /\ \A k \in 0 .. n - 1 : f[k + 1] = Turn(t, lim, f[k])
  BY <1>1, LoopAt, Zenon
<1>3. 0 \in 0 .. n /\ n \in 0 .. n /\ \A k \in 0 .. n - 1 : k + 1 \in 0 .. n
  OBVIOUS
<1> DEFINE T == {k \in 0 .. n : f[k] \in Lists(t)}
<1>4. 0 \in T
  <2>1. <<>> \in Seq(Seq(Byte))
    OBVIOUS
  <2>2. Ok(<<>>, p) \in Lists(t)
    BY <2>1, AnAnswer, Zenon DEF Lists
  <2> QED
    BY <1>2, <1>3, <2>2, Zenon
<1>5. \A k \in 0 .. n - 1 : k \in T => k + 1 \in T
  BY <1>2, <1>3, TurnType, Zenon
<1> HIDE DEF T
<1>6. \A k \in 0 .. n : k \in T
  BY <1>4, <1>5, OneByOne, Zenon
<1> QED
  BY <1>1, <1>3, <1>6, Zenon DEF T

\* The first k arguments, and whether they are within the limit.
Some(args, k) == [i \in 1 .. k |-> args[i]]
Small(args, k, lim) == \A i \in 1 .. k : Len(args[i]) <= lim.bulk
Bulks(args) == [i \in DOMAIN args |-> Bulk(args[i])]

\* A bulk string is written as bytes.
LEMMA BulkType == ASSUME NEW b \in Seq(Byte) PROVE Bulk(b) \in Seq(Byte)
<1>1. Len(b) \in Nat /\ Dollar \in Byte \ {LF} /\ CRLF \in Seq(Byte)
  BY DEF Dollar, Byte, LF, CRLF, CR
<1>2. HeaderLine(Dollar, Len(b)) \in Seq(Byte)
      /\ LineOf(Dollar, Itoa(Len(b))) = HeaderLine(Dollar, Len(b)) \o CRLF
  BY <1>1, HeaderReads, Zenon
<1>3. LineOf(Dollar, Itoa(Len(b))) \in Seq(Byte)
  BY <1>1, <1>2, JoinFacts, Zenon
<1>4. LineOf(Dollar, Itoa(Len(b))) \o b \in Seq(Byte)
  BY <1>3, JoinFacts, Zenon
<1> QED
  BY <1>1, <1>4, JoinFacts, Zenon DEF Bulk

\* The arguments of a command, written one after the other.
LEMMA BulksType ==
  ASSUME NEW args \in Seq(Seq(Byte))
  PROVE  /\ Bulks(args) \in Seq(Seq(Byte)) /\ Len(Bulks(args)) = Len(args)
         /\ \A i \in 1 .. Len(args) : Bulks(args)[i] = Bulk(args[i])
<1>1. DOMAIN args = 1 .. Len(args) /\ Len(args) \in Nat /\ \A i \in 1 .. Len(args) : args[i] \in Seq(Byte)
  OBVIOUS
<1>2. \A i \in 1 .. Len(args) : Bulk(args[i]) \in Seq(Byte)
  BY <1>1, BulkType, Zenon
<1> QED
  BY <1>1, <1>2 DEF Bulks

\* A stream that carries joined sequences carries each of them at its place.
LEMMA CarriesEach ==
  ASSUME NEW t \in Seq(Byte), NEW p \in Nat \ {0}, NEW seqs \in Seq(Seq(Byte)),
         Carries(t, p, Concat(seqs))
  PROVE  \A k \in 0 .. Len(seqs) :
           Carries(t, p, Joined(seqs, k))
           /\ (k < Len(seqs) => Carries(t, p + Len(Joined(seqs, k)), seqs[k + 1]))
<1> DEFINE N == Len(seqs)
           T == {j \in 0 .. N : Carries(t, p, Joined(seqs, N - j))}
<1>1. N \in Nat /\ \A k \in 1 .. N : seqs[k] \in Seq(Byte)
  OBVIOUS
<1>2. \A k \in 0 .. N : Joined(seqs, k) \in Seq(Byte)
  BY JoinedType, Zenon
<1> HIDE DEF N
<1>3. ASSUME NEW k \in 0 .. N - 1, Carries(t, p, Joined(seqs, k + 1))
      PROVE  Carries(t, p, Joined(seqs, k)) /\ Carries(t, p + Len(Joined(seqs, k)), seqs[k + 1])
  <2>1. k \in 0 .. N /\ k < N /\ k + 1 \in 1 .. N
    BY <1>1
  <2>2. Joined(seqs, k + 1) = Joined(seqs, k) \o seqs[k + 1]
    BY <2>1, JoinedStep, Zenon DEF N
  <2>3. Joined(seqs, k) \in Seq(Byte) /\ seqs[k + 1] \in Seq(Byte)
    BY <1>1, <1>2, <2>1, Zenon
  <2>4. Carries(t, p, Joined(seqs, k) \o seqs[k + 1])
    BY <1>3, <2>2, Zenon
  <2> QED
    BY <2>3, <2>4, CarriesParts, Zenon
<1>4. 0 \in T
  <2>1. 0 \in 0 .. N /\ N - 0 = N /\ N \in 0 .. N
    BY <1>1
  <2>2. Joined(seqs, N) = Concat(seqs)
    BY <2>1, JoinedStep, Zenon DEF N
  <2> QED
    BY <2>1, <2>2, Zenon
<1>5. \A j \in 0 .. N - 1 : j \in T => j + 1 \in T
  <2> SUFFICES ASSUME NEW j \in 0 .. N - 1, j \in T PROVE j + 1 \in T
    OBVIOUS
  <2>1. N - (j + 1) \in 0 .. N - 1 /\ (N - (j + 1)) + 1 = N - j /\ j + 1 \in 0 .. N
    BY <1>1
  <2>2. Carries(t, p, Joined(seqs, N - j))
    BY Zenon
  <2>3. Carries(t, p, Joined(seqs, N - (j + 1)))
    BY <1>3, <2>1, <2>2, Zenon
  <2> QED
    BY <2>1, <2>3, Zenon
<1> HIDE DEF T
<1>6. \A j \in 0 .. N : j \in T
  BY <1>1, <1>4, <1>5, OneByOne, Zenon
<1>7. ASSUME NEW k \in 0 .. N PROVE Carries(t, p, Joined(seqs, k))
  <2>1. N - k \in 0 .. N /\ N - (N - k) = k
    BY <1>1
  <2> QED
    BY <1>6, <2>1, Zenon DEF T
<1>8. ASSUME NEW k \in 0 .. N, k < N PROVE Carries(t, p + Len(Joined(seqs, k)), seqs[k + 1])
  <2>1. k \in 0 .. N - 1 /\ k + 1 \in 0 .. N
    BY <1>1, <1>8
  <2> QED
    BY <1>3, <1>7, <2>1, Zenon
<1> QED
  BY <1>7, <1>8, Zenon DEF N

\* After k turns the loop has the first k arguments, or has stopped.
LEMMA TurnReads ==
  ASSUME NEW t \in Seq(Byte), NEW lim, IsLimits(lim), NEW args \in Seq(Seq(Byte)),
         NEW k \in 0 .. Len(args) - 1, NEW r, NEW q \in Nat \ {0},
         Reads(r, Some(args, k), q, Len(t), Small(args, k, lim)),
         Carries(t, q, Bulk(args[k + 1]))
  PROVE  Reads(Turn(t, lim, r), Some(args, k + 1), q + Len(Bulk(args[k + 1])), Len(t),
               Small(args, k + 1, lim))
<1> DEFINE b == args[k + 1]
           e == q + Len(Bulk(b))
           a == ReadArg(t, q, lim)
           next == Turn(t, lim, r)
<1>1. /\ Len(args) \in Nat /\ Len(t) \in Nat /\ k + 1 \in 1 .. Len(args) /\ b \in Seq(Byte)
      /\ \A i \in 1 .. Len(args) : args[i] \in Seq(Byte) /\ Len(args[i]) \in Nat
  OBVIOUS
<1>2. Len(Bulk(b)) \in Nat /\ e \in Nat /\ e >= q
  <2>1. Bulk(b) \in Seq(Byte)
    BY <1>1, BulkType, Zenon
  <2>2. Len(Bulk(b)) \in Nat
    BY <2>1
  <2> QED
    BY <2>2
<1>3. Small(args, k + 1, lim) <=> Small(args, k, lim) /\ Len(b) <= lim.bulk
  BY <1>1 DEF Small
<1>4. Some(args, k + 1) = Append(Some(args, k), b)
  BY <1>1 DEF Some
<1>5. \A s : s \in {Stop("eof"), Stop("short"), Stop("perr")} => s.st # "ok" /\ Turn(t, lim, s) = s
  BY DEF Turn, Stop
<1> HIDE DEF b, e, a, next
<1>6. CASE ~Small(args, k, lim)
  <2>1. r \in {Stop("eof"), Stop("short"), Stop("perr")}
    BY <1>6, Zenon DEF Reads
  <2>2. next = r
    BY <1>5, <2>1, Zenon DEF next
  <2> QED
    BY <1>3, <1>6, <2>1, <2>2, Zenon DEF Reads, next
<1>7. CASE Small(args, k, lim) /\ q > Len(t) + 1
  <2>1. r \in {Stop("eof"), Stop("short")}
    BY <1>7, Zenon DEF Reads
  <2>2. next = r
    BY <1>5, <2>1, Zenon DEF next
  <2>3. e > Len(t) + 1 /\ ~(e <= Len(t) + 1)
    BY <1>1, <1>2, <1>7
  <2>4. Reads(next, Some(args, k + 1), e, Len(t), Small(args, k + 1, lim))
    BY <2>1, <2>2, <2>3, Zenon DEF Reads
  <2> QED
    BY <2>4, Zenon DEF next, e, b
<1>8. CASE Small(args, k, lim) /\ q <= Len(t) + 1
  <2>1. r = Ok(Some(args, k), q)
    BY <1>8, Zenon DEF Reads
  <2>2. q \in 1 .. Len(t) + 1
    BY <1>1, <1>8
  <2>3. Reads(a, b, e, Len(t), Len(b) <= lim.bulk)
    BY <1>1, <2>2, ArgReads, Zenon DEF a, b, e
  <2>4. next = IF a.st = "ok" THEN Ok(Append(Some(args, k), a.val), a.next) ELSE a
    <3>1. r.st = "ok" /\ r.val = Some(args, k) /\ r.next = q
      BY <2>1, Zenon DEF Ok
    <3> QED
      BY <3>1, Zenon DEF Turn, next, a
  <2>5. a \in {Stop("eof"), Stop("short"), Stop("perr")} => next = a
    BY <1>5, <2>4, Zenon
  <2>6. a = Ok(b, e) => next = Ok(Some(args, k + 1), e)
    <3>1. a = Ok(b, e) => a.st = "ok" /\ a.val = b /\ a.next = e
      BY DEF Ok
    <3> QED
      BY <1>4, <2>4, <3>1, Zenon
  <2>7. Reads(next, Some(args, k + 1), e, Len(t), Small(args, k + 1, lim))
    <3>1. CASE Len(b) <= lim.bulk
      BY <1>3, <1>8, <2>3, <2>5, <2>6, <3>1, Zenon DEF Reads
    <3>2. CASE ~(Len(b) <= lim.bulk)
      BY <1>3, <1>8, <2>3, <2>5, <3>2, Zenon DEF Reads
    <3> QED
      BY <3>1, <3>2, Zenon
  <2> QED
    BY <2>7, Zenon DEF next, e, b
<1> QED
  BY <1>1, <1>6, <1>7, <1>8

\* readMultibulk's loop inverts the writing of the arguments.
LEMMA LoopReads ==
  ASSUME NEW t \in Seq(Byte), NEW lim, IsLimits(lim), NEW args \in Seq(Seq(Byte)),
         NEW p \in 1 .. Len(t) + 1, Carries(t, p, Concat(Bulks(args)))
  PROVE  Reads(ReadArgs(t, lim, p, Len(args)), args,
               p + Len(Concat(Bulks(args))), Len(t), Small(args, Len(args), lim))
<1> DEFINE n == Len(args)
           seqs == Bulks(args)
           At(k) == p + Len(Joined(seqs, k))
<1>1. n \in Nat /\ Len(t) \in Nat /\ p \in Nat \ {0} /\ p <= Len(t) + 1
  OBVIOUS
<1>2. seqs \in Seq(Seq(Byte)) /\ Len(seqs) = n /\ \A i \in 1 .. n : seqs[i] = Bulk(args[i])
  BY BulksType, Zenon
<1> HIDE DEF seqs
<1>3. PICK f : Loops(f, t, lim, p, n) /\ ReadArgs(t, lim, p, n) = f[n]
  BY <1>1, LoopEquation, Zenon
<1>4. f[0] = Ok(<<>>, p) /\ \A k \in 0 .. n - 1 : f[k + 1] = Turn(t, lim, f[k])
  BY <1>1, <1>3, LoopAt, Zenon
<1>5. \A k \in 0 .. n : Joined(seqs, k) \in Seq(Byte)
  BY <1>2, JoinedType, Zenon
<1>6. \A k \in 0 .. n : At(k) \in Nat \ {0}
  <2>1. ASSUME NEW k \in 0 .. n PROVE At(k) \in Nat \ {0}
    <3>1. Len(Joined(seqs, k)) \in Nat
      BY <1>5
    <3> QED
      BY <1>1, <3>1
  <2> QED
    BY <2>1, Zenon
<1>7. \A k \in 0 .. n - 1 : At(k + 1) = At(k) + Len(Bulk(args[k + 1])) /\ Carries(t, At(k), Bulk(args[k + 1]))
  <2> SUFFICES ASSUME NEW k \in 0 .. n - 1
               PROVE  At(k + 1) = At(k) + Len(Bulk(args[k + 1])) /\ Carries(t, At(k), Bulk(args[k + 1]))
    BY Zenon
  <2>1. k \in 0 .. n /\ k < n /\ k + 1 \in 1 .. n
    BY <1>1
  <2>2. Joined(seqs, k + 1) = Joined(seqs, k) \o seqs[k + 1] /\ seqs[k + 1] = Bulk(args[k + 1])
    BY <1>2, <2>1, JoinedStep, Zenon
  <2>3. seqs[k + 1] \in Seq(Byte) /\ Joined(seqs, k) \in Seq(Byte)
    BY <1>2, <1>5, <2>1
  <2>4. Len(Joined(seqs, k + 1)) = Len(Joined(seqs, k)) + Len(Bulk(args[k + 1]))
        /\ Len(Joined(seqs, k)) \in Nat /\ Len(Bulk(args[k + 1])) \in Nat
    BY <2>2, <2>3
  <2>5. Carries(t, At(k), seqs[k + 1])
    <3>1. Carries(t, p, Concat(seqs))
      BY Zenon DEF seqs
    <3>2. \A j \in 0 .. Len(seqs) :
            Carries(t, p, Joined(seqs, j))
            /\ (j < Len(seqs) => Carries(t, p + Len(Joined(seqs, j)), seqs[j + 1]))
      BY <1>1, <1>2, <3>1, CarriesEach, Zenon
    <3> QED
      BY <1>2, <2>1, <3>2, Zenon
  <2>6. At(k + 1) = At(k) + Len(Bulk(args[k + 1]))
    <3>1. \A x, y \in Nat : p + (x + y) = p + x + y
      BY <1>1
    <3> QED
      BY <2>4, <3>1, Zenon
  <2> QED
    BY <2>2, <2>5, <2>6, Zenon
<1> HIDE DEF At
<1> DEFINE T == {k \in 0 .. n : Reads(f[k], Some(args, k), At(k), Len(t), Small(args, k, lim))}
<1>8. At(0) = p /\ At(n) = p + Len(Concat(seqs))
  <2>1. 0 \in 0 .. Len(seqs) /\ Len(<<>>) = 0 /\ p + 0 = p
    BY <1>1, <1>2
  <2>2. Joined(seqs, 0) = <<>> /\ Joined(seqs, n) = Concat(seqs)
    BY <1>2, <2>1, JoinedStep, Zenon
  <2> QED
    BY <2>1, <2>2, Zenon DEF At
<1>9. 0 \in T
  <2>1. Some(args, 0) = <<>> /\ Small(args, 0, lim)
    BY DEF Some, Small
  <2>2. Reads(f[0], <<>>, p, Len(t), Small(args, 0, lim))
    BY <1>1, <1>4, <2>1 DEF Reads
  <2>3. 0 \in 0 .. n
    BY <1>1
  <2> QED
    BY <1>8, <2>1, <2>2, <2>3, Zenon
<1>10. \A k \in 0 .. n - 1 : k \in T => k + 1 \in T
  <2> SUFFICES ASSUME NEW k \in 0 .. n - 1, k \in T PROVE k + 1 \in T
    BY Zenon
  <2>1. Reads(f[k], Some(args, k), At(k), Len(t), Small(args, k, lim))
    BY Zenon
  <2>2. k \in 0 .. n /\ k + 1 \in 0 .. n
    BY <1>1
  <2>3. At(k) \in Nat \ {0} /\ Carries(t, At(k), Bulk(args[k + 1]))
    BY <1>6, <1>7, <2>2, Zenon
  <2>4. Reads(Turn(t, lim, f[k]), Some(args, k + 1), At(k) + Len(Bulk(args[k + 1])), Len(t),
              Small(args, k + 1, lim))
    BY <2>1, <2>3, TurnReads, Zenon
  <2>5. f[k + 1] = Turn(t, lim, f[k]) /\ At(k + 1) = At(k) + Len(Bulk(args[k + 1]))
    BY <1>4, <1>7, Zenon
  <2> QED
    BY <2>2, <2>4, <2>5, Zenon
<1> HIDE DEF T
<1>11. \A k \in 0 .. n : k \in T
  BY <1>1, <1>9, <1>10, OneByOne, Zenon
<1>12. n \in 0 .. n /\ Some(args, n) = args
  BY <1>1 DEF Some
<1> QED
  BY <1>3, <1>8, <1>11, <1>12, Zenon DEF T, seqs

\* readMultibulk, and with it ReadCommand, inverts writing the command, at any position of
\* a stream of any bytes that goes on from there as the command does.
LEMMA CommandReads ==
  ASSUME NEW t \in Seq(Byte), NEW p \in 1 .. Len(t) + 1, NEW args \in Seq(Seq(Byte)) \ {<<>>},
         NEW lim, IsLimits(lim), Carries(t, p, Multibulk(args))
  PROVE  Reads(ReadCommand(t, p, lim), args, p + Len(Multibulk(args)), Len(t), Within(args, lim))
<1> DEFINE n == Len(args)
           h == HeaderLine(Star, n)
           q == p + Len(h) + 2
           body == Concat(Bulks(args))
           line == ReadLine(t, p, lim.header)
           r == ReadCommand(t, p, lim)
           end == p + Len(Multibulk(args))
           fits == Within(args, lim)
<1>1. /\ n \in Nat /\ n > 0 /\ Len(t) \in Nat /\ p \in Nat \ {0} /\ p <= Len(t) + 1
      /\ Star \in Byte \ {LF} /\ CRLF \in Seq(Byte) /\ Len(CRLF) = 2 /\ args \in Seq(Seq(Byte))
      /\ DOMAIN args = 1 .. n
  BY DEF Star, Byte, LF, CRLF, CR
<1>2. /\ lim.header \in Nat /\ lim.args \in Nat /\ lim.bulk \in Nat
      /\ n <= lim.args => Len(Itoa(n)) + 2 <= lim.header
  BY <1>1 DEF IsLimits
<1>3. fits <=> n <= lim.args /\ Small(args, n, lim)
  BY <1>1, Zenon DEF Within, Small
<1>4. /\ h \in Seq(Byte) /\ Plain(h) /\ LineOf(Star, Itoa(n)) = h \o CRLF
      /\ Len(h) = Len(Itoa(n)) + 1 /\ h[1] = Star
  BY <1>1, HeaderReads, Zenon
<1>5. /\ n \in 1 .. lim.args => Header(h, q, 1 .. lim.args) = Ok(n, q)
      /\ n \notin 1 .. lim.args => Header(h, q, 1 .. lim.args) = Stop("perr")
  BY <1>1, HeaderValue, Zenon
<1> HIDE DEF h
<1>6. body \in Seq(Byte)
  <2>1. Bulks(args) \in Seq(Seq(Byte)) /\ Len(Bulks(args)) = n
    BY <1>1, BulksType, Zenon
  <2>2. n \in 0 .. Len(Bulks(args))
    BY <1>1, <2>1
  <2> QED
    BY <2>1, <2>2, JoinedType, JoinedStep, Zenon
<1>7. Multibulk(args) = (h \o CRLF) \o body
  BY <1>4, Zenon DEF Multibulk, ArrayLen, Bulks
<1> HIDE DEF body
<1>8. h \o CRLF \in Seq(Byte) /\ Len(h \o CRLF) = Len(h) + 2 /\ Len(h) \in Nat /\ Len(body) \in Nat
  <2>1. h \o CRLF \in Seq(Byte) /\ Len(h \o CRLF) = Len(h) + 2 /\ Len(h) \in Nat
    BY <1>1, <1>4, JoinFacts, Zenon
  <2> QED
    BY <1>6, <2>1
<1>9. Carries(t, p, h \o CRLF) /\ Carries(t, p + Len(h \o CRLF), body)
  BY <1>1, <1>6, <1>7, <1>8, CarriesParts, Zenon
<1>10. /\ p + Len(h \o CRLF) = q /\ q \in Nat \ {0} /\ Len(h) > 0 /\ h # <<>>
       /\ fits => Len(h) + 1 <= lim.header /\ ~(Len(h) > lim.header)
  <2>1. Len(Itoa(n)) \in Nat
    <3>1. Denotes(Digits(n), n) /\ Itoa(n) = Digits(n)
      BY <1>1, DigitsDenote DEF Itoa
    <3> QED
      BY <3>1 DEF Denotes
  <2>2. fits => Len(Itoa(n)) + 2 <= lim.header
    BY <1>2, <1>3, Zenon
  <2>3. h # <<>>
    <3>1. Len(<<>>) = 0 /\ \A x \in Nat : x + 1 # 0
      OBVIOUS
    <3> QED
      BY <1>4, <2>1, <3>1, Zenon
  <2> DEFINE x == Len(h)
             y == Len(h \o CRLF)
             z == Len(Itoa(n))
             m == lim.header
  <2>4. /\ p \in Nat \ {0} /\ z \in Nat /\ x = z + 1 /\ y = x + 2 /\ m \in Nat /\ q = p + x + 2
        /\ fits => z + 2 <= m
    BY <1>1, <1>2, <1>4, <1>8, <2>1, <2>2, Zenon
  <2> HIDE DEF x, y, z, m, q, fits
  <2>5. p + y = q /\ q \in Nat \ {0} /\ x > 0
    BY <2>4
  <2>6. z + 2 <= m => x + 1 <= m /\ ~(x > m)
    BY <2>4
  <2> QED
    BY <2>3, <2>4, <2>5, <2>6, Zenon DEF x, y, m
<1>11. end = q + Len(body)
  <2>1. Len(Multibulk(args)) = Len(h \o CRLF) + Len(body)
    BY <1>6, <1>7, <1>8, JoinFacts, Zenon
  <2> QED
    BY <1>1, <1>8, <2>1
<1> HIDE DEF end, q, fits
<1>12. CASE p > Len(t)
  <2>1. r = Stop("eof")
    BY <1>12, Zenon DEF ReadCommand
  <2>2. end > Len(t) + 1 /\ ~(end <= Len(t) + 1)
    BY <1>1, <1>8, <1>11, <1>12 DEF q
  <2>3. Reads(r, args, end, Len(t), fits)
    BY <2>1, <2>2, Zenon DEF Reads
  <2> QED
    BY <2>3, Zenon DEF end, fits
<1>13. CASE ~(p > Len(t))
  <2>1. t[p] = Star
    <3>1. 1 \in 1 .. Len(h) /\ p + 1 - 1 = p /\ p <= Len(t)
      BY <1>1, <1>8, <1>10, <1>13
    <3>2. Carries(t, p, h)
      BY <1>1, <1>4, <1>9, CarriesParts, Zenon
    <3> QED
      BY <1>4, <3>1, <3>2, Zenon DEF Carries
  <2>2. r = ReadMultibulk(t, p, lim)
    BY <1>13, <2>1, Zenon DEF ReadCommand
  <2>3. CASE p + Len(h) + 1 > Len(t)
    <3>1. line \in {Stop("perr"), Stop("eof")} /\ (Len(h) + 1 <= lim.header => line = Stop("eof"))
      BY <1>1, <1>2, <1>4, <1>9, <2>3, PartOfLine, Zenon
    <3>2. line.st # "ok"
      BY <3>1 DEF Stop
    <3>3. r = line
      BY <2>2, <3>2, Zenon DEF ReadMultibulk, Then
    <3>4. end > Len(t) + 1 /\ ~(end <= Len(t) + 1)
      BY <1>1, <1>8, <1>11, <2>3 DEF q
    <3>5. Reads(r, args, end, Len(t), fits)
      BY <1>10, <3>1, <3>3, <3>4, Zenon DEF Reads
    <3> QED
      BY <3>5, Zenon DEF end, fits
  <2>4. CASE ~(p + Len(h) + 1 > Len(t))
    <3>1. p + Len(h) + 1 <= Len(t)
      BY <1>1, <1>8, <2>4
    <3>2. /\ Len(h) > lim.header => line = Stop("perr")
          /\ ~(Len(h) > lim.header) => line = Ok(h, q)
      <4>1. p \in Nat \ {0} /\ h \in Seq(Byte) /\ lim.header \in Nat /\ Plain(h) /\ Carries(t, p, h \o CRLF)
        BY <1>1, <1>2, <1>4, <1>9, Zenon
      <4> QED
        BY <3>1, <4>1, WholeLine, Zenon DEF q
    <3>3. CASE Len(h) > lim.header
      <4>1. line = Stop("perr") /\ line.st # "ok"
        BY <3>2, <3>3 DEF Stop
      <4>2. r = Stop("perr")
        BY <2>2, <4>1, Zenon DEF ReadMultibulk, Then
      <4>3. Reads(r, args, end, Len(t), fits)
        BY <1>10, <3>3, <4>2, Zenon DEF Reads
      <4> QED
        BY <4>3, Zenon DEF end, fits
    <3>4. CASE ~(Len(h) > lim.header)
      <4>1. line.st = "ok" /\ line.val = h /\ line.next = q
        BY <3>2, <3>4 DEF Ok
      <4> DEFINE c == Header(h, q, 1 .. lim.args)
      <4>2. r = Then(c, LAMBDA m, a : ReadEach(LAMBDA b : ReadArg(t, b, lim), a, m))
        BY <2>2, <4>1, Zenon DEF ReadMultibulk, Then
      <4>3. CASE ~(n <= lim.args)
        <5>1. n \notin 1 .. lim.args
          BY <1>1, <1>2, <4>3
        <5>2. c = Stop("perr") /\ c.st # "ok"
          <6>1. c = Stop("perr")
            BY <1>5, <5>1, Zenon
          <6> HIDE DEF c
          <6> QED
            BY <6>1, Zenon DEF Stop
        <5>3. r = Stop("perr")
          BY <4>2, <5>2, Zenon DEF Then
        <5>4. Reads(r, args, end, Len(t), fits)
          BY <1>3, <4>3, <5>3, Zenon DEF Reads
        <5> QED
          BY <5>4, Zenon DEF end, fits
      <4>4. CASE n <= lim.args
        <5>1. n \in 1 .. lim.args
          BY <1>1, <1>2, <4>4
        <5>2. c.st = "ok" /\ c.val = n /\ c.next = q
          <6>1. c = Ok(n, q)
            BY <1>5, <5>1, Zenon
          <6> HIDE DEF c
          <6> QED
            BY <6>1, Zenon DEF Ok
        <5>3. r = ReadArgs(t, lim, q, n)
          BY <4>2, <5>2, Zenon DEF Then, ReadArgs
        <5>4. q \in 1 .. Len(t) + 1
          BY <1>1, <1>8, <3>1 DEF q
        <5>5. Carries(t, q, Concat(Bulks(args)))
          BY <1>9, <1>10, Zenon DEF body
        <5>6. Reads(r, args, end, Len(t), Small(args, n, lim))
          BY <1>1, <1>11, <5>3, <5>4, <5>5, LoopReads, Zenon DEF body
        <5>7. Reads(r, args, end, Len(t), fits)
          BY <1>3, <4>4, <5>6, Zenon DEF Reads
        <5> QED
          BY <5>7, Zenon DEF end, fits
      <4> QED
        BY <4>3, <4>4, Zenon
    <3> QED
      BY <3>3, <3>4, Zenon
  <2> QED
    BY <2>3, <2>4, Zenon
<1> QED
  BY <1>12, <1>13, Zenon

-----------------------------------------------------------------------------
(***************************************************************************)
(* Lines of words: bytes.Fields and Tokenize.                              *)
(***************************************************************************)
\* Where the k-th of the joined sequences is.
LEMMA PartsOf ==
  ASSUME NEW seqs \in Seq(Seq(Byte))
  PROVE  /\ Concat(seqs) \in Seq(Byte) /\ Len(Concat(seqs)) \in Nat
         /\ Len(Joined(seqs, 0)) = 0 /\ Joined(seqs, Len(seqs)) = Concat(seqs)
         /\ \A k \in 0 .. Len(seqs) - 1 :
              /\ Len(Joined(seqs, k)) \in Nat /\ Len(seqs[k + 1]) \in Nat
              /\ Len(Joined(seqs, k + 1)) = Len(Joined(seqs, k)) + Len(seqs[k + 1])
              /\ Len(Joined(seqs, k)) + Len(seqs[k + 1]) <= Len(Concat(seqs))
              /\ \A i \in 1 .. Len(seqs[k + 1]) : Concat(seqs)[Len(Joined(seqs, k)) + i] = seqs[k + 1][i]
<1> DEFINE N == Len(seqs)
           L(k) == Len(Joined(seqs, k))
           t == Concat(seqs)
<1>1. N \in Nat /\ \A k \in 1 .. N : seqs[k] \in Seq(Byte)
  OBVIOUS
<1>2. \A k \in 0 .. N : Joined(seqs, k) \in Seq(Byte)
  BY JoinedType, Zenon
<1>3. Joined(seqs, 0) = <<>> /\ Joined(seqs, N) = t
  <2>1. 0 \in 0 .. N
    BY <1>1
  <2> QED
    BY <2>1, JoinedStep, Zenon
<1>4. \A k \in 0 .. N - 1 : Joined(seqs, k + 1) = Joined(seqs, k) \o seqs[k + 1]
  <2>1. \A k \in 0 .. N - 1 : k \in 0 .. N /\ k < N
    BY <1>1
  <2> QED
    BY <2>1, JoinedStep, Zenon
<1>5. t \in Seq(Byte) /\ Len(t) \in Nat /\ \A k \in 0 .. N : L(k) \in Nat
  <2>1. N \in 0 .. N
    BY <1>1
  <2>2. t \in Seq(Byte)
    BY <1>2, <1>3, <2>1, Zenon
  <2>3. \A c \in Seq(Byte) : Len(c) \in Nat
    OBVIOUS
  <2> QED
    BY <1>2, <2>2, <2>3, Zenon
<1> HIDE DEF t, N
<1>6. \A k \in 0 .. N - 1 : Len(seqs[k + 1]) \in Nat /\ L(k + 1) = L(k) + Len(seqs[k + 1])
  <2> TAKE k \in 0 .. N - 1
  <2>1. k \in 0 .. N /\ k + 1 \in 1 .. N
    BY <1>1
  <2>2. Joined(seqs, k) \in Seq(Byte) /\ seqs[k + 1] \in Seq(Byte)
    BY <1>1, <1>2, <2>1, Zenon
  <2>3. \A c, d \in Seq(Byte) : Len(d) \in Nat /\ Len(c \o d) = Len(c) + Len(d)
    OBVIOUS
  <2> QED
    BY <1>4, <2>2, <2>3, Zenon
<1> HIDE DEF L
<1> DEFINE T == {j \in 0 .. N : L(N - j) <= Len(t)}
<1>7. 0 \in T
  <2>1. N - 0 = N /\ 0 \in 0 .. N /\ Len(t) <= Len(t)
    BY <1>1, <1>5
  <2> QED
    BY <1>3, <2>1, Zenon DEF L
<1>8. \A j \in 0 .. N - 1 : j \in T => j + 1 \in T
  <2> TAKE j \in 0 .. N - 1
  <2> HAVE j \in T
  <2> DEFINE k == N - (j + 1)
  <2>1. k \in 0 .. N - 1 /\ k + 1 = N - j /\ j + 1 \in 0 .. N /\ k \in 0 .. N /\ k + 1 \in 0 .. N
    BY <1>1
  <2>2. L(k + 1) <= Len(t)
    BY <2>1, Zenon
  <2>3. L(k) \in Nat /\ L(k + 1) = L(k) + Len(seqs[k + 1]) /\ Len(seqs[k + 1]) \in Nat
    BY <1>5, <1>6, <2>1, Zenon
  <2>4. \A x, y, z \in Nat : x + y <= z => x <= z
    OBVIOUS
  <2>5. L(k) + Len(seqs[k + 1]) <= Len(t)
    BY <2>2, <2>3, Zenon
  <2>6. L(k) <= Len(t)
    BY <1>5, <2>3, <2>4, <2>5, Zenon
  <2> QED
    BY <2>1, <2>6, Zenon
<1> HIDE DEF T
<1>9. \A j \in 0 .. N : j \in T
  BY <1>1, <1>7, <1>8, OneByOne, Zenon
<1>10. \A k \in 0 .. N : L(k) <= Len(t)
  <2> TAKE k \in 0 .. N
  <2>1. N - k \in 0 .. N /\ N - (N - k) = k
    BY <1>1
  <2> QED
    BY <1>9, <2>1, Zenon DEF T
<1>11. Carries(t, 1, t)
  <2>1. \A i \in 1 .. Len(t) : 1 + i - 1 = i
    OBVIOUS
  <2> QED
    BY <2>1, Zenon DEF Carries
<1>12. \A k \in 0 .. N - 1 : Carries(t, 1 + L(k), seqs[k + 1])
  <2>1. \A k \in 0 .. N - 1 : k \in 0 .. N /\ k < N
    BY <1>1
  <2>2. 1 \in Nat \ {0}
    OBVIOUS
  <2> QED
    BY <1>5, <1>11, <2>1, <2>2, CarriesEach, Zenon DEF t, N, L
<1>13. ASSUME NEW k \in 0 .. N - 1, NEW i \in 1 .. Len(seqs[k + 1])
       PROVE  t[L(k) + i] = seqs[k + 1][i]
  <2>1. k \in 0 .. N /\ k + 1 \in 0 .. N
    BY <1>1
  <2>2. L(k) \in Nat /\ Len(seqs[k + 1]) \in Nat /\ L(k) + Len(seqs[k + 1]) <= Len(t)
    BY <1>5, <1>6, <1>10, <2>1, Zenon
  <2>3. \A x, y, z \in Nat : x + y <= z => \A j \in 1 .. y : 1 + x + j - 1 = x + j /\ x + j <= z
    OBVIOUS
  <2>4. 1 + L(k) + i - 1 = L(k) + i /\ L(k) + i <= Len(t)
    BY <1>5, <2>2, <2>3, Zenon
  <2> QED
    BY <1>12, <2>4, Zenon DEF Carries
<1>14. L(0) = 0
  <2>1. Len(<<>>) = 0
    OBVIOUS
  <2> QED
    BY <1>3, <2>1, Zenon DEF L
<1>15. \A k \in 0 .. N - 1 : L(k) \in Nat /\ L(k) + Len(seqs[k + 1]) <= Len(t)
  <2>1. \A k \in 0 .. N - 1 : k \in 0 .. N /\ k + 1 \in 0 .. N
    BY <1>1
  <2> QED
    BY <1>5, <1>6, <1>10, <2>1, Zenon
<1> QED
  BY <1>3, <1>5, <1>6, <1>13, <1>14, <1>15, Zenon DEF t, N, L

\* A loop over the bytes of a line defines a function.
Scanned(V, start, line, step) ==
  \E f \in [0 .. Len(line) -> V] :
    f = [k \in 0 .. Len(line) |-> IF k = 0 THEN start ELSE step[f[k - 1], line[k]]]

\* The states of a left-to-right scan exist: Fields and Tokenize are well defined.
LEMMA ScanExists ==
  ASSUME NEW V, NEW start \in V, NEW line \in Seq(Byte), NEW step \in [V \X Byte -> V]
  PROVE  Scanned(V, start, line, step)
<1> DEFINE N == Len(line)
           F == [f \in [0 .. N -> V] |->
                   [k \in 0 .. N |-> IF k = 0 THEN start ELSE step[f[k - 1], line[k]]]]
<1>1. N \in Nat /\ \A k \in 1 .. N : line[k] \in Byte
  OBVIOUS
<1> HIDE DEF N
<1>2. F \in [[0 .. N -> V] -> [0 .. N -> V]]
  <2>1. ASSUME NEW f \in [0 .. N -> V], NEW k \in 0 .. N
        PROVE  (IF k = 0 THEN start ELSE step[f[k - 1], line[k]]) \in V
    <3>1. CASE k = 0
      BY <3>1, Zenon
    <3>2. CASE k # 0
      <4>1. k - 1 \in 0 .. N /\ k \in 1 .. N
        BY <1>1, <3>2
      <4>2. <<f[k - 1], line[k]>> \in V \X Byte
        BY <1>1, <4>1, Zenon
      <4>3. step[<<f[k - 1], line[k]>>] \in V
        BY <4>2, Zenon
      <4> QED
        BY <3>2, <4>3, Zenon
    <3> QED
      BY <3>1, <3>2, Zenon
  <2> QED
    BY <2>1, Zenon
<1>3. LooksBack(F, N, V)
  <2> SUFFICES ASSUME NEW f \in [0 .. N -> V], NEW g \in [0 .. N -> V], NEW j \in 0 .. N,
                      \A i \in 0 .. j - 1 : f[i] = g[i]
               PROVE  F[f][j] = F[g][j]
    BY <1>2, Zenon DEF LooksBack
  <2>1. j # 0 => j - 1 \in 0 .. j - 1
    BY <1>1
  <2>2. j # 0 => f[j - 1] = g[j - 1]
    BY <2>1, Zenon
  <2> QED
    BY <2>2, Zenon
<1>4. Defines(F, N, V)
  <2> HIDE DEF F
  <2>1. V # {}
    BY Zenon
  <2> QED
    BY <1>1, <1>3, <2>1, DefinedFromTheStart, Zenon
<1>5. PICK f \in [0 .. N -> V] : f = F[f]
  BY <1>4, Zenon DEF Defines
<1>6. F[f] = [k \in 0 .. N |-> IF k = 0 THEN start ELSE step[f[k - 1], line[k]]]
  BY Zenon
<1>7. f = [k \in 0 .. N |-> IF k = 0 THEN start ELSE step[f[k - 1], line[k]]]
  BY <1>5, <1>6, Zenon
<1> QED
  BY <1>7, Zenon DEF N, Scanned


\* A function on 1 .. n is a sequence.
LEMMA ListIs ==
  ASSUME NEW S, NEW n \in Nat, NEW s \in [1 .. n -> S]
  PROVE  s \in Seq(S) /\ Len(s) = n
  OBVIOUS

\* The first k elements of a sequence, one more at a time.
LEMMA SomeGrows ==
  ASSUME NEW S, NEW w \in Seq(S)
  PROVE  /\ Some(w, 0) = <<>> /\ Some(w, Len(w)) = w
         /\ \A k \in 0 .. Len(w) : Some(w, k) \in Seq(S) /\ Len(Some(w, k)) = k
         /\ \A k \in 0 .. Len(w) - 1 : Some(w, k + 1) = Append(Some(w, k), w[k + 1])
<1>1. Some(w, 0) = <<>> /\ Some(w, Len(w)) = w
  BY DEF Some
<1>2. \A k \in 0 .. Len(w) : Some(w, k) \in Seq(S) /\ Len(Some(w, k)) = k
  BY DEF Some
<1>3. \A k \in 0 .. Len(w) - 1 : Some(w, k + 1) = Append(Some(w, k), w[k + 1])
  BY DEF Some
<1> QED
  BY <1>1, <1>2, <1>3, Zenon

\* bytes.Fields, byte by byte.
At(ws, c) == [words |-> ws, cur |-> c]
FieldRun(f, line) ==
  f[0] = At(<<>>, <<>>) /\ \A k \in 0 .. Len(line) - 1 : f[k + 1] = FieldStep(f[k], line[k + 1])

\* A visible character goes to the current word.
LEMMA FieldChar ==
  ASSUME NEW ws, NEW c, NEW r, r # Space
  PROVE  FieldStep(At(ws, c), r) = At(ws, Append(c, r))
<1>1. [At(ws, c) EXCEPT !.cur = Append(@, r)] = At(ws, Append(c, r))
  BY DEF At
<1> QED
  BY <1>1, Zenon DEF FieldStep

\* A space ends the current word.
LEMMA FieldSpace ==
  ASSUME NEW ws, NEW c, c # <<>>
  PROVE  FieldStep(At(ws, c), Space) = At(Append(ws, c), <<>>)
<1>1. EndWord(At(ws, c)) = At(Append(ws, c), <<>>)
  BY Zenon DEF EndWord, At
<1> QED
  BY <1>1, Zenon DEF FieldStep

\* Between two words there is nothing to end.
LEMMA FieldEnd ==
  ASSUME NEW ws
  PROVE  FieldStep(At(ws, <<>>), Space) = At(ws, <<>>) /\ EndWord(At(ws, <<>>)).words = ws
<1>1. At(ws, <<>>).words = ws /\ At(ws, <<>>).cur = <<>>
  BY Zenon DEF At
<1>2. EndWord(At(ws, <<>>)) = At(ws, <<>>)
  BY <1>1, Zenon DEF EndWord
<1> QED
  BY <1>1, <1>2, Zenon DEF FieldStep

\* Fields is what its scan has collected at the end of the line.
LEMMA FieldsRun ==
  ASSUME NEW line \in Seq(Byte)
  PROVE  \E f : FieldRun(f, line) /\ Fields(line) = EndWord(f[Len(line)]).words
<1> DEFINE N == Len(line)
           V == [words : Seq(Seq(Byte)), cur : Seq(Byte)]
           start == At(<<>>, <<>>)
           step == [x \in V \X Byte |-> FieldStep(x[1], x[2])]
           Eq(f) == f = [k \in 0 .. N |-> IF k = 0 THEN start ELSE FieldStep(f[k - 1], line[k])]
<1>1. N \in Nat /\ \A k \in 1 .. N : line[k] \in Byte
  OBVIOUS
<1>2. start \in V
  BY DEF At
<1>3. \A v \in V : \A c \in Byte : FieldStep(v, c) \in V
  <2> TAKE v \in V
  <2> TAKE c \in Byte
  <2> DEFINE a == v.words
             b == v.cur
  <2>1. v = At(a, b) /\ a \in Seq(Seq(Byte)) /\ b \in Seq(Byte)
    BY Zenon DEF At
  <2>2. \A x \in Seq(Seq(Byte)) : \A y \in Seq(Byte) : At(x, y) \in V
    BY Zenon DEF At
  <2>3. \A x \in Seq(Seq(Byte)) : \A y \in Seq(Byte) :
          Append(x, y) \in Seq(Seq(Byte)) /\ Append(y, c) \in Seq(Byte) /\ <<>> \in Seq(Byte)
    OBVIOUS
  <2> HIDE DEF a, b, V
  <2>4. CASE c # Space
    <3>1. FieldStep(At(a, b), c) = At(a, Append(b, c))
      BY <2>4, FieldChar, Zenon
    <3>2. Append(b, c) \in Seq(Byte)
      BY <2>1, <2>3, Zenon
    <3>3. At(a, Append(b, c)) \in V
      BY <2>1, <2>2, <3>2, Zenon
    <3> QED
      BY <2>1, <3>1, <3>3, Zenon
  <2>5. CASE c = Space /\ b # <<>>
    BY <2>1, <2>2, <2>3, <2>5, FieldSpace, Zenon
  <2>6. CASE c = Space /\ b = <<>>
    BY <2>1, <2>2, <2>3, <2>6, FieldEnd, Zenon
  <2> QED
    BY <2>4, <2>5, <2>6, Zenon
<1> HIDE DEF V, start, N
<1>4. step \in [V \X Byte -> V] /\ \A v \in V : \A c \in Byte : step[v, c] = FieldStep(v, c)
  BY <1>3, Zenon
<1> HIDE DEF step
<1>5. PICK f \in [0 .. N -> V] : f = [k \in 0 .. N |-> IF k = 0 THEN start ELSE step[f[k - 1], line[k]]]
  <2>1. Scanned(V, start, line, step)
    BY <1>2, <1>4, ScanExists, Zenon
  <2> QED
    BY <2>1, Zenon DEF N, Scanned
<1>6. \A k \in 0 .. N : k # 0 => step[f[k - 1], line[k]] = FieldStep(f[k - 1], line[k])
  <2> TAKE k \in 0 .. N
  <2> HAVE k # 0
  <2>1. k - 1 \in 0 .. N /\ k \in 1 .. N
    BY <1>1
  <2> QED
    BY <1>1, <1>4, <2>1, Zenon
<1>7. Eq(f)
  <2>1. \A k \in 0 .. N : (IF k = 0 THEN start ELSE step[f[k - 1], line[k]])
                            = (IF k = 0 THEN start ELSE FieldStep(f[k - 1], line[k]))
    BY <1>6, Zenon
  <2>2. [k \in 0 .. N |-> IF k = 0 THEN start ELSE step[f[k - 1], line[k]]]
          = [k \in 0 .. N |-> IF k = 0 THEN start ELSE FieldStep(f[k - 1], line[k])]
    BY <2>1, Zenon
  <2> QED
    BY <1>5, <2>2, Zenon
<1> DEFINE h == CHOOSE g : Eq(g)
<1>8. Eq(h)
  <2> HIDE DEF Eq
  <2> QED
    BY <1>7, Zenon
<1>9. Fields(line) = EndWord(h[Len(line)]).words
  BY Zenon DEF Fields, start, At, N
<1> HIDE DEF h
<1>10. h[0] = start /\ \A k \in 0 .. N - 1 : h[k + 1] = FieldStep(h[k], line[k + 1])
  <2>1. 0 \in 0 .. N
    BY <1>1
  <2>2. \A k \in 0 .. N - 1 : k + 1 \in 0 .. N /\ k + 1 # 0 /\ (k + 1) - 1 = k
    BY <1>1
  <2>3. \A k \in 0 .. N : h[k] = IF k = 0 THEN start ELSE FieldStep(h[k - 1], line[k])
    BY <1>8, Zenon
  <2>4. h[0] = start
    BY <2>1, <2>3, Zenon
  <2> QED
    BY <2>2, <2>3, <2>4, Zenon
<1>11. FieldRun(h, line)
  BY <1>10, Zenon DEF FieldRun, start, N
<1> QED
  BY <1>9, <1>11, Zenon

\* A word and a space after it.
Stands(f, o, t) == f[o] = t
Spelled(line, o, w) == \A i \in 1 .. Len(w) : line[o + i] = w[i]

\* From between two words, the scan collects the next word and its space.
LEMMA WordScan ==
  ASSUME NEW line \in Seq(Byte), NEW f, FieldRun(f, line), NEW o \in Nat, NEW w \in Seq(Visible),
         w # <<>>, o + Len(w) + 1 <= Len(line), Spelled(line, o, w),
         line[o + Len(w) + 1] = Space, NEW ws, Stands(f, o, At(ws, <<>>))
  PROVE  Stands(f, o + Len(w) + 1, At(Append(ws, w), <<>>))
<1> DEFINE n == Len(w)
           T == {j \in 0 .. n : f[o + j] = At(ws, Some(w, j))}
<1>0. \A x \in Visible : x # Space
  BY DEF Visible, Space
<1>1. n \in Nat /\ Len(line) \in Nat /\ \A i \in 1 .. n : w[i] \in Visible
  OBVIOUS
<1>2. \A k \in 0 .. Len(line) - 1 : f[k + 1] = FieldStep(f[k], line[k + 1])
  BY Zenon DEF FieldRun
<1>3. 0 \in T
  <2>1. 0 \in 0 .. n /\ o + 0 = o
    BY <1>1
  <2>2. Some(w, 0) = <<>>
    BY SomeGrows, Zenon
  <2> QED
    BY <2>1, <2>2, Zenon DEF Stands
<1>4. \A j \in 0 .. n - 1 : j \in T => j + 1 \in T
  <2> TAKE j \in 0 .. n - 1
  <2> HAVE j \in T
  <2>1. /\ j + 1 \in 0 .. n /\ j + 1 \in 1 .. n /\ o + j \in 0 .. Len(line) - 1
        /\ o + (j + 1) = (o + j) + 1
    BY <1>1
  <2>2. line[(o + j) + 1] = w[j + 1]
    <3>1. line[o + (j + 1)] = w[j + 1]
      BY <2>1, Zenon DEF Spelled
    <3> QED
      BY <2>1, <3>1, Zenon
  <2>3. w[j + 1] # Space
    BY <1>1, <1>0, <2>1, Zenon
  <2>4. f[(o + j) + 1] = FieldStep(At(ws, Some(w, j)), w[j + 1])
    BY <1>2, <2>1, <2>2, Zenon
  <2>5. f[(o + j) + 1] = At(ws, Append(Some(w, j), w[j + 1]))
    BY <2>3, <2>4, FieldChar, Zenon
  <2>6. Some(w, j + 1) = Append(Some(w, j), w[j + 1])
    BY SomeGrows, Zenon
  <2> QED
    BY <2>1, <2>5, <2>6, Zenon
<1> HIDE DEF T
<1>5. \A j \in 0 .. n : j \in T
  BY <1>1, <1>3, <1>4, OneByOne, Zenon
<1>6. f[o + n] = At(ws, w)
  <2>1. n \in 0 .. n
    BY <1>1
  <2>2. Some(w, n) = w
    BY SomeGrows, Zenon
  <2> QED
    BY <1>5, <2>1, <2>2, Zenon DEF T
<1>7. o + n \in 0 .. Len(line) - 1
  BY <1>1
<1>8. f[o + n + 1] = FieldStep(At(ws, w), Space)
  BY <1>2, <1>6, <1>7, Zenon
<1> QED
  BY <1>8, FieldSpace, Zenon DEF Stands

\* bytes.Fields inverts the writing of a line of words.
LEMMA FieldsInvert ==
  ASSUME NEW l \in Seq(Seq(Visible) \ {<<>>})
  PROVE  InlineLine(l) \in Seq(Printable) /\ Fields(InlineLine(l)) = l
<1> DEFINE seqs == [n \in DOMAIN l |-> Append(l[n], Space)]
           line == InlineLine(l)
           N == Len(l)
<1>1. N \in Nat /\ DOMAIN l = 1 .. N /\ \A n \in 1 .. N : l[n] \in Seq(Visible) /\ l[n] # <<>>
  OBVIOUS
<1>2. \A n \in 1 .. N : Append(l[n], Space) \in Seq(Printable) /\ Append(l[n], Space) \in Seq(Byte)
  <2> TAKE n \in 1 .. N
  <2>1. l[n] \in Seq(Visible)
    BY <1>1, Zenon
  <2>2. Space \in Byte /\ Space \in Printable /\ \A x \in Visible : x \in Byte /\ x \in Printable
    BY DEF Byte, Space, Visible, Printable
  <2> QED
    BY <2>1, <2>2
<1>3. seqs \in Seq(Seq(Printable)) /\ seqs \in Seq(Seq(Byte)) /\ Len(seqs) = N
      /\ \A n \in 1 .. N : seqs[n] = Append(l[n], Space)
  <2>1. seqs \in [1 .. N -> Seq(Printable)] /\ seqs \in [1 .. N -> Seq(Byte)]
        /\ \A n \in 1 .. N : seqs[n] = Append(l[n], Space)
    BY <1>1, <1>2, Zenon
  <2> HIDE DEF seqs
  <2>2. seqs \in Seq(Seq(Printable)) /\ seqs \in Seq(Seq(Byte)) /\ Len(seqs) = N
    BY <1>1, <2>1, ListIs, Zenon
  <2> QED
    BY <2>1, <2>2, Zenon
<1>4. line = Concat(seqs)
  BY Zenon DEF InlineLine
<1>5. line \in Seq(Printable)
  <2> HIDE DEF seqs
  <2>1. N \in 0 .. N /\ 0 \in 0 .. N
    BY <1>1
  <2>2. Joined(seqs, N) \in Seq(Printable)
    BY <1>3, <2>1, JoinedType, Zenon
  <2>3. Joined(seqs, N) = Concat(seqs)
    BY <1>3, <2>1, JoinedStep, Zenon
  <2> QED
    BY <1>4, <2>2, <2>3, Zenon
<1> HIDE DEF seqs, N, line
<1> DEFINE L(k) == Len(Joined(seqs, k))
<1>6. line \in Seq(Byte) /\ L(0) = 0 /\ L(N) = Len(line)
  BY <1>3, <1>4, PartsOf, Zenon
<1>7. \A k \in 0 .. N - 1 :
        /\ L(k) \in Nat /\ Len(seqs[k + 1]) \in Nat /\ L(k + 1) = L(k) + Len(seqs[k + 1])
        /\ L(k) + Len(seqs[k + 1]) <= Len(line)
        /\ \A i \in 1 .. Len(seqs[k + 1]) : line[L(k) + i] = seqs[k + 1][i]
  BY <1>3, <1>4, PartsOf, Zenon
<1>8. PICK f : FieldRun(f, line) /\ Fields(line) = EndWord(f[Len(line)]).words
  BY <1>6, FieldsRun, Zenon
<1> HIDE DEF L
<1> DEFINE T == {k \in 0 .. N : f[L(k)] = At(Some(l, k), <<>>)}
<1>9. 0 \in T
  <2>1. Some(l, 0) = <<>>
    BY SomeGrows, Zenon
  <2>2. 0 \in 0 .. N
    BY <1>1
  <2> QED
    BY <1>6, <1>8, <2>1, <2>2, Zenon DEF FieldRun
<1>10. \A k \in 0 .. N - 1 : k \in T => k + 1 \in T
  <2> TAKE k \in 0 .. N - 1
  <2> HAVE k \in T
  <2> DEFINE w == l[k + 1]
             o == L(k)
  <2>1. k + 1 \in 1 .. N /\ k + 1 \in 0 .. N
    BY <1>1
  <2>2. w \in Seq(Visible) /\ w # <<>> /\ seqs[k + 1] = Append(w, Space)
    BY <1>1, <1>3, <2>1, Zenon
  <2>3. /\ o \in Nat /\ L(k + 1) = o + Len(seqs[k + 1]) /\ o + Len(seqs[k + 1]) <= Len(line)
        /\ \A i \in 1 .. Len(seqs[k + 1]) : line[o + i] = seqs[k + 1][i]
    BY <1>7, Zenon
  <2>4. f[o] = At(Some(l, k), <<>>)
    BY Zenon
  <2> HIDE DEF w, o
  <2>5. /\ Len(w) \in Nat /\ Len(Append(w, Space)) = Len(w) + 1
        /\ \A i \in 1 .. Len(w) : Append(w, Space)[i] = w[i] /\ i \in 1 .. Len(w) + 1
        /\ Append(w, Space)[Len(w) + 1] = Space /\ Len(w) + 1 \in 1 .. Len(w) + 1
    BY <2>2
  <2>6. \A x, y \in Nat : x + (y + 1) = x + y + 1
    OBVIOUS
  <2>7. /\ L(k + 1) = o + Len(w) + 1 /\ o + Len(w) + 1 <= Len(line)
        /\ Spelled(line, o, w)
        /\ line[o + Len(w) + 1] = Space
    <3>1. o + (Len(w) + 1) = o + Len(w) + 1
      BY <2>3, <2>5, <2>6, Zenon
    <3>2. L(k + 1) = o + Len(w) + 1 /\ o + Len(w) + 1 <= Len(line)
      BY <2>2, <2>3, <2>5, <3>1, Zenon
    <3>3. Spelled(line, o, w)
      BY <2>2, <2>3, <2>5, Zenon DEF Spelled
    <3>4. line[o + (Len(w) + 1)] = Space
      BY <2>2, <2>3, <2>5, Zenon
    <3> QED
      BY <3>1, <3>2, <3>3, <3>4, Zenon
  <2>8. f[o + Len(w) + 1] = At(Append(Some(l, k), w), <<>>)
    <3>1. line \in Seq(Byte) /\ FieldRun(f, line) /\ o \in Nat /\ w \in Seq(Visible) /\ w # <<>>
      BY <1>6, <1>8, <2>2, <2>3, Zenon
    <3>2. Stands(f, o, At(Some(l, k), <<>>))
      BY <2>4, Zenon DEF Stands
    <3>3. Stands(f, o + Len(w) + 1, At(Append(Some(l, k), w), <<>>))
      BY <2>7, <3>1, <3>2, WordScan, Zenon
    <3> QED
      BY <3>3, Zenon DEF Stands
  <2>9. Some(l, k + 1) = Append(Some(l, k), w)
    BY SomeGrows, Zenon DEF w, N
  <2> QED
    BY <2>1, <2>7, <2>8, <2>9, Zenon
<1> HIDE DEF T
<1>11. \A k \in 0 .. N : k \in T
  BY <1>1, <1>9, <1>10, OneByOne, Zenon
<1>12. f[Len(line)] = At(l, <<>>)
  <2>1. N \in 0 .. N
    BY <1>1
  <2>2. Some(l, N) = l
    BY SomeGrows, Zenon DEF N
  <2> QED
    BY <1>6, <1>11, <2>1, <2>2, Zenon DEF T
<1>13. Fields(line) = l
  BY <1>8, <1>12, FieldEnd, Zenon
<1> QED
  BY <1>5, <1>13, Zenon DEF line


\* A line that ends with LF alone: readLine returns it when it is all there and not too
\* long, and refuses it early or waits for the rest when it is not.
LEMMA BareLine ==
  ASSUME NEW t \in Seq(Byte), NEW p \in Nat \ {0}, NEW l \in Seq(Byte), NEW max \in Nat,
         Plain(l), l # <<>>, l[Len(l)] # CR, Carries(t, p, Append(l, LF)), p <= Len(t) + 1
  PROVE  /\ p + Len(l) <= Len(t) /\ Len(l) > max => ReadLine(t, p, max) = Stop("perr")
         /\ p + Len(l) <= Len(t) /\ ~(Len(l) > max) => ReadLine(t, p, max) = Ok(l, p + Len(l) + 1)
         /\ p + Len(l) > Len(t) => ReadLine(t, p, max) \in {Stop("perr"), Stop("eof")}
         /\ p + Len(l) > Len(t) /\ ~(Len(l) > max) => ReadLine(t, p, max) = Stop("eof")
<1> DEFINE ends == {i \in p .. Len(t) : t[i] = LF}
           end == CHOOSE i \in ends : \A j \in ends : i <= j
           e == p + Len(l)
           last == IF end > p /\ t[end - 1] = CR THEN end - 2 ELSE end - 1
           n == Len(t) - p + 1
<1>1. /\ Len(l) \in Nat \ {0} /\ Len(t) \in Nat /\ Len(Append(l, LF)) = Len(l) + 1
      /\ Append(l, LF)[Len(l) + 1] = LF /\ \A i \in 1 .. Len(l) : Append(l, LF)[i] = l[i]
  OBVIOUS
<1>2. \A i \in 1 .. Len(l) : p + i - 1 <= Len(t) => t[p + i - 1] = l[i]
  <2>1. \A i \in 1 .. Len(l) : i \in 1 .. Len(l) + 1
    BY <1>1
  <2> QED
    BY <1>1, <2>1, Zenon DEF Carries
<1>3. e <= Len(t) => t[e] = LF
  <2>1. Len(l) + 1 \in 1 .. Len(l) + 1 /\ p + (Len(l) + 1) - 1 = e
    BY <1>1
  <2> QED
    BY <1>1, <2>1, Zenon DEF Carries
<1>4. \A i \in p .. Len(t) : i < e => t[i] # LF
  <2> TAKE i \in p .. Len(t)
  <2> HAVE i < e
  <2>1. i - p + 1 \in 1 .. Len(l) /\ p + (i - p + 1) - 1 = i /\ i <= Len(t)
    BY <1>1
  <2>2. t[i] = l[i - p + 1]
    BY <1>2, <2>1, Zenon
  <2> QED
    BY <2>1, <2>2, Zenon DEF Plain
<1>5. ASSUME e <= Len(t) PROVE ReadLine(t, p, max) = IF Len(l) > max THEN Stop("perr") ELSE Ok(l, e + 1)
  <2>1. e \in ends /\ \A j \in ends : e <= j
    BY <1>1, <1>3, <1>4, <1>5
  <2>2. \A i \in ends : (\A j \in ends : i <= j) => i = e
    BY <1>1, <2>1
  <2>3. end = e
    <3> HIDE DEF ends, e
    <3> QED
      BY <2>1, <2>2, Zenon
  <2>4. ends # {}
    BY <2>1, Zenon
  <2>5. e - 1 = p + Len(l) - 1 /\ (e - 1) - p + 1 = Len(l) /\ Len(l) \in 1 .. Len(l) /\ e - 1 <= Len(t)
    BY <1>1, <1>5
  <2>6. t[e - 1] = l[Len(l)]
    <3> HIDE DEF e
    <3> QED
      BY <1>2, <2>5, Zenon
  <2>7. last = e - 1
    <3> HIDE DEF end, e
    <3> QED
      BY <2>3, <2>6, Zenon
  <2>8. ReadLine(t, p, max) = IF last - p + 1 > max THEN Stop("perr") ELSE Ok(SubSeq(t, p, last), end + 1)
    BY <2>4, Zenon DEF ReadLine
  <2>9. SubSeq(t, p, p + Len(l) - 1) = l
    <3>1. \A i \in 1 .. Len(l) : t[p + i - 1] = l[i]
      BY <1>1, <1>2, <1>5
    <3>2. \A i \in 1 .. Len(l) : t[p + i - 1] \in Byte
      BY <3>1
    <3> QED
      BY <1>1, <1>5, <3>1
  <2> HIDE DEF last, end, e
  <2> QED
    BY <2>3, <2>5, <2>7, <2>8, <2>9, Zenon
<1>6. ASSUME e > Len(t)
      PROVE  /\ ReadLine(t, p, max) \in {Stop("perr"), Stop("eof")}
             /\ ~(Len(l) > max) => ReadLine(t, p, max) = Stop("eof")
  <2>1. ends = {}
    BY <1>1, <1>4, <1>6
  <2>2. ReadLine(t, p, max) = Stop(IF BufLen * (n \div BufLen) > max THEN "perr" ELSE "eof")
    BY <2>1, Zenon DEF ReadLine
  <2>3. n \in Nat /\ n <= Len(l)
    BY <1>1, <1>6
  <2> HIDE DEF n
  <2>4. BufLen * (n \div BufLen) <= n /\ BufLen * (n \div BufLen) \in Nat
    BY <2>3, BufAssumption
  <2>5. \A x, y, z, m \in Nat : x <= y /\ y <= z /\ ~(z > m) => ~(x > m)
    OBVIOUS
  <2>6. ~(Len(l) > max) => ~(BufLen * (n \div BufLen) > max)
    BY <1>1, <2>3, <2>4, <2>5, Zenon
  <2> QED
    BY <2>2, <2>6, Zenon
<1> HIDE DEF e
<1> QED
  BY <1>5, <1>6, Zenon DEF e

\* A line with its LF.
LEMMA Longer ==
  ASSUME NEW s \in Seq(Byte), NEW c \in Byte
  PROVE  Append(s, c) \in Seq(Byte) \ {<<>>} /\ Len(Append(s, c)) = Len(s) + 1
<1>1. Append(s, c) \in Seq(Byte) /\ Len(Append(s, c)) = Len(s) + 1 /\ Len(s) \in Nat
  OBVIOUS
<1>2. Len(<<>>) = 0
  OBVIOUS
<1>3. Append(s, c) # <<>>
  BY <1>1, <1>2
<1> QED
  BY <1>1, <1>3, Zenon

\* readInline, and with it ReadCommand, inverts an inline line.
LEMMA InlineReads ==
  ASSUME NEW t \in Seq(Byte), NEW p \in 1 .. Len(t) + 1, NEW lim, IsLimits(lim),
         NEW l \in Seq(Seq(Visible) \ {<<>>}), l # <<>>, l[1][1] # Star,
         Carries(t, p, Append(InlineLine(l), LF))
  PROVE  /\ Append(InlineLine(l), LF) \in Seq(Byte) \ {<<>>}
         /\ Reads(ReadCommand(t, p, lim), l, p + Len(Append(InlineLine(l), LF)), Len(t),
                  Len(l) <= lim.args /\ Len(InlineLine(l)) <= lim.inline)
<1> DEFINE line == InlineLine(l)
           seqs == [n \in DOMAIN l |-> Append(l[n], Space)]
           n == Len(line)
           r == ReadCommand(t, p, lim)
           fits == Len(l) <= lim.args /\ n <= lim.inline
           rl == ReadLine(t, p, lim.inline)
<1>1. line \in Seq(Printable) /\ Fields(line) = l
  BY FieldsInvert, Zenon
<1>2. /\ LF \in Byte /\ \A x \in Printable : x \in Byte /\ x # LF /\ x # CR
      /\ Space # CR
  BY DEF Printable, Visible, Byte, LF, CR, Space
<1>3. lim.args \in Nat /\ lim.inline \in Nat
  BY Zenon DEF IsLimits
<1>4. Len(l) \in Nat \ {0} /\ Len(t) \in Nat /\ p \in Nat \ {0} /\ p <= Len(t) + 1 /\ l[1] \in Seq(Visible) /\ l[1] # <<>>
  OBVIOUS
\* The line begins with the first word and is not empty.
<1>5. line # <<>> /\ line[1] = l[1][1]
  <2>1. Len(l[1]) \in Nat \ {0} /\ DOMAIN l = 1 .. Len(l) /\ 1 \in 1 .. Len(l) /\ 0 \in 0 .. Len(l) - 1
    BY <1>4
  <2>2. \A k \in 1 .. Len(l) : Append(l[k], Space) \in Seq(Byte)
    <3> TAKE k \in 1 .. Len(l)
    <3>1. l[k] \in Seq(Visible)
      OBVIOUS
    <3>2. Space \in Byte /\ \A x \in Visible : x \in Byte
      BY DEF Byte, Space, Visible
    <3> QED
      BY <3>1, <3>2
  <2>3. seqs \in [1 .. Len(l) -> Seq(Byte)] /\ seqs[1] = Append(l[1], Space)
    BY <2>1, <2>2, Zenon
  <2>4. line = Concat(seqs)
    BY Zenon DEF InlineLine
  <2> HIDE DEF seqs, line
  <2>5. seqs \in Seq(Seq(Byte)) /\ Len(seqs) = Len(l)
    <3>1. Len(l) \in Nat
      BY <1>4, Zenon
    <3> QED
      BY <2>3, <3>1, ListIs, Zenon
  <2>6. /\ Len(Joined(seqs, 0)) = 0 /\ Len(line) \in Nat
        /\ Len(Joined(seqs, 0)) + Len(seqs[0 + 1]) <= Len(line)
        /\ \A i \in 1 .. Len(seqs[0 + 1]) : line[Len(Joined(seqs, 0)) + i] = seqs[0 + 1][i]
    BY <2>1, <2>4, <2>5, PartsOf, Zenon
  <2>7. Len(Append(l[1], Space)) = Len(l[1]) + 1 /\ Append(l[1], Space)[1] = l[1][1]
        /\ 1 \in 1 .. Len(l[1]) + 1 /\ 0 + 1 = 1
    BY <1>4, <2>1
  <2>8. line[1] = l[1][1]
    BY <2>3, <2>6, <2>7, Zenon
  <2>9. Len(line) >= 1
    <3>1. \A x, y \in Nat : 0 + (x + 1) <= y => y >= 1
      OBVIOUS
    <3>2. 0 + (Len(l[1]) + 1) <= Len(line) /\ Len(l[1]) \in Nat
      BY <2>1, <2>3, <2>6, <2>7, Zenon
    <3> QED
      BY <2>6, <3>1, <3>2, Zenon
  <2>10. Len(<<>>) = 0 /\ ~(0 >= 1)
    OBVIOUS
  <2>11. line # <<>>
    BY <2>9, <2>10, Zenon
  <2> QED
    BY <2>8, <2>11, Zenon
<1> HIDE DEF line
<1>6. /\ line \in Seq(Byte) /\ Plain(line) /\ line[Len(line)] # CR /\ n \in Nat \ {0}
      /\ Append(line, LF) \in Seq(Byte) \ {<<>>} /\ Len(Append(line, LF)) = n + 1
  <2>1. n \in Nat \ {0} /\ \A i \in 1 .. n : line[i] \in Printable
    BY <1>1, <1>5
  <2>2. line \in Seq(Byte)
    BY <1>1, <1>2, <2>1
  <2>3. Plain(line)
    BY <1>2, <2>1, Zenon DEF Plain
  <2>4. n \in 1 .. n
    BY <2>1
  <2>5. line[n] # CR
    BY <1>2, <2>1, <2>4, Zenon
  <2>6. Append(line, LF) \in Seq(Byte) \ {<<>>} /\ Len(Append(line, LF)) = n + 1
    BY <1>2, <2>2, Longer, Zenon
  <2> QED
    BY <2>1, <2>2, <2>3, <2>5, <2>6, Zenon
<1>7. Carries(t, p, Append(line, LF))
  BY Zenon DEF line
<1> HIDE DEF n
<1>8. /\ p + n <= Len(t) /\ n > lim.inline => rl = Stop("perr")
      /\ p + n <= Len(t) /\ ~(n > lim.inline) => rl = Ok(line, p + n + 1)
      /\ p + n > Len(t) => rl \in {Stop("perr"), Stop("eof")}
      /\ p + n > Len(t) /\ ~(n > lim.inline) => rl = Stop("eof")
  BY <1>3, <1>4, <1>5, <1>6, <1>7, BareLine, Zenon DEF n
<1> HIDE DEF rl
<1>9. CASE p > Len(t)
  <2>1. r = Stop("eof")
    BY <1>9, Zenon DEF ReadCommand
  <2>2. p + (n + 1) > Len(t) + 1 /\ ~(p + (n + 1) <= Len(t) + 1)
    BY <1>4, <1>6, <1>9
  <2>3. Reads(r, l, p + (n + 1), Len(t), fits)
    <3> HIDE DEF fits, r
    <3> QED
      BY <2>1, <2>2, Zenon DEF Reads
  <2> QED
    BY <1>6, <2>3, Zenon DEF line, n
<1>10. CASE ~(p > Len(t))
  <2>1. t[p] # Star
    <3>1. 1 \in 1 .. Len(Append(line, LF)) /\ p + 1 - 1 = p /\ p <= Len(t)
      BY <1>4, <1>6, <1>10
    <3>2. t[p] = Append(line, LF)[1]
      BY <1>7, <3>1, Zenon DEF Carries
    <3>3. Append(line, LF)[1] = line[1]
      BY <1>5, <1>6
    <3> QED
      BY <1>5, <3>2, <3>3, Zenon
  <2>2. r = ReadInline(t, p, lim)
    BY <1>10, <2>1, Zenon DEF ReadCommand
  <2>3. rl.st # "ok" => r = rl
    BY <2>2, Zenon DEF ReadInline, Then, rl
  <2>4. rl = Ok(line, p + n + 1) =>
          /\ ~(Len(l) > lim.args) => r = Ok(l, p + n + 1)
          /\ Len(l) > lim.args => r = Stop("perr")
    <3> SUFFICES ASSUME rl = Ok(line, p + n + 1)
                 PROVE  /\ ~(Len(l) > lim.args) => r = Ok(l, p + n + 1)
                        /\ Len(l) > lim.args => r = Stop("perr")
      BY Zenon
    <3>1. rl.st = "ok" /\ rl.val = line /\ rl.next = p + n + 1
      BY Zenon DEF Ok
    <3>2. r = IF Fields(line) = <<>> \/ Len(Fields(line)) > lim.args THEN Stop("perr")
              ELSE Ok(Fields(line), p + n + 1)
      BY <2>2, <3>1, Zenon DEF ReadInline, Then, rl
    <3> QED
      BY <1>1, <3>2, Zenon
  <2>5. Stop("perr").st # "ok" /\ Stop("eof").st # "ok"
    BY Zenon DEF Stop
  <2>6. \A x, y \in Nat : (x > y => ~(x <= y)) /\ (~(x > y) => x <= y) /\ (x <= y => ~(x > y))
    OBVIOUS
  <2>7. (fits <=> ~(Len(l) > lim.args) /\ ~(n > lim.inline)) /\ fits \in BOOLEAN
    <3>1. Len(l) \in Nat /\ n \in Nat
      BY <1>4, <1>6, Zenon
    <3> QED
      BY <1>3, <2>6, <3>1, Zenon DEF n
  <2>8. /\ p + (n + 1) <= Len(t) + 1 => p + n <= Len(t)
        /\ p + (n + 1) > Len(t) + 1 => p + n > Len(t)
        /\ p + n <= Len(t) \/ p + n > Len(t)
        /\ p + (n + 1) = p + n + 1
    BY <1>4, <1>6
  <2> HIDE DEF r, fits
  <2>9. Reads(r, l, p + n + 1, Len(t), fits)
    <3>1. fits /\ p + n + 1 <= Len(t) + 1 => r = Ok(l, p + n + 1)
      BY <1>8, <2>4, <2>7, <2>8, Zenon
    <3>2. fits /\ p + n + 1 > Len(t) + 1 => r = Stop("eof")
      BY <1>8, <2>3, <2>5, <2>7, <2>8, Zenon
    <3>3. ~fits => r \in {Stop("eof"), Stop("perr")}
      BY <1>8, <2>3, <2>4, <2>5, <2>7, <2>8, Zenon
    <3> QED
      BY <3>1, <3>2, <3>3, Zenon DEF Reads
  <2>10. Reads(r, l, p + Len(Append(line, LF)), Len(t), fits)
    BY <1>6, <2>8, <2>9, Zenon
  <2> QED
    BY <1>6, <2>10, Zenon DEF line, n, fits, r
<1> QED
  BY <1>9, <1>10, Zenon


\* Tokenize, rune by rune: outside the quotes, inside them, and after a backslash there.
Outside(ws, c) == Token(ws, c, FALSE, FALSE)
Inside(ws, c) == Token(ws, c, TRUE, FALSE)
Escaping(ws, c) == Token(ws, c, TRUE, TRUE)

\* A backslash inside quotes escapes the next character.
LEMMA TokenSlash ==
  ASSUME NEW ws, NEW c
  PROVE  TokenStep(Inside(ws, c), Backslash) = Escaping(ws, c)
  BY Zenon DEF Inside, Escaping, TokenStep, Token

\* An escaped character is itself, whatever it is.
LEMMA TokenEscaped ==
  ASSUME NEW ws, NEW c, NEW r
  PROVE  TokenStep(Escaping(ws, c), r) = Inside(ws, Append(c, r))
  BY Zenon DEF Inside, Escaping, TokenStep, Token

\* Any other character inside quotes is itself.
LEMMA TokenChar ==
  ASSUME NEW ws, NEW c, NEW r, r # DoubleQuote, r # Backslash
  PROVE  TokenStep(Inside(ws, c), r) = Inside(ws, Append(c, r))
  BY Zenon DEF Inside, TokenStep, Token

\* A space outside quotes ends the token.
LEMMA TokenSpace ==
  ASSUME NEW ws, NEW c, c # <<>>
  PROVE  TokenStep(Outside(ws, c), Space) = Outside(Append(ws, c), <<>>)
  BY DEF Outside, TokenStep, Token, EndToken, Space, DoubleQuote, Backslash

\* At the end of the line nothing is left to add when no token is open.
LEMMA TokenEnd ==
  ASSUME NEW ws
  PROVE  EndToken(Outside(ws, <<>>)).words = ws
  BY Zenon DEF Outside, Token, EndToken

\* A quote opens or closes, and adds nothing to the token.
LEMMA TokenQuote ==
  ASSUME NEW ws, NEW c
  PROVE  /\ TokenStep(Inside(ws, c), DoubleQuote) = Outside(ws, c)
         /\ TokenStep(Outside(ws, c), DoubleQuote) = Inside(ws, c)
<1>1. DoubleQuote # Backslash
  BY DEF DoubleQuote, Backslash
<1>2. Inside(ws, c).words = ws /\ Inside(ws, c).cur = c
  BY Zenon DEF Inside, Token
<1>3. Inside(ws, c).inQuote = TRUE /\ Inside(ws, c).escape = FALSE
  BY Zenon DEF Inside, Token
<1>4. TokenStep(Inside(ws, c), DoubleQuote) = Token(ws, c, ~Inside(ws, c).inQuote, FALSE)
  BY <1>1, <1>2, <1>3, Zenon DEF TokenStep
<1>5. (~Inside(ws, c).inQuote) = FALSE
  BY <1>3, Zenon
<1>6. Outside(ws, c).words = ws /\ Outside(ws, c).cur = c
  BY Zenon DEF Outside, Token
<1>7. Outside(ws, c).inQuote = FALSE /\ Outside(ws, c).escape = FALSE
  BY Zenon DEF Outside, Token
<1>8. TokenStep(Outside(ws, c), DoubleQuote) = Token(ws, c, ~Outside(ws, c).inQuote, FALSE)
  BY <1>1, <1>6, <1>7, Zenon DEF TokenStep
<1>9. (~Outside(ws, c).inQuote) = TRUE
  BY <1>7, Zenon
<1>10. TokenStep(Inside(ws, c), DoubleQuote) = Outside(ws, c)
  BY <1>4, <1>5, Zenon DEF Outside
<1>11. TokenStep(Outside(ws, c), DoubleQuote) = Inside(ws, c)
  BY <1>8, <1>9, Zenon DEF Inside
<1> QED
  BY <1>10, <1>11, Zenon

\* The states of Tokenize.
Tokens == [words : Seq(Seq(Byte)), cur : Seq(Byte), inQuote : BOOLEAN, escape : BOOLEAN]

\* The states of Tokenize's loop.
LEMMA TokenIn ==
  ASSUME NEW a \in Seq(Seq(Byte)), NEW b \in Seq(Byte), NEW q \in BOOLEAN, NEW e \in BOOLEAN
  PROVE  Token(a, b, q, e) \in Tokens
  BY Zenon DEF Token, Tokens

\* A turn of Tokenize's loop leads to one of its states.
LEMMA TokenStepType ==
  ASSUME NEW v \in Tokens, NEW r \in Byte
  PROVE  TokenStep(v, r) \in Tokens
<1> DEFINE a == v.words
           b == v.cur
           q == v.inQuote
<1>1. a \in Seq(Seq(Byte)) /\ b \in Seq(Byte) /\ q \in BOOLEAN /\ v.escape \in BOOLEAN
  BY Zenon DEF Tokens
<1>2. Append(b, r) \in Seq(Byte) /\ Append(a, b) \in Seq(Seq(Byte)) /\ <<>> \in Seq(Byte)
  <2>1. a \in Seq(Seq(Byte)) /\ b \in Seq(Byte)
    BY <1>1, Zenon
  <2> HIDE DEF a, b
  <2> QED
    BY <2>1
<1>3. (~q) \in BOOLEAN /\ TRUE \in BOOLEAN /\ FALSE \in BOOLEAN
  BY <1>1, Zenon
<1>4. Token(a, Append(b, r), q, FALSE) \in Tokens
  <2>1. FALSE \in BOOLEAN
    BY Zenon
  <2> HIDE DEF a, b, q
  <2> QED
    BY <1>1, <1>2, <2>1, TokenIn, Zenon
<1>5. Token(a, b, q, TRUE) \in Tokens
  BY <1>1, <1>3, TokenIn, Zenon
<1>6. Token(a, b, ~q, FALSE) \in Tokens
  BY <1>1, <1>3, TokenIn, Zenon
<1>7. Token(Append(a, b), <<>>, q, v.escape) \in Tokens
  BY <1>1, <1>2, TokenIn, Zenon
<1> QED
  BY <1>4, <1>5, <1>6, <1>7, Zenon DEF TokenStep, EndToken

TokenRun(f, line) ==
  f[0] = Outside(<<>>, <<>>) /\ \A k \in 0 .. Len(line) - 1 : f[k + 1] = TokenStep(f[k], line[k + 1])

\* Tokenize is what its scan has collected at the end of the line.
LEMMA TokensRun ==
  ASSUME NEW line \in Seq(Byte)
  PROVE  \E f : TokenRun(f, line) /\ Tokenize(line) = EndToken(f[Len(line)]).words
<1> DEFINE N == Len(line)
           start == Outside(<<>>, <<>>)
           step == [x \in Tokens \X Byte |-> TokenStep(x[1], x[2])]
           Eq(f) == f = [k \in 0 .. N |-> IF k = 0 THEN start ELSE TokenStep(f[k - 1], line[k])]
<1>1. N \in Nat /\ \A k \in 1 .. N : line[k] \in Byte
  OBVIOUS
<1>2. start \in Tokens
  <2>1. <<>> \in Seq(Seq(Byte)) /\ <<>> \in Seq(Byte)
    OBVIOUS
  <2>2. FALSE \in BOOLEAN
    BY Zenon
  <2> QED
    BY <2>1, <2>2, TokenIn, Zenon DEF Outside
<1>3. \A v \in Tokens : \A c \in Byte : TokenStep(v, c) \in Tokens
  BY TokenStepType, Zenon
<1> HIDE DEF start, N
<1>4. step \in [Tokens \X Byte -> Tokens] /\ \A v \in Tokens : \A c \in Byte : step[v, c] = TokenStep(v, c)
  BY <1>3, Zenon
<1> HIDE DEF step
<1>5. PICK f \in [0 .. N -> Tokens] : f = [k \in 0 .. N |-> IF k = 0 THEN start ELSE step[f[k - 1], line[k]]]
  <2>1. Scanned(Tokens, start, line, step)
    BY <1>2, <1>4, ScanExists, Zenon
  <2> QED
    BY <2>1, Zenon DEF N, Scanned
<1>6. \A k \in 0 .. N : k # 0 => step[f[k - 1], line[k]] = TokenStep(f[k - 1], line[k])
  <2> TAKE k \in 0 .. N
  <2> HAVE k # 0
  <2>1. k - 1 \in 0 .. N /\ k \in 1 .. N
    BY <1>1
  <2> QED
    BY <1>1, <1>4, <2>1, Zenon
<1>7. Eq(f)
  <2>1. \A k \in 0 .. N : (IF k = 0 THEN start ELSE step[f[k - 1], line[k]])
                            = (IF k = 0 THEN start ELSE TokenStep(f[k - 1], line[k]))
    BY <1>6, Zenon
  <2>2. [k \in 0 .. N |-> IF k = 0 THEN start ELSE step[f[k - 1], line[k]]]
          = [k \in 0 .. N |-> IF k = 0 THEN start ELSE TokenStep(f[k - 1], line[k])]
    BY <2>1, Zenon
  <2> QED
    BY <1>5, <2>2, Zenon
<1> DEFINE h == CHOOSE g : Eq(g)
<1>8. Eq(h)
  <2> HIDE DEF Eq
  <2> QED
    BY <1>7, Zenon
<1>9. Tokenize(line) = EndToken(h[Len(line)]).words
  BY Zenon DEF Tokenize, start, Outside, N
<1> HIDE DEF h
<1>10. h[0] = start /\ \A k \in 0 .. N - 1 : h[k + 1] = TokenStep(h[k], line[k + 1])
  <2>1. 0 \in 0 .. N
    BY <1>1
  <2>2. \A k \in 0 .. N - 1 : k + 1 \in 0 .. N /\ k + 1 # 0 /\ (k + 1) - 1 = k
    BY <1>1
  <2>3. \A k \in 0 .. N : h[k] = IF k = 0 THEN start ELSE TokenStep(h[k - 1], line[k])
    BY <1>8, Zenon
  <2>4. h[0] = start
    BY <2>1, <2>3, Zenon
  <2> QED
    BY <2>2, <2>3, <2>4, Zenon
<1>11. TokenRun(h, line)
  BY <1>10, Zenon DEF TokenRun, start, N
<1> QED
  BY <1>9, <1>11, Zenon


\* The text of one argument, with its backslashes.
EscapedText(w) == [i \in DOMAIN w |-> Escaped(w[i])]

\* How a character is typed inside quotes: as itself, or after a backslash.
LEMMA EscapedParts ==
  ASSUME NEW r \in Printable
  PROVE  /\ Escaped(r) \in Seq(Byte)
         /\ r \in {DoubleQuote, Backslash} =>
              Len(Escaped(r)) = 2 /\ Escaped(r)[1] = Backslash /\ Escaped(r)[2] = r
         /\ r \notin {DoubleQuote, Backslash} => Len(Escaped(r)) = 1 /\ Escaped(r)[1] = r
<1>1. r \in Byte /\ Backslash \in Byte
  BY DEF Printable, Visible, Byte, Space, Backslash
<1>2. /\ <<Backslash, r>> \in Seq(Byte) /\ <<r>> \in Seq(Byte) /\ Len(<<Backslash, r>>) = 2 /\ Len(<<r>>) = 1
      /\ <<Backslash, r>>[1] = Backslash /\ <<Backslash, r>>[2] = r /\ <<r>>[1] = r
  BY <1>1
<1> QED
  BY <1>2, Zenon DEF Escaped

\* Between its quotes Tokenize undoes the backslashes.
LEMMA TextScan ==
  ASSUME NEW line \in Seq(Byte), NEW f, TokenRun(f, line), NEW o \in Nat, NEW w \in Seq(Printable),
         o + Len(Concat(EscapedText(w))) <= Len(line), Spelled(line, o, Concat(EscapedText(w))),
         NEW ws, Stands(f, o, Inside(ws, <<>>))
  PROVE  Stands(f, o + Len(Concat(EscapedText(w))), Inside(ws, w))
<1> DEFINE seqs == EscapedText(w)
           N == Len(w)
           body == Concat(seqs)
           L(k) == Len(Joined(seqs, k))
           T == {k \in 0 .. N : Stands(f, o + L(k), Inside(ws, Some(w, k)))}
<1>1. N \in Nat /\ Len(line) \in Nat /\ DOMAIN w = 1 .. N /\ \A k \in 1 .. N : w[k] \in Printable
  OBVIOUS
<1>2. seqs \in [1 .. N -> Seq(Byte)] /\ \A k \in 1 .. N : seqs[k] = Escaped(w[k])
  <2>1. \A k \in 1 .. N : Escaped(w[k]) \in Seq(Byte)
    BY <1>1, EscapedParts, Zenon
  <2> QED
    BY <1>1, <2>1, Zenon DEF EscapedText
<1> HIDE DEF seqs, N
<1>3. seqs \in Seq(Seq(Byte)) /\ Len(seqs) = N
  BY <1>1, <1>2, ListIs, Zenon
<1>4. L(0) = 0 /\ L(N) = Len(body)
  BY <1>3, PartsOf, Zenon
<1>5. \A k \in 0 .. N - 1 :
        /\ L(k) \in Nat /\ Len(seqs[k + 1]) \in Nat /\ L(k + 1) = L(k) + Len(seqs[k + 1])
        /\ L(k) + Len(seqs[k + 1]) <= Len(body)
        /\ \A i \in 1 .. Len(seqs[k + 1]) : body[L(k) + i] = seqs[k + 1][i]
  BY <1>3, PartsOf, Zenon
<1>6. Len(body) \in Nat
  BY <1>3, PartsOf, Zenon
<1>7. o + Len(body) <= Len(line) /\ \A i \in 1 .. Len(body) : line[o + i] = body[i]
  BY Zenon DEF Spelled, seqs
<1>8. \A k \in 0 .. Len(line) - 1 : f[k + 1] = TokenStep(f[k], line[k + 1])
  BY Zenon DEF TokenRun
<1> HIDE DEF body, L
<1>9. 0 \in T
  <2>1. Some(w, 0) = <<>>
    BY SomeGrows, Zenon
  <2>2. 0 \in 0 .. N /\ o + 0 = o
    BY <1>1
  <2> QED
    BY <1>4, <2>1, <2>2, Zenon
<1>10. \A k \in 0 .. N - 1 : k \in T => k + 1 \in T
  <2> TAKE k \in 0 .. N - 1
  <2> HAVE k \in T
  <2> DEFINE r == w[k + 1]
             s == seqs[k + 1]
             a == o + L(k)
             c == Some(w, k)
  <2>1. k + 1 \in 1 .. N /\ k + 1 \in 0 .. N
    BY <1>1
  <2>2. r \in Printable /\ s = Escaped(r)
    BY <1>1, <1>2, <2>1, Zenon
  <2>3. L(k) \in Nat /\ Len(s) \in Nat /\ L(k + 1) = L(k) + Len(s) /\ L(k) + Len(s) <= Len(body)
        /\ \A i \in 1 .. Len(s) : body[L(k) + i] = s[i]
    BY <1>5, Zenon
  <2>4. f[a] = Inside(ws, c)
    BY Zenon DEF Stands
  <2>5. Some(w, k + 1) = Append(c, r)
    BY SomeGrows, Zenon DEF N
  <2>6. a \in Nat /\ o + L(k + 1) = a + Len(s) /\ a + Len(s) <= Len(line)
    <3> DEFINE y == L(k)
               z == Len(s)
               b == Len(body)
               m == Len(line)
    <3>1. y \in Nat /\ z \in Nat /\ b \in Nat /\ m \in Nat /\ o + b <= m /\ y + z <= b
      BY <1>1, <1>6, <1>7, <2>3, Zenon
    <3>2. L(k + 1) = y + z
      BY <2>3, Zenon
    <3> HIDE DEF y, z, b, m
    <3>3. o + y \in Nat /\ o + (y + z) = o + y + z /\ o + y + z <= m
      BY <3>1
    <3> QED
      BY <3>2, <3>3, Zenon DEF y, z, m
  <2>7. \A i \in 1 .. Len(s) : line[a + i] = s[i]
    <3> TAKE i \in 1 .. Len(s)
    <3>2. L(k) + i \in 1 .. Len(body) /\ o + (L(k) + i) = a + i
      <4> DEFINE y == L(k)
                 z == Len(s)
                 b == Len(body)
      <4>1. y \in Nat /\ z \in Nat /\ b \in Nat /\ y + z <= b /\ i \in 1 .. z
        BY <1>6, <2>3, Zenon
      <4> HIDE DEF y, z, b
      <4>2. y + i \in 1 .. b /\ o + (y + i) = o + y + i
        BY <4>1
      <4> QED
        BY <4>2, Zenon DEF y, b
    <3>3. line[o + (L(k) + i)] = body[L(k) + i]
      BY <1>7, <3>2, Zenon
    <3> QED
      BY <2>3, <3>2, <3>3, Zenon
  <2> HIDE DEF r, s, a, c
  <2>8. CASE r \in {DoubleQuote, Backslash}
    <3>1. Len(s) = 2 /\ s[1] = Backslash /\ s[2] = r
      BY <2>2, <2>8, EscapedParts, Zenon
    <3>2. a \in 0 .. Len(line) - 1 /\ a + 1 \in 0 .. Len(line) - 1 /\ (a + 1) + 1 = a + 2
          /\ 1 \in 1 .. 2 /\ 2 \in 1 .. 2
      BY <1>1, <2>6, <3>1
    <3>3. line[a + 1] = Backslash /\ line[a + 2] = r
      BY <2>7, <3>1, <3>2, Zenon
    <3>4. f[a + 1] = Escaping(ws, c)
      BY <1>8, <2>4, <3>2, <3>3, TokenSlash, Zenon
    <3>5. f[(a + 1) + 1] = TokenStep(f[a + 1], line[(a + 1) + 1])
      BY <1>8, <3>2, Zenon
    <3>6. f[a + 2] = Inside(ws, Append(c, r))
      <4>1. TokenStep(Escaping(ws, c), r) = Inside(ws, Append(c, r))
        BY TokenEscaped, Zenon
      <4> QED
        BY <3>2, <3>3, <3>4, <3>5, <4>1, Zenon
    <3> QED
      BY <2>1, <2>5, <2>6, <3>1, <3>6, Zenon DEF Stands
  <2>9. CASE r \notin {DoubleQuote, Backslash}
    <3>1. Len(s) = 1 /\ s[1] = r /\ r # DoubleQuote /\ r # Backslash
      BY <2>2, <2>9, EscapedParts, Zenon
    <3>2. a \in 0 .. Len(line) - 1 /\ 1 \in 1 .. 1
      BY <1>1, <2>6, <3>1
    <3>3. line[a + 1] = r
      BY <2>7, <3>1, <3>2, Zenon
    <3>4. f[a + 1] = TokenStep(Inside(ws, c), r)
      BY <1>8, <2>4, <3>2, <3>3, Zenon
    <3>5. f[a + 1] = Inside(ws, Append(c, r))
      <4>1. TokenStep(Inside(ws, c), r) = Inside(ws, Append(c, r))
        BY <3>1, TokenChar, Zenon
      <4> QED
        BY <3>4, <4>1, Zenon
    <3> QED
      BY <2>1, <2>5, <2>6, <3>1, <3>5, Zenon DEF Stands
  <2> QED
    BY <2>8, <2>9, Zenon
<1> HIDE DEF T
<1>11. \A k \in 0 .. N : k \in T
  BY <1>1, <1>9, <1>10, OneByOne, Zenon
<1>12. N \in 0 .. N /\ Some(w, N) = w
  <2>1. Some(w, N) = w
    BY SomeGrows, Zenon DEF N
  <2>2. N \in 0 .. N
    BY <1>1
  <2> QED
    BY <2>1, <2>2, Zenon
<1>13. Stands(f, o + L(N), Inside(ws, w))
  BY <1>11, <1>12, Zenon DEF T
<1> QED
  BY <1>4, <1>13, Zenon DEF body, seqs

\* An argument in quotes and the space after it.
LEMMA QuotedParts ==
  ASSUME NEW w \in Seq(Printable)
  PROVE  /\ Concat(EscapedText(w)) \in Seq(Byte) /\ Len(Concat(EscapedText(w))) \in Nat
         /\ QuotedArg(w) \in Seq(Byte) /\ Len(QuotedArg(w)) = Len(Concat(EscapedText(w))) + 3
         /\ QuotedArg(w)[1] = DoubleQuote
         /\ \A i \in 1 .. Len(Concat(EscapedText(w))) : QuotedArg(w)[1 + i] = Concat(EscapedText(w))[i]
         /\ QuotedArg(w)[Len(Concat(EscapedText(w))) + 2] = DoubleQuote
         /\ QuotedArg(w)[Len(Concat(EscapedText(w))) + 3] = Space
<1> DEFINE seqs == EscapedText(w)
           N == Len(w)
           body == Concat(seqs)
<1>1. N \in Nat /\ DOMAIN w = 1 .. N /\ \A k \in 1 .. N : w[k] \in Printable
  OBVIOUS
<1>2. seqs \in [1 .. N -> Seq(Byte)]
  <2>1. \A k \in 1 .. N : Escaped(w[k]) \in Seq(Byte)
    BY <1>1, EscapedParts, Zenon
  <2> QED
    BY <1>1, <2>1, Zenon DEF EscapedText
<1>3. QuotedArg(w) = <<DoubleQuote>> \o body \o <<DoubleQuote, Space>>
  BY Zenon DEF QuotedArg, EscapedText
<1> HIDE DEF seqs, N
<1>4. seqs \in Seq(Seq(Byte))
  BY <1>1, <1>2, ListIs, Zenon
<1>5. body \in Seq(Byte) /\ Len(body) \in Nat
  BY <1>4, PartsOf, Zenon
<1> HIDE DEF body
<1>6. DoubleQuote \in Byte /\ Space \in Byte
  BY DEF DoubleQuote, Space, Byte
<1> DEFINE u == <<DoubleQuote>> \o body
           v == <<DoubleQuote, Space>>
<1>7. /\ u \in Seq(Byte) /\ Len(u) = 1 + Len(body) /\ u[1] = DoubleQuote
      /\ \A i \in 1 .. Len(body) : u[1 + i] = body[i]
  BY <1>5, <1>6
<1>8. v \in Seq(Byte) /\ Len(v) = 2 /\ v[1] = DoubleQuote /\ v[2] = Space
  BY <1>6
<1> HIDE DEF u, v
<1>9. /\ u \o v \in Seq(Byte) /\ Len(u \o v) = Len(body) + 3
      /\ (u \o v)[1] = DoubleQuote
      /\ \A i \in 1 .. Len(body) : (u \o v)[1 + i] = body[i]
      /\ (u \o v)[Len(body) + 2] = DoubleQuote /\ (u \o v)[Len(body) + 3] = Space
  <2>1. u \o v \in Seq(Byte) /\ Len(u \o v) = Len(u) + Len(v)
        /\ (\A i \in 1 .. Len(u) : (u \o v)[i] = u[i])
        /\ (\A i \in 1 .. Len(v) : (u \o v)[Len(u) + i] = v[i])
    <3>1. u \in Seq(Byte) /\ v \in Seq(Byte)
      BY <1>7, <1>8, Zenon
    <3> QED
      BY <3>1
  <2>2. /\ Len(u) + Len(v) = Len(body) + 3 /\ 1 \in 1 .. Len(u) /\ 1 \in 1 .. Len(v) /\ 2 \in 1 .. Len(v)
        /\ Len(u) + 1 = Len(body) + 2 /\ Len(u) + 2 = Len(body) + 3
        /\ \A i \in 1 .. Len(body) : 1 + i \in 1 .. Len(u)
    BY <1>5, <1>7, <1>8
  <2>3. (u \o v)[Len(u) + 1] = DoubleQuote /\ (u \o v)[Len(u) + 2] = Space
    BY <1>8, <2>1, <2>2, Zenon
  <2> QED
    BY <1>7, <2>1, <2>2, <2>3, Zenon
<1>10. QuotedArg(w) = u \o v
  BY <1>3, Zenon DEF u, v
<1> QED
  BY <1>5, <1>9, <1>10, Zenon DEF body, seqs


\* From between two tokens, the scan collects the next quoted argument and its space.
LEMMA ArgScan ==
  ASSUME NEW line \in Seq(Byte), NEW f, TokenRun(f, line), NEW o \in Nat, NEW w \in Seq(Printable),
         w # <<>>, o + Len(QuotedArg(w)) <= Len(line), Spelled(line, o, QuotedArg(w)),
         NEW ws, Stands(f, o, Outside(ws, <<>>))
  PROVE  Stands(f, o + Len(QuotedArg(w)), Outside(Append(ws, w), <<>>))
<1> DEFINE body == Concat(EscapedText(w))
           n == Len(body)
           q == QuotedArg(w)
<1>1. /\ n \in Nat /\ Len(q) = n + 3 /\ q[1] = DoubleQuote /\ \A i \in 1 .. n : q[1 + i] = body[i]
      /\ q[n + 2] = DoubleQuote /\ q[n + 3] = Space
  BY QuotedParts, Zenon
<1>2. Len(line) \in Nat
  OBVIOUS
<1>3. \A i \in 1 .. Len(q) : line[o + i] = q[i]
  BY Zenon DEF Spelled
<1>4. \A k \in 0 .. Len(line) - 1 : f[k + 1] = TokenStep(f[k], line[k + 1])
  BY Zenon DEF TokenRun
<1>5. o + Len(q) <= Len(line)
  OBVIOUS
<1> HIDE DEF body, n, q
<1>6. /\ o \in 0 .. Len(line) - 1 /\ o + 1 \in Nat /\ (o + 1) + n <= Len(line)
      /\ (o + 1) + n \in 0 .. Len(line) - 1 /\ o + (n + 2) = ((o + 1) + n) + 1
      /\ o + (n + 2) \in 0 .. Len(line) - 1 /\ o + (n + 3) = (o + (n + 2)) + 1
      /\ 1 \in 1 .. Len(q) /\ n + 2 \in 1 .. Len(q) /\ n + 3 \in 1 .. Len(q)
      /\ \A i \in 1 .. n : 1 + i \in 1 .. Len(q) /\ o + (1 + i) = (o + 1) + i
  <2> DEFINE m == Len(q)
             y == Len(line)
  <2>1. n \in Nat /\ m = n + 3 /\ y \in Nat /\ o \in Nat /\ o + m <= y
    BY <1>1, <1>2, <1>5, Zenon
  <2> HIDE DEF m, y
  <2>2. /\ o \in 0 .. y - 1 /\ o + 1 \in Nat /\ (o + 1) + n <= y
        /\ (o + 1) + n \in 0 .. y - 1 /\ o + (n + 2) = ((o + 1) + n) + 1
        /\ o + (n + 2) \in 0 .. y - 1 /\ o + (n + 3) = (o + (n + 2)) + 1
        /\ 1 \in 1 .. m /\ n + 2 \in 1 .. m /\ n + 3 \in 1 .. m
        /\ \A i \in 1 .. n : 1 + i \in 1 .. m /\ o + (1 + i) = (o + 1) + i
    BY <2>1
  <2> QED
    BY <2>2, Zenon DEF m, y
<1>7. line[o + 1] = DoubleQuote /\ line[o + (n + 2)] = DoubleQuote /\ line[o + (n + 3)] = Space
  BY <1>1, <1>3, <1>6, Zenon
<1>8. Stands(f, o + 1, Inside(ws, <<>>))
  <2>1. TokenStep(Outside(ws, <<>>), DoubleQuote) = Inside(ws, <<>>)
    BY TokenQuote, Zenon
  <2> QED
    BY <1>4, <1>6, <1>7, <2>1, Zenon DEF Stands
<1>9. Spelled(line, o + 1, body)
  BY <1>1, <1>3, <1>6, Zenon DEF Spelled, n
<1>10. Stands(f, (o + 1) + n, Inside(ws, w))
  <2>1. o + 1 \in Nat /\ (o + 1) + Len(Concat(EscapedText(w))) <= Len(line)
    BY <1>6, Zenon DEF n, body
  <2>2. Spelled(line, o + 1, Concat(EscapedText(w)))
    BY <1>9, Zenon DEF body
  <2>3. Stands(f, (o + 1) + Len(Concat(EscapedText(w))), Inside(ws, w))
    BY <1>8, <2>1, <2>2, TextScan, Zenon
  <2> QED
    BY <2>3, Zenon DEF n, body
<1>11. f[o + (n + 2)] = Outside(ws, w)
  <2>1. TokenStep(Inside(ws, w), DoubleQuote) = Outside(ws, w)
    BY TokenQuote, Zenon
  <2>2. f[((o + 1) + n) + 1] = TokenStep(f[(o + 1) + n], line[((o + 1) + n) + 1])
    BY <1>4, <1>6, Zenon
  <2> QED
    BY <1>6, <1>7, <1>10, <2>1, <2>2, Zenon DEF Stands
<1>12. f[o + (n + 3)] = Outside(Append(ws, w), <<>>)
  <2>1. TokenStep(Outside(ws, w), Space) = Outside(Append(ws, w), <<>>)
    BY TokenSpace, Zenon
  <2>2. f[(o + (n + 2)) + 1] = TokenStep(f[o + (n + 2)], line[(o + (n + 2)) + 1])
    BY <1>4, <1>6, Zenon
  <2> QED
    BY <1>6, <1>7, <1>11, <2>1, <2>2, Zenon
<1> QED
  BY <1>1, <1>12, Zenon DEF Stands, q

\* Tokenize inverts the typing of arguments that are not empty.
LEMMA TokenizeInverts ==
  ASSUME NEW l \in Seq(Seq(Printable)), \A i \in DOMAIN l : l[i] # <<>>
  PROVE  Tokenize(Quoted(l)) = l
<1> DEFINE seqs == [n \in DOMAIN l |-> QuotedArg(l[n])]
           line == Quoted(l)
           N == Len(l)
           L(k) == Len(Joined(seqs, k))
<1>1. N \in Nat /\ DOMAIN l = 1 .. N /\ \A n \in 1 .. N : l[n] \in Seq(Printable)
  OBVIOUS
<1>2. seqs \in [1 .. N -> Seq(Byte)] /\ \A n \in 1 .. N : seqs[n] = QuotedArg(l[n])
  <2>1. \A n \in 1 .. N : QuotedArg(l[n]) \in Seq(Byte)
    BY <1>1, QuotedParts, Zenon
  <2> QED
    BY <1>1, <2>1, Zenon
<1>3. line = Concat(seqs)
  BY Zenon DEF Quoted
<1> HIDE DEF seqs, N, line
<1>4. seqs \in Seq(Seq(Byte)) /\ Len(seqs) = N
  BY <1>1, <1>2, ListIs, Zenon
<1>5. line \in Seq(Byte) /\ L(0) = 0 /\ L(N) = Len(line)
  BY <1>3, <1>4, PartsOf, Zenon
<1>6. \A k \in 0 .. N - 1 :
        /\ L(k) \in Nat /\ L(k + 1) = L(k) + Len(seqs[k + 1])
        /\ L(k) + Len(seqs[k + 1]) <= Len(line)
        /\ \A i \in 1 .. Len(seqs[k + 1]) : line[L(k) + i] = seqs[k + 1][i]
  BY <1>3, <1>4, PartsOf, Zenon
<1>7. PICK f : TokenRun(f, line) /\ Tokenize(line) = EndToken(f[Len(line)]).words
  BY <1>5, TokensRun, Zenon
<1> HIDE DEF L
<1> DEFINE T == {k \in 0 .. N : Stands(f, L(k), Outside(Some(l, k), <<>>))}
<1>8. 0 \in T
  <2>1. Some(l, 0) = <<>>
    BY SomeGrows, Zenon
  <2>2. 0 \in 0 .. N
    BY <1>1
  <2> QED
    BY <1>5, <1>7, <2>1, <2>2, Zenon DEF TokenRun, Stands
<1>9. \A k \in 0 .. N - 1 : k \in T => k + 1 \in T
  <2> TAKE k \in 0 .. N - 1
  <2> HAVE k \in T
  <2> DEFINE w == l[k + 1]
             o == L(k)
             ws == Some(l, k)
  <2>1. k + 1 \in 1 .. N /\ k + 1 \in 0 .. N
    BY <1>1
  <2>2. w \in Seq(Printable) /\ w # <<>> /\ seqs[k + 1] = QuotedArg(w)
    BY <1>1, <1>2, <2>1, Zenon
  <2>3. /\ o \in Nat /\ L(k + 1) = o + Len(QuotedArg(w)) /\ o + Len(QuotedArg(w)) <= Len(line)
        /\ \A i \in 1 .. Len(QuotedArg(w)) : line[o + i] = QuotedArg(w)[i]
    BY <1>6, <2>2, Zenon
  <2>4. Spelled(line, o, QuotedArg(w))
    BY <2>3, Zenon DEF Spelled
  <2>5. Stands(f, o, Outside(ws, <<>>))
    BY Zenon
  <2>6. TokenRun(f, line)
    BY <1>7, Zenon
  <2>7. Some(l, k + 1) = Append(ws, w)
    BY SomeGrows, Zenon DEF N
  <2> HIDE DEF w, o, ws
  <2>8. Stands(f, o + Len(QuotedArg(w)), Outside(Append(ws, w), <<>>))
    BY <1>5, <2>2, <2>3, <2>4, <2>5, <2>6, ArgScan, Zenon
  <2> QED
    BY <2>1, <2>3, <2>7, <2>8, Zenon
<1> HIDE DEF T
<1>10. \A k \in 0 .. N : k \in T
  BY <1>1, <1>8, <1>9, OneByOne, Zenon
<1>11. f[Len(line)] = Outside(l, <<>>)
  <2>1. N \in 0 .. N
    BY <1>1
  <2>2. Some(l, N) = l
    BY SomeGrows, Zenon DEF N
  <2> QED
    BY <1>5, <1>10, <2>1, <2>2, Zenon DEF T, Stands
<1>12. Tokenize(line) = l
  BY <1>7, <1>11, TokenEnd, Zenon
<1> QED
  BY <1>12, Zenon DEF line

-----------------------------------------------------------------------------
(***************************************************************************)
(* The streams.                                                            *)
(***************************************************************************)
\* What clients send and the log holds.
Sent == {[form |-> "multibulk", val |-> c] : c \in Commands}
          \cup {[form |-> "inline", val |-> l] : l \in Lines}
          \cup {[form |-> "typed", val |-> l] : l \in Typed}

\* ReadCommand under the limits lim inverts the writing of item i.
Inverts(i, lim) ==
  \A t \in Seq(Byte) : \A p \in 1 .. Len(t) + 1 :
    Carries(t, p, Encode(i)) =>
      Reads(ReadCommand(t, p, lim), i.val, p + Len(Encode(i)), Len(t), Fits(i, lim))

Bytewise(i) == Encode(i) \in Seq(Byte) /\ Encode(i) # <<>>

\* The bytes of w, and where its first k items end.
Encoded(w) == [j \in 1 .. Len(w) |-> Encode(w[j])]
EndAt(w, k) == Len(Joined(Encoded(w), k))

\* Load accepts what the server accepts.
LimitsAgree == Lim.args <= LoadLim.args /\ Lim.bulk <= LoadLim.bulk

\* The items of a stream as bytes, and where they end.
LEMMA EncodedType ==
  ASSUME NEW I, \A i \in I : Bytewise(i), NEW w \in Seq(I)
  PROVE  /\ Encoded(w) \in Seq(Seq(Byte)) /\ Len(Encoded(w)) = Len(w) /\ Len(w) \in Nat
         /\ \A k \in 1 .. Len(w) : Encoded(w)[k] = Encode(w[k]) /\ w[k] \in I
         /\ \A k \in 0 .. Len(w) : Joined(Encoded(w), k) \in Seq(Byte) /\ EndAt(w, k) \in Nat
<1>1. Len(w) \in Nat /\ \A k \in 1 .. Len(w) : w[k] \in I
  OBVIOUS
<1>2. \A k \in 1 .. Len(w) : Encode(w[k]) \in Seq(Byte)
  BY <1>1, Zenon DEF Bytewise
<1>3. /\ Encoded(w) \in Seq(Seq(Byte)) /\ Len(Encoded(w)) = Len(w)
      /\ \A k \in 1 .. Len(w) : Encoded(w)[k] = Encode(w[k])
  BY <1>1, <1>2 DEF Encoded
<1>4. \A k \in 0 .. Len(w) : Joined(Encoded(w), k) \in Seq(Byte)
  BY <1>3, JoinedType, Zenon
<1>5. ASSUME NEW k \in 0 .. Len(w) PROVE EndAt(w, k) \in Nat
  <2>1. Joined(Encoded(w), k) \in Seq(Byte)
    BY <1>4, Zenon
  <2>2. \A s \in Seq(Byte) : Len(s) \in Nat
    OBVIOUS
  <2> QED
    BY <2>1, <2>2, Zenon DEF EndAt
<1> QED
  BY <1>1, <1>3, <1>4, <1>5, Zenon

\* The ends of the items follow each other.
LEMMA EndsGrow ==
  ASSUME NEW I, \A i \in I : Bytewise(i), NEW w \in Seq(I)
  PROVE  /\ EndAt(w, 0) = 0
         /\ \A k \in 0 .. Len(w) - 1 : EndAt(w, k + 1) = EndAt(w, k) + Len(Encode(w[k + 1]))
         /\ \A k \in 0 .. Len(w) - 1 : EndAt(w, k + 1) > EndAt(w, k)
<1> DEFINE e == Encoded(w)
<1>1. /\ e \in Seq(Seq(Byte)) /\ Len(e) = Len(w) /\ Len(w) \in Nat
      /\ \A k \in 1 .. Len(w) : e[k] = Encode(w[k]) /\ w[k] \in I
      /\ \A k \in 0 .. Len(w) : Joined(e, k) \in Seq(Byte) /\ EndAt(w, k) \in Nat
  BY EncodedType, Zenon
<1> HIDE DEF e
<1>2. EndAt(w, 0) = 0
  <2>1. 0 \in 0 .. Len(e) /\ Len(<<>>) = 0
    BY <1>1
  <2>2. Joined(e, 0) = <<>>
    BY <1>1, <2>1, JoinedStep, Zenon
  <2> QED
    BY <2>1, <2>2, Zenon DEF EndAt, e
<1>3. ASSUME NEW k \in 0 .. Len(w) - 1
      PROVE  EndAt(w, k + 1) = EndAt(w, k) + Len(Encode(w[k + 1])) /\ EndAt(w, k + 1) > EndAt(w, k)
  <2>1. k \in 0 .. Len(e) /\ k < Len(e) /\ k + 1 \in 1 .. Len(w) /\ k + 1 \in 0 .. Len(w) /\ k \in 0 .. Len(w)
    BY <1>1
  <2>2. Joined(e, k + 1) = Joined(e, k) \o e[k + 1]
    BY <1>1, <2>1, JoinedStep, Zenon
  <2>3. e[k + 1] = Encode(w[k + 1]) /\ Encode(w[k + 1]) \in Seq(Byte) /\ Encode(w[k + 1]) # <<>>
    BY <1>1, <2>1, Zenon DEF Bytewise
  <2>4. \A s \in Seq(Byte) : s # <<>> => Len(s) > 0 /\ Len(s) \in Nat
    OBVIOUS
  <2>5. Len(Joined(e, k + 1)) = Len(Joined(e, k)) + Len(Encode(w[k + 1]))
    <3>1. Joined(e, k) \in Seq(Byte)
      BY <1>1, <2>1, Zenon
    <3>2. Len(Joined(e, k) \o Encode(w[k + 1])) = Len(Joined(e, k)) + Len(Encode(w[k + 1]))
      BY <2>3, <3>1, JoinFacts, Zenon
    <3> QED
      BY <2>2, <2>3, <3>2, Zenon
  <2>6. EndAt(w, k) \in Nat /\ Len(Encode(w[k + 1])) > 0 /\ Len(Encode(w[k + 1])) \in Nat
    BY <1>1, <2>1, <2>3, <2>4, Zenon
  <2>7. EndAt(w, k + 1) = EndAt(w, k) + Len(Encode(w[k + 1]))
    BY <2>5, Zenon DEF EndAt, e
  <2>8. \A x, y \in Nat : y > 0 => x + y > x
    OBVIOUS
  <2> QED
    BY <2>6, <2>7, <2>8, Zenon
<1> QED
  BY <1>2, <1>3, Zenon

\* Earlier items end earlier.
LEMMA EndsOrdered ==
  ASSUME NEW I, \A i \in I : Bytewise(i), NEW w \in Seq(I), NEW m \in 0 .. Len(w)
  PROVE  \A k \in 0 .. m : EndAt(w, k) <= EndAt(w, m)
<1>1. /\ Len(w) \in Nat /\ \A k \in 0 .. Len(w) : EndAt(w, k) \in Nat
  BY EncodedType, Zenon
<1>2. \A k \in 0 .. Len(w) - 1 : EndAt(w, k + 1) > EndAt(w, k)
  BY EndsGrow, Zenon
<1> DEFINE T == {j \in 0 .. m : EndAt(w, m - j) <= EndAt(w, m)}
<1>3. 0 \in T
  <2>1. 0 \in 0 .. m /\ m - 0 = m /\ EndAt(w, m) \in Nat
    BY <1>1
  <2>2. \A x \in Nat : x <= x
    OBVIOUS
  <2> QED
    BY <2>1, <2>2, Zenon
<1>4. \A j \in 0 .. m - 1 : j \in T => j + 1 \in T
  <2> SUFFICES ASSUME NEW j \in 0 .. m - 1, j \in T PROVE j + 1 \in T
    BY Zenon
  <2>1. /\ m - (j + 1) \in 0 .. Len(w) - 1 /\ m - (j + 1) \in 0 .. Len(w) /\ (m - (j + 1)) + 1 = m - j
        /\ m - j \in 0 .. Len(w) /\ m \in 0 .. Len(w) /\ j + 1 \in 0 .. m
    BY <1>1
  <2>2. EndAt(w, m - j) <= EndAt(w, m) /\ EndAt(w, m - j) > EndAt(w, m - (j + 1))
    BY <1>2, <2>1, Zenon
  <2>3. EndAt(w, m - j) \in Nat /\ EndAt(w, m) \in Nat /\ EndAt(w, m - (j + 1)) \in Nat
    BY <1>1, <2>1, Zenon
  <2>4. \A x, y, z \in Nat : x <= y /\ x > z => z <= y
    OBVIOUS
  <2> QED
    BY <2>1, <2>2, <2>3, <2>4, Zenon
<1> HIDE DEF T
<1>5. \A j \in 0 .. m : j \in T
  <2>1. m \in Nat
    BY <1>1
  <2> QED
    BY <1>3, <1>4, <2>1, OneByOne, Zenon
<1>6. ASSUME NEW k \in 0 .. m PROVE EndAt(w, k) <= EndAt(w, m)
  <2>1. m - k \in 0 .. m /\ m - (m - k) = k
    BY <1>1
  <2> QED
    BY <1>5, <2>1, Zenon DEF T
<1> QED
  BY <1>6, Zenon

\* Two lists of items that begin alike end alike.
LEMMA EndsSame ==
  ASSUME NEW w, NEW v, NEW k \in Nat, Len(w) \in Nat, Len(v) \in Nat, k <= Len(w), k <= Len(v),
         \A j \in 1 .. k : w[j] = v[j]
  PROVE  Joined(Encoded(w), k) = Joined(Encoded(v), k) /\ EndAt(w, k) = EndAt(v, k)
<1>1. [j \in 1 .. k |-> Encoded(w)[j]] = [j \in 1 .. k |-> Encoded(v)[j]]
  <2>1. \A j \in 1 .. k : j \in 1 .. Len(w) /\ j \in 1 .. Len(v)
    OBVIOUS
  <2>2. \A j \in 1 .. k : Encoded(w)[j] = Encoded(v)[j]
    BY <2>1, Zenon DEF Encoded
  <2> QED
    BY <2>2, Zenon
<1> QED
  BY <1>1, Zenon DEF Joined, EndAt

\* The last end, and what one more item adds.
LEMMA EncodedAppend ==
  ASSUME NEW I, \A i \in I : Bytewise(i), NEW w \in Seq(I), NEW i \in I
  PROVE  Concat(Encoded(Append(w, i))) = Concat(Encoded(w)) \o Encode(i)
<1>1. Append(w, i) \in Seq(I) /\ Len(Append(w, i)) = Len(w) + 1 /\ Len(w) \in Nat
      /\ Append(w, i)[Len(w) + 1] = i /\ \A j \in 1 .. Len(w) : Append(w, i)[j] = w[j]
  OBVIOUS
<1>2. Encoded(w) \in Seq(Seq(Byte)) /\ Len(Encoded(w)) = Len(w) /\ Encode(i) \in Seq(Byte)
  BY EncodedType, Zenon DEF Bytewise
<1>3. Encoded(Append(w, i)) \in Seq(Seq(Byte)) /\ Len(Encoded(Append(w, i))) = Len(w) + 1
      /\ \A k \in 1 .. Len(w) + 1 : Encoded(Append(w, i))[k] = Encode(Append(w, i)[k])
  BY <1>1, EncodedType, Zenon
<1>4. \A k \in 1 .. Len(w) : Encoded(w)[k] = Encode(w[k])
  BY EncodedType, Zenon
<1> DEFINE c == Encoded(Append(w, i))
           d == Append(Encoded(w), Encode(i))
<1>5. d \in Seq(Seq(Byte)) /\ Len(d) = Len(w) + 1 /\ d[Len(w) + 1] = Encode(i)
      /\ \A k \in 1 .. Len(w) : d[k] = Encoded(w)[k]
  BY <1>1, <1>2
<1> HIDE DEF c, d
<1>6. ASSUME NEW k \in 1 .. Len(w) + 1 PROVE c[k] = d[k]
  <2>1. CASE k = Len(w) + 1
    BY <1>1, <1>3, <1>5, <2>1, Zenon DEF c
  <2>2. CASE k # Len(w) + 1
    <3>1. k \in 1 .. Len(w)
      BY <1>1, <2>2
    <3> QED
      BY <1>1, <1>3, <1>4, <1>5, <3>1, Zenon DEF c
  <2> QED
    BY <2>1, <2>2, Zenon
<1>7. c = d
  <2>1. c \in Seq(Seq(Byte)) /\ d \in Seq(Seq(Byte)) /\ Len(c) = Len(d) /\ \A k \in 1 .. Len(c) : c[k] = d[k]
    BY <1>3, <1>5, <1>6, Zenon DEF c
  <2> QED
    BY <2>1, SameSequence, Zenon
<1> QED
  BY <1>2, <1>7, ConcatAppend, Zenon DEF c, d

-----------------------------------------------------------------------------
(***************************************************************************)
(* The invariant of a stream of commands.                                  *)
(***************************************************************************)
LimOf(k) == IF k = "log" THEN LoadLim ELSE Lim
ItemsOf(k) ==
  IF k = "log" THEN {[form |-> "multibulk", val |-> c] : c \in {c \in Commands : Within(c, Lim)}}
  ELSE Sent

\* ReadCommand inverts what is written to the stream it reads.
Codec ==
  \A k \in {"request", "log"} : \A i \in ItemsOf(k) : Bytewise(i) /\ Inverts(i, LimOf(k))

\* Item i of w is one the reader accepts.
Accepted(k, w, i) == Fits(w[i], LimOf(k))

Ranges ==
  /\ stream \in Seq(Byte) /\ arrived \in 0 .. Len(stream) /\ pos \in 1 .. arrived + 1
  /\ ended \in BOOLEAN /\ torn \in BOOLEAN /\ cuts \in 0 .. MaxCuts
  /\ reader \in {"reading", "ended", "failed"}
  /\ ended => arrived = Len(stream)

\* The bytes are those of the items, cut short or not; what has been read are the first
\* items, and the reader stands where they end.
Whole(w) == Concat(Encoded(w))
Vals(w, m) == [i \in 1 .. m |-> w[i].val]

Bytes ==
  /\ wrote \in Seq(ItemsOf(kind))
  /\ Begins(stream, Whole(wrote))
  /\ ~ended => stream = Whole(wrote)
Aligned ==
  /\ Len(read) \in 0 .. Len(wrote) /\ read = Vals(wrote, Len(read))
  /\ pos = EndAt(wrote, Len(read)) + 1
  /\ \A i \in 1 .. Len(read) : Accepted(kind, wrote, i)

\* The reader cannot go on: the next item is refused, or the stream ends before its end.
NextRefused == Len(read) < Len(wrote) /\ ~Accepted(kind, wrote, Len(read) + 1)
NextCut == Len(read) < Len(wrote) => EndAt(wrote, Len(read) + 1) > Len(stream)

Halted ==
  /\ reader # "reading" => NextRefused \/ (ended /\ NextCut)
  /\ reader = "failed" => /\ Len(read) < Len(wrote)
                          /\ NextRefused \/ (ended /\ NextCut /\ pos <= Len(stream))

Faithful == ~torn => Bytes /\ Aligned /\ Halted
WireInv == kind \in {"request", "log"} => Ranges /\ Faithful

\* What can be written is what the invariant says is written.
LEMMA ItemsAre == kind \in {"request", "log"} => Items = ItemsOf(kind)
<1>1. CASE kind = "request"
  BY <1>1, Zenon DEF Items, ItemsOf, Sent
<1>2. CASE kind = "log"
  BY <1>2, Zenon DEF Items, ItemsOf
<1> QED
  BY <1>1, <1>2, Zenon

\* Both readers have limits as the code has them.
LEMMA LimitsAre == \A k : IsLimits(LimOf(k))
  BY WireAssumption, Zenon DEF LimOf

\* After a command that was read the position is still one of the stream.
LEMMA CommandType ==
  ASSUME NEW t \in Seq(Byte), NEW p \in 1 .. Len(t) + 1, NEW lim, IsLimits(lim),
         ReadCommand(t, p, lim).st = "ok"
  PROVE  ReadCommand(t, p, lim).next \in 1 .. Len(t) + 1
<1> DEFINE r == ReadCommand(t, p, lim)
<1>1. lim.header \in Nat /\ lim.inline \in Nat /\ lim.args \in Nat
  BY Zenon DEF IsLimits
<1>2. ~(p > Len(t))
  <2>1. p > Len(t) => r = Stop("eof")
    BY Zenon DEF ReadCommand
  <2>2. Stop("eof").st # "ok"
    BY Zenon DEF Stop
  <2> QED
    BY <2>1, <2>2, Zenon
<1>3. CASE t[p] = Star
  <2> DEFINE line == ReadLine(t, p, lim.header)
  <2>1. r = ReadMultibulk(t, p, lim)
    BY <1>2, <1>3, Zenon DEF ReadCommand
  <2>2. line \in Answers(Seq(Byte), Len(t))
    BY <1>1, LineType, Zenon
  <2>3. line.st = "ok"
    BY <2>1, Zenon DEF ReadMultibulk, Then
  <2>4. PICK l \in Seq(Byte), q \in 1 .. Len(t) + 1 : line = Ok(l, q)
    <3>1. Gives(line, Seq(Byte), Len(t))
      BY <2>2, <2>3, GotOk, Zenon
    <3> QED
      BY <3>1, Zenon DEF Gives
  <2>5. line.val = l /\ line.next = q
    BY <2>4 DEF Ok
  <2> DEFINE c == Header(l, q, 1 .. lim.args)
  <2>6. r = Then(c, LAMBDA m, a : ReadEach(LAMBDA b : ReadArg(t, b, lim), a, m))
    BY <2>1, <2>3, <2>5, Zenon DEF ReadMultibulk, Then
  <2>7. c.st = "ok"
    BY <2>6, Zenon DEF Then
  <2>8. c \in {Stop("perr")} \cup {Ok(n, q) : n \in 1 .. lim.args}
    BY HeaderType, Zenon
  <2> HIDE DEF c
  <2>9. PICK n \in 1 .. lim.args : c = Ok(n, q)
    <3>1. c # Stop("perr")
      BY <2>7 DEF Stop
    <3> QED
      BY <2>8, <3>1, Zenon
  <2>10. c.val = n /\ c.next = q
    BY <2>9, Zenon DEF Ok
  <2>11. r = ReadArgs(t, lim, q, n)
    BY <2>6, <2>7, <2>10, Zenon DEF Then, ReadArgs
  <2>12. n \in Nat
    BY <1>1
  <2>13. r \in Lists(t)
    BY <2>11, <2>12, LoopType, Zenon
  <2>14. PICK v \in Seq(Seq(Byte)), e \in 1 .. Len(t) + 1 : r = Ok(v, e)
    <3>1. Gives(r, Seq(Seq(Byte)), Len(t))
      BY <2>13, GotOk, Zenon DEF Lists
    <3> QED
      BY <3>1, Zenon DEF Gives
  <2> HIDE DEF r
  <2>15. r.next = e
    BY <2>14, Zenon DEF Ok
  <2> QED
    BY <2>15, Zenon DEF r
<1>4. CASE t[p] # Star
  <2> DEFINE line == ReadLine(t, p, lim.inline)
  <2>1. r = ReadInline(t, p, lim)
    BY <1>2, <1>4, Zenon DEF ReadCommand
  <2>2. line \in Answers(Seq(Byte), Len(t))
    BY <1>1, LineType, Zenon
  <2>3. line.st = "ok"
    BY <2>1, Zenon DEF ReadInline, Then
  <2>4. PICK l \in Seq(Byte), q \in 1 .. Len(t) + 1 : line = Ok(l, q)
    <3>1. Gives(line, Seq(Byte), Len(t))
      BY <2>2, <2>3, GotOk, Zenon
    <3> QED
      BY <3>1, Zenon DEF Gives
  <2>5. line.val = l /\ line.next = q
    BY <2>4 DEF Ok
  <2>6. r = Stop("perr") \/ r = Ok(Fields(l), q)
    BY <2>1, <2>3, <2>5, Zenon DEF ReadInline, Then
  <2>7. r.st = "ok"
    BY Zenon
  <2> HIDE DEF r
  <2>8. r # Stop("perr")
    BY <2>7 DEF Stop
  <2>9. r = Ok(Fields(l), q)
    BY <2>6, <2>8, Zenon
  <2>10. r.next = q
    BY <2>9, Zenon DEF Ok
  <2> QED
    BY <2>10, Zenon DEF r
<1> QED
  BY <1>3, <1>4, Zenon

\* What the reader is given, and what it finds there.
Given == SubSeq(stream, 1, arrived)

\* What the reader can get: the bytes that have arrived.
LEMMA GivenIs ==
  ASSUME Ranges
  PROVE  /\ Given \in Seq(Byte) /\ Len(Given) = arrived /\ arrived \in Nat /\ Len(stream) \in Nat
         /\ \A i \in 1 .. arrived : Given[i] = stream[i]
         /\ pos \in 1 .. Len(Given) + 1
<1>1. /\ stream \in Seq(Byte) /\ arrived \in 0 .. Len(stream) /\ Len(stream) \in Nat
      /\ pos \in 1 .. arrived + 1
  BY DEF Ranges
<1>2. Given \in Seq(Byte) /\ Len(Given) = arrived /\ \A i \in 1 .. arrived : Given[i] = stream[i]
  BY <1>1 DEF Given
<1> QED
  BY <1>1, <1>2

\* handle and Load read with ReadCommand, each under its limits.
LEMMA GotIs ==
  ASSUME kind \in {"request", "log"}
  PROVE  Got = ReadCommand(Given, pos, LimOf(kind))
<1>1. CASE kind = "request"
  BY <1>1, Zenon DEF Got, Decode, Given, LimOf
<1>2. CASE kind = "log"
  BY <1>2, Zenon DEF Got, Decode, Given, LimOf
<1> QED
  BY <1>1, <1>2, Zenon

\* The items of the stream, as the lemmas about lists of items need them.
LEMMA ItemFacts ==
  ASSUME Codec, kind \in {"request", "log"}
  PROVE  \A i \in ItemsOf(kind) : Bytewise(i) /\ Inverts(i, LimOf(kind))
  BY Zenon DEF Codec

\* The next item is what the reader finds, if there is one, and else the end.
LEMMA GotNext ==
  ASSUME Codec, kind \in {"request", "log"}, Ranges, Bytes, Aligned
  PROVE  /\ Len(read) < Len(wrote) =>
              Reads(Got, wrote[Len(read) + 1].val, EndAt(wrote, Len(read) + 1) + 1, arrived,
                    Accepted(kind, wrote, Len(read) + 1))
         /\ ~(Len(read) < Len(wrote)) => Got = Stop("eof")
<1> DEFINE I == ItemsOf(kind)
           m == Len(read)
           t == Given
           e == Encoded(wrote)
<1>1. /\ t \in Seq(Byte) /\ Len(t) = arrived /\ arrived \in Nat /\ Len(stream) \in Nat
      /\ \A i \in 1 .. arrived : t[i] = stream[i]
      /\ pos \in 1 .. Len(t) + 1
  BY GivenIs, Zenon
<1>2. Got = ReadCommand(t, pos, LimOf(kind))
  BY GotIs, Zenon
<1>3. \A i \in I : Bytewise(i) /\ Inverts(i, LimOf(kind))
  BY ItemFacts, Zenon
<1>4. wrote \in Seq(I)
  BY Zenon DEF Bytes
<1>5. m \in 0 .. Len(wrote) /\ pos = EndAt(wrote, m) + 1
  BY Zenon DEF Aligned
<1>6. /\ e \in Seq(Seq(Byte)) /\ Len(e) = Len(wrote) /\ Len(wrote) \in Nat
      /\ \A k \in 1 .. Len(wrote) : e[k] = Encode(wrote[k]) /\ wrote[k] \in I
      /\ \A k \in 0 .. Len(wrote) : Joined(e, k) \in Seq(Byte) /\ EndAt(wrote, k) \in Nat
  BY <1>3, <1>4, EncodedType, Zenon
<1> HIDE DEF I, m, t, e
<1>7. Carries(t, 1, Concat(e))
  <2>1. Len(stream) <= Len(Concat(e)) /\ \A i \in DOMAIN stream : stream[i] = Concat(e)[i]
    BY Zenon DEF Bytes, Begins, Whole, e
  <2>2. stream \in Seq(Byte) /\ arrived \in 0 .. Len(stream)
    BY Zenon DEF Ranges
  <2>3. DOMAIN stream = 1 .. Len(stream)
    BY <2>2
  <2>4. ASSUME NEW i \in 1 .. Len(Concat(e)), 1 + i - 1 <= Len(t) PROVE t[1 + i - 1] = Concat(e)[i]
    <3>1. 1 + i - 1 = i /\ i \in 1 .. arrived /\ i \in DOMAIN stream
      BY <1>1, <2>2, <2>3, <2>4
    <3> QED
      BY <1>1, <2>1, <3>1, Zenon
  <2> QED
    BY <2>4, Zenon DEF Carries
<1>8. ASSUME m < Len(wrote)
      PROVE  Reads(Got, wrote[m + 1].val, EndAt(wrote, m + 1) + 1, arrived, Accepted(kind, wrote, m + 1))
  <2>1. m + 1 \in 1 .. Len(wrote) /\ m \in 0 .. Len(wrote) - 1 /\ 1 \in Nat \ {0}
    BY <1>5, <1>6, <1>8
  <2>2. \A k \in 0 .. Len(e) :
          Carries(t, 1, Joined(e, k))
          /\ (k < Len(e) => Carries(t, 1 + Len(Joined(e, k)), e[k + 1]))
    BY <1>1, <1>6, <1>7, <2>1, CarriesEach, Zenon
  <2>3. Carries(t, 1 + EndAt(wrote, m), Encode(wrote[m + 1]))
    BY <1>5, <1>6, <1>8, <2>1, <2>2, Zenon DEF EndAt, e
  <2>4. 1 + EndAt(wrote, m) = pos
    BY <1>5, <1>6
  <2>5. Inverts(wrote[m + 1], LimOf(kind))
    BY <1>3, <1>6, <2>1, Zenon
  <2>6. Reads(Got, wrote[m + 1].val, pos + Len(Encode(wrote[m + 1])), Len(t), Fits(wrote[m + 1], LimOf(kind)))
    BY <1>1, <1>2, <2>3, <2>4, <2>5, Zenon DEF Inverts
  <2>7. EndAt(wrote, m + 1) = EndAt(wrote, m) + Len(Encode(wrote[m + 1]))
    BY <1>3, <1>4, <2>1, EndsGrow, Zenon
  <2>8. pos + Len(Encode(wrote[m + 1])) = EndAt(wrote, m + 1) + 1
    <3>1. EndAt(wrote, m) \in Nat /\ Encode(wrote[m + 1]) \in Seq(Byte)
      BY <1>3, <1>5, <1>6, <2>1, Zenon DEF Bytewise
    <3>2. \A s \in Seq(Byte) : Len(s) \in Nat
      OBVIOUS
    <3>3. Len(Encode(wrote[m + 1])) \in Nat
      BY <3>1, <3>2, Zenon
    <3>4. \A x, y \in Nat : (x + 1) + y = (x + y) + 1
      OBVIOUS
    <3> QED
      BY <1>5, <2>7, <3>1, <3>3, <3>4, Zenon
  <2> QED
    BY <1>1, <2>6, <2>8, Zenon DEF Accepted
<1>9. ASSUME ~(m < Len(wrote)) PROVE Got = Stop("eof")
  <2>1. m = Len(wrote)
    BY <1>5, <1>6, <1>9
  <2>2. Joined(e, m) = Concat(e)
    <3>1. m \in 0 .. Len(e)
      BY <1>5, <1>6, Zenon
    <3> QED
      BY <1>6, <2>1, <3>1, JoinedStep, Zenon
  <2>3. pos = Len(Concat(e)) + 1
    BY <1>5, <2>2, Zenon DEF EndAt, e
  <2>4. Len(stream) <= Len(Concat(e))
    BY Zenon DEF Bytes, Begins, Whole, e
  <2>5. pos > Len(t)
    <3>1. arrived <= Len(stream)
      BY <1>1 DEF Ranges
    <3>2. Len(Concat(e)) \in Nat
      <4>1. Concat(e) \in Seq(Byte)
        BY <1>5, <1>6, <2>2, Zenon
      <4> QED
        BY <4>1
    <3>3. \A x, y, z \in Nat : x <= y /\ y <= z => z + 1 > x
      OBVIOUS
    <3> QED
      BY <1>1, <2>3, <2>4, <3>1, <3>2, <3>3, Zenon
  <2> QED
    BY <1>2, <2>5, Zenon DEF ReadCommand
<1> QED
  BY <1>8, <1>9, Zenon DEF m

\* What the three kinds of answer say about the next item.
Tells(r, v, q, n, fits) ==
  /\ r.st = "ok" => fits /\ q <= n + 1 /\ r.val = v /\ r.next = q
  /\ r.st = "perr" => ~fits
  /\ r.st # "ok" => ~fits \/ q > n + 1

\* The three ways a read of the next item can go.
LEMMA Outcomes ==
  ASSUME NEW r, NEW v, NEW q \in Nat, NEW n \in Nat, NEW fits \in BOOLEAN, Reads(r, v, q, n, fits)
  PROVE  Tells(r, v, q, n, fits)
<1> USE DEF Tells
<1>1. q <= n + 1 \/ q > n + 1
  OBVIOUS
<1>2. Stop("eof").st = "eof" /\ Stop("short").st = "short" /\ Stop("perr").st = "perr"
  BY StopIs, Zenon
<1>3. Ok(v, q).st = "ok" /\ Ok(v, q).val = v /\ Ok(v, q).next = q
  BY StopIs, Zenon
<1>4. CASE ~fits
  <2>1. r \in {Stop("eof"), Stop("short"), Stop("perr")}
    BY <1>4, Zenon DEF Reads
  <2>2. r.st # "ok"
    BY <2>1 DEF Stop
  <2> QED
    BY <1>4, <2>2, Zenon
<1>5. CASE fits /\ q <= n + 1
  <2>1. r = Ok(v, q)
    BY <1>5, Zenon DEF Reads
  <2>2. r.st = "ok" /\ r.val = v /\ r.next = q
    BY <2>1, Zenon DEF Ok
  <2>3. r.st # "perr"
    BY <2>2, Zenon
  <2> QED
    BY <1>5, <2>2, <2>3, Zenon
<1>6. CASE fits /\ q > n + 1
  <2>1. r \in {Stop("eof"), Stop("short")}
    BY <1>6, Zenon DEF Reads
  <2>2. r.st # "ok" /\ r.st # "perr"
    BY <2>1 DEF Stop
  <2> QED
    BY <1>6, <2>2, Zenon
<1> QED
  BY <1>1, <1>4, <1>5, <1>6, Zenon

\* An empty stream satisfies the invariant.
LEMMA WireInit == Init => WireInv
<1> SUFFICES ASSUME Init, kind \in {"request", "log"} PROVE Ranges /\ Faithful
  BY Zenon DEF WireInv
<1>1. /\ wrote = <<>> /\ stream = <<>> /\ arrived = 0 /\ ended = FALSE /\ pos = 1 /\ read = <<>>
      /\ reader = "reading" /\ cuts = 0 /\ torn = FALSE
  BY Zenon DEF Init
<1>2. Ranges
  <2>1. /\ <<>> \in Seq(Byte) /\ 0 \in 0 .. Len(<<>>) /\ 1 \in 1 .. 0 + 1 /\ 0 \in 0 .. MaxCuts
        /\ 0 = Len(<<>>)
    BY WireAssumption
  <2> QED
    BY <1>1, <2>1, Zenon DEF Ranges
<1>3. Whole(<<>>) = <<>>
  <2>1. Encoded(<<>>) = <<>>
    BY DEF Encoded
  <2> QED
    BY <2>1, ConcatEmpty, Zenon DEF Whole
<1>4. Bytes
  <2>1. <<>> \in Seq(ItemsOf(kind)) /\ Begins(<<>>, <<>>)
    BY DEF Begins
  <2> QED
    BY <1>1, <1>3, <2>1, Zenon DEF Bytes
<1>5. Aligned
  <2>1. Len(<<>>) = 0 /\ 0 \in 0 .. 0 /\ 1 = 0 + 1
    OBVIOUS
  <2>2. Vals(<<>>, 0) = <<>>
    BY DEF Vals
  <2>3. EndAt(<<>>, 0) = 0
    <3>1. [j \in 1 .. 0 |-> Encoded(<<>>)[j]] = <<>>
      OBVIOUS
    <3>2. Joined(Encoded(<<>>), 0) = <<>>
      BY <3>1, ConcatEmpty, Zenon DEF Joined
    <3> QED
      BY <2>1, <3>2, Zenon DEF EndAt
  <2>4. \A i \in 1 .. 0 : Accepted(kind, <<>>, i)
    OBVIOUS
  <2> QED
    BY <1>1, <2>1, <2>2, <2>3, <2>4, Zenon DEF Aligned
<1>6. Halted
  BY <1>1, Zenon DEF Halted
<1> QED
  BY <1>2, <1>4, <1>5, <1>6, Zenon DEF Faithful

\* Append and Do write one more item at the end.
LEMMA WriteKeeps ==
  ASSUME Codec, kind \in {"request", "log"}, Ranges, Faithful, Write
  PROVE  Ranges' /\ Faithful'
<1> DEFINE I == ItemsOf(kind)
<1>1. PICK i \in I : wrote' = Append(wrote, i) /\ stream' = stream \o Encode(i)
  BY ItemsAre, Zenon DEF Write
<1>2. /\ ~ended /\ reader = "reading" /\ UNCHANGED <<kind, arrived, ended, pos, read, reader, cuts, torn>>
  BY Zenon DEF Write
<1>3. \A j \in I : Bytewise(j)
  BY ItemFacts, Zenon
<1>4. /\ stream \in Seq(Byte) /\ Encode(i) \in Seq(Byte) /\ arrived \in 0 .. Len(stream)
      /\ Len(stream) \in Nat
  <2>1. Encode(i) \in Seq(Byte)
    BY <1>3, Zenon DEF Bytewise
  <2> QED
    BY <2>1 DEF Ranges
<1>5. Ranges'
  <2>1. stream' \in Seq(Byte) /\ Len(stream') = Len(stream) + Len(Encode(i)) /\ Len(Encode(i)) \in Nat
    BY <1>1, <1>4
  <2>2. arrived' \in 0 .. Len(stream')
    BY <1>2, <1>4, <2>1
  <2> QED
    BY <1>2, <2>1, <2>2, Zenon DEF Ranges
<1>6. ASSUME ~torn' PROVE (Bytes /\ Aligned /\ Halted)'
  <2>1. Bytes /\ Aligned
    BY <1>2, <1>6, Zenon DEF Faithful
  <2>2. wrote \in Seq(I) /\ stream = Whole(wrote)
    BY <1>2, <2>1, Zenon DEF Bytes
  <2>3. /\ Len(wrote) \in Nat /\ wrote' \in Seq(I) /\ Len(wrote') = Len(wrote) + 1
        /\ \A j \in 1 .. Len(wrote) : wrote'[j] = wrote[j]
    <3> HIDE DEF I
    <3> QED
      BY <1>1, <2>2
  <2>4. stream' = Whole(wrote')
    <3> HIDE DEF I
    <3> QED
      BY <1>1, <1>3, <2>2, EncodedAppend, Zenon DEF Whole
  <2>5. Bytes'
    <3>1. Begins(stream', stream')
      <4>1. stream' \in Seq(Byte)
        BY <1>1, <1>4
      <4> QED
        BY <4>1 DEF Begins
    <3> QED
      BY <1>2, <2>3, <2>4, <3>1, Zenon DEF Bytes
  <2>6. Aligned'
    <3> DEFINE m == Len(read)
    <3>1. m \in 0 .. Len(wrote) /\ read = Vals(wrote, m) /\ pos = EndAt(wrote, m) + 1
          /\ \A j \in 1 .. m : Accepted(kind, wrote, j)
      BY <2>1, Zenon DEF Aligned
    <3> HIDE DEF m
    <3>2. /\ m \in 0 .. Len(wrote') /\ m \in Nat /\ m <= Len(wrote) /\ m <= Len(wrote') /\ Len(wrote') \in Nat
          /\ \A j \in 1 .. m : j \in 1 .. Len(wrote)
      BY <2>3, <3>1
    <3>3. \A j \in 1 .. m : wrote'[j] = wrote[j]
      BY <2>3, <3>2, Zenon
    <3>4. EndAt(wrote', m) = EndAt(wrote, m)
      BY <2>3, <3>2, <3>3, EndsSame, Zenon
    <3>5. Vals(wrote', m) = Vals(wrote, m)
      BY <3>3, Zenon DEF Vals
    <3>6. \A j \in 1 .. m : Accepted(kind, wrote', j)
      BY <3>1, <3>3, Zenon DEF Accepted
    <3>7. read' = read /\ pos' = pos /\ kind' = kind
      BY <1>2, Zenon
    <3> QED
      BY <3>1, <3>2, <3>4, <3>5, <3>6, <3>7, Zenon DEF Aligned, m
  <2>7. Halted'
    BY <1>2, Zenon DEF Halted
  <2> QED
    BY <2>5, <2>6, <2>7, Zenon
<1> QED
  BY <1>5, <1>6, Zenon DEF Faithful

\* A fragment arrives.
LEMMA ArriveKeeps ==
  ASSUME Ranges, Faithful, Arrive
  PROVE  Ranges' /\ Faithful'
<1>1. UNCHANGED <<kind, wrote, stream, ended, pos, read, reader, cuts, torn>>
  BY Zenon DEF Arrive
<1>2. arrived' \in arrived + 1 .. Len(stream)
  BY Zenon DEF Arrive
<1>3. Ranges'
  <2>1. /\ arrived \in 0 .. Len(stream) /\ Len(stream) \in Nat /\ pos \in 1 .. arrived + 1
    BY DEF Ranges
  <2>0. \A n \in Nat : \A a \in 0 .. n : \A b \in a + 1 .. n : \A p \in 1 .. a + 1 :
          b \in 0 .. n /\ p \in 1 .. b + 1 /\ a # n
    OBVIOUS
  <2>2. /\ arrived' \in 0 .. Len(stream) /\ pos \in 1 .. arrived' + 1 /\ arrived # Len(stream)
    BY <1>2, <2>0, <2>1, Zenon
  <2> QED
    BY <1>1, <2>2, Zenon DEF Ranges
<1>4. (Bytes /\ Aligned /\ Halted) => (Bytes /\ Aligned /\ Halted)'
  <2>1. Bytes => Bytes'
    BY <1>1, Zenon DEF Bytes
  <2>2. Aligned => Aligned'
    BY <1>1, Zenon DEF Aligned
  <2>3. Halted => Halted'
    BY <1>1, Zenon DEF Halted, NextRefused, NextCut
  <2> QED
    BY <2>1, <2>2, <2>3, Zenon
<1> QED
  BY <1>1, <1>3, <1>4, Zenon DEF Faithful

\* The end of the stream, at any byte that has not arrived.
LEMMA CutKeeps ==
  ASSUME Ranges, Faithful, Cut
  PROVE  Ranges' /\ Faithful'
<1>1. ~ended /\ ended' = TRUE /\ UNCHANGED <<kind, wrote, pos, read, reader, torn>>
  BY Zenon DEF Cut
<1>2. PICK n \in arrived .. Len(stream) : stream' = SubSeq(stream, 1, n) /\ arrived' = n
  BY Zenon DEF Cut
<1>3. cuts < MaxCuts /\ cuts' = cuts + 1
  BY Zenon DEF Cut
<1>4. stream \in Seq(Byte) /\ arrived \in 0 .. Len(stream) /\ Len(stream) \in Nat /\ pos \in 1 .. arrived + 1
      /\ cuts \in 0 .. MaxCuts
  BY DEF Ranges
<1>5. stream' \in Seq(Byte) /\ Len(stream') = n /\ n \in Nat /\ \A i \in 1 .. n : stream'[i] = stream[i]
  BY <1>2, <1>4
<1>6. Ranges'
  <2>1. arrived' \in 0 .. Len(stream') /\ pos' \in 1 .. arrived' + 1
    BY <1>1, <1>2, <1>4, <1>5
  <2>2. cuts' \in 0 .. MaxCuts
    BY <1>3, <1>4, WireAssumption
  <2> QED
    BY <1>1, <1>2, <1>5, <2>1, <2>2, Zenon DEF Ranges
<1>7. ASSUME Bytes, Aligned, Halted PROVE (Bytes /\ Aligned /\ Halted)'
  <2>1. Bytes'
    <3>1. wrote \in Seq(ItemsOf(kind)) /\ stream = Whole(wrote)
      BY <1>1, <1>7, Zenon DEF Bytes
    <3>2. Begins(stream', stream)
      BY <1>2, <1>4, <1>5 DEF Begins
    <3> QED
      BY <1>1, <3>1, <3>2, Zenon DEF Bytes
  <2>2. Aligned'
    BY <1>1, <1>7, Zenon DEF Aligned
  <2>3. Halted'
    <3>1. reader # "reading" => NextRefused
      BY <1>1, <1>7, Zenon DEF Halted
    <3>2. NextRefused => NextRefused'
      BY <1>1, Zenon DEF NextRefused
    <3>3. reader = "failed" => Len(read) < Len(wrote) /\ NextRefused
      BY <1>1, <1>7, Zenon DEF Halted
    <3> QED
      BY <1>1, <3>1, <3>2, <3>3, Zenon DEF Halted
  <2> QED
    BY <2>1, <2>2, <2>3, Zenon
<1> QED
  BY <1>1, <1>6, <1>7, Zenon DEF Faithful

\* One more value is read.
LEMMA ValsAppend ==
  ASSUME NEW w, NEW m \in Nat
  PROVE  /\ Append(Vals(w, m), w[m + 1].val) = Vals(w, m + 1)
         /\ Len(Vals(w, m)) = m
<1> DEFINE S == {w[i].val : i \in 1 .. m + 1}
           c == Vals(w, m)
           d == Vals(w, m + 1)
<1>1. m + 1 \in 1 .. m + 1 /\ m + 1 \in Nat /\ \A i \in 1 .. m : i \in 1 .. m + 1
  OBVIOUS
<1>2. \A i \in 1 .. m + 1 : w[i].val \in S
  BY Zenon
<1>3. c \in [1 .. m -> S] /\ \A i \in 1 .. m : c[i] = w[i].val
  BY <1>1, <1>2, Zenon DEF Vals
<1>4. d \in [1 .. m + 1 -> S] /\ \A i \in 1 .. m + 1 : d[i] = w[i].val
  BY <1>1, <1>2, Zenon DEF Vals
<1>5. w[m + 1].val \in S
  BY <1>1, <1>2, Zenon
<1> DEFINE v == w[m + 1].val
<1>6. v = d[m + 1]
  BY <1>1, <1>4, Zenon
<1>7. \A i \in 1 .. m : c[i] = d[i]
  BY <1>1, <1>3, <1>4, Zenon
<1>8. v \in S
  BY <1>5, Zenon
<1> HIDE DEF S, c, d, v
<1>9. c \in Seq(S) /\ Len(c) = m /\ d \in Seq(S) /\ Len(d) = m + 1
  BY <1>3, <1>4
<1>10. Append(c, v) \in Seq(S) /\ Len(Append(c, v)) = m + 1 /\ Append(c, v)[m + 1] = v
       /\ \A i \in 1 .. m : Append(c, v)[i] = c[i]
  BY <1>8, <1>9
<1>11. \A i \in 1 .. m + 1 : i \in 1 .. m \/ i = m + 1
  OBVIOUS
<1>12. \A i \in 1 .. m + 1 : Append(c, v)[i] = d[i]
  BY <1>6, <1>7, <1>10, <1>11, Zenon
<1>13. Append(c, v) = d
  BY <1>9, <1>10, <1>12, SameSequence, Zenon
<1> QED
  BY <1>9, <1>13, Zenon DEF c, d, v

\* What the reader finds, in the terms of the invariant.
LEMMA GotCases ==
  ASSUME Codec, kind \in {"request", "log"}, Ranges, Bytes, Aligned
  PROVE  /\ Got.st = "ok" =>
              /\ Len(read) < Len(wrote) /\ Accepted(kind, wrote, Len(read) + 1)
              /\ EndAt(wrote, Len(read) + 1) <= arrived
              /\ Got.val = wrote[Len(read) + 1].val
              /\ Got.next = EndAt(wrote, Len(read) + 1) + 1
         /\ Got.st = "perr" => NextRefused
         /\ Got.st = "short" => Len(read) < Len(wrote) /\ pos <= arrived
         /\ Got.st # "ok" =>
              NextRefused \/ (Len(read) < Len(wrote) => EndAt(wrote, Len(read) + 1) > arrived)
<1> DEFINE m == Len(read)
           fits == Accepted(kind, wrote, m + 1)
           q == EndAt(wrote, m + 1) + 1
<1>1. wrote \in Seq(ItemsOf(kind)) /\ m \in 0 .. Len(wrote)
  BY Zenon DEF Bytes, Aligned
<1>2. Len(wrote) \in Nat /\ m \in Nat /\ (m < Len(wrote) => m + 1 \in 0 .. Len(wrote))
  <2> HIDE DEF m
  <2> QED
    BY <1>1
<1>3. \A j \in ItemsOf(kind) : Bytewise(j)
  BY ItemFacts, Zenon
<1>4. m < Len(wrote) => EndAt(wrote, m + 1) \in Nat
  BY <1>1, <1>2, <1>3, EncodedType, Zenon
<1>5. arrived \in Nat /\ Len(Given) = arrived /\ pos \in Nat
  <2>1. arrived \in Nat /\ Len(Given) = arrived /\ pos \in 1 .. Len(Given) + 1
    BY GivenIs, Zenon
  <2> QED
    BY <2>1
<1>6. fits \in BOOLEAN
  BY Zenon DEF Accepted, Fits, Within
<1>7. m < Len(wrote) => Reads(Got, wrote[m + 1].val, q, arrived, fits)
  BY GotNext, Zenon
<1>8. ~(m < Len(wrote)) => Got = Stop("eof")
  BY GotNext, Zenon
<1>9. Got.st = "short" => pos <= arrived
  <2>1. pos > arrived => Got = Stop("eof")
    BY <1>5, GotIs, Zenon DEF ReadCommand
  <2>2. Stop("eof").st = "eof"
    BY StopIs, Zenon
  <2>3. "eof" # "short"
    OBVIOUS
  <2>4. pos > arrived \/ pos <= arrived
    BY <1>5
  <2> QED
    BY <2>1, <2>2, <2>3, <2>4, Zenon
<1>10. CASE m < Len(wrote)
  <2>1. q \in Nat
    BY <1>4, <1>10
  <2>2. Reads(Got, wrote[m + 1].val, q, arrived, fits)
    BY <1>7, <1>10, Zenon
  <2> HIDE DEF q, fits
  <2>3. /\ Got.st = "ok" => fits /\ q <= arrived + 1 /\ Got.val = wrote[m + 1].val /\ Got.next = q
        /\ Got.st = "perr" => ~fits
        /\ Got.st # "ok" => ~fits \/ q > arrived + 1
    <3> HIDE DEF m
    <3>1. arrived \in Nat
      BY <1>5, Zenon
    <3>2. Tells(Got, wrote[m + 1].val, q, arrived, fits)
      BY <1>6, <2>1, <2>2, <3>1, Outcomes, Zenon
    <3> QED
      BY <3>2, Zenon DEF Tells
  <2>4. /\ q <= arrived + 1 => EndAt(wrote, m + 1) <= arrived
        /\ q > arrived + 1 => EndAt(wrote, m + 1) > arrived
    <3>1. \A x, y \in Nat : (x + 1 <= y + 1 => x <= y) /\ (x + 1 > y + 1 => x > y)
      OBVIOUS
    <3> QED
      BY <1>4, <1>5, <1>10, <3>1, Zenon DEF q
  <2> QED
    BY <1>9, <1>10, <2>3, <2>4, Zenon DEF NextRefused, q, fits
<1>11. CASE ~(m < Len(wrote))
  <2>1. Got.st = "eof"
    BY <1>8, <1>11, StopIs, Zenon
  <2>2. "eof" # "short" /\ "eof" # "ok" /\ "eof" # "perr"
    OBVIOUS
  <2> QED
    BY <1>11, <2>1, <2>2, Zenon
<1> QED
  BY <1>10, <1>11, Zenon

\* One turn of the loops of handle and Load.
LEMMA ReadKeeps ==
  ASSUME Codec, kind \in {"request", "log"}, Ranges, Faithful, Read
  PROVE  Ranges' /\ Faithful'
<1>1. reader = "reading" /\ UNCHANGED <<kind, wrote, stream, arrived, ended, cuts, torn>>
  BY Zenon DEF Read
<1>2. CASE Got.st = "ok" /\ read' = Append(read, Got.val) /\ pos' = Got.next /\ UNCHANGED reader
  <2>1. Ranges'
    <3>1. Got.next \in 1 .. arrived + 1
      <4>1. Given \in Seq(Byte) /\ Len(Given) = arrived /\ pos \in 1 .. Len(Given) + 1
        BY GivenIs, Zenon
      <4>2. IsLimits(LimOf(kind))
        BY LimitsAre, Zenon
      <4>3. ReadCommand(Given, pos, LimOf(kind)).st = "ok"
        BY <1>2, GotIs, Zenon
      <4>4. ReadCommand(Given, pos, LimOf(kind)).next \in 1 .. Len(Given) + 1
        BY <4>1, <4>2, <4>3, CommandType, Zenon
      <4> QED
        BY <4>1, <4>4, GotIs, Zenon
    <3> QED
      BY <1>1, <1>2, <3>1, Zenon DEF Ranges
  <2>2. ASSUME Bytes, Aligned, Halted PROVE (Bytes /\ Aligned /\ Halted)'
    <3> DEFINE m == Len(read)
    <3>1. /\ m < Len(wrote) /\ Accepted(kind, wrote, m + 1)
          /\ Got.val = wrote[m + 1].val /\ Got.next = EndAt(wrote, m + 1) + 1
      BY <1>2, <2>2, GotCases, Zenon
    <3>2. m \in 0 .. Len(wrote) /\ read = Vals(wrote, m) /\ \A i \in 1 .. m : Accepted(kind, wrote, i)
      BY <2>2, Zenon DEF Aligned
    <3>3. wrote \in Seq(ItemsOf(kind))
      BY <2>2, Zenon DEF Bytes
    <3> HIDE DEF m
    <3>4. Len(wrote) \in Nat
      BY <3>3
    <3>5. m \in Nat /\ m + 1 \in 0 .. Len(wrote) /\ m + 1 \in Nat
          /\ \A i \in 1 .. m + 1 : i \in 1 .. m \/ i = m + 1
      BY <3>1, <3>2, <3>4
    <3>6. read' = Vals(wrote, m + 1)
      BY <1>2, <3>1, <3>2, <3>5, ValsAppend, Zenon
    <3>7. Len(read') = m + 1
      BY <3>5, <3>6, ValsAppend, Zenon
    <3>8. \A i \in 1 .. m + 1 : Accepted(kind, wrote, i)
      BY <3>1, <3>2, <3>5, Zenon
    <3>9. pos' = EndAt(wrote, m + 1) + 1
      BY <1>2, <3>1, Zenon
    <3>10. Aligned'
      BY <1>1, <3>5, <3>6, <3>7, <3>8, <3>9, Zenon DEF Aligned
    <3>11. Bytes'
      BY <1>1, <2>2, Zenon DEF Bytes
    <3>12. Halted'
      <4>1. reader' = "reading" /\ "reading" # "failed"
        BY <1>1, <1>2, Zenon
      <4> QED
        BY <4>1, Zenon DEF Halted
    <3> QED
      BY <3>10, <3>11, <3>12, Zenon
  <2> QED
    BY <1>1, <2>1, <2>2, Zenon DEF Faithful
<1>3. CASE /\ Got.st # "ok" /\ reader' \in {"ended", "failed"} /\ UNCHANGED <<read, pos>>
           /\ reader' = "failed" => Got.st = "perr" \/ (Got.st = "short" /\ ended)
           /\ reader' = "ended" => ended
  <2>1. Ranges'
    <3>1. reader' \in {"reading", "ended", "failed"}
      BY <1>3, Zenon
    <3> QED
      BY <1>1, <1>3, <3>1, Zenon DEF Ranges
  <2>2. ASSUME Bytes, Aligned PROVE (Bytes /\ Aligned /\ Halted)'
    <3>1. Bytes' /\ Aligned'
      <4>1. Bytes'
        BY <1>1, <2>2, Zenon DEF Bytes
      <4>2. Aligned'
        BY <1>1, <1>3, <2>2, Zenon DEF Aligned
      <4> QED
        BY <4>1, <4>2, Zenon
    <3>2. ended => arrived = Len(stream)
      BY Zenon DEF Ranges
    <3>3. NextRefused \/ (ended => NextCut)
      <4>1. NextRefused \/ (Len(read) < Len(wrote) => EndAt(wrote, Len(read) + 1) > arrived)
        BY <1>3, <2>2, GotCases, Zenon
      <4> QED
        BY <3>2, <4>1, Zenon DEF NextCut
    <3>4. Got.st = "perr" => NextRefused
      BY <2>2, GotCases, Zenon
    <3>5. Got.st = "short" => Len(read) < Len(wrote) /\ pos <= arrived
      BY <2>2, GotCases, Zenon
    <3>6. NextRefused => Len(read) < Len(wrote)
      BY Zenon DEF NextRefused
    <3>7. NextRefused \/ (ended /\ NextCut)
      BY <1>3, <3>3, <3>4, Zenon
    <3>8. reader' = "failed" =>
            Len(read) < Len(wrote) /\ (NextRefused \/ (ended /\ NextCut /\ pos <= Len(stream)))
      BY <1>3, <3>2, <3>3, <3>4, <3>5, <3>6, Zenon
    <3>9. (NextRefused => NextRefused') /\ (NextCut => NextCut')
      BY <1>1, <1>3, Zenon DEF NextRefused, NextCut
    <3>10. ended' = ended /\ pos' = pos /\ stream' = stream /\ read' = read /\ wrote' = wrote
      BY <1>1, <1>3, Zenon
    <3>11. Halted'
      BY <3>7, <3>8, <3>9, <3>10, Zenon DEF Halted
    <3> QED
      BY <3>1, <3>11, Zenon
  <2> QED
    BY <1>1, <2>1, <2>2, Zenon DEF Faithful
<1>4. "eof" # "ok" /\ "perr" # "ok" /\ "short" # "ok" /\ "ended" # "failed"
  OBVIOUS
<1>5. \/ Got.st = "ok" /\ read' = Append(read, Got.val) /\ pos' = Got.next /\ UNCHANGED reader
      \/ Got.st = "eof" /\ ended /\ reader' = "ended" /\ UNCHANGED <<read, pos>>
      \/ (Got.st = "perr" \/ (Got.st = "short" /\ ended)) /\ reader' = "failed" /\ UNCHANGED <<read, pos>>
  BY Zenon DEF Read
<1> QED
  BY <1>2, <1>3, <1>4, <1>5, Zenon

\* Load has read the whole file, and the server appends to it: the first items of wrote are
\* the items of the file again.
LEMMA FileIs ==
  ASSUME Codec, kind \in {"request", "log"}, Ranges, Bytes, Aligned, ~(pos <= Len(stream))
  PROVE  stream = Joined(Encoded(wrote), Len(read))
<1> DEFINE m == Len(read)
           e == Encoded(wrote)
           j == Joined(e, m)
<1>1. wrote \in Seq(ItemsOf(kind)) /\ m \in 0 .. Len(wrote) /\ pos = EndAt(wrote, m) + 1
      /\ Begins(stream, Whole(wrote))
  BY Zenon DEF Bytes, Aligned
<1>2. \A i \in ItemsOf(kind) : Bytewise(i)
  BY ItemFacts, Zenon
<1>3. e \in Seq(Seq(Byte)) /\ Len(e) = Len(wrote) /\ j \in Seq(Byte) /\ Len(j) = EndAt(wrote, m)
  BY <1>1, <1>2, EncodedType, Zenon DEF EndAt
<1>4. stream \in Seq(Byte) /\ arrived \in 0 .. Len(stream) /\ pos \in 1 .. arrived + 1
  BY Zenon DEF Ranges
<1>5. Whole(wrote) = Concat(e)
  BY Zenon DEF Whole
<1> HIDE DEF m, e, j
<1>6. Len(stream) \in Nat /\ Len(j) \in Nat
  BY <1>3, <1>4
<1>7. Len(j) = Len(stream)
  <2>1. pos = Len(j) + 1
    BY <1>1, <1>3, Zenon
  <2>2. \A l, k \in Nat : \A a \in 0 .. k : \A p \in 1 .. a + 1 : p = l + 1 /\ ~(p <= k) => l = k
    OBVIOUS
  <2> QED
    BY <1>4, <1>6, <2>1, <2>2, Zenon
<1>8. Carries(stream, 1, Concat(e))
  <2>1. \A i \in 1 .. Len(Concat(e)) : 1 + i - 1 = i
    OBVIOUS
  <2>2. Len(stream) <= Len(Concat(e)) /\ \A i \in DOMAIN stream : stream[i] = Concat(e)[i]
    BY <1>1, <1>5, Zenon DEF Begins
  <2>3. \A i \in 1 .. Len(Concat(e)) : i <= Len(stream) => i \in DOMAIN stream
    BY <1>4
  <2> QED
    BY <2>1, <2>2, <2>3, Zenon DEF Carries
<1>9. Carries(stream, 1, j)
  <2>1. 1 \in Nat \ {0} /\ m \in 0 .. Len(e)
    BY <1>1, <1>3
  <2> QED
    BY <1>3, <1>4, <1>8, <2>1, CarriesEach, Zenon DEF j
<1>10. \A i \in 1 .. Len(stream) : stream[i] = j[i]
  <2>1. \A n \in Nat : \A i \in 1 .. n : 1 + i - 1 = i /\ i <= n
    OBVIOUS
  <2> QED
    BY <1>6, <1>7, <1>9, <2>1, Zenon DEF Carries
<1>11. stream = j
  BY <1>3, <1>4, <1>7, <1>10, SameSequence, Zenon
<1> QED
  BY <1>11, Zenon DEF j, e, m

\* Load ended with no error: what it has read is what the file holds, or the log is torn.
LEMMA RestartKeeps ==
  ASSUME Codec, kind \in {"request", "log"}, Ranges, Faithful, Restart
  PROVE  Ranges' /\ Faithful'
<1> DEFINE m == Len(read)
           I == ItemsOf(kind)
<1>1. /\ kind = "log" /\ torn' = (torn \/ pos <= Len(stream))
      /\ wrote' = [i \in DOMAIN read |-> [form |-> "multibulk", val |-> read[i]]]
      /\ arrived' = 0 /\ ended' = FALSE /\ pos' = 1 /\ read' = <<>> /\ reader' = "reading"
      /\ UNCHANGED <<kind, stream, cuts>>
  BY Zenon DEF Restart
<1>2. Ranges'
  <2>1. Len(stream) \in Nat /\ torn \in BOOLEAN
    BY DEF Ranges
  <2>2. torn' \in BOOLEAN
    BY <1>1, <2>1, Zenon
  <2>3. 0 \in 0 .. Len(stream) /\ 1 \in 1 .. 0 + 1
    BY <2>1
  <2> QED
    BY <1>1, <2>2, <2>3, Zenon DEF Ranges
<1>3. ASSUME ~torn' PROVE (Bytes /\ Aligned /\ Halted)'
  <2>1. ~torn /\ ~(pos <= Len(stream))
    BY <1>1, <1>3, Zenon
  <2>2. Bytes /\ Aligned
    BY <2>1, Zenon DEF Faithful
  <2>3. wrote \in Seq(I) /\ m \in 0 .. Len(wrote) /\ read = Vals(wrote, m)
    BY <2>2, Zenon DEF Bytes, Aligned
  <2>4. stream = Joined(Encoded(wrote), m)
    BY <2>1, <2>2, FileIs, Zenon
  <2>5. \A i \in I : Bytewise(i)
    BY ItemFacts, Zenon
  <2>6. \A i \in I : i = [form |-> "multibulk", val |-> i.val]
    <3>1. I = {[form |-> "multibulk", val |-> c] : c \in {c \in Commands : Within(c, Lim)}}
      BY <1>1, Zenon DEF ItemsOf
    <3>2. \A c : [form |-> "multibulk", val |-> c].val = c
      OBVIOUS
    <3> QED
      BY <3>1, <3>2, Zenon
  <2> HIDE DEF m, I
  <2>7. Len(wrote) \in Nat /\ m \in Nat /\ m <= Len(wrote) /\ \A i \in 1 .. m : wrote[i] \in I
    BY <2>3
  <2>8. DOMAIN read = 1 .. m /\ \A i \in 1 .. m : read[i] = wrote[i].val
    BY <2>3, Zenon DEF Vals
  <2>9. DOMAIN wrote' = 1 .. m /\ \A i \in 1 .. m : wrote'[i] = wrote[i]
    <3>1. \A i \in 1 .. m : wrote'[i] = [form |-> "multibulk", val |-> read[i]]
      BY <1>1, <2>8, Zenon
    <3>2. \A i \in 1 .. m : wrote[i] = [form |-> "multibulk", val |-> wrote[i].val]
      BY <2>6, <2>7, Zenon
    <3> QED
      BY <1>1, <2>8, <3>1, <3>2, Zenon
  <2>10. wrote' \in Seq(I) /\ Len(wrote') = m
    <3>1. wrote' \in [1 .. m -> I]
      <4>1. \A i \in 1 .. m : wrote'[i] \in I
        BY <2>7, <2>9, Zenon
      <4>2. wrote' = [i \in 1 .. m |-> wrote'[i]]
        <5>1. wrote' = [i \in 1 .. m |-> [form |-> "multibulk", val |-> read[i]]]
          BY <1>1, <2>8, Zenon
        <5> QED
          BY <5>1, Zenon
      <4> QED
        BY <4>1, <4>2, Zenon
    <3> QED
      BY <2>7, <3>1
  <2>11. Joined(Encoded(wrote'), m) = stream
    <3>1. m <= m
      BY <2>7
    <3> QED
      BY <2>4, <2>7, <2>9, <2>10, <3>1, EndsSame, Zenon
  <2>12. stream = Whole(wrote')
    <3>1. Encoded(wrote') \in Seq(Seq(Byte)) /\ Len(Encoded(wrote')) = m
      BY <2>5, <2>10, EncodedType, Zenon
    <3>2. m \in 0 .. m
      BY <2>7
    <3>3. Joined(Encoded(wrote'), m) = Concat(Encoded(wrote'))
      BY <3>1, <3>2, JoinedStep, Zenon
    <3> QED
      BY <2>11, <3>3, Zenon DEF Whole
  <2>13. Bytes'
    <3>1. Begins(stream, stream)
      <4>1. Len(stream) \in Nat
        BY DEF Ranges
      <4> QED
        BY <4>1 DEF Begins
    <3>2. stream' = stream /\ kind' = kind
      BY <1>1, Zenon
    <3> QED
      BY <2>10, <2>12, <3>1, <3>2, Zenon DEF Bytes, I
  <2>14. Aligned'
    <3>1. Len(<<>>) = 0 /\ 0 \in 0 .. m /\ 1 = 0 + 1 /\ \A i \in 1 .. 0 : Accepted(kind', wrote', i)
      BY <2>7
    <3>2. Vals(wrote', 0) = <<>>
      BY DEF Vals
    <3>3. EndAt(wrote', 0) = 0
      BY <2>5, <2>10, EndsGrow, Zenon
    <3> QED
      BY <1>1, <2>10, <3>1, <3>2, <3>3, Zenon DEF Aligned
  <2>15. Halted'
    <3>1. reader' = "reading" /\ "reading" # "failed"
      BY <1>1, Zenon
    <3> QED
      BY <3>1, Zenon DEF Halted
  <2> QED
    BY <2>13, <2>14, <2>15, Zenon
<1> QED
  BY <1>2, <1>3, Zenon DEF Faithful

\* The bytes, the reader's place and the reason it stopped are as WireInv says, always.
LEMMA WireStep ==
  ASSUME Codec, WireInv, [Next]_vars
  PROVE  WireInv'
<1> SUFFICES ASSUME kind' \in {"request", "log"} PROVE Ranges' /\ Faithful'
  BY Zenon DEF WireInv
<1>1. CASE Next
  <2>1. kind' = kind
    BY <1>1, Zenon DEF Next, Write, Arrive, Cut, Read, Restart
  <2>2. kind \in {"request", "log"} /\ Ranges /\ Faithful
    BY <2>1, Zenon DEF WireInv
  <2>3. CASE Write
    BY <2>2, <2>3, WriteKeeps, Zenon
  <2>4. CASE Arrive
    BY <2>2, <2>4, ArriveKeeps, Zenon
  <2>5. CASE Cut
    BY <2>2, <2>5, CutKeeps, Zenon
  <2>6. CASE Read
    BY <2>2, <2>6, ReadKeeps, Zenon
  <2>7. CASE Restart
    BY <2>2, <2>7, RestartKeeps, Zenon
  <2> QED
    BY <1>1, <2>3, <2>4, <2>5, <2>6, <2>7, Zenon DEF Next
<1>2. CASE UNCHANGED vars
  <2>1. UNCHANGED <<kind, wrote, stream, arrived, ended, pos, read, reader, cuts, torn>>
    BY <1>2, Zenon DEF vars
  <2>2. Ranges /\ Faithful
    BY <2>1, Zenon DEF WireInv
  <2>3. Ranges'
    BY <2>1, <2>2, Zenon DEF Ranges
  <2>4. Faithful'
    BY <2>1, <2>2, Zenon DEF Faithful, Bytes, Aligned, Halted, NextRefused, NextCut
  <2> QED
    BY <2>3, <2>4, Zenon
<1> QED
  BY <1>1, <1>2, Zenon

-----------------------------------------------------------------------------
\* The properties.

\* Where items end, and which are refused, in the terms of the properties.
LEMMA EndOfIs ==
  ASSUME NEW I, wrote \in Seq(I), NEW i \in 0 .. Len(wrote)
  PROVE  EndOf(i) = EndAt(wrote, i)
<1>1. \A j \in 1 .. i : j \in 1 .. Len(wrote)
  OBVIOUS
<1>2. \A j \in 1 .. i : Encoded(wrote)[j] = Encode(wrote[j])
  BY <1>1, Zenon DEF Encoded
<1>3. [j \in 1 .. i |-> Encode(wrote[j])] = [j \in 1 .. i |-> Encoded(wrote)[j]]
  BY <1>2, Zenon
<1> QED
  BY <1>3, Zenon DEF EndOf, EndAt, Joined

\* What the server has accepted, Load accepts.
LEMMA LoggedFits ==
  ASSUME LimitsAgree, NEW c \in Commands, Within(c, Lim)
  PROVE  Within(c, LoadLim)
<1>1. c \in Seq(Seq(Byte))
  BY WireAssumption, Zenon
<1>2. Lim.args \in Nat /\ Lim.bulk \in Nat /\ LoadLim.args \in Nat /\ LoadLim.bulk \in Nat
  BY WireAssumption, Zenon DEF IsLimits
<1>3. \A x, y, z \in Nat : x <= y /\ y <= z => x <= z
  OBVIOUS
<1>4. Len(c) \in Nat /\ \A i \in DOMAIN c : Len(c[i]) \in Nat
  BY <1>1
<1> QED
  BY <1>2, <1>3, <1>4, Zenon DEF Within, LimitsAgree

\* The items Due stops at are those the reader does not accept.
LEMMA RefusedIs ==
  ASSUME LimitsAgree, kind \in {"request", "log"}, wrote \in Seq(ItemsOf(kind)),
         NEW i \in 1 .. Len(wrote)
  PROVE  (Refused(i) => ~Accepted(kind, wrote, i)) /\ (~Accepted(kind, wrote, i) => Refused(i))
<1>1. CASE kind = "request"
  <2>1. kind # "log"
    BY <1>1, Zenon
  <2>2. LimOf(kind) = Lim
    BY <2>1, Zenon DEF LimOf
  <2> QED
    BY <1>1, <2>2, Zenon DEF Refused, Accepted
<1>2. CASE kind = "log"
  <2>1. kind # "request"
    BY <1>2, Zenon
  <2>2. wrote[i] \in ItemsOf(kind)
    OBVIOUS
  <2>3. PICK c \in {c \in Commands : Within(c, Lim)} : wrote[i] = [form |-> "multibulk", val |-> c]
    BY <1>2, <2>2, Zenon DEF ItemsOf
  <2>4. wrote[i].val = c /\ wrote[i].form # "inline"
    BY <2>3
  <2>5. Within(c, LoadLim)
    BY <2>3, LoggedFits, Zenon
  <2>6. LimOf(kind) = LoadLim
    BY <1>2, Zenon DEF LimOf
  <2> QED
    BY <2>1, <2>4, <2>5, <2>6, Zenon DEF Refused, Accepted, Fits
<1> QED
  BY <1>1, <1>2, Zenon

\* A reader that cannot go on has returned what was due.
Stuck ==
  NextRefused \/ (Len(read) < Len(wrote) => EndAt(wrote, Len(read) + 1) > arrived)
DueAt(n) ==
  /\ \A i \in 1 .. n : EndOf(i) <= arrived /\ ~Refused(i)
  /\ n < Len(wrote) => EndOf(n + 1) > arrived \/ Refused(n + 1)

\* A reader that cannot go on has returned exactly the items that are due.
LEMMA DueIs ==
  ASSUME Codec, LimitsAgree, kind \in {"request", "log"}, Ranges, Bytes, Aligned, Stuck
  PROVE  Due = Len(read)
<1> DEFINE m == Len(read)
<1>1. wrote \in Seq(ItemsOf(kind)) /\ m \in 0 .. Len(wrote) /\ pos = EndAt(wrote, m) + 1
      /\ \A i \in 1 .. m : Accepted(kind, wrote, i)
  BY Zenon DEF Bytes, Aligned
<1>2. \A i \in ItemsOf(kind) : Bytewise(i)
  BY ItemFacts, Zenon
<1>3. \A k \in 0 .. Len(wrote) : EndOf(k) = EndAt(wrote, k) /\ EndAt(wrote, k) \in Nat
  BY <1>1, <1>2, EndOfIs, EncodedType, Zenon
<1>4. arrived \in Nat /\ pos \in 1 .. arrived + 1 /\ Len(wrote) \in Nat
  BY <1>1 DEF Ranges
<1>5. NextRefused => m < Len(wrote) /\ ~Accepted(kind, wrote, m + 1)
  BY Zenon DEF NextRefused
<1>6. NextRefused \/ (m < Len(wrote) => EndAt(wrote, m + 1) > arrived)
  BY Zenon DEF Stuck
<1> HIDE DEF m
<1>7. EndAt(wrote, m) <= arrived
  <2>1. \A x, y \in Nat : x + 1 \in 1 .. y + 1 => x <= y
    OBVIOUS
  <2> QED
    BY <1>1, <1>3, <1>4, <2>1, Zenon
<1>8. \A i \in 1 .. m : EndOf(i) <= arrived /\ ~Refused(i)
  <2> TAKE i \in 1 .. m
  <2>1. i \in 0 .. m /\ i \in 0 .. Len(wrote) /\ i \in 1 .. Len(wrote)
    BY <1>1, <1>4
  <2>2. EndAt(wrote, i) <= EndAt(wrote, m)
    BY <1>1, <1>2, <2>1, EndsOrdered, Zenon
  <2>3. \A x, y, z \in Nat : x <= y /\ y <= z => x <= z
    OBVIOUS
  <2>4. EndOf(i) <= arrived
    BY <1>1, <1>3, <1>4, <1>7, <2>1, <2>2, <2>3, Zenon
  <2>5. ~Refused(i)
    BY <1>1, <2>1, RefusedIs, Zenon
  <2> QED
    BY <2>4, <2>5, Zenon
<1>9. m < Len(wrote) => EndOf(m + 1) > arrived \/ Refused(m + 1)
  <2> SUFFICES ASSUME m < Len(wrote) PROVE EndOf(m + 1) > arrived \/ Refused(m + 1)
    OBVIOUS
  <2>1. m + 1 \in 0 .. Len(wrote) /\ m + 1 \in 1 .. Len(wrote)
    BY <1>1, <1>4
  <2>2. ~Accepted(kind, wrote, m + 1) => Refused(m + 1)
    BY <1>1, <2>1, RefusedIs, Zenon
  <2> QED
    BY <1>3, <1>5, <1>6, <2>1, <2>2, Zenon
<1>10. DueAt(m)
  BY <1>8, <1>9, Zenon DEF DueAt
<1>11. \A n \in 0 .. Len(wrote) : DueAt(n) => n = m
  <2> TAKE n \in 0 .. Len(wrote)
  <2> HAVE DueAt(n)
  <2>1. n < m => n + 1 \in 1 .. m /\ n < Len(wrote)
    BY <1>1, <1>4
  <2>2. m < n => m + 1 \in 1 .. n /\ m < Len(wrote)
    BY <1>1, <1>4
  <2>3. n < m \/ m < n \/ n = m
    BY <1>1, <1>4
  <2>4. \A k \in 0 .. Len(wrote) : k < Len(wrote) => (EndOf(k + 1) > arrived => ~(EndOf(k + 1) <= arrived))
    <3> TAKE k \in 0 .. Len(wrote)
    <3> HAVE k < Len(wrote)
    <3>1. k + 1 \in 0 .. Len(wrote)
      BY <1>4
    <3>2. EndOf(k + 1) \in Nat
      BY <1>3, <3>1, Zenon
    <3>3. \A x, y \in Nat : x > y => ~(x <= y)
      OBVIOUS
    <3> QED
      BY <1>4, <3>2, <3>3, Zenon
  <2>5. ~(n < m)
    BY <1>10, <2>1, <2>4, Zenon DEF DueAt
  <2>6. ~(m < n)
    BY <1>1, <1>10, <2>2, <2>4, Zenon DEF DueAt
  <2> QED
    BY <2>3, <2>5, <2>6, Zenon
<1>12. Due = CHOOSE n \in 0 .. Len(wrote) : DueAt(n)
  BY Zenon DEF Due, DueAt
<1>13. (CHOOSE n \in 0 .. Len(wrote) : DueAt(n)) = m
  BY <1>1, <1>10, <1>11, Zenon
<1> QED
  BY <1>12, <1>13, Zenon DEF m

\* The four properties hold where the invariant does.
LEMMA InvReads ==
  ASSUME kind \in {"request", "log"}, WireInv
  PROVE  ReadsBack
<1> SUFFICES ASSUME ~torn PROVE Begins(read, Values)
  BY Zenon DEF ReadsBack
<1>1. Bytes /\ Aligned
  BY Zenon DEF WireInv, Faithful
<1> DEFINE m == Len(read)
<1>2. wrote \in Seq(ItemsOf(kind)) /\ m \in 0 .. Len(wrote) /\ read = Vals(wrote, m)
  BY <1>1, Zenon DEF Bytes, Aligned
<1> HIDE DEF m
<1>3. Len(wrote) \in Nat /\ DOMAIN wrote = 1 .. Len(wrote)
  BY <1>2
<1>4. DOMAIN read = 1 .. m /\ \A i \in 1 .. m : read[i] = wrote[i].val
  BY <1>2, Zenon DEF Vals
<1>5. DOMAIN Values = 1 .. Len(wrote) /\ \A i \in 1 .. Len(wrote) : Values[i] = wrote[i].val
  BY <1>3, Zenon DEF Values
<1>6. Len(Values) = Len(wrote)
  BY <1>3, <1>5
<1>7. \A i \in 1 .. m : i \in 1 .. Len(wrote) /\ m <= Len(wrote)
  BY <1>2, <1>3
<1>8. m <= Len(wrote)
  BY <1>2, <1>3
<1> QED
  BY <1>4, <1>5, <1>6, <1>7, <1>8, Zenon DEF Begins, m

\* The invariant bounds the reader's position and the counters.
LEMMA InvTypes ==
  ASSUME kind \in {"request", "log"}, WireInv
  PROVE  TypeOK
<1>1. Ranges
  BY Zenon DEF WireInv
<1>2. arrived \in 0 .. Len(stream) /\ pos \in 1 .. arrived + 1 /\ Len(stream) \in Nat
  BY <1>1 DEF Ranges
<1>3. pos \in 1 .. Len(stream) + 1
  BY <1>2
<1>4. kind \in {"request", "reply", "log"}
  OBVIOUS
<1> QED
  BY <1>1, <1>3, <1>4, Zenon DEF TypeOK, Ranges

\* The invariant leaves a reader that cannot go on no whole item to read.
LEMMA InvWhole ==
  ASSUME Codec, LimitsAgree, kind \in {"request", "log"}, WireInv
  PROVE  WholeItemsRead
<1> SUFFICES ASSUME ~torn, reader # "reading" \/ Got.st # "ok" PROVE Len(read) = Due
  BY Zenon DEF WholeItemsRead
<1>1. Ranges /\ Bytes /\ Aligned /\ Halted
  BY Zenon DEF WireInv, Faithful
<1>2. CASE reader # "reading"
  <2>1. NextRefused \/ (ended /\ NextCut)
    BY <1>1, <1>2, Zenon DEF Halted
  <2>2. ended => arrived = Len(stream)
    BY <1>1, Zenon DEF Ranges
  <2>3. Stuck
    BY <2>1, <2>2, Zenon DEF Stuck, NextCut
  <2> QED
    BY <1>1, <2>3, DueIs, Zenon
<1>3. CASE Got.st # "ok"
  <2>1. NextRefused \/ (Len(read) < Len(wrote) => EndAt(wrote, Len(read) + 1) > arrived)
    BY <1>1, <1>3, GotCases, Zenon
  <2>2. Stuck
    BY <2>1, Zenon DEF Stuck
  <2> QED
    BY <1>1, <2>2, DueIs, Zenon
<1> QED
  BY <1>2, <1>3, Zenon

\* The invariant gives every error its cause.
LEMMA InvFails ==
  ASSUME Codec, LimitsAgree, kind \in {"request", "log"}, WireInv
  PROVE  FailsForCause
<1> SUFFICES ASSUME ~torn, reader = "failed"
             PROVE  /\ Due < Len(wrote)
                    /\ Refused(Due + 1) \/ (ended /\ pos <= Len(stream) /\ EndOf(Due + 1) > Len(stream))
  BY Zenon DEF FailsForCause
<1> DEFINE m == Len(read)
<1>1. Ranges /\ Bytes /\ Aligned /\ Halted
  BY Zenon DEF WireInv, Faithful
<1>2. m < Len(wrote) /\ (NextRefused \/ (ended /\ NextCut /\ pos <= Len(stream)))
  BY <1>1, Zenon DEF Halted
<1>3. Due = m
  <2>1. reader # "reading"
    OBVIOUS
  <2>2. WholeItemsRead
    BY InvWhole, Zenon
  <2> QED
    BY <2>1, <2>2, Zenon DEF WholeItemsRead
<1>4. wrote \in Seq(ItemsOf(kind)) /\ m \in 0 .. Len(wrote)
  BY <1>1, Zenon DEF Bytes, Aligned
<1>5. NextRefused => ~Accepted(kind, wrote, m + 1)
  BY Zenon DEF NextRefused
<1>6. NextCut => EndAt(wrote, m + 1) > Len(stream)
  BY <1>2, Zenon DEF NextCut
<1> HIDE DEF m
<1>7. m + 1 \in 0 .. Len(wrote) /\ m + 1 \in 1 .. Len(wrote)
  BY <1>2, <1>4
<1>8. EndOf(m + 1) = EndAt(wrote, m + 1)
  BY <1>4, <1>7, EndOfIs, Zenon
<1>9. ~Accepted(kind, wrote, m + 1) => Refused(m + 1)
  BY <1>4, <1>7, RefusedIs, Zenon
<1> QED
  BY <1>2, <1>3, <1>5, <1>6, <1>8, <1>9, Zenon

-----------------------------------------------------------------------------
(***************************************************************************)
(* The theorems.  memx-cli loses an empty argument (WireEmpty.cfg shows    *)
(* it), so what is typed holds none; Load reads with the default limits,   *)
(* so the server's are not larger (WireLimits.cfg shows what happens when  *)
(* they are).                                                              *)
(***************************************************************************)
NoEmptyTyped == \A l \in Typed : \A i \in DOMAIN l : l[i] # <<>>

\* A sequence over a set is one over a larger set.
LEMMA SeqWider ==
  ASSUME NEW S, NEW T, S \subseteq T, NEW s \in Seq(S)
  PROVE  s \in Seq(T)
OBVIOUS

\* AOF.Append and Client.Do write bytes, and at least a header.
LEMMA MultibulkType ==
  ASSUME NEW args \in Seq(Seq(Byte))
  PROVE  Multibulk(args) \in Seq(Byte) /\ Multibulk(args) # <<>>
<1> DEFINE n == Len(args)
           h == HeaderLine(Star, n)
           body == Concat(Bulks(args))
<1>1. n \in Nat /\ Star \in Byte \ {LF} /\ CRLF \in Seq(Byte) /\ Len(CRLF) = 2
  BY DEF Star, Byte, LF, CRLF, CR
<1>2. h \in Seq(Byte) /\ LineOf(Star, Itoa(n)) = h \o CRLF
  BY <1>1, HeaderReads, Zenon
<1> HIDE DEF h
<1>3. body \in Seq(Byte)
  BY BulksType, PartsOf, Zenon
<1>4. Multibulk(args) = (h \o CRLF) \o body
  BY <1>2, Zenon DEF Multibulk, ArrayLen, Bulks
<1> HIDE DEF body
<1>5. h \o CRLF \in Seq(Byte) /\ Len(h \o CRLF) = Len(h) + 2
  BY <1>1, <1>2, JoinFacts, Zenon
<1>6. (h \o CRLF) \o body \in Seq(Byte) /\ Len((h \o CRLF) \o body) = Len(h \o CRLF) + Len(body)
  BY <1>3, <1>5, JoinFacts, Zenon
<1>7. Len((h \o CRLF) \o body) # 0
  <2>1. Len(h) \in Nat /\ Len(body) \in Nat
    BY <1>2, <1>3
  <2> QED
    BY <1>5, <1>6, <2>1
<1>8. Len(<<>>) = 0
  OBVIOUS
<1> QED
  BY <1>4, <1>6, <1>7, <1>8, Zenon

\* What Client.Do and Append write is read back as the arguments that were written.
LEMMA MultibulkInverts ==
  ASSUME NEW i, NEW args \in Seq(Seq(Byte)), args # <<>>, i.val = args, i.form # "inline",
         Encode(i) = Multibulk(args), NEW lim, IsLimits(lim)
  PROVE  Bytewise(i) /\ Inverts(i, lim)
<1>1. Fits(i, lim) = Within(args, lim)
  BY Zenon DEF Fits
<1>2. Bytewise(i)
  BY MultibulkType, Zenon DEF Bytewise
<1>3. ASSUME NEW t \in Seq(Byte), NEW p \in 1 .. Len(t) + 1, Carries(t, p, Encode(i))
      PROVE  Reads(ReadCommand(t, p, lim), i.val, p + Len(Encode(i)), Len(t), Fits(i, lim))
  <2>1. Carries(t, p, Multibulk(args))
    BY <1>3, Zenon
  <2>2. Reads(ReadCommand(t, p, lim), args, p + Len(Multibulk(args)), Len(t), Within(args, lim))
    BY <1>3, <2>1, CommandReads, Zenon
  <2> QED
    BY <1>1, <2>2, Zenon
<1> QED
  BY <1>2, <1>3, Zenon DEF Inverts

\* An inline line is read back as the words in it.
LEMMA InlineInverts ==
  ASSUME NEW i, NEW l \in Lines, i.val = l, i.form = "inline",
         Encode(i) = Append(InlineLine(l), LF), NEW lim, IsLimits(lim)
  PROVE  Bytewise(i) /\ Inverts(i, lim)
<1>1. l \in Seq(Seq(Visible) \ {<<>>}) /\ l # <<>> /\ l[1][1] # Star
  BY WireAssumption, Zenon
<1>2. Fits(i, lim) = (Len(l) <= lim.args /\ Len(InlineLine(l)) <= lim.inline)
  BY Zenon DEF Fits
<1>3. Bytewise(i)
  <2>1. InlineLine(l) \in Seq(Printable)
    BY <1>1, FieldsInvert, Zenon
  <2>2. Printable \subseteq Byte /\ LF \in Byte
    BY DEF Printable, Visible, Byte, LF, Space
  <2>3. InlineLine(l) \in Seq(Byte)
    BY <2>1, <2>2, SeqWider, Zenon
  <2>4. Append(InlineLine(l), LF) \in Seq(Byte) /\ Append(InlineLine(l), LF) # <<>>
    BY <2>2, <2>3, Longer, Zenon
  <2> QED
    BY <2>4, Zenon DEF Bytewise
<1>4. ASSUME NEW t \in Seq(Byte), NEW p \in 1 .. Len(t) + 1, Carries(t, p, Encode(i))
      PROVE  Reads(ReadCommand(t, p, lim), i.val, p + Len(Encode(i)), Len(t), Fits(i, lim))
  <2>1. Carries(t, p, Append(InlineLine(l), LF))
    BY <1>4, Zenon
  <2>2. Reads(ReadCommand(t, p, lim), l, p + Len(Append(InlineLine(l), LF)), Len(t),
              Len(l) <= lim.args /\ Len(InlineLine(l)) <= lim.inline)
    BY <1>1, <1>4, <2>1, InlineReads, Zenon
  <2> QED
    BY <1>2, <2>2, Zenon
<1> QED
  BY <1>3, <1>4, Zenon DEF Inverts

\* Every form of a command is read back as the arguments it was written from: the codec the
\* streams rest on.
LEMMA CodecInverts ==
  ASSUME NoEmptyTyped
  PROVE  Codec
<1>1. Seq(Printable) \subseteq Seq(Byte)
  <2>1. Printable \subseteq Byte
    BY DEF Printable, Visible, Byte, Space
  <2> QED
    BY <2>1, SeqWider, Zenon
<1>2. ASSUME NEW c \in Commands, NEW i, i = [form |-> "multibulk", val |-> c], NEW lim, IsLimits(lim)
      PROVE  Bytewise(i) /\ Inverts(i, lim)
  <2>1. c \in Seq(Seq(Byte)) /\ c # <<>>
    BY WireAssumption, Zenon
  <2>2. i.val = c /\ i.form = "multibulk"
    BY <1>2, Zenon
  <2>3. i.form # "inline"
    BY <2>2, Zenon
  <2>4. Encode(i) = Multibulk(c)
    BY <2>2, Zenon DEF Encode
  <2> QED
    BY <1>2, <2>1, <2>2, <2>3, <2>4, MultibulkInverts, Zenon
<1>3. ASSUME NEW l \in Lines, NEW i, i = [form |-> "inline", val |-> l], NEW lim, IsLimits(lim)
      PROVE  Bytewise(i) /\ Inverts(i, lim)
  <2>1. i.val = l /\ i.form = "inline"
    BY <1>3, Zenon
  <2>2. Encode(i) = Append(InlineLine(l), LF)
    BY <2>1, Zenon DEF Encode
  <2> QED
    BY <1>3, <2>1, <2>2, InlineInverts, Zenon
<1>4. ASSUME NEW l \in Typed, NEW i, i = [form |-> "typed", val |-> l], NEW lim, IsLimits(lim)
      PROVE  Bytewise(i) /\ Inverts(i, lim)
  <2>1. l \in Seq(Seq(Printable)) /\ l # <<>> /\ \A k \in DOMAIN l : l[k] # <<>>
    BY WireAssumption, Zenon DEF NoEmptyTyped
  <2>2. l \in Seq(Seq(Byte))
    BY <1>1, <2>1, SeqWider, Zenon
  <2>3. Tokenize(Quoted(l)) = l
    BY <2>1, TokenizeInverts, Zenon
  <2>4. i.val = l /\ i.form = "typed"
    BY <1>4, Zenon
  <2>5. i.form # "inline"
    BY <2>4, Zenon
  <2>6. Encode(i) = Multibulk(Tokenize(Quoted(l)))
    BY <2>4, Zenon DEF Encode
  <2>7. Encode(i) = Multibulk(l)
    BY <2>3, <2>6, Zenon
  <2> QED
    BY <1>4, <2>1, <2>2, <2>4, <2>5, <2>7, MultibulkInverts, Zenon
<1>5. ASSUME NEW k \in {"request", "log"}, NEW i \in ItemsOf(k)
      PROVE  Bytewise(i) /\ Inverts(i, LimOf(k))
  <2>1. IsLimits(LimOf(k))
    BY LimitsAre, Zenon
  <2>2. \/ \E c \in Commands : i = [form |-> "multibulk", val |-> c]
        \/ \E l \in Lines : i = [form |-> "inline", val |-> l]
        \/ \E l \in Typed : i = [form |-> "typed", val |-> l]
    <3>1. CASE k = "log"
      BY <1>5, <3>1, Zenon DEF ItemsOf
    <3>2. CASE k # "log"
      BY <1>5, <3>2, Zenon DEF ItemsOf, Sent
    <3> QED
      BY <3>1, <3>2, Zenon
  <2> QED
    BY <1>2, <1>3, <1>4, <2>1, <2>2, Zenon
<1> QED
  BY <1>5, Zenon DEF Codec

\* A stream is what it was at the start: a request, a reply or the log.
Kinds == kind \in {"request", "reply", "log"}

\* A stream is of one of the three kinds at the start.
LEMMA KindInit == Init => Kinds
  BY Zenon DEF Init, Kinds

\* No step changes the kind of a stream.
LEMMA KindStep == Kinds /\ [Next]_vars => Kinds'
<1> SUFFICES ASSUME Kinds, [Next]_vars PROVE Kinds'
  OBVIOUS
<1>1. kind' = kind
  <2>1. CASE Next
    BY <2>1, Zenon DEF Next, Write, Arrive, Cut, Read, Restart
  <2>2. CASE UNCHANGED vars
    BY <2>2, Zenon DEF vars
  <2> QED
    BY <2>1, <2>2, Zenon
<1> QED
  BY <1>1, Zenon DEF Kinds

\* The inductive invariant holds throughout.
LEMMA WireInductive ==
  ASSUME NoEmptyTyped
  PROVE  Spec => [](Kinds /\ WireInv)
<1>1. Codec
  BY CodecInverts, Zenon
<1>2. Init => Kinds /\ WireInv
  BY KindInit, WireInit, Zenon
<1>3. (Kinds /\ WireInv) /\ [Next]_vars => (Kinds /\ WireInv)'
  BY <1>1, KindStep, WireStep, Zenon
<1> QED
  BY <1>2, <1>3, PTL DEF Spec

\* Positions, counters and flags keep their types: the reader never stands outside the
\* stream of commands it reads, whatever bytes it holds and however it was cut.
THEOREM CommandsTyped ==
  ASSUME NoEmptyTyped
  PROVE  Spec => [](kind # "reply" => TypeOK)
<1>1. Kinds /\ WireInv => (kind # "reply" => TypeOK)
  <2> SUFFICES ASSUME Kinds, WireInv, kind # "reply" PROVE TypeOK
    OBVIOUS
  <2>1. kind \in {"request", "log"}
    BY Zenon DEF Kinds
  <2> QED
    BY <2>1, InvTypes, Zenon
<1> QED
  BY WireInductive, <1>1, PTL

\* ReadCommand inverts Append, Client.Do and an inline line, and Tokenize the quotes, for
\* every set of commands, every value in them and every fragmentation: what handle and Load
\* have read is what was written, in order, until the log is appended to after half a record.
THEOREM CommandsReadBack ==
  ASSUME NoEmptyTyped
  PROVE  Spec => [](kind # "reply" => ReadsBack)
<1>1. Kinds /\ WireInv => (kind # "reply" => ReadsBack)
  <2> SUFFICES ASSUME Kinds, WireInv, kind # "reply" PROVE ReadsBack
    OBVIOUS
  <2>1. kind \in {"request", "log"}
    BY Zenon DEF Kinds
  <2> QED
    BY <2>1, InvReads, Zenon
<1> QED
  BY WireInductive, <1>1, PTL

\* handle and Load never stop before a whole command and never return half of one, when the
\* server's limits are not larger than the defaults Load reads with.
THEOREM WholeCommandsRead ==
  ASSUME NoEmptyTyped, LimitsAgree
  PROVE  Spec => [](kind # "reply" => WholeItemsRead)
<1>1. Kinds /\ WireInv => (kind # "reply" => WholeItemsRead)
  <2> SUFFICES ASSUME Kinds, WireInv, kind # "reply" PROVE WholeItemsRead
    OBVIOUS
  <2>1. kind \in {"request", "log"} /\ Codec
    BY CodecInverts, Zenon DEF Kinds
  <2> QED
    BY <2>1, InvWhole, Zenon
<1> QED
  BY WireInductive, <1>1, PTL

\* handle closes a connection, and Load makes the server exit, only for a command over the
\* limits or for one the end of the stream has cut.
THEOREM CommandsFailForCause ==
  ASSUME NoEmptyTyped, LimitsAgree
  PROVE  Spec => [](kind # "reply" => FailsForCause)
<1>1. Kinds /\ WireInv => (kind # "reply" => FailsForCause)
  <2> SUFFICES ASSUME Kinds, WireInv, kind # "reply" PROVE FailsForCause
    OBVIOUS
  <2>1. kind \in {"request", "log"} /\ Codec
    BY CodecInverts, Zenon DEF Kinds
  <2> QED
    BY <2>1, InvFails, Zenon
<1> QED
  BY WireInductive, <1>1, PTL

====
