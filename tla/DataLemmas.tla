------------------------------ MODULE DataLemmas ------------------------------
(***************************************************************************)
(* Facts about numbers, finite sets and sequences that the proofs about    *)
(* several components share: least numbers, which stand in for induction,  *)
(* initial segments, sorted sequences, recursive functions and stacks.     *)
(***************************************************************************)
EXTENDS FiniteSetTheorems, SequenceTheorems, TLAPS

-----------------------------------------------------------------------------
\* Numbers.

\* A set of numbers has a least one.
LEMMA Least ==
  ASSUME NEW T, T \subseteq Nat, T # {}
  PROVE  \E n \in T : \A m \in T : n <= m
<1> DEFINE R == OpToRel(<, Nat)
<1>1. IsWellFoundedOn(R, Nat)
  BY NatLessThanWellFounded
<1>2. PICK n \in T : \A m \in T : ~ (<<m, n>> \in R)
  <2> HIDE DEF R
  <2> QED BY <1>1, WFMin
<1>3. ASSUME NEW m \in T PROVE n <= m
  <2>1. ~ (m < n)
    BY <1>2 DEF OpToRel
  <2> QED BY <2>1
<1> QED BY <1>3

\* A bounded one has a greatest.
LEMMA Greatest ==
  ASSUME NEW n \in Nat, NEW T, T \subseteq 0 .. n, T # {}
  PROVE  \E m \in T : \A k \in T : k <= m
<1> DEFINE U == {n - k : k \in T}
<1>1. U \subseteq Nat /\ U # {}
  <2>1. \A k \in T : k \in Int /\ n - k \in Nat
    OBVIOUS
  <2> QED BY <2>1
<1> HIDE DEF U
<1>2. PICK u \in U : \A v \in U : u <= v
  BY <1>1, Least
<1>3. PICK m \in T : u = n - m
  BY DEF U
<1>4. ASSUME NEW k \in T PROVE k <= m
  <2>1. n - k \in U
    BY DEF U
  <2>2. n - m <= n - k
    BY <1>2, <1>3, <2>1
  <2> QED BY <2>2
<1> QED BY <1>4

\* Of some subsets of a finite set, one is not a part of another.
LEMMA Maximal ==
  ASSUME NEW N, IsFiniteSet(N), NEW T \in SUBSET SUBSET N, T # {}
  PROVE  \E S \in T : \A R \in T : S \subseteq R => R = S
<1> DEFINE n == Cardinality(N)
           C == {n - Cardinality(S) : S \in T}
<1>1. n \in Nat /\ \A S \in T : IsFiniteSet(S) /\ Cardinality(S) \in Nat /\ Cardinality(S) <= n
  BY FS_Subset, FS_CardinalityType
<1>2. C \subseteq Nat /\ C # {}
  BY <1>1
<1>3. PICK c \in C : \A d \in C : c <= d
  <2> HIDE DEF C
  <2> QED BY <1>2, Least
<1>4. PICK S \in T : c = n - Cardinality(S)
  OBVIOUS
<1>5. ASSUME NEW R \in T, S \subseteq R PROVE R = S
  <2>1. n - Cardinality(S) <= n - Cardinality(R)
    BY <1>3, <1>4
  <2>2. Cardinality(S) <= Cardinality(R) /\ (Cardinality(R) = Cardinality(S) => R = S)
    BY <1>1, <1>5, FS_Subset
  <2> HIDE DEF n
  <2>3. n \in Nat /\ Cardinality(S) \in Nat /\ Cardinality(R) \in Nat
    BY <1>1
  <2> QED BY <2>1, <2>2, <2>3
<1> QED BY <1>5

\* What has with a number all numbers from one on up to it is an interval.
LEMMA Segment ==
  ASSUME NEW n \in Nat, NEW T, T \subseteq 1 .. n,
         \A i \in T, j \in 1 .. n : j < i => j \in T
  PROVE  IsFiniteSet(T) /\ Cardinality(T) \in Nat /\ T = 1 .. Cardinality(T)
<1>1. CASE T = {}
  BY <1>1, FS_EmptySet
<1>2. CASE T # {}
  <2> T \subseteq 0 .. n
    OBVIOUS
  <2>1. PICK m \in T : \A k \in T : k <= m
    BY <1>2, Greatest
  <2>2. T = 1 .. m
    <3>1. m \in 1 .. n /\ \A k \in T : k \in 1 .. n /\ k <= m
      BY <2>1
    <3>2. T \subseteq 1 .. m
      BY <3>1
    <3>3. ASSUME NEW k \in 1 .. m PROVE k \in T
      <4>1. k \in 1 .. n /\ (k = m \/ k < m)
        BY <3>1
      <4> QED BY <4>1
    <3> QED BY <3>2, <3>3
  <2>3. Cardinality(1 .. m) = m /\ IsFiniteSet(1 .. m)
    BY <2>1, FS_Interval
  <2> QED BY <2>1, <2>2, <2>3
<1> QED BY <1>1, <1>2

\* The numbers below one that is among the first n.
LEMMA UpTo ==
  ASSUME NEW n \in Nat
  PROVE  IsFiniteSet(1 .. n) /\ Cardinality(1 .. n) = n
BY FS_Interval

-----------------------------------------------------------------------------
\* Sorted sequences.

\* R orders S strictly and totally.
Orders(R, S) ==
  /\ IsFiniteSet(S)
  /\ \A x \in S : <<x, x>> \notin R
  /\ \A x, y, z \in S : <<x, y>> \in R /\ <<y, z>> \in R => <<x, z>> \in R
  /\ \A x, y \in S : x = y \/ <<x, y>> \in R \/ <<y, x>> \in R

\* s has each element of S once, with none behind one it is to precede.
Arranges(s, R, S) ==
  /\ s \in [1 .. Cardinality(S) -> S] /\ IsInjective(s)
  /\ \A i, j \in 1 .. Cardinality(S) : i < j => <<s[j], s[i]>> \notin R

\* s has all elements of S, each before those it precedes.
InOrder(s, R, S) ==
  /\ Cardinality(S) \in Nat /\ s \in [1 .. Cardinality(S) -> S]
  /\ \A x \in S : \E i \in 1 .. Cardinality(S) : s[i] = x
  /\ \A i, j \in 1 .. Cardinality(S) : i < j => <<s[i], s[j]>> \in R

LEMMA ArrangedInOrder ==
  ASSUME NEW S, NEW R, Orders(R, S), NEW s, Arranges(s, R, S)
  PROVE  InOrder(s, R, S)
<1> DEFINE n == Cardinality(S)
<1>1. IsFiniteSet(S) /\ n \in Nat /\ Cardinality(1 .. n) = n /\ IsFiniteSet(1 .. n)
  BY FS_CardinalityType, UpTo DEF Orders
<1>2. s \in Injection(1 .. n, S)
  BY DEF Arranges, Injection
<1>3. s \in Surjection(1 .. n, S)
  BY <1>1, <1>2, FS_Injection
<1>4. \A x \in S : \E i \in 1 .. n : s[i] = x
  BY <1>3 DEF Surjection
<1>5. ASSUME NEW i \in 1 .. n, NEW j \in 1 .. n, i < j PROVE <<s[i], s[j]>> \in R
  <2>1. i # j /\ s[i] \in S /\ s[j] \in S /\ DOMAIN s = 1 .. n
    BY <1>1, <1>5 DEF Arranges
  <2>2. s[i] # s[j]
    BY <2>1 DEF Arranges, IsInjective
  <2>3. <<s[j], s[i]>> \notin R
    BY <1>5 DEF Arranges
  <2> QED BY <2>1, <2>2, <2>3 DEF Orders
<1> QED BY <1>1, <1>4, <1>5 DEF InOrder, Arranges

\* How many elements of S precede x.
Preceding(x, R, S) == {y \in S : <<y, x>> \in R}

LEMMA Ranked ==
  ASSUME NEW S, NEW R, Orders(R, S)
  PROVE  LET rank == [x \in S |-> Cardinality(Preceding(x, R, S)) + 1]
         IN  /\ rank \in [S -> 1 .. Cardinality(S)]
             /\ \A x, y \in S : <<x, y>> \in R => rank[x] < rank[y]
<1> DEFINE n == Cardinality(S)
           c(x) == Cardinality(Preceding(x, R, S))
<1>1. IsFiniteSet(S) /\ n \in Nat
  BY FS_CardinalityType DEF Orders
<1>2. ASSUME NEW x \in S PROVE IsFiniteSet(Preceding(x, R, S)) /\ c(x) \in Nat /\ c(x) < n
  <2>1. Preceding(x, R, S) \in SUBSET S /\ x \notin Preceding(x, R, S)
    BY DEF Preceding, Orders
  <2>2. /\ IsFiniteSet(Preceding(x, R, S)) /\ c(x) <= n
        /\ n = c(x) => S = Preceding(x, R, S)
    BY <1>1, <2>1, FS_Subset
  <2>3. c(x) \in Nat
    BY <2>2, FS_CardinalityType
  <2> QED BY <1>1, <2>1, <2>2, <2>3
<1>3. ASSUME NEW x \in S, NEW y \in S, <<x, y>> \in R PROVE c(x) < c(y)
  <2>1. Preceding(x, R, S) \in SUBSET Preceding(y, R, S)
    BY <1>3 DEF Preceding, Orders
  <2>2. x \in Preceding(y, R, S) /\ x \notin Preceding(x, R, S)
    BY <1>3 DEF Preceding, Orders
  <2>3. c(x) <= c(y) /\ (c(y) = c(x) => Preceding(y, R, S) = Preceding(x, R, S))
    BY <1>2, <2>1, FS_Subset
  <2> QED BY <1>2, <2>2, <2>3
<1> HIDE DEF c
<1> QED BY <1>1, <1>2, <1>3 DEF c

\* What is ordered can be arranged.
LEMMA Arrangement ==
  ASSUME NEW S, NEW R, Orders(R, S)
  PROVE  \E s : Arranges(s, R, S)
<1> DEFINE n == Cardinality(S)
           rank == [x \in S |-> Cardinality(Preceding(x, R, S)) + 1]
<1>1. IsFiniteSet(S) /\ n \in Nat /\ Cardinality(1 .. n) = n /\ IsFiniteSet(1 .. n)
  BY FS_CardinalityType, UpTo DEF Orders
<1>2. rank \in [S -> 1 .. n] /\ \A x, y \in S : <<x, y>> \in R => rank[x] < rank[y]
  BY Ranked
<1> HIDE DEF rank
<1>3. \A x \in S : rank[x] \in Int
  BY <1>1, <1>2
<1>4. IsInjective(rank)
  <2> SUFFICES ASSUME NEW x \in S, NEW y \in S, rank[x] = rank[y] PROVE x = y
    BY <1>2 DEF IsInjective
  <2>1. <<x, y>> \notin R /\ <<y, x>> \notin R
    BY <1>2, <1>3
  <2> QED BY <2>1 DEF Orders
<1>5. rank \in Injection(S, 1 .. n)
  BY <1>2, <1>4 DEF Injection
<1>6. rank \in Surjection(S, 1 .. n)
  BY <1>1, <1>5, FS_Injection
<1>7. \A i \in 1 .. n : \E x \in S : rank[x] = i
  BY <1>6 DEF Surjection
<1> DEFINE s == [i \in 1 .. n |-> CHOOSE x \in S : rank[x] = i]
<1>8. \A i \in 1 .. n : s[i] \in S /\ rank[s[i]] = i
  BY <1>7
<1>9. s \in [1 .. n -> S] /\ DOMAIN s = 1 .. n
  BY <1>8
<1> HIDE DEF s
<1>10. IsInjective(s)
  BY <1>8, <1>9 DEF IsInjective
<1>11. ASSUME NEW i \in 1 .. n, NEW j \in 1 .. n, i < j PROVE <<s[j], s[i]>> \notin R
  <2>1. <<s[j], s[i]>> \in R => rank[s[j]] < rank[s[i]]
    BY <1>2, <1>8
  <2>2. <<s[j], s[i]>> \in R => j < i
    BY <1>8, <2>1
  <2>3. i \in Int /\ j \in Int
    BY <1>1
  <2> QED BY <1>11, <2>2, <2>3
<1>12. Arranges(s, R, S)
  BY <1>9, <1>10, <1>11 DEF Arranges
<1> QED BY <1>12

-----------------------------------------------------------------------------
\* Recursive functions.

\* On D, next says which values of a function its value at each argument needs;
\* no descent along it is without end.
Descends(next, D) ==
  /\ next \in [D -> SUBSET D]
  /\ \A T \in SUBSET D : T # {} => \E t \in T : next[t] \cap T = {}

\* step has the value at an argument, from those at the next ones.
Follows(step, next, D, V) ==
  /\ step \in [D \X [D -> V] -> V]
  /\ \A t \in D : \A f, g \in [D -> V] :
       (\A u \in next[t] : f[u] = g[u]) => step[<<t, f>>] = step[<<t, g>>]

Solvable(step, D, V) == \E f \in [D -> V] : \A t \in D : f[t] = step[<<t, f>>]

\* Such a recursive definition has a solution.
LEMMA Recursion ==
  ASSUME NEW D, NEW V, V # {}, NEW next, Descends(next, D), NEW step, Follows(step, next, D, V)
  PROVE  Solvable(step, D, V)
<1>0. /\ step \in [D \X [D -> V] -> V]
      /\ \A t \in D : \A f, g \in [D -> V] :
           (\A u \in next[t] : f[u] = g[u]) => step[<<t, f>>] = step[<<t, g>>]
  BY DEF Follows
<1> DEFINE Right(S, f) == /\ S \subseteq D /\ f \in [D -> V]
                          /\ \A t \in S : next[t] \subseteq S /\ f[t] = step[<<t, f>>]
<1>1. \A t \in D : next[t] \subseteq D
  BY DEF Descends
<1>2. ASSUME NEW S, NEW f, NEW T, NEW g, Right(S, f), Right(T, g), NEW t \in S \cap T
      PROVE  f[t] = g[t]
  <2> DEFINE Bad == {x \in S \cap T : f[x] # g[x]}
  <2>1. SUFFICES ASSUME Bad # {} PROVE FALSE
    OBVIOUS
  <2>2. Bad \in SUBSET D
    BY <1>2
  <2>3. PICK x \in Bad : next[x] \cap Bad = {}
    <3> HIDE DEF Bad
    <3> QED BY <2>1, <2>2 DEF Descends
  <2>4. x \in D /\ \A u \in next[x] : f[u] = g[u]
    BY <1>2, <2>3
  <2>5. f[x] = step[<<x, f>>] /\ g[x] = step[<<x, g>>] /\ f[x] # g[x]
    BY <1>2, <2>3
  <2>6. step[<<x, f>>] = step[<<x, g>>]
    <3>1. f \in [D -> V] /\ g \in [D -> V]
      BY <1>2
    <3> QED BY <1>0, <2>4, <3>1
  <2> QED BY <2>5, <2>6
<1> DEFINE C == {t \in D : \E S, f : Right(S, f) /\ t \in S}
           h == [t \in D |-> IF t \in C
                             THEN CHOOSE y \in V : \E S, f : Right(S, f) /\ t \in S /\ y = f[t]
                             ELSE CHOOSE y \in V : TRUE]
<1>3. ASSUME NEW S, NEW f, Right(S, f), NEW t \in S
      PROVE  t \in C /\ h[t] = f[t]
  <2>1. t \in D /\ t \in C /\ f[t] \in V
    BY <1>3
  <2>2. h[t] = CHOOSE y \in V : \E R, g : Right(R, g) /\ t \in R /\ y = g[t]
    BY <2>1
  <2>3. \E y \in V : \E R, g : Right(R, g) /\ t \in R /\ y = g[t]
    BY <1>3, <2>1
  <2> DEFINE y == h[t]
  <2>4. PICK R, g : Right(R, g) /\ t \in R /\ y = g[t]
    <3> HIDE DEF Right, C, h
    <3> QED BY <2>2, <2>3
  <2> HIDE DEF Right, C, h
  <2>5. f[t] = g[t]
    BY <1>2, <1>3, <2>4
  <2> QED BY <2>1, <2>4, <2>5
<1>4. h \in [D -> V]
  <2>1. ASSUME NEW t \in C
        PROVE  (CHOOSE y \in V : \E S, f : Right(S, f) /\ t \in S /\ y = f[t]) \in V
    <3>1. \E y \in V : \E S, f : Right(S, f) /\ t \in S /\ y = f[t]
      BY <2>1
    <3> HIDE DEF Right
    <3> QED BY <3>1
  <2>2. (CHOOSE y \in V : TRUE) \in V
    OBVIOUS
  <2> QED BY <2>1, <2>2
<1>5. \A t \in C : next[t] \subseteq C /\ h[t] = step[<<t, h>>]
  <2> TAKE t \in C
  <2>1. PICK S, f : Right(S, f) /\ t \in S
    OBVIOUS
  <2>2. /\ t \in D /\ next[t] \subseteq S /\ f[t] = step[<<t, f>>] /\ f \in [D -> V]
    BY <2>1
  <2> HIDE DEF C, h, Right
  <2>3. \A u \in S : u \in C /\ h[u] = f[u]
    BY <1>3, <2>1
  <2>4. step[<<t, h>>] = step[<<t, f>>]
    BY <1>0, <1>4, <2>2, <2>3
  <2> QED BY <2>1, <2>2, <2>3, <2>4
<1>6. C = D
  <2>1. SUFFICES ASSUME D \ C # {} PROVE FALSE
    OBVIOUS
  <2>2. PICK t \in D \ C : next[t] \cap (D \ C) = {}
    <3> HIDE DEF C
    <3> QED BY <2>1 DEF Descends
  <2> DEFINE value == step[<<t, h>>]
             g == [x \in D |-> IF x = t THEN value ELSE h[x]]
             S == C \cup {t}
  <2>3. t \in D /\ t \notin C /\ next[t] \subseteq C /\ value \in V
    <3> HIDE DEF C, h
    <3> QED BY <1>0, <1>1, <1>4, <2>2
  <2> HIDE DEF value
  <2>4. g \in [D -> V] /\ g[t] = value /\ \A x \in C : g[x] = h[x]
    <3>1. C \subseteq D
      OBVIOUS
    <3> HIDE DEF C, h
    <3> QED BY <1>4, <2>3, <3>1
  <2> HIDE DEF g
  <2>5. Right(S, g)
    <3>1. C \subseteq D
      OBVIOUS
    <3> HIDE DEF C, h
    <3>2. ASSUME NEW x \in S PROVE next[x] \subseteq S /\ g[x] = step[<<x, g>>]
      <4>1. CASE x \in C
        <5>1. next[x] \subseteq C /\ \A u \in next[x] : g[u] = h[u]
          BY <1>5, <2>4, <4>1
        <5>2. step[<<x, g>>] = step[<<x, h>>]
          BY <1>0, <1>4, <2>4, <3>1, <4>1, <5>1
        <5> QED BY <1>5, <2>4, <4>1, <5>1, <5>2
      <4>2. CASE x = t
        <5>1. \A u \in next[x] : g[u] = h[u]
          BY <2>3, <2>4, <4>2
        <5>2. step[<<x, g>>] = value
          BY <1>0, <1>4, <2>3, <2>4, <4>2, <5>1 DEF value
        <5> QED BY <2>3, <2>4, <4>2, <5>2
      <4> QED BY <3>2, <4>1, <4>2
    <3> QED BY <2>3, <2>4, <3>1, <3>2
  <2>6. t \in C
    BY <2>3, <2>5
  <2> QED BY <2>3, <2>6
<1> HIDE DEF C, h
<1> QED BY <1>4, <1>5, <1>6 DEF Solvable

\* What holds of an argument when it holds of all that its value needs holds of
\* all of D.
LEMMA Descent ==
  ASSUME NEW D, NEW next, Descends(next, D), NEW G,
         \A t \in D : next[t] \subseteq G => t \in G
  PROVE  D \subseteq G
<1>1. SUFFICES ASSUME D \ G # {} PROVE FALSE
  OBVIOUS
<1>2. PICK t \in D \ G : next[t] \cap (D \ G) = {}
  BY <1>1 DEF Descends
<1>3. next[t] \subseteq D
  BY <1>2 DEF Descends
<1> QED BY <1>2, <1>3

\* Counting up from zero.
Downwards(n) == [k \in 0 .. n |-> IF k = 0 THEN {} ELSE {k - 1}]

LEMMA CountsDown ==
  ASSUME NEW n \in Nat
  PROVE  Descends(Downwards(n), 0 .. n)
<1>1. Downwards(n) \in [0 .. n -> SUBSET (0 .. n)]
  BY DEF Downwards
<1>2. ASSUME NEW T \in SUBSET (0 .. n), T # {} PROVE \E t \in T : Downwards(n)[t] \cap T = {}
  <2>1. PICK t \in T : \A m \in T : t <= m
    <3>1. T \subseteq Nat
      OBVIOUS
    <3> QED BY <1>2, <3>1, Least
  <2>2. t \in 0 .. n /\ Downwards(n)[t] \subseteq {t - 1}
    BY DEF Downwards
  <2>3. t - 1 \notin T
    BY <2>1, <2>2
  <2> QED BY <2>2, <2>3
<1> QED BY <1>1, <1>2 DEF Descends

LEMMA CountUp ==
  ASSUME NEW n \in Nat, NEW G, 0 \in G, \A k \in 1 .. n : k - 1 \in G => k \in G
  PROVE  0 .. n \subseteq G
<1>1. ASSUME NEW k \in 0 .. n, Downwards(n)[k] \subseteq G PROVE k \in G
  <2>1. CASE k = 0
    BY <2>1
  <2>2. CASE k # 0
    <3>1. k \in 1 .. n /\ k - 1 \in Downwards(n)[k]
      BY <2>2 DEF Downwards
    <3> QED BY <1>1, <3>1
  <2> QED BY <2>1, <2>2
<1>2. Descends(Downwards(n), 0 .. n)
  BY CountsDown
<1> QED
  <2> DEFINE D == 0 .. n
             next == Downwards(n)
  <2>1. Descends(next, D) /\ \A t \in D : next[t] \subseteq G => t \in G
    BY <1>1, <1>2
  <2> HIDE DEF D, next
  <2>2. D \subseteq G
    BY <2>1, Descent
  <2> QED BY <2>2 DEF D

-----------------------------------------------------------------------------
\* Sequences as stacks, the top at the end: what lies underneath it, and the stack
\* with another top.  The models write both with SubSeq.

\* The stack without its top.
LEMMA Underneath ==
  ASSUME NEW S, NEW s \in Seq(S), s # << >>
  PROVE  LET below == SubSeq(s, 1, Len(s) - 1)
         IN  /\ Len(s) \in Nat /\ Len(s) >= 1
             /\ below \in Seq(S) /\ Len(below) = Len(s) - 1
             /\ \A d \in 1 .. Len(s) - 1 : below[d] = s[d]
<1> DEFINE n == Len(s)
<1>1. n \in Nat /\ n >= 1 /\ n - 1 \in Int
  OBVIOUS
<1>2. \A d \in 1 .. n - 1 : s[d] \in S
  BY <1>1, ElementOfSeq
<1> HIDE DEF n
<1>3. /\ SubSeq(s, 1, n - 1) \in Seq(S)
      /\ Len(SubSeq(s, 1, n - 1)) = IF 1 <= n - 1 THEN (n - 1) - 1 + 1 ELSE 0
      /\ \A d \in 1 .. (n - 1) - 1 + 1 : SubSeq(s, 1, n - 1)[d] = s[1 + d - 1]
  BY <1>1, <1>2, SubSeqProperties
<1>4. /\ Len(SubSeq(s, 1, n - 1)) = n - 1
      /\ \A d \in 1 .. n - 1 : SubSeq(s, 1, n - 1)[d] = s[d]
  BY <1>1, <1>3
<1> QED BY <1>1, <1>3, <1>4 DEF n

\* The stack with another top.
LEMMA OtherTop ==
  ASSUME NEW S, NEW s \in Seq(S), s # << >>, NEW x \in S
  PROVE  LET t == Append(SubSeq(s, 1, Len(s) - 1), x)
         IN  /\ t \in Seq(S) /\ t # << >> /\ Len(t) = Len(s) /\ t[Len(s)] = x
             /\ \A d \in 1 .. Len(s) - 1 : t[d] = s[d]
<1> DEFINE below == SubSeq(s, 1, Len(s) - 1)
<1>1. /\ Len(s) \in Nat /\ Len(s) >= 1 /\ below \in Seq(S) /\ Len(below) = Len(s) - 1
      /\ \A d \in 1 .. Len(s) - 1 : below[d] = s[d]
  BY Underneath
<1> HIDE DEF below
<1>2. /\ Append(below, x) \in Seq(S) /\ Len(Append(below, x)) = Len(s)
      /\ Append(below, x)[Len(s)] = x
      /\ \A d \in 1 .. Len(s) - 1 : Append(below, x)[d] = s[d]
  BY <1>1
<1>3. Append(below, x) # << >>
  BY <1>1, <1>2
<1> QED BY <1>2, <1>3 DEF below

\* A top put on a stack and taken off again.
LEMMA FrontOfAppend ==
  ASSUME NEW S, NEW s \in Seq(S), NEW x \in S
  PROVE  SubSeq(Append(s, x), 1, Len(Append(s, x)) - 1) = s
<1> DEFINE t == Append(s, x)
           u == SubSeq(t, 1, Len(t) - 1)
<1>1. /\ t \in Seq(S) /\ t # << >> /\ Len(t) = Len(s) + 1 /\ Len(s) \in Nat
      /\ \A d \in 1 .. Len(s) : t[d] = s[d]
  OBVIOUS
<1> HIDE DEF t
<1>2. u \in Seq(S) /\ Len(u) = Len(s) /\ \A d \in 1 .. Len(s) : u[d] = t[d]
  BY <1>1, Underneath
<1> HIDE DEF u
<1>3. u = s
  BY <1>1, <1>2, SeqEqual
<1> QED BY <1>3 DEF u, t
=============================================================================
