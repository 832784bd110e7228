-------------------------- MODULE StatementProofs --------------------------
(***************************************************************************)
(* What the proofs about sessions rest on.  First induction over the       *)
(* naturals, as a fact about a set instead of about a predicate: a set     *)
(* with 0 that has the successor of each of its members has every natural  *)
(* number.  The proofs about recursive functions use it, and so do those   *)
(* about sequences that follow from it.  Then the types of statements and  *)
(* texts, and which records the texts of a statement let through.          *)
(***************************************************************************)
EXTENDS Statement, WellFoundedInduction, FiniteSetTheorems, TLAPS

\* The order of the naturals, as the relation that WellFoundedInduction speaks of.
LEMMA NatRel == \A x, y \in Nat : x < y <=> <<x, y>> \in OpToRel(<, Nat)
BY DEF OpToRel

\* Induction over the naturals, as a fact about a set: otherwise the least natural number
\* that is missing has a predecessor that is not.
LEMMA SetInduction ==
    ASSUME NEW S, 0 \in S, \A n \in Nat : n \in S => n + 1 \in S
    PROVE  Nat \subseteq S
<1> SUFFICES ASSUME Nat \ S # {} PROVE FALSE
    OBVIOUS
<1> DEFINE T == Nat \ S
           R == OpToRel(<, Nat)
<1>1. IsWellFoundedOn(R, Nat)
    BY NatLessThanWellFounded
<1>2. T \subseteq Nat /\ T # {}
    OBVIOUS
<1> HIDE DEF R, T
<1>3. PICK x \in T : \A y \in T : ~ (<<y, x>> \in R)
    BY <1>1, <1>2, WFMin
<1>4. x \in Nat /\ x \notin S /\ x # 0
    BY <1>3 DEF T
<1>5. x - 1 \in Nat /\ x - 1 < x
    BY <1>4
<1>6. x - 1 \in T
    BY <1>4, <1>5 DEF T
<1>7. <<x - 1, x>> \in R
    BY <1>4, <1>5, NatRel DEF R
<1> QED
    BY <1>3, <1>6, <1>7

-----------------------------------------------------------------------------
\* A function on 0..N that starts with b and goes on by G.
Recursive(g, b, N, G) == g = [n \in 0 .. N |-> IF n = 0 THEN b ELSE G[<<g[n - 1], n>>]]

\* It exists, and stays in a set V that G does not leave.
LEMMA RecursionExists ==
    ASSUME NEW V, NEW b \in V, NEW N \in Nat, NEW G,
           \A v \in V, n \in 1 .. N : G[<<v, n>>] \in V
    PROVE  \E g : Recursive(g, b, N, G) /\ \A n \in 0 .. N : g[n] \in V
<1> DEFINE Rec(g, n) == IF n = 0 THEN b ELSE G[<<g[n - 1], n>>]
           P == {m \in Nat : m <= N => \E g : /\ g = [n \in 0 .. m |-> Rec(g, n)]
                                              /\ \A n \in 0 .. m : g[n] \in V}
<1>1. 0 \in P
  <2> DEFINE g == [n \in 0 .. 0 |-> b]
  <2>1. g = [n \in 0 .. 0 |-> Rec(g, n)] /\ \A n \in 0 .. 0 : g[n] \in V
    OBVIOUS
  <2> QED
    BY <2>1
<1>2. ASSUME NEW m \in Nat, m \in P PROVE m + 1 \in P
  <2> SUFFICES ASSUME m + 1 <= N
               PROVE  \E g : /\ g = [n \in 0 .. m + 1 |-> Rec(g, n)]
                             /\ \A n \in 0 .. m + 1 : g[n] \in V
    OBVIOUS
  <2>1. PICK g : g = [n \in 0 .. m |-> Rec(g, n)] /\ \A n \in 0 .. m : g[n] \in V
    BY <1>2
  <2> DEFINE h == [n \in 0 .. m + 1 |-> IF n <= m THEN g[n] ELSE G[<<g[m], m + 1>>]]
  <2>2. ASSUME NEW n \in 0 .. m + 1 PROVE h[n] = Rec(h, n) /\ h[n] \in V
    <3>1. n # 0 => n - 1 \in 0 .. m /\ h[n - 1] = g[n - 1]
      OBVIOUS
    <3>2. CASE n <= m
      <4>1. h[n] = g[n] /\ g[n] = Rec(g, n) /\ g[n] \in V
        BY <2>1, <3>2
      <4> HIDE DEF h
      <4> QED
        BY <3>1, <4>1
    <3>3. CASE n = m + 1
      <4>1. h[n] = G[<<g[m], m + 1>>] /\ g[m] \in V /\ m + 1 \in 1 .. N
        BY <2>1, <3>3
      <4> HIDE DEF h
      <4> QED
        BY <3>1, <3>3, <4>1
    <3> QED
      BY <3>2, <3>3
  <2>3. h = [n \in 0 .. m + 1 |-> h[n]]
    OBVIOUS
  <2> HIDE DEF h
  <2>4. h = [n \in 0 .. m + 1 |-> Rec(h, n)]
    BY <2>2, <2>3
  <2> QED
    BY <2>2, <2>4
<1> HIDE DEF P
<1>3. N \in P
    BY <1>1, <1>2, SetInduction
<1> QED
    BY <1>3 DEF P, Recursive

\* Functions that start alike and go on alike are the same.
LEMMA RecursionUnique ==
    ASSUME NEW N \in Nat, NEW f, NEW g, f[0] = g[0],
           \A n \in 1 .. N : f[n - 1] = g[n - 1] => f[n] = g[n]
    PROVE  \A n \in 0 .. N : f[n] = g[n]
<1> DEFINE P == {n \in Nat : n <= N => f[n] = g[n]}
<1>1. 0 \in P
    OBVIOUS
<1>2. ASSUME NEW n \in Nat, n \in P PROVE n + 1 \in P
  <2> SUFFICES ASSUME n + 1 <= N PROVE f[n + 1] = g[n + 1]
    OBVIOUS
  <2>1. n + 1 \in 1 .. N /\ (n + 1) - 1 = n /\ f[n] = g[n]
    BY <1>2
  <2> QED
    BY <2>1
<1> HIDE DEF P
<1>3. Nat \subseteq P
    BY <1>1, <1>2, SetInduction
<1> QED
    BY <1>3 DEF P

-----------------------------------------------------------------------------
(* Sequences: in order, reversed, joined.                                   *)

LEMMA ReverseProps ==
    ASSUME NEW T, NEW s \in Seq(T)
    PROVE  Reverse(s) \in Seq(T) /\ Range(Reverse(s)) \subseteq Range(s)
<1>1. Len(s) \in Nat /\ DOMAIN s = 1 .. Len(s)
    OBVIOUS
<1>2. Reverse(s) = [i \in 1 .. Len(s) |-> s[(Len(s) - i) + 1]]
    BY DEF Reverse
<1>3. \A i \in 1 .. Len(s) : (Len(s) - i) + 1 \in 1 .. Len(s)
    BY <1>1
<1>4. \A i \in 1 .. Len(s) : s[(Len(s) - i) + 1] \in T
    BY <1>1, <1>3
<1>5. Reverse(s) \in Seq(T)
    BY <1>1, <1>2, <1>4
<1> QED
    BY <1>1, <1>2, <1>3, <1>5 DEF Range

Up(s) == \A i, j \in DOMAIN s : i < j => s[i] < s[j]
Down(s) == \A i, j \in DOMAIN s : i < j => s[i] > s[j]

\* Sequences in the same order with the same elements agree on every prefix.
LEMMA UpPrefix ==
    ASSUME NEW s \in Seq(Int), NEW t \in Seq(Int), Range(s) = Range(t),
           (Up(s) /\ Up(t)) \/ (Down(s) /\ Down(t))
    PROVE  Len(s) <= Len(t) /\ \A i \in 1 .. Len(s) : s[i] = t[i]
<1>1. /\ Len(s) \in Nat /\ Len(t) \in Nat /\ DOMAIN s = 1 .. Len(s) /\ DOMAIN t = 1 .. Len(t)
      /\ \A i \in 1 .. Len(s) : s[i] \in Int
      /\ \A i \in 1 .. Len(t) : t[i] \in Int
    OBVIOUS
<1> DEFINE P == {n \in Nat : n <= Len(s) => n <= Len(t) /\ \A i \in 1 .. n : s[i] = t[i]}
<1>2. 0 \in P
    BY <1>1
<1>3. ASSUME NEW n \in Nat, n \in P PROVE n + 1 \in P
  <2> SUFFICES ASSUME n + 1 <= Len(s)
               PROVE  n + 1 <= Len(t) /\ s[n + 1] = t[n + 1]
    BY <1>3
  <2>1. n <= Len(t) /\ \A i \in 1 .. n : s[i] = t[i]
    BY <1>1, <1>3
  <2>2. n + 1 \in DOMAIN s
    BY <1>1
  <2>3. PICK j \in DOMAIN t : t[j] = s[n + 1]
    BY <2>2 DEF Range
  <2>4. j \in Nat /\ ~(j <= n)
    <3> SUFFICES ASSUME j <= n PROVE FALSE
      BY <1>1
    <3>1. s[j] = s[n + 1] /\ j \in DOMAIN s /\ j < n + 1
      BY <1>1, <2>1, <2>3
    <3>2. s[j] \in Int
      BY <1>1, <3>1
    <3> QED
      BY <2>2, <3>1, <3>2 DEF Up, Down
  <2>5. n + 1 \in DOMAIN t /\ n + 1 <= Len(t)
    BY <1>1, <2>3, <2>4
  <2>6. PICK k \in DOMAIN s : s[k] = t[n + 1]
    BY <2>5 DEF Range
  <2>7. k \in Nat /\ ~(k <= n)
    <3> SUFFICES ASSUME k <= n PROVE FALSE
      BY <1>1
    <3>1. t[k] = t[n + 1] /\ k \in DOMAIN t /\ k < n + 1
      BY <1>1, <2>1, <2>5, <2>6
    <3>2. t[k] \in Int
      BY <1>1, <3>1
    <3> QED
      BY <2>5, <3>1, <3>2 DEF Up, Down
  <2>8. s[n + 1] \in Int /\ t[n + 1] \in Int /\ s[k] \in Int /\ t[j] \in Int
    BY <1>1, <2>2, <2>3, <2>5, <2>6
  <2>9. n + 1 = j \/ n + 1 < j
    BY <2>4
  <2>10. n + 1 = k \/ n + 1 < k
    BY <2>7
  <2>11. CASE Up(s) /\ Up(t)
    <3>1. s[n + 1] <= s[k]
      BY <2>2, <2>6, <2>8, <2>10, <2>11 DEF Up
    <3>2. t[n + 1] <= t[j]
      BY <2>3, <2>5, <2>8, <2>9, <2>11 DEF Up
    <3> QED
      BY <2>3, <2>5, <2>6, <2>8, <3>1, <3>2
  <2>12. CASE Down(s) /\ Down(t)
    <3>1. s[n + 1] >= s[k]
      BY <2>2, <2>6, <2>8, <2>10, <2>12 DEF Down
    <3>2. t[n + 1] >= t[j]
      BY <2>3, <2>5, <2>8, <2>9, <2>12 DEF Down
    <3> QED
      BY <2>3, <2>5, <2>6, <2>8, <3>1, <3>2
  <2> QED
    BY <2>11, <2>12
<1> HIDE DEF P
<1>4. Nat \subseteq P
    BY <1>2, <1>3, SetInduction
<1> QED
    BY <1>1, <1>4 DEF P

\* A sequence is determined by its elements and their order.
LEMMA OrderDetermines ==
    ASSUME NEW s \in Seq(Int), NEW t \in Seq(Int), Range(s) = Range(t),
           (Up(s) /\ Up(t)) \/ (Down(s) /\ Down(t))
    PROVE  s = t
<1>1. Len(s) <= Len(t) /\ \A i \in 1 .. Len(s) : s[i] = t[i]
    BY UpPrefix
<1>2. Len(t) <= Len(s)
    BY UpPrefix
<1> QED
    BY <1>1, <1>2

LEMMA OrderInjective ==
    ASSUME NEW s \in Seq(Int), Up(s) \/ Down(s)
    PROVE  IsInjective(s)
<1>1. /\ Len(s) \in Nat /\ DOMAIN s = 1 .. Len(s) /\ \A i \in 1 .. Len(s) : s[i] \in Int
    OBVIOUS
<1>2. ASSUME NEW i \in DOMAIN s, NEW j \in DOMAIN s, s[i] = s[j], i # j PROVE FALSE
  <2>1. i < j \/ j < i
    BY <1>1, <1>2
  <2> QED
    BY <1>1, <1>2, <2>1 DEF Up, Down
<1> QED
    BY <1>2 DEF IsInjective

\* The number of elements of a sequence without duplicates.
LEMMA InjectiveLen ==
    ASSUME NEW T, NEW s \in Seq(T), IsInjective(s)
    PROVE  Cardinality(Range(s)) = Len(s)
<1>1. Len(s) \in Nat /\ DOMAIN s = 1 .. Len(s)
    OBVIOUS
<1>2. s \in [1 .. Len(s) -> Range(s)]
    BY <1>1 DEF Range
<1>3. s \in Bijection(1 .. Len(s), Range(s))
    BY <1>1, <1>2 DEF Bijection, Injection, Surjection, IsInjective, Range
<1> QED
    BY <1>1, <1>3, FS_CountingElements DEF ExistsBijection

LEMMA ReverseOrder ==
    ASSUME NEW s \in Seq(Int)
    PROVE  /\ Reverse(s) \in Seq(Int) /\ Len(Reverse(s)) = Len(s)
           /\ Range(Reverse(s)) = Range(s) /\ (Up(s) => Down(Reverse(s)))
<1>1. /\ Len(s) \in Nat /\ DOMAIN s = 1 .. Len(s) /\ \A i \in 1 .. Len(s) : s[i] \in Int
    OBVIOUS
<1> DEFINE r == Reverse(s)
<1>2. r = [i \in 1 .. Len(s) |-> s[(Len(s) - i) + 1]]
    BY DEF Reverse
<1>3. \A i \in 1 .. Len(s) : (Len(s) - i) + 1 \in 1 .. Len(s)
    BY <1>1
<1>4. DOMAIN r = 1 .. Len(s) /\ \A i \in 1 .. Len(s) : r[i] = s[(Len(s) - i) + 1]
    BY <1>2
<1>5. r \in Seq(Int) /\ Len(r) = Len(s)
    BY <1>1, <1>2, <1>3
<1> HIDE DEF r
<1>6. \A i \in 1 .. Len(s) : s[i] = r[(Len(s) - i) + 1]
  <2>1. \A i \in 1 .. Len(s) : (Len(s) - ((Len(s) - i) + 1)) + 1 = i
    BY <1>1
  <2> QED
    BY <1>3, <1>4, <2>1
<1>7. Range(r) = Range(s)
  <2>1. \A i \in DOMAIN r : \E j \in DOMAIN s : r[i] = s[j]
    BY <1>1, <1>3, <1>4
  <2>2. \A i \in DOMAIN s : \E j \in DOMAIN r : s[i] = r[j]
    BY <1>1, <1>3, <1>4, <1>6
  <2> QED
    BY <2>1, <2>2 DEF Range
<1>8. ASSUME Up(s), NEW i \in 1 .. Len(s), NEW j \in 1 .. Len(s), i < j PROVE r[i] > r[j]
  <2>1. (Len(s) - j) + 1 < (Len(s) - i) + 1
    BY <1>1, <1>8
  <2>2. s[(Len(s) - j) + 1] < s[(Len(s) - i) + 1]
    BY <1>1, <1>3, <1>8, <2>1 DEF Up
  <2>3. r[i] \in Int /\ r[j] \in Int
    BY <1>1, <1>3, <1>4
  <2> QED
    BY <1>4, <2>2, <2>3
<1>9. Up(s) => Down(r)
    BY <1>4, <1>8 DEF Down
<1> QED
    BY <1>5, <1>7, <1>9 DEF r

\* FlattenSeq, as the function it is defined by.
LEMMA Flattened ==
    ASSUME NEW T, NEW q \in Seq(Seq(T)), Len(q) # 0
    PROVE  \E f : /\ FlattenSeq(q) = f[Len(q)] /\ f[1] = q[1]
                  /\ \A n \in 1 .. Len(q) : f[n] \in Seq(T)
                  /\ \A n \in 2 .. Len(q) : f[n] = f[n - 1] \o q[n]
<1> DEFINE N == Len(q) - 1
           G == [p \in Seq(T) \X (1 .. N) |-> p[1] \o q[p[2] + 1]]
           flatten == CHOOSE f : f = [i \in 1 .. Len(q) |->
                                        IF i = 1 THEN q[i] ELSE f[i - 1] \o q[i]]
<1>1. N \in Nat /\ Len(q) = N + 1 /\ \A n \in 1 .. N + 1 : q[n] \in Seq(T)
    OBVIOUS
<1>2. q[1] \in Seq(T) /\ \A n \in 1 .. N : q[n + 1] \in Seq(T)
    BY <1>1
<1>3. FlattenSeq(q) = flatten[Len(q)]
    BY DEF FlattenSeq
<1> HIDE DEF N
<1>4. ASSUME NEW v \in Seq(T), NEW n \in 1 .. N
      PROVE  G[<<v, n>>] = v \o q[n + 1] /\ v \o q[n + 1] \in Seq(T)
  <2> DEFINE p == <<v, n>>
  <2>1. p \in Seq(T) \X (1 .. N) /\ p[1] = v /\ p[2] = n
    OBVIOUS
  <2> HIDE DEF p
  <2>2. G[p] = p[1] \o q[p[2] + 1]
    BY <2>1
  <2>3. G[p] = v \o q[n + 1]
    BY <2>1, <2>2
  <2>4. v \o q[n + 1] \in Seq(T)
    BY <1>2
  <2> QED
    BY <2>3, <2>4 DEF p
<1> HIDE DEF G
<1>5. PICK g : Recursive(g, q[1], N, G) /\ \A n \in 0 .. N : g[n] \in Seq(T)
  <2> DEFINE V == Seq(T)
  <2>1. q[1] \in V /\ \A v \in V, n \in 1 .. N : G[<<v, n>>] \in V
    BY <1>2, <1>4
  <2> HIDE DEF V
  <2>2. \E g : Recursive(g, q[1], N, G) /\ \A n \in 0 .. N : g[n] \in V
    BY <1>1, <2>1, RecursionExists
  <2> QED
    BY <2>2 DEF V
<1>6. g[0] = q[1] /\ \A n \in 1 .. N : g[n] = g[n - 1] \o q[n + 1]
  <2>1. g = [n \in 0 .. N |-> IF n = 0 THEN q[1] ELSE G[<<g[n - 1], n>>]]
    BY <1>5 DEF Recursive
  <2>2. g[0] = q[1] /\ \A n \in 1 .. N : g[n] = G[<<g[n - 1], n>>]
    BY <1>1, <2>1
  <2>3. \A n \in 1 .. N : n - 1 \in 0 .. N
    BY <1>1
  <2> QED
    BY <1>4, <1>5, <2>2, <2>3
<1> DEFINE h == [n \in 1 .. Len(q) |-> g[n - 1]]
           body == [i \in 1 .. Len(q) |-> IF i = 1 THEN q[i] ELSE h[i - 1] \o q[i]]
<1>7. ASSUME NEW n \in 2 .. Len(q)
      PROVE  h[n] = g[n - 1] /\ h[n - 1] = g[n - 2] /\ n - 1 \in 1 .. N
                               /\ (n - 1) - 1 = n - 2 /\ (n - 1) + 1 = n
  <2>1. n \in 1 .. Len(q) /\ n - 1 \in 1 .. Len(q) /\ n - 1 \in 1 .. N
        /\ (n - 1) - 1 = n - 2 /\ (n - 1) + 1 = n
    BY <1>1
  <2>2. h[n] = g[n - 1] /\ h[n - 1] = g[(n - 1) - 1]
    BY <2>1
  <2> HIDE DEF h
  <2> QED
    BY <2>1, <2>2
<1>8. h[1] = q[1]
  <2>1. 1 \in 1 .. Len(q) /\ 1 - 1 = 0
    BY <1>1
  <2> QED
    BY <1>6, <2>1
<1>9. ASSUME NEW n \in 2 .. Len(q) PROVE h[n] = h[n - 1] \o q[n]
  <2> HIDE DEF h
  <2>1. g[n - 1] = g[(n - 1) - 1] \o q[(n - 1) + 1]
    BY <1>6, <1>7
  <2> QED
    BY <1>7, <2>1
<1>10. h = body
  <2>1. ASSUME NEW i \in 1 .. Len(q)
        PROVE  h[i] = IF i = 1 THEN q[i] ELSE h[i - 1] \o q[i]
    <3> HIDE DEF h
    <3>1. i = 1 \/ i \in 2 .. Len(q)
      BY <1>1
    <3> QED
      BY <1>8, <1>9, <3>1
  <2>2. h = [i \in 1 .. Len(q) |-> h[i]]
    OBVIOUS
  <2> HIDE DEF h
  <2> QED
    BY <2>1, <2>2
<1> HIDE DEF h
<1>11. flatten = [i \in 1 .. Len(q) |-> IF i = 1 THEN q[i] ELSE flatten[i - 1] \o q[i]]
    BY <1>10
<1> HIDE DEF flatten
<1>12. flatten[1] = q[1] /\ \A n \in 2 .. Len(q) : flatten[n] = flatten[n - 1] \o q[n]
  <2>1. 1 \in 1 .. Len(q) /\ \A n \in 2 .. Len(q) : n \in 1 .. Len(q) /\ n # 1
    BY <1>1
  <2> QED
    BY <1>11, <2>1
<1> DEFINE P == {n \in Nat : n + 1 <= Len(q) => flatten[n + 1] \in Seq(T)}
<1>13. 0 \in P
    BY <1>2, <1>12
<1>14. ASSUME NEW n \in Nat, n \in P PROVE n + 1 \in P
  <2> SUFFICES ASSUME (n + 1) + 1 <= Len(q) PROVE flatten[(n + 1) + 1] \in Seq(T)
    BY <1>1
  <2>1. (n + 1) + 1 \in 2 .. Len(q) /\ ((n + 1) + 1) - 1 = n + 1 /\ flatten[n + 1] \in Seq(T)
        /\ n + 1 \in 1 .. N
    BY <1>1, <1>14
  <2>2. flatten[(n + 1) + 1] = flatten[n + 1] \o q[(n + 1) + 1]
    BY <1>12, <2>1
  <2> QED
    BY <1>2, <2>1, <2>2
<1> HIDE DEF P
<1>15. \A n \in Nat : n \in P
    BY <1>13, <1>14, SetInduction
<1>16. \A n \in 1 .. Len(q) : flatten[n] \in Seq(T)
  <2>1. \A n \in 1 .. Len(q) : n - 1 \in Nat /\ (n - 1) + 1 = n /\ n <= Len(q)
    BY <1>1
  <2> QED
    BY <1>15, <2>1 DEF P
<1> QED
    BY <1>3, <1>12, <1>16

\* What is put together from lists without a common element, each without a repetition,
\* is without one.
LEMMA JoinedOnce ==
    ASSUME NEW T, NEW a \in Seq(T), NEW b \in Seq(T), IsInjective(a), IsInjective(b),
           \A x \in Range(a) : x \notin Range(b)
    PROVE  /\ a \o b \in Seq(T) /\ IsInjective(a \o b)
           /\ Range(a \o b) = Range(a) \cup Range(b)
<1> DEFINE w == a \o b
<1>1. /\ Len(a) \in Nat /\ Len(b) \in Nat /\ DOMAIN w = 1 .. Len(a) + Len(b)
      /\ DOMAIN a = 1 .. Len(a) /\ DOMAIN b = 1 .. Len(b) /\ w \in Seq(T)
    OBVIOUS
<1>2. ASSUME NEW i \in DOMAIN w
      PROVE  \/ i \in DOMAIN a /\ w[i] = a[i]
             \/ i - Len(a) \in DOMAIN b /\ w[i] = b[i - Len(a)]
    BY <1>1
<1>3. \A i \in DOMAIN a : i \in DOMAIN w /\ w[i] = a[i]
    BY <1>1
<1>4. \A i \in DOMAIN b : Len(a) + i \in DOMAIN w /\ w[Len(a) + i] = b[i]
    BY <1>1
<1> HIDE DEF w
<1>5. Range(w) = Range(a) \cup Range(b)
    BY <1>2, <1>3, <1>4 DEF Range
<1>6. ASSUME NEW i \in DOMAIN w, NEW j \in DOMAIN w, w[i] = w[j] PROVE i = j
  <2>1. CASE i \in DOMAIN a /\ w[i] = a[i] /\ j \in DOMAIN a /\ w[j] = a[j]
    BY <1>6, <2>1 DEF IsInjective
  <2>2. CASE /\ i - Len(a) \in DOMAIN b /\ w[i] = b[i - Len(a)]
             /\ j - Len(a) \in DOMAIN b /\ w[j] = b[j - Len(a)]
    <3>1. i - Len(a) = j - Len(a)
      BY <1>6, <2>2 DEF IsInjective
    <3> QED
      BY <1>1, <3>1
  <2>3. CASE /\ i \in DOMAIN a /\ w[i] = a[i]
             /\ j - Len(a) \in DOMAIN b /\ w[j] = b[j - Len(a)]
    <3>1. w[i] \in Range(a) /\ w[j] \in Range(b)
      BY <2>3 DEF Range
    <3> QED
      BY <1>6, <3>1
  <2>4. CASE /\ j \in DOMAIN a /\ w[j] = a[j]
             /\ i - Len(a) \in DOMAIN b /\ w[i] = b[i - Len(a)]
    <3>1. w[j] \in Range(a) /\ w[i] \in Range(b)
      BY <2>4 DEF Range
    <3> QED
      BY <1>6, <3>1
  <2> QED
    BY <1>2, <2>1, <2>2, <2>3, <2>4
<1>7. IsInjective(w)
    BY <1>6 DEF IsInjective
<1> QED
    BY <1>1, <1>5, <1>7 DEF w

LEMMA FlattenedOnce ==
    ASSUME NEW T, NEW q \in Seq(Seq(T)), \A i \in DOMAIN q : IsInjective(q[i]),
           \A i, j \in DOMAIN q : i # j => \A x \in Range(q[i]) : x \notin Range(q[j])
    PROVE  IsInjective(FlattenSeq(q))
<1>1. CASE Len(q) = 0
  <2>1. DOMAIN q = {} /\ FlattenSeq(q) = q
    BY <1>1 DEF FlattenSeq
  <2> QED
    BY <2>1 DEF IsInjective
<1>2. CASE Len(q) # 0
  <2>1. PICK f : /\ FlattenSeq(q) = f[Len(q)] /\ f[1] = q[1]
                 /\ \A n \in 1 .. Len(q) : f[n] \in Seq(T)
                 /\ \A n \in 2 .. Len(q) : f[n] = f[n - 1] \o q[n]
    BY <1>2, Flattened
  <2>2. /\ Len(q) \in Nat /\ 1 <= Len(q) /\ DOMAIN q = 1 .. Len(q)
        /\ \A n \in 1 .. Len(q) : q[n] \in Seq(T)
    BY <1>2
  <2> DEFINE P == {n \in Nat : n + 1 <= Len(q) =>
                     /\ IsInjective(f[n + 1])
                     /\ \A x \in Range(f[n + 1]) : \E j \in 1 .. n + 1 : x \in Range(q[j])}
  <2>3. 0 \in P
    <3>1. 1 \in DOMAIN q /\ 0 + 1 = 1 /\ 1 \in 1 .. 1
      BY <2>2
    <3> QED
      BY <2>1, <3>1
  <2>4. ASSUME NEW n \in Nat, n \in P PROVE n + 1 \in P
    <3> DEFINE m == n + 1
               a == f[m]
               b == q[m + 1]
    <3> SUFFICES ASSUME m + 1 <= Len(q)
                 PROVE  /\ IsInjective(f[m + 1])
                        /\ \A x \in Range(f[m + 1]) : \E j \in 1 .. m + 1 : x \in Range(q[j])
      BY <2>2
    <3>1. /\ m \in Nat /\ m \in 1 .. Len(q) /\ m + 1 \in 2 .. Len(q) /\ m + 1 \in 1 .. Len(q)
          /\ (m + 1) - 1 = m
      BY <2>2
    <3>2. /\ IsInjective(a) /\ a \in Seq(T)
          /\ \A x \in Range(a) : \E j \in 1 .. m : x \in Range(q[j])
      BY <2>1, <2>4, <3>1
    <3>3. IsInjective(b) /\ b \in Seq(T) /\ f[m + 1] = a \o b
      BY <2>1, <2>2, <3>1
    <3>4. \A j \in 1 .. m : j \in DOMAIN q /\ m + 1 \in DOMAIN q /\ j # m + 1 /\ j \in 1 .. m + 1
      BY <2>2, <3>1
    <3>5. \A x \in Range(a) : x \notin Range(b)
      BY <3>2, <3>4
    <3> HIDE DEF a, b
    <3>6. IsInjective(a \o b) /\ Range(a \o b) = Range(a) \cup Range(b)
      BY <3>2, <3>3, <3>5, JoinedOnce
    <3>7. ASSUME NEW x \in Range(a \o b) PROVE \E j \in 1 .. m + 1 : x \in Range(q[j])
      <4>1. CASE x \in Range(a)
        BY <3>2, <3>4, <4>1
      <4>2. CASE x \in Range(b)
        BY <3>1, <4>2 DEF b
      <4> QED
        BY <3>6, <4>1, <4>2
    <3> QED
      BY <3>3, <3>6, <3>7
  <2> HIDE DEF P
  <2>5. Nat \subseteq P
    BY <2>3, <2>4, SetInduction
  <2>6. Len(q) - 1 \in Nat /\ (Len(q) - 1) + 1 = Len(q) /\ Len(q) <= Len(q)
    BY <2>2
  <2>7. IsInjective(f[Len(q)])
    BY <2>5, <2>6 DEF P
  <2> QED
    BY <2>1, <2>7
<1> QED
    BY <1>1, <1>2

-----------------------------------------------------------------------------
(* Statements and texts.                                                     *)

Conds == {c \in [valid : BOOLEAN, rows : SUBSET Rows, lead : SUBSET Rows] :
             ~c.valid => c.rows = Rows /\ c.lead = {}}

ClauseNames ==
    {"ERROR", "RAW", "SELECT", "TOP", "FROM", "INDEX", "JOIN", "WHERE", "AND", "ROWNUM",
     "GROUP BY", "HAVING", "ORDER BY", "LIMIT", "FOR UPDATE", "UPDATE", "SET", "DELETE",
     "INSERT", "COLUMNS", "VALUES", "DEFAULT VALUES", "RETURNING", "%!(EXTRA)"}

\* The columns, and the empty item that ExprItems may write.
ColumnNames == {"id", "a", "b", "e", "created", "updated", "deleted", "ver", ""}

Clauses == [k : ClauseNames, rows : SUBSET Rows, skip : Nat, take : Nat \cup {NoLimit},
            desc : BOOLEAN, cols : Seq(ColumnNames), sub : Seq(ClauseNames)]
Texts == Seq(Clauses)

Fields ==
    {"RefTable", "TableName", "Start", "LimitN", "idParam", "orderBy", "joins", "GroupByStr",
     "HavingStr", "SelectStr", "useAllCols", "RawSQL", "UseAutoTime", "NoAutoCondition",
     "IsDistinct", "IsForUpdate", "CheckVersion", "unscoped", "ColumnMap", "OmitColumnMap",
     "IncrColumns", "DecrColumns", "ExprColumns", "cond", "BufferSize", "LastError",
     "indexHints"}

\* The fields of a statement whose type matters, and the shape of the whole.
Stmt(s) ==
    /\ DOMAIN s = Fields
    /\ s.Start \in Nat
    /\ s.LimitN \in Nat \cup {NoLimit}
    /\ s.idParam \in 0 .. 2
    /\ s.orderBy \in Seq({"asc", "desc"})
    /\ s.IncrColumns \in Seq(ColumnNames)
    /\ s.DecrColumns \in Seq(ColumnNames)
    /\ s.ExprColumns \in Seq(ColumnNames)
    /\ s.ColumnMap \subseteq ColumnNames
    /\ s.OmitColumnMap \subseteq ColumnNames
    /\ s.cond \in Conds
    /\ s.BufferSize \in Nat
    /\ s.indexHints \in Seq({"use", "bad"})

-----------------------------------------------------------------------------
(* Conditions.                                                              *)

LEMMA CondTypes ==
    /\ NewCond \in Conds
    /\ \A c \in {"where", "or", "id", "bean", "deleted", "ver"} : Eq(c) \in Conds
BY MatchAssumption DEF NewCond, Eq, Conds

\* AND of conditions is the intersection, whether both, one or none is there.
LEMMA CondAndMeets ==
    ASSUME NEW c \in Conds, NEW d \in Conds
    PROVE  /\ CondAnd(c, d) \in Conds /\ CondAnd(c, d).rows = c.rows \cap d.rows
           /\ CondAnd(c, d).lead = {}
BY DEF CondAnd, Conds

LEMMA CondOrType == ASSUME NEW c \in Conds, NEW d \in Conds PROVE CondOr(c, d) \in Conds
BY DEF CondOr, Conds

-----------------------------------------------------------------------------
(* Statements.                                                              *)

LEMMA FreshStmt == Stmt(Fresh) /\ DOMAIN Fresh = Fields /\ Fresh = [f \in Fields |-> Fresh[f]]
<1>1. DOMAIN Fresh = Fields
    BY DEF Fresh, Fields
<1>2. Stmt(Fresh)
    BY <1>1, CondTypes DEF Fresh, Stmt, NoLimit
<1>3. Fresh = [f \in DOMAIN Fresh |-> Fresh[f]]
    BY DEF Fresh
<1> QED
    BY <1>1, <1>2, <1>3

LEMMA ResetStmt ==
    ASSUME NEW s, s.indexHints \in Seq({"use", "bad"})
    PROVE  /\ Stmt(Reset(s)) /\ Reset(s).cond = NewCond /\ Reset(s).idParam = 0
           /\ [Reset(s) EXCEPT !.indexHints = <<>>] = Fresh
<1>0. DOMAIN Reset(s) = Fields
    BY FreshStmt DEF Reset
<1>1. Stmt(Reset(s)) /\ Reset(s).cond = NewCond /\ Reset(s).idParam = 0
    BY <1>0, CondTypes DEF Reset, Fresh, Stmt, NoLimit
<1>2. Fresh.indexHints = <<>> /\ "indexHints" \in Fields
    BY DEF Fresh, Fields
<1>3. [Reset(s) EXCEPT !.indexHints = <<>>] = Fresh
    BY <1>2, FreshStmt DEF Reset
<1> QED
    BY <1>1, <1>3

LEMMA RefBeanStmt ==
    ASSUME NEW s, Stmt(s)
    PROVE  LET t == SetRefBean(s)
           IN  /\ Stmt(t) /\ t.RefTable = TRUE /\ t.TableName = TRUE
               /\ \A f \in Fields \ {"RefTable", "TableName"} : t[f] = s[f]
BY DEF Stmt, SetRefBean, Fields

\* t is s, but for conditions that exclude more and an order that was put in.
Narrows(t, s) ==
    /\ Stmt(t)
    /\ t.cond.rows \subseteq s.cond.rows
    /\ \A f \in Fields \ {"cond", "orderBy"} : t[f] = s[f]

LEMMA NarrowsRefl == ASSUME NEW s, Stmt(s) PROVE Narrows(s, s)
BY DEF Narrows

LEMMA NarrowsTrans ==
    ASSUME NEW s, NEW t, NEW u, Narrows(t, s), Narrows(u, t) PROVE Narrows(u, s)
BY DEF Narrows

\* The conditions of the statement meet another one.
LEMMA AndNarrows ==
    ASSUME NEW s, Stmt(s), NEW c \in Conds
    PROVE  LET t == [s EXCEPT !.cond = CondAnd(@, c)]
           IN  Narrows(t, s) /\ t.cond.rows = s.cond.rows \cap c.rows /\ t.cond.lead = {}
<1> DEFINE t == [s EXCEPT !.cond = CondAnd(@, c)]
<1>1. t.cond = CondAnd(s.cond, c) /\ \A f \in Fields \ {"cond"} : t[f] = s[f]
    BY DEF Stmt, Fields
<1>2. DOMAIN t = Fields
    BY DEF Stmt
<1>3. t.cond \in Conds /\ t.cond.rows = s.cond.rows \cap c.rows /\ t.cond.lead = {}
    BY <1>1, CondAndMeets DEF Stmt
<1> HIDE DEF t
<1>4. Stmt(t)
    BY <1>1, <1>2, <1>3 DEF Stmt, Fields
<1>5. Narrows(t, s) /\ t.cond.rows = s.cond.rows \cap c.rows /\ t.cond.lead = {}
    BY <1>1, <1>3, <1>4 DEF Narrows
<1> QED
    BY <1>5 DEF t

LEMMA IdNarrows ==
    ASSUME NEW s, Stmt(s)
    PROVE  /\ Narrows(ProcessIDParam(s), s)
           /\ s.idParam # 0 /\ ~IdFails(s) =>
                 ProcessIDParam(s).cond.rows \subseteq Match["id"]
<1>1. Eq("id") \in Conds /\ Eq("id").rows = Match["id"]
    BY CondTypes DEF Eq
<1> QED
    BY <1>1, AndNarrows, NarrowsRefl DEF ProcessIDParam

LEMMA AutoConds ==
    ASSUME NEW s
    PROVE  /\ CondDeleted(s) \in Conds /\ BuildConds(s) \in Conds
           /\ ~s.unscoped => /\ CondDeleted(s).rows \subseteq Match["deleted"]
                             /\ BuildConds(s).rows \subseteq Match["deleted"]
<1>1. /\ Eq("bean") \in Conds /\ Eq("deleted") \in Conds /\ NewCond \in Conds
      /\ Eq("deleted").rows = Match["deleted"]
    BY CondTypes DEF Eq
<1>2. CondDeleted(s) \in Conds /\ (~s.unscoped => CondDeleted(s).rows \subseteq Match["deleted"])
    BY <1>1 DEF CondDeleted
<1> QED
    BY <1>1, <1>2, CondAndMeets DEF BuildConds

LEMMA MergeNarrows ==
    ASSUME NEW s, Stmt(s)
    PROVE  LET t == MergeConds(s)
           IN  /\ Narrows(t, s)
               /\ s.RefTable /\ ~s.unscoped => t.cond.rows \subseteq Match["deleted"]
               /\ s.idParam # 0 /\ ~IdFails(s) => t.cond.rows \subseteq Match["id"]
<1> DEFINE auto == IF s.NoAutoCondition THEN CondDeleted(s) ELSE BuildConds(s)
           more == [s EXCEPT !.cond = CondAnd(@, auto)]
           u == IF ~s.RefTable \/ ~auto.valid THEN s ELSE more
<1>1. auto \in Conds /\ (~s.unscoped => auto.rows \subseteq Match["deleted"])
    BY AutoConds
<1>2. MergeConds(s) = ProcessIDParam(u)
    BY DEF MergeConds
<1> HIDE DEF auto
<1>3. Narrows(more, s) /\ more.cond.rows = s.cond.rows \cap auto.rows
    BY <1>1, AndNarrows
<1>9. ~auto.valid => auto.rows = Rows
    BY <1>1 DEF Conds
<1>10. Narrows(u, s) /\ (s.RefTable => u.cond.rows \subseteq auto.rows)
  <2>1. s.cond.rows \subseteq Rows
    BY DEF Stmt, Conds
  <2> HIDE DEF more
  <2> QED
    BY <1>3, <1>9, <2>1, NarrowsRefl
<1> HIDE DEF u, more
<1>4. /\ Narrows(ProcessIDParam(u), u)
      /\ u.idParam # 0 /\ ~IdFails(u) => ProcessIDParam(u).cond.rows \subseteq Match["id"]
    BY <1>10, IdNarrows DEF Narrows
<1>5. u.idParam = s.idParam /\ u.RefTable = s.RefTable
    BY <1>10 DEF Narrows, Fields
<1>6. Narrows(MergeConds(s), s)
    BY <1>2, <1>4, <1>10, NarrowsTrans
<1>7. s.RefTable /\ ~s.unscoped => MergeConds(s).cond.rows \subseteq Match["deleted"]
    BY <1>1, <1>2, <1>4, <1>10 DEF Narrows
<1>8. s.idParam # 0 /\ ~IdFails(s) => MergeConds(s).cond.rows \subseteq Match["id"]
    BY <1>2, <1>4, <1>5 DEF IdFails
<1> QED
    BY <1>6, <1>7, <1>8

LEMMA SelectNarrows ==
    ASSUME NEW s, Stmt(s), NEW d, NEW counting
    PROVE  Narrows(AfterSelect(d, s, counting), s)
<1> DEFINE t == [s EXCEPT !.orderBy = <<"asc">>]
<1>1. t.orderBy = <<"asc">> /\ \A f \in Fields \ {"orderBy"} : t[f] = s[f]
    BY DEF Stmt, Fields
<1>2. DOMAIN t = Fields
    BY DEF Stmt
<1> HIDE DEF t
<1>3. t.orderBy \in Seq({"asc", "desc"})
    BY <1>1
<1>4. Narrows(t, s)
    BY <1>1, <1>2, <1>3 DEF Narrows, Stmt, Fields
<1> QED
    BY <1>4, NarrowsRefl DEF AfterSelect, t

-----------------------------------------------------------------------------
(* Texts.                                                                   *)

LEMMA ClauseType ==
    \A k \in ClauseNames : Clause(k) \in Clauses /\ Clause(k).rows = Rows /\ Clause(k).k = k
BY DEF Clause, Clauses, NoLimit

\* The clauses that a writer changes a field of.
LEMMA PageClause ==
    \A c \in Clauses, skip \in Nat, take \in Nat \cup {NoLimit} :
        LET e == [c EXCEPT !.skip = skip, !.take = take]
        IN  e \in Clauses /\ e.rows = c.rows /\ e.k = c.k
BY DEF Clauses

LEMMA RowsClause ==
    \A c \in Clauses, rows \in SUBSET Rows :
        LET e == [c EXCEPT !.rows = rows] IN e \in Clauses /\ e.rows = rows /\ e.k = c.k
BY DEF Clauses

LEMMA DescClause ==
    \A c \in Clauses, desc \in BOOLEAN :
        LET e == [c EXCEPT !.desc = desc] IN e \in Clauses /\ e.rows = c.rows /\ e.k = c.k
BY DEF Clauses

LEMMA ColsClause ==
    \A c \in Clauses, cols \in Seq(ColumnNames) :
        LET e == [c EXCEPT !.cols = cols] IN e \in Clauses /\ e.rows = c.rows /\ e.k = c.k
BY DEF Clauses

LEMMA SubClause ==
    \A c \in Clauses, rows \in SUBSET Rows, sub \in Seq(ClauseNames) :
        LET e == [c EXCEPT !.rows = rows, !.sub = sub]
        IN  e \in Clauses /\ e.rows = rows /\ e.k = c.k
BY DEF Clauses

\* Writers that follow each other: their conditions meet, and one error is enough.
LEMMA Concat ==
    \A a, b \in Texts :
        /\ a \o b \in Texts
        /\ WhereRows(a \o b) = WhereRows(a) \cap WhereRows(b)
        /\ Failed(a \o b) <=> Failed(a) \/ Failed(b)
<1> SUFFICES ASSUME NEW a \in Texts, NEW b \in Texts
             PROVE  /\ a \o b \in Texts
                    /\ WhereRows(a \o b) = WhereRows(a) \cap WhereRows(b)
                    /\ Failed(a \o b) <=> Failed(a) \/ Failed(b)
    OBVIOUS
<1> USE DEF Texts
<1>1. /\ a \o b \in Texts /\ Len(a) \in Nat /\ Len(b) \in Nat
      /\ DOMAIN (a \o b) = 1 .. Len(a) + Len(b)
      /\ DOMAIN a = 1 .. Len(a) /\ DOMAIN b = 1 .. Len(b)
    OBVIOUS
<1>2. \A i \in DOMAIN a : i \in DOMAIN (a \o b) /\ (a \o b)[i] = a[i]
    BY <1>1
<1>3. \A i \in DOMAIN b : Len(a) + i \in DOMAIN (a \o b) /\ (a \o b)[Len(a) + i] = b[i]
    BY <1>1
<1>4. \A i \in DOMAIN (a \o b) : \/ i \in DOMAIN a
                                 \/ i - Len(a) \in DOMAIN b /\ i = Len(a) + (i - Len(a))
    BY <1>1
<1>5. WhereRows(a \o b) = WhereRows(a) \cap WhereRows(b)
    BY <1>2, <1>3, <1>4 DEF WhereRows
<1>6. Failed(a) \/ Failed(b) => Failed(a \o b)
    BY <1>2, <1>3 DEF Failed
<1>7. ASSUME NEW i \in DOMAIN (a \o b), (a \o b)[i].k = "ERROR" PROVE Failed(a) \/ Failed(b)
  <2>1. CASE i \in DOMAIN a
    BY <1>2, <1>7, <2>1 DEF Failed
  <2>2. CASE i - Len(a) \in DOMAIN b /\ i = Len(a) + (i - Len(a))
    <3>1. (a \o b)[i] = b[i - Len(a)]
      BY <1>3, <2>2
    <3> QED
      BY <1>7, <2>2, <3>1 DEF Failed
  <2> QED
    BY <1>4, <1>7, <2>1, <2>2
<1> QED
    BY <1>1, <1>5, <1>6, <1>7 DEF Failed

\* A text of one clause.
LEMMA OneClause ==
    ASSUME NEW c \in Clauses
    PROVE  /\ <<c>> \in Texts
           /\ WhereRows(<<c>>) = c.rows
           /\ Failed(<<c>>) <=> c.k = "ERROR"
<1>1. <<c>> \in Texts /\ DOMAIN <<c>> = {1} /\ <<c>>[1] = c
    BY DEF Texts
<1>2. c.rows \subseteq Rows
    BY DEF Clauses
<1> QED
    BY <1>1, <1>2 DEF WhereRows, Failed

LEMMA EmptyText == Nothing \in Texts /\ WhereRows(Nothing) = Rows /\ ~Failed(Nothing)
BY DEF Nothing, Texts, WhereRows, Failed

LEMMA PlainText ==
    \A k \in ClauseNames \ {"ERROR"} :
        Text(k) \in Texts /\ WhereRows(Text(k)) = Rows /\ ~Failed(Text(k))
BY ClauseType, OneClause DEF Text

LEMMA FailText == Fail \in Texts /\ Failed(Fail)
BY ClauseType, OneClause DEF Text, Fail, ClauseNames

LEMMA WhenText ==
    \A w \in Texts : \A b : /\ When(b, w) \in Texts
                            /\ b => When(b, w) = w
                            /\ ~b => When(b, w) = Nothing
                            /\ Failed(When(b, w)) => b /\ Failed(w)
BY EmptyText DEF When

LEMMA PageText ==
    \A k \in ClauseNames \ {"ERROR"}, skip \in Nat, take \in Nat \cup {NoLimit} :
        Page(k, skip, take) \in Texts /\ WhereRows(Page(k, skip, take)) = Rows
          /\ ~Failed(Page(k, skip, take))
<1> SUFFICES ASSUME NEW k \in ClauseNames \ {"ERROR"}, NEW skip \in Nat,
                    NEW take \in Nat \cup {NoLimit}
             PROVE  Page(k, skip, take) \in Texts /\ WhereRows(Page(k, skip, take)) = Rows
                      /\ ~Failed(Page(k, skip, take))
    OBVIOUS
<1> DEFINE c == [Clause(k) EXCEPT !.skip = skip, !.take = take]
<1>2. c \in Clauses /\ c.rows = Rows /\ c.k = k
  <2>1. Clause(k) \in Clauses /\ Clause(k).rows = Rows /\ Clause(k).k = k
    BY ClauseType
  <2> QED
    BY <2>1, PageClause, Zenon
<1> HIDE DEF c
<1> QED
    BY <1>2, OneClause DEF Page, c

LEMMA WhereText ==
    \A c \in Conds : /\ writeWhereCond(c) \in Texts /\ WhereRows(writeWhereCond(c)) = c.rows
                     /\ ~Failed(writeWhereCond(c))
<1> SUFFICES ASSUME NEW c \in Conds
             PROVE  /\ writeWhereCond(c) \in Texts /\ WhereRows(writeWhereCond(c)) = c.rows
                    /\ ~Failed(writeWhereCond(c))
    OBVIOUS
<1> DEFINE k == [Clause("WHERE") EXCEPT !.rows = c.rows]
<1>1. k \in Clauses /\ k.rows = c.rows /\ k.k = "WHERE"
  <2>1. Clause("WHERE") \in Clauses /\ Clause("WHERE").k = "WHERE" /\ c.rows \subseteq Rows
    BY ClauseType DEF ClauseNames, Conds
  <2> QED
    BY <2>1, RowsClause, Zenon
<1>2. writeWhereCond(c) = IF c.valid THEN <<k>> ELSE Nothing
    BY DEF writeWhereCond, When
<1>3. ~c.valid => c.rows = Rows
    BY DEF Conds
<1> HIDE DEF k
<1>4. <<k>> \in Texts /\ WhereRows(<<k>>) = c.rows /\ ~Failed(<<k>>)
    BY <1>1, OneClause
<1> QED
    BY <1>2, <1>3, <1>4, EmptyText

LEMMA OrderText ==
    ASSUME NEW s
    PROVE  /\ writeOrderBys(s) \in Texts /\ WhereRows(writeOrderBys(s)) = Rows
           /\ ~Failed(writeOrderBys(s))
<1> DEFINE c == [Clause("ORDER BY") EXCEPT !.desc = Head(s.orderBy) = "desc"]
<1>1. c \in Clauses /\ c.rows = Rows /\ c.k = "ORDER BY"
  <2>1. Clause("ORDER BY") \in Clauses /\ Clause("ORDER BY").rows = Rows
          /\ Clause("ORDER BY").k = "ORDER BY"
    BY ClauseType DEF ClauseNames
  <2>2. (Head(s.orderBy) = "desc") \in BOOLEAN
    OBVIOUS
  <2> QED
    BY <2>1, <2>2, DescClause, Zenon
<1> HIDE DEF c
<1>2. <<c>> \in Texts /\ WhereRows(<<c>>) = Rows /\ ~Failed(<<c>>)
    BY <1>1, OneClause
<1>3. writeOrderBys(s) = When(s.orderBy # <<>>, <<c>>)
    BY DEF writeOrderBys, c
<1> QED
    BY <1>2, <1>3, EmptyText DEF When

LEMMA ListText ==
    \A k \in ClauseNames \ {"ERROR"}, cols \in Seq(ColumnNames) :
        List(k, cols) \in Texts /\ WhereRows(List(k, cols)) = Rows /\ ~Failed(List(k, cols))
<1> SUFFICES ASSUME NEW k \in ClauseNames \ {"ERROR"}, NEW cols \in Seq(ColumnNames)
             PROVE  List(k, cols) \in Texts /\ WhereRows(List(k, cols)) = Rows
                      /\ ~Failed(List(k, cols))
    OBVIOUS
<1> DEFINE c == [Clause(k) EXCEPT !.cols = cols]
<1>2. c \in Clauses /\ c.rows = Rows /\ c.k = k
  <2>1. Clause(k) \in Clauses /\ Clause(k).rows = Rows /\ Clause(k).k = k
    BY ClauseType
  <2> QED
    BY <2>1, ColsClause, Zenon
<1> HIDE DEF c
<1> QED
    BY <1>2, OneClause DEF List, c

LEMMA KindsType == \A w \in Texts : Kinds(w) \in Seq(ClauseNames) /\ Len(Kinds(w)) = Len(w)
<1> SUFFICES ASSUME NEW w \in Texts
             PROVE  Kinds(w) \in Seq(ClauseNames) /\ Len(Kinds(w)) = Len(w)
    OBVIOUS
<1>1. Len(w) \in Nat /\ DOMAIN w = 1 .. Len(w) /\ \A i \in 1 .. Len(w) : w[i] \in Clauses
    BY DEF Texts
<1>2. \A i \in 1 .. Len(w) : w[i].k \in ClauseNames
    BY <1>1 DEF Clauses
<1>3. Kinds(w) = [i \in 1 .. Len(w) |-> w[i].k]
    BY <1>1 DEF Kinds
<1> QED
    BY <1>1, <1>2, <1>3

LEMMA SubText ==
    ASSUME NEW cond \in Conds, NEW R \in SUBSET Rows, NEW w \in Texts
    PROVE  /\ SubQuery(cond, R, w) \in Texts
           /\ WhereRows(SubQuery(cond, R, w)) = R \cup cond.lead
           /\ ~Failed(SubQuery(cond, R, w))
<1> DEFINE k == IF cond.valid THEN "AND" ELSE "WHERE"
           S == R \cup cond.lead
           c == [Clause(k) EXCEPT !.rows = S, !.sub = Kinds(w)]
<1>1. k \in ClauseNames /\ k # "ERROR"
    BY DEF ClauseNames
<1>2. Kinds(w) \in Seq(ClauseNames)
    BY KindsType
<1>5. S \in SUBSET Rows
    BY DEF Conds
<1>4. SubQuery(cond, R, w) = <<c>>
    BY DEF SubQuery
<1> HIDE DEF k, S
<1>3. c \in Clauses /\ c.rows = S /\ c.k = k
  <2>1. Clause(k) \in Clauses /\ Clause(k).k = k
    BY <1>1, ClauseType
  <2>2. ASSUME NEW e \in Clauses, NEW sub \in Seq(ClauseNames)
        PROVE  LET x == [e EXCEPT !.rows = S, !.sub = sub]
               IN  x \in Clauses /\ x.rows = S /\ x.k = e.k
    BY <1>5 DEF Clauses
  <2> QED
    BY <1>2, <2>1, <2>2, Zenon
<1> HIDE DEF c
<1>6. <<c>> \in Texts /\ WhereRows(<<c>>) = S /\ ~Failed(<<c>>)
    BY <1>1, <1>3, OneClause
<1> QED
    BY <1>4, <1>6 DEF S

-----------------------------------------------------------------------------
(* What the database does with a text.                                      *)

LEMMA FilterKept ==
    ASSUME NEW T, NEW s \in Seq(T), NEW S
    PROVE  \E g : /\ Filter(s, S) = g[Len(s)] /\ g[0] = <<>>
                  /\ \A n \in 0 .. Len(s) : g[n] \in Seq(T)
                  /\ \A n \in 1 .. Len(s) :
                        g[n] = IF s[n] \in S THEN Append(g[n - 1], s[n]) ELSE g[n - 1]
<1> DEFINE N == Len(s)
           V == Seq(T)
           G == [p \in V \X (1 .. N) |-> IF s[p[2]] \in S THEN Append(p[1], s[p[2]]) ELSE p[1]]
           Rec(g, n) == IF n = 0 THEN <<>>
                        ELSE IF s[n] \in S THEN Append(g[n - 1], s[n]) ELSE g[n - 1]
<1>1. N \in Nat /\ \A n \in 1 .. N : s[n] \in T
    OBVIOUS
<1>2. \A v \in V, n \in 1 .. N :
         G[<<v, n>>] = IF s[n] \in S THEN Append(v, s[n]) ELSE v
    OBVIOUS
<1>3. <<>> \in V
    OBVIOUS
<1> HIDE DEF G
<1>4. \A v \in V, n \in 1 .. N : G[<<v, n>>] \in V
  <2>1. \A v \in V, x \in T : Append(v, x) \in V
    OBVIOUS
  <2> HIDE DEF V, N
  <2> QED
    BY <1>1, <1>2, <2>1
<1> HIDE DEF V, N
<1>5. PICK g : Recursive(g, <<>>, N, G) /\ \A n \in 0 .. N : g[n] \in V
    BY <1>1, <1>3, <1>4, RecursionExists
<1>6. /\ g[0] = <<>> /\ g = [n \in 0 .. N |-> g[n]]
      /\ \A n \in 1 .. N : g[n - 1] \in V /\ g[n] = G[<<g[n - 1], n>>]
    BY <1>1, <1>5 DEF Recursive
<1>7. \A n \in 0 .. N : g[n] = Rec(g, n)
    BY <1>1, <1>2, <1>6
<1>8. g = [n \in 0 .. N |-> Rec(g, n)]
    BY <1>6, <1>7
<1> DEFINE f == CHOOSE h : h = [n \in 0 .. N |-> Rec(h, n)]
<1>9. f = [n \in 0 .. N |-> Rec(f, n)]
    BY <1>8
<1>10. Filter(s, S) = f[N]
    BY DEF Filter, N
<1> HIDE DEF f
<1>11. \A n \in 0 .. N : f[n] = Rec(f, n)
    BY <1>9
<1>12. \A n \in 0 .. N : f[n] = g[n]
  <2>1. f[0] = g[0]
    BY <1>1, <1>7, <1>11
  <2>2. \A n \in 1 .. N : f[n - 1] = g[n - 1] => f[n] = g[n]
    BY <1>1, <1>7, <1>11
  <2> QED
    BY <1>1, <2>1, <2>2, RecursionUnique
<1>13. N \in 0 .. N /\ \A n \in 1 .. N : n \in 0 .. N /\ n # 0
    BY <1>1
<1> QED
    BY <1>5, <1>6, <1>7, <1>10, <1>12, <1>13 DEF N, V

\* Filter keeps elements of S, all of them, and each once if s has it once.
LEMMA FilterProps ==
    ASSUME NEW T, NEW s \in Seq(T), NEW S
    PROVE  /\ Filter(s, S) \in Seq(T)
           /\ Range(Filter(s, S)) = Range(s) \cap S
           /\ IsInjective(s) => IsInjective(Filter(s, S))
<1>1. PICK g : /\ Filter(s, S) = g[Len(s)] /\ g[0] = <<>>
               /\ \A n \in 0 .. Len(s) : g[n] \in Seq(T)
               /\ \A n \in 1 .. Len(s) :
                     g[n] = IF s[n] \in S THEN Append(g[n - 1], s[n]) ELSE g[n - 1]
    BY FilterKept
<1>2. Len(s) \in Nat /\ DOMAIN s = 1 .. Len(s)
    OBVIOUS
<1> DEFINE Good(n) == /\ Range(g[n]) = {s[j] : j \in 1 .. n} \cap S
                      /\ IsInjective(s) => IsInjective(g[n])
           P == {n \in Nat : n <= Len(s) => Good(n)}
<1>3. 0 \in P
  <2>1. Range(<<>>) = {} /\ IsInjective(<<>>)
    BY DEF Range, IsInjective
  <2>2. {s[j] : j \in 1 .. 0} = {}
    OBVIOUS
  <2> QED
    BY <1>1, <2>1, <2>2
<1>4. ASSUME NEW n \in Nat, n \in P PROVE n + 1 \in P
  <2> SUFFICES ASSUME n + 1 <= Len(s) PROVE Good(n + 1)
    OBVIOUS
  <2> DEFINE x == s[n + 1]
             h == g[n]
             a == Append(h, x)
  <2>1. Good(n) /\ h \in Seq(T) /\ n + 1 \in 1 .. Len(s) /\ (n + 1) - 1 = n
    BY <1>1, <1>2, <1>4
  <2>2. g[n + 1] = IF x \in S THEN a ELSE h
    BY <1>1, <2>1
  <2>3. {s[j] : j \in 1 .. n + 1} = {s[j] : j \in 1 .. n} \cup {x}
    OBVIOUS
  <2>4. CASE x \notin S
    BY <2>1, <2>2, <2>3, <2>4
  <2>5. CASE x \in S
    <3>1. /\ Len(h) \in Nat /\ DOMAIN h = 1 .. Len(h) /\ DOMAIN a = 1 .. Len(h) + 1
          /\ a[Len(h) + 1] = x /\ \A i \in 1 .. Len(h) : a[i] = h[i]
      BY <1>2, <2>1
    <3> HIDE DEF a, h, x
    <3>2. Range(a) = Range(h) \cup {x}
      <4>1. \A i \in 1 .. Len(h) + 1 : i \in 1 .. Len(h) \/ i = Len(h) + 1
        BY <3>1
      <4>2. Len(h) + 1 \in DOMAIN a /\ \A i \in DOMAIN h : i \in DOMAIN a
        BY <3>1
      <4> QED
        BY <3>1, <4>1, <4>2 DEF Range
    <3>3. ASSUME IsInjective(s) PROVE IsInjective(a)
      <4>1. x \notin Range(h)
        <5>1. \A j \in 1 .. n : s[j] # s[n + 1]
          BY <1>2, <2>1, <3>3 DEF IsInjective
        <5> QED
          BY <2>1, <5>1 DEF x, h
      <4>2. IsInjective(h)
        BY <2>1, <3>3 DEF h
      <4>3. \A i \in DOMAIN h : h[i] # x
        BY <4>1 DEF Range
      <4>4. \A i \in DOMAIN a : i \in DOMAIN h \/ i = Len(h) + 1
        BY <3>1
      <4>5. ASSUME NEW i \in DOMAIN a, NEW j \in DOMAIN a, a[i] = a[j] PROVE i = j
        BY <3>1, <4>2, <4>3, <4>4, <4>5 DEF IsInjective
      <4> QED
        BY <4>5 DEF IsInjective
    <3> QED
      BY <2>1, <2>2, <2>3, <2>5, <3>2, <3>3 DEF h
  <2> QED
    BY <2>4, <2>5
<1> HIDE DEF P
<1>5. Nat \subseteq P
    BY <1>3, <1>4, SetInduction
<1>6. Good(Len(s))
  <2> HIDE DEF Good
  <2> QED
    BY <1>2, <1>5 DEF P
<1>7. Range(s) = {s[j] : j \in 1 .. Len(s)}
    BY <1>2 DEF Range
<1>8. g[Len(s)] \in Seq(T)
    BY <1>1, <1>2
<1> QED
    BY <1>1, <1>6, <1>7, <1>8

LEMMA SliceProps ==
    ASSUME NEW T, NEW s \in Seq(T), NEW skip \in Nat, NEW take \in Nat \cup {NoLimit}
    PROVE  Slice(s, skip, take) \in Seq(T) /\ Range(Slice(s, skip, take)) \subseteq Range(s)
<1> DEFINE m == IF take = NoLimit \/ skip + take > Len(s) THEN Len(s) ELSE skip + take
           u == SubSeq(s, skip + 1, m)
<1>1. Len(s) \in Nat /\ DOMAIN s = 1 .. Len(s)
    OBVIOUS
<1>2. m \in Nat /\ m <= Len(s)
    BY <1>1 DEF NoLimit
<1>3. Slice(s, skip, take) = u
    BY DEF Slice
<1> HIDE DEF m
<1>4. u \in Seq(T)
    BY <1>1, <1>2
<1>5. \A i \in DOMAIN u : u[i] = s[skip + i] /\ skip + i \in DOMAIN s
    BY <1>1, <1>2
<1> HIDE DEF u
<1> QED
    BY <1>3, <1>4, <1>5 DEF Range

\* The clauses that let records through by their condition.
Filters(c) == c.k \notin {"ORDER BY", "LIMIT", "ROWNUM"}

LEMMA StepProps ==
    ASSUME NEW s \in Seq(Rows), NEW c \in Clauses
    PROVE  /\ Step(s, c) \in Seq(Rows) /\ Range(Step(s, c)) \subseteq Range(s)
           /\ Filters(c) => Range(Step(s, c)) \subseteq c.rows
           /\ Top(s, c) \in Seq(Rows) /\ Range(Top(s, c)) \subseteq Range(s)
<1>1. c.skip \in Nat /\ c.take \in Nat \cup {NoLimit} /\ 0 \in Nat
    BY DEF Clauses
<1>2. /\ Reverse(s) \in Seq(Rows) /\ Range(Reverse(s)) \subseteq Range(s)
      /\ Slice(s, c.skip, c.take) \in Seq(Rows)
      /\ Range(Slice(s, c.skip, c.take)) \subseteq Range(s)
      /\ Slice(s, 0, c.take) \in Seq(Rows) /\ Range(Slice(s, 0, c.take)) \subseteq Range(s)
    BY <1>1, ReverseProps, SliceProps
<1>3. /\ Filter(s, c.rows) \in Seq(Rows)
      /\ Range(Filter(s, c.rows)) = Range(s) \cap c.rows
    BY FilterProps
<1>4. CASE c.k = "ORDER BY"
    BY <1>2, <1>4 DEF Step, Top, Filters
<1>5. CASE c.k \in {"LIMIT", "ROWNUM"}
    BY <1>2, <1>5 DEF Step, Top, Filters
<1>6. CASE Filters(c)
  <2>1. Step(s, c) = Filter(s, c.rows)
    BY <1>6 DEF Step, Filters
  <2> QED
    BY <1>2, <1>3, <2>1 DEF Top
<1> QED
    BY <1>4, <1>5, <1>6 DEF Filters

\* The records a text selects satisfy all its conditions.
LEMMA RowsOfProps ==
    ASSUME NEW w \in Texts
    PROVE  /\ RowsOf(w) \in Seq(Rows)
           /\ \A i \in DOMAIN w : Filters(w[i]) => Range(RowsOf(w)) \subseteq w[i].rows
<1> DEFINE N == Len(w)
           V == Seq(Rows)
           G == [p \in V \X (1 .. N) |-> Step(p[1], w[p[2]])]
           H == [p \in V \X (1 .. N) |-> Top(p[1], w[p[2]])]
           Rec(g, n) == IF n = 0 THEN Scan ELSE Step(g[n - 1], w[n])
           f == CHOOSE h : h = [n \in 0 .. N |-> Rec(h, n)]
           Rec2(g, n) == IF n = 0 THEN f[N] ELSE Top(g[n - 1], w[n])
           f2 == CHOOSE h : h = [n \in 0 .. N |-> Rec2(h, n)]
<1>0. RowsOf(w) = f2[N]
    BY DEF RowsOf
<1>1. N \in Nat /\ DOMAIN w = 1 .. N /\ \A n \in 1 .. N : w[n] \in Clauses
    BY DEF Texts
<1>2. Scan \in V
    BY RowsAssumption DEF Scan, Rows
<1>3. \A v \in V, n \in 1 .. N : G[<<v, n>>] = Step(v, w[n]) /\ H[<<v, n>>] = Top(v, w[n])
    OBVIOUS
<1> HIDE DEF G, H
<1>4. \A v \in V, n \in 1 .. N : G[<<v, n>>] \in V /\ H[<<v, n>>] \in V
    BY <1>1, <1>3, StepProps
<1> HIDE DEF V, N, f, f2
<1>5. PICK g : Recursive(g, Scan, N, G) /\ \A n \in 0 .. N : g[n] \in V
    BY <1>1, <1>2, <1>4, RecursionExists
<1>6. /\ g[0] = Scan /\ g = [n \in 0 .. N |-> g[n]]
      /\ \A n \in 1 .. N : g[n - 1] \in V /\ g[n] = G[<<g[n - 1], n>>]
    BY <1>1, <1>5 DEF Recursive
<1>7. \A n \in 0 .. N : g[n] = Rec(g, n)
  <2>1. \A n \in 1 .. N : g[n] = Step(g[n - 1], w[n])
    BY <1>3, <1>6
  <2>2. \A n \in 0 .. N : n = 0 \/ (n \in 1 .. N /\ n # 0)
    BY <1>1
  <2> QED
    BY <1>6, <2>1, <2>2
<1>8. g = [n \in 0 .. N |-> Rec(g, n)]
    BY <1>6, <1>7
<1>9. f = [n \in 0 .. N |-> Rec(f, n)]
    BY <1>8 DEF f
<1>10. \A n \in 0 .. N : f[n] = g[n]
  <2>0. N \in Nat
    BY <1>1
  <2>1. \A n \in 0 .. N : f[n] = Rec(f, n)
    BY <1>9
  <2>2. f[0] = g[0]
    BY <1>1, <1>7, <2>1
  <2>3. \A n \in 1 .. N : f[n - 1] = g[n - 1] => f[n] = g[n]
    BY <1>1, <1>7, <2>1
  <2> QED
    BY <2>0, <2>2, <2>3, RecursionUnique
<1>11. f[N] = g[N] /\ g[N] \in V
    BY <1>1, <1>5, <1>10
<1>12. PICK e : Recursive(e, g[N], N, H) /\ \A n \in 0 .. N : e[n] \in V
    BY <1>1, <1>4, <1>11, RecursionExists
<1>13. /\ e[0] = g[N] /\ e = [n \in 0 .. N |-> e[n]]
       /\ \A n \in 1 .. N : e[n - 1] \in V /\ e[n] = H[<<e[n - 1], n>>]
    BY <1>1, <1>12 DEF Recursive
<1>14. \A n \in 0 .. N : e[n] = Rec2(e, n)
  <2>1. \A n \in 1 .. N : e[n] = Top(e[n - 1], w[n])
    BY <1>3, <1>13
  <2>2. \A n \in 0 .. N : n = 0 \/ (n \in 1 .. N /\ n # 0)
    BY <1>1
  <2> QED
    BY <1>11, <1>13, <2>1, <2>2
<1>15. e = [n \in 0 .. N |-> Rec2(e, n)]
    BY <1>13, <1>14
<1>16. f2 = [n \in 0 .. N |-> Rec2(f2, n)]
    BY <1>15 DEF f2
<1>17. \A n \in 0 .. N : f2[n] = e[n]
  <2>0. N \in Nat
    BY <1>1
  <2>1. \A n \in 0 .. N : f2[n] = Rec2(f2, n)
    BY <1>16
  <2>2. f2[0] = e[0]
    BY <1>1, <1>14, <2>1
  <2>3. \A n \in 1 .. N : f2[n - 1] = e[n - 1] => f2[n] = e[n]
    BY <1>1, <1>14, <2>1
  <2> QED
    BY <2>0, <2>2, <2>3, RecursionUnique
<1>18. RowsOf(w) = e[N] /\ e[N] \in V
    BY <1>0, <1>1, <1>12, <1>17
<1> DEFINE P == {n \in Nat : n <= N => \A i \in 1 .. n :
                                Filters(w[i]) => Range(g[n]) \subseteq w[i].rows}
           Q == {n \in Nat : n <= N => Range(e[n]) \subseteq Range(g[N])}
<1>19. Nat \subseteq P
  <2>1. 0 \in P
    OBVIOUS
  <2>2. ASSUME NEW n \in Nat, n \in P PROVE n + 1 \in P
    <3> SUFFICES ASSUME n + 1 <= N, NEW i \in 1 .. n + 1, Filters(w[i])
                 PROVE  Range(g[n + 1]) \subseteq w[i].rows
      OBVIOUS
    <3>1. n + 1 \in 1 .. N /\ (n + 1) - 1 = n
      BY <1>1
    <3>2. g[n] \in V /\ g[n + 1] = Step(g[n], w[n + 1]) /\ w[n + 1] \in Clauses
      BY <1>1, <1>3, <1>6, <3>1
    <3>3. /\ Range(g[n + 1]) \subseteq Range(g[n])
          /\ Filters(w[n + 1]) => Range(g[n + 1]) \subseteq w[n + 1].rows
      BY <3>2, StepProps DEF V
    <3>4. i \in 1 .. n => Range(g[n]) \subseteq w[i].rows
      BY <1>1, <2>2, <3>1
    <3> QED
      BY <3>3, <3>4
  <2> HIDE DEF P
  <2> QED
    BY <2>1, <2>2, SetInduction
<1>20. Nat \subseteq Q
  <2>1. 0 \in Q
    BY <1>13
  <2>2. ASSUME NEW n \in Nat, n \in Q PROVE n + 1 \in Q
    <3> SUFFICES ASSUME n + 1 <= N PROVE Range(e[n + 1]) \subseteq Range(g[N])
      OBVIOUS
    <3>1. n + 1 \in 1 .. N /\ (n + 1) - 1 = n
      BY <1>1
    <3>2. e[n] \in V /\ e[n + 1] = Top(e[n], w[n + 1]) /\ w[n + 1] \in Clauses
      BY <1>1, <1>3, <1>13, <3>1
    <3>3. Range(e[n + 1]) \subseteq Range(e[n])
      BY <3>2, StepProps DEF V
    <3> QED
      BY <1>1, <2>2, <3>1, <3>3
  <2> HIDE DEF Q
  <2> QED
    BY <2>1, <2>2, SetInduction
<1>21. Range(e[N]) \subseteq Range(g[N])
    BY <1>1, <1>20
<1>22. \A i \in 1 .. N : Filters(w[i]) => Range(g[N]) \subseteq w[i].rows
    BY <1>1, <1>19
<1> QED
    BY <1>1, <1>18, <1>21, <1>22 DEF V

-----------------------------------------------------------------------------
(* The writers of SELECT.                                                   *)

\* Text that writes neither a condition nor an error.
Plain(w) == w \in Texts /\ ~Failed(w)

LEMMA SmallWriters ==
    ASSUME NEW s, Stmt(s), NEW d
    PROVE  /\ Plain(writeJoins(s)) /\ Plain(writeGroupBy(s)) /\ Plain(writeHaving(s))
           /\ Plain(writeOrderBys(s)) /\ Plain(writeForUpdate(d, s)) /\ Plain(writeTop(s))
           /\ Plain(writePagination(d, s)) /\ Plain(writeOracleLimit(s))
           /\ Plain(writeWhere(s)) /\ WhereRows(writeWhere(s)) = s.cond.rows
           /\ writeIndexHints(d, s) \in Texts
           /\ writeFrom(d, s) \in Texts
           /\ Failed(writeFrom(d, s)) <=> Failed(writeIndexHints(d, s))
<1>1. \A k \in ClauseNames \ {"ERROR"} : \A b : Plain(When(b, Text(k)))
    BY PlainText, WhenText DEF Plain
<1>2. /\ Plain(writeJoins(s)) /\ Plain(writeGroupBy(s)) /\ Plain(writeHaving(s))
      /\ Plain(writeForUpdate(d, s))
    BY <1>1 DEF writeJoins, writeGroupBy, writeHaving, writeForUpdate, ClauseNames
<1>3. \A k \in {"LIMIT", "TOP", "ROWNUM"}, skip \in Nat, take \in Nat \cup {NoLimit} :
         \A b : Plain(When(b, Page(k, skip, take)))
  <2>1. {"LIMIT", "TOP", "ROWNUM"} \subseteq ClauseNames \ {"ERROR"}
    BY DEF ClauseNames
  <2> QED
    BY <2>1, PageText, WhenText DEF Plain
<1>4. /\ s.Start \in Nat /\ s.LimitN \in Nat \cup {NoLimit} /\ 0 \in Nat
      /\ (IF s.Start > 0 THEN s.Start ELSE 0) \in Nat
    BY DEF Stmt
<1>5. Plain(writeTop(s)) /\ Plain(writeOracleLimit(s)) /\ Plain(writePagination(d, s))
    BY <1>3, <1>4 DEF writeTop, writeOracleLimit, writePagination, writeOffsetFetch,
                      writeLimitOffset
<1>6. Plain(writeOrderBys(s))
    BY OrderText DEF Plain
<1>7. Plain(writeWhere(s)) /\ WhereRows(writeWhere(s)) = s.cond.rows
    BY WhereText DEF writeWhere, Stmt, Plain
<1>8. writeIndexHints(d, s) \in Texts
  <2>1. Text("INDEX") \in Texts /\ Fail \in Texts
    BY PlainText, FailText DEF ClauseNames
  <2> QED
    BY <2>1, EmptyText DEF writeIndexHints, When
<1>9. /\ writeFrom(d, s) \in Texts
      /\ Failed(writeFrom(d, s)) <=> Failed(writeIndexHints(d, s))
  <2>1. Plain(Text("FROM"))
    BY PlainText DEF Plain, ClauseNames
  <2> QED
    BY <1>2, <1>8, <2>1, Concat DEF writeFrom, Plain
<1> QED
    BY <1>2, <1>5, <1>6, <1>7, <1>8, <1>9

\* The subquery of the legacy pagination is only there with an offset.
LEMMA LegacyCond ==
    ASSUME NEW s, Stmt(s), NEW d
    PROVE  /\ writeMssqlPaginationCond(d, s) \in Texts
           /\ s.Start = 0 => ~Failed(writeMssqlPaginationCond(d, s))
<1> DEFINE sub == Page("TOP", 0, s.Start) \o writeFrom(d, s) \o writeWhere(s)
                    \o writeOrderBys(s) \o writeGroupBy(s)
           R == Rows \ Range(RowsOf(sub))
<1>1. writeMssqlPaginationCond(d, s) =
         When(s.Start > 0, IF ~s.RefTable \/ Failed(sub) THEN Fail
                           ELSE SubQuery(s.cond, R, sub))
    BY DEF writeMssqlPaginationCond
<1>2. sub \in Texts
  <2>1. Page("TOP", 0, s.Start) \in Texts
    BY PageText DEF Stmt, ClauseNames
  <2> QED
    BY <2>1, SmallWriters, Concat DEF Plain
<1> HIDE DEF sub
<1>3. R \in SUBSET Rows
    OBVIOUS
<1> HIDE DEF R
<1>4. SubQuery(s.cond, R, sub) \in Texts
    BY <1>2, <1>3, SubText DEF Stmt
<1>5. Fail \in Texts
    BY FailText
<1>6. s.Start = 0 => ~(s.Start > 0)
    OBVIOUS
<1> QED
    BY <1>1, <1>4, <1>5, <1>6, EmptyText DEF When

\* A SELECT has the condition of the statement whatever the dialect, and the index
\* hints are what can go wrong in it without an offset.
LEMMA SelectText ==
    ASSUME NEW s, Stmt(s), NEW d, NEW counting
    PROVE  LET w == writeSelect(d, s, counting)
           IN  /\ w \in Texts
               /\ WhereRows(w) \subseteq s.cond.rows
               /\ Failed(writeIndexHints(d, s)) => Failed(w)
               /\ s.Start = 0 /\ Failed(w) => Failed(writeIndexHints(d, s))
<1> DEFINE w == writeSelect(d, s, counting)
           t == AfterSelect(d, s, counting)
           order == IF MssqlNeedsOrder(d, s) /\ MssqlByFirstColumn(s, counting)
                    THEN Text("ORDER BY") ELSE writeOrderBys(t)
           Good == /\ w \in Texts
                   /\ WhereRows(w) \subseteq s.cond.rows
                   /\ Failed(writeIndexHints(d, s)) => Failed(w)
                   /\ s.Start = 0 /\ Failed(w) => Failed(writeIndexHints(d, s))
<1> SUFFICES Good
    OBVIOUS
<1>1. Plain(Text("SELECT"))
    BY PlainText DEF Plain, ClauseNames
<1>2. Plain(Text("ORDER BY"))
    BY PlainText DEF Plain, ClauseNames
<1>3. Plain(order)
    BY <1>2, OrderText DEF Plain
<1>4. Plain(writeTop(s))
    BY SmallWriters
<1>5. /\ writeFrom(d, s) \in Texts
      /\ Failed(writeFrom(d, s)) <=> Failed(writeIndexHints(d, s))
    BY SmallWriters
<1>6. Plain(writeWhere(s)) /\ WhereRows(writeWhere(s)) = s.cond.rows
    BY SmallWriters
<1>7. /\ writeMssqlPaginationCond(d, s) \in Texts
      /\ s.Start = 0 => ~Failed(writeMssqlPaginationCond(d, s))
    BY LegacyCond
<1>8. Plain(writeGroupBy(s)) /\ Plain(writeHaving(s))
    BY SmallWriters
<1>9. Plain(writeOrderBys(s)) /\ Plain(writeForUpdate(d, s))
    BY SmallWriters
<1>10. Plain(writePagination(d, s))
    BY SmallWriters
<1>11. Plain(writeOracleLimit(s))
    BY SmallWriters
<1> HIDE DEF order
<1>12. CASE d = "mssql_legacy"
  <2> DEFINE x == Text("SELECT") \o writeTop(s) \o writeFrom(d, s) \o writeWhere(s)
             y == x \o writeMssqlPaginationCond(d, s) \o writeGroupBy(s) \o writeHaving(s)
  <2>1. w = y \o writeOrderBys(s) \o writeForUpdate(d, s)
    BY <1>12 DEF writeSelect, writeMssqlLegacySelect
  <2>2. /\ x \in Texts /\ WhereRows(x) \subseteq s.cond.rows
        /\ Failed(x) <=> Failed(writeFrom(d, s))
    BY <1>1, <1>4, <1>5, <1>6, Concat DEF Plain
  <2> HIDE DEF w, x
  <2>3. /\ y \in Texts /\ WhereRows(y) \subseteq WhereRows(x)
        /\ Failed(y) <=> Failed(x) \/ Failed(writeMssqlPaginationCond(d, s))
    BY <1>7, <1>8, <2>2, Concat DEF Plain
  <2> HIDE DEF y
  <2>4. /\ w \in Texts /\ WhereRows(w) \subseteq WhereRows(y)
        /\ Failed(w) <=> Failed(y)
    BY <1>9, <2>1, <2>3, Concat DEF Plain
  <2> QED
    BY <1>5, <1>7, <2>2, <2>3, <2>4
<1>13. CASE d = "oracle_legacy"
  <2> DEFINE x == Text("SELECT") \o writeFrom(d, s) \o writeWhere(s) \o writeOracleLimit(s)
             y == x \o writeGroupBy(s) \o writeHaving(s)
  <2>1. w = y \o writeOrderBys(s) \o writeForUpdate(d, s)
    BY <1>13 DEF writeSelect, writeOracleLegacySelect
  <2>2. /\ x \in Texts /\ WhereRows(x) \subseteq s.cond.rows
        /\ Failed(x) <=> Failed(writeFrom(d, s))
    BY <1>1, <1>5, <1>6, <1>11, Concat DEF Plain
  <2> HIDE DEF w, x
  <2>3. /\ y \in Texts /\ WhereRows(y) \subseteq WhereRows(x)
        /\ Failed(y) <=> Failed(x)
    BY <1>8, <2>2, Concat DEF Plain
  <2> HIDE DEF y
  <2>4. /\ w \in Texts /\ WhereRows(w) \subseteq WhereRows(y)
        /\ Failed(w) <=> Failed(y)
    BY <1>9, <2>1, <2>3, Concat DEF Plain
  <2> QED
    BY <1>5, <2>2, <2>3, <2>4
<1>14. CASE d \notin {"mssql_legacy", "oracle_legacy"}
  <2> DEFINE x == Text("SELECT") \o writeFrom(d, s) \o writeWhere(s)
             y == x \o writeGroupBy(s) \o writeHaving(s)
             z == y \o order \o writePagination(d, s)
  <2>1. w = z \o writeForUpdate(d, s)
    BY <1>14 DEF writeSelect, order
  <2>2. /\ x \in Texts /\ WhereRows(x) \subseteq s.cond.rows
        /\ Failed(x) <=> Failed(writeFrom(d, s))
    BY <1>1, <1>5, <1>6, Concat DEF Plain
  <2> HIDE DEF w, x
  <2>3. /\ y \in Texts /\ WhereRows(y) \subseteq WhereRows(x)
        /\ Failed(y) <=> Failed(x)
    BY <1>8, <2>2, Concat DEF Plain
  <2> HIDE DEF y
  <2>4. /\ z \in Texts /\ WhereRows(z) \subseteq WhereRows(y)
        /\ Failed(z) <=> Failed(y)
    BY <1>3, <1>10, <2>3, Concat DEF Plain
  <2> HIDE DEF z
  <2>5. /\ w \in Texts /\ WhereRows(w) \subseteq WhereRows(z)
        /\ Failed(w) <=> Failed(z)
    BY <1>9, <2>1, <2>4, Concat DEF Plain
  <2> QED
    BY <1>5, <2>2, <2>3, <2>4, <2>5
<1> QED
    BY <1>12, <1>13, <1>14

-----------------------------------------------------------------------------
(* What the generators return: a text and the statement they leave.         *)

\* The text is one of its own.
Generated(o) == ~Failed(o.w) /\ o.w # Text("RAW")

\* t came from s, with conditions that exclude no less.
From(t, s) ==
    /\ Stmt(t) /\ t.cond.rows \subseteq s.cond.rows
    /\ t.idParam = s.idParam /\ t.indexHints = s.indexHints

Result(o, s) ==
    /\ o.w \in Texts /\ From(o.st, s)
    /\ Generated(o) => WhereRows(o.w) \subseteq o.st.cond.rows

Hides(o) ==
    Generated(o) /\ o.st.RefTable /\ ~o.st.unscoped => o.st.cond.rows \subseteq Match["deleted"]
ByID(o) == Generated(o) /\ o.st.idParam # 0 => o.st.cond.rows \subseteq Match["id"]

LEMMA NarrowsFrom == ASSUME NEW s, NEW t, Narrows(t, s) PROVE From(t, s)
BY DEF Narrows, From, Fields

LEMMA FromTrans == ASSUME NEW s, NEW t, NEW u, From(t, s), From(u, t) PROVE From(u, s)
BY DEF From

LEMMA RefBeanFrom == ASSUME NEW s, Stmt(s) PROVE From(SetRefBean(s), s) /\ From(s, s)
BY RefBeanStmt DEF From, Fields

LEMMA ResultFrom ==
    ASSUME NEW o, NEW s, NEW t, Result(o, t), From(t, s) PROVE Result(o, s)
BY FromTrans DEF Result

LEMMA RefusedResult ==
    ASSUME NEW s, NEW t, From(s, t)
    PROVE  Result(Refused(s), t) /\ ~Generated(Refused(s)) /\ Failed(Refused(s).w)
             /\ Refused(s).st = s
<1>1. Refused(s).w = Fail /\ Refused(s).st = s
    BY DEF Refused
<1> QED
    BY <1>1, FailText DEF Result, Generated

LEMMA RawResult ==
    ASSUME NEW s, NEW t, From(s, t)
    PROVE  Result(Raw(s), t) /\ ~Generated(Raw(s)) /\ ~Failed(Raw(s).w) /\ Raw(s).st = s
<1>1. Raw(s).w = Text("RAW") /\ Raw(s).st = s
    BY DEF Raw
<1>2. Text("RAW") \in Texts /\ ~Failed(Text("RAW"))
    BY PlainText DEF ClauseNames
<1> QED
    BY <1>1, <1>2 DEF Result, Generated

LEMMA SelectResult ==
    ASSUME NEW s, Stmt(s), NEW d, NEW counting
    PROVE  LET o == Select(d, s, counting)
           IN  /\ Result(o, s)
               /\ o.st.cond = s.cond /\ o.st.RefTable = s.RefTable
               /\ o.st.unscoped = s.unscoped /\ o.st.idParam = s.idParam
               /\ o.st.indexHints = s.indexHints /\ o.st.RawSQL = s.RawSQL
               /\ Failed(writeIndexHints(d, s)) => Failed(o.w)
               /\ s.Start = 0 /\ Failed(o.w) => Failed(writeIndexHints(d, s))
<1> DEFINE o == Select(d, s, counting)
<1>1. o.w = writeSelect(d, s, counting) /\ o.st = AfterSelect(d, s, counting)
    BY DEF Select
<1>2. Narrows(o.st, s)
    BY <1>1, SelectNarrows
<1>3. o.st.cond = s.cond
    BY <1>1 DEF AfterSelect, Stmt, Fields
<1> HIDE DEF o
<1>4. /\ o.w \in Texts /\ WhereRows(o.w) \subseteq s.cond.rows
      /\ Failed(writeIndexHints(d, s)) => Failed(o.w)
      /\ s.Start = 0 /\ Failed(o.w) => Failed(writeIndexHints(d, s))
    BY <1>1, SelectText
<1>5. /\ o.st.RefTable = s.RefTable /\ o.st.unscoped = s.unscoped /\ o.st.RawSQL = s.RawSQL
      /\ o.st.idParam = s.idParam /\ o.st.indexHints = s.indexHints
    BY <1>2 DEF Narrows, Fields
<1>6. Result(o, s)
    BY <1>2, <1>3, <1>4, NarrowsFrom DEF Result
<1> QED
    BY <1>3, <1>4, <1>5, <1>6 DEF o

LEMMA SelectByIdResult ==
    ASSUME NEW t, NEW s, Stmt(s), NEW d, NEW counting
    PROVE  LET o == SelectById(d, t, s, counting)
           IN  /\ Result(o, s)
               /\ o.st.cond = s.cond /\ o.st.RefTable = s.RefTable
               /\ o.st.unscoped = s.unscoped /\ o.st.idParam = s.idParam
               /\ Generated(o) => ~IdFails(t)
<1>1. From(s, s)
    BY RefBeanFrom
<1> QED
    BY <1>1, RefusedResult, SelectResult DEF SelectById

\* The conditions of the bean and the id are there in the text.
LEMMA MergedResult ==
    ASSUME NEW s, Stmt(s), s.RefTable = TRUE, NEW d, NEW counting
    PROVE  LET o == SelectById(d, s, MergeConds(s), counting)
           IN  Result(o, s) /\ Hides(o) /\ ByID(o)
<1> DEFINE m == MergeConds(s)
           o == SelectById(d, s, m, counting)
<1>1. /\ Narrows(m, s)
      /\ s.RefTable /\ ~s.unscoped => m.cond.rows \subseteq Match["deleted"]
      /\ s.idParam # 0 /\ ~IdFails(s) => m.cond.rows \subseteq Match["id"]
    BY MergeNarrows
<1>2. Stmt(m) /\ From(m, s) /\ m.unscoped = s.unscoped /\ m.idParam = s.idParam
    BY <1>1, NarrowsFrom DEF Narrows, Fields
<1> HIDE DEF m
<1>3. /\ Result(o, m)
      /\ o.st.cond = m.cond
      /\ o.st.unscoped = m.unscoped /\ o.st.idParam = m.idParam
      /\ Generated(o) => ~IdFails(s)
    BY <1>2, SelectByIdResult
<1> HIDE DEF o
<1>4. Result(o, s)
    BY <1>2, <1>3, ResultFrom
<1>5. Hides(o) /\ ByID(o)
    BY <1>1, <1>2, <1>3 DEF Hides, ByID
<1> QED
    BY <1>4, <1>5 DEF o, m

\* SelectById of the statement with some condition c and the id.
LEMMA ByIdResult ==
    ASSUME NEW s, Stmt(s), NEW u, Narrows(u, s), NEW d, NEW counting
    PROVE  LET o == SelectById(d, s, ProcessIDParam(u), counting)
           IN  /\ Result(o, s) /\ ByID(o)
               /\ o.st.RefTable = s.RefTable /\ o.st.unscoped = s.unscoped
               /\ o.st.cond.rows \subseteq u.cond.rows
<1> DEFINE m == ProcessIDParam(u)
           o == SelectById(d, s, m, counting)
<1>1. /\ Narrows(m, u)
      /\ u.idParam # 0 /\ ~IdFails(u) => m.cond.rows \subseteq Match["id"]
    BY IdNarrows DEF Narrows
<1>2. /\ u.idParam = s.idParam /\ u.RefTable = s.RefTable /\ u.unscoped = s.unscoped
      /\ From(u, s)
    BY NarrowsFrom DEF Narrows, Fields
<1>3. /\ Stmt(m) /\ From(m, u) /\ m.unscoped = u.unscoped /\ m.idParam = u.idParam
      /\ m.RefTable = u.RefTable /\ m.cond.rows \subseteq u.cond.rows
    BY <1>1, NarrowsFrom DEF Narrows, Fields
<1> HIDE DEF m
<1>4. /\ Result(o, m)
      /\ o.st.cond = m.cond /\ o.st.RefTable = m.RefTable
      /\ o.st.unscoped = m.unscoped /\ o.st.idParam = m.idParam
      /\ Generated(o) => ~IdFails(s)
    BY <1>3, SelectByIdResult
<1> HIDE DEF o
<1>5. Result(o, s)
    BY <1>2, <1>3, <1>4, ResultFrom, FromTrans
<1>6. ByID(o)
    BY <1>1, <1>2, <1>3, <1>4 DEF ByID, IdFails
<1> QED
    BY <1>2, <1>3, <1>4, <1>5, <1>6 DEF o, m

LEMMA QueryResult ==
    ASSUME NEW s, Stmt(s), NEW d
    PROVE  LET o == GenQuerySQL(d, s) IN Result(o, s) /\ ByID(o)
<1>1. From(s, s) /\ Narrows(s, s)
    BY RefBeanFrom, NarrowsRefl
<1>2. LET o == Raw(s) IN Result(o, s) /\ ByID(o)
    BY <1>1, RawResult DEF ByID
<1>3. LET o == Refused(s) IN Result(o, s) /\ ByID(o)
    BY <1>1, RefusedResult DEF ByID
<1>4. LET o == SelectById(d, s, ProcessIDParam(s), FALSE) IN Result(o, s) /\ ByID(o)
    BY <1>1, ByIdResult
<1> QED
    BY <1>2, <1>3, <1>4 DEF GenQuerySQL

LEMMA BeanResult ==
    ASSUME NEW s, Stmt(s), NEW d, NEW counting
    PROVE  LET t == SetRefBean(s)
               o == SelectById(d, t, MergeConds(t), counting)
           IN  Result(o, s) /\ Hides(o) /\ ByID(o)
<1> DEFINE t == SetRefBean(s)
           o == SelectById(d, t, MergeConds(t), counting)
<1>1. Stmt(t) /\ t.RefTable = TRUE /\ From(t, s)
    BY RefBeanStmt, RefBeanFrom
<1> HIDE DEF t
<1>2. Result(o, t) /\ Hides(o) /\ ByID(o)
    BY <1>1, MergedResult
<1> HIDE DEF o
<1>3. Result(o, s) /\ Hides(o) /\ ByID(o)
    BY <1>1, <1>2, ResultFrom
<1> QED
    BY <1>3 DEF o, t

LEMMA SumResult ==
    ASSUME NEW s, Stmt(s), NEW d
    PROVE  LET o == GenSumSQL(d, s) IN Result(o, s) /\ Hides(o) /\ ByID(o)
<1>1. LET o == Raw(s) IN Result(o, s) /\ Hides(o) /\ ByID(o)
    BY RefBeanFrom, RawResult DEF ByID, Hides
<1> QED
    BY <1>1, BeanResult DEF GenSumSQL

LEMMA GetResult ==
    ASSUME NEW s, Stmt(s), NEW d, NEW bean
    PROVE  LET o == GenGetSQL(d, s, bean) IN Result(o, s) /\ Hides(o) /\ ByID(o)
<1>1. CASE bean = "struct"
    BY <1>1, BeanResult DEF GenGetSQL
<1>2. CASE bean # "struct"
  <2> DEFINE auto == CondDeleted(s)
             more == [s EXCEPT !.cond = CondAnd(@, auto)]
             u == IF s.RefTable /\ ~s.unscoped THEN more ELSE s
             o == SelectById(d, s, ProcessIDParam(u), FALSE)
  <2>1. auto \in Conds /\ (~s.unscoped => auto.rows \subseteq Match["deleted"])
    BY AutoConds
  <2>2. GenGetSQL(d, s, bean) = o
    BY <1>2 DEF GenGetSQL
  <2> HIDE DEF auto
  <2>6. Narrows(more, s) /\ more.cond.rows = s.cond.rows \cap auto.rows
    BY <2>1, AndNarrows
  <2> HIDE DEF more
  <2>3. /\ Narrows(u, s)
        /\ s.RefTable /\ ~s.unscoped => u.cond.rows = s.cond.rows \cap auto.rows
    BY <2>6, NarrowsRefl
  <2> HIDE DEF u
  <2>4. /\ Result(o, s) /\ ByID(o)
        /\ o.st.RefTable = s.RefTable /\ o.st.unscoped = s.unscoped
        /\ o.st.cond.rows \subseteq u.cond.rows
    BY <2>3, ByIdResult
  <2> HIDE DEF o
  <2>5. Hides(o)
    BY <2>1, <2>3, <2>4 DEF Hides
  <2> QED
    BY <2>2, <2>4, <2>5
<1> QED
    BY <1>1, <1>2

LEMMA CountResult ==
    ASSUME NEW s, Stmt(s), NEW d, NEW bean
    PROVE  LET o == GenCountSQL(d, s, bean)
           IN  /\ Result(o, s)
               /\ bean = "struct" => Hides(o) /\ ByID(o)
<1>1. LET o == Raw(s) IN Result(o, s) /\ Hides(o) /\ ByID(o)
    BY RefBeanFrom, RawResult DEF ByID, Hides
<1>2. Result(Select(d, s, TRUE), s)
    BY SelectResult
<1> QED
    BY <1>1, <1>2, BeanResult DEF GenCountSQL

LEMMA HintsSame ==
    ASSUME NEW s, NEW t, NEW d, s.indexHints = t.indexHints
    PROVE  writeIndexHints(d, s) = writeIndexHints(d, t)
BY DEF writeIndexHints

\* When a text was generated, its index hints were no error.
Found(o, d) ==
    ~Failed(o.w) /\ ~o.st.RawSQL => ~Failed(writeIndexHints(d, o.st))

LEMMA FindResult ==
    ASSUME NEW s, Stmt(s), NEW d, NEW c \in Conds
    PROVE  LET o == GenFindSQL(d, s, c)
           IN  /\ Result(o, s)
               /\ Generated(o) \/ (~Failed(o.w) /\ ~o.st.RawSQL) =>
                     o.st.cond.rows = s.cond.rows \cap c.rows
               /\ o.st.RefTable = s.RefTable /\ o.st.unscoped = s.unscoped
               /\ Found(o, d)
<1> DEFINE u == [s EXCEPT !.cond = CondAnd(@, c)]
<1>1. Narrows(u, s) /\ u.cond.rows = s.cond.rows \cap c.rows
    BY AndNarrows
<1>2. GenFindSQL(d, s, c) = IF s.RawSQL THEN Raw(s) ELSE IF ~s.TableName THEN Refused(s)
                            ELSE Select(d, u, FALSE)
    BY DEF GenFindSQL
<1> HIDE DEF u
<1>3. /\ Stmt(u) /\ From(u, s) /\ u.RefTable = s.RefTable /\ u.unscoped = s.unscoped
      /\ u.RawSQL = s.RawSQL
    BY <1>1, NarrowsFrom DEF Narrows, Fields
<1>4. From(s, s)
    BY RefBeanFrom
<1>5. LET o == Raw(s)
      IN  Result(o, s) /\ ~Generated(o) /\ o.st = s
    BY <1>4, RawResult
<1>6. LET o == Refused(s)
      IN  Result(o, s) /\ ~Generated(o) /\ Failed(o.w) /\ o.st = s
    BY <1>4, RefusedResult
<1>7. LET o == Select(d, u, FALSE)
      IN  /\ Result(o, s) /\ o.st.cond = u.cond /\ Found(o, d)
          /\ o.st.RefTable = s.RefTable /\ o.st.unscoped = s.unscoped
  <2> DEFINE counting == FALSE
             o == Select(d, u, counting)
  <2> HIDE DEF counting
  <2>1. /\ Result(o, u) /\ o.st.cond = u.cond
        /\ o.st.RefTable = s.RefTable /\ o.st.unscoped = s.unscoped
        /\ o.st.indexHints = u.indexHints
        /\ Failed(writeIndexHints(d, u)) => Failed(o.w)
    BY <1>3, SelectResult
  <2> HIDE DEF o
  <2>2. Result(o, s)
    BY <1>3, <2>1, ResultFrom
  <2>3. writeIndexHints(d, o.st) = writeIndexHints(d, u)
    BY <2>1, HintsSame
  <2>4. Found(o, d)
    BY <2>1, <2>3 DEF Found
  <2> QED
    BY <2>1, <2>2, <2>4 DEF o, counting
<1>8. CASE s.RawSQL
    BY <1>2, <1>5, <1>8 DEF Found
<1>9. CASE ~s.RawSQL /\ ~s.TableName
    BY <1>2, <1>6, <1>9 DEF Found
<1>10. CASE ~s.RawSQL /\ s.TableName
    BY <1>1, <1>2, <1>7, <1>10
<1> QED
    BY <1>8, <1>9, <1>10

LEMMA LimitStmt ==
    ASSUME NEW s, Stmt(s), NEW n \in Nat
    PROVE  LET t == [s EXCEPT !.LimitN = n]
           IN  /\ Stmt(t) /\ From(t, s) /\ t.RefTable = s.RefTable /\ t.unscoped = s.unscoped
               /\ t.cond = s.cond
BY DEF Stmt, From, Fields

LEMMA ExistResult ==
    ASSUME NEW st0, Stmt(st0), NEW d, NEW bean
    PROVE  LET o == GenExistSQL(d, st0, bean)
           IN  /\ Result(o, st0)
               /\ o.st.RefTable => Hides(o) /\ ByID(o)
<1> DEFINE s == IF bean = "struct" THEN SetRefBean(st0) ELSE st0
           w == Text("SELECT") \o When(DBType(d) = "mssql", Page("TOP", 0, 1))
                  \o writeFrom(d, s) \o writeWhere(s)
           v == CASE DBType(d) = "mssql" -> w
                  [] DBType(d) = "oracle" -> w \o Page("ROWNUM", 0, 1)
                  [] OTHER -> w \o Page("LIMIT", 0, 1)
           l == [s EXCEPT !.LimitN = 1]
           o == GenExistSQL(d, st0, bean)
<1>1. Stmt(s) /\ From(s, st0)
    BY RefBeanStmt, RefBeanFrom
<1>2. o = CASE st0.RawSQL -> Raw(st0)
            [] ~st0.RawSQL /\ ~s.TableName -> Refused(s)
            [] ~st0.RawSQL /\ s.RefTable -> GenGetSQL(d, l, bean)
            [] OTHER -> [w |-> v, st |-> s]
    BY DEF GenExistSQL
<1>3. \/ st0.RawSQL /\ o = Raw(st0)
      \/ o = Refused(s)
      \/ o = GenGetSQL(d, l, bean)
      \/ ~s.RefTable /\ o = [w |-> v, st |-> s]
    BY <1>2, Zenon
<1> HIDE DEF s
<1>4. v = w \/ v = w \o Page("ROWNUM", 0, 1) \/ v = w \o Page("LIMIT", 0, 1)
    BY Zenon
<1>5. w \in Texts /\ WhereRows(w) \subseteq s.cond.rows
  <2>1. Text("SELECT") \in Texts
    BY PlainText DEF ClauseNames
  <2>2. When(DBType(d) = "mssql", Page("TOP", 0, 1)) \in Texts
    BY PageText, WhenText DEF ClauseNames
  <2>3. /\ writeFrom(d, s) \in Texts
        /\ writeWhere(s) \in Texts /\ WhereRows(writeWhere(s)) = s.cond.rows
    BY <1>1, SmallWriters DEF Plain
  <2> QED
    BY <2>1, <2>2, <2>3, Concat
<1> HIDE DEF w, v, o
<1>6. v \in Texts /\ WhereRows(v) \subseteq s.cond.rows
  <2>1. Page("ROWNUM", 0, 1) \in Texts
    BY PageText DEF ClauseNames
  <2>2. Page("LIMIT", 0, 1) \in Texts
    BY PageText DEF ClauseNames
  <2>3. /\ w \o Page("ROWNUM", 0, 1) \in Texts
        /\ WhereRows(w \o Page("ROWNUM", 0, 1)) \subseteq s.cond.rows
    BY <1>5, <2>1, Concat
  <2>4. /\ w \o Page("LIMIT", 0, 1) \in Texts
        /\ WhereRows(w \o Page("LIMIT", 0, 1)) \subseteq s.cond.rows
    BY <1>5, <2>2, Concat
  <2> QED
    BY <1>4, <1>5, <2>3, <2>4
<1>7. Stmt(l) /\ From(l, s)
    BY <1>1, LimitStmt
<1> HIDE DEF l
<1>8. LET r == GenGetSQL(d, l, bean) IN Result(r, l) /\ Hides(r) /\ ByID(r)
    BY <1>7, GetResult
<1>9. CASE o = Raw(st0)
    BY <1>9, RefBeanFrom, RawResult DEF o, Hides, ByID
<1>10. CASE o = Refused(s)
    BY <1>1, <1>10, RefusedResult DEF o, Hides, ByID
<1>11. CASE o = GenGetSQL(d, l, bean)
  <2>1. Result(o, l) /\ Hides(o) /\ ByID(o)
    BY <1>8, <1>11
  <2>2. From(l, st0)
    BY <1>1, <1>7, FromTrans
  <2> QED
    BY <2>1, <2>2, ResultFrom DEF o
<1>12. CASE ~s.RefTable /\ o = [w |-> v, st |-> s]
  <2>1. o.w = v /\ o.st = s
    BY <1>12
  <2>2. Result(o, st0)
    BY <1>1, <1>6, <2>1 DEF Result
  <2> QED
    BY <1>12, <2>1, <2>2 DEF o
<1> QED
    BY <1>3, <1>9, <1>10, <1>11, <1>12
=============================================================================
