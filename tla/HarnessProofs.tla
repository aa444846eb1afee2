---------------------------- MODULE HarnessProofs ----------------------------
(***************************************************************************)
(* What Unity says of tests and assertions, for every number of tests, all *)
(* integers, characters, strings and arrays, and every width of a byte.    *)
(***************************************************************************)
EXTENDS Harness, FiniteSetTheorems, SequenceTheorems, TLAPS

------------------------------------------------------------------------------
(* Induction *)

(* A set of numbers below a bound has a least element.                       *)
LEMMA Least ==
  ASSUME NEW n \in Nat, NEW T \in SUBSET (0 .. n-1), T # {}
  PROVE  \E m \in T : \A k \in T : m <= k
  <1> DEFINE S == 0 .. n-1
             R == StrictSubsetOrdering(S)
             Below == {0 .. k-1 : k \in T}
  <1>1. IsWellFoundedOn(R, FiniteSubsetsOf(S))
    BY FS_StrictSubsetOrderingWellFounded
  <1>2. ASSUME NEW k \in T PROVE (0 .. k-1) \in FiniteSubsetsOf(S)
    <2>1. IsFiniteSet(0 .. k-1)
      BY FS_Interval
    <2> QED
      BY <2>1 DEF FiniteSubsetsOf
  <1>3. Below \subseteq FiniteSubsetsOf(S) /\ Below # {}
    BY <1>2
  <1>4. PICK B \in Below : \A C \in Below : <<C, B>> \notin R
    <2> HIDE DEF Below, R, S
    <2> QED
      BY <1>1, <1>3, WFMin
  <1>5. PICK m \in T : B = 0 .. m-1
    OBVIOUS
  <1>6. ASSUME NEW k \in T, k < m PROVE FALSE
    <2> DEFINE X == 0 .. k-1  Y == 0 .. m-1
    <2>1. X \subseteq Y /\ X # Y
      <3>1. k \in Y /\ k \notin X
        BY <1>6
      <3> QED
        BY <1>6, <3>1
    <2>2. X \in SUBSET S /\ Y \in SUBSET S
      OBVIOUS
    <2>3. <<X, Y>> \in R
      <3> HIDE DEF X, Y, S
      <3> QED
        BY <2>1, <2>2 DEF StrictSubsetOrdering
    <2>4. X \in Below
      OBVIOUS
    <2> HIDE DEF X, Y, R, Below
    <2> QED
      BY <1>4, <1>5, <2>3, <2>4 DEF Y
  <1> QED
    BY <1>6

(* What holds of 0, and of n + 1 when it holds of n, holds of every number.  *)
LEMMA Induction ==
  ASSUME NEW T, 0 \in T, \A n \in Nat : n \in T => n + 1 \in T
  PROVE  Nat \subseteq T
  <1> SUFFICES ASSUME NEW n \in Nat, n \notin T PROVE FALSE
    OBVIOUS
  <1> DEFINE Bad == {k \in 0 .. (n + 1) - 1 : k \notin T}
  <1>1. n + 1 \in Nat /\ Bad \in SUBSET (0 .. (n + 1) - 1) /\ n \in Bad
    OBVIOUS
  <1>2. PICK m \in Bad : \A k \in Bad : m <= k
    <2> HIDE DEF Bad
    <2> QED
      BY <1>1, Least
  <1>3. m \in Nat /\ m <= n /\ m \notin T /\ m # 0
    OBVIOUS
  <1>4. m - 1 \in Nat /\ m - 1 \in 0 .. (n + 1) - 1 /\ ~(m <= m - 1)
    BY <1>3
  <1>5. m - 1 \in T
    BY <1>2, <1>4
  <1>6. (m - 1) + 1 \in T
    BY <1>4, <1>5
  <1> QED
    BY <1>3, <1>6

------------------------------------------------------------------------------
(* Texts one behind the other *)

(* f[i] is the first i sequences of s, one behind the other.                 *)
IsFlat(f, s) ==
  f = [i \in 1 .. Len(s) |-> IF i = 1 THEN s[i] ELSE f[i-1] \o s[i]]

LEMMA FlatExists ==
  ASSUME NEW S, NEW s \in Seq(Seq(S)) PROVE \E f : IsFlat(f, s)
  <1> DEFINE Good(f, n) ==
               /\ f \in [1 .. n -> Seq(S)]
               /\ \A i \in 1 .. n : f[i] = IF i = 1 THEN s[i] ELSE f[i-1] \o s[i]
             T == {n \in Nat : n <= Len(s) => \E f : Good(f, n)}
  <1>1. Len(s) \in Nat /\ \A i \in 1 .. Len(s) : s[i] \in Seq(S)
    BY LenProperties, ElementOfSeq
  <1>2. 0 \in T
    <2> DEFINE e == [i \in 1 .. 0 |-> << >>]
    <2>1. e \in [1 .. 0 -> Seq(S)] /\ \A i \in 1 .. 0 : FALSE
      OBVIOUS
    <2> QED
      BY <2>1
  <1>3. ASSUME NEW n \in Nat, n \in T PROVE n + 1 \in T
    <2> SUFFICES ASSUME n + 1 <= Len(s) PROVE \E f : Good(f, n + 1)
      <3> HIDE DEF Good
      <3> QED
        OBVIOUS
    <2>1. PICK f : Good(f, n)
      <3> HIDE DEF Good
      <3> QED
        BY <1>1, <1>3
    <2> DEFINE final == IF n = 0 THEN s[1] ELSE f[n] \o s[n + 1]
               g == [i \in 1 .. n + 1 |-> IF i = n + 1 THEN final ELSE f[i]]
    <2>2. s[n + 1] \in Seq(S)
      BY <1>1
    <2>3. final \in Seq(S)
      <3>1. CASE n = 0
        BY <2>2, <3>1
      <3>2. CASE n # 0
        <4>1. f[n] \in Seq(S)
          BY <2>1, <3>2
        <4> QED
          BY <2>2, <3>2, <4>1, ConcatProperties
      <3> QED
        BY <3>1, <3>2
    <2> HIDE DEF final
    <2>4. g \in [1 .. n + 1 -> Seq(S)]
      BY <2>1, <2>3
    <2>5. ASSUME NEW i \in 1 .. n + 1
          PROVE  g[i] = IF i = 1 THEN s[i] ELSE g[i-1] \o s[i]
      <3>1. CASE i = n + 1
        <4>1. g[i] = final
          BY <3>1
        <4>2. CASE n = 0
          BY <3>1, <4>1, <4>2 DEF final
        <4>3. CASE n # 0
          <5>1. i # 1 /\ i - 1 = n /\ n \in 1 .. n + 1 /\ n # n + 1
            BY <3>1, <4>3
          <5>2. g[i-1] = f[n]
            BY <5>1
          <5> QED
            BY <3>1, <4>1, <4>3, <5>1, <5>2 DEF final
        <4> QED
          BY <4>2, <4>3
      <3>2. CASE i # n + 1
        <4>1. i \in 1 .. n /\ g[i] = f[i]
          BY <3>2
        <4>2. CASE i = 1
          BY <2>1, <4>1, <4>2
        <4>3. CASE i # 1
          <5>1. i - 1 \in 1 .. n + 1 /\ i - 1 # n + 1
            BY <4>1, <4>3
          <5>2. g[i-1] = f[i-1]
            BY <5>1
          <5> QED
            BY <2>1, <4>1, <4>3, <5>2
        <4> QED
          BY <4>2, <4>3
      <3> QED
        BY <3>1, <3>2
    <2> QED
      BY <2>4, <2>5
  <1>4. Nat \subseteq T
    <2> HIDE DEF T
    <2> QED
      BY <1>2, <1>3, Induction
  <1>5. PICK f : Good(f, Len(s))
    <2> HIDE DEF Good
    <2> QED
      BY <1>1, <1>4
  <1> QED
    BY <1>5 DEF IsFlat

LEMMA FlatFound ==
  ASSUME NEW S, NEW s \in Seq(Seq(S)), Len(s) # 0
  PROVE  \E f : IsFlat(f, s) /\ FlattenSeq(s) = f[Len(s)]
  <1>1. \E f : IsFlat(f, s)
    BY FlatExists
  <1> QED
    BY <1>1 DEF FlattenSeq, IsFlat

(* The i+1 first of f are x and the i first of g.                            *)
Ahead(x, f, g, i) == f[i + 1] = x \o g[i]

LEMMA FlatFollows ==
  ASSUME NEW S, NEW s \in Seq(Seq(S)), NEW t, NEW f, NEW g,
         Len(s) > 1, t = Tail(s), IsFlat(f, s), IsFlat(g, t)
  PROVE  \A i \in 1 .. Len(t) : Ahead(s[1], f, g, i)
  <1> DEFINE Fine(i) == g[i] \in Seq(S) /\ f[i + 1] = s[1] \o g[i]
             T == {n \in Nat : n + 1 <= Len(t) => Fine(n + 1)}
  <1>0. /\ t \in Seq(Seq(S)) /\ Len(t) = Len(s) - 1
        /\ \A i \in 1 .. Len(t) : t[i] = s[i + 1]
    <2>1. Len(<< >>) = 0
      BY EmptySeq
    <2>2. s # << >>
      BY <2>1
    <2> QED
      BY <2>2, HeadTailProperties
  <1>1. /\ Len(s) \in Nat /\ Len(t) \in Nat
        /\ \A i \in 1 .. Len(s) : s[i] \in Seq(S)
    BY <1>0, LenProperties, ElementOfSeq
  <1>2. /\ \A i \in 1 .. Len(s) : f[i] = IF i = 1 THEN s[i] ELSE f[i-1] \o s[i]
        /\ \A i \in 1 .. Len(t) : g[i] = IF i = 1 THEN t[i] ELSE g[i-1] \o t[i]
    BY DEF IsFlat
  <1>3. 0 \in T
    <2>1. 1 \in 1 .. Len(s) /\ 2 \in 1 .. Len(s) /\ 1 \in 1 .. Len(t)
      BY <1>0, <1>1
    <2>2. f[1] = s[1] /\ g[1] = t[1]
      BY <1>2, <2>1
    <2>3. f[2] = f[1] \o s[2]
      <3>1. f[2] = IF 2 = 1 THEN s[2] ELSE f[2 - 1] \o s[2]
        BY <1>2, <2>1
      <3> QED
        BY <3>1
    <2>4. t[1] = s[1 + 1] /\ 1 + 1 = 2
      BY <1>0, <2>1
    <2>5. Fine(1)
      BY <1>1, <2>1, <2>2, <2>3, <2>4
    <2> HIDE DEF Fine
    <2> QED
      BY <2>5
  <1>4. ASSUME NEW n \in Nat, n \in T PROVE n + 1 \in T
    <2> SUFFICES ASSUME (n + 1) + 1 <= Len(t) PROVE Fine((n + 1) + 1)
      <3> HIDE DEF Fine
      <3> QED
        OBVIOUS
    <2>1. Fine(n + 1)
      <3> HIDE DEF Fine
      <3> QED
        BY <1>1, <1>4
    <2> DEFINE i == (n + 1) + 1
    <2>2. /\ i \in 1 .. Len(t) /\ i + 1 \in 1 .. Len(s)
          /\ i # 1 /\ i + 1 # 1 /\ i - 1 = n + 1 /\ (i + 1) - 1 = i
      BY <1>0, <1>1
    <2>3. g[i-1] \in Seq(S) /\ f[i] = s[1] \o g[i-1]
      BY <2>1, <2>2
    <2> HIDE DEF i
    <2>4. g[i] = g[i-1] \o s[i + 1] /\ f[i + 1] = f[i] \o s[i + 1]
      BY <1>0, <1>2, <2>2
    <2>5. s[1] \in Seq(S) /\ s[i + 1] \in Seq(S)
      BY <1>1, <2>2
    <2> DEFINE x == s[1]  y == g[i-1]  z == s[i + 1]
    <2>6. x \in Seq(S) /\ y \in Seq(S) /\ z \in Seq(S)
      BY <2>3, <2>5
    <2>7. g[i] = y \o z /\ f[i + 1] = (x \o y) \o z
      BY <2>3, <2>4
    <2> HIDE DEF x, y, z
    <2>8. y \o z \in Seq(S)
      BY ONLY <2>6, ConcatProperties
    <2>9. (x \o y) \o z = x \o (y \o z)
      BY ONLY <2>6, ConcatAssociative
    <2> QED
      BY <2>7, <2>8, <2>9 DEF i, x
  <1>5. Nat \subseteq T
    <2> HIDE DEF T
    <2> QED
      BY <1>3, <1>4, Induction
  <1>6. ASSUME NEW i \in 1 .. Len(t) PROVE Fine(i)
    <2>1. i - 1 \in Nat /\ (i - 1) + 1 = i /\ (i - 1) + 1 <= Len(t)
      BY <1>1
    <2> HIDE DEF Fine
    <2>2. i - 1 \in T
      BY <1>5, <2>1
    <2> QED
      BY <2>1, <2>2
  <1> QED
    BY <1>6 DEF Ahead

(* The first text comes first, and the others behind it.                     *)
LEMMA FlattenHead ==
  ASSUME NEW S, NEW s \in Seq(Seq(S)), s # << >>
  PROVE  FlattenSeq(s) = Head(s) \o FlattenSeq(Tail(s))
  <1> DEFINE t == Tail(s)
  <1>1. /\ Head(s) = s[1] /\ s[1] \in Seq(S)
        /\ t \in Seq(Seq(S)) /\ Len(t) = Len(s) - 1
        /\ \A i \in 1 .. Len(t) : t[i] = s[i + 1]
    BY HeadTailProperties
  <1>2. Len(s) \in Nat \ {0} /\ Len(t) \in Nat
    BY <1>1, EmptySeq, LenProperties
  <1>3. PICK f : IsFlat(f, s) /\ FlattenSeq(s) = f[Len(s)]
    BY <1>2, FlatFound
  <1>4. CASE Len(s) = 1
    <2>1. f[1] = s[1] /\ FlattenSeq(s) = s[1]
      BY <1>3, <1>4 DEF IsFlat
    <2>4. t \in Seq(Seq(S)) /\ Len(t) = 0
      BY <1>1, <1>4
    <2>2. t = << >> /\ Len(t) = 0
      <3> HIDE DEF t
      <3> QED
        BY <2>4, EmptySeq
    <2>3. FlattenSeq(t) = << >>
      BY <2>2 DEF FlattenSeq
    <2> HIDE DEF t
    <2> QED
      BY <1>1, <2>1, <2>3, ConcatEmptySeq DEF t
  <1>5. CASE Len(s) # 1
    <2>1. Len(s) > 1 /\ Len(t) # 0 /\ Len(t) \in 1 .. Len(t) /\ Len(t) + 1 = Len(s)
      BY <1>1, <1>2, <1>5
    <2>2. PICK g : IsFlat(g, t) /\ FlattenSeq(t) = g[Len(t)]
      <3> HIDE DEF t
      <3> QED
        BY <1>1, <2>1, FlatFound
    <2> HIDE DEF t
    <2>3. \A i \in 1 .. Len(t) : Ahead(s[1], f, g, i)
      <3>1. t = Tail(s)
        BY DEF t
      <3>2. s \in Seq(Seq(S)) /\ Len(s) > 1 /\ IsFlat(f, s) /\ IsFlat(g, t)
        BY <1>1, <1>3, <2>1, <2>2
      <3> QED
        BY ONLY <3>1, <3>2, FlatFollows
    <2>4. f[Len(t) + 1] = s[1] \o g[Len(t)]
      BY <2>1, <2>3 DEF Ahead
    <2>5. f[Len(s)] = s[1] \o FlattenSeq(t)
      BY <2>1, <2>2, <2>4
    <2> QED
      BY <1>1, <1>3, <2>5 DEF t
  <1> QED
    BY <1>4, <1>5

(* Texts one behind the other are a text.                                    *)
LEMMA FlattenTyped ==
  ASSUME NEW S, NEW s \in Seq(Seq(S)) PROVE FlattenSeq(s) \in Seq(S)
  <1> DEFINE T == {n \in Nat : \A t \in Seq(Seq(S)) : Len(t) = n => FlattenSeq(t) \in Seq(S)}
  <1>1. 0 \in T
    <2> SUFFICES ASSUME NEW t \in Seq(Seq(S)), Len(t) = 0 PROVE FlattenSeq(t) \in Seq(S)
      OBVIOUS
    <2>1. t = << >>
      BY EmptySeq
    <2>2. FlattenSeq(t) = t
      BY DEF FlattenSeq
    <2> QED
      BY <2>1, <2>2, EmptySeq
  <1>2. ASSUME NEW n \in Nat, n \in T PROVE n + 1 \in T
    <2> SUFFICES ASSUME NEW t \in Seq(Seq(S)), Len(t) = n + 1 PROVE FlattenSeq(t) \in Seq(S)
      OBVIOUS
    <2>1. Len(<< >>) = 0
      BY EmptySeq
    <2>2. t # << >>
      BY <2>1
    <2> DEFINE h == Head(t)  r == Tail(t)
    <2>3. h \in Seq(S) /\ r \in Seq(Seq(S)) /\ Len(r) = n
      BY <2>2, HeadTailProperties
    <2>4. FlattenSeq(t) = h \o FlattenSeq(r)
      BY <2>2, FlattenHead
    <2> HIDE DEF h, r
    <2>5. FlattenSeq(r) \in Seq(S)
      BY <1>2, <2>3
    <2> QED
      BY <2>3, <2>4, <2>5, ConcatProperties
  <1>3. Nat \subseteq T
    <2> HIDE DEF T
    <2> QED
      BY <1>1, <1>2, Induction
  <1> QED
    BY <1>3, LenProperties

------------------------------------------------------------------------------
(* Recursion *)

(* f begins with a and goes on by h.                                         *)
Recursion(f, a, n, h) == f = [k \in 0 .. n |-> IF k = 0 THEN a ELSE h[k][f[k-1]]]

(* A recursion over the first n numbers has a solution.                      *)
LEMMA RecursionExists ==
  ASSUME NEW S, NEW a \in S, NEW n \in Nat, NEW h \in [1 .. n -> [S -> S]]
  PROVE  \E f \in [0 .. n -> S] : Recursion(f, a, n, h)
  <1> DEFINE Good(f, m) ==
               /\ f \in [0 .. m -> S]
               /\ \A k \in 0 .. m : f[k] = IF k = 0 THEN a ELSE h[k][f[k-1]]
             T == {m \in Nat : m <= n => \E f : Good(f, m)}
  <1>1. 0 \in T
    <2> DEFINE e == [k \in 0 .. 0 |-> a]
    <2>1. Good(e, 0)
      OBVIOUS
    <2> HIDE DEF Good, e
    <2> QED
      BY <2>1
  <1>2. ASSUME NEW m \in Nat, m \in T PROVE m + 1 \in T
    <2> SUFFICES ASSUME m + 1 <= n PROVE \E f : Good(f, m + 1)
      <3> HIDE DEF Good
      <3> QED
        OBVIOUS
    <2>1. PICK f : Good(f, m)
      <3> HIDE DEF Good
      <3> QED
        BY <1>2
    <2> DEFINE top == h[m + 1][f[m]]
               g == [k \in 0 .. m + 1 |-> IF k = m + 1 THEN top ELSE f[k]]
    <2>2. top \in S
      <3>1. f[m] \in S /\ m + 1 \in 1 .. n
        BY <2>1
      <3> QED
        BY <3>1
    <2> HIDE DEF top
    <2>3. g \in [0 .. m + 1 -> S]
      BY <2>1, <2>2
    <2>4. ASSUME NEW k \in 0 .. m + 1 PROVE g[k] = IF k = 0 THEN a ELSE h[k][g[k-1]]
      <3>1. CASE k = m + 1
        <4>1. g[k] = top /\ k # 0 /\ k - 1 = m /\ m \in 0 .. m + 1 /\ m # m + 1
          BY <3>1
        <4>2. g[k-1] = f[m]
          BY <4>1
        <4> QED
          BY <3>1, <4>1, <4>2 DEF top
      <3>2. CASE k # m + 1
        <4>1. k \in 0 .. m /\ g[k] = f[k]
          BY <3>2
        <4>2. CASE k = 0
          BY <2>1, <4>1, <4>2
        <4>3. CASE k # 0
          <5>1. k - 1 \in 0 .. m + 1 /\ k - 1 # m + 1
            BY <4>1, <4>3
          <5>2. g[k-1] = f[k-1]
            BY <5>1
          <5> QED
            BY <2>1, <4>1, <4>3, <5>2
        <4> QED
          BY <4>2, <4>3
      <3> QED
        BY <3>1, <3>2
    <2> QED
      BY <2>3, <2>4
  <1>3. Nat \subseteq T
    <2> HIDE DEF T
    <2> QED
      BY <1>1, <1>2, Induction
  <1>4. PICK f : Good(f, n)
    <2>1. n \in T /\ n <= n
      BY <1>3
    <2> HIDE DEF Good
    <2> QED
      BY <2>1
  <1>5. f \in [0 .. n -> S] /\ Recursion(f, a, n, h)
    BY <1>4 DEF Recursion
  <1> QED
    BY <1>5


------------------------------------------------------------------------------
(* Powers *)

LEMMA WidthIs == Width \in Nat /\ Width >= 8 /\ ByteBits \in Nat \ {0} /\ Width = 8 * ByteBits
  BY HarnessAssumption DEF Width

(* The powers of b, up to the width of an integer.                           *)
PowersOf(f, b) ==
  /\ f \in [0 .. Width -> Nat] /\ f[0] = 1
  /\ \A k \in 1 .. Width : f[k] = b * f[k-1]

LEMMA PowersExist ==
  ASSUME NEW b \in Nat
  PROVE  \E f : f = [k \in 0 .. Width |-> IF k = 0 THEN 1 ELSE b * f[k-1]]
  <1> DEFINE n == Width
             h == [k \in 1 .. n |-> [x \in Nat |-> b * x]]
  <1>1. n \in Nat
    BY WidthIs
  <1> HIDE DEF n
  <1>2. h \in [1 .. n -> [Nat -> Nat]] /\ 1 \in Nat
    <2>1. \A x \in Nat : b * x \in Nat
      OBVIOUS
    <2> QED
      BY <2>1
  <1>3. PICK f \in [0 .. n -> Nat] : Recursion(f, 1, n, h)
    <2> HIDE DEF h
    <2> QED
      BY ONLY <1>1, <1>2, RecursionExists
  <1>4. f = [k \in 0 .. n |-> IF k = 0 THEN 1 ELSE h[k][f[k-1]]]
    BY <1>3 DEF Recursion
  <1>5. \A k \in 0 .. n : f[k] = IF k = 0 THEN 1 ELSE h[k][f[k-1]]
    <2> HIDE DEF h
    <2> QED
      BY <1>4
  <1>6. ASSUME NEW k \in 0 .. n, k # 0 PROVE f[k] = b * f[k-1]
    <2>1. k \in 1 .. n /\ k - 1 \in 0 .. n
      BY <1>1, <1>6
    <2> DEFINE x == f[k-1]
    <2>2. x \in Nat
      BY <2>1
    <2>3. f[k] = h[k][x]
      BY <1>5, <1>6
    <2> HIDE DEF x
    <2>4. f[k] = b * x
      BY <2>1, <2>2, <2>3
    <2> QED
      BY <2>4 DEF x
  <1>7. f = [k \in 0 .. n |-> IF k = 0 THEN 1 ELSE b * f[k-1]]
    <2> HIDE DEF h
    <2> QED
      BY <1>5, <1>6
  <1> QED
    BY <1>7 DEF n

LEMMA PowersTyped ==
  ASSUME NEW b \in Nat, NEW f, f = [k \in 0 .. Width |-> IF k = 0 THEN 1 ELSE b * f[k-1]]
  PROVE  PowersOf(f, b)
  <1> DEFINE T == {k \in Nat : k <= Width => f[k] \in Nat}
  <1>1. \A k \in 0 .. Width : f[k] = IF k = 0 THEN 1 ELSE b * f[k-1]
    OBVIOUS
  <1>2. 0 \in T
    BY <1>1, WidthIs
  <1>3. ASSUME NEW k \in Nat, k \in T PROVE k + 1 \in T
    <2> SUFFICES ASSUME k + 1 <= Width PROVE f[k+1] \in Nat
      OBVIOUS
    <2>1. k + 1 \in 0 .. Width /\ k + 1 # 0 /\ (k + 1) - 1 = k /\ f[k] \in Nat
      BY <1>3, WidthIs
    <2>2. f[k+1] = b * f[(k + 1) - 1]
      BY ONLY <1>1, <2>1
    <2>3. f[k+1] = b * f[k]
      BY <2>1, <2>2
    <2> DEFINE x == f[k]
    <2>4. x \in Nat /\ f[k+1] = b * x
      BY <2>1, <2>3
    <2> HIDE DEF x
    <2> QED
      BY ONLY <2>4, b \in Nat
  <1>4. Nat \subseteq T
    <2> HIDE DEF T
    <2> QED
      BY <1>2, <1>3, Induction
  <1>5. \A k \in 0 .. Width : f[k] \in Nat
    BY <1>4, WidthIs
  <1>6. f = [k \in 0 .. Width |-> f[k]]
    OBVIOUS
  <1>7. f \in [0 .. Width -> Nat]
    BY ONLY <1>5, <1>6
  <1>8. 0 \in 0 .. Width /\ \A k \in 1 .. Width : k \in 0 .. Width /\ k # 0
    BY WidthIs
  <1>9. f[0] = 1 /\ \A k \in 1 .. Width : f[k] = b * f[k-1]
    BY ONLY <1>1, <1>8
  <1> QED
    BY <1>7, <1>9 DEF PowersOf

LEMMA TwoPowers == PowersOf(Pow2, 2)
  <1>1. \E f : f = [k \in 0 .. Width |-> IF k = 0 THEN 1 ELSE 2 * f[k-1]]
    BY PowersExist
  <1>2. Pow2 = [k \in 0 .. Width |-> IF k = 0 THEN 1 ELSE 2 * Pow2[k-1]]
    BY <1>1 DEF Pow2
  <1> DEFINE f == Pow2
  <1>3. f = [k \in 0 .. Width |-> IF k = 0 THEN 1 ELSE 2 * f[k-1]]
    BY <1>2
  <1> HIDE DEF f
  <1>4. PowersOf(f, 2)
    BY <1>3, PowersTyped
  <1> QED
    BY <1>4 DEF f

LEMMA TenPowers == PowersOf(Pow10, 10)
  <1>1. \E f : f = [k \in 0 .. Width |-> IF k = 0 THEN 1 ELSE 10 * f[k-1]]
    BY PowersExist
  <1>2. Pow10 = [k \in 0 .. Width |-> IF k = 0 THEN 1 ELSE 10 * Pow10[k-1]]
    BY <1>1 DEF Pow10
  <1> DEFINE f == Pow10
  <1>3. f = [k \in 0 .. Width |-> IF k = 0 THEN 1 ELSE 10 * f[k-1]]
    BY <1>2
  <1> HIDE DEF f
  <1>4. PowersOf(f, 10)
    BY <1>3, PowersTyped
  <1> QED
    BY <1>4 DEF f

(* Powers are positive and grow, those of ten beyond those of two.           *)
LEMMA PowersGrow ==
  ASSUME NEW k \in 0 .. Width
  PROVE  /\ Pow2[k] \in Nat \ {0} /\ Pow10[k] \in Nat \ {0} /\ Pow2[k] <= Pow10[k]
         /\ k > 0 => /\ k - 1 \in 0 .. Width
                     /\ Pow2[k] = 2 * Pow2[k-1] /\ Pow10[k] = 10 * Pow10[k-1]
  <1> DEFINE Good(j) == Pow2[j] \in Nat \ {0} /\ Pow10[j] \in Nat \ {0} /\ Pow2[j] <= Pow10[j]
             T == {j \in Nat : j <= Width => Good(j)}
  <1>1. PowersOf(Pow2, 2) /\ PowersOf(Pow10, 10) /\ Width \in Nat
    BY TwoPowers, TenPowers, WidthIs
  <1>2. 0 \in T
    BY <1>1 DEF PowersOf
  <1>3. ASSUME NEW j \in Nat, j \in T PROVE j + 1 \in T
    <2> SUFFICES ASSUME j + 1 <= Width PROVE Good(j + 1)
      OBVIOUS
    <2>1. j + 1 \in 1 .. Width /\ (j + 1) - 1 = j /\ Good(j)
      BY <1>1, <1>3
    <2>2. Pow2[j+1] = 2 * Pow2[j] /\ Pow10[j+1] = 10 * Pow10[j]
      <3>1. Pow2[j+1] = 2 * Pow2[(j+1)-1] /\ Pow10[j+1] = 10 * Pow10[(j+1)-1]
        BY ONLY <1>1, <2>1 DEF PowersOf
      <3> QED
        BY <2>1, <3>1
    <2> QED
      BY <2>1, <2>2
  <1>4. Nat \subseteq T
    <2> HIDE DEF T
    <2> QED
      BY <1>2, <1>3, Induction
  <1>5. Good(k)
    BY <1>1, <1>4
  <1>6. ASSUME k > 0
        PROVE  /\ k - 1 \in 0 .. Width
               /\ Pow2[k] = 2 * Pow2[k-1] /\ Pow10[k] = 10 * Pow10[k-1]
    <2>1. k \in 1 .. Width /\ k - 1 \in 0 .. Width
      BY <1>1, <1>6
    <2> QED
      BY ONLY <1>1, <2>1 DEF PowersOf
  <1> QED
    BY <1>5, <1>6

LEMMA Pow2Mono ==
  ASSUME NEW j \in 0 .. Width, NEW k \in 0 .. Width, j <= k
  PROVE  Pow2[j] <= Pow2[k]
  <1> DEFINE T == {d \in Nat : j + d <= Width => Pow2[j] <= Pow2[j + d]}
  <1>0. Width \in Nat
    BY WidthIs
  <1>1. 0 \in T
    <2>1. Pow2[j] \in Nat /\ j + 0 = j
      BY PowersGrow
    <2> QED
      BY <2>1
  <1>2. ASSUME NEW d \in Nat, d \in T PROVE d + 1 \in T
    <2> SUFFICES ASSUME j + (d + 1) <= Width PROVE Pow2[j] <= Pow2[j + (d + 1)]
      OBVIOUS
    <2> DEFINE i == j + (d + 1)
    <2>1. i \in 0 .. Width /\ i > 0 /\ i - 1 = j + d /\ Pow2[j] <= Pow2[j + d]
      BY <1>0, <1>2
    <2> HIDE DEF i
    <2>2. Pow2[i] = 2 * Pow2[i-1] /\ i - 1 \in 0 .. Width
      BY <2>1, PowersGrow
    <2>3. Pow2[i-1] \in Nat /\ Pow2[j] \in Nat
      BY <2>2, PowersGrow
    <2>4. Pow2[j] <= Pow2[i]
      BY <2>1, <2>2, <2>3
    <2> QED
      BY <2>4 DEF i
  <1>3. Nat \subseteq T
    <2> HIDE DEF T
    <2> QED
      BY <1>1, <1>2, Induction
  <1>4. k - j \in Nat /\ j + (k - j) = k
    BY <1>0
  <1>5. k - j \in T
    BY <1>3, <1>4
  <1> QED
    BY <1>0, <1>4, <1>5

(* The integers of every width are the bits of so many bytes.                *)
LEMMA Bytes == \E m \in Nat \ {0} : Pow2[Width] = 256 * m
  <1> DEFINE Good(k) == \E m \in Nat \ {0} : Pow2[k] = 256 * m
             T == {d \in Nat : 8 + d <= Width => Good(8 + d)}
  <1>0. Width \in Nat /\ Width >= 8
    BY WidthIs
  <1>1. Pow2[8] = 256
    <2>1. \A k \in 1 .. 8 : k \in 1 .. Width /\ Pow2[k] = 2 * Pow2[k-1]
      <3>1. \A k \in 1 .. 8 : k \in 1 .. Width
        BY <1>0
      <3> QED
        BY <3>1, TwoPowers DEF PowersOf
    <2>2. /\ Pow2[1] = 2 * Pow2[0] /\ Pow2[2] = 2 * Pow2[1] /\ Pow2[3] = 2 * Pow2[2]
          /\ Pow2[4] = 2 * Pow2[3] /\ Pow2[5] = 2 * Pow2[4] /\ Pow2[6] = 2 * Pow2[5]
          /\ Pow2[7] = 2 * Pow2[6] /\ Pow2[8] = 2 * Pow2[7]
      BY <2>1
    <2>3. Pow2[0] = 1
      BY TwoPowers DEF PowersOf
    <2> QED
      BY <2>2, <2>3
  <1>2. 0 \in T
    BY <1>1
  <1>3. ASSUME NEW d \in Nat, d \in T PROVE d + 1 \in T
    <2> SUFFICES ASSUME 8 + (d + 1) <= Width PROVE Good(8 + (d + 1))
      OBVIOUS
    <2> DEFINE i == 8 + (d + 1)
    <2>1. i \in 0 .. Width /\ i > 0 /\ i - 1 = 8 + d
      BY <1>0
    <2>2. PICK m \in Nat \ {0} : Pow2[8 + d] = 256 * m
      BY <1>0, <1>3
    <2> HIDE DEF i
    <2>3. Pow2[i] = 2 * Pow2[i-1]
      BY <2>1, PowersGrow
    <2>4. Pow2[i] = 256 * (2 * m) /\ 2 * m \in Nat \ {0}
      BY <2>1, <2>2, <2>3
    <2> QED
      BY <2>4 DEF i
  <1>4. Nat \subseteq T
    <2> HIDE DEF T
    <2> QED
      BY <1>2, <1>3, Induction
  <1>5. Width - 8 \in Nat /\ 8 + (Width - 8) = Width
    BY <1>0
  <1>6. Width - 8 \in T
    BY <1>4, <1>5
  <1> QED
    BY <1>0, <1>5, <1>6

------------------------------------------------------------------------------
(* Digits *)

LEMMA Division ==
  ASSUME NEW n \in Nat, NEW d \in Nat \ {0}
  PROVE  /\ n \div d \in Nat /\ d * (n \div d) <= n /\ n < d * (n \div d) + d
         /\ n \div d <= n
  <1>1. n \div d \in Nat /\ d * (n \div d) <= n /\ n < d * (n \div d) + d
    OBVIOUS
  <1> DEFINE q == n \div d
  <1>2. q \in Nat /\ d * q <= n
    BY <1>1
  <1> HIDE DEF q
  <1>3. q <= d * q
    BY <1>2
  <1> QED
    BY <1>1, <1>2, <1>3 DEF q

LEMMA Quotient ==
  ASSUME NEW n \in Nat, NEW d \in Nat \ {0}, NEW q \in Nat, d * q <= n, n < d * q + d
  PROVE  n \div d = q
  <1> DEFINE p == n \div d
  <1>1. p \in Nat /\ d * p <= n /\ n < d * p + d
    BY Division
  <1> HIDE DEF p
  <1>2. ~(p < q)
    <2> SUFFICES ASSUME p < q PROVE FALSE
      OBVIOUS
    <2> DEFINE e == q - (p + 1)
    <2>1. e \in Nat /\ q = (p + 1) + e
      BY <1>1
    <2> HIDE DEF e
    <2>2. d * q = d * p + d + d * e /\ d * e >= 0
      BY <1>1, <2>1
    <2> QED
      BY <1>1, <2>2
  <1>3. ~(q < p)
    <2> SUFFICES ASSUME q < p PROVE FALSE
      OBVIOUS
    <2> DEFINE e == p - (q + 1)
    <2>1. e \in Nat /\ p = (q + 1) + e
      BY <1>1
    <2> HIDE DEF e
    <2>2. d * p = d * q + d + d * e /\ d * e >= 0
      BY <1>1, <2>1
    <2> QED
      BY <1>1, <2>2
  <1> QED
    BY <1>1, <1>2, <1>3 DEF p

(* A quotient by the next power of ten is a tenth.                           *)
LEMMA Tenths ==
  ASSUME NEW n \in Nat, NEW d \in Nat \ {0}
  PROVE  n \div (10 * d) = (n \div d) \div 10
  <1> DEFINE q == n \div d  m == q \div 10  r == q % 10
  <1>1. q \in Nat /\ d * q <= n /\ n < d * q + d
    BY Division
  <1> HIDE DEF q
  <1>2. m \in Nat /\ r \in 0 .. 9 /\ q = 10 * m + r
    BY <1>1
  <1> HIDE DEF m, r
  <1>3. d * q = (10 * d) * m + d * r
    BY <1>1, <1>2
  <1>4. 0 <= d * r /\ d * r <= 9 * d
    BY <1>2
  <1>5. (10 * d) * m <= n /\ n < (10 * d) * m + 10 * d
    <2> DEFINE x == (10 * d) * m  y == d * r  z == d * q
    <2>1. x \in Int /\ y \in Int /\ z \in Int
      BY <1>1, <1>2
    <2>2. z = x + y /\ 0 <= y /\ y <= 9 * d /\ z <= n /\ n < z + d
      BY <1>1, <1>3, <1>4
    <2> HIDE DEF x, y, z
    <2>3. x <= n /\ n < x + 10 * d
      BY ONLY <2>1, <2>2, n \in Nat, d \in Nat \ {0}
    <2> QED
      BY <2>3 DEF x
  <1>6. 10 * d \in Nat \ {0}
    OBVIOUS
  <1>7. n \div (10 * d) = m
    <2> DEFINE e == 10 * d
    <2>1. e \in Nat \ {0} /\ e * m <= n /\ n < e * m + e
      BY <1>5, <1>6
    <2> HIDE DEF e
    <2>2. n \div e = m
      BY ONLY <2>1, <1>2, n \in Nat, Quotient
    <2> QED
      BY <2>2 DEF e
  <1> QED
    BY <1>7 DEF m, q

(* What is left of n without its last k digits.                              *)
Rest(n, k) == n \div Pow10[k]

LEMMA Rests ==
  ASSUME NEW n \in Nat, NEW k \in 0 .. Width
  PROVE  /\ Rest(n, k) \in Nat
         /\ k > 0 => Rest(n, k) = Rest(n, k - 1) \div 10
  <1>1. Pow10[k] \in Nat \ {0}
    BY PowersGrow
  <1>2. Rest(n, k) \in Nat
    <2> DEFINE d == Pow10[k]
    <2>1. d \in Nat \ {0}
      BY <1>1
    <2> HIDE DEF d
    <2>2. n \div d \in Nat
      BY <2>1, Division
    <2> QED
      BY <2>2 DEF Rest, d
  <1>3. ASSUME k > 0 PROVE Rest(n, k) = Rest(n, k - 1) \div 10
    <2> DEFINE d == Pow10[k-1]
    <2>1. Pow10[k] = 10 * d /\ k - 1 \in 0 .. Width
      BY <1>3, PowersGrow
    <2>2. d \in Nat \ {0}
      BY <2>1, PowersGrow
    <2> HIDE DEF d
    <2>3. n \div (10 * d) = (n \div d) \div 10
      BY <2>2, Tenths
    <2> QED
      BY <2>1, <2>3 DEF Rest, d
  <1> QED
    BY <1>2, <1>3

LEMMA RestZero == \A n \in Nat : Rest(n, 0) = n
  <1> SUFFICES ASSUME NEW n \in Nat PROVE Rest(n, 0) = n
    OBVIOUS
  <1>1. Pow10[0] = 1
    BY TenPowers DEF PowersOf
  <1>2. n \div 1 = n
    OBVIOUS
  <1> QED
    BY <1>1, <1>2 DEF Rest

(* A number of the width of an integer has a first digit.                    *)
LEMMA PlacesFound ==
  ASSUME NEW n \in Nat, n < Pow2[Width]
  PROVE  Places(n) \in 0 .. Width /\ Rest(n, Places(n)) <= 9
  <1> DEFINE T == {k \in 0 .. (Width + 1) - 1 : Rest(n, k) <= 9}
  <1>0. Width \in Nat /\ Width \in 0 .. Width
    BY WidthIs
  <1>1. Pow10[Width] \in Nat \ {0} /\ n < Pow10[Width]
    <2>1. /\ Pow2[Width] \in Nat /\ Pow10[Width] \in Nat \ {0}
          /\ Pow2[Width] <= Pow10[Width]
      BY <1>0, PowersGrow
    <2> QED
      BY <2>1
  <1>2. Rest(n, Width) = 0
    <2> DEFINE d == Pow10[Width]
    <2>1. d \in Nat \ {0} /\ n < d
      BY <1>1
    <2> HIDE DEF d
    <2>2. d * 0 = 0 /\ 0 \in Nat
      BY <2>1
    <2>3. n \div d = 0
      BY <2>1, <2>2, Quotient
    <2> QED
      BY <2>3 DEF Rest, d
  <1>3. Width \in T /\ T \in SUBSET (0 .. (Width + 1) - 1) /\ Width + 1 \in Nat
    BY <1>0, <1>2
  <1>4. PICK m \in T : \A k \in T : m <= k
    <2> HIDE DEF T
    <2> QED
      BY <1>3, Least
  <1>5. m \in 0 .. Width /\ Rest(n, m) <= 9
    BY <1>0, <1>4
  <1>6. ASSUME NEW j \in 0 .. m - 1 PROVE Rest(n, j) > 9
    <2>1. j \in 0 .. Width /\ ~(m <= j) /\ j \in 0 .. (Width + 1) - 1
      BY <1>0, <1>5
    <2>2. ~(Rest(n, j) <= 9)
      BY <1>4, <2>1
    <2>3. Rest(n, j) \in Nat
      BY <2>1, Rests
    <2> QED
      BY <2>2, <2>3
  <1>7. \E k \in 0 .. Width : Rest(n, k) <= 9 /\ \A j \in 0 .. k - 1 : Rest(n, j) > 9
    BY <1>5, <1>6
  <1> DEFINE P(k) == Rest(n, k) <= 9 /\ \A j \in 0 .. k - 1 : Rest(n, j) > 9
  <1>8. Places(n) = CHOOSE k \in 0 .. Width : P(k)
    BY DEF Places, Rest
  <1>9. \E k \in 0 .. Width : P(k)
    BY <1>7
  <1> HIDE DEF P
  <1>10. Places(n) \in 0 .. Width /\ P(Places(n))
    BY <1>8, <1>9
  <1> QED
    BY <1>10 DEF P

(* f[i] is the value of the first i digits.                                  *)
IsValue(f, digits) ==
  f = [n \in 0 .. Len(digits) |-> IF n = 0 THEN 0 ELSE 10 * f[n-1] + (digits[n] - 48)]

LEMMA ValueFound ==
  ASSUME NEW digits \in Seq(Int)
  PROVE  \E f : IsValue(f, digits) /\ ValueOf(digits) = f[Len(digits)]
  <1> DEFINE n == Len(digits)
             h == [k \in 1 .. n |-> [x \in Int |-> 10 * x + (digits[k] - 48)]]
  <1>1. n \in Nat /\ \A k \in 1 .. n : digits[k] \in Int
    BY LenProperties, ElementOfSeq
  <1> HIDE DEF n
  <1>2. h \in [1 .. n -> [Int -> Int]] /\ 0 \in Int
    <2>1. \A k \in 1 .. n, x \in Int : 10 * x + (digits[k] - 48) \in Int
      BY <1>1
    <2> QED
      BY <2>1
  <1>3. PICK f \in [0 .. n -> Int] : Recursion(f, 0, n, h)
    <2> HIDE DEF h
    <2> QED
      BY ONLY <1>1, <1>2, RecursionExists
  <1>4. \A k \in 0 .. n : f[k] = IF k = 0 THEN 0 ELSE h[k][f[k-1]]
    <2>1. f = [k \in 0 .. n |-> IF k = 0 THEN 0 ELSE h[k][f[k-1]]]
      BY <1>3 DEF Recursion
    <2> HIDE DEF h
    <2> QED
      BY <2>1
  <1>5. ASSUME NEW k \in 0 .. n, k # 0 PROVE f[k] = 10 * f[k-1] + (digits[k] - 48)
    <2>1. k \in 1 .. n /\ k - 1 \in 0 .. n
      BY <1>1, <1>5
    <2> DEFINE x == f[k-1]
    <2>2. x \in Int
      BY <2>1
    <2>3. f[k] = h[k][x]
      BY <1>4, <1>5
    <2> HIDE DEF x
    <2>4. f[k] = 10 * x + (digits[k] - 48)
      BY <2>1, <2>2, <2>3
    <2> QED
      BY <2>4 DEF x
  <1>6. f = [k \in 0 .. n |-> IF k = 0 THEN 0 ELSE 10 * f[k-1] + (digits[k] - 48)]
    <2> HIDE DEF h
    <2> QED
      BY <1>4, <1>5
  <1>7. \E g : IsValue(g, digits)
    BY <1>6 DEF n, IsValue
  <1> QED
    BY <1>7 DEF ValueOf, IsValue

(* The digits of a number are its digits.                                    *)
LEMMA DigitsTell ==
  ASSUME NEW n \in Nat, n < Pow2[Width]
  PROVE  /\ NumberUnsigned(n) \in Seq(48 .. 57) /\ Len(NumberUnsigned(n)) > 0
         /\ ValueOf(NumberUnsigned(n)) = n
  <1> DEFINE k == Places(n)
             digits == NumberUnsigned(n)
  <1>0. Width \in Nat
    BY WidthIs
  <1>1. k \in 0 .. Width /\ Rest(n, k) <= 9
    BY PlacesFound
  <1>2. digits = [i \in 1 .. k + 1 |-> 48 + (Rest(n, k + 1 - i) % 10)]
    BY DEF NumberUnsigned, Rest
  <1> HIDE DEF k, digits
  <1>3. ASSUME NEW i \in 1 .. k + 1
        PROVE  /\ Rest(n, k + 1 - i) \in Nat /\ digits[i] = 48 + (Rest(n, k + 1 - i) % 10)
               /\ digits[i] \in 48 .. 57
    <2>1. k + 1 - i \in 0 .. Width
      BY <1>0, <1>1
    <2>2. Rest(n, k + 1 - i) \in Nat
      BY <2>1, Rests
    <2>3. digits[i] = 48 + (Rest(n, k + 1 - i) % 10)
      BY <1>2
    <2> QED
      BY <2>2, <2>3
  <1>4. digits \in Seq(48 .. 57) /\ Len(digits) = k + 1
    <2> DEFINE D == 48 .. 57
    <2>1. k + 1 \in Nat /\ \A i \in 1 .. k + 1 : digits[i] \in D
      BY <1>1, <1>3
    <2>2. digits = [i \in 1 .. k + 1 |-> digits[i]]
      BY <1>2
    <2> HIDE DEF D
    <2>3. digits \in Seq(D) /\ Len(digits) = k + 1
      BY ONLY <2>1, <2>2
    <2> QED
      BY <2>3 DEF D
  <1>5. digits \in Seq(Int)
    BY <1>4
  <1>6. PICK f : IsValue(f, digits) /\ ValueOf(digits) = f[Len(digits)]
    BY <1>5, ValueFound
  <1>7. \A i \in 0 .. k + 1 : f[i] = IF i = 0 THEN 0 ELSE 10 * f[i-1] + (digits[i] - 48)
    BY <1>4, <1>6 DEF IsValue
  <1> DEFINE Good(i) == f[i] = Rest(n, k + 1 - i)
             T == {i \in Nat : i + 1 <= k + 1 => Good(i + 1)}
  <1>8. 0 \in T
    <2>1. k \in Nat /\ 1 \in 1 .. k + 1 /\ k + 1 - 1 = k /\ 0 \in 0 .. k + 1 /\ 1 \in 0 .. k + 1
      BY <1>1
    <2>2. f[0] = 0
      BY <1>7, <2>1
    <2>3. f[1] = 10 * f[1-1] + (digits[1] - 48)
      BY <1>7, <2>1
    <2>4. Rest(n, k) \in Nat /\ digits[1] = 48 + (Rest(n, k) % 10)
      BY <1>3, <2>1
    <2>5. f[1] = Rest(n, k)
      <3> DEFINE r == Rest(n, k)
      <3>1. r \in Nat /\ r <= 9 /\ f[1] = 10 * 0 + ((48 + (r % 10)) - 48)
        BY <1>1, <2>2, <2>3, <2>4
      <3> HIDE DEF r
      <3>2. f[1] = r
        BY <3>1
      <3> QED
        BY <3>2 DEF r
    <2>6. Good(1)
      BY <2>1, <2>5
    <2> HIDE DEF Good
    <2> QED
      BY <2>6
  <1>9. ASSUME NEW i \in Nat, i \in T PROVE i + 1 \in T
    <2> SUFFICES ASSUME (i + 1) + 1 <= k + 1 PROVE Good((i + 1) + 1)
      <3> HIDE DEF Good
      <3> QED
        OBVIOUS
    <2>1. Good(i + 1)
      <3> HIDE DEF Good
      <3> QED
        BY <1>1, <1>9
    <2> DEFINE j == (i + 1) + 1
    <2>2. /\ j \in 1 .. k + 1 /\ j \in 0 .. k + 1 /\ j # 0 /\ j - 1 = i + 1
          /\ i + 1 \in 1 .. k + 1
          /\ k + 1 - (i + 1) > 0 /\ k + 1 - (i + 1) \in 0 .. Width
          /\ k + 1 - (i + 1) - 1 = k + 1 - j
      BY <1>0, <1>1
    <2> HIDE DEF j
    <2>3. f[j] = 10 * f[i+1] + (digits[j] - 48)
      <3>1. f[j] = 10 * f[j-1] + (digits[j] - 48)
        BY <1>7, <2>2
      <3> QED
        BY <2>2, <3>1
    <2>4. digits[j] = 48 + (Rest(n, k + 1 - j) % 10) /\ Rest(n, k + 1 - j) \in Nat
      BY <1>3, <2>2
    <2> DEFINE e == k + 1 - (i + 1)
    <2>5. f[i+1] = Rest(n, e) /\ e > 0 /\ e \in 0 .. Width /\ e - 1 = k + 1 - j
      BY <1>0, <1>1, <2>1, <2>2
    <2> HIDE DEF e
    <2>6. Rest(n, e) = Rest(n, e - 1) \div 10
      BY <2>5, Rests
    <2>7. f[j] = 10 * (Rest(n, k + 1 - j) \div 10) + (Rest(n, k + 1 - j) % 10)
      <3>1. f[i+1] = Rest(n, k + 1 - j) \div 10
        BY <2>5, <2>6
      <3> DEFINE r == Rest(n, k + 1 - j)
      <3>2. r \in Nat /\ f[j] = 10 * (r \div 10) + ((48 + (r % 10)) - 48)
        BY <2>3, <2>4, <3>1
      <3> HIDE DEF r
      <3>3. f[j] = 10 * (r \div 10) + (r % 10)
        BY <3>2
      <3> QED
        BY <3>3 DEF r
    <2> DEFINE r == Rest(n, k + 1 - j)
    <2>8. r \in Nat /\ f[j] = 10 * (r \div 10) + (r % 10)
      BY <2>4, <2>7
    <2> HIDE DEF r
    <2>9. f[j] = r
      BY <2>8
    <2> QED
      BY <2>9 DEF r, j
  <1>10. Nat \subseteq T
    <2> HIDE DEF T
    <2> QED
      BY <1>8, <1>9, Induction
  <1>11. k \in T /\ k \in Nat
    BY <1>1, <1>10
  <1>12. Good(k + 1)
    <2> HIDE DEF Good
    <2> QED
      BY <1>11
  <1>13. f[k+1] = Rest(n, 0)
    <2>1. k + 1 - (k + 1) = 0
      BY <1>11
    <2> QED
      BY <1>12, <2>1
  <1>14. Rest(n, 0) = n
    BY RestZero
  <1>15. ValueOf(digits) = n
    BY <1>4, <1>6, <1>13, <1>14
  <1>16. Len(digits) > 0
    BY <1>4, <1>11
  <1> QED
    BY <1>4, <1>15, <1>16 DEF digits

(* The numbers of an integer, and what is written for them.                  *)
IntegerRange == -Pow2[Width - 1] .. Pow2[Width - 1] - 1

LEMMA HalfOfRange ==
  /\ Width - 1 \in 0 .. Width /\ Pow2[Width - 1] \in Nat \ {0}
  /\ Pow2[Width] = 2 * Pow2[Width - 1]
  <1>1. Width \in 0 .. Width /\ Width > 0
    BY WidthIs
  <1>2. Width - 1 \in 0 .. Width /\ Pow2[Width] = 2 * Pow2[Width - 1]
    BY <1>1, PowersGrow
  <1>3. Pow2[Width - 1] \in Nat \ {0}
    BY <1>2, PowersGrow
  <1> QED
    BY <1>2, <1>3

LEMMA NegatedIs ==
  ASSUME NEW n \in IntegerRange, n < 0
  PROVE  Negated(n) = -n /\ -n \in Nat /\ -n < Pow2[Width]
  <1> DEFINE p == Pow2[Width]  h == Pow2[Width - 1]
  <1>1. h \in Nat \ {0} /\ p = 2 * h
    BY HalfOfRange
  <1>2. n \in Int /\ -h <= n
    BY <1>1 DEF IntegerRange
  <1> HIDE DEF p, h
  <1>3. n % p = n + p
    BY <1>1, <1>2
  <1>4. (p - (n + p)) % p = -n
    BY <1>1, <1>2
  <1>5. -n \in Nat /\ -n < p
    BY <1>1, <1>2
  <1> QED
    BY <1>3, <1>4, <1>5 DEF Negated, p

(* A number written by UnityPrintNumber is that number read back, for every  *)
(* integer of the width, the smallest included, whose negation overflows.    *)
THEOREM NumbersTell ==
  ASSUME NEW n \in IntegerRange
  PROVE  /\ Denotes(PrintedNumber(n), n)
         /\ PrintedNumber(n) \in Seq(45 .. 57)
         /\ n >= 0 => PrintedNumber(n)[1] # Minus
  <1>1. /\ Pow2[Width - 1] \in Nat \ {0} /\ Pow2[Width] = 2 * Pow2[Width - 1]
        /\ n \in Int
    BY HalfOfRange DEF IntegerRange
  <1>2. CASE n < 0
    <2> DEFINE m == -n  s == NumberUnsigned(m)  t == PrintedNumber(n)
    <2>1. Negated(n) = m /\ m \in Nat /\ m < Pow2[Width]
      BY <1>2, NegatedIs
    <2> HIDE DEF m
    <2>2. s \in Seq(48 .. 57) /\ ValueOf(s) = m
      BY <2>1, DigitsTell
    <2>3. t = <<45>> \o s
      BY <1>2, <2>1 DEF PrintedNumber, Minus
    <2> HIDE DEF s, t
    <2>4. s \in Seq(45 .. 57) /\ 45 \in 45 .. 57
      BY <2>2
    <2> DEFINE D == 45 .. 57  c == 45
    <2>5. s \in Seq(D) /\ c \in D /\ t = <<c>> \o s
      BY <2>3, <2>4
    <2> HIDE DEF D, c
    <2>6. t \in Seq(D) /\ Len(t) = Len(s) + 1 /\ t[1] = c /\ Tail(t) = s
      <3>1. <<c>> \in Seq(D) /\ Len(<<c>>) = 1 /\ <<c>>[1] = c
        BY <2>5
      <3>2. t \in Seq(D) /\ Len(t) = 1 + Len(s)
        BY <2>5, <3>1
      <3>3. t[1] = c
        BY <2>5, <3>1
      <3>4. Tail(t) = s
        BY <2>5, <3>1
      <3> QED
        BY <2>5, <3>2, <3>3, <3>4, LenProperties
    <2>7. t[1] = Minus /\ ValueOf(Tail(t)) = -n
      BY <2>2, <2>6 DEF c, Minus, m
    <2> QED
      BY <1>1, <1>2, <2>6, <2>7 DEF Denotes, t, D
  <1>3. CASE ~(n < 0)
    <2>1. n \in Nat /\ n < Pow2[Width]
      BY <1>1, <1>3 DEF IntegerRange
    <2>2. /\ NumberUnsigned(n) \in Seq(48 .. 57) /\ Len(NumberUnsigned(n)) > 0
          /\ ValueOf(NumberUnsigned(n)) = n
      BY <2>1, DigitsTell
    <2>3. PrintedNumber(n) = NumberUnsigned(n)
      BY <1>3 DEF PrintedNumber
    <2>4. NumberUnsigned(n) \in Seq(45 .. 57)
      BY <2>2
    <2>5. NumberUnsigned(n)[1] \in 48 .. 57
      BY <2>2
    <2> QED
      BY <1>3, <2>2, <2>3, <2>4, <2>5 DEF Denotes, Minus
  <1> QED
    BY <1>2, <1>3

(* Numbers that differ never look the same.                                  *)
LEMMA NumbersDiffer ==
  ASSUME NEW m \in IntegerRange, NEW n \in IntegerRange, PrintedNumber(m) = PrintedNumber(n)
  PROVE  m = n
  <1>1. m \in Int /\ n \in Int
    BY HalfOfRange DEF IntegerRange
  <1> DEFINE s == PrintedNumber(m)
  <1>2. /\ Denotes(s, m) /\ Denotes(s, n)
        /\ m >= 0 => s[1] # Minus
        /\ n >= 0 => s[1] # Minus
    BY NumbersTell
  <1> HIDE DEF s
  <1> DEFINE v == ValueOf(s)  w == ValueOf(Tail(s))
  <1>3. /\ m < 0 => w = -m /\ s[1] = Minus
        /\ m >= 0 => v = m /\ s[1] # Minus
        /\ n < 0 => w = -n /\ s[1] = Minus
        /\ n >= 0 => v = n /\ s[1] # Minus
    BY <1>1, <1>2 DEF Denotes
  <1> HIDE DEF v, w
  <1> QED
    BY <1>1, <1>3

------------------------------------------------------------------------------
(* Characters and strings *)

Characters == -128 .. 127

LEMMA HexOfChar ==
  ASSUME NEW c \in Characters
  PROVE  NumberHex(c % Pow2[Width], 2) = <<Nibble((c % 256) \div 16), Nibble(c % 16)>>
  <1> DEFINE number == c % Pow2[Width]
  <1>1. PICK m \in Nat \ {0} : Pow2[Width] = 256 * m
    BY Bytes
  <1>2. number = IF c >= 0 THEN c ELSE c + 256 * m
    <2> DEFINE p == Pow2[Width]
    <2>1. p \in Int /\ p = 256 * m /\ p >= 256
      BY <1>1
    <2>2. c \in Int /\ -128 <= c /\ c <= 127
      BY DEF Characters
    <2> HIDE DEF p
    <2>3. c % p = IF c >= 0 THEN c ELSE c + p
      BY ONLY <2>1, <2>2
    <2> QED
      BY <2>1, <2>3 DEF p
  <1> HIDE DEF number
  <1>3. c \in Int /\ -128 <= c /\ c <= 127
    BY DEF Characters
  <1>4. /\ (number \div 16) % 16 = (c % 256) \div 16
        /\ (number \div 1) % 16 = c % 16
    BY <1>1, <1>2, <1>3
  <1>5. Pow2[4] = 16 /\ Pow2[0] = 1
    <2>1. \A k \in 1 .. 4 : k \in 1 .. Width
      BY WidthIs
    <2>2. \A k \in 1 .. 4 : Pow2[k] = 2 * Pow2[k-1]
      BY <2>1, TwoPowers DEF PowersOf
    <2>3. Pow2[0] = 1
      BY TwoPowers DEF PowersOf
    <2>4. /\ Pow2[1] = 2 * Pow2[0] /\ Pow2[2] = 2 * Pow2[1]
          /\ Pow2[3] = 2 * Pow2[2] /\ Pow2[4] = 2 * Pow2[3]
      BY <2>2
    <2> QED
      BY <2>3, <2>4
  <1>6. NumberHex(number, 2) = [i \in 1 .. 2 |-> Nibble((number \div Pow2[4 * (2 - i)]) % 16)]
    BY DEF NumberHex
  <1> DEFINE s == NumberHex(number, 2)
  <1>7. s[1] = Nibble((number \div Pow2[4 * (2 - 1)]) % 16)
    BY <1>6
  <1>8. s[2] = Nibble((number \div Pow2[4 * (2 - 2)]) % 16)
    BY <1>6
  <1>9. 4 * (2 - 1) = 4 /\ 4 * (2 - 2) = 0
    OBVIOUS
  <1>10. s[1] = Nibble((c % 256) \div 16) /\ s[2] = Nibble(c % 16)
    BY <1>4, <1>5, <1>7, <1>8, <1>9
  <1>11. s = [i \in 1 .. 2 |-> s[i]]
    BY <1>6
  <1> HIDE DEF s
  <1>12. s = <<s[1], s[2]>>
    BY <1>11
  <1> QED
    BY <1>10, <1>12 DEF s, number

LEMMA TwoAndTwo ==
  ASSUME NEW a \in Int, NEW b \in Int, NEW c \in Int, NEW d \in Int
  PROVE  <<a, b>> \o <<c, d>> = <<a, b, c, d>>
  <1> DEFINE x == <<a, b>>  y == <<c, d>>  z == <<a, b, c, d>>  w == x \o y
             m == Len(x)  n == Len(y)
  <1>1. /\ x \in Seq(Int) /\ m = 2 /\ x[1] = a /\ x[2] = b
        /\ y \in Seq(Int) /\ n = 2 /\ y[1] = c /\ y[2] = d
        /\ z \in Seq(Int) /\ Len(z) = 4 /\ z[1] = a /\ z[2] = b /\ z[3] = c /\ z[4] = d
    OBVIOUS
  <1> HIDE DEF x, y, z
  <1>2. /\ w \in Seq(Int) /\ Len(w) = m + n
        /\ \A i \in 1 .. m + n : w[i] = IF i <= m THEN x[i] ELSE y[i-m]
    <2>1. x \in Seq(Int) /\ y \in Seq(Int)
      BY <1>1
    <2> QED
      BY ONLY <2>1, ConcatProperties
  <1> HIDE DEF w, m, n
  <1>3. Len(w) = 4 /\ w[1] = a /\ w[2] = b /\ w[3] = c /\ w[4] = d
    BY <1>1, <1>2
  <1>4. w = z
    <2>1. w \in Seq(Int) /\ z \in Seq(Int) /\ Len(w) = Len(z)
      BY <1>1, <1>2, <1>3
    <2>2. \A i \in 1 .. Len(w) : w[i] = z[i]
      BY <1>1, <1>3
    <2> QED
      BY ONLY <2>1, <2>2, SeqEqual
  <1> QED
    BY <1>4 DEF w, x, y, z

(* How a character is shown.                                                 *)
LEMMA CharShown ==
  ASSUME NEW c \in Characters
  PROVE  /\ c \in 32 .. 126 => PrintChar(c) = <<c>>
         /\ c = 13 => PrintChar(c) = <<92, 114>>
         /\ c = 10 => PrintChar(c) = <<92, 110>>
         /\ c \notin 32 .. 126 /\ c # 13 /\ c # 10
              => PrintChar(c) = <<92, 120, Nibble((c % 256) \div 16), Nibble(c % 16)>>
  <1>1. ASSUME c \in 32 .. 126 PROVE PrintChar(c) = <<c>>
    <2>1. c # 13 /\ c # 10
      BY <1>1
    <2> QED
      BY <1>1, <2>1, Zenon DEF PrintChar
  <1>2. ASSUME c = 13 PROVE PrintChar(c) = <<92, 114>>
    BY <1>2 DEF PrintChar, Backslash
  <1>3. ASSUME c = 10 PROVE PrintChar(c) = <<92, 110>>
    BY <1>3 DEF PrintChar, Backslash
  <1>4. ASSUME c \notin 32 .. 126, c # 13, c # 10
        PROVE  PrintChar(c) = <<92, 120, Nibble((c % 256) \div 16), Nibble(c % 16)>>
    <2> DEFINE h == Nibble((c % 256) \div 16)  l == Nibble(c % 16)
               s == NumberHex(c % Pow2[Width], 2)
    <2>1. s = <<h, l>>
      BY HexOfChar
    <2>2. PrintChar(c) = <<92, 120>> \o s
      BY <1>4 DEF PrintChar, Backslash
    <2>5. h \in Int /\ l \in Int
      BY DEF Nibble, Characters
    <2> HIDE DEF h, l, s
    <2>3. <<92, 120>> \o <<h, l>> = <<92, 120, h, l>>
      BY <2>5, TwoAndTwo
    <2>4. PrintChar(c) = <<92, 120, h, l>>
      BY <2>1, <2>2, <2>3
    <2> QED
      BY <2>4 DEF h, l
  <1> QED
    BY <1>1, <1>2, <1>3, <1>4

LEMMA CharTyped ==
  ASSUME NEW c \in Characters PROVE PrintChar(c) \in Seq(Int) /\ Len(PrintChar(c)) > 0
  <1> DEFINE h == Nibble((c % 256) \div 16)  l == Nibble(c % 16)
  <1>1. h \in Int /\ l \in Int /\ c \in Int
    BY DEF Nibble, Characters
  <1> HIDE DEF h, l
  <1>2. \/ PrintChar(c) = <<c>> \/ PrintChar(c) = <<92, 114>> \/ PrintChar(c) = <<92, 110>>
        \/ PrintChar(c) = <<92, 120, h, l>>
    BY CharShown DEF h, l
  <1>3. <<c>> \in Seq(Int) /\ Len(<<c>>) > 0
    BY <1>1
  <1>4. <<92, 114>> \in Seq(Int) /\ Len(<<92, 114>>) > 0
    OBVIOUS
  <1>5. <<92, 110>> \in Seq(Int) /\ Len(<<92, 110>>) > 0
    OBVIOUS
  <1>6. <<92, 120, h, l>> \in Seq(Int) /\ Len(<<92, 120, h, l>>) > 0
    BY <1>1
  <1> QED
    BY <1>2, <1>3, <1>4, <1>5, <1>6

(* A text that begins with a character that is not a backslash tells which.  *)
Begins(c, z) ==
  /\ c \in 32 .. 126 => z[1] = c
  /\ c = 13 => z[1] = 92 /\ z[2] = 114
  /\ c = 10 => z[1] = 92 /\ z[2] = 110
  /\ c \notin 32 .. 126 /\ c # 13 /\ c # 10
       => /\ z[1] = 92 /\ z[2] = 120
          /\ z[3] = Nibble((c % 256) \div 16) /\ z[4] = Nibble(c % 16)

LEMMA CharBegins ==
  ASSUME NEW c \in Characters, NEW x \in Seq(Int) PROVE Begins(c, PrintChar(c) \o x)
  <1> DEFINE h == Nibble((c % 256) \div 16)  l == Nibble(c % 16)
             p == PrintChar(c)
  <1>1. /\ c \in 32 .. 126 => p = <<c>>
        /\ c = 13 => p = <<92, 114>>
        /\ c = 10 => p = <<92, 110>>
        /\ c \notin 32 .. 126 /\ c # 13 /\ c # 10 => p = <<92, 120, h, l>>
    BY CharShown
  <1>2. h \in Int /\ l \in Int /\ c \in Int
    BY DEF Nibble, Characters
  <1> HIDE DEF h, l, p
  <1>3. ASSUME p = <<c>> PROVE (p \o x)[1] = c
    BY <1>2, <1>3
  <1>4. ASSUME NEW y \in Int, p = <<92, y>> PROVE (p \o x)[1] = 92 /\ (p \o x)[2] = y
    BY <1>4
  <1>5. ASSUME p = <<92, 120, h, l>>
        PROVE  /\ (p \o x)[1] = 92 /\ (p \o x)[2] = 120
               /\ (p \o x)[3] = h /\ (p \o x)[4] = l
    BY <1>2, <1>5
  <1>6. c = 13 => (p \o x)[1] = 92 /\ (p \o x)[2] = 114
    <2> SUFFICES ASSUME c = 13 PROVE (p \o x)[1] = 92 /\ (p \o x)[2] = 114
      OBVIOUS
    <2>1. p = <<92, 114>> /\ 114 \in Int
      BY <1>1
    <2> QED
      BY ONLY <2>1, <1>4
  <1>7. c = 10 => (p \o x)[1] = 92 /\ (p \o x)[2] = 110
    <2> SUFFICES ASSUME c = 10 PROVE (p \o x)[1] = 92 /\ (p \o x)[2] = 110
      OBVIOUS
    <2>1. p = <<92, 110>> /\ 110 \in Int
      BY <1>1
    <2> QED
      BY ONLY <2>1, <1>4
  <1>8. /\ c \in 32 .. 126 => (p \o x)[1] = c
        /\ c = 13 => (p \o x)[1] = 92 /\ (p \o x)[2] = 114
        /\ c = 10 => (p \o x)[1] = 92 /\ (p \o x)[2] = 110
    BY <1>1, <1>3, <1>6, <1>7
  <1>9. c \notin 32 .. 126 /\ c # 13 /\ c # 10
        => /\ (p \o x)[1] = 92 /\ (p \o x)[2] = 120
           /\ (p \o x)[3] = h /\ (p \o x)[4] = l
    BY <1>1, <1>5
  <1> QED
    BY <1>8, <1>9 DEF Begins, p, h, l

LEMMA CharsDiffer ==
  ASSUME NEW c \in Characters, NEW d \in Characters, c # 92, d # 92,
         NEW z, Begins(c, z), Begins(d, z)
  PROVE  c = d
  <1>1. c \in Int /\ -128 <= c /\ c <= 127 /\ d \in Int /\ -128 <= d /\ d <= 127
    BY DEF Characters
  <1>2. ASSUME NEW m \in 0 .. 15, NEW n \in 0 .. 15, Nibble(m) = Nibble(n) PROVE m = n
    BY <1>2 DEF Nibble
  <1>3. /\ (c % 256) \div 16 \in 0 .. 15 /\ c % 16 \in 0 .. 15
        /\ (d % 256) \div 16 \in 0 .. 15 /\ d % 16 \in 0 .. 15
    BY <1>1
  <1>4. CASE c \in 32 .. 126
    BY <1>1, <1>4 DEF Begins
  <1>5. CASE c \in {10, 13}
    BY <1>1, <1>5 DEF Begins
  <1>6. CASE c \notin 32 .. 126 /\ c # 10 /\ c # 13
    <2>1. d \notin 32 .. 126 /\ d # 10 /\ d # 13
      BY <1>1, <1>6 DEF Begins
    <2>2. /\ Nibble((c % 256) \div 16) = Nibble((d % 256) \div 16)
          /\ Nibble(c % 16) = Nibble(d % 16)
      BY <1>6, <2>1 DEF Begins
    <2>3. (c % 256) \div 16 = (d % 256) \div 16 /\ c % 16 = d % 16
      BY <1>2, <1>3, <2>2
    <2> QED
      BY <1>1, <2>3
  <1> QED
    BY <1>4, <1>5, <1>6

(* Characters that differ never look the same, not even the backslash: what  *)
(* is shown with one is longer.                                              *)
LEMMA CharsTell ==
  ASSUME NEW c \in Characters, NEW d \in Characters, PrintChar(c) = PrintChar(d)
  PROVE  c = d
  <1>1. ASSUME NEW a \in Characters, PrintChar(a) = PrintChar(92) PROVE a = 92
    <2>1. PrintChar(92) = <<92>>
      BY CharShown DEF Characters
    <2> DEFINE h == Nibble((a % 256) \div 16)  l == Nibble(a % 16)
    <2>2. \/ PrintChar(a) = <<a>> \/ PrintChar(a) = <<92, 114>> \/ PrintChar(a) = <<92, 110>>
          \/ PrintChar(a) = <<92, 120, h, l>>
      BY CharShown
    <2> HIDE DEF h, l
    <2> QED
      BY <1>1, <2>1, <2>2
  <1>2. CASE c # 92 /\ d # 92
    <2> DEFINE e == << >>
    <2>1. e \in Seq(Int)
      OBVIOUS
    <2> HIDE DEF e
    <2>2. Begins(c, PrintChar(c) \o e) /\ Begins(d, PrintChar(d) \o e)
      BY <2>1, CharBegins
    <2> QED
      BY <1>2, <2>2, CharsDiffer
  <1>3. CASE c = 92 \/ d = 92
    BY <1>1, <1>3
  <1> QED
    BY <1>2, <1>3

(* What is quoted can be read between the quotes.                            *)
LEMMA QuotedTell ==
  ASSUME NEW s \in Seq(Int), NEW t \in Seq(Int),
         <<Quote>> \o s \o <<Quote>> = <<Quote>> \o t \o <<Quote>>
  PROVE  s = t
  <1> DEFINE q == <<Quote>>
  <1>1. q \in Seq(Int)
    BY DEF Quote
  <1>2. (q \o s) \o q = (q \o t) \o q
    OBVIOUS
  <1> HIDE DEF q
  <1>3. q \o s \in Seq(Int) /\ q \o t \in Seq(Int)
    BY <1>1, ConcatProperties
  <1> DEFINE u == q \o s  v == q \o t
  <1>4. u \in Seq(Int) /\ v \in Seq(Int) /\ u \o q = v \o q
    BY <1>2, <1>3
  <1>5. u = v
    <2> HIDE DEF u, v
    <2> QED
      BY ONLY <1>1, <1>4, ConcatSimplifications
  <1>6. q \o s = q \o t
    BY <1>5
  <1> QED
    BY ONLY <1>1, <1>6, s \in Seq(Int), t \in Seq(Int), ConcatSimplifications

(* The characters of a string, one behind the other.                         *)
Shown(s) == FlattenSeq([i \in 1 .. Len(s) |-> PrintChar(s[i])])

LEMMA ShownByOne ==
  ASSUME NEW s \in Seq(Characters)
  PROVE  /\ Shown(s) \in Seq(Int)
         /\ s = << >> => Shown(s) = << >>
         /\ s # << >> => Shown(s) = PrintChar(Head(s)) \o Shown(Tail(s))
  <1> DEFINE texts == [i \in 1 .. Len(s) |-> PrintChar(s[i])]
  <1>1. Len(s) \in Nat /\ \A i \in 1 .. Len(s) : s[i] \in Characters
    BY LenProperties, ElementOfSeq
  <1>2. \A i \in 1 .. Len(s) : texts[i] = PrintChar(s[i]) /\ texts[i] \in Seq(Int)
    BY <1>1, CharTyped
  <1>3. texts \in Seq(Seq(Int)) /\ Len(texts) = Len(s)
    <2> DEFINE S == Seq(Int)  n == Len(s)
    <2>1. n \in Nat /\ texts = [i \in 1 .. n |-> texts[i]] /\ \A i \in 1 .. n : texts[i] \in S
      BY <1>1, <1>2
    <2> HIDE DEF S, n, texts
    <2>2. texts \in Seq(S) /\ Len(texts) = n
      BY ONLY <2>1
    <2> QED
      BY <2>2 DEF S, n
  <1>4. Shown(s) = FlattenSeq(texts)
    BY DEF Shown
  <1> HIDE DEF texts
  <1>5. Shown(s) \in Seq(Int)
    BY <1>3, <1>4, FlattenTyped
  <1>6. ASSUME s = << >> PROVE Shown(s) = << >>
    <2>1. texts = << >>
      BY <1>3, <1>6, EmptySeq
    <2> QED
      BY <1>4, <2>1 DEF FlattenSeq
  <1>7. ASSUME s # << >> PROVE Shown(s) = PrintChar(Head(s)) \o Shown(Tail(s))
    <2>1. Len(s) # 0
      BY <1>7, EmptySeq
    <2>2. texts # << >>
      BY <1>3, <2>1, EmptySeq
    <2>3. FlattenSeq(texts) = Head(texts) \o FlattenSeq(Tail(texts))
      BY <1>3, <2>2, FlattenHead
    <2>4. Head(texts) = PrintChar(Head(s))
      <3>1. 1 \in 1 .. Len(s) /\ Head(texts) = texts[1] /\ Head(s) = s[1]
        BY <1>1, <1>3, <1>7, <2>1, <2>2, HeadTailProperties
      <3> QED
        BY <1>2, <3>1
    <2> DEFINE r == Tail(s)
    <2>5. /\ r \in Seq(Characters) /\ Len(r) = Len(s) - 1
          /\ \A i \in 1 .. Len(r) : r[i] = s[i+1]
      BY <1>7, HeadTailProperties
    <2> DEFINE u == Tail(texts)  v == [i \in 1 .. Len(r) |-> PrintChar(r[i])]
    <2>6. /\ u \in Seq(Seq(Int)) /\ Len(u) = Len(texts) - 1
          /\ \A i \in 1 .. Len(u) : u[i] = texts[i+1]
      BY <1>3, <2>2, HeadTailProperties
    <2>7. u = v
      <3> HIDE DEF r, u
      <3>1. Len(u) = Len(r) /\ Len(r) \in Nat
        BY <1>1, <1>3, <2>1, <2>5, <2>6
      <3>2. \A i \in 1 .. Len(r) : u[i] = PrintChar(r[i])
        <4> TAKE i \in 1 .. Len(r)
        <4>1. i + 1 \in 1 .. Len(s) /\ i \in 1 .. Len(u)
          BY <1>1, <2>5, <3>1
        <4>2. texts[i+1] = PrintChar(s[i+1]) /\ u[i] = texts[i+1] /\ r[i] = s[i+1]
          BY <1>2, <2>5, <2>6, <4>1
        <4> QED
          BY <4>2
      <3>3. u = [i \in 1 .. Len(r) |-> u[i]]
        BY <2>6, <3>1
      <3> QED
        BY <3>2, <3>3
    <2>8. Shown(r) = FlattenSeq(u)
      <3> HIDE DEF u
      <3> QED
        BY <2>7 DEF Shown
    <2> QED
      BY <1>4, <2>3, <2>4, <2>8
  <1> QED
    BY <1>5, <1>6, <1>7

(* The characters a text can be read back from.                              *)
Readable == Characters \ {92}

LEMMA ShownNotEmpty ==
  ASSUME NEW s \in Seq(Characters), s # << >> PROVE Shown(s) # << >>
  <1> DEFINE c == Head(s)  r == Tail(s)  p == PrintChar(c)  x == Shown(r)
  <1>1. c \in Characters /\ r \in Seq(Characters)
    BY HeadTailProperties
  <1>2. p \in Seq(Int) /\ Len(p) > 0 /\ x \in Seq(Int)
    <2> HIDE DEF c, r
    <2> QED
      BY <1>1, CharTyped, ShownByOne
  <1>3. Shown(s) = p \o x
    BY ShownByOne
  <1> HIDE DEF p, x
  <1>4. ASSUME p \o x = << >> PROVE FALSE
    <2>1. p = << >>
      BY ONLY <1>2, <1>4, ConcatSimplifications
    <2> QED
      BY <1>2, <2>1, EmptySeq
  <1> QED
    BY <1>3, <1>4

(* Strings without a backslash of their own that differ never look the same  *)
(* as UnityPrint writes them, whatever characters they have.                 *)
THEOREM StringsTell ==
  ASSUME NEW s \in Seq(Readable), NEW t \in Seq(Readable), Shown(s) = Shown(t)
  PROVE  s = t
  <1> DEFINE T == {n \in Nat : \A x, y \in Seq(Readable) :
                     Len(x) = n /\ Shown(x) = Shown(y) => x = y}
  <1>0. Seq(Readable) \subseteq Seq(Characters)
    BY DEF Readable
  <1>1. 0 \in T
    <2> SUFFICES ASSUME NEW x \in Seq(Readable), NEW y \in Seq(Readable),
                        Len(x) = 0, Shown(x) = Shown(y)
                 PROVE  x = y
      OBVIOUS
    <2>1. x = << >>
      BY EmptySeq
    <2>2. Shown(x) = << >>
      BY <1>0, <2>1, ShownByOne
    <2>3. y = << >>
      BY <1>0, <2>2, ShownNotEmpty
    <2> QED
      BY <2>1, <2>3
  <1>2. ASSUME NEW n \in Nat, n \in T PROVE n + 1 \in T
    <2> SUFFICES ASSUME NEW x \in Seq(Readable), NEW y \in Seq(Readable),
                        Len(x) = n + 1, Shown(x) = Shown(y)
                 PROVE  x = y
      OBVIOUS
    <2>1. x # << >> /\ y # << >>
      <3>1. x # << >>
        BY EmptySeq
      <3>2. Shown(x) # << >>
        BY <1>0, <3>1, ShownNotEmpty
      <3>3. y # << >>
        BY <1>0, <3>2, ShownByOne
      <3> QED
        BY <3>1, <3>3
    <2> DEFINE c == Head(x)  u == Tail(x)  d == Head(y)  v == Tail(y)
               p == PrintChar(c)  q == PrintChar(d)  g == Shown(u)  h == Shown(v)
    <2>2. c \in Readable /\ u \in Seq(Readable) /\ Len(u) = n /\ d \in Readable /\ v \in Seq(Readable)
      BY <2>1, HeadTailProperties
    <2>3. x = <<c>> \o u /\ y = <<d>> \o v
      BY <2>1
    <2>4. Shown(x) = p \o g /\ Shown(y) = q \o h
      BY <1>0, <2>1, ShownByOne
    <2> HIDE DEF c, u, d, v
    <2>5. c \in Characters /\ d \in Characters /\ c # 92 /\ d # 92
      BY <2>2 DEF Readable
    <2>6. p \in Seq(Int) /\ g \in Seq(Int) /\ h \in Seq(Int)
      BY <1>0, <2>2, <2>5, CharTyped, ShownByOne
    <2>7. Begins(c, p \o g) /\ Begins(d, q \o h)
      BY <2>5, <2>6, CharBegins
    <2>8. c = d
      <3> DEFINE z == p \o g
      <3>1. Begins(c, z) /\ Begins(d, z)
        BY <2>4, <2>7
      <3> HIDE DEF z
      <3> QED
        BY <2>5, <3>1, CharsDiffer
    <2>9. p \o g = p \o h
      BY <2>4, <2>8
    <2>10. g = h
      <3> HIDE DEF p, g, h
      <3> QED
        BY ONLY <2>6, <2>9, ConcatSimplifications
    <2>11. u = v
      BY <1>2, <2>2, <2>10
    <2> QED
      BY <2>3, <2>8, <2>11
  <1>3. Nat \subseteq T
    <2> HIDE DEF T
    <2> QED
      BY <1>1, <1>2, Induction
  <1> QED
    BY <1>3, LenProperties

(* A string, or NULL.                                                        *)
IsString(v) == v = NULL \/ \E s \in Seq(Characters \ {0}) : v = <<s>>

LEMMA StringShown ==
  ASSUME NEW s \in Seq(Characters)
  PROVE  PrintedString(<<s>>) = <<Quote>> \o Shown(s) \o <<Quote>>
  <1>1. <<s>> # NULL /\ <<s>>[1] = s
    BY DEF NULL
  <1>2. UnityPrint(<<s>>) = Shown(s)
    BY <1>1 DEF UnityPrint, Shown
  <1> QED
    BY <1>1, <1>2 DEF PrintedString

LEMMA PrintedStringsTell ==
  ASSUME NEW e, NEW a, IsString(e), IsString(a), NoBackslash(e), NoBackslash(a),
         PrintedString(e) = PrintedString(a)
  PROVE  e = a
  <1>1. ASSUME NEW s \in Seq(Characters) PROVE PrintedString(<<s>>) # PrintedString(NULL)
    <2> DEFINE q == <<Quote>>  x == Shown(s)  t == q \o x
    <2>1. q \in Seq(Int) /\ Len(q) = 1 /\ q[1] = 39 /\ x \in Seq(Int)
      BY ShownByOne DEF Quote
    <2>2. PrintedString(<<s>>) = t \o q
      BY StringShown
    <2> HIDE DEF q, x
    <2>3. t \in Seq(Int) /\ Len(t) > 0 /\ t[1] = 39
      <3>1. /\ t \in Seq(Int) /\ Len(t) = Len(q) + Len(x)
            /\ \A i \in 1 .. Len(q) + Len(x) : t[i] = IF i <= Len(q) THEN q[i] ELSE x[i - Len(q)]
        <4>1. q \in Seq(Int) /\ x \in Seq(Int)
          BY <2>1
        <4> QED
          BY ONLY <4>1, ConcatProperties
      <3>2. Len(x) \in Nat /\ 1 \in 1 .. Len(q) + Len(x)
        BY <2>1, LenProperties
      <3> HIDE DEF t
      <3> QED
        BY <2>1, <3>1, <3>2
    <2> HIDE DEF t
    <2>4. PrintedString(<<s>>)[1] = 39
      <3> DEFINE u == t \o q
      <3>1. \A i \in 1 .. Len(t) + Len(q) : u[i] = IF i <= Len(t) THEN t[i] ELSE q[i - Len(t)]
        <4>1. q \in Seq(Int) /\ t \in Seq(Int)
          BY <2>1, <2>3
        <4> QED
          BY ONLY <4>1, ConcatProperties
      <3>2. Len(t) \in Nat /\ 1 \in 1 .. Len(t) + Len(q) /\ 1 <= Len(t)
        BY <2>1, <2>3, LenProperties
      <3>3. u = PrintedString(<<s>>)
        BY <2>2
      <3> HIDE DEF u
      <3>4. u[1] = 39
        BY <2>3, <3>1, <3>2
      <3> QED
        BY <3>3, <3>4
    <2>5. PrintedString(NULL) = <<78, 85, 76, 76>>
      BY DEF PrintedString
    <2>6. PrintedString(NULL)[1] = 78
      BY <2>5
    <2> DEFINE u == PrintedString(<<s>>)  v == PrintedString(NULL)
    <2>7. u[1] = 39 /\ v[1] = 78
      BY <2>4, <2>6
    <2> HIDE DEF u, v
    <2>8. u # v
      BY <2>7
    <2> QED
      BY <2>8 DEF u, v
  <1>2. Seq(Characters \ {0}) \subseteq Seq(Characters)
    OBVIOUS
  <1>3. CASE e = NULL \/ a = NULL
    BY <1>1, <1>2, <1>3 DEF IsString
  <1>4. CASE e # NULL /\ a # NULL
    <2>1. PICK s \in Seq(Characters \ {0}) : e = <<s>>
      BY <1>4 DEF IsString
    <2>2. PICK t \in Seq(Characters \ {0}) : a = <<t>>
      BY <1>4 DEF IsString
    <2>3. e[1] = s /\ a[1] = t
      BY <2>1, <2>2
    <2>4. s \in Seq(Characters) /\ t \in Seq(Characters)
      BY <1>2
    <2>5. /\ \A i \in 1 .. Len(s) : s[i] \in Characters /\ s[i] # 92
          /\ \A i \in 1 .. Len(t) : t[i] \in Characters /\ t[i] # 92
      BY <1>4, <2>3, <2>4, ElementOfSeq DEF NoBackslash, Backslash
    <2>6. s \in Seq(Readable) /\ t \in Seq(Readable)
      <3>1. ASSUME NEW z \in Seq(Characters), \A i \in 1 .. Len(z) : z[i] \in Characters /\ z[i] # 92
            PROVE  z \in Seq(Readable)
        <4>1. \A i \in 1 .. Len(z) : z[i] \in Readable
          BY <3>1 DEF Readable
        <4> QED
          BY <4>1
      <3> QED
        BY <2>4, <2>5, <3>1
    <2>7. PrintedString(<<s>>) = PrintedString(<<t>>)
      BY <2>1, <2>2
    <2> DEFINE x == Shown(s)  y == Shown(t)
    <2>8. x \in Seq(Int) /\ y \in Seq(Int) /\ <<Quote>> \o x \o <<Quote>> = <<Quote>> \o y \o <<Quote>>
      BY <2>4, <2>7, StringShown, ShownByOne
    <2> HIDE DEF x, y
    <2>9. x = y
      BY <2>8, QuotedTell
    <2>10. s = t
      BY <2>6, <2>9, StringsTell DEF x, y
    <2> QED
      BY <2>1, <2>2, <2>10
  <1> QED
    BY <1>3, <1>4

LEMMA StringsCompared ==
  ASSUME NEW e, NEW a, IsString(e), IsString(a)
  PROVE  StringsDiffer(e, a) <=> e # a
  <1>1. CASE e = NULL \/ a = NULL
    BY <1>1 DEF StringsDiffer
  <1>2. CASE e # NULL /\ a # NULL
    <2> DEFINE C == Characters \ {0}
    <2>1. PICK s \in Seq(C) : e = <<s>>
      BY <1>2 DEF IsString
    <2>2. PICK t \in Seq(C) : a = <<t>>
      BY <1>2 DEF IsString
    <2> DEFINE m == Len(s)  n == Len(t)
               f(i) == IF i <= m THEN s[i] ELSE 0
               g(i) == IF i <= n THEN t[i] ELSE 0
    <2>3. /\ m \in Nat /\ n \in Nat
          /\ \A i \in 1 .. m : s[i] \in Int /\ s[i] # 0
          /\ \A i \in 1 .. n : t[i] \in Int /\ t[i] # 0
      <3>1. /\ m \in Nat /\ n \in Nat
            /\ \A i \in 1 .. m : s[i] \in C
            /\ \A i \in 1 .. n : t[i] \in C
        BY LenProperties, ElementOfSeq
      <3>2. \A x \in C : x \in Int /\ x # 0
        BY DEF Characters
      <3> HIDE DEF C, m, n
      <3> QED
        BY <3>1, <3>2
    <2>4. e[1] = s /\ a[1] = t
      BY <2>1, <2>2
    <2>5. \A i : CharAt(e, i) = f(i) /\ CharAt(a, i) = g(i)
      BY <2>4 DEF CharAt
    <2>6. StringsDiffer(e, a) <=> \E i \in 1 .. m + n :
             f(i) # g(i) /\ \A j \in 1 .. i - 1 : f(j) # 0 \/ g(j) # 0
      BY <1>2, <2>4, <2>5 DEF StringsDiffer
    <2>7. ASSUME e = a PROVE ~StringsDiffer(e, a)
      <3>1. s = t
        BY <2>4, <2>7
      <3> QED
        BY <2>6, <3>1
    <2>8. ASSUME e # a PROVE StringsDiffer(e, a)
      <3>1. s # t
        BY <2>1, <2>2, <2>8
      <3> DEFINE D == {i \in 0 .. (m + n + 1) - 1 : i > 0 /\ f(i) # g(i)}
      <3>2. D # {}
        <4>1. CASE m < n
          <5>1. m + 1 \in 0 .. (m + n + 1) - 1 /\ m + 1 > 0 /\ m + 1 \in 1 .. n
            BY <2>3, <4>1
          <5>2. f(m + 1) = 0 /\ g(m + 1) = t[m + 1] /\ t[m + 1] # 0
            BY <2>3, <5>1
          <5> HIDE DEF f, g
          <5> QED
            BY <5>1, <5>2
        <4>2. CASE n < m
          <5>1. n + 1 \in 0 .. (m + n + 1) - 1 /\ n + 1 > 0 /\ n + 1 \in 1 .. m
            BY <2>3, <4>2
          <5>2. g(n + 1) = 0 /\ f(n + 1) = s[n + 1] /\ s[n + 1] # 0
            BY <2>3, <5>1
          <5> HIDE DEF f, g
          <5> QED
            BY <5>1, <5>2
        <4>3. CASE m = n
          <5>1. \E i \in 1 .. m : s[i] # t[i]
            BY <3>1, <4>3, SeqEqual
          <5>2. PICK i \in 1 .. m : s[i] # t[i]
            BY <5>1
          <5>3. i \in 0 .. (m + n + 1) - 1 /\ i > 0 /\ f(i) # g(i)
            BY <2>3, <4>3, <5>2
          <5> HIDE DEF f, g
          <5> QED
            BY <5>3
        <4> QED
          BY <2>3, <4>1, <4>2, <4>3
      <3>3. PICK i \in D : \A j \in D : i <= j
        <4>1. D \in SUBSET (0 .. (m + n + 1) - 1) /\ m + n + 1 \in Nat
          BY <2>3
        <4> HIDE DEF D
        <4> QED
          BY <3>2, <4>1, Least
      <3>4. i \in 1 .. m + n /\ f(i) # g(i)
        BY <2>3
      <3>5. ASSUME NEW j \in 1 .. i - 1 PROVE f(j) # 0 \/ g(j) # 0
        <4>1. j \in Nat /\ j > 0 /\ j < i /\ i \in Nat
          BY <2>3, <3>4
        <4>2. CASE j <= m \/ j <= n
          BY <2>3, <4>1, <4>2
        <4>3. CASE ~(j <= m) /\ ~(j <= n)
          <5>1. ~(i <= m) /\ ~(i <= n)
            BY <2>3, <4>1, <4>3
          <5> QED
            BY <3>4, <5>1
        <4> QED
          BY <4>2, <4>3
      <3> HIDE DEF f, g, m, n
      <3> QED
        BY <2>6, <3>4, <3>5
    <2> QED
      BY <2>7, <2>8
  <1> QED
    BY <1>1, <1>2

------------------------------------------------------------------------------
(* Elements of arrays *)

Patterns(length) == 0 .. Pow2[length * ByteBits] - 1

LEMMA Sizes ==
  ASSUME NEW n \in {1, 2, 4, 8}
  PROVE  /\ n * ByteBits \in 0 .. Width /\ n * ByteBits - 1 \in 0 .. Width
         /\ n * ByteBits - 1 <= Width - 1
         /\ Pow2[n * ByteBits] = 2 * Pow2[n * ByteBits - 1]
         /\ Pow2[n * ByteBits - 1] \in Nat \ {0}
         /\ Pow2[n * ByteBits - 1] <= Pow2[Width - 1]
         /\ n < 8 => Pow2[n * ByteBits] <= Pow2[Width - 1]
  <1> DEFINE k == n * ByteBits
  <1>1. /\ k \in 0 .. Width /\ k - 1 \in 0 .. Width /\ k - 1 <= Width - 1 /\ k > 0
        /\ n < 8 => k <= Width - 1
        /\ Width - 1 \in 0 .. Width
    BY WidthIs
  <1> HIDE DEF k
  <1>2. Pow2[k] = 2 * Pow2[k-1] /\ Pow2[k-1] \in Nat \ {0}
    BY <1>1, PowersGrow
  <1>3. Pow2[k-1] <= Pow2[Width - 1]
    BY <1>1, Pow2Mono
  <1>4. n < 8 => Pow2[k] <= Pow2[Width - 1]
    BY <1>1, Pow2Mono
  <1> QED
    BY <1>1, <1>2, <1>3, <1>4 DEF k

(* Elements that differ have values that differ, and a value is an integer.  *)
LEMMA ElementsTell ==
  ASSUME NEW style \in ArrayStyles, NEW x \in Patterns(style.length)
  PROVE  /\ ElementValue(x, style) \in IntegerRange
         /\ \A y \in Patterns(style.length) :
              ElementValue(x, style) = ElementValue(y, style) => x = y
  <1> DEFINE n == style.length  k == n * ByteBits
             p == Pow2[k]  h == Pow2[k-1]  w == Pow2[Width - 1]
  <1>1. n \in {1, 2, 4, 8}
    BY DEF ArrayStyles
  <1> HIDE DEF n
  <1>2. p = 2 * h /\ h \in Nat \ {0} /\ h <= w /\ w \in Nat \ {0}
    BY <1>1, Sizes, HalfOfRange
  <1>3. n < 8 => p <= w
    BY <1>1, Sizes
  <1>4. x \in 0 .. p - 1
    BY DEF Patterns, n
  <1>5. \A y \in Patterns(style.length) : y \in 0 .. p - 1
    BY DEF Patterns, n
  <1>6. IntegerRange = -w .. w - 1
    BY DEF IntegerRange
  <1>7. CASE n < 8 /\ style.range # "INT"
    <2>1. \A y : ElementValue(y, style) = y
      BY <1>7 DEF ElementValue, n
    <2>2. x \in -w .. w - 1
      BY <1>2, <1>3, <1>4, <1>7
    <2> QED
      BY <1>6, <2>1, <2>2
  <1>8. CASE ~(n < 8 /\ style.range # "INT")
    <2>1. \A y : ElementValue(y, style) = IF y < h THEN y ELSE y - p
      BY <1>8 DEF ElementValue, Signed, n
    <2> HIDE DEF p, h, w, k
    <2>2. (IF x < h THEN x ELSE x - p) \in -w .. w - 1
      BY <1>2, <1>4
    <2>3. ASSUME NEW y \in 0 .. p - 1,
                 (IF x < h THEN x ELSE x - p) = (IF y < h THEN y ELSE y - p)
          PROVE  x = y
      BY <1>2, <1>4, <2>3
    <2> QED
      BY <1>5, <1>6, <2>1, <2>2, <2>3
  <1> QED
    BY <1>7, <1>8

------------------------------------------------------------------------------
(* Assertions *)

Line(verdict, element, first, second, words, msg) ==
  [test |-> Unity.NumberOfTests, line |-> step + 1, verdict |-> verdict,
   element |-> element, first |-> first, second |-> second, words |-> words, msg |-> msg]

(* An assertion writes nothing if it holds, and else one line that tells.    *)
Tells(c) ==
  /\ Deserves(c) = "PASS" => WrittenFor(c) = << >>
  /\ Deserves(c) # "PASS" =>
       \E element, first, second, words :
         /\ WrittenFor(c) = <<Line(Deserves(c), element, first, second, words, FALSE)>>
         /\ \A msg : ShowsClaim(c, Line(Deserves(c), element, first, second, words, msg))

WithElement(l, x) == [l EXCEPT !.element = x]
WithTwo(l, x, y) == [[l EXCEPT !.first = x] EXCEPT !.second = y]
WithWords(l, x) == [l EXCEPT !.words = x]

LEMMA LineElement ==
  ASSUME NEW verdict, NEW element, NEW first, NEW second, NEW words, NEW msg, NEW x
  PROVE  WithElement(Line(verdict, element, first, second, words, msg), x)
           = Line(verdict, x, first, second, words, msg)
  BY DEF Line, WithElement

LEMMA LineTwo ==
  ASSUME NEW verdict, NEW element, NEW first, NEW second, NEW words, NEW msg, NEW x, NEW y
  PROVE  WithTwo(Line(verdict, element, first, second, words, msg), x, y)
           = Line(verdict, element, x, y, words, msg)
  <1>1. [Line(verdict, element, first, second, words, msg) EXCEPT !.first = x]
          = Line(verdict, element, x, second, words, msg)
    BY DEF Line
  <1>2. [Line(verdict, element, x, second, words, msg) EXCEPT !.second = y]
          = Line(verdict, element, x, y, words, msg)
    BY DEF Line
  <1> QED
    BY <1>1, <1>2 DEF WithTwo

LEMMA LineWords ==
  ASSUME NEW verdict, NEW element, NEW first, NEW second, NEW words, NEW msg, NEW x
  PROVE  WithWords(Line(verdict, element, first, second, words, msg), x)
           = Line(verdict, element, first, second, x, msg)
  BY DEF Line, WithWords

LEMMA LineMsg ==
  ASSUME NEW verdict, NEW element, NEW first, NEW second, NEW words, NEW msg, NEW x
  PROVE  AddMsgIfSpecified(Line(verdict, element, first, second, words, msg), x)
           = Line(verdict, element, first, second, words, x)
  BY DEF Line, AddMsgIfSpecified

LEMMA LinePlain ==
  ASSUME NEW words PROVE Plain(words) = Line("FAIL", << >>, << >>, << >>, words, FALSE)
  <1> DEFINE v == "FAIL"  e == << >>  n == "none"  f == FALSE
  <1>1. FailBegin = Line(v, e, e, e, n, f)
    BY DEF FailBegin, TestResultsBegin, Line
  <1>2. Plain(words) = WithWords(FailBegin, words)
    BY DEF Plain, WithWords
  <1> HIDE DEF v, e, n, f
  <1>3. Plain(words) = Line(v, e, e, e, words, f)
    BY <1>1, <1>2, LineWords
  <1> QED
    BY <1>3 DEF v, e, f

LEMMA LineOfTwo ==
  ASSUME NEW first, NEW second
  PROVE  ExpectedAndActual(first, second) = Line("FAIL", << >>, first, second, "was", FALSE)
  <1> DEFINE v == "FAIL"  e == << >>  n == "none"  w == "was"  f == FALSE
  <1>1. FailBegin = Line(v, e, e, e, n, f)
    BY DEF FailBegin, TestResultsBegin, Line
  <1>2. ExpectedAndActual(first, second) = WithWords(WithTwo(FailBegin, first, second), w)
    BY DEF ExpectedAndActual, WithTwo, WithWords
  <1> HIDE DEF v, e, n, w, f
  <1>3. WithTwo(FailBegin, first, second) = Line(v, e, first, second, n, f)
    BY <1>1, LineTwo
  <1>4. ExpectedAndActual(first, second) = Line(v, e, first, second, w, f)
    BY <1>2, <1>3, LineWords
  <1> QED
    BY <1>4 DEF v, e, w, f

LEMMA Passes ==
  ASSUME NEW c, WrittenFor(c) = << >>, Deserves(c) = "PASS" PROVE Tells(c)
  BY DEF Tells

LEMMA Fails ==
  ASSUME NEW c, NEW element, NEW first, NEW second, NEW words, NEW verdict,
         verdict # "PASS", Deserves(c) = verdict,
         WrittenFor(c) = <<Line(verdict, element, first, second, words, FALSE)>>,
         \A msg : ShowsClaim(c, Line(verdict, element, first, second, words, msg))
  PROVE  Tells(c)
  <1>1. \E x, f, g, w :
           /\ WrittenFor(c) = <<Line(verdict, x, f, g, w, FALSE)>>
           /\ \A msg : ShowsClaim(c, Line(verdict, x, f, g, w, msg))
    OBVIOUS
  <1> QED
    BY <1>1 DEF Tells

LEMMA IntsTell ==
  ASSUME NEW e \in Ints, NEW a \in Ints
  PROVE  Tells([kind |-> "equal", style |-> StyleInt, expected |-> e, actual |-> a])
  <1> DEFINE c == [kind |-> "equal", style |-> StyleInt, expected |-> e, actual |-> a]
             shown(n) == PrintedNumber(n)
             l(msg) == Line("FAIL", << >>, shown(e), shown(a), "was", msg)
  <1>1. e \in IntegerRange /\ a \in IntegerRange
    BY HarnessAssumption DEF IntegerRange
  <1>2. \A n : PrintIntNumberByStyle(n, StyleInt) = PrintedNumber(n)
    BY DEF PrintIntNumberByStyle, StyleInt
  <1>3. WrittenFor(c) = AssertEqualIntNumber(c) /\ (Holds(c) <=> e = a)
    BY DEF WrittenFor, Holds
  <1>4. AssertEqualIntNumber(c) = IF e # a THEN <<l(FALSE)>> ELSE << >>
    <2>1. c.expected = e /\ c.actual = a /\ PrintIntNumberByStyle(e, c.style) = shown(e)
          /\ PrintIntNumberByStyle(a, c.style) = shown(a)
      BY <1>2
    <2>2. ExpectedAndActual(shown(e), shown(a)) = l(FALSE)
      BY LineOfTwo
    <2> HIDE DEF c, l, shown
    <2> QED
      BY <2>1, <2>2 DEF AssertEqualIntNumber
  <1>5. Denotes(PrintedNumber(e), e) /\ Denotes(PrintedNumber(a), a)
    BY <1>1, NumbersTell
  <1>6. \A msg : ShowsClaim(c, l(msg))
    BY <1>5 DEF ShowsClaim, StyleInt, Line
  <1>7. Deserves(c) = IF e = a THEN "PASS" ELSE "FAIL"
    BY <1>3 DEF Deserves
  <1>8. e # a => WrittenFor(c) = <<l(FALSE)>> /\ Deserves(c) = "FAIL"
    BY <1>3, <1>4, <1>7
  <1>9. e = a => WrittenFor(c) = << >> /\ Deserves(c) = "PASS"
    BY <1>3, <1>4, <1>7
  <1> HIDE DEF c
  <1>10. Tells(c)
    <2>1. CASE e = a
      BY <1>9, <2>1, Passes
    <2>2. CASE ~(e = a)
      <3> DEFINE p == shown(e)  q == shown(a)
      <3>1. /\ WrittenFor(c) = <<Line("FAIL", << >>, p, q, "was", FALSE)>>
            /\ Deserves(c) = "FAIL"
            /\ \A msg : ShowsClaim(c, Line("FAIL", << >>, p, q, "was", msg))
        BY <1>6, <1>8, <2>2
      <3> HIDE DEF p, q
      <3> QED
        BY ONLY <3>1, Fails
    <2> QED
      BY <2>1, <2>2
  <1> QED
    BY <1>10 DEF c

LEMMA LettersTell ==
  ASSUME NEW e \in Chars, NEW a \in Chars
  PROVE  Tells([kind |-> "equal", style |-> StyleChar, expected |-> e, actual |-> a])
  <1> DEFINE c == [kind |-> "equal", style |-> StyleChar, expected |-> e, actual |-> a]
             shown(n) == <<Quote>> \o PrintChar(n) \o <<Quote>>
             l(msg) == Line("FAIL", << >>, shown(e), shown(a), "was", msg)
  <1>1. e \in Characters /\ a \in Characters
    BY HarnessAssumption DEF Characters
  <1>2. \A n : PrintIntNumberByStyle(n, StyleChar) = shown(n)
    BY DEF PrintIntNumberByStyle, StyleChar
  <1>3. WrittenFor(c) = AssertEqualIntNumber(c) /\ (Holds(c) <=> e = a)
    BY DEF WrittenFor, Holds
  <1>4. AssertEqualIntNumber(c) = IF e # a THEN <<l(FALSE)>> ELSE << >>
    <2>1. c.expected = e /\ c.actual = a /\ PrintIntNumberByStyle(e, c.style) = shown(e)
          /\ PrintIntNumberByStyle(a, c.style) = shown(a)
      BY <1>2
    <2>2. ExpectedAndActual(shown(e), shown(a)) = l(FALSE)
      BY LineOfTwo
    <2> HIDE DEF c, l, shown
    <2> QED
      BY <2>1, <2>2 DEF AssertEqualIntNumber
  <1>5. e # a => shown(e) # shown(a)
    <2> SUFFICES ASSUME shown(e) = shown(a) PROVE e = a
      OBVIOUS
    <2> DEFINE s == PrintChar(e)  t == PrintChar(a)
    <2>1. s \in Seq(Int) /\ t \in Seq(Int) /\ <<Quote>> \o s \o <<Quote>> = <<Quote>> \o t \o <<Quote>>
      BY <1>1, CharTyped
    <2> HIDE DEF s, t
    <2>2. s = t
      BY <2>1, QuotedTell
    <2> QED
      BY <1>1, <2>2, CharsTell DEF s, t
  <1>6. e # a => \A msg : ShowsClaim(c, l(msg))
    <2> HIDE DEF shown
    <2> QED
      BY <1>5 DEF ShowsClaim, StyleChar, Line
  <1>7. Deserves(c) = IF e = a THEN "PASS" ELSE "FAIL"
    BY <1>3 DEF Deserves
  <1>8. e # a => WrittenFor(c) = <<l(FALSE)>> /\ Deserves(c) = "FAIL"
    BY <1>3, <1>4, <1>7
  <1>9. e = a => WrittenFor(c) = << >> /\ Deserves(c) = "PASS"
    BY <1>3, <1>4, <1>7
  <1> HIDE DEF c, shown
  <1>10. Tells(c)
    <2>1. CASE e = a
      BY <1>9, <2>1, Passes
    <2>2. CASE ~(e = a)
      <3> DEFINE p == shown(e)  q == shown(a)
      <3>1. /\ WrittenFor(c) = <<Line("FAIL", << >>, p, q, "was", FALSE)>>
            /\ Deserves(c) = "FAIL"
            /\ \A msg : ShowsClaim(c, Line("FAIL", << >>, p, q, "was", msg))
        BY <1>6, <1>8, <2>2
      <3> HIDE DEF p, q
      <3> QED
        BY ONLY <3>1, Fails
    <2> QED
      BY <2>1, <2>2
  <1> QED
    BY <1>10 DEF c

LEMMA OrdersTell ==
  ASSUME NEW e \in Ints, NEW a \in Ints, NEW x \in Comparisons
  PROVE  Tells([kind |-> "compare", style |-> StyleInt, expected |-> e, actual |-> a,
                compare |-> x])
  <1> DEFINE c == [kind |-> "compare", style |-> StyleInt, expected |-> e, actual |-> a,
                   compare |-> x]
             l(msg) == Line("FAIL", << >>, PrintedNumber(a), PrintedNumber(e), x, msg)
  <1>1. e \in IntegerRange /\ a \in IntegerRange
    BY HarnessAssumption DEF IntegerRange
  <1>2. \A n : PrintIntNumberByStyle(n, StyleInt) = PrintedNumber(n)
    BY DEF PrintIntNumberByStyle, StyleInt
  <1>3. WrittenFor(c) = AssertGreaterOrLess(c) /\ (Holds(c) <=> Relation(x, e, a))
    BY DEF WrittenFor, Holds
  <1>4. ComparisonFails(e, a, x) <=> ~Relation(x, e, a)
    <2>1. e \in Int /\ a \in Int
      BY <1>1, HalfOfRange DEF IntegerRange
    <2> DEFINE ne == {"NOT_EQUAL"}  gt == {"GREATER_THAN"}  lt == {"SMALLER_THAN"}
               ge == {"GREATER_THAN", "EQUAL_TO"}  le == {"SMALLER_THAN", "EQUAL_TO"}
    <2>2. /\ "EQUAL_TO" \notin ne /\ "GREATER_THAN" \notin ne /\ "SMALLER_THAN" \notin ne
          /\ "EQUAL_TO" \notin gt /\ "GREATER_THAN" \in gt /\ "SMALLER_THAN" \notin gt
          /\ "EQUAL_TO" \notin lt /\ "GREATER_THAN" \notin lt /\ "SMALLER_THAN" \in lt
          /\ "EQUAL_TO" \in ge /\ "GREATER_THAN" \in ge /\ "SMALLER_THAN" \notin ge
          /\ "EQUAL_TO" \in le /\ "GREATER_THAN" \notin le /\ "SMALLER_THAN" \in le
      OBVIOUS
    <2>3. Relation(x, e, a) =
            CASE x = ne -> a # e [] x = gt -> a > e [] x = lt -> a < e
              [] x = ge -> a >= e [] x = le -> a =< e
      BY DEF Relation
    <2>4. x \in {ne, gt, lt, ge, le}
      BY DEF Comparisons
    <2> HIDE DEF ne, gt, lt, ge, le
    <2>10. /\ ne # gt /\ ne # lt /\ ne # ge /\ ne # le /\ gt # lt /\ gt # ge
           /\ gt # le /\ lt # ge /\ lt # le /\ ge # le
      BY <2>2
    <2>5. CASE x = ne
      BY <2>1, <2>2, <2>3, <2>5 DEF ComparisonFails
    <2>6. CASE x = gt
      <3>1. Relation(x, e, a) <=> a > e
        BY <2>3, <2>6, <2>10
      <3> QED
        BY <2>1, <2>2, <2>6, <3>1 DEF ComparisonFails
    <2>7. CASE x = lt
      <3>1. Relation(x, e, a) <=> a < e
        BY <2>3, <2>7, <2>10
      <3> QED
        BY <2>1, <2>2, <2>7, <3>1 DEF ComparisonFails
    <2>8. CASE x = ge
      <3>1. Relation(x, e, a) <=> a >= e
        BY <2>3, <2>8, <2>10
      <3> QED
        BY <2>1, <2>2, <2>8, <3>1 DEF ComparisonFails
    <2>9. CASE x = le
      <3>1. Relation(x, e, a) <=> a =< e
        BY <2>3, <2>9, <2>10
      <3> QED
        BY <2>1, <2>2, <2>9, <3>1 DEF ComparisonFails
    <2> QED
      BY <2>4, <2>5, <2>6, <2>7, <2>8, <2>9
  <1>5. AssertGreaterOrLess(c) = IF ComparisonFails(e, a, x) THEN <<l(FALSE)>> ELSE << >>
    <2>1. ExpectedAndActual(PrintedNumber(a), PrintedNumber(e))
            = Line("FAIL", << >>, PrintedNumber(a), PrintedNumber(e), "was", FALSE)
      BY LineOfTwo
    <2>2. WithWords(ExpectedAndActual(PrintedNumber(a), PrintedNumber(e)), x) = l(FALSE)
      <3> DEFINE v == "FAIL"  none == << >>  w == "was"  f == FALSE
                 p == PrintedNumber(a)  q == PrintedNumber(e)
      <3>1. ExpectedAndActual(p, q) = Line(v, none, p, q, w, f)
        BY <2>1
      <3> HIDE DEF v, none, w, f, p, q
      <3>2. WithWords(ExpectedAndActual(p, q), x) = Line(v, none, p, q, x, f)
        BY <3>1, LineWords
      <3> QED
        BY <3>2 DEF v, none, f, p, q
    <2>3. [ExpectedAndActual(PrintedNumber(a), PrintedNumber(e)) EXCEPT !.words = x] = l(FALSE)
      BY <2>2 DEF WithWords
    <2>4. /\ c.expected = e /\ c.actual = a /\ c.compare = x
          /\ PrintIntNumberByStyle(e, c.style) = PrintedNumber(e)
          /\ PrintIntNumberByStyle(a, c.style) = PrintedNumber(a)
      BY <1>2
    <2> HIDE DEF c, l
    <2> QED
      BY <2>3, <2>4 DEF AssertGreaterOrLess
  <1>6. \A msg : ShowsClaim(c, l(msg))
    <2>1. Denotes(PrintedNumber(e), e) /\ Denotes(PrintedNumber(a), a)
      BY <1>1, NumbersTell
    <2> QED
      BY <2>1 DEF ShowsClaim, Line
  <1>7. Deserves(c) = IF Holds(c) THEN "PASS" ELSE "FAIL"
    BY DEF Deserves
  <1>8. ~Holds(c) => WrittenFor(c) = <<l(FALSE)>> /\ Deserves(c) = "FAIL"
    BY <1>3, <1>4, <1>5, <1>7
  <1>9. Holds(c) => WrittenFor(c) = << >> /\ Deserves(c) = "PASS"
    BY <1>3, <1>4, <1>5, <1>7
  <1> HIDE DEF c
  <1>10. Tells(c)
    <2>1. CASE Holds(c)
      BY <1>9, <2>1, Passes
    <2>2. CASE ~(Holds(c))
      <3> DEFINE p == PrintedNumber(a)  q == PrintedNumber(e)
      <3>1. /\ WrittenFor(c) = <<Line("FAIL", << >>, p, q, x, FALSE)>>
            /\ Deserves(c) = "FAIL"
            /\ \A msg : ShowsClaim(c, Line("FAIL", << >>, p, q, x, msg))
        BY <1>6, <1>8, <2>2
      <3> HIDE DEF p, q
      <3> QED
        BY ONLY <3>1, Fails
    <2> QED
      BY <2>1, <2>2
  <1> QED
    BY <1>10 DEF c

LEMMA TextsTell ==
  ASSUME NEW e \in Pointers(Strings), NEW a \in Pointers(Strings)
  PROVE  Tells([kind |-> "string", expected |-> e, actual |-> a])
  <1> DEFINE c == [kind |-> "string", expected |-> e, actual |-> a]
             p == PrintedString(e)  q == PrintedString(a)
             l(msg) == Line("FAIL", << >>, p, q, "was", msg)
  <1>1. IsString(e) /\ IsString(a)
    <2>1. ASSUME NEW v \in Pointers(Strings) PROVE IsString(v)
      <3>1. Strings \subseteq Seq(Characters \ {0})
        <4> DEFINE C == Chars \ {0}  D == Characters \ {0}
        <4>1. C \subseteq D /\ Strings \subseteq Seq(C)
          BY HarnessAssumption DEF Characters
        <4> HIDE DEF C, D
        <4>2. Seq(C) \subseteq Seq(D)
          BY ONLY <4>1
        <4>3. Strings \subseteq Seq(D)
          BY <4>1, <4>2
        <4> QED
          BY <4>3 DEF D
      <3> QED
        BY <3>1 DEF Pointers, IsString
    <2> QED
      BY <2>1
  <1>2. StringsDiffer(e, a) <=> e # a
    BY <1>1, StringsCompared
  <1>3. WrittenFor(c) = AssertEqualString(c) /\ (Holds(c) <=> e = a)
    BY DEF WrittenFor, Holds
  <1>4. AssertEqualString(c) = IF e # a THEN <<l(FALSE)>> ELSE << >>
    <2>1. c.expected = e /\ c.actual = a
      OBVIOUS
    <2>2. ExpectedAndActual(p, q) = l(FALSE)
      BY LineOfTwo
    <2> HIDE DEF c, l
    <2> QED
      BY <1>2, <2>1, <2>2 DEF AssertEqualString
  <1>5. e # a /\ NoBackslash(e) /\ NoBackslash(a) => p # q
    BY <1>1, PrintedStringsTell
  <1>6. e # a => \A msg : ShowsClaim(c, l(msg))
    <2> HIDE DEF p, q
    <2> QED
      BY <1>5 DEF ShowsClaim, Line
  <1>7. Deserves(c) = IF e = a THEN "PASS" ELSE "FAIL"
    BY <1>3 DEF Deserves
  <1>8. e # a => WrittenFor(c) = <<l(FALSE)>> /\ Deserves(c) = "FAIL"
    BY <1>3, <1>4, <1>7
  <1>9. e = a => WrittenFor(c) = << >> /\ Deserves(c) = "PASS"
    BY <1>3, <1>4, <1>7
  <1> HIDE DEF c, p, q
  <1>10. Tells(c)
    <2>1. CASE e = a
      BY <1>9, <2>1, Passes
    <2>2. CASE e # a
      <3>1. /\ WrittenFor(c) = <<Line("FAIL", << >>, p, q, "was", FALSE)>>
            /\ Deserves(c) = "FAIL"
            /\ \A msg : ShowsClaim(c, Line("FAIL", << >>, p, q, "was", msg))
        BY <1>6, <1>8, <2>2
      <3> QED
        BY ONLY <3>1, Fails
    <2> QED
      BY <2>1, <2>2
  <1> QED
    BY <1>10 DEF c

LEMMA ConditionsTell ==
  ASSUME NEW b \in BOOLEAN PROVE Tells([kind |-> "condition", condition |-> b])
  <1> DEFINE c == [kind |-> "condition", condition |-> b]
             l(msg) == Line("FAIL", << >>, << >>, << >>, "none", msg)
  <1>1. WrittenFor(c) = UnityFail(c) /\ (Holds(c) <=> b) /\ c.condition = b /\ c.kind = "condition"
    BY DEF WrittenFor, Holds
  <1>2. TestResultsBegin(step + 1, "FAIL") = l(FALSE)
    BY DEF TestResultsBegin, Line
  <1>3. \A msg : ShowsClaim(c, l(msg))
    BY <1>1 DEF ShowsClaim
  <1> HIDE DEF c
  <1>4. UnityFail(c) = IF b THEN << >> ELSE <<l(FALSE)>>
    BY <1>1, <1>2 DEF UnityFail
  <1>5. Deserves(c) = IF b THEN "PASS" ELSE "FAIL"
    BY <1>1 DEF Deserves
  <1>6. Tells(c)
    <2>1. CASE b
      BY <1>1, <1>4, <1>5, <2>1, Passes
    <2>2. CASE ~b
      <3> DEFINE none == << >>
      <3>1. /\ WrittenFor(c) = <<Line("FAIL", none, none, none, "none", FALSE)>>
            /\ Deserves(c) = "FAIL"
            /\ \A msg : ShowsClaim(c, Line("FAIL", none, none, none, "none", msg))
        BY <1>1, <1>3, <1>4, <1>5, <2>2
      <3> HIDE DEF none
      <3> QED
        BY ONLY <3>1, Fails
    <2> QED
      BY <2>1, <2>2
  <1> QED
    BY <1>6 DEF c

LEMMA IgnoreTells == Tells([kind |-> "ignore"])
  <1> DEFINE c == [kind |-> "ignore"]
             l(msg) == Line("IGNORE", << >>, << >>, << >>, "none", msg)
  <1>1. WrittenFor(c) = UnityIgnore(c) /\ c.kind = "ignore"
    BY DEF WrittenFor
  <1>2. TestResultsBegin(step + 1, "IGNORE") = l(FALSE)
    BY DEF TestResultsBegin, Line
  <1>3. \A msg : ShowsClaim(c, l(msg))
    BY <1>1 DEF ShowsClaim
  <1> HIDE DEF c
  <1>4. UnityIgnore(c) = <<l(FALSE)>>
    BY <1>2 DEF UnityIgnore
  <1>5. Deserves(c) = "IGNORE"
    BY <1>1 DEF Deserves
  <1>6. Tells(c)
    <2> DEFINE none == << >>
    <2>1. /\ WrittenFor(c) = <<Line("IGNORE", none, none, none, "none", FALSE)>>
          /\ Deserves(c) = "IGNORE" /\ "IGNORE" # "PASS"
          /\ \A msg : ShowsClaim(c, Line("IGNORE", none, none, none, "none", msg))
      BY <1>1, <1>3, <1>4, <1>5
    <2> HIDE DEF none
    <2> QED
      BY ONLY <2>1, Fails
  <1> QED
    BY <1>6 DEF c

(* An array assertion, of what is allowed to be one.                         *)
IsArrayClaim(c) ==
  /\ c.kind = "array" /\ c.style \in ArrayStyles /\ c.num \in 0 .. 2
  /\ c.expected \in Pointers(Arrays(c.style.length))
  /\ c.actual \in Pointers(Arrays(c.style.length))
  /\ ~c.same => c.expected # NULL \/ c.actual # NULL

LEMMA ArrayClaimsAre ==
  ASSUME NEW s \in ArrayStyles, NEW c \in ArrayClaims(s) PROVE IsArrayClaim(c)
  <1>1. CASE (\E e, a \in Pointers(Arrays(s.length)), n \in 0 .. 2, v \in BOOLEAN :
               c = [kind |-> "array", style |-> s, num |-> n, same |-> FALSE, each |-> v,
                    expected |-> e, actual |-> a])
          /\ (c.expected # NULL \/ c.actual # NULL)
    BY <1>1 DEF IsArrayClaim
  <1>2. CASE \E e \in Pointers(Arrays(s.length)), n \in 0 .. 2 :
               c = [kind |-> "array", style |-> s, num |-> n, same |-> TRUE, each |-> FALSE,
                    expected |-> e, actual |-> e]
    BY <1>2 DEF IsArrayClaim
  <1> QED
    BY <1>1, <1>2 DEF ArrayClaims

(* The elements an array assertion compares.                                 *)
LEMMA Compared ==
  ASSUME NEW c, IsArrayClaim(c), c.expected # NULL, c.actual # NULL, NEW i \in 1 .. c.num
  PROVE  /\ ExpectedAt(c, i) \in IntegerRange /\ ActualAt(c, i) \in IntegerRange
         /\ ExpectedAt(c, i) = ActualAt(c, i)
              <=> c.actual[1][i] = c.expected[1][IF c.each THEN 1 ELSE i]
  <1> DEFINE n == c.style.length
             j == IF c.each THEN 1 ELSE i
             x == c.expected[1][j]  y == c.actual[1][i]
  <1>1. c.style \in ArrayStyles /\ n \in {1, 2, 4, 8}
    BY DEF IsArrayClaim, ArrayStyles
  <1>2. ASSUME NEW v \in Pointers(Arrays(n)), v # NULL, NEW k \in 1 .. 2
        PROVE  v[1][k] \in Patterns(n)
    <2>1. PICK a \in Arrays(n) : v = <<a>>
      BY <1>2 DEF Pointers
    <2>2. a \in Seq(Patterns(n)) /\ Len(a) >= 2
      BY <1>1, HarnessAssumption DEF Patterns
    <2>3. a[k] \in Patterns(n)
      <3>1. k \in 1 .. Len(a)
        BY <2>2, LenProperties
      <3> QED
        BY <2>2, <3>1, ElementOfSeq
    <2>4. v[1] = a
      BY <2>1
    <2> QED
      BY <2>3, <2>4
  <1>3. i \in 1 .. 2 /\ j \in 1 .. 2
    BY DEF IsArrayClaim
  <1>4. x \in Patterns(n) /\ y \in Patterns(n)
    <2> HIDE DEF j
    <2> QED
      BY <1>2, <1>3 DEF IsArrayClaim
  <1>5. ExpectedAt(c, i) = ElementValue(x, c.style) /\ ActualAt(c, i) = ElementValue(y, c.style)
    BY DEF ExpectedAt, ActualAt
  <1> HIDE DEF x, y
  <1>6. /\ ElementValue(x, c.style) \in IntegerRange /\ ElementValue(y, c.style) \in IntegerRange
        /\ ElementValue(x, c.style) = ElementValue(y, c.style) => x = y
    BY <1>1, <1>4, ElementsTell
  <1> QED
    BY <1>5, <1>6 DEF x, y

LEMMA ArraysTell ==
  ASSUME NEW c, IsArrayClaim(c) PROVE Tells(c)
  <1>1. /\ c.kind = "array" /\ c.style \in ArrayStyles /\ c.num \in 0 .. 2
        /\ c.kind # "ignore"
        /\ ~c.same => c.expected # NULL \/ c.actual # NULL
    BY DEF IsArrayClaim
  <1>2. WrittenFor(c) = AssertEqualIntArray(c)
    BY <1>1 DEF WrittenFor
  <1>3. /\ Holds(c) <=>
             /\ c.num > 0
             /\ \/ c.same
                \/ /\ NULL \notin {c.expected, c.actual}
                   /\ \A i \in 1 .. c.num :
                        c.actual[1][i] = c.expected[1][IF c.each THEN 1 ELSE i]
        /\ Deserves(c) = IF Holds(c) THEN "PASS" ELSE "FAIL"
    BY <1>1 DEF Holds, Deserves
  <1>4. ASSUME NEW words, words # "was", ~Holds(c), WrittenFor(c) = <<Plain(words)>>
        PROVE  Tells(c)
    <2> DEFINE none == << >>
    <2>1. WrittenFor(c) = <<Line("FAIL", none, none, none, words, FALSE)>>
      BY <1>4, LinePlain
    <2>2. Deserves(c) = "FAIL"
      BY <1>3, <1>4
    <2>3. \A msg : ShowsClaim(c, Line("FAIL", none, none, none, words, msg))
      BY <1>1, <1>4 DEF ShowsClaim, Line
    <2> HIDE DEF none
    <2> QED
      BY ONLY <2>1, <2>2, <2>3, Fails
  <1>5. ASSUME Holds(c), WrittenFor(c) = << >> PROVE Tells(c)
    BY <1>3, <1>5, Passes
  <1>6. CASE c.num = 0
    <2>1. WrittenFor(c) = <<Plain("pointless")>> /\ ~Holds(c)
      BY <1>2, <1>3, <1>6 DEF AssertEqualIntArray
    <2> QED
      BY <1>4, <2>1
  <1>7. CASE c.num # 0 /\ c.same
    <2>1. WrittenFor(c) = << >> /\ Holds(c)
      BY <1>1, <1>2, <1>3, <1>7 DEF AssertEqualIntArray
    <2> QED
      BY <1>5, <2>1
  <1>8. CASE c.num # 0 /\ ~c.same /\ (c.expected = NULL \/ c.actual = NULL)
    <2>1. WrittenFor(c) = IsOneArrayNull(c) /\ ~Holds(c)
      BY <1>2, <1>3, <1>8 DEF AssertEqualIntArray
    <2>2. CASE c.expected = NULL
      <3>1. WrittenFor(c) = <<Plain("expected pointer NULL")>>
        BY <1>1, <1>8, <2>1, <2>2 DEF IsOneArrayNull
      <3> QED
        BY <1>4, <2>1, <3>1
    <2>3. CASE c.expected # NULL /\ c.actual = NULL
      <3>1. WrittenFor(c) = <<Plain("actual pointer NULL")>>
        BY <2>1, <2>3 DEF IsOneArrayNull
      <3> QED
        BY <1>4, <2>1, <3>1
    <2> QED
      BY <1>8, <2>2, <2>3
  <1>9. CASE c.num # 0 /\ ~c.same /\ c.expected # NULL /\ c.actual # NULL
    <2>1. /\ WrittenFor(c) = IF Differing(c) = {} THEN << >>
             ELSE <<[ExpectedAndActual(
                       PrintIntNumberByStyle(ExpectedAt(c, FirstDiffering(c)), c.style),
                       PrintIntNumberByStyle(ActualAt(c, FirstDiffering(c)), c.style))
                       EXCEPT !.element = NumberUnsigned(FirstDiffering(c) - 1)]>>
      BY <1>2, <1>9 DEF AssertEqualIntArray
    <2>2. \A i \in 1 .. c.num :
            /\ ExpectedAt(c, i) \in IntegerRange /\ ActualAt(c, i) \in IntegerRange
            /\ ExpectedAt(c, i) = ActualAt(c, i)
                 <=> c.actual[1][i] = c.expected[1][IF c.each THEN 1 ELSE i]
      BY <1>9, Compared
    <2>3. Holds(c) <=> Differing(c) = {}
      BY <1>1, <1>3, <1>9, <2>2 DEF Differing
    <2>4. CASE Differing(c) = {}
      BY <1>5, <2>1, <2>3, <2>4
    <2>5. CASE Differing(c) # {}
      <3> DEFINE i == FirstDiffering(c)
      <3>1. i \in Differing(c) /\ \A j \in Differing(c) : i <= j
        <4> DEFINE D == Differing(c)
        <4>1. D \in SUBSET (0 .. (c.num + 1) - 1) /\ c.num + 1 \in Nat
          BY <1>1 DEF Differing
        <4>2. i = CHOOSE k \in D : \A j \in D : k <= j
          BY DEF FirstDiffering
        <4>3. D # {}
          BY <2>5
        <4> HIDE DEF D, i
        <4>4. \E k \in D : \A j \in D : k <= j
          BY <4>1, <4>3, Least
        <4>5. i \in D /\ \A j \in D : i <= j
          BY <4>2, <4>4
        <4> QED
          BY <4>5 DEF D
      <3> HIDE DEF i
      <3>2. i \in 1 .. c.num /\ ExpectedAt(c, i) # ActualAt(c, i)
        BY <3>1 DEF Differing
      <3>3. ASSUME NEW j \in 1 .. i - 1 PROVE ExpectedAt(c, j) = ActualAt(c, j)
        <4>1. j \in 1 .. c.num /\ ~(i <= j)
          BY <1>1, <3>2
        <4>2. j \notin Differing(c)
          BY <3>1, <4>1
        <4> QED
          BY <4>1, <4>2 DEF Differing
      <3> DEFINE x == ExpectedAt(c, i)  y == ActualAt(c, i)  element == NumberUnsigned(i - 1)
                 p == PrintIntNumberByStyle(x, c.style)  q == PrintIntNumberByStyle(y, c.style)
      <3>4. x \in IntegerRange /\ y \in IntegerRange /\ x # y
        BY <2>2, <3>2
      <3>5. ValueOf(element) = i - 1
        <4>1. i - 1 \in Nat /\ i - 1 <= 1
          BY <1>1, <3>2
        <4>2. PICK m \in Nat \ {0} : Pow2[Width] = 256 * m
          BY Bytes
        <4>3. i - 1 < Pow2[Width]
          BY <4>1, <4>2
        <4> QED
          BY <4>1, <4>3, DigitsTell
      <3>6. c.style.range = "INT" => Denotes(p, x) /\ Denotes(q, y) /\ p # q
        <4> SUFFICES ASSUME c.style.range = "INT" PROVE Denotes(p, x) /\ Denotes(q, y) /\ p # q
          OBVIOUS
        <4>1. c.style.char = FALSE
          BY <1>1 DEF ArrayStyles
        <4>2. p = PrintedNumber(x) /\ q = PrintedNumber(y)
          BY <4>1 DEF PrintIntNumberByStyle
        <4> HIDE DEF x, y
        <4> QED
          BY <3>4, <4>2, NumbersTell, NumbersDiffer
      <3> HIDE DEF x, y, element, p, q
      <3>7. WrittenFor(c) = <<Line("FAIL", element, p, q, "was", FALSE)>>
        <4> DEFINE v == "FAIL"  none == << >>  w == "was"  f == FALSE
        <4>1. WrittenFor(c) = <<WithElement(ExpectedAndActual(p, q), element)>>
          BY <2>1, <2>5 DEF WithElement, i, x, y, element, p, q
        <4>2. ExpectedAndActual(p, q) = Line(v, none, p, q, w, f)
          BY LineOfTwo
        <4> HIDE DEF v, none, w, f
        <4>3. WithElement(ExpectedAndActual(p, q), element) = Line(v, element, p, q, w, f)
          BY <4>2, LineElement
        <4> QED
          BY <4>1, <4>3 DEF v, w, f
      <3>8. Deserves(c) = "FAIL"
        BY <1>3, <2>3, <2>5
      <3>9. ASSUME NEW msg PROVE ShowsClaim(c, Line("FAIL", element, p, q, "was", msg))
        <4> DEFINE l == Line("FAIL", element, p, q, "was", msg)
        <4>1. l.words = "was" /\ l.element = element /\ l.first = p /\ l.second = q
          BY DEF Line
        <4> HIDE DEF l
        <4>2. ValueOf(l.element) + 1 = i
          BY <1>1, <3>2, <3>5, <4>1
        <4>3. ShowsClaim(c, l) <=>
                /\ i \in 1 .. c.num
                /\ \A j \in 1 .. i - 1 : ExpectedAt(c, j) = ActualAt(c, j)
                /\ c.style.range = "INT" =>
                     /\ Denotes(l.first, ExpectedAt(c, i)) /\ Denotes(l.second, ActualAt(c, i))
                     /\ l.first # l.second
          BY <1>1, <4>1, <4>2 DEF ShowsClaim
        <4>4. ShowsClaim(c, l)
          BY <3>2, <3>3, <3>6, <4>1, <4>3 DEF x, y
        <4> QED
          BY <4>4 DEF l
      <3> QED
        BY ONLY <3>7, <3>8, <3>9, Fails
    <2> QED
      BY <2>4, <2>5
  <1> QED
    BY <1>1, <1>6, <1>7, <1>8, <1>9

(* An assertion writes nothing if what it means holds, and else one line     *)
(* with its verdict that shows its values, for each kind of assertion        *)
(* (UnityAssertEqualIntNumber, ...GreaterOrLess..., ...IntArray, ...String). *)
THEOREM ClaimsTell == \A c \in Claims : Tells(c)
  <1>1. \A e, a \in Ints :
          Tells([kind |-> "equal", style |-> StyleInt, expected |-> e, actual |-> a])
    BY IntsTell
  <1>2. \A e, a \in Chars :
          Tells([kind |-> "equal", style |-> StyleChar, expected |-> e, actual |-> a])
    BY LettersTell
  <1>3. \A e, a \in Ints, x \in Comparisons :
          Tells([kind |-> "compare", style |-> StyleInt, expected |-> e, actual |-> a,
                 compare |-> x])
    BY OrdersTell
  <1>4. \A e, a \in Pointers(Strings) :
          Tells([kind |-> "string", expected |-> e, actual |-> a])
    BY TextsTell
  <1>5. \A b \in BOOLEAN : Tells([kind |-> "condition", condition |-> b])
    BY ConditionsTell
  <1>6. Tells([kind |-> "ignore"])
    BY IgnoreTells
  <1>7. \A s \in ArrayStyles : \A c \in ArrayClaims(s) : Tells(c)
    BY ArrayClaimsAre, ArraysTell
  <1> QED
    BY <1>1, <1>2, <1>3, <1>4, <1>5, <1>6, <1>7 DEF Claims

------------------------------------------------------------------------------
(* The invariant *)

Verdicts == {"PASS", "FAIL", "IGNORE"}
Verdict == truth[Len(truth)]
InTest == pc \in {"setUp", "body", "tearDown", "conclude"}
CountTo(t, n, verdict) == Cardinality({i \in 1 .. n : t[i] = verdict})

HarnessTypes ==
  /\ pc \in {"main", "next", "setUp", "body", "tearDown", "conclude", "exited"}
  /\ Unity \in [NumberOfTests : Nat, TestFailures : Nat, TestIgnores : Nat,
                CurrentTestFailed : BOOLEAN, CurrentTestIgnored : BOOLEAN]
  /\ step \in 0 .. MaxSteps /\ up \in BOOLEAN
  /\ truth \in Seq(Verdicts) /\ Len(truth) <= Tests

(* Before anything of a test has failed, and after an assertion has.         *)
Fresh ==
  /\ output = << >> /\ claim = Nothing /\ Verdict = "PASS"
  /\ ~Unity.CurrentTestFailed /\ ~Unity.CurrentTestIgnored
Told ==
  /\ Verdict # "PASS"
  /\ Unity.CurrentTestFailed <=> Verdict = "FAIL"
  /\ Unity.CurrentTestIgnored <=> Verdict = "IGNORE"
  /\ Len(output) = 1 /\ output[1].test = Len(truth) /\ output[1].line = step
  /\ output[1].verdict = Verdict /\ output[1].msg = claim.given
  /\ ShowsClaim(claim.about, output[1])
LineRight ==
  /\ Len(output) = 1 /\ output[1].test = Len(truth) /\ output[1].verdict = Verdict
  /\ output[1].line = IF Verdict = "PASS" THEN 0 ELSE step

Summary ==
  [exited |-> TRUE, tests |-> PrintedNumber(Unity.NumberOfTests),
   failures |-> PrintedNumber(Unity.TestFailures),
   ignored |-> PrintedNumber(Unity.TestIgnores),
   verdict |-> IF Unity.TestFailures = 0 THEN "OK" ELSE "FAIL",
   status |-> Unity.TestFailures % 256]

(* Of the tests counted a verdict is known: all but the one that runs.       *)
Concluding == IF InTest THEN Len(truth) - 1 ELSE Len(truth)

HarnessInv ==
  /\ HarnessTypes
  /\ Unity.NumberOfTests = Len(truth)
  /\ up <=> pc \in {"body", "tearDown"}
  /\ pc = "main" => truth = << >>
  /\ InTest => truth # << >>
  /\ Unity.TestFailures = CountTo(truth, Concluding, "FAIL")
  /\ Unity.TestIgnores = CountTo(truth, Concluding, "IGNORE")
  /\ pc \in {"setUp", "body"} => Fresh
  /\ pc \in {"tearDown", "conclude"} => Fresh \/ Told
  /\ pc \in {"next", "main", "exited"} => ~Unity.CurrentTestFailed /\ ~Unity.CurrentTestIgnored
  /\ pc = "next" /\ truth # << >> => LineRight
  /\ summary = IF pc = "exited" THEN Summary ELSE NoSummary
  /\ pc = "exited" => Len(truth) = Tests

LEMMA CountSame ==
  ASSUME NEW t, NEW u, NEW n \in Nat, \A i \in 1 .. n : t[i] = u[i], NEW verdict
  PROVE  CountTo(t, n, verdict) = CountTo(u, n, verdict)
  <1>1. {i \in 1 .. n : t[i] = verdict} = {i \in 1 .. n : u[i] = verdict}
    OBVIOUS
  <1> QED
    BY <1>1 DEF CountTo

LEMMA CountNext ==
  ASSUME NEW t, NEW n \in Nat, NEW verdict
  PROVE  /\ CountTo(t, n, verdict) \in 0 .. n
         /\ t[n+1] = verdict => CountTo(t, n + 1, verdict) = CountTo(t, n, verdict) + 1
         /\ t[n+1] # verdict => CountTo(t, n + 1, verdict) = CountTo(t, n, verdict)
  <1> DEFINE S == {i \in 1 .. n : t[i] = verdict}
             R == {i \in 1 .. n + 1 : t[i] = verdict}
  <1>1. IsFiniteSet(1 .. n) /\ Cardinality(1 .. n) = n
    BY FS_Interval
  <1>2. IsFiniteSet(S) /\ Cardinality(S) \in Nat /\ Cardinality(S) <= n
    <2>1. S \subseteq 1 .. n
      OBVIOUS
    <2> HIDE DEF S
    <2> QED
      BY <1>1, <2>1, FS_Subset, FS_CardinalityType
  <1>3. ASSUME t[n+1] = verdict PROVE Cardinality(R) = Cardinality(S) + 1
    <2>1. R = S \cup {n + 1} /\ n + 1 \notin S
      BY <1>3
    <2> HIDE DEF R, S
    <2> QED
      BY <1>2, <2>1, FS_AddElement
  <1>4. ASSUME t[n+1] # verdict PROVE R = S
    BY <1>4
  <1> QED
    BY <1>2, <1>3, <1>4 DEF CountTo

LEMMA InvStarts == Init => HarnessInv
  <1> SUFFICES ASSUME Init PROVE HarnessInv
    OBVIOUS
  <1> USE DEF Init
  <1>1. MaxSteps \in Nat /\ Tests \in Nat
    BY HarnessAssumption
  <1>2. truth = << >> /\ truth \in Seq(Verdicts) /\ Len(truth) = 0
    OBVIOUS
  <1>3. HarnessTypes
    <2>1. Unity \in [NumberOfTests : Nat, TestFailures : Nat, TestIgnores : Nat,
                     CurrentTestFailed : BOOLEAN, CurrentTestIgnored : BOOLEAN]
      BY DEF Zero
    <2>2. up \in BOOLEAN
      OBVIOUS
    <2>3. step \in 0 .. MaxSteps
      BY <1>1
    <2>4. Len(truth) <= Tests
      <3>1. Len(truth) = 0
        BY <1>2
      <3> QED
        BY ONLY <1>1, <3>1
    <2>5. pc \in {"main", "next", "setUp", "body", "tearDown", "conclude", "exited"}
      OBVIOUS
    <2> QED
      BY <1>2, <2>1, <2>2, <2>3, <2>4, <2>5 DEF HarnessTypes
  <1>4. Concluding = 0 /\ ~InTest
    BY <1>2 DEF Concluding, InTest
  <1>5. \A verdict : CountTo(truth, 0, verdict) = 0
    <2>1. ASSUME NEW verdict PROVE CountTo(truth, 0, verdict) \in 0 .. 0
      BY CountNext
    <2> QED
      BY <2>1
  <1>6. /\ Unity.NumberOfTests = 0 /\ Unity.TestFailures = 0 /\ Unity.TestIgnores = 0
        /\ ~Unity.CurrentTestFailed /\ ~Unity.CurrentTestIgnored
    BY DEF Zero
  <1> QED
    BY <1>2, <1>3, <1>4, <1>5, <1>6 DEF HarnessInv

(* A step that leaves the truth and the counters alone.                      *)
CountersKept ==
  /\ truth' = truth /\ Concluding' = Concluding
  /\ Unity'.NumberOfTests = Unity.NumberOfTests
  /\ Unity'.TestFailures = Unity.TestFailures /\ Unity'.TestIgnores = Unity.TestIgnores

LEMMA CountersStay ==
  ASSUME HarnessInv, CountersKept
  PROVE  /\ Unity'.NumberOfTests = Len(truth')
         /\ Unity'.TestFailures = CountTo(truth', Concluding', "FAIL")
         /\ Unity'.TestIgnores = CountTo(truth', Concluding', "IGNORE")
  BY DEF HarnessInv, CountersKept

LEMMA BeginKeeps == HarnessInv /\ UnityBegin => HarnessInv'
  <1> SUFFICES ASSUME HarnessInv, UnityBegin PROVE HarnessInv'
    OBVIOUS
  <1>1. /\ pc = "main" /\ pc' = "next" /\ Unity' = Zero /\ truth' = truth /\ truth = << >>
        /\ UNCHANGED <<output, step, up, summary, claim>> /\ summary = NoSummary
    BY DEF HarnessInv, UnityBegin
  <1>2. /\ Unity'.NumberOfTests = 0 /\ Unity'.TestFailures = 0 /\ Unity'.TestIgnores = 0
        /\ ~Unity'.CurrentTestFailed /\ ~Unity'.CurrentTestIgnored
    BY <1>1 DEF Zero
  <1>3. ~InTest' /\ Concluding' = Len(truth') /\ Len(truth') = 0
    BY <1>1 DEF InTest, Concluding
  <1>4. \A verdict : CountTo(truth', 0, verdict) = 0
    <2>1. ASSUME NEW verdict PROVE CountTo(truth', 0, verdict) \in 0 .. 0
      BY CountNext
    <2> QED
      BY <2>1
  <1>5. HarnessTypes'
    BY <1>1 DEF HarnessInv, HarnessTypes, Zero
  <1>6. ~up
    BY <1>1 DEF HarnessInv
  <1> QED
    BY <1>1, <1>2, <1>3, <1>4, <1>5, <1>6 DEF HarnessInv

LEMMA RunKeeps == HarnessInv /\ DefaultTestRun => HarnessInv'
  <1> SUFFICES ASSUME HarnessInv, DefaultTestRun PROVE HarnessInv'
    OBVIOUS
  <1>1. /\ pc = "next" /\ pc' = "setUp" /\ Len(truth) < Tests /\ step' = 0 /\ output' = << >>
        /\ claim' = Nothing /\ truth' = Append(truth, "PASS") /\ up' = up /\ summary' = summary
        /\ Unity' = [Unity EXCEPT !.NumberOfTests = @ + 1]
    BY DEF DefaultTestRun
  <1>2. /\ HarnessTypes /\ Unity.NumberOfTests = Len(truth) /\ ~up
        /\ ~Unity.CurrentTestFailed /\ ~Unity.CurrentTestIgnored
        /\ Unity.TestFailures = CountTo(truth, Concluding, "FAIL")
        /\ Unity.TestIgnores = CountTo(truth, Concluding, "IGNORE")
        /\ summary = NoSummary
    BY <1>1 DEF HarnessInv
  <1>3. /\ Unity' \in [NumberOfTests : Nat, TestFailures : Nat, TestIgnores : Nat,
                       CurrentTestFailed : BOOLEAN, CurrentTestIgnored : BOOLEAN]
        /\ Unity'.NumberOfTests = Unity.NumberOfTests + 1
        /\ Unity'.TestFailures = Unity.TestFailures /\ Unity'.TestIgnores = Unity.TestIgnores
        /\ Unity'.CurrentTestFailed = Unity.CurrentTestFailed
        /\ Unity'.CurrentTestIgnored = Unity.CurrentTestIgnored
    BY <1>1, <1>2 DEF HarnessTypes
  <1> DEFINE n == Len(truth)
  <1>4. /\ n \in Nat /\ truth' \in Seq(Verdicts) /\ Len(truth') = n + 1
        /\ truth'[n+1] = "PASS" /\ \A i \in 1 .. n : truth'[i] = truth[i]
    BY <1>1, <1>2 DEF HarnessTypes, Verdicts
  <1>5. Concluding = n /\ Concluding' = n /\ InTest' /\ truth' # << >>
    BY <1>1, <1>4 DEF Concluding, InTest
  <1>6. \A verdict : CountTo(truth', n, verdict) = CountTo(truth, n, verdict)
    <2> DEFINE t == truth  u == truth'
    <2>1. n \in Nat /\ \A i \in 1 .. n : u[i] = t[i]
      BY <1>4
    <2> HIDE DEF t, u, n
    <2>2. \A verdict : CountTo(u, n, verdict) = CountTo(t, n, verdict)
      BY <2>1, CountSame
    <2> QED
      BY <2>2 DEF t, u
  <1>7. Fresh'
    BY <1>1, <1>2, <1>3, <1>4 DEF Fresh, Verdict
  <1>8. HarnessTypes'
    <2>1. MaxSteps \in Nat /\ Tests \in Nat
      BY HarnessAssumption
    <2> QED
      BY <1>1, <1>2, <1>3, <1>4, <2>1 DEF HarnessTypes
  <1> HIDE DEF n
  <1>9. Unity'.NumberOfTests = Len(truth')
    BY <1>2, <1>3, <1>4 DEF n
  <1>10. /\ Unity'.TestFailures = CountTo(truth', Concluding', "FAIL")
         /\ Unity'.TestIgnores = CountTo(truth', Concluding', "IGNORE")
    BY <1>2, <1>3, <1>5, <1>6
  <1> QED
    BY <1>1, <1>2, <1>5, <1>7, <1>8, <1>9, <1>10 DEF HarnessInv

LEMMA SetUpKeeps == HarnessInv /\ SetUp => HarnessInv'
  <1> SUFFICES ASSUME HarnessInv, SetUp PROVE HarnessInv'
    OBVIOUS
  <1>1. /\ pc = "setUp" /\ pc' = "body" /\ up' = TRUE
        /\ UNCHANGED <<Unity, output, step, summary, claim, truth>>
    BY DEF SetUp
  <1>2. HarnessTypes'
    BY <1>1 DEF HarnessInv, HarnessTypes
  <1>3. Fresh'
    BY <1>1 DEF HarnessInv, Fresh, Verdict
  <1>4. CountersKept /\ InTest'
    BY <1>1 DEF CountersKept, Concluding, InTest
  <1> QED
    BY <1>1, <1>2, <1>3, <1>4, CountersStay DEF HarnessInv, InTest

LEMMA ReturnKeeps == HarnessInv /\ TestReturns => HarnessInv'
  <1> SUFFICES ASSUME HarnessInv, TestReturns PROVE HarnessInv'
    OBVIOUS
  <1>1. /\ pc = "body" /\ pc' = "tearDown"
        /\ UNCHANGED <<Unity, output, step, up, summary, claim, truth>>
    BY DEF TestReturns
  <1>2. HarnessTypes'
    BY <1>1 DEF HarnessInv, HarnessTypes
  <1>3. Fresh'
    BY <1>1 DEF HarnessInv, Fresh, Verdict
  <1>4. CountersKept /\ InTest'
    BY <1>1 DEF CountersKept, Concluding, InTest
  <1> QED
    BY <1>1, <1>2, <1>3, <1>4, CountersStay DEF HarnessInv, InTest

LEMMA TearDownKeeps == HarnessInv /\ TearDown => HarnessInv'
  <1> SUFFICES ASSUME HarnessInv, TearDown PROVE HarnessInv'
    OBVIOUS
  <1>1. /\ pc = "tearDown" /\ pc' = "conclude" /\ up' = FALSE
        /\ UNCHANGED <<Unity, output, step, summary, claim, truth>>
    BY DEF TearDown
  <1>2. HarnessTypes'
    BY <1>1 DEF HarnessInv, HarnessTypes
  <1>3. Fresh' \/ Told'
    BY <1>1 DEF HarnessInv, Fresh, Told, Verdict
  <1>4. CountersKept /\ InTest'
    BY <1>1 DEF CountersKept, Concluding, InTest
  <1> QED
    BY <1>1, <1>2, <1>3, <1>4, CountersStay DEF HarnessInv, InTest

LEMMA AssertionKeeps == HarnessInv /\ MakeAssertion => HarnessInv'
  <1> SUFFICES ASSUME HarnessInv, MakeAssertion PROVE HarnessInv'
    OBVIOUS
  <1> DEFINE n == Len(truth)
  <1>1. /\ HarnessTypes /\ pc = "body" /\ Fresh /\ truth # << >> /\ up
        /\ Unity.NumberOfTests = n /\ summary = NoSummary
        /\ Unity.TestFailures = CountTo(truth, Concluding, "FAIL")
        /\ Unity.TestIgnores = CountTo(truth, Concluding, "IGNORE")
    BY DEF HarnessInv, MakeAssertion, InTest
  <1>2. PICK c \in Claims, given \in BOOLEAN :
          /\ step' = step + 1 /\ step < MaxSteps
          /\ truth' = [truth EXCEPT ![n] = Deserves(c)]
          /\ IF WrittenFor(c) = << >>
             THEN pc' = "body" /\ UNCHANGED <<output, Unity, claim>>
             ELSE /\ pc' = "tearDown"
                  /\ output' = Append(output, AddMsgIfSpecified(WrittenFor(c)[1], given))
                  /\ Unity' = FlagsAfter(c)
                  /\ claim' = [about |-> c, given |-> given]
    BY DEF MakeAssertion, Abort
  <1>3. up' = up /\ summary' = summary
    BY DEF MakeAssertion
  <1>4. Tells(c)
    BY ClaimsTell
  <1>5. Deserves(c) \in Verdicts /\ (Deserves(c) = "IGNORE" <=> c.kind = "ignore")
    BY DEF Deserves, Verdicts
  <1>6. /\ n \in Nat \ {0} /\ truth \in Seq(Verdicts)
        /\ truth' \in Seq(Verdicts) /\ Len(truth') = n /\ truth'[n] = Deserves(c)
        /\ \A i \in 1 .. n - 1 : truth'[i] = truth[i]
    <2>1. truth \in Seq(Verdicts) /\ n \in Nat /\ n # 0
      BY <1>1, EmptySeq, LenProperties DEF HarnessTypes
    <2> DEFINE d == Deserves(c)  t == truth
    <2>2. d \in Verdicts /\ t \in Seq(Verdicts) /\ truth' = [t EXCEPT ![Len(t)] = d]
      BY <1>2, <1>5, <2>1
    <2>3. Len(t) = n
      OBVIOUS
    <2> HIDE DEF d, t, n
    <2> QED
      BY <2>1, <2>2, <2>3 DEF t, d
  <1>7. Concluding = n - 1 /\ (pc' \in {"body", "tearDown"} => Concluding' = n - 1 /\ InTest')
    BY <1>1, <1>6 DEF Concluding, InTest
  <1>8. \A verdict : CountTo(truth', n - 1, verdict) = CountTo(truth, n - 1, verdict)
    <2> DEFINE t == truth  u == truth'  m == n - 1
    <2>1. m \in Nat /\ \A i \in 1 .. m : u[i] = t[i]
      BY <1>6
    <2> HIDE DEF t, u, m
    <2>2. \A verdict : CountTo(u, m, verdict) = CountTo(t, m, verdict)
      BY <2>1, CountSame
    <2> QED
      BY <2>2 DEF t, u, m
  <1>9. truth' # << >>
    BY <1>6
  <1>10. step' \in 0 .. MaxSteps
    BY <1>1, <1>2, HarnessAssumption DEF HarnessTypes
  <1> HIDE DEF n
  <1>11. CASE Deserves(c) = "PASS"
    <2>1. pc' = "body" /\ UNCHANGED <<output, Unity, claim>>
      BY <1>2, <1>4, <1>11 DEF Tells
    <2>2. HarnessTypes'
      BY <1>1, <1>3, <1>6, <1>10, <2>1 DEF HarnessTypes, n
    <2>3. Fresh'
      BY <1>1, <1>6, <1>11, <2>1 DEF Fresh, Verdict
    <2>4. /\ Unity'.TestFailures = CountTo(truth', Concluding', "FAIL")
          /\ Unity'.TestIgnores = CountTo(truth', Concluding', "IGNORE")
          /\ Unity'.NumberOfTests = Len(truth')
      BY <1>1, <1>6, <1>7, <1>8, <2>1
    <2> QED
      BY <1>1, <1>3, <1>9, <2>1, <2>2, <2>3, <2>4 DEF HarnessInv, InTest
  <1>12. CASE Deserves(c) # "PASS"
    <2>1. PICK element, first, second, words :
            /\ WrittenFor(c) = <<Line(Deserves(c), element, first, second, words, FALSE)>>
            /\ \A msg : ShowsClaim(c, Line(Deserves(c), element, first, second, words, msg))
      BY <1>4, <1>12 DEF Tells
    <2> DEFINE l == Line(Deserves(c), element, first, second, words, given)
    <2>2. WrittenFor(c) # << >> /\ AddMsgIfSpecified(WrittenFor(c)[1], given) = l
      <3> DEFINE f == FALSE  v == Deserves(c)  k == Line(v, element, first, second, words, f)
      <3>1. WrittenFor(c) = <<k>>
        BY <2>1
      <3>2. WrittenFor(c) # << >> /\ WrittenFor(c)[1] = k
        <4> HIDE DEF k
        <4> QED
          BY <3>1
      <3>3. AddMsgIfSpecified(k, given) = Line(v, element, first, second, words, given)
        <4> HIDE DEF f, v
        <4> QED
          BY LineMsg
      <3> QED
        BY <3>2, <3>3
    <2>3. /\ pc' = "tearDown" /\ output' = Append(output, l) /\ Unity' = FlagsAfter(c)
          /\ claim' = [about |-> c, given |-> given]
      BY <1>2, <2>2
    <2>4. /\ l.test = Unity.NumberOfTests /\ l.line = step + 1 /\ l.verdict = Deserves(c)
          /\ l.msg = given
      BY DEF Line
    <2>5. ShowsClaim(c, l)
      BY <2>1
    <2>6. output' = <<l>>
      <3> HIDE DEF l
      <3> QED
        BY <1>1, <2>3 DEF Fresh
    <2>7. Len(output') = 1 /\ output'[1] = l
      <3> HIDE DEF l
      <3> QED
        BY <2>6
    <2>8. claim'.about = c /\ claim'.given = given
      BY <2>3
    <2> HIDE DEF l
    <2>9. /\ Unity' \in [NumberOfTests : Nat, TestFailures : Nat, TestIgnores : Nat,
                         CurrentTestFailed : BOOLEAN, CurrentTestIgnored : BOOLEAN]
          /\ Unity'.NumberOfTests = Unity.NumberOfTests
          /\ Unity'.TestFailures = Unity.TestFailures /\ Unity'.TestIgnores = Unity.TestIgnores
          /\ Unity'.CurrentTestFailed <=> c.kind # "ignore"
          /\ Unity'.CurrentTestIgnored <=> c.kind = "ignore"
      BY <1>1, <2>3 DEF HarnessTypes, FlagsAfter, Fresh
    <2>10. HarnessTypes'
      BY <1>1, <1>3, <1>6, <1>10, <2>3, <2>9 DEF HarnessTypes, n
    <2>11. Verdict' = Deserves(c)
      BY <1>6 DEF Verdict
    <2>12. Told'
      <3>1. /\ Verdict' # "PASS"
            /\ Unity'.CurrentTestFailed <=> Verdict' = "FAIL"
            /\ Unity'.CurrentTestIgnored <=> Verdict' = "IGNORE"
        BY <1>5, <1>12, <2>9, <2>11 DEF Verdicts
      <3>2. /\ output'[1].test = Len(truth') /\ output'[1].line = step'
            /\ output'[1].verdict = Verdict' /\ output'[1].msg = claim'.given
        BY <1>1, <1>2, <1>6, <2>4, <2>7, <2>8, <2>11
      <3>3. ShowsClaim(claim'.about, output'[1])
        BY <2>5, <2>7, <2>8
      <3> QED
        BY <2>7, <3>1, <3>2, <3>3 DEF Told
    <2>13. /\ Unity'.TestFailures = CountTo(truth', Concluding', "FAIL")
           /\ Unity'.TestIgnores = CountTo(truth', Concluding', "IGNORE")
           /\ Unity'.NumberOfTests = Len(truth')
      BY <1>1, <1>6, <1>7, <1>8, <2>3, <2>9
    <2> QED
      BY <1>1, <1>3, <1>9, <2>3, <2>10, <2>12, <2>13 DEF HarnessInv, InTest
  <1> QED
    BY <1>11, <1>12

LEMMA ConcludeKeeps == HarnessInv /\ ConcludeTest => HarnessInv'
  <1> SUFFICES ASSUME HarnessInv, ConcludeTest PROVE HarnessInv'
    OBVIOUS
  <1> DEFINE n == Len(truth)
  <1>1. /\ pc = "conclude" /\ pc' = "next" /\ Unity' = Concluded
        /\ output' = IF Unity.CurrentTestIgnored \/ Unity.CurrentTestFailed THEN output
                     ELSE Append(output, TestResultsBegin(0, "PASS"))
        /\ UNCHANGED <<step, up, summary, claim, truth>>
    BY DEF ConcludeTest
  <1>2. /\ HarnessTypes /\ truth # << >> /\ (Fresh \/ Told) /\ ~up /\ summary = NoSummary
        /\ Unity.NumberOfTests = n
        /\ Unity.TestFailures = CountTo(truth, Concluding, "FAIL")
        /\ Unity.TestIgnores = CountTo(truth, Concluding, "IGNORE")
    BY <1>1 DEF HarnessInv, InTest
  <1>3. n \in Nat \ {0} /\ truth \in Seq(Verdicts) /\ truth[n] = Verdict /\ Verdict \in Verdicts
    <2>1. truth \in Seq(Verdicts) /\ n \in Nat /\ n # 0
      BY <1>2, EmptySeq, LenProperties DEF HarnessTypes
    <2>2. truth[n] \in Verdicts
      BY <2>1, ElementOfSeq
    <2> QED
      BY <2>1, <2>2 DEF Verdict
  <1>4. Concluding = n - 1 /\ Concluding' = n /\ ~InTest'
    BY <1>1, <1>3 DEF Concluding, InTest
  <1>5. /\ Unity.CurrentTestFailed <=> Verdict = "FAIL"
        /\ Unity.CurrentTestIgnored <=> Verdict = "IGNORE"
    BY <1>2 DEF Fresh, Told
  <1>6. /\ Unity' \in [NumberOfTests : Nat, TestFailures : Nat, TestIgnores : Nat,
                       CurrentTestFailed : BOOLEAN, CurrentTestIgnored : BOOLEAN]
        /\ Unity'.NumberOfTests = Unity.NumberOfTests
        /\ Unity'.TestFailures = Unity.TestFailures + (IF Verdict = "FAIL" THEN 1 ELSE 0)
        /\ Unity'.TestIgnores = Unity.TestIgnores + (IF Verdict = "IGNORE" THEN 1 ELSE 0)
        /\ ~Unity'.CurrentTestFailed /\ ~Unity'.CurrentTestIgnored
    <2> DEFINE g == IF Unity.CurrentTestIgnored THEN Unity.TestIgnores + 1
                    ELSE Unity.TestIgnores
               f == IF ~Unity.CurrentTestIgnored /\ Unity.CurrentTestFailed
                    THEN Unity.TestFailures + 1 ELSE Unity.TestFailures
    <2>1. Unity' = [Unity EXCEPT !.TestIgnores = g, !.TestFailures = f,
                                 !.CurrentTestFailed = FALSE, !.CurrentTestIgnored = FALSE]
      BY <1>1 DEF Concluded
    <2>2. /\ Unity \in [NumberOfTests : Nat, TestFailures : Nat, TestIgnores : Nat,
                        CurrentTestFailed : BOOLEAN, CurrentTestIgnored : BOOLEAN]
      BY <1>2 DEF HarnessTypes
    <2>3. Unity.TestFailures \in Nat /\ Unity.TestIgnores \in Nat
      BY <2>2
    <2>4. f \in Nat /\ f = Unity.TestFailures + (IF Verdict = "FAIL" THEN 1 ELSE 0)
      BY <1>5, <2>3
    <2>5. g \in Nat /\ g = Unity.TestIgnores + (IF Verdict = "IGNORE" THEN 1 ELSE 0)
      BY <1>5, <2>3
    <2> HIDE DEF f, g
    <2>6. /\ Unity' \in [NumberOfTests : Nat, TestFailures : Nat, TestIgnores : Nat,
                         CurrentTestFailed : BOOLEAN, CurrentTestIgnored : BOOLEAN]
          /\ Unity'.NumberOfTests = Unity.NumberOfTests
          /\ Unity'.TestFailures = f /\ Unity'.TestIgnores = g
          /\ ~Unity'.CurrentTestFailed /\ ~Unity'.CurrentTestIgnored
      BY <2>1, <2>2, <2>4, <2>5
    <2> QED
      BY <2>4, <2>5, <2>6
  <1>7. ASSUME NEW v
        PROVE  CountTo(truth, n, v) = CountTo(truth, n - 1, v) + (IF Verdict = v THEN 1 ELSE 0)
    <2> DEFINE m == n - 1
    <2>1. m \in Nat /\ m + 1 = n
      BY <1>3
    <2> HIDE DEF m
    <2>2. /\ CountTo(truth, m, v) \in 0 .. m
          /\ truth[m+1] = v => CountTo(truth, m + 1, v) = CountTo(truth, m, v) + 1
          /\ truth[m+1] # v => CountTo(truth, m + 1, v) = CountTo(truth, m, v)
      BY <2>1, CountNext
    <2>3. CountTo(truth, n, v) = CountTo(truth, m, v) + (IF Verdict = v THEN 1 ELSE 0)
      <3> HIDE DEF n
      <3> QED
        BY <1>3, <2>1, <2>2
    <2> QED
      BY <2>3 DEF m
  <1>8. /\ Unity'.TestFailures = CountTo(truth', Concluding', "FAIL")
        /\ Unity'.TestIgnores = CountTo(truth', Concluding', "IGNORE")
    BY <1>1, <1>2, <1>4, <1>6, <1>7
  <1>9. LineRight'
    <2>1. CASE Verdict = "PASS"
      <3>1. Fresh
        BY <1>2, <2>1 DEF Told
      <3> DEFINE l == TestResultsBegin(0, "PASS")
      <3>2. l.test = Unity.NumberOfTests /\ l.line = 0 /\ l.verdict = "PASS"
        BY DEF TestResultsBegin
      <3>3. output' = Append(<< >>, l)
        BY <1>1, <1>5, <2>1, <3>1 DEF Fresh
      <3> HIDE DEF l
      <3>4. Len(output') = 1 /\ output'[1] = l
        BY <3>3
      <3> QED
        BY <1>1, <1>2, <2>1, <3>2, <3>4 DEF LineRight, Verdict
    <2>2. CASE Verdict # "PASS"
      <3>1. Told
        BY <1>2, <2>2 DEF Fresh
      <3>2. output' = output
        BY <1>1, <1>3, <1>5, <2>2 DEF Verdicts
      <3> QED
        BY <1>1, <2>2, <3>1, <3>2 DEF Told, LineRight, Verdict
    <2> QED
      BY <2>1, <2>2
  <1>10. HarnessTypes'
    BY <1>1, <1>2, <1>6 DEF HarnessTypes
  <1> QED
    BY <1>1, <1>2, <1>4, <1>6, <1>8, <1>9, <1>10 DEF HarnessInv

LEMMA EndKeeps == HarnessInv /\ UnityEnd => HarnessInv'
  <1> SUFFICES ASSUME HarnessInv, UnityEnd PROVE HarnessInv'
    OBVIOUS
  <1>1. /\ pc = "next" /\ Len(truth) = Tests /\ pc' = "exited"
        /\ summary' = Summary /\ UNCHANGED <<Unity, step, up, truth>>
    BY DEF UnityEnd, Summary
  <1>2. HarnessTypes'
    BY <1>1 DEF HarnessInv, HarnessTypes
  <1>3. CountersKept /\ ~InTest'
    BY <1>1 DEF CountersKept, Concluding, InTest
  <1>4. Summary' = Summary
    BY <1>1 DEF Summary
  <1> QED
    BY <1>1, <1>2, <1>3, <1>4, CountersStay DEF HarnessInv, InTest

------------------------------------------------------------------------------
(* Theorems *)

LEMMA InvKept == HarnessInv /\ [Next]_vars => HarnessInv'
  <1>1. HarnessInv /\ Next => HarnessInv'
    BY BeginKeeps, RunKeeps, SetUpKeeps, AssertionKeeps, ReturnKeeps, TearDownKeeps,
       ConcludeKeeps, EndKeeps DEF Next
  <1>2. HarnessInv /\ UNCHANGED vars => HarnessInv'
    <2> SUFFICES ASSUME HarnessInv, UNCHANGED vars PROVE HarnessInv'
      OBVIOUS
    <2>1. UNCHANGED <<pc, Unity, output, step, up, summary, claim, truth>>
      BY DEF vars
    <2>2. HarnessTypes'
      BY <2>1 DEF HarnessInv, HarnessTypes
    <2>3. (InTest <=> InTest') /\ Concluding' = Concluding /\ Summary' = Summary
      BY <2>1 DEF InTest, Concluding, Summary
    <2>4. (Fresh => Fresh') /\ (Told => Told') /\ (LineRight => LineRight')
      BY <2>1 DEF Fresh, Told, LineRight, Verdict
    <2> QED
      BY <2>1, <2>2, <2>3, <2>4 DEF HarnessInv
  <1> QED
    BY <1>1, <1>2

(* Types of main, of Unity and of the tests that have run, and what relates  *)
(* them: the counters count the tests concluded, the flags tell the verdict  *)
(* of the test that has just been left, setUp and tearDown alternate.        *)
THEOREM HarnessInvariant == Spec => []HarnessInv
  <1> QED
    BY InvStarts, InvKept, PTL DEF Spec

(* Whatever the tests assert, a line that reports two values shows them      *)
(* (UnityPrintNumber, UnityPrintChar and the assertions).                    *)
THEOREM FailuresAlwaysTell == Spec => []FailureTells
  <1>1. HarnessInv => FailureTells
    BY DEF HarnessInv, FailureTells, Fresh, Told
  <1> QED
    BY <1>1, HarnessInvariant, PTL

LEMMA CountsDenoted ==
  ASSUME NEW n \in 0 .. Tests, Tests < 256 PROVE Denotes(PrintedNumber(n), n)
  <1>1. PICK m \in Nat \ {0} : Pow2[Width] = 256 * m
    BY Bytes
  <1>2. Tests \in Nat /\ n \in Nat /\ n < 256
    BY HarnessAssumption
  <1>3. n < Pow2[Width]
    BY <1>1, <1>2
  <1>4. ValueOf(NumberUnsigned(n)) = n
    BY <1>2, <1>3, DigitsTell
  <1>5. ~(n < 0)
    BY <1>2
  <1> QED
    BY <1>4, <1>5 DEF Denotes, PrintedNumber

LEMMA InvMakesRight ==
  ASSUME Tests < 256, HarnessInv PROVE VerdictsRight
  <1>1. HarnessTypes /\ Len(truth) \in Nat /\ Tests \in Nat
    BY HarnessAssumption, LenProperties DEF HarnessInv, HarnessTypes
  <1>2. \A v : Count(v) = CountTo(truth, Len(truth), v)
    BY DEF Count, CountTo
  <1>3. ASSUME pc = "next"
        PROVE  /\ ~up /\ Unity.NumberOfTests = Len(truth)
               /\ Unity.TestFailures = Count("FAIL") /\ Unity.TestIgnores = Count("IGNORE")
               /\ truth # << >> => LineRight
    <2>1. Concluding = Len(truth)
      BY <1>3 DEF Concluding, InTest
    <2> QED
      BY <1>2, <1>3, <2>1 DEF HarnessInv
  <1>4. ASSUME summary.exited
        PROVE  /\ Denotes(summary.tests, Tests) /\ Denotes(summary.failures, Count("FAIL"))
               /\ Denotes(summary.ignored, Count("IGNORE"))
               /\ summary.verdict = "OK" <=> Count("FAIL") = 0
               /\ summary.status = 0 <=> Count("FAIL") = 0
    <2>1. pc = "exited"
      BY <1>4 DEF HarnessInv, NoSummary
    <2>2. Concluding = Len(truth) /\ Len(truth) = Tests
      BY <2>1 DEF Concluding, InTest, HarnessInv
    <2> DEFINE f == Count("FAIL")  g == Count("IGNORE")
    <2>3. Unity.NumberOfTests = Tests /\ Unity.TestFailures = f /\ Unity.TestIgnores = g
      BY <1>2, <2>2 DEF HarnessInv
    <2>4. f \in 0 .. Tests /\ g \in 0 .. Tests /\ Tests \in 0 .. Tests
      <3>1. \A v : CountTo(truth, Len(truth), v) \in 0 .. Len(truth)
        BY <1>1, CountNext
      <3> QED
        BY <1>1, <1>2, <2>2, <3>1
    <2> HIDE DEF f, g
    <2>5. summary = [exited |-> TRUE, tests |-> PrintedNumber(Tests),
                     failures |-> PrintedNumber(f), ignored |-> PrintedNumber(g),
                     verdict |-> IF f = 0 THEN "OK" ELSE "FAIL", status |-> f % 256]
      BY <2>1, <2>3 DEF HarnessInv, Summary
    <2>6. /\ summary.tests = PrintedNumber(Tests) /\ summary.failures = PrintedNumber(f)
          /\ summary.ignored = PrintedNumber(g)
          /\ summary.verdict = IF f = 0 THEN "OK" ELSE "FAIL"
          /\ summary.status = f % 256
      BY <2>5
    <2>7. f % 256 = f
      BY <1>1, <2>4
    <2>8. /\ Denotes(PrintedNumber(Tests), Tests) /\ Denotes(PrintedNumber(f), f)
          /\ Denotes(PrintedNumber(g), g)
      BY <2>4, CountsDenoted
    <2>9. /\ Denotes(summary.tests, Tests) /\ Denotes(summary.failures, f)
          /\ Denotes(summary.ignored, g)
      BY <2>6, <2>8
    <2>10. summary.verdict = "OK" <=> f = 0
      BY <2>6
    <2>11. summary.status = 0 <=> f = 0
      BY <2>6, <2>7
    <2> QED
      BY <2>9, <2>10, <2>11 DEF f, g
  <1> QED
    BY <1>3, <1>4 DEF VerdictsRight, LineRight, Verdict

(* A program of fewer than 256 tests says of each what it deserves, and ends *)
(* with their numbers and with success if none failed (UnityConcludeTest,    *)
(* UnityEnd; an exit status has eight bits, which 256 failures leave zero).  *)
THEOREM VerdictsAlwaysRight ==
  ASSUME Tests < 256 PROVE Spec => []VerdictsRight
  <1>1. HarnessInv => VerdictsRight
    BY InvMakesRight
  <1> QED
    BY <1>1, HarnessInvariant, PTL
=============================================================================
