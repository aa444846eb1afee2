-------------------------- MODULE CommandLineProofs --------------------------
(***************************************************************************)
(* What becomes of the words on stdin, for every size of the buffer, every *)
(* script and every request.                                               *)
(***************************************************************************)
EXTENDS CommandLine, FiniteSetTheorems, SequenceTheorems, TLAPS

------------------------------------------------------------------------------
(* Induction *)

(* A set of numbers below a bound has a least element.                       *)
LEMMA Least ==
  ASSUME NEW n \in Nat, NEW T \in SUBSET (0 .. n-1), T # {}
  PROVE  \E m \in T : \A k \in T : m <= k
  <1> DEFINE S == 0 .. n-1
             R == StrictSubsetOrdering(S)
             Below == {0 .. k-1 : k \in T}
  <1>1. IsWellFoundedOn(R, FiniteSubsetsOf(S))
    BY FS_StrictSubsetOrderingWellFounded
  <1>2. ASSUME NEW k \in T PROVE (0 .. k-1) \in FiniteSubsetsOf(S)
    <2>1. IsFiniteSet(0 .. k-1)
      BY FS_Interval
    <2> QED
      BY <2>1 DEF FiniteSubsetsOf
  <1>3. Below \subseteq FiniteSubsetsOf(S) /\ Below # {}
    BY <1>2
  <1>4. PICK B \in Below : \A C \in Below : <<C, B>> \notin R
    <2> HIDE DEF Below, R, S
    <2> QED
      BY <1>1, <1>3, WFMin
  <1>5. PICK m \in T : B = 0 .. m-1
    OBVIOUS
  <1>6. ASSUME NEW k \in T, k < m PROVE FALSE
    <2> DEFINE X == 0 .. k-1  Y == 0 .. m-1
    <2>1. X \subseteq Y /\ X # Y
      <3>1. k \in Y /\ k \notin X
        BY <1>6
      <3> QED
        BY <1>6, <3>1
    <2>2. X \in SUBSET S /\ Y \in SUBSET S
      OBVIOUS
    <2>3. <<X, Y>> \in R
      <3> HIDE DEF X, Y, S
      <3> QED
        BY <2>1, <2>2 DEF StrictSubsetOrdering
    <2>4. X \in Below
      OBVIOUS
    <2> HIDE DEF X, Y, R, Below
    <2> QED
      BY <1>4, <1>5, <2>3, <2>4 DEF Y
  <1> QED
    BY <1>6

(* What holds of 0, and of n + 1 when it holds of n, holds of every number.  *)
LEMMA Induction ==
  ASSUME NEW T, 0 \in T, \A n \in Nat : n \in T => n + 1 \in T
  PROVE  Nat \subseteq T
  <1> SUFFICES ASSUME NEW n \in Nat, n \notin T PROVE FALSE
    OBVIOUS
  <1> DEFINE Bad == {k \in 0 .. (n + 1) - 1 : k \notin T}
  <1>1. n + 1 \in Nat /\ Bad \in SUBSET (0 .. (n + 1) - 1) /\ n \in Bad
    OBVIOUS
  <1>2. PICK m \in Bad : \A k \in Bad : m <= k
    <2> HIDE DEF Bad
    <2> QED
      BY <1>1, Least
  <1>3. m \in Nat /\ m <= n /\ m \notin T /\ m # 0
    OBVIOUS
  <1>4. m - 1 \in Nat /\ m - 1 \in 0 .. (n + 1) - 1 /\ ~(m <= m - 1)
    BY <1>3
  <1>5. m - 1 \in T
    BY <1>2, <1>4
  <1>6. (m - 1) + 1 \in T
    BY <1>4, <1>5
  <1> QED
    BY <1>3, <1>6

------------------------------------------------------------------------------
(* Lines one behind the other *)

(* f[i] is the first i sequences of s, one behind the other.                 *)
IsFlat(f, s) ==
  f = [i \in 1 .. Len(s) |-> IF i = 1 THEN s[i] ELSE f[i-1] \o s[i]]

LEMMA FlatExists ==
  ASSUME NEW S, NEW s \in Seq(Seq(S)) PROVE \E f : IsFlat(f, s)
  <1> DEFINE Good(f, n) ==
               /\ f \in [1 .. n -> Seq(S)]
               /\ \A i \in 1 .. n : f[i] = IF i = 1 THEN s[i] ELSE f[i-1] \o s[i]
             T == {n \in Nat : n <= Len(s) => \E f : Good(f, n)}
  <1>1. Len(s) \in Nat /\ \A i \in 1 .. Len(s) : s[i] \in Seq(S)
    BY LenProperties, ElementOfSeq
  <1>2. 0 \in T
    <2> DEFINE e == [i \in 1 .. 0 |-> << >>]
    <2>1. e \in [1 .. 0 -> Seq(S)] /\ \A i \in 1 .. 0 : FALSE
      OBVIOUS
    <2> QED
      BY <2>1
  <1>3. ASSUME NEW n \in Nat, n \in T PROVE n + 1 \in T
    <2> SUFFICES ASSUME n + 1 <= Len(s) PROVE \E f : Good(f, n + 1)
      <3> HIDE DEF Good
      <3> QED
        OBVIOUS
    <2>1. PICK f : Good(f, n)
      <3> HIDE DEF Good
      <3> QED
        BY <1>1, <1>3
    <2> DEFINE final == IF n = 0 THEN s[1] ELSE f[n] \o s[n + 1]
               g == [i \in 1 .. n + 1 |-> IF i = n + 1 THEN final ELSE f[i]]
    <2>2. s[n + 1] \in Seq(S)
      BY <1>1
    <2>3. final \in Seq(S)
      <3>1. CASE n = 0
        BY <2>2, <3>1
      <3>2. CASE n # 0
        <4>1. f[n] \in Seq(S)
          BY <2>1, <3>2
        <4> QED
          BY <2>2, <3>2, <4>1, ConcatProperties
      <3> QED
        BY <3>1, <3>2
    <2> HIDE DEF final
    <2>4. g \in [1 .. n + 1 -> Seq(S)]
      BY <2>1, <2>3
    <2>5. ASSUME NEW i \in 1 .. n + 1
          PROVE  g[i] = IF i = 1 THEN s[i] ELSE g[i-1] \o s[i]
      <3>1. CASE i = n + 1
        <4>1. g[i] = final
          BY <3>1
        <4>2. CASE n = 0
          BY <3>1, <4>1, <4>2 DEF final
        <4>3. CASE n # 0
          <5>1. i # 1 /\ i - 1 = n /\ n \in 1 .. n + 1 /\ n # n + 1
            BY <3>1, <4>3
          <5>2. g[i-1] = f[n]
            BY <5>1
          <5> QED
            BY <3>1, <4>1, <4>3, <5>1, <5>2 DEF final
        <4> QED
          BY <4>2, <4>3
      <3>2. CASE i # n + 1
        <4>1. i \in 1 .. n /\ g[i] = f[i]
          BY <3>2
        <4>2. CASE i = 1
          BY <2>1, <4>1, <4>2
        <4>3. CASE i # 1
          <5>1. i - 1 \in 1 .. n + 1 /\ i - 1 # n + 1
            BY <4>1, <4>3
          <5>2. g[i-1] = f[i-1]
            BY <5>1
          <5> QED
            BY <2>1, <4>1, <4>3, <5>2
        <4> QED
          BY <4>2, <4>3
      <3> QED
        BY <3>1, <3>2
    <2> QED
      BY <2>4, <2>5
  <1>4. Nat \subseteq T
    <2> HIDE DEF T
    <2> QED
      BY <1>2, <1>3, Induction
  <1>5. PICK f : Good(f, Len(s))
    <2> HIDE DEF Good
    <2> QED
      BY <1>1, <1>4
  <1> QED
    BY <1>5 DEF IsFlat

LEMMA FlatFound ==
  ASSUME NEW S, NEW s \in Seq(Seq(S)), Len(s) # 0
  PROVE  \E f : IsFlat(f, s) /\ FlattenSeq(s) = f[Len(s)]
  <1>1. \E f : IsFlat(f, s)
    BY FlatExists
  <1> QED
    BY <1>1 DEF FlattenSeq, IsFlat

(* The i+1 first of f are x and the i first of g.                            *)
Ahead(x, f, g, i) == f[i + 1] = x \o g[i]

LEMMA FlatFollows ==
  ASSUME NEW S, NEW s \in Seq(Seq(S)), NEW t, NEW f, NEW g,
         Len(s) > 1, t = Tail(s), IsFlat(f, s), IsFlat(g, t)
  PROVE  \A i \in 1 .. Len(t) : Ahead(s[1], f, g, i)
  <1> DEFINE Fine(i) == g[i] \in Seq(S) /\ f[i + 1] = s[1] \o g[i]
             T == {n \in Nat : n + 1 <= Len(t) => Fine(n + 1)}
  <1>0. /\ t \in Seq(Seq(S)) /\ Len(t) = Len(s) - 1
        /\ \A i \in 1 .. Len(t) : t[i] = s[i + 1]
    <2>1. Len(<< >>) = 0
      BY EmptySeq
    <2>2. s # << >>
      BY <2>1
    <2> QED
      BY <2>2, HeadTailProperties
  <1>1. /\ Len(s) \in Nat /\ Len(t) \in Nat
        /\ \A i \in 1 .. Len(s) : s[i] \in Seq(S)
    BY <1>0, LenProperties, ElementOfSeq
  <1>2. /\ \A i \in 1 .. Len(s) : f[i] = IF i = 1 THEN s[i] ELSE f[i-1] \o s[i]
        /\ \A i \in 1 .. Len(t) : g[i] = IF i = 1 THEN t[i] ELSE g[i-1] \o t[i]
    BY DEF IsFlat
  <1>3. 0 \in T
    <2>1. 1 \in 1 .. Len(s) /\ 2 \in 1 .. Len(s) /\ 1 \in 1 .. Len(t)
      BY <1>0, <1>1
    <2>2. f[1] = s[1] /\ g[1] = t[1]
      BY <1>2, <2>1
    <2>3. f[2] = f[1] \o s[2]
      <3>1. f[2] = IF 2 = 1 THEN s[2] ELSE f[2 - 1] \o s[2]
        BY <1>2, <2>1
      <3> QED
        BY <3>1
    <2>4. t[1] = s[1 + 1] /\ 1 + 1 = 2
      BY <1>0, <2>1
    <2>5. Fine(1)
      BY <1>1, <2>1, <2>2, <2>3, <2>4
    <2> HIDE DEF Fine
    <2> QED
      BY <2>5
  <1>4. ASSUME NEW n \in Nat, n \in T PROVE n + 1 \in T
    <2> SUFFICES ASSUME (n + 1) + 1 <= Len(t) PROVE Fine((n + 1) + 1)
      <3> HIDE DEF Fine
      <3> QED
        OBVIOUS
    <2>1. Fine(n + 1)
      <3> HIDE DEF Fine
      <3> QED
        BY <1>1, <1>4
    <2> DEFINE i == (n + 1) + 1
    <2>2. /\ i \in 1 .. Len(t) /\ i + 1 \in 1 .. Len(s)
          /\ i # 1 /\ i + 1 # 1 /\ i - 1 = n + 1 /\ (i + 1) - 1 = i
      BY <1>0, <1>1
    <2>3. g[i-1] \in Seq(S) /\ f[i] = s[1] \o g[i-1]
      BY <2>1, <2>2
    <2> HIDE DEF i
    <2>4. g[i] = g[i-1] \o s[i + 1] /\ f[i + 1] = f[i] \o s[i + 1]
      BY <1>0, <1>2, <2>2
    <2>5. s[1] \in Seq(S) /\ s[i + 1] \in Seq(S)
      BY <1>1, <2>2
    <2> DEFINE x == s[1]  y == g[i-1]  z == s[i + 1]
    <2>6. x \in Seq(S) /\ y \in Seq(S) /\ z \in Seq(S)
      BY <2>3, <2>5
    <2>7. g[i] = y \o z /\ f[i + 1] = (x \o y) \o z
      BY <2>3, <2>4
    <2> HIDE DEF x, y, z
    <2>8. y \o z \in Seq(S)
      BY ONLY <2>6, ConcatProperties
    <2>9. (x \o y) \o z = x \o (y \o z)
      BY ONLY <2>6, ConcatAssociative
    <2> QED
      BY <2>7, <2>8, <2>9 DEF i, x
  <1>5. Nat \subseteq T
    <2> HIDE DEF T
    <2> QED
      BY <1>3, <1>4, Induction
  <1>6. ASSUME NEW i \in 1 .. Len(t) PROVE Fine(i)
    <2>1. i - 1 \in Nat /\ (i - 1) + 1 = i /\ (i - 1) + 1 <= Len(t)
      BY <1>1
    <2> HIDE DEF Fine
    <2>2. i - 1 \in T
      BY <1>5, <2>1
    <2> QED
      BY <2>1, <2>2
  <1> QED
    BY <1>6 DEF Ahead

(* The first line comes first, and the others behind it.                     *)
LEMMA FlattenHead ==
  ASSUME NEW S, NEW s \in Seq(Seq(S)), s # << >>
  PROVE  FlattenSeq(s) = Head(s) \o FlattenSeq(Tail(s))
  <1> DEFINE t == Tail(s)
  <1>1. /\ Head(s) = s[1] /\ s[1] \in Seq(S)
        /\ t \in Seq(Seq(S)) /\ Len(t) = Len(s) - 1
        /\ \A i \in 1 .. Len(t) : t[i] = s[i + 1]
    BY HeadTailProperties
  <1>2. Len(s) \in Nat \ {0} /\ Len(t) \in Nat
    BY <1>1, EmptySeq, LenProperties
  <1>3. PICK f : IsFlat(f, s) /\ FlattenSeq(s) = f[Len(s)]
    BY <1>2, FlatFound
  <1>4. CASE Len(s) = 1
    <2>1. f[1] = s[1] /\ FlattenSeq(s) = s[1]
      BY <1>3, <1>4 DEF IsFlat
    <2>4. t \in Seq(Seq(S)) /\ Len(t) = 0
      BY <1>1, <1>4
    <2>2. t = << >> /\ Len(t) = 0
      <3> HIDE DEF t
      <3> QED
        BY <2>4, EmptySeq
    <2>3. FlattenSeq(t) = << >>
      BY <2>2 DEF FlattenSeq
    <2> HIDE DEF t
    <2> QED
      BY <1>1, <2>1, <2>3, ConcatEmptySeq DEF t
  <1>5. CASE Len(s) # 1
    <2>1. Len(s) > 1 /\ Len(t) # 0 /\ Len(t) \in 1 .. Len(t) /\ Len(t) + 1 = Len(s)
      BY <1>1, <1>2, <1>5
    <2>2. PICK g : IsFlat(g, t) /\ FlattenSeq(t) = g[Len(t)]
      <3> HIDE DEF t
      <3> QED
        BY <1>1, <2>1, FlatFound
    <2> HIDE DEF t
    <2>3. \A i \in 1 .. Len(t) : Ahead(s[1], f, g, i)
      <3>1. t = Tail(s)
        BY DEF t
      <3>2. s \in Seq(Seq(S)) /\ Len(s) > 1 /\ IsFlat(f, s) /\ IsFlat(g, t)
        BY <1>1, <1>3, <2>1, <2>2
      <3> QED
        BY ONLY <3>1, <3>2, FlatFollows
    <2>4. f[Len(t) + 1] = s[1] \o g[Len(t)]
      BY <2>1, <2>3 DEF Ahead
    <2>5. f[Len(s)] = s[1] \o FlattenSeq(t)
      BY <2>1, <2>2, <2>4
    <2> QED
      BY <1>1, <1>3, <2>5 DEF t
  <1> QED
    BY <1>4, <1>5

(* What is typed in lines is a sequence of words.                            *)
LEMMA FlattenTyped ==
  ASSUME NEW S, NEW s \in Seq(Seq(S)) PROVE FlattenSeq(s) \in Seq(S)
  <1> DEFINE T == {n \in Nat : \A t \in Seq(Seq(S)) : Len(t) = n => FlattenSeq(t) \in Seq(S)}
  <1>1. 0 \in T
    <2> SUFFICES ASSUME NEW t \in Seq(Seq(S)), Len(t) = 0 PROVE FlattenSeq(t) \in Seq(S)
      OBVIOUS
    <2>1. t = << >>
      BY EmptySeq
    <2>2. FlattenSeq(t) = t
      BY DEF FlattenSeq
    <2> QED
      BY <2>1, <2>2, EmptySeq
  <1>2. ASSUME NEW n \in Nat, n \in T PROVE n + 1 \in T
    <2> SUFFICES ASSUME NEW t \in Seq(Seq(S)), Len(t) = n + 1 PROVE FlattenSeq(t) \in Seq(S)
      OBVIOUS
    <2>1. Len(<< >>) = 0
      BY EmptySeq
    <2>2. t # << >>
      BY <2>1
    <2> DEFINE h == Head(t)  r == Tail(t)
    <2>3. h \in Seq(S) /\ r \in Seq(Seq(S)) /\ Len(r) = n
      BY <2>2, HeadTailProperties
    <2>4. FlattenSeq(t) = h \o FlattenSeq(r)
      BY <2>2, FlattenHead
    <2> HIDE DEF h, r
    <2>5. FlattenSeq(r) \in Seq(S)
      BY <1>2, <2>3
    <2> QED
      BY <2>3, <2>4, <2>5, ConcatProperties
  <1>3. Nat \subseteq T
    <2> HIDE DEF T
    <2> QED
      BY <1>1, <1>2, Induction
  <1> QED
    BY <1>3, LenProperties

(* Lines one behind the other are all their words one behind the other.      *)
LEMMA FlattenConcat ==
  ASSUME NEW S, NEW t \in Seq(Seq(S))
  PROVE  \A s \in Seq(Seq(S)) : FlattenSeq(s \o t) = FlattenSeq(s) \o FlattenSeq(t)
  <1> DEFINE Fine(s) == FlattenSeq(s \o t) = FlattenSeq(s) \o FlattenSeq(t)
             T == {n \in Nat : \A s \in Seq(Seq(S)) : Len(s) = n => Fine(s)}
  <1>0. FlattenSeq(t) \in Seq(S)
    BY FlattenTyped
  <1>1. 0 \in T
    <2> SUFFICES ASSUME NEW s \in Seq(Seq(S)), Len(s) = 0 PROVE Fine(s)
      OBVIOUS
    <2>1. s = << >>
      BY EmptySeq
    <2>2. FlattenSeq(s) = << >>
      BY <2>1 DEF FlattenSeq
    <2>3. s \o t = t
      BY <2>1, ConcatEmptySeq
    <2> QED
      BY <1>0, <2>2, <2>3, ConcatEmptySeq
  <1>2. ASSUME NEW n \in Nat, n \in T PROVE n + 1 \in T
    <2> SUFFICES ASSUME NEW s \in Seq(Seq(S)), Len(s) = n + 1 PROVE Fine(s)
      <3> HIDE DEF Fine
      <3> QED
        OBVIOUS
    <2>1. s # << >>
      BY EmptySeq
    <2> DEFINE h == Head(s)  r == Tail(s)
    <2>2. h \in Seq(S) /\ r \in Seq(Seq(S)) /\ Len(r) = n /\ h = s[1]
          /\ \A i \in 1 .. Len(r) : r[i] = s[i + 1]
      BY <2>1, HeadTailProperties
    <2>3. FlattenSeq(s) = h \o FlattenSeq(r)
      BY <2>1, FlattenHead
    <2> HIDE DEF h, r
    <2>4. Fine(r)
      <3> HIDE DEF Fine
      <3> QED
        BY <1>2, <2>2
    <2> DEFINE u == s \o t
    <2>5. u \in Seq(Seq(S)) /\ Len(u) = Len(s) + Len(t)
          /\ \A i \in 1 .. Len(s) + Len(t) : u[i] = IF i <= Len(s) THEN s[i] ELSE t[i - Len(s)]
      <3> DEFINE X == Seq(S)
      <3>1. s \in Seq(X) /\ t \in Seq(X)
        OBVIOUS
      <3> HIDE DEF X
      <3>2. /\ s \o t \in Seq(X) /\ Len(s \o t) = Len(s) + Len(t)
            /\ \A i \in 1 .. Len(s) + Len(t) :
                 (s \o t)[i] = IF i <= Len(s) THEN s[i] ELSE t[i - Len(s)]
        BY ONLY <3>1, ConcatProperties
      <3> QED
        BY <3>2 DEF X
    <2>6. r \o t \in Seq(Seq(S)) /\ Len(r \o t) = Len(r) + Len(t)
          /\ \A i \in 1 .. Len(r) + Len(t) : (r \o t)[i] = IF i <= Len(r) THEN r[i] ELSE t[i - Len(r)]
      <3> DEFINE X == Seq(S)
      <3>1. r \in Seq(X) /\ t \in Seq(X)
        BY <2>2
      <3> HIDE DEF X
      <3>2. /\ r \o t \in Seq(X) /\ Len(r \o t) = Len(r) + Len(t)
            /\ \A i \in 1 .. Len(r) + Len(t) :
                 (r \o t)[i] = IF i <= Len(r) THEN r[i] ELSE t[i - Len(r)]
        BY ONLY <3>1, ConcatProperties
      <3> QED
        BY <3>2 DEF X
    <2>7. Len(t) \in Nat /\ Len(u) = (n + Len(t)) + 1 /\ Len(r \o t) = n + Len(t)
      <3>1. Len(t) \in Nat
        BY LenProperties
      <3> HIDE DEF u
      <3> QED
        BY <2>2, <2>5, <2>6, <3>1
    <2> DEFINE v == r \o t
    <2> HIDE DEF u
    <2>8. u # << >>
      <3>1. Len(<< >>) = 0
        BY EmptySeq
      <3> QED
        BY <2>7, <3>1
    <2>9. Head(u) = h
      <3>1. Head(u) = u[1]
        BY <2>5, <2>8, HeadTailProperties
      <3>2. 1 \in 1 .. Len(s) + Len(t) /\ 1 <= Len(s)
        BY <2>7
      <3> QED
        BY <2>2, <2>5, <3>1, <3>2
    <2>10. Tail(u) = v
      <3>1. /\ Tail(u) \in Seq(Seq(S)) /\ Len(Tail(u)) = Len(u) - 1
            /\ \A i \in 1 .. Len(Tail(u)) : Tail(u)[i] = u[i + 1]
        BY <2>5, <2>8, HeadTailProperties
      <3> DEFINE w == Tail(u)
      <3>2. w \in Seq(Seq(S)) /\ v \in Seq(Seq(S)) /\ Len(w) = Len(v)
        <4>1. w \in Seq(Seq(S)) /\ Len(w) = Len(u) - 1
          BY <3>1
        <4>2. v \in Seq(Seq(S)) /\ Len(v) = n + Len(t)
          BY <2>6, <2>7
        <4> HIDE DEF v, w
        <4> QED
          BY <2>7, <4>1, <4>2
      <3>3. ASSUME NEW i \in 1 .. Len(w) PROVE w[i] = v[i]
        <4>1. i \in 1 .. n + Len(t) /\ w[i] = u[i + 1]
          BY <2>7, <3>1
        <4>2. u[i + 1] = IF i + 1 <= n + 1 THEN s[i + 1] ELSE t[(i + 1) - (n + 1)]
          <5>1. i + 1 \in 1 .. Len(s) + Len(t)
            BY <2>7, <4>1
          <5> QED
            BY <2>5, <5>1
        <4>3. v[i] = IF i <= n THEN r[i] ELSE t[i - n]
          BY <2>2, <2>6, <4>1
        <4>4. i <= n => r[i] = s[i + 1]
          BY <2>2, <4>1
        <4>5. (i + 1) - (n + 1) = i - n /\ (i + 1 <= n + 1 <=> i <= n)
          BY <2>7, <4>1
        <4> QED
          BY <4>1, <4>2, <4>3, <4>4, <4>5
      <3> HIDE DEF v, w
      <3>4. w = v
        <4> DEFINE X == Seq(S)
        <4>1. w \in Seq(X) /\ v \in Seq(X) /\ Len(w) = Len(v) /\ \A i \in 1 .. Len(w) : w[i] = v[i]
          BY <3>2, <3>3
        <4> HIDE DEF X
        <4> QED
          BY ONLY <4>1, SeqEqual
      <3> QED
        BY <3>4 DEF w
    <2>11. FlattenSeq(u) = h \o FlattenSeq(v)
      BY <2>5, <2>8, <2>9, <2>10, FlattenHead
    <2>12. FlattenSeq(v) = FlattenSeq(r) \o FlattenSeq(t)
      BY <2>4 DEF v
    <2>13. FlattenSeq(r) \in Seq(S)
      BY <2>2, FlattenTyped
    <2> DEFINE x == FlattenSeq(r)  y == FlattenSeq(t)
    <2>14. h \in Seq(S) /\ x \in Seq(S) /\ y \in Seq(S)
      BY <1>0, <2>2, <2>13
    <2> HIDE DEF x, y
    <2>15. (h \o x) \o y = h \o (x \o y)
      BY ONLY <2>14, ConcatAssociative
    <2> QED
      BY <2>3, <2>11, <2>12, <2>15 DEF x, y, u
  <1>3. Nat \subseteq T
    <2> HIDE DEF T
    <2> QED
      BY <1>1, <1>2, Induction
  <1> QED
    BY <1>3, LenProperties

------------------------------------------------------------------------------
(* Words and their letters *)

(* The words there are.                                                      *)
Text == DOMAIN Letters

LEMMA Typed ==
  /\ Scripts \subseteq Seq(Seq(Text))
  /\ \A w \in Text : Letters[w] \in Seq(STRING)
  /\ CodeWords \subseteq Text /\ DOMAIN Number \subseteq Text
  BY LineAssumption DEF Text

(* The spellings of the words, one by one.                                   *)
Spellings(ws) == [i \in DOMAIN ws |-> Letters[ws[i]]]

LEMMA SpellingsTyped ==
  ASSUME NEW ws \in Seq(Text)
  PROVE  /\ Spellings(ws) \in Seq(Seq(STRING)) /\ Len(Spellings(ws)) = Len(ws)
         /\ \A i \in 1 .. Len(ws) : Spellings(ws)[i] = Letters[ws[i]]
  <1>1. DOMAIN ws = 1 .. Len(ws) /\ Len(ws) \in Nat /\ \A i \in 1 .. Len(ws) : ws[i] \in Text
    BY LenProperties, ElementOfSeq
  <1>2. \A i \in 1 .. Len(ws) : Letters[ws[i]] \in Seq(STRING)
    BY <1>1, Typed
  <1> QED
    BY <1>1, <1>2 DEF Spellings

LEMMA SpelledTyped ==
  ASSUME NEW ws \in Seq(Text)
  PROVE  Spelled(ws) \in Seq(STRING) /\ Spelled(ws) = FlattenSeq(Spellings(ws))
  <1>1. Spelled(ws) = FlattenSeq(Spellings(ws))
    BY DEF Spelled, Spellings
  <1> QED
    BY <1>1, SpellingsTyped, FlattenTyped

(* What is behind is spelled behind.                                         *)
LEMMA SpelledConcat ==
  ASSUME NEW a \in Seq(Text), NEW b \in Seq(Text)
  PROVE  Spelled(a \o b) = Spelled(a) \o Spelled(b)
  <1> DEFINE c == a \o b  p == Spellings(a)  q == Spellings(b)  r == Spellings(c)  u == p \o q
             X == Seq(STRING)
  <1>1. c \in Seq(Text) /\ Len(c) = Len(a) + Len(b)
        /\ \A i \in 1 .. Len(a) + Len(b) : c[i] = IF i <= Len(a) THEN a[i] ELSE b[i - Len(a)]
    BY ConcatProperties
  <1>2. Len(a) \in Nat /\ Len(b) \in Nat
    BY LenProperties
  <1> HIDE DEF c
  <1>3. /\ p \in Seq(X) /\ Len(p) = Len(a) /\ \A i \in 1 .. Len(a) : p[i] = Letters[a[i]]
        /\ q \in Seq(X) /\ Len(q) = Len(b) /\ \A i \in 1 .. Len(b) : q[i] = Letters[b[i]]
        /\ r \in Seq(X) /\ Len(r) = Len(c) /\ \A i \in 1 .. Len(c) : r[i] = Letters[c[i]]
    BY <1>1, SpellingsTyped
  <1> HIDE DEF X, p, q, r
  <1>4. /\ u \in Seq(X) /\ Len(u) = Len(p) + Len(q)
        /\ \A i \in 1 .. Len(p) + Len(q) : u[i] = IF i <= Len(p) THEN p[i] ELSE q[i - Len(p)]
    <2>1. p \in Seq(X) /\ q \in Seq(X)
      BY <1>3
    <2> QED
      BY ONLY <2>1, ConcatProperties
  <1>5. ASSUME NEW i \in 1 .. Len(r) PROVE r[i] = u[i]
    <2>1. i \in 1 .. Len(a) + Len(b) /\ r[i] = Letters[c[i]]
      BY <1>1, <1>3
    <2>2. CASE i <= Len(a)
      <3>1. i \in 1 .. Len(a)
        BY <1>2, <2>1, <2>2
      <3> QED
        BY <1>1, <1>3, <1>4, <2>1, <2>2, <3>1
    <2>3. CASE ~(i <= Len(a))
      <3>1. i - Len(a) \in 1 .. Len(b)
        BY <1>2, <2>1, <2>3
      <3>2. c[i] = b[i - Len(a)] /\ u[i] = q[i - Len(a)]
        BY <1>1, <1>3, <1>4, <2>1, <2>3
      <3> QED
        BY <1>3, <2>1, <3>1, <3>2
    <2> QED
      BY <2>2, <2>3
  <1> HIDE DEF u
  <1>6. r = u
    <2>1. r \in Seq(X) /\ u \in Seq(X) /\ Len(r) = Len(u) /\ \A i \in 1 .. Len(r) : r[i] = u[i]
      BY <1>1, <1>3, <1>4, <1>5
    <2> QED
      BY ONLY <2>1, SeqEqual
  <1>7. FlattenSeq(p \o q) = FlattenSeq(p) \o FlattenSeq(q)
    <2>1. p \in Seq(Seq(STRING)) /\ q \in Seq(Seq(STRING))
      BY <1>3 DEF X
    <2> QED
      BY ONLY <2>1, FlattenConcat
  <1>8. Spelled(a) = FlattenSeq(p) /\ Spelled(b) = FlattenSeq(q)
    BY SpelledTyped DEF p, q
  <1>9. Spelled(c) = FlattenSeq(r)
    BY <1>1, SpelledTyped DEF r
  <1> QED
    BY <1>6, <1>7, <1>8, <1>9 DEF u, c

LEMMA SpelledOne ==
  ASSUME NEW w \in Text
  PROVE  Spelled(<<w>>) = Letters[w]
  <1> DEFINE z == Letters[w]  p == <<z>>
  <1>1. z \in Seq(STRING)
    BY Typed
  <1>2. Spelled(<<w>>) = FlattenSeq(p)
    <2>1. [i \in DOMAIN <<w>> |-> Letters[(<<w>>)[i]]] = p
      OBVIOUS
    <2> QED
      BY <2>1 DEF Spelled
  <1> HIDE DEF z
  <1>3. p \in Seq(Seq(STRING)) /\ p # << >> /\ Head(p) = z /\ Tail(p) = << >>
    BY <1>1
  <1>4. FlattenSeq(p) = z \o FlattenSeq(<< >>)
    BY <1>3, FlattenHead
  <1>5. FlattenSeq(<< >>) = << >>
    BY DEF FlattenSeq
  <1> QED
    BY <1>1, <1>2, <1>4, <1>5, ConcatEmptySeq DEF z

------------------------------------------------------------------------------
(* Words read *)

LineTypes ==
  /\ script \in Seq(Seq(Text)) /\ input \in Seq(Seq(Text))
  /\ cut \in BOOLEAN
  /\ tail \in Seq(Text) /\ buff \in Seq(Text) /\ done \in Seq(Text)
  /\ ~cut => tail = << >>
  /\ torn \in Nat
  /\ ended \in BOOLEAN

(* The parser goes on only with another command than exit in its buffer.     *)
ExitEnds == Word(buff, 1) = "exit" => ended

LineInv == LineTypes /\ EveryWordRead /\ ExitEnds

(* The first k words of a line and the others.                               *)
LEMMA Cut ==
  ASSUME NEW l \in Seq(Text), NEW k \in Nat, k <= Len(l)
  PROVE  /\ SubSeq(l, 1, k) \in Seq(Text) /\ Len(SubSeq(l, 1, k)) = k
         /\ LeftOver(l, k) \in Seq(Text) /\ Len(LeftOver(l, k)) = Len(l) - k
         /\ SubSeq(l, 1, k) \o LeftOver(l, k) = l
  <1>1. Len(l) \in Nat /\ \A i \in 1 .. Len(l) : l[i] \in Text
    BY LenProperties, ElementOfSeq
  <1>2. SubSeq(l, 1, k) \in Seq(Text) /\ Len(SubSeq(l, 1, k)) = k
    <2>1. \A i \in 1 .. k : l[i] \in Text
      BY <1>1
    <2>2. /\ SubSeq(l, 1, k) \in Seq(Text)
          /\ Len(SubSeq(l, 1, k)) = IF 1 <= k THEN k - 1 + 1 ELSE 0
      BY <2>1, SubSeqProperties
    <2> QED
      BY <2>2
  <1>3. LeftOver(l, k) \in Seq(Text) /\ Len(LeftOver(l, k)) = Len(l) - k
    <2>1. \A i \in k + 1 .. Len(l) : l[i] \in Text
      BY <1>1
    <2>2. k + 1 \in Int /\ Len(l) \in Int
      BY <1>1
    <2>3. /\ SubSeq(l, k + 1, Len(l)) \in Seq(Text)
          /\ Len(SubSeq(l, k + 1, Len(l))) = IF k + 1 <= Len(l) THEN Len(l) - (k + 1) + 1 ELSE 0
      BY <2>1, <2>2, SubSeqProperties
    <2>4. (IF k + 1 <= Len(l) THEN Len(l) - (k + 1) + 1 ELSE 0) = Len(l) - k
      BY <1>1
    <2> QED
      BY <2>3, <2>4 DEF LeftOver
  <1>4. SubSeq(l, 1, k) \o LeftOver(l, k) = l
    <2>1. 1 \in 1 .. Len(l) + 1 /\ k \in 1 - 1 .. Len(l) /\ Len(l) \in k .. Len(l)
      BY <1>1
    <2>2. SubSeq(l, 1, k) \o SubSeq(l, k + 1, Len(l)) = SubSeq(l, 1, Len(l))
      BY <2>1, ConcatAdjacentSubSeq
    <2> QED
      BY <2>2, SubSeqFull DEF LeftOver
  <1> QED
    BY <1>2, <1>3, <1>4

LEMMA Associates ==
  ASSUME NEW S, NEW a \in Seq(S), NEW b \in Seq(S), NEW c \in Seq(S)
  PROVE  (a \o b) \o c = a \o (b \o c) /\ a \o b \in Seq(S) /\ (a \o b) \o c \in Seq(S)
  BY ConcatAssociative, ConcatProperties

(* What comes before and after a cut through the word behind the k-th.       *)
FirstPart(l, k, p) == Append(SubSeq(l, 1, k), p[1])
SecondPart(l, k, p) == <<p[2]>> \o LeftOver(l, k + 1)

(* The word a line is cut inside makes two, spelled as it was.               *)
LEMMA Torn ==
  ASSUME NEW l \in Seq(Text), NEW k \in Nat, k < Len(l), NEW p \in Parts[l[k + 1]]
  PROVE  /\ FirstPart(l, k, p) \in Seq(Text) /\ Len(FirstPart(l, k, p)) = k + 1
         /\ SecondPart(l, k, p) \in Seq(Text)
         /\ Spelled(FirstPart(l, k, p) \o SecondPart(l, k, p)) = Spelled(l)
         /\ Len(FirstPart(l, k, p) \o SecondPart(l, k, p)) = Len(l) + 1
  <1> DEFINE x == FirstPart(l, k, p)  y == SecondPart(l, k, p)
  <1> DEFINE w == l[k + 1]  a == SubSeq(l, 1, k)  b == LeftOver(l, k + 1)
             f == <<p[1]>>  g == <<p[2]>>  h == <<w>>
  <1>1. w \in Text /\ Len(l) \in Nat
    <2>1. Len(l) \in Nat /\ \A i \in 1 .. Len(l) : l[i] \in Text
      BY LenProperties, ElementOfSeq
    <2>2. k + 1 \in 1 .. Len(l)
      BY <2>1
    <2> QED
      BY <2>1, <2>2
  <1>2. p[1] \in Text /\ p[2] \in Text /\ Letters[p[1]] \o Letters[p[2]] = Letters[w]
    <2>1. p \in {q \in (DOMAIN Letters) \X (DOMAIN Letters) :
                   Letters[q[1]] \o Letters[q[2]] = Letters[w]}
      BY <1>1, LineAssumption DEF Text
    <2> QED
      BY <2>1 DEF Text
  <1>3. a \in Seq(Text) /\ Len(a) = k /\ b \in Seq(Text) /\ Len(b) = Len(l) - (k + 1)
    <2>1. k <= Len(l) /\ k + 1 \in Nat /\ k + 1 <= Len(l)
      BY <1>1
    <2> QED
      BY <2>1, Cut
  <1>4. l = a \o (h \o b)
    <2> DEFINE c == SubSeq(l, 1, k + 1)
    <2>1. k + 1 \in Nat /\ k + 1 <= Len(l)
      BY <1>1
    <2>2. c \o b = l /\ c \in Seq(Text) /\ Len(c) = k + 1
      BY <2>1, Cut
    <2>3. c = a \o SubSeq(l, k + 1, k + 1)
      <3>1. 1 \in 1 .. Len(l) + 1 /\ k \in 1 - 1 .. Len(l) /\ k + 1 \in k .. Len(l)
        BY <1>1
      <3> QED
        BY <3>1, ConcatAdjacentSubSeq
    <2>4. SubSeq(l, k + 1, k + 1) = h
      <3> DEFINE s == SubSeq(l, k + 1, k + 1)
      <3>1. \A i \in k + 1 .. k + 1 : l[i] \in Text
        BY <1>1
      <3>2. /\ s \in Seq(Text) /\ Len(s) = IF k + 1 <= k + 1 THEN (k + 1) - (k + 1) + 1 ELSE 0
            /\ \A i \in 1 .. (k + 1) - (k + 1) + 1 : s[i] = l[(k + 1) + i - 1]
        BY <3>1, SubSeqProperties
      <3> HIDE DEF s
      <3>3. Len(s) = 1 /\ s[1] = l[k + 1]
        <4>1. 1 \in 1 .. (k + 1) - (k + 1) + 1 /\ (k + 1) + 1 - 1 = k + 1
          OBVIOUS
        <4>2. Len(s) = 1
          BY <3>2
        <4>3. s[1] = l[(k + 1) + 1 - 1]
          BY <3>2, <4>1
        <4> QED
          BY <4>1, <4>2, <4>3
      <3>4. h \in Seq(Text) /\ Len(h) = 1 /\ h[1] = w
        BY <1>1
      <3>5. s = h
        <4> HIDE DEF h
        <4>1. /\ s \in Seq(Text) /\ h \in Seq(Text) /\ Len(s) = Len(h)
              /\ \A i \in 1 .. Len(s) : s[i] = h[i]
          BY <3>2, <3>3, <3>4
        <4> QED
          BY ONLY <4>1, SeqEqual
      <3> QED
        BY <3>5 DEF s
    <2>5. h \in Seq(Text)
      BY <1>1
    <2> HIDE DEF a, b, h, c
    <2>6. (a \o h) \o b = a \o (h \o b)
      BY ONLY <1>3, <2>5, Associates
    <2> QED
      BY <2>2, <2>3, <2>4, <2>6
  <1>5. f \in Seq(Text) /\ Len(f) = 1 /\ g \in Seq(Text) /\ Len(g) = 1
        /\ h \in Seq(Text) /\ Len(h) = 1
    BY <1>1, <1>2
  <1>6. x = a \o f /\ y = g \o b
    <2>1. x = a \o f
      BY <1>2, <1>3, AppendIsConcat DEF FirstPart
    <2> QED
      BY <2>1 DEF SecondPart
  <1>7. Spelled(f) = Letters[p[1]] /\ Spelled(g) = Letters[p[2]] /\ Spelled(h) = Letters[w]
    BY <1>1, <1>2, SpelledOne
  <1> HIDE DEF a, b, f, g, h, w, x, y
  <1>8. /\ x \in Seq(Text) /\ Len(x) = k + 1
        /\ y \in Seq(Text) /\ Len(y) = 1 + (Len(l) - (k + 1))
        /\ h \o b \in Seq(Text)
    <2>1. a \in Seq(Text) /\ f \in Seq(Text) /\ g \in Seq(Text) /\ h \in Seq(Text)
          /\ b \in Seq(Text)
      BY <1>3, <1>5
    <2>2. a \o f \in Seq(Text) /\ Len(a \o f) = Len(a) + Len(f)
      BY ONLY <2>1, ConcatProperties
    <2>3. g \o b \in Seq(Text) /\ Len(g \o b) = Len(g) + Len(b)
      BY ONLY <2>1, ConcatProperties
    <2>4. h \o b \in Seq(Text)
      BY ONLY <2>1, ConcatProperties
    <2> QED
      BY <1>3, <1>5, <1>6, <2>2, <2>3, <2>4
  <1>9. x \o y \in Seq(Text) /\ Len(x \o y) = Len(l) + 1
    <2>0. x \in Seq(Text) /\ y \in Seq(Text)
      BY <1>8
    <2>1. x \o y \in Seq(Text) /\ Len(x \o y) = Len(x) + Len(y)
      BY ONLY <2>0, ConcatProperties
    <2>2. (k + 1) + (1 + (Len(l) - (k + 1))) = Len(l) + 1
      BY <1>1
    <2> QED
      BY <1>8, <2>1, <2>2
  <1>10. Spelled(x \o y) = Spelled(l)
    <2> DEFINE A == Spelled(a)  B == Spelled(b)  F == Spelled(f)  G == Spelled(g)
    <2>1. /\ A \in Seq(STRING) /\ B \in Seq(STRING) /\ F \in Seq(STRING) /\ G \in Seq(STRING)
      BY <1>3, <1>5, SpelledTyped
    <2>2. Spelled(x \o y) = (A \o F) \o (G \o B)
      <3>1. Spelled(x \o y) = Spelled(x) \o Spelled(y)
        BY <1>8, SpelledConcat
      <3>2. Spelled(x) = A \o F /\ Spelled(y) = G \o B
        BY <1>3, <1>5, <1>6, SpelledConcat
      <3> QED
        BY <3>1, <3>2
    <2>3. Spelled(l) = A \o ((F \o G) \o B)
      <3>1. Spelled(l) = A \o Spelled(h \o b)
        BY <1>3, <1>4, <1>8, SpelledConcat
      <3>2. Spelled(h \o b) = Spelled(h) \o B
        BY <1>3, <1>5, SpelledConcat
      <3> QED
        BY <1>2, <1>7, <3>1, <3>2
    <2> HIDE DEF A, B, F, G
    <2>4. (A \o F) \o (G \o B) = A \o (F \o (G \o B))
      <3> DEFINE gb == G \o B
      <3>1. gb \in Seq(STRING)
        BY <2>1, ConcatProperties
      <3> HIDE DEF gb
      <3>2. (A \o F) \o gb = A \o (F \o gb)
        BY ONLY <2>1, <3>1, Associates
      <3> QED
        BY <3>2 DEF gb
    <2>5. (F \o G) \o B = F \o (G \o B)
      BY ONLY <2>1, Associates
    <2> QED
      BY <2>2, <2>3, <2>4, <2>5
  <1> QED
    BY <1>8, <1>9, <1>10 DEF x, y

(* What reading a line does: the words c go to the buffer and the words r    *)
(* stay, d words have been cut in two.                                       *)
LineTaken(c, r, d) ==
  /\ c \in Seq(Text) /\ r \in Seq(Text) /\ Len(c) <= Room
  /\ Spelled(c \o r) = Spelled(Source)
  /\ d \in {0, 1} /\ Len(c \o r) = Len(Source) + d
  /\ d = 0 => c \o r = Source
  /\ Reads(c, r) /\ torn' = torn + d
  /\ ~cut' => r = << >>
  /\ asked # NoRequest => c = Source /\ ~cut'

LEMMA LineRead ==
  ASSUME LineTypes, ~(input = << >> /\ ~cut), ReadLine
  PROVE  /\ Source \in Seq(Text) /\ cut' \in BOOLEAN
         /\ input' \in Seq(Seq(Text))
         /\ input' = IF cut THEN input ELSE Tail(input)
         /\ \E c, r, d : LineTaken(c, r, d)
  <1>1. input' = IF cut THEN input ELSE Tail(input)
    BY DEF ReadLine
  <1>2. Source \in Seq(Text) /\ input' \in Seq(Seq(Text))
    <2>1. CASE cut
      BY <1>1, <2>1 DEF LineTypes, Source
    <2>2. CASE ~cut
      <3>1. input \in Seq(Seq(Text)) /\ input # << >>
        BY <2>2 DEF LineTypes
      <3>2. Head(input) \in Seq(Text) /\ Tail(input) \in Seq(Seq(Text))
        BY <3>1, HeadTailProperties
      <3> QED
        BY <1>1, <2>2, <3>2 DEF Source
    <2> QED
      BY <2>1, <2>2
  <1> DEFINE l == Source
  <1>3. l \in Seq(Text) /\ Len(l) \in Nat /\ Room \in Nat /\ torn \in Nat
    BY <1>2, LenProperties, LineAssumption DEF LineTypes
  <1>4. CASE ReadWhole
    <2> DEFINE e == << >>
    <2>1. Len(l) <= Room /\ Reads(l, e) /\ cut' = FALSE /\ torn' = torn
      BY <1>4 DEF ReadWhole
    <2>2. l \o e = l /\ e \in Seq(Text)
      BY <1>3, ConcatEmptySeq
    <2>3. LineTaken(l, e, 0)
      BY <1>3, <2>1, <2>2 DEF LineTaken
    <2> QED
      BY <1>1, <1>2, <2>1, <2>3
  <1>5. CASE ReadPart
    <2>1. PICK k \in 0 .. Room : \/ k <= Len(l) /\ CutBetween(k)
                                 \/ k < Len(l) /\ k < Room /\ CutInside(k)
      BY <1>5 DEF ReadPart
    <2>2. asked = NoRequest /\ cut' = TRUE
      BY <1>5 DEF ReadPart
    <2>3. CASE k <= Len(l) /\ CutBetween(k)
      <3> DEFINE c == SubSeq(l, 1, k)  r == LeftOver(l, k)
      <3>1. Reads(c, r) /\ torn' = torn
        BY <2>3 DEF CutBetween
      <3>2. c \in Seq(Text) /\ Len(c) = k /\ r \in Seq(Text) /\ c \o r = l
        BY <1>3, <2>1, <2>3, Cut
      <3> HIDE DEF c, r
      <3>3. LineTaken(c, r, 0)
        BY <1>3, <2>1, <2>2, <3>1, <3>2 DEF LineTaken
      <3> QED
        BY <1>1, <1>2, <2>2, <3>3
    <2>4. CASE k < Len(l) /\ k < Room /\ CutInside(k)
      <3>1. PICK p \in Parts[l[k + 1]] :
              Reads(Append(SubSeq(l, 1, k), p[1]), <<p[2]>> \o LeftOver(l, k + 1))
        BY <2>4 DEF CutInside
      <3>2. torn' = torn + 1
        BY <2>4 DEF CutInside
      <3> DEFINE c == Append(SubSeq(l, 1, k), p[1])  r == <<p[2]>> \o LeftOver(l, k + 1)
      <3>3. Reads(c, r)
        BY <3>1
      <3>4. /\ c \in Seq(Text) /\ Len(c) = k + 1 /\ r \in Seq(Text)
            /\ Spelled(c \o r) = Spelled(l) /\ Len(c \o r) = Len(l) + 1
        <4>1. c = FirstPart(l, k, p) /\ r = SecondPart(l, k, p)
          BY DEF FirstPart, SecondPart
        <4>2. l \in Seq(Text) /\ k \in Nat /\ k < Len(l) /\ p \in Parts[l[k + 1]]
          BY <1>3, <2>1, <2>4, <3>1
        <4> HIDE DEF c, r, l
        <4> QED
          BY <4>1, <4>2, Torn
      <3> HIDE DEF c, r
      <3>5. k + 1 <= Room
        BY <1>3, <2>1, <2>4
      <3>6. LineTaken(c, r, 1)
        BY <1>3, <2>2, <3>2, <3>3, <3>4, <3>5 DEF LineTaken
      <3> QED
        BY <1>1, <1>2, <2>2, <3>6
    <2> QED
      BY <2>1, <2>3, <2>4
  <1> QED
    BY <1>4, <1>5 DEF ReadLine

(* What is left in the buffer behind the last line is no command that        *)
(* changes anything.                                                         *)
LEMMA OneWordOnly ==
  ASSUME NEW c, Word(c, 2) = "", Execute(c)
  PROVE  UNCHANGED stateVars
  <1>1. ~IsStart(c) /\ ~IsStop(c)
    BY DEF IsStart, IsStop
  <1>2. ~Scan(c) /\ ~SweepStop(c)
    BY <1>1 DEF Scan, SweepStop
  <1>3. ~Setting(c)
    BY DEF Setting
  <1>4. ~Set(c)
    BY <1>3 DEF Set
  <1>5. ~VnaCommand(c)
    BY DEF VnaCommand
  <1>6. Informs(c)
    BY <1>2, <1>4, <1>5 DEF Execute
  <1> QED
    BY <1>6 DEF Informs

LEMMA NothingRead ==
  ASSUME LineInv, ~ended, ReadNothing
  PROVE  /\ UNCHANGED stateVars /\ ended' = ended
         /\ buff' \in Seq(Text) /\ Len(buff') <= 1 /\ Word(buff', 1) # "exit"
  <1>1. PICK c \in Remains : buff' = c /\ Execute(c)
    BY DEF ReadNothing
  <1>2. buff \in Seq(Text) /\ Word(buff, 1) # "exit"
    BY DEF LineInv, LineTypes, ExitEnds
  <1>3. /\ c \in Seq(Text) /\ Len(c) <= 1
        /\ Word(c, 1) # "exit" /\ Word(c, 2) = ""
    <2>1. CASE buff = << >> /\ c = << >>
      <3>1. Len(c) = 0 /\ c \in Seq(Text) /\ DOMAIN c = {}
        BY <2>1
      <3> QED
        BY <3>1 DEF Word
    <2>2. CASE buff # << >> /\ c = <<Head(buff)>>
      <3> DEFINE h == Head(buff)
      <3>1. h \in Text /\ h = buff[1] /\ 1 \in DOMAIN buff
        <4>1. h \in Text /\ h = buff[1]
          BY <1>2, <2>2, HeadTailProperties
        <4>2. Len(buff) \in Nat /\ DOMAIN buff = 1 .. Len(buff) /\ Len(buff) # 0
          BY <1>2, <2>2, LenProperties, EmptySeq
        <4> QED
          BY <4>1, <4>2
      <3>2. h # "exit"
        BY <1>2, <3>1 DEF Word
      <3> HIDE DEF h
      <3>3. c = <<h>>
        BY <2>2 DEF h
      <3>4. c \in Seq(Text) /\ Len(c) = 1 /\ DOMAIN c = {1} /\ c[1] = h
        BY <3>1, <3>3
      <3> QED
        BY <3>2, <3>4 DEF Word
    <2>3. CASE c = <<"?">>
      <3>1. c \in Seq(Text) /\ Len(c) = 1 /\ DOMAIN c = {1} /\ c[1] = "?"
        <4>1. "?" \in Text
          BY Typed DEF CodeWords
        <4> QED
          BY <2>3, <4>1
      <3> QED
        BY <3>1 DEF Word
    <2> QED
      BY <1>1, <2>1, <2>2, <2>3 DEF Remains
  <1>4. ended' = FALSE
    BY <1>1, <1>3 DEF Execute
  <1>5. UNCHANGED stateVars
    BY <1>1, <1>3, OneWordOnly
  <1>6. ended' = ended
    <2>1. ended \in BOOLEAN
      BY DEF LineInv, LineTypes
    <2> QED
      BY <1>4, <2>1
  <1> QED
    BY <1>1, <1>3, <1>5, <1>6

(* No letter is lost or turned round when a line is read, and no word that   *)
(* the line was not cut inside.                                              *)
LEMMA WordsMove ==
  ASSUME LineInv, ~(input = << >> /\ ~cut), ReadLine, script' = script
  PROVE  EveryWordRead'
  <1>0. LineTypes /\ EveryWordRead
    BY DEF LineInv
  <1>1. PICK c, r, e : LineTaken(c, r, e)
    BY <1>0, LineRead
  <1>2. Source \in Seq(Text) /\ input' \in Seq(Seq(Text))
        /\ input' = IF cut THEN input ELSE Tail(input)
    BY <1>0, LineRead
  <1> DEFINE d == done  f == FlattenSeq(input')  l == Source  m == c \o r
             old == done \o tail \o FlattenSeq(input)
             new == done' \o tail' \o FlattenSeq(input')
  <1>3. /\ d \in Seq(Text) /\ tail \in Seq(Text) /\ input \in Seq(Seq(Text)) /\ torn \in Nat
        /\ ~cut => tail = << >>
    BY <1>0 DEF LineTypes
  <1>4. /\ c \in Seq(Text) /\ r \in Seq(Text) /\ Len(c) <= Room
        /\ Spelled(m) = Spelled(l) /\ e \in {0, 1} /\ Len(m) = Len(l) + e
        /\ e = 0 => m = l
        /\ done' = d \o c /\ tail' = r /\ buff' = c /\ torn' = torn + e
    BY <1>1 DEF LineTaken, Reads
  <1>5. f \in Seq(Text) /\ l \in Seq(Text) /\ m \in Seq(Text)
    BY <1>2, <1>4, FlattenTyped, ConcatProperties
  <1> HIDE DEF d, f, l, m
  <1>6. tail \o FlattenSeq(input) = l \o f
    <2>1. CASE cut
      BY <1>2, <2>1 DEF Source, f, l
    <2>2. CASE ~cut
      <3>1. input # << >>
        BY <2>2
      <3>2. FlattenSeq(input) = Head(input) \o f
        BY <1>2, <1>3, <2>2, <3>1, FlattenHead DEF f
      <3>3. FlattenSeq(input) \in Seq(Text)
        BY <1>3, FlattenTyped
      <3> QED
        BY <1>3, <2>2, <3>2, <3>3, ConcatEmptySeq DEF Source, l
    <2> QED
      BY <2>1, <2>2
  <1>7. old = d \o (l \o f)
    <2>1. FlattenSeq(input) \in Seq(Text)
      BY <1>3, FlattenTyped
    <2> DEFINE i == FlattenSeq(input)
    <2>2. i \in Seq(Text) /\ d \in Seq(Text) /\ tail \in Seq(Text)
      BY <1>3, <2>1
    <2> HIDE DEF i
    <2>3. (d \o tail) \o i = d \o (tail \o i)
      BY ONLY <2>2, Associates
    <2> QED
      BY <1>6, <2>3 DEF i, d
  <1>8. new = d \o (m \o f)
    <2>1. new = ((d \o c) \o r) \o f
      BY <1>4 DEF f
    <2>2. (d \o c) \o r = d \o m
      <3>1. d \in Seq(Text) /\ c \in Seq(Text) /\ r \in Seq(Text)
        BY <1>3, <1>4
      <3>2. (d \o c) \o r = d \o (c \o r)
        BY ONLY <3>1, Associates
      <3> QED
        BY <3>2 DEF m
    <2>3. (d \o m) \o f = d \o (m \o f)
      <3>1. d \in Seq(Text) /\ m \in Seq(Text) /\ f \in Seq(Text)
        BY <1>3, <1>5
      <3> QED
        BY ONLY <3>1, Associates
    <2> QED
      BY <2>1, <2>2, <2>3
  <1> DEFINE typed == FlattenSeq(script)
  <1>9. Spelled(old) = Spelled(typed) /\ Len(old) = Len(typed) + torn /\ (torn = 0 => old = typed)
    BY <1>0 DEF EveryWordRead
  <1>10. typed \in Seq(Text) /\ Len(typed) \in Nat
    BY <1>0, FlattenTyped, LenProperties DEF LineTypes
  <1> HIDE DEF old, typed
  <1>11. Spelled(new) = Spelled(old)
    <2>1. l \o f \in Seq(Text) /\ m \o f \in Seq(Text)
      BY <1>5, ConcatProperties
    <2>2. Spelled(old) = Spelled(d) \o (Spelled(l) \o Spelled(f))
      BY <1>3, <1>5, <1>7, <2>1, SpelledConcat
    <2>3. Spelled(new) = Spelled(d) \o (Spelled(m) \o Spelled(f))
      <3>1. Spelled(d \o (m \o f)) = Spelled(d) \o Spelled(m \o f)
        BY <1>3, <2>1, SpelledConcat
      <3>2. Spelled(m \o f) = Spelled(m) \o Spelled(f)
        BY <1>5, SpelledConcat
      <3> QED
        BY <1>8, <3>1, <3>2
    <2> QED
      BY <1>4, <2>2, <2>3
  <1>12. Len(new) = Len(old) + e
    <2>1. l \o f \in Seq(Text) /\ Len(l \o f) = Len(l) + Len(f)
          /\ m \o f \in Seq(Text) /\ Len(m \o f) = Len(m) + Len(f)
      BY <1>5, ConcatProperties
    <2>2. Len(old) = Len(d) + (Len(l) + Len(f)) /\ Len(new) = Len(d) + (Len(m) + Len(f))
      <3>1. Len(d \o (l \o f)) = Len(d) + Len(l \o f)
        BY <1>3, <2>1, ConcatProperties
      <3>2. Len(d \o (m \o f)) = Len(d) + Len(m \o f)
        BY <1>3, <2>1, ConcatProperties
      <3> QED
        BY <1>7, <1>8, <2>1, <3>1, <3>2
    <2>3. Len(d) \in Nat /\ Len(l) \in Nat /\ Len(f) \in Nat
      BY <1>3, <1>5, LenProperties
    <2> QED
      BY <1>4, <2>2, <2>3
  <1>13. e = 0 => new = old
    BY <1>4, <1>7, <1>8
  <1> HIDE DEF new
  <1>14. /\ Spelled(new) = Spelled(typed) /\ Len(new) = Len(typed) + torn'
         /\ torn' = 0 => new = typed
    <2>1. Len(new) = Len(typed) + (torn + e)
      BY <1>3, <1>4, <1>9, <1>10, <1>12
    <2>2. torn + e = 0 => torn = 0 /\ e = 0
      BY <1>3, <1>4
    <2> QED
      BY <1>4, <1>9, <1>11, <1>13, <2>1, <2>2
  <1> QED
    BY <1>4, <1>14 DEF EveryWordRead, new, typed

LEMMA WrapperTyped ==
  ASSUME NEW r \in Requests
  PROVE  WrapperLines(r) \in Seq(Seq(Text)) /\ WrapperLines(r) # << >>
  <1> DEFINE a == WordOf(r.start)  b == WordOf(r.stop)
             w == IF r.time THEN <<"scan", "time">> ELSE <<"scan", "sweeps">>
  <1>1. a \in Text /\ b \in Text
    <2>1. (\E v \in DOMAIN Number : Number[v] = r.start)
          /\ (\E v \in DOMAIN Number : Number[v] = r.stop)
      BY LineAssumption
    <2>2. a \in DOMAIN Number /\ b \in DOMAIN Number
      BY <2>1 DEF WordOf
    <2> QED
      BY <2>2, Typed
  <1> HIDE DEF a, b
  <1>2. w \in Seq(Text)
    <2>1. "scan" \in Text /\ "time" \in Text /\ "sweeps" \in Text
      BY Typed DEF CodeWords
    <2> QED
      BY <2>1
  <1> HIDE DEF w
  <1>3. /\ <<"set", "start", a>> \in Seq(Text) /\ <<"set", "stop", b>> \in Seq(Text)
        /\ <<"set", "scans", "1">> \in Seq(Text) /\ <<"set", "points", "1">> \in Seq(Text)
        /\ <<"set", "verbose", "true">> \in Seq(Text) /\ <<"set", "sweeps", "1">> \in Seq(Text)
        /\ <<"vna", "add">> \in Seq(Text) /\ <<"exit">> \in Seq(Text)
    <2>1. /\ "set" \in Text /\ "start" \in Text /\ "stop" \in Text /\ "scans" \in Text
          /\ "points" \in Text /\ "verbose" \in Text /\ "true" \in Text /\ "sweeps" \in Text
          /\ "vna" \in Text /\ "add" \in Text /\ "exit" \in Text /\ "1" \in Text
      BY Typed DEF CodeWords
    <2> QED
      BY <1>1, <2>1
  <1> DEFINE c1 == <<"set", "start", a>>  c2 == <<"set", "stop", b>>
             c3 == <<"set", "scans", "1">>  c4 == <<"set", "points", "1">>
             c5 == <<"set", "verbose", "true">>  c6 == <<"set", "sweeps", "1">>
             c7 == <<"vna", "add">>  c9 == <<"exit">>
  <1>4. WrapperLines(r) = <<c1, c2, c3, c4, c5, c6, c7, w, c9>>
    BY DEF WrapperLines, a, b, w
  <1>5. /\ c1 \in Seq(Text) /\ c2 \in Seq(Text) /\ c3 \in Seq(Text) /\ c4 \in Seq(Text)
        /\ c5 \in Seq(Text) /\ c6 \in Seq(Text) /\ c7 \in Seq(Text) /\ c9 \in Seq(Text)
    BY <1>3
  <1> HIDE DEF c1, c2, c3, c4, c5, c6, c7, c9
  <1> QED
    BY <1>2, <1>4, <1>5

LEMMA LineInit ==
  ASSUME Init PROVE LineInv
  <1>1. script \in Seq(Seq(Text))
    BY Typed, WrapperTyped DEF Init
  <1>2. LineTypes
    <2>1. /\ input = script /\ tail = << >> /\ buff = <<"?">> /\ done = << >>
          /\ cut = FALSE /\ torn = 0 /\ ended = FALSE
      BY DEF Init
    <2>2. "?" \in Text
      BY Typed DEF CodeWords
    <2>3. <<"?">> \in Seq(Text) /\ << >> \in Seq(Text)
      BY <2>2
    <2> QED
      BY <1>1, <2>1, <2>3 DEF LineTypes
  <1>3. EveryWordRead
    <2>1. FlattenSeq(script) \in Seq(Text)
      BY <1>1, FlattenTyped
    <2> DEFINE f == FlattenSeq(script)
    <2>2. Len(f) \in Nat
      BY <2>1, LenProperties
    <2> HIDE DEF f
    <2>3. f = << >> \o << >> \o f
      <3>1. f \in Seq(Text)
        BY <2>1 DEF f
      <3>2. << >> \o << >> = << >>
        OBVIOUS
      <3> QED
        BY <3>1, <3>2, ConcatEmptySeq
    <2>4. Len(<<"?">>) = 1 /\ Room \in Nat /\ Room >= 3
      BY LineAssumption
    <2>5. done \o tail \o FlattenSeq(input) = f /\ torn = 0 /\ buff = <<"?">>
      BY <2>3 DEF Init, f
    <2>6. Len(f) = Len(f) + 0
      BY <2>2
    <2> QED
      BY <2>4, <2>5, <2>6 DEF EveryWordRead, f
  <1>4. ExitEnds
    <2>1. Word(<<"?">>, 1) = "?"
      BY DEF Word
    <2> QED
      BY <2>1 DEF ExitEnds, Init
  <1> QED
    BY <1>2, <1>3, <1>4 DEF LineInv

LEMMA LineNext ==
  ASSUME LineInv, [ReadCommand]_vars PROVE LineInv'
  <1>1. CASE UNCHANGED vars
    BY <1>1 DEF LineInv, LineTypes, EveryWordRead, ExitEnds, vars, lineVars
  <1>2. CASE ReadCommand /\ input = << >> /\ ~cut
    <2>1. ~ended /\ ReadNothing /\ UNCHANGED script
      BY <1>2 DEF ReadCommand
    <2>2. /\ ended' = ended /\ buff' \in Seq(Text) /\ Len(buff') <= 1
          /\ Word(buff', 1) # "exit" /\ UNCHANGED <<input, cut, tail, done, torn, script>>
      BY <2>1, NothingRead DEF ReadNothing
    <2>3. LineTypes'
      BY <2>2 DEF LineInv, LineTypes
    <2>4. EveryWordRead'
      <3>1. Len(buff') \in Nat /\ Room \in Nat /\ Room >= 3
        BY <2>2, LenProperties, LineAssumption
      <3>2. Len(buff') <= Room
        BY <2>2, <3>1
      <3> QED
        BY <2>2, <3>2 DEF LineInv, EveryWordRead
    <2>5. ExitEnds'
      BY <2>2 DEF ExitEnds
    <2> QED
      BY <2>3, <2>4, <2>5 DEF LineInv
  <1>3. CASE ReadCommand /\ ~(input = << >> /\ ~cut)
    <2>1. ReadLine /\ UNCHANGED script
      BY <1>3 DEF ReadCommand
    <2>2. PICK c, r, d : LineTaken(c, r, d)
      BY <1>3, <2>1, LineRead DEF LineInv
    <2>3. /\ c \in Seq(Text) /\ r \in Seq(Text) /\ buff' = c /\ tail' = r /\ done' = done \o c
          /\ d \in {0, 1} /\ torn' = torn + d /\ (~cut' => r = << >>)
          /\ ended' = (Word(c, 1) = "exit")
      BY <2>2 DEF LineTaken, Reads, Execute
    <2>4. LineTypes'
      <3>1. done' \in Seq(Text)
        BY <2>3, ConcatProperties DEF LineInv, LineTypes
      <3>2. input' \in Seq(Seq(Text)) /\ cut' \in BOOLEAN
        BY <1>3, <2>1, LineRead DEF LineInv
      <3>3. torn' \in Nat
        BY <2>3 DEF LineInv, LineTypes
      <3> QED
        BY <2>1, <2>3, <3>1, <3>2, <3>3 DEF LineInv, LineTypes
    <2>5. EveryWordRead'
      BY <1>3, <2>1, WordsMove
    <2>6. ExitEnds'
      BY <2>3 DEF ExitEnds
    <2> QED
      BY <2>4, <2>5, <2>6 DEF LineInv
  <1> QED
    BY <1>1, <1>2, <1>3

(* Every letter typed is carried out once and in its order, however long the *)
(* lines are and however small the buffer of read_command, and the words are *)
(* those that were typed but for those a line was cut inside.                *)
THEOREM EveryWordAlwaysRead == Spec => []EveryWordRead
  <1>1. LineInv => EveryWordRead
    BY DEF LineInv
  <1> QED
    BY <1>1, LineInit, LineNext, PTL DEF Spec

(* Behind the end of the input main repeats what is left in its buffer, and  *)
(* neither changes anything by it nor ever comes to an end.                  *)
THEOREM NothingEverAfterTheEnd == Spec => NothingAfterTheEnd
  <1>1. ASSUME LineInv, [ReadCommand]_vars
        PROVE  [input = << >> /\ ~cut => UNCHANGED stateVars /\ ended' = ended]_vars
    <2>1. CASE UNCHANGED vars
      BY <2>1
    <2>2. CASE ReadCommand
      <3>1. ASSUME input = << >> /\ ~cut
            PROVE  UNCHANGED stateVars /\ ended' = ended
        BY <1>1, <2>2, <3>1, NothingRead DEF ReadCommand
      <3> QED
        BY <3>1
    <2> QED
      BY <1>1, <2>1, <2>2
  <1> QED
    BY <1>1, LineInit, LineNext, PTL DEF Spec, NothingAfterTheEnd

------------------------------------------------------------------------------
(* What the wrapper writes *)

(* The lines it has written that the parser has read.                        *)
Sent == 9 - Len(input)

(* The parser goes through the lines of the wrapper one by one, and changes  *)
(* the range with the first two only.                                        *)
WrapperInv ==
  asked # NoRequest =>
    /\ asked \in Requests
    /\ ~cut
    /\ Sent \in 0 .. 9
    /\ \A i \in 1 .. 9 - Sent : input[i] = WrapperLines(asked)[Sent + i]
    /\ ended <=> Sent = 9
    /\ start = IF Sent = 0 \/ asked.start >= FirstStop THEN FirstStart ELSE asked.start
    /\ stop = IF Sent < 2 THEN FirstStop ELSE asked.stop
    /\ \A i \in Slots : scans[i] # << >> => Sent > 7 /\ asked.time

(* A command touches the frequencies only if its first words are set start   *)
(* or set stop, and the table of scans only if it starts or stops one.       *)
LEMMA Effects ==
  ASSUME NEW c, Execute(c)
  PROVE  /\ ~IsStart(c) /\ ~IsStop(c) => UNCHANGED scans
         /\ Word(c, 1) # "set" \/ Word(c, 2) \notin {"start", "stop"} => UNCHANGED frequencyVars
         /\ ended' = (Word(c, 1) = "exit")
  <1>1. Scan(c) \/ SweepStop(c) \/ Set(c) \/ VnaCommand(c) \/ Informs(c)
    BY DEF Execute
  <1>2. CASE Scan(c)
    BY <1>2 DEF Scan, Execute, settingVars
  <1>3. CASE SweepStop(c)
    BY <1>3 DEF SweepStop, Execute, settingVars
  <1>4. CASE Set(c)
    <2>1. Word(c, 1) = "set" /\ UNCHANGED scans
      BY <1>4 DEF Set, Setting
    <2>2. Word(c, 2) \notin {"start", "stop"} => UNCHANGED frequencyVars
      BY <1>4 DEF Set, Setting, SetResolution, SetScans, SetPoints, SetSweeps
    <2> QED
      BY <2>1, <2>2 DEF Execute
  <1>5. CASE VnaCommand(c)
    BY <1>5 DEF VnaCommand, Execute, settingVars
  <1>6. CASE Informs(c)
    BY <1>6 DEF Informs, Execute, stateVars, settingVars
  <1> QED
    BY <1>1, <1>2, <1>3, <1>4, <1>5, <1>6

LEMMA WordOfNumber ==
  ASSUME NEW n \in {Number[w] : w \in DOMAIN Number}
  PROVE  WordOf(n) \in DOMAIN Number /\ Number[WordOf(n)] = n
  BY DEF WordOf

(* What the lines of the wrapper ask for.                                    *)
LEMMA WrapperAsks ==
  ASSUME NEW r \in Requests, NEW W, W = WrapperLines(r)
  PROVE  /\ W \in Seq(Seq(Text)) /\ Len(W) = 9
         /\ \A k \in 1 .. 9 : Len(W[k]) <= 3
         /\ Word(W[1], 1) = "set" /\ Word(W[1], 2) = "start" /\ Word(W[1], 3) = WordOf(r.start)
         /\ W[1][3] = WordOf(r.start)
         /\ Word(W[2], 1) = "set" /\ Word(W[2], 2) = "stop" /\ Word(W[2], 3) = WordOf(r.stop)
         /\ W[2][3] = WordOf(r.stop)
         /\ \A k \in 3 .. 9 : Word(W[k], 2) \notin {"start", "stop"}
         /\ \A k \in 1 .. 9 : Word(W[k], 1) = "exit" <=> k = 9
         /\ \A k \in 1 .. 9 : ~IsStop(W[k]) /\ (IsStart(W[k]) => k = 8 /\ r.time)
  <1> DEFINE a == WordOf(r.start)  b == WordOf(r.stop)
             w == IF r.time THEN <<"scan", "time">> ELSE <<"scan", "sweeps">>
  <1>1. W \in Seq(Seq(Text))
    BY WrapperTyped
  <1>2. W = <<<<"set", "start", a>>, <<"set", "stop", b>>,
              <<"set", "scans", "1">>, <<"set", "points", "1">>, <<"set", "verbose", "true">>,
              <<"set", "sweeps", "1">>, <<"vna", "add">>, w, <<"exit">>>>
    BY DEF WrapperLines
  <1> HIDE DEF a, b
  <1>3. /\ Len(w) = 2 /\ Word(w, 1) = "scan" /\ Word(w, 2) \in {"time", "sweeps"}
        /\ Word(w, 2) = "time" => r.time
    BY DEF Word
  <1> HIDE DEF w
  <1>4. /\ Len(W) = 9 /\ W[1] = <<"set", "start", a>> /\ W[2] = <<"set", "stop", b>>
        /\ W[3] = <<"set", "scans", "1">> /\ W[4] = <<"set", "points", "1">>
        /\ W[5] = <<"set", "verbose", "true">> /\ W[6] = <<"set", "sweeps", "1">>
        /\ W[7] = <<"vna", "add">> /\ W[8] = w /\ W[9] = <<"exit">>
    BY <1>2
  <1>5. ASSUME NEW x, NEW y, NEW z
        PROVE  /\ Len(<<x, y, z>>) = 3 /\ Word(<<x, y, z>>, 1) = x /\ Word(<<x, y, z>>, 2) = y
               /\ Word(<<x, y, z>>, 3) = z /\ <<x, y, z>>[3] = z
    BY DEF Word
  <1>6. /\ Len(<<"vna", "add">>) = 2 /\ Word(<<"vna", "add">>, 1) = "vna"
        /\ Word(<<"vna", "add">>, 2) = "add"
        /\ Len(<<"exit">>) = 1 /\ Word(<<"exit">>, 1) = "exit" /\ Word(<<"exit">>, 2) = ""
    BY DEF Word
  <1>7. /\ Len(W[1]) = 3 /\ Word(W[1], 1) = "set" /\ Word(W[1], 2) = "start"
        /\ Word(W[1], 3) = a /\ W[1][3] = a
        /\ Len(W[2]) = 3 /\ Word(W[2], 1) = "set" /\ Word(W[2], 2) = "stop"
        /\ Word(W[2], 3) = b /\ W[2][3] = b
    BY <1>4, <1>5
  <1>8. /\ Len(W[3]) = 3 /\ Word(W[3], 1) = "set" /\ Word(W[3], 2) = "scans"
        /\ Len(W[4]) = 3 /\ Word(W[4], 1) = "set" /\ Word(W[4], 2) = "points"
        /\ Len(W[5]) = 3 /\ Word(W[5], 1) = "set" /\ Word(W[5], 2) = "verbose"
        /\ Len(W[6]) = 3 /\ Word(W[6], 1) = "set" /\ Word(W[6], 2) = "sweeps"
    BY <1>4, <1>5
  <1>9. /\ Len(W[7]) = 2 /\ Word(W[7], 1) = "vna" /\ Word(W[7], 2) = "add"
        /\ Len(W[8]) = 2 /\ Word(W[8], 1) = "scan" /\ Word(W[8], 2) \in {"time", "sweeps"}
        /\ Word(W[8], 2) = "time" => r.time
        /\ Len(W[9]) = 1 /\ Word(W[9], 1) = "exit" /\ Word(W[9], 2) = ""
    BY <1>3, <1>4, <1>6
  <1>10. ASSUME NEW k \in 1 .. 9
         PROVE  k = 1 \/ k = 2 \/ k = 3 \/ k = 4 \/ k = 5 \/ k = 6 \/ k = 7 \/ k = 8 \/ k = 9
    OBVIOUS
  <1>11. \A k \in 1 .. 9 : Len(W[k]) <= 3
    <2>1. 3 <= 3 /\ 2 <= 3 /\ 1 <= 3
      OBVIOUS
    <2>2. /\ Len(W[1]) <= 3 /\ Len(W[2]) <= 3 /\ Len(W[3]) <= 3 /\ Len(W[4]) <= 3
          /\ Len(W[5]) <= 3 /\ Len(W[6]) <= 3 /\ Len(W[7]) <= 3 /\ Len(W[8]) <= 3
          /\ Len(W[9]) <= 3
      BY <1>7, <1>8, <1>9, <2>1
    <2> QED
      BY <1>10, <2>2
  <1>12. \A k \in 3 .. 9 : Word(W[k], 2) \notin {"start", "stop"}
    <2>1. \A k \in 3 .. 9 : k \in 1 .. 9 /\ k # 1 /\ k # 2
      OBVIOUS
    <2> QED
      BY <1>8, <1>9, <1>10, <2>1
  <1>13. \A k \in 1 .. 9 : Word(W[k], 1) = "exit" <=> k = 9
    BY <1>7, <1>8, <1>9, <1>10
  <1>14. \A k \in 1 .. 9 : ~IsStop(W[k]) /\ (IsStart(W[k]) => k = 8 /\ r.time)
    BY <1>7, <1>8, <1>9, <1>10 DEF IsStop, IsStart
  <1> QED
    BY <1>1, <1>4, <1>7, <1>11, <1>12, <1>13, <1>14 DEF a, b

LEMMA WrapperInit ==
  ASSUME Init PROVE WrapperInv
  <1> SUFFICES ASSUME asked # NoRequest PROVE WrapperInv
    BY DEF WrapperInv
  <1>1. asked \in Requests /\ input = WrapperLines(asked)
    BY DEF Init
  <1> DEFINE W == WrapperLines(asked)
  <1>2. Len(W) = 9
    BY <1>1, WrapperAsks
  <1> HIDE DEF W
  <1>3. Sent = 0 /\ input = W
    BY <1>1, <1>2 DEF Sent, W
  <1>4. \A i \in 1 .. 9 - Sent : input[i] = W[Sent + i]
    BY <1>3
  <1>5. \A i \in Slots : scans[i] = << >>
    BY DEF Init
  <1>6. ended = FALSE /\ cut = FALSE /\ start = FirstStart /\ stop = FirstStop
    BY DEF Init, SettingsInit
  <1> QED
    BY <1>1, <1>3, <1>4, <1>5, <1>6 DEF WrapperInv, W

(* One line of the wrapper.                                                  *)
LEMMA WrapperReads ==
  ASSUME LineInv, WrapperInv, asked # NoRequest, ReadCommand,
         NEW n, n = Sent, NEW W, W = WrapperLines(asked)
  PROVE  /\ n \in 0 .. 8 /\ Sent' = n + 1 /\ ~cut'
         /\ Execute(W[n + 1])
         /\ \A i \in 1 .. 9 - Sent' : input'[i] = W[Sent' + i]
  <1>1. /\ asked \in Requests /\ ~cut /\ n \in 0 .. 9
        /\ \A i \in 1 .. 9 - n : input[i] = W[n + i]
        /\ ended <=> n = 9
    BY DEF WrapperInv
  <1>2. n \in 0 .. 8
    BY <1>1 DEF ReadCommand
  <1>3. input \in Seq(Seq(Text)) /\ Len(input) \in Nat /\ Len(input) = 9 - n /\ input # << >>
    <2>1. input \in Seq(Seq(Text))
      BY DEF LineInv, LineTypes
    <2>2. Len(input) \in Nat /\ Len(<< >>) = 0
      BY <2>1, LenProperties, EmptySeq
    <2>3. Len(input) = 9 - n
      BY <1>2, <2>2 DEF Sent
    <2> QED
      BY <1>2, <2>1, <2>2, <2>3
  <1>4. ReadLine
    BY <1>3 DEF ReadCommand
  <1>5. Head(input) = W[n + 1] /\ Source = W[n + 1]
    <2>1. Head(input) = input[1]
      BY <1>3, HeadTailProperties
    <2>2. 1 \in 1 .. 9 - n
      BY <1>2
    <2>3. input[1] = W[n + 1]
      BY <1>1, <2>2
    <2> QED
      BY <1>1, <2>1, <2>3 DEF Source
  <1>6. W \in Seq(Seq(Text)) /\ Len(W) = 9 /\ Len(W[n + 1]) <= 3
    <2>1. n + 1 \in 1 .. 9
      BY <1>2
    <2> QED
      BY <1>1, <2>1, WrapperAsks
  <1>7. Source \in Seq(Text) /\ input' = Tail(input)
    BY <1>1, <1>3, <1>4, LineRead DEF LineInv
  <1>8. Execute(Source) /\ ~cut'
    <2>1. PICK c, r, d : LineTaken(c, r, d)
      BY <1>3, <1>4, LineRead DEF LineInv
    <2> QED
      BY <2>1 DEF LineTaken, Reads
  <1>9. /\ Len(input') = 8 - n
        /\ \A i \in 1 .. 8 - n : input'[i] = input[i + 1]
    <2>1. /\ Len(Tail(input)) = Len(input) - 1
          /\ \A i \in 1 .. Len(Tail(input)) : Tail(input)[i] = input[i + 1]
      BY <1>3, HeadTailProperties
    <2>2. Len(input) - 1 = 8 - n
      BY <1>2, <1>3
    <2> QED
      BY <1>7, <2>1, <2>2
  <1>10. Sent' = n + 1
    BY <1>2, <1>9 DEF Sent
  <1>11. ASSUME NEW i \in 1 .. 9 - Sent' PROVE input'[i] = W[Sent' + i]
    <2>1. i \in 1 .. 8 - n /\ i + 1 \in 1 .. 9 - n /\ n + (i + 1) = Sent' + i
      BY <1>2, <1>10
    <2> QED
      BY <1>1, <1>9, <2>1
  <1> QED
    BY <1>2, <1>5, <1>7, <1>8, <1>10, <1>11

LEMMA WrapperNext ==
  ASSUME LineInv, WrapperInv, [ReadCommand]_vars PROVE WrapperInv'
  <1>1. CASE UNCHANGED vars
    BY <1>1 DEF WrapperInv, Sent, vars, stateVars, settingVars, frequencyVars, lineVars
  <1>2. CASE ReadCommand
    <2>0. asked' = asked
      BY <1>2 DEF ReadCommand
    <2> SUFFICES ASSUME asked # NoRequest PROVE WrapperInv'
      BY <2>0 DEF WrapperInv
    <2> DEFINE n == Sent  W == WrapperLines(asked)  c == W[n + 1]
               first == IF asked.start >= FirstStop THEN FirstStart ELSE asked.start
    <2>1. /\ n \in 0 .. 8 /\ Sent' = n + 1 /\ ~cut' /\ Execute(c)
          /\ \A i \in 1 .. 9 - Sent' : input'[i] = W[Sent' + i]
      BY <1>2, WrapperReads
    <2>2. /\ asked \in Requests
          /\ start = IF n = 0 \/ asked.start >= FirstStop THEN FirstStart ELSE asked.start
          /\ stop = IF n < 2 THEN FirstStop ELSE asked.stop
          /\ \A i \in Slots : scans[i] # << >> => n > 7 /\ asked.time
      BY DEF WrapperInv
    <2>3. W' = W /\ W = WrapperLines(asked)
      BY <2>0
    <2> HIDE DEF n, W
    <2>4. /\ n + 1 \in 1 .. 9
          /\ Word(W[1], 1) = "set" /\ Word(W[1], 2) = "start" /\ Word(W[1], 3) = WordOf(asked.start)
          /\ W[1][3] = WordOf(asked.start)
          /\ Word(W[2], 1) = "set" /\ Word(W[2], 2) = "stop" /\ Word(W[2], 3) = WordOf(asked.stop)
          /\ W[2][3] = WordOf(asked.stop)
          /\ \A k \in 3 .. 9 : Word(W[k], 2) \notin {"start", "stop"}
          /\ Word(c, 1) = "exit" <=> n + 1 = 9
          /\ ~IsStop(c) /\ (IsStart(c) => n + 1 = 8 /\ asked.time)
      <3>1. n + 1 \in 1 .. 9
        BY <2>1
      <3>2. asked \in Requests /\ W = WrapperLines(asked)
        BY <2>2, <2>3
      <3> QED
        BY <3>1, <3>2, WrapperAsks
    <2>5. /\ ~IsStart(c) /\ ~IsStop(c) => UNCHANGED scans
          /\ Word(c, 1) # "set" \/ Word(c, 2) \notin {"start", "stop"} => UNCHANGED <<start, stop>>
          /\ ended' = (Word(c, 1) = "exit")
      BY <2>1, Effects DEF frequencyVars
    <2>6. ended' <=> Sent' = 9
      BY <2>1, <2>4, <2>5
    <2>7. ASSUME NEW i \in Slots, scans'[i] # << >> PROVE Sent' > 7 /\ asked.time
      <3>1. CASE IsStart(c)
        <4>1. n + 1 = 8 /\ asked.time
          BY <2>4, <3>1
        <4> QED
          BY <2>1, <4>1
      <3>2. CASE ~IsStart(c)
        <4>1. scans' = scans
          BY <2>4, <2>5, <3>2
        <4>2. n > 7 /\ asked.time
          BY <2>2, <2>7, <4>1
        <4> QED
          BY <2>1, <4>2
      <3> QED
        BY <3>1, <3>2
    <2>8. /\ MinFreq \in Nat /\ MaxFreq \in Nat /\ FirstStart \in Int /\ FirstStop \in Int
          /\ FirstStart < FirstStop /\ MinFreq <= FirstStart /\ FirstStop <= MaxFreq
          /\ asked.start \in Int /\ asked.stop \in Int
          /\ MinFreq <= asked.start /\ asked.start < asked.stop /\ asked.stop <= MaxFreq
          /\ IsNumber(WordOf(asked.start)) /\ Number[WordOf(asked.start)] = asked.start
          /\ IsNumber(WordOf(asked.stop)) /\ Number[WordOf(asked.stop)] = asked.stop
      <3> DEFINE a == asked.start  b == asked.stop
      <3>1. /\ MinFreq <= a /\ a < b /\ b <= MaxFreq
            /\ a \in {Number[w] : w \in DOMAIN Number} /\ b \in {Number[w] : w \in DOMAIN Number}
            /\ \A w \in DOMAIN Number : Number[w] \in Int
        BY <2>2, LineAssumption
      <3> HIDE DEF a, b
      <3>2. a \in Int /\ b \in Int
        BY <3>1
      <3>3. /\ IsNumber(WordOf(a)) /\ Number[WordOf(a)] = a
            /\ IsNumber(WordOf(b)) /\ Number[WordOf(b)] = b
        BY <3>1, WordOfNumber DEF IsNumber
      <3> QED
        BY <3>1, <3>2, <3>3, SettingsAssumption DEF a, b
    <2>9. CASE n = 0
      <3>1. start = FirstStart /\ stop = FirstStop
        BY <2>2, <2>9
      <3>2. /\ Word(c, 1) = "set" /\ Word(c, 2) = "start" /\ IsNumber(Word(c, 3))
            /\ Number[c[3]] = asked.start
        BY <2>4, <2>8, <2>9
      <3>3. GoodStart(asked.start) <=> ~(asked.start >= FirstStop)
        BY <2>8, <3>1 DEF GoodStart
      <3> HIDE DEF c
      <3>4. Set(c) \/ Informs(c)
        BY <2>1, <3>2 DEF Execute, Scan, SweepStop, VnaCommand, IsStart, IsStop
      <3>5. stop' = stop /\ start' = IF asked.start >= FirstStop THEN FirstStart ELSE asked.start
        <4>1. CASE Set(c)
          <5>1. SetStart(asked.start)
            BY <3>2, <4>1 DEF Set, Setting
          <5> QED
            BY <3>3, <5>1 DEF SetStart
        <4>2. CASE Informs(c)
          <5>1. ~Accepted(c) /\ UNCHANGED <<start, stop>>
            BY <4>2 DEF Informs, stateVars, settingVars, frequencyVars
          <5>2. ~GoodStart(asked.start)
            BY <3>2, <5>1 DEF Accepted
          <5> QED
            BY <3>1, <3>3, <5>1, <5>2
        <4> QED
          BY <3>4, <4>1, <4>2
      <3>6. Sent' = 1
        BY <2>1, <2>9
      <3> QED
        BY <2>0, <2>1, <2>2, <2>3, <2>6, <2>7, <3>1, <3>5, <3>6 DEF WrapperInv
    <2>10. CASE n = 1
      <3>1. stop = FirstStop
            /\ start = IF asked.start >= FirstStop THEN FirstStart ELSE asked.start
        BY <2>2, <2>10
      <3>2. /\ Word(c, 1) = "set" /\ Word(c, 2) = "stop" /\ IsNumber(Word(c, 3))
            /\ Number[c[3]] = asked.stop
        BY <2>4, <2>8, <2>10
      <3>3. GoodStop(asked.stop)
        BY <2>8, <3>1 DEF GoodStop
      <3> HIDE DEF c
      <3>4. Accepted(c)
        BY <3>2, <3>3 DEF Accepted
      <3>5. Set(c)
        BY <2>1, <3>2, <3>4 DEF Execute, Scan, SweepStop, VnaCommand, Informs, IsStart, IsStop
      <3>6. SetStop(asked.stop)
        BY <3>2, <3>5 DEF Set, Setting
      <3>7. start' = start /\ stop' = asked.stop
        BY <3>6 DEF SetStop
      <3>8. Sent' = 2
        BY <2>1, <2>10
      <3> QED
        BY <2>0, <2>1, <2>2, <2>3, <2>6, <2>7, <3>1, <3>7, <3>8 DEF WrapperInv
    <2>11. CASE n > 1
      <3>1. n + 1 \in 3 .. 9 /\ ~(n = 0) /\ ~(n < 2) /\ ~(n + 1 = 0) /\ ~(n + 1 < 2)
            /\ n + 1 \in 0 .. 9
        BY <2>1, <2>11
      <3>2. UNCHANGED <<start, stop>>
        BY <2>4, <2>5, <3>1
      <3> QED
        BY <2>0, <2>1, <2>2, <2>3, <2>6, <2>7, <3>1, <3>2 DEF WrapperInv
    <2>12. n = 0 \/ n = 1 \/ n > 1
      BY <2>1
    <2> QED
      BY <2>9, <2>10, <2>11, <2>12
  <1> QED
    BY <1>1, <1>2

(* The scan of a request has the range asked for if its start is below the   *)
(* stop the parser begins with; otherwise the start is refused.  And only a  *)
(* request with a time limit ever comes to a scan.                           *)
THEOREM WrapperAlwaysScans == Spec => []WrapperScans
  <1>1. LineInv /\ WrapperInv => WrapperScans
    <2> SUFFICES ASSUME WrapperInv, asked # NoRequest, ended PROVE WrapperScans
      BY DEF WrapperScans
    <2>1. asked \in Requests /\ Sent = 9
      BY DEF WrapperInv
    <2>2. /\ start = IF asked.start >= FirstStop THEN FirstStart ELSE asked.start
          /\ stop = asked.stop
          /\ \A i \in Slots : scans[i] # << >> => asked.time
      BY <2>1 DEF WrapperInv
    <2>3. asked.start \in Int /\ FirstStop \in Int
      BY <2>1, LineAssumption, SettingsAssumption
    <2> QED
      BY <2>2, <2>3 DEF WrapperScans
  <1>2. Init => LineInv /\ WrapperInv
    BY LineInit, WrapperInit
  <1>3. LineInv /\ WrapperInv /\ [ReadCommand]_vars => (LineInv /\ WrapperInv)'
    BY LineNext, WrapperNext
  <1> QED
    BY <1>1, <1>2, <1>3, PTL DEF Spec

------------------------------------------------------------------------------
(* Ids *)

(* f begins with a and goes on by h.                                         *)
Recursion(f, a, n, h) == f = [k \in 0 .. n |-> IF k = 0 THEN a ELSE h[k][f[k-1]]]

(* A recursion over the first n numbers has a solution.                      *)
LEMMA RecursionExists ==
  ASSUME NEW S, NEW a \in S, NEW n \in Nat, NEW h \in [1 .. n -> [S -> S]]
  PROVE  \E f \in [0 .. n -> S] : Recursion(f, a, n, h)
  <1> DEFINE Good(f, m) ==
               /\ f \in [0 .. m -> S]
               /\ \A k \in 0 .. m : f[k] = IF k = 0 THEN a ELSE h[k][f[k-1]]
             T == {m \in Nat : m <= n => \E f : Good(f, m)}
  <1>1. 0 \in T
    <2> DEFINE e == [k \in 0 .. 0 |-> a]
    <2>1. Good(e, 0)
      OBVIOUS
    <2> HIDE DEF Good, e
    <2> QED
      BY <2>1
  <1>2. ASSUME NEW m \in Nat, m \in T PROVE m + 1 \in T
    <2> SUFFICES ASSUME m + 1 <= n PROVE \E f : Good(f, m + 1)
      <3> HIDE DEF Good
      <3> QED
        OBVIOUS
    <2>1. PICK f : Good(f, m)
      <3> HIDE DEF Good
      <3> QED
        BY <1>2
    <2> DEFINE top == h[m + 1][f[m]]
               g == [k \in 0 .. m + 1 |-> IF k = m + 1 THEN top ELSE f[k]]
    <2>2. top \in S
      <3>1. f[m] \in S /\ m + 1 \in 1 .. n
        BY <2>1
      <3> QED
        BY <3>1
    <2> HIDE DEF top
    <2>3. g \in [0 .. m + 1 -> S]
      BY <2>1, <2>2
    <2>4. ASSUME NEW k \in 0 .. m + 1 PROVE g[k] = IF k = 0 THEN a ELSE h[k][g[k-1]]
      <3>1. CASE k = m + 1
        <4>1. g[k] = top /\ k # 0 /\ k - 1 = m /\ m \in 0 .. m + 1 /\ m # m + 1
          BY <3>1
        <4>2. g[k-1] = f[m]
          BY <4>1
        <4> QED
          BY <3>1, <4>1, <4>2 DEF top
      <3>2. CASE k # m + 1
        <4>1. k \in 0 .. m /\ g[k] = f[k]
          BY <3>2
        <4>2. CASE k = 0
          BY <2>1, <4>1, <4>2
        <4>3. CASE k # 0
          <5>1. k - 1 \in 0 .. m + 1 /\ k - 1 # m + 1
            BY <4>1, <4>3
          <5>2. g[k-1] = f[k-1]
            BY <5>1
          <5> QED
            BY <2>1, <4>1, <4>3, <5>2
        <4> QED
          BY <4>2, <4>3
      <3> QED
        BY <3>1, <3>2
    <2> QED
      BY <2>3, <2>4
  <1>3. Nat \subseteq T
    <2> HIDE DEF T
    <2> QED
      BY <1>1, <1>2, Induction
  <1>4. PICK f : Good(f, n)
    <2>1. n \in T /\ n <= n
      BY <1>3
    <2> HIDE DEF Good
    <2> QED
      BY <2>1
  <1>5. f \in [0 .. n -> S] /\ Recursion(f, a, n, h)
    BY <1>4 DEF Recursion
  <1> QED
    BY <1>5

(* f[k] are the ids that Named finds in the first k words.                   *)
IsNamed(f, ws) ==
  f = [k \in 0 .. Len(ws) |->
         IF k = 0 THEN << >>
         ELSE IF IsNumber(ws[k]) /\ Number[ws[k]] \in connected THEN Append(f[k-1], Number[ws[k]])
         ELSE f[k-1]]

(* f[k] are the ids that VnaList has after k words.                          *)
IsListed(f, ws) ==
  f = [k \in 0 .. Len(ws) |->
         IF k = 0 THEN << >>
         ELSE IF RoomInList(f[k-1]) /\ Here(ws, k) THEN Append(f[k-1], Atoi(ws[k]))
         ELSE f[k-1]]

LEMMA NamedFound ==
  ASSUME NEW ws \in Seq(Text)
  PROVE  \E f : IsNamed(f, ws) /\ Named(ws) = f[Len(ws)]
  <1> DEFINE S == Seq(Int)
             n == Len(ws)
             h == [k \in 1 .. n |-> [s \in S |->
                     IF IsNumber(ws[k]) /\ Number[ws[k]] \in connected
                     THEN Append(s, Number[ws[k]]) ELSE s]]
  <1>1. n \in Nat
    BY LenProperties
  <1>2. h \in [1 .. n -> [S -> S]]
    <2> SUFFICES ASSUME NEW s \in Seq(Int), NEW k \in 1 .. n,
                        IsNumber(ws[k])
                 PROVE  Append(s, Number[ws[k]]) \in Seq(Int)
      OBVIOUS
    <2>1. Number[ws[k]] \in Int
      BY LineAssumption DEF IsNumber
    <2> QED
      BY <2>1
  <1>3. << >> \in S
    OBVIOUS
  <1>4. PICK f \in [0 .. n -> S] : f = [k \in 0 .. n |-> IF k = 0 THEN << >> ELSE h[k][f[k-1]]]
    <2> DEFINE e == << >>
    <2>1. n \in Nat /\ e \in S /\ h \in [1 .. n -> [S -> S]]
      BY <1>1, <1>2, <1>3
    <2> HIDE DEF h, S, n, e
    <2>2. \E f \in [0 .. n -> S] : Recursion(f, e, n, h)
      BY <2>1, RecursionExists
    <2> QED
      BY <2>2 DEF e, Recursion
  <1>5. \A k \in 0 .. n : f[k] = IF k = 0 THEN << >> ELSE h[k][f[k-1]]
    BY <1>4
  <1>6. ASSUME NEW k \in 0 .. n, k # 0
        PROVE  f[k] = IF IsNumber(ws[k]) /\ Number[ws[k]] \in connected
                      THEN Append(f[k-1], Number[ws[k]]) ELSE f[k-1]
    <2>1. k \in 1 .. n /\ k - 1 \in 0 .. n
      BY <1>1, <1>6
    <2>2. f[k-1] \in S
      BY <2>1
    <2>3. f[k] = h[k][f[k-1]]
      BY <1>5, <1>6
    <2> DEFINE x == f[k-1]
    <2>4. x \in S /\ f[k] = h[k][x]
      BY <2>2, <2>3
    <2> HIDE DEF x, S, n
    <2> QED
      BY <2>1, <2>4 DEF x
  <1>7. IsNamed(f, ws)
    BY <1>4, <1>5, <1>6 DEF IsNamed
  <1>8. \E g : IsNamed(g, ws)
    BY <1>7
  <1> HIDE DEF S, n, h
  <1> QED
    BY <1>8 DEF Named, IsNamed

LEMMA ListFound ==
  ASSUME NEW ws \in Seq(Text), VnaList(ws) # << >>
  PROVE  \E f : IsListed(f, ws) /\ VnaList(ws) = f[Len(ws)]
  <1> DEFINE S == Seq(Int)
             n == Len(ws)
             h == [k \in 1 .. n |-> [s \in S |->
                     IF RoomInList(s) /\ Here(ws, k) THEN Append(s, Atoi(ws[k])) ELSE s]]
  <1>1. n \in Nat
    BY LenProperties
  <1>2. h \in [1 .. n -> [S -> S]]
    <2> SUFFICES ASSUME NEW s \in Seq(Int), NEW k \in 1 .. n, Here(ws, k)
                 PROVE  Append(s, Atoi(ws[k])) \in Seq(Int)
      OBVIOUS
    <2>1. Atoi(ws[k]) \in Int
      BY LineAssumption DEF Here, VnaId
    <2> QED
      BY <2>1
  <1>3. << >> \in S
    OBVIOUS
  <1>4. PICK f \in [0 .. n -> S] : f = [k \in 0 .. n |-> IF k = 0 THEN << >> ELSE h[k][f[k-1]]]
    <2> DEFINE e == << >>
    <2>1. n \in Nat /\ e \in S /\ h \in [1 .. n -> [S -> S]]
      BY <1>1, <1>2, <1>3
    <2> HIDE DEF h, S, n, e
    <2>2. \E f \in [0 .. n -> S] : Recursion(f, e, n, h)
      BY <2>1, RecursionExists
    <2> QED
      BY <2>2 DEF e, Recursion
  <1>5. \A k \in 0 .. n : f[k] = IF k = 0 THEN << >> ELSE h[k][f[k-1]]
    BY <1>4
  <1>6. ASSUME NEW k \in 0 .. n, k # 0
        PROVE  f[k] = IF RoomInList(f[k-1]) /\ Here(ws, k)
                      THEN Append(f[k-1], Atoi(ws[k])) ELSE f[k-1]
    <2>1. k \in 1 .. n /\ k - 1 \in 0 .. n
      BY <1>1, <1>6
    <2>2. f[k-1] \in S
      BY <2>1
    <2>3. f[k] = h[k][f[k-1]]
      BY <1>5, <1>6
    <2> DEFINE x == f[k-1]
    <2>4. x \in S /\ f[k] = h[k][x]
      BY <2>2, <2>3
    <2> HIDE DEF x, S, n
    <2> QED
      BY <2>1, <2>4 DEF x
  <1>7. IsListed(f, ws)
    BY <1>4, <1>5, <1>6 DEF IsListed
  <1>8. \E g : IsListed(g, ws)
    BY <1>7
  <1> HIDE DEF S, n, h
  <1> QED
    BY <1>8 DEF VnaList, IsListed

(* The first ids of a list that grows.                                       *)
LEMMA AtMostGrows ==
  ASSUME NEW s \in Seq(Int), NEW x \in Int, NEW a, a = AtMost(MaxVnas, s)
  PROVE  /\ a \in Seq(Int)
         /\ RoomInList(a) => Append(a, x) = AtMost(MaxVnas, Append(s, x))
         /\ ~RoomInList(a) => a = AtMost(MaxVnas, Append(s, x))
  <1> DEFINE m == IF Len(s) < MaxVnas THEN Len(s) ELSE MaxVnas
             t == Append(s, x)
  <1>1. Len(s) \in Nat /\ MaxVnas \in Nat \ {0} /\ m \in Nat /\ m <= Len(s)
    BY LenProperties, LineAssumption
  <1>2. a = SubSeq(s, 1, m)
    BY DEF AtMost
  <1>3. t \in Seq(Int) /\ Len(t) = Len(s) + 1
    OBVIOUS
  <1>4. a \in Seq(Int) /\ Len(a) = m /\ a = SubSeq(t, 1, m)
    <2> HIDE DEF m
    <2> QED
      BY <1>1, <1>2
  <1> HIDE DEF t
  <1>5. CASE Len(s) < MaxVnas
    <2>1. RoomInList(a) /\ m = Len(s)
      BY <1>1, <1>4, <1>5 DEF RoomInList
    <2>2. a = s
      BY <1>2, <2>1, SubSeqFull
    <2>3. Len(t) = IF Len(t) < MaxVnas THEN Len(t) ELSE MaxVnas
      BY <1>1, <1>3, <1>5
    <2>4. AtMost(MaxVnas, t) = SubSeq(t, 1, Len(t))
      BY <2>3 DEF AtMost
    <2> QED
      BY <1>3, <1>4, <2>1, <2>2, <2>4, SubSeqFull DEF t
  <1>6. CASE ~(Len(s) < MaxVnas)
    <2>1. ~RoomInList(a) /\ m = MaxVnas /\ ~(Len(t) < MaxVnas)
      BY <1>1, <1>3, <1>4, <1>6 DEF RoomInList
    <2> QED
      BY <1>4, <2>1 DEF AtMost, t
  <1> QED
    BY <1>5, <1>6

(* Where no number is too large, the list has the first of the ids named.    *)
LEMMA ListIsNamed ==
  ASSUME NEW ws \in Seq(Text), connected \subseteq 0 .. MaxVnas-1, VnaList(ws) # << >>,
         \A k \in 1 .. Len(ws) : IsNumber(ws[k]) => Number[ws[k]] = Atoi(ws[k])
  PROVE  VnaList(ws) = AtMost(MaxVnas, Named(ws))
  <1> DEFINE n == Len(ws)
  <1>1. n \in Nat /\ MaxVnas \in Nat \ {0}
    BY LenProperties, LineAssumption
  <1>2. PICK f : IsListed(f, ws) /\ VnaList(ws) = f[n]
    BY ListFound
  <1>3. PICK g : IsNamed(g, ws) /\ Named(ws) = g[n]
    BY NamedFound
  <1> DEFINE Same(k) == g[k] \in Seq(Int) /\ f[k] = AtMost(MaxVnas, g[k])
             T == {k \in Nat : k <= n => Same(k)}
  <1>4. 0 \in T
    <2>1. f[0] = << >> /\ g[0] = << >>
      BY <1>1, <1>2, <1>3 DEF IsListed, IsNamed
    <2>2. AtMost(MaxVnas, << >>) = << >>
      <3>1. Len(<< >>) = 0 /\ 0 < MaxVnas
        BY <1>1
      <3>2. AtMost(MaxVnas, << >>) = SubSeq(<< >>, 1, 0)
        BY <3>1 DEF AtMost
      <3> QED
        BY <3>2, SubSeqEmpty
    <2>3. << >> \in Seq(Int)
      OBVIOUS
    <2>4. Same(0)
      BY <2>1, <2>2, <2>3
    <2> HIDE DEF Same
    <2> QED
      BY <2>4
  <1>5. ASSUME NEW k \in Nat, k \in T PROVE k + 1 \in T
    <2> SUFFICES ASSUME k + 1 <= n PROVE Same(k + 1)
      <3> HIDE DEF Same
      <3> QED
        OBVIOUS
    <2>1. Same(k)
      <3> HIDE DEF Same
      <3> QED
        BY <1>1, <1>5
    <2>2. k + 1 \in 0 .. n /\ k + 1 # 0 /\ (k + 1) - 1 = k /\ k + 1 \in 1 .. n
      BY <1>1
    <2> DEFINE w == ws[k + 1]  a == f[k]  s == g[k]  num == Number[w]
    <2>3. f[k + 1] = IF RoomInList(a) /\ Here(ws, k + 1) THEN Append(a, Atoi(w)) ELSE a
      BY <1>2, <2>2 DEF IsListed
    <2>4. g[k + 1] = IF IsNumber(w) /\ num \in connected THEN Append(s, num) ELSE s
      BY <1>3, <2>2 DEF IsNamed
    <2>5. s \in Seq(Int) /\ a = AtMost(MaxVnas, s)
      BY <2>1
    <2>6. IsNumber(w) => num = Atoi(w)
      BY <2>2
    <2>7. Here(ws, k + 1) <=> IsNumber(w) /\ num \in connected
      BY <2>6 DEF Here, VnaId
    <2>8. IsNumber(w) => num \in Int
      BY LineAssumption DEF IsNumber
    <2> HIDE DEF w, a, s, num
    <2>9. CASE Here(ws, k + 1)
      <3>1. num \in Int /\ num = Atoi(w) /\ g[k + 1] = Append(s, num)
        BY <2>4, <2>6, <2>7, <2>8, <2>9
      <3>2. f[k + 1] = IF RoomInList(a) THEN Append(a, num) ELSE a
        BY <2>3, <2>9, <3>1
      <3>3. f[k + 1] = AtMost(MaxVnas, Append(s, num))
        BY <2>5, <3>1, <3>2, AtMostGrows
      <3>4. Append(s, num) \in Seq(Int)
        BY <2>5, <3>1
      <3> QED
        BY <3>1, <3>3, <3>4
    <2>10. CASE ~Here(ws, k + 1)
      BY <2>3, <2>4, <2>5, <2>7, <2>10
    <2> QED
      BY <2>9, <2>10
  <1>6. Nat \subseteq T
    <2> HIDE DEF T
    <2> QED
      BY <1>4, <1>5, Induction
  <1>7. Same(n)
    <2>1. n \in T /\ n <= n
      BY <1>1, <1>6
    <2> HIDE DEF Same
    <2> QED
      BY <2>1
  <1> QED
    BY <1>2, <1>3, <1>7

(* What the command just done has started and stopped.                       *)
AskedInv ==
  /\ connected \subseteq 0 .. MaxVnas-1
  /\ last.words \in Seq(Text)
  /\ last.started # << >> /\ IdWords(last.words) # << >> =>
       last.started = VnaList(IdWords(last.words))
  /\ Word(last.words, 3) # "" =>
       \A i \in last.stopped : IsNumber(last.words[3]) /\ Atoi(last.words[3]) = i

LEMMA Done ==
  ASSUME AskedInv, NEW c \in Seq(Text), Execute(c)
  PROVE  AskedInv'
  <1>1. Scan(c) \/ SweepStop(c) \/ Set(c) \/ VnaCommand(c) \/ Informs(c)
    BY DEF Execute
  <1>2. CASE Scan(c)
    <2> DEFINE ws == SubSeq(c, 3, Len(c))
    <2>1. Start(c, ws) /\ connected' = connected
      BY <1>2 DEF Scan
    <2>2. /\ last'.words = c /\ last'.stopped = {}
          /\ last'.started # << >> => last'.started = VnasFor(ws)
      BY <2>1 DEF Start, Nothing
    <2>3. IdWords(last'.words) = ws
      BY <2>2 DEF IdWords
    <2> HIDE DEF ws
    <2>4. ws # << >> => VnasFor(ws) = VnaList(ws)
      BY DEF VnasFor
    <2>5. VnaList(ws)' = VnaList(ws')
      BY <2>1 DEF VnaList, Here, VnaId
    <2>6. ws' = ws
      BY DEF ws
    <2> QED
      BY <2>1, <2>2, <2>3, <2>4, <2>5, <2>6 DEF AskedInv
  <1>3. CASE SweepStop(c)
    <2>1. /\ last'.words = c /\ last'.started = << >> /\ last'.stopped = Stopped(c)
          /\ connected' = connected
      BY <1>3 DEF SweepStop, Nothing
    <2>2. Word(c, 3) # "" => \A i \in Stopped(c) : IsNumber(c[3]) /\ Atoi(c[3]) = i
      BY DEF Stopped
    <2> QED
      BY <2>1, <2>2 DEF AskedInv
  <1>4. CASE Set(c) \/ VnaCommand(c) \/ Informs(c)
    <2>1. last'.words = c /\ last'.started = << >> /\ last'.stopped = {}
      BY <1>4 DEF Set, VnaCommand, Informs, Nothing
    <2>2. connected' \subseteq 0 .. MaxVnas-1
      BY <1>4 DEF Set, VnaCommand, Informs, stateVars, AskedInv
    <2> QED
      BY <2>1, <2>2 DEF AskedInv
  <1> QED
    BY <1>1, <1>2, <1>3, <1>4

LEMMA AskedNext ==
  ASSUME LineInv, AskedInv, [ReadCommand]_vars PROVE AskedInv'
  <1>1. CASE UNCHANGED vars
    <2>1. UNCHANGED <<last, connected>>
      BY <1>1 DEF vars, stateVars, lineVars
    <2>2. VnaList(IdWords(last.words))' = VnaList(IdWords(last.words))
      BY <2>1 DEF VnaList, Here, VnaId, IdWords
    <2> QED
      BY <2>1, <2>2 DEF AskedInv
  <1>2. CASE ReadCommand /\ input = << >> /\ ~cut
    <2>1. ~ended /\ ReadNothing
      BY <1>2 DEF ReadCommand
    <2>2. PICK c \in Remains : buff' = c /\ Execute(c)
      BY <2>1 DEF ReadNothing
    <2>3. c \in Seq(Text)
      BY <2>1, <2>2, NothingRead
    <2> QED
      BY <2>2, <2>3, Done
  <1>3. CASE ReadCommand /\ ~(input = << >> /\ ~cut)
    <2>1. ReadLine
      BY <1>3 DEF ReadCommand
    <2>2. PICK c, r, d : LineTaken(c, r, d)
      BY <1>3, <2>1, LineRead DEF LineInv
    <2> QED
      BY <2>2, Done DEF LineTaken, Reads
  <1> QED
    BY <1>1, <1>2, <1>3

(* A scan uses the connected VNAs its line names, in their order, as many as *)
(* get_vna_list_from_args has room for; sweep stop with an id stops that     *)
(* scan only.                                                                *)
THEOREM IdsAlwaysAsked == Spec => []AskedIds
  <1>1. Init => AskedInv
    <2> SUFFICES ASSUME Init PROVE AskedInv
      OBVIOUS
    <2>1. last.words = << >> /\ last.started = << >> /\ last.stopped = {}
          /\ connected \subseteq 0 .. MaxVnas-1
      BY DEF Init, Nothing
    <2> QED
      BY <2>1 DEF AskedInv
  <1>2. AskedInv => AskedIds
    <2> SUFFICES ASSUME AskedInv, NEW k \in DOMAIN script, script[k] = last.words,
                        \A w \in Range(script[k]) \cap DOMAIN Number : Number[w] = Atoi(w)
                 PROVE  /\ last.started # << >> /\ IdWords(last.words) # << >> =>
                             last.started = AtMost(MaxVnas, Named(IdWords(last.words)))
                        /\ last.stopped # {} /\ Word(last.words, 3) # "" =>
                             last.stopped = {Number[Word(last.words, 3)]}
      BY DEF AskedIds
    <2> DEFINE c == last.words
    <2>1. c \in Seq(Text) /\ Len(c) \in Nat
      BY LenProperties DEF AskedInv
    <2>2. \A i \in 1 .. Len(c) : c[i] \in Range(c)
      BY <2>1 DEF Range
    <2>3. \A i \in 1 .. Len(c) : IsNumber(c[i]) => Number[c[i]] = Atoi(c[i])
      BY <2>2 DEF IsNumber
    <2>4. ASSUME last.started # << >>, IdWords(c) # << >>
          PROVE  last.started = AtMost(MaxVnas, Named(IdWords(c)))
      <3> DEFINE ws == IdWords(c)
      <3>1. last.started = VnaList(ws)
        BY <2>4 DEF AskedInv
      <3>2. ws \in Seq(Text) /\ Len(ws) \in Nat
            /\ \A i \in 1 .. Len(ws) : i + 2 \in 1 .. Len(c) /\ ws[i] = c[i + 2]
        <4> HIDE DEF c
        <4> QED
          BY <2>1 DEF IdWords
      <3>3. \A i \in 1 .. Len(ws) : IsNumber(ws[i]) => Number[ws[i]] = Atoi(ws[i])
        BY <2>3, <3>2
      <3>4. connected \subseteq 0 .. MaxVnas-1 /\ VnaList(ws) # << >>
        BY <2>4, <3>1 DEF AskedInv
      <3> HIDE DEF ws
      <3>5. VnaList(ws) = AtMost(MaxVnas, Named(ws))
        BY <3>2, <3>3, <3>4, ListIsNamed
      <3> QED
        BY <3>1, <3>5 DEF ws
    <2>5. ASSUME last.stopped # {}, Word(c, 3) # ""
          PROVE  last.stopped = {Number[Word(c, 3)]}
      <3>1. 3 \in DOMAIN c /\ Word(c, 3) = c[3]
        BY <2>5 DEF Word
      <3>2. 3 \in 1 .. Len(c)
        BY <2>1, <3>1, LenProperties
      <3>3. \A i \in last.stopped : IsNumber(c[3]) /\ Atoi(c[3]) = i
        BY <2>5 DEF AskedInv
      <3>4. \A i \in last.stopped : i = Number[c[3]]
        BY <2>3, <3>2, <3>3
      <3> QED
        BY <2>5, <3>1, <3>4
    <2> QED
      BY <2>4, <2>5
  <1> QED
    BY <1>1, <1>2, LineInit, LineNext, AskedNext, PTL DEF Spec
==============================================================================
