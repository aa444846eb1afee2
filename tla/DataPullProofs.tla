---------------------------- MODULE DataPullProofs ----------------------------
(***************************************************************************)
(* What a pull takes from the serial line, for every number and size of    *)
(* points, every echo and prompt of the VNA and every bound of the search. *)
(***************************************************************************)
EXTENDS DataPull, SequenceTheorems, TLAPS

------------------------------------------------------------------------------
(* The bytes of an answer, numbered from the first of its header on. *)

BodyLen == PointSize * Points
Last == BodyLen + 4
TextByte == Byte("text", 0, 0)
Item(c, n) == IF n <= 4 THEN Byte("header", c, n) ELSE Byte("data", c, n - 4)

AllText(s) == \A k \in 1 .. Len(s) : s[k] = TextByte

(* Wherever a byte of an answer is in s, the rest of the answer follows.     *)
Whole(s) ==
  \A k \in 1 .. Len(s), n \in 1 .. Last, c \in Nat :
    s[k] = Item(c, n) =>
      \A m \in n .. Last : k + m - n <= Len(s) /\ s[k + m - n] = Item(c, m)

(* The answer to c comes behind the first h bytes of s (a part of it has     *)
(* been taken already if h is negative), and there is nothing else in s.     *)
Placed(s, c, h) ==
  /\ h + Last <= Len(s)
  /\ \A k \in 1 .. Len(s) :
       s[k] = IF k - h \in 1 .. Last THEN Item(c, k - h) ELSE TextByte

(* What has not been read yet.                                               *)
Stream == wire \o sending

(* Data that begins like the points of an answer, and bytes that go on with  *)
(* them when l bytes are there.                                              *)
Begins(d, c) == \A k \in 1 .. Len(d) : d[k] = Item(c, 4 + k)
Continues(s, c, l) ==
  \A m \in l+1 .. BodyLen : m - l <= Len(s) /\ s[m - l] = Item(c, 4 + m)

------------------------------------------------------------------------------
(* The inductive invariant. *)

(* What a reader has read is a piece of one answer, whatever failed before.  *)
PieceOfAnswer(r) ==
  /\ Whole(Stream)
  /\ pc[r] \in {"search", "remainder"} => Whole(chunk[r] \o Stream)
  /\ pc[r] = "remainder" => \E c \in 1 .. sent : chunk[r][used[r]] = Item(c, 4)
  /\ pc[r] = "points" =>
       \E c \in 1 .. sent : Begins(data[r], c) /\ Continues(Stream, c, Len(data[r]))
  /\ pc[r] = "done" => \E c \in 1 .. sent : data[r] = Body(c)

(* The answer to c is to come, or it is in s.                                *)
Expected(s, c, h) ==
  \/ pending = <<c>> /\ AllText(s) /\ h = Len(s) + device.echo
  \/ pending = <<>> /\ Placed(s, c, h)

(* Until a pull fails, the only answer on the line is the reader's own, and  *)
(* it is where the search expects it.                                        *)
Skipped(r) == count[r] - 4
OwnAnswer(r) ==
  /\ pc[r] \in {"idle", "done"} => pending = <<>> /\ AllText(Stream)
  /\ pc[r] = "first" => Expected(Stream, command[r], ahead)
  /\ pc[r] \in {"search", "remainder"} =>
       Expected(chunk[r] \o Stream, command[r], ahead - Skipped(r))
  /\ pc[r] = "points" =>
       /\ pending = <<>> /\ Len(data[r]) >= 1 /\ Begins(data[r], command[r])
       /\ \A k \in 1 .. Len(Stream) : k > BodyLen - Len(data[r]) => Stream[k] = TextByte
  /\ pc[r] = "done" => data[r] = Body(command[r])

(* The search has not passed the end of the header, and what it has seen of  *)
(* the header is in the window.                                              *)
HeaderAt(r) == ahead - Skipped(r) - PointSize
SearchInStep(r) ==
  pc[r] = "search" =>
    /\ ahead # 0
    /\ ahead >= PointSize =>
         /\ HeaderAt(r) > -4
         /\ \A j \in 1 .. 4 : j - 4 - HeaderAt(r) \in 1 .. 4 =>
              window[r][j] = Item(command[r], j - 4 - HeaderAt(r))

PullInv(r) ==
  /\ TypeOK
  /\ PieceOfAnswer(r)
  /\ ~late => OwnAnswer(r) /\ SearchInStep(r)

------------------------------------------------------------------------------
(* Sizes *)

LEMMA Sizes ==
  /\ PointSize \in Nat /\ PointSize >= 4
  /\ BodyLen \in Nat /\ BodyLen >= PointSize /\ Last \in Nat /\ Last = BodyLen + 4
  <1>1. PointSize \in Nat /\ Points \in Nat \ {0} /\ PointSize >= 4
    BY PullAssumption
  <1>2. \A a, b \in Nat : b >= 1 => a * b \in Nat /\ a * b >= a
    OBVIOUS
  <1>3. BodyLen \in Nat /\ BodyLen >= PointSize
    BY <1>1, <1>2 DEF BodyLen
  <1> QED
    BY <1>1, <1>3 DEF Last

LEMMA WholePointsGrow ==
  ASSUME NEW l \in WholePoints
  PROVE  /\ l \in 0 .. BodyLen
         /\ l < BodyLen => l + PointSize \in WholePoints
  <1>1. PICK n \in 0 .. Points : l = PointSize * n
    BY DEF WholePoints
  <1>2. PointSize \in Nat \ {0} /\ Points \in Nat
    BY PullAssumption
  <1>3. \A a, b, c \in Nat : b <= c => a * b <= a * c
    OBVIOUS
  <1>4. l \in 0 .. BodyLen
    BY <1>1, <1>2, <1>3 DEF BodyLen
  <1>5. ASSUME l < BodyLen PROVE l + PointSize \in WholePoints
    <2>1. n # Points
      BY <1>1, <1>5 DEF BodyLen
    <2>2. n + 1 \in 0 .. Points /\ PointSize * (n + 1) = l + PointSize
      BY <1>1, <1>2, <2>1
    <2> QED
      BY <2>2 DEF WholePoints
  <1> QED
    BY <1>4, <1>5

LEMMA SmallestPoint == 0 \in WholePoints /\ PointSize \in WholePoints
  <1>1. PointSize \in Nat /\ Points \in Nat \ {0}
    BY PullAssumption
  <1>2. 0 = PointSize * 0 /\ PointSize = PointSize * 1 /\ 0 \in 0 .. Points /\ 1 \in 0 .. Points
    BY <1>1
  <1> QED
    BY <1>2 DEF WholePoints

------------------------------------------------------------------------------
(* Bytes *)

LEMMA ItemsDiffer ==
  ASSUME NEW c, NEW d, NEW n \in Nat, NEW m \in Nat
  PROVE  /\ Item(c, n) # TextByte
         /\ Item(c, n) = Item(d, m) => c = d /\ n = m
  <1>1. Item(c, n).kind # "text"
    BY DEF Item, Byte
  <1>2. TextByte.kind = "text"
    BY DEF TextByte, Byte
  <1>3. ASSUME Item(c, n) = Item(d, m) PROVE c = d /\ n = m
    <2>1. Item(c, n).of = c /\ Item(d, m).of = d
      BY DEF Item, Byte
    <2>2. CASE n <= 4
      <3>1. Item(c, n).kind = "header" /\ Item(c, n).pos = n
        BY <2>2 DEF Item, Byte
      <3>2. m <= 4
        BY <1>3, <3>1 DEF Item, Byte
      <3>3. Item(d, m).pos = m
        BY <3>2 DEF Item, Byte
      <3> QED
        BY <1>3, <2>1, <3>1, <3>3
    <2>3. CASE ~(n <= 4)
      <3>1. Item(c, n).kind = "data" /\ Item(c, n).pos = n - 4
        BY <2>3 DEF Item, Byte
      <3>2. ~(m <= 4)
        BY <1>3, <3>1 DEF Item, Byte
      <3>3. Item(d, m).pos = m - 4
        BY <3>2 DEF Item, Byte
      <3> QED
        BY <1>3, <2>1, <3>1, <3>3
    <2> QED
      BY <2>2, <2>3
  <1> QED
    BY <1>1, <1>2, <1>3

LEMMA ItemsAreBytes ==
  ASSUME TypeOK
  PROVE  /\ TextByte \in Bytes
         /\ \A c \in 1 .. sent, n \in 1 .. Last : Item(c, n) \in Bytes
  <1>1. ASSUME NEW c \in 1 .. sent, NEW n \in 1 .. Last PROVE Item(c, n) \in Bytes
    <2>1. CASE n <= 4
      BY <2>1 DEF Item, Bytes
    <2>2. CASE ~(n <= 4)
      <3>1. n - 4 \in 1 .. PointSize * Points
        BY <2>2, Sizes DEF BodyLen
      <3> QED
        BY <2>2, <3>1 DEF Item, Bytes
    <2> QED
      BY <2>1, <2>2
  <1> QED
    BY <1>1 DEF Bytes, TextByte

(* A byte that is taken for the end of a header is one.                      *)
LEMMA HeaderEnd ==
  ASSUME TypeOK, NEW b \in Bytes, b.kind = "header", b.pos = 4
  PROVE  \E c \in 1 .. sent : b = Item(c, 4)
  <1>1. b # Byte("text", 0, 0) /\ \A c, k : b # Byte("data", c, k)
    BY DEF Byte
  <1>2. PICK c \in 1 .. sent, k \in 1 .. 4 : b = Byte("header", c, k)
    BY <1>1 DEF Bytes
  <1>3. k = 4
    BY <1>2 DEF Byte
  <1> QED
    BY <1>2, <1>3 DEF Item

LEMMA TextIs ==
  ASSUME NEW n \in Nat
  PROVE  Len(Text(n)) = n /\ AllText(Text(n)) /\ DOMAIN Text(n) = 1 .. n
  BY DEF Text, AllText, TextByte

LEMMA BodyIs ==
  ASSUME NEW c
  PROVE  Len(Body(c)) = BodyLen /\ Begins(Body(c), c) /\ Body(c) = [k \in 1 .. BodyLen |-> Item(c, 4 + k)]
  <1>1. Len(Body(c)) = BodyLen
    BY Sizes DEF Body, BodyLen
  <1>2. \A k \in 1 .. BodyLen : Body(c)[k] = Item(c, 4 + k)
    BY Sizes DEF Body, Item, BodyLen
  <1>3. Body(c) = [k \in 1 .. BodyLen |-> Item(c, 4 + k)]
    BY <1>2 DEF Body, BodyLen
  <1> QED
    BY <1>1, <1>2, <1>3 DEF Begins
------------------------------------------------------------------------------
(* Sequences *)

LEMMA FunctionIsSeq ==
  ASSUME NEW S, NEW n \in Nat, NEW f \in [1 .. n -> S]
  PROVE  f \in Seq(S) /\ Len(f) = n
  <1>1. f \in Seq(S)
    BY SeqDef
  <1>2. DOMAIN f = 1 .. n /\ DOMAIN f = 1 .. Len(f) /\ Len(f) \in Nat
    BY <1>1, LenProperties
  <1> QED
    BY <1>1, <1>2

LEMMA Joined ==
  ASSUME NEW S, NEW s \in Seq(S), NEW t \in Seq(S), NEW m, NEW n, Len(s) = m, Len(t) = n
  PROVE  /\ m \in Nat /\ n \in Nat
         /\ s \o t \in Seq(S) /\ Len(s \o t) = m + n
         /\ \A k \in 1 .. m : (s \o t)[k] = s[k]
         /\ \A k \in m+1 .. m+n : (s \o t)[k] = t[k - m]
  <1>1. Len(s) \in Nat /\ Len(t) \in Nat
    BY LenProperties
  <1>2. /\ s \o t \in Seq(S) /\ Len(s \o t) = Len(s) + Len(t)
        /\ \A k \in 1 .. Len(s) + Len(t) :
             (s \o t)[k] = IF k <= Len(s) THEN s[k] ELSE t[k - Len(s)]
    BY ConcatProperties
  <1> QED
    BY <1>1, <1>2

(* The first n elements of w, and the others with t behind them.             *)
LEMMA TakenAndRest ==
  ASSUME NEW S, NEW w \in Seq(S), NEW t \in Seq(S), NEW n \in 0 .. Len(w)
  PROVE  LET first == SubSeq(w, 1, n)
             rest == SubSeq(w, n + 1, Len(w))
         IN  /\ first \in Seq(S) /\ Len(first) = n
             /\ \A k \in 1 .. n : first[k] = (w \o t)[k]
             /\ rest \in Seq(S) /\ Len(rest) = Len(w) - n
             /\ rest \o t \in Seq(S) /\ Len(rest \o t) = Len(w \o t) - n
             /\ \A k \in 1 .. Len(w \o t) - n : (rest \o t)[k] = (w \o t)[n + k]
             /\ first \o (rest \o t) = w \o t
  <1> DEFINE first == SubSeq(w, 1, n)
             rest == SubSeq(w, n + 1, Len(w))
  <1>1. Len(w) \in Nat /\ Len(t) \in Nat /\ n \in Nat /\ n <= Len(w)
    BY LenProperties
  <1>2. \A k \in 1 .. Len(w) : w[k] \in S
    BY ElementOfSeq
  <1>3. /\ first \in Seq(S) /\ Len(first) = n
        /\ \A k \in 1 .. n : first[k] = w[k]
    <2>1. \A k \in 1 .. n : w[k] \in S
      BY <1>1, <1>2
    <2> QED
      BY <1>1, <2>1, SubSeqProperties
  <1>4. /\ rest \in Seq(S) /\ Len(rest) = Len(w) - n
        /\ \A k \in 1 .. Len(w) - n : rest[k] = w[n + k]
    <2>1. \A k \in n+1 .. Len(w) : w[k] \in S
      BY <1>1, <1>2
    <2>2. n + 1 \in Int /\ Len(w) \in Int
      BY <1>1
    <2>3. /\ rest \in Seq(S)
          /\ Len(rest) = IF n + 1 <= Len(w) THEN Len(w) - (n + 1) + 1 ELSE 0
          /\ \A k \in 1 .. Len(w) - (n + 1) + 1 : rest[k] = w[n + 1 + k - 1]
      BY <2>1, <2>2, SubSeqProperties
    <2> QED
      BY <1>1, <2>3
  <1>5. /\ w \o t \in Seq(S) /\ Len(w \o t) = Len(w) + Len(t)
        /\ \A k \in 1 .. Len(w) : (w \o t)[k] = w[k]
        /\ \A k \in Len(w)+1 .. Len(w)+Len(t) : (w \o t)[k] = t[k - Len(w)]
    BY Joined
  <1>6. /\ rest \o t \in Seq(S) /\ Len(rest \o t) = Len(rest) + Len(t)
        /\ \A k \in 1 .. Len(rest) : (rest \o t)[k] = rest[k]
        /\ \A k \in Len(rest)+1 .. Len(rest)+Len(t) : (rest \o t)[k] = t[k - Len(rest)]
    BY <1>4, Joined
  <1> HIDE DEF first, rest
  <1>7. \A k \in 1 .. n : first[k] = (w \o t)[k]
    BY <1>1, <1>3, <1>5
  <1>8. \A k \in 1 .. Len(w \o t) - n : (rest \o t)[k] = (w \o t)[n + k]
    <2> SUFFICES ASSUME NEW k \in 1 .. Len(w \o t) - n
                 PROVE  (rest \o t)[k] = (w \o t)[n + k]
      OBVIOUS
    <2>0. k \in 1 .. Len(w) + Len(t) - n
      BY <1>5
    <2>1. CASE k <= Len(w) - n
      BY <1>1, <1>4, <1>5, <1>6, <2>0, <2>1
    <2>2. CASE ~(k <= Len(w) - n)
      <3>1. (rest \o t)[k] = t[k - (Len(w) - n)]
        BY <1>1, <1>4, <1>6, <2>0, <2>2
      <3>2. (w \o t)[n + k] = t[n + k - Len(w)]
        BY <1>1, <1>5, <2>0, <2>2
      <3>3. k - (Len(w) - n) = n + k - Len(w)
        BY <1>1
      <3> QED
        BY <3>1, <3>2, <3>3
    <2> QED
      BY <2>1, <2>2
  <1>9. first \o (rest \o t) = w \o t
    <2>1. /\ first \o (rest \o t) \in Seq(S)
          /\ Len(first \o (rest \o t)) = n + Len(rest \o t)
          /\ \A k \in 1 .. n : (first \o (rest \o t))[k] = first[k]
          /\ \A k \in n+1 .. n + Len(rest \o t) :
               (first \o (rest \o t))[k] = (rest \o t)[k - n]
      <3> DEFINE u == rest \o t
      <3>1. u \in Seq(S) /\ first \in Seq(S)
        BY <1>3, <1>6
      <3> HIDE DEF u
      <3>2. /\ first \o u \in Seq(S) /\ Len(first \o u) = Len(first) + Len(u)
            /\ \A k \in 1 .. Len(first) : (first \o u)[k] = first[k]
            /\ \A k \in Len(first)+1 .. Len(first) + Len(u) :
                 (first \o u)[k] = u[k - Len(first)]
        BY <3>1, Joined
      <3>3. /\ first \o u \in Seq(S) /\ Len(first \o u) = n + Len(u)
            /\ \A k \in 1 .. n : (first \o u)[k] = first[k]
            /\ \A k \in n+1 .. n + Len(u) : (first \o u)[k] = u[k - n]
        BY <1>3, <3>2
      <3> QED
        BY <3>3 DEF u
    <2>2. Len(rest \o t) = Len(w \o t) - n /\ Len(w \o t) \in Nat
      BY <1>1, <1>4, <1>5, <1>6
    <2>3. Len(first \o (rest \o t)) = Len(w \o t)
      BY <1>1, <2>1, <2>2
    <2>4. ASSUME NEW k \in 1 .. Len(w \o t) PROVE (first \o (rest \o t))[k] = (w \o t)[k]
      <3>1. CASE k <= n
        BY <1>1, <1>7, <2>1, <2>2, <3>1
      <3>2. CASE ~(k <= n)
        <4>1. k - n \in 1 .. Len(w \o t) - n /\ n + (k - n) = k
          BY <1>1, <2>2, <3>2
        <4> QED
          <5>1. (first \o (rest \o t))[k] = (rest \o t)[k - n]
            BY <1>1, <2>1, <2>2, <3>2
          <5> QED
            BY <1>8, <4>1, <5>1
      <3> QED
        BY <3>1, <3>2
    <2> QED
      BY <1>5, <2>1, <2>3, <2>4, SeqEqual
  <1>10. Len(rest \o t) = Len(w \o t) - n
    BY <1>1, <1>4, <1>5, <1>6
  <1> QED
    BY <1>3, <1>4, <1>6, <1>7, <1>8, <1>9, <1>10 DEF first, rest

(* A byte that moves from t to the end of w.                                 *)
LEMMA MoveOne ==
  ASSUME NEW S, NEW w \in Seq(S), NEW t \in Seq(S), t # <<>>
  PROVE  Append(w, Head(t)) \o Tail(t) = w \o t
  <1>1. Head(t) = t[1] /\ Head(t) \in S /\ Tail(t) \in Seq(S) /\ Len(Tail(t)) = Len(t) - 1
    BY HeadTailProperties
  <1>2. \A k \in 1 .. Len(t) - 1 : Tail(t)[k] = t[k + 1]
    BY HeadTailProperties
  <1>3. Len(t) \in Nat \ {0} /\ Len(w) \in Nat
    BY EmptySeq, LenProperties
  <1> DEFINE a == Append(w, Head(t))
  <1>4. /\ a \in Seq(S) /\ Len(a) = Len(w) + 1 /\ a[Len(w) + 1] = t[1]
        /\ \A k \in 1 .. Len(w) : a[k] = w[k]
    BY <1>1, AppendProperties
  <1> HIDE DEF a
  <1>5. /\ a \o Tail(t) \in Seq(S) /\ Len(a \o Tail(t)) = Len(a) + Len(Tail(t))
        /\ \A k \in 1 .. Len(a) : (a \o Tail(t))[k] = a[k]
        /\ \A k \in Len(a)+1 .. Len(a)+Len(Tail(t)) : (a \o Tail(t))[k] = Tail(t)[k - Len(a)]
    BY <1>1, <1>4, Joined
  <1>6. /\ w \o t \in Seq(S) /\ Len(w \o t) = Len(w) + Len(t)
        /\ \A k \in 1 .. Len(w) : (w \o t)[k] = w[k]
        /\ \A k \in Len(w)+1 .. Len(w)+Len(t) : (w \o t)[k] = t[k - Len(w)]
    BY Joined
  <1>7. Len(a \o Tail(t)) = Len(w \o t)
    BY <1>1, <1>3, <1>4, <1>5, <1>6
  <1>8. ASSUME NEW k \in 1 .. Len(w \o t) PROVE (a \o Tail(t))[k] = (w \o t)[k]
    <2>1. CASE k <= Len(w)
      BY <1>1, <1>3, <1>4, <1>5, <1>6, <2>1
    <2>2. CASE k = Len(w) + 1
      BY <1>1, <1>3, <1>4, <1>5, <1>6, <2>2
    <2>3. CASE k > Len(w) + 1
      <3>1. k - Len(a) \in 1 .. Len(t) - 1 /\ k - Len(a) + 1 = k - Len(w)
        BY <1>3, <1>4, <1>6, <2>3
      <3>2. (a \o Tail(t))[k] = Tail(t)[k - Len(a)]
        BY <1>1, <1>3, <1>4, <1>5, <1>6, <2>3
      <3>3. Tail(t)[k - Len(a)] = t[k - Len(w)]
        BY <1>2, <3>1
      <3>4. (w \o t)[k] = t[k - Len(w)]
        BY <1>3, <1>6, <2>3
      <3> QED
        BY <3>2, <3>3, <3>4
    <2>4. k \in Int /\ Len(w) \in Int
      BY <1>3, <1>6
    <2>5. k <= Len(w) \/ k = Len(w) + 1 \/ k > Len(w) + 1
      BY <2>4
    <2> QED
      BY <2>1, <2>2, <2>3, <2>5, Zenon
  <1>9. a \o Tail(t) = w \o t
    BY <1>5, <1>6, <1>7, <1>8, SeqEqual
  <1> QED
    BY <1>9 DEF a

------------------------------------------------------------------------------
(* What an answer is, and what is left of it *)

LEMMA AnswerIs ==
  ASSUME TypeOK, NEW c \in 1 .. sent
  PROVE  /\ Answer(c) \in Seq(Bytes)
         /\ Placed(Answer(c), c, device.echo)
         /\ device.echo \in Nat
  <1>1. device.echo \in Nat /\ device.prompt \in Nat
    BY PullAssumption DEF TypeOK
  <1> DEFINE e == device.echo
  <1>2. Text(e) \in Seq(Bytes) /\ Len(Text(e)) = e
    <2>1. Text(e) \in [1 .. e -> Bytes]
      BY ItemsAreBytes DEF Text, TextByte
    <2> QED
      BY <1>1, <2>1, FunctionIsSeq
  <1>3. Text(device.prompt) \in Seq(Bytes) /\ Len(Text(device.prompt)) = device.prompt
    <2>1. Text(device.prompt) \in [1 .. device.prompt -> Bytes]
      BY ItemsAreBytes DEF Text, TextByte
    <2> QED
      BY <1>1, <2>1, FunctionIsSeq
  <1>4. /\ Header(c) \in Seq(Bytes) /\ Len(Header(c)) = 4
        /\ \A k \in 1 .. 4 : Header(c)[k] = Item(c, k)
    <2>1. Header(c) \in [1 .. 4 -> Bytes]
      BY DEF Header, Bytes
    <2> QED
      BY <2>1, FunctionIsSeq DEF Header, Item
  <1>5. /\ Body(c) \in Seq(Bytes) /\ Len(Body(c)) = BodyLen
        /\ \A k \in 1 .. BodyLen : Body(c)[k] = Item(c, 4 + k)
    <2>1. \A k \in 1 .. BodyLen : Item(c, 4 + k) \in Bytes
      BY Sizes, ItemsAreBytes
    <2>2. Body(c) \in [1 .. BodyLen -> Bytes]
      BY <2>1, BodyIs
    <2> QED
      BY <2>2, Sizes, FunctionIsSeq, BodyIs
  <1> DEFINE a == Text(e) \o Header(c)
             b == a \o Body(c)
             z == b \o Text(device.prompt)
  <1>6. /\ a \in Seq(Bytes) /\ Len(a) = e + 4
        /\ \A k \in 1 .. e : a[k] = Text(e)[k]
        /\ \A k \in e+1 .. e+4 : a[k] = Header(c)[k - e]
    <2>1. /\ a \in Seq(Bytes) /\ Len(a) = Len(Text(e)) + Len(Header(c))
          /\ \A k \in 1 .. Len(Text(e)) : a[k] = Text(e)[k]
          /\ \A k \in Len(Text(e))+1 .. Len(Text(e))+Len(Header(c)) :
               a[k] = Header(c)[k - Len(Text(e))]
      <3> DEFINE echo == Text(e)  header == Header(c)
      <3>1. echo \in Seq(Bytes) /\ header \in Seq(Bytes)
        BY <1>2, <1>4
      <3> HIDE DEF echo, header
      <3>2. /\ echo \o header \in Seq(Bytes)
            /\ Len(echo \o header) = Len(echo) + Len(header)
            /\ \A k \in 1 .. Len(echo) : (echo \o header)[k] = echo[k]
            /\ \A k \in Len(echo)+1 .. Len(echo)+Len(header) :
                 (echo \o header)[k] = header[k - Len(echo)]
        BY <3>1, Joined
      <3> QED
        BY <3>2 DEF echo, header
    <2> HIDE DEF a
    <2> QED
      BY <1>2, <1>4, <2>1
  <1> HIDE DEF a
  <1>7. /\ b \in Seq(Bytes) /\ Len(b) = e + 4 + BodyLen
        /\ \A k \in 1 .. e + 4 : b[k] = a[k]
        /\ \A k \in e+4+1 .. e+4+BodyLen : b[k] = Body(c)[k - (e + 4)]
    BY <1>5, <1>6, Joined
  <1> HIDE DEF b
  <1>8. /\ z \in Seq(Bytes) /\ Len(z) = e + 4 + BodyLen + device.prompt
        /\ \A k \in 1 .. e + 4 + BodyLen : z[k] = b[k]
        /\ \A k \in e+4+BodyLen+1 .. e+4+BodyLen+device.prompt :
             z[k] = Text(device.prompt)[k - (e + 4 + BodyLen)]
    BY <1>3, <1>7, Joined
  <1>9. Answer(c) = z
    BY DEF Answer, z, b, a
  <1> HIDE DEF z
  <1>10. ASSUME NEW k \in 1 .. Len(z)
         PROVE  z[k] = IF k - e \in 1 .. Last THEN Item(c, k - e) ELSE TextByte
    <2>1. CASE k <= e
      <3>1. z[k] = Text(e)[k]
        <4>1. k \in 1 .. e /\ k \in 1 .. e + 4 /\ k \in 1 .. e + 4 + BodyLen
          BY <1>1, <2>1, Sizes
        <4> QED
          BY <1>6, <1>7, <1>8, <4>1
      <3> QED
        BY <1>1, <2>1, <3>1, TextIs DEF AllText
    <2>2. CASE k > e /\ k <= e + 4
      <3>1. z[k] = Header(c)[k - e] /\ k - e \in 1 .. 4 /\ k - e \in 1 .. Last
        <4>1. k \in e+1 .. e+4 /\ k \in 1 .. e + 4 /\ k \in 1 .. e + 4 + BodyLen
          BY <1>1, <2>2, Sizes
        <4>2. k - e \in 1 .. 4 /\ k - e \in 1 .. Last
          BY <1>1, <2>2, Sizes
        <4> QED
          BY <1>6, <1>7, <1>8, <4>1, <4>2
      <3> QED
        BY <1>4, <3>1
    <2>3. CASE k > e + 4 /\ k <= e + 4 + BodyLen
      <3>1. z[k] = Body(c)[k - (e + 4)]
        <4>1. k \in e+4+1 .. e+4+BodyLen /\ k \in 1 .. e + 4 + BodyLen
          BY <1>1, <2>3, Sizes
        <4> QED
          BY <1>7, <1>8, <4>1
      <3>2. k - (e + 4) \in 1 .. BodyLen /\ 4 + (k - (e + 4)) = k - e /\ k - e \in 1 .. Last
        <4>1. k \in Int /\ e \in Int /\ BodyLen \in Int /\ Last = BodyLen + 4
          BY <1>1, <1>8, Sizes
        <4> QED
          BY ONLY <2>3, <4>1
      <3> QED
        BY <1>5, <3>1, <3>2
    <2>4. CASE k > e + 4 + BodyLen
      <3>1. /\ z[k] = Text(device.prompt)[k - (e + 4 + BodyLen)]
            /\ k - (e + 4 + BodyLen) \in 1 .. device.prompt
        <4>1. /\ k \in e+4+BodyLen+1 .. e+4+BodyLen+device.prompt
              /\ k - (e + 4 + BodyLen) \in 1 .. device.prompt
          <5>1. k \in 1 .. e + 4 + BodyLen + device.prompt
            BY <1>8
          <5> QED
            BY <1>1, <2>4, <5>1, Sizes
        <4> QED
          BY ONLY <1>8, <4>1
      <3>2. k - e \notin 1 .. Last
        BY <1>1, <2>4, Sizes
      <3> QED
        BY <1>1, <3>1, <3>2, TextIs DEF AllText
    <2> QED
      BY <1>1, <1>8, <2>1, <2>2, <2>3, <2>4, Sizes
  <1>11. e + Last <= Len(z)
    BY <1>1, <1>8, Sizes
  <1> QED
    BY <1>1, <1>8, <1>9, <1>10, <1>11 DEF Placed

(* u is what is left of s without its first n bytes.                         *)
Leaves(s, n, u) ==
  /\ n \in Nat /\ Len(s) \in Nat /\ Len(u) \in Nat /\ Len(u) = Len(s) - n
  /\ \A k \in 1 .. Len(s) - n : u[k] = s[n + k]

LEMMA RestOfText == ASSUME NEW s, NEW n, NEW u, Leaves(s, n, u), AllText(s) PROVE AllText(u)
  BY DEF Leaves, AllText

LEMMA RestOfPlaced ==
  ASSUME NEW s, NEW n, NEW u, Leaves(s, n, u), NEW c, NEW h \in Int, Placed(s, c, h)
  PROVE  Placed(u, c, h - n)
  <1>1. n \in Nat /\ Len(s) \in Nat /\ Len(u) \in Nat /\ Len(u) = Len(s) - n /\ Last \in Nat
    BY Sizes DEF Leaves
  <1>2. h - n + Last <= Len(u)
    BY <1>1 DEF Placed
  <1>3. ASSUME NEW k \in 1 .. Len(u)
        PROVE  u[k] = IF k - (h - n) \in 1 .. Last THEN Item(c, k - (h - n)) ELSE TextByte
    <2>1. n + k \in 1 .. Len(s) /\ n + k - h = k - (h - n) /\ u[k] = s[n + k]
      BY <1>1 DEF Leaves
    <2> DEFINE j == n + k
    <2>2. j \in 1 .. Len(s)
      BY <2>1
    <2> HIDE DEF j
    <2>3. s[j] = IF j - h \in 1 .. Last THEN Item(c, j - h) ELSE TextByte
      BY <2>2 DEF Placed
    <2>4. u[k] = s[j]
      BY ONLY <2>1 DEF j
    <2>5. j - h = k - (h - n)
      BY <1>1 DEF j
    <2> QED
      BY <2>3, <2>4, <2>5
  <1> QED
    BY <1>2, <1>3 DEF Placed

LEMMA RestOfWhole == ASSUME NEW s, NEW n, NEW u, Leaves(s, n, u), Whole(s) PROVE Whole(u)
  <1> SUFFICES ASSUME NEW k \in 1 .. Len(u), NEW i \in 1 .. Last, NEW c \in Nat,
                      u[k] = Item(c, i), NEW m \in i .. Last
               PROVE  k + m - i <= Len(u) /\ u[k + m - i] = Item(c, m)
    BY DEF Whole
  <1>1. n \in Nat /\ Len(s) \in Nat /\ Len(u) \in Nat /\ Len(u) = Len(s) - n /\ Last \in Nat
    BY Sizes DEF Leaves
  <1>2. n + k \in 1 .. Len(s) /\ s[n + k] = Item(c, i)
    BY <1>1 DEF Leaves
  <1>3. n + k + m - i <= Len(s) /\ s[n + k + m - i] = Item(c, m)
    BY <1>2 DEF Whole
  <1>4. k + m - i \in 1 .. Len(s) - n /\ n + (k + m - i) = n + k + m - i
    BY <1>1, <1>3
  <1> QED
    BY <1>1, <1>3, <1>4 DEF Leaves

LEMMA TextIsWhole == ASSUME NEW s, AllText(s) PROVE Whole(s)
  BY ItemsDiffer, Sizes DEF AllText, Whole

LEMMA PlacedIsWhole ==
  ASSUME NEW s, Len(s) \in Nat, NEW c, NEW h \in Int, Placed(s, c, h)
  PROVE  Whole(s)
  <1> SUFFICES ASSUME NEW k \in 1 .. Len(s), NEW i \in 1 .. Last, NEW d \in Nat,
                      s[k] = Item(d, i), NEW m \in i .. Last
               PROVE  k + m - i <= Len(s) /\ s[k + m - i] = Item(d, m)
    BY DEF Whole
  <1>1. Last \in Nat /\ i \in Nat /\ m \in Nat
    BY Sizes
  <1>2. k - h \in 1 .. Last /\ s[k] = Item(c, k - h)
    BY <1>1, ItemsDiffer DEF Placed
  <1>3. d = c /\ i = k - h
    <2> DEFINE j == k - h
    <2>1. j \in Nat /\ Item(d, i) = Item(c, j)
      BY <1>1, <1>2
    <2> HIDE DEF j
    <2>2. d = c /\ i = j
      BY <1>1, <2>1, ItemsDiffer
    <2> QED
      BY <2>2 DEF j
  <1>4. k + m - i \in 1 .. Len(s) /\ k + m - i - h = m /\ m \in 1 .. Last
    BY <1>1, <1>3 DEF Placed
  <1>5. s[k + m - i] = Item(c, m)
    <2> DEFINE j == k + m - i
    <2>1. j \in 1 .. Len(s) /\ j - h = m
      BY <1>4
    <2> HIDE DEF j
    <2>2. s[j] = Item(c, m)
      BY <1>4, <2>1 DEF Placed
    <2> QED
      BY <2>2 DEF j
  <1> QED
    BY <1>3, <1>4, <1>5

LEMMA JoinWhole ==
  ASSUME NEW S, NEW s \in Seq(S), NEW t \in Seq(S), Whole(s), Whole(t)
  PROVE  Whole(s \o t)
  <1> DEFINE st == s \o t
  <1> SUFFICES ASSUME NEW k \in 1 .. Len(st), NEW i \in 1 .. Last, NEW c \in Nat,
                      st[k] = Item(c, i), NEW m \in i .. Last
               PROVE  k + m - i <= Len(st) /\ st[k + m - i] = Item(c, m)
    BY DEF Whole
  <1>1. /\ Len(s) \in Nat /\ Len(t) \in Nat /\ Len(st) = Len(s) + Len(t)
        /\ \A j \in 1 .. Len(s) : st[j] = s[j]
        /\ \A j \in Len(s)+1 .. Len(s)+Len(t) : st[j] = t[j - Len(s)]
    BY Joined, LenProperties
  <1>2. Last \in Nat
    BY Sizes
  <1> HIDE DEF st
  <1>3. CASE k <= Len(s)
    <2>1. k \in 1 .. Len(s) /\ s[k] = Item(c, i)
      BY <1>1, <1>3
    <2>2. k + m - i <= Len(s) /\ s[k + m - i] = Item(c, m)
      BY <2>1 DEF Whole
    <2>3. k + m - i \in 1 .. Len(s)
      BY <1>1, <1>2, <2>2
    <2> QED
      BY <1>1, <2>2, <2>3
  <1>4. CASE k > Len(s)
    <2>1. k \in Len(s)+1 .. Len(s)+Len(t) /\ k - Len(s) \in 1 .. Len(t)
      BY <1>1, <1>4
    <2>2. t[k - Len(s)] = Item(c, i)
      BY <1>1, <2>1
    <2>3. /\ k - Len(s) + m - i <= Len(t)
          /\ t[k - Len(s) + m - i] = Item(c, m)
      BY <2>1, <2>2 DEF Whole
    <2>4. /\ k + m - i \in Len(s)+1 .. Len(s)+Len(t)
          /\ k + m - i - Len(s) = k - Len(s) + m - i
      BY <1>1, <1>2, <1>4, <2>3
    <2>5. st[k + m - i] = t[k + m - i - Len(s)]
      BY <1>1, <2>4
    <2> QED
      BY <1>1, <2>3, <2>4, <2>5
  <1> QED
    BY <1>1, <1>3, <1>4

LEMMA JoinPlaced ==
  ASSUME NEW S, NEW s \in Seq(S), NEW t \in Seq(S), AllText(s),
         NEW c, NEW h \in Nat, Placed(t, c, h)
  PROVE  Placed(s \o t, c, Len(s) + h)
  <1> DEFINE st == s \o t
  <1>1. /\ Len(s) \in Nat /\ Len(t) \in Nat /\ Len(st) = Len(s) + Len(t)
        /\ \A j \in 1 .. Len(s) : st[j] = s[j]
        /\ \A j \in Len(s)+1 .. Len(s)+Len(t) : st[j] = t[j - Len(s)]
    BY Joined, LenProperties
  <1>2. Last \in Nat
    BY Sizes
  <1> HIDE DEF st
  <1>3. Len(s) + h + Last <= Len(st)
    BY <1>1, <1>2 DEF Placed
  <1>4. ASSUME NEW k \in 1 .. Len(st)
        PROVE  st[k] = IF k - (Len(s) + h) \in 1 .. Last THEN Item(c, k - (Len(s) + h))
                       ELSE TextByte
    <2>1. CASE k <= Len(s)
      <3>1. k \in 1 .. Len(s) /\ k - (Len(s) + h) \notin 1 .. Last
        BY <1>1, <1>2, <2>1
      <3> QED
        BY <1>1, <3>1 DEF AllText
    <2>2. CASE k > Len(s)
      <3>1. /\ k \in Len(s)+1 .. Len(s)+Len(t) /\ k - Len(s) \in 1 .. Len(t)
            /\ k - Len(s) - h = k - (Len(s) + h)
        BY <1>1, <2>2
      <3>2. t[k - Len(s)] = IF k - Len(s) - h \in 1 .. Last THEN Item(c, k - Len(s) - h)
                            ELSE TextByte
        BY <3>1 DEF Placed
      <3>3. st[k] = t[k - Len(s)]
        BY <1>1, <3>1
      <3> QED
        BY <3>1, <3>2, <3>3
    <2> QED
      BY <1>1, <2>1, <2>2
  <1> QED
    BY <1>3, <1>4 DEF Placed, st

LEMMA HeaderEndIs ==
  ASSUME NEW s, Len(s) \in Nat, NEW c, NEW h \in Int, Placed(s, c, h),
         NEW k \in 1 .. Len(s), NEW d, s[k] = Item(d, 4)
  PROVE  d = c /\ k = h + 4
  <1>1. Last \in Nat /\ k \in Nat
    BY Sizes
  <1>2. k - h \in 1 .. Last /\ s[k] = Item(c, k - h)
    BY <1>1, ItemsDiffer DEF Placed
  <1> QED
    BY <1>1, <1>2, ItemsDiffer

------------------------------------------------------------------------------
(* Types *)

LEMMA TypesStart == Init => TypeOK
  <1> SUFFICES ASSUME Init PROVE TypeOK
    OBVIOUS
  <1>1. wire \in Seq(Bytes)
    <2>1. PICK n \in 0 .. MaxJunk : wire = Text(n)
      BY DEF Init
    <2>2. n \in Nat
      BY PullAssumption
    <2>3. Text(n) \in [1 .. n -> Bytes]
      BY DEF Text, Bytes
    <2> QED
      BY <2>1, <2>2, <2>3, FunctionIsSeq
  <1>2. <<>> \in Seq(Bytes) /\ <<>> \in Seq(1 .. sent) /\ Len(<<>>) = 0
    BY EmptySeq
  <1>3. MaxPulls \in Nat /\ MaxBytes \in Nat /\ PointSize \in Nat
    BY PullAssumption
  <1>4. device \in Devices /\ sent \in 0 .. MaxPulls /\ ahead \in Nat
    <2>1. device \in Devices /\ sent = 0 /\ ahead = 0
      BY DEF Init
    <2> QED
      BY <1>3, <2>1
  <1>9. late \in BOOLEAN
    BY DEF Init
  <1>8. pending \in Seq(1 .. sent) /\ sending \in Seq(Bytes)
    BY <1>2 DEF Init
  <1>5. /\ pc \in [Readers -> {"idle", "first", "search", "remainder", "points", "done"}]
        /\ command \in [Readers -> 0 .. sent]
        /\ used \in [Readers -> 0 .. PointSize]
        /\ count \in [Readers -> 0 .. MaxBytes + PointSize]
    BY <1>3 DEF Init
  <1>6. /\ window \in [Readers -> Seq(Bytes)] /\ chunk \in [Readers -> Seq(Bytes)]
        /\ data \in [Readers -> Seq(Bytes)]
    BY <1>2 DEF Init
  <1>7. \A r \in Readers : pc[r] = "idle" /\ data[r] = <<>> /\ Len(data[r]) \in WholePoints
    BY <1>2, SmallestPoint DEF Init
  <1> QED
    BY <1>1, <1>4, <1>5, <1>6, <1>7, <1>8, <1>9 DEF TypeOK, ReaderOK

(* The bytes a read takes, and those it leaves.                              *)
LEMMA ReadTypes ==
  ASSUME TypeOK, NEW n \in Nat, Arrived(n)
  PROVE  /\ Taken(n) \in Seq(Bytes) /\ Len(Taken(n)) = n
         /\ Rest(n) \in Seq(Bytes)
  <1>1. n \in 0 .. Len(wire) /\ wire \in Seq(Bytes)
    BY LenProperties DEF Arrived, TypeOK
  <1> QED
    BY <1>1, TakenAndRest, EmptySeq DEF Taken, Rest

LEMMA LastFourIs ==
  ASSUME NEW S, NEW s \in Seq(S), Len(s) >= 4
  PROVE  /\ LastFour(s) \in Seq(S) /\ Len(LastFour(s)) = 4
         /\ \A j \in 1 .. 4 : LastFour(s)[j] = s[Len(s) - 4 + j]
  <1>1. Len(s) \in Nat /\ \A k \in 1 .. Len(s) : s[k] \in S
    BY LenProperties, ElementOfSeq
  <1>2. \A k \in Len(s)-3 .. Len(s) : s[k] \in S
    BY <1>1
  <1>3. /\ SubSeq(s, Len(s) - 3, Len(s)) \in Seq(S)
        /\ Len(SubSeq(s, Len(s) - 3, Len(s))) = 4
        /\ \A j \in 1 .. 4 : SubSeq(s, Len(s) - 3, Len(s))[j] = s[Len(s) - 3 + j - 1]
    <2> DEFINE a == Len(s) - 3  b == Len(s)
    <2>1. a \in Int /\ b \in Int /\ b - a + 1 = 4 /\ a <= b
      BY <1>1
    <2>2. /\ SubSeq(s, a, b) \in Seq(S)
          /\ Len(SubSeq(s, a, b)) = IF a <= b THEN b - a + 1 ELSE 0
          /\ \A j \in 1 .. b - a + 1 : SubSeq(s, a, b)[j] = s[a + j - 1]
      BY <1>2, <2>1, SubSeqProperties
    <2> HIDE DEF a, b
    <2>3. /\ SubSeq(s, a, b) \in Seq(S) /\ Len(SubSeq(s, a, b)) = 4
          /\ \A j \in 1 .. 4 : SubSeq(s, a, b)[j] = s[a + j - 1]
      BY <2>1, <2>2
    <2> QED
      BY <2>3 DEF a, b
  <1>4. \A j \in 1 .. 4 : Len(s) - 3 + j - 1 = Len(s) - 4 + j
    BY <1>1
  <1> QED
    BY <1>3, <1>4 DEF LastFour

(* The window when i bytes of a chunk have been looked at.                   *)
LEMMA WindowIs ==
  ASSUME NEW S, NEW w \in Seq(S), Len(w) = 4, NEW bytes \in Seq(S), NEW i \in 1 .. Len(bytes)
  PROVE  /\ Window(w, bytes, i) \in Seq(S) /\ Len(Window(w, bytes, i)) = 4
         /\ \A j \in 1 .. 4 :
              Window(w, bytes, i)[j] = IF i + j <= 4 THEN w[i + j] ELSE bytes[i + j - 4]
  <1>1. /\ SubSeq(bytes, 1, i) \in Seq(S) /\ Len(SubSeq(bytes, 1, i)) = i
        /\ \A k \in 1 .. i : SubSeq(bytes, 1, i)[k] = bytes[k]
    <2>1. Len(bytes) \in Nat /\ \A k \in 1 .. Len(bytes) : bytes[k] \in S
      BY LenProperties, ElementOfSeq
    <2>2. \A k \in 1 .. i : bytes[k] \in S
      BY <2>1
    <2> QED
      BY <2>2, SubSeqProperties
  <1> DEFINE first == SubSeq(bytes, 1, i)
  <1>0. first \in Seq(S) /\ Len(first) = i
    BY <1>1
  <1> HIDE DEF first
  <1> DEFINE s == w \o first
  <1>2. /\ s \in Seq(S) /\ Len(s) = 4 + i
        /\ \A k \in 1 .. 4 : s[k] = w[k]
        /\ \A k \in 5 .. 4+i : s[k] = first[k - 4]
    <2>1. w \in Seq(S) /\ first \in Seq(S)
      BY <1>0
    <2>2. /\ s \in Seq(S) /\ Len(s) = Len(w) + Len(first)
          /\ \A k \in 1 .. Len(w) : s[k] = w[k]
          /\ \A k \in Len(w)+1 .. Len(w)+Len(first) : s[k] = first[k - Len(w)]
      BY ONLY <2>1, Joined DEF s
    <2> HIDE DEF s
    <2> QED
      BY <1>0, <2>2
  <1> HIDE DEF s
  <1>3. /\ LastFour(s) \in Seq(S) /\ Len(LastFour(s)) = 4
        /\ \A j \in 1 .. 4 : LastFour(s)[j] = s[i + j]
    <2>1. Len(s) >= 4 /\ \A j \in 1 .. 4 : Len(s) - 4 + j = i + j
      BY <1>2
    <2> QED
      BY <1>2, <2>1, LastFourIs
  <1>4. \A j \in 1 .. 4 : s[i + j] = IF i + j <= 4 THEN w[i + j] ELSE bytes[i + j - 4]
    <2> SUFFICES ASSUME NEW j \in 1 .. 4
                 PROVE  s[i + j] = IF i + j <= 4 THEN w[i + j] ELSE bytes[i + j - 4]
      OBVIOUS
    <2>1. CASE i + j <= 4
      BY <1>2, <2>1
    <2>2. CASE ~(i + j <= 4)
      <3>1. i + j \in 5 .. 4+i /\ i + j - 4 \in 1 .. i
        BY <2>2
      <3> QED
        <4>1. s[i + j] = first[i + j - 4]
          BY ONLY <1>2, <3>1
        <4>2. first[i + j - 4] = bytes[i + j - 4]
          BY ONLY <1>1, <3>1 DEF first
        <4> QED
          BY ONLY <2>2, <4>1, <4>2
    <2> QED
      BY <2>1, <2>2
  <1>5. Window(w, bytes, i) = LastFour(s)
    BY DEF Window, s, first
  <1> QED
    BY <1>3, <1>4, <1>5

LEMMA SetIs ==
  ASSUME NEW S, NEW f \in [Readers -> S], NEW r \in Readers, NEW v \in S
  PROVE  /\ Set(f, r, v) \in [Readers -> S] /\ Set(f, r, v)[r] = v
         /\ \A q \in Readers : q # r => Set(f, r, v)[q] = f[q]
  BY DEF Set

LEMMA ReaderStays ==
  ASSUME NEW q \in Readers, ReaderOK(q),
         pc'[q] = pc[q], command'[q] = command[q], window'[q] = window[q],
         chunk'[q] = chunk[q], used'[q] = used[q], count'[q] = count[q], data'[q] = data[q]
  PROVE  ReaderOK(q)'
  BY DEF ReaderOK, WholePoints

(* A pull that ends keeps everything but the line.                           *)
LEMMA TypesAtEnd ==
  ASSUME TypeOK, NEW r \in Readers, pc' = Set(pc, r, "idle"),
         wire' \in Seq(Bytes), late' \in BOOLEAN,
         UNCHANGED <<deviceVars, sent, command, window, chunk, used, count, data, ahead>>
  PROVE  TypeOK'
  <1>1. /\ pc' \in [Readers -> {"idle", "first", "search", "remainder", "points", "done"}]
        /\ pc'[r] = "idle" /\ \A q \in Readers : q # r => pc'[q] = pc[q]
    <2>1. pc \in [Readers -> {"idle", "first", "search", "remainder", "points", "done"}]
      BY DEF TypeOK
    <2> QED
      BY <2>1 DEF Set
  <1>2. Bytes' = Bytes
    BY DEF Bytes
  <1>3. ASSUME NEW q \in Readers PROVE ReaderOK(q)'
    <2>1. ReaderOK(q)
      BY DEF TypeOK
    <2>2. CASE q = r
      BY <1>1, <2>1, <2>2 DEF ReaderOK, WholePoints
    <2>3. CASE q # r
      BY <1>1, <2>1, <2>3, ReaderStays
    <2> QED
      BY <2>2, <2>3
  <1> QED
    BY <1>1, <1>2, <1>3 DEF TypeOK, deviceVars

LEMMA NextPointTypes ==
  ASSUME TypeOK, NEW r \in Readers, pc[r] # "idle", NEW bytes \in Seq(Bytes),
         Len(bytes) = PointSize, Len(data[r]) < BodyLen, NextPoint(r, bytes),
         wire' \in Seq(Bytes),
         UNCHANGED <<deviceVars, sent, command, window, chunk, used, count, ahead, late>>
  PROVE  /\ TypeOK'
         /\ data'[r] = data[r] \o bytes /\ Len(data'[r]) = Len(data[r]) + PointSize
         /\ pc'[r] = IF Len(data'[r]) < BodyLen THEN "points" ELSE "done"
  <1> DEFINE longer == data[r] \o bytes
  <1>1. data[r] \in Seq(Bytes) /\ ReaderOK(r)
    BY DEF TypeOK
  <1>2. longer \in Seq(Bytes) /\ Len(longer) = Len(data[r]) + PointSize
    BY <1>1, ConcatProperties
  <1> HIDE DEF longer
  <1>3. /\ data' \in [Readers -> Seq(Bytes)]
        /\ data'[r] = longer /\ \A q \in Readers : q # r => data'[q] = data[q]
    <2>1. data' = Set(data, r, longer)
      BY DEF NextPoint, longer
    <2> QED
      BY <1>2, <2>1 DEF TypeOK, Set
  <1> DEFINE next == IF Len(data'[r]) < BodyLen THEN "points" ELSE "done"
  <1>4. /\ pc' \in [Readers -> {"idle", "first", "search", "remainder", "points", "done"}]
        /\ pc'[r] = next /\ \A q \in Readers : q # r => pc'[q] = pc[q]
    <2>1. pc' = Set(pc, r, next)
      BY DEF NextPoint, BodyLen
    <2>2. next \in {"idle", "first", "search", "remainder", "points", "done"}
      OBVIOUS
    <2>3. pc \in [Readers -> {"idle", "first", "search", "remainder", "points", "done"}]
      BY DEF TypeOK
    <2> HIDE DEF next
    <2> QED
      BY <2>1, <2>2, <2>3 DEF Set
  <1>5. Bytes' = Bytes
    BY DEF Bytes
  <1>6. ASSUME NEW q \in Readers PROVE ReaderOK(q)'
    <2>1. ReaderOK(q)
      BY DEF TypeOK
    <2>2. CASE q = r
      <3>1. Len(data'[r]) \in WholePoints
        BY <1>1, <1>2, <1>3, WholePointsGrow DEF ReaderOK
      <3>2. pc'[r] = "points" \/ pc'[r] = "done"
        BY <1>4
      <3>3. pc'[r] = "points" => Len(data'[r]) < PointSize * Points
        BY <1>4 DEF BodyLen
      <3>4. command'[r] # 0
        BY <1>1 DEF ReaderOK
      <3> QED
        BY <2>2, <3>1, <3>2, <3>3, <3>4 DEF ReaderOK, WholePoints
    <2>3. CASE q # r
      BY <1>3, <1>4, <2>1, <2>3, ReaderStays
    <2> QED
      BY <2>2, <2>3
  <1>7. TypeOK'
    BY <1>3, <1>4, <1>5, <1>6 DEF TypeOK, deviceVars
  <1> QED
    BY <1>2, <1>3, <1>4, <1>7 DEF longer

------------------------------------------------------------------------------
(* What the steps do to the line *)

LEMMA StreamIs ==
  ASSUME TypeOK
  PROVE  Stream \in Seq(Bytes) /\ Len(Stream) \in Nat /\ Len(Stream) = Len(wire) + Len(sending)
  <1>1. wire \in Seq(Bytes) /\ sending \in Seq(Bytes)
    BY DEF TypeOK
  <1> QED
    BY <1>1, ConcatProperties, LenProperties DEF Stream

(* A read of n bytes.                                                        *)
LEMMA Left ==
  ASSUME TypeOK, NEW n \in Nat, Arrived(n), wire' = Rest(n), sending' = sending
  PROVE  /\ Leaves(Stream, n, Stream') /\ n <= Len(Stream)
         /\ wire' \in Seq(Bytes) /\ Stream' \in Seq(Bytes)
         /\ Taken(n) \in Seq(Bytes) /\ Len(Taken(n)) = n
         /\ \A k \in 1 .. n : Taken(n)[k] = Stream[k]
         /\ Taken(n) \o Stream' = Stream
  <1>1. wire \in Seq(Bytes) /\ sending \in Seq(Bytes) /\ n \in 0 .. Len(wire)
    BY LenProperties DEF Arrived, TypeOK
  <1>2. /\ Taken(n) \in Seq(Bytes) /\ Len(Taken(n)) = n
        /\ \A k \in 1 .. n : Taken(n)[k] = (wire \o sending)[k]
    BY <1>1, TakenAndRest DEF Taken
  <1>3. Rest(n) \in Seq(Bytes)
    BY <1>1, TakenAndRest DEF Rest
  <1>4. /\ Rest(n) \o sending \in Seq(Bytes)
        /\ Len(Rest(n) \o sending) = Len(wire \o sending) - n
        /\ \A k \in 1 .. Len(wire \o sending) - n :
             (Rest(n) \o sending)[k] = (wire \o sending)[n + k]
    BY <1>1, TakenAndRest DEF Rest
  <1>5. Taken(n) \o (Rest(n) \o sending) = wire \o sending
    BY <1>1, TakenAndRest DEF Taken, Rest
  <1>6. Stream' = Rest(n) \o sending
    BY DEF Stream
  <1>7. Len(Stream) \in Nat /\ Len(Stream') \in Nat
    BY <1>4, <1>6, StreamIs, LenProperties
  <1>8. n <= Len(Stream)
    BY <1>1, StreamIs, LenProperties
  <1> QED
    BY <1>2, <1>3, <1>4, <1>5, <1>6, <1>7, <1>8 DEF Leaves, Stream

(* A pull that ends may have taken some bytes off the line.                  *)
Ends(r) ==
  AllocationFails(r) \/ TimesOut(r) \/ ReadFails(r) \/ GiveUp(r) \/ ReturnData(r)

LEMMA EndIs ==
  ASSUME TypeOK, NEW r \in Readers, Ends(r)
  PROVE  /\ pc' = Set(pc, r, "idle") /\ late' \in BOOLEAN
         /\ late' = FALSE => pc[r] = "done" /\ wire' = wire /\ late = FALSE
         /\ UNCHANGED <<deviceVars, sent, command, window, chunk, used, count, data, ahead>>
         /\ \E n \in Nat : Arrived(n) /\ wire' = Rest(n)
  <1>1. wire \in Seq(Bytes) /\ Len(wire) \in Nat
    BY LenProperties DEF TypeOK
  <1>2. wire' = wire \/ wire' = <<>> \/ \E n \in Nat : Arrived(n) /\ wire' = Rest(n)
    <2>1. CASE ReadFails(r)
      <3>1. PICK n \in 0 .. Wanted(r)-1 : Arrived(n) /\ wire' = Rest(n)
        BY <2>1 DEF ReadFails
      <3> QED
        BY <3>1
    <2> QED
      BY <2>1 DEF Ends, AllocationFails, TimesOut, GiveUp, ReturnData
  <1>3. Arrived(0) /\ Rest(0) = wire
    <2>1. Len(Rest(0)) = Len(wire) /\ Rest(0) \in Seq(Bytes)
          /\ \A k \in 1 .. Len(wire) : Rest(0)[k] = wire[k]
      <3>1. \A k \in 1 .. Len(wire) : wire[k] \in Bytes
        BY <1>1, ElementOfSeq
      <3>2. 0 + 1 = 1
        OBVIOUS
      <3> QED
        BY <1>1, <3>1, <3>2, SubSeqProperties DEF Rest
    <2> QED
      BY <1>1, <2>1, SeqEqual DEF Arrived
  <1>4. Arrived(Len(wire)) /\ Rest(Len(wire)) = <<>>
    <2> DEFINE a == Len(wire) + 1  b == Len(wire)
    <2>1. a \in Int /\ b \in Int /\ ~(a <= b) /\ \A k \in a .. b : wire[k] \in Bytes
      BY <1>1
    <2>2. SubSeq(wire, a, b) = <<>>
      <3> HIDE DEF a, b
      <3>1. SubSeq(wire, a, b) \in Seq(Bytes) /\ Len(SubSeq(wire, a, b)) = 0
        BY <2>1, SubSeqProperties
      <3> QED
        BY <3>1, EmptySeq
    <2> QED
      BY <1>1, <2>2 DEF Arrived, Rest
  <1>5. \E n \in Nat : Arrived(n) /\ wire' = Rest(n)
    BY <1>1, <1>2, <1>3, <1>4
  <1>6. /\ pc' = Set(pc, r, "idle")
        /\ UNCHANGED <<deviceVars, sent, command, window, chunk, used, count, data, ahead>>
    BY DEF Ends, AllocationFails, TimesOut, ReadFails, GiveUp, ReturnData
  <1>7. late' = TRUE \/ (late' = late /\ pc[r] = "done" /\ wire' = wire)
    BY DEF Ends, AllocationFails, TimesOut, ReadFails, GiveUp, ReturnData
  <1>8. late \in BOOLEAN
    BY DEF TypeOK
  <1>9. late' \in BOOLEAN
    BY <1>7, <1>8, Zenon
  <1>10. late' = FALSE => pc[r] = "done" /\ wire' = wire /\ late = FALSE
    BY <1>7, <1>8, Zenon
  <1> QED
    BY <1>5, <1>6, <1>9, <1>10, Zenon

(* The first bytes are read, the window is the first four of them.           *)
LEMMA FirstRead ==
  ASSUME TypeOK, NEW r \in Readers, ReadFirst(r)
  PROVE  /\ TypeOK'
         /\ chunk'[r] = Taken(PointSize) /\ window'[r] = Taken(4)
         /\ used'[r] = 4 /\ count'[r] = 4
         /\ pc'[r] = IF IsHeader(Taken(4)) THEN "remainder" ELSE "search"
         /\ Len(Taken(4)) = 4 /\ \A k \in 1 .. 4 : Taken(4)[k] = Stream[k]
  <1>1. PointSize \in Nat /\ PointSize >= 4 /\ MaxBytes \in Nat
    BY PullAssumption
  <1>2. /\ Arrived(PointSize) /\ Arrived(4) /\ wire' = Rest(PointSize)
        /\ chunk' = Set(chunk, r, Taken(PointSize)) /\ window' = Set(window, r, Taken(4))
        /\ used' = Set(used, r, 4) /\ count' = Set(count, r, 4)
        /\ pc' = Set(pc, r, IF IsHeader(Taken(4)) THEN "remainder" ELSE "search")
        /\ UNCHANGED <<deviceVars, sent, command, data, ahead, late>>
    <2>1. Len(wire) \in Nat
      BY LenProperties DEF TypeOK
    <2> QED
      BY <1>1, <2>1 DEF ReadFirst, Arrived
  <1>3. /\ Taken(PointSize) \in Seq(Bytes) /\ Len(Taken(PointSize)) = PointSize
        /\ Taken(4) \in Seq(Bytes) /\ Len(Taken(4)) = 4
        /\ wire' \in Seq(Bytes)
    BY <1>1, <1>2, ReadTypes
  <1>4. /\ chunk' \in [Readers -> Seq(Bytes)] /\ chunk'[r] = Taken(PointSize)
        /\ \A q \in Readers : q # r => chunk'[q] = chunk[q]
    <2>1. chunk \in [Readers -> Seq(Bytes)]
      BY DEF TypeOK
    <2> QED
      BY ONLY <1>2, <1>3, <2>1, r \in Readers DEF Set
  <1>5. /\ window' \in [Readers -> Seq(Bytes)] /\ window'[r] = Taken(4)
        /\ \A q \in Readers : q # r => window'[q] = window[q]
    <2>1. window \in [Readers -> Seq(Bytes)]
      BY DEF TypeOK
    <2> QED
      BY ONLY <1>2, <1>3, <2>1, r \in Readers DEF Set
  <1>6. /\ used' \in [Readers -> 0 .. PointSize] /\ used'[r] = 4
        /\ \A q \in Readers : q # r => used'[q] = used[q]
    <2>1. used \in [Readers -> 0 .. PointSize]
      BY DEF TypeOK
    <2> QED
      BY ONLY <1>1, <1>2, <2>1, r \in Readers DEF Set
  <1>7. /\ count' \in [Readers -> 0 .. MaxBytes + PointSize] /\ count'[r] = 4
        /\ \A q \in Readers : q # r => count'[q] = count[q]
    <2>1. count \in [Readers -> 0 .. MaxBytes + PointSize]
      BY DEF TypeOK
    <2> QED
      BY ONLY <1>1, <1>2, <2>1, r \in Readers DEF Set
  <1> DEFINE next == IF IsHeader(Taken(4)) THEN "remainder" ELSE "search"
  <1>8. /\ pc' \in [Readers -> {"idle", "first", "search", "remainder", "points", "done"}]
        /\ pc'[r] = next /\ \A q \in Readers : q # r => pc'[q] = pc[q]
    <2>1. pc \in [Readers -> {"idle", "first", "search", "remainder", "points", "done"}]
      BY DEF TypeOK
    <2>2. pc' = Set(pc, r, next) /\ next \in {"search", "remainder"}
      BY <1>2
    <2> HIDE DEF next
    <2> QED
      BY ONLY <2>1, <2>2, r \in Readers DEF Set
  <1>9. Bytes' = Bytes
    BY <1>2 DEF Bytes
  <1>10. ASSUME NEW q \in Readers PROVE ReaderOK(q)'
    <2>1. ReaderOK(q)
      BY DEF TypeOK
    <2>2. CASE q = r
      <3>1. pc[r] = "first" /\ pc'[r] # "points" /\ data'[r] = data[r] /\ command'[r] = command[r]
        BY <1>2, <1>8 DEF ReadFirst
      <3>2. Len(window'[r]) = 4 /\ Len(chunk'[r]) = PointSize /\ used'[r] # 0 /\ count'[r] >= 4
        BY <1>3, <1>4, <1>5, <1>6, <1>7
      <3> QED
        BY <2>1, <2>2, <3>1, <3>2 DEF ReaderOK, WholePoints
    <2>3. CASE q # r
      BY <1>2, <1>4, <1>5, <1>6, <1>7, <1>8, <2>1, <2>3, ReaderStays
    <2> QED
      BY <2>2, <2>3
  <1>11. TypeOK'
    BY <1>2, <1>3, <1>4, <1>5, <1>6, <1>7, <1>8, <1>9, <1>10 DEF TypeOK, deviceVars
  <1>12. \A k \in 1 .. 4 : Taken(4)[k] = Stream[k]
    <2>1. wire \in Seq(Bytes) /\ sending \in Seq(Bytes) /\ 4 \in 0 .. Len(wire)
      BY <1>2, LenProperties DEF TypeOK, Arrived
    <2> QED
      BY <2>1, TakenAndRest DEF Taken, Stream
  <1> QED
    BY <1>3, <1>4, <1>5, <1>6, <1>7, <1>8, <1>11, <1>12

(* The search looks at the bytes of one more chunk.                          *)
LEMMA ChunkRead ==
  ASSUME TypeOK, NEW r \in Readers, SearchChunk(r)
  PROVE  /\ TypeOK'
         /\ chunk'[r] = Taken(PointSize) /\ count'[r] = count[r] + PointSize
         /\ \E i \in 1 .. PointSize :
              /\ used'[r] = i /\ window'[r] = Window(window[r], Taken(PointSize), i)
              /\ IF IsHeader(window'[r]) THEN pc'[r] = "remainder"
                 ELSE /\ pc'[r] = "search" /\ i = PointSize
                      /\ \A j \in 1 .. PointSize :
                           ~IsHeader(Window(window[r], Taken(PointSize), j))
  <1> DEFINE bytes == Taken(PointSize)
             win(i) == Window(window[r], bytes, i)
  <1>1. PointSize \in Nat /\ PointSize >= 4 /\ MaxBytes \in Nat
    BY PullAssumption
  <1>2. /\ Arrived(PointSize) /\ wire' = Rest(PointSize) /\ pc[r] = "search"
        /\ count[r] <= MaxBytes /\ count' = Set(count, r, count[r] + PointSize)
        /\ UNCHANGED <<deviceVars, sent, command, data, ahead, late>>
    BY DEF SearchChunk, KeepsLooking
  <1>3. PICK i \in 1 .. PointSize :
          /\ \A j \in 1 .. i-1 : ~IsHeader(win(j))
          /\ IsHeader(win(i)) \/ i = PointSize
          /\ chunk' = Set(chunk, r, bytes)
          /\ window' = Set(window, r, win(i))
          /\ used' = Set(used, r, i)
          /\ pc' = Set(pc, r, IF IsHeader(win(i)) THEN "remainder" ELSE "search")
    BY DEF SearchChunk
  <1>4. /\ bytes \in Seq(Bytes) /\ Len(bytes) = PointSize /\ wire' \in Seq(Bytes)
    BY <1>1, <1>2, ReadTypes
  <1>5. win(i) \in Seq(Bytes) /\ Len(win(i)) = 4
    <2>1. window[r] \in Seq(Bytes) /\ Len(window[r]) = 4
      BY <1>2 DEF TypeOK, ReaderOK
    <2>2. i \in 1 .. Len(bytes)
      BY <1>4
    <2> HIDE DEF bytes
    <2> QED
      BY <1>4, <2>1, <2>2, WindowIs
  <1> HIDE DEF bytes, win
  <1>6. /\ chunk' \in [Readers -> Seq(Bytes)] /\ chunk'[r] = bytes
        /\ \A q \in Readers : q # r => chunk'[q] = chunk[q]
    <2>1. chunk \in [Readers -> Seq(Bytes)]
      BY DEF TypeOK
    <2> QED
      BY ONLY <1>3, <1>4, <2>1, r \in Readers DEF Set
  <1>7. /\ window' \in [Readers -> Seq(Bytes)] /\ window'[r] = win(i)
        /\ \A q \in Readers : q # r => window'[q] = window[q]
    <2>1. window \in [Readers -> Seq(Bytes)]
      BY DEF TypeOK
    <2> QED
      BY ONLY <1>3, <1>5, <2>1, r \in Readers DEF Set
  <1>8. /\ used' \in [Readers -> 0 .. PointSize] /\ used'[r] = i
        /\ \A q \in Readers : q # r => used'[q] = used[q]
    <2>1. used \in [Readers -> 0 .. PointSize] /\ i \in 0 .. PointSize
      BY DEF TypeOK
    <2> QED
      BY ONLY <1>3, <2>1, r \in Readers DEF Set
  <1>9. /\ count' \in [Readers -> 0 .. MaxBytes + PointSize] /\ count'[r] = count[r] + PointSize
        /\ \A q \in Readers : q # r => count'[q] = count[q]
    <2>1. count \in [Readers -> 0 .. MaxBytes + PointSize]
      BY DEF TypeOK
    <2>2. count[r] \in Nat /\ count[r] + PointSize \in 0 .. MaxBytes + PointSize
      BY <1>1, <1>2, <2>1
    <2> QED
      BY ONLY <1>2, <2>1, <2>2, r \in Readers DEF Set
  <1> DEFINE next == IF IsHeader(win(i)) THEN "remainder" ELSE "search"
  <1>10. /\ pc' \in [Readers -> {"idle", "first", "search", "remainder", "points", "done"}]
         /\ pc'[r] = next /\ \A q \in Readers : q # r => pc'[q] = pc[q]
    <2>1. pc \in [Readers -> {"idle", "first", "search", "remainder", "points", "done"}]
      BY DEF TypeOK
    <2>2. pc' = Set(pc, r, next) /\ next \in {"search", "remainder"}
      BY <1>3
    <2> HIDE DEF next
    <2> QED
      BY ONLY <2>1, <2>2, r \in Readers DEF Set
  <1>11. Bytes' = Bytes
    BY <1>2 DEF Bytes
  <1>12. ASSUME NEW q \in Readers PROVE ReaderOK(q)'
    <2>1. ReaderOK(q)
      BY DEF TypeOK
    <2>2. CASE q = r
      <3>1. pc'[r] # "points" /\ data'[r] = data[r] /\ command'[r] = command[r]
        BY <1>2, <1>10
      <3>2. Len(window'[r]) = 4 /\ Len(chunk'[r]) = PointSize /\ used'[r] # 0
        BY <1>4, <1>5, <1>6, <1>7, <1>8
      <3>3. count'[r] >= 4
        <4>1. count[r] \in Nat
          BY <1>1 DEF TypeOK
        <4> QED
          BY <1>1, <1>9, <4>1
      <3> QED
        BY <1>2, <2>1, <2>2, <3>1, <3>2, <3>3 DEF ReaderOK, WholePoints
    <2>3. CASE q # r
      BY <1>2, <1>6, <1>7, <1>8, <1>9, <1>10, <2>1, <2>3, ReaderStays
    <2> QED
      BY <2>2, <2>3
  <1>13. TypeOK'
    BY <1>2, <1>4, <1>6, <1>7, <1>8, <1>9, <1>10, <1>11, <1>12 DEF TypeOK, deviceVars
  <1>14. /\ used'[r] = i /\ window'[r] = Window(window[r], Taken(PointSize), i)
         /\ IF IsHeader(window'[r]) THEN pc'[r] = "remainder"
            ELSE /\ pc'[r] = "search" /\ i = PointSize
                 /\ \A j \in 1 .. PointSize :
                      ~IsHeader(Window(window[r], Taken(PointSize), j))
    <2>1. window'[r] = Window(window[r], Taken(PointSize), i)
      BY <1>7 DEF win, bytes
    <2>2. CASE IsHeader(win(i))
      BY <1>7, <1>8, <1>10, <2>1, <2>2
    <2>3. CASE ~IsHeader(win(i))
      <3>1. i = PointSize /\ \A j \in 1 .. PointSize : ~IsHeader(win(j))
        <4>1. \A j \in 1 .. PointSize : j \in 1 .. i-1 \/ j = i
          BY <1>1, <1>3, <2>3
        <4> QED
          BY <1>3, <2>3, <4>1
      <3> QED
        BY <1>7, <1>8, <1>10, <2>1, <2>3, <3>1 DEF win, bytes
    <2> QED
      BY <2>2, <2>3
  <1> QED
    BY <1>6, <1>9, <1>13, <1>14 DEF bytes

------------------------------------------------------------------------------
(* Points *)

(* Behind the points that are still to come there is only text.              *)
TextAfter(s, l) == \A k \in 1 .. Len(s) : k > BodyLen - l => s[k] = TextByte

(* One more point is taken from bytes that go on with the data.              *)
LEMMA PointTaken ==
  ASSUME NEW S, NEW d \in Seq(S), NEW p \in Seq(S), NEW u \in Seq(S), NEW c,
         Len(p) = PointSize, Len(d) + PointSize <= BodyLen,
         Begins(d, c), Continues(p \o u, c, Len(d))
  PROVE  /\ Begins(d \o p, c) /\ Continues(u, c, Len(d) + PointSize)
         /\ TextAfter(p \o u, Len(d)) => TextAfter(u, Len(d) + PointSize)
  <1> DEFINE l == Len(d)  s == p \o u  e == d \o p
  <1>1. /\ PointSize \in Nat /\ BodyLen \in Nat /\ l \in Nat /\ Len(u) \in Nat
        /\ l + PointSize <= BodyLen
    BY Sizes, LenProperties
  <1>2. /\ Len(s) = PointSize + Len(u)
        /\ \A k \in 1 .. PointSize : s[k] = p[k]
        /\ \A k \in PointSize+1 .. PointSize+Len(u) : s[k] = u[k - PointSize]
    BY Joined
  <1>3. /\ Len(e) = l + PointSize
        /\ \A k \in 1 .. l : e[k] = d[k]
        /\ \A k \in l+1 .. l+PointSize : e[k] = p[k - l]
    BY Joined
  <1>4. /\ \A k \in 1 .. l : d[k] = Item(c, 4 + k)
        /\ \A m \in l+1 .. BodyLen : m - l <= Len(s) /\ s[m - l] = Item(c, 4 + m)
        /\ TextAfter(p \o u, Len(d)) => \A k \in 1 .. Len(s) : k > BodyLen - l => s[k] = TextByte
    BY DEF Begins, Continues, TextAfter
  <1> HIDE DEF s, e, l
  <1>5. ASSUME NEW k \in 1 .. l + PointSize PROVE e[k] = Item(c, 4 + k)
    <2>1. CASE k <= l
      BY <1>1, <1>3, <1>4, <2>1
    <2>2. CASE k > l
      <3>1. k \in l+1 .. BodyLen /\ k \in l+1 .. l+PointSize /\ k - l \in 1 .. PointSize
        BY <1>1, <2>2
      <3> QED
        BY <1>2, <1>3, <1>4, <3>1
    <2> QED
      BY <1>1, <2>1, <2>2
  <1>6. ASSUME NEW m \in l + PointSize + 1 .. BodyLen
        PROVE  m - (l + PointSize) <= Len(u) /\ u[m - (l + PointSize)] = Item(c, 4 + m)
    <2>1. m \in l+1 .. BodyLen
      BY <1>1
    <2>2. m - l <= Len(s) /\ s[m - l] = Item(c, 4 + m)
      BY <1>4, <2>1
    <2> DEFINE j == m - l
    <2>3. j \in PointSize+1 .. PointSize+Len(u) /\ m - (l + PointSize) = j - PointSize
      BY <1>1, <1>2, <2>2
    <2>4. s[j] = Item(c, 4 + m)
      BY <2>2
    <2> HIDE DEF j
    <2>5. s[j] = u[j - PointSize]
      BY <1>2, <2>3
    <2>6. m - (l + PointSize) <= Len(u)
      BY <1>1, <2>3
    <2> QED
      BY <2>3, <2>4, <2>5, <2>6
  <1>7. ASSUME TextAfter(p \o u, Len(d)), NEW k \in 1 .. Len(u), k > BodyLen - (l + PointSize)
        PROVE  u[k] = TextByte
    <2> DEFINE j == PointSize + k
    <2>1. /\ j \in 1 .. Len(s) /\ j > BodyLen - l
          /\ j \in PointSize+1 .. PointSize+Len(u) /\ j - PointSize = k
      BY <1>1, <1>2, <1>7
    <2> HIDE DEF j
    <2>2. s[j] = TextByte
      BY <1>4, <1>7, <2>1
    <2>3. s[j] = u[j - PointSize]
      BY <1>2, <2>1
    <2> QED
      BY <2>1, <2>2, <2>3
  <1>8. Begins(e, c)
    BY <1>3, <1>5 DEF Begins
  <1>9. Continues(u, c, l + PointSize)
    BY <1>6 DEF Continues
  <1>10. TextAfter(p \o u, Len(d)) => TextAfter(u, l + PointSize)
    BY <1>7 DEF TextAfter
  <1> QED
    BY <1>8, <1>9, <1>10 DEF e, l

LEMMA DataIsBody ==
  ASSUME NEW S, NEW d \in Seq(S), NEW c, Begins(d, c), Len(d) = BodyLen
  PROVE  d = Body(c)
  <1>1. d \in [1 .. BodyLen -> S]
    BY LenProperties
  <1>2. \A k \in 1 .. BodyLen : d[k] = Item(c, 4 + k)
    BY DEF Begins
  <1> QED
    BY <1>1, <1>2, BodyIs

(* Two answers begin differently.                                            *)
LEMMA DataIsOf ==
  ASSUME NEW d, NEW b, NEW c, Len(d) \in Nat, Len(d) >= 1, Begins(d, b), Begins(d, c)
  PROVE  b = c
  <1>1. d[1] = Item(b, 4 + 1) /\ d[1] = Item(c, 4 + 1)
    BY DEF Begins
  <1>2. 4 + 1 \in Nat
    OBVIOUS
  <1> DEFINE five == 4 + 1
  <1>3. Item(b, five) = Item(c, five) /\ five \in Nat
    BY <1>1, <1>2
  <1> HIDE DEF five
  <1> QED
    BY <1>3, ItemsDiffer

(* The bytes behind the last one of a header are points.                     *)
LEMMA PointsFollow ==
  ASSUME NEW s, NEW n, NEW y, Leaves(s, n, y), Whole(s), n >= 1,
         NEW c \in Nat, n <= Len(s), s[n] = Item(c, 4)
  PROVE  Continues(y, c, 0)
  <1>1. n \in Nat /\ Len(s) \in Nat /\ Len(y) = Len(s) - n /\ BodyLen \in Nat /\ Last = BodyLen + 4
    BY Sizes DEF Leaves
  <1> SUFFICES ASSUME NEW m \in 0+1 .. BodyLen
               PROVE  m - 0 <= Len(y) /\ y[m - 0] = Item(c, 4 + m)
    BY DEF Continues
  <1>2. n \in 1 .. Len(s) /\ 4 \in 1 .. Last /\ 4 + m \in 4 .. Last /\ m \in Nat /\ m - 0 = m
    BY <1>1
  <1>3. n + (4 + m) - 4 <= Len(s) /\ s[n + (4 + m) - 4] = Item(c, 4 + m)
    BY <1>2 DEF Whole
  <1>4. n + (4 + m) - 4 = n + m /\ m \in 1 .. Len(s) - n
    BY <1>1, <1>2, <1>3
  <1>5. y[m] = s[n + m]
    BY <1>4 DEF Leaves
  <1>6. s[n + m] = Item(c, 4 + m)
    BY <1>3, <1>4
  <1> QED
    BY <1>1, <1>2, <1>4, <1>5, <1>6

LEMMA TextFollows ==
  ASSUME NEW s, NEW n, NEW y, Leaves(s, n, y), NEW c, NEW h \in Int, Placed(s, c, h), n = h + 4
  PROVE  TextAfter(y, 0)
  <1>1. n \in Nat /\ Len(s) \in Nat /\ Len(y) = Len(s) - n /\ BodyLen \in Nat /\ Last = BodyLen + 4
    BY Sizes DEF Leaves
  <1> SUFFICES ASSUME NEW k \in 1 .. Len(y), k > BodyLen - 0
               PROVE  y[k] = TextByte
    BY DEF TextAfter
  <1> DEFINE j == n + k
  <1>2. k \in 1 .. Len(s) - n /\ j \in 1 .. Len(s) /\ j - h \notin 1 .. Last
    BY <1>1
  <1>3. y[k] = s[j]
    BY <1>2 DEF Leaves
  <1> HIDE DEF j
  <1>4. s[j] = TextByte
    BY <1>2 DEF Placed
  <1> QED
    BY <1>3, <1>4

LEMMA AllTextAfter ==
  ASSUME NEW s, Len(s) \in Nat, TextAfter(s, BodyLen) PROVE AllText(s)
  BY Sizes DEF TextAfter, AllText

(* The first point is put together from the chunk that the header ended in   *)
(* and from the bytes that are read now.                                     *)
LEMMA FirstPoint ==
  ASSUME TypeOK, NEW r \in Readers, ReadRemainder(r), Whole(chunk[r] \o Stream),
         NEW c \in 1 .. sent, chunk[r][used[r]] = Item(c, 4)
  PROVE  /\ TypeOK' /\ Len(data'[r]) >= 1
         /\ pc'[r] = IF Len(data'[r]) < BodyLen THEN "points" ELSE "done"
         /\ Begins(data'[r], c) /\ Continues(Stream', c, Len(data'[r]))
         /\ Leaves(Stream, used[r], Stream')
         /\ \A h \in Int : Placed(chunk[r] \o Stream, c, h) /\ used[r] = h + 4
                             => TextAfter(Stream', Len(data'[r]))
  <1> DEFINE n == used[r]  p == Kept(r) \o Taken(n)
  <1>1. /\ pc[r] = "remainder" /\ Arrived(n) /\ wire' = Rest(n) /\ NextPoint(r, p)
        /\ UNCHANGED <<deviceVars, sent, command, window, chunk, used, count, ahead, late>>
        /\ sending' = sending
    BY DEF ReadRemainder, deviceVars
  <1>2. /\ PointSize \in Nat /\ PointSize >= 4 /\ n \in 1 .. PointSize /\ n \in Nat
        /\ chunk[r] \in Seq(Bytes) /\ Len(chunk[r]) = PointSize
        /\ data[r] = <<>> /\ data[r] \in Seq(Bytes)
    <2>1. ReaderOK(r) /\ used \in [Readers -> 0 .. PointSize]
      BY DEF TypeOK
    <2>2. used[r] # 0 /\ Len(chunk[r]) = PointSize /\ data[r] = <<>>
      BY <1>1, <2>1 DEF ReaderOK
    <2> QED
      BY <2>1, <2>2, Sizes DEF TypeOK
  <1>3. /\ Leaves(Stream, n, Stream') /\ wire' \in Seq(Bytes) /\ Stream' \in Seq(Bytes)
        /\ Taken(n) \in Seq(Bytes) /\ Len(Taken(n)) = n /\ Taken(n) \o Stream' = Stream
        /\ Stream \in Seq(Bytes)
    BY <1>1, <1>2, Left, StreamIs
  <1> DEFINE s == chunk[r] \o Stream  y == Kept(r) \o Stream
  <1>4. /\ Kept(r) \in Seq(Bytes) /\ Len(Kept(r)) = PointSize - n
        /\ y \in Seq(Bytes) /\ Len(y) = Len(s) - n
        /\ \A k \in 1 .. Len(s) - n : y[k] = s[n + k]
    <2>1. n \in 0 .. Len(chunk[r]) /\ Kept(r) = SubSeq(chunk[r], n + 1, Len(chunk[r]))
      BY <1>2 DEF Kept
    <2> HIDE DEF n
    <2>2. Kept(r) \in Seq(Bytes) /\ Len(Kept(r)) = Len(chunk[r]) - n
      BY <1>2, <1>3, <2>1, TakenAndRest
    <2>3. /\ y \in Seq(Bytes) /\ Len(y) = Len(s) - n
          /\ \A k \in 1 .. Len(s) - n : y[k] = s[n + k]
      <3> DEFINE w == chunk[r]  t == Stream
      <3>1. w \in Seq(Bytes) /\ t \in Seq(Bytes) /\ n \in 0 .. Len(w)
        BY <1>2, <1>3, <2>1
      <3> HIDE DEF w, t
      <3>2. /\ SubSeq(w, n + 1, Len(w)) \o t \in Seq(Bytes)
            /\ Len(SubSeq(w, n + 1, Len(w)) \o t) = Len(w \o t) - n
            /\ \A k \in 1 .. Len(w \o t) - n :
                 (SubSeq(w, n + 1, Len(w)) \o t)[k] = (w \o t)[n + k]
        BY <3>1, TakenAndRest
      <3> QED
        BY <2>1, <3>2 DEF w, t
    <2> QED
      BY <1>2, <2>2, <2>3
  <1>5. s \in Seq(Bytes) /\ Len(s) \in Nat /\ Len(y) \in Nat /\ Len(s) = PointSize + Len(Stream)
        /\ Len(Stream) \in Nat
    BY <1>2, <1>3, <1>4, ConcatProperties, LenProperties
  <1>6. Leaves(s, n, y)
    BY <1>2, <1>4, <1>5 DEF Leaves
  <1>7. s[n] = Item(c, 4) /\ n <= Len(s)
    <2>1. s[n] = chunk[r][n]
      <3>1. \A k \in 1 .. Len(chunk[r]) : (chunk[r] \o Stream)[k] = chunk[r][k]
        <4> DEFINE w == chunk[r]  t == Stream
        <4>1. w \in Seq(Bytes) /\ t \in Seq(Bytes)
          BY <1>2, <1>3
        <4> HIDE DEF w, t
        <4>2. \A k \in 1 .. Len(w) : (w \o t)[k] = w[k]
          BY <4>1, Joined
        <4> QED
          BY <4>2 DEF w, t
      <3>2. n \in 1 .. Len(chunk[r])
        BY <1>2
      <3> HIDE DEF n
      <3> QED
        BY <3>1, <3>2
    <2> QED
      BY <1>2, <1>5, <2>1
  <1>8. Whole(s)
    OBVIOUS
  <1>9. c \in Nat /\ n >= 1
    BY <1>2
  <1>10. Continues(y, c, 0)
    <2> HIDE DEF s, n, y
    <2> QED
      BY <1>6, <1>7, <1>8, <1>9, PointsFollow
  <1>11. p \in Seq(Bytes) /\ Len(p) = PointSize /\ p \o Stream' = y
    <2> DEFINE a == Kept(r)  b == Taken(n)
    <2>1. a \in Seq(Bytes) /\ b \in Seq(Bytes) /\ Len(a) = PointSize - n /\ Len(b) = n
      BY <1>3, <1>4
    <2>2. /\ p \in Seq(Bytes) /\ Len(p) = Len(a) + Len(b)
      <3> HIDE DEF a, b
      <3>1. a \o b \in Seq(Bytes) /\ Len(a \o b) = Len(a) + Len(b)
        BY <2>1, ConcatProperties
      <3> QED
        BY <3>1 DEF a, b
    <2>3. (a \o b) \o Stream' = a \o (b \o Stream')
      <3> DEFINE u == Stream'
      <3>1. u \in Seq(Bytes)
        BY <1>3
      <3> HIDE DEF a, b, u
      <3>2. (a \o b) \o u = a \o (b \o u)
        BY <2>1, <3>1, ConcatAssociative
      <3> QED
        BY <3>2 DEF u
    <2>4. p \o Stream' = y
      BY <1>3, <2>3
    <2> HIDE DEF a, b, p, n
    <2>5. Len(p) = PointSize
      BY <1>2, <2>1, <2>2
    <2> QED
      BY <2>2, <2>4, <2>5
  <1> HIDE DEF p
  <1>12. Len(<<>>) = 0 /\ Len(data[r]) = 0 /\ BodyLen \in Nat /\ BodyLen >= PointSize
    BY <1>2, Sizes, EmptySeq
  <1>13. Begins(data[r], c)
    BY <1>12 DEF Begins
  <1>14. /\ TypeOK' /\ data'[r] = data[r] \o p
         /\ Len(data'[r]) = Len(data[r]) + PointSize
         /\ pc'[r] = IF Len(data'[r]) < BodyLen THEN "points" ELSE "done"
    <2>1. pc[r] # "idle" /\ Len(data[r]) < BodyLen
      BY <1>1, <1>2, <1>12
    <2> QED
      BY <1>1, <1>3, <1>11, <2>1, NextPointTypes
  <1>15. /\ Begins(data[r] \o p, c) /\ Continues(Stream', c, Len(data[r]) + PointSize)
         /\ TextAfter(p \o Stream', Len(data[r])) => TextAfter(Stream', Len(data[r]) + PointSize)
    <2>1. Continues(p \o Stream', c, Len(data[r])) /\ Len(data[r]) + PointSize <= BodyLen
      BY <1>2, <1>10, <1>11, <1>12
    <2> DEFINE u == Stream'  d == data[r]
    <2>2. u \in Seq(Bytes) /\ d \in Seq(Bytes)
      BY <1>2, <1>3
    <2>3. Continues(p \o u, c, Len(d)) /\ Len(d) + PointSize <= BodyLen /\ Begins(d, c)
      BY <1>13, <2>1
    <2> HIDE DEF u, d
    <2>4. /\ Begins(d \o p, c) /\ Continues(u, c, Len(d) + PointSize)
          /\ TextAfter(p \o u, Len(d)) => TextAfter(u, Len(d) + PointSize)
      BY <1>11, <2>2, <2>3, PointTaken
    <2> QED
      BY <2>4 DEF u, d
  <1>16. ASSUME NEW h \in Int, Placed(s, c, h), n = h + 4
         PROVE  TextAfter(Stream', Len(data'[r]))
    <2>1. TextAfter(y, 0)
      <3> HIDE DEF s, n, y
      <3> QED
        BY <1>6, <1>16, TextFollows
    <2> QED
      BY <1>11, <1>12, <1>14, <1>15, <2>1
  <1>17. Len(data'[r]) >= 1
    BY <1>2, <1>12, <1>14
  <1> QED
    BY <1>3, <1>14, <1>15, <1>16, <1>17

LEMMA LaterPoint ==
  ASSUME TypeOK, NEW r \in Readers, ReadPoint(r), NEW c \in 1 .. sent,
         Begins(data[r], c), Continues(Stream, c, Len(data[r]))
  PROVE  /\ TypeOK' /\ Len(data'[r]) >= 1
         /\ pc'[r] = IF Len(data'[r]) < BodyLen THEN "points" ELSE "done"
         /\ Begins(data'[r], c) /\ Continues(Stream', c, Len(data'[r]))
         /\ Leaves(Stream, PointSize, Stream')
         /\ TextAfter(Stream, Len(data[r])) => TextAfter(Stream', Len(data'[r]))
  <1> DEFINE p == Taken(PointSize)
  <1>1. /\ pc[r] = "points" /\ Arrived(PointSize) /\ wire' = Rest(PointSize) /\ NextPoint(r, p)
        /\ UNCHANGED <<deviceVars, sent, command, window, chunk, used, count, ahead, late>>
        /\ sending' = sending
    BY DEF ReadPoint, deviceVars
  <1>2. PointSize \in Nat /\ PointSize >= 4 /\ BodyLen \in Nat
    BY Sizes
  <1>3. /\ Leaves(Stream, PointSize, Stream') /\ wire' \in Seq(Bytes) /\ Stream' \in Seq(Bytes)
        /\ p \in Seq(Bytes) /\ Len(p) = PointSize /\ p \o Stream' = Stream
    BY <1>1, <1>2, Left
  <1>4. /\ data[r] \in Seq(Bytes) /\ Len(data[r]) \in Nat /\ Len(data[r]) < BodyLen
        /\ Len(data[r]) + PointSize <= BodyLen
    <2>1. data[r] \in Seq(Bytes) /\ ReaderOK(r)
      BY DEF TypeOK
    <2>2. Len(data[r]) < BodyLen /\ Len(data[r]) \in WholePoints
      BY <1>1, <2>1 DEF ReaderOK, BodyLen
    <2>3. Len(data[r]) + PointSize \in WholePoints
      BY <2>2, WholePointsGrow
    <2>4. Len(data[r]) + PointSize \in 0 .. BodyLen
      BY <2>3, WholePointsGrow
    <2> QED
      BY <2>1, <2>2, <2>4, LenProperties
  <1> HIDE DEF p
  <1>5. /\ TypeOK' /\ data'[r] = data[r] \o p
        /\ Len(data'[r]) = Len(data[r]) + PointSize
        /\ pc'[r] = IF Len(data'[r]) < BodyLen THEN "points" ELSE "done"
    <2>1. pc[r] # "idle"
      BY <1>1
    <2> QED
      BY <1>1, <1>3, <1>4, <2>1, NextPointTypes
  <1>6. /\ Begins(data[r] \o p, c) /\ Continues(Stream', c, Len(data[r]) + PointSize)
        /\ TextAfter(p \o Stream', Len(data[r])) => TextAfter(Stream', Len(data[r]) + PointSize)
    <2> DEFINE u == Stream'  d == data[r]
    <2>1. u \in Seq(Bytes) /\ d \in Seq(Bytes) /\ Len(d) + PointSize <= BodyLen
      BY <1>3, <1>4
    <2>2. Continues(p \o u, c, Len(d)) /\ Begins(d, c)
      BY <1>3
    <2> HIDE DEF u, d
    <2>3. /\ Begins(d \o p, c) /\ Continues(u, c, Len(d) + PointSize)
          /\ TextAfter(p \o u, Len(d)) => TextAfter(u, Len(d) + PointSize)
      BY <1>3, <2>1, <2>2, PointTaken
    <2> QED
      BY <2>3 DEF u, d
  <1>7. Len(data'[r]) >= 1
    BY <1>2, <1>4, <1>5
  <1> QED
    BY <1>3, <1>5, <1>6, <1>7

------------------------------------------------------------------------------
(* Steps of the VNA, and a command *)

LEMMA AnswerBegins ==
  ASSUME TypeOK, BeginAnswer
  PROVE  /\ TypeOK' /\ Head(pending) \in 1 .. sent /\ Answer(Head(pending)) \in Seq(Bytes)
         /\ Stream' = Stream \o Answer(Head(pending))
         /\ \A r \in Readers : ReaderOK(r)'
  <1>1. /\ sending = <<>> /\ pending # <<>> /\ sending' = Answer(Head(pending))
        /\ pending' = Tail(pending)
        /\ UNCHANGED <<device, wire, sent, pc, command, window, chunk, used, count, data,
                       ahead, late>>
    BY DEF BeginAnswer, readerVars
  <1>2. Head(pending) \in 1 .. sent /\ Tail(pending) \in Seq(1 .. sent)
    <2>1. pending \in Seq(1 .. sent)
      BY DEF TypeOK
    <2> QED
      BY <1>1, <2>1, HeadTailProperties
  <1>3. Answer(Head(pending)) \in Seq(Bytes)
    BY <1>2, AnswerIs
  <1>4. Stream' = Stream \o Answer(Head(pending))
    <2> DEFINE a == Answer(Head(pending))
    <2>1. wire \in Seq(Bytes) /\ a \in Seq(Bytes)
      BY <1>3 DEF TypeOK
    <2>2. Stream = wire \o <<>> /\ Stream' = wire \o a
      BY <1>1 DEF Stream
    <2> HIDE DEF a
    <2>3. wire \o <<>> = wire
      BY <2>1, ConcatEmptySeq
    <2> QED
      BY <2>2, <2>3 DEF a
  <1>5. Bytes' = Bytes
    BY <1>1 DEF Bytes
  <1>6. ASSUME NEW q \in Readers PROVE ReaderOK(q)'
    BY <1>1, ReaderStays DEF TypeOK
  <1>7. TypeOK'
    BY <1>1, <1>2, <1>3, <1>5, <1>6 DEF TypeOK
  <1> QED
    BY <1>2, <1>3, <1>4, <1>6, <1>7

LEMMA ByteSent ==
  ASSUME TypeOK, SendByte
  PROVE  TypeOK' /\ Stream' = Stream
  <1>1. /\ sending # <<>> /\ wire' = Append(wire, Head(sending)) /\ sending' = Tail(sending)
        /\ UNCHANGED <<device, pending, sent, pc, command, window, chunk, used, count, data,
                       ahead, late>>
    BY DEF SendByte, readerVars
  <1>2. wire \in Seq(Bytes) /\ sending \in Seq(Bytes)
    BY DEF TypeOK
  <1>3. Stream' = Stream
    <2>1. Append(wire, Head(sending)) \o Tail(sending) = wire \o sending
      BY <1>1, <1>2, MoveOne
    <2> QED
      BY <1>1, <2>1 DEF Stream
  <1>4. wire' \in Seq(Bytes) /\ sending' \in Seq(Bytes)
    <2>1. Head(sending) \in Bytes /\ Tail(sending) \in Seq(Bytes)
      BY <1>1, <1>2, HeadTailProperties
    <2> QED
      BY <1>1, <1>2, <2>1, AppendProperties
  <1>5. Bytes' = Bytes
    BY <1>1 DEF Bytes
  <1>6. ASSUME NEW q \in Readers PROVE ReaderOK(q)'
    BY <1>1, ReaderStays DEF TypeOK
  <1>7. TypeOK'
    BY <1>1, <1>4, <1>5, <1>6 DEF TypeOK
  <1> QED
    BY <1>3, <1>7

LEMMA SeqGrows ==
  ASSUME NEW S, NEW T, S \subseteq T, NEW s \in Seq(S)
  PROVE  s \in Seq(T)
  BY LenProperties, ElementOfSeq, SeqDef

LEMMA CommandWritten ==
  ASSUME TypeOK, NEW r \in Readers, WriteCommand(r)
  PROVE  /\ TypeOK' /\ Stream' = Stream
         /\ command'[r] = sent + 1 /\ pc'[r] = "first" /\ ahead' = Len(Stream) + device.echo
         /\ pc[r] = "idle" /\ pending' = Append(pending, sent + 1)
  <1>1. /\ pc[r] = "idle" /\ sent < MaxPulls /\ sent' = sent + 1
        /\ pending' = Append(pending, sent + 1)
        /\ command' = Set(command, r, sent + 1)
        /\ ahead' = Len(wire) + Len(sending) + device.echo
        /\ pc' = Set(pc, r, "first") /\ data' = Set(data, r, <<>>)
        /\ UNCHANGED <<device, sending, wire, window, chunk, used, count, late>>
    BY DEF WriteCommand
  <1>2. MaxPulls \in Nat /\ sent \in Nat /\ device.echo \in Nat
    BY PullAssumption DEF TypeOK
  <1>3. sent' \in 0 .. MaxPulls /\ 1 .. sent \subseteq 1 .. sent' /\ sent + 1 \in 1 .. sent'
        /\ 0 .. sent \subseteq 0 .. sent' /\ sent + 1 \in 0 .. sent'
    BY <1>1, <1>2
  <1>4. Bytes \subseteq Bytes'
    <2> SUFFICES ASSUME NEW b \in Bytes PROVE b \in Bytes'
      OBVIOUS
    <2>1. CASE b = Byte("text", 0, 0)
      BY <2>1 DEF Bytes
    <2>2. CASE \E c \in 1 .. sent, k \in 1 .. 4 : b = Byte("header", c, k)
      <3>1. \E c \in 1 .. sent', k \in 1 .. 4 : b = Byte("header", c, k)
        BY <1>3, <2>2
      <3> QED
        BY <3>1 DEF Bytes
    <2>3. CASE \E c \in 1 .. sent, k \in 1 .. PointSize * Points : b = Byte("data", c, k)
      <3>1. \E c \in 1 .. sent', k \in 1 .. PointSize * Points : b = Byte("data", c, k)
        BY <1>3, <2>3
      <3> QED
        BY <3>1 DEF Bytes
    <2> QED
      BY <2>1, <2>2, <2>3 DEF Bytes
  <1>5. Seq(Bytes) \subseteq Seq(Bytes')
    <2> DEFINE S == Bytes  T == Bytes'
    <2>1. S \subseteq T
      BY <1>4
    <2> HIDE DEF S, T
    <2>2. \A s \in Seq(S) : s \in Seq(T)
      BY <2>1, SeqGrows
    <2> QED
      BY <2>2 DEF S, T
  <1>6. pending' \in Seq(1 .. sent')
    <2>1. pending \in Seq(1 .. sent)
      BY DEF TypeOK
    <2>2. pending \in Seq(1 .. sent')
      BY <1>3, <2>1, SeqGrows
    <2> DEFINE x == sent + 1  I == 1 .. sent'
    <2>3. x \in I /\ pending \in Seq(I)
      BY <1>3, <2>2
    <2> HIDE DEF x, I
    <2>4. Append(pending, x) \in Seq(I)
      BY <2>3, AppendProperties
    <2> QED
      BY <1>1, <2>4 DEF x, I
  <1>7. sending' \in Seq(Bytes)' /\ wire' \in Seq(Bytes)'
    BY <1>1, <1>5 DEF TypeOK
  <1>8. /\ window' \in [Readers -> Seq(Bytes)]' /\ chunk' \in [Readers -> Seq(Bytes)]'
    <2>1. window \in [Readers -> Seq(Bytes)] /\ chunk \in [Readers -> Seq(Bytes)]
      BY DEF TypeOK
    <2> QED
      BY ONLY <1>1, <1>5, <2>1
  <1>9. /\ data' \in [Readers -> Seq(Bytes)]' /\ data'[r] = <<>>
        /\ \A q \in Readers : q # r => data'[q] = data[q]
    <2>1. data \in [Readers -> Seq(Bytes)]
      BY DEF TypeOK
    <2>2. <<>> \in Seq(Bytes')
      BY EmptySeq
    <2> QED
      BY ONLY <1>1, <1>5, <2>1, <2>2, r \in Readers DEF Set
  <1>10. /\ command' \in [Readers -> 0 .. sent'] /\ command'[r] = sent + 1
         /\ \A q \in Readers : q # r => command'[q] = command[q]
    <2>1. command \in [Readers -> 0 .. sent]
      BY DEF TypeOK
    <2> QED
      BY ONLY <1>1, <1>3, <2>1, r \in Readers DEF Set
  <1>11. /\ pc' \in [Readers -> {"idle", "first", "search", "remainder", "points", "done"}]
         /\ pc'[r] = "first" /\ \A q \in Readers : q # r => pc'[q] = pc[q]
    <2>1. pc \in [Readers -> {"idle", "first", "search", "remainder", "points", "done"}]
      BY DEF TypeOK
    <2> QED
      BY ONLY <1>1, <2>1, r \in Readers DEF Set
  <1>12. ahead' \in Nat /\ ahead' = Len(Stream) + device.echo
    BY <1>1, <1>2, StreamIs
  <1>13. ASSUME NEW q \in Readers PROVE ReaderOK(q)'
    <2>1. ReaderOK(q)
      BY DEF TypeOK
    <2>2. CASE q = r
      <3>1. Len(data'[r]) \in WholePoints
        BY <1>9, SmallestPoint, EmptySeq
      <3>2. command'[r] # 0
        BY <1>2, <1>10
      <3> QED
        BY <1>9, <1>11, <2>2, <3>1, <3>2 DEF ReaderOK, WholePoints
    <2>3. CASE q # r
      BY <1>1, <1>9, <1>10, <1>11, <2>1, <2>3, ReaderStays
    <2> QED
      BY <2>2, <2>3
  <1>14. TypeOK'
    <2>1. /\ device' \in Devices
          /\ used' \in [Readers -> 0 .. PointSize]
          /\ count' \in [Readers -> 0 .. MaxBytes + PointSize]
      BY <1>1 DEF TypeOK
    <2>2. late' \in BOOLEAN
      BY <1>1 DEF TypeOK
    <2> QED
      BY <1>3, <1>6, <1>7, <1>8, <1>9, <1>10, <1>11, <1>12, <1>13, <2>1, <2>2 DEF TypeOK
  <1>15. Stream' = Stream
    BY <1>1 DEF Stream
  <1> QED
    BY <1>1, <1>10, <1>11, <1>12, <1>14, <1>15

LEMMA TypesKept == TypeOK /\ [Next]_vars => TypeOK'
  <1> SUFFICES ASSUME TypeOK, [Next]_vars PROVE TypeOK'
    OBVIOUS
  <1>1. CASE UNCHANGED vars
    <2>1. /\ UNCHANGED <<device, pending, sending, wire, sent, pc, command, window, chunk, used,
                         count, data, ahead, late>>
      BY <1>1 DEF vars, deviceVars, readerVars
    <2>2. Bytes' = Bytes
      BY <2>1 DEF Bytes
    <2>3. ASSUME NEW q \in Readers PROVE ReaderOK(q)'
      BY <2>1, ReaderStays DEF TypeOK
    <2> QED
      BY <2>1, <2>2, <2>3 DEF TypeOK
  <1>2. CASE BeginAnswer
    BY <1>2, AnswerBegins
  <1>3. CASE SendByte
    BY <1>3, ByteSent
  <1>4. ASSUME NEW r \in Readers, WriteCommand(r) PROVE TypeOK'
    BY <1>4, CommandWritten
  <1>5. ASSUME NEW r \in Readers, ReadFirst(r) PROVE TypeOK'
    BY <1>5, FirstRead
  <1>6. ASSUME NEW r \in Readers, SearchChunk(r) PROVE TypeOK'
    BY <1>6, ChunkRead
  <1>7. ASSUME NEW r \in Readers, Ends(r) PROVE TypeOK'
    <2>1. /\ pc' = Set(pc, r, "idle") /\ late' \in BOOLEAN
          /\ UNCHANGED <<deviceVars, sent, command, window, chunk, used, count, data, ahead>>
          /\ \E n \in Nat : Arrived(n) /\ wire' = Rest(n)
      BY <1>7, EndIs
    <2>2. wire' \in Seq(Bytes)
      BY <2>1, ReadTypes
    <2> QED
      BY <2>1, <2>2, TypesAtEnd
  <1>8. ASSUME NEW r \in Readers, ReadRemainder(r) PROVE TypeOK'
    <2> DEFINE n == used[r]  a == Kept(r)  b == Taken(n)
    <2>1. /\ pc[r] = "remainder" /\ Arrived(n) /\ wire' = Rest(n) /\ NextPoint(r, a \o b)
          /\ UNCHANGED <<deviceVars, sent, command, window, chunk, used, count, ahead, late>>
      BY <1>8 DEF ReadRemainder
    <2>2. /\ n \in 1 .. PointSize /\ data[r] = <<>> /\ PointSize \in Nat
          /\ chunk[r] \in Seq(Bytes) /\ Len(chunk[r]) = PointSize
      BY <2>1, Sizes DEF TypeOK, ReaderOK
    <2>3. b \in Seq(Bytes) /\ Len(b) = n /\ wire' \in Seq(Bytes)
      BY <2>1, <2>2, ReadTypes
    <2>4. a \in Seq(Bytes) /\ Len(a) = PointSize - n
      <3>1. n \in 0 .. Len(chunk[r]) /\ a = SubSeq(chunk[r], n + 1, Len(chunk[r]))
        BY <2>2 DEF Kept
      <3> HIDE DEF n, a
      <3> QED
        BY <2>2, <3>1, TakenAndRest
    <2> HIDE DEF n, a, b
    <2>5. a \o b \in Seq(Bytes) /\ Len(a \o b) = PointSize
      BY <2>2, <2>3, <2>4, ConcatProperties
    <2>6. pc[r] # "idle" /\ Len(data[r]) < BodyLen
      BY <2>1, <2>2, Sizes, EmptySeq
    <2> QED
      BY <2>1, <2>3, <2>5, <2>6, NextPointTypes
  <1>9. ASSUME NEW r \in Readers, ReadPoint(r) PROVE TypeOK'
    <2>1. /\ pc[r] = "points" /\ Arrived(PointSize) /\ wire' = Rest(PointSize)
          /\ NextPoint(r, Taken(PointSize))
          /\ UNCHANGED <<deviceVars, sent, command, window, chunk, used, count, ahead, late>>
      BY <1>9 DEF ReadPoint
    <2>2. /\ Taken(PointSize) \in Seq(Bytes) /\ Len(Taken(PointSize)) = PointSize
          /\ wire' \in Seq(Bytes)
      BY <2>1, Sizes, ReadTypes
    <2>3. pc[r] # "idle" /\ Len(data[r]) < BodyLen
      BY <2>1 DEF TypeOK, ReaderOK, BodyLen
    <2> QED
      BY <2>1, <2>2, <2>3, NextPointTypes
  <1> QED
    BY <1>1, <1>2, <1>3, <1>4, <1>5, <1>6, <1>7, <1>8, <1>9 DEF Next, Reading, Ends

------------------------------------------------------------------------------
(* What has been read is a piece of one answer *)

LEMMA WholeRead ==
  ASSUME TypeOK, NEW r \in Readers, Arrived(PointSize), wire' = Rest(PointSize),
         UNCHANGED deviceVars, chunk'[r] = Taken(PointSize)
  PROVE  /\ chunk'[r] \o Stream' = Stream
         /\ Stream' \in Seq(Bytes) /\ Leaves(Stream, PointSize, Stream')
         /\ chunk'[r] \in Seq(Bytes) /\ Len(chunk'[r]) = PointSize
         /\ \A k \in 1 .. PointSize : chunk'[r][k] = Stream[k]
  <1>1. PointSize \in Nat /\ sending' = sending
    BY Sizes DEF deviceVars
  <1> QED
    BY <1>1, Left

LEMMA EndOfWindow ==
  ASSUME TypeOK, NEW w, IsHeader(w), w[4] \in Bytes
  PROVE  \E c \in 1 .. sent : w[4] = Item(c, 4)
  <1>1. w[4].kind = "header" /\ w[4].pos = 4
    BY DEF IsHeader
  <1> QED
    BY <1>1, HeaderEnd

LEMMA PieceKept ==
  ASSUME NEW r, Readers = {r}, TypeOK, PieceOfAnswer(r), [Next]_vars
  PROVE  PieceOfAnswer(r)'
  <1>0. /\ r \in Readers /\ TypeOK' /\ Stream \in Seq(Bytes) /\ Len(Stream) \in Nat
        /\ chunk[r] \in Seq(Bytes)
    BY TypesKept, StreamIs DEF TypeOK
  <1>1. CASE UNCHANGED vars
    <2>1. UNCHANGED <<wire, sending, sent, pc, chunk, used, data>>
      BY <1>1 DEF vars, deviceVars, readerVars
    <2>2. Stream' = Stream
      BY <2>1 DEF Stream
    <2> QED
      BY <2>1, <2>2 DEF PieceOfAnswer
  <1>2. CASE BeginAnswer
    <2> DEFINE a == Answer(Head(pending))
    <2>1. UNCHANGED <<sent, pc, chunk, used, data>>
      BY <1>2 DEF BeginAnswer, readerVars
    <2>2. a \in Seq(Bytes) /\ Stream' = Stream \o a /\ Whole(a)
      <3>1. Head(pending) \in 1 .. sent /\ a \in Seq(Bytes) /\ Stream' = Stream \o a
        BY <1>2, AnswerBegins
      <3>2. Placed(a, Head(pending), device.echo) /\ device.echo \in Nat /\ Len(a) \in Nat
        BY <3>1, AnswerIs, LenProperties
      <3> HIDE DEF a
      <3>3. Whole(a)
        BY <3>2, PlacedIsWhole
      <3> QED
        BY <3>1, <3>3
    <2> HIDE DEF a
    <2>3. Whole(Stream')
      <3> DEFINE t == Stream
      <3>1. t \in Seq(Bytes) /\ Whole(t)
        BY <1>0 DEF PieceOfAnswer
      <3> HIDE DEF t
      <3>2. Whole(t \o a)
        BY <2>2, <3>1, JoinWhole
      <3> QED
        BY <2>2, <3>2 DEF t
    <2>4. ASSUME pc[r] \in {"search", "remainder"} PROVE Whole(chunk'[r] \o Stream')
      <3> DEFINE t == Stream  w == chunk[r]
      <3>1. t \in Seq(Bytes) /\ w \in Seq(Bytes) /\ Whole(w \o t)
        BY <1>0, <2>4 DEF PieceOfAnswer
      <3> HIDE DEF t, w
      <3>2. w \o t \in Seq(Bytes) /\ (w \o t) \o a = w \o (t \o a)
        BY <2>2, <3>1, ConcatProperties, ConcatAssociative
      <3>3. Whole((w \o t) \o a)
        <4> DEFINE x == w \o t
        <4>1. x \in Seq(Bytes) /\ Whole(x)
          BY <3>1, <3>2
        <4> HIDE DEF x
        <4>2. Whole(x \o a)
          BY <2>2, <4>1, JoinWhole
        <4> QED
          BY <4>2 DEF x
      <3>4. Whole(w \o (t \o a))
        BY <3>2, <3>3
      <3> QED
        BY <2>1, <2>2, <3>4 DEF t, w
    <2>5. ASSUME pc[r] = "points", NEW c \in 1 .. sent,
                 Begins(data[r], c), Continues(Stream, c, Len(data[r]))
          PROVE  Continues(Stream', c, Len(data[r]))
      <3> DEFINE t == Stream  l == Len(data[r])
      <3>1. /\ t \in Seq(Bytes) /\ Continues(t, c, l)
            /\ l \in Nat /\ BodyLen \in Nat
        BY <1>0, <2>5, Sizes, LenProperties DEF TypeOK
      <3> HIDE DEF t, l
      <3>2. /\ Len(t) \in Nat /\ Len(a) \in Nat /\ Len(t \o a) = Len(t) + Len(a)
            /\ \A k \in 1 .. Len(t) : (t \o a)[k] = t[k]
        BY <2>2, <3>1, Joined, LenProperties
      <3>3. ASSUME NEW m \in l+1 .. BodyLen
            PROVE  m - l <= Len(t \o a) /\ (t \o a)[m - l] = Item(c, 4 + m)
        <4>1. m - l <= Len(t) /\ t[m - l] = Item(c, 4 + m)
          BY <3>1 DEF Continues
        <4>2. m - l \in 1 .. Len(t)
          BY <3>1, <3>2, <4>1
        <4> QED
          BY <3>2, <4>1, <4>2
      <3>4. Continues(t \o a, c, l)
        BY <3>3 DEF Continues
      <3> QED
        BY <2>2, <3>4 DEF t, l
    <2>6. pc'[r] = "points" =>
            \E c \in 1 .. sent' : Begins(data'[r], c) /\ Continues(Stream', c, Len(data'[r]))
      BY <2>1, <2>5 DEF PieceOfAnswer
    <2> QED
      BY <2>1, <2>3, <2>4, <2>6 DEF PieceOfAnswer
  <1>3. CASE SendByte
    <2>1. UNCHANGED <<sent, pc, chunk, used, data>>
      BY <1>3 DEF SendByte, readerVars
    <2>2. Stream' = Stream
      BY <1>3, ByteSent
    <2> QED
      BY <2>1, <2>2 DEF PieceOfAnswer
  <1>4. CASE WriteCommand(r)
    <2>1. pc'[r] = "first" /\ Stream' = Stream
      BY <1>0, <1>4, CommandWritten
    <2> QED
      BY <2>1 DEF PieceOfAnswer
  <1>5. CASE Ends(r)
    <2>1. PICK n \in Nat : Arrived(n) /\ wire' = Rest(n)
      BY <1>0, <1>5, EndIs
    <2>2. pc'[r] = "idle" /\ sending' = sending
      <3>1. pc' = Set(pc, r, "idle") /\ UNCHANGED deviceVars
        BY <1>0, <1>5, EndIs
      <3> QED
        BY <1>0, <3>1 DEF Set, deviceVars, TypeOK
    <2>3. Leaves(Stream, n, Stream') /\ Whole(Stream)
      BY <2>1, <2>2, Left DEF PieceOfAnswer
    <2>4. Whole(Stream')
      <3> DEFINE t == Stream  u == Stream'
      <3>1. Leaves(t, n, u) /\ Whole(t)
        BY <2>3
      <3> HIDE DEF t, u
      <3>2. Whole(u)
        BY <3>1, RestOfWhole
      <3> QED
        BY <3>2 DEF u
    <2> QED
      BY <2>2, <2>4 DEF PieceOfAnswer
  <1>6. ASSUME ReadFirst(r) \/ SearchChunk(r) PROVE PieceOfAnswer(r)'
    <2>1. /\ Arrived(PointSize) /\ wire' = Rest(PointSize) /\ UNCHANGED deviceVars
          /\ sent' = sent
      BY <1>6 DEF ReadFirst, SearchChunk
    <2>2. chunk'[r] = Taken(PointSize)
      BY <1>0, <1>6, FirstRead, ChunkRead
    <2>3. /\ chunk'[r] \o Stream' = Stream /\ Leaves(Stream, PointSize, Stream')
          /\ chunk'[r] \in Seq(Bytes) /\ Len(chunk'[r]) = PointSize
          /\ Whole(Stream)
      BY <1>0, <2>1, <2>2, WholeRead DEF PieceOfAnswer
    <2>4. Whole(Stream')
      <3> DEFINE t == Stream  u == Stream'
      <3>1. Leaves(t, PointSize, u) /\ Whole(t)
        BY <2>3
      <3> HIDE DEF t, u
      <3>2. Whole(u)
        BY <3>1, RestOfWhole
      <3> QED
        BY <3>2 DEF u
    <2>5. /\ pc'[r] \in {"search", "remainder"}
          /\ pc'[r] = "remainder" => /\ IsHeader(window'[r])
                                     /\ window'[r][4] = chunk'[r][used'[r]]
                                     /\ used'[r] \in 1 .. PointSize
      <3>1. CASE ReadFirst(r)
        <4>1. /\ chunk'[r] = Taken(PointSize) /\ window'[r] = Taken(4) /\ used'[r] = 4
              /\ pc'[r] = IF IsHeader(Taken(4)) THEN "remainder" ELSE "search"
              /\ \A k \in 1 .. 4 : Taken(4)[k] = Stream[k]
          BY <1>0, <3>1, FirstRead
        <4>2. \A k \in 1 .. PointSize : Taken(PointSize)[k] = Stream[k]
          BY <1>0, <2>1, <2>2, WholeRead
        <4>3. 4 \in 1 .. PointSize /\ 4 \in 1 .. 4
          BY Sizes
        <4> QED
          BY <4>1, <4>2, <4>3
      <3>2. CASE SearchChunk(r)
        <4> DEFINE bytes == Taken(PointSize)
        <4>1. PICK i \in 1 .. PointSize :
                /\ used'[r] = i /\ window'[r] = Window(window[r], bytes, i)
                /\ IF IsHeader(window'[r]) THEN pc'[r] = "remainder"
                   ELSE pc'[r] = "search" /\ i = PointSize
          BY <1>0, <3>2, ChunkRead
        <4>2. /\ window[r] \in Seq(Bytes) /\ Len(window[r]) = 4
              /\ bytes \in Seq(Bytes) /\ i \in 1 .. Len(bytes)
          <5>1. pc[r] = "search"
            BY <3>2 DEF SearchChunk
          <5> QED
            BY <1>0, <2>2, <2>3, <5>1 DEF TypeOK, ReaderOK
        <4> HIDE DEF bytes
        <4>3. \A j \in 1 .. 4 :
                Window(window[r], bytes, i)[j]
                  = IF i + j <= 4 THEN window[r][i + j] ELSE bytes[i + j - 4]
          BY <4>2, WindowIs
        <4>4. i + 4 - 4 = i /\ ~(i + 4 <= 4) /\ 4 \in 1 .. 4
          OBVIOUS
        <4>5. Window(window[r], bytes, i)[4] = bytes[i]
          BY <4>3, <4>4
        <4> QED
          BY <2>2, <4>1, <4>5 DEF bytes
      <3> QED
        BY <1>6, <3>1, <3>2
    <2>6. pc'[r] = "remainder" => \E c \in 1 .. sent' : chunk'[r][used'[r]] = Item(c, 4)
      <3> SUFFICES ASSUME pc'[r] = "remainder"
                   PROVE  \E c \in 1 .. sent' : chunk'[r][used'[r]] = Item(c, 4)
        OBVIOUS
      <3>1. chunk'[r][used'[r]] \in Bytes
        BY <2>3, <2>5, ElementOfSeq
      <3>2. IsHeader(window'[r]) /\ window'[r][4] \in Bytes
        BY <2>5, <3>1
      <3>3. \E c \in 1 .. sent : window'[r][4] = Item(c, 4)
        BY <3>2, EndOfWindow
      <3> QED
        BY <2>1, <2>5, <3>3
    <2>7. Whole(chunk'[r] \o Stream')
      BY <2>3
    <2>8. pc'[r] # "points" /\ pc'[r] # "done"
      BY <2>5
    <2> QED
      BY <2>4, <2>6, <2>7, <2>8 DEF PieceOfAnswer
  <1>7. ASSUME ReadRemainder(r) \/ ReadPoint(r) PROVE PieceOfAnswer(r)'
    <2>1. sent' = sent /\ pc[r] \in {"remainder", "points"}
      BY <1>7 DEF ReadRemainder, ReadPoint
    <2>2. \E n \in Nat, c \in 1 .. sent :
            /\ pc'[r] = IF Len(data'[r]) < BodyLen THEN "points" ELSE "done"
            /\ Begins(data'[r], c) /\ Continues(Stream', c, Len(data'[r]))
            /\ Leaves(Stream, n, Stream')
      <3>1. CASE ReadRemainder(r)
        <4>1. /\ pc[r] = "remainder" /\ Whole(chunk[r] \o Stream)
              /\ \E c \in 1 .. sent : chunk[r][used[r]] = Item(c, 4)
          BY <3>1 DEF ReadRemainder, PieceOfAnswer
        <4>2. used[r] \in Nat
          BY <1>0, Sizes DEF TypeOK
        <4> QED
          BY <1>0, <3>1, <4>1, <4>2, FirstPoint
      <3>2. CASE ReadPoint(r)
        <4>1. \E c \in 1 .. sent : Begins(data[r], c) /\ Continues(Stream, c, Len(data[r]))
          BY <3>2 DEF ReadPoint, PieceOfAnswer
        <4>2. PointSize \in Nat
          BY Sizes
        <4> QED
          BY <1>0, <3>2, <4>1, <4>2, LaterPoint
      <3> QED
        BY <1>7, <3>1, <3>2
    <2>3. PICK n \in Nat, c \in 1 .. sent :
            /\ pc'[r] = IF Len(data'[r]) < BodyLen THEN "points" ELSE "done"
            /\ Begins(data'[r], c) /\ Continues(Stream', c, Len(data'[r]))
            /\ Leaves(Stream, n, Stream')
      BY <2>2
    <2>4. Whole(Stream')
      <3> DEFINE t == Stream  u == Stream'
      <3>1. Leaves(t, n, u) /\ Whole(t)
        BY <2>3 DEF PieceOfAnswer
      <3> HIDE DEF t, u
      <3>2. Whole(u)
        BY <3>1, RestOfWhole
      <3> QED
        BY <3>2 DEF u
    <2>5. pc'[r] = "done" => data'[r] = Body(c)
      <3> SUFFICES ASSUME pc'[r] = "done" PROVE data'[r] = Body(c)
        OBVIOUS
      <3>1. ~(Len(data'[r]) < BodyLen)
        BY <2>3
      <3> DEFINE d == data'[r]
      <3>2. d \in Seq(Bytes') /\ Len(d) \in WholePoints
        <4>1. ReaderOK(r)' /\ data' \in [Readers -> Seq(Bytes')]
          BY <1>0 DEF TypeOK
        <4> QED
          BY <1>0, <4>1 DEF ReaderOK, WholePoints
      <3>3. Begins(d, c) /\ ~(Len(d) < BodyLen)
        BY <2>3, <3>1
      <3> HIDE DEF d
      <3>4. Len(d) = BodyLen
        BY <3>2, <3>3, WholePointsGrow, Sizes
      <3>5. d = Body(c)
        BY <3>2, <3>3, <3>4, DataIsBody
      <3> QED
        BY <3>5 DEF d
    <2>6. pc'[r] \in {"points", "done"}
      BY <2>3
    <2>7. Body(c)' = Body(c)
      BY DEF Body, Byte
    <2> QED
      BY <2>1, <2>3, <2>4, <2>5, <2>6, <2>7 DEF PieceOfAnswer
  <1> QED
    BY <1>1, <1>2, <1>3, <1>4, <1>5, <1>6, <1>7 DEF Next, Reading, Ends

------------------------------------------------------------------------------
(* Until a pull has failed, the answer is the reader's own *)

(* The answer that was expected has begun.                                   *)
LEMMA ExpectedBegins ==
  ASSUME TypeOK, NEW s \in Seq(Bytes), NEW c, NEW h, Expected(s, c, h), BeginAnswer
  PROVE  /\ pending' = <<>> /\ Head(pending) = c
         /\ Placed(s \o Answer(c), c, h)
  <1>1. pending # <<>> /\ pending' = Tail(pending) /\ sending' = Answer(Head(pending))
    BY DEF BeginAnswer
  <1>2. pending = <<c>> /\ AllText(s) /\ h = Len(s) + device.echo
    BY <1>1 DEF Expected
  <1>3. Head(pending) = c /\ Tail(pending) = <<>>
    BY <1>2
  <1>4. c \in 1 .. sent
    BY <1>3, AnswerBegins
  <1> DEFINE a == Answer(c)  e == device.echo
  <1>5. a \in Seq(Bytes) /\ Placed(a, c, e) /\ e \in Nat
    BY <1>4, AnswerIs
  <1> HIDE DEF a, e
  <1>6. Placed(s \o a, c, Len(s) + e)
    BY <1>2, <1>5, JoinPlaced
  <1> QED
    BY <1>1, <1>2, <1>3, <1>6 DEF a, e

(* What is left when the first n bytes, which are no header, have been read. *)
LEMMA ExpectedLeft ==
  ASSUME NEW s, NEW n, NEW u, Leaves(s, n, u), NEW c, NEW h \in Int, Expected(s, c, h),
         device.echo \in Nat
  PROVE  Expected(u, c, h - n)
  <1>1. n \in Nat /\ Len(s) \in Nat /\ Len(u) = Len(s) - n
    BY DEF Leaves
  <1>2. CASE pending = <<c>> /\ AllText(s) /\ h = Len(s) + device.echo
    <2>1. AllText(u)
      BY <1>2, RestOfText
    <2>2. h - n = Len(u) + device.echo
      BY <1>1, <1>2
    <2> QED
      BY <1>2, <2>1, <2>2 DEF Expected
  <1>3. CASE pending = <<>> /\ Placed(s, c, h)
    BY <1>3, RestOfPlaced DEF Expected
  <1> QED
    BY <1>2, <1>3 DEF Expected

(* Where the header ends, the answer has been placed.                        *)
LEMMA HeaderExpected ==
  ASSUME NEW s, Len(s) \in Nat, NEW c, NEW h \in Int, Expected(s, c, h),
         NEW k \in 1 .. Len(s), NEW d, s[k] = Item(d, 4)
  PROVE  pending = <<>> /\ Placed(s, c, h) /\ d = c /\ k = h + 4
  <1>1. ~AllText(s)
    <2>1. s[k] # TextByte
      BY ItemsDiffer
    <2> QED
      BY <2>1 DEF AllText
  <1>2. pending = <<>> /\ Placed(s, c, h)
    BY <1>1 DEF Expected
  <1> QED
    BY <1>2, HeaderEndIs

LEMMA CountsAre ==
  ASSUME TypeOK, NEW r \in Readers
  PROVE  /\ ahead \in Nat /\ count[r] \in Nat /\ Skipped(r) \in Int /\ ahead - Skipped(r) \in Int
         /\ device.echo \in Nat /\ HeaderAt(r) \in Int
         /\ HeaderAt(r) = ahead - Skipped(r) - PointSize
  <1>1. MaxBytes \in Nat /\ PointSize \in Nat
    BY PullAssumption
  <1>2. ahead \in Nat /\ count[r] \in Nat /\ device.echo \in Nat
    BY <1>1, PullAssumption DEF TypeOK
  <1> QED
    BY <1>1, <1>2 DEF Skipped, HeaderAt

LEMMA OwnKept ==
  ASSUME NEW r, Readers = {r}, TypeOK, PieceOfAnswer(r), ~late, OwnAnswer(r),
         [Next]_vars, ~late'
  PROVE  OwnAnswer(r)'
  <1>0. /\ r \in Readers /\ TypeOK' /\ Stream \in Seq(Bytes) /\ Len(Stream) \in Nat
        /\ chunk[r] \in Seq(Bytes) /\ Len(chunk[r]) \in Nat
        /\ chunk[r] \o Stream \in Seq(Bytes) /\ PieceOfAnswer(r)'
    <2>1. r \in Readers /\ TypeOK' /\ PieceOfAnswer(r)'
      BY TypesKept, PieceKept
    <2>2. Stream \in Seq(Bytes) /\ Len(Stream) \in Nat
      BY StreamIs
    <2>3. chunk[r] \in Seq(Bytes) /\ Len(chunk[r]) \in Nat
      BY <2>1, LenProperties DEF TypeOK
    <2> DEFINE t == Stream  w == chunk[r]
    <2>4. t \in Seq(Bytes) /\ w \in Seq(Bytes)
      BY <2>2, <2>3
    <2> HIDE DEF t, w
    <2>5. w \o t \in Seq(Bytes)
      BY <2>4, ConcatProperties
    <2> QED
      BY <2>1, <2>2, <2>3, <2>5 DEF t, w
  <1>1. CASE UNCHANGED vars
    <2>1. UNCHANGED <<device, pending, wire, sending, sent, pc, command, chunk, used, count,
                      data, ahead>>
      BY <1>1 DEF vars, deviceVars, readerVars
    <2>2. Stream' = Stream
      BY <2>1 DEF Stream
    <2>3. Skipped(r)' = Skipped(r)
      BY <2>1 DEF Skipped
    <2> QED
      BY <2>1, <2>2, <2>3 DEF OwnAnswer, Expected
  <1>2. CASE BeginAnswer
    <2>1. /\ UNCHANGED <<device, sent, pc, command, chunk, used, count, data, ahead>>
          /\ pending # <<>>
      BY <1>2 DEF BeginAnswer, readerVars
    <2>2. Stream' = Stream \o Answer(Head(pending)) /\ Answer(Head(pending)) \in Seq(Bytes)
      BY <1>2, AnswerBegins
    <2>3. pc[r] \in {"first", "search", "remainder"}
      <3>1. pc[r] \in {"idle", "first", "search", "remainder", "points", "done"}
        BY <1>0 DEF TypeOK
      <3>2. pc[r] # "done"
        BY <2>1 DEF OwnAnswer
      <3> QED
        BY <2>1, <3>1, <3>2 DEF OwnAnswer
    <2>4. CASE pc[r] = "first"
      <3>1. Expected(Stream, command[r], ahead)
        BY <2>4 DEF OwnAnswer
      <3> DEFINE t == Stream
      <3>2. t \in Seq(Bytes) /\ Expected(t, command[r], ahead)
        BY <1>0, <3>1
      <3> HIDE DEF t
      <3>3. /\ pending' = <<>> /\ Head(pending) = command[r]
            /\ Placed(t \o Answer(command[r]), command[r], ahead)
        BY <1>2, <3>2, ExpectedBegins
      <3>4. Placed(Stream', command[r], ahead)
        BY <2>2, <3>3 DEF t
      <3>5. Expected(Stream, command[r], ahead)'
        BY <2>1, <3>3, <3>4 DEF Expected
      <3> QED
        BY <2>1, <2>4, <3>5 DEF OwnAnswer
    <2>5. CASE pc[r] \in {"search", "remainder"}
      <3> DEFINE x == chunk[r] \o Stream  h == ahead - Skipped(r)
      <3>1. x \in Seq(Bytes) /\ Expected(x, command[r], h)
        BY <1>0, <2>5 DEF OwnAnswer
      <3> HIDE DEF x, h
      <3>2. /\ pending' = <<>> /\ Head(pending) = command[r]
            /\ Placed(x \o Answer(command[r]), command[r], h)
        BY <1>2, <3>1, ExpectedBegins
      <3>3. x \o Answer(command[r]) = chunk'[r] \o Stream'
        <4> DEFINE t == Stream  w == chunk[r]  a == Answer(command[r])
        <4>1. t \in Seq(Bytes) /\ w \in Seq(Bytes) /\ a \in Seq(Bytes)
          BY <1>0, <2>2, <3>2
        <4>2. chunk'[r] = w /\ Stream' = t \o a /\ x = w \o t
          BY <2>1, <2>2, <3>2 DEF x
        <4> HIDE DEF t, w, a
        <4>3. (w \o t) \o a = w \o (t \o a)
          BY <4>1, ConcatAssociative
        <4> QED
          BY <4>2, <4>3 DEF a
      <3>4. h = (ahead - Skipped(r))'
        BY <2>1 DEF h, Skipped
      <3>5. Expected(chunk[r] \o Stream, command[r], ahead - Skipped(r))'
        BY <2>1, <3>2, <3>3, <3>4 DEF Expected
      <3> QED
        BY <2>1, <2>5, <3>5 DEF OwnAnswer
    <2> QED
      BY <2>3, <2>4, <2>5
  <1>3. CASE SendByte
    <2>1. UNCHANGED <<device, pending, sent, pc, command, chunk, used, count, data, ahead>>
      BY <1>3 DEF SendByte, readerVars
    <2>2. Stream' = Stream
      BY <1>3, ByteSent
    <2>3. Skipped(r)' = Skipped(r)
      BY <2>1 DEF Skipped
    <2> QED
      BY <2>1, <2>2, <2>3 DEF OwnAnswer, Expected
  <1>4. CASE WriteCommand(r)
    <2>1. /\ command'[r] = sent + 1 /\ pc'[r] = "first" /\ ahead' = Len(Stream) + device.echo
          /\ pc[r] = "idle" /\ pending' = Append(pending, sent + 1) /\ Stream' = Stream
      BY <1>0, <1>4, CommandWritten
    <2>2. pending = <<>> /\ AllText(Stream) /\ device' = device
      BY <1>4, <2>1 DEF OwnAnswer, WriteCommand
    <2>3. pending' = <<command'[r]>>
      BY <2>1, <2>2
    <2>4. Expected(Stream, command[r], ahead)'
      BY <2>1, <2>2, <2>3 DEF Expected
    <2> QED
      BY <2>1, <2>4 DEF OwnAnswer
  <1>5. CASE Ends(r)
    <2>1. /\ pc' = Set(pc, r, "idle") /\ pc[r] = "done" /\ wire' = wire
          /\ UNCHANGED deviceVars
      <3>1. late' \in BOOLEAN /\ (late' = FALSE => pc[r] = "done" /\ wire' = wire)
            /\ pc' = Set(pc, r, "idle") /\ UNCHANGED deviceVars
        BY <1>0, <1>5, EndIs
      <3>2. late' = FALSE
        BY <3>1, Zenon
      <3> QED
        BY <3>1, <3>2, Zenon
    <2>2. pending' = <<>> /\ AllText(Stream')
      BY <2>1 DEF OwnAnswer, Stream, deviceVars
    <2>3. pc'[r] = "idle"
      BY <1>0, <2>1 DEF Set, TypeOK
    <2> QED
      BY <2>2, <2>3 DEF OwnAnswer
  <1>6. ASSUME ReadFirst(r) \/ SearchChunk(r) PROVE OwnAnswer(r)'
    <2>1. /\ Arrived(PointSize) /\ wire' = Rest(PointSize) /\ UNCHANGED deviceVars
          /\ UNCHANGED <<command, ahead>> /\ device' = device /\ pending' = pending
      BY <1>6 DEF ReadFirst, SearchChunk, deviceVars
    <2>2. chunk'[r] = Taken(PointSize) /\ pc'[r] \in {"search", "remainder"}
      BY <1>0, <1>6, FirstRead, ChunkRead
    <2>3. chunk'[r] \o Stream' = Stream
      BY <1>0, <2>1, <2>2, WholeRead
    <2>4. Expected(Stream, command[r], (ahead - Skipped(r))')
      <3>1. CASE ReadFirst(r)
        <4>1. count'[r] = 4 /\ pc[r] = "first"
          BY <1>0, <3>1, FirstRead DEF ReadFirst
        <4>2. (ahead - Skipped(r))' = ahead
          BY <1>0, <2>1, <4>1, CountsAre DEF Skipped
        <4> QED
          BY <4>1, <4>2 DEF OwnAnswer
      <3>2. CASE SearchChunk(r)
        <4>1. count'[r] = count[r] + PointSize /\ pc[r] = "search"
          BY <1>0, <3>2, ChunkRead DEF SearchChunk
        <4>2. (ahead - Skipped(r))' = ahead - Skipped(r) - PointSize
          BY <1>0, <2>1, <4>1, CountsAre, Sizes DEF Skipped
        <4> DEFINE x == chunk[r] \o Stream  t == Stream  h == ahead - Skipped(r)
        <4>3. Expected(x, command[r], h) /\ h \in Int /\ device.echo \in Nat
          BY <1>0, <4>1, CountsAre DEF OwnAnswer
        <4>4. Leaves(x, PointSize, t)
          <5> DEFINE w == chunk[r]
          <5>1. w \in Seq(Bytes) /\ t \in Seq(Bytes) /\ Len(w) = PointSize
            BY <1>0, <4>1 DEF TypeOK, ReaderOK
          <5> HIDE DEF w, t
          <5>2. /\ Len(w \o t) = Len(w) + Len(t)
                /\ \A k \in Len(w)+1 .. Len(w)+Len(t) : (w \o t)[k] = t[k - Len(w)]
                /\ Len(w) \in Nat /\ Len(t) \in Nat
            BY <5>1, Joined, LenProperties
          <5>3. ASSUME NEW k \in 1 .. Len(w \o t) - PointSize PROVE t[k] = (w \o t)[PointSize + k]
            <6> DEFINE j == PointSize + k
            <6>1. j \in Len(w)+1 .. Len(w)+Len(t) /\ j - Len(w) = k
              BY <5>1, <5>2
            <6> HIDE DEF j
            <6>2. (w \o t)[j] = t[j - Len(w)]
              BY <5>2, <6>1
            <6> QED
              BY <6>1, <6>2 DEF j
          <5>4. Leaves(w \o t, PointSize, t)
            BY <5>1, <5>2, <5>3 DEF Leaves
          <5> QED
            BY <5>4 DEF w, t
        <4> HIDE DEF x, t, h
        <4>5. Expected(t, command[r], h - PointSize)
          BY <4>3, <4>4, ExpectedLeft
        <4> QED
          BY <4>2, <4>5 DEF t, h
      <3> QED
        BY <1>6, <3>1, <3>2
    <2>5. Expected(chunk[r] \o Stream, command[r], ahead - Skipped(r))'
      BY <2>1, <2>3, <2>4 DEF Expected
    <2> QED
      BY <2>2, <2>5 DEF OwnAnswer
  <1>7. ASSUME ReadRemainder(r) \/ ReadPoint(r) PROVE OwnAnswer(r)'
    <2>1. UNCHANGED <<device, pending, sending, command>>
      BY <1>7 DEF ReadRemainder, ReadPoint, deviceVars
    <2>2. /\ pending = <<>> /\ Begins(data'[r], command[r]) /\ Len(data'[r]) >= 1
          /\ TextAfter(Stream', Len(data'[r]))
          /\ pc'[r] = IF Len(data'[r]) < BodyLen THEN "points" ELSE "done"
      <3>1. CASE ReadRemainder(r)
        <4> DEFINE w == chunk[r]  t == Stream  x == w \o t  n == used[r]
        <4>1. pc[r] = "remainder" /\ Whole(x) /\ Len(w) = PointSize /\ n \in 1 .. PointSize
          <5>1. pc[r] = "remainder"
            BY <3>1 DEF ReadRemainder
          <5>2. n # 0 /\ Len(w) = PointSize
            BY <1>0, <5>1 DEF TypeOK, ReaderOK
          <5>3. n \in 0 .. PointSize
            BY <1>0 DEF TypeOK
          <5> QED
            BY <5>1, <5>2, <5>3, Sizes DEF PieceOfAnswer
        <4>2. PICK c \in 1 .. sent : w[n] = Item(c, 4)
          BY <4>1 DEF PieceOfAnswer
        <4> DEFINE h == ahead - Skipped(r)
        <4>3. Expected(x, command[r], h) /\ h \in Int
          BY <1>0, <4>1, CountsAre DEF OwnAnswer
        <4>4. x[n] = Item(c, 4) /\ n \in 1 .. Len(x) /\ Len(x) \in Nat
          <5>1. w \in Seq(Bytes) /\ t \in Seq(Bytes)
            BY <1>0
          <5> HIDE DEF w, t, n
          <5>2. /\ Len(w \o t) = Len(w) + Len(t) /\ Len(w) \in Nat /\ Len(t) \in Nat
                /\ \A k \in 1 .. Len(w) : (w \o t)[k] = w[k]
            BY <5>1, Joined, LenProperties
          <5> QED
            BY <4>1, <4>2, <5>2
        <4>5. pending = <<>> /\ Placed(x, command[r], h) /\ c = command[r] /\ n = h + 4
          <5> HIDE DEF x, h, n
          <5> QED
            BY <4>3, <4>4, HeaderExpected
        <4>6. /\ Len(data'[r]) >= 1 /\ Begins(data'[r], c)
              /\ pc'[r] = IF Len(data'[r]) < BodyLen THEN "points" ELSE "done"
              /\ \A i \in Int : Placed(chunk[r] \o Stream, c, i) /\ used[r] = i + 4
                                  => TextAfter(Stream', Len(data'[r]))
          BY <1>0, <3>1, <4>1, <4>2, FirstPoint
        <4>7. TextAfter(Stream', Len(data'[r]))
          BY <4>3, <4>5, <4>6
        <4> QED
          BY <4>5, <4>6, <4>7
      <3>2. CASE ReadPoint(r)
        <4>1. /\ pc[r] = "points" /\ pending = <<>> /\ Begins(data[r], command[r])
              /\ Len(data[r]) >= 1
              /\ TextAfter(Stream, Len(data[r]))
          BY <3>2 DEF ReadPoint, OwnAnswer, TextAfter
        <4>2. PICK c \in 1 .. sent : Begins(data[r], c) /\ Continues(Stream, c, Len(data[r]))
          BY <4>1 DEF PieceOfAnswer
        <4>3. /\ Len(data'[r]) >= 1 /\ Begins(data'[r], c)
              /\ TextAfter(Stream', Len(data'[r]))
              /\ pc'[r] = IF Len(data'[r]) < BodyLen THEN "points" ELSE "done"
          BY <1>0, <3>2, <4>1, <4>2, LaterPoint
        <4>4. c = command[r]
          <5>1. Len(data[r]) \in Nat
            BY <1>0, LenProperties DEF TypeOK
          <5> QED
            BY <4>1, <4>2, <5>1, DataIsOf
        <4> QED
          BY <4>1, <4>3, <4>4
      <3> QED
        BY <1>7, <3>1, <3>2
    <2>3. CASE pc'[r] = "points"
      BY <2>1, <2>2, <2>3 DEF OwnAnswer, TextAfter
    <2>4. CASE pc'[r] = "done"
      <3>1. PICK c \in 1 .. sent' : data'[r] = Body(c)
        BY <1>0, <2>4 DEF PieceOfAnswer, Body, Byte
      <3>2. Len(data'[r]) = BodyLen /\ Begins(data'[r], c) /\ BodyLen \in Nat
        BY <3>1, BodyIs, Sizes
      <3>3. c = command[r]
        BY <2>2, <3>2, DataIsOf
      <3>4. Len(Stream') \in Nat
        <4>1. wire' \in Seq(Bytes)' /\ sending' \in Seq(Bytes)'
          BY <1>0 DEF TypeOK
        <4> QED
          BY <4>1, ConcatProperties, LenProperties DEF Stream
      <3>5. AllText(Stream')
        BY <2>2, <3>2, <3>4, AllTextAfter
      <3>6. data'[r] = Body(command'[r])
        BY <2>1, <3>1, <3>3
      <3> QED
        BY <2>1, <2>2, <2>4, <3>5, <3>6 DEF OwnAnswer, Body, Byte
    <2> QED
      BY <2>2, <2>3, <2>4
  <1> QED
    BY <1>1, <1>2, <1>3, <1>4, <1>5, <1>6, <1>7 DEF Next, Reading, Ends

------------------------------------------------------------------------------
(* The search does not pass the header over *)

LEMMA HeaderSeen ==
  ASSUME NEW w, NEW c, \A k \in 1 .. 4 : w[k] = Item(c, k)
  PROVE  IsHeader(w)
  BY DEF IsHeader, Item, Byte

(* A search that starts at once, or after the first chunk, starts in step.   *)
LEMMA SearchStarts ==
  ASSUME NEW r, Readers = {r}, TypeOK, OwnAnswer(r), ReadFirst(r), pc'[r] = "search"
  PROVE  SearchInStep(r)'
  <1>1. /\ r \in Readers /\ pc[r] = "first" /\ Arrived(PointSize) /\ ahead' = ahead
    BY DEF ReadFirst
  <1>2. /\ count'[r] = 4 /\ ~IsHeader(Taken(4)) /\ \A k \in 1 .. 4 : Taken(4)[k] = Stream[k]
    BY <1>1, FirstRead
  <1>3. /\ PointSize \in Nat /\ PointSize >= 4 /\ ahead \in Nat /\ device.echo \in Nat
        /\ Len(Stream) \in Nat /\ Len(Stream) >= PointSize
        /\ Last \in Nat /\ Last >= 4
    BY <1>1, Sizes, CountsAre, StreamIs, LenProperties DEF TypeOK, Arrived
  <1>4. ahead # 0
    <2> SUFFICES ASSUME ahead = 0 PROVE FALSE
      OBVIOUS
    <2>1. Expected(Stream, command[r], 0)
      BY <1>1 DEF OwnAnswer
    <2>2. Placed(Stream, command[r], 0)
      BY <1>3, <2>1 DEF Expected
    <2>3. ASSUME NEW k \in 1 .. 4 PROVE Taken(4)[k] = Item(command[r], k)
      <3>1. k \in 1 .. Len(Stream) /\ k - 0 = k /\ k \in 1 .. Last
        BY <1>3
      <3>2. Stream[k] = IF k - 0 \in 1 .. Last THEN Item(command[r], k - 0) ELSE TextByte
        BY <2>2, <3>1 DEF Placed
      <3> QED
        BY <1>2, <3>1, <3>2
    <2>4. IsHeader(Taken(4))
      BY <2>3, HeaderSeen
    <2> QED
      BY <1>2, <2>4
  <1>5. HeaderAt(r)' = ahead - PointSize
    BY <1>1, <1>2, <1>3 DEF HeaderAt, Skipped
  <1>6. ASSUME ahead >= PointSize
        PROVE  /\ ahead - PointSize > -4
               /\ \A j \in 1 .. 4 : j - 4 - (ahead - PointSize) \notin 1 .. 4
    BY <1>3, <1>6
  <1> QED
    BY <1>1, <1>4, <1>5, <1>6 DEF SearchInStep

LEMMA SearchGoesOn ==
  ASSUME NEW r, Readers = {r}, TypeOK, OwnAnswer(r), OwnAnswer(r)', SearchInStep(r),
         SearchChunk(r), pc'[r] = "search"
  PROVE  SearchInStep(r)'
  <1> DEFINE bytes == Taken(PointSize)  H == HeaderAt(r)  c == command[r]
  <1>1. /\ r \in Readers /\ pc[r] = "search" /\ Arrived(PointSize) /\ wire' = Rest(PointSize)
        /\ ahead' = ahead /\ UNCHANGED deviceVars /\ command' = command
        /\ device' = device /\ pending' = pending
    BY DEF SearchChunk, deviceVars
  <1>2. /\ chunk'[r] = bytes /\ count'[r] = count[r] + PointSize
        /\ window'[r] = Window(window[r], bytes, PointSize)
        /\ \A i \in 1 .. PointSize : ~IsHeader(Window(window[r], bytes, i))
    BY <1>1, ChunkRead
  <1>3. /\ PointSize \in Nat /\ PointSize >= 4 /\ ahead \in Nat /\ device.echo \in Nat
        /\ H \in Int /\ Last \in Nat /\ Last >= 4
        /\ Len(Stream) \in Nat /\ Len(Stream) >= PointSize
    BY <1>1, Sizes, CountsAre, StreamIs, LenProperties DEF TypeOK, Arrived
  <1>4. /\ bytes \in Seq(Bytes) /\ Len(bytes) = PointSize
        /\ \A k \in 1 .. PointSize : bytes[k] = Stream[k]
        /\ chunk'[r] \o Stream' = Stream
    BY <1>1, <1>2, WholeRead
  <1>5. window[r] \in Seq(Bytes) /\ Len(window[r]) = 4
    BY <1>1 DEF TypeOK, ReaderOK
  <1> HIDE DEF bytes
  <1>6. ASSUME NEW i \in 1 .. PointSize
        PROVE  \A j \in 1 .. 4 : Window(window[r], bytes, i)[j]
                                   = IF i + j <= 4 THEN window[r][i + j] ELSE bytes[i + j - 4]
    <2> DEFINE w == window[r]
    <2>1. /\ w \in Seq(Bytes) /\ Len(w) = 4
          /\ bytes \in Seq(Bytes) /\ i \in 1 .. Len(bytes)
      BY <1>4, <1>5
    <2> HIDE DEF w
    <2>2. \A j \in 1 .. 4 :
            Window(w, bytes, i)[j] = IF i + j <= 4 THEN w[i + j] ELSE bytes[i + j - 4]
      BY ONLY <2>1, WindowIs
    <2> QED
      BY <2>2 DEF w
  <1>7. HeaderAt(r)' = H - PointSize /\ (ahead - Skipped(r))' = H
    <2>1. /\ count[r] \in Nat /\ H = ahead - Skipped(r) - PointSize /\ Skipped(r) = count[r] - 4
      BY <1>1, CountsAre DEF Skipped
    <2>2. Skipped(r)' = count[r] + PointSize - 4
      <3>1. Skipped(r)' = count'[r] - 4
        BY DEF Skipped
      <3>2. count'[r] = count[r] + PointSize
        BY ONLY <1>2
      <3> QED
        BY <1>3, <2>1, <3>1, <3>2
    <2>3. HeaderAt(r)' = ahead - Skipped(r)' - PointSize /\ (ahead - Skipped(r))' = ahead - Skipped(r)'
      BY <1>1 DEF HeaderAt
    <2> HIDE DEF H
    <2> QED
      BY <1>3, <2>1, <2>2, <2>3
  <1>8. Expected(Stream, c, H)
    <2>1. Expected(chunk[r] \o Stream, command[r], ahead - Skipped(r))'
      BY DEF OwnAnswer
    <2> QED
      BY <1>1, <1>4, <1>7, <2>1 DEF Expected
  <1> HIDE DEF H
  <1>9. ahead # 0
    BY <1>1 DEF SearchInStep
  <1>10. ASSUME ahead >= PointSize
         PROVE  /\ H - PointSize > -4
                /\ \A j \in 1 .. 4 : j - 4 - (H - PointSize) \in 1 .. 4 =>
                     window'[r][j] = Item(c, j - 4 - (H - PointSize))
    <2>1. /\ H > -4
          /\ \A j \in 1 .. 4 : j - 4 - H \in 1 .. 4 => window[r][j] = Item(c, j - 4 - H)
      BY <1>1, <1>10 DEF SearchInStep, H
    <2>2. CASE AllText(Stream) /\ H = Len(Stream) + device.echo
      <3>1. H >= PointSize
        BY <1>3, <2>2
      <3>2. \A j \in 1 .. 4 : j - 4 - (H - PointSize) \notin 1 .. 4
        BY <1>3, <3>1
      <3> QED
        BY <1>3, <3>1, <3>2
    <2>3. CASE Placed(Stream, c, H)
      <3>1. ASSUME NEW k \in 1 .. PointSize, k - H \in 1 .. 4 PROVE bytes[k] = Item(c, k - H)
        <4>1. k \in 1 .. Len(Stream) /\ k - H \in 1 .. Last
          BY <1>3, <3>1
        <4>2. Stream[k] = Item(c, k - H)
          BY <2>3, <4>1 DEF Placed
        <4> QED
          BY <1>4, <4>2
      <3>2. ASSUME H - PointSize <= -4 PROVE FALSE
        <4> DEFINE i == H + 4
        <4>1. i \in 1 .. PointSize
          BY <1>3, <2>1, <3>2
        <4>2. ASSUME NEW j \in 1 .. 4 PROVE Window(window[r], bytes, i)[j] = Item(c, j)
          <5>1. CASE i + j <= 4
            <6> DEFINE k == i + j
            <6>1. k \in 1 .. 4 /\ k - 4 - H = j
              BY <1>3, <4>1, <5>1
            <6> HIDE DEF k
            <6>2. window[r][k] = Item(c, k - 4 - H)
              BY <2>1, <6>1
            <6>3. Window(window[r], bytes, i)[j] = window[r][k]
              BY <1>6, <4>1, <5>1 DEF k
            <6> QED
              BY <6>1, <6>2, <6>3
          <5>2. CASE ~(i + j <= 4)
            <6> DEFINE k == i + j - 4
            <6>1. k \in 1 .. PointSize /\ k - H = j
              BY <1>3, <4>1, <5>2
            <6> HIDE DEF k
            <6>2. bytes[k] = Item(c, k - H)
              BY <3>1, <6>1
            <6>3. Window(window[r], bytes, i)[j] = bytes[k]
              BY <1>6, <4>1, <5>2 DEF k
            <6> QED
              BY <6>1, <6>2, <6>3
          <5> QED
            BY <5>1, <5>2
        <4>3. IsHeader(Window(window[r], bytes, i))
          <5> HIDE DEF i
          <5> QED
            BY <4>2, HeaderSeen
        <4> QED
          BY <1>2, <4>1, <4>3
      <3>3. H - PointSize > -4
        BY <1>3, <3>2
      <3>4. ASSUME NEW j \in 1 .. 4, j - 4 - (H - PointSize) \in 1 .. 4
            PROVE  window'[r][j] = Item(c, j - 4 - (H - PointSize))
        <4> DEFINE k == PointSize + j - 4
        <4>1. k \in 1 .. PointSize /\ k - H = j - 4 - (H - PointSize) /\ ~(PointSize + j <= 4)
              /\ PointSize \in 1 .. PointSize
          BY <1>3
        <4> HIDE DEF k
        <4>2. bytes[k] = Item(c, k - H)
          BY <3>1, <3>4, <4>1
        <4>3. Window(window[r], bytes, PointSize)[j] = bytes[k]
          BY <1>6, <4>1 DEF k
        <4> QED
          BY <1>2, <4>1, <4>2, <4>3
      <3> QED
        BY <3>3, <3>4
    <2> QED
      BY <1>8, <2>2, <2>3 DEF Expected
  <1> QED
    BY <1>1, <1>7, <1>9, <1>10 DEF SearchInStep

LEMMA SearchKept ==
  ASSUME NEW r, Readers = {r}, TypeOK, PieceOfAnswer(r), ~late, OwnAnswer(r), SearchInStep(r),
         [Next]_vars, ~late'
  PROVE  SearchInStep(r)'
  <1>0. r \in Readers /\ TypeOK' /\ OwnAnswer(r)'
    BY TypesKept, OwnKept
  <1>1. CASE UNCHANGED <<pc, command, window, count, ahead>>
    BY <1>1 DEF SearchInStep, HeaderAt, Skipped
  <1>2. CASE pc'[r] # "search"
    BY <1>2 DEF SearchInStep
  <1>3. CASE ReadFirst(r)
    BY <1>2, <1>3, SearchStarts
  <1>4. CASE SearchChunk(r)
    BY <1>0, <1>2, <1>4, SearchGoesOn
  <1>5. CASE BeginAnswer \/ SendByte \/ UNCHANGED vars
    BY <1>1, <1>5 DEF BeginAnswer, SendByte, vars, readerVars
  <1>6. CASE WriteCommand(r)
    BY <1>0, <1>2, <1>6, CommandWritten
  <1>7. CASE Ends(r)
    <2>1. pc' = Set(pc, r, "idle")
      BY <1>0, <1>7, EndIs
    <2>2. pc'[r] = "idle"
      BY <1>0, <2>1 DEF Set, TypeOK
    <2> QED
      BY <1>2, <2>2
  <1>8. CASE ReadRemainder(r) \/ ReadPoint(r)
    <2>1. \E b : NextPoint(r, b)
      BY <1>8 DEF ReadRemainder, ReadPoint
    <2>2. pc'[r] = "points" \/ pc'[r] = "done"
      <3>1. \E s \in {"points", "done"} : pc' = Set(pc, r, s)
        BY <2>1 DEF NextPoint
      <3> QED
        BY <1>0, <3>1 DEF Set, TypeOK
    <2> QED
      BY <1>2, <2>2
  <1> QED
    BY <1>0, <1>3, <1>4, <1>5, <1>6, <1>7, <1>8 DEF Next, Reading, Ends

------------------------------------------------------------------------------
(* The invariant *)

LEMMA PullStarts == ASSUME NEW r, Readers = {r}, Init PROVE PullInv(r)
  <1>1. TypeOK
    BY TypesStart
  <1>2. /\ pc = [q \in Readers |-> "idle"] /\ pending = <<>> /\ sending = <<>>
        /\ wire \in {Text(n) : n \in 0 .. MaxJunk}
    BY DEF Init
  <1>3. pc[r] = "idle"
    BY <1>2
  <1>4. AllText(Stream)
    <2>1. AllText(wire)
      <3>1. PICK n \in 0 .. MaxJunk : wire = Text(n)
        BY <1>2
      <3>2. n \in Nat
        BY PullAssumption
      <3> QED
        BY <3>1, <3>2, TextIs
    <2>2. wire \o <<>> = wire
      BY <1>1, ConcatEmptySeq DEF TypeOK
    <2> QED
      BY <1>2, <2>1, <2>2 DEF Stream
  <1>5. Whole(Stream)
    BY <1>4, TextIsWhole
  <1> QED
    BY <1>1, <1>2, <1>3, <1>4, <1>5 DEF PullInv, PieceOfAnswer, OwnAnswer, SearchInStep

LEMMA PullKept == ASSUME NEW r, Readers = {r}, PullInv(r), [Next]_vars PROVE PullInv(r)'
  <1>1. TypeOK /\ PieceOfAnswer(r) /\ (~late => OwnAnswer(r) /\ SearchInStep(r))
    BY DEF PullInv
  <1>2. TypeOK' /\ PieceOfAnswer(r)'
    BY <1>1, TypesKept, PieceKept
  <1>3. late => late'
    <2>1. r \in Readers
      OBVIOUS
    <2>2. ASSUME NEW q \in Readers, Ends(q) PROVE late => late'
      BY <1>1, <2>2, EndIs
    <2> QED
      BY <2>1, <2>2
         DEF Next, BeginAnswer, SendByte, WriteCommand, Reading, Ends, ReadFirst, SearchChunk,
             ReadRemainder, ReadPoint, vars
  <1>4. ASSUME ~late' PROVE OwnAnswer(r)' /\ SearchInStep(r)'
    <2>1. ~late
      BY <1>3, <1>4
    <2> QED
      BY <1>1, <1>4, <2>1, OwnKept, SearchKept
  <1> QED
    BY <1>2, <1>4 DEF PullInv

LEMMA AnswersFollow == ASSUME NEW r, Readers = {r}, PullInv(r) PROVE PullAnswers
  BY DEF PullInv, PieceOfAnswer, OwnAnswer, PullAnswers

LEMMA HeaderFollows == ASSUME NEW r, Readers = {r}, PullInv(r) PROVE HeaderNotMissed
  <1> SUFFICES ASSUME ~late, ahead \notin 1 .. PointSize-1, pc[r] = "search"
               PROVE  HeaderAhead(r, command[r])
    BY DEF HeaderNotMissed
  <1> DEFINE w == chunk[r]  t == Stream  h == ahead - Skipped(r)  c == command[r]
  <1>1. r \in Readers /\ TypeOK /\ OwnAnswer(r) /\ SearchInStep(r)
    BY DEF PullInv
  <1>2. /\ PointSize \in Nat /\ PointSize >= 4 /\ ahead \in Nat /\ h \in Int
        /\ HeaderAt(r) = h - PointSize
    BY <1>1, CountsAre, Sizes
  <1>3. HeaderAt(r) > -4
    <2>1. ahead # 0
      BY <1>1 DEF SearchInStep
    <2>2. ahead >= PointSize
      BY <1>2, <2>1
    <2> QED
      BY <1>1, <2>2 DEF SearchInStep
  <1>4. Expected(w \o t, c, h)
    BY <1>1 DEF OwnAnswer
  <1>5. CASE pending = <<c>>
    <2>1. Len(pending) = 1 /\ pending[1] = c
      BY <1>5
    <2>2. 1 \in 1 .. Len(pending)
      BY <2>1
    <2> QED
      BY <2>1, <2>2 DEF HeaderAhead
  <1>6. CASE Placed(w \o t, c, h)
    <2>1. w \in Seq(Bytes) /\ t \in Seq(Bytes) /\ Len(w) = PointSize
      BY <1>1, StreamIs DEF TypeOK, ReaderOK
    <2> DEFINE k == h + 4
    <2> HIDE DEF w, t
    <2>2. /\ Len(w \o t) = PointSize + Len(t) /\ Len(t) \in Nat
          /\ \A j \in Len(w)+1 .. Len(w)+Len(t) : (w \o t)[j] = t[j - Len(w)]
      <3>1. w \in Seq(Bytes) /\ t \in Seq(Bytes)
        BY <2>1
      <3>2. /\ Len(w \o t) = Len(w) + Len(t) /\ Len(t) \in Nat
            /\ \A j \in Len(w)+1 .. Len(w)+Len(t) : (w \o t)[j] = t[j - Len(w)]
        BY ONLY <3>1, Joined, LenProperties
      <3> QED
        BY <2>1, <3>2
    <2>3. /\ k \in Len(w)+1 .. Len(w)+Len(t) /\ k - h = 4 /\ 4 \in 1 .. Last
          /\ k \in 1 .. Len(w \o t)
      <3>1. h + Last <= Len(w \o t) /\ Last \in Nat /\ Last >= 4
        BY <1>6, Sizes DEF Placed
      <3> QED
        BY <1>2, <1>3, <2>1, <2>2, <3>1
    <2> HIDE DEF k
    <2>4. (w \o t)[k] = Item(c, 4)
      BY <1>6, <2>3 DEF Placed
    <2>5. t[k - Len(w)] = Item(c, 4) /\ k - Len(w) \in 1 .. Len(t)
      BY <2>1, <2>2, <2>3, <2>4
    <2>6. Item(c, 4).kind = "header" /\ Item(c, 4).of = c
      BY DEF Item, Byte
    <2>7. \E j \in 1 .. Len(t) : t[j].kind = "header" /\ t[j].of = c
      BY <2>5, <2>6
    <2> QED
      BY <2>7 DEF HeaderAhead, Stream, t
  <1> QED
    BY <1>4, <1>5, <1>6 DEF Expected

------------------------------------------------------------------------------
(* Theorems *)

(* Whatever scans share the VNA, a reader in its search has a whole chunk    *)
(* and a window of four bytes, what it has kept is whole points and no more  *)
(* than it asked for, and no byte it holds belongs to a command that nobody  *)
(* sent.                                                                     *)
THEOREM PullTypeCorrect == Spec => []TypeOK
  <1>1. Init => TypeOK
    BY TypesStart
  <1>2. TypeOK /\ [Next]_vars => TypeOK'
    BY TypesKept
  <1> QED
    BY <1>1, <1>2, PTL DEF Spec

(* When one scan uses the VNA, what pull_scan returns are the points of one  *)
(* answer, in order and whole, after whatever failures, and of the answer to *)
(* its own command as long as no pull has failed.                            *)
THEOREM OneReaderGetsItsAnswer == ASSUME NEW r, Readers = {r} PROVE Spec => []PullAnswers
  <1>1. Init => PullInv(r)
    BY PullStarts
  <1>2. PullInv(r) /\ [Next]_vars => PullInv(r)'
    BY PullKept
  <1>3. PullInv(r) => PullAnswers
    BY AnswersFollow
  <1> QED
    BY <1>1, <1>2, <1>3, PTL DEF Spec

(* When one scan uses the VNA and no pull has failed, find_binary_header     *)
(* does not pass over a header that comes first or behind at least one chunk. *)
THEOREM OneReaderFindsTheHeader == ASSUME NEW r, Readers = {r} PROVE Spec => []HeaderNotMissed
  <1>1. Init => PullInv(r)
    BY PullStarts
  <1>2. PullInv(r) /\ [Next]_vars => PullInv(r)'
    BY PullKept
  <1>3. PullInv(r) => HeaderNotMissed
    BY HeaderFollows
  <1> QED
    BY <1>1, <1>2, <1>3, PTL DEF Spec

==============================================================================
