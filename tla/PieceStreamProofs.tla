------------------------- MODULE PieceStreamProofs -------------------------
(***************************************************************************)
(* No byte is stored where another belongs, for every length of a piece    *)
(* and of a frame, every fault and any number of connections.              *)
(*                                                                         *)
(* What the receiver has in its buffer and what is on its way to it make   *)
(* up one row of items.  The invariant says how that row is cut into       *)
(* frames: where their heads are, which units each one carries, that the   *)
(* first begins with the unit the receiver stores next, that each begins   *)
(* where the one before it ends, and that the sender will go on where the  *)
(* last one ends.  A head announces how far the next head is, so a buffer  *)
(* that check_data accepts is the first frame of the row and nothing else. *)
(***************************************************************************)
EXTENDS PieceStream, SequenceTheorems, TLAPS

\* Units in a frame that begins after unit u.
Size(u) == IF Units - u > MaxFrame THEN MaxFrame ELSE Units - u

\* The row of buffer b and wire w: its length, and its item j.
Items(b, w) == Len(b) + Len(w)
At(b, w, j) == IF j <= Len(b) THEN b[j] ELSE w[j - Len(b)]

\* The row is cut at heads H; the frame of head h begins after unit from[h], the first
\* one after unit base.
Cut(b, w, base, H, from) ==
    /\ H \subseteq 1..Items(b, w)
    /\ from \in [Nat -> Nat]
    /\ Items(b, w) > 0 => 1 \in H /\ from[1] = base
    /\ \A h \in H :
          /\ from[h] < Units
          /\ At(b, w, h) = FrameHead(Size(from[h]))
          /\ \A j \in (h + 1)..(h + Size(from[h])) :
                j <= Items(b, w) => j \notin H /\ At(b, w, j) \in {Unit(from[h] + (j - h)), Junk}
          /\ h + Size(from[h]) + 1 <= Items(b, w) =>
                /\ h + Size(from[h]) + 1 \in H
                /\ from[h + Size(from[h]) + 1] = from[h] + Size(from[h])

\* The row of n items ends with a frame, and after unit u.
EndsAfter(n, base, H, from, u) ==
    \/ n = 0 /\ base = u
    \/ \E h \in H : h + Size(from[h]) = n /\ from[h] + Size(from[h]) = u

\* There is a way to cut the row, and if the sender goes on (more), it ends after u.
Fits(b, w, base, more, u) ==
    \E H \in SUBSET Nat, from \in [Nat -> Nat] :
        /\ Cut(b, w, base, H, from)
        /\ more => EndsAfter(Items(b, w), base, H, from, u)

\* While the receiver listens, it and the sender agree on what comes.
Listens == rpc \in {"recv", "store", "answer"}
GoesOn == link = "up" /\ spc \in {"send", "wait"}
Agreed == Listens => Fits(buff, up, Units - left, GoesOn, Units - sleft)

\* The sender goes on only while something is missing.
Sending == spc \in {"send", "wait"} => sleft > 0

\* What is stored has been checked.
Accepted == rpc = "store" => buff # <<>> /\ Checked(buff)

IInv == TypeOK /\ Agreed /\ Sending /\ Accepted /\ Genuine

-----------------------------------------------------------------------------
(* Sequences.                                                               *)

LEMMA Sizes ==
    /\ Units \in Nat \ {0} /\ MaxFrame \in Nat \ {0} /\ MaxConns \in Nat
    /\ AnswerParts \in Nat \ {0}
    /\ \A u \in Nat : u < Units =>
          Size(u) \in Nat \ {0} /\ Size(u) <= MaxFrame /\ u + Size(u) <= Units
  BY UnitsAssumption, FrameAssumption, BoundAssumption DEF Size

\* What comes after place n, counted from there.
LEMMA Offset ==
    \A n, s \in Nat : \A j \in ((n + 1) + 1)..((n + 1) + s) :
        j - (n + 1) \in 1..s /\ j = n + 1 + (j - (n + 1))
  OBVIOUS

\* A function on 1..n is a sequence of length n.
LEMMA FunctionIsSeq ==
    ASSUME NEW S, NEW n \in Nat, NEW f \in [1..n -> S]
    PROVE  f \in Seq(S) /\ Len(f) = n
<1>1. f \in Seq(S)
  BY SeqDef
<1>2. Len(f) \in Nat /\ DOMAIN f = 1..Len(f)
  BY <1>1, LenProperties
<1>3. 1..n = 1..Len(f)
  BY <1>2
<1>. QED
  BY <1>1, <1>2, <1>3

\* A prefix.
LEMMA PrefixOf ==
    ASSUME NEW S, NEW s \in Seq(S), NEW t \in Prefixes(s)
    PROVE  /\ t \in Seq(S) /\ Len(t) <= Len(s)
           /\ \A i \in 1..Len(t) : t[i] = s[i]
<1>1. PICK l \in 0..Len(s) : t = SubSeq(s, 1, l)
  BY DEF Prefixes
<1>. DEFINE n == Len(s)
<1>2. n \in Nat /\ \A i \in 1..n : s[i] \in S
  BY ElementOfSeq
<1>. HIDE DEF n
<1>3. l \in 0..n /\ 1 \in Int /\ l \in Int /\ \A i \in 1..l : s[i] \in S
  BY <1>2 DEF n
<1>4. /\ SubSeq(s, 1, l) \in Seq(S)
      /\ Len(SubSeq(s, 1, l)) = IF 1 <= l THEN l - 1 + 1 ELSE 0
      /\ \A i \in 1..(l - 1 + 1) : SubSeq(s, 1, l)[i] = s[1 + i - 1]
  BY <1>3, SubSeqProperties
<1>5. Len(t) = l /\ t \in Seq(S) /\ \A i \in 1..l : t[i] = s[i]
  BY <1>1, <1>3, <1>4
<1>. QED
  BY <1>3, <1>5 DEF n

\* The frame the sender builds.
LEMMA FrameIs ==
    ASSUME sleft \in 1..Units
    PROVE  /\ FrameLen = Size(Units - sleft) /\ FrameLen \in 1..sleft
           /\ Frame \in Seq(Wire) /\ Len(Frame) = FrameLen + 1
           /\ Frame[1] = FrameHead(FrameLen)
           /\ \A i \in 1..FrameLen : Frame[i + 1] = Unit(Units - sleft + i)
<1>. DEFINE n == FrameLen
<1>1. n = Size(Units - sleft) /\ n \in 1..sleft /\ n \in Nat /\ n <= MaxFrame
  BY Sizes DEF FrameLen, Size
<1>. HIDE DEF n
<1>. DEFINE h == <<FrameHead(n)>>
<1>. DEFINE d == [i \in 1..n |-> Unit(Units - sleft + i)]
<1>2. FrameHead(n) \in Wire
  BY <1>1, Sizes DEF FrameHead, Wire
<1>3. h \in Seq(Wire) /\ Len(h) = 1 /\ h[1] = FrameHead(n)
  BY <1>2
<1>4. \A i \in 1..n : Unit(Units - sleft + i) \in Wire
  BY <1>1, Sizes DEF Unit, Wire
<1>5. d \in [1..n -> Wire] /\ \A i \in 1..n : d[i] = Unit(Units - sleft + i)
  BY <1>4
<1>. HIDE DEF h, d
<1>6. d \in Seq(Wire) /\ Len(d) = n
  BY <1>1, <1>5, FunctionIsSeq
<1>7. /\ h \o d \in Seq(Wire) /\ Len(h \o d) = Len(h) + Len(d)
      /\ \A i \in 1..(Len(h) + Len(d)) :
            (h \o d)[i] = IF i <= Len(h) THEN h[i] ELSE d[i - Len(h)]
  BY <1>3, <1>6, ConcatProperties
<1>8. Frame = h \o d
  BY DEF Frame, h, d, n
<1>9. Frame \in Seq(Wire) /\ Len(Frame) = n + 1 /\ Frame[1] = FrameHead(n)
  BY <1>1, <1>3, <1>6, <1>7, <1>8
<1>10. ASSUME NEW i \in 1..n
       PROVE  Frame[i + 1] = Unit(Units - sleft + i)
  <2>1. i + 1 \in 1..(1 + n) /\ ~(i + 1 <= 1) /\ (i + 1) - 1 = i
    BY <1>1
  <2>. QED
    BY <1>3, <1>5, <1>6, <1>7, <1>8, <2>1
<1>. QED
  BY <1>1, <1>9, <1>10 DEF n

-----------------------------------------------------------------------------
(* What may happen to the row.                                              *)

\* It is handed on, cut short, or has a unit changed.
LEMMA Spoilt ==
    ASSUME NEW b \in Seq(Wire), NEW w \in Seq(Wire), NEW b2 \in Seq(Wire), NEW w2 \in Seq(Wire),
           NEW base \in Nat, NEW H, NEW from, Cut(b, w, base, H, from),
           Items(b2, w2) <= Items(b, w),
           \A j \in 1..Items(b2, w2) :
              \/ At(b2, w2, j) = At(b, w, j)
              \/ At(b, w, j).kind = "data" /\ At(b2, w2, j) = Junk
    PROVE  Cut(b2, w2, base, H \cap 1..Items(b2, w2), from)
<1>. DEFINE n == Items(b, w)
<1>. DEFINE m == Items(b2, w2)
<1>. DEFINE G == H \cap 1..m
<1>1. n \in Nat /\ m \in Nat /\ m <= n
  BY DEF Items
<1>. HIDE DEF n, m
<1>2. /\ H \subseteq 1..n /\ from \in [Nat -> Nat]
      /\ n > 0 => 1 \in H /\ from[1] = base
  BY DEF Cut, n
<1>3. G \subseteq 1..m /\ (m > 0 => 1 \in G /\ from[1] = base)
  <2>1. m > 0 => n > 0 /\ 1 \in 1..m
    BY <1>1
  <2>. QED
    BY <1>2, <2>1
<1>4. ASSUME NEW h \in G
      PROVE  /\ from[h] < Units
             /\ At(b2, w2, h) = FrameHead(Size(from[h]))
             /\ \A j \in (h + 1)..(h + Size(from[h])) :
                   j <= m => j \notin G /\ At(b2, w2, j) \in {Unit(from[h] + (j - h)), Junk}
             /\ h + Size(from[h]) + 1 <= m =>
                   /\ h + Size(from[h]) + 1 \in G
                   /\ from[h + Size(from[h]) + 1] = from[h] + Size(from[h])
  <2>. DEFINE k == Size(from[h])
  <2>1. h \in H /\ h \in 1..m /\ h \in Nat
    BY <1>1
  <2>2. /\ from[h] < Units /\ from[h] \in Nat
        /\ At(b, w, h) = FrameHead(k)
        /\ \A j \in (h + 1)..(h + k) :
              j <= n => j \notin H /\ At(b, w, j) \in {Unit(from[h] + (j - h)), Junk}
        /\ h + k + 1 <= n => h + k + 1 \in H /\ from[h + k + 1] = from[h] + k
    BY <1>2, <2>1 DEF Cut, n
  <2>3. k \in Nat \ {0}
    BY <2>2, Sizes
  <2>. HIDE DEF k
  <2>4. At(b2, w2, h) = FrameHead(k)
    <3>1. At(b, w, h).kind # "data"
      BY <2>2 DEF FrameHead
    <3>. QED
      BY <2>1, <2>2, <3>1 DEF m
  <2>5. ASSUME NEW j \in (h + 1)..(h + k), j <= m
        PROVE  j \notin G /\ At(b2, w2, j) \in {Unit(from[h] + (j - h)), Junk}
    <3>1. j <= n /\ j \in 1..m
      BY <1>1, <2>1, <2>3, <2>5
    <3>2. j \notin H /\ At(b, w, j) \in {Unit(from[h] + (j - h)), Junk}
      BY <2>2, <3>1
    <3>. QED
      BY <3>1, <3>2 DEF m
  <2>6. ASSUME h + k + 1 <= m
        PROVE  h + k + 1 \in G /\ from[h + k + 1] = from[h] + k
    BY <1>1, <2>1, <2>2, <2>3, <2>6
  <2>. QED
    BY <2>2, <2>4, <2>5, <2>6 DEF k
<1>5. Cut(b2, w2, base, G, from)
  <2>. HIDE DEF G
  <2>. QED
    BY <1>2, <1>3, <1>4, Zenon DEF Cut, m
<1>. QED
  BY <1>5 DEF m

\* A frame of s units from unit u on is added to the row of n items.
Continued(b, w, w2, n, s, u) ==
    /\ Items(b, w2) = n + 1 + s
    /\ \A j \in 1..n : At(b, w2, j) = At(b, w, j)
    /\ At(b, w2, n + 1) = FrameHead(s)
    /\ \A i \in 1..s : At(b, w2, n + 1 + i) = Unit(u + i)

LEMMA Extended ==
    ASSUME NEW b \in Seq(Wire), NEW w \in Seq(Wire), NEW w2 \in Seq(Wire),
           NEW base \in Nat, NEW H, NEW from, NEW u \in Nat, NEW n, NEW s, NEW more,
           n = Items(b, w), s = Size(u), Cut(b, w, base, H, from),
           EndsAfter(n, base, H, from, u), u < Units, Continued(b, w, w2, n, s, u)
    PROVE  Fits(b, w2, base, more, u + s)
<1>. DEFINE m == Items(b, w2)
<1>. DEFINE G == H \cup {n + 1}
<1>. DEFINE to == [from EXCEPT ![n + 1] = u]
<1>1. n \in Nat /\ m \in Nat /\ s \in Nat \ {0}
  BY Sizes DEF Items
<1>2. /\ m = n + 1 + s
      /\ \A j \in 1..n : At(b, w2, j) = At(b, w, j)
      /\ At(b, w2, n + 1) = FrameHead(s)
      /\ \A i \in 1..s : At(b, w2, n + 1 + i) = Unit(u + i)
  BY DEF Continued
<1>3. /\ H \subseteq 1..n /\ from \in [Nat -> Nat]
      /\ n > 0 => 1 \in H /\ from[1] = base
  BY DEF Cut
<1>4. \/ n = 0 /\ base = u
      \/ \E h \in H : h + Size(from[h]) = n /\ from[h] + Size(from[h]) = u
  BY DEF EndsAfter
<1>5. \A h \in H :
          /\ from[h] < Units
          /\ At(b, w, h) = FrameHead(Size(from[h]))
          /\ \A j \in (h + 1)..(h + Size(from[h])) :
                j <= n => j \notin H /\ At(b, w, j) \in {Unit(from[h] + (j - h)), Junk}
          /\ h + Size(from[h]) + 1 <= n =>
                /\ h + Size(from[h]) + 1 \in H
                /\ from[h + Size(from[h]) + 1] = from[h] + Size(from[h])
  BY DEF Cut
<1>. HIDE DEF m
<1>6. /\ to \in [Nat -> Nat] /\ to[n + 1] = u
      /\ \A i \in Nat : i # n + 1 => to[i] = from[i]
      /\ n + 1 \notin H /\ \A h \in H : h \in Nat /\ h \in 1..n /\ to[h] = from[h]
  <2>1. n + 1 \in Nat /\ n + 1 \notin 1..n /\ \A h \in 1..n : h \in Nat /\ h # n + 1
    BY <1>1
  <2>2. /\ to \in [Nat -> Nat] /\ to[n + 1] = u
        /\ \A i \in Nat : i # n + 1 => to[i] = from[i]
    BY <1>3, <2>1
  <2>3. \A h \in H : h \in 1..n
    BY <1>3
  <2>. QED
    BY <2>1, <2>2, <2>3
<1>7. G \subseteq 1..m /\ 1 \in G /\ to[1] = base
  <2>0. m = n + 1 + s
    BY <1>2
  <2>1. n + 1 \in 1..m /\ \A h \in 1..n : h \in 1..m
    BY <1>1, <2>0
  <2>2. G \subseteq 1..m
    BY <1>3, <2>1
  <2>3. CASE n = 0
    <3>1. n + 1 = 1 /\ base = u
      BY <1>3, <1>4, <2>3
    <3>. QED
      BY <1>6, <2>2, <3>1
  <2>4. CASE n > 0
    <3>1. 1 \in H /\ from[1] = base
      BY <1>3, <2>4
    <3>. QED
      BY <1>6, <2>2, <3>1
  <2>. QED
    BY <1>1, <2>3, <2>4
<1>. HIDE DEF to
\* A frame of the old row that would reach its end is the last one.
<1>8. ASSUME NEW h \in H, h + Size(from[h]) >= n
      PROVE  h + Size(from[h]) = n /\ from[h] + Size(from[h]) = u
  <2>0. h \in 1..n /\ n # 0
    BY <1>1, <1>3
  <2>1. PICK g \in H : g + Size(from[g]) = n /\ from[g] + Size(from[g]) = u
    BY <1>4, <2>0
  <2>. DEFINE x == Size(from[h])
  <2>. DEFINE y == Size(from[g])
  <2>2. h \in 1..n /\ g \in 1..n /\ from[h] \in Nat /\ from[g] \in Nat
    BY <1>3, <1>6
  <2>3. x \in Nat \ {0} /\ y \in Nat \ {0}
    BY <1>5, <2>2, Sizes
  <2>4. /\ \A j \in (h + 1)..(h + x) : j <= n => j \notin H
        /\ \A j \in (g + 1)..(g + y) : j <= n => j \notin H
        /\ g + y = n /\ h + x >= n
    BY <1>5, <1>8, <2>1
  <2>. HIDE DEF x, y
  <2>5. h = g
    <3>1. ~(h < g)
      <4>1. h < g => g \in (h + 1)..(h + x) /\ g <= n
        BY <1>1, <2>2, <2>3, <2>4
      <4>. QED
        BY <2>4, <4>1
    <3>2. ~(g < h)
      <4>1. g < h => h \in (g + 1)..(g + y) /\ h <= n
        BY <1>1, <2>2, <2>3, <2>4
      <4>. QED
        BY <2>4, <4>1
    <3>. QED
      BY <2>2, <3>1, <3>2
  <2>. QED
    BY <2>1, <2>5
<1>9. ASSUME NEW h \in G
      PROVE  /\ to[h] < Units
             /\ At(b, w2, h) = FrameHead(Size(to[h]))
             /\ \A j \in (h + 1)..(h + Size(to[h])) :
                   j <= m => j \notin G /\ At(b, w2, j) \in {Unit(to[h] + (j - h)), Junk}
             /\ h + Size(to[h]) + 1 <= m =>
                   /\ h + Size(to[h]) + 1 \in G
                   /\ to[h + Size(to[h]) + 1] = to[h] + Size(to[h])
  <2>1. CASE h = n + 1
    <3>1. to[h] = u /\ Size(to[h]) = s
      BY <1>6, <2>1
    <3>2. At(b, w2, h) = FrameHead(s) /\ ~(h + s + 1 <= m)
      BY <1>1, <1>2, <2>1
    <3>3. ASSUME NEW j \in (h + 1)..(h + s)
          PROVE  j \notin G /\ At(b, w2, j) \in {Unit(u + (j - h)), Junk}
      <4>. DEFINE i == j - h
      <4>0. n \in Nat /\ s \in Nat /\ j \in ((n + 1) + 1)..((n + 1) + s)
        BY <1>1, <2>1
      <4>1. i \in 1..s /\ j = n + 1 + i
        BY <2>1, <4>0, Offset
      <4>. HIDE DEF i
      <4>2. At(b, w2, n + 1 + i) = Unit(u + i)
        BY <1>2, <4>1
      <4>3. j \notin 1..n /\ j # n + 1
        BY <1>1, <4>1
      <4>. QED
        BY <1>3, <4>1, <4>2, <4>3 DEF i
    <3>. QED
      BY <3>1, <3>2, <3>3
  <2>2. CASE h \in H
    <3>. DEFINE k == Size(from[h])
    <3>1. to[h] = from[h] /\ Size(to[h]) = k /\ h \in 1..n /\ from[h] \in Nat
      BY <1>3, <1>6, <2>2
    <3>2. /\ from[h] < Units /\ At(b, w, h) = FrameHead(k)
          /\ \A j \in (h + 1)..(h + k) :
                j <= n => j \notin H /\ At(b, w, j) \in {Unit(from[h] + (j - h)), Junk}
          /\ h + k + 1 <= n => h + k + 1 \in H /\ from[h + k + 1] = from[h] + k
          /\ h + k >= n => h + k = n /\ from[h] + k = u
      BY <1>5, <1>8, <2>2
    <3>3. k \in Nat \ {0}
      BY <3>1, <3>2, Sizes
    <3>. HIDE DEF k
    <3>4. At(b, w2, h) = FrameHead(k)
      BY <1>2, <3>1, <3>2
    <3>5. h + k <= n
      BY <1>1, <3>1, <3>2, <3>3
    <3>6. ASSUME NEW j \in (h + 1)..(h + k)
          PROVE  j \notin G /\ At(b, w2, j) \in {Unit(from[h] + (j - h)), Junk}
      <4>1. j \in 1..n /\ j # n + 1
        BY <1>1, <3>1, <3>3, <3>5
      <4>2. j <= n
        BY <1>1, <4>1
      <4>3. j \notin H /\ At(b, w, j) \in {Unit(from[h] + (j - h)), Junk}
        BY <3>2, <4>2
      <4>. QED
        BY <1>2, <4>1, <4>3
    <3>7. h + k + 1 \in G /\ to[h + k + 1] = from[h] + k
      <4>1. CASE h + k = n
        <5>1. h + k + 1 = n + 1 /\ from[h] + k = u
          BY <1>1, <3>1, <3>2, <3>3, <4>1
        <5>. QED
          BY <1>6, <5>1
      <4>2. CASE h + k < n
        <5>1. h + k + 1 <= n /\ h + k + 1 \in Nat /\ h + k + 1 # n + 1
          BY <1>1, <3>1, <3>3, <4>2
        <5>. QED
          BY <1>6, <3>2, <5>1
      <4>. QED
        BY <1>1, <3>1, <3>3, <3>5, <4>1, <4>2
    <3>. QED
      BY <3>1, <3>2, <3>4, <3>6, <3>7
  <2>. QED
    BY <2>1, <2>2
<1>10. Cut(b, w2, base, G, to)
  <2>. HIDE DEF G
  <2>. QED
    BY <1>6, <1>7, <1>9, Zenon DEF Cut, m
<1>11. EndsAfter(m, base, G, to, u + s)
  <2>1. n + 1 \in G /\ n + 1 + Size(to[n + 1]) = m /\ to[n + 1] + Size(to[n + 1]) = u + s
    BY <1>1, <1>2, <1>6
  <2>. QED
    BY <2>1 DEF EndsAfter
<1>12. G \in SUBSET Nat
  BY <1>7
<1>. HIDE DEF G
<1>. QED
  BY <1>6, <1>10, <1>11, <1>12 DEF Fits, m

\* An accepted buffer is the first frame of the row; what is left is the row after it.
LEMMA Shifted ==
    ASSUME NEW b \in Seq(Wire), NEW w \in Seq(Wire), NEW base \in Nat, NEW H, NEW from,
           Cut(b, w, base, H, from), b # <<>>, Checked(b),
           NEW more, NEW u, more => EndsAfter(Items(b, w), base, H, from, u)
    PROVE  /\ base < Units /\ Len(b) = Size(base) + 1
           /\ \A i \in 1..Size(base) : b[i + 1].n = base + i
           /\ Fits(<<>>, w, base + Size(base), more, u)
<1>. DEFINE l == Len(b)
<1>. DEFINE n == Items(b, w)
<1>. DEFINE m == Items(<<>>, w)
<1>. DEFINE s == Size(base)
<1>. DEFINE G == {h \in Nat : h + l \in H /\ h > 0}
<1>. DEFINE to == [i \in Nat |-> from[i + l]]
<1>1. l \in Nat \ {0} /\ m \in Nat /\ n = l + m /\ n \in Nat /\ n > 0 /\ m = Len(w)
  <2>1. Len(b) # 0 /\ Len(b) \in Nat /\ Len(w) \in Nat /\ Len(<<>>) = 0
    OBVIOUS
  <2>2. n = Len(b) + Len(w) /\ m = 0 + Len(w)
    BY <2>1 DEF Items
  <2>. HIDE DEF n, m
  <2>. QED
    BY <2>1, <2>2
<1>2. /\ \A j \in 1..m : At(<<>>, w, j) = w[j] /\ At(b, w, j + l) = w[j]
      /\ \A j \in 1..l : At(b, w, j) = b[j]
  <2>1. ASSUME NEW j \in 1..m
        PROVE  At(<<>>, w, j) = w[j] /\ At(b, w, j + l) = w[j]
    <3>1. ~(j <= 0) /\ j - 0 = j /\ ~(j + l <= l) /\ (j + l) - l = j /\ Len(<<>>) = 0
      BY <1>1
    <3>. HIDE DEF l
    <3>2. At(<<>>, w, j) = w[j - 0]
      BY <3>1 DEF At
    <3>3. At(b, w, j + l) = w[(j + l) - l]
      BY <3>1 DEF At, l
    <3>. QED
      BY <3>1, <3>2, <3>3
  <2>2. \A j \in 1..l : At(b, w, j) = b[j]
    BY DEF At
  <2>. QED
    BY <2>1, <2>2
<1>3. /\ H \subseteq 1..n /\ from \in [Nat -> Nat]
      /\ 1 \in H /\ from[1] = base
  BY <1>1 DEF Cut
<1>4. \A h \in H :
          /\ from[h] < Units
          /\ At(b, w, h) = FrameHead(Size(from[h]))
          /\ \A j \in (h + 1)..(h + Size(from[h])) :
                j <= n => j \notin H /\ At(b, w, j) \in {Unit(from[h] + (j - h)), Junk}
          /\ h + Size(from[h]) + 1 <= n =>
                /\ h + Size(from[h]) + 1 \in H
                /\ from[h + Size(from[h]) + 1] = from[h] + Size(from[h])
  BY DEF Cut
<1>5. base < Units /\ s \in Nat \ {0}
  <2>1. base < Units
    BY <1>3, <1>4
  <2>. QED
    BY <2>1, Sizes
<1>. HIDE DEF l, n, m
<1>6. b[1] = FrameHead(s) /\ l = s + 1
  <2>1. At(b, w, 1) = FrameHead(s) /\ 1 \in 1..l
    BY <1>1, <1>3, <1>4
  <2>2. b[1] = FrameHead(s)
    BY <1>2, <2>1
  <2>3. Len(b) = b[1].n + 1
    BY DEF Checked, Whole
  <2>. QED
    BY <2>2, <2>3 DEF FrameHead, l
<1>. HIDE DEF s
<1>7. \A j \in (1 + 1)..(1 + s) :
          j <= n => j \notin H /\ At(b, w, j) \in {Unit(base + (j - 1)), Junk}
  BY <1>3, <1>4 DEF s
<1>8. 1 + s + 1 <= n => 1 + s + 1 \in H /\ from[1 + s + 1] = base + s
  BY <1>3, <1>4 DEF s
<1>9. ASSUME NEW i \in 1..s
      PROVE  b[i + 1].n = base + i
  <2>1. i + 1 \in (1 + 1)..(1 + s) /\ i + 1 <= n /\ i + 1 \in 1..l /\ i + 1 \in 2..Len(b)
        /\ (i + 1) - 1 = i
    BY <1>1, <1>5, <1>6 DEF l
  <2>2. b[i + 1] \in {Unit(base + i), Junk}
    BY <1>2, <1>7, <2>1
  <2>3. b[i + 1].kind = "data"
    BY <2>1 DEF Checked
  <2>4. Junk.kind # "data" /\ Unit(base + i).n = base + i
    BY DEF Junk, Unit
  <2>. QED
    BY <2>2, <2>3, <2>4
\* After the first head, the next is beyond the buffer.
<1>10. \A h \in H : h = 1 \/ (h \in Nat /\ h > l)
  <2>. SUFFICES ASSUME NEW h \in H, h # 1, ~(h > l) PROVE FALSE
    BY <1>3
  <2>1. h \in (1 + 1)..(1 + s) /\ h <= n
    BY <1>1, <1>3, <1>5, <1>6
  <2>. QED
    BY <1>7, <2>1
<1>11. to \in [Nat -> Nat] /\ \A i \in Nat : to[i] = from[i + l]
  <2>1. \A i \in Nat : i + l \in Nat
    BY <1>1
  <2>. QED
    BY <1>3, <2>1
<1>. HIDE DEF to
<1>12. G \subseteq 1..m /\ (m > 0 => 1 \in G /\ to[1] = base + s)
  <2>1. ASSUME NEW h \in Nat, h + l \in H, h > 0 PROVE h \in 1..m
    <3>1. h + l \in 1..n
      BY <1>3, <2>1
    <3>. QED
      BY <1>1, <2>1, <3>1
  <2>2. m > 0 => 1 + s + 1 <= n /\ 1 + s + 1 = 1 + l
    BY <1>1, <1>5, <1>6
  <2>3. m > 0 => 1 + l \in H /\ from[1 + l] = base + s
    BY <1>8, <2>2
  <2>4. m > 0 => 1 \in G /\ to[1] = base + s
    <3>1. to[1] = from[1 + l]
      BY <1>11
    <3>2. 1 + l \in H => 1 \in G
      OBVIOUS
    <3>. QED
      BY <2>3, <3>1, <3>2
  <2>5. G \subseteq 1..m
    BY <2>1
  <2>. QED
    BY <2>4, <2>5
<1>13. ASSUME NEW h \in G
       PROVE  /\ to[h] < Units
              /\ At(<<>>, w, h) = FrameHead(Size(to[h]))
              /\ \A j \in (h + 1)..(h + Size(to[h])) :
                    j <= m => j \notin G
                              /\ At(<<>>, w, j) \in {Unit(to[h] + (j - h)), Junk}
              /\ h + Size(to[h]) + 1 <= m =>
                    /\ h + Size(to[h]) + 1 \in G
                    /\ to[h + Size(to[h]) + 1] = to[h] + Size(to[h])
  <2>. DEFINE g == h + l
  <2>. DEFINE k == Size(to[h])
  <2>1. h \in Nat /\ h > 0 /\ g \in H /\ to[h] = from[g] /\ h \in 1..m /\ from[g] \in Nat
    BY <1>3, <1>11, <1>12, <1>1
  <2>2. /\ from[g] < Units /\ At(b, w, g) = FrameHead(k)
        /\ \A j \in (g + 1)..(g + k) :
              j <= n => j \notin H /\ At(b, w, j) \in {Unit(from[g] + (j - g)), Junk}
        /\ g + k + 1 <= n => g + k + 1 \in H /\ from[g + k + 1] = from[g] + k
    BY <1>4, <2>1
  <2>3. k \in Nat \ {0}
    BY <2>1, <2>2, Sizes
  <2>4. g = h + l
    OBVIOUS
  <2>. HIDE DEF k, g
  <2>5. At(<<>>, w, h) = FrameHead(k)
    BY <1>2, <2>1, <2>2, <2>4
  <2>6. ASSUME NEW j \in (h + 1)..(h + k), j <= m
        PROVE  j \notin G /\ At(<<>>, w, j) \in {Unit(to[h] + (j - h)), Junk}
    <3>1. /\ j + l \in (g + 1)..(g + k) /\ j + l <= n /\ j \in 1..m
          /\ (j + l) - g = j - h
      BY <1>1, <2>1, <2>3, <2>4, <2>6
    <3>2. j + l \notin H /\ At(b, w, j + l) \in {Unit(from[g] + ((j + l) - g)), Junk}
      BY <2>2, <3>1
    <3>. QED
      BY <1>2, <2>1, <3>1, <3>2
  <2>7. ASSUME h + k + 1 <= m
        PROVE  h + k + 1 \in G /\ to[h + k + 1] = to[h] + k
    <3>1. /\ g + k + 1 <= n /\ g + k + 1 = (h + k + 1) + l
          /\ h + k + 1 \in Nat /\ h + k + 1 > 0
      BY <1>1, <2>1, <2>3, <2>4, <2>7
    <3>2. (h + k + 1) + l \in H /\ from[(h + k + 1) + l] = from[g] + k
      BY <2>2, <3>1
    <3>. QED
      BY <1>11, <2>1, <3>1, <3>2
  <2>. QED
    BY <2>1, <2>2, <2>5, <2>6, <2>7 DEF k
<1>14. Cut(<<>>, w, base + s, G, to)
  <2>. HIDE DEF G
  <2>. QED
    BY <1>11, <1>12, <1>13, Zenon DEF Cut, m
<1>15. ASSUME EndsAfter(n, base, H, from, u)
       PROVE  EndsAfter(m, base + s, G, to, u)
  <2>1. PICK h \in H : h + Size(from[h]) = n /\ from[h] + Size(from[h]) = u
    BY <1>1, <1>15 DEF EndsAfter
  <2>2. CASE h = 1
    <3>1. 1 + s = n /\ base + s = u
      BY <1>3, <2>1, <2>2 DEF s
    <3>2. m = 0
      BY <1>1, <1>5, <1>6, <3>1
    <3>. QED
      BY <3>1, <3>2 DEF EndsAfter
  <2>3. CASE h \in Nat /\ h > l
    <3>. DEFINE g == h - l
    <3>1. g \in Nat /\ g > 0 /\ g + l = h
      BY <1>1, <2>3
    <3>. HIDE DEF g
    <3>2. g \in G /\ to[g] = from[h]
      BY <1>11, <3>1
    <3>. DEFINE k == Size(from[h])
    <3>3. from[h] \in Nat /\ from[h] < Units
      BY <1>3, <1>4, <2>3
    <3>4. k \in Nat
      BY <3>3, Sizes
    <3>5. h + k = n /\ from[h] + k = u
      BY <2>1
    <3>. HIDE DEF k
    <3>6. g + k = m
      BY <1>1, <3>1, <3>4, <3>5
    <3>7. g + Size(to[g]) = m /\ to[g] + Size(to[g]) = u
      BY <3>2, <3>5, <3>6 DEF k
    <3>. QED
      BY <3>2, <3>7 DEF EndsAfter
  <2>. QED
    BY <1>10, <2>2, <2>3
<1>16. more => EndsAfter(m, base + s, G, to, u)
  BY <1>15 DEF n
<1>17. G \in SUBSET Nat
  OBVIOUS
<1>18. Fits(<<>>, w, base + s, more, u)
  <2>. HIDE DEF G
  <2>. QED
    BY <1>11, <1>14, <1>16, <1>17 DEF Fits, m
<1>. QED
  BY <1>5, <1>6, <1>9, <1>18 DEF l, s

\* The same of a row of which only some cut is known.
LEMMA FitsSpoilt ==
    ASSUME NEW b \in Seq(Wire), NEW w \in Seq(Wire), NEW b2 \in Seq(Wire), NEW w2 \in Seq(Wire),
           NEW base \in Nat, NEW more, NEW more2, NEW u, Fits(b, w, base, more, u),
           Items(b2, w2) <= Items(b, w),
           \A j \in 1..Items(b2, w2) :
              \/ At(b2, w2, j) = At(b, w, j)
              \/ At(b, w, j).kind = "data" /\ At(b2, w2, j) = Junk,
           more2 => more /\ Items(b2, w2) = Items(b, w)
    PROVE  Fits(b2, w2, base, more2, u)
<1>1. PICK H \in SUBSET Nat, from \in [Nat -> Nat] :
        /\ Cut(b, w, base, H, from)
        /\ more => EndsAfter(Items(b, w), base, H, from, u)
  BY DEF Fits
<1>. DEFINE G == H \cap 1..Items(b2, w2)
<1>2. Cut(b2, w2, base, G, from)
  BY <1>1, Spoilt
<1>3. more2 => G = H
  BY <1>1 DEF Cut
<1>4. G \in SUBSET Nat
  OBVIOUS
<1>. HIDE DEF G
<1>5. more2 => EndsAfter(Items(b2, w2), base, G, from, u)
  BY <1>1, <1>3
<1>. QED
  BY <1>2, <1>4, <1>5 DEF Fits

LEMMA FitsExtended ==
    ASSUME NEW b \in Seq(Wire), NEW w \in Seq(Wire), NEW f \in Seq(Wire),
           NEW base \in Nat, NEW u \in Nat, NEW more, Fits(b, w, base, TRUE, u),
           u < Units, Len(f) = Size(u) + 1, f[1] = FrameHead(Size(u)),
           \A i \in 1..Size(u) : f[i + 1] = Unit(u + i)
    PROVE  Fits(b, w \o f, base, more, u + Size(u))
<1>. DEFINE s == Size(u)
<1>. DEFINE n == Items(b, w)
<1>. DEFINE lb == Len(b)
<1>. DEFINE lw == Len(w)
<1>. DEFINE v == w \o f
<1>1. s \in Nat \ {0} /\ lb \in Nat /\ lw \in Nat /\ n = lb + lw /\ n \in Nat
  BY Sizes DEF Items
<1>2. /\ v \in Seq(Wire) /\ Len(v) = lw + Len(f)
      /\ \A i \in 1..(lw + Len(f)) : v[i] = IF i <= lw THEN w[i] ELSE f[i - lw]
  BY ConcatProperties
<1>3. Items(b, v) = lb + Len(v) /\ Len(f) = s + 1 /\ Len(v) = lw + (s + 1)
  BY <1>2 DEF Items
<1>. HIDE DEF v, n, s, lw
<1>4. ASSUME NEW j \in 1..n
      PROVE  At(b, v, j) = At(b, w, j)
  <2>1. CASE j <= lb
    BY <2>1 DEF At
  <2>2. CASE ~(j <= lb)
    <3>1. At(b, v, j) = v[j - lb] /\ At(b, w, j) = w[j - lb]
      BY <2>2 DEF At
    <3>. HIDE DEF lb
    <3>2. j - lb \in 1..(lw + Len(f)) /\ j - lb <= lw
      BY <1>1, <1>3, <2>2
    <3>. QED
      BY <1>2, <3>1, <3>2
  <2>. QED
    BY <2>1, <2>2
<1>5. ASSUME NEW i \in 1..(s + 1)
      PROVE  At(b, v, n + i) = f[i]
  <2>. DEFINE k == n + i
  <2>1. ~(k <= lb) /\ k - lb = lw + i
    <3>. HIDE DEF lb
    <3>. QED
      BY <1>1
  <2>. HIDE DEF k
  <2>2. At(b, v, k) = v[k - lb]
    BY <2>1 DEF At
  <2>. HIDE DEF lb
  <2>. DEFINE j == lw + i
  <2>3. j \in 1..(lw + Len(f)) /\ ~(j <= lw) /\ j - lw = i /\ k - lb = j
    BY <1>1, <1>3, <2>1
  <2>. HIDE DEF j
  <2>4. v[j] = f[j - lw]
    BY <1>2, <2>3
  <2>. QED
    BY <2>2, <2>3, <2>4 DEF k
<1>. HIDE DEF lb
<1>6. At(b, v, n + 1) = FrameHead(s)
  <2>1. 1 \in 1..(s + 1)
    BY <1>1
  <2>. QED
    BY <1>5, <2>1 DEF s
<1>7. ASSUME NEW i \in 1..s
      PROVE  At(b, v, n + 1 + i) = Unit(u + i)
  <2>1. i + 1 \in 1..(s + 1) /\ n + (i + 1) = n + 1 + i
    BY <1>1
  <2>2. At(b, v, n + (i + 1)) = f[i + 1]
    BY <1>5, <2>1
  <2>. QED
    BY <2>1, <2>2 DEF s
<1>8. Items(b, v) = n + 1 + s
  BY <1>1, <1>3
<1>9. PICK H \in SUBSET Nat, from \in [Nat -> Nat] :
        Cut(b, w, base, H, from) /\ EndsAfter(n, base, H, from, u)
  BY DEF Fits, n
<1>11. n = Items(b, w) /\ s = Size(u)
  BY DEF n, s
<1>12. Continued(b, w, v, n, s, u)
  BY <1>4, <1>6, <1>7, <1>8 DEF Continued
<1>10. Fits(b, v, base, more, u + s)
  BY <1>2, <1>9, <1>11, <1>12, Extended
<1>. QED
  BY <1>10 DEF v, s

LEMMA FitsShifted ==
    ASSUME NEW b \in Seq(Wire), NEW w \in Seq(Wire), NEW base \in Nat, NEW more, NEW u,
           Fits(b, w, base, more, u), b # <<>>, Checked(b)
    PROVE  /\ base < Units /\ Len(b) = Size(base) + 1
           /\ \A i \in 1..Size(base) : b[i + 1].n = base + i
           /\ Fits(<<>>, w, base + Size(base), more, u)
<1>1. PICK H \in SUBSET Nat, from \in [Nat -> Nat] :
        /\ Cut(b, w, base, H, from)
        /\ more => EndsAfter(Items(b, w), base, H, from, u)
  BY DEF Fits
<1>. QED
  BY <1>1, Shifted

-----------------------------------------------------------------------------
(* The steps.                                                               *)

LEMMA Types ==
    ASSUME IInv
    PROVE  /\ up \in Seq(Wire) /\ buff \in Seq(Wire) /\ stored \in Seq(1..Units)
           /\ left \in 0..Units /\ sleft \in 0..Units /\ down \in Nat
           /\ Units \in Nat /\ Units - left \in Nat
           /\ conns \in 0..MaxConns /\ link \in {"none", "up", "reset", "silent"}
           /\ spc \in {"idle", "send", "wait", "close"}
           /\ rpc \in {"idle", "recv", "store", "answer", "drain", "close"}
           /\ upset \in BOOLEAN
  BY Sizes DEF IInv, TypeOK

\* A step that hands the row on, cuts it short or has a unit of it changed.
LEMMA RowKept ==
    ASSUME IInv, up' \in Seq(Wire), buff' \in Seq(Wire), left' = left, sleft' = sleft,
           Listens' =>
              /\ Listens /\ Items(buff', up') <= Items(buff, up)
              /\ \A j \in 1..Items(buff', up') :
                    \/ At(buff', up', j) = At(buff, up, j)
                    \/ At(buff, up, j).kind = "data" /\ At(buff', up', j) = Junk
              /\ GoesOn' => GoesOn /\ Items(buff', up') = Items(buff, up)
    PROVE  Agreed'
<1>. SUFFICES ASSUME Listens'
              PROVE  Fits(buff', up', Units - left, GoesOn', Units - sleft)
  BY DEF Agreed
<1>1. Fits(buff, up, Units - left, GoesOn, Units - sleft)
  BY DEF IInv, Agreed
<1>. DEFINE u == Units - sleft
<1>. DEFINE base == Units - left
<1>2. base \in Nat /\ buff \in Seq(Wire) /\ up \in Seq(Wire)
  BY Types
<1>. HIDE DEF u, base
<1>3. Fits(buff, up, base, GoesOn, u)
  BY <1>1 DEF u, base
<1>4. Fits(buff', up', base, GoesOn', u)
  BY <1>2, <1>3, FitsSpoilt
<1>. QED
  BY <1>4 DEF u, base

\* The steps that leave the row alone, or after which the receiver does not listen.
LEMMA QuietKeeps ==
    ASSUME IInv,
           \/ SendFails \/ TakeAnswer \/ AnswerFails \/ WaitBroken
           \/ ReceiveFails \/ QuietShut \/ Answer \/ SendBackFails \/ CloseReceiver
    PROVE  IInv'
<1>1. /\ UNCHANGED <<conns, link, sleft, left, stored>>
      /\ spc' \in {"idle", "send", "wait", "close"}
      /\ rpc' \in {"idle", "recv", "drain", "close"} \/ rpc' = rpc
      /\ buff' = buff \/ buff' = <<>>
      /\ spc' \in {"send", "wait"} => spc \in {"send", "wait"}
      /\ Listens' => Listens /\ buff' = buff /\ up' = up
      /\ rpc' = "store" => rpc = "store"
  <2>1. CASE SendFails
    BY <2>1, Types DEF SendFails, Listens
  <2>2. CASE TakeAnswer
    BY <2>2, Types DEF TakeAnswer, Listens
  <2>3. CASE AnswerFails
    BY <2>3, Types DEF AnswerFails, Listens
  <2>4. CASE ReceiveFails
    BY <2>4, Types DEF ReceiveFails, Listens
  <2>5. CASE QuietShut
    BY <2>5, Types DEF QuietShut, Listens
  <2>6. CASE Answer
    BY <2>6, Types DEF Answer, Listens
  <2>7. CASE SendBackFails
    BY <2>7, Types DEF SendBackFails, Listens
  <2>8. CASE CloseReceiver
    BY <2>8, Types DEF CloseReceiver, Listens
  <2>9. CASE WaitBroken
    BY <2>9, Types DEF WaitBroken, Listens
  <2>. QED
    BY <2>1, <2>2, <2>3, <2>4, <2>5, <2>6, <2>7, <2>8, <2>9
<1>2. up' \in Seq(Wire)
  <2>1. CASE SendFails
    <3>1. sleft \in 1..Units
      BY <2>1, Types DEF SendFails, IInv, Sending
    <3>2. Frame \in Seq(Wire)
      BY <3>1, FrameIs
    <3>3. \A f \in Prefixes(Frame) : f \in Seq(Wire) /\ up \o f \in Seq(Wire)
      BY <3>2, PrefixOf, Types, ConcatProperties
    <3>. QED
      BY <2>1, <3>3, Types DEF SendFails
  <2>2. CASE ~SendFails
    BY <2>2, Types DEF TakeAnswer, AnswerFails, WaitBroken, ReceiveFails, QuietShut, Answer,
         SendBackFails, CloseReceiver
  <2>. QED
    BY <2>1, <2>2
<1>3. down' \in Nat
  <2>1. CASE TakeAnswer
    BY <2>1, Types DEF TakeAnswer
  <2>2. CASE Answer
    <3>1. PICK k \in 1..AnswerParts : down' = down + k
      BY <2>2 DEF Answer
    <3>2. down \in Nat /\ k \in Nat
      BY <3>1, Types, Sizes
    <3>. QED
      BY <3>1, <3>2
  <2>3. CASE ~TakeAnswer /\ ~Answer
    BY <2>3, Types DEF SendFails, AnswerFails, WaitBroken, ReceiveFails, QuietShut,
         SendBackFails, CloseReceiver
  <2>. QED
    BY <2>1, <2>2, <2>3
<1>4. upset' \in BOOLEAN
  <2>1. CASE QuietShut
    BY <2>1, Types DEF QuietShut
  <2>2. CASE Answer
    BY <2>2, Types DEF Answer
  <2>3. CASE ~QuietShut /\ ~Answer
    BY <2>3, Types DEF SendFails, AnswerFails, WaitBroken, ReceiveFails, TakeAnswer,
         SendBackFails, CloseReceiver
  <2>. QED
    BY <2>1, <2>2, <2>3
<1>5. buff' \in Seq(Wire)
  <2>1. buff \in Seq(Wire) /\ <<>> \in Seq(Wire)
    BY Types
  <2>. QED
    BY <1>1, <2>1
<1>6. TypeOK'
  <2>1. rpc' \in {"idle", "recv", "store", "answer", "drain", "close"}
    BY <1>1, Types
  <2>. QED
    BY <1>1, <1>2, <1>3, <1>4, <1>5, <2>1, Types DEF TypeOK
<1>7. Agreed'
  <2>1. Items(buff, up) \in Nat
    BY Types DEF Items
  <2>2. GoesOn' => GoesOn
    BY <1>1 DEF GoesOn
  <2>3. Listens' => Items(buff', up') = Items(buff, up)
                    /\ \A j : At(buff', up', j) = At(buff, up, j)
    BY <1>1
  <2>4. Items(buff, up) <= Items(buff, up)
    BY <2>1
  <2>. QED
    BY <1>1, <1>2, <1>5, <2>2, <2>3, <2>4, RowKept
<1>8. Sending' /\ Genuine'
  BY <1>1 DEF IInv, Sending, Genuine
<1>9. Accepted'
  <2>1. rpc' = "store" => buff' = buff
    BY <1>1 DEF Listens
  <2>. QED
    BY <1>1, <2>1 DEF IInv, Accepted
<1>. QED
  BY <1>6, <1>7, <1>8, <1>9 DEF IInv

\* A frame lost on a silent link: the sender no longer matters to the row.
LEMMA LostKeeps ==
    ASSUME IInv, SendLost
    PROVE  IInv'
<1>1. /\ link = "silent" /\ spc' \in {"wait", "close"}
      /\ UNCHANGED <<conns, link, up, down, rpc, buff, left, stored, upset>>
  BY DEF SendLost
<1>2. sleft' \in 0..Units /\ (spc' = "wait" => sleft' > 0)
  <2>1. sleft \in 1..Units
    BY Types DEF SendLost, IInv, Sending
  <2>2. FrameLen \in 1..sleft
    BY <2>1, Sizes DEF FrameLen
  <2>3. sleft' = sleft - FrameLen /\ spc' = IF sleft' = 0 THEN "close" ELSE "wait"
    BY DEF SendLost
  <2>4. sleft' \in 0..Units
    <3>. HIDE DEF FrameLen
    <3>. QED
      BY <2>1, <2>2, <2>3, Sizes
  <2>. QED
    BY <2>3, <2>4
<1>3. TypeOK'
  BY <1>1, <1>2, Types DEF TypeOK
<1>4. Agreed'
  <2>1. ~GoesOn'
    BY <1>1 DEF GoesOn
  <2>2. Listens' => Listens
    BY <1>1 DEF Listens
  <2>3. ASSUME NEW u, NEW v, NEW more
        PROVE  Fits(buff, up, Units - left, more, u) => Fits(buff, up, Units - left, FALSE, v)
    BY DEF Fits
  <2>4. Listens => Fits(buff, up, Units - left, FALSE, Units - sleft')
    BY <2>3 DEF IInv, Agreed
  <2>5. Fits(buff, up, Units - left, FALSE, Units - sleft')
          => Fits(buff, up, Units - left, GoesOn', Units - sleft')
    BY <2>1 DEF Fits
  <2>. QED
    BY <1>1, <2>2, <2>4, <2>5 DEF Agreed
<1>5. Sending' /\ Accepted' /\ Genuine'
  BY <1>1, <1>2 DEF IInv, Sending, Accepted, Genuine
<1>. QED
  BY <1>3, <1>4, <1>5 DEF IInv

\* A new connection begins with nothing on its way.
LEMMA ConnectKeeps ==
    ASSUME IInv, Connect
    PROVE  IInv'
<1>1. /\ conns < MaxConns /\ conns' = conns + 1 /\ link' = "up" /\ up' = <<>> /\ down' = 0
      /\ spc' = "send" /\ rpc' = "recv" /\ buff' = <<>> /\ upset' = FALSE /\ stored' = stored
  BY DEF Connect
<1>2. PICK missing \in left..Units : missing > 0 /\ left' = missing /\ sleft' = missing
  BY DEF Connect
<1>3. missing \in 1..Units /\ Units - missing <= Units - left
  BY <1>2, Types
<1>4. TypeOK'
  <2>1. conns' \in 0..MaxConns
    <3>1. conns \in 0..MaxConns /\ MaxConns \in Nat
      BY Types, Sizes
    <3>. QED
      BY <1>1, <3>1
  <2>2. left' \in 0..Units /\ sleft' \in 0..Units
    <3>1. missing \in 0..Units
      BY <1>3
    <3>. QED
      BY <1>2, <3>1
  <2>3. up' \in Seq(Wire) /\ buff' \in Seq(Wire) /\ stored' \in Seq(1..Units)
    BY <1>1, Types
  <2>. QED
    BY <1>1, <2>1, <2>2, <2>3 DEF TypeOK
<1>5. Agreed'
  <2>. DEFINE base == Units - missing
  <2>. DEFINE from == [i \in Nat |-> 0]
  <2>1. Items(<<>>, <<>>) = 0
    BY DEF Items
  <2>2. Cut(<<>>, <<>>, base, {}, from) /\ EndsAfter(Items(<<>>, <<>>), base, {}, from, base)
    BY <2>1 DEF Cut, EndsAfter
  <2>3. {} \in SUBSET Nat /\ from \in [Nat -> Nat]
    OBVIOUS
  <2>. HIDE DEF from
  <2>4. Fits(<<>>, <<>>, base, GoesOn', base)
    BY <2>2, <2>3 DEF Fits
  <2>. QED
    BY <1>1, <1>2, <2>4 DEF Agreed
<1>6. Sending' /\ Accepted'
  BY <1>1, <1>2 DEF Sending, Accepted
<1>7. Genuine'
  <2>1. Len(stored) \in Nat /\ Units - left <= Len(stored)
    BY Types DEF IInv, Genuine
  <2>. QED
    BY <1>1, <1>2, <1>3, <2>1, Types DEF IInv, Genuine
<1>. QED
  BY <1>4, <1>5, <1>6, <1>7 DEF IInv

\* The sender adds a frame to the row.
LEMMA SendKeeps ==
    ASSUME IInv, SendFrame
    PROVE  IInv'
<1>1. /\ spc = "send" /\ link = "up" /\ up' = up \o Frame /\ sleft' = sleft - FrameLen
      /\ spc' = IF sleft' = 0 THEN "close" ELSE "wait"
      /\ UNCHANGED <<conns, link, down, rpc, buff, left, stored, upset>>
  BY DEF SendFrame
<1>. DEFINE u == Units - sleft
<1>2. sleft \in 1..Units /\ u \in Nat /\ u < Units
  BY <1>1, Types DEF IInv, Sending
<1>3. /\ FrameLen = Size(u) /\ FrameLen \in 1..sleft
      /\ Frame \in Seq(Wire) /\ Len(Frame) = Size(u) + 1
      /\ Frame[1] = FrameHead(Size(u))
      /\ \A i \in 1..Size(u) : Frame[i + 1] = Unit(u + i)
  BY <1>2, FrameIs
<1>4. sleft' \in 0..Units /\ Units - sleft' = u + Size(u) /\ sleft' \in Nat
  <2>. DEFINE k == Size(u)
  <2>1. sleft' = sleft - k /\ k \in 1..sleft
    BY <1>1, <1>3
  <2>. HIDE DEF k
  <2>2. sleft' \in 0..Units /\ Units - sleft' = u + k /\ sleft' \in Nat
    BY <1>2, <2>1, Types
  <2>. QED
    BY <2>2 DEF k
<1>5. up' \in Seq(Wire)
  BY <1>1, <1>3, Types, ConcatProperties
<1>6. TypeOK'
  BY <1>1, <1>4, <1>5, Types DEF TypeOK
<1>7. Agreed'
  <2>. DEFINE base == Units - left
  <2>1. base \in Nat /\ buff \in Seq(Wire) /\ up \in Seq(Wire) /\ GoesOn
    BY <1>1, Types DEF GoesOn
  <2>2. Listens => Fits(buff, up, base, TRUE, u)
    BY <2>1 DEF IInv, Agreed, Fits
  <2>. HIDE DEF u, base
  <2>3. Listens => Fits(buff, up \o Frame, base, GoesOn', u + Size(u))
    BY <1>2, <1>3, <2>1, <2>2, FitsExtended
  <2>4. Listens' = Listens
    BY <1>1 DEF Listens
  <2>. QED
    BY <1>1, <1>4, <2>3, <2>4 DEF Agreed, base
<1>8. Sending' /\ Accepted' /\ Genuine'
  <2>1. Sending'
    BY <1>1, <1>4 DEF Sending
  <2>. QED
    BY <1>1, <2>1 DEF IInv, Accepted, Genuine
<1>. QED
  BY <1>6, <1>7, <1>8 DEF IInv

\* The receiver takes items off the wire into its buffer.
LEMMA Received ==
    ASSUME IInv, Receive
    PROVE  /\ rpc = "recv" /\ rpc' \in {"close", "store", "recv"}
           /\ rpc' = "store" => Checked(buff')
           /\ UNCHANGED <<conns, link, down, spc, sleft, left, stored, upset>>
           /\ buff' \in Seq(Wire) /\ up' \in Seq(Wire) /\ buff' # <<>>
           /\ Items(buff', up') = Items(buff, up)
           /\ \A j \in 1..Items(buff, up) : At(buff', up', j) = At(buff, up, j)
<1>1. /\ rpc = "recv" /\ rpc' \in {"close", "store", "recv"}
      /\ rpc' = "store" => Checked(buff')
      /\ UNCHANGED <<conns, link, down, spc, sleft, left, stored, upset>>
  BY DEF Receive
<1>2. PICK k \in 1..Len(up) :
        buff' = buff \o SubSeq(up, 1, k) /\ up' = SubSeq(up, k + 1, Len(up))
  BY DEF Receive
<1>. DEFINE n == Len(up)
<1>. DEFINE lb == Len(buff)
<1>. DEFINE c == SubSeq(up, 1, k)
<1>. DEFINE d == SubSeq(up, k + 1, n)
<1>3. n \in Nat /\ lb \in Nat /\ k \in 1..n
  BY Types
<1>4. \A i \in 1..n : up[i] \in Wire
  BY Types, ElementOfSeq
<1>5. c \in Seq(Wire) /\ Len(c) = k /\ \A i \in 1..k : c[i] = up[i]
  <2>. HIDE DEF n
  <2>1. 1 \in Int /\ k \in Int /\ \A i \in 1..k : up[i] \in Wire
    BY <1>3, <1>4
  <2>2. /\ c \in Seq(Wire)
        /\ Len(c) = IF 1 <= k THEN k - 1 + 1 ELSE 0
        /\ \A i \in 1..(k - 1 + 1) : c[i] = up[1 + i - 1]
    BY <2>1, SubSeqProperties
  <2>. HIDE DEF c
  <2>. QED
    BY <1>3, <2>2
<1>6. d \in Seq(Wire) /\ Len(d) = n - k /\ \A i \in 1..(n - k) : d[i] = up[k + i]
  <2>. HIDE DEF n
  <2>1. k + 1 \in Int /\ n \in Int /\ \A i \in (k + 1)..n : up[i] \in Wire
    BY <1>3, <1>4
  <2>2. /\ d \in Seq(Wire)
        /\ Len(d) = IF k + 1 <= n THEN n - (k + 1) + 1 ELSE 0
        /\ \A i \in 1..(n - (k + 1) + 1) : d[i] = up[(k + 1) + i - 1]
    BY <2>1, SubSeqProperties
  <2>. HIDE DEF d
  <2>3. n - (k + 1) + 1 = n - k /\ \A i \in 1..(n - k) : (k + 1) + i - 1 = k + i
    BY <1>3
  <2>. QED
    BY <1>3, <2>2, <2>3
<1>7. buff' = buff \o c /\ up' = d
  BY <1>2
<1>. HIDE DEF c, d
<1>8. /\ buff' \in Seq(Wire) /\ Len(buff') = lb + k
      /\ \A i \in 1..(lb + k) : buff'[i] = IF i <= lb THEN buff[i] ELSE c[i - lb]
  BY <1>5, <1>7, Types, ConcatProperties
<1>9. Items(buff', up') = Items(buff, up) /\ Items(buff, up) = lb + n
  <2>1. Items(buff', up') = Len(buff') + Len(up') /\ Items(buff, up) = lb + n
    BY DEF Items
  <2>. HIDE DEF n, lb
  <2>. QED
    BY <1>3, <1>6, <1>7, <1>8, <2>1
<1>10. ASSUME NEW j \in 1..(lb + n)
       PROVE  At(buff', up', j) = At(buff, up, j)
  <2>1. At(buff, up, j) = IF j <= lb THEN buff[j] ELSE up[j - lb]
    BY DEF At
  <2>2. At(buff', up', j) = IF j <= lb + k THEN buff'[j] ELSE d[j - (lb + k)]
    BY <1>7, <1>8 DEF At
  <2>. HIDE DEF n, lb
  <2>3. CASE j <= lb
    <3>1. j \in 1..(lb + k) /\ j <= lb + k
      BY <1>3, <2>3
    <3>. QED
      BY <1>8, <2>1, <2>2, <2>3, <3>1
  <2>4. CASE ~(j <= lb) /\ j <= lb + k
    <3>1. j \in 1..(lb + k) /\ j - lb \in 1..k
      BY <1>3, <2>4
    <3>. QED
      BY <1>5, <1>8, <2>1, <2>2, <2>4, <3>1
  <2>5. CASE ~(j <= lb + k)
    <3>. DEFINE i == j - (lb + k)
    <3>1. i \in 1..(n - k) /\ ~(j <= lb) /\ k + i = j - lb
      BY <1>3, <2>5
    <3>. HIDE DEF i
    <3>2. d[i] = up[j - lb]
      BY <1>6, <3>1
    <3>. QED
      BY <2>1, <2>2, <2>5, <3>1, <3>2 DEF i
  <2>. QED
    BY <1>3, <2>3, <2>4, <2>5
<1>11. up' \in Seq(Wire)
  BY <1>6, <1>7
<1>12. buff' # <<>>
  BY <1>3, <1>8
<1>. QED
  BY <1>1, <1>8, <1>9, <1>10, <1>11, <1>12

LEMMA ReceiveKeeps ==
    ASSUME IInv, Receive
    PROVE  IInv'
<1>1. TypeOK'
  BY Received, Types DEF TypeOK
<1>2. Agreed'
  <2>1. Listens /\ GoesOn' = GoesOn
    BY Received DEF Listens, GoesOn
  <2>2. Items(buff, up) <= Items(buff, up)
    BY Types DEF Items
  <2>3. \A j \in 1..Items(buff', up') : At(buff', up', j) = At(buff, up, j)
    BY Received
  <2>. QED
    BY <2>1, <2>2, <2>3, Received, RowKept
<1>3. Accepted'
  BY Received DEF Accepted
<1>4. Sending' /\ Genuine'
  BY Received DEF IInv, Sending, Genuine
<1>. QED
  BY <1>1, <1>2, <1>3, <1>4 DEF IInv

\* The connection is reset or falls silent, or an item arrives changed.
LEMMA FaultKeeps ==
    ASSUME IInv, CloseSender \/ Reset \/ FallSilent \/ Damage
    PROVE  IInv'
<1>1. /\ UNCHANGED <<conns, sleft, rpc, buff, left, stored>>
      /\ link' \in {"none", "up", "reset", "silent"} /\ down' \in Nat /\ upset' \in BOOLEAN
      /\ spc' = spc \/ spc' = "idle"
      /\ GoesOn' => GoesOn
  <2>1. CASE CloseSender
    BY <2>1, Types DEF CloseSender, GoesOn
  <2>2. CASE Reset
    BY <2>2, Types DEF Reset, GoesOn
  <2>3. CASE FallSilent
    BY <2>3, Types DEF FallSilent, GoesOn
  <2>4. CASE Damage
    BY <2>4, Types DEF Damage, GoesOn
  <2>. QED
    BY <2>1, <2>2, <2>3, <2>4
<1>. DEFINE n == Len(up)
<1>2. /\ up' \in Seq(Wire) /\ Len(up') \in Nat /\ Len(up') <= n
      /\ \A i \in 1..Len(up') : \/ up'[i] = up[i]
                                \/ up[i].kind = "data" /\ up'[i] = Junk
      /\ GoesOn' => Len(up') = n
  <2>1. n \in Nat /\ up \in Seq(Wire)
    BY Types
  <2>2. CASE up' \in Prefixes(up) /\ ~GoesOn'
    <3>1. /\ up' \in Seq(Wire) /\ Len(up') <= n
          /\ \A i \in 1..Len(up') : up'[i] = up[i]
      BY <2>1, <2>2, PrefixOf
    <3>2. Len(up') \in Nat
      BY <3>1
    <3>. QED
      BY <2>2, <3>1, <3>2
  <2>3. CASE up' = up
    BY <2>1, <2>3
  <2>4. CASE up' = <<>> /\ ~GoesOn'
    BY <2>1, <2>4
  <2>5. CASE Damage
    <3>1. PICK i \in 1..n : up[i].kind = "data" /\ up' = [up EXCEPT ![i] = Junk]
      BY <2>5 DEF Damage
    <3>2. Junk \in Wire
      BY Sizes DEF Junk, Wire
    <3>3. /\ up' \in Seq(Wire) /\ Len(up') = n
          /\ \A j \in 1..n : up'[j] = IF j = i THEN Junk ELSE up[j]
      BY <2>1, <3>1, <3>2, ExceptSeq
    <3>. QED
      BY <2>1, <3>1, <3>3
  <2>6. CASE CloseSender
    <3>1. up' = up \/ (up' \in Prefixes(up) /\ spc' = "idle")
      BY <2>6 DEF CloseSender
    <3>. QED
      BY <2>2, <2>3, <3>1 DEF GoesOn
  <2>7. CASE Reset
    BY <2>2, <2>7 DEF Reset, GoesOn
  <2>8. CASE FallSilent
    BY <2>4, <2>8 DEF FallSilent, GoesOn
  <2>. QED
    BY <2>5, <2>6, <2>7, <2>8
<1>3. TypeOK'
  BY <1>1, <1>2, Types DEF TypeOK
<1>4. Agreed'
  <2>. DEFINE lb == Len(buff)
  <2>. DEFINE m == Len(up')
  <2>1. lb \in Nat /\ n \in Nat /\ m \in Nat /\ m <= n
    BY <1>2, Types
  <2>2. Items(buff', up') = lb + m /\ Items(buff, up) = lb + n
    BY <1>1 DEF Items
  <2>3. ASSUME NEW j \in 1..(lb + m)
        PROVE  \/ At(buff', up', j) = At(buff, up, j)
               \/ At(buff, up, j).kind = "data" /\ At(buff', up', j) = Junk
    <3>1. CASE j <= lb
      BY <1>1, <3>1 DEF At
    <3>2. CASE ~(j <= lb)
      <4>1. At(buff', up', j) = up'[j - lb] /\ At(buff, up, j) = up[j - lb]
        BY <1>1, <3>2 DEF At
      <4>. DEFINE i == j - lb
      <4>2. i \in 1..m
        <5>. HIDE DEF lb, m
        <5>. QED
          BY <2>1, <3>2
      <4>3. up'[i] = up[i] \/ (up[i].kind = "data" /\ up'[i] = Junk)
        BY <1>2, <4>2
      <4>. QED
        BY <4>1, <4>3
    <3>. QED
      BY <3>1, <3>2
  <2>4. Items(buff', up') <= Items(buff, up) /\ (m = n => Items(buff', up') = Items(buff, up))
    <3>. HIDE DEF lb, m, n
    <3>. QED
      BY <2>1, <2>2
  <2>5. Listens' => Listens
    BY <1>1 DEF Listens
  <2>6. buff' \in Seq(Wire) /\ left' = left /\ sleft' = sleft /\ (GoesOn' => GoesOn /\ m = n)
    BY <1>1, <1>2, Types
  <2>7. \A j \in 1..Items(buff', up') :
           \/ At(buff', up', j) = At(buff, up, j)
           \/ At(buff, up, j).kind = "data" /\ At(buff', up', j) = Junk
    BY <2>2, <2>3
  <2>. HIDE DEF m, n
  <2>. QED
    BY <1>2, <2>4, <2>5, <2>6, <2>7, RowKept
<1>5. Sending' /\ Accepted' /\ Genuine'
  BY <1>1 DEF IInv, Sending, Accepted, Genuine
<1>. QED
  BY <1>3, <1>4, <1>5 DEF IInv

\* Writing the units after unit a over a file that holds at least those keeps every
\* unit in its place.
LEMMA OverlayInPlace ==
    ASSUME NEW s \in Seq(1..Units), \A i \in 1..Len(s) : s[i] = i,
           NEW a \in Nat, a <= Len(s), NEW k \in Nat, a + k <= Units,
           NEW d, Len(d) = k, \A i \in 1..k : d[i] = a + i
    PROVE  /\ Overlay(s, a, d) \in Seq(1..Units)
           /\ Len(Overlay(s, a, d)) \in Nat /\ a + k <= Len(Overlay(s, a, d))
           /\ \A i \in 1..Len(Overlay(s, a, d)) : Overlay(s, a, d)[i] = i
<1>. DEFINE n == Len(s)
<1>. DEFINE m == IF n > a + k THEN n ELSE a + k
<1>. DEFINE f == [i \in 1..m |-> IF i \in (a + 1)..(a + k) THEN d[i - a] ELSE s[i]]
<1>1. n \in Nat /\ Units \in Nat /\ \A i \in 1..n : s[i] \in 1..Units
  BY Sizes, ElementOfSeq
<1>2. Overlay(s, a, d) = f
  BY DEF Overlay
<1>3. n <= Units
  <2>1. n > 0 => n \in 1..n
    BY <1>1
  <2>2. n > 0 => n \in 1..Units
    BY <1>1, <2>1
  <2>. QED
    BY <1>1, <2>2
<1>. HIDE DEF n
<1>4. m \in Nat /\ n <= m /\ a + k <= m /\ m <= Units /\ (m = n \/ m = a + k)
  BY <1>1, <1>3
<1>5. a <= n /\ \A i \in 1..n : s[i] = i
  BY DEF n
<1>. HIDE DEF m
<1>6. ASSUME NEW i \in 1..m
      PROVE  f[i] = i /\ i \in 1..Units
  <2>1. i \in 1..Units
    BY <1>1, <1>4
  <2>2. CASE i \in (a + 1)..(a + k)
    <3>. DEFINE j == i - a
    <3>1. j \in 1..k /\ a + j = i
      BY <2>2
    <3>. HIDE DEF j
    <3>2. d[j] = i
      BY <3>1
    <3>. QED
      BY <2>1, <2>2, <3>2 DEF j
  <2>3. CASE ~(i \in (a + 1)..(a + k))
    <3>1. i \in 1..n
      BY <1>1, <1>4, <1>5, <2>3
    <3>. QED
      BY <1>5, <2>1, <2>3, <3>1
  <2>. QED
    BY <2>2, <2>3
<1>7. f \in [1..m -> 1..Units]
  <2>1. f = [i \in 1..m |-> f[i]] /\ \A i \in 1..m : f[i] \in 1..Units
    BY <1>6
  <2>. QED
    BY <2>1
<1>. HIDE DEF f
<1>8. f \in Seq(1..Units) /\ Len(f) = m
  BY <1>4, <1>7, FunctionIsSeq
<1>. QED
  BY <1>2, <1>4, <1>6, <1>8

\* The receiver copies the frame it has checked to where the piece goes on.
LEMMA StoreKeeps ==
    ASSUME IInv, StoreChunk
    PROVE  IInv'
<1>. DEFINE base == Units - left
<1>. DEFINE s == Size(base)
<1>. DEFINE p == Payload
<1>. DEFINE len == IF Len(p) > left THEN left ELSE Len(p)
<1>1. /\ rpc = "store" /\ stored' = Overlay(stored, base, SubSeq(p, 1, len))
      /\ left' = left - len /\ buff' = <<>>
      /\ rpc' = IF left' = 0 THEN "drain" ELSE "answer"
      /\ UNCHANGED <<conns, link, up, down, spc, sleft, upset>>
  BY DEF StoreChunk
<1>2. base \in Nat /\ left \in 0..Units /\ Units \in Nat /\ buff \in Seq(Wire)
      /\ up \in Seq(Wire)
  BY Types
<1>3. Fits(buff, up, base, GoesOn, Units - sleft) /\ buff # <<>> /\ Checked(buff)
  BY <1>1 DEF IInv, Agreed, Accepted, Listens
<1>4. /\ base < Units /\ Len(buff) = s + 1
      /\ \A i \in 1..s : buff[i + 1].n = base + i
      /\ Fits(<<>>, up, base + s, GoesOn, Units - sleft)
  <2>. HIDE DEF base
  <2>. QED
    BY <1>2, <1>3, FitsShifted
<1>5. s \in Nat \ {0} /\ base + s <= Units
  <2>. HIDE DEF base
  <2>. QED
    BY <1>2, <1>4, Sizes
<1>6. s <= left /\ base = Units - left
  <2>. HIDE DEF s
  <2>. QED
    BY <1>2, <1>5
<1>. HIDE DEF base, s
<1>7. p \in Seq(Nat) /\ Len(p) = s /\ \A i \in 1..s : p[i] = base + i
  <2>1. Len(buff) - 1 = s
    BY <1>4, <1>5
  <2>2. p = [i \in 1..s |-> buff[i + 1].n]
    BY <2>1 DEF Payload
  <2>3. \A i \in 1..s : p[i] = base + i /\ base + i \in Nat
    BY <1>2, <1>4, <1>5, <2>2
  <2>4. p \in [1..s -> Nat]
    BY <2>2, <2>3
  <2>. HIDE DEF p
  <2>5. p \in Seq(Nat) /\ Len(p) = s
    BY <1>5, <2>4, FunctionIsSeq
  <2>. QED
    BY <2>3, <2>5
<1>. HIDE DEF p
<1>8. len = s
  BY <1>2, <1>5, <1>6, <1>7
<1>. HIDE DEF len
<1>. DEFINE c == SubSeq(p, 1, s)
<1>9. Len(c) = s /\ \A i \in 1..s : c[i] = base + i
  <2>1. 1 \in Int /\ s \in Int /\ \A i \in 1..s : p[i] \in Nat
    BY <1>2, <1>5, <1>7
  <2>2. /\ Len(c) = IF 1 <= s THEN s - 1 + 1 ELSE 0
        /\ \A i \in 1..(s - 1 + 1) : c[i] = p[1 + i - 1]
    BY <2>1, SubSeqProperties
  <2>. HIDE DEF c
  <2>. QED
    BY <1>5, <1>7, <2>2
<1>10. stored' = Overlay(stored, base, c) /\ left' = left - s
  BY <1>1, <1>8
<1>. HIDE DEF c
<1>11. stored \in Seq(1..Units) /\ base <= Len(stored) /\ \A i \in 1..Len(stored) : stored[i] = i
  BY Types, <1>6 DEF IInv, Genuine
<1>12. /\ stored' \in Seq(1..Units) /\ Len(stored') \in Nat /\ base + s <= Len(stored')
       /\ \A i \in 1..Len(stored') : stored'[i] = i
  BY <1>2, <1>5, <1>9, <1>10, <1>11, OverlayInPlace
<1>13. left' \in 0..Units /\ Units - left' = base + s
  BY <1>2, <1>5, <1>6, <1>10
<1>14. TypeOK'
  <2>1. buff' \in Seq(Wire) /\ rpc' \in {"drain", "answer"}
    BY <1>1
  <2>. QED
    BY <1>1, <1>12, <1>13, <2>1, Types DEF TypeOK
<1>15. Agreed'
  <2>1. GoesOn' = GoesOn
    BY <1>1 DEF GoesOn
  <2>. QED
    BY <1>1, <1>4, <1>13, <2>1 DEF Agreed
<1>16. Sending' /\ Accepted'
  BY <1>1 DEF IInv, Sending, Accepted
<1>17. Genuine'
  BY <1>12, <1>13 DEF Genuine
<1>. QED
  BY <1>14, <1>15, <1>16, <1>17 DEF IInv

-----------------------------------------------------------------------------
(* The theorems.                                                            *)

LEMMA InitIInv == Init => IInv
<1>. SUFFICES ASSUME Init
              PROVE  IInv
  OBVIOUS
<1>1. TypeOK
  <2>1. conns \in 0..MaxConns /\ left \in 0..Units /\ sleft \in 0..Units /\ down \in Nat
    BY Sizes DEF Init
  <2>2. up \in Seq(Wire) /\ buff \in Seq(Wire) /\ stored \in Seq(1..Units)
    BY DEF Init
  <2>. QED
    BY <2>1, <2>2 DEF Init, TypeOK
<1>2. Agreed /\ Sending /\ Accepted
  BY DEF Init, Agreed, Listens, Sending, Accepted
<1>3. Genuine
  BY Sizes DEF Init, Genuine
<1>. QED
  BY <1>1, <1>2, <1>3 DEF IInv

LEMMA NextIInv == IInv /\ [Next]_vars => IInv'
<1>. SUFFICES ASSUME IInv, [Next]_vars
              PROVE  IInv'
  OBVIOUS
<1>1. CASE Connect
  BY <1>1, ConnectKeeps
<1>2. CASE Sender
  BY <1>2, SendKeeps, LostKeeps, QuietKeeps, FaultKeeps DEF Sender
<1>3. CASE Receiver
  BY <1>3, ReceiveKeeps, QuietKeeps, StoreKeeps DEF Receiver
<1>4. CASE Network
  BY <1>4, FaultKeeps, QuietKeeps DEF Network
<1>5. CASE UNCHANGED vars
  <2>1. TypeOK' /\ Sending' /\ Accepted' /\ Genuine'
    BY <1>5 DEF vars, IInv, TypeOK, Sending, Accepted, Genuine
  <2>2. Agreed'
    <3>1. /\ Listens' = Listens /\ GoesOn' = GoesOn /\ buff' = buff /\ up' = up
          /\ left' = left /\ sleft' = sleft
      BY <1>5 DEF vars, Listens, GoesOn
    <3>. QED
      BY <3>1 DEF IInv, Agreed
  <2>. QED
    BY <2>1, <2>2 DEF IInv
<1>. QED
  BY <1>1, <1>2, <1>3, <1>4, <1>5 DEF Next

\* On every connection, the row from the receiver's buffer to the end of the wire is
\* cut into frames where the sender cut it and begins where the receiver stores next
\* (build_trans_data, TCP, receive() and update_file_piece_data together).
THEOREM Invariance == Spec => []IInv
  BY InitIInv, NextIInv, PTL DEF Spec

\* The variables keep their types: neither lenth_left falls below nothing, and what
\* is stored are units of the piece.
THEOREM TypeInvariant == Spec => []TypeOK
<1>1. IInv => TypeOK
  BY DEF IInv
<1>. QED
  BY <1>1, Invariance, PTL

\* Whatever the network does, and however often the two sides connect again, every
\* unit update_file_piece_data copies lands where it belongs, and what lenth_left
\* counts as stored is stored.
THEOREM StoredInPlace == Spec => []Genuine
<1>1. IInv => Genuine
  BY DEF IInv
<1>. QED
  BY <1>1, Invariance, PTL

-----------------------------------------------------------------------------
(* The two sides take turns.                                                *)

\* The row is one frame, undamaged.
OneFrame(n, b, w) ==
    /\ Items(b, w) = n + 1 /\ At(b, w, 1) = FrameHead(n)
    /\ \A j \in 2..(n + 1) : At(b, w, j).kind = "data"

\* On a connection that works it is the sender's turn, or a frame is on its way, or
\* is to be answered, or its answer is on its way; what the receiver counts as missing
\* is what the sender does, but for the one frame.
SendersTurn ==
    spc = "send" /\ rpc = "recv" /\ buff = <<>> /\ up = <<>> /\ down = 0 /\ left = sleft
FrameComes ==
    /\ spc = "wait" /\ down = 0
    /\ \E n \in 1..MaxFrame : OneFrame(n, buff, up) /\ left = sleft + n
    /\ \/ rpc = "recv" /\ up # <<>>
       \/ rpc = "store" /\ up = <<>>
AnswerDue ==
    spc = "wait" /\ rpc = "answer" /\ buff = <<>> /\ up = <<>> /\ down = 0 /\ left = sleft
AnswerComes ==
    spc = "wait" /\ rpc = "recv" /\ buff = <<>> /\ up = <<>> /\ down = 1 /\ left = sleft
\* The last frame has been sent.
LastSent == spc \in {"close", "idle"} /\ sleft = 0 /\ left <= MaxFrame
Turns ==
    link = "up" /\ ~upset =>
        SendersTurn \/ FrameComes \/ AnswerDue \/ AnswerComes \/ LastSent

LEMMA TurnsStep == IInv /\ Turns /\ [Next]_vars => Turns'
<1> SUFFICES ASSUME IInv, Turns, [Next]_vars, link' = "up", ~upset'
             PROVE  SendersTurn' \/ FrameComes' \/ AnswerDue' \/ AnswerComes' \/ LastSent'
  BY DEF Turns
<1>. USE DEF LastSent
<1>0. left \in 0..Units /\ sleft \in 0..Units /\ Units \in Nat /\ MaxFrame \in Nat \ {0}
  BY Sizes DEF IInv, TypeOK
<1>1. CASE Connect
  BY <1>1 DEF Connect, SendersTurn
<1>2. CASE SendFrame
  <2>1. link = "up" /\ ~upset /\ spc = "send" /\ left' = left
    BY <1>2 DEF SendFrame
  <2>2. rpc = "recv" /\ buff = <<>> /\ up = <<>> /\ down = 0 /\ left = sleft
    BY <2>1 DEF Turns, SendersTurn, FrameComes, AnswerDue, AnswerComes
  <2>3. sleft \in 1..Units
    BY <2>1, Types DEF IInv, Sending
  <2>4. /\ FrameLen \in 1..sleft /\ FrameLen = Size(Units - sleft)
        /\ Frame \in Seq(Wire) /\ Len(Frame) = FrameLen + 1
        /\ Frame[1] = FrameHead(FrameLen)
        /\ \A i \in 1..FrameLen : Frame[i + 1] = Unit(Units - sleft + i)
    BY <2>3, FrameIs
  <2>5. FrameLen \in 1..MaxFrame
    BY <2>3, <2>4, Sizes
  <2>6. sleft' = sleft - FrameLen /\ spc' = (IF sleft' = 0 THEN "close" ELSE "wait")
    BY <1>2 DEF SendFrame
  <2>7. CASE sleft' = 0
    BY <1>0, <2>1, <2>2, <2>3, <2>4, <2>5, <2>6, <2>7
  <2>8. CASE sleft' # 0
    <3> DEFINE n == FrameLen
               f == Frame
    <3>. HIDE DEF n, f
    <3>1. rpc' = "recv" /\ buff' = <<>> /\ down' = 0 /\ up' = f
      <4>1. up' = up \o f /\ rpc' = rpc /\ buff' = buff /\ down' = down
        BY <1>2 DEF SendFrame, f
      <4>2. <<>> \o f = f
        BY <2>4 DEF f
      <4>. QED
        BY <2>2, <4>1, <4>2
    <3>2. f \in Seq(Wire) /\ Len(f) = n + 1 /\ f[1] = FrameHead(n) /\ n \in 1..MaxFrame
          /\ \A i \in 1..n : f[i + 1].kind = "data"
      <4>1. \A i \in 1..n : f[i + 1].kind = "data"
        <5>1. \A x : Unit(x).kind = "data"
          BY DEF Unit
        <5>. QED
          BY <2>4, <5>1 DEF f, n
      <4>. QED
        BY <2>4, <2>5, <4>1 DEF f, n
    <3>3. OneFrame(n, <<>>, f)
      <4>1. Items(<<>>, f) = n + 1
        BY <3>2, Sizes DEF Items
      <4>2. \A j \in 1..(n + 1) : At(<<>>, f, j) = f[j]
        BY <3>2, Sizes DEF At
      <4>3. \A j \in 2..(n + 1) : j - 1 \in 1..n /\ j - 1 + 1 = j
        BY <3>2, Sizes
      <4>4. \A j \in 2..(n + 1) : f[j].kind = "data"
        BY <3>2, <4>3
      <4>5. 1 \in 1..(n + 1) /\ \A j \in 2..(n + 1) : j \in 1..(n + 1)
        BY <3>2, Sizes
      <4>. QED
        BY <3>2, <4>1, <4>2, <4>4, <4>5 DEF OneFrame
    <3>4. f # <<>>
      BY <3>2, Sizes
    <3>5. spc' = "wait" /\ left' = sleft' + n
      BY <2>1, <2>2, <2>3, <2>4, <2>6, <2>8 DEF n
    <3>. QED
      BY <3>1, <3>2, <3>3, <3>4, <3>5 DEF FrameComes
  <2>. QED
    BY <2>7, <2>8
<1>3. CASE TakeAnswer
  <2>1. /\ link = "up" /\ ~upset /\ spc = "wait" /\ spc' = "send"
        /\ UNCHANGED <<rpc, buff, up, left, sleft>> /\ \E k \in 1..down : down' = down - k
    BY <1>3 DEF TakeAnswer
  <2>2. down # 0
    BY <2>1
  <2>3. AnswerComes
    BY <2>1, <2>2 DEF Turns, SendersTurn, FrameComes, AnswerDue
  <2>. QED
    BY <2>1, <2>3 DEF AnswerComes, SendersTurn
<1>4. CASE Receive
  <2>1. link = "up" /\ ~upset /\ rpc = "recv" /\ up # <<>>
        /\ UNCHANGED <<down, spc, left, sleft>>
    <3>1. up # <<>>
      BY <1>4 DEF Receive
    <3>. QED
      BY <1>4, <3>1 DEF Receive
  <2> SUFFICES ASSUME ~LastSent PROVE FrameComes'
    BY <2>1
  <2>2. FrameComes
    BY <2>1 DEF Turns, SendersTurn, AnswerDue, AnswerComes
  <2>3. PICK n \in 1..MaxFrame :
          /\ Items(buff, up) = n + 1 /\ At(buff, up, 1) = FrameHead(n)
          /\ \A j \in 2..(n + 1) : At(buff, up, j).kind = "data"
          /\ left = sleft + n
    BY <2>2 DEF FrameComes, OneFrame
  <2>4. /\ Items(buff', up') = n + 1 /\ At(buff', up', 1) = FrameHead(n)
        /\ \A j \in 2..(n + 1) : At(buff', up', j).kind = "data"
    <3>1. \A j \in 2..(n + 1) : j \in 1..(n + 1)
      BY <2>3
    <3>2. 1 \in 1..(n + 1)
      BY <2>3, Sizes
    <3>. QED
      BY <1>4, <2>3, <3>1, <3>2, Received
  <2>5. OneFrame(n, buff', up')
    BY <2>4 DEF OneFrame
  <2>6. /\ Len(buff') \in Nat \ {0} /\ Len(up') \in Nat /\ Len(buff') + Len(up') = n + 1
        /\ up' \in Seq(Wire)
    BY <1>4, <2>4, Received DEF Items
  <2>7. \A j \in 1..Len(buff') : buff'[j] = At(buff', up', j) /\ j \in 1..(n + 1)
    BY <2>6 DEF At
  <2>8. buff'[1] = FrameHead(n) /\ \A j \in 2..Len(buff') : buff'[j].kind = "data"
    <3>1. 1 \in 1..Len(buff') /\ \A j \in 2..Len(buff') : j \in 1..Len(buff') /\ j \in 2..(n + 1)
      BY <2>6
    <3>. QED
      BY <2>4, <2>7, <3>1
  <2>9. ~Rejected(buff')
    BY <2>6, <2>8, Sizes, FrameAssumption DEF Rejected, FrameHead
  <2>10. rpc' = IF Checked(buff') THEN "store" ELSE "recv"
    BY <1>4, <2>9 DEF Receive
  <2>11. Checked(buff') <=> Len(buff') = n + 1
    BY <2>8, <2>9 DEF Checked, Whole, FrameHead
  <2>12. Len(buff') = n + 1 <=> up' = <<>>
    BY <2>6
  <2>. QED
    BY <2>1, <2>2, <2>3, <2>5, <2>10, <2>11, <2>12 DEF FrameComes
<1>5. CASE StoreChunk
  <2>1. /\ link = "up" /\ ~upset /\ rpc = "store" /\ UNCHANGED <<spc, sleft, up, down>>
        /\ left' = left - (IF Len(Payload) > left THEN left ELSE Len(Payload))
        /\ buff' = <<>> /\ rpc' = (IF left' = 0 THEN "drain" ELSE "answer")
    BY <1>5 DEF StoreChunk
  <2>2. Payload = [i \in 1..(Len(buff) - 1) |-> buff[i + 1].n] /\ Len(buff) - 1 \in Nat
    BY <2>1, Types, Sizes DEF IInv, Accepted, Payload
  <2>3. Len(Payload) = Len(buff) - 1 /\ Len(Payload) \in Nat /\ Len(buff) \in Nat
    BY <2>2, Types
  <2>4. left' \in 0..left
    <3> DEFINE m == Len(Payload)
    <3>1. m \in Nat /\ left' = left - (IF m > left THEN left ELSE m)
      BY <2>1, <2>3
    <3>. HIDE DEF m
    <3>. QED
      BY <1>0, <3>1
  <2> SUFFICES ASSUME ~LastSent PROVE AnswerDue'
    BY <1>0, <2>1, <2>4
  <2>5. FrameComes
    BY <2>1 DEF Turns, SendersTurn, AnswerDue, AnswerComes
  <2>6. PICK n \in 1..MaxFrame : Items(buff, <<>>) = n + 1 /\ left = sleft + n
    BY <2>1, <2>5 DEF FrameComes, OneFrame
  <2>7. Len(Payload) = n
    <3>1. Items(buff, <<>>) = Len(buff)
      BY <2>3 DEF Items
    <3>. QED
      BY <2>3, <2>6, <3>1
  <2>8. sleft > 0
    BY <2>5 DEF FrameComes, IInv, Sending
  <2>9. left' = sleft /\ rpc' = "answer"
    BY <1>0, <2>1, <2>6, <2>7, <2>8
  <2>. QED
    BY <2>1, <2>5, <2>9 DEF FrameComes, AnswerDue
<1>6. CASE Answer
  <2>1. PICK k \in 1..AnswerParts : down' = down + k /\ upset' = (upset \/ k > 1)
    BY <1>6 DEF Answer
  <2>2. k = 1 /\ ~upset
    <3>1. ~upset /\ ~(k > 1)
      BY <2>1, Zenon
    <3>. QED
      BY <3>1, Sizes
  <2>3. link = "up" /\ rpc = "answer" /\ rpc' = "recv"
        /\ UNCHANGED <<spc, sleft, left, up, buff>>
    BY <1>6 DEF Answer
  <2>4. AnswerDue \/ LastSent
    BY <2>2, <2>3 DEF Turns, SendersTurn, FrameComes, AnswerComes
  <2>. QED
    BY <2>1, <2>2, <2>3, <2>4 DEF AnswerDue, AnswerComes
<1>7. CASE SendFails \/ SendLost \/ AnswerFails \/ WaitBroken \/ SendBackFails \/ Reset
           \/ CloseReceiver \/ FallSilent \/ Damage \/ ReceiveFails \/ CloseSender
  BY <1>7 DEF SendFails, SendLost, AnswerFails, WaitBroken, CloseSender, ReceiveFails,
     SendBackFails, CloseReceiver, Reset, FallSilent, Damage, Turns, SendersTurn, FrameComes, AnswerDue, AnswerComes
<1>8. CASE QuietShut
  <2>1. upset' = (upset \/ ~Stuck)
    BY <1>8 DEF QuietShut
  <2>2. ~upset /\ Stuck
    BY <2>1, Zenon
  <2>3. rpc = "recv" /\ UNCHANGED <<link, up, down, spc, sleft, left>>
    BY <1>8 DEF QuietShut
  <2>4. LastSent
    BY <2>2, <2>3 DEF Stuck, Turns, SendersTurn, FrameComes, AnswerDue, AnswerComes
  <2>. QED
    BY <2>3, <2>4
<1>9. CASE UNCHANGED vars
  BY <1>9 DEF vars, Turns, SendersTurn, FrameComes, AnswerDue, AnswerComes
<1>. QED
  BY <1>1, <1>2, <1>3, <1>4, <1>5, <1>6, <1>7, <1>8, <1>9
  DEF Next, Sender, Receiver, Network

\* On a connection that works and on which nothing was upset, an answer means that all
\* that was sent is stored, the sender is one frame ahead at most, and the sender
\* waiting for an answer and the receiver waiting for a frame do not wait for each
\* other (send_piece's wait after each frame but the last, receive()).
THEOREM TakesTurns == Spec => []StopAndWait
<1>1. Init => Turns
  BY DEF Init, Turns
<1>2. IInv /\ Turns => StopAndWait
  <2> SUFFICES ASSUME IInv, Turns, link = "up", ~upset
               PROVE  /\ spc = "send" => left = sleft
                      /\ left \in sleft..(sleft + MaxFrame)
                      /\ ~(spc = "wait" /\ down = 0 /\ rpc = "recv" /\ up = <<>>)
    BY DEF StopAndWait
  <2>1. left \in Nat /\ sleft \in Nat /\ MaxFrame \in Nat \ {0}
    BY Sizes DEF IInv, TypeOK
  <2>. QED
    BY <2>1 DEF Turns, SendersTurn, FrameComes, AnswerDue, AnswerComes, LastSent
<1>. QED
  BY <1>1, <1>2, InitIInv, NextIInv, TurnsStep, PTL DEF Spec

=============================================================================
