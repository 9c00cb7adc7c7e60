----------------------------- MODULE FileProofs -----------------------------
(***************************************************************************)
(* How a file is cut into pieces is right for every page size, threshold   *)
(* and file size; and the digest of a file depends on its bytes alone, for *)
(* every file and whatever portions it is read in, and so does its CRC,    *)
(* whichever variant computes it.                                          *)
(***************************************************************************)
EXTENDS PieceLayout, Checksums, SequenceTheorems, WellFoundedInduction, TLAPS

\* Quotient and remainder by a positive divisor.
LEMMA Division == ASSUME NEW a \in Nat, NEW b \in Nat \ {0}
                  PROVE  /\ a \div b \in Nat /\ a % b \in 0..(b - 1)
                         /\ a = b * (a \div b) + (a % b)
  OBVIOUS

\* Quotient and remainder are the only ones.
LEMMA Quotient == ASSUME NEW divisor \in Nat \ {0}, NEW quot \in Nat,
                         NEW rest \in 0..(divisor - 1), NEW all, all = divisor * quot + rest
                  PROVE  all \div divisor = quot /\ all % divisor = rest
  OBVIOUS

\* Quotient and remainder as witnesses.
LEMMA Divided == ASSUME NEW m \in Nat, NEW b \in Nat \ {0}
                 PROVE  \E q \in Nat : \E r \in 0..(b - 1) :
                            m = b * q + r /\ m \div b = q /\ m % b = r
  BY Division, Zenon

\* A remainder may be taken before or after adding.
LEMMA AddModulo == ASSUME NEW m \in Nat, NEW k \in Nat, NEW b \in Nat \ {0}
                   PROVE  ((m % b) + k) % b = (m + k) % b
<1>1. PICK q \in Nat : \E r \in 0..(b - 1) : m = b * q + r /\ m % b = r
  BY Divided, Zenon
<1>2. PICK r \in 0..(b - 1) : m = b * q + r /\ m % b = r
  BY <1>1
<1>3. r + k \in Nat
  BY <1>2
<1>4. PICK p \in Nat : \E u \in 0..(b - 1) : r + k = b * p + u /\ (r + k) % b = u
  BY <1>3, Divided, Zenon
<1>5. PICK u \in 0..(b - 1) : r + k = b * p + u /\ (r + k) % b = u
  BY <1>4
<1>6. m + k = b * (q + p) + u /\ q + p \in Nat
  <2>1. b * (q + p) = b * q + b * p /\ b * q \in Nat /\ b * p \in Nat
    OBVIOUS
  <2>. QED
    BY <1>2, <1>5, <2>1
<1>7. (m + k) % b = u
  <2>1. PICK all \in Nat, quot \in Nat : all = m + k /\ quot = q + p
    BY <1>6
  <2>2. all = b * quot + u
    BY <1>6, <2>1
  <2>3. all % b = u
    BY <2>2, Quotient, Zenon
  <2>. QED
    BY <2>1, <2>3
<1>. QED
  BY <1>2, <1>5, <1>7

\* Two numbers written with a base, and their sum.
LEMMA Summed ==
    ASSUME NEW b \in Nat \ {0}, NEW p \in Nat, NEW u \in Nat, NEW q \in Nat, NEW v \in Nat
    PROVE  (b * p + u) + (b * q + v) = b * (p + q) + (u + v)
<1>1. b * (p + q) = b * p + b * q /\ b * p \in Nat /\ b * q \in Nat
  OBVIOUS
<1>. QED
  BY <1>1

-----------------------------------------------------------------------------
(* The layout.                                                              *)

\* Of a multiple there is no rest.
LEMMA Multiple == ASSUME NEW k \in Nat, NEW b \in Nat \ {0}
                  PROVE  (k * b) % b = 0 /\ (k * b) \div b = k
  OBVIOUS

\* More of the same are as many or more.
LEMMA Monotone == ASSUME NEW j \in Nat, NEW k \in Nat, NEW b \in Nat, j <= k
                  PROVE  j * b <= k * b /\ j * b \in Nat
  OBVIOUS

\* Rounding up makes whole pages, and the last of them holds a byte of the file.
LEMMA WholePages ==
    ASSUME NEW s \in Nat \ {0}
    PROVE  /\ Pages(s) \in Nat \ {0}
           /\ TruncSize(s) \in Nat /\ TruncSize(s) = Pages(s) * Page
           /\ (Pages(s) - 1) * Page < s
<1> DEFINE q == s \div Page
           r == s % Page
<1>1. q \in Nat /\ r \in 0..(Page - 1) /\ s = Page * q + r
  BY Division, PageAssumption
<1>2. CASE r = 0
  <2>1. TruncSize(s) = q * Page
    BY <1>1, <1>2, PageAssumption DEF TruncSize
  <2>2. Pages(s) = q
    BY <1>1, <2>1, Multiple, PageAssumption DEF Pages
  <2>3. q # 0
    BY <1>1, <1>2, PageAssumption
  <2>4. (q - 1) * Page = q * Page - Page
    BY <1>1, PageAssumption
  <2>. QED
    BY <1>1, <1>2, <2>1, <2>2, <2>3, <2>4, PageAssumption
<1>3. CASE r > 0
  <2>1. TruncSize(s) = (q + 1) * Page
    BY <1>1, <1>3, PageAssumption DEF TruncSize
  <2>2. Pages(s) = q + 1
    BY <1>1, <2>1, Multiple, PageAssumption DEF Pages
  <2>. QED
    BY <1>1, <1>3, <2>1, <2>2, PageAssumption
<1>. QED
  BY <1>1, <1>2, <1>3, PageAssumption

\* Dealing P pages out to n pieces, q to each and r left over, leaves the last
\* piece part of the last page.
LEMMA Dealt ==
    ASSUME NEW P \in Nat \ {0}, NEW n \in Nat \ {0}, NEW q \in Nat, NEW r \in 0..(n - 1),
           P = n * q + r, n > 1 => n <= P
    PROVE  /\ n > 1 => q > 0
           /\ (n - 1) * q \in Nat
           /\ n > 1 => (n - 1) * q <= P - 1
           /\ n * q <= P
<1>1. n > 1 => q > 0
  <2>1. q = 0 => n * q = 0
    OBVIOUS
  <2>2. q = 0 => P = r
    BY <2>1
  <2>. QED
    BY <2>2
<1>2. n * q \in Nat /\ n * q <= P
  <2>1. n * q \in Nat
    OBVIOUS
  <2>. QED
    BY <2>1
<1>3. (n - 1) * q = n * q - q
  OBVIOUS
<1>4. n - 1 \in Nat /\ (n - 1) * q \in Nat
  OBVIOUS
<1>5. n > 1 => (n - 1) * q <= P - 1
  BY <1>1, <1>2, <1>3
<1>. QED
  BY <1>1, <1>2, <1>4, <1>5

\* Where a piece may begin: on a page, and before the end of the file.
LEMMA Begins ==
    ASSUME Sized
    PROVE  /\ CommonLength \in Nat /\ (count > 1 => CommonLength > 0)
           /\ (count - 1) * CommonLength \in Nat
           /\ (count - 1) * CommonLength < size
           /\ \A k \in 0..(count - 1) :
                 /\ k * CommonLength \in Nat /\ (k * CommonLength) % Page = 0
                 /\ k * CommonLength <= (count - 1) * CommonLength
                 /\ (k + 1) * CommonLength = k * CommonLength + CommonLength
<1> DEFINE P == Pages(size)
           q == P \div count
           r == P % count
<1>1. count \in Nat \ {0} /\ count - 1 \in Nat
  BY PageAssumption DEF Sized
<1>2. P \in Nat \ {0} /\ (P - 1) * Page < size
  BY WholePages DEF Sized
<1>3. q \in Nat /\ r \in 0..(count - 1) /\ P = count * q + r
  BY <1>1, <1>2, Division
<1>4. CommonLength = q * Page
  BY DEF CommonLength
<1>5. count > 1 => count <= P
  BY DEF Sized
<1> HIDE DEF P, q, r
<1>6. /\ count > 1 => q > 0
      /\ (count - 1) * q \in Nat
      /\ count > 1 => (count - 1) * q <= P - 1
  BY <1>1, <1>2, <1>3, <1>5, Dealt
<1>7. CommonLength \in Nat /\ (count > 1 => CommonLength > 0)
  <2>1. q * Page \in Nat /\ (q > 0 => q * Page > 0)
    BY <1>3, PageAssumption
  <2>. QED
    BY <1>4, <1>6, <2>1
<1>8. (count - 1) * CommonLength = ((count - 1) * q) * Page
  BY <1>1, <1>3, <1>4, PageAssumption
<1>9. (count - 1) * CommonLength \in Nat /\ (count - 1) * CommonLength < size
  <2>1. CASE count = 1
    <3>1. (count - 1) * CommonLength = 0
      BY <1>7, <2>1
    <3>. QED
      BY <3>1 DEF Sized
  <2>2. CASE count > 1
    <3>1. ((count - 1) * q) * Page <= (P - 1) * Page
      BY <1>2, <1>6, <2>2, Monotone, PageAssumption
    <3>2. (P - 1) * Page \in Nat /\ ((count - 1) * q) * Page \in Nat
      BY <1>2, <1>6, PageAssumption, Monotone, <2>2
    <3>. QED
      BY <1>2, <1>8, <3>1, <3>2 DEF Sized
  <2>. QED
    BY <1>1, <2>1, <2>2
<1>10. ASSUME NEW k \in 0..(count - 1)
       PROVE  /\ k * CommonLength \in Nat /\ (k * CommonLength) % Page = 0
              /\ k * CommonLength <= (count - 1) * CommonLength
              /\ (k + 1) * CommonLength = k * CommonLength + CommonLength
  <2>1. k \in Nat /\ k <= count - 1
    BY <1>1
  <2>2. k * CommonLength <= (count - 1) * CommonLength /\ k * CommonLength \in Nat
    BY <1>1, <1>7, <2>1, Monotone
  <2>3. k * q \in Nat /\ k * CommonLength = (k * q) * Page
    BY <1>3, <1>4, <2>1, PageAssumption
  <2>4. (k * CommonLength) % Page = 0
    BY <2>3, Multiple, PageAssumption
  <2>5. (k + 1) * CommonLength = k * CommonLength + CommonLength
    BY <1>7, <2>1
  <2>. QED
    BY <2>2, <2>4, <2>5
<1>. QED
  BY <1>7, <1>9, <1>10

\* init starts well: a file cut in several pieces has a page for each of them.
LEMMA InitIInv == Init => IInv
<1> SUFFICES ASSUME Init PROVE IInv
  OBVIOUS
<1>1. PICK request \in Requests : count = PieceCount(size, request)
  BY DEF Init
<1>2. size \in Nat \ {0} /\ request \in Int
  BY SizesAssumption, RequestsAssumption DEF Init
<1>3. Pieces(request) \in 1..MaxPieces
  BY <1>2, PageAssumption DEF Pieces, PiecesDefault
<1>4. count \in 1..MaxPieces /\ (count > 1 => TruncSize(size) > Threshold)
  BY <1>1, <1>3, PageAssumption DEF PieceCount
<1>5. count > 1 => count <= Pages(size)
  <2>1. /\ Pages(size) \in Nat /\ TruncSize(size) \in Nat
        /\ TruncSize(size) = Pages(size) * Page
    BY <1>2, WholePages
  <2>2. Pages(size) < MaxPieces => Pages(size) * Page <= MaxPieces * Page
    BY <2>1, Monotone, PageAssumption
  <2>3. MaxPieces * Page \in Nat
    BY PageAssumption
  <2>4. count > 1 => ~(Pages(size) < MaxPieces)
    BY <1>4, <2>1, <2>2, <2>3, PageAssumption
  <2>. QED
    BY <1>4, <2>1, <2>4, PageAssumption
<1>6. Sized
  BY <1>2, <1>4, <1>5 DEF Sized
<1>7. CommonLength \in Nat
  BY <1>6, Begins
<1>8. infos = <<>> /\ offset = 0 /\ state = "loop"
  BY DEF Init
<1>9. 0 * CommonLength = 0 /\ Len(infos) = 0 /\ infos \in Seq([begin : Nat, lenth : Nat])
  BY <1>7, <1>8
<1>. QED
  BY <1>6, <1>8, <1>9, <1>4, PageAssumption DEF IInv

\* Every turn of the loop, and every mmap that fails, keeps the layout.
LEMMA StepIInv == ASSUME IInv, [Next]_vars PROVE IInv'
<1> USE DEF vars
<1>1. CASE MapPiece
  <2> DEFINE n == Len(infos)
             piece == [begin |-> offset, lenth |-> NextLength]
  <2>1. /\ n \in Nat /\ n < count /\ count \in Nat /\ size \in Nat \ {0}
        /\ infos \in Seq([begin : Nat, lenth : Nat])
    BY <1>1, PageAssumption DEF MapPiece, IInv, Sized
  <2>2. CommonLength' = CommonLength /\ Sized'
    BY <1>1 DEF MapPiece, CommonLength, Pages, TruncSize, IInv, Sized
  <2>3. /\ CommonLength \in Nat /\ n * CommonLength \in Nat
        /\ (count - 1) * CommonLength \in Nat /\ (count - 1) * CommonLength < size
        /\ (n + 1) * CommonLength = n * CommonLength + CommonLength
    <3>1. n \in 0..(count - 1)
      BY <2>1
    <3>2. Sized
      BY DEF IInv
    <3>. QED
      BY <3>1, <3>2, Begins
  <2>4. offset = n * CommonLength
    BY <2>1 DEF IInv
  <2>5. NextLength = IF n = count - 1 THEN size - (count - 1) * CommonLength
                     ELSE CommonLength
    BY <2>4 DEF NextLength
  <2>6. NextLength \in Nat /\ piece \in [begin : Nat, lenth : Nat]
    BY <2>1, <2>3, <2>4, <2>5
  <2>7. /\ infos' = Append(infos, piece) /\ count' = count /\ size' = size
        /\ infos' \in Seq([begin : Nat, lenth : Nat]) /\ Len(infos') = n + 1
    BY <1>1, <2>1, <2>6 DEF MapPiece
  <2>8. ASSUME NEW i \in 1..Len(infos') PROVE Placed(i)'
    <3>1. CASE i = n + 1
      <4>1. infos'[i] = piece /\ i - 1 = n
        BY <2>1, <2>7, <3>1
      <4>2. (i < count) <=> (n # count - 1)
        BY <2>1, <3>1
      <4>. QED
        BY <2>2, <2>4, <2>5, <2>7, <4>1, <4>2 DEF Placed
    <3>2. CASE i # n + 1
      <4>1. i \in 1..n /\ infos'[i] = infos[i]
        BY <2>1, <2>6, <2>7, <3>2
      <4>2. Placed(i)
        BY <4>1 DEF IInv
      <4>. QED
        BY <2>2, <2>7, <4>1, <4>2 DEF Placed
    <3>. QED
      BY <3>1, <3>2
  <2>9. offset' = IF Len(infos') < count' THEN Len(infos') * CommonLength' ELSE size'
    <3>1. offset' = n * CommonLength + NextLength
      BY <1>1, <2>4 DEF MapPiece
    <3>2. CASE n = count - 1
      <4>1. n * CommonLength + (size - (count - 1) * CommonLength) = size
        BY <2>1, <2>3, <3>2
      <4>. QED
        BY <2>1, <2>5, <2>7, <3>1, <3>2, <4>1
    <3>3. CASE n # count - 1
      <4>1. n + 1 < count /\ offset' = (n + 1) * CommonLength
        BY <2>1, <2>3, <2>5, <3>1, <3>3
      <4>. QED
        BY <2>2, <2>7, <4>1
    <3>. QED
      BY <3>2, <3>3
  <2>10. /\ state' \in {"loop", "done", "failed"}
         /\ state' = "done" <=> Len(infos') = count'
    BY <1>1, <2>7 DEF MapPiece
  <2>11. Len(infos') <= count'
    BY <2>1, <2>7
  <2>. QED
    BY <2>2, <2>7, <2>8, <2>9, <2>10, <2>11 DEF IInv
<1>2. CASE MapFails
  <2>1. CommonLength' = CommonLength /\ Sized' /\ \A i \in 1..Len(infos) : Placed(i)'
    BY <1>2 DEF MapFails, CommonLength, Pages, TruncSize, IInv, Sized, Placed
  <2>2. Len(infos) # count
    BY <1>2 DEF MapFails, IInv
  <2>. QED
    BY <1>2, <2>1, <2>2 DEF MapFails, IInv
<1>3. CASE UNCHANGED vars
  BY <1>3 DEF IInv, CommonLength, Pages, TruncSize, Sized, Placed
<1>. QED
  BY <1>1, <1>2, <1>3 DEF Next

\* The layout of RecvMmap::init is the intended one at every turn of its loop.
THEOREM Layout == Spec => []IInv
  BY InitIInv, StepIInv, PTL DEF Spec

\* Where a piece ends, in terms of the common length.
LEMMA Ends ==
    ASSUME IInv, NEW i \in 1..Len(infos)
    PROVE  /\ infos[i].begin \in Nat /\ infos[i].begin % Page = 0
           /\ infos[i].begin = (i - 1) * CommonLength
           /\ infos[i].lenth \in Nat \ {0}
           /\ End(i) = IF i < count THEN i * CommonLength ELSE size
           /\ End(i) <= size
<1>1. Sized /\ Placed(i) /\ i \in Nat /\ i >= 1 /\ i <= count /\ count \in Nat
  BY PageAssumption DEF IInv, Sized
<1>2. size \in Nat \ {0}
  BY <1>1 DEF Sized
<1>3. /\ CommonLength \in Nat /\ (count > 1 => CommonLength > 0)
      /\ (count - 1) * CommonLength \in Nat /\ (count - 1) * CommonLength < size
      /\ (i - 1) * CommonLength \in Nat /\ ((i - 1) * CommonLength) % Page = 0
      /\ i * CommonLength = (i - 1) * CommonLength + CommonLength
  <2>1. i - 1 \in 0..(count - 1) /\ (i - 1) + 1 = i
    BY <1>1
  <2>. QED
    BY <1>1, <2>1, Begins
<1>4. /\ infos[i].begin = (i - 1) * CommonLength
      /\ infos[i].lenth = IF i < count THEN CommonLength
                          ELSE size - (count - 1) * CommonLength
  BY <1>1 DEF Placed
<1>5. CASE i < count
  <2>1. End(i) = i * CommonLength
    BY <1>3, <1>4, <1>5 DEF End
  <2>2. i * CommonLength <= (count - 1) * CommonLength
    <3>1. i \in Nat /\ count - 1 \in Nat /\ i <= count - 1
      BY <1>1, <1>5
    <3>. QED
      BY <1>3, <3>1, Monotone
  <2>3. i * CommonLength \in Nat
    BY <1>1, <1>3
  <2>4. End(i) <= size
    BY <1>2, <1>3, <2>1, <2>2, <2>3
  <2>5. CommonLength \in Nat \ {0}
    BY <1>1, <1>3, <1>5
  <2>. QED
    BY <1>3, <1>4, <1>5, <2>1, <2>4, <2>5
<1>6. CASE ~(i < count)
  <2>1. i = count
    BY <1>1, <1>6
  <2>2. End(i) = size
    BY <1>2, <1>3, <1>4, <2>1 DEF End
  <2>3. infos[i].lenth \in Nat \ {0}
    BY <1>2, <1>3, <1>4, <2>1
  <2>. QED
    BY <1>2, <1>3, <1>4, <2>1, <2>2, <2>3
<1>. QED
  BY <1>5, <1>6

\* The types hold for every file size and request.
THEOREM LayoutTypes == Spec => []TypeOK
<1>1. IInv => TypeOK
  <2> SUFFICES ASSUME IInv PROVE TypeOK
    OBVIOUS
  <2>1. Sized /\ CommonLength \in Nat
    BY Begins DEF IInv
  <2>2. Len(infos) * CommonLength \in Nat
    BY <2>1 DEF IInv
  <2>3. offset \in Nat
    BY <2>1, <2>2 DEF IInv, Sized
  <2>. QED
    BY <2>1, <2>3 DEF IInv, TypeOK, Sized
<1>. QED
  BY <1>1, Layout, PTL

\* Every piece of every file can be mapped.
THEOREM AllMappable == Spec => []Mappable
<1>1. IInv => Mappable
  BY Ends DEF Mappable
<1>. QED
  BY <1>1, Layout, PTL

\* The pieces of every file tile it.
THEOREM AllTiled == Spec => []Tiled
<1>1. IInv => Tiled
  <2> SUFFICES ASSUME IInv PROVE Tiled
    OBVIOUS
  <2>1. ASSUME NEW i \in 1..Len(infos)
        PROVE  infos[i].begin = IF i = 1 THEN 0 ELSE End(i - 1)
    <3>1. infos[i].begin = (i - 1) * CommonLength
      BY Ends
    <3>2. CommonLength \in Nat /\ Len(infos) <= count /\ count \in Nat
      BY Begins, PageAssumption DEF IInv, Sized
    <3>3. CASE i = 1
      BY <3>1, <3>2, <3>3
    <3>4. CASE i # 1
      <4>1. i - 1 \in 1..Len(infos) /\ i - 1 < count
        BY <3>2, <3>4
      <4>2. End(i - 1) = (i - 1) * CommonLength
        BY <4>1, Ends
      <4>. QED
        BY <3>1, <3>4, <4>2
    <3>. QED
      BY <3>3, <3>4
  <2>2. ASSUME state = "done" PROVE End(Len(infos)) = size
    <3>1. Len(infos) = count /\ count \in 1..MaxPieces
      BY <2>2 DEF IInv, Sized
    <3>2. Len(infos) \in 1..Len(infos) /\ ~(Len(infos) < count)
      BY <3>1, PageAssumption
    <3>. QED
      BY <3>2, Ends
  <2>. QED
    BY <2>1, <2>2 DEF Tiled
<1>. QED
  BY <1>1, Layout, PTL

\* No piece of any file reaches beyond its end.
THEOREM AllWithin == Spec => []WithinFile
<1>1. IInv => WithinFile
  BY Ends DEF WithinFile
<1>. QED
  BY <1>1, Layout, PTL

-----------------------------------------------------------------------------
(* Induction, and sequences.                                                *)

\* A set of numbers that is not empty has a least one (from WFMin).
LEMMA Least == ASSUME NEW S \in SUBSET Nat, S # {}
               PROVE  \E m \in S : \A n \in S : m <= n
<1> DEFINE R == OpToRel(<, Nat)
<1>1. IsWellFoundedOn(R, Nat)
  BY NatLessThanWellFounded
<1>2. \A x, y \in Nat : <<x, y>> \in R <=> x < y
  BY DEF OpToRel
<1> HIDE DEF R
<1>3. PICK m \in S : \A n \in S : ~(<<n, m>> \in R)
  BY <1>1, WFMin
<1>4. \A n \in S : m <= n
  <2>1. TAKE n \in S
  <2>2. ~(n < m)
    BY <1>2, <1>3, <2>1
  <2>. QED
    BY <2>2
<1>. QED
  BY <1>4

\* Induction: what holds of 0 and of the next one holds of every number.
LEMMA Induct == ASSUME NEW S, 0 \in S, \A n \in Nat : n \in S => n + 1 \in S
                PROVE  Nat \subseteq S
<1>1. SUFFICES ASSUME Nat \ S # {} PROVE FALSE
  OBVIOUS
<1>2. PICK m \in Nat \ S : \A n \in Nat \ S : m <= n
  BY <1>1, Least
<1>3. m - 1 \in Nat
  BY <1>2
<1>. QED
  BY <1>2, <1>3

-----------------------------------------------------------------------------
(* The count of bits.                                                       *)

\* m_nCount after n bytes.
Counted(n) == <<(8 * n) % CountMod, ((8 * n) \div CountMod) % CountMod>>

\* A word takes some value.
LEMMA CountNotZero == CountMod \in Nat \ {0}
  BY CountAssumption

\* A word counts the bits of so many blocks.
LEMMA BlocksInWord == \E K \in Nat \ {0} : CountMod = 512 * K
<1> DEFINE K == CountMod \div 512
<1>1. CountMod = 512 * K /\ K \in Nat
  BY CountAssumption
<1> HIDE DEF K
<1>2. K # 0
  BY <1>1, CountAssumption
<1>. QED
  BY <1>1, <1>2

\* The bit count says how many bytes the buffer holds.
LEMMA IndexCounted == ASSUME NEW n \in Nat PROVE Index(Counted(n)) = n % 64
<1>1. PICK K \in Nat \ {0} : CountMod = 512 * K
  BY BlocksInWord
<1> DEFINE a == (8 * n) \div CountMod
           c == (8 * n) % CountMod
<1>2. a \in Nat /\ c \in 0..(CountMod - 1) /\ 8 * n = CountMod * a + c
  <2>1. 8 * n \in Nat /\ CountMod \in Nat \ {0}
    BY CountAssumption
  <2>. QED
    BY <2>1, Division, Zenon
<1> DEFINE z == K * a
<1>3. z \in Nat /\ CountMod * a = 512 * z
  BY <1>1, <1>2
<1> HIDE DEF a, c, z
<1>4. c \div 8 = n - 64 * z
  BY <1>2, <1>3, CountAssumption
<1>5. (n - 64 * z) % 64 = n % 64
  BY <1>2, <1>3, <1>4, CountAssumption
<1>. QED
  BY <1>4, <1>5 DEF Index, Counted, c

\* AddCount counts n bytes more, carry and lost bits included.
LEMMA CountAdded == ASSUME NEW m \in Nat, NEW n \in Nat
                    PROVE  AddCount(Counted(m), n) = Counted(m + n)
<1>1. PICK K \in Nat \ {0} : CountMod = 512 * K
  BY BlocksInWord
<1>2. 8 * m \in Nat /\ 64 * K \in Nat \ {0} /\ CountMod \div 8 = 64 * K
  BY <1>1
<1>3. PICK p \in Nat : \E u \in 0..(CountMod - 1) :
          8 * m = CountMod * p + u /\ (8 * m) \div CountMod = p /\ (8 * m) % CountMod = u
  BY <1>2, CountNotZero, Divided, Zenon
<1>4. PICK u \in 0..(CountMod - 1) :
          8 * m = CountMod * p + u /\ (8 * m) \div CountMod = p /\ (8 * m) % CountMod = u
  BY <1>3
<1>5. PICK H \in Nat \ {0} : H = 64 * K
  BY <1>2
<1>6. PICK q \in Nat, w \in 0..(64 * K - 1) : n = (64 * K) * q + w /\ n \div (64 * K) = q
  <2>1. PICK q \in Nat : \E w \in 0..(H - 1) : n = H * q + w /\ n \div H = q
    BY Divided, Zenon
  <2>. QED
    BY <1>5, <2>1
<1>7. PICK v \in 0..(CountMod - 1) : n * 8 = CountMod * q + v
  <2>1. 8 * w \in 0..(CountMod - 1)
    BY <1>1
  <2>2. PICK z \in Nat : z = K * q
    OBVIOUS
  <2>3. (64 * K) * q = 64 * z /\ CountMod * q = 512 * z
    BY <1>1, <2>2
  <2>4. n * 8 = CountMod * q + 8 * w
    BY <1>6, <2>2, <2>3
  <2>. QED
    BY <2>1, <2>4
<1>8. (n * 8) % CountMod = v
  BY <1>7, CountNotZero, Quotient, Zenon
<1>9. 8 * (m + n) = (CountMod * p + u) + (CountMod * q + v)
  <2>1. 8 * (m + n) = 8 * m + n * 8
    OBVIOUS
  <2>. QED
    BY <1>4, <1>7, <2>1
<1>10. PICK x \in Nat : x = 8 * (m + n) /\ x = CountMod * (p + q) + (u + v)
  BY <1>9, CountNotZero, Summed
<1>11. PICK y \in Nat : y = u + v
  BY CountNotZero
<1>12. \A k \in Nat : ((p % CountMod) + k) % CountMod = (p + k) % CountMod
  BY CountNotZero, AddModulo, Zenon
<1>13. p % CountMod \in Nat
  BY CountNotZero
<1> DEFINE bits  == (n * 8) % CountMod
           low   == (u + bits) % CountMod
           carry == IF low < bits THEN 1 ELSE 0
<1>14. AddCount(Counted(m), n) = <<low, ((p % CountMod) + carry + q) % CountMod>>
  BY <1>2, <1>4, <1>6 DEF AddCount, Counted
<1>15. (p % CountMod) + carry + q = (p % CountMod) + (carry + q) /\ carry + q \in Nat
  BY <1>13
<1>16. AddCount(Counted(m), n) = <<low, (p + (carry + q)) % CountMod>>
  BY <1>12, <1>14, <1>15
<1>17. CASE u + v < CountMod
  <2>1. PICK s \in Nat, z \in 0..(CountMod - 1) : s = p + q /\ z = u + v
    BY <1>17, CountNotZero
  <2>2. x = CountMod * s + z
    BY <1>10, <2>1
  <2>3. x \div CountMod = s /\ x % CountMod = z
    BY <2>2, CountNotZero, Quotient, Zenon
  <2>4. y % CountMod = z
    BY <1>11, <2>1, CountNotZero
  <2>5. low = z /\ carry = 0
    BY <1>8, <1>11, <2>1, <2>4
  <2>6. p + (0 + q) = s
    BY <2>1
  <2>. QED
    BY <1>10, <1>16, <2>3, <2>5, <2>6 DEF Counted
<1>18. CASE ~(u + v < CountMod)
  <2>1. PICK s \in Nat, z \in 0..(CountMod - 1), t \in Nat :
          s = p + q + 1 /\ z = u + v - CountMod /\ t = 1
    BY <1>18, CountNotZero
  <2>2. x = CountMod * s + z /\ y = CountMod * t + z
    <3>1. CountMod * s = CountMod * (p + q) + CountMod /\ CountMod * (p + q) \in Nat
      BY <2>1, CountNotZero
    <3>. QED
      BY <1>10, <1>11, <2>1, <3>1, CountNotZero
  <2>3. x \div CountMod = s /\ x % CountMod = z
    BY <2>2, CountNotZero, Quotient, Zenon
  <2>4. y % CountMod = z
    BY <2>2, CountNotZero, Quotient, Zenon
  <2>5. low = z /\ carry = 1
    BY <1>8, <1>11, <2>1, <2>4, CountNotZero
  <2>6. p + (1 + q) = s
    BY <2>1
  <2>. QED
    BY <1>10, <1>16, <2>3, <2>5, <2>6 DEF Counted
<1>. QED
  BY <1>17, <1>18

-----------------------------------------------------------------------------
(* Blocks and buffer.                                                       *)

\* The first n values of F as a sequence, and one more.
LEMMA Prefix == ASSUME NEW F, NEW n \in Nat
                PROVE  /\ [j \in 1..n |-> F[j]] \in Seq({F[j] : j \in 1..(n + 1)})
                       /\ Len([j \in 1..n |-> F[j]]) = n
                       /\ Append([j \in 1..n |-> F[j]], F[n + 1]) = [j \in 1..(n + 1) |-> F[j]]
<1> DEFINE V == {F[j] : j \in 1..(n + 1)}
           s == [j \in 1..n |-> F[j]]
           t == [j \in 1..(n + 1) |-> F[j]]
<1>1. s \in [1..n -> V] /\ t \in [1..(n + 1) -> V] /\ F[n + 1] \in V
  OBVIOUS
<1>2. s \in Seq(V) /\ Len(s) = n /\ t \in Seq(V) /\ Len(t) = n + 1
  <2>1. n + 1 \in Nat
    OBVIOUS
  <2> HIDE DEF V, s, t
  <2>2. s \in Seq(V) /\ t \in Seq(V)
    BY <1>1, <2>1, SeqDef
  <2>3. /\ Len(s) \in Nat /\ 1..Len(s) = 1..n
        /\ Len(t) \in Nat /\ 1..Len(t) = 1..(n + 1)
    BY <1>1, <2>2, LenProperties
  <2>. QED
    BY <2>2, <2>3
<1>3. \A j \in 1..n : s[j] = F[j]
  OBVIOUS
<1>4. \A j \in 1..(n + 1) : t[j] = F[j]
  OBVIOUS
<1> HIDE DEF V, s, t
<1>5. /\ Append(s, F[n + 1]) \in Seq(V) /\ Len(Append(s, F[n + 1])) = n + 1
      /\ \A j \in 1..(n + 1) : Append(s, F[n + 1])[j] = t[j]
  BY <1>1, <1>2, <1>3, <1>4, AppendProperties
<1>6. Append(s, F[n + 1]) = t
  BY <1>2, <1>5, SeqEqual
<1>. QED
  BY <1>2, <1>6 DEF V, s, t

Upto(F, n) == [j \in 1..n |-> F[j]]

\* F[j], for j beyond done, is the next block the loop transforms.
Follows(F, done, first, input, part, whole) ==
    /\ F[done + 1] = first
    /\ \A k \in 1..whole :
          F[done + 1 + k] = SubSeq(input, part + 64 * k - 63, part + 64 * k)

\* The loop has then transformed everything up to F[total].
Through(F, done, first, input, part, whole, total) ==
    TransformAll(Upto(F, done), first, input, part, whole) = Upto(F, total)

\* What the loop transforms, in order, after what has been: F[j] for j beyond it.
LEMMA Looped ==
    ASSUME NEW F, NEW done \in Nat, NEW first, NEW input, NEW part \in Nat, NEW whole \in Nat,
           Follows(F, done, first, input, part, whole),
           NEW total, total = done + 1 + whole
    PROVE  Through(F, done, first, input, part, whole, total)
<1> DEFINE blocks  == [j \in 1..done |-> F[j]]
           G       == [k \in 0..whole |-> [j \in 1..(done + 1 + k) |-> F[j]]]
           Body(f) == [k \in 0..whole |->
                          IF k = 0 THEN Transform(blocks, first)
                          ELSE Transform(f[k - 1], SubSeq(input, part + 64 * k - 63, part + 64 * k))]
           After   == CHOOSE f : f = Body(f)
<1>0. /\ F[done + 1] = first
      /\ \A k \in 1..whole :
            F[done + 1 + k] = SubSeq(input, part + 64 * k - 63, part + 64 * k)
  BY DEF Follows
<1>1. TransformAll(blocks, first, input, part, whole) = After[whole]
  BY DEF TransformAll
<1>2. G = Body(G)
  <2>1. ASSUME NEW k \in 0..whole PROVE G[k] = Body(G)[k]
    <3>1. CASE k = 0
      <4>1. Transform(blocks, first) = [j \in 1..(done + 1) |-> F[j]]
        BY <1>0, Prefix DEF Transform
      <4>. QED
        BY <3>1, <4>1
    <3>2. CASE k # 0
      <4>1. k - 1 \in 0..whole /\ k \in 1..whole /\ done + 1 + (k - 1) = done + k
            /\ done + k \in Nat /\ done + k + 1 = done + 1 + k
        BY <3>2
      <4>2. G[k - 1] = [j \in 1..(done + k) |-> F[j]]
        BY <4>1
      <4>3. Append(G[k - 1], F[done + k + 1]) = [j \in 1..(done + k + 1) |-> F[j]]
        BY <4>1, <4>2, Prefix
      <4>. QED
        BY <1>0, <3>2, <4>1, <4>3 DEF Transform
    <3>. QED
      BY <3>1, <3>2
  <2>. QED
    BY <2>1
<1> HIDE DEF G
<1>3. After = Body(After)
  BY <1>2, Zenon
<1> HIDE DEF After
<1>4. \A k \in 0..whole : After[k] = G[k]
  <2> DEFINE S == {k \in Nat : k <= whole => After[k] = G[k]}
  <2>1. 0 \in S
    BY <1>2, <1>3
  <2>2. ASSUME NEW k \in Nat, k \in S PROVE k + 1 \in S
    BY <1>2, <1>3, <2>2
  <2>3. Nat \subseteq S
    BY <2>1, <2>2, Induct
  <2>. QED
    BY <2>3
<1>. QED
  BY <1>1, <1>4 DEF G, Upto, Through

\* The whole blocks of 64 bytes that a sequence of bytes begins with.
Block(s, k) == SubSeq(s, 64 * k - 63, 64 * k)
Cut(s) == [k \in 1..(Len(s) \div 64) |-> Block(s, k)]

\* What a context is after it was fed the bytes of s.
Holds(ctx, s) ==
    /\ ctx.count = Counted(Len(s))
    /\ ctx.blocks = Cut(s)
    /\ \A i \in 1..(Len(s) % 64) : ctx.buffer[i] = s[64 * (Len(s) \div 64) + i]

\* A portion of a file, byte by byte.
LEMMA Portion ==
    ASSUME NEW s \in Seq(Nat), NEW from \in Nat, NEW n \in Nat, from + n <= Len(s)
    PROVE  SubSeq(s, from + 1, from + n) = [i \in 1..n |-> s[from + i]]
  OBVIOUS

\* The portions of two files are portions of their concatenation.
LEMMA InWhole ==
    ASSUME NEW s \in Seq(Nat), NEW t \in Seq(Nat)
    PROVE  /\ s \o t \in Seq(Nat) /\ Len(s \o t) = Len(s) + Len(t)
           /\ \A from, n \in Nat :
                from + n <= Len(s) => SubSeq(s \o t, from + 1, from + n) = SubSeq(s, from + 1, from + n)
           /\ \A from, n \in Nat :
                from + n <= Len(t) => SubSeq(s \o t, Len(s) + from + 1, Len(s) + from + n)
                                        = SubSeq(t, from + 1, from + n)
<1>1. /\ s \o t \in Seq(Nat) /\ Len(s \o t) = Len(s) + Len(t)
      /\ \A i \in 1..Len(s) : (s \o t)[i] = s[i]
      /\ \A i \in 1..Len(t) : (s \o t)[Len(s) + i] = t[i]
  OBVIOUS
<1>2. Len(s) \in Nat /\ Len(t) \in Nat
  OBVIOUS
<1>3. ASSUME NEW from \in Nat, NEW n \in Nat, from + n <= Len(s)
      PROVE  SubSeq(s \o t, from + 1, from + n) = SubSeq(s, from + 1, from + n)
  <2>1. SubSeq(s, from + 1, from + n) = [i \in 1..n |-> s[from + i]]
    BY <1>3, Portion
  <2>2. SubSeq(s \o t, from + 1, from + n) = [i \in 1..n |-> (s \o t)[from + i]]
    BY <1>1, <1>2, <1>3, Portion
  <2>3. \A i \in 1..n : from + i \in 1..Len(s)
    BY <1>2, <1>3
  <2>. QED
    BY <1>1, <2>1, <2>2, <2>3
<1>4. ASSUME NEW from \in Nat, NEW n \in Nat, from + n <= Len(t)
      PROVE  SubSeq(s \o t, Len(s) + from + 1, Len(s) + from + n)
               = SubSeq(t, from + 1, from + n)
  <2>1. SubSeq(t, from + 1, from + n) = [i \in 1..n |-> t[from + i]]
    BY <1>4, Portion
  <2>2. SubSeq(s \o t, Len(s) + from + 1, Len(s) + from + n)
          = [i \in 1..n |-> (s \o t)[(Len(s) + from) + i]]
    <3>0. PICK w \in Seq(Nat) : w = s \o t /\ Len(w) = Len(s) + Len(t)
      BY <1>1
    <3>1. PICK at \in Nat : at = Len(s) + from /\ at + n <= Len(w)
      BY <1>2, <1>4, <3>0
    <3>2. SubSeq(w, at + 1, at + n) = [i \in 1..n |-> w[at + i]]
      BY <3>1, Portion
    <3>. QED
      BY <3>0, <3>1, <3>2
  <2>3. \A i \in 1..n : from + i \in 1..Len(t) /\ (Len(s) + from) + i = Len(s) + (from + i)
    BY <1>2, <1>4
  <2>. QED
    BY <1>1, <2>1, <2>2, <2>3
<1>. QED
  BY <1>1, <1>3, <1>4

\* Every length is a number of blocks and a rest.
LEMMA InBlocks == ASSUME NEW m \in Nat
                  PROVE  \E q \in Nat : \E r \in 0..63 : m = 64 * q + r
<1>1. m \div 64 \in Nat /\ m % 64 \in 0..63 /\ m = 64 * (m \div 64) + (m % 64)
  OBVIOUS
<1>. QED
  BY <1>1, Zenon

\* And they are its quotient and remainder.
LEMMA BlockOf == ASSUME NEW quot \in Nat, NEW rest \in 0..63, NEW all, all = 64 * quot + rest
                 PROVE  all \div 64 = quot /\ all % 64 = rest
  OBVIOUS

\* Update, when the input does not fill the buffer, and when it does.
Few(ctx, t, index, n) ==
    /\ Update(ctx, t).count = AddCount(ctx.count, n)
    /\ Update(ctx, t).blocks = ctx.blocks
    /\ \A i \in 1..64 : Update(ctx, t).buffer[i] =
                IF i - index \in 1..n THEN t[i - index] ELSE ctx.buffer[i]

\* What Update does if the bytes do not fill the buffer.
LEMMA UpdateFew ==
    ASSUME NEW ctx, NEW t \in Seq(Nat), NEW index \in 0..63, Index(ctx.count) = index,
           NEW n \in Nat, n = Len(t), n < 64 - index
    PROVE  Few(ctx, t, index, n)
<1>1. ~(n >= 64 - index)
  OBVIOUS
<1>2. Update(ctx, t).buffer = [i \in 1..64 |-> IF i - index \in 1..(n - 0) THEN t[0 + i - index]
                                               ELSE ctx.buffer[i]]
  BY <1>1 DEF Update
<1>3. \A i \in 1..64 : 0 + i - index = i - index
  OBVIOUS
<1>. QED
  BY <1>1, <1>2, <1>3 DEF Update, Few

Many(ctx, t, n, part, whole, rest, first) ==
    /\ Update(ctx, t).count = AddCount(ctx.count, n)
    /\ Update(ctx, t).blocks = TransformAll(ctx.blocks, first, t, part, whole)
    /\ \A i \in 1..64 : i <= rest => Update(ctx, t).buffer[i] = t[part + 64 * whole + i]

\* What Update does if they do: the buffer's block, whole blocks, the rest.
LEMMA UpdateMany ==
    ASSUME NEW ctx, NEW t \in Seq(Nat), NEW index \in 0..63, Index(ctx.count) = index,
           NEW n \in Nat, n = Len(t), NEW whole \in Nat, NEW rest \in 0..63,
           NEW part \in 1..64, part = 64 - index, n = part + 64 * whole + rest,
           NEW first, first = [i \in 1..64 |-> IF i <= index THEN ctx.buffer[i] ELSE t[i - index]]
    PROVE  Many(ctx, t, n, part, whole, rest, first)
<1>1. n >= part /\ (n - part) \div 64 = whole /\ n - (part + 64 * whole) = rest
  <2>1. PICK m : m = n - part /\ m = 64 * whole + rest
    OBVIOUS
  <2>2. m \div 64 = whole
    BY <2>1, BlockOf
  <2>. QED
    BY <2>1, <2>2
<1>2. Update(ctx, t).blocks = TransformAll(ctx.blocks, first, t, part, whole)
      /\ Update(ctx, t).count = AddCount(ctx.count, n)
  BY <1>1 DEF Update
<1>3. Update(ctx, t).buffer =
        [i \in 1..64 |-> IF i - 0 \in 1..(n - (part + 64 * whole))
                         THEN t[part + 64 * whole + i - 0] ELSE first[i]]
  <2> DEFINE taken(used, at, old) ==
                 [i \in 1..64 |-> IF i - at \in 1..(n - used) THEN t[used + i - at] ELSE old[i]]
  <2>1. Update(ctx, t).buffer =
          taken(IF n >= part THEN part + 64 * ((n - part) \div 64) ELSE 0,
                IF n >= part THEN 0 ELSE index, IF n >= part THEN first ELSE ctx.buffer)
    BY ZenonT(60) DEF Update
  <2>. HIDE DEF taken
  <2>2. Update(ctx, t).buffer = taken(part + 64 * whole, 0, first)
    BY <1>1, <2>1
  <2>. QED
    BY <2>2 DEF taken
<1>4. \A i \in 1..64 : part + 64 * whole + i - 0 = part + 64 * whole + i
  OBVIOUS
<1>5. \A i \in 1..64 : i <= rest => i - 0 \in 1..(n - (part + 64 * whole))
  <2>1. TAKE i \in 1..64
  <2>2. i \in Nat /\ i >= 1 /\ i - 0 = i
    OBVIOUS
  <2>. QED
    BY <1>1, <2>2
<1>6. \A i \in 1..64 : i <= rest => Update(ctx, t).buffer[i] = t[part + 64 * whole + i]
  BY <1>3, <1>4, <1>5
<1>. QED
  BY <1>2, <1>6 DEF Many

\* Update keeps the promise: it does not matter in which portions bytes come.
LEMMA Updated ==
    ASSUME NEW ctx, NEW s \in Seq(Nat), NEW t \in Seq(Nat), Holds(ctx, s)
    PROVE  Holds(Update(ctx, t), s \o t)
<1>1. PICK l \in Nat, n \in Nat : l = Len(s) /\ n = Len(t)
  OBVIOUS
<1>2. PICK w \in Seq(Nat) : w = s \o t
  BY InWhole
<1>3. /\ Len(w) = l + n
      /\ \A i \in 1..l : w[i] = s[i]
      /\ \A i \in 1..n : w[l + i] = t[i]
  BY <1>1, <1>2
<1>4. PICK B \in Nat, index \in 0..63 : l = 64 * B + index /\ B = l \div 64 /\ index = l % 64
  <2>1. PICK q \in Nat, r \in 0..63 : l = 64 * q + r
    BY InBlocks
  <2>2. l \div 64 = q /\ l % 64 = r
    BY <2>1, BlockOf, Zenon
  <2>. QED
    BY <2>1, <2>2
<1>5. PICK part \in 1..64 : part = 64 - index
  OBVIOUS
<1>6. Index(ctx.count) = index
  BY <1>1, <1>4, IndexCounted DEF Holds
<1>7. \A i \in 1..index : ctx.buffer[i] = w[64 * B + i]
  <2>1. TAKE i \in 1..index
  <2>2. 64 * B + i \in 1..l
    BY <1>4, <2>1
  <2>3. ctx.buffer[i] = s[64 * B + i]
    BY <1>1, <1>4, <2>1 DEF Holds
  <2>. QED
    BY <1>3, <2>2, <2>3
<1>8. \A i \in 1..n : w[64 * B + (index + i)] = t[i]
  <2>1. TAKE i \in 1..n
  <2>2. 64 * B + (index + i) = l + i
    BY <1>4
  <2>. QED
    BY <1>3, <2>2
<1>9. ctx.blocks = [j \in 1..B |-> Block(w, j)]
  <2>1. ASSUME NEW j \in 1..B PROVE Block(s, j) = Block(w, j)
    <3>1. PICK from \in Nat : from = 64 * j - 64 /\ from + 64 <= l
      BY <1>4
    <3>2. SubSeq(w, from + 1, from + 64) = SubSeq(s, from + 1, from + 64)
      BY <1>1, <1>2, <3>1, InWhole
    <3>3. from + 1 = 64 * j - 63 /\ from + 64 = 64 * j
      BY <3>1
    <3>. QED
      BY <3>2, <3>3 DEF Block
  <2>2. ctx.blocks = [j \in 1..B |-> Block(s, j)]
    BY <1>1, <1>4 DEF Holds, Cut
  <2>. QED
    BY <2>1, <2>2
<1>10. PICK made : made = Update(ctx, t)
  OBVIOUS
<1>11. AddCount(ctx.count, n) = Counted(l + n)
  BY <1>1, CountAdded DEF Holds
<1>12. CASE n < part
  <2>1. (l + n) \div 64 = B /\ (l + n) % 64 = index + n
    <3>1. index + n \in 0..63 /\ l + n = 64 * B + (index + n)
      BY <1>4, <1>5, <1>12
    <3>. QED
      BY <3>1, BlockOf
  <2>2. /\ made.count = AddCount(ctx.count, n) /\ made.blocks = ctx.blocks
        /\ \A i \in 1..64 : made.buffer[i] =
              IF i - index \in 1..n THEN t[i - index] ELSE ctx.buffer[i]
    <3>1. n < 64 - index
      BY <1>5, <1>12
    <3>2. Few(ctx, t, index, n)
      BY <1>1, <1>6, <3>1, UpdateFew, Zenon
    <3>. QED
      BY <1>10, <3>2 DEF Few
  <2>3. made.blocks = Cut(w)
    BY <1>3, <1>9, <2>1, <2>2 DEF Cut
  <2>5. ASSUME NEW i \in 1..(index + n) PROVE made.buffer[i] = w[64 * B + i]
    <3>1. i \in 1..64
      BY <1>5, <1>12
    <3>2. CASE i <= index
      <4>1. ~(i - index \in 1..n) /\ i \in 1..index
        BY <3>1, <3>2
      <4>2. made.buffer[i] = ctx.buffer[i]
        BY <2>2, <3>1, <4>1, Zenon
      <4>. QED
        BY <1>7, <4>1, <4>2, Zenon
    <3>3. CASE i > index
      <4>1. PICK j \in 1..n : j = i - index /\ i = index + j
        BY <3>3
      <4>. QED
        BY <1>8, <2>2, <3>1, <4>1
    <3>. QED
      BY <3>2, <3>3
  <2>6. Len(w) \div 64 = B /\ Len(w) % 64 = index + n
    BY <1>3, <2>1
  <2>7. \A i \in 1..(index + n) : made.buffer[i] = w[64 * B + i]
    BY <2>5, Zenon
  <2>8. made.count = Counted(Len(w)) /\ made.blocks = Cut(w)
    BY <1>3, <1>11, <2>2, <2>3
  <2>9. Holds(made, w)
    BY <2>6, <2>7, <2>8, Zenon DEF Holds
  <2>. QED
    BY <1>2, <1>10, <2>9
<1>13. CASE n >= part
  <2>1. PICK whole \in Nat, rest \in 0..63 : n = part + 64 * whole + rest
    <3>1. PICK m \in Nat : m = n - part
      BY <1>13
    <3>2. PICK q \in Nat, r \in 0..63 : m = 64 * q + r
      BY InBlocks
    <3>3. n = part + 64 * q + r
      BY <3>1, <3>2
    <3>. QED
      BY <3>3, Zenon
  <2>2. (l + n) \div 64 = B + 1 + whole /\ (l + n) % 64 = rest
    <3>1. B + 1 + whole \in Nat /\ l + n = 64 * (B + 1 + whole) + rest
      BY <1>4, <1>5, <2>1
    <3>. QED
      BY <3>1, BlockOf
  <2> DEFINE first == [i \in 1..64 |-> IF i <= index THEN ctx.buffer[i] ELSE t[i - index]]
  <2>3. Block(w, B + 1) = first
    <3>1. PICK from \in Nat : from = 64 * B /\ from + 64 <= Len(w)
      BY <1>3, <1>4, <1>5, <1>13
    <3>2. Block(w, B + 1) = SubSeq(w, from + 1, from + 64)
      <4>1. 64 * (B + 1) - 63 = from + 1 /\ 64 * (B + 1) = from + 64
        BY <3>1
      <4>. QED
        BY <4>1 DEF Block
    <3>3. SubSeq(w, from + 1, from + 64) = [i \in 1..64 |-> w[from + i]]
      BY <3>1, Portion
    <3>4. ASSUME NEW i \in 1..64 PROVE w[from + i] = first[i]
      <4>1. CASE i <= index
        <5>1. i \in 1..index /\ first[i] = ctx.buffer[i]
          BY <4>1
        <5>. QED
          BY <1>7, <3>1, <5>1, Zenon
      <4>2. CASE i > index
        <5>1. PICK j \in 1..n : j = i - index /\ i = index + j
          BY <1>5, <1>13, <4>2
        <5>2. first[i] = t[j]
          <6>1. ~(i <= index)
            BY <4>2
          <6>2. first[i] = t[i - index]
            BY <6>1, Zenon
          <6>. QED
            BY <5>1, <6>2, Zenon
        <5>3. from + i = 64 * B + (index + j)
          BY <3>1, <5>1
        <5>4. w[64 * B + (index + j)] = t[j]
          BY <1>8, Zenon
        <5>. QED
          BY <5>2, <5>3, <5>4
      <4>. HIDE DEF first
      <4>. QED
        BY <4>1, <4>2
    <3>. QED
      BY <3>2, <3>3, <3>4
  <2>4. ASSUME NEW k \in 1..whole
        PROVE  Block(w, B + 1 + k) = SubSeq(t, part + 64 * k - 63, part + 64 * k)
    <3>1. PICK from \in Nat : from = part + 64 * k - 64 /\ from + 64 <= n
      BY <2>1
    <3>2. 64 * (B + 1 + k) - 63 = l + from + 1 /\ 64 * (B + 1 + k) = l + from + 64
      BY <1>4, <1>5, <3>1
    <3>3. SubSeq(w, l + from + 1, l + from + 64) = SubSeq(t, from + 1, from + 64)
      BY <1>1, <1>2, <3>1, InWhole
    <3>4. part + 64 * k - 63 = from + 1 /\ part + 64 * k = from + 64
      BY <3>1
    <3>. QED
      BY <3>2, <3>3, <3>4 DEF Block
  <2>5. /\ made.count = AddCount(ctx.count, n)
        /\ made.blocks = TransformAll(ctx.blocks, first, t, part, whole)
        /\ \A i \in 1..64 : i <= rest => made.buffer[i] = t[part + 64 * whole + i]
    <3>1. PICK a : a = first
      OBVIOUS
    <3>2. Many(ctx, t, n, part, whole, rest, a)
      BY <1>1, <1>5, <1>6, <2>1, <3>1, UpdateMany, Zenon
    <3>. QED
      BY <1>10, <3>1, <3>2 DEF Many
  <2>6. made.blocks = [j \in 1..(B + 1 + whole) |-> Block(w, j)]
    <3>1. PICK F : F = [j \in Nat |-> Block(w, j)]
      OBVIOUS
    <3>2. \A j \in Nat : F[j] = Block(w, j)
      BY <3>1
    <3>3. F[B + 1] = first
      <4>1. B + 1 \in Nat
        OBVIOUS
      <4>. QED
        BY <2>3, <3>2, <4>1, Zenon
    <3>4. \A k \in 1..whole : F[B + 1 + k] = SubSeq(t, part + 64 * k - 63, part + 64 * k)
      <4>1. TAKE k \in 1..whole
      <4>2. B + 1 + k \in Nat
        OBVIOUS
      <4>. QED
        BY <2>4, <3>2, <4>2
    <3>5. [j \in 1..B |-> Block(w, j)] = Upto(F, B)
      BY <3>2 DEF Upto
    <3>6. [j \in 1..(B + 1 + whole) |-> Block(w, j)] = Upto(F, B + 1 + whole)
      BY <3>2 DEF Upto
    <3> HIDE DEF first
    <3>7. TransformAll(Upto(F, B), first, t, part, whole) = Upto(F, B + 1 + whole)
      <4>1. PICK a : a = first
        OBVIOUS
      <4>2. F[B + 1] = a /\ part \in Nat
        BY <3>3, <4>1
      <4>3. TransformAll(Upto(F, B), a, t, part, whole) = Upto(F, B + 1 + whole)
        <5>1. Follows(F, B, a, t, part, whole)
          BY <3>4, <4>2 DEF Follows
        <5>2. PICK total : total = B + 1 + whole
          OBVIOUS
        <5>3. part \in Nat
          OBVIOUS
        <5>4. Through(F, B, a, t, part, whole, total)
          BY <5>1, <5>2, <5>3, Looped, Zenon
        <5>. QED
          BY <5>2, <5>4 DEF Through
      <4>. QED
        BY <4>1, <4>3
    <3>. QED
      BY <1>9, <2>5, <3>5, <3>6, <3>7
  <2>7. made.blocks = Cut(w)
    BY <1>3, <2>2, <2>6 DEF Cut
  <2>9. ASSUME NEW i \in 1..rest PROVE made.buffer[i] = w[64 * (B + 1 + whole) + i]
    <3>1. PICK j \in 1..n : j = part + 64 * whole + i
      BY <2>1
    <3>2. 64 * (B + 1 + whole) + i = l + j
      BY <1>4, <1>5, <3>1
    <3>3. i \in 1..64 /\ i <= rest
      OBVIOUS
    <3>4. made.buffer[i] = t[part + 64 * whole + i]
      BY <2>5, <3>3, Zenon
    <3>. QED
      BY <1>3, <3>1, <3>2, <3>4
  <2>10. PICK C \in Nat : C = B + 1 + whole
    OBVIOUS
  <2>11. Len(w) \div 64 = C /\ Len(w) % 64 = rest
    BY <1>3, <2>2, <2>10
  <2>12. \A i \in 1..rest : made.buffer[i] = w[64 * C + i]
    BY <2>9, <2>10, Zenon
  <2>13. made.count = Counted(Len(w)) /\ made.blocks = Cut(w)
    BY <1>3, <1>11, <2>5, <2>7
  <2>14. Holds(made, w)
    BY <2>11, <2>12, <2>13, Zenon DEF Holds
  <2>. QED
    BY <1>2, <1>10, <2>14
<1>. QED
  BY <1>12, <1>13

-----------------------------------------------------------------------------
(* The padding.                                                             *)

\* Concatenation is associative.
LEMMA Assoc == ASSUME NEW r \in Seq(Nat), NEW s \in Seq(Nat), NEW t \in Seq(Nat)
               PROVE  (r \o s) \o t = r \o (s \o t)
  OBVIOUS

\* A new context was fed nothing.
LEMMA HeldAtFirst == Holds(CMD5Checksum, <<>>)
<1>1. Counted(0) = <<0, 0>>
  BY CountNotZero DEF Counted
<1>2. Cut(<<>>) = <<>>
  BY DEF Cut
<1>. QED
  BY <1>1, <1>2 DEF Holds, CMD5Checksum

\* So many bytes of padding.
LEMMA PadLength ==
    ASSUME NEW n \in Nat, NEW p, p = PadLen(n % 64)
    PROVE  /\ p \in 1..64 /\ p - 1 \in 0..63 /\ (n + 1 + (p - 1)) % 64 = 56
           /\ \A z \in 0..63 : (n + 1 + z) % 64 = 56 => z = p - 1
  BY DEF PadLen

\* The number of zeros of the RFC is that of PadLen.
LEMMA Zeros ==
    ASSUME NEW n \in Nat
    PROVE  (CHOOSE z \in 0..63 : (n + 1 + z) % 64 = 56) = PadLen(n % 64) - 1
<1>1. PICK p : p = PadLen(n % 64)
  OBVIOUS
<1>2. /\ p - 1 \in 0..63 /\ (n + 1 + (p - 1)) % 64 = 56
      /\ \A z \in 0..63 : (n + 1 + z) % 64 = 56 => z = p - 1
  BY <1>1, PadLength
<1>. QED
  BY <1>1, <1>2

\* The bytes of PADDING that Final takes.
LEMMA Padding ==
    ASSUME NEW p \in 1..64
    PROVE  /\ SubSeq(PADDING, 1, p) \in Seq(Nat)
           /\ SubSeq(PADDING, 1, p) = <<128>> \o [i \in 1..(p - 1) |-> 0]
<1>1. PADDING \in Seq(Nat) /\ Len(PADDING) = 64
  BY DEF PADDING
<1>2. SubSeq(PADDING, 0 + 1, 0 + p) = [i \in 1..p |-> PADDING[0 + i]]
  BY <1>1, Portion
<1>3. SubSeq(PADDING, 1, p) = [i \in 1..p |-> IF i = 1 THEN 128 ELSE 0]
  BY <1>2 DEF PADDING
<1>4. <<128>> \o [i \in 1..(p - 1) |-> 0] = [i \in 1..p |-> IF i = 1 THEN 128 ELSE 0]
  OBVIOUS
<1>. QED
  BY <1>3, <1>4

\* A word is written in bytes.
LEMMA FourBytes == ASSUME NEW word \in Nat PROVE DWordToByte(word) \in Seq(Nat)
  BY DEF DWordToByte

\* The number of bits in two words.
LEMMA TwoWords ==
    ASSUME NEW n \in Nat, NEW bits, bits = (8 * n) % (CountMod * CountMod)
    PROVE  bits % CountMod = Counted(n)[1] /\ bits \div CountMod = Counted(n)[2]
<1>1. PICK m \in Nat, b \in Nat \ {0} : m = 8 * n /\ b = CountMod
  BY CountNotZero
<1>2. PICK q \in Nat : \E c \in 0..(b - 1) : m = b * q + c /\ m \div b = q /\ m % b = c
  BY Divided, Zenon
<1>3. PICK c \in 0..(b - 1) : m = b * q + c /\ m \div b = q /\ m % b = c
  BY <1>2
<1>4. PICK a \in Nat : \E d \in 0..(b - 1) : q = b * a + d /\ q \div b = a /\ q % b = d
  BY Divided, Zenon
<1>5. PICK d \in 0..(b - 1) : q = b * a + d /\ q \div b = a /\ q % b = d
  BY <1>4
<1>6. PICK bb \in Nat \ {0}, low \in Nat : bb = b * b /\ low = b * d + c
  OBVIOUS
<1>7. low < bb
  <2>1. b * d <= b * (b - 1) /\ b * (b - 1) = b * b - b
    OBVIOUS
  <2>. QED
    BY <1>6, <2>1
<1>8. m = bb * a + low
  <2>1. b * (b * a + d) = b * (b * a) + b * d /\ b * (b * a) = (b * b) * a
    OBVIOUS
  <2>. QED
    BY <1>3, <1>5, <1>6, <2>1
<1>9. low \in 0..(bb - 1)
  BY <1>6, <1>7
<1>10. m % bb = low
  BY <1>8, <1>9, Quotient, Zenon
<1>11. low \div b = d /\ low % b = c
  <2>1. d \in Nat
    OBVIOUS
  <2>. QED
    BY <1>6, <2>1, Quotient, Zenon
<1>12. bits = low
  BY <1>1, <1>6, <1>10
<1>. QED
  BY <1>1, <1>3, <1>5, <1>11, <1>12 DEF Counted

Grouped(s, one, z, low, high) ==
    (((s \o one) \o z) \o low) \o high = (s \o (one \o z)) \o (low \o high)

\* The padded message of the RFC is the data, then the padding, then the count.
LEMMA Regroup ==
    ASSUME NEW s \in Seq(Nat), NEW one \in Seq(Nat), NEW z \in Seq(Nat), NEW low \in Seq(Nat), NEW high \in Seq(Nat)
    PROVE  Grouped(s, one, z, low, high)
<1>1. (s \o one) \o z = s \o (one \o z)
  BY Assoc, SMTT(30)
<1>2. PICK w \in Seq(Nat) : w = s \o (one \o z)
  <2>1. s \o (one \o z) \in Seq(Nat)
    OBVIOUS
  <2>. QED
    BY <2>1, Zenon
<1>3. (w \o low) \o high = w \o (low \o high)
  BY Assoc, SMTT(30)
<1>. QED
  BY <1>1, <1>2, <1>3 DEF Grouped

\* Final gives the blocks of the padded message.
LEMMA DigestOf == ASSUME NEW ctx, NEW s \in Seq(Nat), Holds(ctx, s)
                  PROVE  Final(ctx) = PaddedBlocks(s)
<1>1. PICK n \in Nat : n = Len(s)
  OBVIOUS
<1>2. ctx.count = Counted(n) /\ Index(ctx.count) = n % 64
  BY <1>1, IndexCounted DEF Holds
<1>3. PICK p \in 1..64 : p = PadLen(n % 64)
  BY PadLength
<1>4. PICK pad \in Seq(Nat) : pad = SubSeq(PADDING, 1, p) /\ pad = <<128>> \o [i \in 1..(p - 1) |-> 0]
  BY Padding
<1>5. Counted(n)[1] \in Nat /\ Counted(n)[2] \in Nat
  BY CountNotZero DEF Counted
<1>6. PICK low \in Seq(Nat), high \in Seq(Nat) :
          low = DWordToByte(Counted(n)[1]) /\ high = DWordToByte(Counted(n)[2])
  BY <1>5, FourBytes
<1>7. PICK padded : padded = Update(ctx, pad)
  OBVIOUS
<1>8. Final(ctx) = Update(padded, low \o high).blocks
  BY <1>2, <1>3, <1>4, <1>6, <1>7 DEF Final
<1>9. s \o pad \in Seq(Nat) /\ low \o high \in Seq(Nat)
  OBVIOUS
<1>10. Holds(padded, s \o pad)
  BY <1>7, Updated
<1>11. Holds(Update(padded, low \o high), (s \o pad) \o (low \o high))
  BY <1>9, <1>10, Updated
<1>12. Final(ctx) = Cut((s \o pad) \o (low \o high))
  BY <1>8, <1>11 DEF Holds
<1>13. PaddedBlocks(s) = Cut((s \o pad) \o (low \o high))
  <2>1. PICK z \in Seq(Nat) : z = [i \in 1..(p - 1) |-> 0]
    <3>1. [i \in 1..(p - 1) |-> 0] \in Seq(Nat)
      OBVIOUS
    <3>. QED
      BY <3>1, Zenon
  <2>2. PICK one \in Seq(Nat) : one = <<128>>
    <3>1. <<128>> \in Seq(Nat)
      OBVIOUS
    <3>. QED
      BY <3>1, Zenon
  <2>3. (((s \o one) \o z) \o low) \o high = (s \o (one \o z)) \o (low \o high)
    <3>1. Grouped(s, one, z, low, high)
      BY Regroup, Zenon
    <3>. QED
      BY <3>1 DEF Grouped
  <2> DEFINE zeros == CHOOSE z0 \in 0..63 : (Len(s) + 1 + z0) % 64 = 56
             bits  == (8 * Len(s)) % (CountMod * CountMod)
             all   == s \o <<128>> \o [i \in 1..zeros |-> 0]
                        \o DWordToByte(bits % CountMod) \o DWordToByte(bits \div CountMod)
  <2>4. zeros = p - 1
    BY <1>1, <1>3, Zeros
  <2>5. DWordToByte(bits % CountMod) = low /\ DWordToByte(bits \div CountMod) = high
    BY <1>1, <1>6, TwoWords
  <2>6. all = (((s \o one) \o z) \o low) \o high
    BY <2>1, <2>2, <2>4, <2>5
  <2>7. PaddedBlocks(s) = [k \in 1..(Len(all) \div 64) |-> SubSeq(all, 64 * k - 63, 64 * k)]
    BY DEF PaddedBlocks
  <2>. HIDE DEF zeros, bits, all
  <2>8. all = (s \o pad) \o (low \o high)
    BY <1>4, <2>1, <2>2, <2>3, <2>6
  <2>. QED
    BY <2>7, <2>8 DEF Cut, Block
<1>. QED
  BY <1>12, <1>13

-----------------------------------------------------------------------------
(* Fed in portions.                                                         *)

\* What has been fed of a file is what the context holds.
Fed == algo = "md5" => /\ data \in Seq(Nat) /\ pos \in 0..Len(data)
                       /\ Holds(md5, SubSeq(data, 1, pos))

\* Nothing is fed at first.
LEMMA FedAtFirst == FeedInit => Fed
<1> SUFFICES ASSUME FeedInit, algo = "md5" PROVE Fed
  BY DEF Fed
<1>1. data \in Seq(Nat) /\ pos = 0 /\ md5 = CMD5Checksum
  BY FilesAssumption DEF FeedInit, CrcVariants
<1>2. SubSeq(data, 1, 0) = <<>> /\ 0 \in 0..Len(data)
  BY <1>1
<1>. QED
  BY <1>1, <1>2, HeldAtFirst DEF Fed

\* Every step keeps what the context holds.
LEMMA FedOn == Fed /\ [FeedNext]_feedVars => Fed'
<1> SUFFICES ASSUME Fed, [FeedNext]_feedVars PROVE Fed'
  OBVIOUS
<1>1. CASE UNCHANGED feedVars
  BY <1>1 DEF feedVars, Fed
<1>2. ASSUME NEW n \in Portions, FeedCrc(n) PROVE Fed'
  <2>1. algo' # "md5"
    BY <1>2 DEF FeedCrc, CrcVariants
  <2>. QED
    BY <2>1 DEF Fed
<1>3. ASSUME NEW n \in Portions, WriteRecord(n) PROVE Fed'
  BY <1>3 DEF WriteRecord, Fed
<1>4. ASSUME NEW n \in Portions, ReadPortion(n) PROVE Fed'
  <2>1. /\ data \in Seq(Nat) /\ pos \in 0..Len(data) /\ Holds(md5, SubSeq(data, 1, pos))
        /\ n \in Nat /\ pos + n <= Len(data) /\ pos' = pos + n /\ data' = data
        /\ md5' = Update(md5, SubSeq(data, pos + 1, pos + n))
    BY <1>4, PortionsAssumption DEF ReadPortion, Fed
  <2>2. /\ SubSeq(data, 1, pos) \in Seq(Nat) /\ SubSeq(data, pos + 1, pos + n) \in Seq(Nat)
        /\ SubSeq(data, 1, pos) \o SubSeq(data, pos + 1, pos + n) = SubSeq(data, 1, pos + n)
    BY <2>1, SMTT(60)
  <2>3. Holds(md5', SubSeq(data, 1, pos + n))
    BY <2>1, <2>2, Updated
  <2>4. pos' \in 0..Len(data')
    BY <2>1
  <2>. QED
    BY <2>1, <2>3, <2>4 DEF Fed
<1>. QED
  BY <1>1, <1>2, <1>3, <1>4 DEF FeedNext

\* The digest is that of the bytes, for every file, whatever the portions GetMD5 reads.
THEOREM DigestIsExact == FeedSpec => []DigestExact
<1>1. Fed => DigestExact
  <2> SUFFICES ASSUME Fed, algo = "md5" PROVE Final(md5) = PaddedBlocks(SubSeq(data, 1, pos))
    BY DEF DigestExact
  <2>1. SubSeq(data, 1, pos) \in Seq(Nat) /\ Holds(md5, SubSeq(data, 1, pos))
    BY DEF Fed
  <2>. QED
    BY <2>1, DigestOf
<1>. QED
  BY <1>1, FedAtFirst, FedOn, PTL DEF FeedSpec

-----------------------------------------------------------------------------
(* Words, and a register that turns bit by bit.                             *)

\* ^ bit by bit.
LEMMA XorIn == ASSUME NEW x, NEW y, NEW b
               PROVE  b \in x (+) y <=> ~(b \in x <=> b \in y)
  BY DEF (+)

\* ^ is commutative and associative, and a word is its own inverse.
LEMMA XorLaws ==
    /\ \A x \in Word, y \in Word : x (+) y \in Word
    /\ \A x, y : x (+) y = y (+) x
    /\ \A x, y, z : (x (+) y) (+) z = x (+) (y (+) z)
    /\ \A x : x (+) {} = x /\ {} (+) x = x /\ x (+) x = {}
  BY DEF (+), Word

\* >> bit by bit.
LEMMA ShrIn == ASSUME NEW x \in Word, NEW k \in Nat
               PROVE  /\ Shr(x, k) \in Word
                      /\ \A b \in Nat : b \in Shr(x, k) <=> b + k \in x
  BY DEF Shr, Word, WordBits

\* << bit by bit.
LEMMA ShlIn == ASSUME NEW x \in Word, NEW k \in Nat
               PROVE  /\ Shl(x, k) \in Word
                      /\ \A b \in WordBits : b \in Shl(x, k) <=> b - k \in x
  BY DEF Shl, Word, WordBits

\* Words with the same bits are the same.
LEMMA SameWord == ASSUME NEW x \in Word, NEW y \in Word, \A b \in WordBits : b \in x <=> b \in y
                  PROVE  x = y
  BY DEF Word

\* >> distributes over ^.
LEMMA ShrXor == ASSUME NEW x \in Word, NEW y \in Word, NEW k \in Nat
                PROVE  Shr(x (+) y, k) = Shr(x, k) (+) Shr(y, k)
<1>1. x (+) y \in Word /\ Shr(x, k) (+) Shr(y, k) \in Word
  BY XorLaws, ShrIn
<1>2. ASSUME NEW b \in WordBits PROVE b \in Shr(x (+) y, k) <=> b \in Shr(x, k) (+) Shr(y, k)
  <2>1. b \in Nat
    BY DEF WordBits
  <2>2. b \in Shr(x (+) y, k) <=> b + k \in x (+) y
    BY <1>1, <2>1, ShrIn
  <2>3. (b \in Shr(x, k) <=> b + k \in x) /\ (b \in Shr(y, k) <=> b + k \in y)
    BY <2>1, ShrIn
  <2>4. b + k \in x (+) y <=> ~(b + k \in x <=> b + k \in y)
    BY XorIn
  <2>5. b \in Shr(x, k) (+) Shr(y, k) <=> ~(b \in Shr(x, k) <=> b \in Shr(y, k))
    BY XorIn
  <2>. QED
    BY <2>2, <2>3, <2>4, <2>5
<1>. QED
  BY <1>1, <1>2, ShrIn, SameWord

\* Shifts add up.
LEMMA ShrShr == ASSUME NEW x \in Word, NEW k \in Nat, NEW l \in Nat
                PROVE  Shr(Shr(x, k), l) = Shr(x, k + l)
<1>1. Shr(x, k) \in Word /\ Shr(Shr(x, k), l) \in Word /\ Shr(x, k + l) \in Word
  BY ShrIn
<1>2. ASSUME NEW b \in WordBits PROVE b \in Shr(Shr(x, k), l) <=> b \in Shr(x, k + l)
  <2>1. b \in Nat /\ b + l \in Nat /\ (b + l) + k = b + (k + l) /\ k + l \in Nat
    BY DEF WordBits
  <2>2. b \in Shr(Shr(x, k), l) <=> b + l \in Shr(x, k)
    BY <1>1, <2>1, ShrIn
  <2>3. b + l \in Shr(x, k) <=> (b + l) + k \in x
    BY <2>1, ShrIn
  <2>4. b \in Shr(x, k + l) <=> b + (k + l) \in x
    BY <2>1, ShrIn
  <2>. QED
    BY <2>1, <2>2, <2>3, <2>4
<1>. QED
  BY <1>1, <1>2, SameWord

\* The polynomial's lowest bit is 0.
LEMMA PolynomialIsWord == Polynomial \in Word /\ 0 \notin Polynomial /\ {} \in Word
  BY DEF Polynomial, Word, WordBits

\* A step of one bit is a shift if bit 0 is 0, and distributes over ^.
LEMMA OneBitLinear ==
    /\ \A x \in Word : OneBit(x) \in Word /\ (0 \notin x => OneBit(x) = Shr(x, 1))
    /\ \A x \in Word, y \in Word : OneBit(x (+) y) = OneBit(x) (+) OneBit(y)
<1>1. ASSUME NEW x \in Word PROVE OneBit(x) \in Word /\ (0 \notin x => OneBit(x) = Shr(x, 1))
  BY ShrIn, XorLaws, PolynomialIsWord DEF OneBit
<1>2. ASSUME NEW x \in Word, NEW y \in Word PROVE OneBit(x (+) y) = OneBit(x) (+) OneBit(y)
  <2>1. PICK p, q : p = Shr(x, 1) /\ q = Shr(y, 1)
    OBVIOUS
  <2>2. Shr(x (+) y, 1) = p (+) q
    BY <2>1, ShrXor
  <2>3. PICK c, d : c = (IF 0 \in x THEN Polynomial ELSE {}) /\ d = (IF 0 \in y THEN Polynomial ELSE {})
    OBVIOUS
  <2>4. (IF 0 \in x (+) y THEN Polynomial ELSE {}) = c (+) d
    BY <2>3, XorIn, XorLaws
  <2>5. OneBit(x) = p (+) c /\ OneBit(y) = q (+) d /\ OneBit(x (+) y) = (p (+) q) (+) (c (+) d)
    BY <2>1, <2>2, <2>3, <2>4 DEF OneBit
  <2>6. (p (+) q) (+) (c (+) d) = (p (+) c) (+) (q (+) d)
    BY DEF (+)
  <2>. QED
    BY <2>5, <2>6
<1>. QED
  BY <1>1, <1>2

-----------------------------------------------------------------------------
\* The register after so many steps of one bit.
IsTurned(f, n) ==
    /\ f \in [0..n -> [Word -> Word]]
    /\ f[0] = [x \in Word |-> x]
    /\ \A k \in 1..n : f[k] = [x \in Word |-> OneBit(f[k - 1][x])]

Turned == CHOOSE f : IsTurned(f, 128)

\* There is such a function for every number of steps.
LEMMA TurnedExists == \A n \in Nat : \E f : IsTurned(f, n)
<1> DEFINE S == {n \in Nat : \E f : IsTurned(f, n)}
<1>1. 0 \in S
  <2> DEFINE f == [k \in 0..0 |-> [x \in Word |-> x]]
  <2>1. IsTurned(f, 0)
    BY DEF IsTurned
  <2>. QED
    BY <2>1, Zenon
<1>2. ASSUME NEW n \in Nat, n \in S PROVE n + 1 \in S
  <2>1. PICK f : IsTurned(f, n)
    BY <1>2
  <2>2. f \in [0..n -> [Word -> Word]] /\ f[n] \in [Word -> Word]
    BY <2>1 DEF IsTurned
  <2>3. PICK h \in [Word -> Word] : h = [x \in Word |-> OneBit(f[n][x])]
    BY <2>2, OneBitLinear
  <2>4. PICK g : g = [k \in 0..(n + 1) |-> IF k = n + 1 THEN h ELSE f[k]]
    OBVIOUS
  <2>5. g \in [0..(n + 1) -> [Word -> Word]]
    BY <2>2, <2>4
  <2>6. g[0] = [x \in Word |-> x]
    BY <2>1, <2>4 DEF IsTurned
  <2>7. ASSUME NEW k \in 1..(n + 1) PROVE g[k] = [x \in Word |-> OneBit(g[k - 1][x])]
    <3>1. CASE k = n + 1
      BY <2>3, <2>4, <3>1
    <3>2. CASE k # n + 1
      <4>1. k \in 1..n /\ g[k] = f[k] /\ g[k - 1] = f[k - 1]
        BY <2>4, <3>2
      <4>2. f[k] = [x \in Word |-> OneBit(f[k - 1][x])]
        BY <2>1, <4>1 DEF IsTurned
      <4>. QED
        BY <4>1, <4>2
    <3>. QED
      BY <3>1, <3>2
  <2>8. IsTurned(g, n + 1)
    BY <2>5, <2>6, <2>7 DEF IsTurned
  <2>. QED
    BY <2>8
<1>3. Nat \subseteq S
  BY <1>1, <1>2, Induct
<1>. QED
  BY <1>3

\* 128 steps, the bits of 16 bytes, are enough.
LEMMA TurnedIs == IsTurned(Turned, 128)
<1>1. \E f : IsTurned(f, 128)
  BY TurnedExists
<1>. QED
  BY <1>1 DEF Turned

\* The register x after n steps.
R(n, x) == Turned[n][x]

\* R is what the steps of one bit make.
LEMMA RStep ==
    /\ \A x \in Word : R(0, x) = x
    /\ \A n \in 0..128, x \in Word : R(n, x) \in Word
    /\ \A n \in 0..127, x \in Word : R(n + 1, x) = OneBit(R(n, x))
<1>1. \A x \in Word : R(0, x) = x
  BY TurnedIs DEF IsTurned, R
<1>2. \A n \in 0..128, x \in Word : R(n, x) \in Word
  BY TurnedIs DEF IsTurned, R
<1>3. ASSUME NEW n \in 0..127, NEW x \in Word PROVE R(n + 1, x) = OneBit(R(n, x))
  <2>1. n + 1 \in 1..128 /\ (n + 1) - 1 = n
    OBVIOUS
  <2>2. Turned[n + 1] = [y \in Word |-> OneBit(Turned[n][y])]
    BY <2>1, TurnedIs DEF IsTurned
  <2>. QED
    BY <2>2 DEF R
<1>. QED
  BY <1>1, <1>2, <1>3

\* A number of steps distributes over ^.
LEMMA RXor == ASSUME NEW x \in Word, NEW y \in Word
              PROVE  \A n \in 0..128 : R(n, x (+) y) = R(n, x) (+) R(n, y)
<1> DEFINE S == {n \in Nat : n <= 128 => R(n, x (+) y) = R(n, x) (+) R(n, y)}
<1>0. x (+) y \in Word
  BY XorLaws
<1>1. 0 \in S
  BY <1>0, RStep
<1>2. ASSUME NEW n \in Nat, n \in S PROVE n + 1 \in S
  <2>1. SUFFICES ASSUME n + 1 <= 128 PROVE R(n + 1, x (+) y) = R(n + 1, x) (+) R(n + 1, y)
    OBVIOUS
  <2>2. n \in 0..127 /\ n \in 0..128 /\ R(n, x (+) y) = R(n, x) (+) R(n, y)
    BY <1>2, <2>1
  <2>3. R(n, x) \in Word /\ R(n, y) \in Word
    BY <2>2, RStep
  <2>4. R(n + 1, x) = OneBit(R(n, x)) /\ R(n + 1, y) = OneBit(R(n, y))
        /\ R(n + 1, x (+) y) = OneBit(R(n, x (+) y))
    BY <1>0, <2>2, RStep
  <2>5. OneBit(R(n, x) (+) R(n, y)) = OneBit(R(n, x)) (+) OneBit(R(n, y))
    BY <2>3, OneBitLinear
  <2>. QED
    BY <2>2, <2>4, <2>5
<1>3. Nat \subseteq S
  BY <1>1, <1>2, Induct
<1>. QED
  BY <1>3

\* Numbers of steps add up.
LEMMA RPlus == ASSUME NEW x \in Word, NEW m \in 0..128
               PROVE  \A n \in 0..128 : m + n <= 128 => R(n, R(m, x)) = R(m + n, x)
<1> DEFINE S == {n \in Nat : m + n <= 128 => R(n, R(m, x)) = R(m + n, x)}
<1>0. R(m, x) \in Word
  BY RStep
<1>1. 0 \in S
  BY <1>0, RStep
<1>2. ASSUME NEW n \in Nat, n \in S PROVE n + 1 \in S
  <2>1. SUFFICES ASSUME m + (n + 1) <= 128 PROVE R(n + 1, R(m, x)) = R(m + (n + 1), x)
    OBVIOUS
  <2>2. n \in 0..127 /\ m + n \in 0..127 /\ R(n, R(m, x)) = R(m + n, x) /\ m + (n + 1) = (m + n) + 1
    BY <1>2, <2>1
  <2>3. R(n + 1, R(m, x)) = OneBit(R(n, R(m, x)))
    BY <1>0, <2>2, RStep
  <2>4. R((m + n) + 1, x) = OneBit(R(m + n, x))
    BY <2>2, RStep
  <2>. QED
    BY <2>2, <2>3, <2>4
<1>3. Nat \subseteq S
  BY <1>1, <1>2, Induct
<1>. QED
  BY <1>3

\* Zeros only shift.
LEMMA RShifts == ASSUME NEW x \in Word
                 PROVE  \A n \in 0..128 : (\A b \in 0..(n - 1) : b \notin x) => R(n, x) = Shr(x, n)
<1> DEFINE S == {n \in Nat : n <= 128 /\ (\A b \in 0..(n - 1) : b \notin x) => R(n, x) = Shr(x, n)}
<1>1. 0 \in S
  <2>1. Shr(x, 0) = x
    <3>1. \A b \in WordBits : b \in Nat /\ b + 0 = b
      BY DEF WordBits
    <3>2. \A b \in WordBits : b \in Shr(x, 0) <=> b \in x
      BY <3>1, ShrIn
    <3>. QED
      BY <3>2, ShrIn, SameWord
  <2>. QED
    BY <2>1, RStep
<1>2. ASSUME NEW n \in Nat, n \in S PROVE n + 1 \in S
  <2>1. SUFFICES ASSUME n + 1 <= 128, \A b \in 0..n : b \notin x PROVE R(n + 1, x) = Shr(x, n + 1)
    OBVIOUS
  <2>2. n \in 0..127 /\ R(n, x) = Shr(x, n)
    BY <1>2, <2>1
  <2>3. R(n + 1, x) = OneBit(Shr(x, n))
    BY <2>2, RStep
  <2>4. Shr(x, n) \in Word /\ 0 \notin Shr(x, n)
    <3>1. 0 + n \notin x
      BY <2>1
    <3>. QED
      BY <3>1, ShrIn
  <2>5. OneBit(Shr(x, n)) = Shr(Shr(x, n), 1)
    BY <2>4, OneBitLinear
  <2>. QED
    BY <2>3, <2>5, ShrShr
<1>3. Nat \subseteq S
  BY <1>1, <1>2, Induct
<1>. QED
  BY <1>3

\* The low bits are turned, the others shift.
LEMMA RSplit == ASSUME NEW x \in Word, NEW n \in 0..128
                PROVE  /\ x \cap 0..(n - 1) \in Word
                       /\ R(n, x) = Shr(x, n) (+) R(n, x \cap 0..(n - 1))
<1>1. PICK low \in Word, high \in Word : low = x \cap 0..(n - 1) /\ high = x \ (0..(n - 1))
  BY DEF Word
<1>2. x = high (+) low
  BY <1>1 DEF (+)
<1>3. R(n, high) = Shr(high, n)
  BY <1>1, RShifts
<1>4. Shr(high, n) = Shr(x, n)
  BY <1>1 DEF Shr, Word, WordBits
<1>5. R(n, high (+) low) = R(n, high) (+) R(n, low)
  BY RXor
<1>. QED
  BY <1>1, <1>2, <1>3, <1>4, <1>5

-----------------------------------------------------------------------------
(* The loop bodies that take one byte. *)

\* A byte is a word.
LEMMA ByteIsWord == \A y \in Byte : y \in Word /\ \A b \in y : b \in 0..7
  BY DEF Byte, Word, ByteBits, WordBits

\* So is 0.
LEMMA EmptyIsByte == {} \in Byte /\ {} \in Word
  BY DEF Byte, Word

\* The eight steps of crc32_bitwise.
LEMMA Bitwise == ASSUME NEW c \in Word, NEW y \in Byte
                 PROVE  BitwiseByte[c][y] = R(8, c (+) y)
<1> DEFINE Body(f) == [j \in 0..8 |-> IF j = 0 THEN c (+) y ELSE OneBit(f[j - 1])]
           Steps   == CHOOSE f : f = Body(f)
           G       == [j \in 0..8 |-> R(j, c (+) y)]
<1>1. BitwiseByte[c][y] = Steps[8]
  BY DEF BitwiseByte
<1>2. c (+) y \in Word
  BY ByteIsWord, XorLaws
<1>3. G = Body(G)
  <2>1. ASSUME NEW j \in 0..8 PROVE G[j] = Body(G)[j]
    <3>1. CASE j = 0
      BY <1>2, <3>1, RStep
    <3>2. CASE j # 0
      <4>1. j - 1 \in 0..8 /\ j - 1 \in 0..127 /\ (j - 1) + 1 = j
        BY <3>2
      <4>2. R((j - 1) + 1, c (+) y) = OneBit(R(j - 1, c (+) y))
        BY <1>2, <4>1, RStep
      <4>. QED
        BY <3>2, <4>1, <4>2
    <3>. QED
      BY <3>1, <3>2
  <2>. QED
    BY <2>1
<1> HIDE DEF G
<1>4. Steps = Body(Steps)
  BY <1>3, Zenon
<1> HIDE DEF Steps
<1>5. \A j \in Nat : j <= 8 => Steps[j] = R(j, c (+) y)
  <2> DEFINE S == {j \in Nat : j <= 8 => Steps[j] = R(j, c (+) y)}
  <2>1. 0 \in S
    BY <1>2, <1>4, RStep
  <2>2. ASSUME NEW j \in Nat, j \in S PROVE j + 1 \in S
    <3>1. SUFFICES ASSUME j + 1 <= 8 PROVE Steps[j + 1] = R(j + 1, c (+) y)
      OBVIOUS
    <3>2. j \in 0..127 /\ j + 1 \in 0..8 /\ (j + 1) - 1 = j /\ j + 1 # 0 /\ Steps[j] = R(j, c (+) y)
      BY <2>2, <3>1
    <3>3. Steps[j + 1] = OneBit(Steps[j])
      BY <1>4, <3>2
    <3>. QED
      BY <1>2, <3>2, <3>3, RStep
  <2>3. Nat \subseteq S
    BY <2>1, <2>2, Induct
  <2>. QED
    BY <2>3
<1>. QED
  BY <1>1, <1>5

\* Row k of the table is the effect of a byte and k bytes of zeros after it.
LEMMA LookupIs == ASSUME NEW k \in 0..15, NEW y \in Byte
                  PROVE  Lookup[k][y] = R(8 * k + 8, y)
<1> DEFINE Row0 == [i \in Byte |-> BitwiseByte[{}][i]]
           Longer(above) == Shr(above, 8) (+) Row0[above \cap ByteBits]
           Body(f) == [n \in 0..15 |-> IF n = 0 THEN Row0 ELSE [i \in Byte |-> Longer(f[n - 1][i])]]
           Row  == CHOOSE f : f = Body(f)
           G    == [n \in 0..15 |-> [i \in Byte |-> R(8 * n + 8, i)]]
<1>1. Lookup = Row
  BY DEF Lookup
<1>2. Row0 = [i \in Byte |-> R(8, i)]
  <2>1. ASSUME NEW i \in Byte PROVE BitwiseByte[{}][i] = R(8, i)
    BY Bitwise, EmptyIsByte, XorLaws
  <2>. QED
    BY <2>1
<1>3. ASSUME NEW x \in Word PROVE Longer(x) = R(8, x)
  <2>1. x \cap ByteBits \in Byte /\ ByteBits = 0..(8 - 1)
    BY DEF Byte, ByteBits
  <2>2. Row0[x \cap ByteBits] = R(8, x \cap ByteBits)
    BY <1>2, <2>1
  <2>3. R(8, x) = Shr(x, 8) (+) R(8, x \cap 0..(8 - 1))
    <3>1. 8 \in 0..128
      OBVIOUS
    <3>. QED
      BY <3>1, RSplit, Zenon
  <2>. QED
    BY <2>1, <2>2, <2>3
<1> HIDE DEF Row0, Longer
<1>4. G = Body(G)
  <2>1. ASSUME NEW n \in 0..15 PROVE G[n] = Body(G)[n]
    <3>1. CASE n = 0
      BY <1>2, <3>1
    <3>2. CASE n # 0
      <4>1. n - 1 \in 0..15 /\ 8 * (n - 1) + 8 \in 0..128 /\ (8 * (n - 1) + 8) + 8 = 8 * n + 8 /\ 8 * n + 8 <= 128
        BY <3>2
      <4>2. ASSUME NEW i \in Byte PROVE Longer(G[n - 1][i]) = R(8 * n + 8, i)
        <5>1. G[n - 1][i] = R(8 * (n - 1) + 8, i) /\ i \in Word
          BY <4>1, ByteIsWord
        <5>2. R(8 * (n - 1) + 8, i) \in Word
          BY <4>1, <5>1, RStep
        <5>3. PICK m \in 0..128 : m = 8 * (n - 1) + 8 /\ m + 8 = 8 * n + 8 /\ m + 8 <= 128
          BY <4>1
        <5>4. R(8, R(m, i)) = R(m + 8, i)
          <6>1. 8 \in 0..128
            OBVIOUS
          <6>. QED
            BY <5>1, <5>3, <6>1, RPlus, Zenon
        <5>. QED
          BY <1>3, <5>1, <5>2, <5>3, <5>4
      <4>. HIDE DEF G
      <4>3. Body(G)[n] = [i \in Byte |-> Longer(G[n - 1][i])]
        BY <3>2
      <4>4. G[n] = [i \in Byte |-> R(8 * n + 8, i)]
        BY DEF G
      <4>. QED
        BY <4>2, <4>3, <4>4
    <3>. QED
      BY <3>1, <3>2
  <2>. QED
    BY <2>1
<1> HIDE DEF G
<1>5. Row = Body(Row)
  BY <1>4, Zenon
<1> HIDE DEF Row
<1>6. \A n \in Nat : n <= 15 => Row[n] = G[n]
  <2> DEFINE S == {n \in Nat : n <= 15 => Row[n] = G[n]}
  <2>1. 0 \in S
    <3>1. Row[0] = Body(Row)[0] /\ G[0] = Body(G)[0]
      BY <1>4, <1>5, Zenon
    <3>2. Body(Row)[0] = Body(G)[0]
      OBVIOUS
    <3>. QED
      BY <3>1, <3>2
  <2>2. ASSUME NEW n \in Nat, n \in S PROVE n + 1 \in S
    <3>1. SUFFICES ASSUME n + 1 <= 15 PROVE Row[n + 1] = G[n + 1]
      OBVIOUS
    <3>2. n + 1 \in 0..15 /\ (n + 1) - 1 = n /\ n + 1 # 0 /\ Row[n] = G[n]
      BY <2>2, <3>1
    <3>3. Row[n + 1] = Body(Row)[n + 1] /\ G[n + 1] = Body(G)[n + 1]
      BY <1>4, <1>5, Zenon
    <3>4. Body(Row)[n + 1] = Body(G)[n + 1]
      BY <3>2
    <3>. QED
      BY <3>3, <3>4
  <2>3. Nat \subseteq S
    BY <2>1, <2>2, Induct
  <2>. QED
    BY <2>3
<1>7. Row[k] = G[k]
  <2>1. k \in Nat /\ k <= 15
    OBVIOUS
  <2>. QED
    BY <1>6, <2>1, Zenon
<1>8. G[k][y] = R(8 * k + 8, y)
  BY DEF G
<1>. QED
  BY <1>1, <1>7, <1>8

-----------------------------------------------------------------------------
(* The bytes of a register: bit by bit, by a table, by half tables.         *)

\* A loop body that does to the register what eight steps of one bit do.
\* body makes the eight steps of a byte.
IsByteStep(body) == \A c \in Word, y \in Byte : body[c][y] = R(8, c (+) y)

\* crc32_bitwise makes the steps of a byte.
LEMMA BitwiseSteps == IsByteStep(BitwiseByte)
  BY Bitwise DEF IsByteStep

\* Row 0 is the effect of one byte on a zero word.
LEMMA FirstRow == ASSUME NEW y \in Byte PROVE Lookup[0][y] = R(8, y)
<1>1. 0 \in 0..15 /\ 8 * 0 + 8 = 8
  OBVIOUS
<1>2. Lookup[0][y] = R(8 * 0 + 8, y)
  BY <1>1, LookupIs, Zenon
<1>. QED
  BY <1>1, <1>2

\* A byte turned by eight.
LEMMA EightSplit == ASSUME NEW x \in Word
                    PROVE  x \cap ByteBits \in Byte /\ R(8, x) = Shr(x, 8) (+) R(8, x \cap ByteBits)
<1>1. 8 \in 0..128 /\ ByteBits = 0..(8 - 1)
  BY DEF ByteBits
<1>2. R(8, x) = Shr(x, 8) (+) R(8, x \cap 0..(8 - 1))
  BY <1>1, RSplit, Zenon
<1>. QED
  BY <1>1, <1>2 DEF Byte

\* A byte does not reach beyond the low byte of the register.
LEMMA MixByte == ASSUME NEW c \in Word, NEW y \in Byte
                 PROVE  /\ c (+) y \in Word /\ Shr(c (+) y, 8) = Shr(c, 8)
                        /\ (c (+) y) \cap ByteBits = (c \cap ByteBits) (+) y
                        /\ (c \cap ByteBits) (+) y \in Byte
<1>1. y \in Word /\ y \subseteq ByteBits
  BY ByteIsWord DEF Byte
<1>2. Shr(y, 8) = {}
  BY <1>1 DEF Shr, ByteBits
<1>3. Shr(c (+) y, 8) = Shr(c, 8)
  <2>1. 8 \in Nat
    OBVIOUS
  <2>2. Shr(c (+) y, 8) = Shr(c, 8) (+) Shr(y, 8)
    BY <1>1, <2>1, ShrXor, Zenon
  <2>. QED
    BY <1>2, <2>2, XorLaws
<1>4. (c (+) y) \cap ByteBits = (c \cap ByteBits) (+) y /\ (c \cap ByteBits) (+) y \in Byte
  BY <1>1 DEF (+), Byte
<1>. QED
  BY <1>1, <1>3, <1>4, XorLaws

\* The table makes the steps of a byte.
LEMMA TableSteps == IsByteStep(TableByte)
<1> SUFFICES ASSUME NEW c \in Word, NEW y \in Byte PROVE TableByte[c][y] = R(8, c (+) y)
  BY DEF IsByteStep
<1>1. TableByte[c][y] = Shr(c, 8) (+) Lookup[0][(c \cap ByteBits) (+) y]
  BY DEF TableByte
<1>2. Lookup[0][(c \cap ByteBits) (+) y] = R(8, (c \cap ByteBits) (+) y)
  BY MixByte, FirstRow
<1>3. R(8, c (+) y) = Shr(c (+) y, 8) (+) R(8, (c (+) y) \cap ByteBits)
  BY MixByte, EightSplit
<1>. QED
  BY <1>1, <1>2, <1>3, MixByte

\* Four steps: the low nibble is turned, the others shift.
LEMMA FourSplit == ASSUME NEW x \in Word
                   PROVE  x \cap 0..3 \in Word /\ R(4, x) \in Word /\ R(4, x) = Shr(x, 4) (+) R(4, x \cap 0..3)
<1>1. 4 \in 0..128 /\ 0..3 = 0..(4 - 1)
  OBVIOUS
<1>2. R(4, x) = Shr(x, 4) (+) R(4, x \cap 0..(4 - 1)) /\ x \cap 0..(4 - 1) \in Word
  BY <1>1, RSplit, Zenon
<1>3. R(4, x) \in Word
  BY <1>1, RStep
<1>. QED
  BY <1>1, <1>2, <1>3

\* What one nibble does.
LEMMA HalfIs == ASSUME NEW x \in Word, NEW z \in Word, NEW h, h = Lookup[0][Shl((x (+) z) \cap 0..3, 4)] (+) Shr(x, 4)
                PROVE  h = R(4, x (+) (z \cap 0..3))
<1>1. PICK v \in Word, lo \in Word : v = (x (+) z) \cap 0..3 /\ lo = z \cap 0..3
  BY DEF Word, (+)
<1>2. x (+) lo \in Word /\ (x (+) lo) \cap 0..3 = v
  BY <1>1 DEF (+), Word
<1>3. Shl(v, 4) \in Byte /\ Shl(v, 4) \in Word
  BY <1>1 DEF Shl, Byte, ByteBits, Word, WordBits
<1>4. Shr(Shl(v, 4), 4) = v /\ Shl(v, 4) \cap 0..3 = {}
  <2>1. PICK w \in Word : w = Shl(v, 4)
    BY <1>3
  <2>2. \A b \in WordBits : b \in w <=> b - 4 \in v
    BY <2>1, ShlIn
  <2>3. \A b \in WordBits : b \in v => b \in 0..3
    BY <1>1
  <2>4. Shr(w, 4) \in Word /\ \A b \in Nat : b \in Shr(w, 4) <=> b + 4 \in w
    BY ShrIn
  <2>5. ASSUME NEW b \in WordBits PROVE b \in Shr(w, 4) <=> b \in v
    <3>1. b \in Nat /\ (b + 4) - 4 = b /\ (b \in 0..3 => b + 4 \in WordBits)
      BY DEF WordBits
    <3>2. \A k \in w : k \in WordBits
      BY DEF Word
    <3>. QED
      BY <2>2, <2>3, <2>4, <3>1, <3>2
  <2>6. Shr(w, 4) = v
    BY <2>4, <2>5, SameWord
  <2>7. ASSUME NEW b \in 0..3 PROVE b \notin w
    <3>1. b \in WordBits /\ b - 4 \notin WordBits
      BY DEF WordBits
    <3>2. b - 4 \notin v
      BY <3>1 DEF Word
    <3>. QED
      BY <2>2, <3>1, <3>2
  <2>. QED
    BY <2>1, <2>6, <2>7
<1>5. R(4, Shl(v, 4)) = v
  <2>1. 4 \in 0..128 /\ \A b \in 0..(4 - 1) : b \notin Shl(v, 4)
    BY <1>4
  <2>2. R(4, Shl(v, 4)) = Shr(Shl(v, 4), 4)
    BY <1>3, <2>1, RShifts
  <2>. QED
    BY <1>4, <2>2
<1>6. R(8, Shl(v, 4)) = R(4, v)
  <2>1. 4 \in 0..128 /\ 4 + 4 <= 128 /\ 4 + 4 = 8
    OBVIOUS
  <2>2. R(4, R(4, Shl(v, 4))) = R(4 + 4, Shl(v, 4))
    BY <1>3, <2>1, RPlus, Zenon
  <2>. QED
    BY <1>5, <2>1, <2>2
<1>7. h = R(4, v) (+) Shr(x, 4)
  BY <1>1, <1>3, <1>6, FirstRow
<1>8. R(4, x (+) lo) = Shr(x (+) lo, 4) (+) R(4, v)
  BY <1>2, FourSplit
<1>9. Shr(x (+) lo, 4) = Shr(x, 4)
  <2>1. Shr(lo, 4) = {}
    BY <1>1 DEF Shr
  <2>2. 4 \in Nat
    OBVIOUS
  <2>3. Shr(x (+) lo, 4) = Shr(x, 4) (+) Shr(lo, 4)
    BY <2>2, ShrXor, Zenon
  <2>. QED
    BY <2>1, <2>3, XorLaws
<1>. QED
  BY <1>1, <1>7, <1>8, <1>9, XorLaws

\* Two nibbles make the steps of a byte.
LEMMA HalfSteps == IsByteStep(HalfByte)
<1> SUFFICES ASSUME NEW c \in Word, NEW y \in Byte PROVE HalfByte[c][y] = R(8, c (+) y)
  BY DEF IsByteStep
<1> DEFINE Half(x, nibble) == Lookup[0][Shl((x (+) nibble) \cap 0..3, 4)] (+) Shr(x, 4)
<1>1. HalfByte[c][y] = Half(Half(c, y), Shr(y, 4))
  BY DEF HalfByte
<1>2. PICK lo \in Word, hi \in Word, up \in Word : lo = y \cap 0..3 /\ hi = y \ (0..3) /\ up = Shr(y, 4)
  <2>1. y \cap 0..3 \in Word /\ y \ (0..3) \in Word /\ Shr(y, 4) \in Word
    BY ByteIsWord, ShrIn DEF Word
  <2>. QED
    BY <2>1, Zenon
<1>3. y = lo (+) hi /\ up \cap 0..3 = up /\ Shr(hi, 4) = up
  BY <1>2 DEF (+), Shr, Byte, ByteBits
<1>4. PICK x \in Word : x = c (+) lo
  BY XorLaws
<1>5. PICK q \in Word : q = R(4, x)
  BY FourSplit
<1>6. Half(c, y) = q
  BY <1>2, <1>4, <1>5, ByteIsWord, HalfIs
<1>7. Half(q, up) = R(4, q (+) up)
  BY <1>3, HalfIs
<1>8. R(4, hi) = up
  <2>1. 4 \in 0..128 /\ \A b \in 0..(4 - 1) : b \notin hi
    BY <1>2
  <2>2. R(4, hi) = Shr(hi, 4)
    BY <2>1, RShifts
  <2>. QED
    BY <1>3, <2>2
<1>9. 4 \in 0..128 /\ 4 + 4 <= 128 /\ 4 + 4 = 8
  OBVIOUS
<1>10. R(4, x (+) hi) = q (+) up
  <2>1. R(4, x (+) hi) = R(4, x) (+) R(4, hi)
    BY <1>9, RXor, Zenon
  <2>. QED
    BY <1>5, <1>8, <2>1
<1>11. x (+) hi = c (+) y /\ x (+) hi \in Word
  BY <1>3, <1>4, XorLaws
<1>12. R(4, R(4, x (+) hi)) = R(8, x (+) hi)
  <2>1. PICK w \in Word : w = x (+) hi
    BY <1>11
  <2>2. R(4, R(4, w)) = R(4 + 4, w)
    BY <1>9, RPlus, Zenon
  <2>. QED
    BY <1>9, <2>1, <2>2, Zenon
<1>. QED
  BY <1>1, <1>2, <1>6, <1>7, <1>10, <1>11, <1>12

-----------------------------------------------------------------------------
(* Without a table: a mask for each bit.                                    *)

\* The first bits that leave the polynomial are those of its zeros: five shifts, then 1.
LEMMA ShrPolynomial ==
    /\ \A k \in 0..5 : R(k, Polynomial) = Shr(Polynomial, k)
    /\ R(6, Polynomial) = Shr(Polynomial, 6) (+) Polynomial
    /\ R(7, Polynomial) = Shr(Polynomial, 7) (+) Shr(Polynomial, 1)
<1>1. ASSUME NEW k \in 0..5 PROVE R(k, Polynomial) = Shr(Polynomial, k)
  <2>1. k \in 0..128 /\ \A b \in 0..(k - 1) : b \notin Polynomial
    BY DEF Polynomial
  <2>. QED
    BY <2>1, RShifts, PolynomialIsWord
<1>2. PICK P \in Word : P = Polynomial
  BY PolynomialIsWord
<1>3. R(6, P) = Shr(P, 6) (+) P
  <2>1. R(5 + 1, P) = OneBit(R(5, P))
    <3>1. 5 \in 0..127
      OBVIOUS
    <3>. QED
      BY <3>1, RStep, Zenon
  <2>2. R(5, P) = Shr(P, 5)
    BY <1>1, <1>2
  <2>3. 0 \in Shr(P, 5)
    <3>1. 0 + 5 \in P
      BY <1>2 DEF Polynomial
    <3>. QED
      BY <3>1, ShrIn
  <2>4. Shr(Shr(P, 5), 1) = Shr(P, 6)
    <3>1. 5 \in Nat /\ 1 \in Nat /\ 5 + 1 = 6
      OBVIOUS
    <3>2. Shr(Shr(P, 5), 1) = Shr(P, 5 + 1)
      BY <3>1, ShrShr, Zenon
    <3>. QED
      BY <3>1, <3>2
  <2>. QED
    BY <1>2, <2>1, <2>2, <2>3, <2>4 DEF OneBit
<1>4. R(7, P) = Shr(P, 7) (+) Shr(P, 1)
  <2>1. R(6 + 1, P) = OneBit(R(6, P))
    <3>1. 6 \in 0..127
      OBVIOUS
    <3>. QED
      BY <3>1, RStep, Zenon
  <2>2. Shr(P, 6) \in Word /\ Shr(Shr(P, 6), 1) = Shr(P, 7)
    <3>1. 6 \in Nat /\ 1 \in Nat /\ 6 + 1 = 7
      OBVIOUS
    <3>2. Shr(Shr(P, 6), 1) = Shr(P, 6 + 1)
      BY <3>1, ShrShr, Zenon
    <3>. QED
      BY <3>1, <3>2, ShrIn
  <2>3. 0 \notin Shr(P, 6)
    <3>1. 0 + 6 \notin P
      BY <1>2 DEF Polynomial
    <3>. QED
      BY <3>1, ShrIn
  <2>4. OneBit(Shr(P, 6) (+) P) = OneBit(Shr(P, 6)) (+) OneBit(P)
    BY <2>2, OneBitLinear
  <2>5. OneBit(Shr(P, 6)) = Shr(P, 7) /\ OneBit(P) = Shr(P, 1)
    BY <1>2, <2>2, <2>3, OneBitLinear, PolynomialIsWord
  <2>. QED
    BY <1>3, <2>1, <2>4, <2>5
<1>. QED
  BY <1>1, <1>2, <1>3, <1>4

\* What eight steps make of one bit.
LEMMA OneOfByte == ASSUME NEW b \in 0..7
                   PROVE  {b} \in Byte /\ {b} \in Word /\ R(8, {b}) = R(7 - b, Polynomial)
<1>1. {b} \in Byte /\ {b} \in Word
  BY DEF Byte, ByteBits, Word, WordBits
<1>2. b \in 0..127 /\ b \in 0..128 /\ b \in Nat /\ (b + 1) + (7 - b) = 8 /\ b + 1 \in 0..128 /\ 7 - b \in 0..128
  OBVIOUS
<1>3. R(b, {b}) = Shr({b}, b)
  <2>1. \A k \in 0..(b - 1) : k \notin {b}
    OBVIOUS
  <2>. QED
    BY <1>1, <1>2, <2>1, RShifts
<1>4. Shr({b}, b) = {0}
  BY <1>2 DEF Shr
<1>5. R(b + 1, {b}) = OneBit({0})
  <2>1. R(b + 1, {b}) = OneBit(R(b, {b}))
    BY <1>1, <1>2, RStep, Zenon
  <2>. QED
    BY <1>3, <1>4, <2>1, Zenon
<1>6. OneBit({0}) = Polynomial
  <2>1. Shr({0}, 1) = {}
    BY DEF Shr
  <2>. QED
    BY <2>1, XorLaws DEF OneBit
<1>7. PICK m \in 0..128, n \in 0..128 : m = b + 1 /\ n = 7 - b /\ m + n = 8 /\ m + n <= 128
  BY <1>2
<1>8. R(n, R(m, {b})) = R(m + n, {b})
  BY <1>1, <1>7, RPlus, Zenon
<1>. QED
  BY <1>1, <1>5, <1>6, <1>7, <1>8

\* The eight steps of a byte distribute over ^.
LEMMA Turn8 == /\ R(8, {}) = {}
               /\ \A x \in Word, y \in Word : R(8, x) \in Word /\ R(8, x (+) y) = R(8, x) (+) R(8, y)
<1>1. 8 \in 0..128
  OBVIOUS
<1>2. ASSUME NEW x \in Word, NEW y \in Word PROVE R(8, x) \in Word /\ R(8, x (+) y) = R(8, x) (+) R(8, y)
  BY <1>1, RXor, RStep, Zenon
<1>3. R(8, {} (+) {}) = R(8, {}) (+) R(8, {})
  BY <1>2, EmptyIsByte
<1>. QED
  BY <1>2, <1>3, XorLaws

\* One more bit of the low byte.
LEMMA OneMore ==
    ASSUME NEW x \in Word, NEW b \in 0..7, NEW sum,
           sum = Shr(x, 8) (+) R(8, x \cap 0..(b - 1))
    PROVE  sum (+) (IF b \in x THEN R(8, {b}) ELSE {}) = Shr(x, 8) (+) R(8, x \cap 0..b)
<1>1. PICK lo \in Word, bit \in Word : lo = x \cap 0..(b - 1) /\ bit = IF b \in x THEN {b} ELSE {}
  <2>1. x \cap 0..(b - 1) \in Word /\ {b} \in Word /\ {} \in Word
    BY EmptyIsByte, OneOfByte DEF Word
  <2>. QED
    BY <2>1
<1>2. x \cap 0..b = lo (+) bit
  BY <1>1 DEF (+)
<1>3. R(8, lo (+) bit) = R(8, lo) (+) R(8, bit)
  BY Turn8
<1>4. R(8, bit) = IF b \in x THEN R(8, {b}) ELSE {}
  BY <1>1, Turn8
<1>5. PICK p, q, r : p = Shr(x, 8) /\ q = R(8, lo) /\ r = R(8, bit)
  OBVIOUS
<1>6. (p (+) q) (+) r = p (+) (q (+) r)
  BY XorLaws
<1>. QED
  BY <1>1, <1>2, <1>3, <1>4, <1>5, <1>6

\* A mask for each bit makes the steps of a byte.
LEMMA Tableless2Steps == IsByteStep(Tableless2Byte)
<1> SUFFICES ASSUME NEW c \in Word, NEW y \in Byte PROVE Tableless2Byte[c][y] = R(8, c (+) y)
  BY DEF IsByteStep
<1>1. PICK x \in Word : x = c (+) y
  BY MixByte
<1>2. PICK P : P = Polynomial
  OBVIOUS
<1> DEFINE If(b, mask) == IF b \in x THEN mask ELSE {}
<1>3. Tableless2Byte[c][y] =
        Shr(x, 8) (+) If(0, Shr(P, 7) (+) Shr(P, 1)) (+) If(1, Shr(P, 6) (+) P)
          (+) If(2, Shr(P, 5)) (+) If(3, Shr(P, 4)) (+) If(4, Shr(P, 3)) (+) If(5, Shr(P, 2))
          (+) If(6, Shr(P, 1)) (+) If(7, P)
  BY <1>1, <1>2 DEF Tableless2Byte
<1>4. /\ R(8, {0}) = Shr(P, 7) (+) Shr(P, 1) /\ R(8, {1}) = Shr(P, 6) (+) P
      /\ R(8, {2}) = Shr(P, 5) /\ R(8, {3}) = Shr(P, 4) /\ R(8, {4}) = Shr(P, 3)
      /\ R(8, {5}) = Shr(P, 2) /\ R(8, {6}) = Shr(P, 1) /\ R(8, {7}) = P
  <2>1. \A b \in 0..7 : R(8, {b}) = R(7 - b, P)
    BY <1>2, OneOfByte
  <2>2. R(0, P) = P
    BY <1>2, PolynomialIsWord, RStep
  <2>3. /\ R(8, {0}) = R(7, P) /\ R(8, {1}) = R(6, P) /\ R(8, {2}) = R(5, P) /\ R(8, {3}) = R(4, P)
        /\ R(8, {4}) = R(3, P) /\ R(8, {5}) = R(2, P) /\ R(8, {6}) = R(1, P) /\ R(8, {7}) = R(0, P)
    BY <2>1
  <2>. QED
    BY <1>2, <2>2, <2>3, ShrPolynomial
<1> DEFINE Done(b) == Shr(x, 8) (+) R(8, x \cap 0..b)
<1>5. \A b \in 0..7 : Done(b - 1) (+) If(b, R(8, {b})) = Done(b)
  BY OneMore
<1>6. Shr(x, 8) = Done(-1)
  <2>1. x \cap 0..(-1) = {}
    OBVIOUS
  <2>2. R(8, x \cap 0..(-1)) = {}
    BY <2>1, Turn8
  <2>3. Shr(x, 8) (+) {} = Shr(x, 8)
    BY XorLaws, Zenon
  <2>. QED
    BY <2>2, <2>3
<1> HIDE DEF If, Done
<1>7. Shr(x, 8) (+) If(0, R(8, {0})) = Done(0)
  <2>1. Done(0 - 1) (+) If(0, R(8, {0})) = Done(0)
    BY <1>5
  <2>. QED
    BY <1>6, <2>1
<1>8. /\ Done(0) (+) If(1, R(8, {1})) = Done(1) /\ Done(1) (+) If(2, R(8, {2})) = Done(2)
      /\ Done(2) (+) If(3, R(8, {3})) = Done(3) /\ Done(3) (+) If(4, R(8, {4})) = Done(4)
      /\ Done(4) (+) If(5, R(8, {5})) = Done(5) /\ Done(5) (+) If(6, R(8, {6})) = Done(6)
      /\ Done(6) (+) If(7, R(8, {7})) = Done(7)
  BY <1>5
<1>9. Tableless2Byte[c][y] = Done(7)
  BY <1>3, <1>4, <1>7, <1>8
<1>10. Done(7) = R(8, x)
  <2>1. ByteBits = 0..7
    BY DEF ByteBits
  <2>. QED
    BY <2>1, EightSplit DEF Done
<1>. QED
  BY <1>1, <1>9, <1>10

-----------------------------------------------------------------------------
(* Without a table: sums of shifts.                                         *)

\* The multiplications of the variant without a table.
Low(s) == (s (+) Shl(s, 6)) \cap ByteBits
Thrice(low) == Shl(low, 24) \cup Shl(low, 16) \cup Shl(low, 8)
Half23(low) == Shl(low, 23) \cup Shl(low, 14) \cup Shl(low, 2)
Twice(low) == Shl(low, 20) \cup Shl(low, 12)
Spread(low) == Thrice(low) (+) Half23(low) (+) Shr(Half23(low), 1) (+) Twice(low)
                 (+) Shl(low, 19) (+) Shl(low, 17) (+) Shr(low, 2)

\* The inner two of four may change places.
LEMMA Swap == ASSUME NEW p, NEW q, NEW r, NEW s
              PROVE  (p (+) q) (+) (r (+) s) = (p (+) r) (+) (q (+) s)
  BY DEF (+)

\* << distributes over ^.
LEMMA ShlXor == ASSUME NEW x \in Word, NEW y \in Word, NEW k \in Nat
                PROVE  Shl(x (+) y, k) = Shl(x, k) (+) Shl(y, k)
<1>1. x (+) y \in Word /\ Shl(x, k) (+) Shl(y, k) \in Word /\ Shl(x (+) y, k) \in Word
  BY XorLaws, ShlIn
<1>2. ASSUME NEW b \in WordBits PROVE b \in Shl(x (+) y, k) <=> b \in Shl(x, k) (+) Shl(y, k)
  <2>1. b \in Shl(x (+) y, k) <=> b - k \in x (+) y
    BY <1>1, ShlIn
  <2>2. (b \in Shl(x, k) <=> b - k \in x) /\ (b \in Shl(y, k) <=> b - k \in y)
    BY ShlIn
  <2>3. b - k \in x (+) y <=> ~(b - k \in x <=> b - k \in y)
    BY XorIn
  <2>4. b \in Shl(x, k) (+) Shl(y, k) <=> ~(b \in Shl(x, k) <=> b \in Shl(y, k))
    BY XorIn
  <2>. QED
    BY <2>1, <2>2, <2>3, <2>4
<1>. QED
  BY <1>1, <1>2, SameWord

\* Copies of a byte that are eight apart have no bit in common.
LEMMA Apart == ASSUME NEW y \in Byte, NEW k \in Nat, NEW l \in Nat, k >= l + 8
               PROVE  Shl(y, k) \cap Shl(y, l) = {}
<1>1. y \in Word /\ Shl(y, k) \in Word /\ Shl(y, l) \in Word
  BY ByteIsWord, ShlIn
<1>2. SUFFICES ASSUME NEW b \in Shl(y, k), b \in Shl(y, l) PROVE FALSE
  OBVIOUS
<1>3. b \in WordBits /\ b \in Nat
  BY <1>1 DEF Word, WordBits
<1>4. b - k \in y /\ b - l \in y
  BY <1>1, <1>2, <1>3, ShlIn
<1>. QED
  BY <1>3, <1>4, ByteIsWord

\* The sums of shifts by eight or more are ^: nothing carries.
LEMMA Unions == ASSUME NEW y \in Byte
                PROVE  /\ Thrice(y) = (Shl(y, 24) (+) Shl(y, 16)) (+) Shl(y, 8)
                       /\ Half23(y) = (Shl(y, 23) (+) Shl(y, 14)) (+) Shl(y, 2)
                       /\ Twice(y) = Shl(y, 20) (+) Shl(y, 12)
<1>1. /\ Shl(y, 24) \cap Shl(y, 16) = {} /\ Shl(y, 24) \cap Shl(y, 8) = {} /\ Shl(y, 16) \cap Shl(y, 8) = {}
      /\ Shl(y, 23) \cap Shl(y, 14) = {} /\ Shl(y, 23) \cap Shl(y, 2) = {} /\ Shl(y, 14) \cap Shl(y, 2) = {}
      /\ Shl(y, 20) \cap Shl(y, 12) = {}
  BY Apart
<1>. QED
  BY <1>1 DEF Thrice, Half23, Twice, (+)

\* The multiplications distribute over ^.
LEMMA SpreadXor == ASSUME NEW x \in Byte, NEW y \in Byte
                   PROVE  Spread(x (+) y) = Spread(x) (+) Spread(y)
<1>1. x (+) y \in Byte /\ x \in Word /\ y \in Word
  BY ByteIsWord DEF Byte, (+)
<1>2. \A k \in Nat : /\ Shl(x (+) y, k) = Shl(x, k) (+) Shl(y, k)
                     /\ Shl(x, k) \in Word /\ Shl(y, k) \in Word
  BY <1>1, ShlXor, ShlIn
<1>3. Thrice(x (+) y) = Thrice(x) (+) Thrice(y)
  <2>1. /\ Shl(x (+) y, 24) = Shl(x, 24) (+) Shl(y, 24) /\ Shl(x (+) y, 16) = Shl(x, 16) (+) Shl(y, 16)
        /\ Shl(x (+) y, 8) = Shl(x, 8) (+) Shl(y, 8)
    BY <1>2
  <2>. QED
    BY <1>1, <2>1, Unions, Swap
<1>4. Half23(x (+) y) = Half23(x) (+) Half23(y) /\ Half23(x) \in Word /\ Half23(y) \in Word
  <2>1. /\ Shl(x (+) y, 23) = Shl(x, 23) (+) Shl(y, 23) /\ Shl(x (+) y, 14) = Shl(x, 14) (+) Shl(y, 14)
        /\ Shl(x (+) y, 2) = Shl(x, 2) (+) Shl(y, 2)
    BY <1>2
  <2>2. Half23(x) \in Word /\ Half23(y) \in Word
    <3>1. Shl(x, 23) \in Word /\ Shl(x, 14) \in Word /\ Shl(x, 2) \in Word
          /\ Shl(y, 23) \in Word /\ Shl(y, 14) \in Word /\ Shl(y, 2) \in Word
      BY <1>2
    <3>. QED
      BY <3>1 DEF Half23, Word
  <2>. QED
    BY <1>1, <2>1, <2>2, Unions, Swap
<1>5. Twice(x (+) y) = Twice(x) (+) Twice(y)
  <2>1. Shl(x (+) y, 20) = Shl(x, 20) (+) Shl(y, 20) /\ Shl(x (+) y, 12) = Shl(x, 12) (+) Shl(y, 12)
    BY <1>2
  <2>. QED
    BY <1>1, <2>1, Unions, Swap
<1>6. Shr(Half23(x (+) y), 1) = Shr(Half23(x), 1) (+) Shr(Half23(y), 1)
  BY <1>4, ShrXor
<1>7. /\ Shl(x (+) y, 19) = Shl(x, 19) (+) Shl(y, 19) /\ Shl(x (+) y, 17) = Shl(x, 17) (+) Shl(y, 17)
      /\ Shr(x (+) y, 2) = Shr(x, 2) (+) Shr(y, 2)
  BY <1>1, <1>2, ShrXor
<1>8. PICK a1, a2, a3, a4, a5, a6, a7 :
          /\ a1 = Thrice(x) /\ a2 = Half23(x) /\ a3 = Shr(Half23(x), 1) /\ a4 = Twice(x)
          /\ a5 = Shl(x, 19) /\ a6 = Shl(x, 17) /\ a7 = Shr(x, 2)
  OBVIOUS
<1>9. PICK b1, b2, b3, b4, b5, b6, b7 :
          /\ b1 = Thrice(y) /\ b2 = Half23(y) /\ b3 = Shr(Half23(y), 1) /\ b4 = Twice(y)
          /\ b5 = Shl(y, 19) /\ b6 = Shl(y, 17) /\ b7 = Shr(y, 2)
  OBVIOUS
<1>10. Spread(x) = a1 (+) a2 (+) a3 (+) a4 (+) a5 (+) a6 (+) a7
  BY <1>8 DEF Spread
<1>11. Spread(y) = b1 (+) b2 (+) b3 (+) b4 (+) b5 (+) b6 (+) b7
  BY <1>9 DEF Spread
<1>12. Spread(x (+) y) = (a1 (+) b1) (+) (a2 (+) b2) (+) (a3 (+) b3) (+) (a4 (+) b4)
                           (+) (a5 (+) b5) (+) (a6 (+) b6) (+) (a7 (+) b7)
  BY <1>3, <1>4, <1>5, <1>6, <1>7, <1>8, <1>9 DEF Spread
<1>. QED
  BY <1>10, <1>11, <1>12, Swap

\* One bit of the byte becomes the polynomial, shifted.
LEMMA SpreadOne == ASSUME NEW b \in 0..7
                   PROVE  Spread({b}) = Shr(Polynomial, 7 - b)
<1>1. /\ Shl({b}, 24) = {b + 24} /\ Shl({b}, 16) = {b + 16} /\ Shl({b}, 8) = {b + 8}
      /\ Shl({b}, 23) = {b + 23} /\ Shl({b}, 14) = {b + 14} /\ Shl({b}, 2) = {b + 2}
      /\ Shl({b}, 20) = {b + 20} /\ Shl({b}, 12) = {b + 12} /\ Shl({b}, 19) = {b + 19}
      /\ Shl({b}, 17) = {b + 17}
  BY DEF Shl, WordBits
<1>2. Thrice({b}) = {b + 24, b + 16, b + 8} /\ Twice({b}) = {b + 20, b + 12}
  BY <1>1 DEF Thrice, Twice
<1>3. Half23({b}) = {b + 23, b + 14, b + 2}
  BY <1>1 DEF Half23
<1>4. Shr({b + 23, b + 14, b + 2}, 1) = {b + 22, b + 13, b + 1}
  BY DEF Shr
<1>6. Shr({b}, 2) = {k \in {b - 2} : k >= 0}
  BY DEF Shr
<1>7. Spread({b}) = {b + 24, b + 16, b + 8} (+) {b + 23, b + 14, b + 2} (+) {b + 22, b + 13, b + 1}
                      (+) {b + 20, b + 12} (+) {b + 19} (+) {b + 17} (+) {k \in {b - 2} : k >= 0}
  BY <1>1, <1>2, <1>3, <1>4, <1>6 DEF Spread
<1>8. PICK s : s = {k \in {b - 2, b + 1, b + 2, b + 8, b + 12, b + 13, b + 14, b + 16, b + 17, b + 19,
                            b + 20, b + 22, b + 23, b + 24} : k >= 0}
  OBVIOUS
<1>9. s \in Word
  BY <1>8 DEF Word, WordBits
<1>10. Spread({b}) = s
  BY <1>7, <1>8 DEF (+)
<1>11. ASSUME NEW t \in WordBits PROVE t \in s <=> t + (7 - b) \in Polynomial
  BY <1>8 DEF WordBits, Polynomial
<1>12. 7 - b \in Nat
  OBVIOUS
<1>13. Shr(Polynomial, 7 - b) \in Word
       /\ \A t \in Nat : t \in Shr(Polynomial, 7 - b) <=> t + (7 - b) \in Polynomial
  BY <1>12, ShrIn, PolynomialIsWord
<1>14. \A t \in WordBits : t \in Nat
  BY DEF WordBits
<1>. QED
  BY <1>9, <1>10, <1>11, <1>13, <1>14, SameWord

\* s ^ (s << 6), bit by bit.
LEMMA LowOf == /\ \A s \in Byte : Low(s) \in Byte
               /\ \A x \in Byte, y \in Byte : Low(x (+) y) = Low(x) (+) Low(y)
               /\ Low({}) = {}
               /\ \A b \in 2..7 : Low({b}) = {b}
               /\ Low({0}) = {0} (+) {6} /\ Low({1}) = {1} (+) {7}
<1>1. ASSUME NEW x \in Byte, NEW y \in Byte PROVE Low(x (+) y) = Low(x) (+) Low(y)
  <2>1. Shl(x (+) y, 6) = Shl(x, 6) (+) Shl(y, 6)
    BY ByteIsWord, ShlXor
  <2>2. (x (+) y) (+) (Shl(x, 6) (+) Shl(y, 6)) = (x (+) Shl(x, 6)) (+) (y (+) Shl(y, 6))
    BY Swap
  <2>3. PICK p, q : p = x (+) Shl(x, 6) /\ q = y (+) Shl(y, 6)
    OBVIOUS
  <2>4. (p (+) q) \cap ByteBits = (p \cap ByteBits) (+) (q \cap ByteBits)
    BY DEF (+)
  <2>. QED
    BY <2>1, <2>2, <2>3, <2>4 DEF Low
<1>2. Low({}) = {}
  BY DEF Low, Shl, (+)
<1>3. ASSUME NEW b \in 2..7 PROVE Low({b}) = {b}
  BY DEF Low, Shl, (+), ByteBits, WordBits
<1>4. Low({0}) = {0} (+) {6} /\ Low({1}) = {1} (+) {7}
  BY DEF Low, Shl, (+), ByteBits, WordBits
<1>5. \A s \in Byte : Low(s) \in Byte
  BY DEF Low, Byte
<1>. QED
  BY <1>1, <1>2, <1>3, <1>4, <1>5

Tab(s) == Spread(Low(s))

\* One bit of the byte.
LEMMA TabOne == ASSUME NEW b \in 0..7 PROVE Tab({b}) = R(8, {b})
<1>1. R(8, {b}) = R(7 - b, Polynomial)
  BY OneOfByte
<1>2. CASE b \in 2..7
  <2>1. 7 - b \in 0..5
    BY <1>2
  <2>. QED
    BY <1>1, <1>2, <2>1, LowOf, SpreadOne, ShrPolynomial DEF Tab
<1>3. Shr(Polynomial, 0) = Polynomial
  <2>1. R(0, Polynomial) = Shr(Polynomial, 0)
    BY ShrPolynomial
  <2>. QED
    BY <2>1, RStep, PolynomialIsWord
<1>4. CASE b = 1
  <2>1. {1} \in Byte /\ {7} \in Byte
    BY OneOfByte
  <2>2. Tab({1}) = Spread({1}) (+) Spread({7})
    BY <2>1, LowOf, SpreadXor DEF Tab
  <2>3. Spread({1}) = Shr(Polynomial, 7 - 1) /\ Spread({7}) = Shr(Polynomial, 7 - 7)
    BY SpreadOne
  <2>. QED
    BY <1>1, <1>3, <1>4, <2>2, <2>3, ShrPolynomial
<1>5. CASE b = 0
  <2>1. {0} \in Byte /\ {6} \in Byte
    BY OneOfByte
  <2>2. Tab({0}) = Spread({0}) (+) Spread({6})
    BY <2>1, LowOf, SpreadXor DEF Tab
  <2>3. Spread({0}) = Shr(Polynomial, 7 - 0) /\ Spread({6}) = Shr(Polynomial, 7 - 6)
    BY SpreadOne
  <2>. QED
    BY <1>1, <1>5, <2>2, <2>3, ShrPolynomial
<1>. QED
  BY <1>2, <1>4, <1>5

\* All of them.
LEMMA TabIs == ASSUME NEW s \in Byte PROVE Tab(s) = R(8, s)
<1> DEFINE S == {b \in Nat : b <= 8 => Tab(s \cap 0..(b - 1)) = R(8, s \cap 0..(b - 1))}
<1>1. 0 \in S
  <2>1. s \cap 0..(0 - 1) = {}
    OBVIOUS
  <2>2. Spread({}) = {}
    <3>1. {} (+) {} = {}
      BY XorLaws
    <3>2. Spread({} (+) {}) = Spread({}) (+) Spread({})
      BY EmptyIsByte, SpreadXor
    <3>. QED
      BY <3>1, <3>2, XorLaws
  <2>. QED
    BY <2>1, <2>2, LowOf, Turn8 DEF Tab
<1>2. ASSUME NEW b \in Nat, b \in S PROVE b + 1 \in S
  <2>1. SUFFICES ASSUME b + 1 <= 8 PROVE Tab(s \cap 0..b) = R(8, s \cap 0..b)
    OBVIOUS
  <2>2. b \in 0..7 /\ Tab(s \cap 0..(b - 1)) = R(8, s \cap 0..(b - 1))
    BY <1>2, <2>1
  <2>3. CASE b \notin s
    <3>1. s \cap 0..b = s \cap 0..(b - 1)
      BY <2>3
    <3>. QED
      BY <2>2, <3>1
  <2>4. CASE b \in s
    <3>1. PICK lo \in Byte : lo = s \cap 0..(b - 1)
      BY DEF Byte
    <3>2. s \cap 0..b = lo (+) {b}
      BY <2>4, <3>1 DEF (+)
    <3>3. {b} \in Byte /\ {b} \in Word /\ lo \in Word
      BY <2>2, OneOfByte, ByteIsWord
    <3>4. Tab(lo (+) {b}) = Tab(lo) (+) Tab({b})
      BY <3>3, LowOf, SpreadXor DEF Tab
    <3>5. R(8, lo (+) {b}) = R(8, lo) (+) R(8, {b})
      BY <3>3, Turn8
    <3>. QED
      BY <2>2, <3>1, <3>2, <3>4, <3>5, TabOne
  <2>. QED
    BY <2>3, <2>4
<1>3. Nat \subseteq S
  BY <1>1, <1>2, Induct
<1>4. Tab(s \cap 0..(8 - 1)) = R(8, s \cap 0..(8 - 1))
  <2>1. \A b \in Nat : b <= 8 => Tab(s \cap 0..(b - 1)) = R(8, s \cap 0..(b - 1))
    BY <1>3
  <2>2. 8 \in Nat /\ 8 <= 8
    OBVIOUS
  <2>. QED
    BY <2>1, <2>2, Zenon
<1>5. s \cap 0..(8 - 1) = s
  BY ByteIsWord
<1>. QED
  BY <1>4, <1>5

\* The multiplications make the steps of a byte.
LEMMA TablelessSteps == IsByteStep(TablelessByte)
<1> SUFFICES ASSUME NEW c \in Word, NEW y \in Byte PROVE TablelessByte[c][y] = R(8, c (+) y)
  BY DEF IsByteStep
<1>1. PICK s \in Byte : s = (c \cap ByteBits) (+) y
  BY MixByte
<1>2. PICK low : low = Low(s)
  OBVIOUS
<1>3. TablelessByte[c][y] =
        Shr(c, 8) (+) Thrice(low) (+) Half23(low) (+) Shr(Half23(low), 1) (+) Twice(low)
          (+) Shl(low, 19) (+) Shl(low, 17) (+) Shr(low, 2)
  BY <1>1, <1>2 DEF TablelessByte, Low, Thrice, Half23, Twice
<1>4. PICK a0, a1, a2, a3, a4, a5, a6, a7 :
          /\ a0 = Shr(c, 8) /\ a1 = Thrice(low) /\ a2 = Half23(low) /\ a3 = Shr(Half23(low), 1)
          /\ a4 = Twice(low) /\ a5 = Shl(low, 19) /\ a6 = Shl(low, 17) /\ a7 = Shr(low, 2)
  OBVIOUS
<1>5. TablelessByte[c][y] = a0 (+) a1 (+) a2 (+) a3 (+) a4 (+) a5 (+) a6 (+) a7
  BY <1>3, <1>4
<1>6. Spread(low) = a1 (+) a2 (+) a3 (+) a4 (+) a5 (+) a6 (+) a7
  BY <1>4 DEF Spread
<1>7. a0 (+) a1 (+) a2 (+) a3 (+) a4 (+) a5 (+) a6 (+) a7
        = a0 (+) (a1 (+) a2 (+) a3 (+) a4 (+) a5 (+) a6 (+) a7)
  BY XorLaws
<1>8. Spread(low) = R(8, s)
  BY <1>1, <1>2, TabIs DEF Tab
<1>9. R(8, c (+) y) = Shr(c, 8) (+) R(8, s)
  BY <1>1, MixByte, EightSplit
<1>. QED
  BY <1>4, <1>5, <1>6, <1>7, <1>8, <1>9

-----------------------------------------------------------------------------
(* Loops over bytes.                                                        *)

\* g is what body makes of bytes, one after the other.
StepsAlong(g, body, bytes, first, last) ==
    /\ first \in Nat \ {0} /\ last \in Nat /\ first <= last + 1
    /\ \A k \in first..last : g[k] = body[g[k - 1]][bytes[k]]

\* A loop of it ends with the last of g.
LoopEnds(g, body, bytes, first, last) == EachByte(body, g[first - 1], bytes, first, last) = g[last]

\* What a loop over bytes computes, given what it should have after each.
LEMMA LoopIs ==
    ASSUME NEW body, NEW bytes, NEW first, NEW last, NEW g, StepsAlong(g, body, bytes, first, last)
    PROVE  LoopEnds(g, body, bytes, first, last)
<1> USE DEF StepsAlong, LoopEnds
<1> DEFINE Body(f) == [k \in (first - 1)..last |->
                          IF k < first THEN g[first - 1] ELSE body[f[k - 1]][bytes[k]]]
           After   == CHOOSE f : f = Body(f)
           G       == [k \in (first - 1)..last |-> g[k]]
<1>1. EachByte(body, g[first - 1], bytes, first, last) = After[last]
  BY DEF EachByte
<1>2. G = Body(G)
  <2>1. ASSUME NEW k \in (first - 1)..last PROVE G[k] = Body(G)[k]
    <3>1. CASE k < first
      <4>1. k = first - 1
        BY <3>1
      <4>. QED
        BY <3>1, <4>1
    <3>2. CASE ~(k < first)
      <4>1. k \in first..last /\ k - 1 \in (first - 1)..last
        BY <3>2
      <4>2. G[k - 1] = g[k - 1] /\ G[k] = g[k]
        BY <4>1
      <4>3. Body(G)[k] = body[G[k - 1]][bytes[k]]
        BY <3>2
      <4>. QED
        BY <4>1, <4>2, <4>3
    <3>. QED
      BY <3>1, <3>2
  <2>. QED
    BY <2>1
<1> HIDE DEF G
<1>3. After = Body(After)
  BY <1>2, Zenon
<1> HIDE DEF After
<1>4. \A k \in Nat : first - 1 + k <= last => After[first - 1 + k] = G[first - 1 + k]
  <2> DEFINE S == {k \in Nat : first - 1 + k <= last => After[first - 1 + k] = G[first - 1 + k]}
  <2>1. 0 \in S
    BY <1>2, <1>3
  <2>2. ASSUME NEW k \in Nat, k \in S PROVE k + 1 \in S
    <3>1. SUFFICES ASSUME first - 1 + (k + 1) <= last
                   PROVE  After[first - 1 + (k + 1)] = G[first - 1 + (k + 1)]
      OBVIOUS
    <3>2. PICK m : m = first - 1 + (k + 1) /\ m \in (first - 1)..last /\ ~(m < first) /\ m - 1 = first - 1 + k
      BY <3>1
    <3>3. After[m - 1] = G[m - 1]
      BY <2>2, <3>1, <3>2
    <3>4. After[m] = body[After[m - 1]][bytes[m]] /\ G[m] = body[G[m - 1]][bytes[m]]
      BY <1>2, <1>3, <3>2
    <3>. QED
      BY <3>2, <3>3, <3>4
  <2>3. Nat \subseteq S
    BY <2>1, <2>2, Induct
  <2>. QED
    BY <2>3
<1>5. After[last] = G[last]
  <2>1. PICK k \in Nat : k = last - (first - 1) /\ first - 1 + k = last
    OBVIOUS
  <2>. QED
    BY <1>4, <2>1
<1>. QED
  BY <1>1, <1>5 DEF G

-----------------------------------------------------------------------------
\* The register after each byte.
IsRun(r, bytes, c, n) ==
    /\ r \in [0..n -> Word] /\ r[0] = c
    /\ \A k \in 1..n : r[k] = R(8, r[k - 1] (+) bytes[k])

\* The run from c.
Run(bytes, c) == CHOOSE r : IsRun(r, bytes, c, Len(bytes))

\* There is a run of any length.
LEMMA RunExists == ASSUME NEW bytes \in Seq(Byte), NEW c \in Word
                   PROVE  \A n \in Nat : n <= Len(bytes) => \E r : IsRun(r, bytes, c, n)
<1> DEFINE S == {n \in Nat : n <= Len(bytes) => \E r : IsRun(r, bytes, c, n)}
<1>1. 0 \in S
  <2>1. PICK r : r = [k \in 0..0 |-> c]
    OBVIOUS
  <2>2. IsRun(r, bytes, c, 0)
    BY <2>1 DEF IsRun
  <2>. QED
    BY <2>2
<1>2. ASSUME NEW n \in Nat, n \in S PROVE n + 1 \in S
  <2>1. SUFFICES ASSUME n + 1 <= Len(bytes) PROVE \E r : IsRun(r, bytes, c, n + 1)
    OBVIOUS
  <2>2. PICK r : IsRun(r, bytes, c, n)
    BY <1>2, <2>1
  <2>3. r \in [0..n -> Word] /\ r[n] \in Word /\ bytes[n + 1] \in Byte
    BY <2>1, <2>2 DEF IsRun
  <2>4. PICK w \in Word : w = R(8, r[n] (+) bytes[n + 1])
    <3>1. r[n] (+) bytes[n + 1] \in Word
      BY <2>3, MixByte
    <3>. QED
      BY <3>1, Turn8
  <2>5. PICK q : q = [k \in 0..(n + 1) |-> IF k = n + 1 THEN w ELSE r[k]]
    OBVIOUS
  <2>6. q \in [0..(n + 1) -> Word] /\ q[0] = c
    BY <2>2, <2>3, <2>5 DEF IsRun
  <2>7. ASSUME NEW k \in 1..(n + 1) PROVE q[k] = R(8, q[k - 1] (+) bytes[k])
    <3>1. CASE k = n + 1
      BY <2>4, <2>5, <3>1
    <3>2. CASE k # n + 1
      <4>1. k \in 1..n /\ q[k] = r[k] /\ q[k - 1] = r[k - 1]
        BY <2>5, <3>2
      <4>. QED
        BY <2>2, <4>1 DEF IsRun
    <3>. QED
      BY <3>1, <3>2
  <2>8. IsRun(q, bytes, c, n + 1)
    BY <2>6, <2>7 DEF IsRun
  <2>. QED
    BY <2>8
<1>3. Nat \subseteq S
  BY <1>1, <1>2, Induct
<1>. QED
  BY <1>3

\* And Run is it.
LEMMA RunIs == ASSUME NEW bytes \in Seq(Byte), NEW c \in Word
               PROVE  IsRun(Run(bytes, c), bytes, c, Len(bytes))
<1>1. \E r : IsRun(r, bytes, c, Len(bytes))
  <2>1. Len(bytes) \in Nat /\ Len(bytes) <= Len(bytes)
    OBVIOUS
  <2>. QED
    BY <2>1, RunExists, Zenon
<1>. QED
  BY <1>1 DEF Run

\* There is only one.
LEMMA OneRun == ASSUME NEW bytes, NEW c, NEW n \in Nat, NEW r, NEW q, IsRun(r, bytes, c, n), IsRun(q, bytes, c, n)
                PROVE  \A k \in 0..n : r[k] = q[k]
<1> DEFINE S == {k \in Nat : k <= n => r[k] = q[k]}
<1>1. 0 \in S
  BY DEF IsRun
<1>2. ASSUME NEW k \in Nat, k \in S PROVE k + 1 \in S
  <2>1. SUFFICES ASSUME k + 1 <= n PROVE r[k + 1] = q[k + 1]
    OBVIOUS
  <2>2. k + 1 \in 1..n /\ (k + 1) - 1 = k /\ r[k] = q[k]
    BY <1>2, <2>1
  <2>3. r[k + 1] = R(8, r[(k + 1) - 1] (+) bytes[k + 1]) /\ q[k + 1] = R(8, q[(k + 1) - 1] (+) bytes[k + 1])
    BY <2>2 DEF IsRun
  <2>. QED
    BY <2>2, <2>3
<1>3. Nat \subseteq S
  BY <1>1, <1>2, Induct
<1>. QED
  BY <1>3

\* A loop of byte steps takes the register along its run.
LEMMA ByteLoop ==
    ASSUME NEW body, IsByteStep(body), NEW bytes \in Seq(Byte), NEW c \in Word, NEW r, IsRun(r, bytes, c, Len(bytes)),
           NEW first \in Nat \ {0}, NEW last \in Nat, first <= last + 1, last <= Len(bytes)
    PROVE  LoopEnds(r, body, bytes, first, last)
<1>1. IsRun(r, bytes, c, Len(bytes))
  OBVIOUS
<1>2. ASSUME NEW k \in first..last PROVE r[k] = body[r[k - 1]][bytes[k]]
  <2>1. k \in 1..Len(bytes) /\ k - 1 \in 0..Len(bytes)
    OBVIOUS
  <2>2. r[k - 1] \in Word /\ bytes[k] \in Byte /\ r[k] = R(8, r[k - 1] (+) bytes[k])
    BY <1>1, <2>1 DEF IsRun
  <2>. QED
    BY <2>2 DEF IsByteStep
<1>3. StepsAlong(r, body, bytes, first, last)
  BY <1>2 DEF StepsAlong
<1>. QED
  BY <1>3, LoopIs, Zenon

-----------------------------------------------------------------------------
(* Slices.                                                                  *)

\* u is the register, v what is left of the one that was mixed into the slice, y the
\* next byte, m the number of bytes that are left.
SliceTurns(m, u, v, y) ==
    (R(8 * m, u) (+) R(8 * m, v)) (+) Lookup[m - 1][y (+) (v \cap ByteBits)]
      = R(8 * (m - 1), R(8, u (+) y)) (+) R(8 * (m - 1), Shr(v, 8))

\* One byte of a slice: what the register and the block's first word would become.
LEMMA SliceTurn ==
    ASSUME NEW m \in 1..16, NEW u \in Word, NEW v \in Word, NEW y \in Byte
    PROVE  SliceTurns(m, u, v, y)
<1>1. PICK low : low = v \cap ByteBits
  OBVIOUS
<1>2. low \in Byte /\ low \in Word /\ y \in Word
  BY <1>1, ByteIsWord DEF Byte
<1>3. PICK mixed : mixed = y (+) low
  OBVIOUS
<1>4. mixed \in Byte /\ mixed \in Word
  BY <1>2, <1>3, ByteIsWord DEF Byte, (+)
<1>5. PICK e : e = 8 * m /\ e \in 0..128 /\ e = 8 * (m - 1) + 8 /\ m - 1 \in 0..15
  OBVIOUS
<1>6. PICK l : l = m - 1 /\ l \in 0..15
  BY <1>5
<1>7. PICK d : d = 8 * (m - 1) /\ d \in 0..128 /\ e = 8 + d /\ e = 8 * l + 8 /\ 8 \in 0..128
  BY <1>5, <1>6
<1>8. Lookup[l][mixed] = R(e, mixed)
  BY <1>4, <1>6, <1>7, LookupIs
<1>9. R(e, mixed) = R(e, y) (+) R(e, low)
  BY <1>2, <1>3, <1>7, <1>5, RXor
<1>10. PICK w : w = u (+) y /\ w \in Word
  BY <1>2, XorLaws
<1>11. R(e, w) = R(e, u) (+) R(e, y)
  BY <1>2, <1>5, <1>10, RXor
<1>12. PICK h : h = v (+) low /\ h \in Word
  BY <1>2, XorLaws
<1>13. R(e, h) = R(e, v) (+) R(e, low)
  BY <1>2, <1>5, <1>12, RXor
<1>14. PICK a : a = R(e, u)
  OBVIOUS
<1>15. PICK b : b = R(e, v)
  OBVIOUS
<1>16. PICK p : p = R(e, y)
  OBVIOUS
<1>17. PICK q : q = R(e, low)
  OBVIOUS
<1>18. (a (+) b) (+) (p (+) q) = (a (+) p) (+) (b (+) q)
  BY DEF (+)
<1>19. R(e, w) = R(d, R(8, w)) /\ R(e, h) = R(d, R(8, h))
  <2>1. 8 + d <= 128
    BY <1>5, <1>7
  <2>2. R(d, R(8, w)) = R(8 + d, w)
    BY <1>7, <1>10, <2>1, RPlus, Zenon
  <2>3. R(d, R(8, h)) = R(8 + d, h)
    BY <1>7, <1>12, <2>1, RPlus, Zenon
  <2>. QED
    BY <1>7, <2>2, <2>3
<1>20. R(8, h) = Shr(v, 8)
  <2>1. \A b0 \in 0..7 : b0 \notin h
    BY <1>1, <1>12 DEF (+), ByteBits
  <2>2. R(8, h) = Shr(h, 8)
    <3>1. 8 \in 0..128 /\ 8 - 1 = 7
      OBVIOUS
    <3>. QED
      BY <1>12, <2>1, <3>1, RShifts
  <2>3. \A b0 \in Nat : b0 + 8 \in h <=> b0 + 8 \in v
    BY <1>1, <1>12 DEF (+), ByteBits
  <2>4. /\ Shr(h, 8) \in Word /\ Shr(v, 8) \in Word
        /\ \A b0 \in Nat : (b0 \in Shr(h, 8) <=> b0 + 8 \in h) /\ (b0 \in Shr(v, 8) <=> b0 + 8 \in v)
    BY <1>12, ShrIn
  <2>5. \A b0 \in WordBits : b0 \in Shr(h, 8) <=> b0 \in Shr(v, 8)
    BY <2>3, <2>4 DEF WordBits
  <2>6. PICK s : s = Shr(h, 8) /\ s \in Word
    BY <2>4
  <2>7. PICK t : t = Shr(v, 8) /\ t \in Word
    BY <2>4
  <2>8. s = t
    <3>1. \A b0 \in WordBits : b0 \in s <=> b0 \in t
      BY <2>5, <2>6, <2>7
    <3>. QED
      BY <2>6, <2>7, <3>1, SameWord
  <2>. QED
    BY <2>2, <2>6, <2>7, <2>8
<1>21. (R(e, u) (+) R(e, v)) (+) R(e, mixed) = R(e, w) (+) R(e, h)
  BY <1>9, <1>11, <1>13, <1>14, <1>15, <1>16, <1>17, <1>18
<1>. QED
  BY <1>1, <1>3, <1>5, <1>6, <1>7, <1>8, <1>10, <1>19, <1>20, <1>21, Zenon DEF SliceTurns

\* A slice ends n bytes further.
SliceEnds(n, r, bytes, at) == Slice(n, bytes, at)[r[at]] = r[at + n]

\* A slice takes the register n bytes along its run.
LEMMA SliceIs ==
    ASSUME NEW n \in 4..16, NEW bytes \in Seq(Byte), NEW c \in Word, NEW r, IsRun(r, bytes, c, Len(bytes)),
           NEW at \in Nat, at + n <= Len(bytes)
    PROVE  SliceEnds(n, r, bytes, at)
<1>1. PICK u : u = r[at]
  OBVIOUS
<1> DEFINE Mixed(j) == bytes[at + j] (+) (Shr(u, 8 * (j - 1)) \cap ByteBits)
           Body(f)  == [j \in 0..n |-> IF j = 0 THEN {} ELSE f[j - 1] (+) Lookup[n - j][Mixed(j)]]
           Acc      == CHOOSE f : f = Body(f)
           G        == [j \in 0..n |-> R(8 * (n - j), r[at + j]) (+) R(8 * (n - j), Shr(u, 8 * j))]
<1>2. ASSUME NEW j \in 0..n
      PROVE  /\ r[at + j] \in Word
             /\ j # 0 => bytes[at + j] \in Byte /\ r[at + j] = R(8, r[at + (j - 1)] (+) bytes[at + j])
  <2>1. PICK i : i = at + j /\ i \in 0..Len(bytes) /\ i - 1 = at + (j - 1)
    OBVIOUS
  <2>2. r[i] \in Word
    BY <2>1 DEF IsRun
  <2>3. ASSUME j # 0 PROVE bytes[i] \in Byte /\ r[i] = R(8, r[i - 1] (+) bytes[i])
    BY <2>1, <2>3 DEF IsRun
  <2>. QED
    BY <2>1, <2>2, <2>3
<1>3. u \in Word
  <2>1. 0 \in 0..n /\ at + 0 = at
    OBVIOUS
  <2>. QED
    BY <1>1, <1>2, <2>1
<1>4. Slice(n, bytes, at)[u] = Acc[n]
  BY <1>3 DEF Slice
<1>5. G[0] = {}
  <2>1. 0 \in 0..n /\ at + 0 = at /\ 8 * (n - 0) = 8 * n /\ 8 * 0 = 0
    OBVIOUS
  <2>2. G[0] = R(8 * n, r[at]) (+) R(8 * n, Shr(u, 0))
    BY <2>1
  <2>3. Shr(u, 0) = u
    <3>1. PICK s : s = Shr(u, 0) /\ s \in Word /\ \A b \in Nat : b \in s <=> b + 0 \in u
      BY <1>3, ShrIn
    <3>2. \A b \in WordBits : b \in s <=> b \in u
      BY <3>1 DEF WordBits
    <3>. QED
      BY <1>3, <3>1, <3>2, SameWord
  <2>. QED
    BY <1>1, <2>2, <2>3, XorLaws
<1>6. ASSUME NEW j \in 0..n, j # 0 PROVE G[j] = G[j - 1] (+) Lookup[n - j][Mixed(j)]
  <2>1. PICK m : m = n - (j - 1) /\ m \in 1..16 /\ m - 1 = n - j
    BY <1>6
  <2>2. PICK w : w = r[at + (j - 1)] /\ w \in Word
    <3>1. j - 1 \in 0..n
      BY <1>6
    <3>. QED
      BY <1>2, <3>1
  <2>3. PICK y \in Byte : y = bytes[at + j]
    BY <1>2, <1>6
  <2>4. PICK e \in Nat : e = 8 * (j - 1) /\ e + 8 = 8 * j
    BY <1>6
  <2>5. PICK v : v = Shr(u, e) /\ v \in Word
    BY <1>3, <2>4, ShrIn
  <2>6. Shr(v, 8) = Shr(u, 8 * j)
    <3>1. 8 \in Nat
      OBVIOUS
    <3>2. Shr(Shr(u, e), 8) = Shr(u, e + 8)
      BY <1>3, <3>1, ShrShr, Zenon
    <3>. QED
      BY <2>4, <2>5, <3>2
  <2>7. r[at + j] = R(8, w (+) y)
    BY <1>2, <1>6, <2>2, <2>3
  <2>8. G[j] = R(8 * (m - 1), R(8, w (+) y)) (+) R(8 * (m - 1), Shr(v, 8))
    BY <2>1, <2>6, <2>7
  <2>9. G[j - 1] = R(8 * m, w) (+) R(8 * m, v)
    <3>1. j - 1 \in 0..n
      BY <1>6
    <3>. QED
      BY <2>1, <2>2, <2>4, <2>5, <3>1
  <2>10. Mixed(j) = y (+) (v \cap ByteBits)
    BY <2>3, <2>4, <2>5
  <2>11. (R(8 * m, w) (+) R(8 * m, v)) (+) Lookup[m - 1][y (+) (v \cap ByteBits)]
           = R(8 * (m - 1), R(8, w (+) y)) (+) R(8 * (m - 1), Shr(v, 8))
    <3>1. SliceTurns(m, w, v, y)
      BY <2>1, <2>2, <2>3, <2>5, SliceTurn, Zenon
    <3>. QED
      BY <3>1 DEF SliceTurns
  <2>. QED
    BY <2>1, <2>8, <2>9, <2>10, <2>11, Zenon
<1>7. G = Body(G)
  BY <1>5, <1>6, Zenon
<1>8. G[n] = r[at + n]
  <2>1. n \in 0..n /\ 8 * (n - n) = 0 /\ 8 * n \in Nat /\ 8 * n >= 32
    OBVIOUS
  <2>2. PICK w : w = r[at + n] /\ w \in Word
    BY <1>2, <2>1
  <2>3. PICK k \in Nat : k = 8 * n /\ k >= 32
    BY <2>1
  <2>4. Shr(u, k) = {}
    BY <1>3, <2>3 DEF Shr, Word, WordBits
  <2>5. R(0, w) = w /\ R(0, {}) = {}
    BY <2>2, RStep, EmptyIsByte
  <2>6. G[n] = R(0, w) (+) R(0, {})
    BY <2>1, <2>2, <2>3, <2>4
  <2>7. w (+) {} = w
    BY XorLaws
  <2>. QED
    BY <2>2, <2>5, <2>6, <2>7
<1> HIDE DEF G
<1>9. Acc = Body(Acc)
  BY <1>7, Zenon
<1> HIDE DEF Acc, Mixed
<1>10. \A j \in Nat : j <= n => Acc[j] = G[j]
  <2> DEFINE S == {j \in Nat : j <= n => Acc[j] = G[j]}
  <2>1. 0 \in S
    BY <1>7, <1>9
  <2>2. ASSUME NEW j \in Nat, j \in S PROVE j + 1 \in S
    <3>1. SUFFICES ASSUME j + 1 <= n PROVE Acc[j + 1] = G[j + 1]
      OBVIOUS
    <3>2. PICK m : m = j + 1 /\ m \in 0..n /\ m # 0 /\ m - 1 = j
      BY <3>1
    <3>3. Acc[m] = Acc[m - 1] (+) Lookup[n - m][Mixed(m)] /\ G[m] = G[m - 1] (+) Lookup[n - m][Mixed(m)]
      BY <1>7, <1>9, <3>2
    <3>. QED
      BY <2>2, <3>1, <3>2, <3>3
  <2>3. Nat \subseteq S
    BY <2>1, <2>2, Induct
  <2>. QED
    BY <2>3
<1>11. Acc[n] = G[n]
  BY <1>10
<1>. QED
  BY <1>1, <1>4, <1>8, <1>11, Zenon DEF SliceEnds

-----------------------------------------------------------------------------
(* The values of the loops.                                                 *)

\* ~ undoes itself.
NotNot(x) == Not(x) \in Word /\ Not(Not(x)) = x

\* The complement of the complement.
LEMMA NotIs == ASSUME NEW x \in Word PROVE NotNot(x)
  BY DEF NotNot, Not, Word

\* The value of a variant: the register is complemented before the first byte and after the last.
Result(bytes, previous) == Not(Run(bytes, Not(previous))[Len(bytes)])

\* value is it.
Exact(value, bytes, previous) == value = Result(bytes, previous)

\* The variants that take a byte at a time have the result of the run.
LEMMA ByteAtATimeIs ==
    ASSUME NEW body, IsByteStep(body), NEW bytes \in Seq(Byte), NEW previous \in Word
    PROVE  Exact(ByteAtATime(body, bytes, previous), bytes, previous)
<1>1. PICK c \in Word : c = Not(previous)
  BY NotIs DEF NotNot
<1>2. PICK r : r = Run(bytes, c) /\ IsRun(r, bytes, c, Len(bytes))
  BY RunIs
<1>3. r[1 - 1] = c
  BY <1>2 DEF IsRun
<1>4. PICK last \in Nat : last = Len(bytes) /\ 1 <= last + 1 /\ last <= Len(bytes) /\ 1 \in Nat \ {0}
  OBVIOUS
<1>5. EachByte(body, r[1 - 1], bytes, 1, last) = r[last]
  <2>1. LoopEnds(r, body, bytes, 1, last)
    BY <1>2, <1>4, ByteLoop
  <2>. QED
    BY <2>1 DEF LoopEnds
<1>. QED
  BY <1>1, <1>2, <1>3, <1>4, <1>5, Zenon DEF ByteAtATime, Result, Exact

\* How often the unrolled loop turns.
Rounds(n, unroll, ahead, len) ==
    IF len < n * unroll + ahead THEN 0 ELSE (len - ahead) \div (n * unroll)

\* What it takes is within the data.
Fits(rounds, n, unroll, len) ==
    /\ rounds \in Nat /\ rounds * unroll \in Nat
    /\ n * (rounds * unroll) = rounds * (n * unroll) /\ rounds * (n * unroll) \in Nat
    /\ rounds * (n * unroll) <= len

\* The unrolled loop ends within the data.
LEMMA Blocks == ASSUME NEW n \in Nat \ {0}, NEW unroll \in Nat \ {0}, NEW ahead \in Nat, NEW len \in Nat
                PROVE  Fits(Rounds(n, unroll, ahead, len), n, unroll, len)
<1>1. PICK block \in Nat \ {0} : block = n * unroll
  OBVIOUS
<1>2. ASSUME NEW rounds, rounds = (IF len < block + ahead THEN 0 ELSE (len - ahead) \div block)
      PROVE  rounds \in Nat /\ rounds * block <= len
  <2>1. CASE len < block + ahead
    BY <1>2, <2>1
  <2>2. CASE ~(len < block + ahead)
    <3>1. PICK a \in Nat : a = len - ahead
      BY <2>2
    <3>2. rounds = a \div block
      BY <1>2, <2>2, <3>1
    <3>3. /\ a \div block \in Nat /\ a % block \in 0..(block - 1)
          /\ a = block * (a \div block) + (a % block)
      BY Division, Zenon
    <3>4. PICK q \in Nat : q = a \div block
      BY <3>3
    <3>5. PICK e \in Nat : e = a % block
      BY <3>3
    <3>6. PICK d \in Nat : d = block * q /\ d = q * block
      OBVIOUS
    <3>7. a = d + e
      BY <3>3, <3>4, <3>5, <3>6
    <3>. QED
      BY <3>1, <3>2, <3>4, <3>6, <3>7
  <2>. QED
    BY <2>1, <2>2
<1>3. ASSUME NEW rounds \in Nat
      PROVE  rounds * unroll \in Nat /\ rounds * block \in Nat /\ n * (rounds * unroll) = rounds * (n * unroll)
  OBVIOUS
<1>4. PICK rounds : rounds = (IF len < block + ahead THEN 0 ELSE (len - ahead) \div block)
  OBVIOUS
<1>5. rounds = Rounds(n, unroll, ahead, len)
  BY <1>1, <1>4 DEF Rounds
<1>6. Fits(rounds, n, unroll, len)
  BY <1>1, <1>2, <1>3, <1>4 DEF Fits
<1>. QED
  BY <1>5, <1>6

\* The variants that take blocks have it too: the slices, then the rest.
LEMMA SlicedIs ==
    ASSUME NEW n \in 4..16, NEW unroll \in Nat \ {0}, NEW ahead \in Nat,
           NEW bytes \in Seq(Byte), NEW previous \in Word
    PROVE  Exact(Sliced(n, unroll, ahead, bytes, previous), bytes, previous)
<1>1. PICK c \in Word : c = Not(previous)
  BY NotIs DEF NotNot
<1>2. PICK r : r = Run(bytes, c) /\ IsRun(r, bytes, c, Len(bytes))
  BY RunIs
<1>3. PICK len \in Nat : len = Len(bytes)
  OBVIOUS
<1>4. PICK rounds : rounds = Rounds(n, unroll, ahead, len)
  OBVIOUS
<1>5. /\ rounds \in Nat /\ rounds * unroll \in Nat
      /\ n * (rounds * unroll) = rounds * (n * unroll) /\ rounds * (n * unroll) \in Nat
      /\ rounds * (n * unroll) <= len
  <2>1. n \in Nat \ {0}
    OBVIOUS
  <2>. QED
    BY <1>4, <2>1, Blocks DEF Fits
<1>6. PICK total \in Nat : total = rounds * unroll
  BY <1>5
<1>7. PICK done \in Nat : done = rounds * (n * unroll) /\ done = n * total /\ done <= len
  BY <1>5, <1>6
<1> DEFINE Body(f) == [k \in 0..total |-> IF k = 0 THEN c ELSE Slice(n, bytes, n * (k - 1))[f[k - 1]]]
           After   == CHOOSE f : f = Body(f)
           G       == [k \in 0..total |-> r[n * k]]
<1>8. Sliced(n, unroll, ahead, bytes, previous) = Not(EachByte(TableByte, After[total], bytes, done + 1, len))
  BY <1>1, <1>3, <1>4, <1>6, <1>7 DEF Sliced, Rounds
<1>9. ASSUME NEW k \in 0..total, k # 0 PROVE G[k] = Slice(n, bytes, n * (k - 1))[G[k - 1]]
  <2>1. PICK at \in Nat : at = n * (k - 1) /\ at + n = n * k
    BY <1>9
  <2>2. n * k <= n * total
    BY <1>9
  <2>3. at + n <= Len(bytes)
    BY <1>3, <1>7, <2>1, <2>2
  <2>4. Slice(n, bytes, at)[r[at]] = r[at + n]
    <3>1. SliceEnds(n, r, bytes, at)
      BY <1>2, <2>3, SliceIs
    <3>. QED
      BY <3>1 DEF SliceEnds
  <2>5. G[k] = r[at + n] /\ G[k - 1] = r[at]
    <3>1. k - 1 \in 0..total
      BY <1>9
    <3>. QED
      BY <2>1, <3>1
  <2>. QED
    BY <2>1, <2>4, <2>5
<1>10. G[0] = c
  BY <1>2 DEF IsRun
<1>11. G = Body(G)
  BY <1>9, <1>10, Zenon
<1>12. G[total] = r[done]
  BY <1>7
<1> HIDE DEF G
<1>13. After = Body(After)
  BY <1>11, Zenon
<1> HIDE DEF After
<1>14. \A k \in Nat : k <= total => After[k] = G[k]
  <2> DEFINE S == {k \in Nat : k <= total => After[k] = G[k]}
  <2>1. 0 \in S
    BY <1>11, <1>13
  <2>2. ASSUME NEW k \in Nat, k \in S PROVE k + 1 \in S
    <3>1. SUFFICES ASSUME k + 1 <= total PROVE After[k + 1] = G[k + 1]
      OBVIOUS
    <3>2. PICK m : m = k + 1 /\ m \in 0..total /\ m # 0 /\ m - 1 = k
      BY <3>1
    <3>3. After[m] = Slice(n, bytes, n * (m - 1))[After[m - 1]] /\ G[m] = Slice(n, bytes, n * (m - 1))[G[m - 1]]
      BY <1>11, <1>13, <3>2
    <3>. QED
      BY <2>2, <3>1, <3>2, <3>3
  <2>3. Nat \subseteq S
    BY <2>1, <2>2, Induct
  <2>. QED
    BY <2>3
<1>15. After[total] = r[done]
  BY <1>12, <1>14
<1>16. PICK first \in Nat \ {0} : first = done + 1 /\ first <= len + 1 /\ first - 1 = done /\ len <= Len(bytes)
  BY <1>3, <1>7
<1>17. EachByte(TableByte, r[first - 1], bytes, first, len) = r[len]
  <2>1. LoopEnds(r, TableByte, bytes, first, len)
    BY <1>2, <1>16, ByteLoop, TableSteps
  <2>. QED
    BY <2>1 DEF LoopEnds
<1>. QED
  BY <1>1, <1>2, <1>3, <1>8, <1>15, <1>16, <1>17, Zenon DEF Result, Exact

-----------------------------------------------------------------------------
(* The division of polynomials.                                             *)

\* The register of the division, read from the other end.
Mirror(x) == {31 - b : b \in x}

\* A mirrored word bit by bit.
LEMMA MirrorIn == ASSUME NEW x \in Word
                  PROVE  /\ Mirror(x) \in Word
                         /\ \A b \in WordBits : b \in Mirror(x) <=> 31 - b \in x
<1>1. Mirror(x) \in Word
  BY DEF Mirror, Word, WordBits
<1>2. ASSUME NEW b \in WordBits PROVE b \in Mirror(x) <=> 31 - b \in x
  <2>1. ASSUME b \in Mirror(x) PROVE 31 - b \in x
    <3>1. PICK a \in x : b = 31 - a
      BY <2>1 DEF Mirror
    <3>2. a \in 0..31
      BY DEF Word, WordBits
    <3>. QED
      BY <3>1, <3>2
  <2>2. ASSUME 31 - b \in x PROVE b \in Mirror(x)
    <3>1. b = 31 - (31 - b)
      BY DEF WordBits
    <3>. QED
      BY <2>2, <3>1 DEF Mirror
  <2>. QED
    BY <2>1, <2>2
<1>. QED
  BY <1>1, <1>2

\* Mirroring distributes over ^.
LEMMA MirrorXor == ASSUME NEW x \in Word, NEW y \in Word
                   PROVE  Mirror(x (+) y) = Mirror(x) (+) Mirror(y)
<1>1. PICK z \in Word : z = x (+) y
  BY XorLaws
<1>2. PICK p : p = Mirror(x) /\ p \in Word /\ \A b \in WordBits : b \in p <=> 31 - b \in x
  BY MirrorIn
<1>3. PICK q : q = Mirror(y) /\ q \in Word /\ \A b \in WordBits : b \in q <=> 31 - b \in y
  BY MirrorIn
<1>4. PICK m : m = Mirror(z) /\ m \in Word /\ \A b \in WordBits : b \in m <=> 31 - b \in z
  BY MirrorIn
<1>5. PICK s \in Word : s = p (+) q
  BY <1>2, <1>3, XorLaws
<1>6. \A b \in WordBits : b \in m <=> b \in s
  BY <1>1, <1>2, <1>3, <1>4, <1>5 DEF (+)
<1>7. m = s
  BY <1>4, <1>5, <1>6, SameWord
<1>. QED
  BY <1>1, <1>2, <1>3, <1>4, <1>5, <1>7

\* Mirrored twice, a word is what it was.
LEMMA MirrorMirror == ASSUME NEW x \in Word
                      PROVE  Mirror(Mirror(x)) = x
<1>1. PICK p : p = Mirror(x) /\ p \in Word /\ \A b \in WordBits : b \in p <=> 31 - b \in x
  BY MirrorIn
<1>2. PICK q : q = Mirror(p) /\ q \in Word /\ \A b \in WordBits : b \in q <=> 31 - b \in p
  BY <1>1, MirrorIn
<1>3. \A b \in WordBits : b \in q <=> b \in x
  BY <1>1, <1>2 DEF WordBits
<1>4. q = x
  BY <1>2, <1>3, SameWord
<1>. QED
  BY <1>1, <1>2, <1>4

\* What shifts left in the mirror shifts right.
LEMMA MirrorShift == ASSUME NEW x \in Word
                     PROVE  Shl(Mirror(x), 1) = Mirror(Shr(x, 1))
<1>1. PICK p : p = Mirror(x) /\ p \in Word /\ \A b \in WordBits : b \in p <=> 31 - b \in x
  BY MirrorIn
<1>2. PICK q : q = Shl(p, 1) /\ q \in Word /\ \A b \in WordBits : b \in q <=> b - 1 \in p
  BY <1>1, ShlIn
<1>3. PICK s : s = Shr(x, 1) /\ s \in Word /\ \A b \in Nat : b \in s <=> b + 1 \in x
  BY ShrIn
<1>4. PICK m : m = Mirror(s) /\ m \in Word /\ \A b \in WordBits : b \in m <=> 31 - b \in s
  BY <1>3, MirrorIn
<1>5. ASSUME NEW b \in WordBits PROVE b \in q <=> b \in m
  <2>1. b \in m <=> 31 - b + 1 \in x
    BY <1>3, <1>4 DEF WordBits
  <2>2. CASE b = 0
    <3>1. 0 - 1 \notin p /\ 31 - 0 + 1 \notin x
      BY <1>1 DEF Word, WordBits
    <3>. QED
      BY <1>2, <2>1, <2>2, <3>1
  <2>3. CASE b # 0
    <3>1. b - 1 \in WordBits /\ 31 - (b - 1) = 31 - b + 1
      BY <2>3 DEF WordBits
    <3>. QED
      BY <1>1, <1>2, <2>1, <3>1
  <2>. QED
    BY <2>2, <2>3
<1>6. q = m
  BY <1>2, <1>4, <1>5, SameWord
<1>. QED
  BY <1>1, <1>2, <1>3, <1>4, <1>6

\* One bit of the message enters the register.
Enter(reg, bit) == Shl(reg, 1) (+) (IF (31 \in reg) # bit THEN Mirror(Polynomial) ELSE {})

\* The register of the run when b bits of y were taken.
Entered(x, b, y) == R(b, x (+) (y \cap 0..(b - 1)))

\* A bit that enters the division is a step of one bit in the mirror.
LEMMA EnterIs == ASSUME NEW x \in Word, NEW y \in Byte, NEW b \in 0..7
                 PROVE  Enter(Mirror(Entered(x, b, y)), b \in y) = Mirror(Entered(x, b + 1, y))
<1>1. PICK low : low = y \cap 0..(b - 1)
  OBVIOUS
<1>2. PICK next : next = y \cap 0..((b + 1) - 1)
  OBVIOUS
<1>3. PICK bit : bit = IF b \in y THEN {b} ELSE {}
  OBVIOUS
<1>4. PICK unit : unit = IF b \in y THEN {0} ELSE {}
  OBVIOUS
<1>5. low \in Word /\ next \in Word /\ bit \in Word /\ unit \in Word
  BY <1>1, <1>2, <1>3, <1>4 DEF Word, Byte, ByteBits, WordBits
<1>6. next = low (+) bit
  BY <1>1, <1>2, <1>3 DEF (+), Byte, ByteBits
<1>7. PICK z \in Word : z = x (+) low
  BY <1>5, XorLaws
<1>8. x (+) next = z (+) bit
  BY <1>6, <1>7 DEF (+)
<1>9. b \in 0..128 /\ b \in 0..127
  OBVIOUS
<1>10. R(b, bit) = unit
  <2>1. \A k \in 0..(b - 1) : k \notin bit
    BY <1>3
  <2>2. R(b, bit) = Shr(bit, b)
    BY <1>5, <1>9, <2>1, RShifts
  <2>3. Shr(bit, b) = unit
    BY <1>3, <1>4 DEF Shr
  <2>. QED
    BY <2>2, <2>3
<1>11. PICK w \in Word : w = R(b, z)
  BY <1>7, <1>9, RStep
<1>12. R(b, z (+) bit) = w (+) unit
  BY <1>5, <1>9, <1>10, <1>11, RXor
<1>13. PICK v \in Word : v = w (+) unit
  BY <1>5, XorLaws
<1>14. R(b + 1, z (+) bit) = OneBit(v)
  <2>1. z (+) bit \in Word
    BY <1>5, XorLaws
  <2>2. R(b + 1, z (+) bit) = OneBit(R(b, z (+) bit))
    BY <1>9, <2>1, RStep
  <2>. QED
    BY <1>12, <1>13, <2>2
<1>15. Shr(v, 1) = Shr(w, 1) /\ (0 \in v <=> ((0 \in w) # (b \in y)))
  <2>1. (0 \in v <=> ((0 \in w) # (b \in y))) /\ \A k \in Nat : k + 1 \in v <=> k + 1 \in w
    BY <1>4, <1>13 DEF (+)
  <2>2. PICK s : s = Shr(v, 1) /\ s \in Word /\ \A k \in Nat : k \in s <=> k + 1 \in v
    BY ShrIn
  <2>3. PICK t : t = Shr(w, 1) /\ t \in Word /\ \A k \in Nat : k \in t <=> k + 1 \in w
    BY ShrIn
  <2>4. \A k \in WordBits : k \in s <=> k \in t
    BY <2>1, <2>2, <2>3 DEF WordBits
  <2>5. s = t
    BY <2>2, <2>3, <2>4, SameWord
  <2>. QED
    BY <2>1, <2>2, <2>3, <2>5
<1>16. PICK s \in Word : s = Shr(w, 1)
  BY ShrIn
<1>17. PICK mask \in Word : mask = IF 0 \in v THEN Polynomial ELSE {}
  BY PolynomialIsWord
<1>18. OneBit(v) = s (+) mask
  BY <1>15, <1>16, <1>17 DEF OneBit
<1>19. Mirror(s (+) mask) = Mirror(s) (+) Mirror(mask)
  BY <1>16, <1>17, MirrorXor
<1>20. Mirror(mask) = IF (0 \in w) # (b \in y) THEN Mirror(Polynomial) ELSE {}
  <2>1. Mirror({}) = {}
    BY DEF Mirror
  <2>. QED
    BY <1>15, <1>17, <2>1
<1>21. PICK m : m = Mirror(w) /\ (31 \in m <=> 0 \in w)
  <2>1. 31 \in WordBits /\ 31 - 31 = 0
    BY DEF WordBits
  <2>. QED
    BY <2>1, MirrorIn
<1>22. Shl(m, 1) = Mirror(s)
  BY <1>16, <1>21, MirrorShift
<1>23. Enter(m, b \in y) = Mirror(s) (+) Mirror(mask)
  BY <1>20, <1>21, <1>22 DEF Enter
<1>24. Entered(x, b, y) = w /\ Entered(x, b + 1, y) = OneBit(v)
  BY <1>1, <1>2, <1>7, <1>8, <1>11, <1>14 DEF Entered
<1>. QED
  BY <1>18, <1>19, <1>21, <1>23, <1>24

\* A byte enters the register.
DivideByte == [reg \in Word |-> [byte \in Byte |->
    LET Bits[b \in 0..8] == IF b = 0 THEN reg ELSE Enter(Bits[b - 1], b - 1 \in byte)
    IN Bits[8]]]

\* And a byte is eight.
LEMMA DivideIs == ASSUME NEW x \in Word, NEW y \in Byte
                  PROVE  DivideByte[Mirror(x)][y] = Mirror(R(8, x (+) y))
<1>1. PICK reg \in Word : reg = Mirror(x)
  BY MirrorIn
<1> DEFINE Body(f) == [b \in 0..8 |-> IF b = 0 THEN reg ELSE Enter(f[b - 1], b - 1 \in y)]
           Bits    == CHOOSE f : f = Body(f)
           G       == [b \in 0..8 |-> Mirror(Entered(x, b, y))]
<1>2. DivideByte[reg][y] = Bits[8]
  BY DEF DivideByte
<1>3. G[0] = reg
  <2>1. y \cap 0..(0 - 1) = {} /\ x (+) {} = x /\ R(0, x) = x
    BY XorLaws, RStep
  <2>2. Entered(x, 0, y) = x
    BY <2>1 DEF Entered
  <2>. QED
    BY <1>1, <2>2
<1>4. ASSUME NEW b \in 0..8, b # 0 PROVE G[b] = Enter(G[b - 1], b - 1 \in y)
  <2>1. PICK k : k = b - 1 /\ k \in 0..7 /\ k \in 0..8 /\ k + 1 = b
    BY <1>4
  <2>2. Enter(Mirror(Entered(x, k, y)), k \in y) = Mirror(Entered(x, k + 1, y))
    BY <2>1, EnterIs, Zenon
  <2>3. G[b] = Mirror(Entered(x, b, y)) /\ G[k] = Mirror(Entered(x, k, y))
    BY <2>1
  <2>. QED
    BY <2>1, <2>2, <2>3, Zenon
<1>5. G = Body(G)
  BY <1>3, <1>4, Zenon
<1>6. G[8] = Mirror(R(8, x (+) y))
  <2>1. y \cap 0..(8 - 1) = y
    <3>1. 8 - 1 = 7 /\ \A b \in y : b \in 0..7
      BY ByteIsWord
    <3>. QED
      BY <3>1
  <2>2. Entered(x, 8, y) = R(8, x (+) y)
    BY <2>1 DEF Entered
  <2>. QED
    BY <2>2
<1> HIDE DEF G
<1>7. Bits = Body(Bits)
  BY <1>5, Zenon
<1> HIDE DEF Bits
<1>8. \A b \in Nat : b <= 8 => Bits[b] = G[b]
  <2> DEFINE S == {b \in Nat : b <= 8 => Bits[b] = G[b]}
  <2>1. 0 \in S
    BY <1>5, <1>7
  <2>2. ASSUME NEW b \in Nat, b \in S PROVE b + 1 \in S
    <3>1. SUFFICES ASSUME b + 1 <= 8 PROVE Bits[b + 1] = G[b + 1]
      OBVIOUS
    <3>2. PICK m : m = b + 1 /\ m \in 0..8 /\ m # 0 /\ m - 1 = b
      BY <3>1
    <3>3. Bits[m] = Enter(Bits[m - 1], m - 1 \in y) /\ G[m] = Enter(G[m - 1], m - 1 \in y)
      BY <1>5, <1>7, <3>2, Zenon
    <3>4. Bits[m - 1] = G[m - 1]
      BY <2>2, <3>1, <3>2
    <3>5. Bits[m] = G[m]
      BY <3>3, <3>4, Zenon
    <3>. QED
      BY <3>2, <3>5
  <2>3. Nat \subseteq S
    BY <2>1, <2>2, Induct
  <2>. QED
    BY <2>3
<1>. QED
  BY <1>1, <1>2, <1>6, <1>8

\* The polynomial division has the value of the variants, from the start.
LEMMA RemainderIs == ASSUME NEW bytes \in Seq(Byte)
                     PROVE  Exact(Remainder(bytes), bytes, {})
<1>1. WordBits \in Word /\ Not({}) = WordBits
  BY DEF Word, Not
<1>2. PICK c \in Word : c = WordBits
  BY <1>1
<1>3. PICK r : r = Run(bytes, c) /\ IsRun(r, bytes, c, Len(bytes))
  BY RunIs
<1>4. PICK len \in Nat : len = Len(bytes)
  OBVIOUS
<1>5. \A k \in 0..len : r[k] \in Word
  BY <1>3, <1>4 DEF IsRun
<1>6. PICK g : g = [k \in 0..len |-> Mirror(r[k])]
  OBVIOUS
<1>7. g[1 - 1] = c
  <2>1. r[0] = c /\ Mirror(c) = c
    <3>1. r[0] = c
      BY <1>3 DEF IsRun
    <3>2. \A b \in WordBits : b \in Mirror(c) <=> b \in c
      <4>1. \A b \in WordBits : b \in Mirror(c) <=> 31 - b \in c
        BY MirrorIn
      <4>2. \A b \in WordBits : 31 - b \in WordBits
        BY DEF WordBits
      <4>. QED
        BY <1>2, <4>1, <4>2
    <3>3. PICK m : m = Mirror(c) /\ m \in Word
      BY MirrorIn
    <3>4. m = c
      BY <3>2, <3>3, SameWord
    <3>. QED
      BY <3>1, <3>3, <3>4
  <2>. QED
    BY <1>6, <2>1
<1>8. ASSUME NEW k \in 1..len PROVE g[k] = DivideByte[g[k - 1]][bytes[k]]
  <2>1. PICK x \in Word : x = r[k - 1]
    BY <1>5
  <2>2. PICK y \in Byte : y = bytes[k]
    BY <1>4
  <2>3. r[k] = R(8, x (+) y)
    BY <1>3, <1>4, <2>1, <2>2 DEF IsRun
  <2>4. DivideByte[Mirror(x)][y] = Mirror(R(8, x (+) y))
    BY DivideIs
  <2>5. g[k] = Mirror(r[k]) /\ g[k - 1] = Mirror(x)
    BY <1>6, <2>1
  <2>. QED
    BY <2>2, <2>3, <2>4, <2>5
<1>9. LoopEnds(g, DivideByte, bytes, 1, len)
  <2>1. StepsAlong(g, DivideByte, bytes, 1, len)
    BY <1>8 DEF StepsAlong
  <2>. QED
    BY <2>1, LoopIs, Zenon
<1>10. EachByte(DivideByte, c, bytes, 1, len) = Mirror(r[len])
  <2>1. g[len] = Mirror(r[len])
    BY <1>6
  <2>. QED
    BY <1>7, <1>9, <2>1 DEF LoopEnds
<1>11. Remainder(bytes) = Not(Mirror(EachByte(DivideByte, c, bytes, 1, len)))
  BY <1>2, <1>4 DEF Remainder, DivideByte, Enter, Mirror
<1>12. Mirror(Mirror(r[len])) = r[len]
  BY <1>5, MirrorMirror
<1>. QED
  BY <1>1, <1>2, <1>3, <1>4, <1>10, <1>11, <1>12, Zenon DEF Exact, Result

-----------------------------------------------------------------------------
\* A run goes on where that of the earlier bytes ended.
LEMMA RunAppend ==
    ASSUME NEW s \in Seq(Byte), NEW t \in Seq(Byte), NEW c \in Word
    PROVE  /\ Run(s, c)[Len(s)] \in Word
           /\ Run(s \o t, c)[Len(s \o t)] = Run(t, Run(s, c)[Len(s)])[Len(t)]
<1>1. PICK m \in Nat : m = Len(s)
  OBVIOUS
<1>2. PICK n \in Nat : n = Len(t)
  OBVIOUS
<1>3. PICK r : r = Run(s, c) /\ IsRun(r, s, c, m)
  BY <1>1, RunIs
<1>4. PICK d \in Word : d = r[m]
  BY <1>3 DEF IsRun
<1>5. PICK q : q = Run(t, d) /\ IsRun(q, t, d, n)
  BY <1>2, RunIs
<1>6. PICK u : u = s \o t /\ u \in Seq(Byte) /\ Len(u) = m + n
  BY <1>1, <1>2, ConcatProperties
<1>7. PICK p : p = Run(u, c) /\ IsRun(p, u, c, m + n)
  BY <1>6, RunIs
<1>8. PICK w : w = [k \in 0..(m + n) |-> IF k <= m THEN r[k] ELSE q[k - m]]
  OBVIOUS
<1>9. w \in [0..(m + n) -> Word] /\ w[0] = c
  BY <1>3, <1>5, <1>8 DEF IsRun
<1>10. \A k \in 0..n : w[m + k] = q[k]
  <2>1. w[m + 0] = q[0]
    BY <1>4, <1>5, <1>8 DEF IsRun
  <2>2. ASSUME NEW k \in 1..n PROVE w[m + k] = q[k]
    BY <1>8
  <2>. QED
    BY <2>1, <2>2
<1>11. ASSUME NEW k \in 1..(m + n) PROVE w[k] = R(8, w[k - 1] (+) u[k])
  <2>1. CASE k <= m
    <3>1. k \in 1..m /\ w[k] = r[k] /\ w[k - 1] = r[k - 1] /\ u[k] = s[k]
      BY <1>1, <1>2, <1>6, <1>8, <2>1
    <3>. QED
      BY <1>3, <3>1 DEF IsRun
  <2>2. CASE ~(k <= m)
    <3>1. PICK j \in 1..n : k = m + j
      <4>1. k - m \in 1..n /\ k = m + (k - m)
        BY <2>2
      <4>. QED
        BY <4>1
    <3>2. u[k] = t[j]
      BY <1>1, <1>2, <1>6, <3>1
    <3>3. w[k] = q[j]
      BY <1>10, <3>1
    <3>4. w[k - 1] = q[j - 1]
      <4>1. j - 1 \in 0..n /\ k - 1 = m + (j - 1)
        BY <3>1
      <4>. QED
        BY <1>10, <4>1
    <3>. QED
      BY <1>5, <3>2, <3>3, <3>4 DEF IsRun
  <2>. QED
    BY <2>1, <2>2
<1>12. IsRun(w, u, c, m + n)
  BY <1>9, <1>11 DEF IsRun
<1>13. PICK last \in Nat : last = m + n /\ last \in 0..last
  OBVIOUS
<1>14. p[last] = w[last]
  BY <1>7, <1>12, <1>13, OneRun
<1>15. w[last] = q[n]
  BY <1>10, <1>13
<1>. QED
  BY <1>1, <1>2, <1>3, <1>4, <1>5, <1>6, <1>7, <1>13, <1>14, <1>15

\* previousCrc32 continues a checksum.
LEMMA ResultAppend ==
    ASSUME NEW s \in Seq(Byte), NEW t \in Seq(Byte)
    PROVE  Result(s, {}) \in Word /\ Result(t, Result(s, {})) = Result(s \o t, {})
<1>1. PICK c \in Word : c = Not({})
  BY DEF Not, Word
<1>2. PICK d \in Word : d = Run(s, c)[Len(s)]
  BY RunAppend
<1>3. Run(s \o t, c)[Len(s \o t)] = Run(t, d)[Len(t)]
  BY <1>2, RunAppend
<1>4. Not(d) \in Word /\ Not(Not(d)) = d
  BY NotIs DEF NotNot
<1>5. Result(s, {}) = Not(d)
  BY <1>1, <1>2 DEF Result
<1>6. Result(t, Not(d)) = Not(Run(t, d)[Len(t)])
  BY <1>4 DEF Result
<1>. QED
  BY <1>1, <1>3, <1>4, <1>5, <1>6 DEF Result

\* Of no bytes the checksum is 0.
LEMMA ResultOfNone == Result(<<>>, {}) = {}
<1>1. PICK c \in Word : c = Not({})
  BY DEF Not, Word
<1>2. <<>> \in Seq(Byte) /\ Len(<<>>) = 0
  OBVIOUS
<1>3. PICK r : r = Run(<<>>, c) /\ IsRun(r, <<>>, c, 0)
  BY <1>2, RunIs
<1>4. r[0] = c
  BY <1>3 DEF IsRun
<1>5. Not(c) = {}
  BY <1>1 DEF Not
<1>. QED
  BY <1>1, <1>2, <1>3, <1>4, <1>5 DEF Result

-----------------------------------------------------------------------------
(* Every variant, in portions.                                              *)

\* The variants that take a byte at a time.
LEMMA ByteVariants ==
    ASSUME NEW portion \in Seq(Byte), NEW previous \in Word
    PROVE  /\ Exact(crc32_bitwise(portion, previous), portion, previous)
           /\ Exact(crc32_halfbyte(portion, previous), portion, previous)
           /\ Exact(crc32_1byte(portion, previous), portion, previous)
           /\ Exact(crc32_1byte_tableless(portion, previous), portion, previous)
           /\ Exact(crc32_1byte_tableless2(portion, previous), portion, previous)
<1>1. Exact(ByteAtATime(BitwiseByte, portion, previous), portion, previous)
  BY ByteAtATimeIs, BitwiseSteps
<1>2. Exact(ByteAtATime(HalfByte, portion, previous), portion, previous)
  BY ByteAtATimeIs, HalfSteps
<1>3. Exact(ByteAtATime(TableByte, portion, previous), portion, previous)
  BY ByteAtATimeIs, TableSteps
<1>4. Exact(ByteAtATime(TablelessByte, portion, previous), portion, previous)
  BY ByteAtATimeIs, TablelessSteps
<1>5. Exact(ByteAtATime(Tableless2Byte, portion, previous), portion, previous)
  BY ByteAtATimeIs, Tableless2Steps
<1>. QED
  BY <1>1, <1>2, <1>3, <1>4, <1>5
     DEF crc32_bitwise, crc32_halfbyte, crc32_1byte, crc32_1byte_tableless, crc32_1byte_tableless2

\* Those that take blocks.
LEMMA BlockVariants ==
    ASSUME NEW portion \in Seq(Byte), NEW previous \in Word, NEW ahead \in Nat
    PROVE  /\ Exact(crc32_4bytes(portion, previous), portion, previous)
           /\ Exact(crc32_8bytes(portion, previous), portion, previous)
           /\ Exact(crc32_4x8bytes(portion, previous), portion, previous)
           /\ Exact(crc32_16bytes(portion, previous), portion, previous)
           /\ Exact(crc32_16bytes_prefetch(portion, previous, ahead), portion, previous)
<1>1. 4 \in 4..16 /\ 8 \in 4..16 /\ 16 \in 4..16 /\ 1 \in Nat \ {0} /\ 4 \in Nat \ {0} /\ 0 \in Nat
  OBVIOUS
<1>2. Exact(Sliced(4, 1, 0, portion, previous), portion, previous)
  BY <1>1, SlicedIs, Zenon
<1>3. Exact(Sliced(8, 1, 0, portion, previous), portion, previous)
  BY <1>1, SlicedIs, Zenon
<1>4. Exact(Sliced(8, 4, 0, portion, previous), portion, previous)
  BY <1>1, SlicedIs, Zenon
<1>5. Exact(Sliced(16, 4, 0, portion, previous), portion, previous)
  BY <1>1, SlicedIs, Zenon
<1>6. Exact(Sliced(16, 4, ahead, portion, previous), portion, previous)
  BY <1>1, SlicedIs, Zenon
<1>. QED
  BY <1>2, <1>3, <1>4, <1>5, <1>6
     DEF crc32_4bytes, crc32_8bytes, crc32_4x8bytes, crc32_16bytes, crc32_16bytes_prefetch

\* The variant the caller uses.
LEMMA VariantIs ==
    ASSUME algo \in CrcVariants, NEW portion \in Seq(Byte), crc \in Word
    PROVE  Exact(Crc(portion), portion, crc)
<1>1. /\ Exact(crc32_bitwise(portion, crc), portion, crc)
      /\ Exact(crc32_halfbyte(portion, crc), portion, crc)
      /\ Exact(crc32_1byte(portion, crc), portion, crc)
      /\ Exact(crc32_1byte_tableless(portion, crc), portion, crc)
      /\ Exact(crc32_1byte_tableless2(portion, crc), portion, crc)
  BY ByteVariants
<1>2. /\ Exact(crc32_4bytes(portion, crc), portion, crc)
      /\ Exact(crc32_8bytes(portion, crc), portion, crc)
      /\ Exact(crc32_4x8bytes(portion, crc), portion, crc)
      /\ Exact(crc32_16bytes(portion, crc), portion, crc)
      /\ Exact(crc32_16bytes_prefetch(portion, crc, Prefetch), portion, crc)
  BY PrefetchAssumption, BlockVariants
<1>3. Exact(crc32_fast(portion, crc), portion, crc)
  BY <1>2 DEF crc32_fast
<1>. QED
  BY <1>1, <1>2, <1>3 DEF Crc, CrcVariants

-----------------------------------------------------------------------------
\* What has been fed of the data is what the checksum is of.
Checked == algo \in CrcVariants => /\ data \in Seq(Byte) /\ pos \in 0..Len(data)
                                  /\ crc \in Word /\ crc = Result(SubSeq(data, 1, pos), {})

\* It is so of nothing.
LEMMA CheckedAtFirst == FeedInit => Checked
<1> SUFFICES ASSUME FeedInit, algo \in CrcVariants PROVE Checked
  BY DEF Checked
<1>1. data = SubSeq(Content, 1, CrcLen) /\ pos = 0 /\ crc = {}
  BY DEF FeedInit, CrcVariants
<1>2. data \in Seq(Byte)
  BY <1>1, ContentAssumption
<1>3. SubSeq(data, 1, 0) = <<>> /\ 0 \in 0..Len(data)
  BY <1>2
<1>. QED
  BY <1>1, <1>2, <1>3, ResultOfNone, EmptyIsByte DEF Checked

\* And each portion keeps it.
LEMMA CheckedOn == Checked /\ [FeedNext]_feedVars => Checked'
<1> SUFFICES ASSUME Checked, [FeedNext]_feedVars PROVE Checked'
  OBVIOUS
<1>1. CASE UNCHANGED feedVars
  BY <1>1 DEF feedVars, Checked
<1>2. ASSUME NEW n \in Portions, FeedCrc(n) PROVE Checked'
  <2>1. /\ algo \in CrcVariants
        /\ data \in Seq(Byte) /\ pos \in 0..Len(data) /\ crc \in Word /\ crc = Result(SubSeq(data, 1, pos), {})
        /\ n \in Nat /\ pos + n <= Len(data) /\ pos' = pos + n /\ data' = data
        /\ crc' = Crc(SubSeq(data, pos + 1, pos + n))
    BY <1>2, PortionsAssumption DEF FeedCrc, Checked
  <2>2. PICK s : s = SubSeq(data, 1, pos) /\ s \in Seq(Byte)
    <3>1. SubSeq(data, 1, pos) \in Seq(Byte)
      BY <2>1, SMTT(30)
    <3>. QED
      BY <3>1
  <2>3. PICK t : t = SubSeq(data, pos + 1, pos + n) /\ t \in Seq(Byte)
    <3>1. SubSeq(data, pos + 1, pos + n) \in Seq(Byte)
      BY <2>1, SMTT(30)
    <3>. QED
      BY <3>1
  <2>4. s \o t = SubSeq(data, 1, pos + n)
    BY <2>1, <2>2, <2>3, SMTT(60)
  <2>5. crc' = Result(t, crc)
    BY <2>1, <2>3, VariantIs DEF Exact
  <2>6. crc' = Result(s \o t, {})
    BY <2>1, <2>2, <2>3, <2>5, ResultAppend
  <2>7. s \o t \in Seq(Byte) /\ <<>> \in Seq(Byte) /\ (s \o t) \o <<>> = s \o t
    BY <2>2, <2>3, ConcatProperties
  <2>8. Result(s \o t, {}) \in Word
    BY <2>7, ResultAppend
  <2>9. pos' \in 0..Len(data')
    BY <2>1
  <2>. QED
    BY <2>1, <2>4, <2>6, <2>8, <2>9 DEF Checked
<1>3. ASSUME NEW n \in Portions, ReadPortion(n) PROVE Checked'
  <2>1. algo' \notin CrcVariants
    BY <1>3 DEF ReadPortion, CrcVariants
  <2>. QED
    BY <2>1 DEF Checked
<1>4. ASSUME NEW n \in Portions, WriteRecord(n) PROVE Checked'
  <2>1. algo' \notin CrcVariants
    BY <1>4 DEF WriteRecord, CrcVariants
  <2>. QED
    BY <2>1 DEF Checked
<1>. QED
  BY <1>1, <1>2, <1>3, <1>4 DEF FeedNext

\* Every variant, fed in portions of any length, gives the remainder of the
\* polynomial division, whatever the data, the portions and the prefetch distance.
THEOREM CrcIsExact == FeedSpec => []CrcExact
<1>1. Checked => CrcExact
  <2> SUFFICES ASSUME Checked, algo \in CrcVariants PROVE crc = Remainder(SubSeq(data, 1, pos))
    BY DEF CrcExact
  <2>1. PICK s : s = SubSeq(data, 1, pos) /\ crc = Result(s, {}) /\ s \in Seq(Byte)
    <3>1. data \in Seq(Byte) /\ pos \in 0..Len(data) /\ crc = Result(SubSeq(data, 1, pos), {})
      BY DEF Checked
    <3>2. SubSeq(data, 1, pos) \in Seq(Byte)
      BY <3>1, SMTT(30)
    <3>. QED
      BY <3>1, <3>2
  <2>2. Remainder(s) = Result(s, {})
    BY <2>1, RemainderIs DEF Exact
  <2>. QED
    BY <2>1, <2>2
<1>. QED
  BY <1>1, CheckedAtFirst, CheckedOn, PTL DEF FeedSpec

-----------------------------------------------------------------------------
(* Numbers as words: their bits, and their sums.                            *)

\* h[b] is n, halved b times.
IsHalved(h, n) ==
    /\ h \in [WordBits -> Nat] /\ h[0] = n
    /\ \A b \in 1..31 : h[b] = h[b - 1] \div 2

\* A number and its half.
LEMMA Half == ASSUME NEW a \in Nat
              PROVE  a \div 2 \in Nat /\ a % 2 \in 0..1 /\ a = 2 * (a \div 2) + (a % 2)
<1>1. PICK two \in Nat \ {0} : two = 2 /\ two - 1 = 1
  OBVIOUS
<1>2. a \div two \in Nat /\ a % two \in 0..(two - 1) /\ a = two * (a \div two) + (a % two)
  BY Division, Zenon
<1>. QED
  BY <1>1, <1>2

\* A number can be halved any number of times.
LEMMA Halved == ASSUME NEW n \in Nat
                PROVE  \A k \in Nat : \E h : h \in [0..k -> Nat] /\ h[0] = n /\ \A b \in 1..k : h[b] = h[b - 1] \div 2
<1> DEFINE S == {k \in Nat : \E h : h \in [0..k -> Nat] /\ h[0] = n /\ \A b \in 1..k : h[b] = h[b - 1] \div 2}
<1>1. 0 \in S
  <2>1. PICK h : h = [b \in 0..0 |-> n]
    OBVIOUS
  <2>2. h \in [0..0 -> Nat] /\ h[0] = n /\ \A b \in 1..0 : h[b] = h[b - 1] \div 2
    BY <2>1
  <2>. QED
    BY <2>2
<1>2. ASSUME NEW k \in Nat, k \in S PROVE k + 1 \in S
  <2>1. PICK h : h \in [0..k -> Nat] /\ h[0] = n /\ \A b \in 1..k : h[b] = h[b - 1] \div 2
    BY <1>2
  <2>2. PICK last \in Nat : last = h[k] \div 2
    BY <2>1, Half
  <2>3. PICK g : g = [b \in 0..(k + 1) |-> IF b = k + 1 THEN last ELSE h[b]]
    OBVIOUS
  <2>4. g \in [0..(k + 1) -> Nat] /\ g[0] = n
    BY <2>1, <2>2, <2>3
  <2>5. ASSUME NEW b \in 1..(k + 1) PROVE g[b] = g[b - 1] \div 2
    <3>1. CASE b = k + 1
      BY <2>2, <2>3, <3>1
    <3>2. CASE b # k + 1
      <4>1. b \in 1..k /\ g[b] = h[b] /\ g[b - 1] = h[b - 1]
        BY <2>3, <3>2
      <4>. QED
        BY <2>1, <4>1
    <3>. QED
      BY <3>1, <3>2
  <2>6. k + 1 \in Nat
    OBVIOUS
  <2>. QED
    BY <2>4, <2>5, <2>6, Zenon
<1>3. Nat \subseteq S
  BY <1>1, <1>2, Induct
<1>. QED
  BY <1>3

\* w is the numbers of the odd halves: the bits of the number.
BitsOf(w, h) == w = {b \in WordBits : h[b] % 2 = 1}

\* WordOf gives them.
LEMMA WordIs == ASSUME NEW n \in Nat
                PROVE  \E h : IsHalved(h, n) /\ BitsOf(WordOf(n), h)
<1> DEFINE Body(f) == [b \in WordBits |-> IF b = 0 THEN n ELSE f[b - 1] \div 2]
           H       == CHOOSE f : f = Body(f)
<1>1. WordOf(n) = {b \in WordBits : H[b] % 2 = 1}
  BY DEF WordOf
<1>2. PICK h : h \in [0..31 -> Nat] /\ h[0] = n /\ \A b \in 1..31 : h[b] = h[b - 1] \div 2
  <2>1. 31 \in Nat
    OBVIOUS
  <2>. QED
    BY <2>1, Halved, Zenon
<1>3. h = Body(h)
  BY <1>2 DEF WordBits
<1>4. H = Body(H)
  BY <1>3, Zenon
<1> HIDE DEF H
<1>5. H[0] = n /\ \A b \in 1..31 : H[b] = H[b - 1] \div 2
  BY <1>4 DEF WordBits
<1>6. \A k \in Nat : k <= 31 => H[k] \in Nat
  <2> DEFINE S == {k \in Nat : k <= 31 => H[k] \in Nat}
  <2>1. 0 \in S
    BY <1>5
  <2>2. ASSUME NEW k \in Nat, k \in S PROVE k + 1 \in S
    <3>1. SUFFICES ASSUME k + 1 <= 31 PROVE H[k + 1] \in Nat
      OBVIOUS
    <3>2. k + 1 \in 1..31 /\ (k + 1) - 1 = k /\ H[k] \in Nat
      BY <2>2, <3>1
    <3>3. H[k + 1] = H[k] \div 2
      BY <1>5, <3>2
    <3>. QED
      BY <3>2, <3>3, Half
  <2>3. Nat \subseteq S
    BY <2>1, <2>2, Induct
  <2>. QED
    BY <2>3
<1>7. H \in [WordBits -> Nat]
  BY <1>4, <1>6 DEF WordBits
<1>8. IsHalved(H, n)
  BY <1>5, <1>7 DEF IsHalved
<1>. QED
  BY <1>1, <1>8 DEF BitsOf

\* They are a word.
LEMMA WordOfIsWord == ASSUME NEW n \in Nat PROVE WordOf(n) \in Word
  BY WordIs DEF BitsOf, Word

\* A half and the next one differ by the bit.
LEMMA HalfStep == ASSUME NEW n, NEW h, IsHalved(h, n), NEW b \in 1..31
                  PROVE  /\ h[b] \in Nat /\ h[b - 1] \in Nat /\ h[b - 1] % 2 \in 0..1
                         /\ h[b - 1] = 2 * h[b] + (h[b - 1] % 2)
<1>1. h[b] \in Nat /\ h[b - 1] \in Nat /\ h[b] = h[b - 1] \div 2
  BY DEF IsHalved, WordBits
<1>. QED
  BY <1>1, Half

\* Twice a number: its bits move up by one.
LEMMA Doubled == ASSUME NEW n \in Nat PROVE Shl(WordOf(n), 1) = WordOf(2 * n)
<1>1. PICK h : IsHalved(h, n) /\ BitsOf(WordOf(n), h)
  BY WordIs
<1>2. PICK g : IsHalved(g, 2 * n) /\ BitsOf(WordOf(2 * n), g)
  BY WordIs
<1>3. \A k \in Nat : k <= 30 => g[k + 1] = h[k]
  <2> DEFINE S == {k \in Nat : k <= 30 => g[k + 1] = h[k]}
  <2>1. 0 \in S
    <3>1. 1 \in 1..31 /\ 1 - 1 = 0 /\ g[0] = 2 * n /\ h[0] = n
      BY <1>1, <1>2 DEF IsHalved
    <3>2. g[0] = 2 * g[1] + (g[0] % 2) /\ g[0] % 2 \in 0..1 /\ g[1] \in Nat
      BY <1>2, <3>1, HalfStep
    <3>4. PICK u \in Nat : u = g[1]
      BY <3>2
    <3>5. PICK e \in 0..1 : e = g[0] % 2
      BY <3>2
    <3>6. 2 * n = 2 * u + e
      BY <3>1, <3>2, <3>4, <3>5
    <3>7. u = n
      BY <3>6
    <3>8. 0 + 1 = 1 /\ 0 <= 30
      OBVIOUS
    <3>9. g[0 + 1] = h[0]
      BY <3>1, <3>4, <3>7, <3>8, Zenon
    <3>. QED
      BY <3>9
  <2>2. ASSUME NEW k \in Nat, k \in S PROVE k + 1 \in S
    <3>1. SUFFICES ASSUME k + 1 <= 30 PROVE g[(k + 1) + 1] = h[k + 1]
      OBVIOUS
    <3>2. PICK m : m = k + 1 /\ m \in 1..31 /\ m + 1 \in 1..31 /\ (m + 1) - 1 = m /\ m - 1 = k
      BY <3>1
    <3>3. g[m + 1] = g[m] \div 2 /\ h[m] = h[m - 1] \div 2
      BY <1>1, <1>2, <3>2 DEF IsHalved
    <3>. QED
      BY <2>2, <3>1, <3>2, <3>3
  <2>3. Nat \subseteq S
    BY <2>1, <2>2, Induct
  <2>. QED
    BY <2>3
<1>4. PICK x \in Word : x = WordOf(n)
  BY WordOfIsWord
<1>5. PICK y \in Word : y = WordOf(2 * n)
  BY WordOfIsWord
<1>6. PICK s : s = Shl(x, 1) /\ s \in Word /\ \A b \in WordBits : b \in s <=> b - 1 \in x
  BY ShlIn
<1>7. ASSUME NEW b \in WordBits PROVE b \in s <=> b \in y
  <2>1. b \in y <=> g[b] % 2 = 1
    BY <1>2, <1>5 DEF BitsOf
  <2>2. CASE b = 0
    <3>1. g[0] = 2 * n
      BY <1>2 DEF IsHalved
    <3>2. 0 - 1 \notin x
      BY DEF Word, WordBits
    <3>. QED
      BY <1>6, <2>1, <2>2, <3>1, <3>2
  <2>3. CASE b # 0
    <3>1. PICK k \in WordBits : k = b - 1 /\ k <= 30 /\ k \in Nat /\ k + 1 = b
      BY <2>3 DEF WordBits
    <3>2. g[b] = h[k]
      BY <1>3, <3>1
    <3>3. k \in x <=> h[k] % 2 = 1
      BY <1>1, <1>4 DEF BitsOf
    <3>. QED
      BY <1>6, <2>1, <3>1, <3>2, <3>3
  <2>. QED
    BY <2>2, <2>3
<1>8. s = y
  BY <1>6, <1>7, SameWord
<1>. QED
  BY <1>4, <1>5, <1>6, <1>8

\* A carry enters bit b.
Carries(x, y, b) == \E j \in x \cap y : j < b /\ \A i \in (j + 1)..(b - 1) : i \in x \cup y

\* Nothing is carried into bit 0.
LEMMA NoCarry == ASSUME NEW x \in Word, NEW y \in Word PROVE ~Carries(x, y, 0)
  BY DEF Carries, Word, WordBits

\* Two of three bits carry.
LEMMA CarryOn == ASSUME NEW x \in Word, NEW y \in Word, NEW b \in Nat
                 PROVE  Carries(x, y, b + 1) <=>
                            (b \in x /\ b \in y) \/ ((b \in x \/ b \in y) /\ Carries(x, y, b))
<1>1. \A j \in x \cap y : j \in Nat
  BY DEF Word, WordBits
<1>2. ASSUME Carries(x, y, b + 1)
      PROVE  \/ b \in x /\ b \in y
             \/ (b \in x \/ b \in y) /\ Carries(x, y, b)
  <2>1. PICK j \in x \cap y : j < b + 1 /\ \A i \in (j + 1)..((b + 1) - 1) : i \in x \cup y
    BY <1>2 DEF Carries
  <2>2. CASE j = b
    BY <2>2
  <2>3. CASE j # b
    <3>1. j < b /\ b \in (j + 1)..((b + 1) - 1) /\ \A i \in (j + 1)..(b - 1) : i \in (j + 1)..((b + 1) - 1)
      BY <1>1, <2>1, <2>3
    <3>2. Carries(x, y, b)
      BY <2>1, <3>1 DEF Carries
    <3>. QED
      BY <2>1, <3>1, <3>2
  <2>. QED
    BY <2>2, <2>3
<1>3. ASSUME b \in x, b \in y PROVE Carries(x, y, b + 1)
  <2>1. b < b + 1 /\ \A i \in (b + 1)..((b + 1) - 1) : i \in x \cup y
    OBVIOUS
  <2>. QED
    BY <1>3, <2>1 DEF Carries
<1>4. ASSUME b \in x \/ b \in y, Carries(x, y, b) PROVE Carries(x, y, b + 1)
  <2>1. PICK j \in x \cap y : j < b /\ \A i \in (j + 1)..(b - 1) : i \in x \cup y
    BY <1>4 DEF Carries
  <2>2. j < b + 1
    BY <1>1, <2>1
  <2>3. ASSUME NEW i \in (j + 1)..((b + 1) - 1) PROVE i \in x \cup y
    <3>1. i = b \/ i \in (j + 1)..(b - 1)
      BY <1>1
    <3>. QED
      BY <1>4, <2>1, <3>1
  <2>. QED
    BY <2>2, <2>3 DEF Carries
<1>. QED
  BY <1>2, <1>3, <1>4, Zenon

\* A bit as a number.
One(p) == IF p THEN 1 ELSE 0

\* Plus adds.
LEMMA Added == ASSUME NEW m \in Nat, NEW n \in Nat PROVE Plus(WordOf(m), WordOf(n)) = WordOf(m + n)
<1>1. PICK f : IsHalved(f, m) /\ BitsOf(WordOf(m), f)
  BY WordIs
<1>2. PICK g : IsHalved(g, n) /\ BitsOf(WordOf(n), g)
  BY WordIs
<1>3. PICK h : IsHalved(h, m + n) /\ BitsOf(WordOf(m + n), h)
  BY WordIs
<1>4. PICK x \in Word : x = WordOf(m)
  BY WordOfIsWord
<1>5. PICK y \in Word : y = WordOf(n)
  BY WordOfIsWord
<1>6. PICK z \in Word : z = WordOf(m + n)
  BY WordOfIsWord
<1>7. \A b \in WordBits : (b \in x <=> f[b] % 2 = 1) /\ (b \in y <=> g[b] % 2 = 1) /\ (b \in z <=> h[b] % 2 = 1)
  BY <1>1, <1>2, <1>3, <1>4, <1>5, <1>6 DEF BitsOf
<1> DEFINE c(b) == One(Carries(x, y, b))
<1>8. \A b \in Nat : b <= 31 => h[b] = f[b] + g[b] + c(b)
  <2> DEFINE S == {b \in Nat : b <= 31 => h[b] = f[b] + g[b] + c(b)}
  <2>1. 0 \in S
    <3>1. c(0) = 0
      BY NoCarry DEF One
    <3>2. h[0] = m + n /\ f[0] = m /\ g[0] = n
      BY <1>1, <1>2, <1>3 DEF IsHalved
    <3>. QED
      BY <3>1, <3>2
  <2>2. ASSUME NEW b \in Nat, b \in S PROVE b + 1 \in S
    <3>1. SUFFICES ASSUME b + 1 <= 31 PROVE h[b + 1] = f[b + 1] + g[b + 1] + c(b + 1)
      OBVIOUS
    <3>2. PICK k : k = b + 1 /\ k \in 1..31 /\ k - 1 = b /\ b \in WordBits
      BY <3>1 DEF WordBits
    <3>3. f[k] \in Nat /\ f[b] \in Nat /\ f[b] % 2 \in 0..1 /\ f[b] = 2 * f[k] + (f[b] % 2)
      BY <1>1, <3>2, HalfStep
    <3>4. g[k] \in Nat /\ g[b] \in Nat /\ g[b] % 2 \in 0..1 /\ g[b] = 2 * g[k] + (g[b] % 2)
      BY <1>2, <3>2, HalfStep
    <3>5. h[k] \in Nat /\ h[b] \in Nat /\ h[b] % 2 \in 0..1 /\ h[b] = 2 * h[k] + (h[b] % 2)
      BY <1>3, <3>2, HalfStep
    <3>6. PICK u \in 0..1 : u = f[b] % 2 /\ (u = 1 <=> b \in x)
      BY <1>7, <3>2, <3>3
    <3>7. PICK v \in 0..1 : v = g[b] % 2 /\ (v = 1 <=> b \in y)
      BY <1>7, <3>2, <3>4
    <3>8. PICK w \in 0..1 : w = c(b) /\ (w = 1 <=> Carries(x, y, b))
      BY DEF One
    <3>9. PICK carry \in 0..1 : carry = c(k) /\ (carry = 1 <=> u + v + w >= 2)
      <4>1. Carries(x, y, k) <=> u + v + w >= 2
        <5>1. Carries(x, y, b + 1) <=>
                  (b \in x /\ b \in y) \/ ((b \in x \/ b \in y) /\ Carries(x, y, b))
          BY CarryOn, Zenon
        <5>2. Carries(x, y, k) <=> (u = 1 /\ v = 1) \/ ((u = 1 \/ v = 1) /\ w = 1)
          BY <3>2, <3>6, <3>7, <3>8, <5>1, Zenon
        <5>. QED
          BY <5>2
      <4>. QED
        BY <4>1 DEF One
    <3>10. h[b] = f[b] + g[b] + w
      BY <2>2, <3>1, <3>8
    <3>11. PICK a1 \in Nat : a1 = f[k]
      BY <3>3
    <3>12. PICK a2 \in Nat : a2 = g[k]
      BY <3>4
    <3>13. PICK a3 \in Nat, e \in 0..1 : a3 = h[k] /\ e = h[b] % 2
      BY <3>5
    <3>14. 2 * a3 + e = (2 * a1 + u) + (2 * a2 + v) + w
      BY <3>3, <3>4, <3>5, <3>6, <3>7, <3>10, <3>11, <3>12, <3>13
    <3>15. a3 = a1 + a2 + carry
      BY <3>9, <3>14
    <3>. QED
      BY <3>2, <3>9, <3>11, <3>12, <3>13, <3>15
  <2>3. Nat \subseteq S
    BY <2>1, <2>2, Induct
  <2>. QED
    BY <2>3
<1>9. PICK carries : carries = {b \in WordBits : Carries(x, y, b)} /\ carries \in Word
  BY DEF Word
<1>10. PICK s : s = (x (+) y) (+) carries /\ s \in Word
  <2>1. PICK xy \in Word : xy = x (+) y
    BY XorLaws
  <2>2. xy (+) carries \in Word
    BY <1>9, XorLaws
  <2>. QED
    BY <2>1, <2>2
<1>11. ASSUME NEW b \in WordBits PROVE b \in s <=> b \in z
  <2>1. h[b] = f[b] + g[b] + c(b)
    BY <1>8 DEF WordBits
  <2>2. b \in s <=> ~(~(b \in x <=> b \in y) <=> Carries(x, y, b))
    <3>1. PICK t : t = x (+) y /\ (b \in t <=> ~(b \in x <=> b \in y))
      BY XorIn
    <3>2. b \in s <=> ~(b \in t <=> b \in carries)
      BY <1>10, <3>1, XorIn
    <3>. QED
      BY <1>9, <3>1, <3>2, Zenon
  <2>3. f[b] \in Nat /\ g[b] \in Nat /\ h[b] \in Nat
    BY <1>1, <1>2, <1>3 DEF IsHalved
  <2>4. PICK u \in 0..1, a1 \in Nat : f[b] = 2 * a1 + u /\ (u = 1 <=> b \in x)
    BY <1>7, <2>3, Half
  <2>5. PICK v \in 0..1, a2 \in Nat : g[b] = 2 * a2 + v /\ (v = 1 <=> b \in y)
    BY <1>7, <2>3, Half
  <2>6. PICK e \in 0..1, a3 \in Nat : h[b] = 2 * a3 + e /\ (e = 1 <=> b \in z)
    BY <1>7, <2>3, Half
  <2>7. PICK w \in 0..1 : w = c(b) /\ (w = 1 <=> Carries(x, y, b))
    BY DEF One
  <2>8. 2 * a3 + e = (2 * a1 + u) + (2 * a2 + v) + w
    BY <2>1, <2>4, <2>5, <2>6, <2>7
  <2>9. e = 1 <=> (u + v + w = 1 \/ u + v + w = 3)
    BY <2>8
  <2>10. b \in s <=> ~(~(u = 1 <=> v = 1) <=> w = 1)
    BY <2>2, <2>4, <2>5, <2>7, Zenon
  <2>11. e = 1 <=> ~(~(u = 1 <=> v = 1) <=> w = 1)
    BY <2>9
  <2>. QED
    BY <2>6, <2>10, <2>11, Zenon
<1>12. s = z
  BY <1>10, <1>11, SameWord
<1>. QED
  BY <1>4, <1>5, <1>6, <1>9, <1>10, <1>12 DEF Plus, Carries

\* Eight halvings divide by 256.
LEMMA Eighth == ASSUME NEW n \in Nat, NEW h, IsHalved(h, n), NEW b \in 0..23
                PROVE  h[b] \in Nat /\ h[b + 8] \in Nat /\ h[b] >= 256 * h[b + 8]
<1>1. \A k \in 1..8 : b + k \in 1..31 /\ (b + k) - 1 = b + (k - 1)
  OBVIOUS
<1>2. \A k \in 0..8 : h[b + k] \in Nat
  BY DEF IsHalved, WordBits
<1>3. ASSUME NEW k \in 1..8 PROVE h[b + (k - 1)] >= 2 * h[b + k]
  <2>1. PICK i : i = b + k /\ i \in 1..31 /\ i - 1 = b + (k - 1)
    BY <1>1
  <2>2. h[i] \in Nat /\ h[i - 1] \in Nat /\ h[i - 1] % 2 \in 0..1 /\ h[i - 1] = 2 * h[i] + (h[i - 1] % 2)
    BY <2>1, HalfStep
  <2>. QED
    BY <2>1, <2>2
<1>4. h[b + 0] >= 2 * h[b + 1] /\ h[b + 1] >= 2 * h[b + 2] /\ h[b + 2] >= 2 * h[b + 3] /\ h[b + 3] >= 2 * h[b + 4]
  <2>1. 1 - 1 = 0 /\ 2 - 1 = 1 /\ 3 - 1 = 2 /\ 4 - 1 = 3 /\ 1 \in 1..8 /\ 2 \in 1..8 /\ 3 \in 1..8 /\ 4 \in 1..8
    OBVIOUS
  <2>. QED
    BY <1>3, <2>1
<1>5. h[b + 4] >= 2 * h[b + 5] /\ h[b + 5] >= 2 * h[b + 6] /\ h[b + 6] >= 2 * h[b + 7] /\ h[b + 7] >= 2 * h[b + 8]
  <2>1. 5 - 1 = 4 /\ 6 - 1 = 5 /\ 7 - 1 = 6 /\ 8 - 1 = 7 /\ 5 \in 1..8 /\ 6 \in 1..8 /\ 7 \in 1..8 /\ 8 \in 1..8
    OBVIOUS
  <2>. QED
    BY <1>3, <2>1
<1>6. h[b + 0] >= 16 * h[b + 4]
  BY <1>2, <1>4
<1>7. h[b + 4] >= 16 * h[b + 8]
  BY <1>2, <1>5
<1>8. b + 0 = b /\ h[b + 0] \in Nat /\ h[b + 4] \in Nat /\ h[b + 8] \in Nat
  BY <1>2
<1>. QED
  BY <1>6, <1>7, <1>8

\* 2^24, more than any info file that is read.
Limit == 256 * 256 * 256

\* 24 halvings leave nothing of a number below it.
LEMMA Exhausted == ASSUME NEW n \in Nat, n < Limit, NEW h, IsHalved(h, n)
                   PROVE  h[24] = 0
<1>1. h[0] \in Nat /\ h[0 + 8] \in Nat /\ h[0] >= 256 * h[0 + 8]
  <2>1. 0 \in 0..23
    OBVIOUS
  <2>. QED
    BY <2>1, Eighth
<1>2. h[8] \in Nat /\ h[8 + 8] \in Nat /\ h[8] >= 256 * h[8 + 8]
  <2>1. 8 \in 0..23
    OBVIOUS
  <2>. QED
    BY <2>1, Eighth
<1>3. h[16] \in Nat /\ h[16 + 8] \in Nat /\ h[16] >= 256 * h[16 + 8]
  <2>1. 16 \in 0..23
    OBVIOUS
  <2>. QED
    BY <2>1, Eighth
<1>4. 0 + 8 = 8 /\ 8 + 8 = 16 /\ 16 + 8 = 24 /\ h[0] = n
  BY DEF IsHalved
<1>5. PICK a \in Nat, b \in Nat, d \in Nat : a = h[8] /\ b = h[16] /\ d = h[24]
  BY <1>2, <1>3, <1>4
<1>6. n >= 256 * a /\ a >= 256 * b /\ b >= 256 * d
  BY <1>1, <1>2, <1>3, <1>4, <1>5
<1>7. d = 0
  BY <1>6, SMT DEF Limit
<1>. QED
  BY <1>5, <1>7

\* So two such numbers have different words (the comparison of the lengths in
\* deserialize_data).
LEMMA Distinct ==
    ASSUME NEW m \in Nat, NEW n \in Nat, m < Limit, n < Limit, WordOf(m) = WordOf(n)
    PROVE  m = n
<1>1. PICK f : IsHalved(f, m) /\ BitsOf(WordOf(m), f)
  BY WordIs
<1>2. PICK g : IsHalved(g, n) /\ BitsOf(WordOf(n), g)
  BY WordIs
<1>3. \A b \in WordBits : f[b] % 2 = 1 <=> g[b] % 2 = 1
  BY <1>1, <1>2 DEF BitsOf
<1>4. \A k \in Nat : k <= 24 => f[24 - k] = g[24 - k]
  <2> DEFINE S == {k \in Nat : k <= 24 => f[24 - k] = g[24 - k]}
  <2>1. 0 \in S
    <3>1. f[24] = 0 /\ g[24] = 0 /\ 24 - 0 = 24
      BY <1>1, <1>2, Exhausted
    <3>2. f[24 - 0] = g[24 - 0]
      BY <3>1
    <3>. QED
      BY <3>2
  <2>2. ASSUME NEW k \in Nat, k \in S PROVE k + 1 \in S
    <3>1. SUFFICES ASSUME k + 1 <= 24 PROVE f[24 - (k + 1)] = g[24 - (k + 1)]
      OBVIOUS
    <3>2. PICK b : b = 24 - k /\ b \in 1..31 /\ b - 1 = 24 - (k + 1) /\ b - 1 \in WordBits
      BY <3>1 DEF WordBits
    <3>3. f[b] \in Nat /\ f[b - 1] \in Nat /\ f[b - 1] % 2 \in 0..1 /\ f[b - 1] = 2 * f[b] + (f[b - 1] % 2)
      BY <1>1, <3>2, HalfStep
    <3>4. g[b] \in Nat /\ g[b - 1] \in Nat /\ g[b - 1] % 2 \in 0..1 /\ g[b - 1] = 2 * g[b] + (g[b - 1] % 2)
      BY <1>2, <3>2, HalfStep
    <3>5. f[b] = g[b]
      BY <2>2, <3>1, <3>2
    <3>6. f[b - 1] % 2 = g[b - 1] % 2
      BY <1>3, <3>2, <3>3, <3>4
    <3>7. f[b - 1] = g[b - 1]
      BY <3>3, <3>4, <3>5, <3>6
    <3>. QED
      BY <3>2, <3>7
  <2>3. Nat \subseteq S
    BY <2>1, <2>2, Induct
  <2>. QED
    BY <2>3
<1>5. f[24 - 24] = g[24 - 24]
  BY <1>4
<1>6. f[0] = g[0]
  BY <1>5
<1>. QED
  BY <1>1, <1>2, <1>6 DEF IsHalved

\* A shift by one more.
LEMMA ShlOnce == ASSUME NEW x \in Word, NEW k \in Nat PROVE Shl(Shl(x, k), 1) = Shl(x, k + 1)
<1>1. PICK p : p = Shl(x, k) /\ p \in Word /\ \A b \in WordBits : b \in p <=> b - k \in x
  BY ShlIn
<1>2. PICK q : q = Shl(p, 1) /\ q \in Word /\ \A b \in WordBits : b \in q <=> b - 1 \in p
  BY <1>1, ShlIn
<1>3. PICK r : r = Shl(x, k + 1) /\ r \in Word /\ \A b \in WordBits : b \in r <=> b - (k + 1) \in x
  BY ShlIn
<1>4. ASSUME NEW b \in WordBits PROVE b \in q <=> b \in r
  <2>1. CASE b = 0
    <3>1. 0 - 1 \notin p /\ 0 - (k + 1) \notin x
      BY <1>1 DEF Word, WordBits
    <3>. QED
      BY <1>2, <1>3, <2>1, <3>1
  <2>2. CASE b # 0
    <3>1. b - 1 \in WordBits /\ (b - 1) - k = b - (k + 1)
      BY <2>2 DEF WordBits
    <3>2. b - 1 \in p <=> (b - 1) - k \in x
      BY <1>1, <3>1
    <3>. QED
      BY <1>2, <1>3, <3>1, <3>2
  <2>. QED
    BY <2>1, <2>2
<1>5. q = r
  BY <1>2, <1>3, <1>4, SameWord
<1>. QED
  BY <1>1, <1>2, <1>3, <1>5

\* The length of a record of m pieces.
LEMMA Length == ASSUME NEW m \in Nat PROVE CalLen(WordOf(m)) = WordOf(12 + 28 * m)
<1>1. PICK x \in Word : x = WordOf(m)
  BY WordOfIsWord
<1>2. PICK m2 \in Nat, m4 \in Nat, m8 \in Nat : m2 = 2 * m /\ m4 = 2 * m2 /\ m8 = 2 * m4
  OBVIOUS
<1>3. PICK m16 \in Nat : m16 = 2 * m8
  OBVIOUS
<1>4. Shl(x, 1) = WordOf(m2)
  BY <1>1, <1>2, Doubled
<1>5. Shl(x, 2) = WordOf(m4)
  <2>1. Shl(Shl(x, 1), 1) = Shl(x, 1 + 1)
    BY ShlOnce
  <2>2. Shl(WordOf(m2), 1) = WordOf(m4)
    BY <1>2, Doubled
  <2>. QED
    BY <1>4, <2>1, <2>2
<1>6. Shl(x, 3) = WordOf(m8)
  <2>1. Shl(Shl(x, 2), 1) = Shl(x, 2 + 1)
    BY ShlOnce
  <2>2. Shl(WordOf(m4), 1) = WordOf(m8)
    BY <1>2, Doubled
  <2>. QED
    BY <1>5, <2>1, <2>2
<1>7. Shl(x, 4) = WordOf(m16)
  <2>1. Shl(Shl(x, 3), 1) = Shl(x, 3 + 1)
    BY ShlOnce
  <2>2. Shl(WordOf(m8), 1) = WordOf(m16)
    BY <1>3, Doubled
  <2>. QED
    BY <1>6, <2>1, <2>2
<1>8. PICK a \in Nat, b \in Nat, d \in Nat : a = m8 + m4 /\ b = m16 + a /\ d = 12 + b
  OBVIOUS
<1>9. Plus(WordOf(m8), WordOf(m4)) = WordOf(a)
  BY <1>8, Added
<1>10. Plus(WordOf(m16), WordOf(a)) = WordOf(b)
  BY <1>8, Added
<1>11. Plus(WordOf(12), WordOf(b)) = WordOf(d)
  BY <1>8, Added
<1>12. d = 12 + 28 * m
  BY <1>2, <1>3, <1>8
<1>. QED
  BY <1>1, <1>5, <1>6, <1>7, <1>9, <1>10, <1>11, <1>12 DEF CalLen

-----------------------------------------------------------------------------
(* Numbers in strings of bytes.                                             *)

\* The n bytes after the first at are those of the number v.
Reads(bytes, at, n, v) == \A i \in 1..n : bytes[at + i] = {b \in ByteBits : 8 * (i - 1) + b \in v}

\* What PUT_LE_32 and PUT_LE_64 write.
LEMMA PutIs == ASSUME NEW n \in Nat, NEW v
               PROVE  PutLE(n, v) \in Seq(Byte) /\ Len(PutLE(n, v)) = n /\ Reads(PutLE(n, v), 0, n, v)
<1>1. PutLE(n, v) = [i \in 1..n |-> {b \in ByteBits : 8 * (i - 1) + b \in v}]
  BY DEF PutLE
<1>2. PutLE(n, v) \in Seq(Byte) /\ Len(PutLE(n, v)) = n
  <2>1. \A i \in 1..n : {b \in ByteBits : 8 * (i - 1) + b \in v} \in Byte
    BY DEF Byte
  <2>2. PICK s : s = PutLE(n, v) /\ s \in [1..n -> Byte]
    BY <1>1, <2>1
  <2>3. s \in Seq(Byte) /\ Len(s) = n
    BY <2>2
  <2>. QED
    BY <2>2, <2>3
<1>3. \A i \in 1..n : PutLE(n, v)[0 + i] = {b \in ByteBits : 8 * (i - 1) + b \in v}
  BY <1>1
<1>. QED
  BY <1>2, <1>3 DEF Reads

\* Reading gives the number back.
FieldOf(bytes, at, n) == GetLE(SubSeq(bytes, at + 1, at + n))

\* A number of no more bits than fit is read as it was written.
LEMMA FieldIs == ASSUME NEW bytes \in Seq(Byte), NEW at \in Nat, NEW n \in Nat, at + n <= Len(bytes),
                        NEW v \in SUBSET (0..(8 * n - 1)), Reads(bytes, at, n, v)
                 PROVE  FieldOf(bytes, at, n) = v
<1>1. PICK s : s = SubSeq(bytes, at + 1, at + n)
  OBVIOUS
<1>2. DOMAIN s = 1..n /\ \A i \in 1..n : s[i] = bytes[at + i]
  <2>1. s = [i \in 1..n |-> bytes[at + i]]
    BY <1>1
  <2>. QED
    BY <2>1
<1>3. ASSUME NEW i \in 1..n, NEW b \in s[i] PROVE 8 * (i - 1) + b \in v
  BY <1>2 DEF Reads
<1>4. ASSUME NEW x \in v PROVE \E i \in 1..n : x \in {8 * (i - 1) + b : b \in s[i]}
  <2>1. x \in Nat /\ x < 8 * n
    OBVIOUS
  <2>2. PICK q \in Nat, e \in 0..7 : x = 8 * q + e
    <3>1. PICK eight \in Nat \ {0} : eight = 8 /\ eight - 1 = 7
      OBVIOUS
    <3>2. x \div eight \in Nat /\ x % eight \in 0..(eight - 1) /\ x = eight * (x \div eight) + (x % eight)
      BY <2>1, Division, Zenon
    <3>. QED
      BY <3>1, <3>2
  <2>3. q + 1 \in 1..n /\ (q + 1) - 1 = q
    BY <2>1, <2>2
  <2>4. PICK i \in 1..n : i = q + 1 /\ x = 8 * (i - 1) + e
    BY <2>2, <2>3
  <2>5. e \in s[i]
    BY <1>2, <2>4 DEF Reads, ByteBits
  <2>. QED
    BY <2>4, <2>5
<1>5. GetLE(s) = UNION {{8 * (i - 1) + b : b \in s[i]} : i \in 1..n}
  BY <1>2 DEF GetLE
<1>6. GetLE(s) = v
  <2>1. ASSUME NEW x \in GetLE(s) PROVE x \in v
    <3>1. PICK i \in 1..n : x \in {8 * (i - 1) + b : b \in s[i]}
      BY <1>5, <2>1
    <3>2. PICK b \in s[i] : x = 8 * (i - 1) + b
      BY <3>1
    <3>. QED
      BY <1>3, <3>2
  <2>2. ASSUME NEW x \in v PROVE x \in GetLE(s)
    <3>1. PICK i \in 1..n : x \in {8 * (i - 1) + b : b \in s[i]}
      BY <1>4
    <3>2. x \in UNION {{8 * (j - 1) + b : b \in s[j]} : j \in 1..n}
      BY <3>1, Zenon
    <3>. QED
      BY <1>5, <3>2
  <2>. QED
    BY <2>1, <2>2
<1>. QED
  BY <1>1, <1>6 DEF FieldOf

\* s is n bytes.
Bytes(s, n) == s \in Seq(Byte) /\ Len(s) = n

\* The length of two strings of bytes in a row.
LEMMA Joined == ASSUME NEW m \in Nat, NEW n \in Nat, NEW s, NEW t, Bytes(s, m), Bytes(t, n), NEW all, all = m + n
                PROVE  Bytes(s \o t, all)
  BY ConcatProperties DEF Bytes

\* What the first of them says stays where it was,
LEMMA ReadsFirst == ASSUME NEW m \in Nat, NEW l \in Nat, NEW s, NEW t, Bytes(s, m), Bytes(t, l),
                           NEW at \in Nat, NEW n \in Nat, at + n <= m, NEW v, Reads(s, at, n, v)
                    PROVE  Reads(s \o t, at, n, v)
<1> SUFFICES ASSUME NEW i \in 1..n PROVE (s \o t)[at + i] = {b \in ByteBits : 8 * (i - 1) + b \in v}
  BY DEF Reads
<1>1. s \in Seq(Byte) /\ t \in Seq(Byte) /\ Len(s) = m /\ Len(t) = l
  BY DEF Bytes
<1>2. PICK k : k = at + i /\ k \in 1..(Len(s) + Len(t)) /\ k <= Len(s)
  BY <1>1
<1>3. (s \o t)[k] = s[k]
  BY <1>1, <1>2, ConcatProperties
<1>. QED
  BY <1>2, <1>3 DEF Reads

\* what the second says moves up by the length of the first.
LEMMA ReadsSecond == ASSUME NEW m \in Nat, NEW l \in Nat, NEW s, NEW t, Bytes(s, m), Bytes(t, l),
                            NEW at \in Nat, NEW n \in Nat, at + n <= l, NEW v, Reads(t, at, n, v),
                            NEW from, from = m + at
                     PROVE  Reads(s \o t, from, n, v)
<1> SUFFICES ASSUME NEW i \in 1..n
             PROVE  (s \o t)[from + i] = {b \in ByteBits : 8 * (i - 1) + b \in v}
  BY DEF Reads
<1>1. s \in Seq(Byte) /\ t \in Seq(Byte) /\ Len(s) = m /\ Len(t) = l
  BY DEF Bytes
<1>2. PICK k : k = from + i /\ k \in 1..(Len(s) + Len(t)) /\ ~(k <= Len(s)) /\ k - Len(s) = at + i
  BY <1>1
<1>3. (s \o t)[k] = t[k - Len(s)]
  BY <1>1, <1>2, ConcatProperties
<1>. QED
  BY <1>2, <1>3 DEF Reads

-----------------------------------------------------------------------------
\* The 28 bytes of a piece.
PieceBytes(p) == PutLE(4, p.sid) \o PutLE(8, p.begin_pos)
                   \o PutLE(8, p.lenth) \o PutLE(8, p.lenth_left)

\* The 28 bytes after the first at are those of p.
PieceAt(bytes, at, p) ==
    /\ Reads(bytes, at, 4, p.sid) /\ Reads(bytes, at + 4, 8, p.begin_pos)
    /\ Reads(bytes, at + 12, 8, p.lenth) /\ Reads(bytes, at + 20, 8, p.lenth_left)

\* So they are where it was written.
LEMMA PieceIs == ASSUME NEW p
                 PROVE  Bytes(PieceBytes(p), 28) /\ PieceAt(PieceBytes(p), 0, p)
<1>1. PICK a : a = PutLE(4, p.sid) /\ Bytes(a, 4) /\ Reads(a, 0, 4, p.sid)
  BY PutIs DEF Bytes
<1>2. PICK b : b = PutLE(8, p.begin_pos) /\ Bytes(b, 8) /\ Reads(b, 0, 8, p.begin_pos)
  BY PutIs DEF Bytes
<1>3. PICK c : c = PutLE(8, p.lenth) /\ Bytes(c, 8) /\ Reads(c, 0, 8, p.lenth)
  BY PutIs DEF Bytes
<1>4. PICK d : d = PutLE(8, p.lenth_left) /\ Bytes(d, 8) /\ Reads(d, 0, 8, p.lenth_left)
  BY PutIs DEF Bytes
<1>5. /\ 0 \in Nat /\ 4 \in Nat /\ 8 \in Nat /\ 12 \in Nat /\ 20 \in Nat /\ 28 \in Nat
      /\ 12 = 4 + 8 /\ 20 = 12 + 8 /\ 28 = 20 + 8 /\ 0 + 4 <= 4 /\ 0 + 4 <= 12 /\ 0 + 4 <= 20 /\ 0 + 8 <= 8
      /\ 4 + 8 <= 12 /\ 4 + 8 <= 20 /\ 12 + 8 <= 20 /\ 4 = 4 + 0 /\ 12 = 12 + 0 /\ 20 = 20 + 0
  OBVIOUS
<1>6. PICK ab : ab = a \o b /\ Bytes(ab, 12) /\ Reads(ab, 0, 4, p.sid) /\ Reads(ab, 4, 8, p.begin_pos)
  <2>1. Bytes(a \o b, 12)
    BY <1>1, <1>2, <1>5, Joined, Zenon
  <2>2. Reads(a \o b, 0, 4, p.sid)
    BY <1>1, <1>2, <1>5, ReadsFirst, Zenon
  <2>3. Reads(a \o b, 4, 8, p.begin_pos)
    BY <1>1, <1>2, <1>5, ReadsSecond, Zenon
  <2>. QED
    BY <2>1, <2>2, <2>3
<1>7. PICK abc : /\ abc = ab \o c /\ Bytes(abc, 20) /\ Reads(abc, 0, 4, p.sid)
                 /\ Reads(abc, 4, 8, p.begin_pos) /\ Reads(abc, 12, 8, p.lenth)
  <2>1. Bytes(ab \o c, 20)
    BY <1>3, <1>5, <1>6, Joined, Zenon
  <2>2. Reads(ab \o c, 0, 4, p.sid)
    BY <1>3, <1>5, <1>6, ReadsFirst, Zenon
  <2>3. Reads(ab \o c, 4, 8, p.begin_pos)
    BY <1>3, <1>5, <1>6, ReadsFirst, Zenon
  <2>4. Reads(ab \o c, 12, 8, p.lenth)
    BY <1>3, <1>5, <1>6, ReadsSecond, Zenon
  <2>. QED
    BY <2>1, <2>2, <2>3, <2>4
<1>8. PICK abcd : abcd = abc \o d
  OBVIOUS
<1>9. Bytes(abcd, 28)
  BY <1>4, <1>5, <1>7, <1>8, Joined, Zenon
<1>10. Reads(abcd, 0, 4, p.sid) /\ Reads(abcd, 4, 8, p.begin_pos) /\ Reads(abcd, 12, 8, p.lenth)
  <2>1. Reads(abcd, 0, 4, p.sid)
    BY <1>4, <1>5, <1>7, <1>8, ReadsFirst, Zenon
  <2>2. Reads(abcd, 4, 8, p.begin_pos)
    BY <1>4, <1>5, <1>7, <1>8, ReadsFirst, Zenon
  <2>3. Reads(abcd, 12, 8, p.lenth)
    BY <1>4, <1>5, <1>7, <1>8, ReadsFirst, Zenon
  <2>. QED
    BY <2>1, <2>2, <2>3
<1>11. Reads(abcd, 20, 8, p.lenth_left)
  BY <1>4, <1>5, <1>7, <1>8, ReadsSecond, Zenon
<1>12. abcd = PieceBytes(p)
  BY <1>1, <1>2, <1>3, <1>4, <1>6, <1>7, <1>8, Zenon DEF PieceBytes
<1>13. 0 + 4 = 4 /\ 0 + 12 = 12 /\ 0 + 20 = 20
  OBVIOUS
<1>. QED
  BY <1>9, <1>10, <1>11, <1>12, <1>13 DEF PieceAt

\* A piece in the first of two strings stays where it was,
LEMMA PieceFirst == ASSUME NEW m \in Nat, NEW l \in Nat, NEW s, NEW t, Bytes(s, m), Bytes(t, l),
                           NEW at \in Nat, at + 28 <= m, NEW p, PieceAt(s, at, p)
                    PROVE  PieceAt(s \o t, at, p)
<1>1. PICK a \in Nat, b \in Nat, c \in Nat : a = at + 4 /\ b = at + 12 /\ c = at + 20
  OBVIOUS
<1>2. 4 \in Nat /\ 8 \in Nat /\ at + 4 <= m /\ a + 8 <= m /\ b + 8 <= m /\ c + 8 <= m
  BY <1>1
<1>3. Reads(s, at, 4, p.sid) /\ Reads(s, a, 8, p.begin_pos) /\ Reads(s, b, 8, p.lenth) /\ Reads(s, c, 8, p.lenth_left)
  BY <1>1 DEF PieceAt
<1>4. Reads(s \o t, at, 4, p.sid)
  BY <1>2, <1>3, ReadsFirst, Zenon
<1>5. Reads(s \o t, a, 8, p.begin_pos)
  BY <1>2, <1>3, ReadsFirst, Zenon
<1>6. Reads(s \o t, b, 8, p.lenth)
  BY <1>2, <1>3, ReadsFirst, Zenon
<1>7. Reads(s \o t, c, 8, p.lenth_left)
  BY <1>2, <1>3, ReadsFirst, Zenon
<1>. QED
  BY <1>1, <1>4, <1>5, <1>6, <1>7 DEF PieceAt

\* one in the second moves up by the length of the first.
LEMMA PieceSecond == ASSUME NEW m \in Nat, NEW l \in Nat, NEW s, NEW t, Bytes(s, m), Bytes(t, l),
                            NEW at \in Nat, at + 28 <= l, NEW p, PieceAt(t, at, p), NEW from, from = m + at
                     PROVE  PieceAt(s \o t, from, p)
<1>1. PICK a \in Nat, b \in Nat, c \in Nat : a = at + 4 /\ b = at + 12 /\ c = at + 20
  OBVIOUS
<1>2. 4 \in Nat /\ 8 \in Nat /\ at + 4 <= l /\ a + 8 <= l /\ b + 8 <= l /\ c + 8 <= l
  BY <1>1
<1>3. Reads(t, at, 4, p.sid) /\ Reads(t, a, 8, p.begin_pos) /\ Reads(t, b, 8, p.lenth) /\ Reads(t, c, 8, p.lenth_left)
  BY <1>1 DEF PieceAt
<1>4. Reads(s \o t, from, 4, p.sid)
  BY <1>2, <1>3, ReadsSecond, Zenon
<1>5. Reads(s \o t, m + a, 8, p.begin_pos)
  BY <1>2, <1>3, ReadsSecond, Zenon
<1>6. Reads(s \o t, m + b, 8, p.lenth)
  BY <1>2, <1>3, ReadsSecond, Zenon
<1>7. Reads(s \o t, m + c, 8, p.lenth_left)
  BY <1>2, <1>3, ReadsSecond, Zenon
<1>8. m + a = from + 4 /\ m + b = from + 12 /\ m + c = from + 20
  BY <1>1
<1>. QED
  BY <1>4, <1>5, <1>6, <1>7, <1>8 DEF PieceAt

-----------------------------------------------------------------------------
\* The blocks of the pieces, one after the other.
IsJoined(g, blocks, n) == g = [i \in 1..n |-> IF i = 1 THEN blocks[i] ELSE g[i - 1] \o blocks[i]]

\* There is such a function of any length.
LEMMA JoinedExists == ASSUME NEW blocks PROVE \A n \in Nat : \E g : IsJoined(g, blocks, n)
<1> DEFINE S == {n \in Nat : \E g : IsJoined(g, blocks, n)}
<1>1. 0 \in S
  <2>1. PICK g : g = [i \in 1..0 |-> blocks[i]]
    OBVIOUS
  <2>2. IsJoined(g, blocks, 0)
    BY <2>1 DEF IsJoined
  <2>. QED
    BY <2>2
<1>2. ASSUME NEW n \in Nat, n \in S PROVE n + 1 \in S
  <2>1. PICK g : IsJoined(g, blocks, n)
    BY <1>2
  <2>2. PICK last : last = IF n + 1 = 1 THEN blocks[n + 1] ELSE g[n] \o blocks[n + 1]
    OBVIOUS
  <2>3. PICK q : q = [i \in 1..(n + 1) |-> IF i = n + 1 THEN last ELSE g[i]]
    OBVIOUS
  <2>4. ASSUME NEW i \in 1..(n + 1) PROVE q[i] = IF i = 1 THEN blocks[i] ELSE q[i - 1] \o blocks[i]
    <3>1. CASE i = n + 1
      <4>1. i # 1 => q[i - 1] = g[n]
        BY <2>3, <3>1
      <4>. QED
        BY <2>2, <2>3, <3>1, <4>1
    <3>2. CASE i # n + 1
      <4>1. i \in 1..n /\ q[i] = g[i] /\ (i # 1 => q[i - 1] = g[i - 1])
        BY <2>3, <3>2
      <4>2. g[i] = IF i = 1 THEN blocks[i] ELSE g[i - 1] \o blocks[i]
        BY <2>1, <4>1 DEF IsJoined
      <4>. QED
        BY <4>1, <4>2
    <3>. QED
      BY <3>1, <3>2
  <2>5. q = [i \in 1..(n + 1) |-> IF i = 1 THEN blocks[i] ELSE q[i - 1] \o blocks[i]]
    BY <2>3, <2>4, Zenon
  <2>6. IsJoined(q, blocks, n + 1)
    BY <2>5 DEF IsJoined
  <2>. QED
    BY <2>6
<1>3. Nat \subseteq S
  BY <1>1, <1>2, Induct
<1>. QED
  BY <1>3

\* bytes holds the first n pieces, from the byte at on.
HasPieces(bytes, at, pieces, n) == \A k \in 1..n : PieceAt(bytes, at + 28 * (k - 1), pieces[k])

\* FlattenSeq puts piece k 28 * (k - 1) bytes from the start (serialize_data).
LEMMA FlatIs == ASSUME NEW m \in Nat, NEW pieces, NEW blocks,
                       blocks = [i \in 1..m |-> PieceBytes(pieces[i])], Len(blocks) = m
                PROVE  Bytes(SX!FlattenSeq(blocks), 28 * m) /\ HasPieces(SX!FlattenSeq(blocks), 0, pieces, m)
<1>1. CASE m = 0
  <2>1. SX!FlattenSeq(blocks) = blocks
    BY <1>1 DEF SX!FlattenSeq
  <2>2. blocks = <<>>
    BY <1>1
  <2>3. Bytes(<<>>, 28 * m) /\ HasPieces(<<>>, 0, pieces, m)
    BY <1>1 DEF Bytes, HasPieces
  <2>. QED
    BY <2>1, <2>2, <2>3
<1>2. CASE m # 0
  <2> DEFINE Body(f) == [i \in 1..m |-> IF i = 1 THEN blocks[i] ELSE f[i - 1] \o blocks[i]]
             H       == CHOOSE f : f = Body(f)
  <2>1. SX!FlattenSeq(blocks) = H[m]
    BY <1>2 DEF SX!FlattenSeq
  <2>2. PICK g : IsJoined(g, blocks, m)
    BY JoinedExists
  <2>3. g = Body(g)
    BY <2>2 DEF IsJoined
  <2>4. H = Body(H)
    BY <2>3, Zenon
  <2> HIDE DEF H
  <2>5. \A n \in Nat : n + 1 <= m => Bytes(H[n + 1], 28 * (n + 1)) /\ HasPieces(H[n + 1], 0, pieces, n + 1)
    <3> DEFINE S == {n \in Nat : n + 1 <= m => Bytes(H[n + 1], 28 * (n + 1)) /\ HasPieces(H[n + 1], 0, pieces, n + 1)}
    <3>1. 0 \in S
      <4>1. PICK b : b = PieceBytes(pieces[1]) /\ Bytes(b, 28) /\ PieceAt(b, 0, pieces[1])
        BY PieceIs
      <4>2. H[1] = b
        BY <1>2, <2>4, <4>1
      <4>3. 0 + 1 = 1 /\ 28 * (0 + 1) = 28 /\ \A k \in 1..(0 + 1) : k = 1 /\ 0 + 28 * (k - 1) = 0
        OBVIOUS
      <4>4. Bytes(H[0 + 1], 28 * (0 + 1)) /\ HasPieces(H[0 + 1], 0, pieces, 0 + 1)
        BY <4>1, <4>2, <4>3 DEF HasPieces
      <4>. QED
        BY <4>4
    <3>2. ASSUME NEW n \in Nat, n \in S PROVE n + 1 \in S
      <4>1. SUFFICES ASSUME (n + 1) + 1 <= m
                     PROVE  Bytes(H[(n + 1) + 1], 28 * ((n + 1) + 1)) /\ HasPieces(H[(n + 1) + 1], 0, pieces, (n + 1) + 1)
        OBVIOUS
      <4>2. PICK i : i = (n + 1) + 1 /\ i \in 1..m /\ i # 1 /\ i - 1 = n + 1 /\ i - 1 \in Nat
        BY <4>1
      <4>3. PICK s : s = H[i - 1]
        OBVIOUS
      <4>4. Bytes(s, 28 * (i - 1)) /\ HasPieces(s, 0, pieces, i - 1)
        BY <3>2, <4>1, <4>2, <4>3
      <4>5. PICK b : b = PieceBytes(pieces[i]) /\ Bytes(b, 28) /\ PieceAt(b, 0, pieces[i])
        BY PieceIs
      <4>6. H[i] = s \o b
        BY <2>4, <4>2, <4>3, <4>5
      <4>7. PICK l \in Nat : l = 28 * (i - 1) /\ l + 28 = 28 * i /\ l = l + 0 /\ 0 + 28 <= 28 /\ 28 \in Nat /\ 0 \in Nat
        BY <4>2
      <4>8. Bytes(s \o b, 28 * i)
        BY <4>4, <4>5, <4>7, Joined, Zenon
      <4>9. ASSUME NEW k \in 1..i PROVE PieceAt(s \o b, 0 + 28 * (k - 1), pieces[k])
        <5>1. CASE k = i
          <6>1. PieceAt(s \o b, l, pieces[i])
            BY <4>4, <4>5, <4>7, PieceSecond, Zenon
          <6>2. 0 + 28 * (k - 1) = l
            BY <4>7, <5>1
          <6>. QED
            BY <5>1, <6>1, <6>2
        <5>2. CASE k # i
          <6>1. PICK at \in Nat : at = 0 + 28 * (k - 1) /\ at + 28 <= l /\ k \in 1..(i - 1)
            BY <4>2, <4>7, <5>2
          <6>2. PieceAt(s, at, pieces[k])
            BY <4>4, <6>1 DEF HasPieces
          <6>3. PieceAt(s \o b, at, pieces[k])
            BY <4>4, <4>5, <4>7, <6>1, <6>2, PieceFirst, Zenon
          <6>. QED
            BY <6>1, <6>3
        <5>. QED
          BY <5>1, <5>2
      <4>10. HasPieces(s \o b, 0, pieces, i)
        BY <4>9 DEF HasPieces
      <4>. QED
        BY <4>2, <4>6, <4>8, <4>10
    <3>3. Nat \subseteq S
      BY <3>1, <3>2, Induct
    <3>. QED
      BY <3>3
  <2>6. PICK n \in Nat : n + 1 = m
    <3>1. m - 1 \in Nat /\ (m - 1) + 1 = m
      BY <1>2
    <3>. QED
      BY <3>1
  <2>7. n + 1 <= m
    BY <2>6
  <2>8. Bytes(H[n + 1], 28 * (n + 1)) /\ HasPieces(H[n + 1], 0, pieces, n + 1)
    BY <2>5, <2>7, Zenon
  <2>. QED
    BY <2>1, <2>6, <2>8, Zenon
<1>. QED
  BY <1>1, <1>2

-----------------------------------------------------------------------------
(* The record that is written.                                              *)

\* The bytes after the CRC.
Payload(bytes) == SubSeq(bytes, 5, Len(bytes))

\* bytes is the record of pieces.
IsRecord(bytes, pieces) ==
    /\ Bytes(bytes, 12 + 28 * Len(pieces)) /\ HasPieces(bytes, 12, pieces, Len(pieces))
    /\ Reads(bytes, 8, 4, WordOf(Len(pieces)))
    /\ Reads(bytes, 0, 4, crc32_bitwise(Payload(bytes), {}))

\* They are what follows the first four.
LEMMA TailIs == ASSUME NEW all \in Seq(Byte), NEW l \in Nat, Len(all) = 4 + l
                PROVE  \E t : /\ t = SubSeq(all, 5, 4 + l) /\ t \in Seq(Byte) /\ Len(t) = l
                              /\ \A i \in 1..l : t[i] = all[5 + i - 1]
<1>1. PICK t : t = SubSeq(all, 5, 4 + l)
  OBVIOUS
<1>2. \A i \in 1..l : 5 + i - 1 \in 1..Len(all)
  OBVIOUS
<1>3. t = [i \in 1..l |-> all[5 + i - 1]]
  BY <1>1
<1>4. t \in [1..l -> Byte]
  BY <1>2, <1>3
<1>5. t \in Seq(Byte) /\ Len(t) = l
  BY <1>4
<1>. QED
  BY <1>1, <1>3, <1>5

\* serialize_data writes the record of any pieces.
LEMMA Serialized == ASSUME NEW pieces \in Seq(Piece) PROVE IsRecord(serialize_data(pieces), pieces)
<1>1. PICK m \in Nat : m = Len(pieces) /\ DOMAIN pieces = 1..m
  OBVIOUS
<1>2. PICK blocks : blocks = [i \in 1..m |-> PieceBytes(pieces[i])] /\ Len(blocks) = m
  <2>1. PICK blocks : blocks = [i \in 1..m |-> PieceBytes(pieces[i])]
    OBVIOUS
  <2>2. \A i \in 1..m : blocks[i] \in Seq(Byte)
    BY <2>1, PieceIs DEF Bytes
  <2>3. blocks \in [1..m -> Seq(Byte)]
    BY <2>1, <2>2
  <2>4. Len(blocks) = m
    BY <2>3
  <2>. QED
    BY <2>1, <2>4
<1>3. PICK flat : flat = SX!FlattenSeq(blocks) /\ Bytes(flat, 28 * m) /\ HasPieces(flat, 0, pieces, m)
  BY <1>2, FlatIs
<1>4. PICK version : version = PutLE(4, INFO_VERSION) /\ Bytes(version, 4)
  BY PutIs DEF Bytes
<1>5. PICK count0 : count0 = PutLE(4, WordOf(m)) /\ Bytes(count0, 4) /\ Reads(count0, 0, 4, WordOf(m))
  BY PutIs DEF Bytes
<1>6. PICK body : body = (version \o count0) \o flat
  OBVIOUS
<1>7. PICK n \in Nat : n = 28 * m
  OBVIOUS
<1>8. /\ 0 \in Nat /\ 4 \in Nat /\ 8 \in Nat /\ 8 + n \in Nat /\ 8 = 4 + 4 /\ 4 = 4 + 0 /\ 4 + 4 <= 8 /\ 4 + 4 <= 8 + n
      /\ 12 + n = 4 + (8 + n) /\ 8 = 4 + 4 /\ 0 + 4 <= 4 /\ 28 \in Nat
  OBVIOUS
<1>9. Bytes(version \o count0, 8) /\ Reads(version \o count0, 4, 4, WordOf(m))
  <2>1. Bytes(version \o count0, 8)
    BY <1>4, <1>5, <1>8, Joined, Zenon
  <2>2. Reads(version \o count0, 4, 4, WordOf(m))
    BY <1>4, <1>5, <1>8, ReadsSecond, Zenon
  <2>. QED
    BY <2>1, <2>2
<1>10. Bytes(body, 8 + n) /\ Reads(body, 4, 4, WordOf(m))
  <2>1. Bytes(flat, n)
    BY <1>3, <1>7
  <2>2. Bytes(body, 8 + n)
    BY <1>6, <1>7, <1>8, <1>9, <2>1, Joined, Zenon
  <2>3. Reads(body, 4, 4, WordOf(m))
    BY <1>6, <1>7, <1>8, <1>9, <2>1, ReadsFirst, Zenon
  <2>. QED
    BY <2>2, <2>3
<1>11. ASSUME NEW k \in 1..m PROVE PieceAt(body, 8 + 28 * (k - 1), pieces[k])
  <2>1. PICK at \in Nat : at = 0 + 28 * (k - 1) /\ at + 28 <= n /\ 8 + 28 * (k - 1) = 8 + at
    BY <1>7
  <2>2. PieceAt(flat, at, pieces[k]) /\ Bytes(flat, n)
    BY <1>3, <1>7, <2>1 DEF HasPieces
  <2>3. PieceAt(body, 8 + at, pieces[k])
    BY <1>6, <1>7, <1>8, <1>9, <2>1, <2>2, PieceSecond, Zenon
  <2>. QED
    BY <2>1, <2>3
<1>12. PICK sum : sum = PutLE(4, crc32_bitwise(body, {})) /\ Bytes(sum, 4) /\ Reads(sum, 0, 4, crc32_bitwise(body, {}))
  BY PutIs DEF Bytes
<1>13. PICK all : all = sum \o body
  OBVIOUS
<1>14. Bytes(all, 12 + n)
  BY <1>8, <1>10, <1>12, <1>13, Joined, Zenon
<1>15. Reads(all, 8, 4, WordOf(m))
  BY <1>8, <1>10, <1>12, <1>13, ReadsSecond, Zenon
<1>16. Reads(all, 0, 4, crc32_bitwise(body, {}))
  BY <1>8, <1>10, <1>12, <1>13, ReadsFirst, Zenon
<1>17. ASSUME NEW k \in 1..m PROVE PieceAt(all, 12 + 28 * (k - 1), pieces[k])
  <2>1. PICK at \in Nat : at = 8 + 28 * (k - 1) /\ at + 28 <= 8 + n /\ 12 + 28 * (k - 1) = 4 + at
    BY <1>7
  <2>2. PieceAt(body, at, pieces[k])
    BY <1>11, <2>1
  <2>3. PieceAt(all, 4 + at, pieces[k])
    BY <1>8, <1>10, <1>12, <1>13, <2>1, <2>2, PieceSecond, Zenon
  <2>. QED
    BY <2>1, <2>3
<1>18. Payload(all) = body
  <2>1. PICK l \in Nat : l = 8 + n
    OBVIOUS
  <2>2. sum \in Seq(Byte) /\ Len(sum) = 4 /\ body \in Seq(Byte) /\ Len(body) = l /\ all \in Seq(Byte) /\ Len(all) = 4 + l
    BY <1>10, <1>12, <1>14, <2>1 DEF Bytes
  <2>4. PICK t : t = SubSeq(all, 5, 4 + l) /\ t \in Seq(Byte) /\ Len(t) = l /\ \A i \in 1..l : t[i] = all[5 + i - 1]
    BY <2>2, TailIs
  <2>5. ASSUME NEW i \in 1..l PROVE t[i] = body[i]
    <3>1. PICK j : j = 5 + i - 1 /\ j \in 1..(Len(sum) + Len(body)) /\ ~(j <= Len(sum)) /\ j - Len(sum) = i
      BY <2>2
    <3>2. all[j] = body[j - Len(sum)]
      BY <1>13, <2>2, <3>1, ConcatProperties
    <3>. QED
      BY <2>4, <3>1, <3>2
  <2>6. t = body
    BY <2>2, <2>4, <2>5, SeqEqual
  <2>. QED
    BY <2>2, <2>4, <2>6 DEF Payload
<1>19. all = serialize_data(pieces)
  BY <1>1, <1>2, <1>3, <1>4, <1>5, <1>6, <1>12, <1>13 DEF serialize_data, PieceBytes
<1>20. IsRecord(all, pieces)
  BY <1>1, <1>7, <1>14, <1>15, <1>16, <1>17, <1>18 DEF IsRecord, HasPieces
<1>. QED
  BY <1>19, <1>20

-----------------------------------------------------------------------------
(* The record that is read.                                                 *)

\* deserialize_data refuses the bytes.
Refused(bytes) ==
    \/ Len(bytes) < 12
    \/ WordOf(Len(bytes)) # CalLen(FieldOf(bytes, 8, 4))
    \/ FieldOf(bytes, 0, 4) # crc32_bitwise(Payload(bytes), {})

\* What it reads as the piece after the first at bytes.
PieceOf(bytes, at) == [sid |-> FieldOf(bytes, at, 4), begin_pos |-> FieldOf(bytes, at + 4, 8),
                       lenth |-> FieldOf(bytes, at + 12, 8), lenth_left |-> FieldOf(bytes, at + 20, 8)]

\* It returns nothing, or the pieces, 28 bytes each, if they are as many as counted.
LEMMA Deserialized ==
    ASSUME NEW bytes
    PROVE  deserialize_data(bytes) =
              IF Refused(bytes) THEN <<>>
              ELSE IF FieldOf(bytes, 8, 4) = WordOf((Len(bytes) - 12) \div 28)
              THEN [k \in 1..((Len(bytes) - 12) \div 28) |-> PieceOf(bytes, 12 + 28 * (k - 1))]
              ELSE PastTheEnd
  BY DEF deserialize_data, Refused, PieceOf, FieldOf, Payload

\* The bytes after the CRC, one by one.
LEMMA PayloadIs == ASSUME NEW bytes \in Seq(Byte), NEW l \in Nat, Len(bytes) = 4 + l
                PROVE  Payload(bytes) \in Seq(Byte) /\ Len(Payload(bytes)) = l /\ \A i \in 1..l : Payload(bytes)[i] = bytes[4 + i]
<1>1. PICK t : t = SubSeq(bytes, 5, 4 + l) /\ t \in Seq(Byte) /\ Len(t) = l /\ \A i \in 1..l : t[i] = bytes[5 + i - 1]
  BY TailIs
<1>2. \A i \in 1..l : 5 + i - 1 = 4 + i
  OBVIOUS
<1>3. Payload(bytes) = t
  BY <1>1 DEF Payload
<1>. QED
  BY <1>1, <1>2, <1>3

\* The CRC of the record is that of the run.
LEMMA CrcOf == ASSUME NEW bytes \in Seq(Byte)
               PROVE  crc32_bitwise(bytes, {}) = Result(bytes, {}) /\ crc32_bitwise(bytes, {}) \in Word
<1>1. {} \in Word
  BY PolynomialIsWord
<1>2. crc32_bitwise(bytes, {}) = Result(bytes, {})
  BY <1>1, ByteVariants DEF Exact
<1>. QED
  BY <1>2, ResultAppend

\* A piece is read as it was written.
LEMMA PieceRead == ASSUME NEW bytes \in Seq(Byte), NEW at \in Nat, at + 28 <= Len(bytes),
                          NEW p \in Piece, PieceAt(bytes, at, p)
                   PROVE  PieceOf(bytes, at) = p
<1>1. PICK a \in Nat, b \in Nat, c \in Nat : a = at + 4 /\ b = at + 12 /\ c = at + 20
  OBVIOUS
<1>2. 4 \in Nat /\ 8 \in Nat /\ at + 4 <= Len(bytes) /\ a + 8 <= Len(bytes) /\ b + 8 <= Len(bytes) /\ c + 8 <= Len(bytes)
  BY <1>1
<1>3. /\ p.sid \in SUBSET (0..(8 * 4 - 1)) /\ p.begin_pos \in SUBSET (0..(8 * 8 - 1))
      /\ p.lenth \in SUBSET (0..(8 * 8 - 1)) /\ p.lenth_left \in SUBSET (0..(8 * 8 - 1))
  BY DEF Piece, Quad, Word, WordBits
<1>4. Reads(bytes, at, 4, p.sid) /\ Reads(bytes, a, 8, p.begin_pos) /\ Reads(bytes, b, 8, p.lenth) /\ Reads(bytes, c, 8, p.lenth_left)
  BY <1>1 DEF PieceAt
<1>5. FieldOf(bytes, at, 4) = p.sid
  BY <1>2, <1>3, <1>4, FieldIs, Zenon
<1>6. FieldOf(bytes, a, 8) = p.begin_pos
  BY <1>2, <1>3, <1>4, FieldIs, Zenon
<1>7. FieldOf(bytes, b, 8) = p.lenth
  BY <1>2, <1>3, <1>4, FieldIs, Zenon
<1>8. FieldOf(bytes, c, 8) = p.lenth_left
  BY <1>2, <1>3, <1>4, FieldIs, Zenon
<1>. QED
  BY <1>1, <1>5, <1>6, <1>7, <1>8 DEF PieceOf, Piece

\* A record's two fields.
LEMMA Heads == ASSUME NEW bytes \in Seq(Byte), NEW at \in Nat, at + 4 <= Len(bytes), NEW v \in Word, Reads(bytes, at, 4, v)
               PROVE  FieldOf(bytes, at, 4) = v
<1>1. v \in SUBSET (0..(8 * 4 - 1)) /\ 4 \in Nat
  BY DEF Word, WordBits
<1>. QED
  BY <1>1, FieldIs, Zenon

\* Read back, a whole record is the pieces it was written from.
LEMMA ReadBack == ASSUME NEW pieces \in Seq(Piece), NEW bytes, IsRecord(bytes, pieces)
                  PROVE  deserialize_data(bytes) = pieces
<1>1. PICK m \in Nat, l \in Nat, all \in Nat : m = Len(pieces) /\ l = 8 + 28 * m /\ all = 12 + 28 * m
  OBVIOUS
<1>2. /\ bytes \in Seq(Byte) /\ Len(bytes) = all /\ HasPieces(bytes, 12, pieces, m)
      /\ Reads(bytes, 8, 4, WordOf(m)) /\ Reads(bytes, 0, 4, crc32_bitwise(Payload(bytes), {}))
  BY <1>1 DEF IsRecord, Bytes
<1>3. 0 \in Nat /\ 8 \in Nat /\ 0 + 4 <= Len(bytes) /\ 8 + 4 <= Len(bytes) /\ Len(bytes) = 4 + l
  BY <1>1, <1>2
<1>4. FieldOf(bytes, 8, 4) = WordOf(m)
  BY <1>2, <1>3, WordOfIsWord, Heads, Zenon
<1>5. FieldOf(bytes, 0, 4) = crc32_bitwise(Payload(bytes), {})
  <2>1. crc32_bitwise(Payload(bytes), {}) \in Word
    BY <1>2, <1>3, PayloadIs, CrcOf
  <2>. QED
    BY <1>2, <1>3, <2>1, Heads, Zenon
<1>6. CalLen(WordOf(m)) = WordOf(all)
  BY <1>1, Length
<1>7. ~Refused(bytes)
  BY <1>1, <1>2, <1>4, <1>5, <1>6 DEF Refused
<1>8. (Len(bytes) - 12) \div 28 = m
  BY <1>1, <1>2
<1>9. ASSUME NEW k \in 1..m PROVE PieceOf(bytes, 12 + 28 * (k - 1)) = pieces[k]
  <2>1. PICK at \in Nat : at = 12 + 28 * (k - 1) /\ at + 28 <= Len(bytes)
    BY <1>1, <1>2
  <2>2. PieceAt(bytes, at, pieces[k])
    BY <1>2, <2>1 DEF HasPieces
  <2>3. pieces[k] \in Piece
    BY <1>1
  <2>4. PieceOf(bytes, at) = pieces[k]
    BY <1>2, <2>1, <2>2, <2>3, PieceRead
  <2>. QED
    BY <2>1, <2>4
<1>10. deserialize_data(bytes) = [k \in 1..m |-> PieceOf(bytes, 12 + 28 * (k - 1))]
  BY <1>4, <1>7, <1>8, Deserialized
<1>11. pieces = [k \in 1..m |-> pieces[k]]
  BY <1>1
<1>. QED
  BY <1>9, <1>10, <1>11

\* A longer file than a record's length is not looked at here: a shorter one is refused.
LEMMA CutShort == ASSUME NEW pieces \in Seq(Piece), NEW bytes, IsRecord(bytes, pieces),
                         12 + 28 * Len(pieces) < Limit,
                         NEW p \in Nat, p < Len(bytes)
                  PROVE  deserialize_data(SubSeq(bytes, 1, p)) = <<>>
<1>1. PICK m \in Nat, all \in Nat : m = Len(pieces) /\ all = 12 + 28 * m /\ all < Limit
  OBVIOUS
<1>2. bytes \in Seq(Byte) /\ Len(bytes) = all /\ Reads(bytes, 8, 4, WordOf(m)) /\ p < all
  BY <1>1 DEF IsRecord, Bytes
<1>3. PICK s : s = SubSeq(bytes, 1, p)
  OBVIOUS
<1>4. s = [i \in 1..p |-> bytes[i]] /\ \A i \in 1..p : bytes[i] \in Byte
  BY <1>2, <1>3
<1>5. s \in [1..p -> Byte]
  BY <1>4
<1>6. s \in Seq(Byte) /\ Len(s) = p
  BY <1>5
<1>7. CASE p < 12
  BY <1>3, <1>6, <1>7, Deserialized DEF Refused
<1>8. CASE ~(p < 12)
  <2>1. 8 \in Nat /\ 8 + 4 <= Len(s)
    BY <1>6, <1>8
  <2>2. \A i \in 1..4 : 8 + i \in 1..p
    BY <1>8
  <2>3. Reads(s, 8, 4, WordOf(m))
    BY <1>2, <1>4, <2>2 DEF Reads
  <2>4. FieldOf(s, 8, 4) = WordOf(m)
    BY <1>6, <2>1, <2>3, WordOfIsWord, Heads, Zenon
  <2>5. CalLen(WordOf(m)) = WordOf(all)
    BY <1>1, Length
  <2>6. p < Limit /\ p # all
    BY <1>1, <1>2, SMT DEF Limit
  <2>7. WordOf(p) # WordOf(all)
    BY <1>1, <2>6, Distinct, Zenon
  <2>8. Refused(s)
    BY <1>6, <2>4, <2>5, <2>7 DEF Refused
  <2>. QED
    BY <1>3, <2>8, Deserialized
<1>. QED
  BY <1>7, <1>8

-----------------------------------------------------------------------------
(* One changed byte.                                                        *)

\* A turn of a register that is not zero does not make it zero.
LEMMA OneBitZero == ASSUME NEW z \in Word, OneBit(z) = {} PROVE z = {}
<1>1. \A b \in Nat : b \in Shr(z, 1) <=> b + 1 \in z
  BY ShrIn
<1>2. CASE 0 \in z
  <2>1. Shr(z, 1) (+) Polynomial = {}
    BY <1>2 DEF OneBit
  <2>2. 31 \in Polynomial
    BY DEF Polynomial
  <2>3. 31 \notin Shr(z, 1)
    BY <1>1 DEF Word, WordBits
  <2>4. 31 \in Shr(z, 1) (+) Polynomial
    BY <2>2, <2>3, XorIn
  <2>. QED
    BY <2>1, <2>4
<1>3. CASE 0 \notin z
  <2>1. Shr(z, 1) = {}
    BY <1>3, XorLaws DEF OneBit
  <2>2. ASSUME NEW b \in z PROVE FALSE
    <3>1. b \in Nat /\ b - 1 \in Nat /\ (b - 1) + 1 = b
      BY <1>3 DEF Word, WordBits
    <3>2. b - 1 \in Shr(z, 1)
      BY <1>1, <3>1
    <3>. QED
      BY <2>1, <3>2
  <2>. QED
    BY <2>2
<1>. QED
  BY <1>2, <1>3

\* Nor do the eight turns of a byte.
LEMMA ByteZero == ASSUME NEW z \in Word, R(8, z) = {} PROVE z = {}
<1>1. ASSUME NEW n \in 0..127, R(n + 1, z) = {} PROVE R(n, z) = {}
  <2>1. n \in 0..128
    OBVIOUS
  <2>2. R(n, z) \in Word
    BY <2>1, RStep
  <2>3. R(n + 1, z) = OneBit(R(n, z))
    BY RStep
  <2>. QED
    BY <1>1, <2>2, <2>3, OneBitZero
<1>2. /\ 0 + 1 = 1 /\ 1 + 1 = 2 /\ 2 + 1 = 3 /\ 3 + 1 = 4 /\ 4 + 1 = 5 /\ 5 + 1 = 6 /\ 6 + 1 = 7 /\ 7 + 1 = 8
      /\ \A n \in 0..7 : n \in 0..127
  OBVIOUS
<1>3. R(4, z) = {}
  BY <1>1, <1>2
<1>4. R(0, z) = {}
  BY <1>1, <1>2, <1>3
<1>. QED
  BY <1>4, RStep

\* So the registers after a byte differ if those before did.
LEMMA ByteInjective == ASSUME NEW x \in Word, NEW y \in Word, R(8, x) = R(8, y) PROVE x = y
<1>1. x (+) y \in Word
  BY XorLaws
<1>2. 8 \in 0..128
  OBVIOUS
<1>3. R(8, x (+) y) = R(8, x) (+) R(8, y)
  BY <1>2, RXor
<1>4. R(8, x (+) y) = {}
  BY <1>3, XorLaws
<1>5. x (+) y = {}
  BY <1>1, <1>4, ByteZero
<1>. QED
  BY <1>5 DEF (+)

\* Two registers become the same only if they differed by the bytes mixed in.
LEMMA Mixed == ASSUME NEW c \in Word, NEW d \in Word, NEW x \in Byte, NEW y \in Byte,
                      R(8, c (+) x) = R(8, d (+) y)
               PROVE  (c = d => x = y) /\ (x = y => c = d)
<1>1. c (+) x \in Word /\ d (+) y \in Word
  BY MixByte
<1>2. c (+) x = d (+) y
  BY <1>1, ByteInjective
<1>3. \A b : b \in c (+) x <=> ~(b \in c <=> b \in x)
  BY XorIn
<1>4. \A b : b \in d (+) y <=> ~(b \in d <=> b \in y)
  BY XorIn
<1>5. \A b : (b \in c <=> b \in x) <=> (b \in d <=> b \in y)
  BY <1>2, <1>3, <1>4, Zenon
<1>6. ASSUME c = d PROVE x = y
  BY <1>5, <1>6
<1>7. ASSUME x = y PROVE c = d
  BY <1>5, <1>7
<1>. QED
  BY <1>6, <1>7

\* Data that differ in one byte have different checksums.
LEMMA OneByte == ASSUME NEW s \in Seq(Byte), NEW t \in Seq(Byte), Len(s) = Len(t), NEW j \in 1..Len(s), s[j] # t[j],
                        \A k \in 1..Len(s) : k # j => s[k] = t[k]
                 PROVE  crc32_bitwise(s, {}) # crc32_bitwise(t, {})
<1>1. PICK c \in Word : c = Not({})
  BY DEF Not, Word
<1>2. PICK n \in Nat : n = Len(s) /\ n = Len(t)
  OBVIOUS
<1>3. PICK r : r = Run(s, c) /\ IsRun(r, s, c, n)
  BY <1>2, RunIs
<1>4. PICK q : q = Run(t, c) /\ IsRun(q, t, c, n)
  BY <1>2, RunIs
<1>5. r \in [0..n -> Word] /\ r[0] = c /\ \A k \in 1..n : r[k] = R(8, r[k - 1] (+) s[k])
  BY <1>3 DEF IsRun
<1>6. q \in [0..n -> Word] /\ q[0] = c /\ \A k \in 1..n : q[k] = R(8, q[k - 1] (+) t[k])
  BY <1>4 DEF IsRun
<1>7. \A k \in Nat : k <= n => ((k < j) <=> (r[k] = q[k]))
  <2> DEFINE S == {k \in Nat : k <= n => ((k < j) <=> (r[k] = q[k]))}
  <2>1. 0 \in S
    BY <1>5, <1>6
  <2>2. ASSUME NEW k \in Nat, k \in S PROVE k + 1 \in S
    <3>1. SUFFICES ASSUME k + 1 <= n PROVE (k + 1 < j) <=> (r[k + 1] = q[k + 1])
      OBVIOUS
    <3>2. PICK i \in 1..n : i = k + 1 /\ i - 1 = k
      BY <3>1
    <3>3. (k < j) <=> (r[k] = q[k])
      BY <2>2, <3>1
    <3>4. PICK a \in Word, b \in Word, x \in Byte, y \in Byte : a = r[k] /\ b = q[k] /\ x = s[i] /\ y = t[i]
      <4>1. k \in 0..n /\ s[i] \in Byte /\ t[i] \in Byte
        BY <1>2, <3>1, <3>2
      <4>2. r[k] \in Word /\ q[k] \in Word
        BY <1>5, <1>6, <4>1
      <4>. QED
        BY <4>1, <4>2
    <3>5. r[i] = R(8, a (+) x) /\ q[i] = R(8, b (+) y)
      BY <1>5, <1>6, <3>2, <3>4
    <3>6. R(8, a (+) x) = R(8, b (+) y) => (a = b => x = y) /\ (x = y => a = b)
      BY Mixed
    <3>7. CASE i < j
      <4>1. x = y
        BY <1>2, <3>2, <3>4, <3>7
      <4>2. a = b
        BY <3>2, <3>3, <3>4, <3>7
      <4>. QED
        BY <3>2, <3>5, <3>7, <4>1, <4>2
    <3>8. CASE i = j
      <4>1. x # y
        BY <3>4, <3>8
      <4>2. a = b
        BY <3>2, <3>3, <3>4, <3>8
      <4>3. r[i] # q[i]
        BY <3>5, <3>6, <4>1, <4>2
      <4>. QED
        BY <3>2, <3>8, <4>3
    <3>9. CASE i > j
      <4>1. x = y
        BY <1>2, <3>2, <3>4, <3>9
      <4>2. a # b
        BY <3>2, <3>3, <3>4, <3>9
      <4>3. r[i] # q[i]
        BY <3>5, <3>6, <4>1, <4>2
      <4>. QED
        BY <3>2, <3>9, <4>3
    <3>. QED
      BY <3>7, <3>8, <3>9
  <2>3. Nat \subseteq S
    BY <2>1, <2>2, Induct
  <2>. QED
    BY <2>3
<1>8. r[n] # q[n]
  BY <1>2, <1>7
<1>9. PICK a \in Word, b \in Word : a = r[n] /\ b = q[n]
  BY <1>5, <1>6
<1>10. Not(Not(a)) = a /\ Not(Not(b)) = b
  BY NotIs DEF NotNot
<1>11. Not(a) # Not(b)
  BY <1>8, <1>9, <1>10
<1>12. Result(s, {}) = Not(a) /\ Result(t, {}) = Not(b)
  BY <1>1, <1>2, <1>3, <1>4, <1>9 DEF Result
<1>. QED
  BY <1>11, <1>12, CrcOf

\* And what was read is what the bytes say.
LEMMA GotBack == ASSUME NEW bytes \in Seq(Byte), NEW at \in Nat, NEW n \in Nat, at + n <= Len(bytes)
                 PROVE  Reads(bytes, at, n, FieldOf(bytes, at, n))
<1>1. PICK s : s = SubSeq(bytes, at + 1, at + n)
  OBVIOUS
<1>2. DOMAIN s = 1..n /\ \A i \in 1..n : s[i] = bytes[at + i]
  <2>1. s = [i \in 1..n |-> bytes[at + i]]
    BY <1>1
  <2>. QED
    BY <2>1
<1>3. \A i \in 1..n : s[i] \in Byte
  <2>1. \A i \in 1..n : at + i \in 1..Len(bytes)
    OBVIOUS
  <2>. QED
    BY <1>2, <2>1
<1>4. PICK v : v = GetLE(s) /\ v = FieldOf(bytes, at, n)
  BY <1>1 DEF FieldOf
<1>5. v = UNION {{8 * (i - 1) + b : b \in s[i]} : i \in 1..n}
  BY <1>2, <1>4 DEF GetLE
<1>6. ASSUME NEW i \in 1..n, NEW b \in ByteBits PROVE b \in s[i] <=> 8 * (i - 1) + b \in v
  <2>1. ASSUME b \in s[i] PROVE 8 * (i - 1) + b \in v
    <3>1. 8 * (i - 1) + b \in {8 * (i - 1) + e : e \in s[i]}
      BY <2>1, Zenon
    <3>2. 8 * (i - 1) + b \in UNION {{8 * (j - 1) + e : e \in s[j]} : j \in 1..n}
      BY <3>1, Zenon
    <3>. QED
      BY <1>5, <3>2
  <2>2. ASSUME 8 * (i - 1) + b \in v PROVE b \in s[i]
    <3>1. PICK j \in 1..n : 8 * (i - 1) + b \in {8 * (j - 1) + e : e \in s[j]}
      BY <1>5, <2>2
    <3>2. PICK e \in s[j] : 8 * (i - 1) + b = 8 * (j - 1) + e
      BY <3>1
    <3>3. e \in 0..7 /\ b \in 0..7
      BY <1>3 DEF Byte, ByteBits
    <3>4. j = i /\ e = b
      BY <3>2, <3>3
    <3>. QED
      BY <3>4
  <2>. QED
    BY <2>1, <2>2
<1>7. \A i \in 1..n : s[i] = {b \in ByteBits : 8 * (i - 1) + b \in v}
  <2> TAKE i \in 1..n
  <2>1. \A b \in s[i] : b \in ByteBits
    BY <1>3 DEF Byte
  <2>. QED
    BY <1>6, <2>1
<1>. QED
  BY <1>2, <1>4, <1>7 DEF Reads

\* A record of which one byte has changed is refused.
LEMMA OneChanged == ASSUME NEW pieces \in Seq(Piece), NEW bytes, IsRecord(bytes, pieces),
                           NEW i \in 1..Len(bytes), NEW z \in Byte, z # bytes[i]
                    PROVE  deserialize_data([bytes EXCEPT ![i] = z]) = <<>>
<1>1. PICK l \in Nat : Len(bytes) = 4 + l /\ l = 8 + 28 * Len(pieces) /\ bytes \in Seq(Byte)
  BY DEF IsRecord, Bytes
<1>2. PICK f : f = [bytes EXCEPT ![i] = z] /\ f \in Seq(Byte) /\ Len(f) = 4 + l
  <2>1. PICK f : f = [bytes EXCEPT ![i] = z]
    OBVIOUS
  <2>2. bytes \in [1..(4 + l) -> Byte]
    BY <1>1
  <2>3. f \in [1..(4 + l) -> Byte]
    BY <2>1, <2>2
  <2>4. f \in Seq(Byte) /\ Len(f) = 4 + l
    BY <2>3
  <2>. QED
    BY <2>1, <2>4
<1>3. f[i] = z /\ \A k \in 1..(4 + l) : k # i => f[k] = bytes[k]
  BY <1>1, <1>2
<1>4. PICK b : b = Payload(bytes) /\ b \in Seq(Byte) /\ Len(b) = l /\ \A k \in 1..l : b[k] = bytes[4 + k]
  <2>1. Payload(bytes) \in Seq(Byte) /\ Len(Payload(bytes)) = l /\ \A k \in 1..l : Payload(bytes)[k] = bytes[4 + k]
    BY <1>1, PayloadIs, Zenon
  <2>. QED
    BY <2>1, Zenon
<1>5. PICK g : g = Payload(f) /\ g \in Seq(Byte) /\ Len(g) = l /\ \A k \in 1..l : g[k] = f[4 + k]
  <2>1. Payload(f) \in Seq(Byte) /\ Len(Payload(f)) = l /\ \A k \in 1..l : Payload(f)[k] = f[4 + k]
    BY <1>1, <1>2, PayloadIs, Zenon
  <2>. QED
    BY <2>1, Zenon
<1>6. PICK v \in Word : v = crc32_bitwise(b, {})
  BY <1>4, CrcOf
<1>7. Reads(bytes, 0, 4, v)
  BY <1>4, <1>6 DEF IsRecord
<1>8. PICK w \in Word : w = crc32_bitwise(g, {})
  BY <1>5, CrcOf
<1>9. FieldOf(f, 0, 4) # w
  <2>1. 0 \in Nat /\ 4 \in Nat /\ 0 + 4 <= Len(f) /\ \A k \in 1..4 : 0 + k = k /\ k \in 1..(4 + l)
    BY <1>1, <1>2
  <2>2. CASE i <= 4
    <3>1. ASSUME NEW k \in 1..l PROVE g[k] = b[k]
      <4>1. PICK j : j = 4 + k /\ j \in 1..(4 + l) /\ j # i
        BY <1>1, <2>2
      <4>2. f[j] = bytes[j]
        BY <1>3, <4>1
      <4>. QED
        BY <1>4, <1>5, <4>1, <4>2
    <3>2. w = v
      BY <1>4, <1>5, <1>6, <1>8, <3>1, SeqEqual
    <3>3. Reads(f, 0, 4, FieldOf(f, 0, 4))
      BY <1>2, <2>1, GotBack, Zenon
    <3>4. i \in 1..4 /\ f[i] # bytes[i]
      BY <1>3, <2>2
    <3>. QED
      BY <1>7, <2>1, <3>2, <3>3, <3>4 DEF Reads
  <2>3. CASE ~(i <= 4)
    <3>1. Reads(f, 0, 4, v)
      BY <1>3, <1>7, <2>1, <2>3 DEF Reads
    <3>2. FieldOf(f, 0, 4) = v
      BY <1>2, <2>1, <3>1, Heads, Zenon
    <3>3. PICK j \in 1..l : i = 4 + j
      <4>1. i - 4 \in 1..l /\ i = 4 + (i - 4)
        BY <1>1, <2>3
      <4>. QED
        BY <4>1
    <3>4. j \in 1..Len(b) /\ Len(b) = Len(g) /\ b[j] # g[j]
      BY <1>3, <1>4, <1>5, <3>3
    <3>5. \A k \in 1..Len(b) : k # j => b[k] = g[k]
      <4>1. \A k \in 1..l : k # j => 4 + k # i /\ 4 + k \in 1..(4 + l)
        BY <3>3
      <4>. QED
        BY <1>3, <1>4, <1>5, <4>1
    <3>6. v # w
      BY <1>4, <1>5, <1>6, <1>8, <3>4, <3>5, OneByte, Zenon
    <3>. QED
      BY <3>2, <3>6
  <2>. QED
    BY <2>2, <2>3
<1>10. Refused(f)
  BY <1>5, <1>8, <1>9 DEF Refused
<1>. QED
  BY <1>2, <1>10, Deserialized

-----------------------------------------------------------------------------
(* The info file.                                                           *)

\* The data is the record of some pieces, of which pos bytes are in the file.
Written == algo = "record" => /\ \E r \in Records : data = serialize_data(r)
                              /\ pos \in 0..Len(data)

\* It is so of an empty file.
LEMMA WrittenAtFirst == FeedInit => Written
<1> SUFFICES ASSUME FeedInit, algo = "record" PROVE Written
  BY DEF Written
<1>1. PICK r \in Records : data = serialize_data(r)
  BY DEF FeedInit, CrcVariants
<1>2. r \in Seq(Piece)
  BY RecordsAssumption
<1>3. Len(data) \in Nat
  BY <1>1, <1>2, Serialized DEF IsRecord, Bytes
<1>4. pos = 0
  BY DEF FeedInit
<1>. QED
  BY <1>1, <1>3, <1>4 DEF Written

\* And each portion keeps it.
LEMMA WrittenOn == Written /\ [FeedNext]_feedVars => Written'
<1> SUFFICES ASSUME Written, [FeedNext]_feedVars PROVE Written'
  OBVIOUS
<1>1. CASE UNCHANGED feedVars
  BY <1>1 DEF feedVars, Written
<1>2. ASSUME NEW n \in Portions, FeedCrc(n) PROVE Written'
  <2>1. algo' # "record"
    BY <1>2 DEF FeedCrc, CrcVariants
  <2>. QED
    BY <2>1 DEF Written
<1>3. ASSUME NEW n \in Portions, ReadPortion(n) PROVE Written'
  <2>1. algo' # "record"
    BY <1>3 DEF ReadPortion
  <2>. QED
    BY <2>1 DEF Written
<1>4. ASSUME NEW n \in Portions, WriteRecord(n) PROVE Written'
  <2>1. algo = "record" /\ pos + n <= Len(data) /\ pos' = pos + n /\ data' = data /\ n \in Nat
    BY <1>4, PortionsAssumption DEF WriteRecord
  <2>2. PICK r \in Records : data = serialize_data(r)
    BY <2>1 DEF Written
  <2>3. r \in Seq(Piece)
    BY RecordsAssumption
  <2>4. Len(data) \in Nat /\ pos \in 0..Len(data)
    BY <2>1, <2>2, <2>3, Serialized DEF IsRecord, Bytes, Written
  <2>. QED
    BY <2>1, <2>2, <2>4 DEF Written
<1>. QED
  BY <1>1, <1>2, <1>3, <1>4 DEF FeedNext

\* A byte with one bit inverted is another byte.
LEMMA Flip == ASSUME NEW y \in Byte, NEW b \in ByteBits PROVE y (+) {b} \in Byte /\ y (+) {b} # y
  BY DEF (+), Byte

\* A record of which the info file is read is shorter than 2^24 bytes.
LEMMA BelowLimit == \A r \in Records : r \in Seq(Piece) /\ 12 + 28 * Len(r) < Limit
<1> TAKE r \in Records
<1>1. r \in Seq(Piece) /\ 12 + 28 * Len(r) <= FILE_SIZE_THRESHOLD
  BY RecordsAssumption
<1>2. PICK n \in Nat : n = Len(r)
  BY <1>1
<1>3. 12 + 28 * n <= FILE_SIZE_THRESHOLD => 12 + 28 * n < Limit
  BY SMT DEF FILE_SIZE_THRESHOLD, Limit
<1>. QED
  BY <1>1, <1>2, <1>3

\* Whatever the pieces: of an info file that a kill left short, or of which any one bit
\* has changed, nothing is taken, and a whole one gives back every piece (serialize_data,
\* deserialize_data).
THEOREM RecordIsRead == FeedSpec => []RecordRead
<1>1. Written => RecordRead
  <2> SUFFICES ASSUME Written, algo = "record"
               PROVE  LET file == SubSeq(data, 1, pos)
                          Flipped(i, b) == [file EXCEPT ![i] = @ (+) {b}]
                          read == deserialize_data(file)
                      IN IF pos < Len(data) THEN read = <<>>
                         ELSE /\ read \in Records /\ serialize_data(read) = data
                              /\ \A i \in 1..pos, b \in ByteBits : deserialize_data(Flipped(i, b)) = <<>>
    BY DEF RecordRead
  <2>1. PICK r \in Records : data = serialize_data(r)
    BY DEF Written
  <2>2. r \in Seq(Piece) /\ 12 + 28 * Len(r) < Limit
    BY BelowLimit
  <2>3. IsRecord(data, r)
    BY <2>1, <2>2, Serialized
  <2>4. data \in Seq(Byte) /\ Len(data) \in Nat /\ pos \in 0..Len(data) /\ pos \in Nat
    <3>1. data \in Seq(Byte) /\ Len(data) \in Nat
      BY <2>3 DEF IsRecord, Bytes
    <3>2. pos \in 0..Len(data)
      BY DEF Written
    <3>. QED
      BY <3>1, <3>2
  <2>5. CASE pos < Len(data)
    <3>1. deserialize_data(SubSeq(data, 1, pos)) = <<>>
      BY <2>2, <2>3, <2>4, <2>5, CutShort, Zenon
    <3>. QED
      BY <2>5, <3>1
  <2>6. CASE ~(pos < Len(data))
    <3>1. pos = Len(data) /\ SubSeq(data, 1, pos) = data
      BY <2>4, <2>6
    <3>2. deserialize_data(data) = r
      BY <2>2, <2>3, ReadBack
    <3>3. ASSUME NEW i \in 1..pos, NEW b \in ByteBits
          PROVE  deserialize_data([data EXCEPT ![i] = data[i] (+) {b}]) = <<>>
      <4>1. i \in 1..Len(data) /\ data[i] \in Byte
        BY <2>4, <3>1
      <4>2. PICK z \in Byte : z = data[i] (+) {b} /\ z # data[i]
        BY <4>1, Flip
      <4>3. deserialize_data([data EXCEPT ![i] = z]) = <<>>
        BY <2>2, <2>3, <4>1, <4>2, OneChanged
      <4>. QED
        BY <4>2, <4>3
    <3>4. PICK file : file = SubSeq(data, 1, pos) /\ file = data
      BY <3>1
    <3>5. deserialize_data(file) \in Records /\ serialize_data(deserialize_data(file)) = data
      BY <2>1, <3>2, <3>4
    <3>6. ASSUME NEW i \in 1..pos, NEW b \in ByteBits
          PROVE  deserialize_data([file EXCEPT ![i] = file[i] (+) {b}]) = <<>>
      BY <3>3, <3>4
    <3>. QED
      BY <2>6, <3>4, <3>5, <3>6, Zenon
  <2>. QED
    BY <2>5, <2>6
<1>. QED
  BY <1>1, WrittenAtFirst, WrittenOn, PTL DEF FeedSpec

=============================================================================
