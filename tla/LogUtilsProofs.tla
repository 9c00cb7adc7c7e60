--------------------------- MODULE LogUtilsProofs ---------------------------
(***************************************************************************)
(* The safety of the log, for every set of logging threads, every number   *)
(* of records and every number of instances, whatever files fail.  That a  *)
(* deleted instance has its end marker in the file, if that can be written *)
(* to, is followed backwards: from the file to the batch of the last       *)
(* write, and from there to the queue, where the marker was put in the     *)
(* step that set m_quit_thread.                                            *)
(***************************************************************************)
EXTENDS LogUtils, SequenceTheorems, TLAPS

\* A record is put on a queue by a logger that has begun one.
Begun == \A t \in Loggers : lpc[t] # "idle" => begun[t] \in 1..MaxRecords

\* Only an instance that was made is pointed to, joined or deleted, or has a file that
\* may fail, and init ends or joins one only if there was one.
Made ==
    /\ instance \in 0..made /\ old \in 0..made
    /\ freed \subseteq 1..made
    /\ (\A i \in Instances : i > made => wpc[i] = "none" /\ ~failed[i])
    /\ (ipc = "end" => instance # Null)
    /\ (ipc = "join" => old # Null)

\* Between two writes the writer has nothing in its hands.
HandsEmpty == \A i \in Instances : wpc[i] \notin {"write", "last"} => batch[i] = <<>>

\* The way of the end marker.
Marked ==
    /\ \A i \in Instances :
          quit[i] /\ wpc[i] \notin {"last", "ended"} => Contains(logs[i], End)
    /\ \A i \in Instances : wpc[i] = "last" => Contains(batch[i], End)
    /\ \A i \in Instances : wpc[i] = "ended" => ~open[i]
    /\ \A i \in Instances : wpc[i] = "ended" /\ ~failed[i] => Contains(file[i], End)

\* What is deleted has been joined.
Joined == \A i \in freed : wpc[i] = "ended"

\* p is f, then b, then q.
MadeUpOf(p, f, b, q) ==
    /\ Len(p) = Len(f) + Len(b) + Len(q)
    /\ \A i \in 1..Len(f) : p[i] = f[i]
    /\ \A i \in 1..Len(b) : p[Len(f) + i] = b[i]
    /\ \A i \in 1..Len(q) : p[Len(f) + Len(b) + i] = q[i]

\* p begins with f.
BeginsWith(p, f) == Len(f) <= Len(p) /\ \A i \in 1..Len(f) : p[i] = f[i]

Ordered == \A i \in Instances :
    /\ BeginsWith(pushed[i], file[i])
    /\ ~failed[i] => MadeUpOf(pushed[i], file[i], batch[i], logs[i])

IInv == TypeOK /\ Begun /\ Made /\ HandsEmpty /\ Marked /\ Joined /\ Ordered

-----------------------------------------------------------------------------
(* Sequences.                                                               *)

\* What a sequence contains, a longer one contains as well.
LEMMA Longer ==
    ASSUME NEW S, NEW s \in Seq(S), NEW x \in S, NEW e, Contains(s, e)
    PROVE  Contains(Append(s, x), e)
<1>1. PICK i \in 1..Len(s) : s[i] = e
  BY DEF Contains
<1>2. i \in 1..Len(Append(s, x)) /\ Append(s, x)[i] = e
  BY <1>1
<1>. QED
  BY <1>2 DEF Contains

LEMMA AtItsEnd ==
    ASSUME NEW S, NEW s \in Seq(S), NEW x \in S
    PROVE  Contains(Append(s, x), x)
<1>1. Len(s) + 1 \in 1..Len(Append(s, x)) /\ Append(s, x)[Len(s) + 1] = x
  OBVIOUS
<1>. QED
  BY <1>1 DEF Contains

LEMMA InEither ==
    ASSUME NEW S, NEW s \in Seq(S), NEW u \in Seq(S), NEW e,
           Contains(s, e) \/ Contains(u, e)
    PROVE  Contains(s \o u, e)
<1>1. CASE Contains(s, e)
  <2>1. PICK i \in 1..Len(s) : s[i] = e
    BY <1>1 DEF Contains
  <2>2. i \in 1..Len(s \o u) /\ (s \o u)[i] = e
    BY <2>1
  <2>. QED
    BY <2>2 DEF Contains
<1>2. CASE Contains(u, e)
  <2>1. PICK i \in 1..Len(u) : u[i] = e
    BY <1>2 DEF Contains
  <2>2. Len(s) + i \in 1..Len(s \o u) /\ (s \o u)[Len(s) + i] = e
    BY <2>1
  <2>. QED
    BY <2>2 DEF Contains
<1>. QED
  BY <1>1, <1>2

\* What three parts make up, place by place.
LEMMA PutTogether ==
    ASSUME NEW S, NEW p \in Seq(S), NEW f \in Seq(S), NEW b \in Seq(S), NEW q \in Seq(S),
           MadeUpOf(p, f, b, q)
    PROVE  p = f \o (b \o q)
<1>. DEFINE c == b \o q
<1>. DEFINE r == f \o c
<1>. DEFINE nf == Len(f)
<1>. DEFINE nb == Len(b)
<1>. DEFINE nq == Len(q)
<1>1. nf \in Nat /\ nb \in Nat /\ nq \in Nat
  OBVIOUS
<1>2. /\ c \in Seq(S) /\ Len(c) = nb + nq
      /\ \A i \in 1..(nb + nq) : c[i] = IF i <= nb THEN b[i] ELSE q[i - nb]
  BY ConcatProperties
<1>. HIDE DEF c
<1>3. /\ r \in Seq(S) /\ Len(r) = nf + Len(c)
      /\ \A i \in 1..(nf + Len(c)) : r[i] = IF i <= nf THEN f[i] ELSE c[i - nf]
  <2>1. c \in Seq(S)
    BY <1>2
  <2>. QED
    BY <2>1, ConcatProperties
<1>. HIDE DEF r
<1>4. /\ Len(p) = nf + nb + nq
      /\ \A i \in 1..nf : p[i] = f[i]
      /\ \A i \in 1..nb : p[nf + i] = b[i]
      /\ \A i \in 1..nq : p[nf + nb + i] = q[i]
  BY DEF MadeUpOf
<1>. HIDE DEF nf, nb, nq
<1>5. Len(p) = Len(r)
  BY <1>1, <1>2, <1>3, <1>4
<1>6. ASSUME NEW i \in 1..Len(p)
      PROVE  p[i] = r[i]
  <2>1. i \in Int /\ 1 <= i /\ i <= nf + nb + nq
    BY <1>1, <1>4
  <2>2. CASE i <= nf
    <3>1. i \in 1..nf /\ i \in 1..(nf + Len(c))
      BY <1>1, <1>2, <2>1, <2>2
    <3>. QED
      BY <1>3, <1>4, <2>2, <3>1
  <2>3. CASE nf < i
    <3>. DEFINE j == i - nf
    <3>1. j \in 1..(nb + nq) /\ i = nf + j
      BY <1>1, <2>1, <2>3
    <3>2. r[i] = c[j]
      BY <1>1, <1>2, <1>3, <2>1, <2>3
    <3>. HIDE DEF j
    <3>3. CASE j <= nb
      BY <1>1, <1>2, <1>4, <3>1, <3>2, <3>3
    <3>4. CASE nb < j
      <4>. DEFINE k == j - nb
      <4>1. k \in 1..nq /\ j = nb + k
        BY <1>1, <3>1, <3>4
      <4>2. c[j] = q[k]
        <5>1. j \in 1..(nb + nq) /\ ~(j <= nb)
          BY <1>1, <3>1, <3>4
        <5>. QED
          BY <1>2, <5>1
      <4>. HIDE DEF k
      <4>3. p[nf + nb + k] = q[k] /\ i = nf + nb + k
        <5>1. i = nf + nb + k
          BY <1>1, <3>1, <4>1
        <5>. QED
          BY <1>4, <4>1, <5>1
      <4>. QED
        BY <3>2, <4>2, <4>3
    <3>. QED
      BY <1>1, <3>1, <3>3, <3>4
  <2>. QED
    BY <1>1, <2>1, <2>2, <2>3
<1>7. p = r
  BY <1>3, <1>5, <1>6, SeqEqual
<1>. QED
  BY <1>7 DEF r, c

\* A record is queued, the queue is drained, a batch is written.
LEMMA Appended ==
    ASSUME NEW S, NEW p \in Seq(S), NEW f \in Seq(S), NEW b \in Seq(S), NEW q \in Seq(S),
           NEW x \in S, MadeUpOf(p, f, b, q)
    PROVE  MadeUpOf(Append(p, x), f, b, Append(q, x))
<1>. DEFINE pp == Append(p, x)
<1>. DEFINE qq == Append(q, x)
<1>. DEFINE nf == Len(f)
<1>. DEFINE nb == Len(b)
<1>. DEFINE nq == Len(q)
<1>. DEFINE np == Len(p)
<1>1. nf \in Nat /\ nb \in Nat /\ nq \in Nat /\ np \in Nat
  OBVIOUS
<1>2. /\ Len(pp) = np + 1 /\ Len(qq) = nq + 1
      /\ \A i \in 1..np : pp[i] = p[i]
      /\ \A i \in 1..nq : qq[i] = q[i]
      /\ pp[np + 1] = x /\ qq[nq + 1] = x
  BY AppendProperties
<1>. HIDE DEF pp, qq
<1>3. /\ np = nf + nb + nq
      /\ \A i \in 1..nf : p[i] = f[i]
      /\ \A i \in 1..nb : p[nf + i] = b[i]
      /\ \A i \in 1..nq : p[nf + nb + i] = q[i]
  BY DEF MadeUpOf
<1>. HIDE DEF nf, nb, nq, np
<1>4. ASSUME NEW i \in 1..nf
      PROVE  pp[i] = f[i]
  <2>1. i \in 1..np
    BY <1>1, <1>3
  <2>. QED
    BY <1>2, <1>3, <2>1
<1>5. ASSUME NEW i \in 1..nb
      PROVE  pp[nf + i] = b[i]
  <2>1. nf + i \in 1..np
    BY <1>1, <1>3
  <2>. QED
    BY <1>2, <1>3, <2>1
<1>6. ASSUME NEW i \in 1..(nq + 1)
      PROVE  pp[nf + nb + i] = qq[i]
  <2>1. CASE i \in 1..nq
    BY <1>1, <1>2, <1>3, <2>1
  <2>2. CASE i = nq + 1
    BY <1>1, <1>2, <1>3, <2>2
  <2>. QED
    BY <1>1, <2>1, <2>2
<1>7. Len(pp) = nf + nb + Len(qq)
  BY <1>1, <1>2, <1>3
<1>8. MadeUpOf(pp, f, b, qq)
  BY <1>2, <1>4, <1>5, <1>6, <1>7 DEF MadeUpOf, nf, nb
<1>. QED
  BY <1>8 DEF pp, qq

LEMMA Drained ==
    ASSUME NEW S, NEW p \in Seq(S), NEW f \in Seq(S), NEW q \in Seq(S),
           MadeUpOf(p, f, <<>>, q)
    PROVE  MadeUpOf(p, f, q, <<>>)
  BY DEF MadeUpOf

LEMMA Written ==
    ASSUME NEW S, NEW p \in Seq(S), NEW f \in Seq(S), NEW b \in Seq(S), NEW q \in Seq(S),
           MadeUpOf(p, f, b, q)
    PROVE  MadeUpOf(p, f \o b, <<>>, q)
<1>. DEFINE g == f \o b
<1>. DEFINE nf == Len(f)
<1>. DEFINE nb == Len(b)
<1>. DEFINE nq == Len(q)
<1>1. nf \in Nat /\ nb \in Nat /\ nq \in Nat
  OBVIOUS
<1>2. /\ Len(g) = nf + nb
      /\ \A i \in 1..(nf + nb) : g[i] = IF i <= nf THEN f[i] ELSE b[i - nf]
  BY ConcatProperties
<1>3. /\ Len(p) = nf + nb + nq
      /\ \A i \in 1..nf : p[i] = f[i]
      /\ \A i \in 1..nb : p[nf + i] = b[i]
      /\ \A i \in 1..nq : p[nf + nb + i] = q[i]
  BY DEF MadeUpOf
<1>. HIDE DEF g, nf, nb, nq
<1>4. ASSUME NEW i \in 1..Len(g)
      PROVE  p[i] = g[i]
  <2>1. CASE i <= nf
    BY <1>1, <1>2, <1>3, <2>1
  <2>2. CASE nf < i
    <3>. DEFINE j == i - nf
    <3>1. j \in 1..nb /\ i = nf + j /\ g[i] = b[j]
      BY <1>1, <1>2, <2>2
    <3>. HIDE DEF j
    <3>. QED
      BY <1>3, <3>1
  <2>. QED
    BY <1>1, <1>2, <2>1, <2>2
<1>5. /\ Len(<<>>) = 0 /\ Len(p) = Len(g) + 0 + nq
      /\ \A i \in 1..nq : p[Len(g) + 0 + i] = q[i]
  BY <1>1, <1>2, <1>3
<1>6. MadeUpOf(p, g, <<>>, q)
  BY <1>4, <1>5 DEF MadeUpOf, nq
<1>. QED
  BY <1>6 DEF g

LEMMA LongerBegins ==
    ASSUME NEW S, NEW p \in Seq(S), NEW f \in Seq(S), NEW x \in S, BeginsWith(p, f)
    PROVE  BeginsWith(Append(p, x), f)
<1>1. Len(Append(p, x)) = Len(p) + 1 /\ \A i \in 1..Len(p) : Append(p, x)[i] = p[i]
  BY AppendProperties
<1>2. Len(p) \in Nat /\ Len(f) \in Nat
  OBVIOUS
<1>. QED
  BY <1>1, <1>2 DEF BeginsWith

\* The first n records of a batch reach the file.
LEMMA PartWritten ==
    ASSUME NEW S, NEW p \in Seq(S), NEW f \in Seq(S), NEW b \in Seq(S), NEW q \in Seq(S),
           MadeUpOf(p, f, b, q), NEW n \in 0..Len(b)
    PROVE  BeginsWith(p, f \o SubSeq(b, 1, n))
<1>. DEFINE c == SubSeq(b, 1, n)
            g == f \o c
            nf == Len(f)
            nb == Len(b)
            nq == Len(q)
<1>1. nf \in Nat /\ nb \in Nat /\ nq \in Nat /\ n \in Nat /\ n <= nb
  OBVIOUS
<1>2. c \in Seq(S) /\ Len(c) = n /\ \A i \in 1..n : c[i] = b[i]
  <2>1. 1 \in Int /\ n \in Int /\ \A i \in 1..n : b[i] \in S
    OBVIOUS
  <2>2. /\ c \in Seq(S)
        /\ Len(c) = IF 1 <= n THEN n - 1 + 1 ELSE 0
        /\ \A i \in 1..(n - 1 + 1) : c[i] = b[1 + i - 1]
    BY <2>1, SubSeqProperties
  <2>. HIDE DEF c
  <2>3. n - 1 + 1 = n /\ (IF 1 <= n THEN n - 1 + 1 ELSE 0) = n
    BY <1>1
  <2>4. \A i \in 1..n : 1 + i - 1 = i
    OBVIOUS
  <2>. QED
    BY <2>2, <2>3, <2>4
<1>. HIDE DEF c
<1>3. /\ Len(g) = nf + n
      /\ \A i \in 1..(nf + n) : g[i] = IF i <= nf THEN f[i] ELSE c[i - nf]
  BY <1>2, ConcatProperties
<1>4. /\ Len(p) = nf + nb + nq
      /\ \A i \in 1..nf : p[i] = f[i]
      /\ \A i \in 1..nb : p[nf + i] = b[i]
  BY DEF MadeUpOf
<1>. HIDE DEF g, nf, nb, nq
<1>5. ASSUME NEW i \in 1..Len(g)
      PROVE  p[i] = g[i]
  <2>1. CASE i <= nf
    BY <1>1, <1>3, <1>4, <2>1
  <2>2. CASE nf < i
    <3>. DEFINE j == i - nf
    <3>1. j \in 1..n /\ j \in 1..nb /\ i = nf + j /\ g[i] = c[j]
      BY <1>1, <1>3, <2>2
    <3>. HIDE DEF j
    <3>. QED
      BY <1>2, <1>4, <3>1
  <2>. QED
    BY <1>1, <1>3, <2>1, <2>2
<1>6. BeginsWith(p, g)
  BY <1>1, <1>3, <1>4, <1>5 DEF BeginsWith
<1>. QED
  BY <1>6 DEF g, c

\* None of it, or all.
LEMMA NoneOrAll ==
    ASSUME NEW S, NEW f \in Seq(S), NEW b \in Seq(S)
    PROVE  f \o SubSeq(b, 1, 0) = f /\ SubSeq(b, 1, Len(b)) = b
<1>1. SubSeq(b, 1, 0) = <<>> /\ f \o <<>> = f
  OBVIOUS
<1>2. SubSeq(b, 1, Len(b)) = b
  BY SubSeqFull
<1>. QED
  BY <1>1, <1>2

-----------------------------------------------------------------------------
(* The invariant.                                                           *)

LEMMA Sizes == MaxRecords \in Nat /\ MaxInstances \in Nat \ {0} /\ Instances = 1..MaxInstances
  BY BoundAssumption DEF Instances

LEMMA NullIsNone == Null = 0 /\ Null \notin Instances
  BY DEF Null, Instances

LEMMA InitIInv == Init => IInv
<1>. SUFFICES ASSUME Init PROVE IInv
  OBVIOUS
<1>1. 1 \in Instances
  BY Sizes
<1>2. TypeOK
  <2>1. <<>> \in Seq(Records)
    OBVIOUS
  <2>2. /\ logs \in [Instances -> Seq(Records)] /\ pushed \in [Instances -> Seq(Records)]
        /\ file \in [Instances -> Seq(Records)] /\ batch \in [Instances -> Seq(Records)]
    BY <2>1 DEF Init
  <2>3. /\ instance \in Instances /\ made \in Instances /\ freed \subseteq Instances
        /\ quit \in [Instances -> BOOLEAN] /\ open \in [Instances -> BOOLEAN]
        /\ failed \in [Instances -> BOOLEAN]
        /\ wpc \in [Instances -> {"none", "ready", "asleep", "write", "last", "ended"}]
        /\ \A i \in Instances : wpc[i] \notin {"write", "last"}
    BY <1>1 DEF Init
  <2>4. /\ lpc \in [Loggers -> {"idle", "make", "given", "push"}]
        /\ ptr \in [Loggers -> Instances \cup {Null}]
        /\ begun \in [Loggers -> 0..MaxRecords]
        /\ ipc = "idle" /\ old = Null /\ dangled = FALSE
    BY Sizes DEF Init
  <2>. QED
    BY <2>2, <2>3, <2>4 DEF TypeOK
<1>3. Begun /\ HandsEmpty /\ Joined
  BY DEF Init, Begun, HandsEmpty, Joined
<1>4. Made
  <2>1. ASSUME NEW i \in Instances, i > 1 PROVE wpc[i] = "none" /\ ~failed[i]
    <3>1. i # 1
      BY <2>1, Sizes
    <3>. QED
      BY <3>1 DEF Init
  <2>. QED
    BY <1>1, <2>1 DEF Init, Made, Null
<1>5. Marked
  BY DEF Init, Marked
<1>6. Ordered
  BY DEF Init, Ordered, BeginsWith, MadeUpOf
<1>. QED
  BY <1>2, <1>3, <1>4, <1>5, <1>6 DEF IInv

\* Putting record x on the queue of instance j, which nobody keeps locked.
LEMMA Queued ==
    ASSUME IInv, NEW j, NEW x \in Records, ~Locked(j),
           logs' = [logs EXCEPT ![j] = Append(@, x)],
           pushed' = [pushed EXCEPT ![j] = Append(@, x)],
           Notify(j), UNCHANGED <<open, failed, batch, file>>,
           \A i \in Instances : quit'[i] = quit[i] \/ (i = j /\ x = End)
    PROVE  /\ logs' \in [Instances -> Seq(Records)] /\ pushed' \in [Instances -> Seq(Records)]
           /\ wpc' \in [Instances -> {"none", "ready", "asleep", "write", "last", "ended"}]
           /\ \A i \in Instances : wpc'[i] \in {"write", "last", "ended", "none"} =>
                                        wpc'[i] = wpc[i]
           /\ \A i \in Instances : wpc[i] \in {"write", "last", "ended", "none"} =>
                                        wpc'[i] = wpc[i]
           /\ HandsEmpty' /\ Marked' /\ Ordered'
<1>1. /\ logs \in [Instances -> Seq(Records)] /\ pushed \in [Instances -> Seq(Records)]
      /\ file \in [Instances -> Seq(Records)]
      /\ wpc \in [Instances -> {"none", "ready", "asleep", "write", "last", "ended"}]
      /\ batch \in [Instances -> Seq(Records)]
  BY DEF IInv, TypeOK
<1>2. logs' \in [Instances -> Seq(Records)] /\ pushed' \in [Instances -> Seq(Records)]
  <2>1. \A i \in Instances : /\ Append(logs[i], x) \in Seq(Records)
                              /\ Append(pushed[i], x) \in Seq(Records)
    BY <1>1, AppendProperties
  <2>. QED
    BY <1>1, <2>1
<1>3. \A i \in Instances :
        /\ logs'[i] = IF i = j THEN Append(logs[i], x) ELSE logs[i]
        /\ pushed'[i] = IF i = j THEN Append(pushed[i], x) ELSE pushed[i]
  BY <1>1
<1>4. /\ wpc' \in [Instances -> {"none", "ready", "asleep", "write", "last", "ended"}]
      /\ \A i \in Instances : wpc'[i] # wpc[i] => wpc[i] = "asleep" /\ wpc'[i] = "ready"
  BY <1>1 DEF Notify
<1>5. HandsEmpty'
  BY <1>4 DEF IInv, HandsEmpty
<1>6. ASSUME NEW i \in Instances, quit'[i], wpc'[i] \notin {"last", "ended"}
      PROVE  Contains(logs'[i], End)
  <2>1. wpc[i] \notin {"last", "ended"} /\ logs[i] \in Seq(Records)
    BY <1>1, <1>4, <1>6
  <2>2. CASE quit'[i] = quit[i]
    <3>1. Contains(logs[i], End)
      BY <1>6, <2>1, <2>2 DEF IInv, Marked
    <3>2. Contains(Append(logs[i], x), End)
      BY <2>1, <3>1, Longer
    <3>. QED
      BY <1>3, <3>1, <3>2
  <2>3. CASE i = j /\ x = End
    <3>1. Contains(Append(logs[i], x), x)
      BY <2>1, AtItsEnd
    <3>. QED
      BY <1>3, <2>3, <3>1
  <2>. QED
    BY <2>2, <2>3
<1>7. \A i \in Instances : wpc'[i] = "last" => Contains(batch'[i], End)
  BY <1>4 DEF IInv, Marked
<1>8. \A i \in Instances :
        /\ wpc'[i] = "ended" => ~open'[i]
        /\ wpc'[i] = "ended" /\ ~failed'[i] => Contains(file'[i], End)
  BY <1>4 DEF IInv, Marked
<1>9. Marked'
  BY <1>6, <1>7, <1>8 DEF Marked
<1>10. ASSUME NEW i \in Instances
       PROVE  /\ BeginsWith(pushed'[i], file'[i])
              /\ ~failed'[i] => MadeUpOf(pushed'[i], file'[i], batch'[i], logs'[i])
  <2>1. /\ BeginsWith(pushed[i], file[i])
        /\ ~failed[i] => MadeUpOf(pushed[i], file[i], batch[i], logs[i])
    BY DEF IInv, Ordered
  <2>2. /\ pushed[i] \in Seq(Records) /\ file[i] \in Seq(Records)
        /\ batch[i] \in Seq(Records) /\ logs[i] \in Seq(Records)
    BY <1>1
  <2>3. /\ BeginsWith(Append(pushed[i], x), file[i])
        /\ ~failed[i] =>
             MadeUpOf(Append(pushed[i], x), file[i], batch[i], Append(logs[i], x))
    BY <2>1, <2>2, LongerBegins, Appended
  <2>. QED
    BY <1>3, <2>1, <2>3
<1>. QED
  BY <1>2, <1>4, <1>5, <1>9, <1>10 DEF Ordered

\* A new instance begins with what its slot has held since the start.
LEMMA Constructed ==
    ASSUME IInv, Construct
    PROVE  /\ made' = made + 1 /\ instance' = made' /\ made' \in Instances
           /\ made' \notin freed /\ freed' = freed /\ wpc[made'] = "none"
           /\ open' \in [Instances -> BOOLEAN]
           /\ wpc' \in [Instances -> {"none", "ready", "asleep", "write", "last", "ended"}]
           /\ wpc'[made'] = "ready"
           /\ failed' \in [Instances -> BOOLEAN] /\ ~failed[made']
           /\ \A i \in Instances : i # made' => wpc'[i] = wpc[i] /\ open'[i] = open[i]
                                                /\ failed'[i] = failed[i]
           /\ UNCHANGED <<logs, quit, batch, file, pushed>>
<1>1. made \in Instances /\ made < MaxInstances
  BY DEF Construct, IInv, TypeOK
<1>2. made' = made + 1 /\ made' \in Instances /\ made' > made
  BY <1>1, Sizes DEF Construct
<1>3. made' \notin freed /\ wpc[made'] = "none" /\ ~failed[made']
  BY <1>1, <1>2, Sizes DEF IInv, Made
<1>4. /\ \E b \in BOOLEAN : open' = [open EXCEPT ![made'] = b]
      /\ failed' = [failed EXCEPT ![made'] = ~open'[made']]
  BY DEF Construct
<1>5. /\ open' \in [Instances -> BOOLEAN] /\ failed' \in [Instances -> BOOLEAN]
      /\ \A i \in Instances : i # made' => open'[i] = open[i] /\ failed'[i] = failed[i]
  BY <1>2, <1>4 DEF IInv, TypeOK
<1>. QED
  BY <1>2, <1>3, <1>5 DEF Construct, IInv, TypeOK

-----------------------------------------------------------------------------
(* One lemma for each kind of step.                                         *)

\* What every conjunct but the queues' own reads.
LEMMA Types ==
    ASSUME IInv
    PROVE  /\ logs \in [Instances -> Seq(Records)] /\ pushed \in [Instances -> Seq(Records)]
           /\ file \in [Instances -> Seq(Records)] /\ batch \in [Instances -> Seq(Records)]
           /\ quit \in [Instances -> BOOLEAN] /\ open \in [Instances -> BOOLEAN]
           /\ failed \in [Instances -> BOOLEAN]
           /\ wpc \in [Instances -> {"none", "ready", "asleep", "write", "last", "ended"}]
           /\ lpc \in [Loggers -> {"idle", "make", "given", "push"}]
           /\ ptr \in [Loggers -> Instances \cup {Null}]
           /\ begun \in [Loggers -> 0..MaxRecords]
  BY DEF IInv, TypeOK

\* A logger's steps that leave queues, writers and instances alone.
LEMMA LoggerMoves ==
    ASSUME IInv, NEW t \in Loggers, GetInstance(t) \/ CheckOpen(t) \/ Dangle(t)
    PROVE  IInv'
<1>1. UNCHANGED <<instVars, queueVars, initVars>>
  BY DEF GetInstance, CheckOpen, Dangle, instVars, queueVars
<1>2. UNCHANGED <<instance, made, freed, logs, quit, open, failed, batch, file, wpc,
                 pushed, ipc, old>>
  BY <1>1 DEF instVars, queueVars, initVars
<1>3. Made' /\ HandsEmpty' /\ Marked' /\ Joined' /\ Ordered'
  BY <1>2 DEF IInv, Made, HandsEmpty, Marked, Joined, Ordered
<1>4. /\ lpc' \in [Loggers -> {"idle", "make", "given", "push"}]
      /\ ptr' \in [Loggers -> Instances \cup {Null}]
      /\ begun' \in [Loggers -> 0..MaxRecords]
      /\ \A u \in Loggers : lpc'[u] # "idle" => begun'[u] \in 1..MaxRecords
      /\ dangled' \in BOOLEAN
  <2>1. instance \in Instances \cup {Null} /\ dangled \in BOOLEAN
        /\ \A u \in Loggers : lpc[u] # "idle" => begun[u] \in 1..MaxRecords
    BY DEF IInv, TypeOK, Begun
  <2>2. CASE GetInstance(t)
    BY <2>1, <2>2, Types, Sizes DEF GetInstance
  <2>3. CASE CheckOpen(t)
    BY <2>1, <2>3, Types, Sizes DEF CheckOpen
  <2>4. CASE Dangle(t)
    BY <2>1, <2>4, Types, Sizes DEF Dangle
  <2>. QED
    BY <2>2, <2>3, <2>4
<1>5. TypeOK'
  BY <1>2, <1>4 DEF IInv, TypeOK
<1>. QED
  BY <1>3, <1>4, <1>5 DEF IInv, Begun

\* A logger puts its record on the queue.
LEMMA PushKeeps ==
    ASSUME IInv, NEW t \in Loggers, Push(t)
    PROVE  IInv'
<1>1. Current(t) \in Records
  BY DEF Push, IInv, Begun, Current, Records
<1>2. UNCHANGED <<instance, made, freed, quit, open, failed, batch, file, ipc, old, ptr,
                 begun, dangled>>
  BY DEF Push, instVars, initVars
<1>3. /\ logs' = [logs EXCEPT ![ptr[t]] = Append(@, Current(t))]
      /\ pushed' = [pushed EXCEPT ![ptr[t]] = Append(@, Current(t))]
      /\ Notify(ptr[t]) /\ ~Locked(ptr[t])
      /\ lpc' = [lpc EXCEPT ![t] = "idle"]
  BY DEF Push
<1>4. /\ logs' \in [Instances -> Seq(Records)] /\ pushed' \in [Instances -> Seq(Records)]
      /\ wpc' \in [Instances -> {"none", "ready", "asleep", "write", "last", "ended"}]
      /\ \A i \in Instances : wpc'[i] \in {"write", "last", "ended", "none"} =>
                                   wpc'[i] = wpc[i]
      /\ \A i \in Instances : wpc[i] \in {"write", "last", "ended", "none"} =>
                                   wpc'[i] = wpc[i]
      /\ HandsEmpty' /\ Marked' /\ Ordered'
  <2>. DEFINE j == ptr[t]
  <2>. DEFINE x == Current(t)
  <2>1. x \in Records /\ ~Locked(j)
        /\ logs' = [logs EXCEPT ![j] = Append(@, x)]
        /\ pushed' = [pushed EXCEPT ![j] = Append(@, x)]
        /\ Notify(j) /\ UNCHANGED <<open, failed, batch, file>>
        /\ \A i \in Instances : quit'[i] = quit[i] \/ (i = j /\ x = End)
    BY <1>1, <1>2, <1>3
  <2>. HIDE DEF j, x
  <2>. QED
    BY <2>1, Queued
<1>5. Made' /\ Joined'
  <2>1. freed \subseteq Instances
    BY DEF IInv, TypeOK
  <2>. QED
    BY <1>2, <1>4, <2>1 DEF IInv, Made, Joined
<1>6. Begun' /\ lpc' \in [Loggers -> {"idle", "make", "given", "push"}]
  BY <1>2, <1>3, Types DEF IInv, Begun
<1>7. TypeOK'
  BY <1>2, <1>4, <1>6 DEF IInv, TypeOK
<1>. QED
  BY <1>4, <1>5, <1>6, <1>7 DEF IInv

\* init puts the end marker on the queue.
LEMMA PushEndKeeps ==
    ASSUME IInv, PushEnd
    PROVE  IInv'
<1>1. End \in Records
  BY DEF Records
<1>2. /\ UNCHANGED <<instance, made, freed, open, failed, batch, file, lpc, ptr, begun,
                    dangled>>
      /\ old' = instance /\ ipc = "end" /\ ipc' = "join"
      /\ quit' = [quit EXCEPT ![instance] = TRUE]
  BY DEF PushEnd, instVars, logVars
<1>3. /\ logs' = [logs EXCEPT ![instance] = Append(@, End)]
      /\ pushed' = [pushed EXCEPT ![instance] = Append(@, End)]
      /\ Notify(instance) /\ ~Locked(instance)
      /\ \A i \in Instances : quit'[i] = quit[i] \/ (i = instance /\ End = End)
      /\ quit' \in [Instances -> BOOLEAN]
  BY <1>2, Types DEF PushEnd
<1>4. /\ logs' \in [Instances -> Seq(Records)] /\ pushed' \in [Instances -> Seq(Records)]
      /\ wpc' \in [Instances -> {"none", "ready", "asleep", "write", "last", "ended"}]
      /\ \A i \in Instances : wpc'[i] \in {"write", "last", "ended", "none"} =>
                                   wpc'[i] = wpc[i]
      /\ \A i \in Instances : wpc[i] \in {"write", "last", "ended", "none"} =>
                                   wpc'[i] = wpc[i]
      /\ HandsEmpty' /\ Marked' /\ Ordered'
  BY <1>1, <1>2, <1>3, Queued
<1>5. Made' /\ Joined'
  <2>1. freed \subseteq Instances
    BY DEF IInv, TypeOK
  <2>. QED
    BY <1>2, <1>4, <2>1 DEF IInv, Made, Joined
<1>6. Begun'
  BY <1>2 DEF IInv, Begun
<1>7. TypeOK'
  BY <1>2, <1>3, <1>4 DEF IInv, TypeOK
<1>. QED
  BY <1>4, <1>5, <1>6, <1>7 DEF IInv

\* The invariant over what a new instance changes.
LEMMA ConstructKeeps ==
    ASSUME IInv, Construct, UNCHANGED <<begun, dangled, old>>,
           lpc' \in [Loggers -> {"idle", "make", "given", "push"}],
           ptr' \in [Loggers -> Instances \cup {Null}],
           \A t \in Loggers : lpc'[t] # "idle" => lpc[t] # "idle",
           ipc' \in {"idle", "end", "join", "null", "make", "aborted"},
           ipc' \in {"end", "join"} => ipc' = ipc
    PROVE  IInv'
<1>1. /\ made' = made + 1 /\ instance' = made' /\ made' \in Instances
      /\ made' \notin freed /\ freed' = freed /\ wpc[made'] = "none"
      /\ open' \in [Instances -> BOOLEAN]
      /\ wpc' \in [Instances -> {"none", "ready", "asleep", "write", "last", "ended"}]
      /\ wpc'[made'] = "ready"
      /\ failed' \in [Instances -> BOOLEAN] /\ ~failed[made']
      /\ \A i \in Instances : i # made' => wpc'[i] = wpc[i] /\ open'[i] = open[i]
                                           /\ failed'[i] = failed[i]
      /\ UNCHANGED <<logs, quit, batch, file, pushed>>
  BY Constructed
<1>2. \A i \in Instances : wpc'[i] \in {"write", "last", "ended"} =>
                             /\ wpc'[i] = wpc[i] /\ open'[i] = open[i]
                             /\ failed'[i] = failed[i]
  BY <1>1
<1>3. HandsEmpty'
  BY <1>1 DEF IInv, HandsEmpty
<1>4. Marked'
  <2>1. \A i \in Instances : wpc'[i] \notin {"last", "ended"} =>
                               wpc[i] \notin {"last", "ended"}
    BY <1>1
  <2>. QED
    BY <1>1, <1>2, <2>1 DEF IInv, Marked
<1>5. Joined' /\ Ordered'
  <2>1. freed \subseteq Instances
    BY DEF IInv, TypeOK
  <2>. QED
    BY <1>1, <2>1 DEF IInv, Joined, Ordered
<1>6. Made'
  <2>1. made \in Nat /\ made' \in Nat
    BY <1>1, Sizes DEF IInv, TypeOK
  <2>2. instance' \in 0..made' /\ old' \in 0..made' /\ freed' \subseteq 1..made'
    BY <1>1, <2>1 DEF IInv, Made
  <2>3. ASSUME NEW i \in Instances, i > made' PROVE wpc'[i] = "none" /\ ~failed'[i]
    BY <1>1, <2>1, <2>3, Sizes DEF IInv, Made
  <2>4. instance' # Null
    BY <1>1, NullIsNone
  <2>. QED
    BY <2>2, <2>3, <2>4 DEF IInv, Made
<1>7. Begun'
  BY DEF IInv, Begun
<1>8. TypeOK'
  BY <1>1, <1>2 DEF IInv, TypeOK
<1>. QED
  BY <1>3, <1>4, <1>5, <1>6, <1>7, <1>8 DEF IInv

\* The writer falls asleep or wakes up.
LEMMA SleepKeeps ==
    ASSUME IInv, NEW i \in Instances, Sleep(i) \/ Spurious(i)
    PROVE  IInv'
<1>1. /\ UNCHANGED <<instance, made, freed, logs, quit, open, failed, batch, file, pushed,
                     lpc, ptr, begun, dangled, ipc, old>>
      /\ wpc[i] \in {"ready", "asleep"}
      /\ \E c \in {"ready", "asleep"} : wpc' = [wpc EXCEPT ![i] = c]
  BY DEF Sleep, Spurious, instVars, logVars, initVars
<1>2. /\ wpc' \in [Instances -> {"none", "ready", "asleep", "write", "last", "ended"}]
      /\ \A k \in Instances : \/ wpc'[k] = wpc[k]
                              \/ wpc'[k] \in {"ready", "asleep"}
                                   /\ wpc[k] \in {"ready", "asleep"}
  BY <1>1, Types
<1>3. HandsEmpty' /\ Marked' /\ Ordered'
  BY <1>1, <1>2 DEF IInv, HandsEmpty, Marked, Ordered
<1>4. Made' /\ Joined' /\ Begun'
  <2>1. freed \subseteq Instances
    BY DEF IInv, TypeOK
  <2>. QED
    BY <1>1, <1>2, <2>1 DEF IInv, Made, Joined, Begun
<1>5. TypeOK'
  BY <1>1, <1>2 DEF IInv, TypeOK
<1>. QED
  BY <1>3, <1>4, <1>5 DEF IInv

\* The writer takes the whole queue into its hands.
LEMMA DrainKeeps ==
    ASSUME IInv, NEW i \in Instances, Drain(i)
    PROVE  IInv'
<1>1. /\ UNCHANGED <<instance, made, freed, quit, open, failed, file, pushed,
                     lpc, ptr, begun, dangled, ipc, old>>
      /\ wpc[i] = "ready" /\ logs[i] # <<>>
      /\ batch' = [batch EXCEPT ![i] = logs[i]] /\ logs' = [logs EXCEPT ![i] = <<>>]
      /\ wpc' = [wpc EXCEPT ![i] = IF quit[i] THEN "last" ELSE "write"]
  BY DEF Drain, instVars, logVars, initVars
<1>2. /\ \A k \in Instances : k # i => wpc'[k] = wpc[k] /\ batch'[k] = batch[k]
                                         /\ logs'[k] = logs[k]
      /\ batch'[i] = logs[i] /\ logs'[i] = <<>>
      /\ wpc'[i] = IF quit[i] THEN "last" ELSE "write"
  BY <1>1, Types
<1>3. /\ logs' \in [Instances -> Seq(Records)] /\ batch' \in [Instances -> Seq(Records)]
      /\ wpc' \in [Instances -> {"none", "ready", "asleep", "write", "last", "ended"}]
  <2>1. <<>> \in Seq(Records)
    OBVIOUS
  <2>2. logs[i] \in Seq(Records)
    BY Types
  <2>3. logs' \in [Instances -> Seq(Records)] /\ batch' \in [Instances -> Seq(Records)]
    BY <1>1, <2>1, <2>2, Types
  <2>4. wpc' \in [Instances -> {"none", "ready", "asleep", "write", "last", "ended"}]
    BY <1>1, Types
  <2>. QED
    BY <2>3, <2>4
<1>4. HandsEmpty'
  BY <1>2 DEF IInv, HandsEmpty
<1>5. Marked'
  <2>1. quit[i] => Contains(batch'[i], End)
    BY <1>1, <1>2 DEF IInv, Marked
  <2>2. \A k \in Instances :
          quit'[k] /\ wpc'[k] \notin {"last", "ended"} => Contains(logs'[k], End)
    BY <1>1, <1>2 DEF IInv, Marked
  <2>3. \A k \in Instances : wpc'[k] = "last" => Contains(batch'[k], End)
    BY <1>1, <1>2, <2>1 DEF IInv, Marked
  <2>4. \A k \in Instances :
          /\ wpc'[k] = "ended" => ~open'[k]
          /\ wpc'[k] = "ended" /\ ~failed'[k] => Contains(file'[k], End)
    BY <1>1, <1>2 DEF IInv, Marked
  <2>. QED
    BY <2>2, <2>3, <2>4 DEF Marked
<1>6. Ordered'
  <2>1. ~failed[i] => MadeUpOf(pushed[i], file[i], <<>>, logs[i])
    BY <1>1 DEF IInv, Ordered, HandsEmpty
  <2>2. pushed[i] \in Seq(Records) /\ file[i] \in Seq(Records) /\ logs[i] \in Seq(Records)
    BY Types
  <2>3. ~failed[i] => MadeUpOf(pushed[i], file[i], logs[i], <<>>)
    BY <2>1, <2>2, Drained
  <2>4. ~failed'[i] => MadeUpOf(pushed'[i], file'[i], batch'[i], logs'[i])
    BY <1>1, <1>2, <2>3
  <2>. QED
    BY <1>1, <1>2, <2>4 DEF IInv, Ordered
<1>7. Made' /\ Joined' /\ Begun'
  <2>1. freed \subseteq Instances /\ made \in Nat
    BY Sizes DEF IInv, TypeOK
  <2>2. i \notin freed /\ ~(i > made)
    BY <1>1 DEF IInv, Joined, Made
  <2>. QED
    BY <1>1, <1>2, <2>1, <2>2 DEF IInv, Made, Joined, Begun
<1>8. TypeOK'
  <2>1. \A k \in Instances : wpc'[k] \in {"write", "last"} => batch'[k] # <<>>
    BY <1>1, <1>2 DEF IInv, TypeOK
  <2>. QED
    BY <1>1, <1>3, <2>1 DEF IInv, TypeOK
<1>. QED
  BY <1>4, <1>5, <1>6, <1>7, <1>8 DEF IInv

\* The writer writes what it holds, for the last time or not.
LEMMA WriteKeeps ==
    ASSUME IInv, NEW i \in Instances, Write(i) \/ WriteLast(i)
    PROVE  IInv'
<1>1. /\ UNCHANGED <<instance, made, freed, quit, logs, pushed,
                     lpc, ptr, begun, dangled, ipc, old>>
      /\ Put(i)
      /\ batch' = [batch EXCEPT ![i] = <<>>]
      /\ \/ wpc[i] = "write" /\ wpc' = [wpc EXCEPT ![i] = "ready"] /\ open' = open
         \/ /\ wpc[i] = "last" /\ wpc' = [wpc EXCEPT ![i] = "ended"]
            /\ open' = [open EXCEPT ![i] = FALSE]
  BY DEF Write, WriteLast, instVars, logVars, initVars
<1>2. PICK n \in 0..Len(batch[i]) :
        /\ failed[i] => n = 0
        /\ file' = [file EXCEPT ![i] = @ \o SubSeq(batch[i], 1, n)]
        /\ failed' = [failed EXCEPT ![i] = @ \/ n < Len(batch[i])]
  BY <1>1 DEF Put
<1>3. /\ \A k \in Instances : k # i => wpc'[k] = wpc[k] /\ batch'[k] = batch[k]
                                         /\ file'[k] = file[k] /\ open'[k] = open[k]
                                         /\ failed'[k] = failed[k]
      /\ batch'[i] = <<>> /\ file'[i] = file[i] \o SubSeq(batch[i], 1, n)
      /\ failed'[i] = (failed[i] \/ n < Len(batch[i]))
      /\ \/ wpc[i] = "write" /\ wpc'[i] = "ready"
         \/ wpc[i] = "last" /\ wpc'[i] = "ended" /\ ~open'[i]
  BY <1>1, <1>2, Types
<1>4. file[i] \in Seq(Records) /\ batch[i] \in Seq(Records) /\ logs[i] \in Seq(Records)
      /\ pushed[i] \in Seq(Records)
  BY Types
<1>5. /\ file[i] \o SubSeq(batch[i], 1, n) \in Seq(Records)
      /\ failed[i] => file'[i] = file[i]
      /\ ~failed'[i] => ~failed[i] /\ file'[i] = file[i] \o batch[i]
  <2>. DEFINE b == batch[i]
  <2>1. b \in Seq(Records) /\ n \in 0..Len(b) /\ Len(b) \in Nat
    BY <1>4
  <2>2. SubSeq(b, 1, n) \in Seq(Records)
    <3>1. 1 \in Int /\ n \in Int /\ \A k \in 1..n : b[k] \in Records
      BY <2>1
    <3>. HIDE DEF b
    <3>. QED
      BY <2>1, <3>1, SubSeqProperties
  <2>3. file[i] \o SubSeq(b, 1, 0) = file[i] /\ SubSeq(b, 1, Len(b)) = b
    BY <1>4, <2>1, NoneOrAll
  <2>4. failed[i] => n = 0
    BY <1>2
  <2>5. ~(n < Len(b)) => n = Len(b)
    BY <2>1
  <2>. HIDE DEF b
  <2>6. file[i] \o SubSeq(b, 1, n) \in Seq(Records)
    BY <1>4, <2>2, ConcatProperties
  <2>7. failed[i] => file'[i] = file[i]
    BY <1>3, <2>3, <2>4 DEF b
  <2>8. ~failed'[i] => ~failed[i] /\ n = Len(b)
    BY <1>3, <2>5 DEF b
  <2>9. n = Len(b) => file'[i] = file[i] \o b
    BY <1>3, <2>3 DEF b
  <2>. QED
    BY <2>6, <2>7, <2>8, <2>9 DEF b
<1>6. /\ file' \in [Instances -> Seq(Records)] /\ batch' \in [Instances -> Seq(Records)]
      /\ failed' \in [Instances -> BOOLEAN]
      /\ open' \in [Instances -> BOOLEAN]
      /\ wpc' \in [Instances -> {"none", "ready", "asleep", "write", "last", "ended"}]
  <2>1. <<>> \in Seq(Records)
    OBVIOUS
  <2>2. /\ file' \in [Instances -> Seq(Records)] /\ batch' \in [Instances -> Seq(Records)]
        /\ failed' \in [Instances -> BOOLEAN]
    <3>. DEFINE g == file[i] \o SubSeq(batch[i], 1, n)
                c == failed[i] \/ n < Len(batch[i])
    <3>1. file' = [file EXCEPT ![i] = g] /\ failed' = [failed EXCEPT ![i] = c]
      BY <1>2
    <3>2. g \in Seq(Records) /\ c \in BOOLEAN
      BY <1>5
    <3>. HIDE DEF g, c
    <3>. QED
      BY <1>1, <2>1, <3>1, <3>2, Types
  <2>3. wpc' \in [Instances -> {"none", "ready", "asleep", "write", "last", "ended"}]
    BY <1>1, Types
  <2>4. open' \in [Instances -> BOOLEAN]
    BY <1>1, Types
  <2>. QED
    BY <2>2, <2>3, <2>4
<1>7. HandsEmpty'
  BY <1>3 DEF IInv, HandsEmpty
<1>8. Marked'
  <2>1. \A k \in Instances :
          quit'[k] /\ wpc'[k] \notin {"last", "ended"} => Contains(logs'[k], End)
    BY <1>1, <1>3 DEF IInv, Marked
  <2>2. \A k \in Instances : wpc'[k] = "last" => Contains(batch'[k], End)
    BY <1>1, <1>3 DEF IInv, Marked
  <2>3. wpc[i] = "last" /\ ~failed'[i] => Contains(file'[i], End)
    <3>1. wpc[i] = "last" => Contains(batch[i], End)
      BY DEF IInv, Marked
    <3>2. Contains(batch[i], End) => Contains(file[i] \o batch[i], End)
      BY <1>4, InEither
    <3>. QED
      BY <1>5, <3>1, <3>2
  <2>4. \A k \in Instances :
          /\ wpc'[k] = "ended" => ~open'[k]
          /\ wpc'[k] = "ended" /\ ~failed'[k] => Contains(file'[k], End)
    BY <1>3, <2>3 DEF IInv, Marked
  <2>. QED
    BY <2>1, <2>2, <2>4 DEF Marked
<1>9. Ordered'
  <2>1. /\ BeginsWith(pushed[i], file[i])
        /\ ~failed[i] => MadeUpOf(pushed[i], file[i], batch[i], logs[i])
    BY DEF IInv, Ordered
  <2>2. ~failed'[i] => MadeUpOf(pushed'[i], file'[i], batch'[i], logs'[i])
    <3>1. ~failed[i] => MadeUpOf(pushed[i], file[i] \o batch[i], <<>>, logs[i])
      BY <1>4, <2>1, Written
    <3>. QED
      BY <1>1, <1>3, <1>5, <3>1
  <2>3. BeginsWith(pushed'[i], file'[i])
    <3>1. CASE failed[i]
      BY <1>1, <1>5, <2>1, <3>1
    <3>2. CASE ~failed[i]
      <4>1. BeginsWith(pushed[i], file[i] \o SubSeq(batch[i], 1, n))
        BY <1>4, <1>2, <2>1, <3>2, PartWritten
      <4>. QED
        BY <1>1, <1>3, <4>1
    <3>. QED
      BY <3>1, <3>2
  <2>. QED
    BY <1>1, <1>3, <2>2, <2>3 DEF IInv, Ordered
<1>10. Made' /\ Joined' /\ Begun'
  <2>1. freed \subseteq Instances /\ made \in Nat
    BY Sizes DEF IInv, TypeOK
  <2>2. i \notin freed /\ ~(i > made)
    BY <1>3 DEF IInv, Joined, Made
  <2>. QED
    BY <1>1, <1>3, <2>1, <2>2 DEF IInv, Made, Joined, Begun
<1>11. TypeOK'
  <2>1. \A k \in Instances : wpc'[k] \in {"write", "last"} => batch'[k] # <<>>
    BY <1>3 DEF IInv, TypeOK
  <2>. QED
    BY <1>1, <1>6, <2>1 DEF IInv, TypeOK
<1>. QED
  BY <1>7, <1>8, <1>9, <1>10, <1>11 DEF IInv

\* The steps of init that leave queues and writers alone.
LEMMA InitMoves ==
    ASSUME IInv, CallInit \/ Delete \/ Abort \/ SetNull
    PROVE  IInv'
<1>1. /\ UNCHANGED <<made, logs, quit, open, failed, batch, file, wpc, pushed,
                     lpc, ptr, begun, dangled, old>>
      /\ ipc' \in {"end", "null", "make", "aborted"}
  BY DEF CallInit, Delete, Abort, SetNull, instVars, queueVars, logVars
<1>2. HandsEmpty' /\ Marked' /\ Ordered' /\ Begun'
  BY <1>1 DEF IInv, HandsEmpty, Marked, Ordered, Begun
<1>3. made \in Instances /\ made \in Nat /\ freed \subseteq Instances
  BY Sizes DEF IInv, TypeOK
<1>4. /\ instance' = instance \/ instance' = Null
      /\ ipc' = "end" => instance' = instance /\ instance # Null
      /\ freed' = freed \/ (/\ freed' = freed \cup {old} /\ instance = old
                            /\ ipc = "join" /\ wpc[old] = "ended")
  BY DEF CallInit, Delete, Abort, SetNull, instVars
<1>5. ipc = "join" => old \in 1..made /\ old \in Instances
  BY <1>3, NullIsNone, Sizes DEF IInv, Made, TypeOK
<1>6. Made'
  <2>1. instance' \in 0..made /\ old \in 0..made
    BY <1>3, <1>4, NullIsNone DEF IInv, Made
  <2>2. freed' \subseteq 1..made
    BY <1>4, <1>5 DEF IInv, Made
  <2>3. \A i \in Instances : i > made => wpc[i] = "none" /\ ~failed[i]
    BY DEF IInv, Made
  <2>. QED
    BY <1>1, <1>4, <2>1, <2>2, <2>3 DEF Made
<1>7. Joined'
  BY <1>1, <1>4 DEF IInv, Joined
<1>8. TypeOK'
  <2>1. instance' \in Instances \cup {Null} /\ freed' \subseteq Instances
    BY <1>3, <1>4, <1>5 DEF IInv, TypeOK
  <2>. QED
    BY <1>1, <2>1 DEF IInv, TypeOK
<1>. QED
  BY <1>2, <1>6, <1>7, <1>8 DEF IInv

\* An instance is made, by init or by a logger that found none.
LEMMA Makes ==
    ASSUME IInv, MakeNew \/ (\E t \in Loggers : MakeDefault(t))
    PROVE  IInv'
<1>1. CASE MakeNew
  <2>1. /\ UNCHANGED <<lpc, ptr, begun, dangled, old>>
        /\ ipc = "make" /\ ipc' = "idle"
    BY <1>1 DEF MakeNew, logVars
  <2>2. CASE Construct
    BY <2>1, <2>2, ConstructKeeps, Types
  <2>3. CASE UNCHANGED <<instVars, queueVars>>
    <3>1. UNCHANGED <<instance, made, freed, logs, quit, open, failed, batch, file, wpc, pushed>>
      BY <2>3 DEF instVars, queueVars
    <3>2. HandsEmpty' /\ Marked' /\ Ordered' /\ Begun' /\ Joined'
      BY <2>1, <3>1 DEF IInv, HandsEmpty, Marked, Ordered, Begun, Joined
    <3>3. Made'
      BY <2>1, <3>1 DEF IInv, Made
    <3>4. TypeOK'
      BY <2>1, <3>1 DEF IInv, TypeOK
    <3>. QED
      BY <3>2, <3>3, <3>4 DEF IInv
  <2>. QED
    BY <1>1, <2>2, <2>3 DEF MakeNew
<1>2. CASE \E t \in Loggers : MakeDefault(t)
  <2>1. PICK t \in Loggers : MakeDefault(t)
    BY <1>2
  <2>2. /\ Construct /\ UNCHANGED <<begun, dangled, old, ipc>>
        /\ lpc[t] = "make" /\ lpc' = [lpc EXCEPT ![t] = "given"]
        /\ ptr' = [ptr EXCEPT ![t] = instance']
    BY <2>1 DEF MakeDefault, initVars
  <2>3. instance' \in Instances
    BY <2>2, Constructed
  <2>4. /\ lpc' \in [Loggers -> {"idle", "make", "given", "push"}]
        /\ ptr' \in [Loggers -> Instances \cup {Null}]
        /\ \A u \in Loggers : lpc'[u] # "idle" => lpc[u] # "idle"
    BY <2>2, <2>3, Types
  <2>5. ipc \in {"idle", "end", "join", "null", "make", "aborted"}
    BY DEF IInv, TypeOK
  <2>. QED
    BY <2>2, <2>4, <2>5, ConstructKeeps
<1>. QED
  BY <1>1, <1>2

-----------------------------------------------------------------------------
(* The theorems.                                                            *)

LEMMA NextIInv == IInv /\ [Next]_vars => IInv'
<1>. SUFFICES ASSUME IInv, [Next]_vars PROVE IInv'
  OBVIOUS
<1>1. CASE \E t \in Loggers : Log(t)
  BY <1>1, LoggerMoves, Makes, PushKeeps DEF Log
<1>2. CASE \E i \in Instances : Writer(i) \/ Spurious(i)
  BY <1>2, SleepKeeps, DrainKeeps, WriteKeeps DEF Writer
<1>3. CASE CallInit \/ Restart
  BY <1>3, InitMoves, PushEndKeeps, Makes DEF Restart
<1>4. CASE UNCHANGED vars
  <2>1. UNCHANGED <<instance, made, freed, logs, quit, open, failed, batch, file, wpc, pushed,
                    lpc, ptr, begun, dangled, ipc, old>>
    BY <1>4 DEF vars, instVars, queueVars, logVars, initVars
  <2>. QED
    BY <2>1 DEF IInv, TypeOK, Begun, Made, HandsEmpty, Marked, Joined, Ordered
<1>. QED
  BY <1>1, <1>2, <1>3, <1>4 DEF Next

\* The inductive invariant holds in every reachable state of the log.
THEOREM Invariance == Spec => []IInv
  BY InitIInv, NextIInv, PTL DEF Spec

\* Every variable keeps to its type (all of logutils.h's state).
THEOREM TypeInvariant == Spec => []TypeOK
<1>1. IInv => TypeOK
  BY DEF IInv
<1>. QED
  BY <1>1, Invariance, PTL

\* No record is lost, doubled or overtaken between log and the file, whatever is
\* logged while the writer writes; and what a failed file lacks is the end
\* (logutils.h).
THEOREM RecordsInOrder == Spec => []InOrder
<1>1. IInv => InOrder
  <2>. SUFFICES ASSUME IInv, NEW i \in Instances
                PROVE  /\ IsPrefix(file[i], pushed[i])
                       /\ ~failed[i] => pushed[i] = file[i] \o (batch[i] \o logs[i])
    BY DEF InOrder
  <2>. DEFINE p == pushed[i]
  <2>. DEFINE f == file[i]
  <2>. DEFINE b == batch[i]
  <2>. DEFINE q == logs[i]
  <2>1. /\ p \in Seq(Records) /\ f \in Seq(Records) /\ b \in Seq(Records)
        /\ q \in Seq(Records) /\ BeginsWith(p, f) /\ (~failed[i] => MadeUpOf(p, f, b, q))
    BY Types DEF IInv, Ordered
  <2>. HIDE DEF p, f, b, q
  <2>2. ~failed[i] => p = f \o (b \o q)
    BY <2>1, PutTogether
  <2>3. IsPrefix(f, p)
    <3>. DEFINE n == Len(f)
    <3>1. n \in Nat /\ Len(p) \in Nat /\ n <= Len(p) /\ \A k \in 1..n : p[k] = f[k]
      BY <2>1 DEF BeginsWith
    <3>2. SubSeq(f, 1, n) = f
      BY <2>1, SubSeqFull
    <3>3. SubSeq(p, 1, n) = f
      <4>1. 1 \in Int /\ n \in Int /\ \A k \in 1..n : p[k] \in Records
        BY <2>1, <3>1
      <4>. HIDE DEF n
      <4>2. /\ SubSeq(p, 1, n) \in Seq(Records)
            /\ Len(SubSeq(p, 1, n)) = IF 1 <= n THEN n - 1 + 1 ELSE 0
            /\ \A k \in 1..(n - 1 + 1) : SubSeq(p, 1, n)[k] = p[1 + k - 1]
        BY <2>1, <4>1, SubSeqProperties
      <4>3. n - 1 + 1 = n /\ (IF 1 <= n THEN n - 1 + 1 ELSE 0) = n
            /\ \A k \in 1..n : 1 + k - 1 = k
        BY <3>1
      <4>4. Len(SubSeq(p, 1, n)) = n /\ \A k \in 1..n : SubSeq(p, 1, n)[k] = f[k]
        BY <3>1, <4>2, <4>3
      <4>5. Len(f) = n
        BY DEF n
      <4>. QED
        BY <2>1, <4>2, <4>4, <4>5, SeqEqual
    <3>. QED
      BY <3>1, <3>2, <3>3 DEF IsPrefix
  <2>. QED
    BY <2>2, <2>3 DEF p, f, b, q
<1>. QED
  BY <1>1, Invariance, PTL

\* What uninit deletes has nothing left in its writer's hands, has closed its file and,
\* unless that failed, written its end marker and with it all that was queued before
\* (logutils.h).
THEOREM EndIsWritten == Spec => []NothingCutOff
<1>1. IInv => NothingCutOff
  <2>. SUFFICES ASSUME IInv, NEW i \in freed
                PROVE  /\ ~failed[i] => Contains(file[i], End)
                       /\ ~open[i] /\ batch[i] = <<>>
    BY DEF NothingCutOff
  <2>1. i \in Instances /\ wpc[i] = "ended"
    BY DEF IInv, TypeOK, Joined
  <2>. QED
    BY <2>1 DEF IInv, Marked, HandsEmpty
<1>. QED
  BY <1>1, Invariance, PTL

=============================================================================
