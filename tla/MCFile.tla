------------------------------- MODULE MCFile -------------------------------
(* A file's arithmetic.  Either its pieces are dealt out: pages of 3 bytes, *)
(* sizes around every multiple of the page and of the threshold.  Or a      *)
(* checksum or a record is made: eighty-odd bytes for the CRC, more than    *)
(* the 64 of one unrolled round.                                            *)
EXTENDS PieceLayout, Checksums, TLC

MCSizes == 1..60
MCRequests == -1..6

Bits(n) == {b \in ByteBits : (n \div 2 ^ b) % 2 = 1}
MCContent == [i \in 1..84 |-> Bits((i * 37 + 11) % 256)]
MCFiles == {[i \in 1..len |-> 1000 + i] :
               len \in {0, 1, 55, 56, 63, 64, 119, 120, 128, 129, 200, 265}}
MCPortions == {1, 9, 55, 64, 73, 136}

Pc(sid, from, len, left) == [sid |-> Bits(sid), begin_pos |-> from, lenth |-> len, lenth_left |-> left]
MCRecords ==
    {<<>>, <<Pc(0, {}, Bits(200), Bits(130))>>,
     <<Pc(0, {}, {31}, {7, 15, 23, 30}), Pc(1, {31}, {12, 15, 32}, {}), Pc(200, {33, 39}, Bits(77), Bits(77))>>}

\* The two have no variable in common: while one goes on, the other has not begun.
NotFed == algo = "bitwise" /\ pos = 0
NotCut == size = 1 /\ infos = <<>> /\ state = "loop"

FileInit == Init /\ FeedInit /\ (NotFed \/ NotCut)
FileNext ==
    \/ NotFed /\ Next /\ UNCHANGED feedVars
    \/ NotCut /\ FeedNext /\ UNCHANGED vars
FileSpec == FileInit /\ [][FileNext]_<<vars, feedVars>>

=============================================================================
