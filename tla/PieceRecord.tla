----------------------------- MODULE PieceRecord -----------------------------
(***************************************************************************)
(* The record of the pieces of a file, as the info file and the answer to  *)
(* a file handshake carry it: a CRC, a version, the number of pieces and   *)
(* 28 bytes for each (tcptransfile/datadef.h, RecvMmap::serialize_data).   *)
(* Numbers of 32 and of 64 bits are sets of the positions of their 1 bits. *)
(***************************************************************************)
EXTENDS Crc32
SX == INSTANCE SequencesExt

Quad  == 0..63
Piece == [sid : Word, begin_pos : SUBSET Quad, lenth : SUBSET Quad, lenth_left : SUBSET Quad]

\* The low 32 bits of a number: halved b times, it ends with bit b.
WordOf(n) ==
    LET Half[b \in WordBits] == IF b = 0 THEN n ELSE Half[b - 1] \div 2
    IN {b \in WordBits : Half[b] % 2 = 1}

\* PUT_LE_32 and PUT_LE_64: value in so many bytes.
PutLE(bytes, value) == [i \in 1..bytes |-> {b \in ByteBits : 8 * (i - 1) + b \in value}]

\* MUTANT, GetLE without "& 0xff": a char with its top bit set becomes negative.
GetSigned(bytes) ==
    UNION {{8 * (i - 1) + b : b \in bytes[i]}
             \cup (IF 7 \in bytes[i] THEN 8 * i .. (8 * Len(bytes) - 1) ELSE {})
           : i \in DOMAIN bytes}

\* GET_LE_32 and GET_LE_64.
GetLE(bytes) == UNION {{8 * (i - 1) + b : b \in bytes[i]} : i \in DOMAIN bytes}

INFO_VERSION == {0}

serialize_data(pieces) ==
    LET Block(p) == PutLE(4, p.sid) \o PutLE(8, p.begin_pos)
                      \o PutLE(8, p.lenth) \o PutLE(8, p.lenth_left)
        body == PutLE(4, INFO_VERSION) \o PutLE(4, WordOf(Len(pieces)))
                  \o SX!FlattenSeq([i \in DOMAIN pieces |-> Block(pieces[i])])
    IN PutLE(4, crc32_bitwise(body, {})) \o body

\* x + y in 32 bits: bit j of both carries over the bits of either above it.
Plus(x, y) ==
    (x (+) y) (+) {b \in WordBits : \E j \in x \cap y :
                                      j < b /\ \A i \in (j + 1)..(b - 1) : i \in x \cup y}

\* 12 + blocks * 28, which wraps: 28 is 16 + 8 + 4.
CalLen(blocks) == Plus(WordOf(12), Plus(Shl(blocks, 4), Plus(Shl(blocks, 3), Shl(blocks, 2))))

\* What the loop of deserialize_data yields when it runs past the bytes: no piece is so.
PastTheEnd == <<[sid |-> {-1}, begin_pos |-> {}, lenth |-> {}, lenth_left |-> {}]>>

\* What deserialize_data leaves in vec_infos, which was empty: nothing if it refuses
\* the bytes, else as many pieces as they count.  The version is not looked at.  The
\* length and the count are compared in 32 bits, so a count that is right modulo 2^30
\* only passes, and the loop runs past the bytes; the CRC has to refuse it.
deserialize_data(bytes) ==
    LET Field(at, n) == GetLE(SubSeq(bytes, at + 1, at + n))
        PieceAt(at)  == [sid |-> Field(at, 4), begin_pos |-> Field(at + 4, 8),
                         lenth |-> Field(at + 12, 8), lenth_left |-> Field(at + 20, 8)]
        blocks == Field(8, 4)
        held   == (Len(bytes) - 12) \div 28
    IN IF \/ Len(bytes) < 12
          \/ WordOf(Len(bytes)) # CalLen(blocks)
          \/ Field(0, 4) # crc32_bitwise(SubSeq(bytes, 5, Len(bytes)), {})
       THEN <<>>
       ELSE IF blocks = WordOf(held) THEN [k \in 1..held |-> PieceAt(12 + 28 * (k - 1))]
                                     ELSE PastTheEnd

=============================================================================
