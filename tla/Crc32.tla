-------------------------------- MODULE Crc32 --------------------------------
(***************************************************************************)
(* transdata/Crc32.cpp: the checksum of every frame, handshake record and  *)
(* info file, in each of its variants.  A 32-bit word is the set of the    *)
(* positions of its 1 bits, a byte a subset of 0..7: ^ is the symmetric    *)
(* difference, a shift moves the positions and drops those that leave the  *)
(* word.  Words are read from memory on a little-endian machine, as on     *)
(* every Android device, so byte j of a block is bits 8j..8j+7 of it.      *)
(***************************************************************************)
EXTENDS Integers, Sequences

WordBits == 0..31
ByteBits == 0..7
Word     == SUBSET WordBits
Byte     == SUBSET ByteBits

x (+) y   == (x \ y) \cup (y \ x)
Shr(x, k) == {b - k : b \in {c \in x : c >= k}}
Shl(x, k) == {b + k : b \in {c \in x : c + k \in WordBits}}
Not(x)    == WordBits \ x

\* 0xEDB88320
Polynomial == {5, 8, 9, 15, 19, 20, 21, 23, 24, 26, 27, 29, 30, 31}

\* A loop that folds the bytes first..last of data into crc, one by one: body is
\* what it does with one.
EachByte(body, crc, data, first, last) ==
    LET After[k \in (first - 1)..last] ==
            IF k < first THEN crc ELSE body[After[k - 1]][data[k]]
    IN After[last]

ByteAtATime(body, data, previous) ==
    Not(EachByte(body, Not(previous), data, 1, Len(data)))

-----------------------------------------------------------------------------
(* The variants that take one byte at a time.                               *)

\* The loop body of crc32_bitwise: eight steps of one bit.
OneBit(x) == Shr(x, 1) (+) (IF 0 \in x THEN Polynomial ELSE {})

BitwiseByte == [crc \in Word |-> [byte \in Byte |->
    LET Steps[j \in 0..8] == IF j = 0 THEN crc (+) byte ELSE OneBit(Steps[j - 1])
    IN Steps[8]]]

crc32_bitwise(data, previous) == ByteAtATime(BitwiseByte, data, previous)

\* Crc32Lookup: row 0 is the effect of one byte on a zero word, each further row
\* that of one more byte of zeros.
Lookup ==
    LET Row0 == [i \in Byte |-> BitwiseByte[{}][i]]
        Longer(above) == Shr(above, 8) (+) Row0[above \cap ByteBits]
        Row[k \in 0..15] ==
            IF k = 0 THEN Row0 ELSE [i \in Byte |-> Longer(Row[k - 1][i])]
    IN Row

TableByte == [crc \in Word |-> [byte \in Byte |->
    Shr(crc, 8) (+) Lookup[0][(crc \cap ByteBits) (+) byte]]]
crc32_1byte(data, previous) == ByteAtATime(TableByte, data, previous)

\* Crc32Lookup16[n] is Crc32Lookup[0][16 * n].
HalfByte == [crc \in Word |-> [byte \in Byte |->
    LET Half(c, nibble) == Lookup[0][Shl((c (+) nibble) \cap 0..3, 4)] (+) Shr(c, 4)
    IN Half(Half(crc, byte), Shr(byte, 4))]]
crc32_halfbyte(data, previous) == ByteAtATime(HalfByte, data, previous)

\* The products of low with sums of powers of two do not carry: the summands
\* have no bit in common.
TablelessByte == [crc \in Word |-> [byte \in Byte |->
    LET s   == (crc \cap ByteBits) (+) byte
        low == (s (+) Shl(s, 6)) \cap ByteBits
        a   == Shl(low, 23) \cup Shl(low, 14) \cup Shl(low, 2)
    IN Shr(crc, 8) (+) (Shl(low, 24) \cup Shl(low, 16) \cup Shl(low, 8)) (+) a
         (+) Shr(a, 1) (+) (Shl(low, 20) \cup Shl(low, 12))
         (+) Shl(low, 19) (+) Shl(low, 17) (+) Shr(low, 2)]]
crc32_1byte_tableless(data, previous) == ByteAtATime(TablelessByte, data, previous)

\* ((crc << (31 - b)) >> 31) on a signed int is all ones if bit b is set.
Tableless2Byte == [crc \in Word |-> [byte \in Byte |->
    LET x          == crc (+) byte
        If(b, mask) == IF b \in x THEN mask ELSE {}
    IN Shr(x, 8)
         (+) If(0, Shr(Polynomial, 7) (+) Shr(Polynomial, 1))
         (+) If(1, Shr(Polynomial, 6) (+) Polynomial)
         (+) If(2, Shr(Polynomial, 5)) (+) If(3, Shr(Polynomial, 4))
         (+) If(4, Shr(Polynomial, 3)) (+) If(5, Shr(Polynomial, 2))
         (+) If(6, Shr(Polynomial, 1)) (+) If(7, Polynomial)]]
crc32_1byte_tableless2(data, previous) == ByteAtATime(Tableless2Byte, data, previous)

-----------------------------------------------------------------------------
(* Slicing: n bytes at once, each through the row for the bytes after it.   *)

\* What the n bytes of data after the first at do with crc, which is xored into the
\* first word.
SliceReversed(n, data, at) == [crc \in Word |->
    LET Acc[j \in 0..n] ==
            IF j = 0 THEN {}
            ELSE LET mixed == data[at + j] (+) (Shr(crc, 8 * (j - 1)) \cap ByteBits)
                 IN Acc[j - 1] (+) Lookup[j - 1][mixed]
    IN Acc[n]]

Slice(n, data, at) == [crc \in Word |->
    LET Acc[j \in 0..n] ==
            IF j = 0 THEN {}
            ELSE LET mixed == data[at + j] (+) (Shr(crc, 8 * (j - 1)) \cap ByteBits)
                 IN Acc[j - 1] (+) Lookup[n - j][mixed]
    IN Acc[n]]

\* While at least n * unroll + ahead bytes are left, unroll slices at a time;
\* the rest byte by byte.
Sliced(n, unroll, ahead, data, previous) ==
    LET block == n * unroll
        rounds == IF Len(data) < block + ahead THEN 0
                  ELSE (Len(data) - ahead) \div block
        After[k \in 0..(rounds * unroll)] ==
            IF k = 0 THEN Not(previous) ELSE Slice(n, data, n * (k - 1))[After[k - 1]]
    IN Not(EachByte(TableByte, After[rounds * unroll], data, rounds * block + 1, Len(data)))

crc32_4bytes(data, previous)   == Sliced(4, 1, 0, data, previous)
crc32_8bytes(data, previous)   == Sliced(8, 1, 0, data, previous)
crc32_4x8bytes(data, previous) == Sliced(8, 4, 0, data, previous)
crc32_16bytes(data, previous)  == Sliced(16, 4, 0, data, previous)
crc32_16bytes_prefetch(data, previous, prefetchAhead) ==
    Sliced(16, 4, prefetchAhead, data, previous)

\* The build defines CRC32_USE_LOOKUP_TABLE_SLICING_BY_16.
crc32_fast(data, previous) == crc32_16bytes(data, previous)

=============================================================================
