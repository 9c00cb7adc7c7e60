--------------------------------- MODULE Md5 ---------------------------------
(***************************************************************************)
(* transdata/CBMD5.h: the digest that names a transferred file and that    *)
(* the receiver compares before it accepts it.  What can go wrong in it is *)
(* the buffering: blocks of 64 bytes cut out of updates of any length, the *)
(* number of bits kept in two words, the padding.  The compression of one  *)
(* block is left abstract: a context keeps the blocks it was given, so two *)
(* contexts are equal here when every compression function would make them *)
(* equal.                                                                  *)
(***************************************************************************)
EXTENDS Integers, Sequences

CONSTANT CountMod \* how many values a word of m_nCount has: 2^32 in the code

\* A word counts the bits of whole blocks before it wraps.
ASSUME CountAssumption == CountMod \in Nat \ {0} /\ CountMod % 512 = 0

\* The constructor.  buffer is m_lpszBuffer, count is m_nCount, low word first.
CMD5Checksum == [buffer |-> [i \in 1..64 |-> 0], count |-> <<0, 0>>, blocks |-> <<>>]

\* m_lMD5 after one more block.
Transform(blocks, block) == Append(blocks, block)

\* How many bytes of the buffer are taken: the bit count in bytes, modulo 64.
Index(count) == (count[1] \div 8) % 64

\* The bit count after n more bytes: n << 3 loses its top bits in the low word,
\* which carries into the high word, and n >> 29 adds the bits that were lost.
AddCountNoCarry(count, n) ==
    <<(count[1] + n * 8) % CountMod, (count[2] + n \div (CountMod \div 8)) % CountMod>>

AddCount(count, n) ==
    LET bits  == (n * 8) % CountMod
        low   == (count[1] + bits) % CountMod
        carry == IF low < bits THEN 1 ELSE 0
    IN <<low, (count[2] + carry + n \div (CountMod \div 8)) % CountMod>>

\* The loop: the block that the buffer holds, then the whole blocks that are in the
\* input from part on.
TransformAll(blocks, first, input, part, whole) ==
    LET After[k \in 0..whole] ==
            IF k = 0 THEN Transform(blocks, first)
            ELSE Transform(After[k - 1], SubSeq(input, part + 64 * k - 63, part + 64 * k))
    IN After[whole]

\* Fill the buffer and transform it, transform what whole blocks there are in the
\* input, keep the rest.
Update(md5, input) ==
    LET n     == Len(input)
        index == Index(md5.count)
        part  == 64 - index
        whole == (n - part) \div 64
        first == [i \in 1..64 |-> IF i <= index THEN md5.buffer[i] ELSE input[i - index]]
        used  == IF n >= part THEN part + 64 * whole ELSE 0
        at    == IF n >= part THEN 0 ELSE index
        old   == IF n >= part THEN first ELSE md5.buffer
    IN [buffer |-> [i \in 1..64 |-> IF i - at \in 1..(n - used) THEN input[used + i - at]
                                    ELSE old[i]],
        count  |-> AddCount(md5.count, n),
        blocks |-> IF n >= part THEN TransformAll(md5.blocks, first, input, part, whole)
                   ELSE md5.blocks]

\* Four bytes of a word, low byte first.
DWordToByte(word) ==
    <<word % 256, (word \div 256) % 256, (word \div 65536) % 256, (word \div 16777216) % 256>>

PADDING == [i \in 1..64 |-> IF i = 1 THEN 128 ELSE 0]

PadLen(index) == IF index < 56 THEN 56 - index ELSE 120 - index

\* Pad to 56 modulo 64, then the number of bits as it was before the padding.
Final(md5) ==
    LET bits   == DWordToByte(md5.count[1]) \o DWordToByte(md5.count[2])
        padded == Update(md5, SubSeq(PADDING, 1, PadLen(Index(md5.count))))
    IN Update(padded, bits).blocks

=============================================================================
