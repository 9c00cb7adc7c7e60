------------------------------ MODULE Checksums ------------------------------
(***************************************************************************)
(* A caller of the checksum library: the bytes of one file, or of one      *)
(* frame, reach a variant of crc32 or the MD5 context in portions of any   *)
(* length (crc32 through previousCrc32, MD5 through Update, as             *)
(* GetMD5(FILE* ) does with what fread returns).  And the bytes of a piece *)
(* record reach the info file, portion by portion, when a kill may leave   *)
(* it short, or come back changed.                                         *)
(***************************************************************************)
EXTENDS Crc32, Md5, PieceRecord

CONSTANTS
    Content,   \* the bytes of the longest file
    Files,     \* the files to try, for MD5: numbers that stand for bytes
    CrcLen,    \* the length of the data whose CRC is taken
    Portions,  \* the lengths a portion may have
    Records,   \* the piece records to try
    Prefetch   \* prefetchAhead

FILE_SIZE_THRESHOLD == 10 * 1024 * 1024 \* a longer info file is not read

ASSUME ContentAssumption == Content \in Seq(Byte) /\ CrcLen \in 0..Len(Content)
ASSUME FilesAssumption == \A file \in Files : file \in Seq(Nat)
ASSUME PortionsAssumption == Portions \subseteq Nat
ASSUME PrefetchAssumption == Prefetch \in Nat
ASSUME RecordsAssumption == \A r \in Records : r \in Seq(Piece) /\ 12 + 28 * Len(r) <= FILE_SIZE_THRESHOLD

VARIABLES
    algo, \* the function called, or "record"
    data, \* what is to be fed to it
    pos,  \* how much has been
    crc,  \* previousCrc32, for a crc32 variant
    md5   \* the context, for "md5"

feedVars == <<algo, data, pos, crc, md5>>

CrcVariants == {"bitwise", "halfbyte", "1byte", "tableless", "tableless2", "4bytes",
                "8bytes", "4x8bytes", "16bytes", "prefetch", "fast"}

FeedInit ==
    /\ \/ algo \in CrcVariants /\ data = SubSeq(Content, 1, CrcLen)
       \/ algo = "md5" /\ data \in Files
       \/ algo = "record" /\ data \in {serialize_data(r) : r \in Records}
    /\ pos = 0 /\ crc = {} /\ md5 = CMD5Checksum

Crc(portion) ==
    CASE algo = "bitwise"    -> crc32_bitwise(portion, crc)
      [] algo = "halfbyte"   -> crc32_halfbyte(portion, crc)
      [] algo = "1byte"      -> crc32_1byte(portion, crc)
      [] algo = "tableless"  -> crc32_1byte_tableless(portion, crc)
      [] algo = "tableless2" -> crc32_1byte_tableless2(portion, crc)
      [] algo = "4bytes"     -> crc32_4bytes(portion, crc)
      [] algo = "8bytes"     -> crc32_8bytes(portion, crc)
      [] algo = "4x8bytes"   -> crc32_4x8bytes(portion, crc)
      [] algo = "16bytes"    -> crc32_16bytes(portion, crc)
      [] algo = "prefetch"   -> crc32_16bytes_prefetch(portion, crc, Prefetch)
      [] algo = "fast"       -> crc32_fast(portion, crc)

FeedCrc(n) ==
    /\ algo \in CrcVariants /\ pos + n <= Len(data)
    /\ crc' = Crc(SubSeq(data, pos + 1, pos + n))
    /\ pos' = pos + n
    /\ UNCHANGED <<algo, data, md5>>

\* One turn of the loop of GetMD5(FILE* ).  The loop ends when fread returns 0,
\* at the end of the file or because reading failed, and does not ask which: the
\* digest of any prefix may be the one returned.
ReadPortion(n) ==
    /\ algo = "md5" /\ pos + n <= Len(data)
    /\ md5' = Update(md5, SubSeq(data, pos + 1, pos + n))
    /\ pos' = pos + n
    /\ UNCHANGED <<algo, data, crc>>

\* write_info_file: the kernel takes a portion, after which the process may be
\* killed.  pos bytes of data are in the file.
WriteRecord(n) ==
    /\ algo = "record" /\ pos + n <= Len(data)
    /\ pos' = pos + n
    /\ UNCHANGED <<algo, data, crc, md5>>

FeedNext == \E n \in Portions : FeedCrc(n) \/ ReadPortion(n) \/ WriteRecord(n)

FeedSpec == FeedInit /\ [][FeedNext]_feedVars

-----------------------------------------------------------------------------
(* The references.                                                          *)

\* CRC-32 as a division of polynomials: the bits of the message, least significant
\* bit of each byte first, enter a register with the coefficient of x^31 on top;
\* register and result are complemented, the result is read in reverse.
Remainder(bytes) ==
    LET Poly == {31 - b : b \in Polynomial}
        Shift(reg, bit) == Shl(reg, 1) (+) (IF (31 \in reg) # bit THEN Poly ELSE {})
        Divide == [reg \in Word |-> [byte \in Byte |->
            LET Bits[b \in 0..8] ==
                    IF b = 0 THEN reg ELSE Shift(Bits[b - 1], b - 1 \in byte)
            IN Bits[8]]]
        Reg  == EachByte(Divide, WordBits, bytes, 1, Len(bytes))
    IN Not({31 - b : b \in Reg})

\* The padded message of RFC 1321, section 3.1 and 3.2, in blocks.
PaddedBlocks(bytes) ==
    LET n      == Len(bytes)
        zeros  == CHOOSE z \in 0..63 : (n + 1 + z) % 64 = 56
        bits   == (8 * n) % (CountMod * CountMod)
        all    == bytes \o <<128>> \o [i \in 1..zeros |-> 0]
                    \o DWordToByte(bits % CountMod) \o DWordToByte(bits \div CountMod)
    IN [k \in 1..(Len(all) \div 64) |-> SubSeq(all, 64 * k - 63, 64 * k)]

-----------------------------------------------------------------------------
(* What is checked.                                                         *)

FeedTypeOK ==
    /\ algo \in CrcVariants \cup {"md5", "record"} /\ pos \in 0..Len(data)
    /\ crc \in Word
    /\ md5.count \in (0..(CountMod - 1)) \X (0..(CountMod - 1))
    /\ DOMAIN md5.buffer = 1..64 /\ \A i \in DOMAIN md5.blocks : DOMAIN md5.blocks[i] = 1..64

\* Every variant of crc32, fed in portions of any length, has the value of the
\* polynomial division over all that was fed so far: a sender and a receiver that
\* use different variants agree, and the tails shorter than a block are counted.
CrcExact == algo \in CrcVariants => crc = Remainder(SubSeq(data, 1, pos))

\* Whatever the lengths of the updates, Final gives the compression function the
\* blocks of the padded message, with the number of bits right beyond the low
\* word: the digest depends on the bytes alone (Update, Final).
DigestExact == algo = "md5" => Final(md5) = PaddedBlocks(SubSeq(data, 1, pos))

\* An info file that a kill left short, or of which any one bit has changed, is
\* refused, the number of pieces included, whose check wraps; a whole one gives back
\* every piece, also beyond 2^31 bytes (deserialize_data).
RecordRead ==
    LET file == SubSeq(data, 1, pos)
        Flipped(i, b) == [file EXCEPT ![i] = @ (+) {b}]
        read == deserialize_data(file)
    IN algo = "record" =>
         IF pos < Len(data) THEN read = <<>>
         ELSE /\ read \in Records /\ serialize_data(read) = data
              /\ \A i \in 1..pos, b \in ByteBits : deserialize_data(Flipped(i, b)) = <<>>

=============================================================================
