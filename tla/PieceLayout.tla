---------------------------- MODULE PieceLayout ----------------------------
(***************************************************************************)
(* How RecvMmap::init cuts a file into pieces on a first transfer: the     *)
(* size is rounded up to whole pages, a file above the threshold is cut in *)
(* the number of pieces the server was started with, every piece but the   *)
(* last is a whole number of pages, and the last takes what remains.  mmap *)
(* accepts a piece only at a multiple of the page size, and not empty.     *)
(*                                                                         *)
(* A definition placed right before another with the same parameters, and  *)
(* named for what it leaves out, is a mutant listed in PROJECT.json.       *)
(***************************************************************************)
EXTENDS Integers, Sequences

CONSTANTS
    Page,       \* sysconf(_SC_PAGE_SIZE)
    Threshold,  \* FILE_SIZE_THRESHOLD
    MaxPieces,  \* 16, the most pieces a server is started with
    Sizes,      \* the file sizes considered
    Requests    \* the values of file_piece given to start_server

\* Above the threshold a file has a page for every piece: 10 MB hold 16 pages of
\* any size in use.
ASSUME PageAssumption ==
    /\ Page \in Nat \ {0} /\ Threshold \in Nat
    /\ MaxPieces \in Nat /\ MaxPieces >= 4 /\ MaxPieces * Page <= Threshold
ASSUME SizesAssumption == Sizes \subseteq Nat \ {0}
ASSUME RequestsAssumption == Requests \subseteq Int

VARIABLES
    size,      \* m_size
    count,     \* the number of pieces the loop makes
    infos,     \* m_piece_infos: begin_pos and lenth of the pieces made so far
    offset,    \* where the next one begins
    state      \* "loop", "done", or "failed" when an mmap failed

vars == <<size, count, infos, offset, state>>

PiecesDefault == 4

\* FileRecvServer replaces a request out of range by the default.
Pieces(request) ==
    IF request <= 0 \/ request > MaxPieces THEN PiecesDefault ELSE request

\* m_trunc_size and pages
TruncSize(s) == IF s % Page > 0 THEN s + (Page - (s % Page)) ELSE s
Pages(s) == TruncSize(s) \div Page

PieceCount(s, request) == IF TruncSize(s) > Threshold THEN Pieces(request) ELSE 1

Init ==
    /\ size \in Sizes
    /\ \E request \in Requests : count = PieceCount(size, request)
    /\ infos = <<>> /\ offset = 0 /\ state = "loop"

\* The length of the next piece.
CommonLength == (Pages(size) \div count) * Page
EqualShares == IF Len(infos) = count - 1 THEN size - offset ELSE size \div count
NoRemainder == CommonLength
NextLength == IF Len(infos) = count - 1 THEN size - offset ELSE CommonLength

MapPiece ==
    /\ state = "loop"
    /\ infos' = Append(infos, [begin |-> offset, lenth |-> NextLength])
    /\ offset' = offset + NextLength
    /\ state' = IF Len(infos') = count THEN "done" ELSE "loop"
    /\ UNCHANGED <<size, count>>

MapFails ==
    /\ state = "loop"
    /\ state' = "failed"
    /\ UNCHANGED <<size, count, infos, offset>>

Next == MapPiece \/ MapFails

Spec == Init /\ [][Next]_vars

-----------------------------------------------------------------------------
\* The types, and never more pieces than wanted.
TypeOK ==
    /\ size \in Nat \ {0} /\ count \in 1..MaxPieces
    /\ infos \in Seq([begin : Nat, lenth : Nat])
    /\ offset \in Nat /\ state \in {"loop", "done", "failed"}
    /\ Len(infos) <= count

\* Every piece can be mapped: it begins on a page boundary and is not empty.  A
\* piece of no bytes would make init fail on a file that is simply small.
Mappable == \A i \in 1..Len(infos) : infos[i].begin % Page = 0 /\ infos[i].lenth > 0

\* Pieces follow each other without a gap or an overlap, whatever the size: no
\* byte of the file is received twice or by nobody.
End(i) == infos[i].begin + infos[i].lenth
Tiled ==
    /\ \A i \in 1..Len(infos) :
          infos[i].begin = IF i = 1 THEN 0 ELSE End(i - 1)
    /\ state = "done" => End(Len(infos)) = size

\* No piece reaches beyond the end of the file, where memcpy would write to
\* pages the file does not have.
WithinFile == \A i \in 1..Len(infos) : End(i) <= size

-----------------------------------------------------------------------------
(* The inductive invariant behind them.                                     *)

Sized ==
    /\ size \in Nat \ {0} /\ count \in 1..MaxPieces
    /\ count > 1 => count <= Pages(size)

\* Piece i begins after i - 1 pieces of the common length.
Placed(i) == infos[i] = [begin |-> (i - 1) * CommonLength,
                         lenth |-> IF i < count THEN CommonLength
                                   ELSE size - (count - 1) * CommonLength]

IInv ==
    /\ Sized
    /\ infos \in Seq([begin : Nat, lenth : Nat]) /\ Len(infos) <= count
    /\ \A i \in 1..Len(infos) : Placed(i)
    /\ offset = IF Len(infos) < count THEN Len(infos) * CommonLength ELSE size
    /\ state \in {"loop", "done", "failed"}
    /\ state = "done" <=> Len(infos) = count

=============================================================================
