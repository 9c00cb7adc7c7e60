--------------------------- MODULE MCRecvTransfer ---------------------------
(* Two pieces of different length, for TLC. *)
EXTENDS RecvTransfer, TLC

CONSTANTS p1, p2

MCPieces == {p1, p2}
MCLen == (p1 :> 2) @@ (p2 :> 1)
MCShort == (p1 :> 1) @@ (p2 :> 1)

=============================================================================
