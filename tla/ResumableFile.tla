--------------------------- MODULE ResumableFile ---------------------------
(***************************************************************************)
(* What the receiver promises about a file on its disk, whatever threads,  *)
(* timers and kills do to it: each piece is stored from its beginning on,  *)
(* what the record claims is stored indeed, and the file gets its own name *)
(* only when every piece is stored and the contents are the sender's.      *)
(***************************************************************************)
EXTENDS Integers

CONSTANTS Pieces, PieceLen

VARIABLES
    stored,      \* the stored prefix of each piece
    recorded,    \* the prefix a resumed transfer would not ask for again
    spoiled,     \* the stored contents are not those the sender hashed
    published    \* the file has been given its name

vars == <<stored, recorded, spoiled, published>>

Nothing == [p \in Pieces |-> 0]
Prefixes == {f \in [Pieces -> Nat] : \A p \in Pieces : f[p] <= PieceLen[p]}

Init ==
    /\ stored = Nothing /\ recorded = Nothing
    /\ spoiled = FALSE /\ published = FALSE

\* Bytes arrive for one piece.
Store(p) ==
    /\ stored' \in Prefixes
    /\ stored'[p] >= stored[p]
    /\ \A q \in Pieces \ {p} : stored'[q] = stored[q]
    /\ spoiled' \in {spoiled, TRUE}
    /\ UNCHANGED <<recorded, published>>

\* The record is written anew or forgotten, and claims no more than is stored.
Record ==
    /\ recorded' \in Prefixes
    /\ \A p \in Pieces : recorded'[p] <= stored[p]
    /\ UNCHANGED <<stored, spoiled, published>>

\* The complete and genuine file leaves under its own name.
Publish ==
    /\ stored = PieceLen /\ ~spoiled
    /\ published' = TRUE
    /\ stored' = Nothing /\ recorded' = Nothing /\ spoiled' = FALSE

\* Data and record are thrown away together.
Discard ==
    /\ stored' = Nothing /\ recorded' = Nothing /\ spoiled' = FALSE
    /\ UNCHANGED published

Next == (\E p \in Pieces : Store(p)) \/ Record \/ Publish \/ Discard

Spec == Init /\ [][Next]_vars

=============================================================================
