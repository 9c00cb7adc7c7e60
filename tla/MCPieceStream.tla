--------------------------- MODULE MCPieceStream ---------------------------
(* A piece of five units in frames of two: a short last frame, and answers *)
(* between frames.  A buffer holds a little more than a frame.             *)
EXTENDS PieceStream

AllFaults == {"reset", "silent", "slow", "damage"}

=============================================================================
