----------------------------- MODULE MCSendFile -----------------------------
(* Two screens and a receipt: one screen sends a directory of a file, the    *)
(* other one file; two frames in one piece or in two.  Or one screen with a  *)
(* larger tree: it has a hidden file, a fifo, and names that trimming makes  *)
(* others of: a file, a directory, the directory above and nothing there is. *)
EXTENDS SendFile, TLC

CONSTANTS s1, s2, r1

MCNames == {"sd", "r", "f", "f ", "b ", "b", " ", "g", "d", "d ", "p", ".h"}
MCTrim == [n \in MCNames |->
    CASE n = "f " -> <<"f">> [] n = "b " -> <<"b">> [] n = "d " -> <<"d">> [] n = " " -> <<>>
      [] OTHER -> <<n>>]
MCHidden == {".h"}

MCScreens == {s1, s2}
MCReceipts == {r1}
MCNoReceipts == {}
MCRoot == (s1 :> <<"sd", "r">>) @@ (s2 :> <<"sd", "f">>)
MCChildren == <<"sd", "r">> :> {"f"}
MCFiles == {<<"sd", "f">>, <<"sd", "r", "f">>, <<"sd", "r", "g">>}
MCPieces == {1, 2}
MCGrants == (s1 :> {<<1, 1>>, <<0, 2>>}) @@ (s2 :> {<<0, 1>>})

MCWalker == {s1}
MCWalkerRoot == s1 :> <<"sd", "r">>
MCTree == (<<"sd", "r">> :> {"f", "f ", "d", "d ", ".h"}) @@ (<<"sd", "r", "d">> :> {"b ", "p"})
       @@ (<<"sd", "r", "d ">> :> {"g", " "}) @@ (<<"sd", "r", "d ", " ">> :> {})
MCTreeFiles == {<<"sd", "r", "f">>, <<"sd", "r", "f ">>, <<"sd", "r", ".h">>,
                <<"sd", "r", "d", "b ">>, <<"sd", "r", "d ", "g">>}
MCWalkerGrants == s1 :> {<<1, 2>>, <<0, 1>>}

=============================================================================
