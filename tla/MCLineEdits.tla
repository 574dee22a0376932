---- MODULE MCLineEdits ----
(* Characters 1 to 3, and the pads 8 and 9: lines without pads up to four    *)
(* characters of two kinds or three of three, and lines with pads up to two. *)
EXTENDS LineEdits

LinesOver(chars, n) == UNION {[1..k -> chars] : k \in 0..n}
MCLines == LinesOver({1, 2}, 4) \cup LinesOver({1, 2, 3}, 3)
MCPadLines == LinesOver({1, 8, 9}, 2)
================================
