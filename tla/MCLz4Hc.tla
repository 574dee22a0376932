------------------------------- MODULE MCLz4Hc -------------------------------
EXTENDS Lz4Hc

(* One byte repeated; no byte repeated; a match behind long literals; and     *)
(* sources in which two and three matches overlap in all the ways the         *)
(* compressor tells apart.                                                   *)
Run(k) == [i \in 1..k |-> 1]
Count(k) == [i \in 1..k |-> i % 16]
Overlaps == {
  <<6,3,3,6,3,3,3,3,3,6,3,3,6,3,3,6,3,3,3,3,3,3,3,6,3,3,1,2>>,
  <<4,4,3,4,4,4,4,4,3,4,4,4,4,3,4,4,4,4,4,4,4,3,4,4,2,2,1,6>>,
  <<3,1,1,3,1,1,1,1,1,1,1,3,1,1,1,1,3,1,1,1,1,1,1,1,1,3,3,2>>,
  <<4,4,3,4,4,4,4,4,3,4,4,3,4,4,4,4,3,4,4,4,4,4,4,4,3,1,1,1,5>>}
MCSources == {Run(k) : k \in {0, 1, 5, 7, 8, 12, 27, 32}} \cup {Count(k) : k \in {7, 24}} \cup Overlaps
==============================================================================
