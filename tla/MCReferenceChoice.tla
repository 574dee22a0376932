--------------------------- MODULE MCReferenceChoice ---------------------------
EXTENDS ReferenceChoice

(* Lines too short for a gram or a signature, lines whose counts are          *)
(* multiples of each other's, and lines worth coding.                        *)
Short == {<<>>, <<1, 2>>, <<1, 1>>, <<1, 1, 1>>, <<1, 2, 1, 2, 1, 2>>}
Long  == {<<1, 1, 1, 2, 1, 2, 1, 2, 1, 1>>, <<1, 1, 1, 2, 2, 1, 2, 1, 1>>}
Files(lines, n) == UNION {[1..k -> lines] : k \in {0, n}}
MCRuns == [input : Files(Short \cup Long, 4), approx : {TRUE}]
            \cup [input : Files(Short, 3), approx : {FALSE}]
MCThreshold == [num |-> 3, den |-> 4]
MCCoefficients == <<<<3, 1>>, <<5, 4>>, <<2, 9>>>>
================================================================================
