---- MODULE MCRecordPipeline ----
(* Lines are numbers; an edit list is a difference, so that patching the     *)
(* wrong reference gives the wrong line or none.  Cheap and dear edits, near *)
(* and far lines, ties and exact multiples of the block size all occur.      *)
EXTENDS RecordPipeline, FiniteSets

CONSTANT Values

MCDist(s, t) == IF s > t THEN s - t ELSE t - s

(* Files of up to 4 lines; and of 5 to 7 those that start with a block the   *)
(* format carries, the others being out of step after it, as short ones are. *)
Files(n) == [1..n -> Values]
Begins(f) == {f[1], f[2], f[3]} = {1, 2, 3} /\ MCDist(f[1], f[2]) = 1
MCInputs ==
  Files(0) \cup Files(1) \cup Files(2) \cup Files(3) \cup Files(4)
    \cup {f \in Files(5) \cup Files(6) \cup Files(7) : Begins(f)}

MCDiff(s, t) == t - s
MCPatch(e, s) == s + e
MCCost(e) == IF e < 0 THEN -2 * e ELSE e
MCLength(t) == IF t = 0 THEN 0 ELSE 2

(* BlockCodec's Carried for these blocks, a difference other than zero being *)
(* two edits: the lists of first positions and of steps between positions    *)
(* must have more than one value each.                                       *)
MCCarried(block) == Cardinality({i \in DOMAIN block : block[i].method = 0 /\ block[i].ops # 0}) > 1
================================
