------------------------------- MODULE Substitution -------------------------------
(***************************************************************************)
(* getSubstitutionOplist: the edits that turn str1 into str2, found by     *)
(* dynamic programming over the prefixes of the two lines, where a         *)
(* mismatch looks back over a bounded neighbourhood.                       *)
(***************************************************************************)
EXTENDS BitStream

CONSTANT LMax     \* lmax of getSearchRange, 3 in the code

ASSUME LMaxAssumption == LMax \in Nat \ {0}

EditCost == 3                    \* POSITION_COST + 2 * LENGTH_COST
MatchCell(prev, cost) == [op |-> "M", prev |-> prev, cost |-> cost]
EditCell(prev, cost) == [op |-> "X", prev |-> prev, cost |-> cost]

(* The rectangle below and left of (x, y), in the order getSearchRange goes  *)
(* through it: rows from x - 1 down, within a row columns from y - 1 down.   *)
NoLaterThan(p, q) == p[1] > q[1] \/ (p[1] = q[1] /\ p[2] >= q[2])

(* The characters that str1 and str2 have in common between (i, j) and       *)
(* (x, y), matching two whenever they are equal.                             *)
Common(str1, str2, x, y) ==
  LET C[p \in (0..x) \X (0..y)] ==
        LET i == p[1]  j == p[2]
        IN  IF i = x \/ j = y THEN 0
            ELSE IF str1[i + 1] = str2[j + 1] THEN C[<<i + 1, j + 1>>] + 1
            ELSE Max({C[<<i + 1, j>>], C[<<i, j + 1>>]})
  IN  [p \in (0..(x - 1)) \X (0..(y - 1)) |-> C[p]]

(* The places before the first with LMax characters in common, which ends    *)
(* the search.                                                               *)
SearchRange(str1, str2, x, y) ==
  LET common == Common(str1, str2, x, y)
  IN  {p \in DOMAIN common :
         \A q \in DOMAIN common : NoLaterThan(q, p) => common[q] < LMax}

(* Slip: the characters deleted are paid for, not those inserted.            *)
FilledCellSwapped(table, str1, str2, x, y) ==
  LET range   == SearchRange(str1, str2, x, y)
      cost(p) == table[p].cost + (IF table[p].op = "M" THEN EditCost ELSE 0) + (x - p[1])
      best    == CHOOSE p \in range : \A q \in range :
                   cost(p) < cost(q) \/ (cost(p) = cost(q) /\ NoLaterThan(p, q))
  IN  IF str1[x] = str2[y] THEN MatchCell(<<x - 1, y - 1>>, table[<<x - 1, y - 1>>].cost)
      ELSE EditCell(best, cost(best))

(* One cell of the table, from those above and to the left of it: equal      *)
(* characters cost nothing, and otherwise the characters since the place in  *)
(* range that makes them cheapest are replaced, the first such place.        *)
FilledCell(table, str1, str2, x, y) ==
  LET range   == SearchRange(str1, str2, x, y)
      cost(p) == table[p].cost + (IF table[p].op = "M" THEN EditCost ELSE 0) + (y - p[2])
      best    == CHOOSE p \in range : \A q \in range :
                   cost(p) < cost(q) \/ (cost(p) = cost(q) /\ NoLaterThan(p, q))
  IN  IF str1[x] = str2[y] THEN MatchCell(<<x - 1, y - 1>>, table[<<x - 1, y - 1>>].cost)
      ELSE EditCell(best, cost(best))

Filled(table, str1, str2, x, y) == [table EXCEPT ![<<x, y>>] = FilledCell(table, str1, str2, x, y)]

(* The first row and column hold one edit; the rest is filled row by row.    *)
Edge(x, y) ==
  IF x = 0 /\ y = 0 THEN MatchCell(<<0, 0>>, 0)
  ELSE IF x = 0 THEN EditCell(<<0, y - 1>>, EditCost + y)
  ELSE EditCell(<<x - 1, 0>>, EditCost)

Table(str1, str2) ==
  LET n == Len(str2)
      edges == [p \in (0..Len(str1)) \X (0..n) |-> Edge(p[1], p[2])]
      filled[k \in 0..(Len(str1) * n)] ==
        IF k = 0 THEN edges
        ELSE Filled(filled[k - 1], str1, str2, 1 + ((k - 1) \div n), 1 + ((k - 1) % n))
  IN  filled[Len(str1) * n]

(* The edits on the way back from the last cell, left to right.              *)
Backtrack(table, str2, last) ==
  LET ops[p \in DOMAIN table] ==
        LET prev == table[p].prev
        IN  IF p = <<0, 0>> THEN <<>>
            ELSE IF table[p].op = "M" THEN ops[prev]
            ELSE Append(ops[prev], [pos |-> prev[1], del |-> p[1] - prev[1],
                                    text |-> SubSeq(str2, prev[2] + 1, p[2])])
  IN  ops[last]

(* Slip: edits that touch are left apart.                                   *)
UnmergedWith(merged, op) == Append(merged, op)

(* Edits that touch in str1 become one.                                      *)
MergedWith(merged, op) ==
  LET last == Last(merged)
  IN  IF merged # <<>> /\ last.pos + last.del = op.pos
      THEN Append(Front(merged), [pos |-> last.pos, del |-> last.del + op.del,
                                  text |-> last.text \o op.text])
      ELSE Append(merged, op)

MergeEdits(ops) ==
  LET merged[k \in 0..Len(ops)] == IF k = 0 THEN <<>> ELSE MergedWith(merged[k - 1], ops[k])
  IN  merged[Len(ops)]

(* The edits and their cost; an empty line is one edit, and costs more.      *)
SubstitutionMatch(str1, str2) ==
  LET table == Table(str1, str2)
      end   == <<Len(str1), Len(str2)>>
  IN  IF str1 = str2 THEN [ops |-> <<>>, cost |-> 0]
      ELSE IF str1 = <<>> \/ str2 = <<>>
      THEN [ops |-> <<[pos |-> 0, del |-> Len(str1), text |-> str2]>>,
            cost |-> EditCost + 2 + Len(str2)]
      ELSE [ops |-> MergeEdits(Backtrack(table, str2, end)), cost |-> table[end].cost]
================================================================================
