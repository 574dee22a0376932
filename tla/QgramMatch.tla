-------------------------------- MODULE QgramMatch --------------------------------
(***************************************************************************)
(* getQgramMatchOplist: the edits that turn the reference line str1 into   *)
(* str2, found by matching the q-grams of the two lines greedily from the  *)
(* left, and the cost the compressor weighs against the line's length.     *)
(***************************************************************************)
EXTENDS BitStream

CONSTANTS
  Q,           \* the length of a gram, q_value
  StartPad,    \* the characters getQgram puts before and after a line,
  EndPad       \* '$' and '#' in the code

ASSUME QAssumption == Q \in Nat \ {0}

(* Positions count from 0, as they do in the code.  Only the boundary of     *)
(* the line decides a pad; a line may hold the same characters itself.       *)
Substr(s, from, n) == SubSeq(s, from + 1, from + n)
Repeat(c, n) == [i \in 1..n |-> c]

(* The grams of a line: gram i starts Q - 1 characters before position i.    *)
Qgrams(s) ==
  LET padded == Repeat(StartPad, Q - 1) \o s \o Repeat(EndPad, Q - 1)
  IN  [i \in 1..(Len(padded) - Q + 1) |-> SubSeq(padded, i, i + Q - 1)]

(* The greedy match: gram i of str1 takes the first equal gram of str2        *)
(* among those after the last one taken, if there is one.  The counter of    *)
(* the code holds how many are left, and is not modelled.                    *)
Take(grams1, grams2, taken, i) ==
  LET from == IF taken = <<>> THEN 1 ELSE Last(taken).y + 2
      rest == {j \in from..Len(grams2) : grams2[j] = grams1[i]}
  IN  IF rest = {} THEN taken ELSE Append(taken, [x |-> i - 1, y |-> Min(rest) - 1])

QgramMatches(str1, str2) ==
  LET grams1 == Qgrams(str1)
      grams2 == Qgrams(str2)
      taken[i \in 0..Len(grams1)] ==
        IF i = 0 THEN <<>> ELSE Take(grams1, grams2, taken[i - 1], i)
  IN  taken[Len(grams1)]

Continues(run, m) == run.first.x = m.x + 1 /\ run.first.y = m.y + 1

(* Slip: the next run may share a character with this one.                  *)
TouchesAtMost(run, m) == run.first.x >= m.x + (Q - 1) /\ run.first.y >= m.y + (Q - 1)

ClearOf(run, m) == run.first.x > m.x + (Q - 1) /\ run.first.y > m.y + (Q - 1)

(* Taken from the last match back, a match that continues the current run    *)
(* joins it; one that is clear of it by a whole gram in both lines starts    *)
(* the next run; any other is dropped.  A run is its last and first match.   *)
Joined(runs, m) ==
  LET run == Last(runs)
  IN  IF runs = <<>> THEN <<[last |-> m, first |-> m]>>
      ELSE IF Continues(run, m) THEN Append(Front(runs), [last |-> run.last, first |-> m])
      ELSE IF ClearOf(run, m) THEN Append(runs, [last |-> m, first |-> m])
      ELSE runs

MergedRuns(matches) ==
  LET n == Len(matches)
      runs[i \in 0..n] == IF i = 0 THEN <<>> ELSE Joined(runs[i - 1], matches[n + 1 - i])
  IN  Reverse(runs[n])

(* The stretch of each line a run stands for, cut off at the line's ends.    *)
Stretch(run, str1, str2) ==
  [xBegin |-> Max({0, run.first.x - (Q - 1)}), xEnd |-> Min({run.last.x, Len(str1) - 1}),
   yBegin |-> Max({0, run.first.y - (Q - 1)}), yEnd |-> Min({run.last.y, Len(str2) - 1})]

(* What lies between one stretch and the next is replaced; before the first  *)
(* stretch only if one of the lines has something there, after the last if   *)
(* one of them has.  Neither length is negative, whatever the lines hold:    *)
(* a run is clear of the next in both, so that the next stretch begins       *)
(* behind the last match of this run, and a stretch ends there or before.    *)
Between(pre, next, str2) ==
  IF next.xBegin = 0 /\ next.yBegin = 0 THEN <<>>
  ELSE <<[pos |-> pre.xEnd + 1, del |-> next.xBegin - pre.xEnd - 1,
          text |-> Substr(str2, pre.yEnd + 1, next.yBegin - pre.yEnd - 1)]>>

After(pre, str1, str2) ==
  IF Len(str1) = pre.xEnd + 1 /\ Len(str2) = pre.yEnd + 1 THEN <<>>
  ELSE <<[pos |-> pre.xEnd + 1, del |-> Len(str1) - pre.xEnd - 1,
          text |-> SubSeq(str2, pre.yEnd + 2, Len(str2))]>>

NoStretch == [xBegin |-> 0, xEnd |-> -1, yBegin |-> 0, yEnd |-> -1]

QgramOplist(str1, str2) ==
  LET runs == MergedRuns(QgramMatches(str1, str2))
      stretches == [k \in 1..Len(runs) |-> Stretch(runs[k], str1, str2)]
      pre(k) == IF k = 1 THEN NoStretch ELSE stretches[k - 1]
  IN  FlattenSeq([k \in 1..Len(runs) |-> Between(pre(k), stretches[k], str2)])
      \o After(pre(Len(runs) + 1), str1, str2)

(* Three for each edit and one for each character it puts in, on top of five. *)
QgramCost(ops) ==
  LET cost[k \in 0..Len(ops)] == IF k = 0 THEN 5 ELSE cost[k - 1] + 3 + Len(ops[k].text)
  IN  cost[Len(ops)]
================================================================================
