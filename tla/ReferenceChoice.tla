---------------------------- MODULE ReferenceChoice ----------------------------
(***************************************************************************)
(* The loop of main_encoding_compress that finds the line of the window a  *)
(* line is coded against: the three distances, the cache of signatures one *)
(* of them keeps from line to line, the running minimum, the threshold and *)
(* the record that results, with the edits of the real matchers.           *)
(*                                                                         *)
(* RecordPipeline takes distances and edits as given.  Here they are, but  *)
(* only the compressor's side runs; what its records restore is the        *)
(* operator Rebuilt.  A distance is a double in the code, a fraction here: *)
(* the cosine's square roots are left out by comparing squares, and where  *)
(* only their rounding decides, both outcomes are possible.                *)
(***************************************************************************)
EXTENDS QgramMatch, Substitution

CONSTANTS
  Runs,          \* bound: the files, as sequences of lines, and the matcher used on each
  WindowSize, BlockSize,
  Threshold,     \* threshold, as a fraction
  K,             \* 3: the length of a signature's grams, whatever q_value is
  HashSeed,      \* 5381
  Coefficients,  \* a_ and b_, 50 pairs
  HashRange,     \* 2^64
  Prime          \* PRIME

ASSUME ChoiceAssumption ==
  /\ WindowSize \in Nat \ {0} /\ BlockSize \in Nat \ {0}
  /\ Threshold.num \in 0..Threshold.den /\ Threshold.den # 0
  /\ K \in Nat \ {0} /\ Prime \in Nat \ {0} /\ HashRange \in Nat /\ HashRange > Prime
  /\ Coefficients \in Seq(Nat \X Nat) /\ Coefficients # <<>>

Characters == UNION {UNION {ToSet(str) : str \in ToSet(run.input)} : run \in Runs}

ASSUME RunsAssumption ==
  \A run \in Runs : run.input \in Seq(Seq(Characters)) /\ run.approx \in BOOLEAN

VARIABLES
  input,      \* the lines of the file
  kind,       \* the distance: "cosine", "minhash" or "qgram"
  approx,     \* use_approx
  stage,      \* "read", "compare", "done"
  fetched,    \* lines read
  block,      \* lines before this block
  records,    \* the records of the lines that have theirs
  q,          \* the window
  i,          \* window lines the line has been compared with
  nearest,    \* min_distance
  begin,      \* and whose it is, from 0; -1 for none
  cache       \* signature_cache_

options == <<input, kind, approx>>
vars == <<options, stage, fetched, block, records, q, i, nearest, begin, cache>>

Fraction(num, den) == [num |-> num, den |-> den, exact |-> <<>>]
Zero == Fraction(0, 1)
Unit == Fraction(1, 1)

(* a < b, and what else the code may find: equal numbers that two different   *)
(* computations have rounded compare either way.                             *)
Lower(a, b) == a.num * b.den < b.num * a.den
Equal(a, b) == a.num * b.den = b.num * a.den
Identical(a, b) == Equal(a, b) /\ a.exact = b.exact
FoundLower(a, b) == {Lower(a, b)} \cup IF Equal(a, b) /\ ~Identical(a, b) THEN {TRUE} ELSE {}

(***************************************************************************)
(* Distances                                                               *)
(***************************************************************************)
(* generateQgrams: how often each gram occurs, without pads.                 *)
Grams(str, n) == {SubSeq(str, j, j + n - 1) : j \in 1..(Len(str) - n + 1)}
Count(str, gram) == Cardinality({j \in 1..(Len(str) - Len(gram) + 1) : Substr(str, j - 1, Len(gram)) = gram})
Product(s, t) == SumFunction([g \in Grams(s, Q) |-> Count(s, g) * Count(t, g)])

(* 1 - similarity, as 1 - similarity^2.                                      *)
Similarity(dot, norms) ==
  IF norms = 0 THEN Unit
  ELSE [num |-> norms - dot * dot, den |-> norms, exact |-> IF dot = 0 THEN <<>> ELSE <<dot, norms>>]
Cosine(s, t) ==
  With(Product(s, s) * Product(t, t), LAMBDA norms :
    With(Product(s, t), LAMBDA dot : Similarity(dot, norms)))

(* The k-th hash of a gram, and the least over the grams of a line.          *)
Hash(gram, k) ==
  LET base == FoldUp(LAMBDA h, j : 33 * h + gram[j], HashSeed, Len(gram))
  IN  ((Coefficients[k][1] * base + Coefficients[k][2]) % HashRange) % Prime
Signature(str) ==
  [k \in DOMAIN Coefficients |->
     IF Len(str) < K THEN HashRange - 1 ELSE Min({Hash(g, k) : g \in Grams(str, K)})]

(* Neither equal lines nor those shorter than q_value get to signatures.     *)
NeedsSignatures(s, t) == s # t /\ Len(s) >= Q /\ Len(t) >= Q

Known(cached, str) == IF str \in DOMAIN cached THEN cached[str] ELSE Signature(str)

(* The cache once the signatures of both are asked for.                      *)
Remembered(cached, s, t) == [str \in DOMAIN cached \cup {s, t} |-> Known(cached, str)]

MinHash(s, t, cached) ==
  IF s = t THEN Zero
  ELSE IF ~NeedsSignatures(s, t) THEN Unit
  ELSE Fraction(Cardinality({k \in DOMAIN Coefficients : Known(cached, s)[k] # Known(cached, t)[k]}),
                Len(Coefficients))

(* The cost of the edits per character, at most 1; 0 / 0 is not a number, of  *)
(* which min makes 1.                                                        *)
QgramDistance(s, t) ==
  With(QgramCost(QgramOplist(s, t)), LAMBDA cost :
    LET longer == Max({Len(s), Len(t)})
    IN  IF longer = 0 \/ cost >= longer THEN Unit ELSE Fraction(cost, longer))

Distance(s, t, cached) ==
  CASE kind = "cosine" -> Cosine(s, t)
    [] kind = "minhash" -> MinHash(s, t, cached)
    [] kind = "qgram" -> QgramDistance(s, t)

(* What the threshold is for the distance as it is kept here.                *)
Limit ==
  LET num == Threshold.num  den == Threshold.den
  IN  IF kind = "cosine"
      THEN [num |-> den * den - (den - num) * (den - num), den |-> den * den, exact |-> <<"rounded">>]
      ELSE [num |-> num, den |-> den, exact |-> IF kind = "minhash" THEN <<"rounded">> ELSE <<>>]

(***************************************************************************)
(* The loop                                                                *)
(***************************************************************************)
Init ==
  /\ \E run \in Runs : input = run.input /\ approx = run.approx
  /\ kind \in {"cosine", "minhash", "qgram"}
  /\ stage = "read" /\ fetched = 0 /\ block = 0 /\ records = <<>> /\ q = <<>>
  /\ i = 0 /\ nearest = Unit /\ begin = -1
  /\ cache \in {[s \in {} |-> <<>>]}

(* Slip: the cache lives on from block to block.                            *)
ReadBlockUncleared ==
  /\ stage = "read"
  /\ fetched' = Min({fetched + BlockSize, Len(input)}) /\ block' = fetched
  /\ stage' = IF fetched' = fetched THEN "done" ELSE "compare"
  /\ UNCHANGED <<options, records, q, i, nearest, begin, cache>>

(* A block is read, and the cache begins anew.                               *)
ReadBlock ==
  /\ stage = "read"
  /\ fetched' = Min({fetched + BlockSize, Len(input)}) /\ block' = fetched
  /\ stage' = IF fetched' = fetched THEN "done" ELSE "compare"
  /\ cache' = [s \in {} |-> <<>>]
  /\ UNCHANGED <<options, records, q, i, nearest, begin>>

line == input[Len(records) + 1]
Comparing == stage = "compare" /\ Len(records) < fetched

(* Slip: the last of equally near lines is kept.                            *)
CompareOrEqual ==
  /\ Comparing /\ i < Len(q)
  /\ \E distance \in {Distance(q[i + 1], line, cache)} :
       \E lower \in FoundLower(distance, nearest) \cup {Equal(distance, nearest)} :
           IF lower THEN nearest' = distance /\ begin' = i ELSE UNCHANGED <<nearest, begin>>
  /\ cache' = IF kind = "minhash" /\ NeedsSignatures(q[i + 1], line)
              THEN Remembered(cache, q[i + 1], line) ELSE cache
  /\ i' = i + 1
  /\ UNCHANGED <<options, stage, fetched, block, records, q>>

Compare ==
  /\ Comparing /\ i < Len(q)
  /\ \E distance \in {Distance(q[i + 1], line, cache)} :
       \E lower \in FoundLower(distance, nearest) :
           IF lower THEN nearest' = distance /\ begin' = i ELSE UNCHANGED <<nearest, begin>>
  /\ cache' = IF kind = "minhash" /\ NeedsSignatures(q[i + 1], line)
              THEN Remembered(cache, q[i + 1], line) ELSE cache
  /\ i' = i + 1
  /\ UNCHANGED <<options, stage, fetched, block, records, q>>

Raw == [method |-> 1, line |-> line]

(* What the matcher makes of a line of the window and the line.              *)
Matched(b) ==
  IF approx THEN With(QgramOplist(q[b + 1], line), LAMBDA ops : [ops |-> ops, cost |-> QgramCost(ops)])
  ELSE SubstitutionMatch(q[b + 1], line)

(* Slip: the edits are taken against the line that was compared last.       *)
RecordAgainstLast(b) ==
  IF b = -1 THEN Raw
  ELSE With(Matched(Len(q) - 1), LAMBDA match :
         IF match.cost > Len(line) THEN Raw ELSE [method |-> 0, begin |-> b, ops |-> match.ops])

(* Without a reference, or when the edits cost more than the line, raw.      *)
RecordAgainst(b) ==
  IF b = -1 THEN Raw
  ELSE With(Matched(b), LAMBDA match :
         IF match.cost > Len(line) THEN Raw ELSE [method |-> 0, begin |-> b, ops |-> match.ops])

(* Slip: the window grows to one line more than its size.                   *)
SlidLate == Append(IF Len(q) <= WindowSize THEN q ELSE Tail(q), line)

(* The window with the line, the oldest dropped if it was full.              *)
Slid == Append(IF Len(q) < WindowSize THEN q ELSE Tail(q), line)

(* Not below the threshold is not near.                                      *)
Choose ==
  /\ Comparing /\ i = Len(q)
  /\ \E lower \in FoundLower(nearest, Limit) :
       records' = Append(records, RecordAgainst(IF lower THEN begin ELSE -1))
  /\ q' = Slid
  /\ i' = 0 /\ nearest' = Unit /\ begin' = -1
  /\ stage' = IF Len(records') = fetched THEN "read" ELSE "compare"
  /\ UNCHANGED <<options, fetched, block, cache>>

Ended == stage = "done" /\ UNCHANGED vars

Next == ReadBlock \/ Compare \/ Choose \/ Ended

Spec == Init /\ [][Next]_vars

(***************************************************************************)
(* Properties                                                              *)
(***************************************************************************)
(* What the decompressor makes of the records, from the records alone.       *)
Applied(done, op, ref) ==
  [text |-> done.text \o Substr(ref, done.at, op.pos - done.at) \o op.text, at |-> op.pos + op.del]
Patched(ops, ref) ==
  LET done[k \in 0..Len(ops)] ==
        IF k = 0 THEN [text |-> <<>>, at |-> 0] ELSE Applied(done[k - 1], ops[k], ref)
      edited == done[Len(ops)]
  IN  edited.text \o SubSeq(ref, edited.at + 1, Len(ref))
Restored(lines, r) ==
  Append(lines, IF r.method = 1 THEN r.line
                ELSE Patched(r.ops, lines[Max({0, Len(lines) - WindowSize}) + r.begin + 1]))
Rebuilt(recs) ==
  LET lines[k \in 0..Len(recs)] == IF k = 0 THEN <<>> ELSE Restored(lines[k - 1], recs[k])
  IN  lines[Len(recs)]

TypeOK ==
  /\ stage \in {"read", "compare", "done"}
  /\ fetched \in 0..Len(input) /\ block \in 0..fetched /\ Len(records) \in block..fetched
  /\ Len(q) <= WindowSize /\ i \in 0..Len(q) /\ begin \in -1..(i - 1)
  /\ \A r \in ToSet(records) : r.method = 0 => r.begin \in 0..(WindowSize - 1)

(* Whatever is compared, cached and rounded on the way, the minimum the code  *)
(* has arrived at is the nearest line so far, by signatures computed afresh:  *)
(* none of the lines compared is nearer, and of those that compute the same   *)
(* distance it is the first.                                                 *)
Fresh(j) == Distance(q[j + 1], line, [s \in {} |-> <<>>])
ChoiceIsNearest ==
  Comparing =>
    /\ \A j \in 0..(i - 1) : ~Lower(Fresh(j), nearest)
    /\ IF begin = -1 THEN nearest = Unit
       ELSE nearest = Fresh(begin) /\ \A j \in 0..(begin - 1) : ~Identical(Fresh(j), nearest)

(* The cache holds what a line's signature is, and only of lines that have    *)
(* been in the window or read since the block began: it is bounded by the    *)
(* block, not by the window.                                                 *)
CacheOfBlock ==
  \A str \in DOMAIN cache :
    /\ cache[str] = Signature(str)
    /\ \E j \in Max({1, block - WindowSize + 1})..fetched : input[j] = str

(* With the real distances and the real matchers in the place of those       *)
(* RecordPipeline assumes, and whichever line they choose, the records give   *)
(* back the lines they were made from.                                       *)
RecordsRebuildLines == Rebuilt(records) = SubSeq(input, 1, Len(records))
================================================================================
