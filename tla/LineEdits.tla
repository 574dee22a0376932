--------------------------------- MODULE LineEdits ---------------------------------
(***************************************************************************)
(* One line on its way through the matcher and back: the compressor finds  *)
(* the edits that turn a reference line into the line, the decompressor    *)
(* applies them to the same reference, one after the other.  Both pairs of *)
(* functions of the code are here, the approximate (q-grams) and the exact *)
(* (substitution); their decompressing halves are the same loop, since an  *)
(* edit that inserts nothing has no text.                                  *)
(***************************************************************************)
EXTENDS QgramMatch, Substitution

CONSTANT Lines      \* the lines, as sequences of characters

LineCharacters == UNION {ToSet(line) : line \in Lines}

ASSUME LinesAssumption == Lines \subseteq Seq(LineCharacters)

VARIABLES
  source,    \* the reference line
  target,    \* the line
  matcher,   \* "qgram" (use_approx) or "substitution"
  phase,     \* "match", "recover", "done", or "thrown" by the matcher
  ops,       \* the edits
  cost,      \* their cost, as the matcher reports it
  applied,   \* how many have been applied
  oldPos,    \* how much of the reference they account for
  result     \* the line so far

lineVars == <<source, target, matcher, phase, ops, cost, applied, oldPos, result>>

EditsInit ==
  /\ source \in Lines /\ target \in Lines /\ matcher \in {"qgram", "substitution"}
  /\ phase = "match" /\ ops = <<>> /\ cost = 0
  /\ applied = 0 /\ oldPos = 0 /\ result = <<>>

(* With grams of one character an empty line has no gram, and taking the     *)
(* first throws.                                                             *)
NoGram == Q = 1 /\ <<>> \in {source, target}

MatchQgram ==
  /\ phase = "match" /\ matcher = "qgram"
  /\ LET edits == QgramOplist(source, target)
     IN  IF NoGram THEN phase' = "thrown" /\ UNCHANGED <<ops, cost>>
         ELSE phase' = "recover" /\ ops' = edits /\ cost' = QgramCost(edits)
  /\ UNCHANGED <<source, target, matcher, applied, oldPos, result>>

MatchSubstitution ==
  /\ phase = "match" /\ matcher = "substitution"
  /\ LET match == SubstitutionMatch(source, target)
     IN  ops' = match.ops /\ cost' = match.cost
  /\ phase' = "recover"
  /\ UNCHANGED <<source, target, matcher, applied, oldPos, result>>

(* Slip: the text inserted is skipped, not the text deleted.                *)
ApplyEditSwapped ==
  /\ phase = "recover" /\ applied < Len(ops)
  /\ LET op == ops[applied + 1]
     IN  /\ result' = result \o Substr(source, oldPos, op.pos - oldPos) \o op.text
         /\ oldPos' = op.pos + Len(op.text)
  /\ applied' = applied + 1
  /\ UNCHANGED <<source, target, matcher, phase, ops, cost>>

(* Copy what the next edit leaves alone, add its text, skip what it deletes. *)
ApplyEdit ==
  /\ phase = "recover" /\ applied < Len(ops)
  /\ LET op == ops[applied + 1]
     IN  /\ result' = result \o Substr(source, oldPos, op.pos - oldPos) \o op.text
         /\ oldPos' = op.pos + op.del
  /\ applied' = applied + 1
  /\ UNCHANGED <<source, target, matcher, phase, ops, cost>>

CopyRest ==
  /\ phase = "recover" /\ applied = Len(ops)
  /\ result' = result \o SubSeq(source, oldPos + 1, Len(source))
  /\ oldPos' = Len(source)
  /\ phase' = "done"
  /\ UNCHANGED <<source, target, matcher, ops, cost, applied>>

EditsEnded == phase \in {"done", "thrown"} /\ UNCHANGED lineVars

EditsNext == MatchQgram \/ MatchSubstitution \/ ApplyEdit \/ CopyRest \/ EditsEnded

EditsSpec == EditsInit /\ [][EditsNext]_lineVars

(***************************************************************************)
(* Properties                                                              *)
(***************************************************************************)
EditsTypeOK ==
  /\ source \in Lines /\ target \in Lines /\ matcher \in {"qgram", "substitution"}
  /\ phase \in {"match", "recover", "done", "thrown"}
  /\ applied \in 0..Len(ops) /\ oldPos \in 0..Len(source) /\ cost \in Nat

(* The edits come in the order of their positions, none reaches into the     *)
(* next or beyond the reference, and two never touch: what recovery copies   *)
(* between them is at least a character.  The codec relies on it, which      *)
(* writes positions as steps, and so does recovery, whose substr throws on a *)
(* position past the end.                                                    *)
EditsInOrder ==
  \A i \in DOMAIN ops :
    /\ ops[i].del >= 0 /\ ops[i].pos >= 0 /\ ops[i].pos + ops[i].del <= Len(source)
    /\ i < Len(ops) => ops[i].pos + ops[i].del < ops[i + 1].pos

(* At every edit the recovered text is a part of the line that starts where  *)
(* the line starts, and when all are applied it is the line.                 *)
RecoversLine ==
  /\ IsPrefix(result, target)
  /\ phase = "done" => result = target

(* The cost the compressor decides by is what the edits take: three for      *)
(* each and one for each character they insert.  q-grams start at five, and  *)
(* an edit from or to the empty line counts two more.                        *)
Price(edits) ==
  LET paid[k \in 0..Len(edits)] == IF k = 0 THEN 0 ELSE paid[k - 1] + 3 + Len(edits[k].text)
  IN  paid[Len(edits)]

CostIsPaid ==
  phase \in {"recover", "done"} =>
    cost = Price(ops)
           + (IF matcher = "qgram" THEN 5
              ELSE IF ops # <<>> /\ <<>> \in {source, target} THEN 2 ELSE 0)
================================================================================
