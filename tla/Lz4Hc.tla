---------------------------------- MODULE Lz4Hc ----------------------------------
(***************************************************************************)
(* The lz4 block format as the archives use it: LZ4_compress_HC at the     *)
(* level the code asks for (9: LZ4HC_compress_hashChain, into a buffer of  *)
(* LZ4_compressBound bytes), and LZ4_decompress_safe into a buffer of some *)
(* capacity.  Positions count from 0, as in C.  The compressor looks ahead *)
(* with up to three overlapping matches before it writes one.  Its hash    *)
(* chains are abstracted to what they are for: a search yields any wider   *)
(* match within reach, or, when its attempts are used up, none.            *)
(***************************************************************************)
EXTENDS Integers, Sequences, FiniteSets, SequencesExt

CONSTANTS
  Sources,       \* bound: what is compressed
  Spare,         \* bound: bytes of the decoder's buffer beyond the content
  MaxGiveUps,    \* bound: searches that use up their attempts in vain
  NibbleRange,   \* 16: values of half a token
  LastLiterals,  \* 5: bytes at the end that are never matched
  MFLimit,       \* 12: no match starts closer to the end
  DistanceMax,   \* 65535: how far back a match may be
  BoundSlack     \* 16: of LZ4_compressBound

MinMatch  == 4
ByteRange == NibbleRange * NibbleRange
ByteMax   == ByteRange - 1            \* 255: the length goes on
RunMask   == NibbleRange - 1          \* 15: literals beyond a token's half
MlMask    == NibbleRange - 1
OptimalMl == (MlMask - 1) + MinMatch  \* 18: longest match without a length byte

ASSUME Lz4Assumption ==
  /\ NibbleRange \in Nat /\ NibbleRange >= 2
  /\ LastLiterals \in Nat \ {0} /\ MFLimit \in Nat /\ MFLimit >= LastLiterals + MinMatch
  /\ DistanceMax \in 1..(ByteRange * ByteRange - 1)
  /\ BoundSlack \in Nat /\ BoundSlack >= 2 /\ Spare \in Nat /\ MaxGiveUps \in Nat
  /\ \A s \in Sources : s \in Seq(0..ByteMax)

VARIABLES
  src,      \* the bytes to compress
  stage,    \* "main", "search2", "search3": where the compressor is; "packed";
            \* "decode"; then the decoder's answer, "ok" or "error"
  m0, m1, m2,  \* the matches at start0, ip and start2
  parse,    \* the matches written so far
  giveUps,  \* searches still to come that find nothing although there is something
  block,    \* the compressed bytes
  capacity, \* of the decoder's buffer
  iend,     \* bytes of the block that reached the decoder
  ip,       \* where it reads
  out       \* what it has written

coding   == <<m0, m1, m2, parse, giveUps>>
decoding == <<capacity, iend, ip, out>>
vars     == <<src, stage, coding, block, decoding>>

Smaller(a, b) == IF a < b THEN a ELSE b
Least(S) == CHOOSE x \in S : \A y \in S : x <= y
Greatest(S) == CHOOSE x \in S : \A y \in S : x >= y

(***************************************************************************)
(* The compressor                                                          *)
(***************************************************************************)
n == Len(src)
mflimit == n - MFLimit
matchlimit == n - LastLiterals

Match(at, ref, len) == [at |-> at, ref |-> ref, len |-> len]
Cursor(at) == Match(at, at, 0)               \* ip, with no match yet
End(m) == m.at + m.len
(* Slip: the copied bytes do not move with the match.                        *)
LaterStuck(m, k) == Match(m.at + k, m.ref, m.len - k)

(* The match without its first k bytes.                                      *)
Later(m, k) == Match(m.at + k, m.ref + k, m.len - k)
anchor == IF parse = <<>> THEN 0 ELSE End(Last(parse))

Init ==
  /\ src \in Sources /\ stage = "main"
  /\ m0 = Cursor(0) /\ m1 = Cursor(0) /\ m2 = Cursor(0) /\ parse = <<>> /\ giveUps \in 0..MaxGiveUps
  /\ block = <<>> /\ capacity = 0 /\ iend = 0 /\ ip = 0 /\ out = <<>>

(***************************************************************************)
(* The bytes of the block                                                  *)
(***************************************************************************)
(* Slip: every length is closed by a zero.                                   *)
ExtraClosed(len) ==
  IF len < RunMask THEN <<>>
  ELSE [i \in 1..((len - RunMask) \div ByteMax) |-> ByteMax] \o <<(len - RunMask) % ByteMax, 0>>

(* The bytes of a length that half a token does not hold.                    *)
Extra(len) ==
  IF len < RunMask THEN <<>>
  ELSE [i \in 1..((len - RunMask) \div ByteMax) |-> ByteMax] \o <<(len - RunMask) % ByteMax>>

Token(literals, match) ==
  <<Smaller(literals, RunMask) * NibbleRange + Smaller(match, MlMask)>>

Literals(from, to) == Extra(to - from) \o SubSeq(src, from + 1, to)

Sequence(from, m) ==
  Token(m.at - from, m.len - MinMatch) \o Literals(from, m.at)
  \o <<(m.at - m.ref) % ByteRange, (m.at - m.ref) \div ByteRange>> \o Extra(m.len - MinMatch)

LastRun(from) == Token(n - from, 0) \o Literals(from, n)

(* LZ4HC_encodeSequence: the literals since the last match, and the match.    *)
Encode(m) == parse' = Append(parse, m) /\ block' = block \o Sequence(anchor, m)

(***************************************************************************)
(* The search                                                              *)
(***************************************************************************)
Same(p, q, k) == \A i \in 1..k : src[p + i] = src[q + i]
Forward(p, q) == Greatest({k \in 0..(matchlimit - p) : Same(p, q, k)})
Back(p, q, low) == Greatest({k \in 0..Smaller(p - low, q) : Same(p - k, q - k, k)})

(* The matches of the bytes at p that are longer than longest; they may       *)
(* start before p, down to low.                                              *)
Wider(p, low, longest) ==
  {m \in {Match(p - Back(p, q, low), q - Back(p, q, low), Forward(p, q) + Back(p, q, low)) :
            q \in {q \in 0..(p - 1) : p - q <= DistanceMax /\ Same(p, q, MinMatch)}} :
     m.len > longest}

(* A search with these results ends without one.                             *)
FindsNone(found) ==
  IF found = {} THEN UNCHANGED giveUps ELSE giveUps > 0 /\ giveUps' = giveUps - 1

Searching == stage = "main" /\ n > MFLimit /\ m1.at <= mflimit
First == Wider(m1.at, m1.at, MinMatch - 1)

FindFirst ==
  /\ Searching
  /\ \E m \in First : m1' = m /\ m0' = m
  /\ stage' = "search2"
  /\ UNCHANGED <<src, m2, parse, giveUps, block, decoding>>

FindNone ==
  /\ Searching /\ FindsNone(First)
  /\ m1' = Cursor(m1.at + 1)
  /\ UNCHANGED <<src, stage, m0, m2, parse, block, decoding>>

(* _Search2: a second match that begins in the first and goes on beyond it.  *)
Second == IF End(m1) <= mflimit THEN Wider(End(m1) - 2, m1.at, m1.len) ELSE {}

EncodeFirst ==
  /\ stage = "search2" /\ FindsNone(Second)
  /\ Encode(m1)
  /\ m1' = Cursor(End(m1)) /\ stage' = "main"
  /\ UNCHANGED <<src, m0, m2, decoding>>

(* The match the second is weighed against: the one first found here, if it   *)
(* was skipped and still fits before the second.                             *)
Kept(m) == IF m0.at < m1.at /\ m.at < m1.at + m0.len THEN m0 ELSE m1

(* Slip: the search goes on from the match that was found too small.         *)
SecondDropped ==
  /\ stage = "search2"
  /\ \E m \in Second : m.at - Kept(m).at < 3 /\ m1' = Kept(m)
  /\ UNCHANGED <<src, stage, m0, m2, parse, giveUps, block, decoding>>

(* It begins less than three bytes after the first and takes its place.       *)
SecondReplaces ==
  /\ stage = "search2"
  /\ \E m \in Second : m.at - Kept(m).at < 3 /\ m1' = m
  /\ UNCHANGED <<src, stage, m0, m2, parse, giveUps, block, decoding>>

SecondFollows ==
  /\ stage = "search2"
  /\ \E m \in Second : m.at - Kept(m).at >= 3 /\ m1' = Kept(m) /\ m2' = m
  /\ stage' = "search3"
  /\ UNCHANGED <<src, m0, parse, giveUps, block, decoding>>

(* How much of a's length is worth keeping when b follows: all that a token   *)
(* holds, as long as b remains a match.                                      *)
FirstLength(a, b) ==
  Smaller(Smaller(a.len, OptimalMl), b.at - a.at + b.len - MinMatch)

(* _Search3: b gives up the bytes a keeps.                                   *)
Corrected(a, b) ==
  IF b.at - a.at < OptimalMl /\ FirstLength(a, b) > b.at - a.at
  THEN Later(b, FirstLength(a, b) - (b.at - a.at)) ELSE b
second == Corrected(m1, m2)

(* The third match, beyond the second.                                       *)
Third == IF End(second) <= mflimit THEN Wider(End(second) - 3, second.at, second.len) ELSE {}

Trimmed(a, b) == IF b.at < End(a) THEN Match(a.at, a.ref, b.at - a.at) ELSE a

EncodeBoth ==
  /\ stage = "search3" /\ FindsNone(Third)
  /\ LET first == Trimmed(m1, second)
     IN  /\ parse' = parse \o <<first, second>>
         /\ block' = block \o Sequence(anchor, first) \o Sequence(End(first), second)
  /\ m1' = Cursor(End(second)) /\ stage' = "main"
  /\ UNCHANGED <<src, m0, m2, decoding>>

(* It begins in the first match: the second is dropped.                       *)
ThirdReplaces ==
  /\ stage = "search3"
  /\ \E m \in Third : m.at < End(m1) /\ m2' = m
  /\ UNCHANGED <<src, stage, m0, m1, parse, giveUps, block, decoding>>

(* It begins just after the first, which can be written; what the first      *)
(* leaves of the second may be squeezed in later.                            *)
ThirdAfterFirst ==
  /\ stage = "search3"
  /\ \E m \in Third :
       /\ m.at >= End(m1) /\ m.at < End(m1) + 3
       /\ LET cut == Smaller(0, second.at - End(m1))
          IN  m0' = IF cut < 0 /\ second.len + cut < MinMatch THEN m ELSE Later(second, -cut)
       /\ m1' = m
  /\ Encode(m1) /\ stage' = "search2"
  /\ UNCHANGED <<src, m2, giveUps, decoding>>

(* Three ascending matches: the first is written, the others move up.        *)
ThirdAscends ==
  /\ stage = "search3"
  /\ \E m \in Third :
       /\ m.at >= End(m1) + 3
       /\ IF second.at >= End(m1) \/ second.at - m1.at >= OptimalMl
          THEN Encode(Trimmed(m1, second)) /\ m1' = second
          ELSE /\ Encode(Match(m1.at, m1.ref, FirstLength(m1, second)))
               /\ m1' = Corrected(m1, second)
       /\ m2' = m
  /\ UNCHANGED <<src, stage, m0, giveUps, decoding>>

(* _last_literals: the rest is written as literals.                          *)
Finish ==
  /\ stage = "main" /\ ~Searching
  /\ block' = block \o LastRun(anchor)
  /\ stage' = "packed"
  /\ UNCHANGED <<src, coding, decoding>>

(***************************************************************************)
(* The decoder                                                             *)
(***************************************************************************)
(* The block, or what is left of it, is unpacked into a buffer of any size:   *)
(* the archives' is four times what is left, whatever the content takes.     *)
Call ==
  /\ stage = "packed"
  /\ stage' = "decode"
  /\ iend' \in 0..Len(block)
  /\ capacity' \in 0..(n + Spare)
  /\ m0' = Cursor(0) /\ m1' = Cursor(0) /\ m2' = Cursor(0) /\ giveUps' = 0
  /\ UNCHANGED <<src, parse, block, ip, out>>

At(i) == block[i + 1]
op == Len(out)

(* Slip: only one byte of a length is read.                                  *)
LengthOneByte(nibble, mask, from, limit) ==
  IF nibble < mask THEN {[add |-> 0, next |-> from]}
  ELSE IF from < limit THEN {[add |-> At(from), next |-> from + 1]} ELSE {}

(* What a half of the token adds up to with the bytes from `from`, which must *)
(* end by limit: nothing if they do not.                                     *)
Length(nibble, mask, from, limit) ==
  IF nibble < mask THEN {[add |-> 0, next |-> from]}
  ELSE LET stops == {k \in from..(limit - 1) : At(k) # ByteMax}
       IN  IF stops = {} THEN {}
           ELSE {[add |-> (Least(stops) - from) * ByteMax + At(Least(stops)), next |-> Least(stops) + 1]}

literals == At(ip) \div NibbleRange
matching == At(ip) % NibbleRange
LiteralRuns == Length(literals, RunMask, ip + 1, iend - RunMask)

(* Literals and a match that need no length bytes, with room for the longest  *)
(* such in the block and in the buffer.                                      *)
ShortcutOpen ==
  /\ literals # RunMask
  /\ ip + 1 < iend - (RunMask - 1) - 2
  /\ op <= capacity - (RunMask - 1) - OptimalMl

(* A match follows the literals if there is room for what must follow it, in  *)
(* the block and in the buffer, or on the shortcut (the fast loop goes on     *)
(* under no other condition).                                                *)
MatchFollows(run) ==
  \/ /\ op + literals + run.add <= capacity - MFLimit
     /\ run.next + literals + run.add <= iend - (2 + 1 + LastLiterals)
  \/ ShortcutOpen

(* A match copied in the shortcut, eight bytes at a time, is not kept from    *)
(* the last bytes of the buffer.                                             *)
Shortcut(offset) == ShortcutOpen /\ matching # MlMask /\ offset >= 8

Taken(run) == out \o SubSeq(block, run.next + 1, run.next + literals + run.add)

(* len bytes from offset back; a match that overlaps its copy repeats itself, *)
(* and an offset of 0 yields zeros.                                          *)
Copied(seq, offset, len) ==
  seq \o [i \in 1..len |-> IF offset = 0 THEN 0 ELSE seq[Len(seq) - offset + 1 + ((i - 1) % offset)]]

Answer(verdict) == stage' = verdict /\ UNCHANGED <<src, coding, block, capacity, iend, ip, out>>

(* Nothing to write to, and nothing to read.                                 *)
DecodeEmpty ==
  /\ stage = "decode" /\ (capacity = 0 \/ iend = 0)
  /\ Answer(IF capacity = 0 /\ iend = 1 /\ block[1] = 0 THEN "ok" ELSE "error")

Decoding == stage = "decode" /\ capacity > 0 /\ ip < iend

(* A match whose length does not end, that begins before the output or       *)
(* reaches the last bytes of the buffer but by the shortcut is an error.     *)
DecodeSequence ==
  /\ Decoding
  /\ \E run \in LiteralRuns :
       /\ MatchFollows(run)
       /\ LET at     == run.next + literals + run.add
              offset == At(at) + ByteRange * At(at + 1)
              seq    == Taken(run)
              ends   == {l \in Length(matching, MlMask, at + 2, iend - LastLiterals + 1) :
                           /\ offset <= Len(seq)
                           /\ \/ Len(seq) + matching + l.add + MinMatch <= capacity - LastLiterals
                              \/ Shortcut(offset)}
          IN  IF ends = {} THEN Answer("error")
              ELSE \E l \in ends :
                     /\ out' = Copied(seq, offset, matching + l.add + MinMatch)
                     /\ ip' = l.next
                     /\ UNCHANGED <<src, stage, coding, block, capacity, iend>>

(* Slip: the room in the buffer is not looked at.                            *)
EndsUnbounded(run) == run.next + literals + run.add = iend

(* The literals are the last: they fit, and end the block.                   *)
Ends(run) == run.next + literals + run.add = iend /\ op + literals + run.add <= capacity

DecodeLast ==
  /\ Decoding
  /\ \E run \in LiteralRuns :
       /\ ~MatchFollows(run)
       /\ IF Ends(run)
          THEN /\ out' = Taken(run) /\ ip' = iend /\ stage' = "ok"
               /\ UNCHANGED <<src, coding, block, capacity, iend>>
          ELSE Answer("error")

DecodeNoLength == Decoding /\ LiteralRuns = {} /\ Answer("error")

Ended == stage \in {"ok", "error"} /\ UNCHANGED vars

Compress ==
  \/ FindFirst \/ FindNone
  \/ EncodeFirst \/ SecondReplaces \/ SecondFollows
  \/ EncodeBoth \/ ThirdReplaces \/ ThirdAfterFirst \/ ThirdAscends
  \/ Finish
Decompress == DecodeEmpty \/ DecodeSequence \/ DecodeLast \/ DecodeNoLength
Next == Compress \/ Call \/ Decompress \/ Ended

(* Both are calls that keep running once they are made.                      *)
Spec == Init /\ [][Next]_vars /\ WF_vars(Compress) /\ WF_vars(Call) /\ WF_vars(Decompress)

(***************************************************************************)
(* Properties                                                              *)
(***************************************************************************)
Matches == [at : 0..n, ref : 0..n, len : 0..n]

(* With the types: the decoder reads only what it was given, and writes no    *)
(* more than the buffer holds.                                               *)
TypeOK ==
  /\ src \in Sources
  /\ stage \in {"main", "search2", "search3", "packed", "decode", "ok", "error"}
  /\ {m0, m1, m2} \subseteq Matches
  /\ \A i \in DOMAIN parse : parse[i] \in Matches
  /\ \A i \in DOMAIN block : block[i] \in 0..ByteMax
  /\ giveUps \in 0..MaxGiveUps
  /\ iend \in 0..Len(block) /\ ip \in 0..iend
  /\ capacity \in 0..(n + Spare) /\ Len(out) \in 0..capacity

(* Whatever the searches find, and however the matches are cut, dropped and   *)
(* restored when they overlap: every match written begins behind the one     *)
(* before, is long enough for the format, repeats bytes within its reach, and *)
(* keeps the distances from the end the decoder relies on.                   *)
ParseRules ==
  \A i \in DOMAIN parse :
    LET m == parse[i] IN
      /\ m.at >= IF i = 1 THEN 0 ELSE End(parse[i - 1])
      /\ m.len >= MinMatch
      /\ m.at - m.ref \in 1..DistanceMax
      /\ Same(m.at, m.ref, m.len)
      /\ m.at <= mflimit /\ End(m) <= matchlimit

(* The block fits the buffer LZ4_compressBound asks for: the compressor,      *)
(* given that much, does not look at its end.                                *)
WithinBound == Len(block) <= n + n \div ByteMax + BoundSlack

(* A whole block comes back as its source if the buffer is large enough,      *)
(* exactly large enough included, and is refused otherwise; a block that was  *)
(* cut is refused or comes back as a beginning of the source.                *)
DecodesToSource ==
  /\ stage = "ok" => IF iend = Len(block) THEN out = src ELSE IsPrefix(out, src)
  /\ stage = "error" => iend < Len(block) \/ capacity < n

(* The compressor gets through its source: matches that are replaced and      *)
(* restored do not lead back to one another.  So does the decoder.           *)
Terminates == <>(stage \in {"ok", "error"})
================================================================================
