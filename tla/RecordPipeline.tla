----------------------------- MODULE RecordPipeline -----------------------------
(***************************************************************************)
(* record_compress followed by record_decompress, at the level of records. *)
(*                                                                         *)
(* The compressor reads the file in blocks of BlockSize lines, codes every *)
(* line against the nearest line of a sliding window of WindowSize lines   *)
(* (or stores it raw), slides the window, and appends each finished block  *)
(* to the archive.  The decompressor rebuilds the lines of one block after *)
(* another, sliding a window of its own whose size it reads from the       *)
(* header.  Nothing in the archive says what the window holds: the two     *)
(* programs agree on every reference only if the two windows do.           *)
(*                                                                         *)
(* Abstracted: how an edit list is found (Diff) and applied (Patch), see    *)
(* the assumptions, and how a block becomes bytes.  Module BlockCodec has   *)
(* the bytes, and shows that a block reads back as the records in it if the *)
(* format can carry them (Carried), and may read back as anything if not.   *)
(* So here an appended block is the records in it, and decoding one that    *)
(* is not carried puts the decompressor out of step, for any outcome.       *)
(* The archive is the concatenation of the records of its blocks with the   *)
(* end of each block beside it.                                             *)
(***************************************************************************)
EXTENDS Integers, Sequences

CONSTANTS
  Line,          \* the lines
  Inputs,        \* the files: sequences of lines
  WindowSize,    \* window_size, default 8
  FieldSize,     \* 2^16: the header keeps window_size modulo this
  BlockSize,     \* block_size, in lines, default 327680000
  Dist(_, _),    \* Distance::calculateDistance, scaled to naturals
  Unit,          \* the 1.0 that min_distance starts from
  Threshold,     \* threshold
  Diff(_, _),    \* the edit list from a reference line to a line
  Patch(_, _),   \* the line an edit list makes of a reference line, or no line:
                 \* substr throws on an edit beyond the end
  Cost(_),       \* the new_distance the matcher returns with the list
  Length(_),     \* line.length()
  Carried(_),    \* BlockCodec's Carried and Numbered: the records of a block
                 \* come out of byteArrayDecoding as they went in
  MaxMisread     \* bound: lines handed over by a decompressor out of step

ASSUME WindowAssumption ==
  /\ WindowSize \in Nat \ {0}
  /\ FieldSize \in Nat \ {0}
ASSUME BlockSizeAssumption == BlockSize \in Nat \ {0}
ASSUME MisreadAssumption == MaxMisread \in Nat
ASSUME InputsAssumption == Inputs \subseteq Seq(Line)
ASSUME DistAssumption ==
  /\ Unit \in Nat /\ Threshold \in Nat
  /\ \A s, t \in Line : Dist(s, t) \in Nat

(* The matchers' contract: an edit list turns its reference into the line. *)
ASSUME PatchAssumption == \A s, t \in Line : Patch(Diff(s, t), s) = t

VARIABLES
  input,     \* the lines of the file being compressed
  \* the compressor
  cpc,       \* "header", "read", "lines", then "done" or "crashed"
  fetched,   \* lines getline has returned so far
  loopEnd,   \* loop_end
  cq,        \* its window q, oldest line first
  records,   \* records of the block under construction
  \* the archive
  header,    \* the window field, or NoHeader before it is written
  archive,   \* the records of all blocks written
  blockEnd,  \* blockEnd[b] = number of records up to the end of block b
  \* the decompressor
  dpc,       \* "start", "block", "lines", "lost", then "done" or "error"
  dwin,      \* its window_size
  dq,        \* its window q
  dblock,    \* blocks decoded so far, as long as they were carried
  output     \* the lines written

compressor   == <<cpc, fetched, loopEnd, cq, records>>
stored       == <<header, archive, blockEnd>>
decompressor == <<dpc, dwin, dq, dblock, output>>
vars == <<input, cpc, fetched, loopEnd, cq, records, header, archive, blockEnd,
          dpc, dwin, dq, dblock, output>>

NoHeader == -1

(* A record: method 1 carries the line, method 0 a window index and edits. *)
Raw(line) == [method |-> 1, line |-> line]
Coded(begin, ops) == [method |-> 0, begin |-> begin, ops |-> ops]

Edits == {Diff(s, t) : s, t \in Line}
Record == [method : {1}, line : Line] \cup [method : {0}, begin : Nat, ops : Edits]

(* Slip: the window grows to one line more than its size.                   *)
SlideLate(q, line, size) == Append(IF Len(q) <= size THEN q ELSE Tail(q), line)

(* The window takes in a line, dropping the oldest when it is full. *)
Slide(q, line, size) == Append(IF Len(q) < size THEN q ELSE Tail(q), line)

(* Window positions near enough to code against, and the one chosen: the    *)
(* first of the nearest.                                                    *)
Near(q, line) == {i \in 1..Len(q) : Dist(q[i], line) < Unit /\ Dist(q[i], line) < Threshold}

Nearest(q, line, near) ==
  CHOOSE i \in near : \A j \in near :
    Dist(q[i], line) < Dist(q[j], line) \/ (Dist(q[i], line) = Dist(q[j], line) /\ i <= j)

(* Slip: one off, turning a position that is 0-based already.               *)
RecordOfOneLess(q, line) ==
  LET near == Near(q, line)
      best == Nearest(q, line, near)
      ops  == Diff(q[best], line)
  IN  IF near = {} THEN Raw(line)
      ELSE IF Cost(ops) > Length(line) THEN Raw(line)
      ELSE Coded(best - 2, ops)

(* The record of a line: raw when nothing is near or the edits cost more    *)
(* than the line, otherwise the edits against the nearest (begin is 0-based)*)
RecordOf(q, line) ==
  LET near == Near(q, line)
      best == Nearest(q, line, near)
      ops  == Diff(q[best], line)
  IN  IF near = {} THEN Raw(line)
      ELSE IF Cost(ops) > Length(line) THEN Raw(line)
      ELSE Coded(best - 1, ops)

Processed == Len(archive) + Len(records)
Least(a, b) == IF a < b THEN a ELSE b

Init ==
  /\ input \in Inputs
  /\ cpc = "header" /\ fetched = 0 /\ loopEnd = FALSE /\ cq = <<>> /\ records = <<>>
  /\ header = NoHeader /\ archive = <<>> /\ blockEnd = <<>>
  /\ dpc = "start" /\ dwin = 0 /\ dq = <<>> /\ dblock = 0 /\ output = <<>>

(* Slip: the largest index of the window instead of its size.               *)
WriteHeaderLast ==
  /\ cpc = "header"
  /\ header' = (WindowSize - 1) % FieldSize
  /\ cpc' = "read"
  /\ UNCHANGED <<input, fetched, loopEnd, cq, records, archive, blockEnd, decompressor>>

(***************************************************************************)
(* record_compress                                                         *)
(***************************************************************************)
WriteHeader ==
  /\ cpc = "header"
  /\ header' = WindowSize % FieldSize
  /\ cpc' = "read"
  /\ UNCHANGED <<input, fetched, loopEnd, cq, records, archive, blockEnd, decompressor>>

(* Slip: a block that is just full is taken for the last.                   *)
ReadBlockLastFull ==
  /\ cpc = "read"
  /\ LET n == Least(BlockSize, Len(input) - fetched)
     IN  /\ fetched' = fetched + n
         /\ loopEnd' = (n <= BlockSize)
  /\ cpc' = "lines"
  /\ UNCHANGED <<input, cq, records, stored, decompressor>>

(* Slip: the window is cleared with the distance cache, block by block.     *)
ReadBlockClearing ==
  /\ cpc = "read"
  /\ LET n == Least(BlockSize, Len(input) - fetched)
     IN  /\ fetched' = fetched + n
         /\ loopEnd' = (n < BlockSize)
  /\ cpc' = "lines" /\ cq' = <<>>
  /\ UNCHANGED <<input, records, stored, decompressor>>

(* getline until the block is full; a failing getline ends the outer loop.  *)
ReadBlock ==
  /\ cpc = "read"
  /\ LET n == Least(BlockSize, Len(input) - fetched)
     IN  /\ fetched' = fetched + n
         /\ loopEnd' = (n < BlockSize)
  /\ cpc' = "lines"
  /\ UNCHANGED <<input, cq, records, stored, decompressor>>

CompressLine ==
  /\ cpc = "lines" /\ Processed < fetched
  /\ LET line == input[Processed + 1]
     IN  /\ records' = Append(records, RecordOf(cq, line))
         /\ cq' = Slide(cq, line, WindowSize)
  /\ UNCHANGED <<input, cpc, fetched, loopEnd, stored, decompressor>>

StoreBlock ==
  /\ cpc = "lines" /\ Processed = fetched
  /\ archive' = archive \o records
  /\ blockEnd' = Append(blockEnd, Len(archive) + Len(records))
  /\ records' = <<>>

(* byteArrayEncoding appends the block, an empty one too, whether or not    *)
(* its bytes will give the records back (ReadsBack).                        *)
WriteBlock ==
  /\ StoreBlock
  /\ cpc' = IF loopEnd THEN "done" ELSE "read"
  /\ UNCHANGED <<input, fetched, loopEnd, cq, header, decompressor>>

(* The process dies.  A block cut in the middle of its append reads back as *)
(* end of file before the block is complete, so it counts as not written.   *)
(* One that is not carried may be taken for anything, cut or not: as if it  *)
(* were written.                                                            *)
Crash ==
  /\ cpc \in {"header", "read", "lines"}
  /\ cpc' = "crashed"
  /\ \/ UNCHANGED <<records, archive, blockEnd>>
     \/ records # <<>> /\ ~Carried(records) /\ StoreBlock
  /\ UNCHANGED <<input, fetched, loopEnd, cq, header, decompressor>>

(***************************************************************************)
(* record_decompress, run once the compressor is gone                      *)
(***************************************************************************)
Stopped == cpc \in {"done", "crashed"}

ReadHeader ==
  /\ Stopped /\ dpc = "start"
  /\ IF header \in {NoHeader, 0}
     THEN dpc' = "error" /\ dwin' = dwin
     ELSE dpc' = "block" /\ dwin' = header
  /\ UNCHANGED <<input, compressor, stored, dq, dblock, output>>

BlockStart(b) == IF b = 1 THEN 0 ELSE blockEnd[b - 1]

(* Decoding block b gives the records that were encoded.                    *)
ReadsBack(b) ==
  LET block == SubSeq(archive, BlockStart(b) + 1, blockEnd[b]) IN block = <<>> \/ Carried(block)

(* The end of the file, or a block of no records.                           *)
AtEnd == dblock < Len(blockEnd) => blockEnd[dblock + 1] = BlockStart(dblock + 1)

(* Slip: the last block is taken for the end.                               *)
DecodeBlockButLast ==
  /\ dpc = "block"
  /\ dpc' = IF AtEnd \/ dblock + 1 = Len(blockEnd) THEN "done"
            ELSE IF ReadsBack(dblock + 1) THEN "lines" ELSE "lost"
  /\ dblock' = IF dpc' = "lines" THEN dblock + 1 ELSE dblock
  /\ UNCHANGED <<input, compressor, stored, dwin, dq, output>>

(* byteArrayDecoding: the end ends the run, a block that reads back is      *)
(* processed next, and in any other the decoder loses its place.            *)
DecodeBlock ==
  /\ dpc = "block"
  /\ dpc' = IF AtEnd THEN "done" ELSE IF ReadsBack(dblock + 1) THEN "lines" ELSE "lost"
  /\ dblock' = IF dpc' = "lines" THEN dblock + 1 ELSE dblock
  /\ UNCHANGED <<input, compressor, stored, dwin, dq, output>>

(* A record whose reference lies outside the window stops the program, and  *)
(* so does an edit outside its reference.                                   *)
BadReference(r) ==
  r.method = 0 /\ (r.begin >= Len(dq) \/ Patch(r.ops, dq[r.begin + 1]) \notin Line)
LineOf(r) == IF r.method = 0 THEN Patch(r.ops, dq[r.begin + 1]) ELSE r.line

(* Slip: only the lines stored raw enter the window.                         *)
RecoverLineRawOnly ==
  /\ dpc = "lines"
  /\ LET r == archive[Len(output) + 1]
     IN  IF BadReference(r)
         THEN dpc' = "error" /\ UNCHANGED <<dq, output>>
         ELSE /\ output' = Append(output, LineOf(r))
              /\ dq' = IF r.method = 1 THEN Slide(dq, LineOf(r), dwin) ELSE dq
              /\ dpc' = IF Len(output) + 1 = blockEnd[dblock] THEN "block" ELSE "lines"
  /\ UNCHANGED <<input, compressor, stored, dwin, dblock>>

RecoverLine ==
  /\ dpc = "lines"
  /\ LET r == archive[Len(output) + 1]
     IN  IF BadReference(r)
         THEN dpc' = "error" /\ UNCHANGED <<dq, output>>
         ELSE /\ output' = Append(output, LineOf(r))
              /\ dq' = Slide(dq, LineOf(r), dwin)
              /\ dpc' = IF Len(output) + 1 = blockEnd[dblock] THEN "block" ELSE "lines"
  /\ UNCHANGED <<input, compressor, stored, dwin, dblock>>

(* Out of step it may take the rest of the archive for any records: write   *)
(* lines the file never had, in the window too, and perhaps fall back into  *)
(* step; find an impossible width, count or reference; or run off the end.  *)
(* Every block it makes out takes some of the archive, so this ends.        *)
Misread ==
  /\ dpc = "lost"
  /\ \/ /\ Len(output) < BlockStart(dblock + 1) + MaxMisread
        /\ \E line \in Line : /\ output' = Append(output, line)
                              /\ dq' = Slide(dq, line, dwin)
        /\ dpc' = dpc
     \/ dpc' \in {"done", "error"} /\ UNCHANGED <<dq, output>>
  /\ UNCHANGED <<input, compressor, stored, dwin, dblock>>

Ended == Stopped /\ dpc \in {"done", "error"} /\ UNCHANGED vars

Compress == WriteHeader \/ ReadBlock \/ CompressLine \/ WriteBlock
Decompress == ReadHeader \/ DecodeBlock \/ RecoverLine \/ Misread
Next == Compress \/ Crash \/ Decompress \/ Ended

Spec == Init /\ [][Next]_vars

(* Both programs are sequential loops that the system keeps scheduling.     *)
FairSpec == Spec /\ WF_vars(Compress) /\ WF_vars(Decompress)

(***************************************************************************)
(* Properties                                                              *)
(***************************************************************************)
TypeOK ==
  /\ input \in Inputs
  /\ cpc \in {"header", "read", "lines", "done", "crashed"}
  /\ fetched \in 0..Len(input) /\ loopEnd \in BOOLEAN
  /\ cq \in Seq(Line) /\ records \in Seq(Record)
  /\ header \in Nat \cup {NoHeader} /\ archive \in Seq(Record) /\ blockEnd \in Seq(Nat)
  /\ dpc \in {"start", "block", "lines", "lost", "done", "error"}
  /\ dwin \in Nat /\ dq \in Seq(Line) /\ dblock \in Nat /\ output \in Seq(Line)

(* The last lines of the first n, at most WindowSize of them: what a window  *)
(* must hold after n lines.                                                  *)
WindowAfter(n) ==
  LET k == Least(n, WindowSize) IN [i \in 1..k |-> input[n - k + i]]

(* The header can represent the window size.                                 *)
WindowFits == WindowSize < FieldSize

(* The format carries every block of the archive.                            *)
AllReadBack == \A b \in 1..Len(blockEnd) : ReadsBack(b)

(* The records ahead of the first block it does not carry.                   *)
Sure ==
  BlockStart(CHOOSE b \in 1..(Len(blockEnd) + 1) :
               /\ \A c \in 1..(b - 1) : ReadsBack(c)
               /\ b <= Len(blockEnd) => ~ReadsBack(b))

(* Each program's window is the last WindowSize lines it has processed:      *)
(* whenever the decompressor comes to record k its window is the one the     *)
(* compressor coded record k against, whatever mix of raw and coded records  *)
(* and block boundaries lies between, as far as the archive reads back.      *)
WindowsAgree ==
  /\ cq = WindowAfter(Processed)
  /\ AllReadBack \/ Len(output) < Sure => dq = WindowAfter(Len(output))

(* What is restored is the beginning of the file, up to the first block the  *)
(* format cannot carry; and if it carries all, there is nothing else.        *)
OutputIsPrefix ==
  /\ \A i \in 1..Least(Len(output), Sure) : output[i] = input[i]
  /\ AllReadBack => Len(output) <= Len(input)

(* If every block reads back, the decompressor succeeds with less than the   *)
(* file only if the compressor was cut short, and then only with whole       *)
(* blocks: no empty block in the middle of the archive is taken for its end. *)
SuccessIsComplete ==
  dpc = "done" /\ AllReadBack => /\ Len(output) = Len(archive)
                                 /\ cpc = "done" => output = input

(* No archive whose blocks all read back is refused, except one cut short    *)
(* before its header, and no reference in it is found invalid; if some do    *)
(* not, all ahead of the first of these is restored before any refusal.      *)
RefusedOnlyWithoutHeader ==
  dpc = "error" => /\ AllReadBack => header = NoHeader /\ output = <<>>
                   /\ Len(output) >= Sure

(* A run of the decompressor ends whatever became of the compressor, and     *)
(* ends with the whole file restored when the compressor finished and the    *)
(* format carries every block.                                               *)
EventuallyRestored ==
  <>(/\ dpc \in {"done", "error"}
     /\ cpc = "done" /\ AllReadBack => dpc = "done" /\ output = input)

(* The pair implements the abstract archive, up to the first block that the  *)
(* format does not carry: what comes after that is no step of the archive's, *)
(* and neither is the way the decompressor then ends.                        *)
Promise == INSTANCE LineArchive WITH
  file <- input,
  durable <- Len(archive),
  closed <- IF cpc = "done" THEN "complete" ELSE IF cpc = "crashed" THEN "cut" ELSE "no",
  restored <- SubSeq(output, 1, Least(Len(output), Sure)),
  verdict <- IF ~AllReadBack \/ dpc \notin {"done", "error"} THEN "none"
             ELSE IF dpc = "done" THEN "success" ELSE "refused"

ImplementsArchive == Promise!ArchiveSpec
================================================================================
