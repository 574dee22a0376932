------------------------------- MODULE Unpacking -------------------------------
(***************************************************************************)
(* The second compression of an archive: compress_lzma, compress_gzip,     *)
(* ... of BitOutBuffer (and the same calls in compress_file), and the      *)
(* loops of BitInBuffer that unpack a file into a buffer whose final size  *)
(* they do not know.  The libraries are external: packing yields a file of *)
(* some size, and unpacking yields the bytes in order as space and input   *)
(* allow.  What the code adds is the buffers: how large they begin, how    *)
(* they grow, where the library is told to go on, and sizes that pass      *)
(* through 32-bit parameters.  A file may have been cut before it is read. *)
(***************************************************************************)
EXTENDS Integers, Sequences

CONSTANTS
  MaxContent,    \* bound: bytes of an archive
  Overhead,      \* bound: bytes a packed file is larger than its content
  UIntRange      \* 2^32: the values of unsigned int; an int has half of them above 0

ASSUME SizeAssumption ==
  MaxContent \in Nat /\ Overhead \in Nat \ {0} /\ UIntRange \in Nat \ {0} /\ UIntRange % 2 = 0

VARIABLES
  kind,       \* the compressor
  content,    \* bytes packed; byte i of the archive stands for itself
  stage,      \* "pack", "read", "loop", then the result: "true" or "false"
  packed,     \* bytes of the packed file as it is read
  whole,      \* it was not cut
  reach,      \* bytes of content that what is left of it yields
  size,       \* output.size()
  avail,      \* strm.avail_out
  pos,        \* where in output the next byte goes
  output,     \* what has been put there; 0 where nothing was
  produced,   \* bytes the library has yielded
  input,      \* it has input it has not looked at
  idle        \* its last call did nothing

file == <<kind, content, packed, whole, reach>>
vars == <<file, stage, size, avail, pos, output, produced, input, idle>>

Streams == {"lzma", "gzip"}             \* unpacked in a loop
Kinds   == Streams \cup {"zstd", "lz4", "bzip2"}

UInt(n) == n % UIntRange
SInt(n) == IF UInt(n) < UIntRange \div 2 THEN UInt(n) ELSE UInt(n) - UIntRange
Smaller(a, b) == IF a < b THEN a ELSE b
Numbers(a, b) == [i \in 1..(b - a + 1) |-> a + i - 1]

Init ==
  /\ kind \in Kinds /\ content \in 0..MaxContent
  /\ stage = "pack" /\ packed = 0 /\ whole = TRUE /\ reach = 0
  /\ size = 0 /\ avail = 0 /\ pos = 0 /\ output = <<>>
  /\ produced = 0 /\ input = FALSE /\ idle = FALSE

(***************************************************************************)
(* Packing                                                                 *)
(***************************************************************************)

(* What the library is told to pack: lz4 and bzip2 take the size as an int   *)
(* and as an unsigned.                                                       *)
Told == CASE kind = "lz4" -> SInt(content) [] kind = "bzip2" -> UInt(content) [] OTHER -> content

(* The buffer is as large as the library's bound, so the only sizes refused  *)
(* are those lz4 takes for negative; the process may be out of memory.       *)
Pack ==
  /\ stage = "pack" /\ Told >= 0
  /\ packed' \in 1..(Told + Overhead)
  /\ reach' = Told /\ stage' = "read"
  /\ UNCHANGED <<kind, content, whole, size, avail, pos, output, produced, input, idle>>

PackFails ==
  /\ stage = "pack" /\ stage' = "false"
  /\ UNCHANGED <<file, size, avail, pos, output, produced, input, idle>>

(* The file loses its end.                                                   *)
Cut ==
  /\ stage = "read" /\ whole
  /\ whole' = FALSE
  /\ packed' \in 0..(packed - 1)
  /\ reach' \in 0..reach
  /\ UNCHANGED <<kind, content, stage, size, avail, pos, output, produced, input, idle>>

(* The bytes of the file the library is told of: an int says how many to     *)
(* lz4, an unsigned to gzip and bzip2.                                       *)
Shown ==
  CASE kind = "lz4" -> SInt(packed) [] kind \in {"gzip", "bzip2"} -> UInt(packed) [] OTHER -> packed

Entire == whole /\ Shown = packed

(***************************************************************************)
(* lzma and gzip: unpacking in a loop                                      *)
(***************************************************************************)

(* The buffer begins at twice the size of the file.  What the library is not *)
(* shown of it is as good as cut.                                            *)
Begin ==
  /\ stage = "read" /\ kind \in Streams
  /\ stage' = "loop" /\ size' = 2 * packed /\ input' = (Shown > 0)
  /\ avail' = IF kind = "gzip" THEN UInt(2 * packed) ELSE 2 * packed
  /\ reach' \in IF Shown = packed THEN {reach} ELSE 0..reach
  /\ UNCHANGED <<kind, content, packed, whole, pos, output, produced, idle>>

(* One call of lzma_code or inflate: it yields what fits and what there is,  *)
(* and reports the end of the stream (with the last byte, or, if that filled *)
(* the buffer, maybe a call later), progress, or that none was possible,     *)
(* which lzma_code does at the second time only.                             *)
Made == Smaller(avail, reach - produced)
Outcomes ==
  IF Entire /\ produced + Made = reach
  THEN {"end"} \cup (IF Made > 0 /\ Made = avail THEN {"ok"} ELSE {})
  ELSE IF Made > 0 \/ input \/ (kind = "lzma" /\ ~idle) THEN {"ok"}
  ELSE {"no progress"}

(* The bytes go where the library was told to put them; holes stay 0.        *)
Placed ==
  [i \in 1..(IF Len(output) < pos + Made THEN pos + Made ELSE Len(output)) |->
     IF i \in (pos + 1)..(pos + Made) THEN produced + i - pos
     ELSE IF i <= Len(output) THEN output[i] ELSE 0]

Yield ==
  /\ output' = Placed
  /\ produced' = produced + Made
  /\ input' = (Made = avail /\ Made > 0)
  /\ idle' = (Made = 0 /\ ~input)

(* Slip: after the buffer has grown the library goes on at its beginning.    *)
LzmaCallRewound ==
  /\ stage = "loop" /\ kind = "lzma"
  /\ \E outcome \in Outcomes :
       /\ Yield
       /\ stage' = CASE outcome = "end" -> "true" [] outcome = "ok" -> "loop" [] OTHER -> "false"
       /\ IF outcome = "ok" /\ avail = Made
          THEN size' = 2 * size /\ avail' = size /\ pos' = 0
          ELSE size' = size /\ avail' = avail - Made /\ pos' = pos + Made
  /\ UNCHANGED file

(* Slip: whatever the library says short of the end is taken for progress.   *)
LzmaCallCareless ==
  /\ stage = "loop" /\ kind = "lzma"
  /\ \E outcome \in Outcomes :
       /\ Yield
       /\ stage' = IF outcome = "end" THEN "true" ELSE "loop"
       /\ IF outcome # "end" /\ avail = Made /\ size > 0
          THEN size' = 2 * size /\ avail' = size /\ pos' = size
          ELSE size' = size /\ avail' = avail - Made /\ pos' = pos + Made
  /\ UNCHANGED file

(* A buffer that is full is doubled, and the call told to go on behind what  *)
(* it held.                                                                  *)
LzmaCall ==
  /\ stage = "loop" /\ kind = "lzma"
  /\ \E outcome \in Outcomes :
       /\ Yield
       /\ stage' = CASE outcome = "end" -> "true" [] outcome = "ok" -> "loop" [] OTHER -> "false"
       /\ IF outcome = "ok" /\ avail = Made
          THEN size' = 2 * size /\ avail' = size /\ pos' = size
          ELSE size' = size /\ avail' = avail - Made /\ pos' = pos + Made
  /\ UNCHANGED file

(* Slip: all of the buffer is taken for space.                               *)
GzipCallWhole ==
  /\ stage = "loop" /\ kind = "gzip"
  /\ \E outcome \in Outcomes :
       /\ Yield
       /\ stage' = CASE outcome = "end" -> "true" [] outcome = "ok" -> "loop" [] OTHER -> "false"
       /\ LET out == size - (avail - Made)
              new == IF outcome = "ok" /\ avail = Made THEN 2 * size ELSE size
          IN  pos' = out /\ size' = new /\ avail' = UInt(new)
  /\ UNCHANGED file

(* gzip computes the position from the space that is left and the space from *)
(* the position, each time; the space is an unsigned int.                    *)
GzipCall ==
  /\ stage = "loop" /\ kind = "gzip"
  /\ \E outcome \in Outcomes :
       /\ Yield
       /\ stage' = CASE outcome = "end" -> "true" [] outcome = "ok" -> "loop" [] OTHER -> "false"
       /\ LET out == size - (avail - Made)
              new == IF outcome = "ok" /\ avail = Made THEN 2 * size ELSE size
          IN  pos' = out /\ size' = new /\ avail' = UInt(new - out)
  /\ UNCHANGED file

(***************************************************************************)
(* zstd, lz4 and bzip2: unpacking in one call                              *)
(***************************************************************************)
Answer(ok, n) ==
  /\ stage' = IF ok THEN "true" ELSE "false"
  /\ output' = IF ok THEN Numbers(1, n) ELSE output
  /\ UNCHANGED <<file, avail, pos, produced, input, idle>>

(* zstd's frame says how long the content is.                                *)
ZstdCall ==
  /\ stage = "read" /\ kind = "zstd"
  /\ size' = IF whole THEN reach ELSE 0
  /\ Answer(whole, reach)

(* A block of lz4 has neither a length nor an end: the buffer is four times  *)
(* the file, taken as an int, and a block cut where a run of literals ends   *)
(* is as good as a whole one.  An empty one is refused.                      *)
Lz4Call ==
  /\ stage = "read" /\ kind = "lz4"
  /\ size' = 4 * packed
  /\ \E n \in IF Entire THEN {reach} ELSE 0..reach, ok \in {Entire, TRUE} :
       Answer(ok /\ Shown # 0 /\ SInt(4 * packed) >= n, n)

(* Slip: no second attempt.                                                  *)
Bzip2CallOnce ==
  /\ stage = "read" /\ kind = "bzip2"
  /\ size' = UInt(4 * packed)
  /\ Answer(Entire /\ reach <= size', reach)

(* Four times the file, and if that was too small ten times; a file without  *)
(* its end may fill the first buffer or not, and is refused either way.      *)
Bzip2Call ==
  /\ stage = "read" /\ kind = "bzip2"
  /\ LET full == reach > UInt(4 * packed)
     IN  \E again \in {full, full /\ Entire} : size' = UInt((IF again THEN 10 ELSE 4) * packed)
  /\ Answer(Entire /\ reach <= size', reach)

Answered == stage \in {"true", "false"}
Ended == Answered /\ UNCHANGED vars

Unpack == Begin \/ LzmaCall \/ GzipCall \/ ZstdCall \/ Lz4Call \/ Bzip2Call
Next == Pack \/ PackFails \/ Cut \/ Unpack \/ Ended

(* Packing and unpacking are calls that return and loops that go on.         *)
Spec == Init /\ [][Next]_vars /\ WF_vars(Pack \/ PackFails) /\ WF_vars(Unpack)

(***************************************************************************)
(* Properties                                                              *)
(***************************************************************************)
(* With the types: the library is never told of more space than there is      *)
(* behind the position it writes to.                                         *)
TypeOK ==
  /\ kind \in Kinds /\ content \in 0..MaxContent /\ reach \in 0..content
  /\ stage \in {"pack", "read", "loop", "true", "false"}
  /\ packed \in 0..(content + Overhead) /\ whole \in BOOLEAN
  /\ size \in Nat /\ pos \in 0..size /\ avail \in 0..(size - pos)
  /\ produced \in 0..reach /\ input \in BOOLEAN /\ idle \in BOOLEAN

(* No size is beyond what the 32-bit parameters can say: those of the        *)
(* content, of the file, and of the buffer (an int for lz4).                 *)
SizesFit ==
  /\ content < UIntRange /\ packed < UIntRange /\ size < UIntRange
  /\ kind = "lz4" => size < UIntRange \div 2
  /\ kind = "bzip2" => 10 * packed < UIntRange

(* What is returned as success is the content, byte for byte and without a   *)
(* hole, however often the buffer grew and wherever the end of the stream    *)
(* fell in it; of a cut lz4 file it may be a beginning of it.                *)
SuccessIsContent ==
  stage = "true" /\ SizesFit =>
    \/ output = Numbers(1, content)
    \/ kind = "lz4" /\ ~whole /\ output = Numbers(1, Len(output)) /\ Len(output) <= content

(* A whole file is unpacked: refused are only cut files, and lz4 files of    *)
(* less than a fourth of their content and bzip2 files of less than a tenth. *)
WholeIsUnpacked ==
  stage = "false" /\ packed > 0 /\ whole /\ SizesFit =>
    \/ kind = "lz4" /\ content > 4 * packed
    \/ kind = "bzip2" /\ content > 10 * packed

(* The loops end, on cut and on empty files too, and with sizes that do not  *)
(* fit.                                                                      *)
Answers == <>Answered
================================================================================
