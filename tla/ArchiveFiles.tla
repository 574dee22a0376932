-------------------------------- MODULE ArchiveFiles --------------------------------
(***************************************************************************)
(* The files a run of the compressor leaves.  It writes the header and the *)
(* blocks to the path it was given, then reads that file, compresses it    *)
(* once more into a file of the same name with an extension, and deletes   *)
(* the first: main_encoding_compress, BitOutBuffer::write and              *)
(* BitCompressor::compress_file.  A run can be killed at any point and     *)
(* started again over what it left; a file can be cut short; and some      *)
(* failures of a write go unnoticed.  The decompressor is given one of     *)
(* these files and writes what it decodes to a file of its own.  Blocks    *)
(* are opaque, and of the kind the format can carry (see BlockCodec).      *)
(***************************************************************************)
EXTENDS Integers, Sequences

CONSTANTS
  Extensions,     \* what a file name can gain: ".bin", ".lzma", ...
  Plain,          \* the extension of a file that is only copied, ".bin"
  Blocks,         \* blocks to a run
  MaxRuns,        \* bound: runs of the compressor
  MaxFaults       \* bound: failed calls, and kills of the decompressor

ASSUME FilesAssumption ==
  /\ Plain \in Extensions /\ "path" \notin Extensions
  /\ Blocks \in Nat \ {0} /\ MaxRuns \in Nat /\ MaxFaults \in Nat

(* The path itself is the name "path", the path with an extension is that        *)
(* extension.  A file is a sequence of items [run, part]: part 0 is the      *)
(* header, part k the k-th block, -1 a block cut short.  whole is FALSE if   *)
(* its last bytes are missing after secondary compression.                   *)
Names == Extensions \cup {"path"}
Parts == -1..Blocks
Archive(r, n) == [k \in 1..n |-> [run |-> r, part |-> k - 1]]
Absent == [exists |-> FALSE, whole |-> FALSE, items |-> <<>>]
File(items, whole) == [exists |-> TRUE, whole |-> whole, items |-> items]

VARIABLES
  disk,        \* the file of every name
  run,         \* the run that is or was last going, 0 before the first
  extension,   \* the extension its compressor option stands for
  pc,          \* what it does next: "header", "block", "pack", "open", "store" or "remove";
               \* "restore" while the decompressor runs, "idle" when neither does
  next,        \* the block it appends next
  packed,      \* the items compress_file has read
  exit,        \* how it ended: "none", "ok", "failed" or "killed"
  unnoticed,   \* a write of this run failed and was taken for a success
  faults,      \* how many of them there were
  given,       \* the name the last decompression was given,
  verdict,     \* how it ended: "none", "success", "error" or "killed",
  restored,    \* the items in its output file,
  decoded,     \* what was decoded for that file, and how decoding ended,
  ending,
  written,     \* items of it handed to the output stream,
  bad          \* and whether that stream has failed

reader == <<given, verdict, restored, decoded, ending, written, bad>>
vars == <<disk, run, extension, pc, next, packed, exit, unnoticed, faults, reader>>

Init ==
  /\ disk = [n \in Names |-> Absent] /\ run = 0 /\ extension = Plain
  /\ pc = "idle" /\ next = 1 /\ packed = <<>> /\ exit = "none"
  /\ unnoticed = FALSE /\ faults = 0
  /\ given = "path" /\ verdict = "none" /\ restored = <<>>
  /\ decoded = <<>> /\ ending = "none" /\ written = 0 /\ bad = FALSE

(***************************************************************************)
(* The compressor                                                          *)
(***************************************************************************)
Fault == faults < MaxFaults /\ faults' = faults + 1

(* main: the options are read, the input is opened.  What is restored from   *)
(* now on goes to another path.                                              *)
Begin ==
  /\ pc = "idle" /\ run < MaxRuns
  /\ run' = run + 1 /\ extension' \in Extensions
  /\ pc' = "header" /\ next' = 1 /\ packed' = <<>> /\ exit' = "none" /\ unnoticed' = FALSE
  /\ given' = "path" /\ verdict' = "none" /\ restored' = <<>>
  /\ decoded' = <<>> /\ ending' = "none" /\ written' = 0 /\ bad' = FALSE
  /\ UNCHANGED <<disk, faults>>

(* What the path holds once a part has been appended to it.                  *)
Appended(part) ==
  [disk EXCEPT !["path"] = File(Append(disk["path"].items, [run |-> run, part |-> part]), TRUE)]

(* Slip: the header is written in mode "ab".                                *)
WriteHeaderAppending ==
  /\ pc = "header" /\ pc' = "block"
  /\ disk' = Appended(0)
  /\ UNCHANGED <<run, extension, next, packed, exit, unnoticed, faults, reader>>

(* write with "wb" empties the file first.  Nobody looks at its result,      *)
(* whether it could not open the file or not fill it.                        *)
WriteHeader ==
  /\ pc = "header" /\ pc' = "block"
  /\ \/ /\ disk' = [disk EXCEPT !["path"] = File(Archive(run, 1), TRUE)]
        /\ UNCHANGED <<faults, unnoticed>>
     \/ /\ Fault /\ unnoticed' = TRUE
        /\ disk' \in {disk, [disk EXCEPT !["path"] = File(<<>>, TRUE)]}
  /\ UNCHANGED <<run, extension, next, packed, exit, reader>>

(* Slip: one block too many.                                                *)
AppendBlockMore ==
  /\ pc = "block" /\ next <= Blocks + 1
  /\ disk' = Appended(next)
  /\ next' = next + 1
  /\ UNCHANGED <<run, extension, pc, packed, exit, unnoticed, faults, reader>>

(* write with "ab" appends, creating the file if need be; again nobody looks *)
(* at the result.                                                            *)
AppendBlock ==
  /\ pc = "block" /\ next <= Blocks
  /\ \/ disk' = Appended(next) /\ UNCHANGED <<faults, unnoticed>>
     \/ Fault /\ unnoticed' = TRUE /\ disk' \in {disk, Appended(-1)}
  /\ next' = next + 1
  /\ UNCHANGED <<run, extension, pc, packed, exit, reader>>

(* Slip: not every block needs to have been appended.                       *)
BlocksDoneEarly ==
  /\ pc = "block"
  /\ pc' = "pack"
  /\ UNCHANGED <<disk, run, extension, next, packed, exit, unnoticed, faults, reader>>

BlocksDone ==
  /\ pc = "block" /\ next > Blocks
  /\ pc' = "pack"
  /\ UNCHANGED <<disk, run, extension, next, packed, exit, unnoticed, faults, reader>>

Exit(how) == pc' = "idle" /\ exit' = how

(* compress_file reads the file back and compresses it in memory ...         *)
Pack ==
  /\ pc = "pack"
  /\ \/ /\ disk["path"].exists
        /\ packed' = disk["path"].items /\ pc' = "open"
        /\ UNCHANGED <<exit, faults>>
     \/ /\ Exit("failed") /\ packed' = packed
        /\ IF disk["path"].exists THEN Fault ELSE faults' = faults
  /\ UNCHANGED <<disk, run, extension, next, unnoticed, reader>>

(* Slip: the path is removed as soon as it has been read.                   *)
OpenRemoving ==
  /\ pc = "open"
  /\ disk' = [disk EXCEPT ![extension] = File(<<>>, FALSE), !["path"] = Absent]
  /\ pc' = "store"
  /\ UNCHANGED <<run, extension, next, packed, exit, unnoticed, faults, reader>>

(* ... opens the file with the extension, which empties it ...               *)
Open ==
  /\ pc = "open"
  /\ \/ /\ disk' = [disk EXCEPT ![extension] = File(<<>>, FALSE)]
        /\ pc' = "store" /\ UNCHANGED <<exit, faults>>
     \/ Fault /\ Exit("failed") /\ disk' = disk
  /\ UNCHANGED <<run, extension, next, packed, unnoticed, reader>>

(* ... and fills it.  A failure to write is reported; what the stream still  *)
(* holds goes out with close(), and nobody looks whether it did.  Less than  *)
(* everything is on the disk in either case: the first parts, or, if it is   *)
(* no mere copy, bytes that hold no part (less than a header is as nothing). *)
Torn ==
  {SubSeq(packed, 1, n) : n \in 0..Len(packed)}
    \cup {items \in {<<[run |-> run, part |-> -1]>>} : extension # Plain}

CutShort == \E items \in Torn : disk' = [disk EXCEPT ![extension] = File(items, FALSE)]

(* Slip: a failure to write is not looked at.                               *)
StoreCareless ==
  /\ pc = "store"
  /\ \/ disk' = [disk EXCEPT ![extension] = File(packed, TRUE)] /\ faults' = faults
     \/ Fault /\ CutShort
  /\ pc' = "remove"
  /\ UNCHANGED <<run, extension, next, packed, exit, unnoticed, reader>>

Store ==
  /\ pc = "store"
  /\ \/ /\ disk' = [disk EXCEPT ![extension] = File(packed, TRUE)]
        /\ pc' = "remove" /\ UNCHANGED <<exit, faults, unnoticed>>
     \/ Fault /\ CutShort /\ Exit("failed") /\ UNCHANGED unnoticed
     \/ Fault /\ CutShort /\ pc' = "remove" /\ unnoticed' = TRUE /\ UNCHANGED exit
  /\ UNCHANGED <<run, extension, next, packed, reader>>

(* The first file goes; the run has succeeded if it could be removed.        *)
Remove ==
  /\ pc = "remove"
  /\ \/ disk' = [disk EXCEPT !["path"] = Absent] /\ Exit("ok") /\ faults' = faults
     \/ Fault /\ Exit("failed") /\ disk' = disk
  /\ UNCHANGED <<run, extension, next, packed, unnoticed, reader>>

(* The run is killed, between two steps or in the middle of writing: once     *)
(* write has emptied the file and before the header is in it (less than a    *)
(* header is as nothing), or with a block or the packed file half written.   *)
Kill ==
  /\ pc \notin {"idle", "restore"} /\ Exit("killed")
  /\ \/ disk' = disk
     \/ pc = "header" /\ disk' = [disk EXCEPT !["path"] = File(<<>>, TRUE)]
     \/ pc = "block" /\ next <= Blocks /\ disk' = Appended(-1)
     \/ pc = "store" /\ CutShort
  /\ UNCHANGED <<run, extension, next, packed, unnoticed, faults, reader>>

(***************************************************************************)
(* The decompressor, given one of the names: main_decoding_decompress and  *)
(* BitInBuffer::read.                                                      *)
(***************************************************************************)
Noise == <<[run |-> 0, part |-> -1]>>

(* The lengths at which a file is the beginning of the archive of one run.   *)
InStep(items) ==
  {m \in DOMAIN items : \A k \in 1..m : items[k] = [run |-> items[1].run, part |-> k - 1]}

(* So much of it is read as it was written.  Then the file ends, or ends     *)
(* within the next block, which passes for the end as well.  What else       *)
(* follows is out of its place: behind a block cut short, or with another    *)
(* window than the one it was written with, it can come out as anything.     *)
After(items, m) ==
  LET blocks == SubSeq(items, 2, m)
  IN  IF m = Len(items) \/ (m + 1 = Len(items) /\ items[m + 1].part = -1)
      THEN [decoded : {blocks}, ending : {"success"}]
      ELSE [decoded : {blocks, blocks \o Noise}, ending : {"success", "error"}]

Decoded(items) ==
  UNION {After(items, m) : m \in {n \in InStep(items) : n + 1 \notin InStep(items)}}

(* Secondary compression cannot be undone on a part of the file: read()      *)
(* fails, leaving the bytes as they are, and nobody looks at its result.     *)
Broken(name) == name \notin {"path", Plain} /\ disk[name].exists /\ ~disk[name].whole

(* What decoding hands back, and how it ends.  Bytes that are no archive, or *)
(* not one from its start, can come out as anything; most often they end     *)
(* early, which passes for the end.                                          *)
Decodings(name) ==
  LET items == disk[name].items
  IN  IF Broken(name) \/ items[1].part # 0
      THEN [decoded : {<<>>, Noise}, ending : {"success", "error"}]
      ELSE Decoded(items)

compressor == <<disk, run, extension, next, packed, exit, unnoticed>>

(* A missing or an empty file has no window size to read, other bytes may    *)
(* have 0 for one, and the output may not open: the output is as it was.     *)
Refuse(name) ==
  /\ pc = "idle" /\ given' = name /\ verdict' = "error"
  /\ IF disk[name].items = <<>> \/ Broken(name) \/ disk[name].items[1].part # 0
     THEN faults' = faults ELSE Fault
  /\ UNCHANGED <<compressor, pc, restored, decoded, ending, written, bad>>

(* The input is in memory and has a header: the output is opened, and empty. *)
OpenOutput(name) ==
  /\ pc = "idle" /\ disk[name].items # <<>>
  /\ given' = name /\ pc' = "restore" /\ verdict' = "none"
  /\ \E d \in Decodings(name) : decoded' = d.decoded /\ ending' = d.ending
  /\ restored' = <<>> /\ written' = 0 /\ bad' = FALSE
  /\ UNCHANGED <<compressor, faults>>

(* An item of which only the first lines, or none, have been written.        *)
CutOff(item) == {restored, Append(restored, [item EXCEPT !.part = -1])}

(* Slip: the output goes on after a failure.                                 *)
WriteItemGoingOn ==
  /\ pc = "restore" /\ written < Len(decoded)
  /\ LET item == decoded[written + 1]
     IN  \/ restored' = Append(restored, item) /\ UNCHANGED <<faults, bad>>
         \/ Fault /\ bad' = TRUE /\ restored' \in CutOff(item)
  /\ written' = written + 1
  /\ UNCHANGED <<compressor, pc, given, verdict, decoded, ending>>

(* The lines of a block are written one by one.  Nobody looks whether one    *)
(* could be, but a stream that has failed takes nothing more.                *)
WriteItem ==
  /\ pc = "restore" /\ written < Len(decoded)
  /\ LET item == decoded[written + 1]
     IN  \/ restored' = (IF bad THEN restored ELSE Append(restored, item)) /\ UNCHANGED <<faults, bad>>
         \/ ~bad /\ Fault /\ bad' = TRUE /\ restored' \in CutOff(item)
  /\ written' = written + 1
  /\ UNCHANGED <<compressor, pc, given, verdict, decoded, ending>>

Finish ==
  /\ pc = "restore" /\ written = Len(decoded)
  /\ pc' = "idle" /\ verdict' = ending /\ ending' = "none" /\ written' = 0
  /\ UNCHANGED <<compressor, given, restored, decoded, bad, faults>>

KillReader ==
  /\ pc = "restore" /\ Fault
  /\ pc' = "idle" /\ verdict' = "killed"
  /\ \/ restored' = restored
     \/ ~bad /\ written < Len(decoded) /\ restored' \in CutOff(decoded[written + 1])
  /\ ending' = "none" /\ written' = 0
  /\ UNCHANGED <<compressor, given, decoded, bad>>

Compress == Begin \/ WriteHeader \/ AppendBlock \/ BlocksDone \/ Pack \/ Open \/ Store \/ Remove
Decompress == (\E name \in Names : Refuse(name) \/ OpenOutput(name)) \/ WriteItem \/ Finish \/ KillReader
Next == Compress \/ Kill \/ Decompress

Spec == Init /\ [][Next]_vars

(***************************************************************************)
(* Properties                                                              *)
(***************************************************************************)
Items == [run : 0..MaxRuns, part : Parts]

TypeOK ==
  /\ disk \in [Names -> [exists : BOOLEAN, whole : BOOLEAN, items : Seq(Items)]]
  /\ run \in 0..MaxRuns /\ extension \in Extensions
  /\ pc \in {"idle", "header", "block", "pack", "open", "store", "remove", "restore"}
  /\ next \in 1..(Blocks + 1) /\ packed \in Seq(Items)
  /\ exit \in {"none", "ok", "failed", "killed"} /\ unnoticed \in BOOLEAN
  /\ faults \in 0..MaxFaults
  /\ given \in Names /\ verdict \in {"none", "success", "error", "killed"}
  /\ restored \in Seq(Items) /\ decoded \in Seq(Items) /\ ending \in {"none", "success", "error"}
  /\ written \in 0..Len(decoded) /\ bad \in BOOLEAN

Complete(r) == File(Archive(r, Blocks + 1), TRUE)

(* Whatever earlier runs left under the path, whole or cut short, the file a *)
(* run works on holds its own header and blocks and nothing else, unless one *)
(* of its writes failed unnoticed.                                           *)
StartsAnew ==
  pc \in {"block", "pack", "open", "store", "remove"} /\ ~unnoticed =>
    disk["path"] = File(Archive(run, next), TRUE)

(* Once a run has written its last block, the path or the path with the      *)
(* extension names a complete archive of it, until the next run begins: it   *)
(* does not matter where it is killed, or which of the calls that report     *)
(* their failure fails.                                                      *)
WholeSomewhere ==
  run > 0 /\ pc # "header" /\ next > Blocks /\ ~unnoticed =>
    Complete(run) \in {disk["path"], disk[extension]}

(* A run that ends in success leaves one file, a complete archive.           *)
SuccessIsStored ==
  exit = "ok" /\ ~unnoticed => disk[extension] = Complete(run) /\ disk["path"] = Absent

(* An archive that an earlier run completed is overwritten only when the     *)
(* archive that takes its place is complete under the path.                  *)
ReplacedByWhole ==
  [][\A name \in Extensions :
       disk[name].whole /\ disk'[name] # disk[name] =>
         name = extension /\ (unnoticed \/ disk["path"] = Complete(run))]_vars

(* As long as nothing fails unnoticed, a decompression that succeeds hands   *)
(* back the first blocks of one run, never blocks of two, whichever file it  *)
(* is given and wherever runs were killed; only a file that cannot be        *)
(* unpacked comes out as something else.                                     *)
RestoresOneRun ==
  faults = 0 /\ verdict = "success" =>
    \/ \E r \in 1..MaxRuns : \A k \in DOMAIN restored : restored[k] = [run |-> r, part |-> k]
    \/ given \notin {"path", Plain} /\ restored = Noise

(* The output file is at any time a beginning of what was decoded for it,    *)
(* maybe with a last block that is cut off, and never has a hole, whichever  *)
(* of the writes fail; a call that is refused leaves an older output alone.  *)
(* A success without a failure is all of it.                                 *)
OutputIsBeginning ==
  /\ \E n \in 0..Len(decoded) :
       \/ restored = SubSeq(decoded, 1, n)
       \/ n > 0 /\ restored = Append(SubSeq(decoded, 1, n - 1), [decoded[n] EXCEPT !.part = -1])
  /\ verdict = "success" /\ ~bad => restored = decoded

(* What README.md shows: decompressing the path the compressor was given.    *)
UsageWorks == exit = "ok" /\ given = "path" /\ verdict \in {"success", "error"} => verdict = "success"

(* A decompression succeeds only on a file that could be unpacked.           *)
UnpacksOrRefuses == verdict = "success" => ~Broken(given)
================================================================================
