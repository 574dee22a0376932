---------------------------- MODULE ArchiveFiles_proofs ----------------------------
(***************************************************************************)
(* For any number of runs, blocks and failed calls: the files the          *)
(* compressor leaves.  The invariant below follows a run through its       *)
(* steps; what it says of the path while the run goes on (StartsAnew), it  *)
(* hands over to the copy in memory (PackedIsWhole) and from there to the  *)
(* file with the extension (StoredIsWhole) before the path may go.         *)
(***************************************************************************)
EXTENDS ArchiveFiles, TLAPS

Shape == disk = [n \in Names |-> disk[n]] /\ extension \in Extensions

InRun ==
  /\ next \in Nat /\ run \in Nat
  /\ pc \in {"idle", "header", "block", "pack", "open", "store", "remove", "restore"}
  /\ pc \notin {"idle", "restore"} => run > 0 /\ exit = "none"
  /\ pc = "header" => next = 1
  /\ pc = "block" => next <= Blocks + 1
  /\ pc \in {"pack", "open", "store", "remove"} => next = Blocks + 1

PackedIsWhole ==
  pc \in {"open", "store", "remove"} /\ ~unnoticed => packed = Archive(run, Blocks + 1)

StoredIsWhole == pc = "remove" /\ ~unnoticed => disk[extension] = Complete(run)

(* A run that has ended in success had written all its blocks.               *)
IInv ==
  /\ Shape /\ InRun /\ StartsAnew /\ PackedIsWhole /\ StoredIsWhole
  /\ WholeSomewhere /\ SuccessIsStored

LEMMA SomeBlocks == Blocks \in Nat /\ Blocks >= 1
  BY FilesAssumption DEF FilesAssumption

(* An archive grows by a block.                                              *)
LEMMA Grown ==
  ASSUME NEW r, NEW n \in Nat
  PROVE  Append(Archive(r, n), [run |-> r, part |-> n]) = Archive(r, n + 1)
  BY SMTT(30) DEF Archive

(* What writing the path does to the files of every name.                    *)
LEMMA PathWritten ==
  ASSUME Shape, NEW f, disk' = [disk EXCEPT !["path"] = f]
  PROVE  /\ disk' = [n \in Names |-> disk'[n]]
         /\ disk'["path"] = f /\ \A n \in Extensions : disk'[n] = disk[n]
  BY FilesAssumption DEF FilesAssumption, Shape, Names

LEMMA ExtensionWritten ==
  ASSUME Shape, NEW f, disk' = [disk EXCEPT ![extension] = f]
  PROVE  /\ disk' = [n \in Names |-> disk'[n]]
         /\ disk'[extension] = f /\ disk'["path"] = disk["path"]
         /\ \A n \in Extensions : n # extension => disk'[n] = disk[n]
  BY FilesAssumption DEF FilesAssumption, Shape, Names

LEMMA InitIInv == Init => IInv
<1> SUFFICES ASSUME Init PROVE IInv
  OBVIOUS
<1>1. Shape
  BY FilesAssumption DEF FilesAssumption, Init, Shape
<1>2. InRun /\ StartsAnew /\ PackedIsWhole /\ StoredIsWhole /\ WholeSomewhere /\ SuccessIsStored
  BY DEF Init, InRun, StartsAnew, PackedIsWhole, StoredIsWhole, WholeSomewhere, SuccessIsStored
<1> QED
  BY <1>1, <1>2 DEF IInv

(* A step that leaves the files, the run's place in its program and the      *)
(* notice of failures alone keeps the invariant.                             *)
LEMMA DecompressIInv == IInv /\ Decompress => IInv'
<1> SUFFICES ASSUME IInv, Decompress PROVE IInv'
  OBVIOUS
<1>1. /\ UNCHANGED compressor
      /\ pc \in {"idle", "restore"} /\ pc' \in {"idle", "restore"}
  BY DEF Decompress, Refuse, OpenOutput, WriteItem, Finish, KillReader
<1>2. Shape' /\ InRun'
  BY <1>1 DEF IInv, compressor, Shape, InRun
<1>3. StartsAnew' /\ PackedIsWhole' /\ StoredIsWhole' /\ SuccessIsStored'
  BY <1>1 DEF IInv, compressor, StartsAnew, PackedIsWhole, StoredIsWhole, SuccessIsStored
<1>4. WholeSomewhere'
  BY <1>1 DEF IInv, compressor, WholeSomewhere
<1> QED
  BY <1>2, <1>3, <1>4 DEF IInv

LEMMA BeginIInv == IInv /\ Begin => IInv'
<1> SUFFICES ASSUME IInv, Begin PROVE IInv'
  OBVIOUS
<1>1. Shape'
  BY DEF IInv, Begin, Shape
<1>2. InRun'
  BY DEF IInv, Begin, InRun
<1>3. StartsAnew' /\ PackedIsWhole' /\ StoredIsWhole' /\ WholeSomewhere' /\ SuccessIsStored'
  BY DEF Begin, StartsAnew, PackedIsWhole, StoredIsWhole, WholeSomewhere, SuccessIsStored
<1> QED
  BY <1>1, <1>2, <1>3 DEF IInv

LEMMA WriteHeaderIInv == IInv /\ WriteHeader => IInv'
<1> SUFFICES ASSUME IInv, WriteHeader PROVE IInv'
  OBVIOUS
<1>1. /\ Shape'
      /\ ~unnoticed' => disk'["path"] = File(Archive(run, 1), TRUE)
  BY PathWritten DEF IInv, WriteHeader, Shape, Fault
<1>2. InRun'
  BY SomeBlocks DEF IInv, WriteHeader, InRun
<1>3. StartsAnew'
  BY <1>1 DEF IInv, InRun, WriteHeader, StartsAnew
<1>4. PackedIsWhole' /\ StoredIsWhole' /\ SuccessIsStored'
  BY DEF IInv, InRun, WriteHeader, PackedIsWhole, StoredIsWhole, SuccessIsStored
<1>5. WholeSomewhere'
  BY SomeBlocks DEF IInv, InRun, WriteHeader, WholeSomewhere
<1> QED
  BY <1>1, <1>2, <1>3, <1>4, <1>5 DEF IInv

LEMMA AppendBlockIInv == IInv /\ AppendBlock => IInv'
<1> SUFFICES ASSUME IInv, AppendBlock PROVE IInv'
  OBVIOUS
<1>1. /\ Shape'
      /\ ~unnoticed' => ~unnoticed /\ disk'["path"] = File(Append(disk["path"].items, [run |-> run, part |-> next]), TRUE)
  <2>1. CASE disk' = Appended(next) /\ unnoticed' = unnoticed
    BY <2>1, PathWritten DEF IInv, AppendBlock, Appended, Shape
  <2>2. CASE unnoticed' = TRUE /\ disk' \in {disk, Appended(-1)}
    BY <2>2, PathWritten DEF IInv, AppendBlock, Appended, Shape
  <2> QED
    BY <2>1, <2>2 DEF AppendBlock
<1>2. InRun'
  BY SomeBlocks DEF IInv, AppendBlock, InRun
<1>3. ~unnoticed => disk["path"].items = Archive(run, next)
  BY DEF IInv, AppendBlock, StartsAnew, File
<1>4. ~unnoticed' => disk'["path"] = File(Archive(run', next'), TRUE)
  BY <1>1, <1>3, Grown DEF IInv, InRun, AppendBlock
<1>5. StartsAnew'
  BY <1>4 DEF StartsAnew
<1>6. PackedIsWhole' /\ StoredIsWhole' /\ SuccessIsStored'
  BY DEF IInv, InRun, AppendBlock, PackedIsWhole, StoredIsWhole, SuccessIsStored
<1>7. WholeSomewhere'
  <2> SUFFICES ASSUME ~unnoticed', next' > Blocks PROVE disk'["path"] = Complete(run')
    BY DEF WholeSomewhere
  <2>1. next' = Blocks + 1
    BY SomeBlocks DEF IInv, InRun, AppendBlock
  <2> QED
    BY <1>4, <2>1 DEF Complete
<1> QED
  BY <1>1, <1>2, <1>5, <1>6, <1>7 DEF IInv

LEMMA BlocksDoneIInv == IInv /\ BlocksDone => IInv'
<1> SUFFICES ASSUME IInv, BlocksDone PROVE IInv'
  OBVIOUS
<1>1. Shape' /\ InRun'
  BY FilesAssumption DEF FilesAssumption, IInv, BlocksDone, Shape, InRun
<1>2. StartsAnew' /\ PackedIsWhole' /\ StoredIsWhole' /\ WholeSomewhere' /\ SuccessIsStored'
  BY DEF IInv, BlocksDone, StartsAnew, PackedIsWhole, StoredIsWhole, WholeSomewhere, SuccessIsStored
<1> QED
  BY <1>1, <1>2 DEF IInv

LEMMA PackIInv == IInv /\ Pack => IInv'
<1> SUFFICES ASSUME IInv, Pack PROVE IInv'
  OBVIOUS
<1>1. Shape' /\ InRun'
  BY DEF IInv, Pack, Exit, Shape, InRun
<1>2. StartsAnew'
  BY DEF IInv, Pack, Exit, StartsAnew
<1>3. PackedIsWhole'
  BY DEF IInv, Pack, Exit, InRun, StartsAnew, PackedIsWhole, File
<1>4. StoredIsWhole' /\ WholeSomewhere' /\ SuccessIsStored'
  BY DEF IInv, InRun, Pack, Exit, StoredIsWhole, WholeSomewhere, SuccessIsStored
<1> QED
  BY <1>1, <1>2, <1>3, <1>4 DEF IInv

(* From here on the path is whole and stays so until it is removed.          *)
LEMMA PathIsWhole ==
  ASSUME IInv, pc \in {"pack", "open", "store", "remove"}, ~unnoticed
  PROVE  disk["path"] = Complete(run)
  BY DEF IInv, InRun, StartsAnew, Complete

LEMMA OpenIInv == IInv /\ Open => IInv'
<1> SUFFICES ASSUME IInv, Open PROVE IInv'
  OBVIOUS
<1>1. Shape' /\ disk'["path"] = disk["path"]
  BY ExtensionWritten DEF IInv, Open, Shape
<1>2. InRun'
  BY DEF IInv, Open, Exit, InRun
<1>3. StartsAnew' /\ PackedIsWhole' /\ StoredIsWhole' /\ SuccessIsStored'
  BY <1>1 DEF IInv, InRun, Open, Exit, StartsAnew, PackedIsWhole, StoredIsWhole, SuccessIsStored
<1>4. WholeSomewhere'
  BY <1>1, PathIsWhole DEF Open, WholeSomewhere
<1> QED
  BY <1>1, <1>2, <1>3, <1>4 DEF IInv

LEMMA StoreIInv == IInv /\ Store => IInv'
<1> SUFFICES ASSUME IInv, Store PROVE IInv'
  OBVIOUS
<1>1. Shape' /\ disk'["path"] = disk["path"]
  BY ExtensionWritten DEF IInv, Store, CutShort, Shape
<1>2. InRun'
  BY DEF IInv, Store, Exit, InRun
<1>3. StartsAnew' /\ PackedIsWhole' /\ SuccessIsStored'
  BY <1>1 DEF IInv, InRun, Store, Exit, StartsAnew, PackedIsWhole, SuccessIsStored
<1>4. StoredIsWhole'
  BY ExtensionWritten DEF IInv, Store, Exit, PackedIsWhole, StoredIsWhole, Complete
<1>5. WholeSomewhere'
  <2>1. ~unnoticed' => ~unnoticed /\ run' = run
    BY DEF Store
  <2> QED
    BY <1>1, <2>1, PathIsWhole DEF Store, WholeSomewhere
<1> QED
  BY <1>1, <1>2, <1>3, <1>4, <1>5 DEF IInv

LEMMA RemoveIInv == IInv /\ Remove => IInv'
<1> SUFFICES ASSUME IInv, Remove PROVE IInv'
  OBVIOUS
<1>1. Shape' /\ disk'[extension] = disk[extension]
  BY PathWritten DEF IInv, Remove, Shape
<1>2. InRun'
  BY DEF IInv, Remove, Exit, InRun
<1>3. StartsAnew' /\ PackedIsWhole' /\ StoredIsWhole'
  BY DEF Remove, Exit, StartsAnew, PackedIsWhole, StoredIsWhole
<1>4. WholeSomewhere'
  BY <1>1 DEF IInv, Remove, StoredIsWhole, WholeSomewhere
<1>5. SuccessIsStored'
  BY <1>1, PathWritten DEF IInv, Remove, Exit, StoredIsWhole, SuccessIsStored
<1> QED
  BY <1>1, <1>2, <1>3, <1>4, <1>5 DEF IInv

LEMMA KillIInv == IInv /\ Kill => IInv'
<1> SUFFICES ASSUME IInv, Kill PROVE IInv'
  OBVIOUS
<1>1. Shape'
  BY PathWritten, ExtensionWritten DEF IInv, Kill, Appended, CutShort, Shape
<1>2. InRun'
  BY DEF IInv, Kill, Exit, InRun
<1>3. StartsAnew' /\ PackedIsWhole' /\ StoredIsWhole' /\ SuccessIsStored'
  BY DEF Kill, Exit, StartsAnew, PackedIsWhole, StoredIsWhole, SuccessIsStored
<1>4. WholeSomewhere'
  <2> SUFFICES ASSUME run > 0, next > Blocks, ~unnoticed
               PROVE  Complete(run) \in {disk'["path"], disk'[extension]}
    BY DEF Kill, WholeSomewhere
  <2>1. CASE disk' = disk /\ pc # "header"
    BY <2>1 DEF IInv, Kill, WholeSomewhere
  <2>2. pc # "header"
    BY SomeBlocks DEF IInv, InRun
  <2>3. CASE pc = "block" /\ next <= Blocks
    BY <2>3, SomeBlocks DEF IInv, InRun
  <2>4. CASE pc = "store" /\ CutShort
    BY <2>4, ExtensionWritten, PathIsWhole DEF IInv, CutShort
  <2> QED
    BY <2>1, <2>2, <2>3, <2>4 DEF Kill
<1> QED
  BY <1>1, <1>2, <1>3, <1>4 DEF IInv

THEOREM Invariance == Spec => []IInv
<1>1. IInv /\ [Next]_vars => IInv'
  <2> SUFFICES ASSUME IInv, [Next]_vars PROVE IInv'
    OBVIOUS
  <2>1. CASE Compress
    BY <2>1, BeginIInv, WriteHeaderIInv, AppendBlockIInv, BlocksDoneIInv, PackIInv, OpenIInv,
      StoreIInv, RemoveIInv DEF Compress
  <2>2. CASE Kill
    BY <2>2, KillIInv
  <2>3. CASE Decompress
    BY <2>3, DecompressIInv
  <2>4. CASE UNCHANGED vars
    BY <2>4 DEF vars, IInv, Shape, InRun, StartsAnew, PackedIsWhole, StoredIsWhole,
      WholeSomewhere, SuccessIsStored
  <2> QED
    BY <2>1, <2>2, <2>3, <2>4 DEF Next
<1> QED
  BY <1>1, InitIInv, PTL DEF Spec

(* Whatever earlier runs left under the path, the file a run works on holds  *)
(* its own header and blocks and nothing else, unless a write failed         *)
(* unnoticed: write() with "wb" empties the file.                            *)
THEOREM AlwaysStartsAnew == Spec => []StartsAnew
  BY Invariance, PTL DEF IInv

(* From the last block of a run to the beginning of the next, the path or    *)
(* the path with the extension names a complete archive, wherever the run is *)
(* killed: compress_file removes its input only after it has stored it.      *)
THEOREM AlwaysWholeSomewhere == Spec => []WholeSomewhere
  BY Invariance, PTL DEF IInv

(* A run that reports success has left one complete archive and no leftover. *)
THEOREM SuccessAlwaysStored == Spec => []SuccessIsStored
  BY Invariance, PTL DEF IInv

(* The archive of an earlier run is overwritten only when the one that takes *)
(* its place is complete under the path.                                     *)
THEOREM AlwaysReplacedByWhole == Spec => ReplacedByWhole
<1>1. ASSUME IInv, [Next]_vars, NEW name \in Extensions, disk[name].whole, disk'[name] # disk[name]
      PROVE  name = extension /\ (unnoticed \/ disk["path"] = Complete(run))
  <2>1. CASE Begin \/ BlocksDone \/ Pack \/ UNCHANGED vars \/ Decompress
    BY <1>1, <2>1 DEF Begin, BlocksDone, Pack, vars, compressor,
      Decompress, Refuse, OpenOutput, WriteItem, Finish, KillReader
  <2>2. CASE WriteHeader
    BY <1>1, <2>2, PathWritten DEF IInv, WriteHeader
  <2>3. CASE AppendBlock
    BY <1>1, <2>3, PathWritten DEF IInv, AppendBlock, Appended
  <2>4. CASE Open
    BY <1>1, <2>4, ExtensionWritten, PathIsWhole DEF IInv, Open
  <2>5. CASE Store
    BY <1>1, <2>5, ExtensionWritten, PathIsWhole DEF IInv, Store, CutShort
  <2>6. CASE Remove
    BY <1>1, <2>6, PathWritten DEF IInv, Remove
  <2>7. CASE Kill
    BY <1>1, <2>7, PathWritten, ExtensionWritten, PathIsWhole DEF IInv, Kill, Appended, CutShort
  <2> QED
    BY <1>1, <2>1, <2>2, <2>3, <2>4, <2>5, <2>6, <2>7 DEF Next, Compress
<1>2. IInv /\ [Next]_vars =>
        [\A name \in Extensions :
           disk[name].whole /\ disk'[name] # disk[name] =>
             name = extension /\ (unnoticed \/ disk["path"] = Complete(run))]_vars
  BY <1>1
<1> QED
  BY <1>2, Invariance, PTL DEF Spec, ReplacedByWhole

(***************************************************************************)
(* Types                                                                   *)
(***************************************************************************)
Files == [exists : BOOLEAN, whole : BOOLEAN, items : Seq(Items)]

LEMMA FileType ==
  ASSUME NEW items \in Seq(Items)
  PROVE  File(items, TRUE) \in Files /\ File(items, FALSE) \in Files
<1>1. TRUE \in BOOLEAN /\ FALSE \in BOOLEAN
  OBVIOUS
<1>2. \A whole \in BOOLEAN : File(items, whole) \in Files
  BY DEF File, Files
<1> QED
  BY <1>1, <1>2, Zenon

LEMMA EmptyType == <<>> \in Seq(Items)
  OBVIOUS

LEMMA ArchiveType ==
  ASSUME NEW r \in 0..MaxRuns, NEW n \in 0..(Blocks + 1)
  PROVE  Archive(r, n) \in Seq(Items)
  BY FilesAssumption DEF FilesAssumption, Archive, Items, Parts

LEMMA DiskWritten ==
  ASSUME disk \in [Names -> Files], NEW name \in Names, NEW f \in Files,
         disk' = [disk EXCEPT ![name] = f]
  PROVE  disk' \in [Names -> Files]
  OBVIOUS

LEMMA AppendedType ==
  ASSUME TypeOK, NEW part \in Parts, disk' = Appended(part)
  PROVE  disk' \in [Names -> Files]
<1>1. [run |-> run, part |-> part] \in Items /\ disk["path"].items \in Seq(Items)
  BY DEF TypeOK, Items, Names
<1>2. Append(disk["path"].items, [run |-> run, part |-> part]) \in Seq(Items)
  BY <1>1
<1>3. File(Append(disk["path"].items, [run |-> run, part |-> part]), TRUE) \in Files
  BY <1>2, FileType, Zenon
<1> QED
  BY <1>3, DiskWritten DEF Appended, TypeOK, Files, Names

LEMMA EmptiedType ==
  ASSUME TypeOK, disk' = [disk EXCEPT !["path"] = File(<<>>, TRUE)]
  PROVE  disk' \in [Names -> Files]
<1>1. File(<<>>, TRUE) \in Files
  BY EmptyType, FileType, Zenon
<1> QED
  BY <1>1, DiskWritten DEF TypeOK, Files, Names

LEMMA CutShortType ==
  ASSUME TypeOK, CutShort
  PROVE  disk' \in [Names -> Files]
<1>1. PICK items \in Torn : disk' = [disk EXCEPT ![extension] = File(items, FALSE)]
  BY DEF CutShort
<1>2. items \in Seq(Items)
  <2>1. CASE \E n \in 0..Len(packed) : items = SubSeq(packed, 1, n)
    BY <2>1 DEF TypeOK
  <2>2. CASE items = <<[run |-> run, part |-> -1]>>
    <3>1. [run |-> run, part |-> -1] \in Items
      BY FilesAssumption DEF FilesAssumption, TypeOK, Items, Parts
    <3> QED
      BY <2>2, <3>1
  <2> QED
    BY <1>1, <2>1, <2>2 DEF Torn
<1> QED
  BY <1>1, <1>2, FileType, DiskWritten DEF TypeOK, Files, Names

LEMMA DecodingsType ==
  ASSUME TypeOK, NEW name \in Names, NEW d \in Decodings(name)
  PROVE  d.decoded \in Seq(Items) /\ d.ending \in {"success", "error"}
<1> DEFINE items == disk[name].items
<1>1. items \in Seq(Items)
  BY DEF TypeOK
<1>2. Noise \in Seq(Items)
  BY FilesAssumption DEF FilesAssumption, Noise, Items, Parts
<1>3. CASE d \in [decoded : {<<>>, Noise}, ending : {"success", "error"}]
  BY <1>2, <1>3, EmptyType, Zenon
<1>4. CASE d \in Decoded(items)
  <2>1. PICK m \in DOMAIN items : d \in After(items, m)
    BY <1>4 DEF Decoded, InStep
  <2> DEFINE blocks == SubSeq(items, 2, m)
  <2>2. blocks \in Seq(Items)
    BY <1>1
  <2> HIDE DEF blocks
  <2>3. blocks \o Noise \in Seq(Items)
    BY <1>2, <2>2
  <2>4. \/ d \in [decoded : {blocks}, ending : {"success"}]
        \/ d \in [decoded : {blocks, blocks \o Noise}, ending : {"success", "error"}]
    BY <2>1, Zenon DEF After, blocks
  <2> QED
    BY <2>2, <2>3, <2>4, Zenon
<1> QED
  BY <1>3, <1>4 DEF Decodings

LEMMA CutOffType ==
  ASSUME TypeOK, NEW item \in Items, NEW r \in CutOff(item)
  PROVE  r \in Seq(Items)
<1>1. [item EXCEPT !.part = -1] \in Items
  BY FilesAssumption DEF FilesAssumption, Items, Parts
<1>2. restored \in Seq(Items)
  BY DEF TypeOK
<1> QED
  BY <1>1, <1>2 DEF CutOff

(* The types of the files, of the compressor's variables and of the reader's. *)
FilesTyped == disk \in [Names -> Files]

RunTyped ==
  /\ run \in 0..MaxRuns /\ extension \in Extensions
  /\ pc \in {"idle", "header", "block", "pack", "open", "store", "remove", "restore"}
  /\ next \in 1..(Blocks + 1) /\ packed \in Seq(Items)
  /\ exit \in {"none", "ok", "failed", "killed"}
  /\ faults \in 0..MaxFaults

ReaderTyped ==
  /\ given \in Names /\ verdict \in {"none", "success", "error", "killed"}
  /\ restored \in Seq(Items) /\ decoded \in Seq(Items) /\ ending \in {"none", "success", "error"}
  /\ written \in 0..Len(decoded)

FlagsTyped == unnoticed \in BOOLEAN /\ bad \in BOOLEAN

LEMMA TypeParts == TypeOK <=> FilesTyped /\ RunTyped /\ ReaderTyped /\ FlagsTyped
  BY Zenon DEF TypeOK, FilesTyped, RunTyped, ReaderTyped, FlagsTyped, Files

LEMMA FlagsType == FlagsTyped /\ [Next]_vars => FlagsTyped'
  BY Zenon DEF FlagsTyped, Next, Compress, Kill, Decompress, Begin, WriteHeader, AppendBlock,
    BlocksDone, Pack, Open, Store, Remove, Refuse, OpenOutput, WriteItem, Finish, KillReader,
    vars, compressor, reader

LEMMA SameReader == ReaderTyped /\ UNCHANGED reader => ReaderTyped'
  BY DEF ReaderTyped, reader

LEMMA FaultType ==
  ASSUME faults \in 0..MaxFaults, Fault
  PROVE  faults' \in 0..MaxFaults
  BY FilesAssumption DEF FilesAssumption, Fault

LEMMA CompressType == TypeOK /\ Compress => (FilesTyped /\ RunTyped /\ ReaderTyped)'
<1> SUFFICES ASSUME TypeOK, Compress, FilesTyped, RunTyped, ReaderTyped
             PROVE  (FilesTyped /\ RunTyped /\ ReaderTyped)'
  BY TypeParts
<1> USE FilesAssumption, FaultType DEF FilesAssumption
<1>1. CASE Begin
  BY <1>1 DEF Begin, FilesTyped, RunTyped, ReaderTyped, Names
<1>2. CASE WriteHeader
  <2>1. FilesTyped'
    <3>1. Archive(run, 1) \in Seq(Items)
      BY ArchiveType DEF RunTyped
    <3>2. File(Archive(run, 1), TRUE) \in Files /\ File(<<>>, TRUE) \in Files
      BY <3>1, EmptyType, FileType, Zenon
    <3> QED
      BY <1>2, <3>2, DiskWritten DEF WriteHeader, FilesTyped, Names
  <2> QED
    BY <1>2, <2>1, SameReader DEF WriteHeader, RunTyped
<1>3. CASE AppendBlock
  <2>1. FilesTyped'
    <3>1. next \in Parts /\ -1 \in Parts
      BY <1>3 DEF AppendBlock, RunTyped, Parts
    <3> QED
      BY <1>3, <3>1, AppendedType DEF AppendBlock, FilesTyped
  <2> QED
    BY <1>3, <2>1, SameReader DEF AppendBlock, RunTyped
<1>4. CASE BlocksDone
  BY <1>4, SameReader DEF BlocksDone, FilesTyped, RunTyped
<1>5. CASE Pack
  <2>1. disk["path"].items \in Seq(Items)
    BY DEF FilesTyped, Files, Names
  <2> QED
    BY <1>5, <2>1, SameReader DEF Pack, Exit, FilesTyped, RunTyped
<1>6. CASE Open
  <2>1. FilesTyped'
    <3>1. File(<<>>, FALSE) \in Files
      BY EmptyType, FileType, Zenon
    <3> QED
      BY <1>6, <3>1, DiskWritten DEF Open, FilesTyped, RunTyped, Names
  <2> QED
    BY <1>6, <2>1, SameReader DEF Open, Exit, RunTyped
<1>7. CASE Store
  <2>1. FilesTyped'
    BY <1>7, FileType, DiskWritten, CutShortType DEF Store, FilesTyped, RunTyped, Names
  <2> QED
    BY <1>7, <2>1, SameReader DEF Store, Exit, RunTyped
<1>8. CASE Remove
  <2>1. FilesTyped'
    <3>1. Absent \in Files
      BY DEF Absent, Files
    <3> QED
      BY <1>8, <3>1, DiskWritten DEF Remove, FilesTyped, Names
  <2> QED
    BY <1>8, <2>1, SameReader DEF Remove, Exit, RunTyped
<1> QED
  BY <1>1, <1>2, <1>3, <1>4, <1>5, <1>6, <1>7, <1>8 DEF Compress

LEMMA KillType == TypeOK /\ Kill => (FilesTyped /\ RunTyped /\ ReaderTyped)'
<1> SUFFICES ASSUME TypeOK, Kill, FilesTyped, RunTyped, ReaderTyped
             PROVE  (FilesTyped /\ RunTyped /\ ReaderTyped)'
  BY TypeParts
<1>1. FilesTyped'
  <2>1. -1 \in Parts
    BY FilesAssumption DEF FilesAssumption, Parts
  <2> QED
    BY <2>1, AppendedType, CutShortType, EmptiedType DEF Kill, FilesTyped
<1> QED
  BY <1>1, SameReader DEF Kill, Exit, RunTyped

LEMMA DecompressType == TypeOK /\ Decompress => (FilesTyped /\ RunTyped /\ ReaderTyped)'
<1> SUFFICES ASSUME TypeOK, Decompress, FilesTyped, RunTyped, ReaderTyped
             PROVE  (FilesTyped /\ RunTyped /\ ReaderTyped)'
  BY TypeParts
<1>1. FilesTyped' /\ RunTyped'
  <2>1. UNCHANGED compressor /\ pc' \in {"idle", "restore", pc}
    BY DEF Decompress, Refuse, OpenOutput, WriteItem, Finish, KillReader
  <2>2. faults' \in 0..MaxFaults
    BY FaultType DEF Decompress, Refuse, OpenOutput, WriteItem, Finish, KillReader, RunTyped
  <2> QED
    BY <2>1, <2>2 DEF compressor, FilesTyped, RunTyped
<1>2. ASSUME NEW name \in Names, Refuse(name) PROVE ReaderTyped'
  BY <1>2 DEF Refuse, ReaderTyped
<1>3. ASSUME NEW name \in Names, OpenOutput(name) PROVE ReaderTyped'
  <2>1. decoded' \in Seq(Items) /\ ending' \in {"success", "error"}
    BY <1>3, DecodingsType DEF OpenOutput
  <2> QED
    BY <1>3, <2>1 DEF OpenOutput, ReaderTyped
<1>4. ASSUME WriteItem PROVE ReaderTyped'
  <2>1. decoded[written + 1] \in Items /\ written + 1 \in 0..Len(decoded)
    BY <1>4 DEF WriteItem, ReaderTyped
  <2>2. restored' \in Seq(Items)
    BY <1>4, <2>1, CutOffType DEF WriteItem, ReaderTyped
  <2>3. given' = given /\ verdict' = verdict /\ decoded' = decoded /\ ending' = ending /\ written' = written + 1
    BY <1>4 DEF WriteItem
  <2>4. written' \in 0..Len(decoded')
    BY <2>1, <2>3
  <2> QED
    BY <2>2, <2>3, <2>4, Zenon DEF ReaderTyped
<1>5. ASSUME Finish PROVE ReaderTyped'
  <2>1. given' = given /\ restored' = restored /\ decoded' = decoded /\ verdict' = ending /\ ending' = "none" /\ written' = 0
    BY <1>5 DEF Finish
  <2>2. written' \in 0..Len(decoded')
    BY <2>1 DEF ReaderTyped
  <2>3. verdict' \in {"none", "success", "error", "killed"} /\ ending' \in {"none", "success", "error"}
    BY <2>1 DEF ReaderTyped
  <2> QED
    BY <2>1, <2>2, <2>3, Zenon DEF ReaderTyped
<1>6. ASSUME KillReader PROVE ReaderTyped'
  <2>1. restored' \in Seq(Items)
    <3>1. CASE written < Len(decoded)
      <4>1. decoded[written + 1] \in Items
        BY <3>1 DEF ReaderTyped
      <4> QED
        BY <1>6, <4>1, CutOffType DEF KillReader, ReaderTyped
    <3>2. CASE ~(written < Len(decoded))
      BY <1>6, <3>2 DEF KillReader, ReaderTyped
    <3> QED
      BY <3>1, <3>2
  <2>2. given' = given /\ decoded' = decoded /\ verdict' = "killed" /\ ending' = "none" /\ written' = 0
    BY <1>6 DEF KillReader
  <2>3. written' \in 0..Len(decoded')
    BY <2>2 DEF ReaderTyped
  <2>4. verdict' \in {"none", "success", "error", "killed"} /\ ending' \in {"none", "success", "error"}
    BY <2>2
  <2> QED
    BY <2>1, <2>2, <2>3, <2>4, Zenon DEF ReaderTyped
<1> QED
  BY <1>1, <1>2, <1>3, <1>4, <1>5, <1>6 DEF Decompress

(* Types of the files, of both programs and of the output, for any number of *)
(* runs, blocks and faults.                                                  *)
THEOREM FilesTypeCorrect == Spec => []TypeOK
<1>1. Init => TypeOK
  <2> SUFFICES ASSUME Init PROVE TypeOK
    OBVIOUS
  <2>1. FilesTyped
    <3>1. Absent \in Files
      BY DEF Absent, Files
    <3> QED
      BY <3>1 DEF Init, FilesTyped
  <2>2. RunTyped
    BY FilesAssumption DEF FilesAssumption, Init, RunTyped
  <2>3. ReaderTyped
    BY DEF Init, ReaderTyped, Names
  <2>4. FlagsTyped
    BY Zenon DEF Init, FlagsTyped
  <2> QED
    BY <2>1, <2>2, <2>3, <2>4, TypeParts
<1>2. TypeOK /\ [Next]_vars => TypeOK'
  <2> SUFFICES ASSUME TypeOK, [Next]_vars PROVE (FilesTyped /\ RunTyped /\ ReaderTyped)'
    BY TypeParts, FlagsType, Zenon DEF TypeOK, FilesTyped, RunTyped, ReaderTyped, FlagsTyped, Files
  <2>1. CASE UNCHANGED vars
    BY <2>1, TypeParts DEF vars, reader, FilesTyped, RunTyped, ReaderTyped
  <2> QED
    BY <2>1, CompressType, KillType, DecompressType DEF Next
<1> QED
  BY <1>1, <1>2, PTL DEF Spec

(***************************************************************************)
(* The output of the decompressor                                          *)
(***************************************************************************)
(* What the output is while the decompressor runs: until its stream fails,   *)
(* all that was handed to it.                                                *)
InOutput ==
  /\ pc = "restore" => verdict = "none"
  /\ pc = "restore" /\ ~bad => restored = SubSeq(decoded, 1, written)

LEMMA CutOffBegins ==
  ASSUME TypeOK, restored = SubSeq(decoded, 1, written), written < Len(decoded),
         NEW r \in CutOff(decoded[written + 1])
  PROVE  \E n \in 0..Len(decoded) :
           \/ r = SubSeq(decoded, 1, n)
           \/ n > 0 /\ r = Append(SubSeq(decoded, 1, n - 1), [decoded[n] EXCEPT !.part = -1])
<1>1. CASE r = restored
  BY <1>1 DEF TypeOK
<1>2. CASE r = Append(restored, [decoded[written + 1] EXCEPT !.part = -1])
  <2>1. written + 1 \in 0..Len(decoded) /\ written + 1 > 0 /\ (written + 1) - 1 = written
    BY DEF TypeOK
  <2> QED
    BY <1>2, <2>1
<1> QED
  BY <1>1, <1>2 DEF CutOff

OutputStep == TypeOK /\ InOutput /\ OutputIsBeginning

LEMMA DecompressOutput == OutputStep /\ Decompress => (InOutput /\ OutputIsBeginning)'
<1> SUFFICES ASSUME OutputStep, Decompress PROVE (InOutput /\ OutputIsBeginning)'
  OBVIOUS
<1> USE DEF OutputStep
<1>1. ASSUME NEW name \in Names, Refuse(name) PROVE (InOutput /\ OutputIsBeginning)'
  BY <1>1 DEF Refuse, InOutput, OutputIsBeginning
<1>2. ASSUME NEW name \in Names, OpenOutput(name) PROVE (InOutput /\ OutputIsBeginning)'
  <2>1. decoded' \in Seq(Items)
    BY <1>2, DecodingsType DEF OpenOutput
  <2>2. restored' = SubSeq(decoded', 1, 0) /\ 0 \in 0..Len(decoded')
    BY <1>2, <2>1 DEF OpenOutput
  <2> QED
    BY <1>2, <2>2 DEF OpenOutput, InOutput, OutputIsBeginning
<1>3. CASE WriteItem
  <2>1. written < Len(decoded) /\ decoded \in Seq(Items) /\ written \in Nat /\ bad \in BOOLEAN
    BY <1>3 DEF WriteItem, TypeOK
  <2>2. CASE bad
    BY <1>3, <2>2 DEF WriteItem, InOutput, OutputIsBeginning
  <2>3. CASE ~bad /\ bad' = bad
    <3>1. restored' = Append(SubSeq(decoded, 1, written), decoded[written + 1])
      BY <1>3, <2>3 DEF WriteItem, InOutput, TypeOK
    <3>2. restored' = SubSeq(decoded, 1, written + 1) /\ written + 1 \in 0..Len(decoded)
      BY <2>1, <3>1
    <3> QED
      BY <1>3, <2>3, <3>2 DEF WriteItem, InOutput, OutputIsBeginning
  <2>4. CASE ~bad /\ bad'
    <3>1. restored = SubSeq(decoded, 1, written) /\ restored' \in CutOff(decoded[written + 1])
      BY <1>3, <2>4 DEF WriteItem, InOutput
    <3> QED
      BY <1>3, <2>1, <2>4, <3>1, CutOffBegins DEF WriteItem, InOutput, OutputIsBeginning
  <2> QED
    BY <1>3, <2>1, <2>2, <2>3, <2>4 DEF WriteItem
<1>4. CASE Finish
  <2>1. ~bad => restored = decoded
    BY <1>4 DEF Finish, InOutput, TypeOK
  <2> QED
    BY <1>4, <2>1 DEF Finish, InOutput, OutputIsBeginning
<1>5. CASE KillReader
  <2>1. CASE restored' = restored
    BY <1>5, <2>1 DEF KillReader, InOutput, OutputIsBeginning
  <2>2. CASE ~bad /\ written < Len(decoded) /\ restored' \in CutOff(decoded[written + 1])
    BY <1>5, <2>2, CutOffBegins DEF KillReader, InOutput, OutputIsBeginning
  <2> QED
    BY <1>5, <2>1, <2>2 DEF KillReader
<1> QED
  BY <1>1, <1>2, <1>3, <1>4, <1>5 DEF Decompress

(* The compressor does not touch the output, and while it runs there is none. *)
LEMMA CompressOutput == OutputStep /\ (Compress \/ Kill) => (InOutput /\ OutputIsBeginning)'
<1> SUFFICES ASSUME OutputStep, Compress \/ Kill PROVE (InOutput /\ OutputIsBeginning)'
  OBVIOUS
<1>1. CASE Begin
  <2>1. restored' = SubSeq(decoded', 1, 0) /\ 0 \in 0..Len(decoded')
    BY <1>1 DEF Begin
  <2> QED
    BY <1>1, <2>1 DEF Begin, InOutput, OutputIsBeginning
<1>2. CASE ~Begin
  <2>1. UNCHANGED reader /\ pc' # "restore"
    BY <1>2 DEF Compress, Kill, WriteHeader, AppendBlock, BlocksDone, Pack, Open, Store, Remove, Exit
  <2> QED
    BY <2>1 DEF OutputStep, reader, InOutput, OutputIsBeginning
<1> QED
  BY <1>1, <1>2

LEMMA OutputInvariance == Spec => [](InOutput /\ OutputIsBeginning)
<1>1. Init => InOutput /\ OutputIsBeginning
  <2> SUFFICES ASSUME Init PROVE InOutput /\ OutputIsBeginning
    OBVIOUS
  <2>1. restored = SubSeq(decoded, 1, 0) /\ 0 \in 0..Len(decoded)
    BY DEF Init
  <2> QED
    BY <2>1 DEF Init, InOutput, OutputIsBeginning
<1>2. TypeOK /\ InOutput /\ OutputIsBeginning /\ [Next]_vars => (InOutput /\ OutputIsBeginning)'
  <2>1. InOutput /\ OutputIsBeginning /\ UNCHANGED vars => (InOutput /\ OutputIsBeginning)'
    BY DEF vars, reader, InOutput, OutputIsBeginning
  <2> QED
    BY <2>1, DecompressOutput, CompressOutput DEF Next, OutputStep
<1> QED
  BY <1>1, <1>2, FilesTypeCorrect, PTL DEF Spec

(* The output of the decompressor never has a hole, whichever of its writes  *)
(* fail, and a success without a failure is all of what was decoded.         *)
THEOREM OutputAlwaysBeginning == Spec => []OutputIsBeginning
  BY OutputInvariance, PTL

(***************************************************************************)
(* What is restored comes from one run.  As long as no call has failed,    *)
(* every file holds the beginning of the archive of one run, maybe with a  *)
(* block cut short behind it.                                              *)
(***************************************************************************)
OfRun(items, r, n) ==
  items = Archive(r, n) \/ items = Append(Archive(r, n), [run |-> r, part |-> -1])

OneRun(items) == items = <<>> \/ \E r \in 1..MaxRuns, n \in Nat : OfRun(items, r, n)

Headed(name) == name \in {"path", Plain} /\ disk[name].items # <<>> => disk[name].items[1].part = 0

FilesOfOneRun ==
  faults = 0 => ~unnoticed /\ \A name \in Names : OneRun(disk[name].items) /\ Headed(name)

(* What was decoded, once the decoder is bound for success.                  *)
Faultless(items) ==
  \/ \E r \in 1..MaxRuns : \A k \in DOMAIN items : items[k] = [run |-> r, part |-> k]
  \/ given \notin {"path", Plain} /\ items = Noise

DecodedOneRun ==
  faults = 0 /\ (verdict = "success" \/ (pc = "restore" /\ ending = "success")) => Faultless(decoded)

OneRunStep == TypeOK /\ IInv /\ FilesOfOneRun /\ DecodedOneRun

LEMMA ArchiveShape ==
  ASSUME NEW r, NEW n \in Nat
  PROVE  /\ Archive(r, n) \in Seq([run : {r}, part : Nat]) /\ Len(Archive(r, n)) = n
         /\ \A k \in 1..n : Archive(r, n)[k] = [run |-> r, part |-> k - 1]
  BY DEF Archive

LEMMA FirstParts ==
  ASSUME NEW r, NEW n \in Nat, NEW m \in 0..n
  PROVE  SubSeq(Archive(r, n), 1, m) = Archive(r, m)
  BY DEF Archive

(* A file that begins with a header decodes to the first blocks of its run.   *)
LEMMA DecodedOfRun ==
  ASSUME NEW items, NEW r \in 1..MaxRuns, NEW n \in Nat, OfRun(items, r, n), items[1].part = 0,
         NEW d \in Decoded(items)
  PROVE  \A k \in DOMAIN d.decoded : d.decoded[k] = [run |-> r, part |-> k]
<1> DEFINE Part == [run : {r}, part : Int]
<1>1. /\ items \in Seq(Part) /\ Len(items) \in {n, n + 1}
      /\ \A k \in 1..n : items[k] = [run |-> r, part |-> k - 1]
      /\ Len(items) = n + 1 => items[n + 1].part = -1
  <2> DEFINE a == Archive(r, n)
             torn == [run |-> r, part |-> -1]
  <2>1. a \in Seq(Part) /\ Len(a) = n /\ \A k \in 1..n : a[k] = [run |-> r, part |-> k - 1]
    <3>1. Archive(r, n) \in Seq(Part)
      <4>1. \A k \in 1..n : [run |-> r, part |-> k - 1] \in Part
        OBVIOUS
      <4> HIDE DEF Part
      <4> QED
        BY <4>1 DEF Archive
    <3> QED
      BY <3>1, ArchiveShape
  <2>2. torn \in Part /\ torn.part = -1
    OBVIOUS
  <2>3. items = a \/ items = Append(a, torn)
    BY DEF OfRun
  <2> HIDE DEF a, torn, Part
  <2>4. CASE items = a
    BY <2>1, <2>4
  <2>5. CASE items = Append(a, torn)
    <3>1. /\ items \in Seq(Part) /\ Len(items) = n + 1 /\ items[n + 1] = torn
          /\ \A k \in 1..n : items[k] = a[k]
      BY <2>1, <2>2, <2>5
    <3> QED
      BY <2>1, <2>2, <3>1
  <2> QED
    BY <2>3, <2>4, <2>5
<1> HIDE DEF Part
<1>2. PICK m \in InStep(items) : m + 1 \notin InStep(items) /\ d \in After(items, m)
  BY DEF Decoded
<1>3. m \in 1..Len(items) /\ \A k \in 1..m : items[k] = [run |-> items[1].run, part |-> k - 1]
  BY <1>1 DEF InStep
<1>4. n > 0 /\ items[1].run = r
  <2>1. CASE n = 0
    <3>1. Len(items) = 1 /\ items[1].part = -1
      BY <1>1, <1>3, <2>1
    <3> QED
      BY <3>1
  <2>2. CASE n # 0
    <3>1. 1 \in 1..n
      BY <2>2
    <3>2. items[1] = [run |-> r, part |-> 1 - 1]
      BY <1>1, <3>1
    <3> QED
      BY <2>2, <3>2
  <2> QED
    BY <2>1, <2>2
<1>5. m >= n
  <2> SUFFICES ASSUME m < n PROVE FALSE
    BY <1>3
  <2>1. m + 1 \in DOMAIN items
    BY <1>1, <1>3
  <2>2. \A k \in 1..(m + 1) : items[k] = [run |-> items[1].run, part |-> k - 1]
    BY <1>1, <1>3, <1>4
  <2> QED
    BY <1>2, <2>1, <2>2 DEF InStep
<1>6. m = Len(items) \/ (m + 1 = Len(items) /\ items[m + 1].part = -1)
  BY <1>1, <1>3, <1>5
<1>7. d.decoded = SubSeq(items, 2, m)
  BY <1>2, <1>6 DEF After
<1>8. ASSUME NEW k \in 1..(m - 1) PROVE SubSeq(items, 2, m)[k] = [run |-> r, part |-> k]
  <2>1. SubSeq(items, 2, m)[k] = items[k + 1]
    BY <1>1, <1>3
  <2> QED
    BY <1>3, <1>4, <2>1
<1>9. DOMAIN SubSeq(items, 2, m) = 1..(m - 1)
  BY <1>1, <1>3
<1> QED
  BY <1>7, <1>8, <1>9

LEMMA DecompressOneRun == OneRunStep /\ Decompress => (FilesOfOneRun /\ DecodedOneRun)'
<1> SUFFICES ASSUME OneRunStep, Decompress PROVE (FilesOfOneRun /\ DecodedOneRun)'
  OBVIOUS
<1>1. UNCHANGED compressor /\ (faults' = 0 => faults = 0)
  BY DEF OneRunStep, TypeOK, Decompress, Refuse, OpenOutput, WriteItem, Finish, KillReader, Fault
<1>2. FilesOfOneRun'
  BY <1>1 DEF OneRunStep, FilesOfOneRun, compressor, Headed
<1>3. ASSUME NEW name \in Names, Refuse(name) PROVE DecodedOneRun'
  BY <1>1, <1>3 DEF Refuse, OneRunStep, DecodedOneRun
<1>4. ASSUME NEW name \in Names, OpenOutput(name) PROVE DecodedOneRun'
  <2> DEFINE items == disk[name].items
  <2> SUFFICES ASSUME faults' = 0 PROVE Faultless(decoded)'
    BY <1>4, Zenon DEF OpenOutput, DecodedOneRun
  <2>1. OneRun(items) /\ Headed(name) /\ items # <<>>
    BY <1>1, <1>4 DEF OneRunStep, FilesOfOneRun, OpenOutput
  <2>2. PICK r \in 1..MaxRuns, n \in Nat : OfRun(items, r, n)
    BY <2>1 DEF OneRun
  <2>3. PICK d \in Decodings(name) : decoded' = d.decoded
    BY <1>4 DEF OpenOutput
  <2>4. given' = name
    BY <1>4 DEF OpenOutput
  <2>5. CASE Broken(name) \/ items[1].part # 0
    <3>1. name \notin {"path", Plain}
      BY <2>1, <2>5 DEF Headed, Broken
    <3>2. decoded' \in {<<>>, Noise}
      BY <2>3, <2>5 DEF Decodings
    <3>3. CASE decoded' = <<>>
      BY <2>2, <3>3 DEF Faultless
    <3>4. CASE decoded' = Noise
      BY <2>4, <3>1, <3>4 DEF Faultless
    <3> QED
      BY <3>2, <3>3, <3>4
  <2>6. CASE ~Broken(name) /\ items[1].part = 0
    <3>1. d \in Decoded(items)
      BY <2>3, <2>6 DEF Decodings
    <3> QED
      BY <2>2, <2>3, <2>6, <3>1, DecodedOfRun DEF Faultless
  <2> QED
    BY <2>5, <2>6
<1> DEFINE Same == given' = given /\ decoded' = decoded
<1>5. ASSUME WriteItem PROVE DecodedOneRun'
  <2>1. Same /\ pc' = pc /\ verdict' = verdict /\ ending' = ending
    BY <1>5 DEF WriteItem, compressor
  <2> QED
    BY <1>1, <2>1 DEF OneRunStep, DecodedOneRun, Faultless
<1>6. ASSUME Finish PROVE DecodedOneRun'
  <2>1. Same /\ pc = "restore" /\ pc' = "idle" /\ verdict' = ending
    BY <1>6 DEF Finish
  <2> QED
    BY <1>1, <2>1 DEF OneRunStep, DecodedOneRun, Faultless
<1>7. ASSUME KillReader PROVE DecodedOneRun'
  BY <1>1, <1>7 DEF KillReader, DecodedOneRun
<1> QED
  BY <1>2, <1>3, <1>4, <1>5, <1>6, <1>7 DEF Decompress

(* The compressor's side.                                                    *)
LEMMA OneRunArchive ==
  ASSUME NEW r \in 1..MaxRuns, NEW n \in Nat
  PROVE  /\ OneRun(Archive(r, n)) /\ OneRun(Append(Archive(r, n), [run |-> r, part |-> -1]))
         /\ n > 0 => Archive(r, n)[1].part = 0 /\ Append(Archive(r, n), [run |-> r, part |-> -1])[1].part = 0
         /\ n = 0 => Archive(r, n) = <<>>
<1>1. OneRun(Archive(r, n)) /\ OneRun(Append(Archive(r, n), [run |-> r, part |-> -1]))
  BY DEF OneRun, OfRun
<1>2. n = 0 => Archive(r, n) = <<>>
  BY DEF Archive
<1>3. n > 0 => Archive(r, n)[1].part = 0 /\ Append(Archive(r, n), [run |-> r, part |-> -1])[1].part = 0
  BY DEF Archive
<1> QED
  BY <1>1, <1>2, <1>3

LEMMA HeadedArchive ==
  ASSUME NEW r \in 1..MaxRuns, NEW n \in Nat, n # 0
  PROVE  /\ OneRun(Archive(r, n)) /\ Archive(r, n)[1].part = 0
         /\ OneRun(Append(Archive(r, n), [run |-> r, part |-> -1]))
         /\ Append(Archive(r, n), [run |-> r, part |-> -1])[1].part = 0
<1>1. n > 0
  OBVIOUS
<1> QED
  BY <1>1, OneRunArchive

LEMMA CutShortOneRun ==
  ASSUME OneRunStep, CutShort, pc = "store", faults = 0
  PROVE  OneRun(disk'[extension].items)
         /\ (extension = Plain /\ disk'[extension].items # <<>> => disk'[extension].items[1].part = 0)
<1>1. packed = Archive(run, Blocks + 1) /\ run \in 1..MaxRuns
  BY DEF OneRunStep, TypeOK, IInv, InRun, PackedIsWhole, FilesOfOneRun
<1>2. PICK items \in Torn : disk' = [disk EXCEPT ![extension] = File(items, FALSE)]
  BY DEF CutShort
<1>3. disk'[extension].items = items
  BY <1>2, ExtensionWritten DEF OneRunStep, IInv, File
<1>4. CASE \E n \in 0..Len(packed) : items = SubSeq(packed, 1, n)
  <2>1. PICK n \in 0..(Blocks + 1) : items = SubSeq(packed, 1, n)
    <3>1. Blocks + 1 \in Nat
      BY SomeBlocks
    <3>2. Len(packed) = Blocks + 1
      BY <1>1, <3>1, ArchiveShape
    <3> QED
      BY <1>4, <3>2
  <2>2. n \in Nat /\ Blocks + 1 \in Nat
    BY SomeBlocks
  <2>3. items = Archive(run, n)
    BY <1>1, <2>1, <2>2, FirstParts
  <2>4. n = 0 \/ n > 0
    BY <2>2
  <2>5. OneRun(items) /\ (items # <<>> => items[1].part = 0)
    BY <1>1, <2>2, <2>3, <2>4, OneRunArchive
  <2> QED
    BY <1>3, <2>5
<1>5. CASE items = <<[run |-> run, part |-> -1]>> /\ extension # Plain
  <2>1. items = Append(Archive(run, 0), [run |-> run, part |-> -1])
    BY <1>5 DEF Archive
  <2> QED
    BY <1>1, <1>3, <1>5, <2>1, OneRunArchive
<1> QED
  BY <1>2, <1>4, <1>5 DEF Torn

(* A step that writes one file, and to it the archive of a run.              *)
LEMMA OneWritten ==
  ASSUME \A n \in Names : OneRun(disk[n].items) /\ Headed(n),
         NEW name \in Names, \A n \in Names : n # name => disk'[n] = disk[n],
         OneRun(disk'[name].items),
         name \in {"path", Plain} /\ disk'[name].items # <<>> => disk'[name].items[1].part = 0
  PROVE  \A n \in Names : OneRun(disk'[n].items) /\ Headed(n)'
<1> SUFFICES ASSUME NEW n \in Names PROVE OneRun(disk'[n].items) /\ Headed(n)'
  OBVIOUS
<1>1. CASE n = name
  BY <1>1 DEF Headed
<1>2. CASE n # name
  <2>1. disk'[n] = disk[n]
    BY <1>2
  <2> QED
    BY <2>1 DEF Headed
<1> QED
  BY <1>1, <1>2

LEMMA KillFiles ==
  ASSUME OneRunStep, Kill, faults' = 0
  PROVE  \A n \in Names : OneRun(disk'[n].items) /\ Headed(n)'
<1>1. /\ faults = 0 /\ ~unnoticed /\ \A n \in Names : OneRun(disk[n].items) /\ Headed(n)
      /\ run \in 1..MaxRuns /\ next \in Nat \ {0} /\ Shape
      /\ "path" \in Names /\ extension \in Names /\ extension # "path"
  BY FilesAssumption DEF FilesAssumption, OneRunStep, TypeOK, IInv, InRun, FilesOfOneRun, Kill, Names
<1>2. CASE disk' = disk
  BY <1>1, <1>2 DEF Headed
<1>3. CASE pc = "block" /\ next <= Blocks /\ disk' = Appended(-1)
  <2>1. disk["path"].items = Archive(run, next)
    BY <1>1, <1>3 DEF OneRunStep, IInv, StartsAnew, File
  <2>2. /\ disk'["path"].items = Append(Archive(run, next), [run |-> run, part |-> -1])
        /\ \A n \in Names : n # "path" => disk'[n] = disk[n]
    BY <1>1, <1>3, <2>1, PathWritten DEF Appended, File, Names
  <2>3. OneRun(disk'["path"].items) /\ disk'["path"].items[1].part = 0
    <3>1. next \in Nat /\ next # 0
      BY <1>1
    <3> QED
      BY <1>1, <2>2, <3>1, HeadedArchive
  <2> QED
    BY <1>1, <2>2, <2>3, OneWritten
<1>4. CASE pc = "store" /\ CutShort
  <2>1. \A n \in Names : n # extension => disk'[n] = disk[n]
    BY <1>1, <1>4, ExtensionWritten DEF CutShort, Names
  <2> QED
    BY <1>1, <1>4, <2>1, CutShortOneRun, OneWritten
<1>5. CASE pc = "header" /\ disk' = [disk EXCEPT !["path"] = File(<<>>, TRUE)]
  <2>1. disk'["path"].items = <<>> /\ \A n \in Names : n # "path" => disk'[n] = disk[n]
    BY <1>1, <1>5, PathWritten DEF File, Names
  <2>2. OneRun(disk'["path"].items)
    BY <2>1 DEF OneRun
  <2> QED
    BY <1>1, <2>1, <2>2, OneWritten
<1> QED
  BY <1>2, <1>3, <1>4, <1>5 DEF Kill

LEMMA CompressFiles ==
  ASSUME OneRunStep, Compress, faults' = 0
  PROVE  ~unnoticed' /\ \A n \in Names : OneRun(disk'[n].items) /\ Headed(n)'
<1>1. /\ faults = 0 /\ faults' = faults
  <2>1. Fault => faults' # 0
    BY DEF OneRunStep, TypeOK, Fault
  <2> QED
    BY <2>1 DEF Compress, Begin, WriteHeader, AppendBlock, BlocksDone, Pack, Open, Store, Remove
<1>2. ~Fault
  BY <1>1 DEF OneRunStep, TypeOK, Fault
<1>3. /\ ~unnoticed /\ \A n \in Names : OneRun(disk[n].items) /\ Headed(n)
      /\ Shape /\ "path" \in Names /\ extension \in Names /\ extension # "path"
      /\ (pc \notin {"idle", "restore"} => run \in 1..MaxRuns)
  <2>1. /\ Shape /\ "path" \in Names /\ extension \in Names /\ extension # "path"
    BY FilesAssumption DEF FilesAssumption, OneRunStep, IInv, Shape, Names
  <2>2. pc \notin {"idle", "restore"} => run \in 1..MaxRuns
    BY DEF OneRunStep, TypeOK, IInv, InRun
  <2> QED
    BY <1>1, <2>1, <2>2 DEF OneRunStep, FilesOfOneRun
<1>4. CASE Begin \/ BlocksDone \/ Pack
  BY <1>3, <1>4 DEF Begin, BlocksDone, Pack, Headed
<1>5. CASE WriteHeader
  <2>1. disk' = [disk EXCEPT !["path"] = File(Archive(run, 1), TRUE)] /\ unnoticed' = unnoticed
    BY <1>2, <1>5 DEF WriteHeader
  <2>2. /\ disk'["path"].items = Archive(run, 1)
        /\ \A n \in Names : n # "path" => disk'[n] = disk[n]
    BY <1>3, <2>1, PathWritten DEF File, Names
  <2>3. OneRun(disk'["path"].items) /\ disk'["path"].items[1].part = 0
    <3>1. pc = "header"
      BY <1>5 DEF WriteHeader
    <3>2. run \in 1..MaxRuns
      BY <1>3, <3>1
    <3>3. 1 \in Nat /\ 1 # 0
      OBVIOUS
    <3>4. OneRun(Archive(run, 1)) /\ Archive(run, 1)[1].part = 0
      BY <3>2, <3>3, HeadedArchive, Zenon
    <3> QED
      BY <2>2, <3>4
  <2> QED
    BY <1>3, <2>1, <2>2, <2>3, OneWritten
<1>6. CASE AppendBlock
  <2>1. disk' = Appended(next) /\ unnoticed' = unnoticed
    BY <1>2, <1>6 DEF AppendBlock
  <2>2. disk["path"].items = Archive(run, next) /\ next \in Nat /\ pc = "block"
    BY <1>3, <1>6 DEF AppendBlock, OneRunStep, IInv, InRun, StartsAnew, File
  <2>3. /\ disk'["path"].items = Archive(run, next + 1)
        /\ \A n \in Names : n # "path" => disk'[n] = disk[n]
    <3>1. Append(disk["path"].items, [run |-> run, part |-> next]) = Archive(run, next + 1)
      BY <2>2, Grown
    <3> QED
      BY <1>3, <2>1, <3>1, PathWritten DEF Appended, File, Names
  <2>4. OneRun(disk'["path"].items) /\ disk'["path"].items[1].part = 0
    <3>1. next + 1 \in Nat /\ next + 1 # 0
      BY <2>2
    <3> QED
      BY <1>3, <2>2, <2>3, <3>1, HeadedArchive
  <2> QED
    BY <1>3, <2>1, <2>3, <2>4, OneWritten
<1>7. CASE Open
  <2>1. disk' = [disk EXCEPT ![extension] = File(<<>>, FALSE)] /\ unnoticed' = unnoticed
    BY <1>2, <1>7 DEF Open
  <2>2. disk'[extension].items = <<>> /\ \A n \in Names : n # extension => disk'[n] = disk[n]
    BY <1>3, <2>1, ExtensionWritten DEF File, Names
  <2>3. OneRun(disk'[extension].items)
    BY <2>2 DEF OneRun
  <2> QED
    BY <1>3, <2>1, <2>2, <2>3, OneWritten
<1>8. CASE Store
  <2>1. disk' = [disk EXCEPT ![extension] = File(packed, TRUE)] /\ unnoticed' = unnoticed
    BY <1>2, <1>8 DEF Store
  <2>2. packed = Archive(run, Blocks + 1)
    BY <1>3, <1>8 DEF Store, OneRunStep, IInv, PackedIsWhole
  <2>3. /\ disk'[extension].items = Archive(run, Blocks + 1)
        /\ \A n \in Names : n # extension => disk'[n] = disk[n]
    BY <1>3, <2>1, <2>2, ExtensionWritten DEF File, Names
  <2>4. OneRun(disk'[extension].items) /\ disk'[extension].items[1].part = 0
    <3>1. pc = "store" /\ Blocks + 1 \in Nat /\ Blocks + 1 # 0
      BY <1>8, SomeBlocks DEF Store
    <3> QED
      BY <1>3, <2>3, <3>1, HeadedArchive
  <2> QED
    BY <1>3, <2>1, <2>3, <2>4, OneWritten
<1>9. CASE Remove
  <2>1. disk' = [disk EXCEPT !["path"] = Absent] /\ unnoticed' = unnoticed
    BY <1>2, <1>9 DEF Remove
  <2>2. disk'["path"].items = <<>> /\ \A n \in Names : n # "path" => disk'[n] = disk[n]
    BY <1>3, <2>1, PathWritten DEF Absent, Names
  <2>3. OneRun(disk'["path"].items)
    BY <2>2 DEF OneRun
  <2> QED
    BY <1>3, <2>1, <2>2, <2>3, OneWritten
<1> QED
  BY <1>4, <1>5, <1>6, <1>7, <1>8, <1>9 DEF Compress

LEMMA CompressOneRun == OneRunStep /\ (Compress \/ Kill) => (FilesOfOneRun /\ DecodedOneRun)'
<1> SUFFICES ASSUME OneRunStep, Compress \/ Kill PROVE (FilesOfOneRun /\ DecodedOneRun)'
  OBVIOUS
<1>1. FilesOfOneRun'
  <2> SUFFICES ASSUME faults' = 0
               PROVE  ~unnoticed' /\ \A n \in Names : OneRun(disk'[n].items) /\ Headed(n)'
    BY DEF FilesOfOneRun
  <2>1. CASE Compress
    BY <2>1, CompressFiles
  <2>2. CASE Kill
    <3>1. ~unnoticed'
      BY <2>2 DEF Kill, OneRunStep, FilesOfOneRun
    <3> QED
      BY <2>2, <3>1, KillFiles
  <2> QED
    BY <2>1, <2>2
<1>2. DecodedOneRun'
  <2>1. CASE Begin
    BY <2>1 DEF Begin, DecodedOneRun
  <2>2. CASE ~Begin
    <3>1. pc' # "restore" /\ given' = given /\ decoded' = decoded /\ verdict' = verdict
      BY <2>2 DEF Compress, Kill, WriteHeader, AppendBlock, BlocksDone, Pack, Open, Store, Remove,
        Exit, reader
    <3>2. faults' = 0 => faults = 0
      <4>1. Fault => faults' # 0
        BY DEF OneRunStep, TypeOK, Fault
      <4> QED
        BY <2>2, <4>1 DEF Compress, Kill, WriteHeader, AppendBlock, BlocksDone, Pack, Open, Store, Remove
    <3> QED
      BY <3>1, <3>2 DEF OneRunStep, DecodedOneRun, Faultless
  <2> QED
    BY <2>1, <2>2
<1> QED
  BY <1>1, <1>2

LEMMA OneRunInvariance == Spec => [](FilesOfOneRun /\ DecodedOneRun)
<1>1. Init => FilesOfOneRun /\ DecodedOneRun
  BY DEF Init, FilesOfOneRun, DecodedOneRun, OneRun, Headed, Absent, Names
<1>2. TypeOK /\ IInv /\ FilesOfOneRun /\ DecodedOneRun /\ [Next]_vars => (FilesOfOneRun /\ DecodedOneRun)'
  <2>1. FilesOfOneRun /\ DecodedOneRun /\ UNCHANGED vars => (FilesOfOneRun /\ DecodedOneRun)'
    BY DEF vars, reader, FilesOfOneRun, DecodedOneRun, Headed, Faultless
  <2> QED
    BY <2>1, DecompressOneRun, CompressOneRun DEF Next, OneRunStep
<1> QED
  BY <1>1, <1>2, FilesTypeCorrect, Invariance, PTL DEF Spec

(* A write of the output that fails is one of the failed calls.              *)
LEMMA BadIsFault == Spec => [](bad => faults # 0)
<1>1. Init => (bad => faults # 0)
  BY DEF Init
<1>2. TypeOK /\ (bad => faults # 0) /\ [Next]_vars => (bad => faults # 0)'
  <2> SUFFICES ASSUME TypeOK, bad => faults # 0, [Next]_vars PROVE (bad => faults # 0)'
    OBVIOUS
  <2>1. Fault => faults' # 0
    BY DEF TypeOK, Fault
  <2>2. faults' = faults \/ faults' # 0
    BY <2>1 DEF Next, Compress, Kill, Decompress, Begin, WriteHeader, AppendBlock, BlocksDone, Pack,
      Open, Store, Remove, Refuse, OpenOutput, WriteItem, Finish, KillReader, vars
  <2>3. (bad' = bad) \/ ~bad' \/ Fault
    BY DEF Next, Compress, Kill, Decompress, Begin, WriteHeader, AppendBlock, BlocksDone, Pack,
      Open, Store, Remove, Refuse, OpenOutput, WriteItem, Finish, KillReader, vars, reader
  <2> QED
    BY <2>1, <2>2, <2>3
<1> QED
  BY <1>1, <1>2, FilesTypeCorrect, PTL DEF Spec

(* If no call has failed, what a decompression hands back with success are   *)
(* the first blocks of one run, whichever file it was given and wherever     *)
(* runs were killed, or noise from a file that could not be unpacked.        *)
THEOREM AlwaysRestoresOneRun == Spec => []RestoresOneRun
<1>1. FilesOfOneRun /\ DecodedOneRun /\ OutputIsBeginning /\ (bad => faults # 0) => RestoresOneRun
  BY DEF DecodedOneRun, Faultless, OutputIsBeginning, RestoresOneRun
<1> QED
  BY <1>1, OneRunInvariance, OutputInvariance, BadIsFault, PTL
================================================================================
