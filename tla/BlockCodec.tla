-------------------------------- MODULE BlockCodec --------------------------------
(***************************************************************************)
(* A block of records as bytes: byteArrayEncoding, which writes a block    *)
(* field by field and appends it to the file, and byteArrayDecoding, which *)
(* reads the fields back.  Nothing separates or names the fields; the      *)
(* decoder is where the encoder was only if it expects exactly what was    *)
(* written.  Running out of bits is how the decompressor learns that the   *)
(* archive has ended, so a decoder that has lost its place often ends in   *)
(* apparent success.                                                       *)
(***************************************************************************)
EXTENDS IntLists

CONSTANTS
  Archives,     \* the archives: a block or more, a block a sequence of records
  Newline       \* the byte that ends a raw line

Byte == 0..(Power[ByteBits] - 1)

ASSUME NewlineAssumption == Newline \in Byte

(* A record is raw, a line of bytes, or coded: a window index and edits, an   *)
(* edit being position, length1 and substr, length2 the length of substr.     *)
Edits == [pos : Nat, del : Nat, text : Seq(Byte)]
CodedRecords == [method : {0}, begin : Nat, ops : Seq(Edits)]
RawRecords == [method : {1}, line : Seq(Byte \ {Newline})]
Records == CodedRecords \cup RawRecords

ASSUME ArchivesAssumption == Archives \subseteq Seq(Seq(Records)) \ {<<>>}

VARIABLES
  blocks,    \* the blocks being archived
  written,   \* how many of them have been appended
  stream,    \* the bits of the file
  cursor,    \* bits the decoder has consumed
  stage,     \* the field it reads next, or how it ended
  counts,    \* records0_size and records1_size
  lists,     \* the lists decoded so far in this block
  texts,     \* the substrings of the coded records, per record
  decoded    \* the blocks decoded

vars == <<blocks, written, stream, cursor, stage, counts, lists, texts, decoded>>

Coded(block) == Picked(block, {i \in DOMAIN block : block[i].method = 0})
RawLines(block) == Picked(block, {i \in DOMAIN block : block[i].method = 1})

(***************************************************************************)
(* byteArrayEncoding                                                       *)
(***************************************************************************)
Methods(block) == MapSeq(LAMBDA r : r.method, block)
Begins(block) == MapSeq(LAMBDA r : r.begin, Coded(block))
OperationSizes(block) == MapSeq(LAMBDA r : Len(r.ops), Coded(block))

(* Slip: the inserted lengths first.                                        *)
LengthListSwapped(block) ==
  FlattenSeq(MapSeq(LAMBDA r : MapSeq(LAMBDA o : Len(o.text), r.ops)
                               \o MapSeq(LAMBDA o : o.del, r.ops), Coded(block)))

(* Of every coded record the deleted lengths, then the inserted ones.       *)
LengthList(block) ==
  FlattenSeq(MapSeq(LAMBDA r : MapSeq(LAMBDA o : o.del, r.ops)
                               \o MapSeq(LAMBDA o : Len(o.text), r.ops), Coded(block)))

(* The first position of every record that has one, and the steps between.  *)
PositionBegins(block) ==
  FlattenSeq(MapSeq(LAMBDA r : IF r.ops = <<>> THEN <<>> ELSE <<r.ops[1].pos>>, Coded(block)))
PositionDeltas(block) ==
  FlattenSeq(MapSeq(LAMBDA r : Deltas(MapSeq(LAMBDA o : o.pos, r.ops)), Coded(block)))

CodedText(block) ==
  FlattenSeq(MapSeq(LAMBDA r : FlattenSeq(MapSeq(LAMBDA o : o.text, r.ops)), Coded(block)))
RawText(block) == FlattenSeq(MapSeq(LAMBDA r : Append(r.line, Newline), RawLines(block)))

(* A packed list is written behind its length in bytes, which has to fit in  *)
(* LengthBits; an empty one is a length of 0.                                *)
PutBytes(bits) == Put(Len(bits) \div ByteBits, LengthBits) \o PutAll(bits, 1)
PutPacked(list) == IF list = <<>> THEN Put(0, LengthBits) ELSE PutBytes(BitPackingEncode(list))

PutCounts(block) == Put(Len(Coded(block)), WordBits) \o Put(Len(RawLines(block)), WordBits)
PutMethods(block) ==
  LET rle == RleEncode(Methods(block)) IN PutBytes(rle.bits) \o Put(rle.runs, WordBits)
PutBegins(block) == PutPacked(Begins(block))
PutSizes(block) == PutPacked(OperationSizes(block))
PutLengths(block) == IF Coded(block) = <<>> THEN <<>> ELSE Ts2DiffEncode(LengthList(block))
PutNonempty(list) == IF list = <<>> THEN <<>> ELSE Ts2DiffEncode(list)
PutPositions(block) == PutNonempty(PositionBegins(block)) \o PutNonempty(PositionDeltas(block))
PutTexts(block) == PutAll(CodedText(block), ByteBits)
PutRaws(block) == PutAll(RawText(block), ByteBits)

(* The fields in order, the calls that write the first k of them, and the    *)
(* bits write() leaves in the file.                                          *)
Fields == <<"counts", "methods", "begins", "sizes", "lengths", "positions", "texts", "raws">>

FirstFields(block, k) ==
  FlattenSeq(SubSeq(<<PutCounts(block), PutMethods(block), PutBegins(block), PutSizes(block),
                      PutLengths(block), PutPositions(block), PutTexts(block), PutRaws(block)>>,
                    1, k))
Calls(block) == FirstFields(block, Len(Fields)) \o PackMark
Encoded(block) == Laid(Calls(block))

AppendBlock ==
  /\ written < Len(blocks)
  /\ stream' = stream \o Encoded(blocks[written + 1])
  /\ written' = written + 1
  /\ UNCHANGED <<blocks, cursor, stage, counts, lists, texts, decoded>>

(***************************************************************************)
(* byteArrayDecoding, called again until the archive ends                  *)
(***************************************************************************)
NoLists == [methods |-> <<>>, begins |-> <<>>, sizes |-> <<>>, lengths |-> <<>>,
            pbegin |-> <<>>, pdelta |-> <<>>]

Init ==
  /\ blocks \in Archives /\ written = 0 /\ stream = <<>>
  /\ cursor = 0 /\ stage = "counts" /\ counts = [coded |-> 0, raw |-> 0]
  /\ lists = NoLists /\ texts = <<>> /\ decoded = <<>>

(* The call ends without a block: "eof" and "end" end the run in success,    *)
(* "error" ends it in failure, "wild" is an index outside a vector.          *)
Stop(how) == stage' = how /\ UNCHANGED <<cursor, counts, lists, texts, decoded>>

Reading(field) == written = Len(blocks) /\ stage = field /\ UNCHANGED <<blocks, written, stream>>
Word(at) == Int32(Field(stream, at, WordBits))

(* Slip: a block without raw lines ends the run.                            *)
DecodeCountsRaw ==
  /\ Reading("counts")
  /\ LET coded == Word(cursor)
         raw   == Word(cursor + WordBits)
     IN  IF ~Has(stream, cursor, 2 * WordBits) THEN Stop("eof")
         ELSE IF raw = 0 THEN Stop("end")
         ELSE /\ stage' = "methods" /\ cursor' = cursor + 2 * WordBits
              /\ counts' = [coded |-> coded, raw |-> raw]
              /\ UNCHANGED <<lists, texts, decoded>>

(* No records at all end the run; a negative number of them cannot be        *)
(* reserved.                                                                 *)
DecodeCounts ==
  /\ Reading("counts")
  /\ LET coded == Word(cursor)
         raw   == Word(cursor + WordBits)
     IN  IF ~Has(stream, cursor, 2 * WordBits) THEN Stop("eof")
         ELSE IF coded = 0 /\ raw = 0 THEN Stop("end")
         ELSE /\ stage' = "methods" /\ cursor' = cursor + 2 * WordBits
              /\ counts' = [coded |-> coded, raw |-> raw]
              /\ UNCHANGED <<lists, texts, decoded>>

DecodeMethods ==
  /\ Reading("methods")
  /\ LET bytes == Num(Field(stream, cursor, LengthBits)) * ByteBits
         at    == cursor + LengthBits
         rle   == RleDecode(Field(stream, at, bytes), Num(Field(stream, at + bytes, WordBits)))
     IN  IF ~Has(stream, cursor, LengthBits) THEN Stop("eof")
         ELSE IF ~Has(stream, at, bytes + WordBits) THEN Stop("eof")
         ELSE IF rle.status # "ok" \/ counts.coded + counts.raw < 0 THEN Stop("error")
         ELSE /\ stage' = "begins" /\ cursor' = at + bytes + WordBits
              /\ lists' = [lists EXCEPT !.methods = rle.list]
              /\ UNCHANGED <<counts, texts, decoded>>

(* A packed list, read only if the block has coded records.                  *)
DecodePacked(field, next) ==
  /\ Reading(field)
  /\ LET bytes  == Num(Field(stream, cursor, LengthBits)) * ByteBits
         at     == cursor + LengthBits
         packed == BitPackingDecode(Field(stream, at, bytes), counts.coded)
     IN  IF counts.coded <= 0
         THEN stage' = next /\ UNCHANGED <<cursor, counts, lists, texts, decoded>>
         ELSE IF ~Has(stream, cursor, LengthBits) THEN Stop("eof")
         ELSE IF ~Has(stream, at, bytes) THEN Stop("eof")
         ELSE IF packed.status # "ok" THEN Stop(packed.status)
         ELSE /\ stage' = next /\ cursor' = at + bytes
              /\ lists' = [lists EXCEPT ![field] = packed.list]
              /\ UNCHANGED <<counts, texts, decoded>>

DecodeBegins == DecodePacked("begins", "sizes")
DecodeSizes  == DecodePacked("sizes", "lengths")

(* The number of lengths must be twice the number of operations.             *)
DecodeLengths ==
  /\ Reading("lengths")
  /\ \E ts \in {Ts2DiffDecode(stream, cursor)} :
       IF counts.coded <= 0
       THEN stage' = "positions" /\ UNCHANGED <<cursor, counts, lists, texts, decoded>>
       ELSE IF ts.status # "ok" THEN Stop(ts.status)
       ELSE IF Len(lists.sizes) < counts.coded THEN Stop("wild")
       ELSE IF Len(ts.list) # 2 * SumSeq(lists.sizes) THEN Stop("error")
       ELSE /\ stage' = "positions" /\ cursor' = ts.at
            /\ lists' = [lists EXCEPT !.lengths = ts.list]
            /\ UNCHANGED <<counts, texts, decoded>>

(* Two more lists, whether or not there are any positions.                   *)
DecodePositions ==
  /\ Reading("positions")
  /\ \E begin \in {Ts2DiffDecode(stream, cursor)} :
     \E delta \in {Ts2DiffDecode(stream, begin.at)} :
       IF counts.coded <= 0
       THEN stage' = "texts" /\ UNCHANGED <<cursor, counts, lists, texts, decoded>>
       ELSE IF begin.status # "ok" THEN Stop(begin.status)
       ELSE IF delta.status # "ok" THEN Stop(delta.status)
       ELSE /\ stage' = "texts" /\ cursor' = delta.at
            /\ lists' = [[lists EXCEPT !.pbegin = begin.list] EXCEPT !.pdelta = delta.list]
            /\ UNCHANGED <<counts, texts, decoded>>

(* What of each list belongs to the k-th coded record.                       *)
MethodZeros == Cardinality({i \in DOMAIN lists.methods : lists.methods[i] = 0})
OpsBefore(k) == SumSeq(SubSeq(lists.sizes, 1, k - 1))
NonemptyUpTo(k) == Cardinality({i \in 1..k : lists.sizes[i] > 0})
DeletedOf(k) == SubSeq(lists.lengths, 2 * OpsBefore(k) + 1, 2 * OpsBefore(k) + lists.sizes[k])
InsertedOf(k) ==
  SubSeq(lists.lengths, 2 * OpsBefore(k) + lists.sizes[k] + 1, 2 * OpsBefore(k + 1))
PositionsOf(k) ==
  LET deltasBefore == OpsBefore(k) - NonemptyUpTo(k - 1)
      pos[j \in 1..lists.sizes[k]] ==
        IF j = 1 THEN lists.pbegin[NonemptyUpTo(k)] ELSE pos[j - 1] + lists.pdelta[deltasBefore + j - 1]
  IN  [j \in 1..lists.sizes[k] |-> pos[j]]

(* The lists reach as far as the k-th coded record.                          *)
ListsReach(k) ==
  /\ k <= Len(lists.sizes) /\ k <= Len(lists.begins)
  /\ NonemptyUpTo(k) <= Len(lists.pbegin)
  /\ OpsBefore(k + 1) - NonemptyUpTo(k) <= Len(lists.pdelta)
  /\ \A i \in DOMAIN InsertedOf(k) : InsertedOf(k)[i] >= 0

Bytes(at, n) == [i \in 1..n |-> Num(Field(stream, at + (i - 1) * ByteBits, ByteBits))]

(* The substrings of the next coded record, until all have theirs.           *)
DecodeTexts ==
  /\ Reading("texts")
  /\ LET k     == Len(texts) + 1
         total == SumSeq(InsertedOf(k))
     IN  IF k > MethodZeros
         THEN stage' = "raws" /\ UNCHANGED <<cursor, counts, lists, texts, decoded>>
         ELSE IF ~ListsReach(k) THEN Stop("wild")
         ELSE IF ~Has(stream, cursor, total * ByteBits) THEN Stop("eof")
         ELSE /\ cursor' = cursor + total * ByteBits
              /\ texts' = Append(texts, Bytes(cursor, total))
              /\ UNCHANGED <<stage, counts, lists, decoded>>

CodedRecord(k) ==
  LET cut(j) == SumSeq(SubSeq(InsertedOf(k), 1, j))
  IN  [method |-> 0, begin |-> lists.begins[k],
       ops |-> [j \in 1..lists.sizes[k] |->
                  [pos |-> PositionsOf(k)[j], del |-> DeletedOf(k)[j],
                   text |-> SubSeq(texts[k], cut(j - 1) + 1, cut(j))]]]

(* How many methods up to the i-th are m: the index of the i-th among them.  *)
Rank(i, m) == Cardinality({j \in 1..i : lists.methods[j] = m})

(* The lines of the raw records, each up to a newline, and then the records  *)
(* in the order of the methods.                                              *)
DecodeRaws ==
  /\ Reading("raws")
  /\ LET wanted == Len(lists.methods) - MethodZeros
         rest   == Bytes(cursor, (Len(stream) - cursor) \div ByteBits)
         breaks == InOrder({i \in DOMAIN rest : rest[i] = Newline}, Len(rest))
         end(j) == IF j = 0 THEN 0 ELSE breaks[j]
         line(j) == SubSeq(rest, end(j - 1) + 1, end(j) - 1)
         record(i) == IF lists.methods[i] = 0 THEN CodedRecord(Rank(i, 0))
                      ELSE [method |-> 1, line |-> line(Rank(i, 1))]
     IN  IF Len(breaks) < wanted THEN Stop("eof")
         ELSE /\ stage' = "counts" /\ cursor' = cursor + end(wanted) * ByteBits
              /\ decoded' = Append(decoded, [i \in DOMAIN lists.methods |-> record(i)])
              /\ counts' = [coded |-> 0, raw |-> 0] /\ lists' = NoLists /\ texts' = <<>>

Stopped == stage \in {"eof", "end", "error", "wild"}
Ended == Stopped /\ UNCHANGED vars

Decode == DecodeCounts \/ DecodeMethods \/ DecodeBegins \/ DecodeSizes \/ DecodeLengths
            \/ DecodePositions \/ DecodeTexts \/ DecodeRaws
Next == AppendBlock \/ Decode \/ Ended

Spec == Init /\ [][Next]_vars

(***************************************************************************)
(* Properties                                                              *)
(***************************************************************************)
Filled(archive) == Picked(archive, {i \in DOMAIN archive : archive[i] # <<>>})

TypeOK ==
  /\ written \in 0..Len(blocks)
  /\ \A i \in DOMAIN stream : stream[i] \in {0, 1}
  /\ cursor \in 0..Len(stream)
  /\ stage \in ToSet(Fields) \cup {"eof", "end", "error", "wild"}
  /\ counts.coded \in Int /\ counts.raw \in Int
  /\ Len(texts) <= MethodZeros

(* Where the encoder put a field of the block being decoded, and how much of *)
(* it has been read already.                                                 *)
FieldStart(b, k) ==
  SumSeq(MapSeq(LAMBDA x : Size(Calls(x)), SubSeq(blocks, 1, b - 1)))
  + Size(FirstFields(blocks[b], k - 1))

(* Whenever the decoder comes to a field, it stands exactly where the        *)
(* encoder put that field: the two agree about the presence, length and      *)
(* alignment of every field before it, in this block and all earlier ones.   *)
InStep ==
  \A k \in DOMAIN Fields :
    stage = Fields[k] /\ stage # "texts" /\ Len(decoded) < Len(blocks) /\ written = Len(blocks) =>
      cursor = FieldStart(Len(decoded) + 1, k)

(* No field of an appended block overflows the register of the buffer it is  *)
(* put through, wherever in a byte it starts.                                *)
FitsRegister == \A b \in 1..written : RegisterHolds(Calls(blocks[b]))

(* What is decoded is what was encoded, block by block, and the decoder ends *)
(* in success exactly when it has decoded every block that has records.      *)
RoundTrip ==
  /\ Len(decoded) <= Len(Filled(blocks))
  /\ \A b \in DOMAIN decoded : decoded[b] = blocks[b]
  /\ Stopped => stage \in {"eof", "end"} /\ decoded = Filled(blocks)

(* The codec keeps the promise of the abstract archive, with blocks for      *)
(* lines; the empty block some archives end with counts for nothing.         *)
Contents == {Filled(a) : a \in Archives}

Promise == INSTANCE LineArchive WITH
  Inputs <- Contents,
  file <- Filled(blocks),
  durable <- Len(Filled(SubSeq(blocks, 1, written))),
  closed <- IF written = Len(blocks) THEN "complete" ELSE "no",
  restored <- decoded,
  verdict <- IF ~Stopped THEN "none" ELSE IF stage \in {"eof", "end"} THEN "success" ELSE "refused"

ImplementsArchive == Promise!ArchiveSpec

(* The archives the format can carry: coded records, positions and steps in  *)
(* every block but an empty last one, no list that leaves a single value for *)
(* its last ts2diff block, and packed fields whose length fits its field.    *)
NoSingle(list) == list # <<>> /\ Len(list) % TsBlock # 1
LengthFits(bits) == Len(bits) \div ByteBits < Power[LengthBits]
Carried(block) ==
  /\ NoSingle(PositionBegins(block)) /\ NoSingle(PositionDeltas(block))
  /\ LengthFits(RleEncode(Methods(block)).bits)
  /\ LengthFits(BitPackingEncode(Begins(block)))
  /\ LengthFits(BitPackingEncode(OperationSizes(block)))

(* And whose numbers fit: as many records and edits as an int counts; values  *)
(* and steps that are ints; packed values, and steps of a ts2diff list, less  *)
(* the least, no wider than the field for their width can say, and the latter *)
(* no wider than the register holds from any bit of a byte on.                *)
Words == (-Power[WordBits - 1])..(Power[WordBits - 1] - 1)
Counted(list) == Len(list) < Power[WordBits - 1]
Widest(w) == Power[Min({w, Power[WidthBits] - 1})]
Packs(list) == \A i \in DOMAIN list : list[i] < Widest(WordBits - 1)
Steps(list) == LET delta == Deltas(list)
  IN  /\ \A i \in DOMAIN list : list[i] \in Words
      /\ \A i \in DOMAIN delta : delta[i] \in Words
      /\ \A i, j \in DOMAIN delta : delta[i] - delta[j] < Widest((3 * ByteBits) + 1)
Numbered(block) ==
  /\ Counted(block) /\ Counted(LengthList(block))
  /\ Packs(Begins(block)) /\ Packs(OperationSizes(block))
  /\ Steps(LengthList(block)) /\ Steps(PositionBegins(block)) /\ Steps(PositionDeltas(block))

CarriedArchive(archive) ==
  \A b \in DOMAIN archive :
    IF archive[b] = <<>> THEN b = Len(archive) ELSE Carried(archive[b]) /\ Numbered(archive[b])
CarriedArchives == \A a \in Archives : CarriedArchive(a)
================================================================================
