-------------------------------- MODULE IntLists --------------------------------
(***************************************************************************)
(* The three codecs for lists of integers: ts2diff (ts_2diff.cpp), fixed   *)
(* width bit packing (bit_packing.cpp) and run lengths of a 0/1 list       *)
(* (rle.cpp).  Encoders return bits; ts2diff, which writes straight into   *)
(* the stream, returns the stream.  Decoders return what they read, or how *)
(* they failed, and ts2diff also the place it stopped at.                  *)
(***************************************************************************)
EXTENDS BitStream

CONSTANT TsBlock      \* values per ts2diff block, 64 in the code

ASSUME TsBlockAssumption == TsBlock \in 2..Power[DeltaCountBits] /\ TsBlock % 2 = 0

(* The number of bits of n, none for 0.                                     *)
BitLength(n) == CHOOSE w \in 0..WordBits : Power[w] > n /\ (w > 0 => Power[w - 1] <= n)
Largest(list) == Max({list[i] : i \in DOMAIN list})
Smallest(list) == Min({list[i] : i \in DOMAIN list})

(***************************************************************************)
(* ts2diff: a count of blocks, and per block the first value and the       *)
(* deltas, less the smallest, in as many bits as the widest needs.  A      *)
(* block of one value is cut short, and only the others end on a byte.     *)
(***************************************************************************)
Deltas(data) == [i \in 1..Max({Len(data) - 1, 0}) |-> data[i + 1] - data[i]]

EncodeSingle(data) == Put(data[1], WordBits) \o Put(0, WordBits) \o Put(0, DeltaCountBits)

(* Slip: the byte is not filled after the last delta.                       *)
EncodeDeltasUnpacked(data) ==
  LET delta == Deltas(data)
      least == Smallest(delta)
      width == BitLength(Max({Largest(delta) - least, 1}))
  IN  Put(data[1], WordBits) \o Put(least, WordBits) \o Put(Len(delta), DeltaCountBits)
        \o Put(width, WidthBits) \o PutAll(MapSeq(LAMBDA d : d - least, delta), width)

EncodeDeltas(data) ==
  LET delta == Deltas(data)
      least == Smallest(delta)
      width == BitLength(Max({Largest(delta) - least, 1}))
  IN  Put(data[1], WordBits) \o Put(least, WordBits) \o Put(Len(delta), DeltaCountBits)
        \o Put(width, WidthBits) \o PutAll(MapSeq(LAMBDA d : d - least, delta), width) \o PackMark

EncodeTsBlock(data) == IF Len(data) = 1 THEN EncodeSingle(data) ELSE EncodeDeltas(data)

TsBlocks(list) ==
  [b \in 1..((Len(list) + TsBlock - 1) \div TsBlock) |->
     SubSeq(list, (b - 1) * TsBlock + 1, Min({b * TsBlock, Len(list)}))]

Ts2DiffEncode(list) ==
  Put(Len(TsBlocks(list)), WordBits) \o FlattenSeq(MapSeq(EncodeTsBlock, TsBlocks(list)))

(* How reading a list ended: "ok", "eof" (past the end of the buffer) or    *)
(* "error" (any other exception).                                           *)
Failed(how) == [status |-> how, list |-> <<>>, at |-> 0]

(* One block, found after alignment to a byte.                              *)
DecodeTsBlock(s, from) ==
  LET at    == Aligned(from)
      body  == at + 2 * WordBits + DeltaCountBits
      count == Num(Field(s, at + 2 * WordBits, DeltaCountBits))
      first == Int32(Field(s, at, WordBits))
      least == Int32(Field(s, at + WordBits, WordBits))
      width == Num(Field(s, body, WidthBits))
      data  == body + WidthBits
      delta == [i \in 1..count |-> least + Num(Field(s, data + (i - 1) * width, width))]
  IN  IF ~Has(s, at, 2 * WordBits + DeltaCountBits) THEN Failed("eof")
      ELSE IF count = 0 THEN [status |-> "ok", list |-> <<first>>, at |-> body]
      ELSE IF ~Has(s, body, WidthBits) THEN Failed("eof")
      ELSE IF width \notin 1..WordBits THEN Failed("error")
      ELSE IF ~Has(s, data, count * width) THEN Failed("eof")
      ELSE [status |-> "ok", at |-> data + count * width,
            list |-> [i \in 1..(count + 1) |-> first + SumSeq(SubSeq(delta, 1, i - 1))]]

(* The whole list.  A negative count of blocks asks reserve() for more than *)
(* there can be.                                                            *)
Ts2DiffDecode(s, at) ==
  LET count == Int32(Field(s, at, WordBits))
      next(before, b) ==
        IF before.status # "ok" THEN before
        ELSE With(DecodeTsBlock(s, before.at), LAMBDA block :
               IF block.status # "ok" THEN block
               ELSE [block EXCEPT !.list = before.list \o block.list])
      start == [status |-> "ok", list |-> <<>>, at |-> at + WordBits]
      end(r) == IF r.status # "ok" THEN r
                ELSE IF Aligned(r.at) > Len(s) THEN Failed("eof")
                ELSE [r EXCEPT !.at = Aligned(r.at)]
  IN  IF ~Has(s, at, WordBits) THEN Failed("eof")
      ELSE IF count < 0 THEN Failed("error")
      ELSE With(FoldUp(next, start, count), end)

(***************************************************************************)
(* Bit packing: a byte with the width of the largest value, then the       *)
(* values, to a whole number of bytes.                                     *)
(***************************************************************************)
BitPackingEncode(list) ==
  LET width == BitLength(Largest(list))
  IN  PadBits(Bits(width, ByteBits) \o FlattenSeq([i \in DOMAIN list |-> Bits(list[i], width)]))

(* An index beyond the encoded bytes reads outside the vector.              *)
BitPackingDecode(bits, count) ==
  LET width == Num(SubSeq(bits, 1, ByteBits))
  IN  IF bits = <<>> THEN [status |-> "ok", list |-> <<>>]
      ELSE IF ByteBits + count * width > Len(bits) THEN [status |-> "wild", list |-> <<>>]
      ELSE [status |-> "ok",
            list |-> [i \in 1..count |-> Num(Field(bits, ByteBits + (i - 1) * width, width))]]

(***************************************************************************)
(* Run lengths: the first value, then every run length in a code of n - 2  *)
(* ones, a zero, and the length in n bits, n at least 2.                   *)
(***************************************************************************)
RunCode(length) ==
  LET n == Max({BitLength(length), 2})
  IN  [i \in 1..(n - 2) |-> 1] \o <<0>> \o Bits(length, n)

(* The places a run ends at, in order.                                      *)
RunEnds(list) ==
  InOrder({i \in DOMAIN list : i = Len(list) \/ list[i] # list[i + 1]}, Len(list))

RunLengths(list) ==
  LET ends == RunEnds(list)
  IN  [i \in DOMAIN ends |-> ends[i] - (IF i = 1 THEN 0 ELSE ends[i - 1])]

(* Slip: the code is not filled up to whole bytes.                          *)
RleEncodeUnpadded(list) ==
  IF list = <<>> THEN [bits |-> <<>>, runs |-> 0]
  ELSE [bits |-> <<list[1]>> \o FlattenSeq([i \in DOMAIN RunLengths(list) |->
                                              RunCode(RunLengths(list)[i])]),
        runs |-> Len(RunLengths(list))]

RleEncode(list) ==
  IF list = <<>> THEN [bits |-> <<>>, runs |-> 0]
  ELSE [bits |-> PadBits(<<list[1]>> \o FlattenSeq([i \in DOMAIN RunLengths(list) |->
                                                   RunCode(RunLengths(list)[i])])),
        runs |-> Len(RunLengths(list))]

(* Runs are read while there are bits and runs left; a code that is cut off, *)
(* or a run of length 0, is an error.                                        *)
RleDecode(bits, runs) ==
  LET next(before, r) ==
        LET zeros  == {i \in (before.at + 1)..Len(bits) : bits[i] = 0}
            zero   == Min(zeros)
            n      == zero - before.at + 1
            length == Num(Field(bits, zero, n))
            value  == IF r % 2 = 1 THEN bits[1] ELSE 1 - bits[1]
        IN  IF before.status # "ok" \/ before.at >= Len(bits) THEN before
            ELSE IF zeros = {} THEN Failed("error")
            ELSE IF ~Has(bits, zero, n) \/ length = 0 THEN Failed("error")
            ELSE [status |-> "ok", at |-> zero + n,
                  list |-> before.list \o [i \in 1..length |-> value]]
      start == [status |-> "ok", list |-> <<>>, at |-> 1]
  IN  IF bits = <<>> THEN start
      ELSE FoldUp(next, start, runs)
================================================================================
