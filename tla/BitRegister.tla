------------------------------- MODULE BitRegister -------------------------------
(***************************************************************************)
(* The two bit buffers at the level of their registers.  BitOutBuffer      *)
(* collects bits in a register of a word (current_bits, bit_count) and     *)
(* moves whole bytes to byte_stream; write hands the bytes to the file.    *)
(* BitInBuffer takes bits out of a register of its own, which it refills   *)
(* a byte at a time.  The other modules see a stream of fields             *)
(* (BitStream: Laid, Field, Has); here the buffers are shown to be one.    *)
(***************************************************************************)
EXTENDS BitStream, FiniteSets

CONSTANTS
  Fields,      \* what encode is called with: pairs [n, w], w the bit length
  Widths,      \* the widths decode is asked for
  MaxCalls     \* bound: calls of encode and pack

(* A field is as long as the register at most: so is every one that the      *)
(* compressor encodes.                                                       *)
ASSUME FieldsAssumption ==
  /\ \A f \in Fields : f.n \in Int /\ f.w \in 0..WordBits
  /\ Widths \subseteq Int /\ MaxCalls \in Nat

VARIABLES
  calls,       \* the calls so far, as BitStream writes them
  outBytes, outBits, outCount,      \* BitOutBuffer: byte_stream, current_bits, bit_count
  file,        \* the bytes written
  reading,     \* the file has been handed to the decompressor
  position, inBits, inCount,        \* BitInBuffer: byte_position, current_bits, bit_count
  last         \* the last call of the reader: [call, at, w, value, thrown]

outVars == <<calls, outBytes, outBits, outCount>>
inVars  == <<position, inBits, inCount, last>>
vars    == <<outVars, file, reading, inVars>>

NoCall == [call |-> "none", at |-> 0, w |-> 0, value |-> 0, thrown |-> "no"]

Init ==
  /\ calls = <<>> /\ outBytes = <<>> /\ outBits = 0 /\ outCount = 0
  /\ file = <<>> /\ reading = FALSE
  /\ position = 0 /\ inBits = 0 /\ inCount = 0 /\ last = NoCall

(***************************************************************************)
(* BitOutBuffer                                                            *)
(***************************************************************************)
BitOr(a, b) == Num([i \in 1..WordBits |-> IF 1 \in {Bits(a, WordBits)[i], Bits(b, WordBits)[i]}
                                          THEN 1 ELSE 0])

(* Slip: the bits of data above the field are not masked off.                *)
ShiftedInUnmasked(n, w) == {(outBits * Power[w] + n) % Power[WordBits]}

(* The register with the field shifted in.  What does not fit is lost; a     *)
(* shift by the whole word is undefined, and clears it or leaves it alone.   *)
ShiftedIn(n, w) ==
  LET data == n % Power[w]
  IN  IF w = WordBits THEN {data, BitOr(outBits, data)}
      ELSE {(outBits * Power[w] + data) % Power[WordBits]}

WholeBytes(bits, count) ==
  [i \in 1..(count \div ByteBits) |-> (bits \div Power[count - i * ByteBits]) % Power[ByteBits]]

Encode(f) ==
  /\ ~reading /\ Len(calls) < MaxCalls
  /\ \E bits \in ShiftedIn(f.n, f.w) :
       LET count == outCount + f.w
       IN  /\ outBytes' = outBytes \o WholeBytes(bits, count)
           /\ outBits' = bits % Power[count % ByteBits]
           /\ outCount' = count % ByteBits
  /\ calls' = IF f.w = 0 THEN calls ELSE calls \o Put(f.n, f.w)
  /\ UNCHANGED <<file, reading, inVars>>

(* Slip: the register keeps the bits it has given out.                       *)
PackedStale ==
  IF outCount = 0 THEN [bytes |-> outBytes, bits |-> outBits, count |-> 0]
  ELSE [bytes |-> Append(outBytes, outBits * Power[ByteBits - outCount]), bits |-> outBits, count |-> 0]

Packed ==
  IF outCount = 0 THEN [bytes |-> outBytes, bits |-> outBits, count |-> 0]
  ELSE [bytes |-> Append(outBytes, outBits * Power[ByteBits - outCount]), bits |-> 0, count |-> 0]

(* pack(); length(), which packs before it counts; and a write() that cannot  *)
(* open the file, which has packed by then and keeps the bytes.              *)
Pack ==
  /\ ~reading /\ Len(calls) < MaxCalls
  /\ outBytes' = Packed.bytes /\ outBits' = Packed.bits /\ outCount' = Packed.count
  /\ calls' = calls \o PackMark
  /\ UNCHANGED <<file, reading, inVars>>

(* write() packs, appends the bytes and clears the buffer.                   *)
Write ==
  /\ ~reading /\ Len(calls) <= MaxCalls
  /\ file' = file \o Packed.bytes
  /\ outBytes' = <<>> /\ outBits' = 0 /\ outCount' = 0
  /\ calls' = calls \o PackMark
  /\ UNCHANGED <<reading, inVars>>

(***************************************************************************)
(* BitInBuffer                                                             *)
(***************************************************************************)

(* read() takes the file whole and starts over, also in the middle of one;    *)
(* the compressor, and what it remembers of its calls, is gone by then.      *)
Read ==
  /\ outBytes = <<>> /\ outCount = 0
  /\ reading' = TRUE /\ calls' = <<>>
  /\ position' = 0 /\ inBits' = 0 /\ inCount' = 0 /\ last' = NoCall
  /\ UNCHANGED <<outBytes, outBits, outCount, file>>

(* Slip: a byte more is fetched than the field needs.                        *)
FetchEager(r) ==
  IF r.count > r.remaining THEN r
  ELSE IF r.position = Len(file) THEN [r EXCEPT !.thrown = "end"]
  ELSE [r EXCEPT !.bits = (@ * Power[ByteBits] + file[r.position + 1]) % Power[WordBits],
                 !.count = @ + ByteBits, !.position = @ + 1]

(* One round of decode's loop: fetch a byte if the register is short of what *)
(* remains, then move the top bits of the register to the result.            *)
Fetch(r) ==
  IF r.count >= r.remaining THEN r
  ELSE IF r.position = Len(file) THEN [r EXCEPT !.thrown = "end"]
  ELSE [r EXCEPT !.bits = (@ * Power[ByteBits] + file[r.position + 1]) % Power[WordBits],
                 !.count = @ + ByteBits, !.position = @ + 1]
Take(r) ==
  LET taken == IF r.remaining < r.count THEN r.remaining ELSE r.count
      left  == r.count - taken
  IN  [r EXCEPT !.result = (@ * Power[taken] + ((r.bits \div Power[left]) % Power[taken])) % Power[WordBits],
                !.remaining = @ - taken, !.count = left, !.bits = @ % Power[left]]
Round(r) ==
  IF r.remaining = 0 \/ r.thrown # "no" THEN r
  ELSE With(Fetch(r), LAMBDA f : IF f.thrown # "no" THEN f ELSE Take(f))

(* A word is decoded in at most five rounds.                                 *)
Decoded(w) ==
  LET start == [bits |-> inBits, count |-> inCount, position |-> position,
                remaining |-> w, result |-> 0, thrown |-> "no"]
      round[k \in 0..5] == IF k = 0 THEN start ELSE Round(round[k - 1])
  IN  IF w \notin 1..WordBits THEN [start EXCEPT !.thrown = "length"] ELSE round[5]

Cursor == position * ByteBits - inCount

Settle(call, w, r) ==
  /\ position' = r.position /\ inBits' = r.bits /\ inCount' = r.count
  /\ last' = [call |-> call, at |-> Cursor, w |-> w, value |-> r.result, thrown |-> r.thrown]
  /\ UNCHANGED <<outVars, file, reading>>

Decode(w) == reading /\ \E r \in {Decoded(w)} : Settle("decode", w, r)

(* Slip: as many bits are skipped as the byte has given out.                 *)
SkippedTaken == (ByteBits - inCount) % ByteBits

(* align() decodes single bits until the count of bits left is a multiple of *)
(* a byte's: as many as are left of the last byte fetched.                   *)
Skipped == inCount
Align ==
  /\ reading
  /\ \E r \in {IF Skipped = 0
               THEN [bits |-> inBits, count |-> inCount, position |-> position,
                     result |-> 0, thrown |-> "no"]
               ELSE Decoded(Skipped)} :
       Settle("align", Skipped, r)

Next ==
  \/ \E f \in Fields : Encode(f)
  \/ Pack \/ Write \/ Read \/ Align
  \/ \E w \in Widths : Decode(w)

Spec == Init /\ [][Next]_vars

(***************************************************************************)
(* Properties                                                              *)
(***************************************************************************)

(* Between calls either register holds less than a byte, and nothing above   *)
(* the bits it counts.                                                       *)
TypeOK ==
  /\ outCount \in 0..(ByteBits - 1) /\ outBits \in 0..(Power[outCount] - 1)
  /\ inCount \in 0..(ByteBits - 1) /\ inBits \in 0..(Power[inCount] - 1)
  /\ position \in 0..Len(file) /\ reading \in BOOLEAN
  /\ \A b \in {file[i] : i \in DOMAIN file} \cup {outBytes[i] : i \in DOMAIN outBytes} :
       b \in 0..(Power[ByteBits] - 1)
  /\ last.thrown \in {"no", "end", "length"}

BitsOf(bytes) ==
  [j \in 1..(ByteBits * Len(bytes)) |->
     Bits(bytes[((j - 1) \div ByteBits) + 1], ByteBits)[((j - 1) % ByteBits) + 1]]
StreamSoFar == BitsOf(file \o outBytes) \o Bits(outBits, outCount)

(* As long as no call had more bits than the register could take, the bytes  *)
(* written, the bytes waiting and the bits of the register are the fields    *)
(* one after the other, whatever mix of packing and writing lies between;    *)
(* and when one had, bits are wrong but none is missing or added, so that    *)
(* every later field is still where the decoder looks for it.                *)
StreamIsCalls ==
  ~reading =>
  \E s \in {StreamSoFar} :
    /\ Len(s) = Size(calls)
    /\ RegisterHolds(calls) => s = Laid(calls)

(* A call of decode returns the field after the bits already taken and moves *)
(* past it, or throws because there are not as many; a field that is there   *)
(* is never refused, however the register and the byte boundary lie.         *)
DecodesFields ==
  last.call = "decode" =>
    \E s \in {BitsOf(file)} :
      CASE last.thrown = "no"  -> /\ Has(s, last.at, last.w) /\ Cursor = last.at + last.w
                                  /\ last.value = Num(Field(s, last.at, last.w))
        [] last.thrown = "end" -> ~Has(s, last.at, last.w)
        [] OTHER               -> last.w \notin 1..WordBits /\ Cursor = last.at

(* align never runs past the end, though it may stand on the last byte, and  *)
(* ends at the next byte boundary.                                           *)
AlignStays == last.call = "align" => last.thrown = "no" /\ Cursor = Aligned(last.at)
================================================================================
