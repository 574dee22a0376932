-------------------------------- MODULE BitStream --------------------------------
(***************************************************************************)
(* The byte stream the programs exchange: the fields put into it (class    *)
(* BitOutBuffer), the bits they make, and the fields taken out of it       *)
(* (class BitInBuffer).  The format's widths are all multiples or halves   *)
(* of a byte, so one constant scales it: ByteBits is 8 in the code.        *)
(***************************************************************************)
EXTENDS Integers, Sequences, SequencesExt

CONSTANT ByteBits

ASSUME ByteAssumption == ByteBits \in Nat \ {0} /\ ByteBits % 2 = 0

WordBits       == 4 * ByteBits            \* 32: counts and values
LengthBits     == 2 * ByteBits            \* 16: byte lengths of packed fields
DeltaCountBits == (3 * ByteBits) \div 2   \* 12: deltas of a ts2diff block
WidthBits      == ByteBits                \* 8: bit widths

(* 2^k, for widths of fields.                                                *)
Power ==
  LET doubled[k \in 0..WordBits] == IF k = 0 THEN 1 ELSE 2 * doubled[k - 1]
  IN  [k \in 0..WordBits |-> doubled[k]]

(* F of x, with x evaluated once; and the numbers up to n folded into base,   *)
(* the smallest first, as a recursive function.                              *)
With(x, F(_)) == CHOOSE y \in {F(v) : v \in {x}} : TRUE
FoldUp(op(_, _), base, n) ==
  LET upTo[i \in 0..n] == IF i = 0 THEN base ELSE With(upTo[i - 1], LAMBDA u : op(u, i))
  IN  upTo[n]

(* A sequence mapped, added up, and without the places that are not in keep;  *)
(* and the numbers of a set up to n, in order.                               *)
MapSeq(F(_), seq) == [i \in DOMAIN seq |-> F(seq[i])]
SumSeq(seq) ==
  LET sum[k \in 0..Len(seq)] == IF k = 0 THEN 0 ELSE sum[k - 1] + seq[k]
  IN  sum[Len(seq)]
Picked(seq, keep) ==
  LET picked[k \in 0..Len(seq)] ==
        IF k = 0 THEN <<>>
        ELSE IF k \in keep THEN Append(picked[k - 1], seq[k]) ELSE picked[k - 1]
  IN  picked[Len(seq)]
InOrder(set, n) == Picked([i \in 1..n |-> i], set)

(* Slip: the bits above the field's width are not masked off.               *)
BitsUnmasked(n, w) == [i \in 1..w |-> IF i = 1 THEN n \div Power[w - 1] ELSE (n \div Power[w - i]) % 2]

(* A number as its low w bits, most significant first (two's complement for  *)
(* a negative one), and back, unsigned and as an int.                        *)
Bits(n, w) == [i \in 1..w |-> (n \div Power[w - i]) % 2]
Num(bits) ==
  LET num[k \in 0..Len(bits)] == IF k = 0 THEN 0 ELSE 2 * num[k - 1] + bits[k]
  IN  num[Len(bits)]
Int32(bits) == IF bits[1] = 0 THEN Num(bits) ELSE Num(bits) - Power[Len(bits)]

Aligned(at) == at + ((-at) % ByteBits)
PadBits(bits) == bits \o [i \in 1..((-Len(bits)) % ByteBits) |-> 0]

(* encode(n, w) writes a field, pack() a mark that fills the byte.  A stream *)
(* under construction is the sequence of these calls.                        *)
Put(n, w) == <<[n |-> n, w |-> w]>>
PackMark == <<[n |-> 0, w |-> 0]>>
PutAll(ns, w) == [i \in DOMAIN ns |-> [n |-> ns[i], w |-> w]]

(* The bit a call starts at; call Len(calls) + 1 starts where the stream ends.*)
Start(calls, k) ==
  LET at[i \in 0..(k - 1)] ==
        IF i = 0 THEN 0
        ELSE IF calls[i].w = 0 THEN Aligned(at[i - 1]) ELSE at[i - 1] + calls[i].w
  IN  at[k - 1]
Size(calls) == Start(calls, Len(calls) + 1)

(* The bits they make, each field after the other.                           *)
Laid(calls) ==
  LET laid[k \in 0..Len(calls)] ==
        IF k = 0 THEN <<>>
        ELSE IF calls[k].w = 0 THEN PadBits(laid[k - 1])
        ELSE laid[k - 1] \o Bits(calls[k].n, calls[k].w)
  IN  laid[Len(calls)]

(* encode shifts the bits of the unfinished byte and the field through a     *)
(* 32-bit register: more of them than it holds and the first are lost.  As   *)
(* long as there are not, the stream is the fields one after the other.      *)
RegisterHolds(calls) ==
  \A c \in {calls} :
    \A k \in DOMAIN c : (Start(c, k) % ByteBits) + c[k].w <= WordBits

(* decode(w) takes the w bits after the first at, if there are as many.      *)
Has(s, at, w) == at + w <= Len(s)
Field(s, at, w) == SubSeq(s, at + 1, at + w)
================================================================================
