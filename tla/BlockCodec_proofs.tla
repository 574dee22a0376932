----------------------------- MODULE BlockCodec_proofs -----------------------------
(***************************************************************************)
(* For every archive the format can carry: no field overflows the register *)
(* it is put through (RegisterFits), decoder and encoder agree where every *)
(* field begins (KeepsStep), what is decoded is what was encoded           *)
(* (RoundTrips), and so the codec implements the abstract archive          *)
(* (Implements).                                                           *)
(*                                                                         *)
(* First the encoder: each of the eight fields of a block is a piece, whole*)
(* bytes whose bits do not depend on what is before them (FieldsArePieces),*)
(* and so is the block (BlockIsPiece).  Then the decoder: found at a place *)
(* (Finds), each field is read there as it was, and its end is where the   *)
(* next one is found (BlockIsFound, FieldIsHere); from the lists, texts and*)
(* lines read the records are made again (BlockIsMade).                    *)
(*                                                                         *)
(* The invariant, CInv, says that the stream is the pieces of the blocks   *)
(* appended, that the blocks decoded are the first ones, and where the     *)
(* decoder stands: at the start of a block, at the end of the stream, or   *)
(* in a block at the place of its field (AtField), knowing the lists before*)
(* it.  One lemma per stage of the decoder shows that its step leads to the*)
(* next field.                                                             *)
(***************************************************************************)
EXTENDS BlockCodec, BitStream_proofs

(***************************************************************************)
(* Widths                                                                  *)
(***************************************************************************)
LEMMA PowerGrows ==
  ASSUME NEW m \in 0..WordBits, NEW k \in 0..m
  PROVE  Power[k] <= Power[m] /\ Power[k] \in Nat \ {0} /\ Power[m] \in Nat \ {0}
<1>1. k \in Nat /\ m - k \in Nat /\ k + (m - k) = m /\ m \in Nat /\ m <= WordBits /\ k \in 0..WordBits /\ m - k \in 0..WordBits
  BY ByteIs
<1>2. Power[k + (m - k)] = Power[k] * Power[m - k]
  BY <1>1, PowerAdds
<1>3. Power[k] \in Nat \ {0} /\ Power[m - k] \in Nat \ {0} /\ Power[m] \in Nat \ {0}
  BY <1>1, PowerIs
<1> DEFINE x == Power[k]
           y == Power[m - k]
<1>4. x \in Nat \ {0} /\ y \in Nat \ {0}
  BY <1>3
<1> HIDE DEF x, y
<1>5. x <= x * y
  BY <1>4
<1>6. Power[m] = x * y
  BY <1>1, <1>2 DEF x, y
<1> QED BY <1>3, <1>5, <1>6 DEF x

LengthOf(n, w) == w \in 0..WordBits /\ Power[w] > n /\ (w > 0 => Power[w - 1] <= n)

(* BitLength is the least width a number fits in.                            *)
LEMMA LengthIs ==
  ASSUME NEW m \in 0..WordBits, NEW n \in Nat, n < Power[m]
  PROVE  LengthOf(n, BitLength(n)) /\ BitLength(n) \in 0..m /\ (n > 0 => BitLength(n) \in 1..m)
<1> DEFINE S == {w \in 0..WordBits : Power[w] > n}
<1>0. m \in Nat /\ WordBits \in Nat /\ \A w \in 0..WordBits : w \in Nat /\ Power[w] \in Nat
  BY ByteIs, PowerIs
<1>1. S \in SUBSET Nat /\ m \in S
  BY <1>0
<1>2. PICK x \in S : \A k \in S : x <= k
  <2> HIDE DEF S
  <2>1. S # {}
    BY <1>1
  <2> QED BY <1>1, <2>1, LeastNatural
<1>3. LengthOf(n, x)
  <2>1. x \in 0..WordBits /\ x \in Nat /\ Power[x] > n
    BY <1>1, <1>2
  <2>2. ASSUME x > 0 PROVE Power[x - 1] <= n
    <3>1. x - 1 \in 0..WordBits /\ ~(x <= x - 1)
      BY <2>1, <2>2, <1>0
    <3>2. x - 1 \notin S
      BY <1>2, <3>1
    <3>3. ~(Power[x - 1] > n)
      BY <3>1, <3>2
    <3> QED BY <1>0, <3>1, <3>3
  <2> QED BY <2>1, <2>2 DEF LengthOf
<1> HIDE DEF S
<1> DEFINE b == BitLength(n)
<1>4. b = CHOOSE w \in 0..WordBits : LengthOf(n, w)
  <2>1. \A w \in 0..WordBits : LengthOf(n, w) <=> (Power[w] > n /\ (w > 0 => Power[w - 1] <= n))
    BY Zenon DEF LengthOf
  <2> QED BY <2>1, Zenon DEF BitLength
<1>5. b \in 0..WordBits /\ LengthOf(n, b)
  <2>1. x \in 0..WordBits
    BY <1>3 DEF LengthOf
  <2> HIDE DEF b
  <2> QED BY <1>3, <1>4, <2>1, Zenon
<1> HIDE DEF b
<1>6. b <= m
  <2> SUFFICES ASSUME b > m PROVE FALSE
    BY <1>0, <1>5
  <2>1. b \in Nat /\ b > 0 /\ b - 1 \in 0..WordBits /\ m \in 0..(b - 1)
    BY <1>0, <1>5
  <2>2. Power[m] <= Power[b - 1]
    BY <2>1, PowerGrows
  <2>3. Power[b - 1] <= n /\ Power[b - 1] \in Nat /\ Power[m] \in Nat
    BY <1>0, <1>5, <2>1 DEF LengthOf
  <2> QED BY <2>2, <2>3
<1>7. n > 0 => b # 0
  <2>1. Power[0] = 1 /\ Power[b] > n
    BY <1>5, PowerIs DEF LengthOf
  <2> QED BY <2>1
<1>8. b \in 0..m /\ (n > 0 => b \in 1..m)
  BY <1>0, <1>5, <1>6, <1>7
<1> QED BY <1>5, <1>8 DEF b

(* The larger and the smaller of two numbers.                                *)
LEMMA LargerOf ==
  ASSUME NEW a \in Int, NEW b \in Int
  PROVE  /\ Max({a, b}) \in {a, b} /\ Max({a, b}) >= a /\ Max({a, b}) >= b
         /\ Min({a, b}) \in {a, b} /\ Min({a, b}) <= a /\ Min({a, b}) <= b
<1>1. \E x \in {a, b} : \A y \in {a, b} : x >= y
  OBVIOUS
<1>2. \E x \in {a, b} : \A y \in {a, b} : x <= y
  OBVIOUS
<1> DEFINE M == Max({a, b})
           m == Min({a, b})
<1>3. M \in {a, b} /\ \A y \in {a, b} : M >= y
  BY <1>1 DEF Max
<1>4. m \in {a, b} /\ \A y \in {a, b} : m <= y
  BY <1>2 DEF Min
<1> HIDE DEF M, m
<1>5. M \in {a, b} /\ M >= a /\ M >= b /\ m \in {a, b} /\ m <= a /\ m <= b
  BY <1>3, <1>4
<1> QED BY <1>5 DEF M, m

(* The largest and the smallest member of a list.                            *)
LEMMA ExtremesAre ==
  ASSUME NEW list \in Seq(Int), list # <<>>
  PROVE  /\ \E k \in 1..Len(list) : Largest(list) = list[k]
         /\ \E k \in 1..Len(list) : Smallest(list) = list[k]
         /\ \A i \in 1..Len(list) : Smallest(list) <= list[i] /\ list[i] <= Largest(list)
<1> DEFINE n == Len(list)
           Up(m, k) == m \in 1..n /\ \A i \in 1..k : list[i] <= list[m]
           Down(m, k) == m \in 1..n /\ \A i \in 1..k : list[m] <= list[i]
           H == {k \in 0..n : (\E m : Up(m, k)) /\ (\E m : Down(m, k))}
           S == {list[i] : i \in DOMAIN list}
<1>1. n \in Nat \ {0} /\ DOMAIN list = 1..n /\ \A i \in 1..n : list[i] \in Int
  OBVIOUS
<1> HIDE DEF n
<1>2. 0 \in H
  <2>1. 0 \in 0..n /\ 1 \in 1..n /\ \A i \in 1..0 : FALSE
    BY <1>1
  <2>2. Up(1, 0) /\ Down(1, 0)
    BY <2>1
  <2> HIDE DEF Up, Down
  <2> QED BY <2>1, <2>2
<1>3. ASSUME NEW k \in 1..n, k - 1 \in H PROVE k \in H
  <2>1. k \in 0..n /\ k \in 1..k /\ \A i \in 1..k : i \in 1..(k - 1) \/ i = k
    BY <1>1
  <2>2. PICK u : Up(u, k - 1)
    BY <1>3
  <2>3. PICK d : Down(d, k - 1)
    BY <1>3
  <2>4. \E m : Up(m, k)
    <3>1. CASE list[k] <= list[u]
      <4>1. Up(u, k)
        BY <2>1, <2>2, <3>1
      <4> QED BY <4>1
    <3>2. CASE ~(list[k] <= list[u])
      <4>1. ASSUME NEW i \in 1..k PROVE list[i] <= list[k]
        <5>1. list[u] \in Int /\ list[k] \in Int /\ list[i] \in Int
          BY <1>1, <2>2, <2>1
        <5>2. i = k \/ list[i] <= list[u]
          BY <2>1, <2>2
        <5> QED BY <3>2, <5>1, <5>2
      <4>2. Up(k, k)
        BY <4>1
      <4> QED BY <4>2
    <3> QED BY <3>1, <3>2
  <2>5. \E m : Down(m, k)
    <3>1. CASE list[d] <= list[k]
      <4>1. Down(d, k)
        BY <2>1, <2>3, <3>1
      <4> QED BY <4>1
    <3>2. CASE ~(list[d] <= list[k])
      <4>1. ASSUME NEW i \in 1..k PROVE list[k] <= list[i]
        <5>1. list[d] \in Int /\ list[k] \in Int /\ list[i] \in Int
          BY <1>1, <2>3, <2>1
        <5>2. i = k \/ list[d] <= list[i]
          BY <2>1, <2>3
        <5> QED BY <3>2, <5>1, <5>2
      <4>2. Down(k, k)
        BY <4>1
      <4> QED BY <4>2
    <3> QED BY <3>1, <3>2
  <2> HIDE DEF Up, Down
  <2> QED BY <2>1, <2>4, <2>5
<1>4. n \in H
  <2>1. n \in 0..n /\ n \in Nat
    BY <1>1
  <2> HIDE DEF H
  <2> QED BY <1>2, <1>3, <2>1, CountUp, Zenon
<1>5. PICK u : Up(u, n)
  BY <1>4
<1>6. PICK d : Down(d, n)
  BY <1>4
<1>7. list[u] \in S /\ list[d] \in S /\ \A y \in S : list[u] >= y /\ list[d] <= y
  BY <1>1, <1>5, <1>6
<1> HIDE DEF S
<1>8. Max(S) \in S /\ Min(S) \in S /\ \A y \in S : Max(S) >= y /\ Min(S) <= y
  <2>1. \E x \in S : \A y \in S : x >= y
    BY <1>7
  <2>2. \E x \in S : \A y \in S : x <= y
    BY <1>7
  <2>3. Max(S) \in S /\ \A y \in S : Max(S) >= y
    BY <2>1 DEF Max
  <2>4. Min(S) \in S /\ \A y \in S : Min(S) <= y
    BY <2>2 DEF Min
  <2> QED BY <2>3, <2>4
<1>9. Largest(list) = Max(S) /\ Smallest(list) = Min(S)
  BY DEF Largest, Smallest, S
<1>10. \A i \in 1..n : list[i] \in S
  BY <1>1 DEF S
<1>11. \A y \in S : \E k \in 1..n : y = list[k]
  BY <1>1 DEF S
<1>12. \A y \in S : y \in Int
  BY <1>1 DEF S
<1>13. \A i \in 1..n : Min(S) <= list[i] /\ list[i] <= Max(S)
  BY <1>8, <1>10, <1>12
<1> QED BY <1>8, <1>9, <1>11, <1>13 DEF n

(***************************************************************************)
(* Pieces being made                                                       *)
(***************************************************************************)
Part(c, s) == c \in Seq(CallSet) /\ RegisterHolds(c) /\ Laid(c) = s

(* A piece is a part of one.                                                 *)
LEMMA PartOfPiece ==
  ASSUME NEW c, NEW s, Piece(c, s)
  PROVE  Part(c, s)
BY Zenon DEF Piece, Part

(* A part and narrow fields after it.                                        *)
LEMMA PartMore ==
  ASSUME NEW c, NEW s, NEW d \in Seq(CallSet), NEW t, Part(c, s), Plain(d), Narrow(d), Laid(d) = t
  PROVE  Part(c \o d, s \o t)
<1>1. c \in Seq(CallSet) /\ RegisterHolds(c) /\ Laid(c) = s
  BY Zenon DEF Part
<1>2. Joins(c, d)
  BY <1>1, StreamsJoin, Zenon
<1>3. RegisterHolds(c \o d)
  BY <1>1, <1>2, HoldsJoined, Zenon
<1>4. c \o d \in Seq(CallSet)
  BY <1>1, ConcatProperties, Zenon
<1>5. Laid(c \o d) = s \o t
  BY <1>1, <1>2, Zenon DEF Joins
<1> QED BY <1>3, <1>4, <1>5, Zenon DEF Part

(* A part becomes a piece when the last byte is filled.                      *)
LEMMA PartMarked ==
  ASSUME NEW c, NEW s, Part(c, s)
  PROVE  Piece(c \o PackMark, PadBits(s))
<1> DEFINE x == [n |-> 0, w |-> 0]
           e == c \o <<x>>
<1>1. c \in Seq(CallSet) /\ RegisterHolds(c) /\ Laid(c) = s /\ Len(c) \in Nat
  BY DEF Part
<1>2. x \in CallSet /\ x.w = 0 /\ PackMark = <<x>>
  BY ByteIs DEF CallSet, PackMark
<1> HIDE DEF x
<1>3. /\ e \in Seq(CallSet) /\ Len(e) = Len(c) + 1 /\ e[Len(c) + 1] = x
      /\ \A k \in 1..Len(c) : e[k] = c[k]
      /\ DOMAIN e = 1..Len(e) /\ DOMAIN c = 1..Len(c)
  BY <1>1, <1>2
<1>4. Laid(e) = PadBits(s) /\ Size(e) = Aligned(Size(c))
  <2>1. Laid(e) = BitsAfter(Laid(c), x) /\ Size(e) = PlaceAfter(Size(c), x)
    BY <1>1, <1>2, LaidNext, StartNext, Zenon
  <2> QED BY <1>1, <1>2, <2>1, Zenon DEF BitsAfter, PlaceAfter
<1>5. \A k \in 1..(Len(c) + 1) : Start(e, k) = Start(c, k)
  BY <1>1, <1>2, StartNext, Zenon
<1>6. Size(c) \in Nat
  BY <1>1, LaidTyped DEF IsLaid
<1>7. Size(e) % ByteBits = 0
  BY <1>4, <1>6, Rounded
<1> HIDE DEF e
<1>8. ASSUME NEW k \in 1..Len(e) PROVE (Start(e, k) % ByteBits) + e[k].w <= WordBits
  <2>1. k \in 1..(Len(c) + 1) /\ Start(e, k) = Start(c, k)
    BY <1>3, <1>5
  <2>2. CASE k \in 1..Len(c)
    <3>1. (Start(c, k) % ByteBits) + c[k].w <= WordBits
      BY <1>1, <1>3, <2>2 DEF RegisterHolds
    <3> QED BY <1>3, <2>1, <2>2, <3>1
  <2>3. CASE k = Len(c) + 1
    <3>1. Start(e, k) = Size(c) /\ e[k].w = 0
      BY <1>2, <1>3, <2>1, <2>3 DEF Size
    <3>2. Size(c) % ByteBits \in 0..(ByteBits - 1)
      BY <1>6, ByteIs
    <3> QED BY <3>1, <3>2, ByteIs
  <2> QED BY <1>1, <2>1, <2>2, <2>3
<1>9. RegisterHolds(e)
  BY <1>3, <1>8, Zenon DEF RegisterHolds
<1> QED BY <1>2, <1>3, <1>4, <1>7, <1>9 DEF Piece, e

(***************************************************************************)
(* The fields, as pieces                                                   *)
(***************************************************************************)
LEMMA WidthsAre ==
  /\ LengthBits \in 1..WordBits /\ WidthBits \in 1..WordBits /\ DeltaCountBits \in 1..WordBits
  /\ WordBits \in 1..WordBits /\ 1 \in 1..WordBits /\ WordBits \in Nat
  /\ LengthBits = 2 * ByteBits /\ WidthBits = ByteBits /\ WordBits = 4 * ByteBits
  /\ LengthBits <= (3 * ByteBits) + 1 /\ WidthBits <= (3 * ByteBits) + 1
  /\ DeltaCountBits <= (3 * ByteBits) + 1 /\ 1 <= (3 * ByteBits) + 1
  /\ LengthBits % ByteBits = 0 /\ WidthBits % ByteBits = 0 /\ WordBits % ByteBits = 0
<1>1. ByteBits \in Nat \ {0} /\ ByteBits >= 2 /\ WordBits = 4 * ByteBits /\ LengthBits = 2 * ByteBits
      /\ WidthBits = ByteBits /\ DeltaCountBits = (3 * ByteBits) \div 2
  BY ByteIs DEF LengthBits, WidthBits, DeltaCountBits
<1>2. (2 * ByteBits + 0) % ByteBits = 0 /\ (1 * ByteBits + 0) % ByteBits = 0 /\ (4 * ByteBits + 0) % ByteBits = 0
  <2>1. 0 \in 0..(ByteBits - 1) /\ 2 \in Int /\ 1 \in Int /\ 4 \in Int
    BY <1>1
  <2> QED BY <1>1, <2>1, Quotients
<1>3. DeltaCountBits \in Nat /\ DeltaCountBits >= 1 /\ DeltaCountBits <= 3 * ByteBits
  <2> DEFINE x == 3 * ByteBits
  <2>1. x \in Nat /\ x >= 6
    BY <1>1
  <2> HIDE DEF x
  <2>2. x \div 2 \in Nat /\ x \div 2 >= 1 /\ x \div 2 <= x
    BY <2>1
  <2> QED BY <1>1, <2>2 DEF x
<1> QED BY <1>1, <1>2, <1>3

(* How many bytes whole bytes are.                                           *)
LEMMA PieceBytes ==
  ASSUME NEW bits \in BitSeq, Len(bits) % ByteBits = 0
  PROVE  Len(bits) \div ByteBits \in Nat /\ Len(bits) = (Len(bits) \div ByteBits) * ByteBits
<1>1. Len(bits) \in Nat /\ ByteBits \in Nat \ {0}
  BY ByteIs DEF BitSeq
<1> DEFINE n == Len(bits)
<1>2. n \in Nat /\ n % ByteBits = 0
  BY <1>1
<1> HIDE DEF n
<1>3. n \div ByteBits \in Int /\ n = ((n \div ByteBits) * ByteBits) + (n % ByteBits)
  BY <1>1, <1>2, Division
<1> DEFINE q == n \div ByteBits
<1>4. q \in Int /\ n = q * ByteBits
  BY <1>1, <1>2, <1>3
<1> HIDE DEF q
<1>5. q \in Nat
  <2> SUFFICES ASSUME q < 0 PROVE FALSE
    BY <1>4
  <2>1. q * ByteBits < 0
    BY <1>1, <1>4
  <2> QED BY <1>2, <1>4, <2>1
<1> QED BY <1>4, <1>5 DEF q, n

BytesBits(bits) == Bits(Len(bits) \div ByteBits, LengthBits) \o bits

(* The bytes of a list, with their number before them, are a piece.          *)
LEMMA PieceOfBytes ==
  ASSUME NEW bits \in BitSeq, Len(bits) % ByteBits = 0
  PROVE  Piece(PutBytes(bits), BytesBits(bits))
<1> DEFINE n == Len(bits) \div ByteBits
<1>1. n \in Int /\ n \in Nat
  BY PieceBytes
<1> HIDE DEF n
<1>2. Piece(Put(n, LengthBits), Bits(n, LengthBits))
  BY <1>1, WidthsAre, PieceOne
<1>3. (Len(bits) * 1) % ByteBits = 0 /\ bits \in Seq(Int)
  BY DEF BitSeq
<1>4. Piece(PutAll(bits, 1), FlattenSeq(AllBits(bits, 1)))
  BY <1>3, WidthsAre, PieceAll
<1>5. Piece(PutAll(bits, 1), bits)
  BY <1>4, AllSingles
<1> QED BY <1>2, <1>5, PieceJoin, Zenon DEF PutBytes, BytesBits, n

(* Bit packing                                                                *)
PackedWidth(list) == BitLength(Largest(list))
PackedBits(list) == Bits(PackedWidth(list), ByteBits) \o FlattenSeq(AllBits(list, PackedWidth(list)))

(* The packed form of a list: a width that every member fits in, and the     *)
(* members in that width.                                                    *)
LEMMA PackedIs ==
  ASSUME NEW list \in Seq(Nat), list # <<>>, NEW m \in 1..WordBits, m < Power[WidthBits],
         \A i \in 1..Len(list) : list[i] < Power[m]
  PROVE  /\ PackedWidth(list) \in 0..m /\ PackedWidth(list) < Power[ByteBits]
         /\ \A i \in 1..Len(list) : list[i] < Power[PackedWidth(list)]
         /\ PackedBits(list) \in BitSeq /\ AllBits(list, PackedWidth(list)) \in Seq(BitSeq)
         /\ FlattenSeq(AllBits(list, PackedWidth(list))) \in BitSeq
         /\ Len(FlattenSeq(AllBits(list, PackedWidth(list)))) = Len(list) * PackedWidth(list)
         /\ BitPackingEncode(list) = PadBits(PackedBits(list))
<1> DEFINE w == PackedWidth(list)
           F == AllBits(list, w)
<1>1. list \in Seq(Int) /\ Len(list) \in Nat /\ \A i \in 1..Len(list) : list[i] \in Nat
  OBVIOUS
<1>2. PICK k \in 1..Len(list) : Largest(list) = list[k] /\ \A i \in 1..Len(list) : list[i] <= Largest(list)
  BY <1>1, ExtremesAre
<1>3. Largest(list) \in Nat /\ Largest(list) < Power[m]
  BY <1>1, <1>2
<1>4. LengthOf(Largest(list), w) /\ w \in 0..m
  <2>1. m \in 0..WordBits
    BY WidthsAre
  <2> QED BY <1>3, <2>1, LengthIs, Zenon DEF PackedWidth
<1> HIDE DEF w
<1>5. w \in Nat /\ w \in 0..WordBits /\ Power[w] > Largest(list) /\ Power[w] \in Nat
  <2>1. w \in 0..WordBits
    BY <1>4, WidthsAre
  <2> QED BY <1>4, <2>1, PowerIs DEF LengthOf
<1>6. w < Power[ByteBits]
  <2>1. Power[ByteBits] \in Nat /\ m \in Nat /\ m < Power[ByteBits]
    BY WidthsAre, PowerIs
  <2> QED BY <1>4, <2>1
<1>7. \A i \in 1..Len(list) : list[i] < Power[w]
  BY <1>1, <1>2, <1>3, <1>5
<1>8. F \in Seq(BitSeq) /\ Len(F) = Len(list) /\ \A i \in 1..Len(list) : Len(F[i]) = w
  <2>1. \A i \in 1..Len(list) : Bits(list[i], w) \in BitSeq /\ Len(Bits(list[i], w)) = w
    BY <1>1, <1>5, BitsAre
  <2>2. F = [i \in 1..Len(list) |-> Bits(list[i], w)]
    BY DEF AllBits
  <2> HIDE DEF F
  <2> QED BY <1>1, <2>1, <2>2
<1> HIDE DEF F
<1>9. SameWidth(F, w) /\ Flats(F, {0, 1})
  <2>1. SameWidth(F, w)
    <3>1. \A i \in 1..Len(F) : Len(F[i]) = w
      BY <1>8
    <3> QED BY <1>5, <1>8, <3>1, FlatOfOneWidth, Zenon
  <2> QED BY <2>1, <1>8, FlatsAre DEF BitSeq
<1>10. FlattenSeq(F) \in BitSeq /\ Len(FlattenSeq(F)) = Len(list) * w
  <2>1. Len(list) \in 0..Len(list)
    BY <1>1
  <2> QED BY <1>8, <1>9, <2>1, Zenon DEF Flats, SameWidth, BitSeq
<1>11. PackedBits(list) \in BitSeq
  <2>1. Bits(w, ByteBits) \in BitSeq
    BY <1>5, BitsAre, WidthsAre
  <2>2. PackedBits(list) = Bits(w, ByteBits) \o FlattenSeq(F)
    BY DEF PackedBits, F, w
  <2> QED BY <1>10, <2>1, <2>2, ConcatProperties, Zenon DEF BitSeq
<1>12. BitPackingEncode(list) = PadBits(PackedBits(list))
  <2>1. [i \in DOMAIN list |-> Bits(list[i], w)] = F
    BY DEF AllBits, F
  <2>2. BitPackingEncode(list) = PadBits(Bits(w, ByteBits) \o FlattenSeq([i \in DOMAIN list |-> Bits(list[i], w)]))
    BY Zenon DEF BitPackingEncode, PackedWidth, w
  <2> QED BY <2>1, <2>2, Zenon DEF PackedBits, F, w
<1> QED BY <1>4, <1>6, <1>7, <1>8, <1>10, <1>11, <1>12 DEF F, w

(* A packed list is a piece.                                                 *)
LEMMA PiecePacked ==
  ASSUME NEW list \in Seq(Nat), list # <<>>, NEW m \in 1..WordBits, m < Power[WidthBits],
         \A i \in 1..Len(list) : list[i] < Power[m]
  PROVE  Piece(PutPacked(list), BytesBits(BitPackingEncode(list)))
<1> DEFINE e == BitPackingEncode(list)
<1>1. PackedBits(list) \in BitSeq /\ e = PadBits(PackedBits(list))
  BY PackedIs, Zenon
<1>2. e \in BitSeq /\ Len(e) = Aligned(Len(PackedBits(list))) /\ Len(PackedBits(list)) \in Nat
  BY <1>1, PaddedIs DEF BitSeq
<1> HIDE DEF e
<1>3. Len(e) % ByteBits = 0
  BY <1>2, Rounded
<1>4. Piece(PutBytes(e), BytesBits(e))
  BY <1>2, <1>3, PieceOfBytes, Zenon
<1>5. PutPacked(list) = PutBytes(e)
  BY DEF PutPacked, e
<1> QED BY <1>4, <1>5 DEF e

(* An empty list, packed, is the empty piece.                                *)
LEMMA PieceNothingPacked == Piece(PutPacked(<<>>), Bits(0, LengthBits))
<1>1. Piece(Put(0, LengthBits), Bits(0, LengthBits))
  BY WidthsAre, PieceOne
<1> QED BY <1>1 DEF PutPacked

(***************************************************************************)
(* Run lengths                                                             *)
(***************************************************************************)
RunEnd(list, r) == IF r = 0 THEN 0 ELSE RunEnds(list)[r]
RunCodes(list) == [i \in DOMAIN RunLengths(list) |-> RunCode(RunLengths(list)[i])]
RunValue(list, r) == IF r % 2 = 1 THEN list[1] ELSE 1 - list[1]
RunPlaces(list) == {i \in DOMAIN list : i = Len(list) \/ list[i] # list[i + 1]}

(* The values change from one run to the next.                                *)
LEMMA ValuesChange ==
  ASSUME NEW list \in BitSeq, list # <<>>
  PROVE  \A i \in 1..Len(list) : list[i] = RunValue(list, Rk(RunPlaces(list), i - 1) + 1)
<1> DEFINE n == Len(list)
           K == RunPlaces(list)
           H == {k \in 0..n : k = 0 \/ list[k] = RunValue(list, Rk(K, k - 1) + 1)}
<1>1. n \in Nat /\ n >= 1 /\ DOMAIN list = 1..n /\ \A i \in 1..n : list[i] \in {0, 1}
  BY DEF BitSeq
<1> HIDE DEF n
<1>2. \A i \in 1..(n - 1) : i \in K <=> list[i] # list[i + 1]
  <2> SUFFICES ASSUME NEW i \in 1..(n - 1) PROVE i \in K <=> list[i] # list[i + 1]
    OBVIOUS
  <2>1. i \in 1..n /\ i # n
    BY <1>1
  <2>2. K = {k \in 1..n : k = n \/ list[k] # list[k + 1]}
    BY <1>1 DEF RunPlaces, n
  <2> HIDE DEF K
  <2> QED BY <2>1, <2>2
<1> HIDE DEF K, n
<1>3. Ranks(K, n)
  BY <1>1, RanksAre, Zenon
<1>4. /\ Rk(K, 0) = 0
      /\ \A k \in 0..n : Rk(K, k) \in Nat
      /\ \A k \in 1..n : Rk(K, k) = Rk(K, k - 1) + (IF k \in K THEN 1 ELSE 0)
  BY <1>3 DEF Ranks
<1>5. 0 \in H
  BY <1>1
<1>6. ASSUME NEW k \in 1..n, k - 1 \in H PROVE k \in H
  <2>1. CASE k = 1
    <3>1. Rk(K, k - 1) + 1 = 1
      BY <1>4, <2>1
    <3>2. RunValue(list, 1) = list[1]
      BY DEF RunValue
    <3>3. k \in 0..n
      BY <1>1
    <3> QED BY <2>1, <3>1, <3>2, <3>3
  <2>2. CASE k # 1
    <3> DEFINE i == k - 1
               q == Rk(K, i - 1)
    <3>1. i \in 1..(n - 1) /\ i \in 1..n /\ i # 0 /\ i - 1 \in 0..n /\ i + 1 = k /\ k \in 0..n
      BY <1>1, <2>2
    <3>2. list[i] = RunValue(list, q + 1) /\ q \in Nat
      BY <1>4, <1>6, <3>1
    <3>3. Rk(K, i) = q + (IF i \in K THEN 1 ELSE 0)
      BY <1>4, <3>1
    <3>4. i \in K <=> list[i] # list[k]
      BY <1>2, <3>1
    <3>5. list[i] \in {0, 1} /\ list[k] \in {0, 1} /\ list[1] \in {0, 1}
      BY <1>1, <3>1
    <3> HIDE DEF i, q
    <3> DEFINE a == list[i]
               b == list[k]
               v == list[1]
    <3>6. a \in {0, 1} /\ b \in {0, 1} /\ v \in {0, 1}
      BY <3>5
    <3>7. a = IF (q + 1) % 2 = 1 THEN v ELSE 1 - v
      BY <3>2 DEF RunValue
    <3>8. b = IF (Rk(K, i) + 1) % 2 = 1 THEN v ELSE 1 - v
      <4>1. CASE i \in K
        <5>1. a # b /\ Rk(K, i) = q + 1
          BY <3>3, <3>4, <4>1
        <5> HIDE DEF a, b, v
        <5>2. (q + 1) % 2 = 1 <=> ((q + 1) + 1) % 2 # 1
          BY <3>2
        <5> QED BY <3>6, <3>7, <5>1, <5>2
      <4>2. CASE i \notin K
        <5>1. a = b /\ Rk(K, i) = q
          BY <3>2, <3>3, <3>4, <4>2
        <5> HIDE DEF a, b, v
        <5> QED BY <3>7, <5>1
      <4> QED BY <4>1, <4>2
    <3>9. list[k] = RunValue(list, Rk(K, k - 1) + 1)
      BY <3>1, <3>8 DEF RunValue, i
    <3> QED BY <3>1, <3>9
  <2> QED BY <2>1, <2>2
<1>7. \A k \in 0..n : k \in H
  <2> HIDE DEF H
  <2> QED BY <1>1, <1>5, <1>6, CountUp, Zenon
<1>8. \A k \in 1..n : list[k] = RunValue(list, Rk(K, k - 1) + 1)
  <2> SUFFICES ASSUME NEW k \in 1..n PROVE list[k] = RunValue(list, Rk(K, k - 1) + 1)
    OBVIOUS
  <2>1. k \in 0..n /\ k # 0
    BY <1>1
  <2> QED BY <1>7, <2>1
<1> QED BY <1>8 DEF n, K

RunsOf(list) ==
  LET n == Len(list)
      m == Len(RunLengths(list))
  IN  /\ m \in 1..n /\ m = Len(RunEnds(list)) /\ RunLengths(list) \in Seq(1..n)
      /\ RunEnd(list, 0) = 0 /\ RunEnd(list, m) = n
      /\ \A r \in 1..m : /\ RunEnd(list, r) \in 1..n /\ RunEnd(list, r - 1) \in 0..n
                         /\ RunEnd(list, r) = RunEnd(list, r - 1) + RunLengths(list)[r]
                         /\ RunLengths(list)[r] \in 1..n
      /\ \A r \in 1..m : \A i \in (RunEnd(list, r - 1) + 1)..RunEnd(list, r) : list[i] = RunValue(list, r)

(* The runs of a list of bits: where each ends, and that it has one value    *)
(* and another one than the run before.                                      *)
LEMMA RunsAre ==
  ASSUME NEW list \in BitSeq, list # <<>>
  PROVE  RunsOf(list)
<1> DEFINE n == Len(list)
           K == RunPlaces(list)
           ends == RunEnds(list)
           m == Rk(K, n)
           len == RunLengths(list)
           E(r) == RunEnd(list, r)
<1>1. n \in Nat /\ n >= 1 /\ n \in 1..n /\ n \in 0..n /\ n \in K /\ DOMAIN list = 1..n
  BY DEF BitSeq, RunPlaces
<1>2. ends = InOrder(K, n)
  BY DEF RunEnds, RunPlaces
<1> HIDE DEF K, n
<1>3. /\ ends \in Seq(1..n) /\ Len(ends) = m
      /\ \A k \in 1..n : k \in K => Rk(K, k) \in 1..m /\ ends[Rk(K, k)] = k
      /\ \A j \in 1..m : ends[j] \in K \cap (1..n) /\ Rk(K, ends[j]) = j
  BY <1>1, <1>2, InOrderAre
<1>4. \A k \in 0..n : \A i \in 0..k :
        /\ Rk(K, i) <= Rk(K, k)
        /\ (\E j \in (i + 1)..k : j \in K) => Rk(K, i) < Rk(K, k)
  BY <1>1, RanksGrow
<1>5. /\ Rk(K, 0) = 0 /\ \A k \in 0..n : Rk(K, k) \in Nat /\ Rk(K, k) <= k
  <2>1. Ranks(K, n)
    BY <1>1, RanksAre, Zenon
  <2> QED BY <2>1, Zenon DEF Ranks
<1>6. m \in 1..n /\ ends[m] = n
  <2>1. m \in 1..m /\ ends[m] = n
    BY <1>1, <1>3
  <2>2. m \in Nat /\ m <= n
    BY <1>1, <1>5
  <2> QED BY <2>1, <2>2
<1>7. len = [i \in 1..m |-> ends[i] - (IF i = 1 THEN 0 ELSE ends[i - 1])]
  <2>1. DOMAIN ends = 1..m
    BY <1>3, <1>6
  <2> HIDE DEF ends, m
  <2> QED BY <2>1 DEF RunLengths, ends
<1> HIDE DEF ends, m, len
<1>8. E(0) = 0 /\ \A r \in 1..m : E(r) = ends[r] /\ E(r) \in 1..n /\ E(r) \in K
  BY <1>3, <1>6 DEF RunEnd, ends
<1> HIDE DEF E
<1>9. \A r \in 1..m : E(r - 1) \in 0..n /\ Rk(K, E(r - 1)) = r - 1 /\ Rk(K, E(r)) = r
  <2> SUFFICES ASSUME NEW r \in 1..m PROVE E(r - 1) \in 0..n /\ Rk(K, E(r - 1)) = r - 1 /\ Rk(K, E(r)) = r
    OBVIOUS
  <2>1. Rk(K, E(r)) = r
    BY <1>3, <1>8
  <2>2. CASE r = 1
    BY <1>1, <1>5, <1>8, <2>1, <2>2
  <2>3. CASE r # 1
    <3>1. r - 1 \in 1..m
      BY <1>6, <2>3
    <3> QED BY <1>3, <1>8, <2>1, <3>1
  <2> QED BY <2>2, <2>3
<1>10. ASSUME NEW r \in 1..m PROVE E(r - 1) < E(r)
  <2> SUFFICES ASSUME E(r) <= E(r - 1) PROVE FALSE
    BY <1>8, <1>9
  <2>1. E(r - 1) \in 0..n /\ E(r) \in 0..E(r - 1)
    BY <1>8, <1>9
  <2>2. Rk(K, E(r)) <= Rk(K, E(r - 1))
    BY <1>4, <2>1
  <2>3. r <= r - 1
    BY <1>9, <2>2
  <2> QED BY <2>3, <1>6
<1>11. \A r \in 1..m : len[r] = E(r) - E(r - 1)
  <2> SUFFICES ASSUME NEW r \in 1..m PROVE len[r] = E(r) - E(r - 1)
    OBVIOUS
  <2>1. CASE r = 1
    BY <1>7, <1>8, <2>1
  <2>2. CASE r # 1
    <3>1. r - 1 \in 1..m
      BY <1>6, <2>2
    <3> QED BY <1>7, <1>8, <2>2, <3>1
  <2> QED BY <2>1, <2>2
<1>12. \A r \in 1..m : len[r] \in 1..n /\ E(r) = E(r - 1) + len[r]
  <2> SUFFICES ASSUME NEW r \in 1..m PROVE len[r] \in 1..n /\ E(r) = E(r - 1) + len[r]
    OBVIOUS
  <2>1. E(r - 1) < E(r) /\ E(r - 1) \in 0..n /\ E(r) \in 1..n /\ len[r] = E(r) - E(r - 1)
    BY <1>8, <1>9, <1>10, <1>11
  <2> QED BY <1>1, <2>1
<1>13. len \in Seq(1..n) /\ Len(len) = m
  <2>1. m \in Nat /\ DOMAIN len = 1..m /\ len = [i \in 1..m |-> len[i]]
    BY <1>6, <1>7
  <2>2. \A i \in 1..m : len[i] \in 1..n
    BY <1>12, Zenon
  <2>3. len \in [1..m -> 1..n]
    BY <2>1, <2>2, Zenon
  <2> QED BY <2>1, <2>3
<1>14. ASSUME NEW r \in 1..m, NEW i \in (E(r - 1) + 1)..E(r) PROVE list[i] = RunValue(list, r)
  <2>0. E(r - 1) \in 0..n /\ E(r) \in 1..n
    BY <1>8, <1>9, Zenon
  <2> DEFINE e == E(r - 1)
             f == E(r)
  <2>1. E(r - 1) \in 0..n /\ E(r) \in 1..n /\ i \in 1..n /\ i - 1 \in 0..n
    <3>1. e \in 0..n /\ f \in 1..n /\ i \in (e + 1)..f
      BY <2>0, <1>14
    <3> HIDE DEF e, f
    <3>2. i \in 1..n /\ i - 1 \in 0..n
      BY <1>1, <3>1
    <3> QED BY <2>0, <3>2
  <2>2. E(r - 1) \in 0..(i - 1) /\ i - 1 \in 0..E(r) /\ E(r) \in 0..n /\ E(r) \in ((i - 1) + 1)..E(r)
    BY <2>1
  <2>3. Rk(K, E(r - 1)) <= Rk(K, i - 1)
    BY <1>4, <2>1, <2>2
  <2>4. Rk(K, i - 1) < Rk(K, E(r))
    BY <1>4, <1>8, <2>2
  <2>5. Rk(K, i - 1) \in Nat
    BY <1>5, <2>1
  <2>6. Rk(K, i - 1) + 1 = r
    <3>1. r \in Nat /\ r - 1 <= Rk(K, i - 1) /\ Rk(K, i - 1) < r
      <4>1. Rk(K, E(r - 1)) = r - 1 /\ Rk(K, E(r)) = r
        BY <1>9, Zenon
      <4>2. r \in Nat
        BY <1>6
      <4> QED BY <2>3, <2>4, <4>1, <4>2, Zenon
    <3> QED BY <2>5, <3>1
  <2>7. list[i] = RunValue(list, Rk(K, i - 1) + 1)
    BY <2>1, ValuesChange DEF n, K
  <2> QED BY <2>6, <2>7
<1>15. Len(ends) = m /\ E(m) = n
  <2>1. m \in 1..m
    BY <1>6
  <2> QED BY <1>3, <1>6, <1>8, <2>1
<1> QED BY <1>6, <1>8, <1>9, <1>12, <1>13, <1>14, <1>15 DEF RunsOf, n, len, ends, E

(* The code of a run.                                                         *)
CodeWidth(length) == Max({BitLength(length), 2})

(* The code of a run: ones, a zero, and the length in as many bits as the    *)
(* ones and the zero say.                                                    *)
LEMMA RunCodeIs ==
  ASSUME NEW length \in Nat, length > 0, length < Power[WordBits - 1]
  PROVE  /\ CodeWidth(length) \in 2..(WordBits - 1) /\ length < Power[CodeWidth(length)]
         /\ RunCode(length) = [i \in 1..(CodeWidth(length) - 2) |-> 1] \o <<0>> \o Bits(length, CodeWidth(length))
         /\ [i \in 1..(CodeWidth(length) - 2) |-> 1] \in BitSeq
         /\ Len([i \in 1..(CodeWidth(length) - 2) |-> 1]) = CodeWidth(length) - 2
         /\ Bits(length, CodeWidth(length)) \in BitSeq
         /\ RunCode(length) \in BitSeq
         /\ Len(RunCode(length)) = (2 * CodeWidth(length)) - 1
<1> DEFINE b == BitLength(length)
           n == CodeWidth(length)
           ones == [i \in 1..(n - 2) |-> 1]
           low == Bits(length, n)
<1>1. WordBits - 1 \in 0..WordBits /\ WordBits >= 8 /\ WordBits \in Nat
  BY ByteIs
<1>2. b \in 0..(WordBits - 1) /\ LengthOf(length, b)
  BY <1>1, LengthIs
<1> HIDE DEF b
<1>3. n \in {b, 2} /\ n >= b /\ n >= 2
  <2>1. b \in Int /\ 2 \in Int
    BY <1>1, <1>2
  <2> QED BY <2>1, LargerOf DEF CodeWidth, b
<1> HIDE DEF n
<1>4. n \in 2..(WordBits - 1) /\ n \in 0..WordBits
  BY <1>1, <1>2, <1>3
<1>5. length < Power[n]
  <2>1. b \in 0..n
    BY <1>2, <1>3, <1>4
  <2>2. Power[b] <= Power[n] /\ Power[b] \in Nat /\ Power[n] \in Nat
    BY <1>4, <2>1, PowerGrows
  <2>3. Power[b] > length
    BY <1>2 DEF LengthOf
  <2> QED BY <2>2, <2>3
<1>6. ones \in BitSeq /\ Len(ones) = n - 2
  <2>1. n - 2 \in Nat
    BY <1>4
  <2> QED BY <2>1 DEF BitSeq
<1>7. low \in BitSeq /\ Len(low) = n
  BY <1>4, BitsAre
<1> HIDE DEF ones, low
<1>8. <<0>> \in BitSeq /\ Len(<<0>>) = 1
  BY DEF BitSeq
<1> DEFINE y == <<0>>
<1>9. ones \o y \in BitSeq /\ Len(ones \o y) = Len(ones) + Len(y)
  <2> HIDE DEF y
  <2>1. y \in BitSeq
    BY <1>8 DEF y
  <2> QED BY <1>6, <2>1, ConcatProperties, Zenon DEF BitSeq
<1>10. (ones \o <<0>>) \o low \in BitSeq /\ Len((ones \o <<0>>) \o low) = ((n - 2) + 1) + n
  <2> HIDE DEF y
  <2>1. (ones \o y) \o low \in BitSeq /\ Len((ones \o y) \o low) = Len(ones \o y) + Len(low)
    BY <1>7, <1>9, ConcatProperties, Zenon DEF BitSeq
  <2>2. Len(y) = 1
    BY <1>8 DEF y
  <2>3. (ones \o y) \o low \in BitSeq /\ Len((ones \o y) \o low) = ((n - 2) + 1) + n
    BY <1>6, <1>7, <1>9, <2>1, <2>2, Zenon
  <2> QED BY <2>3 DEF y
<1>11. RunCode(length) = (ones \o <<0>>) \o low
  BY DEF RunCode, ones, low, n, CodeWidth
<1>12. ((n - 2) + 1) + n = (2 * n) - 1
  BY <1>4
<1>13. Len(RunCode(length)) = (2 * n) - 1
  BY <1>10, <1>11, <1>12
<1> QED BY <1>4, <1>5, <1>6, <1>7, <1>10, <1>11, <1>13 DEF ones, low, n

RunBits(list) == <<list[1]>> \o FlattenSeq(RunCodes(list))

(* Run by run, the codes of a list.                                          *)
LEMMA RleIs ==
  ASSUME NEW list \in BitSeq, list # <<>>, Len(list) < Power[WordBits - 1]
  PROVE  /\ RunsOf(list) /\ RunCodes(list) \in Seq(BitSeq) /\ Len(RunCodes(list)) = Len(RunLengths(list))
         /\ \A r \in 1..Len(RunLengths(list)) :
              /\ RunLengths(list)[r] \in Nat /\ RunLengths(list)[r] > 0
              /\ RunLengths(list)[r] < Power[WordBits - 1]
              /\ RunCodes(list)[r] = RunCode(RunLengths(list)[r])
         /\ FlattenSeq(RunCodes(list)) \in BitSeq /\ RunBits(list) \in BitSeq
         /\ RleEncode(list).bits = PadBits(RunBits(list)) /\ RleEncode(list).runs = Len(RunLengths(list))
<1> DEFINE len == RunLengths(list)
           m == Len(len)
           C == RunCodes(list)
           n == Len(list)
           P == Power[WordBits - 1]
<1>1. RunsOf(list)
  BY RunsAre
<1>2. n \in Nat /\ n >= 1 /\ n < P /\ P \in Nat
  <2>1. WordBits - 1 \in 0..WordBits
    BY ByteIs
  <2> QED BY <2>1, PowerIs DEF BitSeq
<1>3. m \in 1..n /\ len \in Seq(1..n) /\ \A r \in 1..m : len[r] \in 1..n
  BY <1>1, Zenon DEF RunsOf
<1> HIDE DEF m, n, P, len
<1>4. \A r \in 1..m : len[r] \in Nat /\ len[r] > 0 /\ len[r] < P
  BY <1>2, <1>3
<1>5. \A r \in 1..m : RunCode(len[r]) \in BitSeq
  BY <1>4, RunCodeIs DEF P
<1>6. C = [r \in 1..m |-> RunCode(len[r])]
  <2>1. DOMAIN len = 1..m
    BY <1>3 DEF m
  <2> QED BY <2>1 DEF RunCodes, len
<1> HIDE DEF C
<1>7. C \in Seq(BitSeq) /\ Len(C) = m /\ \A r \in 1..m : C[r] = RunCode(len[r])
  <2>1. m \in Nat
    BY <1>2, <1>3
  <2> QED BY <1>5, <1>6, <2>1
<1>8. FlattenSeq(C) \in BitSeq
  <2>1. Flats(C, {0, 1}) /\ Len(C) \in 0..Len(C)
    BY <1>7, FlatsAre DEF BitSeq
  <2> QED BY <2>1, Zenon DEF Flats, BitSeq
<1>9. RunBits(list) \in BitSeq
  <2>1. <<list[1]>> \in BitSeq
    BY <1>2 DEF BitSeq, n
  <2> QED BY <1>8, <2>1, ConcatProperties, Zenon DEF RunBits, BitSeq, C
<1>10. RleEncode(list) = [bits |-> PadBits(RunBits(list)), runs |-> m]
  BY Zenon DEF RleEncode, RunBits, RunCodes, m, len
<1> QED BY <1>1, <1>4, <1>7, <1>8, <1>9, <1>10 DEF C, m, len, P

(***************************************************************************)
(* ts2diff                                                                 *)
(***************************************************************************)
Stepped(data, m) ==
  /\ data \in Seq(Int)
  /\ \A i \in 1..Len(data) : data[i] \in Words
  /\ \A i \in 1..(Len(data) - 1) : data[i + 1] - data[i] \in Words
  /\ \A i, j \in 1..(Len(data) - 1) : (data[i + 1] - data[i]) - (data[j + 1] - data[j]) < Power[m]

LeastStep(data) == Smallest(Deltas(data))
StepWidth(data) == BitLength(Max({Largest(Deltas(data)) - Smallest(Deltas(data)), 1}))
Above(data) == MapSeq(LAMBDA d : d - Smallest(Deltas(data)), Deltas(data))

(* The differences of a list.                                                *)
LEMMA DeltasAre ==
  ASSUME NEW data \in Seq(Int), data # <<>>
  PROVE  /\ Deltas(data) \in Seq(Int) /\ Len(Deltas(data)) = Len(data) - 1
         /\ \A i \in 1..(Len(data) - 1) : Deltas(data)[i] = data[i + 1] - data[i]
<1> DEFINE n == Len(data)
           d == Deltas(data)
<1>1. n \in Nat /\ n >= 1 /\ \A i \in 1..n : data[i] \in Int
  OBVIOUS
<1> HIDE DEF n
<1>2. Max({n - 1, 0}) = n - 1
  <2>1. n - 1 \in Int /\ 0 \in Int
    BY <1>1
  <2>2. Max({n - 1, 0}) \in {n - 1, 0} /\ Max({n - 1, 0}) >= n - 1 /\ Max({n - 1, 0}) >= 0
    BY <2>1, LargerOf
  <2> QED BY <1>1, <2>2
<1>3. d = [i \in 1..(n - 1) |-> data[i + 1] - data[i]]
  BY <1>2 DEF Deltas, n
<1> HIDE DEF d
<1>4. \A i \in 1..(n - 1) : data[i + 1] - data[i] \in Int
  BY <1>1
<1>5. d \in Seq(Int) /\ Len(d) = n - 1
  BY <1>1, <1>3, <1>4
<1> QED BY <1>3, <1>5 DEF n, d

BlockRead(data, m) ==
  /\ Deltas(data) \in Seq(Int) /\ Len(Deltas(data)) = Len(data) - 1
  /\ Len(Deltas(data)) \in 1..(Power[DeltaCountBits] - 1)
  /\ LeastStep(data) \in Words /\ LeastStep(data) \in Int
  /\ StepWidth(data) \in 1..m /\ StepWidth(data) < Power[WidthBits]
  /\ Above(data) \in Seq(Nat) /\ Len(Above(data)) = Len(data) - 1
  /\ \A i \in 1..(Len(data) - 1) : /\ Deltas(data)[i] = data[i + 1] - data[i]
                                   /\ Above(data)[i] = Deltas(data)[i] - LeastStep(data)
                                   /\ Above(data)[i] < Power[StepWidth(data)]

(* The head and the deltas of a list that is stepped: each fits in the width *)
(* written for it.                                                           *)
LEMMA BlockReads ==
  ASSUME NEW data, NEW m \in 1..WordBits, Stepped(data, m), Len(data) \in 2..TsBlock, m < Power[WidthBits]
  PROVE  BlockRead(data, m)
<1> DEFINE n == Len(data)
           d == Deltas(data)
           least == Smallest(d)
           most == Largest(d)
           w == StepWidth(data)
           A == Above(data)
<1>1. /\ data \in Seq(Int) /\ n \in Nat /\ n >= 2 /\ data # <<>>
      /\ \A i \in 1..(n - 1) : data[i + 1] - data[i] \in Words
      /\ \A i, j \in 1..(n - 1) : (data[i + 1] - data[i]) - (data[j + 1] - data[j]) < Power[m]
  BY DEF Stepped
<1>2. TsBlock \in Nat /\ TsBlock <= Power[DeltaCountBits] /\ Power[DeltaCountBits] \in Nat /\ n <= TsBlock
  <2>1. DeltaCountBits \in 0..WordBits
    BY WidthsAre
  <2> QED BY <2>1, PowerIs, TsBlockAssumption
<1> HIDE DEF n
<1>3. d \in Seq(Int) /\ Len(d) = n - 1 /\ \A i \in 1..(n - 1) : d[i] = data[i + 1] - data[i]
  BY <1>1, DeltasAre DEF n
<1>4. d # <<>> /\ n - 1 \in Nat /\ \A i \in 1..(n - 1) : d[i] \in Int
  BY <1>1, <1>3
<1> HIDE DEF d
<1>5. /\ \E k \in 1..(n - 1) : most = d[k]
      /\ \E k \in 1..(n - 1) : least = d[k]
      /\ \A i \in 1..(n - 1) : least <= d[i] /\ d[i] <= most
  BY <1>3, <1>4, ExtremesAre
<1> HIDE DEF least, most
<1>6. least \in Words /\ least \in Int /\ most \in Int
  BY <1>1, <1>3, <1>4, <1>5
<1>7. most - least < Power[m] /\ most - least \in Nat
  <2>1. PICK k \in 1..(n - 1) : most = d[k]
    BY <1>5
  <2>2. PICK j \in 1..(n - 1) : least = d[j]
    BY <1>5
  <2>3. most = data[k + 1] - data[k] /\ least = data[j + 1] - data[j]
    BY <1>3, <2>1, <2>2
  <2>4. most - least < Power[m]
    BY <1>1, <2>3
  <2>5. least <= most
    BY <1>5, <2>1
  <2> QED BY <1>6, <2>4, <2>5
<1>8. m \in 0..WordBits /\ m \in Nat /\ 1 < Power[m] /\ Power[m] \in Nat /\ 1 \in 0..m
  <2>1. m \in 0..WordBits /\ 1 \in 0..m /\ 1 \in 1..WordBits /\ 1 - 1 = 0 /\ m \in Nat
    BY WidthsAre
  <2>2. Power[1] <= Power[m] /\ Power[m] \in Nat
    BY <2>1, PowerGrows
  <2>3. Power[1] = 2
    BY <2>1, PowerIs
  <2> QED BY <2>1, <2>2, <2>3
<1> DEFINE wide == Max({most - least, 1})
<1>9. wide \in Nat /\ wide > 0 /\ wide < Power[m] /\ wide >= most - least
  <2>1. most - least \in Int /\ 1 \in Int
    BY <1>6
  <2>2. wide \in {most - least, 1} /\ wide >= most - least /\ wide >= 1
    BY <2>1, LargerOf
  <2> QED BY <1>7, <1>8, <2>2
<1>10. w = BitLength(wide)
  BY DEF StepWidth, d, least, most
<1> HIDE DEF wide, w
<1>11. w \in 1..m /\ LengthOf(wide, w)
  BY <1>8, <1>9, <1>10, LengthIs, Zenon
<1>12. w < Power[WidthBits]
  <2>1. WidthBits \in 0..WordBits
    BY WidthsAre
  <2>2. Power[WidthBits] \in Nat
    BY <2>1, PowerIs
  <2> QED BY <1>8, <1>11, <2>2
<1>13. Power[w] > wide /\ Power[w] \in Nat
  BY <1>11, PowerIs DEF LengthOf
<1>14. DOMAIN d = 1..(n - 1)
  BY <1>3, <1>4
<1>15. A = [i \in 1..(n - 1) |-> d[i] - least]
  BY <1>14 DEF Above, MapSeq, d, least
<1> HIDE DEF A
<1>16. \A i \in 1..(n - 1) : d[i] - least \in Nat /\ d[i] - least < Power[w]
  <2> SUFFICES ASSUME NEW i \in 1..(n - 1) PROVE d[i] - least \in Nat /\ d[i] - least < Power[w]
    OBVIOUS
  <2>1. least <= d[i] /\ d[i] <= most /\ d[i] \in Int
    BY <1>4, <1>5
  <2> QED BY <1>6, <1>9, <1>13, <2>1
<1>17. A \in Seq(Nat) /\ Len(A) = n - 1
  BY <1>4, <1>15, <1>16
<1>18. n - 1 \in 1..(Power[DeltaCountBits] - 1)
  BY <1>1, <1>2
<1>19. least = LeastStep(data)
  BY DEF least, d, LeastStep
<1> QED BY <1>3, <1>6, <1>11, <1>12, <1>15, <1>16, <1>17, <1>18, <1>19 DEF BlockRead, n, d, w, A

BlockHead(data) ==
  ((Bits(data[1], WordBits) \o Bits(LeastStep(data), WordBits)) \o Bits(Len(Deltas(data)), DeltaCountBits))
    \o Bits(StepWidth(data), WidthBits)
BlockBits(data) == BlockHead(data) \o FlattenSeq(AllBits(Above(data), StepWidth(data)))

(* One narrow field.                                                         *)
LEMMA NarrowOne ==
  ASSUME NEW n \in Int, NEW w \in 1..WordBits, w <= (3 * ByteBits) + 1
  PROVE  /\ Put(n, w) \in Seq(CallSet) /\ Plain(Put(n, w)) /\ Narrow(Put(n, w))
         /\ Laid(Put(n, w)) = Bits(n, w)
<1>1. /\ Put(n, w) \in Seq(CallSet) /\ Plain(Put(n, w)) /\ Len(Put(n, w)) = 1 /\ Put(n, w)[1].w = w
      /\ Laid(Put(n, w)) = Bits(n, w)
  BY OnePut
<1> DEFINE c == Put(n, w)
           most == (3 * ByteBits) + 1
<1>2. Len(c) = 1 /\ c[1].w = w /\ w <= most
  BY <1>1
<1> HIDE DEF c, most
<1>3. \A k \in 1..Len(c) : c[k].w <= most
  BY <1>2
<1>4. Narrow(c)
  BY <1>3 DEF Narrow, most
<1> QED BY <1>1, <1>4 DEF c

(* A block of a list of steps is a piece.                                    *)
LEMMA PieceOfBlock ==
  ASSUME NEW data, NEW m \in 1..WordBits, Stepped(data, m), Len(data) \in 2..TsBlock,
         m < Power[WidthBits], m <= (3 * ByteBits) + 1
  PROVE  Piece(EncodeTsBlock(data), PadBits(BlockBits(data)))
<1> DEFINE d == Deltas(data)
           w == StepWidth(data)
           A == Above(data)
           least == LeastStep(data)
           one == Put(data[1], WordBits)
           two == Put(least, WordBits)
           three == Put(Len(d), DeltaCountBits)
           four == Put(w, WidthBits)
           five == PutAll(A, w)
<1>1. /\ Len(d) \in Int /\ least \in Int /\ w \in 1..m /\ A \in Seq(Nat) /\ data[1] \in Int
  <2>1. BlockRead(data, m)
    BY BlockReads
  <2>2. Len(d) \in Int /\ least \in Int /\ w \in 1..m /\ A \in Seq(Nat)
    <3>1. DeltaCountBits \in 0..WordBits
      BY WidthsAre
    <3>2. Power[DeltaCountBits] \in Nat
      BY <3>1, PowerIs
    <3> QED BY <2>1, <3>2 DEF BlockRead
  <2>3. data \in Seq(Int) /\ 1 \in 1..Len(data)
    BY DEF Stepped
  <2> QED BY <2>2, <2>3
<1>2. w \in 1..WordBits /\ w <= (3 * ByteBits) + 1 /\ w \in Int /\ A \in Seq(Int)
  <2> HIDE DEF w
  <2>1. m \in Nat /\ m <= WordBits /\ WordBits \in Nat /\ ByteBits \in Nat
    BY WidthsAre, ByteIs
  <2>2. w \in 1..WordBits /\ w <= (3 * ByteBits) + 1 /\ w \in Int
    BY <1>1, <2>1
  <2> QED BY <1>1, <2>2
<1> HIDE DEF d, w, A, least
<1>3. Piece(one, Bits(data[1], WordBits)) /\ Piece(two, Bits(least, WordBits))
  BY <1>1, WidthsAre, PieceOne
<1>4. Part(one \o two, Bits(data[1], WordBits) \o Bits(least, WordBits))
  BY <1>3, PieceJoin, PartOfPiece, Zenon
<1>5. /\ three \in Seq(CallSet) /\ Plain(three) /\ Narrow(three)
      /\ Laid(three) = Bits(Len(d), DeltaCountBits)
  BY <1>1, WidthsAre, NarrowOne
<1>6. /\ four \in Seq(CallSet) /\ Plain(four) /\ Narrow(four)
      /\ Laid(four) = Bits(w, WidthBits)
  BY <1>2, WidthsAre, NarrowOne
<1>7. /\ five \in Seq(CallSet) /\ Plain(five) /\ Narrow(five)
      /\ Laid(five) = FlattenSeq(AllBits(A, w))
  BY <1>2, AllPut, AllNarrow
<1> HIDE DEF one, two, three, four, five
<1>8. Part((one \o two) \o three,
           (Bits(data[1], WordBits) \o Bits(least, WordBits)) \o Bits(Len(d), DeltaCountBits))
  BY <1>4, <1>5, PartMore, Zenon
<1>9. Part(((one \o two) \o three) \o four, BlockHead(data))
  BY <1>6, <1>8, PartMore, Zenon DEF BlockHead, d, w, least
<1>10. Part((((one \o two) \o three) \o four) \o five, BlockBits(data))
  BY <1>7, <1>9, PartMore, Zenon DEF BlockBits, A, w
<1>11. Piece(((((one \o two) \o three) \o four) \o five) \o PackMark, PadBits(BlockBits(data)))
  BY <1>10, PartMarked, Zenon
<1>12. EncodeTsBlock(data) = ((((one \o two) \o three) \o four) \o five) \o PackMark
  <2>1. Len(data) # 1
    <3>1. DeltaCountBits \in 0..WordBits
      BY WidthsAre
    <3>2. TsBlock \in Nat
      BY <3>1, PowerIs, TsBlockAssumption
    <3> DEFINE n == Len(data)
    <3>3. n \in 2..TsBlock
      OBVIOUS
    <3> HIDE DEF n
    <3>4. n # 1
      BY <3>2, <3>3
    <3> QED BY <3>4 DEF n
  <2>2. EncodeTsBlock(data) = EncodeDeltas(data)
    BY <2>1, Zenon DEF EncodeTsBlock
  <2>3. EncodeDeltas(data) = ((((one \o two) \o three) \o four) \o five) \o PackMark
    BY DEF EncodeDeltas, one, two, three, four, five, d, w, A, least, StepWidth, LeastStep, Above, MapSeq
  <2> QED BY <2>2, <2>3, Zenon
<1> QED BY <1>11, <1>12, Zenon

(* Products of ordered factors are ordered.                                  *)
LEMMA ProductGrows ==
  ASSUME NEW a \in Nat, NEW b \in Nat, NEW t \in Nat, a <= b
  PROVE  a * t <= b * t /\ a * t \in Nat /\ b * t \in Nat
<1>1. (b - a) * t \in Nat /\ b - a \in Nat
  OBVIOUS
<1>2. b * t = (a * t) + ((b - a) * t)
  OBVIOUS
<1>3. a * t \in Nat /\ b * t \in Nat
  OBVIOUS
<1> QED BY <1>1, <1>2, <1>3

SliceOf(s, a, b, t) ==
  t \in Seq(Int) /\ Len(t) = b - a /\ \A i \in 1..(b - a) : t[i] = s[a + i] /\ a + i \in 1..Len(s)

(* A slice of a list, by its members, and joined to what is before it.       *)
LEMMA SliceIs ==
  ASSUME NEW s \in Seq(Int), NEW a \in Nat, NEW b \in Nat, a <= b, b <= Len(s)
  PROVE  SliceOf(s, a, b, SubSeq(s, a + 1, b)) /\ SubSeq(s, 1, a) \o SubSeq(s, a + 1, b) = SubSeq(s, 1, b)
<1> DEFINE n == Len(s)
           t == SubSeq(s, a + 1, b)
           u == SubSeq(s, 1, a)
           v == SubSeq(s, 1, b)
<1>1. n \in Nat /\ b <= n /\ \A i \in 1..n : s[i] \in Int
  OBVIOUS
<1>2. t \in Seq(Int) /\ Len(t) = b - a /\ \A i \in 1..(b - a) : t[i] = s[a + i]
  <2>1. (a + 1)..b \subseteq 1..n
    BY <1>1
  <2>2. t = [i \in 1..(b - a) |-> s[a + i]]
    <3>1. Len(t) = IF a + 1 <= b THEN (b - (a + 1)) + 1 ELSE 0
      BY <2>1
    <3>2. Len(t) = b - a
      BY <3>1
    <3> QED BY <2>1, <3>2
  <2>3. \A i \in 1..(b - a) : s[a + i] \in Int
    BY <1>1
  <2> HIDE DEF t
  <2> QED BY <2>2, <2>3
<1>3. u \in Seq(Int) /\ Len(u) = a /\ \A i \in 1..a : u[i] = s[i]
  BY PrefixIs
<1>4. v \in Seq(Int) /\ Len(v) = b /\ \A i \in 1..b : v[i] = s[i]
  BY PrefixIs
<1>5. \A i \in 1..(b - a) : a + i \in 1..Len(s)
  BY <1>1
<1> HIDE DEF t, u, v, n
<1>6. SliceOf(s, a, b, t)
  BY <1>2, <1>5 DEF SliceOf
<1>7. u \o t = v
  <2>0. /\ Len(u \o t) = Len(u) + Len(t) /\ u \o t \in Seq(Int)
        /\ \A i \in 1..Len(u) : (u \o t)[i] = u[i]
        /\ \A i \in 1..Len(t) : (u \o t)[Len(u) + i] = t[i]
    <3>1. u \in Seq(Int) /\ t \in Seq(Int)
      BY <1>2, <1>3, Zenon
    <3> QED BY <3>1
  <2>1. Len(u \o t) = b /\ u \o t \in Seq(Int)
    <3>1. Len(u \o t) = a + (b - a)
      BY <1>2, <1>3, <2>0, Zenon
    <3> QED BY <2>0, <3>1
  <2>2. ASSUME NEW i \in 1..b PROVE (u \o t)[i] = v[i]
    <3>1. v[i] = s[i]
      BY <1>4
    <3>2. CASE i <= a
      <4>1. i \in 1..a /\ (u \o t)[i] = u[i]
        BY <1>2, <1>3, <3>2
      <4> QED BY <1>3, <3>1, <4>1
    <3>3. CASE i > a
      <4>0. i - a \in 1..(b - a) /\ a + (i - a) = i
        BY <3>3
      <4>1. i - a \in 1..(b - a) /\ a + (i - a) = i /\ (u \o t)[i] = t[i - a]
        <5>1. i - a \in 1..Len(t) /\ Len(u) + (i - a) = i
          BY <1>2, <1>3, <4>0, Zenon
        <5>2. (u \o t)[Len(u) + (i - a)] = t[i - a]
          BY <2>0, <5>1, Zenon
        <5> QED BY <4>0, <5>1, <5>2, Zenon
      <4>2. t[i - a] = s[a + (i - a)]
        BY <1>2, <4>1
      <4> QED BY <3>1, <4>1, <4>2, Zenon
    <3>4. i <= a \/ i > a
      OBVIOUS
    <3> QED BY <3>2, <3>3, <3>4, Zenon
  <2> DEFINE x == u \o t
  <2>3. x \in Seq(Int) /\ Len(x) = b /\ \A i \in 1..b : x[i] = v[i]
    BY <2>1, <2>2
  <2> HIDE DEF x
  <2>4. x = v
    BY <1>4, <2>3
  <2> QED BY <2>4 DEF x
<1> QED BY <1>6, <1>7 DEF u, t, v

(* The blocks of a list.                                                      *)
BlockCount(list) == (Len(list) + TsBlock - 1) \div TsBlock
BlockEnd(list, b) == IF b = BlockCount(list) THEN Len(list) ELSE b * TsBlock

BlocksOf(list, B) ==
  LET n == BlockCount(list)
  IN  /\ B = TsBlocks(list) /\ B \in Seq(Seq(Int)) /\ Len(B) = n /\ n \in 1..Len(list)
      /\ BlockEnd(list, 0) = 0 /\ BlockEnd(list, n) = Len(list)
      /\ \A b \in 1..n :
           /\ BlockEnd(list, b - 1) \in Nat /\ BlockEnd(list, b) \in 1..Len(list)
           /\ BlockEnd(list, b) - BlockEnd(list, b - 1) \in 2..TsBlock
           /\ SliceOf(list, BlockEnd(list, b - 1), BlockEnd(list, b), B[b])
           /\ SubSeq(list, 1, BlockEnd(list, b - 1)) \o B[b] = SubSeq(list, 1, BlockEnd(list, b))

(* The blocks of a list are its slices, none of a single member.             *)
LEMMA BlocksAre ==
  ASSUME NEW list \in Seq(Int), NoSingle(list)
  PROVE  BlocksOf(list, TsBlocks(list))
<1> DEFINE L == Len(list)
           T == TsBlock
           n == BlockCount(list)
           B == TsBlocks(list)
           e(b) == BlockEnd(list, b)
<1>1. L \in Nat /\ L >= 1 /\ L % T # 1 /\ T \in Nat /\ T >= 2
  <2>1. DeltaCountBits \in 0..WordBits
    BY WidthsAre
  <2>2. Power[DeltaCountBits] \in Nat
    BY <2>1, PowerIs
  <2>3. T \in Nat /\ T >= 2
    BY <2>2, TsBlockAssumption
  <2> HIDE DEF T
  <2> QED BY <2>3 DEF NoSingle, T
<1> HIDE DEF L, T
<1> DEFINE r == ((L + T) - 1) % T
<1>2. n \in Int /\ r \in 0..(T - 1) /\ (L + T) - 1 = (n * T) + r
  <2>1. T \in Nat \ {0} /\ (L + T) - 1 \in Int
    BY <1>1
  <2>2. n = ((L + T) - 1) \div T
    <3>1. L + (T - 1) = (L + T) - 1
      BY <1>1
    <3>2. n = (L + (T - 1)) \div T
      BY Zenon DEF BlockCount, L, T
    <3> QED BY <3>1, <3>2, Zenon
  <2> QED BY <2>1, <2>2, Division, Zenon DEF r
<1> HIDE DEF n, r
<1>3. L = ((n - 1) * T) + (r + 1)
  <2>1. (n - 1) * T = (n * T) - T
    BY <1>1, <1>2
  <2> QED BY <1>1, <1>2, <2>1
<1>4. n >= 1
  <2> SUFFICES ASSUME n <= 0 PROVE FALSE
    BY <1>2
  <2>1. 1 - n \in Nat /\ 1 <= 1 - n
    BY <1>2
  <2>2. 1 * T <= (1 - n) * T
    BY <1>1, <2>1, ProductGrows
  <2>3. (n - 1) * T = -((1 - n) * T)
    BY <1>1, <1>2
  <2> DEFINE x == (1 - n) * T
  <2>4. x \in Int /\ T <= x /\ L = (-x) + (r + 1)
    BY <1>1, <1>2, <1>3, <2>2, <2>3
  <2> HIDE DEF x
  <2> QED BY <1>1, <1>2, <2>4
<1>5. n \in Nat /\ n - 1 \in Nat
  BY <1>2, <1>4
<1>6. r + 1 # 1
  <2> SUFFICES ASSUME r + 1 = 1 PROVE FALSE
    OBVIOUS
  <2>1. 1 \in 0..(T - 1) /\ T \in Nat \ {0}
    BY <1>1
  <2>2. (((n - 1) * T) + 1) % T = 1
    <3>1. n - 1 \in Int
      BY <1>2
    <3> QED BY <2>1, <3>1, Quotients, Zenon
  <2> QED BY <1>1, <1>3, <2>2
<1>7. r + 1 \in 2..T
  BY <1>1, <1>2, <1>6
<1>8. n <= L
  <2>1. (n - 1) * 1 <= (n - 1) * T
    <3>1. 1 * (n - 1) <= T * (n - 1)
      BY <1>1, <1>5, ProductGrows
    <3> QED BY <1>1, <1>5, <3>1
  <2> DEFINE x == (n - 1) * T
  <2>2. x \in Nat /\ n - 1 <= x /\ L = x + (r + 1)
    BY <1>1, <1>3, <1>5, <2>1
  <2> HIDE DEF x
  <2> QED BY <1>2, <1>5, <2>2
<1>9. \A b \in 0..(n - 1) : e(b) = b * T /\ e(b) \in Nat /\ e(b) <= (n - 1) * T
  <2> SUFFICES ASSUME NEW b \in 0..(n - 1) PROVE e(b) = b * T /\ e(b) \in Nat /\ e(b) <= (n - 1) * T
    OBVIOUS
  <2>1. e(b) = b * T
    <3>1. b # n
      BY <1>5
    <3> QED BY <3>1 DEF BlockEnd, n, T
  <2>2. b \in Nat /\ b <= n - 1
    BY <1>5
  <2>3. b * T <= (n - 1) * T /\ b * T \in Nat
    BY <1>1, <1>5, <2>2, ProductGrows
  <2> HIDE DEF e
  <2> QED BY <2>1, <2>3
<1>10. e(n) = L /\ e(0) = 0
  <2>1. e(0) = 0 * T
    <3>1. 0 \in 0..(n - 1)
      BY <1>5
    <3> HIDE DEF e
    <3> QED BY <1>9, <3>1
  <2>2. e(n) = L
    BY DEF BlockEnd, n, L
  <2> HIDE DEF e
  <2> QED BY <1>1, <2>1, <2>2
<1> HIDE DEF e
<1>11. ASSUME NEW b \in 1..n
       PROVE  /\ e(b - 1) = (b - 1) * T /\ e(b - 1) \in Nat /\ e(b) \in 1..L /\ e(b) - e(b - 1) \in 2..T
              /\ e(b) = Min({b * T, L})
  <2>1. b - 1 \in 0..(n - 1)
    BY <1>5
  <2>2. e(b - 1) = (b - 1) * T /\ e(b - 1) \in Nat
    BY <1>9, <2>1
  <2>3. b \in Nat /\ (b - 1) * T = (b * T) - T /\ b * T \in Int
    BY <1>1, <1>5
  <2> DEFINE x == (n - 1) * T
             y == b * T
  <2>4. x \in Nat /\ L = x + (r + 1) /\ y \in Int
    BY <1>1, <1>3, <1>5, <2>3
  <2>5. Min({y, L}) \in {y, L} /\ Min({y, L}) <= y /\ Min({y, L}) <= L
    <3>1. y \in Int /\ L \in Int
      BY <1>1, <2>4
    <3> QED BY <3>1, LargerOf, Zenon
  <2> DEFINE f == e(b)
             g == e(b - 1)
  <2>6. CASE b = n
    <3>1. x = y - T /\ e(b - 1) = x /\ e(b) = L
      BY <1>10, <2>2, <2>3, <2>6
    <3>0. x = y - T /\ g = x /\ f = L
      BY <3>1
    <3> HIDE DEF x, y, f, g
    <3>2. L <= y
      BY <1>1, <1>7, <2>4, <3>1
    <3>3. Min({y, L}) = L
      BY <1>1, <2>4, <2>5, <3>2
    <3>4. f \in 1..L /\ f - g \in 2..T
      BY <1>1, <1>7, <2>4, <3>0
    <3> QED BY <2>2, <3>1, <3>3, <3>4, Zenon DEF y, f, g
  <2>7. CASE b # n
    <3>1. b \in 0..(n - 1)
      BY <1>5, <2>7
    <3>2. e(b) = y /\ e(b) <= x /\ e(b) \in Nat /\ e(b - 1) = y - T
      BY <1>9, <2>2, <2>3, <3>1
    <3>0. f = y /\ f <= x /\ f \in Nat /\ g = y - T /\ g \in Nat
      BY <2>2, <3>2
    <3> HIDE DEF x, y, f, g
    <3>3. Min({y, L}) = y
      BY <1>1, <1>7, <2>4, <2>5, <3>0
    <3>4. f \in 1..L /\ f - g \in 2..T
      BY <1>1, <1>7, <2>4, <3>0
    <3> QED BY <2>2, <3>2, <3>3, <3>4, Zenon DEF y, f, g
  <2> QED BY <2>6, <2>7
<1>12. B = [b \in 1..n |-> SubSeq(list, ((b - 1) * T) + 1, Min({b * T, L}))]
  BY DEF TsBlocks, n, T, L, BlockCount
<1>13. \A b \in 1..n : B[b] = SubSeq(list, e(b - 1) + 1, e(b))
  <2> HIDE DEF B
  <2> QED BY <1>11, <1>12
<1>14. ASSUME NEW b \in 1..n
       PROVE  /\ SliceOf(list, e(b - 1), e(b), B[b])
              /\ SubSeq(list, 1, e(b - 1)) \o B[b] = SubSeq(list, 1, e(b))
              /\ B[b] \in Seq(Int)
  <2> DEFINE a == e(b - 1)
             c == e(b)
             s == B[b]
  <2>1. a \in Nat /\ c \in Nat /\ a <= c /\ c <= L /\ s = SubSeq(list, a + 1, c)
    <3>1. a \in Nat /\ c \in 1..L /\ c - a \in 2..T /\ s = SubSeq(list, a + 1, c)
      BY <1>11, <1>13, Zenon
    <3> HIDE DEF a, c, s
    <3> QED BY <1>1, <3>1
  <2> HIDE DEF a, c, s
  <2>2. SliceOf(list, a, c, s) /\ SubSeq(list, 1, a) \o s = SubSeq(list, 1, c)
    BY <2>1, SliceIs DEF L
  <2>3. s \in Seq(Int)
    BY <2>2, Zenon DEF SliceOf
  <2> QED BY <2>2, <2>3 DEF a, c, s
<1>15. B \in Seq(Seq(Int)) /\ Len(B) = n
  <2>1. \A b \in 1..n : B[b] \in Seq(Int)
    BY <1>14
  <2>2. DOMAIN B = 1..n /\ B = [b \in 1..n |-> B[b]]
    BY <1>12
  <2> HIDE DEF B
  <2>3. B \in [1..n -> Seq(Int)]
    BY <2>1, <2>2, Zenon
  <2> QED BY <1>5, <2>2, <2>3
<1>16. n \in 1..L
  BY <1>1, <1>4, <1>5, <1>8
<1> HIDE DEF B
<1>17. \A b \in 1..n : /\ e(b - 1) \in Nat /\ e(b) \in 1..L
                       /\ e(b) - e(b - 1) \in 2..T
                       /\ SliceOf(list, e(b - 1), e(b), B[b])
                       /\ SubSeq(list, 1, e(b - 1)) \o B[b] = SubSeq(list, 1, e(b))
  BY <1>11, <1>14, Zenon
<1> QED BY <1>10, <1>15, <1>16, <1>17, Zenon DEF BlocksOf, n, e, L, T, B

(* A slice of a stepped list is stepped.                                     *)
LEMMA BlockStepped ==
  ASSUME NEW list, NEW m \in 1..WordBits, Stepped(list, m),
         NEW a \in Nat, NEW c \in Nat, NEW s, SliceOf(list, a, c, s), a < c
  PROVE  Stepped(s, m) /\ Len(s) = c - a
<1> DEFINE n == Len(list)
           k == Len(s)
           d(i) == list[i + 1] - list[i]
<1>1. /\ list \in Seq(Int) /\ n \in Nat
      /\ \A i \in 1..n : list[i] \in Words
      /\ \A i \in 1..(n - 1) : d(i) \in Words
      /\ \A i, j \in 1..(n - 1) : d(i) - d(j) < Power[m]
  BY DEF Stepped
<1>2. s \in Seq(Int) /\ k = c - a /\ \A i \in 1..(c - a) : s[i] = list[a + i] /\ a + i \in 1..n
  BY DEF SliceOf
<1> HIDE DEF n, k
<1>3. \A i \in 1..k : s[i] \in Words
  BY <1>1, <1>2
<1>4. \A i \in 1..(k - 1) : s[i + 1] - s[i] = d(a + i) /\ a + i \in 1..(n - 1)
  <2> SUFFICES ASSUME NEW i \in 1..(k - 1) PROVE s[i + 1] - s[i] = d(a + i) /\ a + i \in 1..(n - 1)
    OBVIOUS
  <2>1. i \in 1..(c - a) /\ i + 1 \in 1..(c - a) /\ a + (i + 1) = (a + i) + 1
    BY <1>2
  <2>2. s[i] = list[a + i] /\ a + i \in 1..n
    BY <1>2, <2>1
  <2>3. s[i + 1] = list[a + (i + 1)] /\ a + (i + 1) \in 1..n
    BY <1>2, <2>1
  <2>4. a + i \in 1..(n - 1)
    BY <1>1, <2>1, <2>2, <2>3
  <2> QED BY <2>1, <2>2, <2>3, <2>4
<1> HIDE DEF d
<1>5. \A i \in 1..(k - 1) : s[i + 1] - s[i] \in Words
  BY <1>1, <1>4
<1>6. \A i, j \in 1..(k - 1) : (s[i + 1] - s[i]) - (s[j + 1] - s[j]) < Power[m]
  BY <1>1, <1>4
<1> QED BY <1>2, <1>3, <1>5, <1>6 DEF Stepped, k

BlockStreams(list) == [b \in 1..BlockCount(list) |-> PadBits(BlockBits(TsBlocks(list)[b]))]
ListBits(list) == Bits(BlockCount(list), WordBits) \o FlattenSeq(BlockStreams(list))

(* A list of steps, block by block, is a piece.                              *)
LEMMA PieceOfList ==
  ASSUME NEW list \in Seq(Int), NoSingle(list), NEW m \in 1..WordBits, Stepped(list, m),
         m < Power[WidthBits], m <= (3 * ByteBits) + 1
  PROVE  /\ BlockStreams(list) \in Seq(BitSeq) /\ Len(BlockStreams(list)) = BlockCount(list)
         /\ Piece(Ts2DiffEncode(list), ListBits(list))
<1> DEFINE n == BlockCount(list)
           B == TsBlocks(list)
           C == MapSeq(EncodeTsBlock, B)
           P == BlockStreams(list)
<1>1. BlocksOf(list, B)
  BY BlocksAre
<1>2. B \in Seq(Seq(Int)) /\ Len(B) = n /\ n \in Nat
  <2>1. n \in 1..Len(list) /\ B \in Seq(Seq(Int)) /\ Len(B) = n
    BY <1>1, Zenon DEF BlocksOf
  <2> QED BY <2>1
<1>3. ASSUME NEW b \in 1..n PROVE Stepped(B[b], m) /\ Len(B[b]) \in 2..TsBlock
  <2> DEFINE a == BlockEnd(list, b - 1)
             c == BlockEnd(list, b)
             s == B[b]
  <2>1. a \in Nat /\ c \in 1..Len(list) /\ c - a \in 2..TsBlock /\ SliceOf(list, a, c, s)
    BY <1>1, <1>3, Zenon DEF BlocksOf
  <2> HIDE DEF a, c, s
  <2>2. c \in Nat /\ a < c
    <3>1. TsBlock \in Nat
      <4>1. DeltaCountBits \in 0..WordBits
        BY WidthsAre
      <4> QED BY <4>1, PowerIs, TsBlockAssumption
    <3>2. c \in Nat
      BY <2>1
    <3> QED BY <2>1, <3>1, <3>2
  <2>3. Stepped(s, m) /\ Len(s) = c - a
    BY <2>1, <2>2, BlockStepped, Zenon
  <2> QED BY <2>1, <2>3 DEF s
<1> HIDE DEF B, n
<1>4. \A b \in 1..n : Piece(EncodeTsBlock(B[b]), PadBits(BlockBits(B[b])))
  BY <1>3, PieceOfBlock, Zenon
<1>5. \A b \in 1..n : EncodeTsBlock(B[b]) \in Seq(CallSet) /\ PadBits(BlockBits(B[b])) \in BitSeq
  BY <1>4, PieceTyped, Zenon DEF Piece
<1>6. C = [b \in 1..n |-> EncodeTsBlock(B[b])] /\ P = [b \in 1..n |-> PadBits(BlockBits(B[b]))]
  <2>1. DOMAIN B = 1..n
    BY <1>2
  <2> QED BY <2>1 DEF MapSeq, BlockStreams, B, n
<1> HIDE DEF C, P
<1>7. /\ C \in Seq(Seq(CallSet)) /\ P \in Seq(BitSeq) /\ Len(C) = n /\ Len(P) = n
      /\ \A b \in 1..n : C[b] = EncodeTsBlock(B[b]) /\ P[b] = PadBits(BlockBits(B[b]))
  BY <1>2, <1>5, <1>6
<1>8. Piece(FlattenSeq(C), FlattenSeq(P))
  <2>1. \A b \in 1..Len(C) : Piece(C[b], P[b])
    BY <1>4, <1>7
  <2> QED BY <1>7, <2>1, PiecesFlat, Zenon
<1>9. Piece(Put(n, WordBits), Bits(n, WordBits))
  BY <1>2, WidthsAre, PieceOne
<1>10. Piece(Put(n, WordBits) \o FlattenSeq(C), Bits(n, WordBits) \o FlattenSeq(P))
  BY <1>8, <1>9, PieceJoin, Zenon
<1>11. Ts2DiffEncode(list) = Put(n, WordBits) \o FlattenSeq(C)
  BY <1>2 DEF Ts2DiffEncode, C, B
<1>12. ListBits(list) = Bits(n, WordBits) \o FlattenSeq(P)
  BY DEF ListBits, P, n
<1> QED BY <1>7, <1>10, <1>11, <1>12 DEF P, n

(***************************************************************************)
(* The lists of a block                                                    *)
(***************************************************************************)
LEMMA SeqMade ==
  ASSUME NEW n \in Nat, NEW T, NEW f, f = [i \in 1..n |-> f[i]], \A i \in 1..n : f[i] \in T
  PROVE  f \in Seq(T) /\ Len(f) = n /\ DOMAIN f = 1..n
<1>1. f \in [1..n -> T]
  BY Zenon
<1> QED BY <1>1

(* Where a sequence starts among those put one after the other.               *)
LEMMA FlatLengths ==
  ASSUME NEW T, NEW P \in Seq(Seq(T)), NEW g, g[0] = 0,
         \A k \in 1..Len(P) : g[k] = g[k - 1] + Len(P[k])
  PROVE  \A k \in 0..Len(P) : Len(FlatTo(P, k)) = g[k]
<1> DEFINE n == Len(P)
           H == {k \in 0..n : Len(FlatTo(P, k)) = g[k]}
<1>1. n \in Nat
  OBVIOUS
<1>2. Flats(P, T)
  BY FlatsAre
<1>3. /\ FlatTo(P, 0) = <<>>
      /\ \A k \in 0..n : FlatTo(P, k) \in Seq(T)
      /\ \A k \in 1..n : FlatTo(P, k) = FlatTo(P, k - 1) \o P[k] /\ P[k] \in Seq(T)
  <2>1. \A k \in 1..n : P[k] \in Seq(T)
    OBVIOUS
  <2> QED BY <1>2, <2>1, Zenon DEF Flats
<1> HIDE DEF n
<1>4. 0 \in H
  <2>1. 0 \in 0..n /\ Len(<<>>) = 0
    BY <1>1
  <2> QED BY <1>3, <2>1
<1>5. ASSUME NEW k \in 1..n, k - 1 \in H PROVE k \in H
  <2>1. k \in 0..n /\ k - 1 \in 0..n /\ Len(FlatTo(P, k - 1)) = g[k - 1]
    BY <1>1, <1>5
  <2>2. FlatTo(P, k - 1) \in Seq(T) /\ P[k] \in Seq(T) /\ FlatTo(P, k) = FlatTo(P, k - 1) \o P[k]
    BY <1>3, <2>1, Zenon
  <2>3. Len(FlatTo(P, k)) = Len(FlatTo(P, k - 1)) + Len(P[k])
    <3>1. \A x, y \in Seq(T) : Len(x \o y) = Len(x) + Len(y)
      OBVIOUS
    <3> QED BY <2>2, <3>1, Zenon
  <2>4. Len(FlatTo(P, k)) = g[k]
    BY <2>1, <2>3, Zenon DEF n
  <2> QED BY <2>1, <2>4
<1>6. \A k \in 0..n : k \in H
  <2> HIDE DEF H
  <2> QED BY <1>1, <1>4, <1>5, CountUp, Zenon
<1> QED BY <1>6 DEF n

FlatHas(P) ==
  \A k \in 1..Len(P) :
    /\ Len(FlatTo(P, k - 1)) \in Nat /\ Len(FlatTo(P, k)) = Len(FlatTo(P, k - 1)) + Len(P[k])
    /\ Len(FlatTo(P, k)) <= Len(FlattenSeq(P))
    /\ \A j \in 1..Len(P[k]) : FlattenSeq(P)[Len(FlatTo(P, k - 1)) + j] = P[k][j]

(* The members of the parts are those of the flattened sequence, each at its *)
(* place.                                                                    *)
LEMMA FlatHasAll ==
  ASSUME NEW T, NEW P \in Seq(Seq(T))
  PROVE  FlatHas(P) /\ FlattenSeq(P) \in Seq(T)
<1> DEFINE s == FlattenSeq(P)
<1>1. Flats(P, T) /\ Len(P) \in 0..Len(P) /\ Len(P) \in Nat
  BY FlatsAre
<1>2. s \in Seq(T)
  BY <1>1, Zenon DEF Flats
<1>3. \A k \in 0..Len(P) : FlatTo(P, k) \in Seq(T)
  BY <1>1, Zenon DEF Flats
<1>4. Finds(s, 0, s)
  <2> HIDE DEF s
  <2>1. Len(s) \in Nat /\ \A i \in 1..Len(s) : 0 + i = i
    BY <1>2
  <2> QED BY <2>1 DEF Finds
<1>5. FindsEach(s, 0, P)
  BY <1>2, <1>4, FindsInFlat, Zenon
<1>6. ASSUME NEW k \in 1..Len(P)
      PROVE  /\ Len(FlatTo(P, k - 1)) \in Nat /\ Len(FlatTo(P, k)) = Len(FlatTo(P, k - 1)) + Len(P[k])
             /\ Len(FlatTo(P, k)) <= Len(s)
             /\ \A j \in 1..Len(P[k]) : s[Len(FlatTo(P, k - 1)) + j] = P[k][j]
  <2>1. k - 1 \in 0..Len(P) /\ k \in 0..Len(P)
    BY <1>1
  <2> DEFINE a == Len(FlatTo(P, k - 1))
             b == Len(FlatTo(P, k))
  <2>2. a \in Nat /\ b \in Nat
    <3>1. FlatTo(P, k - 1) \in Seq(T) /\ FlatTo(P, k) \in Seq(T)
      BY <1>3, <2>1, Zenon
    <3> QED BY <3>1, LenProperties, Zenon
  <2>3. Finds(s, 0, FlatTo(P, k)) /\ Finds(s, 0 + a, P[k]) /\ b = a + Len(P[k])
    BY <1>5, <2>1, Zenon DEF FindsEach
  <2> HIDE DEF a, b, s
  <2>4. 0 + a = a
    BY <2>2
  <2>5. 0 + b <= Len(s)
    BY <2>3, Zenon DEF Finds, b
  <2>6. b <= Len(s)
    BY <2>2, <2>5
  <2>7. \A j \in 1..Len(P[k]) : s[a + j] = P[k][j]
    BY <2>3, <2>4, Zenon DEF Finds
  <2> QED BY <2>2, <2>3, <2>6, <2>7, Zenon DEF a, b
<1> QED BY <1>2, <1>6, Zenon DEF FlatHas

(* The coded and the raw records.                                             *)
Zeros(block) == {i \in DOMAIN block : block[i].method = 0}
Ones(block) == {i \in DOMAIN block : block[i].method = 1}

(* A record is an edit list or a line as it is.                              *)
LEMMA RecordIs ==
  ASSUME NEW r \in Records
  PROVE  /\ r.method \in {0, 1}
         /\ r.method = 0 => r \in CodedRecords /\ r.begin \in Nat /\ r.ops \in Seq(Edits)
                            /\ r = [method |-> 0, begin |-> r.begin, ops |-> r.ops]
         /\ r.method = 1 => r \in RawRecords /\ r.line \in Seq(Byte \ {Newline})
                            /\ r = [method |-> 1, line |-> r.line]
<1>1. CASE r \in CodedRecords
  <2>1. r = [method |-> r.method, begin |-> r.begin, ops |-> r.ops] /\ r.method = 0 /\ r.begin \in Nat
        /\ r.ops \in Seq(Edits)
    BY <1>1 DEF CodedRecords
  <2> QED BY <1>1, <2>1
<1>2. CASE r \in RawRecords
  <2>1. r = [method |-> r.method, line |-> r.line] /\ r.method = 1 /\ r.line \in Seq(Byte \ {Newline})
    BY <1>2 DEF RawRecords
  <2> QED BY <1>2, <2>1
<1> QED BY <1>1, <1>2 DEF Records

(* The two kinds of records of a block, each at its rank.                    *)
LEMMA RecordsPicked ==
  ASSUME NEW block \in Seq(Records)
  PROVE  /\ Coded(block) \in Seq(CodedRecords) /\ RawLines(block) \in Seq(RawRecords)
         /\ Len(Coded(block)) = Rk(Zeros(block), Len(block))
         /\ Len(RawLines(block)) = Rk(Ones(block), Len(block))
         /\ \A k \in 1..Len(block) : k \in Zeros(block) => Rk(Zeros(block), k) \in 1..Len(Coded(block))
                                                          /\ Coded(block)[Rk(Zeros(block), k)] = block[k]
         /\ \A k \in 1..Len(block) : k \in Ones(block) => Rk(Ones(block), k) \in 1..Len(RawLines(block))
                                                         /\ RawLines(block)[Rk(Ones(block), k)] = block[k]
<1> DEFINE Z == Zeros(block)
           O == Ones(block)
           c == Coded(block)
           w == RawLines(block)
<1>1. PickedOf(block, Records, Z, c) /\ PickedOf(block, Records, O, w)
  <2>1. PickedOf(block, Records, Z, Picked(block, Z)) /\ PickedOf(block, Records, O, Picked(block, O))
    BY PickedAre, Zenon
  <2>2. c = Picked(block, Z) /\ w = Picked(block, O)
    BY Zenon DEF Coded, RawLines, Zeros, Ones
  <2> QED BY <2>1, <2>2, Zenon
<1>2. \A k \in 1..Len(block) : /\ k \in Z <=> block[k].method = 0
                               /\ k \in O <=> block[k].method = 1
                               /\ block[k] \in Records
  BY DEF Zeros, Ones
<1> HIDE DEF Z, O, c, w
<1>3. /\ c \in Seq(Records) /\ Len(c) = Rk(Z, Len(block))
      /\ \A k \in 1..Len(block) : k \in Z => Rk(Z, k) \in 1..Len(c) /\ c[Rk(Z, k)] = block[k]
      /\ \A j \in 1..Len(c) : \E k \in 1..Len(block) : k \in Z /\ j = Rk(Z, k)
  BY <1>1, Zenon DEF PickedOf
<1>4. /\ w \in Seq(Records) /\ Len(w) = Rk(O, Len(block))
      /\ \A k \in 1..Len(block) : k \in O => Rk(O, k) \in 1..Len(w) /\ w[Rk(O, k)] = block[k]
      /\ \A j \in 1..Len(w) : \E k \in 1..Len(block) : k \in O /\ j = Rk(O, k)
  BY <1>1, Zenon DEF PickedOf
<1>5. c \in Seq(CodedRecords)
  <2>1. ASSUME NEW j \in 1..Len(c) PROVE c[j] \in CodedRecords
    <3>1. PICK k \in 1..Len(block) : k \in Z /\ j = Rk(Z, k)
      BY <1>3, Zenon
    <3>2. c[j] = block[k] /\ block[k].method = 0 /\ block[k] \in Records
      BY <1>2, <1>3, <3>1, Zenon
    <3> QED BY <3>2, RecordIs, Zenon
  <2>2. Len(c) \in Nat /\ c = [j \in 1..Len(c) |-> c[j]]
    BY <1>3
  <2> QED BY <2>1, <2>2, SeqMade, Zenon
<1>6. w \in Seq(RawRecords)
  <2>1. ASSUME NEW j \in 1..Len(w) PROVE w[j] \in RawRecords
    <3>1. PICK k \in 1..Len(block) : k \in O /\ j = Rk(O, k)
      BY <1>4, Zenon
    <3>2. w[j] = block[k] /\ block[k].method = 1 /\ block[k] \in Records
      BY <1>2, <1>4, <3>1, Zenon
    <3> QED BY <3>2, RecordIs, Zenon
  <2>2. Len(w) \in Nat /\ w = [j \in 1..Len(w) |-> w[j]]
    BY <1>4
  <2> QED BY <2>1, <2>2, SeqMade, Zenon
<1> QED BY <1>3, <1>4, <1>5, <1>6, Zenon DEF Z, O, c, w

(* What a coded record gives to each list.                                    *)
DelsOf(r) == [j \in 1..Len(r.ops) |-> r.ops[j].del]
LensOf(r) == [j \in 1..Len(r.ops) |-> Len(r.ops[j].text)]
PosOf(r) == [j \in 1..Len(r.ops) |-> r.ops[j].pos]
TextsOf(r) == [j \in 1..Len(r.ops) |-> r.ops[j].text]
FirstOf(r) == IF r.ops = <<>> THEN <<>> ELSE <<r.ops[1].pos>>
StepsOf(r) == Deltas(PosOf(r))

(* The four lists of a record's edits.                                       *)
LEMMA CodedRecordIs ==
  ASSUME NEW r \in CodedRecords
  PROVE  /\ r.begin \in Nat /\ r.ops \in Seq(Edits) /\ Len(r.ops) \in Nat
         /\ DelsOf(r) \in Seq(Nat) /\ Len(DelsOf(r)) = Len(r.ops)
         /\ LensOf(r) \in Seq(Nat) /\ Len(LensOf(r)) = Len(r.ops)
         /\ PosOf(r) \in Seq(Nat) /\ Len(PosOf(r)) = Len(r.ops)
         /\ TextsOf(r) \in Seq(Seq(Byte)) /\ Len(TextsOf(r)) = Len(r.ops)
         /\ \A j \in 1..Len(r.ops) : r.ops[j] = [pos |-> PosOf(r)[j], del |-> DelsOf(r)[j], text |-> TextsOf(r)[j]]
         /\ \A j \in 1..Len(r.ops) : LensOf(r)[j] = Len(TextsOf(r)[j])
<1> DEFINE n == Len(r.ops)
           e(j) == r.ops[j]
<1>1. r.begin \in Nat /\ r.ops \in Seq(Edits)
  BY DEF CodedRecords
<1>2. n \in Nat /\ \A j \in 1..n : e(j) \in Edits
  BY <1>1
<1> HIDE DEF n, e
<1>3. \A j \in 1..n : /\ e(j).pos \in Nat /\ e(j).del \in Nat /\ e(j).text \in Seq(Byte) /\ Len(e(j).text) \in Nat
                      /\ e(j) = [pos |-> e(j).pos, del |-> e(j).del, text |-> e(j).text]
  <2> SUFFICES ASSUME NEW j \in 1..n
               PROVE  /\ e(j).pos \in Nat /\ e(j).del \in Nat /\ e(j).text \in Seq(Byte) /\ Len(e(j).text) \in Nat
                      /\ e(j) = [pos |-> e(j).pos, del |-> e(j).del, text |-> e(j).text]
    OBVIOUS
  <2> DEFINE x == e(j)
  <2>1. x \in Edits
    BY <1>2
  <2> HIDE DEF x
  <2>2. /\ x.pos \in Nat /\ x.del \in Nat /\ x.text \in Seq(Byte) /\ Len(x.text) \in Nat
        /\ x = [pos |-> x.pos, del |-> x.del, text |-> x.text]
    BY <2>1 DEF Edits
  <2> QED BY <2>2 DEF x
<1>4. /\ DelsOf(r) = [j \in 1..n |-> e(j).del] /\ LensOf(r) = [j \in 1..n |-> Len(e(j).text)]
      /\ PosOf(r) = [j \in 1..n |-> e(j).pos] /\ TextsOf(r) = [j \in 1..n |-> e(j).text]
  BY DEF DelsOf, LensOf, PosOf, TextsOf, e, n
<1> DEFINE p == DelsOf(r)
           q == LensOf(r)
           u == PosOf(r)
           t == TextsOf(r)
<1> HIDE DEF p, q, u, t
<1>5. p = [j \in 1..n |-> e(j).del] /\ q = [j \in 1..n |-> Len(e(j).text)]
      /\ u = [j \in 1..n |-> e(j).pos] /\ t = [j \in 1..n |-> e(j).text]
  BY <1>4 DEF p, q, u, t
<1>6. \A j \in 1..n : p[j] = e(j).del /\ q[j] = Len(e(j).text) /\ u[j] = e(j).pos /\ t[j] = e(j).text
  BY <1>5
<1>7. p \in Seq(Nat) /\ Len(p) = n
  BY <1>2, <1>3, <1>5
<1>8. q \in Seq(Nat) /\ Len(q) = n
  <2>1. q = [j \in 1..n |-> q[j]]
    BY <1>5
  <2>2. \A j \in 1..n : q[j] \in Nat
    BY <1>3, <1>6, Zenon
  <2> QED BY <1>2, <2>1, <2>2, SeqMade, Zenon
<1>9. u \in Seq(Nat) /\ Len(u) = n
  BY <1>2, <1>3, <1>5
<1>10. t \in Seq(Seq(Byte)) /\ Len(t) = n
  BY <1>2, <1>3, <1>5, SMTT(40)
<1>11. \A j \in 1..n : /\ e(j) = [pos |-> u[j], del |-> p[j], text |-> t[j]]
                       /\ q[j] = Len(t[j])
  BY <1>3, <1>6, Zenon
<1> QED BY <1>1, <1>2, <1>7, <1>8, <1>9, <1>10, <1>11 DEF n, e, p, q, u, t

LenPieces(block) == [i \in 1..Len(Coded(block)) |-> DelsOf(Coded(block)[i]) \o LensOf(Coded(block)[i])]
PosPieces(block) == [i \in 1..Len(Coded(block)) |-> FirstOf(Coded(block)[i])]
StepPieces(block) == [i \in 1..Len(Coded(block)) |-> StepsOf(Coded(block)[i])]
TextPieces(block) == [i \in 1..Len(Coded(block)) |-> FlattenSeq(TextsOf(Coded(block)[i]))]
LinePieces(block) == [i \in 1..Len(RawLines(block)) |-> Append(RawLines(block)[i].line, Newline)]

Made(P, T, n) == P \in Seq(Seq(T)) /\ Len(P) = n

ListsOf(block) ==
  LET c == Coded(block)
      n == Len(c)
  IN  /\ c \in Seq(CodedRecords) /\ n \in Nat /\ DOMAIN c = 1..n /\ \A i \in 1..n : c[i] \in CodedRecords
      /\ Methods(block) \in BitSeq /\ Len(Methods(block)) = Len(block)
      /\ \A i \in 1..Len(block) : Methods(block)[i] = block[i].method
      /\ Begins(block) \in Seq(Nat) /\ Len(Begins(block)) = n
      /\ \A i \in 1..n : Begins(block)[i] = c[i].begin
      /\ OperationSizes(block) \in Seq(Nat) /\ Len(OperationSizes(block)) = n
      /\ \A i \in 1..n : OperationSizes(block)[i] = Len(c[i].ops)
      /\ LengthList(block) = FlattenSeq(LenPieces(block)) /\ Made(LenPieces(block), Nat, n)
      /\ PositionBegins(block) = FlattenSeq(PosPieces(block)) /\ Made(PosPieces(block), Nat, n)
      /\ PositionDeltas(block) = FlattenSeq(StepPieces(block)) /\ Made(StepPieces(block), Int, n)
      /\ CodedText(block) = FlattenSeq(TextPieces(block)) /\ Made(TextPieces(block), Byte, n)
      /\ RawText(block) = FlattenSeq(LinePieces(block))
      /\ Made(LinePieces(block), Byte, Len(RawLines(block)))

(* The steps between the positions of a record's edits.                      *)
LEMMA StepsAre ==
  ASSUME NEW r \in CodedRecords
  PROVE  /\ StepsOf(r) \in Seq(Int)
         /\ Len(StepsOf(r)) = IF r.ops = <<>> THEN 0 ELSE Len(r.ops) - 1
         /\ \A j \in 1..(Len(r.ops) - 1) : StepsOf(r)[j] = PosOf(r)[j + 1] - PosOf(r)[j]
<1>1. PosOf(r) \in Seq(Nat) /\ Len(PosOf(r)) = Len(r.ops) /\ r.ops \in Seq(Edits) /\ Len(r.ops) \in Nat
  BY CodedRecordIs
<1> DEFINE p == PosOf(r)
           n == Len(r.ops)
<1>2. p \in Seq(Int) /\ Len(p) = n /\ n \in Nat /\ (r.ops = <<>> <=> n = 0)
  BY <1>1
<1> HIDE DEF p, n
<1>3. CASE n # 0
  <2>1. p # <<>>
    BY <1>2, <1>3
  <2>2. Deltas(p) \in Seq(Int) /\ Len(Deltas(p)) = n - 1 /\ \A i \in 1..(n - 1) : Deltas(p)[i] = p[i + 1] - p[i]
    BY <1>2, <2>1, DeltasAre
  <2> QED BY <1>2, <1>3, <2>2 DEF StepsOf, p, n
<1>4. CASE n = 0
  <2>1. Max({n - 1, 0}) = 0
    <3>1. n - 1 = -1 /\ -1 \in Int /\ 0 \in Int
      BY <1>4
    <3>2. Max({-1, 0}) \in {-1, 0} /\ Max({-1, 0}) >= -1 /\ Max({-1, 0}) >= 0
      BY <3>1, LargerOf
    <3> QED BY <3>1, <3>2
  <2>2. Deltas(p) = [i \in 1..0 |-> p[i + 1] - p[i]]
    BY <1>2, <2>1 DEF Deltas
  <2>3. Deltas(p) = <<>>
    BY <2>2
  <2>4. \A j \in 1..(n - 1) : FALSE
    BY <1>4
  <2> QED BY <1>2, <1>4, <2>3, <2>4 DEF StepsOf, p, n
<1> QED BY <1>3, <1>4

(* The first position of a record's edits.                                   *)
LEMMA FirstIs ==
  ASSUME NEW r \in CodedRecords
  PROVE  /\ FirstOf(r) \in Seq(Nat) /\ Len(FirstOf(r)) = IF r.ops = <<>> THEN 0 ELSE 1
         /\ r.ops # <<>> => FirstOf(r)[1] = PosOf(r)[1]
<1>1. PosOf(r) \in Seq(Nat) /\ Len(PosOf(r)) = Len(r.ops) /\ r.ops \in Seq(Edits) /\ Len(r.ops) \in Nat
  BY CodedRecordIs
<1>2. CASE r.ops = <<>>
  <2>1. FirstOf(r) = <<>>
    BY <1>2 DEF FirstOf
  <2> QED BY <1>2, <2>1
<1>3. CASE r.ops # <<>>
  <2>1. 1 \in 1..Len(r.ops)
    BY <1>1, <1>3
  <2> DEFINE p == r.ops[1].pos
  <2>2. PosOf(r)[1] = p /\ p \in Nat
    <3>1. PosOf(r) = [j \in 1..Len(r.ops) |-> r.ops[j].pos]
      BY DEF PosOf
    <3>2. PosOf(r)[1] = p
      BY <2>1, <3>1
    <3>3. PosOf(r)[1] \in Nat
      BY <1>1, <2>1
    <3> QED BY <3>2, <3>3
  <2>3. FirstOf(r) = <<p>>
    BY <1>3 DEF FirstOf
  <2> HIDE DEF p
  <2>4. <<p>> \in Seq(Nat) /\ Len(<<p>>) = 1 /\ <<p>>[1] = p
    BY <2>2
  <2> QED BY <1>3, <2>2, <2>3, <2>4
<1> QED BY <1>2, <1>3

(* The lists of a block, record by record.                                   *)
LEMMA ListsAre ==
  ASSUME NEW block \in Seq(Records)
  PROVE  ListsOf(block)
<1> DEFINE c == Coded(block)
           n == Len(c)
           w == RawLines(block)
           m == Len(w)
<1>1. /\ c \in Seq(CodedRecords) /\ n \in Nat /\ DOMAIN c = 1..n /\ \A i \in 1..n : c[i] \in CodedRecords
      /\ w \in Seq(RawRecords) /\ m \in Nat /\ DOMAIN w = 1..m /\ \A i \in 1..m : w[i] \in RawRecords
  <2>1. c \in Seq(CodedRecords) /\ w \in Seq(RawRecords)
    BY RecordsPicked
  <2> HIDE DEF c, w
  <2> QED BY <2>1
<1> HIDE DEF c, w, n, m
<1>2. /\ Methods(block) \in BitSeq /\ Len(Methods(block)) = Len(block)
      /\ \A i \in 1..Len(block) : Methods(block)[i] = block[i].method
  <2>1. Methods(block) = [i \in 1..Len(block) |-> block[i].method]
    BY DEF Methods, MapSeq
  <2> DEFINE f == Methods(block)
  <2> HIDE DEF f
  <2>2. \A i \in 1..Len(block) : f[i] = block[i].method /\ f[i] \in {0, 1}
    <3> SUFFICES ASSUME NEW i \in 1..Len(block) PROVE f[i] = block[i].method /\ f[i] \in {0, 1}
      OBVIOUS
    <3>1. f[i] = block[i].method
      BY <2>1 DEF f
    <3>2. block[i] \in Records
      OBVIOUS
    <3>3. block[i].method \in {0, 1}
      BY <3>2, RecordIs, Zenon
    <3> QED BY <3>1, <3>3, Zenon
  <2>3. f = [i \in 1..Len(block) |-> f[i]] /\ Len(block) \in Nat
    BY <2>1 DEF f
  <2> QED BY <2>2, <2>3, SeqMade, Zenon DEF f, BitSeq
<1>3. /\ Begins(block) \in Seq(Nat) /\ Len(Begins(block)) = n
      /\ \A i \in 1..n : Begins(block)[i] = c[i].begin
  <2>1. Begins(block) = [i \in 1..n |-> c[i].begin]
    BY <1>1 DEF Begins, MapSeq, c
  <2>2. \A i \in 1..n : c[i].begin \in Nat
    BY <1>1, CodedRecordIs
  <2> QED BY <1>1, <2>1, <2>2
<1>4. /\ OperationSizes(block) \in Seq(Nat) /\ Len(OperationSizes(block)) = n
      /\ \A i \in 1..n : OperationSizes(block)[i] = Len(c[i].ops)
  <2>1. OperationSizes(block) = [i \in 1..n |-> Len(c[i].ops)]
    BY <1>1 DEF OperationSizes, MapSeq, c
  <2>2. \A i \in 1..n : Len(c[i].ops) \in Nat
    BY <1>1, CodedRecordIs
  <2> QED BY <1>1, <2>1, <2>2
<1>5. LengthList(block) = FlattenSeq(LenPieces(block)) /\ Made(LenPieces(block), Nat, n)
  <2>1. \A i \in 1..n : DOMAIN c[i].ops = 1..Len(c[i].ops)
    <3> SUFFICES ASSUME NEW i \in 1..n PROVE DOMAIN c[i].ops = 1..Len(c[i].ops)
      OBVIOUS
    <3>1. c[i].ops \in Seq(Edits)
      BY <1>1, CodedRecordIs
    <3> QED BY <3>1
  <2> DEFINE F == [i \in 1..n |-> [j \in DOMAIN c[i].ops |-> c[i].ops[j].del]
                                    \o [j \in DOMAIN c[i].ops |-> Len(c[i].ops[j].text)]]
             P == LenPieces(block)
  <2>2. LengthList(block) = FlattenSeq(F)
    BY <1>1 DEF LengthList, MapSeq, c
  <2>3. P = [i \in 1..n |-> DelsOf(c[i]) \o LensOf(c[i])]
    BY DEF LenPieces, c, n
  <2>4. F = P
    BY <2>1, <2>3 DEF DelsOf, LensOf
  <2> HIDE DEF P
  <2>5. \A i \in 1..n : P[i] \in Seq(Nat)
    <3> SUFFICES ASSUME NEW i \in 1..n PROVE P[i] \in Seq(Nat)
      OBVIOUS
    <3>1. DelsOf(c[i]) \in Seq(Nat) /\ LensOf(c[i]) \in Seq(Nat)
      BY <1>1, CodedRecordIs
    <3>2. P[i] = DelsOf(c[i]) \o LensOf(c[i])
      BY <2>3
    <3> QED BY <3>1, <3>2, ConcatProperties, Zenon
  <2>6. P = [i \in 1..n |-> P[i]]
    BY <2>3
  <2>7. P \in Seq(Seq(Nat)) /\ Len(P) = n
    BY <1>1, <2>5, <2>6, SeqMade, Zenon
  <2> QED BY <2>2, <2>4, <2>7, Zenon DEF Made, P
<1>6. PositionBegins(block) = FlattenSeq(PosPieces(block)) /\ Made(PosPieces(block), Nat, n)
  <2> DEFINE P == PosPieces(block)
  <2>1. P = [i \in 1..n |-> FirstOf(c[i])]
    BY DEF PosPieces, c, n
  <2>2. PositionBegins(block) = FlattenSeq(P)
    BY <1>1, <2>1 DEF PositionBegins, MapSeq, FirstOf, c
  <2> HIDE DEF P
  <2>3. \A i \in 1..n : P[i] \in Seq(Nat)
    BY <1>1, <2>1, FirstIs
  <2>4. P = [i \in 1..n |-> P[i]]
    BY <2>1
  <2>5. P \in Seq(Seq(Nat)) /\ Len(P) = n
    BY <1>1, <2>3, <2>4, SeqMade, Zenon
  <2> QED BY <2>2, <2>5, Zenon DEF Made, P
<1>7. PositionDeltas(block) = FlattenSeq(StepPieces(block)) /\ Made(StepPieces(block), Int, n)
  <2> DEFINE P == StepPieces(block)
             F == [i \in 1..n |-> Deltas([j \in DOMAIN c[i].ops |-> c[i].ops[j].pos])]
  <2>1. P = [i \in 1..n |-> StepsOf(c[i])]
    BY DEF StepPieces, c, n
  <2>2. PositionDeltas(block) = FlattenSeq(F)
    BY <1>1 DEF PositionDeltas, MapSeq, c
  <2>3. \A i \in 1..n : DOMAIN c[i].ops = 1..Len(c[i].ops)
    <3> SUFFICES ASSUME NEW i \in 1..n PROVE DOMAIN c[i].ops = 1..Len(c[i].ops)
      OBVIOUS
    <3>1. c[i].ops \in Seq(Edits)
      BY <1>1, CodedRecordIs
    <3> QED BY <3>1
  <2>4. F = P
    BY <2>1, <2>3 DEF StepsOf, PosOf
  <2> HIDE DEF P, F
  <2>5. \A i \in 1..n : P[i] \in Seq(Int)
    BY <1>1, <2>1, StepsAre
  <2>6. P = [i \in 1..n |-> P[i]]
    BY <2>1
  <2>7. P \in Seq(Seq(Int)) /\ Len(P) = n
    BY <1>1, <2>5, <2>6, SeqMade, Zenon
  <2> QED BY <2>2, <2>4, <2>7, Zenon DEF Made, P
<1>8. CodedText(block) = FlattenSeq(TextPieces(block)) /\ Made(TextPieces(block), Byte, n)
  <2> DEFINE P == TextPieces(block)
             F == [i \in 1..n |-> FlattenSeq([j \in DOMAIN c[i].ops |-> c[i].ops[j].text])]
  <2>1. P = [i \in 1..n |-> FlattenSeq(TextsOf(c[i]))]
    BY DEF TextPieces, c, n
  <2>2. CodedText(block) = FlattenSeq(F)
    BY <1>1 DEF CodedText, MapSeq, c
  <2>3. \A i \in 1..n : DOMAIN c[i].ops = 1..Len(c[i].ops)
    <3> SUFFICES ASSUME NEW i \in 1..n PROVE DOMAIN c[i].ops = 1..Len(c[i].ops)
      OBVIOUS
    <3>1. c[i].ops \in Seq(Edits)
      BY <1>1, CodedRecordIs
    <3> QED BY <3>1
  <2>4. F = P
    BY <2>1, <2>3 DEF TextsOf
  <2> HIDE DEF P, F
  <2>5. \A i \in 1..n : P[i] \in Seq(Byte)
    <3> SUFFICES ASSUME NEW i \in 1..n PROVE P[i] \in Seq(Byte)
      OBVIOUS
    <3>1. TextsOf(c[i]) \in Seq(Seq(Byte))
      BY <1>1, CodedRecordIs
    <3>2. FlattenSeq(TextsOf(c[i])) \in Seq(Byte)
      BY <3>1, FlatHasAll, Zenon
    <3> QED BY <2>1, <3>2
  <2>6. P = [i \in 1..n |-> P[i]]
    BY <2>1
  <2>7. P \in Seq(Seq(Byte)) /\ Len(P) = n
    BY <1>1, <2>5, <2>6, SeqMade, Zenon
  <2> QED BY <2>2, <2>4, <2>7, Zenon DEF Made, P
<1>9. RawText(block) = FlattenSeq(LinePieces(block)) /\ Made(LinePieces(block), Byte, m)
  <2> DEFINE P == LinePieces(block)
  <2>1. P = [i \in 1..m |-> Append(w[i].line, Newline)]
    BY DEF LinePieces, w, m
  <2>2. RawText(block) = FlattenSeq(P)
    BY <1>1, <2>1 DEF RawText, MapSeq, w
  <2> HIDE DEF P
  <2>3. \A i \in 1..m : P[i] \in Seq(Byte)
    <3> SUFFICES ASSUME NEW i \in 1..m PROVE P[i] \in Seq(Byte)
      OBVIOUS
    <3>1. w[i].line \in Seq(Byte \ {Newline})
      BY <1>1 DEF RawRecords
    <3> DEFINE x == w[i].line
    <3>2. P[i] = Append(x, Newline) /\ x \in Seq(Byte)
      <4>1. Byte \ {Newline} \subseteq Byte
        OBVIOUS
      <4> QED BY <2>1, <3>1, <4>1
    <3> HIDE DEF x
    <3> QED BY <3>2, NewlineAssumption
  <2>4. P = [i \in 1..m |-> P[i]]
    BY <2>1
  <2>5. P \in Seq(Seq(Byte)) /\ Len(P) = m
    BY <1>1, <2>3, <2>4, SeqMade, Zenon
  <2> QED BY <2>2, <2>5, Zenon DEF Made, P
<1> QED BY <1>1, <1>2, <1>3, <1>4, <1>5, <1>6, <1>7, <1>8, <1>9, Zenon DEF ListsOf, c, n, w, m

(* How far the lists reach with the first k coded records.                    *)
Busy(block) == {i \in 1..Len(Coded(block)) : OperationSizes(block)[i] > 0}
SizesTo(block, k) == SumTo(OperationSizes(block), k)
BusyTo(block, k) == Rk(Busy(block), k)

ReachOf(block) ==
  \A k \in 0..Len(Coded(block)) :
    /\ SizesTo(block, k) \in Nat /\ BusyTo(block, k) \in Nat
    /\ Len(FlatTo(LenPieces(block), k)) = 2 * SizesTo(block, k)
    /\ Len(FlatTo(PosPieces(block), k)) = BusyTo(block, k)
    /\ Len(FlatTo(StepPieces(block), k)) = SizesTo(block, k) - BusyTo(block, k)

(* How far a record's edits reach in the lists of its block.                 *)
LEMMA ReachIs ==
  ASSUME NEW block \in Seq(Records)
  PROVE  /\ ReachOf(block)
         /\ SizesTo(block, 0) = 0 /\ BusyTo(block, 0) = 0
         /\ \A k \in 1..Len(Coded(block)) :
              /\ SizesTo(block, k) = SizesTo(block, k - 1) + OperationSizes(block)[k]
              /\ BusyTo(block, k) = BusyTo(block, k - 1) + (IF OperationSizes(block)[k] > 0 THEN 1 ELSE 0)
<1> DEFINE c == Coded(block)
           n == Len(c)
           S == OperationSizes(block)
           a(k) == SizesTo(block, k)
           b(k) == BusyTo(block, k)
<1>1. /\ n \in Nat /\ \A i \in 1..n : c[i] \in CodedRecords
      /\ S \in Seq(Nat) /\ Len(S) = n /\ \A i \in 1..n : S[i] = Len(c[i].ops)
      /\ Made(LenPieces(block), Nat, n) /\ Made(PosPieces(block), Nat, n) /\ Made(StepPieces(block), Int, n)
  BY ListsAre, Zenon DEF ListsOf
<1> HIDE DEF c, n, S
<1>2. /\ a(0) = 0 /\ \A k \in 0..n : a(k) \in Nat
      /\ \A k \in 1..n : a(k) = a(k - 1) + S[k]
  <2>1. S \in Seq(Int)
    BY <1>1
  <2>2. Sums(S)
    BY <2>1, SumsAre, Zenon
  <2>3. \A k \in 0..n : SumTo(S, k) \in Nat
    BY <1>1, SumsOfNaturals
  <2> QED BY <1>1, <2>2, <2>3, Zenon DEF Sums, SizesTo, S
<1>3. /\ b(0) = 0 /\ \A k \in 0..n : b(k) \in Nat
      /\ \A k \in 1..n : b(k) = b(k - 1) + (IF S[k] > 0 THEN 1 ELSE 0)
  <2>1. Ranks(Busy(block), n)
    BY <1>1, RanksAre, Zenon
  <2>2. \A k \in 1..n : k \in Busy(block) <=> S[k] > 0
    BY DEF Busy, n, c, S
  <2>3. b(0) = 0 /\ (\A k \in 0..n : b(k) \in Nat)
        /\ \A k \in 1..n : b(k) = b(k - 1) + (IF k \in Busy(block) THEN 1 ELSE 0)
    BY <2>1, Zenon DEF Ranks, BusyTo
  <2> HIDE DEF b
  <2> QED BY <2>2, <2>3, Zenon
<1> HIDE DEF a, b
<1>4. \A k \in 1..n : S[k] \in Nat /\ (S[k] > 0 <=> S[k] # 0) /\ (c[k].ops = <<>> <=> S[k] = 0)
  <2> SUFFICES ASSUME NEW k \in 1..n
               PROVE S[k] \in Nat /\ (S[k] > 0 <=> S[k] # 0) /\ (c[k].ops = <<>> <=> S[k] = 0)
    OBVIOUS
  <2>1. c[k].ops \in Seq(Edits) /\ S[k] = Len(c[k].ops)
    BY <1>1, CodedRecordIs
  <2> QED BY <2>1
<1>5. \A k \in 0..n : Len(FlatTo(LenPieces(block), k)) = 2 * a(k)
  <2> DEFINE P == LenPieces(block)
             g == [k \in 0..n |-> 2 * a(k)]
  <2>1. P \in Seq(Seq(Nat)) /\ Len(P) = n
    BY <1>1, Zenon DEF Made
  <2>2. ASSUME NEW k \in 1..n PROVE Len(P[k]) = 2 * S[k]
    <3>1. P[k] = DelsOf(c[k]) \o LensOf(c[k])
      BY DEF LenPieces, c, n
    <3>2. /\ DelsOf(c[k]) \in Seq(Nat) /\ LensOf(c[k]) \in Seq(Nat)
          /\ Len(DelsOf(c[k])) = S[k] /\ Len(LensOf(c[k])) = S[k]
      <4>1. c[k] \in CodedRecords /\ S[k] = Len(c[k].ops)
        BY <1>1
      <4> QED BY <4>1, CodedRecordIs, Zenon
    <3>3. Len(P[k]) = Len(DelsOf(c[k])) + Len(LensOf(c[k]))
      BY <3>1, <3>2, ConcatProperties, ZenonT(40)
    <3>4. Len(P[k]) = S[k] + S[k]
      BY <3>2, <3>3, Zenon
    <3> QED BY <1>4, <3>4
  <2>3. g[0] = 0
    BY <1>1, <1>2
  <2>4. ASSUME NEW k \in 1..n PROVE g[k] = g[k - 1] + Len(P[k])
    <3>1. k \in 0..n /\ k - 1 \in 0..n
      BY <1>1
    <3>2. g[k] = 2 * a(k) /\ g[k - 1] = 2 * a(k - 1)
      BY <3>1
    <3>3. a(k) = a(k - 1) + S[k] /\ a(k - 1) \in Nat /\ S[k] \in Nat /\ Len(P[k]) = 2 * S[k]
      BY <1>2, <1>4, <2>2, <3>1
    <3> QED BY <3>2, <3>3
  <2>5. \A k \in 0..n : g[k] = 2 * a(k)
    OBVIOUS
  <2> HIDE DEF P, g
  <2>6. \A k \in 0..Len(P) : Len(FlatTo(P, k)) = g[k]
    BY <2>1, <2>3, <2>4, FlatLengths, Zenon
  <2> QED BY <2>1, <2>5, <2>6, Zenon DEF P
<1>6. \A k \in 0..n : Len(FlatTo(PosPieces(block), k)) = b(k)
  <2> DEFINE P == PosPieces(block)
             g == [k \in 0..n |-> b(k)]
  <2>1. P \in Seq(Seq(Nat)) /\ Len(P) = n
    BY <1>1, Zenon DEF Made
  <2>2. ASSUME NEW k \in 1..n PROVE Len(P[k]) = IF S[k] > 0 THEN 1 ELSE 0
    <3>1. P[k] = FirstOf(c[k])
      BY DEF PosPieces, c, n
    <3>2. Len(FirstOf(c[k])) = IF c[k].ops = <<>> THEN 0 ELSE 1
      BY <1>1, FirstIs
    <3> QED BY <1>4, <3>1, <3>2
  <2>3. g[0] = 0
    BY <1>1, <1>3
  <2>4. ASSUME NEW k \in 1..n PROVE g[k] = g[k - 1] + Len(P[k])
    <3>1. k \in 0..n /\ k - 1 \in 0..n
      BY <1>1
    <3>2. g[k] = b(k) /\ g[k - 1] = b(k - 1)
      BY <3>1
    <3>3. b(k) = b(k - 1) + Len(P[k])
      BY <1>3, <2>2, Zenon
    <3> QED BY <3>2, <3>3, Zenon
  <2>5. \A k \in 0..n : g[k] = b(k)
    OBVIOUS
  <2> HIDE DEF P, g
  <2>6. \A k \in 0..Len(P) : Len(FlatTo(P, k)) = g[k]
    BY <2>1, <2>3, <2>4, FlatLengths, Zenon
  <2> QED BY <2>1, <2>5, <2>6, Zenon DEF P
<1>7. \A k \in 0..n : Len(FlatTo(StepPieces(block), k)) = a(k) - b(k)
  <2> DEFINE P == StepPieces(block)
             g == [k \in 0..n |-> a(k) - b(k)]
  <2>1. P \in Seq(Seq(Int)) /\ Len(P) = n
    BY <1>1, Zenon DEF Made
  <2>2. ASSUME NEW k \in 1..n PROVE Len(P[k]) = IF S[k] > 0 THEN S[k] - 1 ELSE 0
    <3>1. P[k] = StepsOf(c[k])
      BY DEF StepPieces, c, n
    <3>2. Len(StepsOf(c[k])) = IF c[k].ops = <<>> THEN 0 ELSE Len(c[k].ops) - 1
      BY <1>1, StepsAre
    <3>3. S[k] = Len(c[k].ops)
      BY <1>1
    <3> QED BY <1>4, <3>1, <3>2, <3>3
  <2>3. g[0] = 0
    BY <1>1, <1>2, <1>3
  <2>4. ASSUME NEW k \in 1..n PROVE g[k] = g[k - 1] + Len(P[k])
    <3>1. k \in 0..n /\ k - 1 \in 0..n
      BY <1>1
    <3>2. g[k] = a(k) - b(k) /\ g[k - 1] = a(k - 1) - b(k - 1)
      BY <3>1
    <3>3. b(k) = b(k - 1) + (IF S[k] > 0 THEN 1 ELSE 0) /\ b(k - 1) \in Nat
      BY <1>3, <3>1
    <3>4. a(k) = a(k - 1) + S[k] /\ a(k - 1) \in Nat /\ S[k] \in Nat
      BY <1>2, <1>4, <3>1
    <3>5. Len(P[k]) = IF S[k] > 0 THEN S[k] - 1 ELSE 0
      BY <2>2
    <3> HIDE DEF P, g
    <3> DEFINE x == a(k - 1)
               y == b(k - 1)
               z == S[k]
               l == Len(P[k])
    <3>6. x \in Nat /\ y \in Nat /\ z \in Nat /\ l = IF z > 0 THEN z - 1 ELSE 0
      BY <3>3, <3>4, <3>5
    <3>7. g[k] = (x + z) - (y + (IF z > 0 THEN 1 ELSE 0)) /\ g[k - 1] = x - y
      BY <3>2, <3>3, <3>4
    <3> HIDE DEF x, y, z, l
    <3>8. g[k] = g[k - 1] + l
      BY <3>6, <3>7
    <3> QED BY <3>8 DEF l
  <2>5. \A k \in 0..n : g[k] = a(k) - b(k)
    OBVIOUS
  <2> HIDE DEF P, g
  <2>6. \A k \in 0..Len(P) : Len(FlatTo(P, k)) = g[k]
    BY <2>1, <2>3, <2>4, FlatLengths, Zenon
  <2> QED BY <2>1, <2>5, <2>6, Zenon DEF P
<1>8. ReachOf(block)
  BY <1>2, <1>3, <1>5, <1>6, <1>7, Zenon DEF ReachOf, a, b, n, c
<1> QED BY <1>2, <1>3, <1>8, Zenon DEF a, b, n, c, S

(***************************************************************************)
(* Blocks the format carries                                               *)
(***************************************************************************)
Good(block) == block \in Seq(Records) /\ (block = <<>> \/ (Carried(block) /\ Numbered(block)))

(* The widest field of a packed value, and of a step.                         *)
Most(w) == Min({w, Power[WidthBits] - 1})

(* The widest field that a width of its own can announce.                    *)
LEMMA MostIs ==
  ASSUME NEW w \in 1..WordBits
  PROVE  Most(w) \in 1..w /\ Most(w) \in 1..WordBits /\ Most(w) < Power[WidthBits] /\ Widest(w) = Power[Most(w)]
<1> DEFINE p == Power[WidthBits]
           m == Most(w)
<1>1. p \in Nat /\ p >= 2
  <2>1. WidthBits \in 0..WordBits /\ 1 \in 0..WidthBits /\ 1 \in 1..WordBits /\ 1 - 1 = 0
    BY WidthsAre
  <2>2. Power[1] <= Power[WidthBits] /\ Power[WidthBits] \in Nat
    BY <2>1, PowerGrows
  <2>3. Power[1] = 2
    BY <2>1, PowerIs
  <2> QED BY <2>2, <2>3
<1> HIDE DEF p
<1>2. m \in {w, p - 1} /\ m <= w /\ m <= p - 1
  <2>1. w \in Int /\ p - 1 \in Int
    BY <1>1
  <2> QED BY <2>1, LargerOf DEF Most, p
<1>3. Widest(w) = Power[m]
  BY DEF Widest, Most
<1> HIDE DEF m
<1>4. m \in 1..w /\ m \in 1..WordBits /\ m < p
  BY <1>1, <1>2, WidthsAre
<1> QED BY <1>3, <1>4 DEF m, p

(* A list whose steps the code can write is stepped.                         *)
LEMMA StepsToStepped ==
  ASSUME NEW list \in Seq(Int), list # <<>>, Steps(list)
  PROVE  Stepped(list, Most((3 * ByteBits) + 1))
<1> DEFINE n == Len(list)
           d == Deltas(list)
           m == Most((3 * ByteBits) + 1)
<1>1. d \in Seq(Int) /\ Len(d) = n - 1 /\ \A i \in 1..(n - 1) : d[i] = list[i + 1] - list[i]
  BY DeltasAre
<1>2. n \in Nat /\ n >= 1 /\ DOMAIN list = 1..n
  OBVIOUS
<1>3. DOMAIN d = 1..(n - 1)
  <2> HIDE DEF d, n
  <2> QED BY <1>1, <1>2
<1>4. Widest((3 * ByteBits) + 1) = Power[m]
  <2>1. (3 * ByteBits) + 1 \in 1..WordBits
    BY ByteIs
  <2> QED BY <2>1, MostIs
<1>5. /\ \A i \in 1..n : list[i] \in Words
      /\ \A i \in 1..(n - 1) : d[i] \in Words
      /\ \A i, j \in 1..(n - 1) : d[i] - d[j] < Power[m]
  <2>1. /\ \A i \in DOMAIN list : list[i] \in Words
        /\ \A i \in DOMAIN d : d[i] \in Words
        /\ \A i, j \in DOMAIN d : d[i] - d[j] < Widest((3 * ByteBits) + 1)
    BY Zenon DEF Steps
  <2> HIDE DEF d, n, m
  <2> QED BY <1>2, <1>3, <1>4, <2>1, Zenon
<1> HIDE DEF d, n, m
<1>6. \A i \in 1..(n - 1) : list[i + 1] - list[i] \in Words
  BY <1>1, <1>5
<1>7. \A i, j \in 1..(n - 1) : (list[i + 1] - list[i]) - (list[j + 1] - list[j]) < Power[m]
  <2> SUFFICES ASSUME NEW i \in 1..(n - 1), NEW j \in 1..(n - 1)
               PROVE (list[i + 1] - list[i]) - (list[j + 1] - list[j]) < Power[m]
    OBVIOUS
  <2>1. d[i] = list[i + 1] - list[i] /\ d[j] = list[j + 1] - list[j] /\ d[i] - d[j] < Power[m]
    BY <1>1, <1>5
  <2> QED BY <2>1
<1> QED BY <1>5, <1>6, <1>7, Zenon DEF Stepped, n, m

HalfWord == Power[WordBits - 1]
ListRead(list) == list \in Seq(Int) /\ NoSingle(list) /\ Stepped(list, Most((3 * ByteBits) + 1)) /\ Len(list) < HalfWord

FactsOf(block) ==
  /\ ListRead(LengthList(block)) /\ ListRead(PositionBegins(block)) /\ ListRead(PositionDeltas(block))
  /\ Len(Coded(block)) >= 1 /\ Len(Coded(block)) <= Len(block) /\ Len(RawLines(block)) <= Len(block)
  /\ Len(block) < HalfWord
  /\ \A i \in 1..Len(Coded(block)) : /\ Begins(block)[i] < Power[Most(WordBits - 1)]
                                     /\ OperationSizes(block)[i] < Power[Most(WordBits - 1)]
  /\ Len(LengthList(block)) = 2 * SizesTo(block, Len(Coded(block)))
  /\ Len(PositionBegins(block)) = BusyTo(block, Len(Coded(block)))
  /\ Len(PositionDeltas(block)) = SizesTo(block, Len(Coded(block))) - BusyTo(block, Len(Coded(block)))

(* The largest length that a word holds.                                     *)
LEMMA HalfWordIs == HalfWord \in Nat /\ HalfWord >= 1
<1>1. WordBits - 1 \in 0..WordBits
  BY ByteIs
<1> QED BY <1>1, PowerIs DEF HalfWord

(* What a carried block is made of: lists in the ranges that their codes     *)
(* need.                                                                     *)
LEMMA FactsAre ==
  ASSUME NEW block \in Seq(Records), Carried(block), Numbered(block)
  PROVE  FactsOf(block)
<1> DEFINE n == Len(Coded(block))
           S == OperationSizes(block)
           L == LengthList(block)
           A == PositionBegins(block)
           D == PositionDeltas(block)
           s == SizesTo(block, n)
           b == BusyTo(block, n)
<1>1. /\ n \in Nat /\ S \in Seq(Nat) /\ Len(S) = n /\ Begins(block) \in Seq(Nat) /\ Len(Begins(block)) = n
      /\ L = FlattenSeq(LenPieces(block)) /\ Made(LenPieces(block), Nat, n)
      /\ A = FlattenSeq(PosPieces(block)) /\ Made(PosPieces(block), Nat, n)
      /\ D = FlattenSeq(StepPieces(block)) /\ Made(StepPieces(block), Int, n)
  BY ListsAre, Zenon DEF ListsOf
<1>2. /\ NoSingle(A) /\ NoSingle(D) /\ Steps(L) /\ Steps(A) /\ Steps(D)
      /\ Counted(block) /\ Counted(L) /\ Packs(Begins(block)) /\ Packs(S)
  BY Zenon DEF Carried, Numbered
<1> HIDE DEF S, L, A, D, n
<1>3. Flats(LenPieces(block), Nat) /\ Flats(PosPieces(block), Nat) /\ Flats(StepPieces(block), Int)
  BY <1>1, FlatsAre, Zenon DEF Made
<1>4. /\ L = FlatTo(LenPieces(block), n) /\ A = FlatTo(PosPieces(block), n) /\ D = FlatTo(StepPieces(block), n)
      /\ L \in Seq(Nat) /\ A \in Seq(Nat) /\ D \in Seq(Int)
  <2>1. n \in 0..n
    BY <1>1
  <2> QED BY <1>1, <1>3, <2>1, Zenon DEF Flats, Made
<1>5. L \in Seq(Int) /\ A \in Seq(Int) /\ D \in Seq(Int)
  BY <1>4
<1>6. s \in Nat /\ b \in Nat /\ Len(L) = 2 * s /\ Len(A) = b /\ Len(D) = s - b
  <2>1. n \in 0..n
    BY <1>1
  <2> QED BY <1>4, <2>1, ReachIs, Zenon DEF ReachOf, n
<1> HIDE DEF s, b
<1>7. b >= 1 /\ s - b >= 1 /\ A # <<>> /\ D # <<>>
  <2>1. A # <<>> /\ D # <<>>
    BY <1>2 DEF NoSingle
  <2>2. Len(A) # 0 /\ Len(D) # 0 /\ Len(D) \in Nat
    BY <1>5, <2>1
  <2> QED BY <1>6, <2>1, <2>2
<1>8. NoSingle(L)
  <2>1. L # <<>>
    <3>1. Len(L) # 0
      BY <1>6, <1>7
    <3> QED BY <3>1
  <2>2. Len(L) % TsBlock # 1
    <3> DEFINE T == TsBlock
               l == Len(L)
    <3>1. T \in Nat \ {0} /\ T % 2 = 0
      <4>1. DeltaCountBits \in 0..WordBits
        BY WidthsAre
      <4>2. T \in 2..Power[DeltaCountBits] /\ T % 2 = 0 /\ Power[DeltaCountBits] \in Nat
        BY <4>1, PowerIs, TsBlockAssumption
      <4> QED BY <4>2
    <3>2. l = 2 * s
      BY <1>6
    <3> HIDE DEF T, l
    <3>3. l \div T \in Int /\ l = ((l \div T) * T) + (l % T)
      <4>1. l \in Int
        BY <1>6, <3>2
      <4> QED BY <3>1, <4>1, Division, Zenon
    <3> SUFFICES ASSUME l % T = 1 PROVE FALSE
      BY DEF T, l
    <3> DEFINE q == l \div T
    <3>4. q \in Int /\ l = (q * T) + 1
      BY <3>3
    <3> HIDE DEF q
    <3> DEFINE t == T \div 2
    <3>5. T = t * 2 /\ t \in Int
      <4>1. t \in Int /\ T = (t * 2) + (T % 2)
        BY <3>1, Division
      <4> QED BY <3>1, <4>1
    <3> HIDE DEF t
    <3>6. q * T = 2 * (q * t)
      BY <3>4, <3>5
    <3> DEFINE u == q * t
    <3>7. u \in Int /\ 2 * s = (2 * u) + 1
      BY <3>2, <3>4, <3>5, <3>6
    <3> HIDE DEF u
    <3> QED BY <1>6, <3>7
  <2> QED BY <2>1, <2>2 DEF NoSingle
<1>9. L # <<>>
  BY <1>8 DEF NoSingle
<1>10. Len(L) < HalfWord /\ Len(A) < HalfWord /\ Len(D) < HalfWord /\ Len(block) < HalfWord
  <2>1. Len(L) < HalfWord /\ Len(block) < HalfWord
    BY <1>2 DEF Counted, HalfWord
  <2> QED BY <1>6, <1>7, <2>1, HalfWordIs
<1>11. ListRead(L) /\ ListRead(A) /\ ListRead(D)
  BY <1>2, <1>5, <1>7, <1>8, <1>9, <1>10, StepsToStepped, Zenon DEF ListRead
<1>12. n >= 1
  <2>1. CASE n = 0
    <3>1. SizesTo(block, 0) = 0
      BY ReachIs
    <3>2. s = 0
      BY <2>1, <3>1 DEF s
    <3> QED BY <1>6, <1>7, <3>2
  <2> QED BY <1>1, <2>1
<1>13. n <= Len(block) /\ Len(RawLines(block)) <= Len(block)
  <2>1. n = Rk(Zeros(block), Len(block)) /\ Len(RawLines(block)) = Rk(Ones(block), Len(block))
    BY RecordsPicked DEF n
  <2>2. Len(block) \in Nat /\ Len(block) \in 0..Len(block)
    OBVIOUS
  <2>3. Rk(Zeros(block), Len(block)) <= Len(block) /\ Rk(Ones(block), Len(block)) <= Len(block)
    <3>1. Ranks(Zeros(block), Len(block)) /\ Ranks(Ones(block), Len(block))
      BY <2>2, RanksAre
    <3> QED BY <2>2, <3>1, Zenon DEF Ranks
  <2> QED BY <2>1, <2>3, Zenon
<1>14. \A i \in 1..n : Begins(block)[i] < Power[Most(WordBits - 1)] /\ S[i] < Power[Most(WordBits - 1)]
  <2>1. WordBits - 1 \in 1..WordBits
    BY ByteIs
  <2>2. Widest(WordBits - 1) = Power[Most(WordBits - 1)]
    BY <2>1, MostIs
  <2>3. DOMAIN Begins(block) = 1..n /\ DOMAIN S = 1..n
    BY <1>1
  <2> QED BY <1>2, <2>2, <2>3, Zenon DEF Packs
<1> QED BY <1>6, <1>10, <1>11, <1>12, <1>13, <1>14, Zenon DEF FactsOf, n, S, L, A, D, s, b

(* The fields of a block, as calls and as bits.                               *)
FieldCalls(block) ==
  <<PutCounts(block), PutMethods(block), PutBegins(block), PutSizes(block),
    PutLengths(block), PutPositions(block), PutTexts(block), PutRaws(block)>>

CountsBits(block) == Bits(Len(Coded(block)), WordBits) \o Bits(Len(RawLines(block)), WordBits)
MethodsBits(block) == BytesBits(RleEncode(Methods(block)).bits) \o Bits(RleEncode(Methods(block)).runs, WordBits)
PackBits(list) == IF list = <<>> THEN Bits(0, LengthBits) ELSE BytesBits(BitPackingEncode(list))
DiffBits(list) == IF list = <<>> THEN <<>> ELSE ListBits(list)
TextBits(text) == FlattenSeq(AllBits(text, ByteBits))

FieldBits(block) ==
  <<CountsBits(block), MethodsBits(block), PackBits(Begins(block)), PackBits(OperationSizes(block)),
    DiffBits(LengthList(block)), DiffBits(PositionBegins(block)) \o DiffBits(PositionDeltas(block)),
    TextBits(CodedText(block)), TextBits(RawText(block))>>

(* The two counts are a piece.                                               *)
LEMMA PieceCounts ==
  ASSUME NEW block \in Seq(Records)
  PROVE  Piece(PutCounts(block), CountsBits(block))
<1>1. Len(Coded(block)) \in Int /\ Len(RawLines(block)) \in Int
  <2>1. Coded(block) \in Seq(CodedRecords) /\ RawLines(block) \in Seq(RawRecords)
    BY RecordsPicked
  <2> QED BY <2>1
<1>2. /\ Piece(Put(Len(Coded(block)), WordBits), Bits(Len(Coded(block)), WordBits))
      /\ Piece(Put(Len(RawLines(block)), WordBits), Bits(Len(RawLines(block)), WordBits))
  BY <1>1, WidthsAre, PieceOne
<1> QED BY <1>2, PieceJoin, Zenon DEF PutCounts, CountsBits

(* Run lengths fill whole bytes, and are no more than the list is long.      *)
LEMMA RleTyped ==
  ASSUME NEW list \in BitSeq, Len(list) < HalfWord
  PROVE  /\ RleEncode(list).bits \in BitSeq /\ Len(RleEncode(list).bits) % ByteBits = 0
         /\ RleEncode(list).runs \in Nat /\ RleEncode(list).runs <= Len(list)
<1>1. CASE list = <<>>
  <2>1. RleEncode(list) = [bits |-> <<>>, runs |-> 0]
    BY <1>1, Zenon DEF RleEncode
  <2>2. <<>> \in BitSeq /\ Len(<<>>) = 0 /\ 0 % ByteBits = 0
    BY ByteIs DEF BitSeq
  <2> QED BY <1>1, <2>1, <2>2
<1>2. CASE list # <<>>
  <2>1. /\ RunBits(list) \in BitSeq /\ RunsOf(list)
        /\ RleEncode(list).bits = PadBits(RunBits(list)) /\ RleEncode(list).runs = Len(RunLengths(list))
    BY <1>2, RleIs DEF HalfWord
  <2>2. PadBits(RunBits(list)) \in BitSeq /\ Len(PadBits(RunBits(list))) % ByteBits = 0
    <3>1. Len(RunBits(list)) \in Nat
      BY <2>1 DEF BitSeq
    <3> QED BY <2>1, <3>1, PaddedIs, Rounded
  <2>3. Len(RunLengths(list)) \in 1..Len(list)
    BY <2>1, Zenon DEF RunsOf
  <2> QED BY <2>1, <2>2, <2>3
<1> QED BY <1>1, <1>2

(* The methods are a piece.                                                  *)
LEMMA PieceMethods ==
  ASSUME NEW block \in Seq(Records), Len(block) < HalfWord
  PROVE  Piece(PutMethods(block), MethodsBits(block))
<1> DEFINE rle == RleEncode(Methods(block))
<1>1. Methods(block) \in BitSeq /\ Len(Methods(block)) < HalfWord
  BY ListsAre, Zenon DEF ListsOf
<1>2. rle.bits \in BitSeq /\ Len(rle.bits) % ByteBits = 0 /\ rle.runs \in Nat
  BY <1>1, RleTyped, Zenon
<1> HIDE DEF rle
<1>3. Piece(PutBytes(rle.bits), BytesBits(rle.bits))
  BY <1>2, PieceOfBytes
<1>4. Piece(Put(rle.runs, WordBits), Bits(rle.runs, WordBits))
  BY <1>2, WidthsAre, PieceOne
<1>5. Piece(PutBytes(rle.bits) \o Put(rle.runs, WordBits), BytesBits(rle.bits) \o Bits(rle.runs, WordBits))
  BY <1>3, <1>4, PieceJoin, Zenon
<1> QED BY <1>5, Zenon DEF PutMethods, MethodsBits, rle

(* A text is a piece.                                                        *)
LEMMA PieceText ==
  ASSUME NEW text \in Seq(Byte)
  PROVE  Piece(PutAll(text, ByteBits), TextBits(text))
<1>1. text \in Seq(Int) /\ Len(text) \in Nat
  <2>1. \A x \in Byte : x \in Int
    BY DEF Byte
  <2> QED BY <2>1
<1>2. (Len(text) * ByteBits) % ByteBits = 0
  <2>1. ((Len(text) * ByteBits) + 0) % ByteBits = 0
    <3>1. ByteBits \in Nat \ {0} /\ 0 \in 0..(ByteBits - 1) /\ Len(text) \in Int
      BY <1>1, ByteIs
    <3> QED BY <3>1, Quotients
  <2> QED BY <1>1, <2>1, ByteIs
<1>3. ByteBits \in 1..WordBits /\ ByteBits <= (3 * ByteBits) + 1
  BY ByteIs
<1> QED BY <1>1, <1>2, <1>3, PieceAll, Zenon DEF TextBits

(* A list of differences is a piece.                                         *)
LEMMA PieceDiff ==
  ASSUME NEW list, ListRead(list)
  PROVE  Piece(Ts2DiffEncode(list), DiffBits(list)) /\ list # <<>> /\ DiffBits(list) = ListBits(list)
<1>1. (3 * ByteBits) + 1 \in 1..WordBits
  BY ByteIs
<1> DEFINE top == (3 * ByteBits) + 1
           m == Most(top)
<1>2. m \in 1..WordBits /\ m < Power[WidthBits] /\ m \in 1..top
  BY <1>1, MostIs
<1>3. m <= top
  BY <1>2
<1>4. list \in Seq(Int) /\ NoSingle(list) /\ Stepped(list, m) /\ list # <<>>
  BY DEF ListRead, NoSingle
<1>5. Piece(Ts2DiffEncode(list), ListBits(list))
  <2> HIDE DEF m
  <2> QED BY <1>2, <1>3, <1>4, PieceOfList, Zenon DEF top
<1> QED BY <1>4, <1>5, Zenon DEF DiffBits

(* Each of the eight fields of a block is a piece.                           *)
LEMMA FieldsArePieces ==
  ASSUME NEW block, Good(block)
  PROVE  \A k \in 1..8 : Piece(FieldCalls(block)[k], FieldBits(block)[k])
<1>1. block \in Seq(Records)
  BY DEF Good
<1>2. Len(block) < HalfWord
  <2>1. CASE block = <<>>
    BY <2>1, HalfWordIs
  <2>2. CASE block # <<>>
    BY <2>2, FactsAre DEF Good, FactsOf
  <2> QED BY <2>1, <2>2
<1>3. Piece(PutCounts(block), CountsBits(block)) /\ Piece(PutMethods(block), MethodsBits(block))
  BY <1>1, <1>2, PieceCounts, PieceMethods, Zenon
<1>4. CodedText(block) \in Seq(Byte) /\ RawText(block) \in Seq(Byte)
  <2>1. /\ CodedText(block) = FlattenSeq(TextPieces(block)) /\ TextPieces(block) \in Seq(Seq(Byte))
        /\ RawText(block) = FlattenSeq(LinePieces(block)) /\ LinePieces(block) \in Seq(Seq(Byte))
    BY <1>1, ListsAre, Zenon DEF ListsOf, Made
  <2> QED BY <2>1, FlatHasAll, Zenon
<1>5. /\ Piece(PutTexts(block), TextBits(CodedText(block)))
      /\ Piece(PutRaws(block), TextBits(RawText(block)))
  BY <1>4, PieceText, Zenon DEF PutTexts, PutRaws
<1>6. /\ Piece(PutBegins(block), PackBits(Begins(block)))
      /\ Piece(PutSizes(block), PackBits(OperationSizes(block)))
      /\ Piece(PutLengths(block), DiffBits(LengthList(block)))
      /\ Piece(PutPositions(block), DiffBits(PositionBegins(block)) \o DiffBits(PositionDeltas(block)))
  <2>0. /\ Begins(block) \in Seq(Nat) /\ Len(Begins(block)) = Len(Coded(block))
        /\ OperationSizes(block) \in Seq(Nat) /\ Len(OperationSizes(block)) = Len(Coded(block))
        /\ Coded(block) \in Seq(CodedRecords)
    BY <1>1, ListsAre, Zenon DEF ListsOf
  <2>1. CASE block = <<>>
    <3>1. Len(Coded(block)) = 0
      <4>1. Len(Coded(block)) = Rk(Zeros(block), Len(block)) /\ Len(block) = 0
        BY <1>1, <2>1, RecordsPicked
      <4>2. Rk(Zeros(block), 0) = 0
        BY RanksAre DEF Ranks
      <4> QED BY <4>1, <4>2
    <3>2. Coded(block) = <<>> /\ Begins(block) = <<>> /\ OperationSizes(block) = <<>>
      <4> DEFINE c == Coded(block)
                 u == Begins(block)
                 v == OperationSizes(block)
      <4>1. c \in Seq(CodedRecords) /\ u \in Seq(Nat) /\ v \in Seq(Nat) /\ Len(c) = 0 /\ Len(u) = 0 /\ Len(v) = 0
        BY <2>0, <3>1
      <4> HIDE DEF c, u, v
      <4>2. c = <<>> /\ u = <<>> /\ v = <<>>
        BY <4>1
      <4> QED BY <4>2 DEF c, u, v
    <3>3. Piece(PutBegins(block), PackBits(Begins(block))) /\ Piece(PutSizes(block), PackBits(OperationSizes(block)))
      BY <3>2, PieceNothingPacked, Zenon DEF PutBegins, PutSizes, PackBits
    <3>4. LengthList(block) = <<>> /\ PositionBegins(block) = <<>> /\ PositionDeltas(block) = <<>>
      <4> DEFINE L == LengthList(block)
                 A == PositionBegins(block)
                 D == PositionDeltas(block)
      <4>1. /\ L = FlattenSeq(LenPieces(block)) /\ Len(LenPieces(block)) = 0 /\ LenPieces(block) \in Seq(Seq(Nat))
            /\ A = FlattenSeq(PosPieces(block)) /\ Len(PosPieces(block)) = 0 /\ PosPieces(block) \in Seq(Seq(Nat))
            /\ D = FlattenSeq(StepPieces(block)) /\ Len(StepPieces(block)) = 0 /\ StepPieces(block) \in Seq(Seq(Int))
        BY <1>1, <3>1, ListsAre, Zenon DEF ListsOf, Made
      <4>2. LenPieces(block) = <<>> /\ PosPieces(block) = <<>> /\ StepPieces(block) = <<>>
        BY <4>1
      <4> QED BY <4>1, <4>2, FlattenNone, Zenon
    <3>5. PutLengths(block) = <<>> /\ DiffBits(LengthList(block)) = <<>>
      BY <3>2, <3>4, Zenon DEF PutLengths, DiffBits
    <3>6. PutPositions(block) = <<>> \o <<>> /\ DiffBits(PositionBegins(block)) = <<>> /\ DiffBits(PositionDeltas(block)) = <<>>
      BY <3>4, Zenon DEF PutPositions, PutNonempty, DiffBits
    <3>7. Piece(<<>> \o <<>>, <<>> \o <<>>)
      BY PieceNone, PieceJoin, Zenon
    <3> QED BY <3>3, <3>5, <3>6, <3>7, PieceNone, Zenon
  <2>2. CASE block # <<>>
    <3>1. FactsOf(block)
      BY <1>1, <2>2, FactsAre DEF Good
    <3>2. WordBits - 1 \in 1..WordBits
      BY ByteIs
    <3> DEFINE m == Most(WordBits - 1)
    <3>3. m \in 1..WordBits /\ m < Power[WidthBits]
      BY <3>2, MostIs
    <3>4. /\ Begins(block) # <<>> /\ OperationSizes(block) # <<>> /\ Coded(block) # <<>>
      <4>1. Len(Coded(block)) >= 1
        BY <3>1 DEF FactsOf
      <4> QED BY <2>0, <4>1
    <3>5. /\ \A i \in 1..Len(Begins(block)) : Begins(block)[i] < Power[m]
          /\ \A i \in 1..Len(OperationSizes(block)) : OperationSizes(block)[i] < Power[m]
      BY <2>0, <3>1, Zenon DEF FactsOf
    <3> HIDE DEF m
    <3>6. Piece(PutBegins(block), PackBits(Begins(block)))
      BY <2>0, <3>3, <3>4, <3>5, PiecePacked, Zenon DEF PutBegins, PackBits
    <3>7. Piece(PutSizes(block), PackBits(OperationSizes(block)))
      BY <2>0, <3>3, <3>4, <3>5, PiecePacked, Zenon DEF PutSizes, PackBits
    <3>8. /\ Piece(Ts2DiffEncode(LengthList(block)), DiffBits(LengthList(block)))
          /\ Piece(Ts2DiffEncode(PositionBegins(block)), DiffBits(PositionBegins(block)))
          /\ Piece(Ts2DiffEncode(PositionDeltas(block)), DiffBits(PositionDeltas(block)))
          /\ PositionBegins(block) # <<>> /\ PositionDeltas(block) # <<>>
      BY <3>1, PieceDiff, Zenon DEF FactsOf
    <3>9. Piece(PutLengths(block), DiffBits(LengthList(block)))
      BY <3>4, <3>8, Zenon DEF PutLengths
    <3>10. PutPositions(block) = Ts2DiffEncode(PositionBegins(block)) \o Ts2DiffEncode(PositionDeltas(block))
      BY <3>8, Zenon DEF PutPositions, PutNonempty
    <3>11. Piece(PutPositions(block), DiffBits(PositionBegins(block)) \o DiffBits(PositionDeltas(block)))
      BY <3>8, <3>10, PieceJoin, Zenon
    <3> QED BY <3>6, <3>7, <3>9, <3>11
  <2> QED BY <2>1, <2>2
<1>7. ASSUME NEW k \in 1..8 PROVE Piece(FieldCalls(block)[k], FieldBits(block)[k])
  <2> DEFINE c1 == PutCounts(block)
             c2 == PutMethods(block)
             c3 == PutBegins(block)
             c4 == PutSizes(block)
             c5 == PutLengths(block)
             c6 == PutPositions(block)
             c7 == PutTexts(block)
             c8 == PutRaws(block)
             b1 == CountsBits(block)
             b2 == MethodsBits(block)
             b3 == PackBits(Begins(block))
             b4 == PackBits(OperationSizes(block))
             b5 == DiffBits(LengthList(block))
             b6 == DiffBits(PositionBegins(block)) \o DiffBits(PositionDeltas(block))
             b7 == TextBits(CodedText(block))
             b8 == TextBits(RawText(block))
  <2>1. FieldCalls(block) = <<c1, c2, c3, c4, c5, c6, c7, c8>> /\ FieldBits(block) = <<b1, b2, b3, b4, b5, b6, b7, b8>>
    BY Zenon DEF FieldCalls, FieldBits
  <2>2. /\ Piece(c1, b1) /\ Piece(c2, b2) /\ Piece(c3, b3) /\ Piece(c4, b4)
        /\ Piece(c5, b5) /\ Piece(c6, b6) /\ Piece(c7, b7) /\ Piece(c8, b8)
    BY <1>3, <1>5, <1>6, Zenon
  <2>3. k \in {1, 2, 3, 4, 5, 6, 7, 8}
    OBVIOUS
  <2> HIDE DEF c1, c2, c3, c4, c5, c6, c7, c8, b1, b2, b3, b4, b5, b6, b7, b8
  <2> QED BY <2>1, <2>2, <2>3
<1> QED BY <1>7

(***************************************************************************)
(* A block as a whole                                                      *)
(***************************************************************************)
LEMMA FieldLists ==
  ASSUME NEW block, Good(block)
  PROVE  /\ FieldCalls(block) \in Seq(Seq(CallSet)) /\ Len(FieldCalls(block)) = 8
         /\ FieldBits(block) \in Seq(BitSeq) /\ Len(FieldBits(block)) = 8
<1> DEFINE C == FieldCalls(block)
           P == FieldBits(block)
<1>1. C = [k \in 1..8 |-> C[k]] /\ P = [k \in 1..8 |-> P[k]]
  BY DEF FieldCalls, FieldBits
<1>2. \A k \in 1..8 : Piece(C[k], P[k])
  BY FieldsArePieces
<1> HIDE DEF C, P
<1>3. \A k \in 1..8 : C[k] \in Seq(CallSet) /\ P[k] \in BitSeq
  BY <1>2, PieceTyped, Zenon DEF Piece
<1>4. 8 \in Nat
  OBVIOUS
<1>5. C \in Seq(Seq(CallSet)) /\ Len(C) = 8
  BY <1>1, <1>3, <1>4, SeqMade, Zenon
<1>6. P \in Seq(BitSeq) /\ Len(P) = 8
  BY <1>1, <1>3, <1>4, SeqMade, Zenon
<1> QED BY <1>5, <1>6 DEF C, P

(* So are the first k fields together.                                       *)
LEMMA FirstFieldsAre ==
  ASSUME NEW block, Good(block), NEW k \in 0..8
  PROVE  Piece(FirstFields(block, k), FlatTo(FieldBits(block), k))
<1> DEFINE C == FieldCalls(block)
           P == FieldBits(block)
           c == SubSeq(C, 1, k)
           p == SubSeq(P, 1, k)
<1>1. /\ C \in Seq(Seq(CallSet)) /\ Len(C) = 8 /\ P \in Seq(BitSeq) /\ Len(P) = 8
  BY FieldLists
<1>2. \A j \in 1..8 : Piece(C[j], P[j])
  BY FieldsArePieces
<1>3. FirstFields(block, k) = FlattenSeq(c)
  BY Zenon DEF FirstFields, FieldCalls
<1> HIDE DEF C, P
<1>4. /\ c \in Seq(Seq(CallSet)) /\ Len(c) = k /\ \A j \in 1..k : c[j] = C[j]
      /\ p \in Seq(BitSeq) /\ Len(p) = k /\ \A j \in 1..k : p[j] = P[j]
  <2>1. k \in 0..Len(C) /\ k \in 0..Len(P)
    BY <1>1
  <2>2. c \in Seq(Seq(CallSet)) /\ Len(c) = k /\ \A j \in 1..k : c[j] = C[j]
    BY <1>1, <2>1, PrefixIs
  <2>3. p \in Seq(BitSeq) /\ Len(p) = k /\ \A j \in 1..k : p[j] = P[j]
    BY <1>1, <2>1, PrefixIs
  <2> QED BY <2>2, <2>3
<1> HIDE DEF c, p
<1>5. \A j \in 1..k : j \in 1..8
  OBVIOUS
<1>6. \A j \in 1..Len(c) : Piece(c[j], p[j])
  BY <1>2, <1>4, <1>5, Zenon
<1>7. Piece(FlattenSeq(c), FlattenSeq(p))
  BY <1>4, <1>6, PiecesFlat, Zenon
<1> QED BY <1>3, <1>7, Zenon DEF FlatTo, p, P

StreamOf(block) == FlattenSeq(FieldBits(block))

(* A block is a piece: its bits do not depend on where in the archive it     *)
(* starts, and no field of it overflows the register.                        *)
LEMMA BlockIsPiece ==
  ASSUME NEW block, Good(block)
  PROVE  /\ Piece(Calls(block), StreamOf(block)) /\ RegisterHolds(Calls(block))
         /\ Encoded(block) = StreamOf(block) /\ Size(Calls(block)) = Len(StreamOf(block))
         /\ StreamOf(block) \in BitSeq
<1> DEFINE c == FirstFields(block, 8)
           s == StreamOf(block)
<1>1. FieldBits(block) \in Seq(BitSeq) /\ Len(FieldBits(block)) = 8
  BY FieldLists
<1>2. FlatTo(FieldBits(block), 8) = s
  <2>1. Flats(FieldBits(block), {0, 1})
    BY <1>1, FlatsAre DEF BitSeq
  <2> QED BY <1>1, <2>1, Zenon DEF Flats, StreamOf
<1>3. Piece(c, s)
  <2>1. 8 \in 0..8
    OBVIOUS
  <2> QED BY <1>2, <2>1, FirstFieldsAre, Zenon
<1>4. Calls(block) = c \o PackMark
  <2>1. Len(Fields) = 8
    BY DEF Fields
  <2> QED BY <2>1 DEF Calls
<1> HIDE DEF c, s
<1>5. s \in BitSeq /\ Len(s) = Size(c) /\ Len(s) % ByteBits = 0
  BY <1>3, PieceTyped, Zenon
<1>6. PadBits(s) = s
  BY <1>5, PaddedIs
<1>7. Piece(c \o PackMark, s)
  BY <1>3, <1>6, PartOfPiece, PartMarked, Zenon
<1>8. Len(s) = Size(Calls(block))
  BY <1>4, <1>7, PieceTyped, Zenon
<1> QED BY <1>4, <1>5, <1>7, <1>8, Zenon DEF Piece, Encoded, s

(* An archive of carried records has carried blocks, and an empty block only *)
(* at its end.                                                               *)
LEMMA GoodArchive ==
  ASSUME CarriedArchives, NEW a \in Archives
  PROVE  /\ a \in Seq(Seq(Records)) /\ \A b \in 1..Len(a) : Good(a[b])
         /\ \A b \in 1..Len(a) : a[b] = <<>> => b = Len(a)
<1>1. a \in Seq(Seq(Records)) /\ CarriedArchive(a)
  BY ArchivesAssumption DEF CarriedArchives
<1>2. DOMAIN a = 1..Len(a) /\ \A b \in 1..Len(a) : a[b] \in Seq(Records)
  BY <1>1
<1>3. \A b \in 1..Len(a) : IF a[b] = <<>> THEN b = Len(a) ELSE Carried(a[b]) /\ Numbered(a[b])
  BY <1>1, <1>2, Zenon DEF CarriedArchive
<1> QED BY <1>1, <1>2, <1>3, Zenon DEF Good

(* The blocks stay, and no more of them are appended than there are.          *)
WInv == blocks \in Archives /\ written \in Nat /\ written <= Len(blocks)

(* Initially,                                                                *)
LEMMA WInvInit == ASSUME Init PROVE WInv
<1>1. Len(blocks) \in Nat
  BY ArchivesAssumption DEF Init
<1> QED BY <1>1 DEF Init, WInv

(* and with every step, what is written are the first blocks.                *)
LEMMA WInvNext == ASSUME WInv, [Next]_vars PROVE WInv'
<1>1. Len(blocks) \in Nat
  BY ArchivesAssumption DEF WInv
<1>2. CASE AppendBlock
  BY <1>1, <1>2 DEF AppendBlock, WInv
<1>3. ASSUME UNCHANGED <<blocks, written>> PROVE WInv'
  BY <1>3 DEF WInv
<1>4. CASE Decode
  <2>1. UNCHANGED <<blocks, written>>
    BY <1>4, Zenon DEF Decode, DecodeCounts, DecodeMethods, DecodeBegins, DecodeSizes, DecodePacked, DecodeLengths,
          DecodePositions, DecodeTexts, DecodeRaws, Reading
  <2> QED BY <1>3, <2>1
<1>5. CASE Ended \/ UNCHANGED vars
  BY <1>3, <1>5 DEF Ended, vars
<1> QED BY <1>2, <1>4, <1>5 DEF Next

(* No field of an appended block overflows the register, wherever in a byte  *)
(* it starts.                                                                *)
THEOREM RegisterFits == CarriedArchives => (Spec => []FitsRegister)
<1> SUFFICES ASSUME CarriedArchives PROVE Spec => []FitsRegister
  OBVIOUS
<1>1. Init => WInv
  BY WInvInit
<1>2. WInv /\ [Next]_vars => WInv'
  BY WInvNext
<1>3. WInv => FitsRegister
  <2> SUFFICES ASSUME WInv, NEW b \in 1..written PROVE RegisterHolds(Calls(blocks[b]))
    BY DEF FitsRegister
  <2>1. b \in 1..Len(blocks) /\ blocks \in Archives
    <3>1. Len(blocks) \in Nat
      BY ArchivesAssumption DEF WInv
    <3> QED BY <3>1 DEF WInv
  <2>2. Good(blocks[b])
    BY <2>1, GoodArchive
  <2> QED BY <2>2, BlockIsPiece, Zenon
<1> QED BY <1>1, <1>2, <1>3, PTL DEF Spec

(***************************************************************************)
(* Folding                                                                 *)
(***************************************************************************)
LEMMA TheOnly ==
  ASSUME NEW e
  PROVE  (CHOOSE y \in {e} : TRUE) = e
OBVIOUS

RleNext(bits, before, r) ==
  LET zeros  == {i \in (before.at + 1)..Len(bits) : bits[i] = 0}
      zero   == Min(zeros)
      n      == zero - before.at + 1
      length == Num(Field(bits, zero, n))
      value  == IF r % 2 = 1 THEN bits[1] ELSE 1 - bits[1]
  IN  IF before.status # "ok" \/ before.at >= Len(bits) THEN before
      ELSE IF zeros = {} THEN Failed("error")
      ELSE IF ~Has(bits, zero, n) \/ length = 0 THEN Failed("error")
      ELSE [status |-> "ok", at |-> zero + n,
            list |-> before.list \o [i \in 1..length |-> value]]

(* What RleDecode has read run by run, and with every run read, the whole.  *)
RleStart == [status |-> "ok", list |-> <<>>, at |-> 1]
RleReads(bits, n, run) ==
  run[0] = RleStart /\ \A k \in 1..n : RleNext(bits, run[k - 1], k) = run[k]

(* Reading run by run is RleDecode.                                          *)
LEMMA RleFolds ==
  ASSUME NEW bits, bits # <<>>, NEW n \in Nat, NEW run, RleReads(bits, n, run)
  PROVE  RleDecode(bits, n) = run[n]
<1> DEFINE start == RleStart
           Up(f) == f = [i \in 0..n |-> IF i = 0 THEN start
                                        ELSE CHOOSE y \in {RleNext(bits, u, i) : u \in {f[i - 1]}} : TRUE]
           c == CHOOSE f : Up(f)
           g == [i \in 0..n |-> run[i]]
           H == {k \in 0..n : c[k] = run[k]}
<1>0. run[0] = RleStart /\ \A k \in 1..n : RleNext(bits, run[k - 1], k) = run[k]
  BY DEF RleReads
<1>1. RleDecode(bits, n) = c[n]
  BY DEF RleDecode, FoldUp, With, RleNext, RleStart
<1>2. Up(g)
  <2>1. ASSUME NEW i \in 1..n PROVE (CHOOSE y \in {RleNext(bits, u, i) : u \in {g[i - 1]}} : TRUE) = run[i]
    <3>1. g[i - 1] = run[i - 1] BY <2>1
    <3>2. {RleNext(bits, u, i) : u \in {g[i - 1]}} = {run[i]} BY <3>1, <2>1, <1>0, Zenon
    <3> QED BY <3>2, TheOnly, Zenon
  <2>2. \A i \in 0..n : i = 0 \/ i \in 1..n OBVIOUS
  <2>3. \A i \in 0..n : g[i] = IF i = 0 THEN start
                                 ELSE CHOOSE y \in {RleNext(bits, u, i) : u \in {g[i - 1]}} : TRUE
    BY <2>1, <2>2, <1>0, Zenon
  <2> QED BY <2>3, Zenon
<1>3. Up(c) BY <1>2, Zenon
<1> HIDE DEF c, start, g
<1>4. 0 \in H
  <2>1. c[0] = start BY <1>3
  <2> QED BY <2>1, <1>0 DEF start
<1>5. ASSUME NEW k \in 1..n, k - 1 \in H PROVE k \in H
  <2>1. c[k] = CHOOSE y \in {RleNext(bits, u, k) : u \in {c[k - 1]}} : TRUE
    <3>1. k \in 0..n /\ k # 0 OBVIOUS
    <3> QED BY <3>1, <1>3, Zenon
  <2>2. c[k - 1] = run[k - 1] BY <1>5
  <2>3. {RleNext(bits, u, k) : u \in {c[k - 1]}} = {run[k]} BY <2>2, <1>0, Zenon
  <2>4. c[k] = run[k] BY <2>1, <2>3, TheOnly, Zenon
  <2> QED BY <2>4
<1>6. \A k \in 0..n : k \in H BY <1>4, <1>5, CountUp, Zenon
<1>7. n \in 0..n OBVIOUS
<1> QED BY <1>1, <1>6, <1>7, Zenon

(* A block of a list read after those before it.                            *)
TsRead(before, block) ==
  IF block.status # "ok" THEN block ELSE [block EXCEPT !.list = before.list \o block.list]
TsNext(s, before) ==
  IF before.status # "ok" THEN before
  ELSE CHOOSE y \in {TsRead(before, block) : block \in {DecodeTsBlock(s, before.at)}} : TRUE
TsStart(at) == [status |-> "ok", list |-> <<>>, at |-> at + WordBits]
TsEnd(s, r) ==
  IF r.status # "ok" THEN r
  ELSE IF Aligned(r.at) > Len(s) THEN Failed("eof")
  ELSE [r EXCEPT !.at = Aligned(r.at)]

(* With every block read by TsNext, the whole is read.                      *)
LEMMA TsFolds ==
  ASSUME NEW s, NEW at, NEW n \in Nat, Int32(Field(s, at, WordBits)) = n, Has(s, at, WordBits),
         NEW run, run[0] = TsStart(at), \A k \in 1..n : TsNext(s, run[k - 1]) = run[k]
  PROVE  Ts2DiffDecode(s, at) = TsEnd(s, run[n])
<1> DEFINE Up(f) == f = [i \in 0..n |-> IF i = 0 THEN TsStart(at)
                                        ELSE CHOOSE y \in {TsNext(s, u) : u \in {f[i - 1]}} : TRUE]
           c == CHOOSE f : Up(f)
           g == [i \in 0..n |-> run[i]]
           H == {k \in 0..n : c[k] = run[k]}
<1>1. Ts2DiffDecode(s, at) = CHOOSE y \in {TsEnd(s, r) : r \in {c[n]}} : TRUE
  <2>1. ~(n < 0) OBVIOUS
  <2> QED BY <2>1, Zenon DEF Ts2DiffDecode, FoldUp, With, TsNext, TsRead, TsStart, TsEnd
<1>2. Up(g)
  <2>1. ASSUME NEW i \in 1..n PROVE (CHOOSE y \in {TsNext(s, u) : u \in {g[i - 1]}} : TRUE) = run[i]
    <3>1. g[i - 1] = run[i - 1] BY <2>1
    <3>2. {TsNext(s, u) : u \in {g[i - 1]}} = {run[i]} BY <3>1, <2>1, Zenon
    <3> QED BY <3>2, TheOnly, Zenon
  <2>2. \A i \in 0..n : i = 0 \/ i \in 1..n OBVIOUS
  <2>3. \A i \in 0..n : g[i] = IF i = 0 THEN TsStart(at)
                                 ELSE CHOOSE y \in {TsNext(s, u) : u \in {g[i - 1]}} : TRUE
    BY <2>1, <2>2, Zenon
  <2> QED BY <2>3, Zenon
<1>3. Up(c) BY <1>2, Zenon
<1> HIDE DEF c, g
<1>4. 0 \in H
  <2>1. c[0] = TsStart(at) BY <1>3
  <2> QED BY <2>1
<1>5. ASSUME NEW k \in 1..n, k - 1 \in H PROVE k \in H
  <2>1. c[k] = CHOOSE y \in {TsNext(s, u) : u \in {c[k - 1]}} : TRUE
    <3>1. k \in 0..n /\ k # 0 OBVIOUS
    <3> QED BY <3>1, <1>3, Zenon
  <2>2. c[k - 1] = run[k - 1] BY <1>5
  <2>3. {TsNext(s, u) : u \in {c[k - 1]}} = {run[k]} BY <2>2, Zenon
  <2>4. c[k] = run[k] BY <2>1, <2>3, TheOnly, Zenon
  <2> QED BY <2>4
<1>6. \A k \in 0..n : k \in H BY <1>4, <1>5, CountUp, Zenon
<1>7. c[n] = run[n] BY <1>6
<1>8. {TsEnd(s, r) : r \in {c[n]}} = {TsEnd(s, run[n])} BY <1>7, Zenon
<1> QED BY <1>1, <1>8, TheOnly, Zenon

(***************************************************************************)
(* One block read                                                          *)
(***************************************************************************)
(* The fields of a block as bits.                                           *)
HeadFields(data) ==
  /\ Bits(data[1], WordBits) \in BitSeq /\ Len(Bits(data[1], WordBits)) = WordBits
  /\ Bits(LeastStep(data), WordBits) \in BitSeq /\ Len(Bits(LeastStep(data), WordBits)) = WordBits
  /\ Bits(Len(Deltas(data)), DeltaCountBits) \in BitSeq
  /\ Len(Bits(Len(Deltas(data)), DeltaCountBits)) = DeltaCountBits
  /\ Bits(StepWidth(data), WidthBits) \in BitSeq /\ Len(Bits(StepWidth(data), WidthBits)) = WidthBits
  /\ FlattenSeq(AllBits(Above(data), StepWidth(data))) \in BitSeq
  /\ BlockHead(data) \in BitSeq /\ Len(BlockHead(data)) = (2 * WordBits) + DeltaCountBits + WidthBits
  /\ BlockBits(data) \in BitSeq

(* The head of a block of differences, each field in its width.              *)
LEMMA HeadFieldsAre ==
  ASSUME NEW data, NEW m \in 1..WordBits, BlockRead(data, m), data[1] \in Words
  PROVE  HeadFields(data)
<1> DEFINE A == Bits(data[1], WordBits)
           B == Bits(LeastStep(data), WordBits)
           C == Bits(Len(Deltas(data)), DeltaCountBits)
           D == Bits(StepWidth(data), WidthBits)
           F == FlattenSeq(AllBits(Above(data), StepWidth(data)))
<1>1. A \in BitSeq /\ Len(A) = WordBits
  <2>1. data[1] \in Int /\ WordBits \in 0..WordBits BY WidthsAre, PowerIs DEF Words
  <2> QED BY <2>1, BitsAre, Zenon
<1>2. B \in BitSeq /\ Len(B) = WordBits
  <2>1. LeastStep(data) \in Int /\ WordBits \in 0..WordBits BY WidthsAre DEF BlockRead
  <2> QED BY <2>1, BitsAre, Zenon
<1>3. C \in BitSeq /\ Len(C) = DeltaCountBits
  <2>1. Len(Deltas(data)) \in Int BY DEF BlockRead
  <2>2. DeltaCountBits \in 0..WordBits BY WidthsAre
  <2> QED BY <2>1, <2>2, BitsAre, Zenon
<1>4. D \in BitSeq /\ Len(D) = WidthBits
  <2>1. StepWidth(data) \in Int BY WidthsAre DEF BlockRead
  <2>2. WidthBits \in 0..WordBits BY WidthsAre
  <2> QED BY <2>1, <2>2, BitsAre, Zenon
<1>5. F \in BitSeq
  <2>1. Above(data) \in Seq(Int) BY DEF BlockRead
  <2>2. StepWidth(data) \in 1..WordBits BY WidthsAre DEF BlockRead
  <2>3. AllBits(Above(data), StepWidth(data)) \in Seq(BitSeq) BY <2>1, <2>2, AllPut, Zenon
  <2>4. Flats(AllBits(Above(data), StepWidth(data)), {0, 1}) BY <2>3, FlatsAre, Zenon DEF BitSeq
  <2>5. Len(AllBits(Above(data), StepWidth(data))) \in 0..Len(AllBits(Above(data), StepWidth(data))) BY <2>3
  <2> QED BY <2>4, <2>5, Zenon DEF Flats, BitSeq
<1> HIDE DEF A, B, C, D, F
<1>6. BlockBits(data) = (((A \o B) \o C) \o D) \o F /\ BlockHead(data) = ((A \o B) \o C) \o D
  BY Zenon DEF BlockBits, BlockHead, A, B, C, D, F
<1>7. /\ A \o B \in BitSeq /\ Len(A \o B) = 2 * WordBits
      /\ (A \o B) \o C \in BitSeq /\ Len((A \o B) \o C) = (2 * WordBits) + DeltaCountBits
      /\ ((A \o B) \o C) \o D \in BitSeq
      /\ Len(((A \o B) \o C) \o D) = (2 * WordBits) + DeltaCountBits + WidthBits
  <2>0. WordBits \in Nat /\ DeltaCountBits \in Nat /\ WidthBits \in Nat BY WidthsAre
  <2>1. \A x, y \in BitSeq : x \o y \in BitSeq /\ Len(x \o y) = Len(x) + Len(y)
    BY DEF BitSeq
  <2>2. A \o B \in BitSeq /\ Len(A \o B) = WordBits + WordBits BY <2>1, <1>1, <1>2, Zenon
  <2>3. (A \o B) \o C \in BitSeq /\ Len((A \o B) \o C) = (WordBits + WordBits) + DeltaCountBits
    BY <2>1, <2>2, <1>3, Zenon
  <2>4. ((A \o B) \o C) \o D \in BitSeq
        /\ Len(((A \o B) \o C) \o D) = ((WordBits + WordBits) + DeltaCountBits) + WidthBits
    BY <2>1, <2>3, <1>4, Zenon
  <2> QED BY <2>0, <2>2, <2>3, <2>4
<1>8. BlockBits(data) \in BitSeq
  <2>1. \A x, y \in BitSeq : x \o y \in BitSeq BY DEF BitSeq
  <2> QED BY <2>1, <1>5, <1>6, <1>7, Zenon
<1> QED BY <1>1, <1>2, <1>3, <1>4, <1>5, <1>6, <1>7, <1>8, Zenon DEF HeadFields, A, B, C, D, F

(* The fields a block is written as, and where.                             *)
HeadFound(s, at, data) ==
  /\ Finds(s, at, Bits(data[1], WordBits))
  /\ Finds(s, at + WordBits, Bits(LeastStep(data), WordBits))
  /\ Finds(s, at + (2 * WordBits), Bits(Len(Deltas(data)), DeltaCountBits))
  /\ Finds(s, at + (2 * WordBits) + DeltaCountBits, Bits(StepWidth(data), WidthBits))
  /\ Finds(s, at + (2 * WordBits) + DeltaCountBits + WidthBits, FlattenSeq(AllBits(Above(data), StepWidth(data))))
  /\ Len(BlockHead(data)) = (2 * WordBits) + DeltaCountBits + WidthBits
  /\ FlattenSeq(AllBits(Above(data), StepWidth(data))) \in BitSeq
  /\ BlockHead(data) \in BitSeq

(* A block found, so is each field of its head.                              *)
LEMMA HeadIsFound ==
  ASSUME NEW s \in BitSeq, NEW at, NEW data, NEW m \in 1..WordBits, BlockRead(data, m),
         data[1] \in Words, Finds(s, at, BlockBits(data))
  PROVE  HeadFound(s, at, data)
<1> DEFINE A == Bits(data[1], WordBits)
           B == Bits(LeastStep(data), WordBits)
           C == Bits(Len(Deltas(data)), DeltaCountBits)
           D == Bits(StepWidth(data), WidthBits)
           F == FlattenSeq(AllBits(Above(data), StepWidth(data)))
<1>1. HeadFields(data) BY HeadFieldsAre, Zenon
<1>2. /\ A \in BitSeq /\ Len(A) = WordBits /\ B \in BitSeq /\ Len(B) = WordBits
      /\ C \in BitSeq /\ Len(C) = DeltaCountBits /\ D \in BitSeq /\ Len(D) = WidthBits /\ F \in BitSeq
  BY <1>1, Zenon DEF HeadFields
<1> HIDE DEF A, B, C, D, F
<1>3. BlockBits(data) = (((A \o B) \o C) \o D) \o F /\ BlockHead(data) = ((A \o B) \o C) \o D
  BY Zenon DEF BlockBits, BlockHead, A, B, C, D, F
<1>4. /\ A \o B \in BitSeq /\ Len(A \o B) = 2 * WordBits
      /\ (A \o B) \o C \in BitSeq /\ Len((A \o B) \o C) = (2 * WordBits) + DeltaCountBits
      /\ ((A \o B) \o C) \o D \in BitSeq
      /\ Len(((A \o B) \o C) \o D) = (2 * WordBits) + DeltaCountBits + WidthBits
  <2>0. WordBits \in Nat /\ DeltaCountBits \in Nat /\ WidthBits \in Nat BY WidthsAre
  <2>1. \A x, y \in BitSeq : x \o y \in BitSeq /\ Len(x \o y) = Len(x) + Len(y)
    BY DEF BitSeq
  <2>2. A \o B \in BitSeq /\ Len(A \o B) = WordBits + WordBits BY <2>1, <1>2
  <2>3. (A \o B) \o C \in BitSeq /\ Len((A \o B) \o C) = (WordBits + WordBits) + DeltaCountBits
    BY <2>1, <2>2, <1>2, Zenon
  <2>4. ((A \o B) \o C) \o D \in BitSeq
        /\ Len(((A \o B) \o C) \o D) = ((WordBits + WordBits) + DeltaCountBits) + WidthBits
    BY <2>1, <2>3, <1>2, Zenon
  <2> QED BY <2>0, <2>2, <2>3, <2>4
<1>5. Finds(s, at, (((A \o B) \o C) \o D) \o F) BY <1>3, Zenon
<1>6. FindsBoth(s, at, ((A \o B) \o C) \o D, F)
  BY <1>5, <1>2, <1>4, FindsSplit, Zenon DEF BitSeq
<1>7. FindsBoth(s, at, (A \o B) \o C, D)
  BY <1>6, <1>2, <1>4, FindsSplit, Zenon DEF BitSeq, FindsBoth
<1>8. FindsBoth(s, at, A \o B, C)
  BY <1>7, <1>2, <1>4, FindsSplit, Zenon DEF BitSeq, FindsBoth
<1>9. FindsBoth(s, at, A, B)
  BY <1>8, <1>2, FindsSplit, Zenon DEF BitSeq, FindsBoth
<1>10. at \in Nat BY <1>5, Zenon DEF Finds
<1>11. /\ Finds(s, at, A) /\ Finds(s, at + WordBits, B) /\ Finds(s, at + (2 * WordBits), C)
       /\ Finds(s, at + ((2 * WordBits) + DeltaCountBits), D)
       /\ Finds(s, at + ((2 * WordBits) + DeltaCountBits + WidthBits), F)
  BY <1>6, <1>7, <1>8, <1>9, <1>4, <1>2, Zenon DEF FindsBoth
<1>12. /\ at + ((2 * WordBits) + DeltaCountBits) = at + (2 * WordBits) + DeltaCountBits
       /\ at + ((2 * WordBits) + DeltaCountBits + WidthBits) = at + (2 * WordBits) + DeltaCountBits + WidthBits
  <2>0. WordBits \in Nat /\ DeltaCountBits \in Nat /\ WidthBits \in Nat BY WidthsAre
  <2> QED BY <2>0, <1>10
<1>13. /\ Finds(s, at + (2 * WordBits) + DeltaCountBits, D)
       /\ Finds(s, at + (2 * WordBits) + DeltaCountBits + WidthBits, F)
  BY <1>11, <1>12, Zenon
<1>14. Len(BlockHead(data)) = (2 * WordBits) + DeltaCountBits + WidthBits /\ BlockHead(data) \in BitSeq
  BY <1>3, <1>4, Zenon
<1> QED BY <1>11, <1>13, <1>14, <1>2, Zenon DEF HeadFound, A, B, C, D, F

(* A field found is the number written into it.                             *)
LEMMA FindsNumber ==
  ASSUME NEW s \in BitSeq, NEW at, NEW n \in Nat, NEW w \in 0..WordBits, n < Power[w],
         Finds(s, at, Bits(n, w))
  PROVE  Has(s, at, w) /\ Num(Field(s, at, w)) = n
<1>1. n \in Int OBVIOUS
<1>2. Bits(n, w) \in BitSeq /\ w = Len(Bits(n, w)) BY <1>1, BitsAre
<1>3. Has(s, at, w) /\ Field(s, at, w) = Bits(n, w) BY <1>2, FindsField
<1> QED BY <1>3, SameNum, Zenon

(* A signed word found is read as what it was.                               *)
LEMMA FindsWord ==
  ASSUME NEW s \in BitSeq, NEW at, NEW n \in Words, Finds(s, at, Bits(n, WordBits))
  PROVE  Has(s, at, WordBits) /\ Int32(Field(s, at, WordBits)) = n
<1>1. n \in Int /\ WordBits \in 0..WordBits BY WidthsAre, PowerIs DEF Words
<1>2. Bits(n, WordBits) \in BitSeq /\ WordBits = Len(Bits(n, WordBits)) BY <1>1, BitsAre
<1>3. Has(s, at, WordBits) /\ Field(s, at, WordBits) = Bits(n, WordBits) BY <1>2, FindsField
<1>4. Int32(Bits(n, WordBits)) = n BY SameInt DEF Words
<1> QED BY <1>3, <1>4, Zenon

(* The steps added up are the values again.                                 *)
LEMMA StepsAddUp ==
  ASSUME NEW data \in Seq(Int), data # <<>>
  PROVE  /\ \A k \in 0..(Len(data) - 1) : SumTo(Deltas(data), k) = data[k + 1] - data[1]
         /\ data = [i \in 1..Len(data) |-> data[1] + SumSeq(SubSeq(Deltas(data), 1, i - 1))]
<1> DEFINE n == Len(data) - 1
           H == {k \in 0..n : SumTo(Deltas(data), k) = data[k + 1] - data[1]}
<1>1. /\ Deltas(data) \in Seq(Int) /\ Len(Deltas(data)) = n
      /\ \A i \in 1..n : Deltas(data)[i] = data[i + 1] - data[i]
  BY DeltasAre
<1>2. n \in Nat /\ \A i \in 1..(n + 1) : data[i] \in Int OBVIOUS
<1>3. Sums(Deltas(data)) BY <1>1, SumsAre
<1>4. 0 \in H BY <1>3, <1>2 DEF Sums
<1>5. ASSUME NEW k \in 1..n, k - 1 \in H PROVE k \in H
  <2>1. SumTo(Deltas(data), k) = SumTo(Deltas(data), k - 1) + Deltas(data)[k] BY <1>3, <1>1 DEF Sums
  <2>2. SumTo(Deltas(data), k - 1) = data[k] - data[1] BY <1>5
  <2>3. Deltas(data)[k] = data[k + 1] - data[k] BY <1>1
  <2>4. data[k] \in Int /\ data[k + 1] \in Int /\ data[1] \in Int BY <1>2
  <2>5. SumTo(Deltas(data), k) = data[k + 1] - data[1] BY <2>1, <2>2, <2>3, <2>4
  <2> QED BY <2>5
<1> HIDE DEF H
<1>6. \A k \in 0..n : k \in H BY <1>2, <1>4, <1>5, CountUp, Zenon
<1>7. \A k \in 0..n : SumTo(Deltas(data), k) = data[k + 1] - data[1] BY <1>6 DEF H
<1>8. ASSUME NEW i \in 1..Len(data) PROVE data[i] = data[1] + SumSeq(SubSeq(Deltas(data), 1, i - 1))
  <2>1. i - 1 \in 0..n /\ (i - 1) + 1 = i BY <1>2
  <2>2. SumTo(Deltas(data), i - 1) = data[i] - data[1] BY <1>7, <2>1
  <2>3. data[i] \in Int /\ data[1] \in Int BY <1>2
  <2> QED BY <2>2, <2>3 DEF SumTo
<1>9. data = [i \in 1..Len(data) |-> data[i]] OBVIOUS
<1> QED BY <1>7, <1>8, <1>9

(* A block of differences found is read as the list it was made of.          *)
LEMMA BlockIsRead ==
  ASSUME NEW s \in BitSeq, NEW from, NEW at, Aligned(from) = at,
         NEW data, NEW m \in 1..WordBits, Stepped(data, m), BlockRead(data, m), data # <<>>,
         Len(data) > 1, Finds(s, at, BlockBits(data))
  PROVE  DecodeTsBlock(s, from) = [status |-> "ok", list |-> data, at |-> at + Len(BlockBits(data))]
<1> DEFINE body == at + 2 * WordBits + DeltaCountBits
           count == Num(Field(s, at + 2 * WordBits, DeltaCountBits))
           first == Int32(Field(s, at, WordBits))
           least == Int32(Field(s, at + WordBits, WordBits))
           width == Num(Field(s, body, WidthBits))
           from2 == body + WidthBits
           delta == [i \in 1..count |-> least + Num(Field(s, from2 + (i - 1) * width, width))]
           list == [i \in 1..(count + 1) |-> first + SumSeq(SubSeq(delta, 1, i - 1))]
           n == Len(data) - 1
           w == StepWidth(data)
<1>0. data \in Seq(Int) /\ Len(data) \in Nat /\ data[1] \in Words /\ n \in Nat /\ n > 0
  BY DEF Stepped
<1>1. HeadFound(s, at, data) BY <1>0, HeadIsFound, Zenon
<1>2. WordBits \in Nat /\ DeltaCountBits \in 0..WordBits /\ WidthBits \in 0..WordBits /\ at \in Nat
      /\ DeltaCountBits \in Nat /\ WidthBits \in Nat
  BY WidthsAre DEF Finds
<1>3. Len(Deltas(data)) = n /\ n \in Nat /\ n < Power[DeltaCountBits] /\ n > 0
  <2>1. Power[DeltaCountBits] \in Nat BY <1>2, PowerIs
  <2> QED BY <2>1, <1>0, SMTT(40) DEF BlockRead
<1>4. w \in 1..WordBits /\ w \in Nat /\ w \in 0..WordBits /\ w < Power[WidthBits] BY <1>2 DEF BlockRead
<1>5. LeastStep(data) \in Words BY DEF BlockRead
<1>6. first = data[1] /\ Has(s, at, WordBits) BY <1>0, <1>1, FindsWord, Zenon DEF HeadFound
<1>7. least = LeastStep(data) BY <1>5, <1>1, FindsWord, Zenon DEF HeadFound
<1>8. Has(s, at + (2 * WordBits), DeltaCountBits) /\ count = n
  <2>1. Finds(s, at + (2 * WordBits), Bits(n, DeltaCountBits)) BY <1>1, <1>3, Zenon DEF HeadFound
  <2>2. n < Power[DeltaCountBits] /\ n \in Nat /\ DeltaCountBits \in 0..WordBits BY <1>2, <1>3, Zenon
  <2> HIDE DEF n
  <2>3. Has(s, at + (2 * WordBits), DeltaCountBits) /\ Num(Field(s, at + (2 * WordBits), DeltaCountBits)) = n
    BY <2>1, <2>2, FindsNumber, Zenon
  <2> QED BY <2>3, Zenon
<1>9. Has(s, body, WidthBits) /\ width = w
  <2>1. Finds(s, body, Bits(w, WidthBits)) BY <1>1, Zenon DEF HeadFound
  <2> HIDE DEF w, body
  <2> QED BY <2>1, <1>2, <1>4, FindsNumber, ZenonT(40)
<1>10. Has(s, at, 2 * WordBits + DeltaCountBits)
  <2>1. Len(s) \in Nat BY DEF BitSeq
  <2> QED BY <1>8, <1>2, <2>1 DEF Has
<1>11. FindsNumbers(s, from2, Above(data), w)
  <2>1. Above(data) \in Seq(Int) BY DEF BlockRead
  <2> QED BY <1>1, <1>4, <2>1, FindsAll, Zenon DEF HeadFound
<1>12. Len(FlattenSeq(AllBits(Above(data), w))) = n * w /\ n * w \in Nat
  <2>1. Above(data) \in Seq(Int) /\ Len(Above(data)) = n BY DEF BlockRead
  <2>2. PutAll(Above(data), w) \in Seq(CallSet) BY <2>1, <1>4, AllPut, Zenon
  <2>3. /\ Laid(PutAll(Above(data), w)) = FlattenSeq(AllBits(Above(data), w))
        /\ Size(PutAll(Above(data), w)) = Len(Above(data)) * w
    BY <2>1, <1>4, AllPut, Zenon
  <2>4. IsLaid(PutAll(Above(data), w)) BY <2>2, LaidTyped, Zenon
  <2> QED BY <2>1, <2>3, <2>4 DEF IsLaid
<1>13. Has(s, from2, count * width)
  <2>1. Finds(s, from2, FlattenSeq(AllBits(Above(data), w))) BY <1>1, Zenon DEF HeadFound
  <2>2. from2 + (n * w) <= Len(s) BY <2>1, <1>12, Zenon DEF Finds
  <2> QED BY <2>2, <1>8, <1>9, Zenon DEF Has
<1>14. ASSUME NEW i \in 1..n PROVE least + Num(Field(s, from2 + (i - 1) * width, width)) = Deltas(data)[i]
  <2>1. /\ Above(data) \in Seq(Nat) /\ Len(Above(data)) = n /\ Above(data)[i] = Deltas(data)[i] - LeastStep(data)
        /\ Above(data)[i] < Power[w] /\ Deltas(data)[i] \in Int /\ LeastStep(data) \in Int
    BY <1>14, <1>3 DEF BlockRead
  <2>2. Above(data)[i] \in Nat BY <2>1
  <2>3. Finds(s, from2 + ((i - 1) * w), Bits(Above(data)[i], w)) BY <1>11, <2>1, Zenon DEF FindsNumbers
  <2>4. Num(Field(s, from2 + ((i - 1) * w), w)) = Above(data)[i]
    BY <2>1, <2>2, <2>3, <1>4, FindsNumber, ZenonT(40)
  <2>5. Num(Field(s, from2 + (i - 1) * width, width)) = Above(data)[i] BY <2>4, <1>9, Zenon
  <2> HIDE DEF from2, width, least
  <2> QED BY <2>5, <2>1, <1>7
<1> HIDE DEF body, count, first, least, width, from2
<1>15. delta = Deltas(data)
  <2>1. Deltas(data) = [i \in 1..n |-> Deltas(data)[i]] BY <1>3 DEF BlockRead
  <2>2. delta = [i \in 1..n |-> Deltas(data)[i]] BY <1>14, <1>8, Zenon
  <2> QED BY <2>1, <2>2, Zenon
<1>16. list = data
  <2>1. count + 1 = Len(data) BY <1>8, <1>0
  <2>2. data = [i \in 1..Len(data) |-> data[1] + SumSeq(SubSeq(Deltas(data), 1, i - 1))]
    BY <1>0, StepsAddUp, Zenon
  <2> QED BY <2>1, <2>2, <1>6, <1>15, Zenon
<1>17. from2 + count * width = at + Len(BlockBits(data))
  <2>1. Len(BlockBits(data)) = Len(BlockHead(data)) + Len(FlattenSeq(AllBits(Above(data), w)))
    <3>1. \A x, y \in BitSeq : Len(x \o y) = Len(x) + Len(y) BY DEF BitSeq
    <3> QED BY <3>1, <1>1, Zenon DEF HeadFound, BlockBits
  <2>2. Len(BlockBits(data)) = ((2 * WordBits) + DeltaCountBits + WidthBits) + (n * w)
    BY <2>1, <1>12, <1>1, Zenon DEF HeadFound
  <2>3. from2 = at + 2 * WordBits + DeltaCountBits + WidthBits BY DEF from2, body
  <2>4. count * width = n * w BY <1>8, <1>9, Zenon
  <2> DEFINE p == n * w
  <2>5. p \in Nat BY <1>12
  <2>6. Len(BlockBits(data)) = ((2 * WordBits) + DeltaCountBits + WidthBits) + p /\ count * width = p
    BY <2>2, <2>4
  <2> HIDE DEF p, n, w
  <2> QED BY <2>3, <2>5, <2>6, <1>2
<1>18. DecodeTsBlock(s, from) = [status |-> "ok", at |-> from2 + count * width, list |-> list]
  <2>1. count # 0 /\ width \in 1..WordBits BY <1>8, <1>3, <1>9, <1>4
  <2> QED BY <2>1, <1>10, <1>9, <1>13, Zenon DEF DecodeTsBlock, body, count, first, least, width, from2
<1>19. [status |-> "ok", at |-> from2 + count * width, list |-> list]
         = [status |-> "ok", list |-> data, at |-> at + Len(BlockBits(data))]
  <2> HIDE DEF list
  <2> DEFINE p == from2 + count * width
             q == at + Len(BlockBits(data))
  <2>1. p = q BY <1>17
  <2> HIDE DEF p, q
  <2>2. [status |-> "ok", at |-> p, list |-> list] = [status |-> "ok", list |-> data, at |-> q]
    BY <2>1, <1>16
  <2> QED BY <2>2 DEF p, q
<1> QED BY <1>18, <1>19, Zenon

(***************************************************************************)
(* A whole list read                                                       *)
(***************************************************************************)
BlocksStep(list, m) ==
  \A b \in 1..BlockCount(list) :
    Stepped(TsBlocks(list)[b], m) /\ Len(TsBlocks(list)[b]) \in 2..TsBlock

(* Each block of a stepped list is stepped.                                  *)
LEMMA BlocksStepped ==
  ASSUME NEW list \in Seq(Int), NoSingle(list), NEW m \in 1..WordBits, Stepped(list, m)
  PROVE  BlocksStep(list, m)
<1> DEFINE n == BlockCount(list)
           B == TsBlocks(list)
<1>1. BlocksOf(list, B)
  BY BlocksAre
<1>2. ASSUME NEW b \in 1..n PROVE Stepped(B[b], m) /\ Len(B[b]) \in 2..TsBlock
  <2> DEFINE a == BlockEnd(list, b - 1)
             c == BlockEnd(list, b)
             s == B[b]
  <2>1. a \in Nat /\ c \in 1..Len(list) /\ c - a \in 2..TsBlock /\ SliceOf(list, a, c, s)
    BY <1>1, <1>2, Zenon DEF BlocksOf
  <2> HIDE DEF a, c, s
  <2>2. c \in Nat /\ a < c
    <3>1. TsBlock \in Nat
      <4>1. DeltaCountBits \in 0..WordBits
        BY WidthsAre
      <4> QED BY <4>1, PowerIs, TsBlockAssumption
    <3>2. c \in Nat
      BY <2>1
    <3> QED BY <2>1, <3>1, <3>2
  <2>3. Stepped(s, m) /\ Len(s) = c - a
    BY <2>1, <2>2, BlockStepped, Zenon
  <2> QED BY <2>1, <2>3 DEF s
<1> QED BY <1>2, Zenon DEF BlocksStep

(* Every block is found where the padded ones before it end.                *)
BlockAt(list, at, b) == at + WordBits + Len(FlatTo(BlockStreams(list), b))
BlocksFound(s, at, list) ==
  /\ Finds(s, at, Bits(BlockCount(list), WordBits))
  /\ BlockAt(list, at, 0) = at + WordBits
  /\ BlockAt(list, at, BlockCount(list)) = at + Len(ListBits(list))
  /\ BlockAt(list, at, BlockCount(list)) <= Len(s)
  /\ \A b \in 0..BlockCount(list) : BlockAt(list, at, b) \in Nat /\ BlockAt(list, at, b) % ByteBits = 0
  /\ \A b \in 1..BlockCount(list) :
       /\ BlockBits(TsBlocks(list)[b]) \in BitSeq
       /\ Finds(s, BlockAt(list, at, b - 1), BlockBits(TsBlocks(list)[b]))
       /\ BlockAt(list, at, b) = Aligned(BlockAt(list, at, b - 1) + Len(BlockBits(TsBlocks(list)[b])))

(* A list found, so is each of its blocks, at a byte boundary.               *)
LEMMA BlocksAreFound ==
  ASSUME NEW s \in BitSeq, NEW at, at % ByteBits = 0,
         NEW list \in Seq(Int), NoSingle(list), NEW m \in 1..WordBits, Stepped(list, m),
         m < Power[WidthBits], m <= (3 * ByteBits) + 1, Finds(s, at, ListBits(list))
  PROVE  BlocksFound(s, at, list)
<1> DEFINE n == BlockCount(list)
           B == TsBlocks(list)
           P == BlockStreams(list)
           E(b) == BlockAt(list, at, b)
           A == Bits(n, WordBits)
           F == FlattenSeq(P)
           H == {b \in 0..n : E(b) \in Nat /\ E(b) % ByteBits = 0}
<1>1. P \in Seq(BitSeq) /\ Len(P) = n
  BY PieceOfList, Zenon
<1>2. n \in Nat /\ n \in Int
  BY <1>1
<1>3. \A b \in 1..n : P[b] = PadBits(BlockBits(B[b]))
  <2>1. \A b \in 1..n : P[b] = PadBits(BlockBits(B[b]))
    BY DEF BlockStreams
  <2> QED BY <2>1
<1>4. BlocksStep(list, m)
  BY BlocksStepped, Zenon
<1>5. ASSUME NEW b \in 1..n PROVE BlockBits(B[b]) \in BitSeq
  <2>1. Stepped(B[b], m) /\ Len(B[b]) \in 2..TsBlock
    BY <1>4, Zenon DEF BlocksStep
  <2>2. BlockRead(B[b], m)
    BY <2>1, BlockReads, Zenon
  <2>3. B[b][1] \in Words
    <3>1. 1 \in 1..Len(B[b])
      BY <2>1
    <3> QED BY <2>1, <3>1 DEF Stepped
  <2>4. HeadFields(B[b])
    BY <2>2, <2>3, HeadFieldsAre, Zenon
  <2> QED BY <2>4, Zenon DEF HeadFields
<1>6. at \in Nat /\ WordBits \in Nat /\ WordBits \in 0..WordBits /\ WordBits % ByteBits = 0
      /\ ByteBits \in Nat \ {0}
  BY WidthsAre, ByteIs DEF Finds
<1>7. A \in BitSeq /\ Len(A) = WordBits
  BY <1>2, <1>6, BitsAre
<1>8. Flats(P, {0, 1})
  BY <1>1, FlatsAre, Zenon DEF BitSeq
<1>9. F \in BitSeq /\ F = FlatTo(P, n) /\ FlatTo(P, 0) = <<>>
  <2>1. n \in 0..Len(P)
    BY <1>1, <1>2
  <2> QED BY <1>1, <1>8, <2>1 DEF Flats, BitSeq
<1> HIDE DEF n, B, P, A, F, E, H
<1>10. ListBits(list) = A \o F
  BY DEF ListBits, A, F, P, n
<1>11. FindsBoth(s, at, A, F)
  <2>1. Finds(s, at, A \o F)
    BY <1>10, Zenon
  <2> QED BY <2>1, <1>7, <1>9, FindsSplit, Zenon DEF BitSeq
<1>12. Finds(s, at, A) /\ Finds(s, at + WordBits, F)
  BY <1>11, <1>7, Zenon DEF FindsBoth
<1>13. FindsEach(s, at + WordBits, P)
  BY <1>12, <1>1, FindsFlat, Zenon DEF F
<1>14. E(0) = at + WordBits
  <2>1. E(0) = at + WordBits + Len(FlatTo(P, 0))
    BY Zenon DEF E, BlockAt, P
  <2>2. Len(FlatTo(P, 0)) = 0
    BY <1>9
  <2> QED BY <2>1, <2>2, <1>6
<1>15. ASSUME NEW b \in 1..n
       PROVE  /\ Finds(s, E(b - 1), P[b]) /\ E(b) = E(b - 1) + Len(P[b]) /\ E(b - 1) \in Nat
  <2>1. /\ Finds(s, (at + WordBits) + Len(FlatTo(P, b - 1)), P[b])
        /\ Len(FlatTo(P, b)) = Len(FlatTo(P, b - 1)) + Len(P[b])
    BY <1>13, <1>1, Zenon DEF FindsEach
  <2>2. P[b] \in BitSeq
    BY <1>1
  <2>3. E(b) = at + WordBits + Len(FlatTo(P, b)) /\ E(b - 1) = at + WordBits + Len(FlatTo(P, b - 1))
    BY Zenon DEF E, BlockAt, P
  <2>4. Len(FlatTo(P, b - 1)) \in Nat /\ Len(P[b]) \in Nat
    <3>1. b - 1 \in 0..Len(P)
      BY <1>1, <1>2
    <3>2. FlatTo(P, b - 1) \in Seq({0, 1})
      BY <3>1, <1>8, Zenon DEF Flats
    <3> QED BY <3>2, <2>2 DEF BitSeq
  <2> DEFINE x == Len(FlatTo(P, b - 1))
             y == Len(FlatTo(P, b))
             z == Len(P[b])
  <2>5. x \in Nat /\ z \in Nat /\ y = x + z
    BY <2>1, <2>4
  <2>6. E(b) = at + WordBits + y /\ E(b - 1) = at + WordBits + x
    BY <2>3
  <2> HIDE DEF x, y, z
  <2>7. at + WordBits + y = (at + WordBits + x) + z /\ at + WordBits + x \in Nat
    BY <2>5, <1>6
  <2>8. E(b) = E(b - 1) + z /\ E(b - 1) \in Nat
    BY <2>6, <2>7, Zenon
  <2>9. Finds(s, E(b - 1), P[b])
    BY <2>1, <2>3, Zenon
  <2> QED BY <2>8, <2>9 DEF z
<1>16. 0 \in H
  <2>1. (at + WordBits) % ByteBits = 0
    <3>1. at \in Int /\ WordBits \in Int
      BY <1>6
    <3>2. (at + WordBits) % ByteBits = at % ByteBits
      BY <3>1, <1>6, Remains, Zenon
    <3> QED BY <3>2
  <2> QED BY <2>1, <1>14, <1>6, <1>2 DEF H
<1>17. ASSUME NEW b \in 1..n, E(b - 1) \in Nat, E(b - 1) % ByteBits = 0
       PROVE  /\ E(b) \in Nat /\ E(b) % ByteBits = 0
              /\ E(b) = Aligned(E(b - 1) + Len(BlockBits(B[b])))
              /\ Finds(s, E(b - 1), BlockBits(B[b]))
  <2> DEFINE e == E(b - 1)
             q == BlockBits(B[b])
             l == Len(q)
  <2>1. q \in BitSeq /\ l \in Nat
    BY <1>5 DEF BitSeq
  <2>2. PadBits(q) \in BitSeq /\ Len(PadBits(q)) = Aligned(l) /\ \A i \in 1..l : PadBits(q)[i] = q[i]
    BY <2>1, PaddedIs
  <2>3. P[b] = PadBits(q)
    BY <1>3
  <2>4. Finds(s, e, PadBits(q)) /\ E(b) = e + Aligned(l) /\ e \in Nat /\ e % ByteBits = 0
    BY <1>15, <1>17, <2>2, <2>3, Zenon
  <2> HIDE DEF e, l
  <2>5. Aligned(l) \in Nat /\ Aligned(l) % ByteBits = 0 /\ l <= Aligned(l)
    BY <2>1, Rounded
  <2>6. E(b) \in Nat /\ E(b) % ByteBits = 0
    <3>1. e \in Int /\ Aligned(l) \in Int /\ e + Aligned(l) \in Nat
      BY <2>4, <2>5
    <3>2. (e + Aligned(l)) % ByteBits = e % ByteBits
      BY <3>1, <2>5, <1>6, Remains, Zenon
    <3> QED BY <3>1, <3>2, <2>4, Zenon
  <2>7. E(b) = Aligned(e + l)
    <3>1. Aligned(e + l) = e + Aligned(l)
      BY <2>4, <2>1, RoundedAfter, Zenon
    <3> QED BY <3>1, <2>4, Zenon
  <2>8. Finds(s, e, q)
    <3>1. Len(s) \in Nat
      BY DEF BitSeq
    <3>2. Len(q) = l
      BY DEF l
    <3>3. e + Aligned(l) <= Len(s) /\ \A i \in 1..Aligned(l) : s[e + i] = PadBits(q)[i]
      BY <2>4, <2>2, Zenon DEF Finds
    <3> HIDE DEF q
    <3>4. e + l <= Len(s) /\ \A i \in 1..l : s[e + i] = q[i]
      BY <3>1, <3>3, <2>1, <2>2, <2>4, <2>5
    <3> QED BY <3>2, <3>4, <2>4, Zenon DEF Finds
  <2> QED BY <2>6, <2>7, <2>8, Zenon DEF e, q, l
<1>18. ASSUME NEW b \in 1..n, b - 1 \in H PROVE b \in H
  <2>1. b \in 0..n
    BY <1>2
  <2> QED BY <1>17, <1>18, <2>1, Zenon DEF H
<1>19. \A b \in 0..n : b \in H
  BY <1>2, <1>16, <1>18, CountUp, Zenon
<1>20. \A b \in 0..n : E(b) \in Nat /\ E(b) % ByteBits = 0
  BY <1>19, Zenon DEF H
<1>21. ASSUME NEW b \in 1..n PROVE E(b - 1) \in Nat /\ E(b - 1) % ByteBits = 0
  <2>1. b - 1 \in 0..n
    BY <1>2
  <2> QED BY <2>1, <1>20, Zenon
<1>22. E(n) = at + Len(ListBits(list)) /\ E(n) <= Len(s)
  <2>1. E(n) = at + WordBits + Len(F)
    BY <1>9, Zenon DEF E, BlockAt, P
  <2>2. Len(A \o F) = Len(A) + Len(F)
    <3>1. \A x, y \in BitSeq : Len(x \o y) = Len(x) + Len(y)
      BY DEF BitSeq
    <3> QED BY <3>1, <1>7, <1>9, Zenon
  <2>3. (at + WordBits) + Len(F) <= Len(s)
    BY <1>12, Zenon DEF Finds
  <2>4. Len(F) \in Nat
    BY <1>9 DEF BitSeq
  <2>5. Len(ListBits(list)) = WordBits + Len(F)
    BY <2>2, <1>7, <1>10, Zenon
  <2> DEFINE f == Len(F)
             g == Len(ListBits(list))
  <2> HIDE DEF f, g
  <2>6. E(n) = at + WordBits + f /\ g = WordBits + f /\ f \in Nat /\ (at + WordBits) + f <= Len(s)
    BY <2>1, <2>3, <2>4, <2>5, Zenon DEF f, g
  <2>7. E(n) = at + g
    BY <2>6, <1>6
  <2> QED BY <2>6, <2>7, Zenon DEF g
<1>23. \A b \in 1..n : /\ BlockBits(B[b]) \in BitSeq
                       /\ Finds(s, E(b - 1), BlockBits(B[b]))
                       /\ E(b) = Aligned(E(b - 1) + Len(BlockBits(B[b])))
  BY <1>5, <1>17, <1>21, Zenon
<1> QED BY <1>12, <1>14, <1>20, <1>22, <1>23, Zenon DEF BlocksFound, n, B, A, E

(* What has been read after k blocks: all values up to there, and the end of *)
(* the k-th block before the bits that fill its byte.                       *)
ReadTo(list, at, k) ==
  [status |-> "ok", list |-> SubSeq(list, 1, BlockEnd(list, k)),
   at |-> IF k = 0 THEN at + WordBits
          ELSE BlockAt(list, at, k - 1) + Len(BlockBits(TsBlocks(list)[k]))]

(* The next block read, from where those before it end.                      *)
LEMMA ReadOne ==
  ASSUME NEW s \in BitSeq, NEW at, NEW list \in Seq(Int), NoSingle(list),
         NEW m \in 1..WordBits, Stepped(list, m), m < Power[WidthBits],
         BlocksFound(s, at, list), NEW k \in 1..BlockCount(list)
  PROVE  /\ Aligned(ReadTo(list, at, k - 1).at) = BlockAt(list, at, k - 1)
         /\ TsNext(s, ReadTo(list, at, k - 1)) = ReadTo(list, at, k)
<1> DEFINE n == BlockCount(list)
           B == TsBlocks(list)
           E(b) == BlockAt(list, at, b)
           r == ReadTo(list, at, k - 1)
           d == B[k]
           l == Len(BlockBits(d))
<1>1. BlocksOf(list, B)
  BY BlocksAre
<1>2. n \in Nat /\ k \in Nat /\ k - 1 \in 0..n
  <2>1. n \in 1..Len(list)
    BY <1>1, Zenon DEF BlocksOf
  <2> QED BY <2>1
<1>3. E(k - 1) \in Nat /\ E(k - 1) % ByteBits = 0
  BY <1>2, Zenon DEF BlocksFound
<1>4. Aligned(r.at) = E(k - 1)
  <2>1. CASE k - 1 = 0
    <3>1. r.at = at + WordBits
      BY <2>1 DEF ReadTo
    <3>2. E(k - 1) = at + WordBits
      BY <2>1, Zenon DEF BlocksFound
    <3> QED BY <3>1, <3>2, <1>3, Rounded, Zenon
  <2>2. CASE k - 1 # 0
    <3>1. k - 1 \in 1..n
      BY <1>2, <2>2
    <3>2. r.at = BlockAt(list, at, (k - 1) - 1) + Len(BlockBits(TsBlocks(list)[k - 1]))
      BY <2>2 DEF ReadTo
    <3> QED BY <3>1, <3>2, Zenon DEF BlocksFound
  <2> QED BY <2>1, <2>2
<1>5. Stepped(d, m) /\ Len(d) \in 2..TsBlock
  BY BlocksStepped, Zenon DEF BlocksStep
<1>6. BlockRead(d, m)
  BY <1>5, BlockReads, Zenon
<1>7. Finds(s, E(k - 1), BlockBits(d))
  BY Zenon DEF BlocksFound
<1>8. d # <<>> /\ Len(d) > 1
  BY <1>5
<1> HIDE DEF d, r, l, E, n, B
<1>9. DecodeTsBlock(s, r.at) = [status |-> "ok", list |-> d, at |-> E(k - 1) + l]
  BY <1>4, <1>5, <1>6, <1>7, <1>8, BlockIsRead, Zenon DEF l
<1>10. r.status = "ok" /\ r.list = SubSeq(list, 1, BlockEnd(list, k - 1))
  BY DEF r, ReadTo
<1>11. TsRead(r, DecodeTsBlock(s, r.at)) = [status |-> "ok", list |-> r.list \o d, at |-> E(k - 1) + l]
  <2> DEFINE x == DecodeTsBlock(s, r.at)
             e == E(k - 1) + l
  <2>1. x = [status |-> "ok", list |-> d, at |-> e]
    BY <1>9
  <2> HIDE DEF x, e
  <2>2. TsRead(r, x) = [status |-> "ok", list |-> r.list \o d, at |-> e]
    BY <2>1 DEF TsRead
  <2> QED BY <2>2 DEF x, e
<1>12. TsNext(s, r) = TsRead(r, DecodeTsBlock(s, r.at))
  <2> DEFINE x == DecodeTsBlock(s, r.at)
  <2> HIDE DEF x
  <2>1. TsNext(s, r) = CHOOSE y \in {TsRead(r, block) : block \in {x}} : TRUE
    BY <1>10, Zenon DEF TsNext, x
  <2>2. {TsRead(r, block) : block \in {x}} = {TsRead(r, x)}
    BY Zenon
  <2>3. TsNext(s, r) = TsRead(r, x)
    BY <2>1, <2>2, TheOnly, Zenon
  <2> QED BY <2>3 DEF x
<1>13. r.list \o d = SubSeq(list, 1, BlockEnd(list, k))
  BY <1>10, <1>1, Zenon DEF BlocksOf, d, B
<1>14. ReadTo(list, at, k) = [status |-> "ok", list |-> r.list \o d, at |-> E(k - 1) + l]
  <2>1. k # 0
    BY <1>2
  <2> QED BY <2>1, <1>13 DEF ReadTo, E, l, d, B
<1> QED BY <1>4, <1>11, <1>12, <1>14, Zenon DEF r, E

(* What was written as a ts2diff list reads back as that list, and the reader *)
(* ends where the writer did.                                                *)
LEMMA ListIsRead ==
  ASSUME NEW s \in BitSeq, NEW at, at % ByteBits = 0,
         NEW list \in Seq(Int), NoSingle(list), Counted(list),
         NEW m \in 1..WordBits, Stepped(list, m),
         m < Power[WidthBits], m <= (3 * ByteBits) + 1, Finds(s, at, ListBits(list))
  PROVE  Ts2DiffDecode(s, at) = [status |-> "ok", list |-> list, at |-> at + Len(ListBits(list))]
<1> DEFINE n == BlockCount(list)
           run == [k \in 0..n |-> ReadTo(list, at, k)]
<1>1. BlocksFound(s, at, list)
  BY BlocksAreFound, Zenon
<1>2. BlocksOf(list, TsBlocks(list))
  BY BlocksAre
<1>3. n \in 1..Len(list) /\ BlockEnd(list, 0) = 0 /\ BlockEnd(list, n) = Len(list)
  BY <1>2, Zenon DEF BlocksOf
<1>4. n \in Words /\ n \in Nat /\ n # 0 /\ n \in 0..n
  <2>1. Power[WordBits - 1] \in Nat
    <3>1. WordBits - 1 \in 0..WordBits
      BY WidthsAre
    <3> QED BY <3>1, PowerIs
  <2>2. Len(list) < Power[WordBits - 1] /\ Len(list) \in Nat
    BY DEF Counted
  <2> HIDE DEF n
  <2> QED BY <2>1, <2>2, <1>3 DEF Words
<1>5. Has(s, at, WordBits) /\ Int32(Field(s, at, WordBits)) = n
  BY <1>1, <1>4, FindsWord, Zenon DEF BlocksFound
<1>6. run[0] = TsStart(at)
  <2>1. 0 \in 0..n
    BY <1>4
  <2>2. SubSeq(list, 1, 0) = <<>>
    BY PrefixAll, Zenon
  <2>3. run[0] = ReadTo(list, at, 0)
    BY <2>1
  <2> QED BY <2>2, <2>3, <1>3 DEF ReadTo, TsStart
<1>7. \A k \in 1..n : TsNext(s, run[k - 1]) = run[k]
  <2> TAKE k \in 1..n
  <2>1. k - 1 \in 0..n /\ k \in 0..n
    BY <1>4
  <2>2. run[k - 1] = ReadTo(list, at, k - 1) /\ run[k] = ReadTo(list, at, k)
    BY <2>1
  <2>3. TsNext(s, ReadTo(list, at, k - 1)) = ReadTo(list, at, k)
    BY <1>1, ReadOne, Zenon
  <2> QED BY <2>2, <2>3, Zenon
<1>8. Ts2DiffDecode(s, at) = TsEnd(s, run[n])
  <2> HIDE DEF n, run
  <2> QED BY <1>4, <1>5, <1>6, <1>7, TsFolds, Zenon
<1>9. run[n] = ReadTo(list, at, n)
  BY <1>4
<1>10. Aligned(ReadTo(list, at, n).at) = at + Len(ListBits(list))
  <2>1. n \in 1..n
    BY <1>4
  <2>2. ReadTo(list, at, n).at = BlockAt(list, at, n - 1) + Len(BlockBits(TsBlocks(list)[n]))
    BY <1>4 DEF ReadTo
  <2> QED BY <1>1, <2>1, <2>2, Zenon DEF BlocksFound
<1>11. at + Len(ListBits(list)) <= Len(s)
  BY <1>1, Zenon DEF BlocksFound
<1>12. ReadTo(list, at, n).list = list /\ ReadTo(list, at, n).status = "ok"
  <2>1. SubSeq(list, 1, Len(list)) = list
    BY PrefixAll, Zenon
  <2> QED BY <2>1, <1>3 DEF ReadTo
<1>13. TsEnd(s, ReadTo(list, at, n)) = [status |-> "ok", list |-> list, at |-> at + Len(ListBits(list))]
  <2> DEFINE x == ReadTo(list, at, n)
             e == at + Len(ListBits(list))
  <2>1. /\ x = [status |-> x.status, list |-> x.list, at |-> x.at]
        /\ x.status = "ok" /\ x.list = list /\ Aligned(x.at) = e /\ e <= Len(s)
    BY <1>10, <1>11, <1>12 DEF ReadTo
  <2>2. e \in Nat /\ Len(s) \in Nat
    <3>1. BlockAt(list, at, n) \in Nat /\ BlockAt(list, at, n) = e
      BY <1>1, <1>4, Zenon DEF BlocksFound
    <3>2. Len(s) \in Nat
      BY DEF BitSeq
    <3> QED BY <3>1, <3>2, Zenon
  <2> HIDE DEF x, e
  <2>3. ~(Aligned(x.at) > Len(s))
    BY <2>1, <2>2
  <2>4. TsEnd(s, x) = [x EXCEPT !.at = e]
    BY <2>1, <2>3, Zenon DEF TsEnd
  <2>5. [x EXCEPT !.at = e] = [status |-> "ok", list |-> list, at |-> e]
    BY <2>1
  <2> QED BY <2>4, <2>5 DEF x, e
<1> QED BY <1>8, <1>9, <1>13, Zenon

(***************************************************************************)
(* Packed lists read                                                       *)
(***************************************************************************)
LEMMA PaddedFinds ==
  ASSUME NEW q \in BitSeq
  PROVE  Finds(PadBits(q), 0, q) /\ PadBits(q) \in BitSeq
<1>1. /\ PadBits(q) \in BitSeq /\ Len(PadBits(q)) = Aligned(Len(q))
      /\ \A i \in 1..Len(q) : PadBits(q)[i] = q[i]
  BY PaddedIs
<1>2. Len(q) \in Nat
  BY DEF BitSeq
<1>3. Len(q) <= Aligned(Len(q)) /\ Aligned(Len(q)) \in Nat
  BY <1>2, Rounded
<1> DEFINE s == PadBits(q)
           l == Len(q)
<1>4. l \in Nat /\ l <= Len(s) /\ Len(s) \in Nat /\ \A i \in 1..l : s[i] = q[i]
  BY <1>1, <1>2, <1>3
<1> HIDE DEF s
<1>5. 0 \in Nat /\ 0 + l <= Len(s) /\ \A i \in 1..l : s[0 + i] = q[i]
  BY <1>4
<1> QED BY <1>1, <1>5, Zenon DEF Finds, s, l

(* What is packed is unpacked as it was.                                     *)
LEMMA PackedIsRead ==
  ASSUME NEW list \in Seq(Nat), list # <<>>, NEW m \in 1..WordBits, m < Power[WidthBits],
         \A i \in 1..Len(list) : list[i] < Power[m], NEW n, n = Len(list)
  PROVE  BitPackingDecode(BitPackingEncode(list), n) = [status |-> "ok", list |-> list]
<1> DEFINE w == PackedWidth(list)
           A == Bits(w, ByteBits)
           F == FlattenSeq(AllBits(list, w))
           s == BitPackingEncode(list)
           width == Num(SubSeq(s, 1, ByteBits))
<1>1. /\ w \in 0..m /\ w < Power[ByteBits] /\ \A i \in 1..Len(list) : list[i] < Power[w]
      /\ F \in BitSeq /\ Len(F) = Len(list) * w /\ PackedBits(list) \in BitSeq
      /\ s = PadBits(PackedBits(list))
  BY PackedIs, Zenon
<1>2. n \in Nat /\ ByteBits \in Nat /\ ByteBits \in 0..WordBits /\ w \in Nat /\ w \in Int /\ w \in 0..WordBits
      /\ ByteBits > 0
  BY <1>1, ByteIs
<1>3. A \in BitSeq /\ Len(A) = ByteBits
  BY <1>2, BitsAre
<1>4. PackedBits(list) = A \o F
  BY DEF PackedBits
<1> HIDE DEF A, F, s, w
<1>5. s \in BitSeq /\ Finds(s, 0, A \o F)
  BY <1>1, <1>4, PaddedFinds
<1>6. FindsBoth(s, 0, A, F)
  BY <1>5, <1>3, <1>1, FindsSplit, Zenon DEF BitSeq
<1>7. Finds(s, 0, A) /\ Finds(s, ByteBits, F)
  <2>1. 0 + ByteBits = ByteBits
    BY <1>2
  <2> QED BY <2>1, <1>6, <1>3, Zenon DEF FindsBoth
<1>8. width = w
  <2>1. Finds(s, 0, Bits(w, ByteBits))
    BY <1>7 DEF A
  <2>2. Num(Field(s, 0, ByteBits)) = w
    <3>1. w \in Nat /\ ByteBits \in 0..WordBits /\ w < Power[ByteBits] /\ s \in BitSeq
      BY <1>1, <1>2, <1>5, Zenon
    <3> QED BY <3>1, <2>1, FindsNumber, Zenon
  <2>3. Field(s, 0, ByteBits) = SubSeq(s, 1, ByteBits)
    BY <1>2 DEF Field
  <2> QED BY <2>2, <2>3, Zenon
<1>9. s # <<>> /\ ByteBits + n * w <= Len(s)
  <2>1. ByteBits + Len(F) <= Len(s)
    BY <1>7, Zenon DEF Finds
  <2>2. Len(F) \in Nat
    BY <1>1 DEF BitSeq
  <2>3. n * w = Len(F)
    BY <1>1, <1>2
  <2>4. ByteBits + n * w <= Len(s)
    BY <2>1, <2>3, Zenon
  <2>5. Len(s) > 0
    BY <2>1, <2>2, <1>2, <1>5 DEF BitSeq
  <2> QED BY <2>4, <2>5
<1>10. FindsNumbers(s, ByteBits, list, w)
  <2>1. list \in Seq(Int)
    OBVIOUS
  <2> QED BY <2>1, <1>2, <1>5, <1>7, FindsAll, Zenon DEF F
<1>11. ASSUME NEW i \in 1..n PROVE Num(Field(s, ByteBits + (i - 1) * w, w)) = list[i]
  <2>1. Finds(s, ByteBits + ((i - 1) * w), Bits(list[i], w))
    BY <1>10, Zenon DEF FindsNumbers
  <2>2. list[i] \in Nat
    OBVIOUS
  <2>3. list[i] < Power[w]
    BY <1>1
  <2> QED BY <2>1, <2>2, <2>3, <1>2, <1>5, FindsNumber, Zenon
<1> HIDE DEF width
<1>12. list = [i \in 1..n |-> list[i]]
  OBVIOUS
<1>13. [i \in 1..n |-> Num(Field(s, ByteBits + (i - 1) * w, w))] = list
  BY <1>11, <1>12, Zenon
<1>14. ~(ByteBits + n * w > Len(s))
  <2> DEFINE p == n * w
  <2>1. p \in Nat
    <3>1. n * w = Len(F)
      BY <1>1, <1>2
    <3> QED BY <3>1, <1>1 DEF BitSeq
  <2>2. ByteBits + p <= Len(s) /\ Len(s) \in Nat
    BY <1>9, <1>5 DEF BitSeq
  <2> HIDE DEF p
  <2>3. ~(ByteBits + p > Len(s))
    BY <2>1, <2>2, <1>2
  <2> QED BY <2>3 DEF p
<1>15. BitPackingDecode(s, n)
         = [status |-> "ok", list |-> [i \in 1..n |-> Num(Field(s, ByteBits + (i - 1) * w, w))]]
  <2>1. width = w
    BY <1>8
  <2> QED BY <2>1, <1>9, <1>14, Zenon DEF BitPackingDecode, width
<1> QED BY <1>13, <1>15, Zenon DEF s

(***************************************************************************)
(* Run lengths read                                                        *)
(***************************************************************************)
RunValueOf(bits, r) == IF r % 2 = 1 THEN bits[1] ELSE 1 - bits[1]
RunNext(bits, before, r, length) ==
  [status |-> "ok", at |-> before.at + Len(RunCode(length)),
   list |-> before.list \o [i \in 1..length |-> RunValueOf(bits, r)]]

(* The code of a run, found: ones, a zero, and the length.                  *)
LEMMA RunIsRead ==
  ASSUME NEW bits \in BitSeq, NEW e \in Nat, NEW length \in Nat, length > 0, length < Power[WordBits - 1],
         Finds(bits, e, RunCode(length)), NEW before, before.status = "ok", before.at = e, NEW r
  PROVE  RleNext(bits, before, r) = RunNext(bits, before, r, length)
<1> DEFINE value == RunValueOf(bits, r)
           w == CodeWidth(length)
           A == [i \in 1..(w - 2) |-> 1]
           z == <<0>>
           D == Bits(length, w)
           zeros == {i \in (before.at + 1)..Len(bits) : bits[i] = 0}
           zero == Min(zeros)
           n == zero - before.at + 1
           p == e + w - 1
<1>1. /\ w \in 2..(WordBits - 1) /\ length < Power[w]
      /\ RunCode(length) = A \o z \o D
      /\ A \in BitSeq /\ Len(A) = w - 2 /\ D \in BitSeq
      /\ RunCode(length) \in BitSeq /\ Len(RunCode(length)) = (2 * w) - 1
  BY RunCodeIs
<1>2. w \in Nat /\ w >= 2 /\ w \in 0..WordBits /\ Len(bits) \in Nat /\ p \in Nat
  <2>1. w \in 2..(WordBits - 1) /\ WordBits \in Nat
    BY <1>1, WidthsAre
  <2> HIDE DEF w
  <2> QED BY <2>1 DEF BitSeq
<1>3. \A i \in 1..(w - 2) : A[i] = 1
  OBVIOUS
<1>4. z \in BitSeq /\ Len(z) = 1 /\ z[1] = 0
  BY DEF BitSeq
<1>5. D \in BitSeq /\ Len(D) = w /\ w = Len(D)
  BY <1>2, BitsAre
<1> HIDE DEF w, A, z, D
<1>6. A \o z \in BitSeq /\ Len(A \o z) = w - 1
  <2>1. \A x, y \in BitSeq : x \o y \in BitSeq /\ Len(x \o y) = Len(x) + Len(y)
    BY DEF BitSeq
  <2>2. A \o z \in BitSeq /\ Len(A \o z) = (w - 2) + 1
    <3>1. A \in BitSeq /\ z \in BitSeq /\ Len(A) = w - 2 /\ Len(z) = 1
      BY <1>1, <1>4, Zenon
    <3> QED BY <2>1, <3>1, ZenonT(40)
  <2> QED BY <2>2, <1>2
<1>7. FindsBoth(bits, e, A \o z, D)
  <2>1. Finds(bits, e, (A \o z) \o D)
    BY <1>1, Zenon
  <2> QED BY <2>1, <1>5, <1>6, FindsSplit, Zenon DEF BitSeq
<1>8. FindsBoth(bits, e, A, z)
  BY <1>7, <1>1, <1>4, FindsSplit, Zenon DEF BitSeq, FindsBoth
<1>9. \A i \in 1..(w - 2) : bits[e + i] = 1
  BY <1>8, <1>1, <1>3 DEF FindsBoth, Finds
<1>10. bits[p] = 0 /\ p <= Len(bits) /\ p = e + (w - 1)
  <2>1. Finds(bits, e + (w - 2), z)
    BY <1>8, <1>1, Zenon DEF FindsBoth
  <2>2. (e + (w - 2)) + 1 = p /\ p = e + (w - 1)
    BY <1>2
  <2>3. 1 \in 1..1
    OBVIOUS
  <2>4. bits[(e + (w - 2)) + 1] = z[1] /\ (e + (w - 2)) + 1 <= Len(bits)
    BY <2>1, <2>3, <1>4, Zenon DEF Finds
  <2> QED BY <2>2, <2>4, <1>4, Zenon
<1>11. Finds(bits, p, D)
  <2>1. Finds(bits, e + (w - 1), D)
    BY <1>7, <1>6, Zenon DEF FindsBoth
  <2> QED BY <2>1, <1>10, Zenon
<1>12. Has(bits, p, w) /\ Num(Field(bits, p, w)) = length
  <2>1. Finds(bits, p, Bits(length, w)) /\ length < Power[w] /\ w \in 0..WordBits
    BY <1>11, <1>1, <1>2, Zenon DEF D
  <2> QED BY <2>1, FindsNumber, Zenon
<1>13. p \in zeros /\ \A i \in zeros : p <= i
  <2>1. p \in zeros
    BY <1>2, <1>10
  <2>2. ASSUME NEW i \in zeros PROVE p <= i
    <3>1. i \in Nat /\ i > e /\ bits[i] = 0
      BY <2>2
    <3>2. CASE i < p
      <4>1. i - e \in 1..(w - 2) /\ e + (i - e) = i
        BY <3>1, <3>2, <1>2
      <4>2. bits[e + (i - e)] = 1
        BY <4>1, <1>9, Zenon
      <4> QED BY <4>1, <4>2, <3>1
    <3> QED BY <3>1, <3>2, <1>2
  <2> QED BY <2>1, <2>2
<1>14. zero = p
  <2>1. \A i \in zeros : i \in Nat
    OBVIOUS
  <2> HIDE DEF zeros, p
  <2>2. zero \in zeros /\ \A i \in zeros : zero <= i
    BY <1>13, Zenon DEF Min
  <2> QED BY <1>13, <2>1, <2>2
<1>15. zeros # {}
  BY <1>13
<1>16. n = w
  <2> HIDE DEF zero
  <2> QED BY <1>14, <1>2
<1>17. e < Len(bits)
  BY <1>10, <1>2
<1>18. p + w = e + Len(RunCode(length))
  <2> DEFINE l == Len(RunCode(length))
  <2>1. l = (2 * w) - 1
    BY <1>1
  <2> HIDE DEF l
  <2> QED BY <2>1, <1>2 DEF l
<1> HIDE DEF n, zero, zeros, p
<1>19. Has(bits, zero, n) /\ Num(Field(bits, zero, n)) = length /\ zero + n = e + Len(RunCode(length))
  BY <1>12, <1>14, <1>16, <1>18
<1>20. ~(before.at >= Len(bits)) /\ length # 0
  BY <1>2, <1>17
<1>21. RleNext(bits, before, r) =
         [status |-> "ok", at |-> zero + n, list |-> before.list \o [i \in 1..Num(Field(bits, zero, n)) |-> value]]
  BY <1>15, <1>19, <1>20, Zenon DEF RleNext, RunValueOf, zeros, zero, n
<1> QED BY <1>19, <1>21, Zenon DEF RunNext

(* What has been read after r runs.                                         *)
RunAt(list, r) == 1 + Len(FlatTo(RunCodes(list), r))
RunsRead(list, r) ==
  [status |-> "ok", at |-> RunAt(list, r), list |-> SubSeq(list, 1, RunEnd(list, r))]

RunsFound(bits, list) ==
  /\ bits \in BitSeq /\ bits # <<>> /\ bits[1] = list[1] /\ RunAt(list, 0) = 1
  /\ \A r \in 1..Len(RunLengths(list)) :
       /\ RunAt(list, r - 1) \in Nat
       /\ RunAt(list, r) = RunAt(list, r - 1) + Len(RunCode(RunLengths(list)[r]))
       /\ Finds(bits, RunAt(list, r - 1), RunCode(RunLengths(list)[r]))

(* The codes of the runs, each where those before it end.                    *)
LEMMA RunsAreFound ==
  ASSUME NEW list \in BitSeq, list # <<>>, Len(list) < Power[WordBits - 1]
  PROVE  RunsFound(RleEncode(list).bits, list)
<1> DEFINE bits == RleEncode(list).bits
           P == RunCodes(list)
           m == Len(RunLengths(list))
           z == <<list[1]>>
           F == FlattenSeq(P)
<1>1. /\ P \in Seq(BitSeq) /\ Len(P) = m /\ F \in BitSeq /\ RunBits(list) \in BitSeq
      /\ bits = PadBits(RunBits(list))
      /\ \A r \in 1..m : P[r] = RunCode(RunLengths(list)[r])
  BY RleIs
<1>2. bits \in BitSeq /\ Finds(bits, 0, RunBits(list))
  BY <1>1, PaddedFinds
<1>3. z \in BitSeq /\ Len(z) = 1 /\ z[1] = list[1]
  BY DEF BitSeq
<1>4. RunBits(list) = z \o F
  BY DEF RunBits
<1> HIDE DEF bits, P, m, z, F
<1>5. FindsBoth(bits, 0, z, F)
  BY <1>1, <1>2, <1>3, <1>4, FindsSplit, Zenon DEF BitSeq
<1>6. Finds(bits, 0, z) /\ Finds(bits, 1, F)
  <2>1. 0 + 1 = 1
    OBVIOUS
  <2> QED BY <2>1, <1>3, <1>5, Zenon DEF FindsBoth
<1>7. bits # <<>> /\ bits[1] = list[1]
  <2>1. 1 \in 1..1 /\ 0 + 1 = 1
    OBVIOUS
  <2>2. bits[1] = z[1] /\ 1 <= Len(bits)
    BY <2>1, <1>6, <1>3, Zenon DEF Finds
  <2> QED BY <2>2, <1>3
<1>8. FindsEach(bits, 1, P)
  BY <1>1, <1>2, <1>6, FindsFlat, Zenon DEF F
<1>9. RunAt(list, 0) = 1
  <2>1. Flats(P, {0, 1})
    BY <1>1, FlatsAre, Zenon DEF BitSeq
  <2>2. FlatTo(P, 0) = <<>>
    BY <2>1, Zenon DEF Flats
  <2> QED BY <2>2 DEF RunAt, P
<1>10. ASSUME NEW r \in 1..m
       PROVE  /\ RunAt(list, r - 1) \in Nat
              /\ RunAt(list, r) = RunAt(list, r - 1) + Len(RunCode(RunLengths(list)[r]))
              /\ Finds(bits, RunAt(list, r - 1), RunCode(RunLengths(list)[r]))
  <2> DEFINE x == Len(FlatTo(P, r - 1))
             y == Len(FlatTo(P, r))
             l == Len(P[r])
  <2>1. /\ Finds(bits, 1 + x, P[r]) /\ y = x + l
        /\ P[r] = RunCode(RunLengths(list)[r])
    BY <1>1, <1>8, <1>10, Zenon DEF FindsEach
  <2>2. P[r] \in BitSeq
    BY <1>1, <1>10
  <2>3. l \in Nat
    BY <2>2 DEF BitSeq
  <2>4. x \in Nat
    <3>1. Flats(P, {0, 1})
      BY <1>1, FlatsAre, Zenon DEF BitSeq
    <3>2. r - 1 \in 0..Len(P)
      BY <1>1, <1>10
    <3>3. FlatTo(P, r - 1) \in Seq({0, 1})
      BY <3>1, <3>2, Zenon DEF Flats
    <3> QED BY <3>3
  <2>5. RunAt(list, r - 1) = 1 + x /\ RunAt(list, r) = 1 + y /\ l = Len(RunCode(RunLengths(list)[r]))
    BY <2>1 DEF RunAt, P
  <2> HIDE DEF x, y, l
  <2>6. 1 + x \in Nat /\ 1 + y = (1 + x) + l
    BY <2>1, <2>3, <2>4
  <2> QED BY <2>1, <2>5, <2>6, Zenon
<1> QED BY <1>2, <1>7, <1>9, <1>10, Zenon DEF RunsFound, bits, m

(* What was written as run lengths reads back as that list.                 *)
LEMMA RleIsRead ==
  ASSUME NEW list \in BitSeq, list # <<>>, Len(list) < Power[WordBits - 1]
  PROVE  /\ RleDecode(RleEncode(list).bits, RleEncode(list).runs).status = "ok"
         /\ RleDecode(RleEncode(list).bits, RleEncode(list).runs).list = list
<1> DEFINE bits == RleEncode(list).bits
           m == Len(RunLengths(list))
           run == [r \in 0..m |-> RunsRead(list, r)]
<1>1. RunsFound(bits, list)
  BY RunsAreFound, Zenon
<1>2. /\ RunsOf(list) /\ RleEncode(list).runs = m
      /\ \A r \in 1..m : RunLengths(list)[r] \in Nat /\ RunLengths(list)[r] > 0
                         /\ RunLengths(list)[r] < Power[WordBits - 1]
  BY RleIs
<1>3. m \in Nat /\ m \in 1..Len(list) /\ RunEnd(list, 0) = 0 /\ RunEnd(list, m) = Len(list)
  <2>1. m \in 1..Len(list) /\ RunEnd(list, 0) = 0 /\ RunEnd(list, m) = Len(list)
    BY <1>2 DEF RunsOf
  <2> QED BY <2>1
<1>4. list \in Seq(Int) /\ list \in Seq({0, 1}) /\ Len(list) \in Nat
  BY DEF BitSeq
<1> HIDE DEF bits, m
<1>5. run[0] = RleStart
  <2>1. run[0] = RunsRead(list, 0)
    BY <1>3
  <2>2. SubSeq(list, 1, 0) = <<>>
    BY <1>4, PrefixAll, Zenon
  <2>3. RunAt(list, 0) = 1
    BY <1>1, Zenon DEF RunsFound
  <2> QED BY <2>1, <2>2, <2>3, <1>3 DEF RunsRead, RleStart
<1>6. ASSUME NEW k \in 1..m PROVE RleNext(bits, run[k - 1], k) = run[k]
  <2> DEFINE e == RunAt(list, k - 1)
             length == RunLengths(list)[k]
             before == RunsRead(list, k - 1)
             value == RunValueOf(bits, k)
             a == RunEnd(list, k - 1)
             b == RunEnd(list, k)
             t == SubSeq(list, a + 1, b)
  <2>1. run[k - 1] = before /\ run[k] = RunsRead(list, k)
    BY <1>3
  <2>2. /\ e \in Nat /\ RunAt(list, k) = e + Len(RunCode(length)) /\ Finds(bits, e, RunCode(length))
        /\ bits \in BitSeq /\ bits[1] = list[1]
    BY <1>1, <1>6, Zenon DEF RunsFound, m
  <2>3. length \in Nat /\ length > 0 /\ length < Power[WordBits - 1]
    BY <1>2, <1>6, Zenon DEF m
  <2>4. before.status = "ok" /\ before.at = e /\ before.list = SubSeq(list, 1, a)
    BY DEF RunsRead
  <2>5. /\ a \in Nat /\ b \in 1..Len(list) /\ b = a + length
        /\ \A i \in (a + 1)..b : list[i] = RunValue(list, k)
    <3>1. /\ a \in 0..Len(list) /\ b \in 1..Len(list) /\ b = a + length
          /\ \A i \in (a + 1)..b : list[i] = RunValue(list, k)
      BY <1>2, <1>6, Zenon DEF RunsOf, m
    <3> QED BY <3>1
  <2>6. value = RunValue(list, k)
    BY <2>2 DEF RunValue, RunValueOf
  <2> HIDE DEF e, length, before, value, a, b
  <2>7. /\ RleNext(bits, before, k) =
             [status |-> "ok", at |-> e + Len(RunCode(length)), list |-> before.list \o [i \in 1..length |-> value]]
    <3>2. bits \in BitSeq /\ e \in Nat /\ Finds(bits, e, RunCode(length))
      BY <2>2, Zenon
    <3> QED BY <3>2, <2>3, <2>4, RunIsRead, ZenonT(40) DEF RunNext, value
  <2>8. a <= b /\ b <= Len(list) /\ b \in Nat /\ b - a = length
    BY <2>3, <2>5, <1>4
  <2>9. SliceOf(list, a, b, t) /\ SubSeq(list, 1, a) \o t = SubSeq(list, 1, b)
    BY <2>5, <2>8, <1>4, SliceIs
  <2>10. t = [i \in 1..length |-> value]
    <3>1. t \in Seq(Int) /\ Len(t) = length /\ \A i \in 1..length : t[i] = list[a + i]
      BY <2>8, <2>9 DEF SliceOf
    <3> HIDE DEF t
    <3>2. \A i \in 1..length : t[i] = value
      <4> TAKE i \in 1..length
      <4>1. a + i \in (a + 1)..b
        BY <2>3, <2>5
      <4> QED BY <4>1, <2>5, <2>6, <3>1
    <3>3. t = [i \in 1..length |-> t[i]]
      BY <3>1
    <3> QED BY <3>2, <3>3, Zenon
  <2>11. before.list \o [i \in 1..length |-> value] = SubSeq(list, 1, b)
    BY <2>4, <2>9, <2>10, Zenon
  <2>12. RunsRead(list, k) = [status |-> "ok", at |-> e + Len(RunCode(length)), list |-> SubSeq(list, 1, b)]
    BY <2>2 DEF RunsRead, b
  <2> QED BY <2>1, <2>7, <2>11, <2>12, Zenon
<1>7. RleDecode(bits, m) = run[m]
  <2> HIDE DEF run
  <2>1. bits # <<>> /\ m \in Nat
    BY <1>1, <1>3, Zenon DEF RunsFound
  <2>2. \A k \in 1..m : RleNext(bits, run[k - 1], k) = run[k]
    BY <1>6, Zenon
  <2> QED BY <2>1, <2>2, <1>5, RleFolds, Zenon DEF RleReads
<1>8. run[m] = RunsRead(list, m)
  BY <1>3
<1>9. RunsRead(list, m).status = "ok" /\ RunsRead(list, m).list = list
  <2>1. SubSeq(list, 1, Len(list)) = list
    BY <1>4, PrefixAll, Zenon
  <2> QED BY <2>1, <1>3 DEF RunsRead
<1> QED BY <1>2, <1>7, <1>8, <1>9, Zenon DEF bits

(***************************************************************************)
(* The fields of a block read                                              *)
(***************************************************************************)
(* A list behind its length in bytes: how long, and where.                  *)
BytesReadAt(s, at, bits) ==
  /\ Has(s, at, LengthBits) /\ Num(Field(s, at, LengthBits)) * ByteBits = Len(bits)
  /\ Has(s, at + LengthBits, Len(bits)) /\ Field(s, at + LengthBits, Len(bits)) = bits
  /\ Len(BytesBits(bits)) = LengthBits + Len(bits) /\ BytesBits(bits) \in BitSeq

(* Bytes found with their number before them are read as they were.          *)
LEMMA BytesAreRead ==
  ASSUME NEW s \in BitSeq, NEW at, NEW bits \in BitSeq, Len(bits) % ByteBits = 0, LengthFits(bits),
         Finds(s, at, BytesBits(bits))
  PROVE  BytesReadAt(s, at, bits)
<1> DEFINE q == Len(bits) \div ByteBits
           A == Bits(q, LengthBits)
<1>1. q \in Nat /\ Len(bits) = q * ByteBits /\ Len(bits) \in Nat
  BY PieceBytes DEF BitSeq
<1>2. q < Power[LengthBits]
  BY DEF LengthFits
<1>3. LengthBits \in 0..WordBits /\ LengthBits \in Nat
  BY WidthsAre
<1> HIDE DEF q
<1>4. A \in BitSeq /\ Len(A) = LengthBits
  <2>1. q \in Int
    BY <1>1
  <2> QED BY <2>1, <1>3, BitsAre
<1>5. BytesBits(bits) = A \o bits
  BY DEF BytesBits, q
<1> HIDE DEF A
<1>6. FindsBoth(s, at, A, bits)
  BY <1>4, <1>5, FindsSplit, Zenon DEF BitSeq
<1>7. Finds(s, at, A) /\ Finds(s, at + LengthBits, bits)
  BY <1>6, <1>4, Zenon DEF FindsBoth
<1>8. Has(s, at, LengthBits) /\ Num(Field(s, at, LengthBits)) = q
  <2>1. Finds(s, at, Bits(q, LengthBits))
    BY <1>7 DEF A
  <2>2. q \in Nat /\ LengthBits \in 0..WordBits /\ q < Power[LengthBits]
    BY <1>1, <1>2, <1>3
  <2> QED BY <2>1, <2>2, FindsNumber
<1>9. Has(s, at + LengthBits, Len(bits)) /\ Field(s, at + LengthBits, Len(bits)) = bits
  <2> DEFINE w == Len(bits)
  <2>1. w = Len(bits)
    OBVIOUS
  <2> HIDE DEF w
  <2>2. Has(s, at + LengthBits, w) /\ Field(s, at + LengthBits, w) = bits
    BY <1>7, <2>1, FindsField
  <2> QED BY <2>1, <2>2
<1>10. Len(A \o bits) = LengthBits + Len(bits) /\ A \o bits \in BitSeq
  <2>1. \A x, y \in BitSeq : x \o y \in BitSeq /\ Len(x \o y) = Len(x) + Len(y)
    BY DEF BitSeq
  <2> QED BY <2>1, <1>4, Zenon
<1>11. Num(Field(s, at, LengthBits)) * ByteBits = Len(bits)
  BY <1>1, <1>8, Zenon
<1> QED BY <1>5, <1>8, <1>9, <1>10, <1>11, Zenon DEF BytesReadAt

(* The numbers of records.                                                  *)
CountsReadAt(s, at, block) ==
  /\ Has(s, at, 2 * WordBits)
  /\ Int32(Field(s, at, WordBits)) = Len(Coded(block))
  /\ Int32(Field(s, at + WordBits, WordBits)) = Len(RawLines(block))
  /\ Len(CountsBits(block)) = 2 * WordBits

(* The two counts of a carried block are words.                              *)
LEMMA CountsAreWords ==
  ASSUME NEW block, Good(block)
  PROVE  /\ Len(Coded(block)) \in Words /\ Len(RawLines(block)) \in Words
         /\ Len(Coded(block)) \in Nat /\ Len(RawLines(block)) \in Nat
         /\ block = <<>> => Len(Coded(block)) = 0 /\ Len(RawLines(block)) = 0
         /\ block # <<>> => FactsOf(block) /\ Len(Coded(block)) >= 1
<1>1. block \in Seq(Records) /\ (block = <<>> \/ (Carried(block) /\ Numbered(block)))
  BY DEF Good
<1>2. HalfWord \in Nat /\ HalfWord >= 1
  BY HalfWordIs
<1>3. /\ Len(Coded(block)) = Rk(Zeros(block), Len(block))
      /\ Len(RawLines(block)) = Rk(Ones(block), Len(block))
      /\ Len(Coded(block)) \in Nat /\ Len(RawLines(block)) \in Nat
  <2>1. Coded(block) \in Seq(CodedRecords) /\ RawLines(block) \in Seq(RawRecords)
        /\ Len(Coded(block)) = Rk(Zeros(block), Len(block))
        /\ Len(RawLines(block)) = Rk(Ones(block), Len(block))
    BY <1>1, RecordsPicked
  <2> QED BY <2>1
<1>4. Words = (-HalfWord)..(HalfWord - 1)
  BY DEF Words, HalfWord
<1>5. CASE block = <<>>
  <2>1. Len(block) = 0
    BY <1>5
  <2>2. Ranks(Zeros(block), 0) /\ Ranks(Ones(block), 0)
    BY RanksAre
  <2>3. Len(Coded(block)) = 0 /\ Len(RawLines(block)) = 0
    BY <1>3, <2>1, <2>2, Zenon DEF Ranks
  <2>4. 0 \in Words
    BY <1>2, <1>4
  <2> QED BY <1>5, <1>3, <2>3, <2>4, Zenon
<1>6. CASE block # <<>>
  <2>1. FactsOf(block)
    BY <1>1, <1>6, FactsAre, Zenon
  <2> DEFINE x == Len(Coded(block))
             y == Len(RawLines(block))
             z == Len(block)
  <2>2. x >= 1 /\ x <= z /\ y <= z /\ z < HalfWord
    BY <2>1, Zenon DEF FactsOf
  <2>3. x \in Nat /\ y \in Nat /\ z \in Nat
    BY <1>1, <1>3
  <2> HIDE DEF x, y, z
  <2>4. x \in Words /\ y \in Words
    BY <2>2, <2>3, <1>2, <1>4
  <2> QED BY <1>6, <2>1, <2>2, <2>3, <2>4, Zenon DEF x, y
<1> QED BY <1>5, <1>6

(* The counts found are read as they were,                                   *)
LEMMA CountsAreRead ==
  ASSUME NEW s \in BitSeq, NEW at, NEW block, Good(block), Finds(s, at, CountsBits(block))
  PROVE  CountsReadAt(s, at, block)
<1> DEFINE x == Len(Coded(block))
           y == Len(RawLines(block))
           A == Bits(x, WordBits)
           B == Bits(y, WordBits)
<1>1. x \in Words /\ y \in Words /\ x \in Int /\ y \in Int
  <2>1. x \in Words /\ y \in Words /\ x \in Nat /\ y \in Nat
    BY CountsAreWords, Zenon
  <2> QED BY <2>1
<1>2. WordBits \in 0..WordBits /\ WordBits \in Nat
  BY WidthsAre
<1> HIDE DEF x, y
<1>3. A \in BitSeq /\ Len(A) = WordBits /\ B \in BitSeq /\ Len(B) = WordBits
  BY <1>1, <1>2, BitsAre
<1>4. CountsBits(block) = A \o B
  BY DEF CountsBits, x, y
<1> HIDE DEF A, B
<1>5. FindsBoth(s, at, A, B)
  BY <1>3, <1>4, FindsSplit, Zenon DEF BitSeq
<1>6. Finds(s, at, A) /\ Finds(s, at + WordBits, B)
  BY <1>3, <1>5, Zenon DEF FindsBoth
<1>7. Int32(Field(s, at, WordBits)) = x
  BY <1>1, <1>6, FindsWord, Zenon DEF A
<1>8. Has(s, at + WordBits, WordBits) /\ Int32(Field(s, at + WordBits, WordBits)) = y
  BY <1>1, <1>6, FindsWord, Zenon DEF B
<1>9. Has(s, at, 2 * WordBits)
  <2>1. at \in Nat /\ Len(s) \in Nat
    BY <1>6 DEF Finds, BitSeq
  <2> QED BY <2>1, <1>2, <1>8 DEF Has
<1>10. Len(A \o B) = 2 * WordBits
  <2>1. \A u, v \in BitSeq : Len(u \o v) = Len(u) + Len(v)
    BY DEF BitSeq
  <2>2. Len(A \o B) = WordBits + WordBits
    BY <2>1, <1>3, Zenon
  <2> QED BY <2>2, <1>2
<1> QED BY <1>4, <1>7, <1>8, <1>9, <1>10, Zenon DEF CountsReadAt, x, y

(* The methods, as run lengths.                                             *)
MethodsReadAt(s, at, block) ==
  LET bits == RleEncode(Methods(block)).bits
      bytes == Num(Field(s, at, LengthBits)) * ByteBits
      rle == RleDecode(Field(s, at + LengthBits, bytes), Num(Field(s, at + LengthBits + bytes, WordBits)))
  IN  /\ Has(s, at, LengthBits) /\ Has(s, at + LengthBits, bytes + WordBits)
      /\ rle.status = "ok" /\ rle.list = Methods(block)
      /\ at + LengthBits + bytes + WordBits = at + Len(MethodsBits(block))

(* and the methods,                                                          *)
LEMMA MethodsAreRead ==
  ASSUME NEW s \in BitSeq, NEW at, NEW block, Good(block), block # <<>>,
         Finds(s, at, MethodsBits(block))
  PROVE  MethodsReadAt(s, at, block)
<1> DEFINE methods == Methods(block)
           rle == RleEncode(methods)
           bits == rle.bits
           runs == rle.runs
           A == BytesBits(bits)
           B == Bits(runs, WordBits)
           bytes == Num(Field(s, at, LengthBits)) * ByteBits
<1>1. block \in Seq(Records) /\ FactsOf(block) /\ LengthFits(bits)
  BY CountsAreWords, Zenon DEF Good, Carried
<1>2. methods \in BitSeq /\ Len(methods) < Power[WordBits - 1] /\ Len(methods) < HalfWord /\ methods # <<>>
      /\ Len(methods) \in Nat
  <2>1. methods \in BitSeq /\ Len(methods) = Len(block)
    BY <1>1, ListsAre, Zenon DEF ListsOf
  <2>2. Len(block) < HalfWord
    BY <1>1, Zenon DEF FactsOf
  <2>3. Len(block) > 0
    BY <1>1
  <2> HIDE DEF methods
  <2> QED BY <2>1, <2>2, <2>3 DEF HalfWord, BitSeq
<1> HIDE DEF methods
<1>3. bits \in BitSeq /\ Len(bits) % ByteBits = 0 /\ runs \in Nat /\ runs <= Len(methods)
  BY <1>2, RleTyped
<1>4. WordBits \in 0..WordBits /\ WordBits \in Nat /\ LengthBits \in Nat
  BY WidthsAre
<1>5. runs < Power[WordBits] /\ runs \in Nat
  <2>1. WordBits - 1 \in 0..WordBits
    BY WidthsAre
  <2>2. Power[WordBits - 1] <= Power[WordBits] /\ Power[WordBits] \in Nat /\ Power[WordBits - 1] \in Nat
    BY <2>1, <1>4, PowerGrows
  <2> HIDE DEF runs
  <2> QED BY <1>2, <1>3, <2>2
<1> HIDE DEF bits, runs
<1>6. BytesBits(bits) \in BitSeq
  <2>1. Piece(PutBytes(bits), BytesBits(bits))
    BY <1>3, PieceOfBytes, Zenon
  <2> QED BY <2>1, PieceTyped, Zenon
<1>7. B \in BitSeq /\ Len(B) = WordBits
  <2>1. runs \in Int
    BY <1>5
  <2> QED BY <2>1, <1>4, BitsAre
<1>8. MethodsBits(block) = A \o B
  BY DEF MethodsBits, A, B, bits, runs, methods
<1>9. FindsBoth(s, at, A, B)
  <2> HIDE DEF B
  <2> QED BY <1>6, <1>7, <1>8, FindsSplit, Zenon DEF BitSeq
<1>10. BytesReadAt(s, at, bits)
  BY <1>1, <1>3, <1>9, BytesAreRead, Zenon DEF FindsBoth
<1>11. /\ Has(s, at, LengthBits) /\ bytes = Len(bits)
       /\ Field(s, at + LengthBits, bytes) = bits
       /\ Len(A) = LengthBits + bytes
  BY <1>10, Zenon DEF BytesReadAt
<1>12. bytes \in Nat /\ at \in Nat
  <2>1. Len(bits) \in Nat
    BY <1>3 DEF BitSeq
  <2> HIDE DEF bytes
  <2> QED BY <2>1, <1>11, <1>9 DEF FindsBoth, Finds
<1> HIDE DEF bytes, A, B
<1>13. Finds(s, at + LengthBits + bytes, B)
  <2>1. at + Len(A) = at + LengthBits + bytes
    BY <1>4, <1>11, <1>12
  <2> QED BY <2>1, <1>9, Zenon DEF FindsBoth
<1>14. Has(s, at + LengthBits + bytes, WordBits) /\ Num(Field(s, at + LengthBits + bytes, WordBits)) = runs
  <2>1. Finds(s, at + LengthBits + bytes, Bits(runs, WordBits))
    BY <1>13 DEF B
  <2> QED BY <2>1, <1>4, <1>5, FindsNumber, Zenon
<1>15. Has(s, at + LengthBits, bytes + WordBits)
  <2>1. Len(s) \in Nat
    BY DEF BitSeq
  <2> QED BY <2>1, <1>14, <1>4, <1>12 DEF Has
<1>16. RleDecode(bits, runs).status = "ok" /\ RleDecode(bits, runs).list = methods
  BY <1>2, RleIsRead, Zenon DEF bits, runs
<1>17. at + LengthBits + bytes + WordBits = at + Len(A \o B)
  <2>1. \A u, v \in BitSeq : Len(u \o v) = Len(u) + Len(v)
    BY DEF BitSeq
  <2>2. Len(A \o B) = (LengthBits + bytes) + WordBits
    BY <2>1, <1>6, <1>7, <1>11, Zenon DEF A
  <2> QED BY <2>2, <1>4, <1>12
<1> QED BY <1>8, <1>11, <1>14, <1>15, <1>16, <1>17, Zenon DEF MethodsReadAt, bytes, methods

(* A packed list of n values.                                               *)
PackReadAt(s, at, list, n) ==
  LET bytes == Num(Field(s, at, LengthBits)) * ByteBits
  IN  /\ Has(s, at, LengthBits) /\ Has(s, at + LengthBits, bytes)
      /\ BitPackingDecode(Field(s, at + LengthBits, bytes), n) = [status |-> "ok", list |-> list]
      /\ at + LengthBits + bytes = at + Len(PackBits(list))

(* and a packed list,                                                        *)
LEMMA PackIsRead ==
  ASSUME NEW s \in BitSeq, NEW at, NEW list \in Seq(Nat), list # <<>>, LengthFits(BitPackingEncode(list)),
         \A i \in 1..Len(list) : list[i] < Power[Most(WordBits - 1)],
         Finds(s, at, PackBits(list)), NEW n, n = Len(list)
  PROVE  PackReadAt(s, at, list, n)
<1> DEFINE m == Most(WordBits - 1)
           bits == BitPackingEncode(list)
           bytes == Num(Field(s, at, LengthBits)) * ByteBits
<1>1. m \in 1..WordBits /\ m < Power[WidthBits]
  <2>1. WordBits - 1 \in 1..WordBits
    BY ByteIs
  <2> QED BY <2>1, MostIs
<1> HIDE DEF m
<1>2. bits \in BitSeq /\ Len(bits) % ByteBits = 0
  <2>1. \A i \in 1..Len(list) : list[i] < Power[m]
    BY DEF m
  <2>2. bits = PadBits(PackedBits(list)) /\ PackedBits(list) \in BitSeq
    BY <1>1, <2>1, PackedIs, Zenon
  <2>3. PadBits(PackedBits(list)) \in BitSeq /\ Len(PadBits(PackedBits(list))) = Aligned(Len(PackedBits(list)))
    BY <2>2, PaddedIs, Zenon
  <2>4. Len(PackedBits(list)) \in Nat
    BY <2>2 DEF BitSeq
  <2>5. Aligned(Len(PackedBits(list))) % ByteBits = 0
    BY <2>4, Rounded, Zenon
  <2> QED BY <2>2, <2>3, <2>5, Zenon
<1>3. BitPackingDecode(bits, n) = [status |-> "ok", list |-> list]
  <2>1. \A i \in 1..Len(list) : list[i] < Power[m]
    BY DEF m
  <2> QED BY <1>1, <2>1, PackedIsRead, Zenon
<1> HIDE DEF bits
<1>4. PackBits(list) = BytesBits(bits)
  BY DEF PackBits, bits
<1>5. BytesReadAt(s, at, bits)
  BY <1>2, <1>4, BytesAreRead, Zenon DEF bits
<1>6. /\ Has(s, at, LengthBits) /\ bytes = Len(bits) /\ Has(s, at + LengthBits, bytes)
      /\ Field(s, at + LengthBits, bytes) = bits
      /\ Len(BytesBits(bits)) = LengthBits + bytes
  BY <1>5, Zenon DEF BytesReadAt
<1>7. at + LengthBits + bytes = at + Len(PackBits(list))
  <2>1. Len(bits) \in Nat /\ at \in Nat /\ LengthBits \in Nat
    BY <1>2, WidthsAre, SMTT(40) DEF BitSeq, Finds
  <2> HIDE DEF bytes
  <2> QED BY <2>1, <1>4, <1>6
<1> QED BY <1>3, <1>6, <1>7, Zenon DEF PackReadAt, bytes

(* A ts2diff list.                                                          *)
DiffReadAt(s, at, list) ==
  Ts2DiffDecode(s, at) = [status |-> "ok", list |-> list, at |-> at + Len(DiffBits(list))]

(* and a list of differences,                                                *)
LEMMA DiffIsRead ==
  ASSUME NEW s \in BitSeq, NEW at, at % ByteBits = 0, NEW list, ListRead(list), Finds(s, at, DiffBits(list))
  PROVE  DiffReadAt(s, at, list)
<1> DEFINE m == Most((3 * ByteBits) + 1)
<1>1. list \in Seq(Int) /\ NoSingle(list) /\ Stepped(list, m) /\ Counted(list)
  BY Zenon DEF ListRead, Counted, HalfWord
<1>2. m \in 1..WordBits /\ m < Power[WidthBits] /\ m <= (3 * ByteBits) + 1
  <2>1. (3 * ByteBits) + 1 \in 1..WordBits
    BY ByteIs
  <2>2. m \in 1..((3 * ByteBits) + 1) /\ m \in 1..WordBits /\ m < Power[WidthBits]
    BY <2>1, MostIs
  <2> HIDE DEF m
  <2> QED BY <2>2
<1> HIDE DEF m
<1>3. DiffBits(list) = ListBits(list)
  BY <1>1 DEF DiffBits, NoSingle
<1>4. Finds(s, at, ListBits(list))
  BY <1>3, Zenon
<1>5. Ts2DiffDecode(s, at) = [status |-> "ok", list |-> list, at |-> at + Len(ListBits(list))]
  BY <1>1, <1>2, <1>4, ListIsRead, Zenon
<1> QED BY <1>3, <1>5, Zenon DEF DiffReadAt

(* Text, byte by byte.                                                      *)
TextReadAt(s, at, text) ==
  /\ at \in Nat /\ Len(TextBits(text)) = Len(text) * ByteBits
  /\ at + (Len(text) * ByteBits) <= Len(s)
  /\ \A i \in 1..Len(text) : Num(Field(s, at + ((i - 1) * ByteBits), ByteBits)) = text[i]

(* and a text.                                                               *)
LEMMA TextIsRead ==
  ASSUME NEW s \in BitSeq, NEW at, NEW text \in Seq(Byte), Finds(s, at, TextBits(text))
  PROVE  TextReadAt(s, at, text)
<1> DEFINE P == AllBits(text, ByteBits)
<1>1. ByteBits \in 1..WordBits /\ ByteBits \in 0..WordBits /\ ByteBits \in Nat /\ text \in Seq(Int)
      /\ \A i \in 1..Len(text) : text[i] \in Nat /\ text[i] < Power[ByteBits]
  <2>1. ByteBits \in 1..WordBits /\ ByteBits \in 0..WordBits /\ ByteBits \in Nat
    BY ByteIs
  <2>2. Power[ByteBits] \in Nat
    BY <2>1, PowerIs
  <2>3. \A i \in 1..Len(text) : text[i] \in Byte
    OBVIOUS
  <2>4. \A b \in Byte : b \in Nat /\ b \in Int /\ b < Power[ByteBits]
    BY <2>2 DEF Byte
  <2>5. text \in Seq(Int)
    BY <2>4
  <2> QED BY <2>1, <2>3, <2>4, <2>5, Zenon
<1>2. FindsNumbers(s, at, text, ByteBits)
  BY <1>1, FindsAll, Zenon DEF TextBits
<1>3. Len(TextBits(text)) = Len(text) * ByteBits
  <2>1. /\ PutAll(text, ByteBits) \in Seq(CallSet) /\ Laid(PutAll(text, ByteBits)) = TextBits(text)
        /\ Size(PutAll(text, ByteBits)) = Len(text) * ByteBits
    BY <1>1, AllPut, Zenon DEF TextBits
  <2>2. IsLaid(PutAll(text, ByteBits))
    BY <2>1, LaidTyped, Zenon
  <2> QED BY <2>1, <2>2, Zenon DEF IsLaid
<1>4. at \in Nat /\ at + Len(TextBits(text)) <= Len(s)
  BY Zenon DEF Finds
<1>5. ASSUME NEW i \in 1..Len(text) PROVE Num(Field(s, at + ((i - 1) * ByteBits), ByteBits)) = text[i]
  <2>1. Finds(s, at + ((i - 1) * ByteBits), Bits(text[i], ByteBits))
    BY <1>2, <1>5, Zenon DEF FindsNumbers
  <2>2. text[i] \in Nat /\ text[i] < Power[ByteBits] /\ ByteBits \in 0..WordBits
    BY <1>1, <1>5, Zenon
  <2> QED BY <2>1, <2>2, FindsNumber, Zenon
<1> QED BY <1>3, <1>4, <1>5, Zenon DEF TextReadAt

(***************************************************************************)
(* Where the fields and the blocks are                                     *)
(***************************************************************************)
FieldAt(block, base, k) == base + Len(FlatTo(FieldBits(block), k - 1))
BlockFound(s, base, block) ==
  /\ base \in Nat
  /\ \A k \in 1..9 : FieldAt(block, base, k) \in Nat /\ FieldAt(block, base, k) % ByteBits = 0
  /\ \A k \in 1..8 : /\ Finds(s, FieldAt(block, base, k), FieldBits(block)[k])
                     /\ FieldAt(block, base, k + 1) = FieldAt(block, base, k) + Len(FieldBits(block)[k])
  /\ FieldAt(block, base, 1) = base
  /\ FieldAt(block, base, 9) = base + Len(StreamOf(block))

(* A block found, so is each of its fields, where the ones before it end.    *)
LEMMA BlockIsFound ==
  ASSUME NEW s \in BitSeq, NEW base, base % ByteBits = 0, NEW block, Good(block),
         Finds(s, base, StreamOf(block))
  PROVE  BlockFound(s, base, block)
<1> DEFINE P == FieldBits(block)
           L(k) == Len(FlatTo(P, k))
<1>1. P \in Seq(BitSeq) /\ Len(P) = 8
  BY FieldLists
<1>2. FindsEach(s, base, P)
  BY <1>1, FindsFlat, Zenon DEF StreamOf
<1>3. base \in Nat /\ base \in Int
  BY DEF Finds
<1>4. Flats(P, {0, 1})
  BY <1>1, FlatsAre, Zenon DEF BitSeq
<1>5. \A k \in 0..8 : L(k) \in Nat /\ L(k) \in Int /\ L(k) % ByteBits = 0
  <2> TAKE k \in 0..8
  <2>1. Piece(FirstFields(block, k), FlatTo(P, k))
    BY FirstFieldsAre, Zenon
  <2>2. L(k) \in Nat /\ L(k) % ByteBits = 0
    BY <2>1, PieceTyped, Zenon
  <2> HIDE DEF L
  <2> QED BY <2>2
<1>6. \A k \in 1..9 : k - 1 \in 0..8
  OBVIOUS
<1>7. ASSUME NEW k \in 1..9
      PROVE  FieldAt(block, base, k) \in Nat /\ FieldAt(block, base, k) % ByteBits = 0
  <2> DEFINE x == L(k - 1)
  <2>1. x \in Nat /\ x \in Int /\ x % ByteBits = 0
    BY <1>5, <1>6, Zenon
  <2>2. FieldAt(block, base, k) = base + x
    BY DEF FieldAt
  <2> HIDE DEF x
  <2>3. ByteBits \in Nat \ {0}
    BY ByteIs
  <2>4. (base + x) % ByteBits = base % ByteBits
    BY <2>1, <2>3, <1>3, Remains, Zenon
  <2>5. base + x \in Nat
    BY <2>1, <1>3
  <2> QED BY <2>2, <2>4, <2>5, Zenon
<1>8. ASSUME NEW k \in 1..8
      PROVE  /\ Finds(s, FieldAt(block, base, k), P[k])
             /\ FieldAt(block, base, k + 1) = FieldAt(block, base, k) + Len(P[k])
  <2>1. Finds(s, base + L(k - 1), P[k]) /\ L(k) = L(k - 1) + Len(P[k])
    BY <1>1, <1>2, <1>8, Zenon DEF FindsEach
  <2>2. (k + 1) - 1 = k /\ k - 1 \in 0..8 /\ k \in 0..8
    OBVIOUS
  <2>3. FieldAt(block, base, k) = base + L(k - 1) /\ FieldAt(block, base, k + 1) = base + L(k)
    BY <2>2, Zenon DEF FieldAt
  <2> DEFINE x == L(k - 1)
             y == L(k)
             z == Len(P[k])
  <2>4. x \in Nat /\ y = x + z
    BY <1>5, <2>1, <2>2, Zenon
  <2>5. z \in Nat
    <3> HIDE DEF P, L
    <3>1. \A j \in 1..8 : P[j] \in BitSeq
      <4>1. \A Q \in Seq(BitSeq) : \A j \in 1..Len(Q) : Q[j] \in BitSeq
        OBVIOUS
      <4> QED BY <4>1, <1>1, Zenon
    <3>2. \A b \in BitSeq : Len(b) \in Nat
      BY DEF BitSeq
    <3> QED BY <3>1, <3>2, Zenon DEF z
  <2> HIDE DEF x, y, z
  <2>6. base + y = (base + x) + z
    BY <2>4, <2>5, <1>3
  <2> QED BY <2>1, <2>3, <2>6, Zenon DEF x, y, z
<1>9. FieldAt(block, base, 1) = base /\ FieldAt(block, base, 9) = base + Len(StreamOf(block))
  <2>1. 1 - 1 = 0 /\ 9 - 1 = 8
    OBVIOUS
  <2>2. FlatTo(P, 0) = <<>> /\ FlatTo(P, 8) = StreamOf(block)
    BY <1>1, <1>4, Zenon DEF Flats, StreamOf
  <2>3. Len(FlatTo(P, 0)) = 0
    BY <2>2
  <2>4. FieldAt(block, base, 1) = base + Len(FlatTo(P, 0)) /\ FieldAt(block, base, 9) = base + Len(FlatTo(P, 8))
    BY <2>1, Zenon DEF FieldAt
  <2> QED BY <2>2, <2>3, <2>4, <1>3
<1> QED BY <1>3, <1>7, <1>8, <1>9, Zenon DEF BlockFound

(* The fields one by one.                                                   *)
LEMMA FieldsAre ==
  ASSUME NEW block
  PROVE  /\ FieldBits(block)[1] = CountsBits(block) /\ FieldBits(block)[2] = MethodsBits(block)
         /\ FieldBits(block)[3] = PackBits(Begins(block)) /\ FieldBits(block)[4] = PackBits(OperationSizes(block))
         /\ FieldBits(block)[5] = DiffBits(LengthList(block))
         /\ FieldBits(block)[6] = DiffBits(PositionBegins(block)) \o DiffBits(PositionDeltas(block))
         /\ FieldBits(block)[7] = TextBits(CodedText(block)) /\ FieldBits(block)[8] = TextBits(RawText(block))
BY DEF FieldBits

(* The blocks of an archive.                                                *)
Streams(a) == [b \in 1..Len(a) |-> StreamOf(a[b])]
StartOf(a, b) == Len(FlatTo(Streams(a), b))
ArchiveFound(a) ==
  /\ Streams(a) \in Seq(BitSeq) /\ Len(Streams(a)) = Len(a) /\ FlattenSeq(Streams(a)) \in BitSeq
  /\ StartOf(a, 0) = 0 /\ StartOf(a, Len(a)) = Len(FlattenSeq(Streams(a)))
  /\ \A b \in 0..Len(a) : /\ StartOf(a, b) \in Nat /\ StartOf(a, b) % ByteBits = 0
                          /\ StartOf(a, b) <= Len(FlattenSeq(Streams(a)))
  /\ \A b \in 1..Len(a) : /\ BlockFound(FlattenSeq(Streams(a)), StartOf(a, b - 1), a[b])
                          /\ StartOf(a, b) = StartOf(a, b - 1) + Len(StreamOf(a[b]))

(* The stream of an archive holds each of its blocks, where the ones before  *)
(* it end.                                                                   *)
LEMMA ArchiveIsFound ==
  ASSUME CarriedArchives, NEW a \in Archives
  PROVE  ArchiveFound(a)
<1> DEFINE P == Streams(a)
           n == Len(a)
           F == FlattenSeq(P)
           S(b) == StartOf(a, b)
           H == {b \in 0..n : S(b) \in Nat /\ S(b) % ByteBits = 0}
<1>1. a \in Seq(Seq(Records)) /\ \A b \in 1..n : Good(a[b])
  BY GoodArchive
<1>2. n \in Nat
  BY <1>1
<1>3. \A b \in 1..n : StreamOf(a[b]) \in BitSeq /\ Len(StreamOf(a[b])) % ByteBits = 0
  <2> TAKE b \in 1..n
  <2>1. Piece(Calls(a[b]), StreamOf(a[b]))
    BY <1>1, BlockIsPiece, Zenon
  <2> QED BY <2>1, PieceTyped, Zenon
<1>4. P \in Seq(BitSeq) /\ Len(P) = n /\ \A b \in 1..n : P[b] = StreamOf(a[b])
  <2> HIDE DEF n
  <2>1. P = [b \in 1..n |-> StreamOf(a[b])]
    BY DEF Streams, n
  <2>2. \A b \in 1..n : P[b] = StreamOf(a[b])
    BY <2>1
  <2>3. P = [b \in 1..n |-> P[b]] /\ \A b \in 1..n : P[b] \in BitSeq
    BY <2>1, <2>2, <1>3, Zenon
  <2> HIDE DEF P
  <2>4. P \in Seq(BitSeq) /\ Len(P) = n
    BY <2>3, <1>2, SeqMade, Zenon
  <2> QED BY <2>2, <2>4, Zenon
<1> HIDE DEF P, F
<1>5. Flats(P, {0, 1})
  BY <1>4, FlatsAre, Zenon DEF BitSeq
<1>6. F \in BitSeq /\ F = FlatTo(P, n) /\ FlatTo(P, 0) = <<>>
  <2>1. n \in 0..n
    BY <1>2
  <2> QED BY <1>4, <1>5, <2>1 DEF Flats, F, BitSeq
<1>7. Finds(F, 0, F)
  <2>1. Len(F) \in Nat
    BY <1>6 DEF BitSeq
  <2> QED BY <2>1 DEF Finds
<1>8. FindsEach(F, 0, P)
  BY <1>4, <1>6, <1>7, FindsFlat, Zenon DEF F
<1>9. \A b \in 0..n : S(b) = Len(FlatTo(P, b))
  BY DEF StartOf, P
<1> HIDE DEF S, n
<1>10. S(0) = 0 /\ S(n) = Len(F)
  <2>1. 0 \in 0..n /\ n \in 0..n
    BY <1>2
  <2>2. Len(FlatTo(P, 0)) = 0
    BY <1>6
  <2> QED BY <2>1, <2>2, <1>6, <1>9, Zenon
<1>11. ASSUME NEW b \in 1..n
       PROVE  /\ S(b) = S(b - 1) + Len(StreamOf(a[b])) /\ Finds(F, S(b - 1), StreamOf(a[b]))
              /\ S(b - 1) \in Nat
  <2>1. /\ Finds(F, 0 + Len(FlatTo(P, b - 1)), P[b])
        /\ Len(FlatTo(P, b)) = Len(FlatTo(P, b - 1)) + Len(P[b])
    BY <1>4, <1>8, <1>11, Zenon DEF FindsEach
  <2>2. b - 1 \in 0..n /\ b \in 0..n
    BY <1>2
  <2>3. Len(FlatTo(P, b - 1)) \in Nat
    <3>1. FlatTo(P, b - 1) \in Seq({0, 1})
      BY <2>2, <1>4, <1>5, Zenon DEF Flats
    <3> QED BY <3>1
  <2>4. S(b) = Len(FlatTo(P, b)) /\ S(b - 1) = Len(FlatTo(P, b - 1))
    BY <1>9, <2>2, Zenon
  <2>5. P[b] = StreamOf(a[b])
    BY <1>4
  <2>6. 0 + S(b - 1) = S(b - 1) /\ S(b - 1) \in Nat
    BY <2>3, <2>4
  <2> QED BY <2>1, <2>4, <2>5, <2>6, Zenon
<1>12. \A b \in 0..n : b \in H
  <2>1. 0 \in H
    BY <1>2, <1>10, ByteIs
  <2>2. ASSUME NEW b \in 1..n, b - 1 \in H PROVE b \in H
    <3> DEFINE l == Len(StreamOf(a[b]))
               x == S(b - 1)
    <3>1. S(b) = x + l /\ x \in Nat /\ x \in Int /\ x % ByteBits = 0
      BY <1>11, <2>2
    <3>2. l \in Nat /\ l \in Int /\ l % ByteBits = 0
      BY <1>3 DEF BitSeq, n
    <3> HIDE DEF l, x
    <3>3. (x + l) % ByteBits = x % ByteBits
      <4>1. ByteBits \in Nat \ {0}
        BY ByteIs
      <4> QED BY <3>1, <3>2, <4>1, Remains, Zenon
    <3>4. x + l \in Nat /\ b \in 0..n
      BY <3>1, <3>2, <1>2
    <3> QED BY <3>1, <3>3, <3>4, Zenon
  <2> HIDE DEF H
  <2> QED BY <2>1, <2>2, <1>2, CountUp, Zenon
<1>13. \A b \in 0..n : S(b) \in Nat /\ S(b) % ByteBits = 0
  BY <1>12, Zenon
<1>14. \A b \in 0..n : S(b) <= Len(F)
  <2> TAKE b \in 0..n
  <2>1. Finds(F, 0, FlatTo(P, b)) /\ 0 + Len(FlatTo(P, b)) \in Nat
    BY <1>4, <1>8, Zenon DEF FindsEach
  <2>2. 0 + Len(FlatTo(P, b)) <= Len(F)
    BY <2>1, Zenon DEF Finds
  <2>3. S(b) = Len(FlatTo(P, b)) /\ S(b) \in Nat
    BY <1>9, <1>13, Zenon
  <2> QED BY <2>2, <2>3
<1>15. \A b \in 1..n : BlockFound(F, S(b - 1), a[b])
  <2> TAKE b \in 1..n
  <2>1. b - 1 \in 0..n /\ Good(a[b])
    BY <1>1, <1>2 DEF n
  <2> QED BY <2>1, <1>6, <1>11, <1>13, BlockIsFound, Zenon
<1> QED BY <1>4, <1>6, <1>10, <1>11, <1>13, <1>14, <1>15, Zenon DEF ArchiveFound, P, F, S, n

(***************************************************************************)
(* The lists of a block and what of them belongs to a record               *)
(***************************************************************************)
LEMMA SubSeqFound ==
  ASSUME NEW T, NEW s \in Seq(T), NEW at, NEW t \in Seq(T), Finds(s, at, t), NEW a, NEW b,
         a = at + 1, b = at + Len(t)
  PROVE  SubSeq(s, a, b) = t
<1>1. at \in Nat /\ Len(t) \in Nat /\ Len(s) \in Nat /\ at + Len(t) <= Len(s)
      /\ \A i \in 1..Len(t) : s[at + i] = t[i]
  BY DEF Finds
<1>2. SubSeq(s, a, b) \in Seq(T) /\ Len(SubSeq(s, a, b)) = Len(t)
      /\ \A i \in 1..Len(t) : SubSeq(s, a, b)[i] = s[at + i]
  BY <1>1
<1> DEFINE u == SubSeq(s, a, b)
<1> HIDE DEF u
<1>3. u \in Seq(T) /\ Len(u) = Len(t) /\ \A i \in 1..Len(t) : u[i] = t[i]
  BY <1>1, <1>2 DEF u
<1>4. u = t
  BY <1>3
<1> QED BY <1>4 DEF u

Known(block) ==
  [methods |-> Methods(block), begins |-> Begins(block), sizes |-> OperationSizes(block),
   lengths |-> LengthList(block), pbegin |-> PositionBegins(block), pdelta |-> PositionDeltas(block)]

(* The lengths, positions and steps of the k-th coded record are found where *)
(* those before them end.                                                   *)
PartsFound(block, k) ==
  LET r == Coded(block)[k]
      S == SizesTo(block, k - 1)
      B == BusyTo(block, k - 1)
  IN  /\ Finds(LengthList(block), 2 * S, DelsOf(r))
      /\ Finds(LengthList(block), (2 * S) + Len(r.ops), LensOf(r))
      /\ Finds(PositionBegins(block), B, FirstOf(r))
      /\ Finds(PositionDeltas(block), S - B, StepsOf(r))
      /\ BusyTo(block, k) <= Len(PositionBegins(block))
      /\ SizesTo(block, k) - BusyTo(block, k) <= Len(PositionDeltas(block))

(* A record's part of each list of its block.                                *)
LEMMA PartsAreFound ==
  ASSUME NEW block \in Seq(Records), NEW k \in 1..Len(Coded(block))
  PROVE  PartsFound(block, k)
<1> DEFINE n == Len(Coded(block))
           r == Coded(block)[k]
           L == LengthList(block)
           A == PositionBegins(block)
           D == PositionDeltas(block)
           lp == LenPieces(block)
           pp == PosPieces(block)
           sp == StepPieces(block)
<1>1. /\ n \in Nat /\ r \in CodedRecords
      /\ L = FlattenSeq(lp) /\ lp \in Seq(Seq(Nat)) /\ Len(lp) = n
      /\ A = FlattenSeq(pp) /\ pp \in Seq(Seq(Nat)) /\ Len(pp) = n
      /\ D = FlattenSeq(sp) /\ sp \in Seq(Seq(Int)) /\ Len(sp) = n
  BY ListsAre, Zenon DEF ListsOf, Made
<1>2. lp[k] = DelsOf(r) \o LensOf(r) /\ pp[k] = FirstOf(r) /\ sp[k] = StepsOf(r)
  BY DEF LenPieces, PosPieces, StepPieces
<1> HIDE DEF r, L, A, D, lp, pp, sp, n
<1>3. /\ L \in Seq(Nat) /\ A \in Seq(Nat) /\ D \in Seq(Int)
  BY <1>1, FlatHasAll, Zenon
<1>4. Finds(L, 0, FlattenSeq(lp)) /\ Finds(A, 0, FlattenSeq(pp)) /\ Finds(D, 0, FlattenSeq(sp))
  <2>1. Len(L) \in Nat /\ Len(A) \in Nat /\ Len(D) \in Nat
    BY <1>3
  <2>2. Finds(L, 0, L) /\ Finds(A, 0, A) /\ Finds(D, 0, D)
    BY <2>1 DEF Finds
  <2> QED BY <2>2, <1>1, Zenon
<1>5. FindsEach(L, 0, lp)
  BY <1>1, <1>3, <1>4, FindsInFlat, Zenon
<1>6. FindsEach(A, 0, pp)
  BY <1>1, <1>3, <1>4, FindsInFlat, Zenon
<1>7. FindsEach(D, 0, sp)
  BY <1>1, <1>3, <1>4, FindsInFlat, Zenon
<1>8. k \in 1..n /\ k - 1 \in 0..n /\ k \in 0..n /\ k \in 1..Len(lp) /\ k \in 1..Len(pp) /\ k \in 1..Len(sp)
      /\ k \in 0..Len(pp) /\ k \in 0..Len(sp)
  BY <1>1 DEF n
<1> DEFINE S == SizesTo(block, k - 1)
           B == BusyTo(block, k - 1)
<1>9. /\ S \in Nat /\ B \in Nat /\ Len(FlatTo(lp, k - 1)) = 2 * S /\ Len(FlatTo(pp, k - 1)) = B
      /\ Len(FlatTo(sp, k - 1)) = S - B
      /\ Len(FlatTo(pp, k)) = BusyTo(block, k) /\ Len(FlatTo(sp, k)) = SizesTo(block, k) - BusyTo(block, k)
      /\ BusyTo(block, k) \in Nat /\ SizesTo(block, k) \in Nat
  <2>1. ReachOf(block)
    BY ReachIs, Zenon
  <2> QED BY <2>1, <1>8, Zenon DEF ReachOf, lp, pp, sp, n
<1> HIDE DEF S, B
<1>10. Finds(L, 2 * S, DelsOf(r) \o LensOf(r))
  <2>1. Finds(L, 0 + Len(FlatTo(lp, k - 1)), lp[k])
    BY <1>5, <1>8, Zenon DEF FindsEach
  <2>2. 0 + Len(FlatTo(lp, k - 1)) = 2 * S
    BY <1>9
  <2> QED BY <2>1, <2>2, <1>2, Zenon
<1>11. DelsOf(r) \in Seq(Nat) /\ Len(DelsOf(r)) = Len(r.ops) /\ LensOf(r) \in Seq(Nat)
  BY <1>1, CodedRecordIs
<1>12. Finds(L, 2 * S, DelsOf(r)) /\ Finds(L, (2 * S) + Len(r.ops), LensOf(r))
  <2>1. FindsBoth(L, 2 * S, DelsOf(r), LensOf(r))
    BY <1>3, <1>10, <1>11, FindsSplit, Zenon
  <2> QED BY <2>1, <1>11, Zenon DEF FindsBoth
<1>13. Finds(A, B, FirstOf(r))
  <2>1. Finds(A, 0 + Len(FlatTo(pp, k - 1)), pp[k])
    BY <1>6, <1>8, Zenon DEF FindsEach
  <2>2. 0 + Len(FlatTo(pp, k - 1)) = B
    BY <1>9
  <2> QED BY <2>1, <2>2, <1>2, Zenon
<1>14. Finds(D, S - B, StepsOf(r))
  <2>1. Finds(D, 0 + Len(FlatTo(sp, k - 1)), sp[k])
    BY <1>7, <1>8, Zenon DEF FindsEach
  <2>2. 0 + Len(FlatTo(sp, k - 1)) = S - B
    BY <1>9
  <2> QED BY <2>1, <2>2, <1>2, Zenon
<1>15. BusyTo(block, k) <= Len(A) /\ SizesTo(block, k) - BusyTo(block, k) <= Len(D)
  <2>1. Finds(A, 0, FlatTo(pp, k)) /\ Finds(D, 0, FlatTo(sp, k))
    BY <1>6, <1>7, <1>8, Zenon DEF FindsEach
  <2>2. 0 + Len(FlatTo(pp, k)) <= Len(A) /\ 0 + Len(FlatTo(sp, k)) <= Len(D)
    BY <2>1, Zenon DEF Finds
  <2> QED BY <2>2, <1>9
<1> QED BY <1>12, <1>13, <1>14, <1>15, Zenon DEF PartsFound, S, B, r, L, A, D

(* What the decoder takes for the k-th coded record is what was put there.  *)
PartsOf(block, k) ==
  LET r == Coded(block)[k]
  IN  /\ OpsBefore(k) = SizesTo(block, k - 1) /\ OpsBefore(k + 1) = SizesTo(block, k)
      /\ NonemptyUpTo(k) = BusyTo(block, k) /\ NonemptyUpTo(k - 1) = BusyTo(block, k - 1)
      /\ lists.sizes[k] = Len(r.ops) /\ lists.begins[k] = r.begin
      /\ DeletedOf(k) = DelsOf(r) /\ InsertedOf(k) = LensOf(r)
      /\ ListsReach(k)

(* The decoder's slices of the lists are the parts of the record.            *)
LEMMA PartsAre ==
  ASSUME NEW block \in Seq(Records), lists = Known(block), NEW k \in 1..Len(Coded(block))
  PROVE  PartsOf(block, k)
<1> DEFINE n == Len(Coded(block))
           r == Coded(block)[k]
           L == LengthList(block)
           S == SizesTo(block, k - 1)
           m == Len(r.ops)
<1>1. /\ n \in Nat /\ r \in CodedRecords /\ Len(OperationSizes(block)) = n /\ Len(Begins(block)) = n
      /\ OperationSizes(block)[k] = m /\ Begins(block)[k] = r.begin
      /\ L = FlattenSeq(LenPieces(block)) /\ LenPieces(block) \in Seq(Seq(Nat))
  BY ListsAre, Zenon DEF ListsOf, Made
<1>2. PartsFound(block, k)
  BY PartsAreFound, Zenon
<1>3. /\ lists.sizes = OperationSizes(block) /\ lists.begins = Begins(block) /\ lists.lengths = L
      /\ lists.pbegin = PositionBegins(block) /\ lists.pdelta = PositionDeltas(block)
  BY DEF Known
<1>4. OpsBefore(k) = S /\ OpsBefore(k + 1) = SizesTo(block, k)
  <2>1. (k + 1) - 1 = k
    OBVIOUS
  <2> QED BY <2>1, <1>3, Zenon DEF OpsBefore, SizesTo, SumTo
<1>5. k \in Nat /\ k <= n /\ k - 1 <= n /\ k - 1 \in 0..n
  BY <1>1
<1>6. ASSUME NEW j \in 0..n PROVE NonemptyUpTo(j) = BusyTo(block, j)
  <2>1. \A i \in 1..j : i \in 1..n
    BY <1>1
  <2>2. {i \in 1..j : lists.sizes[i] > 0} = {i \in 1..j : i \in Busy(block)}
    BY <2>1, <1>3 DEF Busy
  <2> QED BY <2>2, Zenon DEF NonemptyUpTo, BusyTo, Rk
<1>7. NonemptyUpTo(k) = BusyTo(block, k) /\ NonemptyUpTo(k - 1) = BusyTo(block, k - 1)
  BY <1>5, <1>6
<1>8. SizesTo(block, k) = S + m /\ S \in Nat /\ m \in Nat
  <2>1. ReachOf(block) /\ SizesTo(block, k) = S + OperationSizes(block)[k]
    BY ReachIs, Zenon
  <2>2. S \in Nat
    BY <2>1, <1>5, Zenon DEF ReachOf
  <2>3. m \in Nat
    BY <1>1, CodedRecordIs, Zenon
  <2> QED BY <2>1, <2>2, <2>3, <1>1
<1>9. /\ DelsOf(r) \in Seq(Nat) /\ Len(DelsOf(r)) = m /\ LensOf(r) \in Seq(Nat) /\ Len(LensOf(r)) = m
  BY <1>1, CodedRecordIs
<1>10. L \in Seq(Nat)
  BY <1>1, FlatHasAll, Zenon
<1>11. lists.sizes[k] = m /\ lists.begins[k] = r.begin
  BY <1>1, <1>3
<1> HIDE DEF L, S, m, r, n
<1>12. DeletedOf(k) = DelsOf(r)
  <2>1. Finds(L, 2 * S, DelsOf(r))
    BY <1>2, Zenon DEF PartsFound, L, S, r
  <2> DEFINE x == 2 * S
             y == x + 1
             z == x + m
             t == DelsOf(r)
  <2>2. y = x + 1 /\ z = x + Len(t)
    BY <1>9
  <2>3. Finds(L, x, t) /\ t \in Seq(Nat)
    BY <2>1, <1>9
  <2>4. DeletedOf(k) = SubSeq(L, y, z)
    BY <1>3, <1>4, <1>11, Zenon DEF DeletedOf
  <2> HIDE DEF x, y, z, t
  <2>5. SubSeq(L, y, z) = t
    BY <2>2, <2>3, <1>10, SubSeqFound
  <2> QED BY <2>5, <2>4, Zenon DEF t
<1>13. InsertedOf(k) = LensOf(r)
  <2>1. Finds(L, (2 * S) + m, LensOf(r))
    BY <1>2, Zenon DEF PartsFound, L, S, r, m
  <2> DEFINE x == (2 * S) + m
             y == x + 1
             z == 2 * (S + m)
             t == LensOf(r)
  <2>2. y = x + 1 /\ z = x + Len(t)
    BY <1>8, <1>9
  <2>3. Finds(L, x, t) /\ t \in Seq(Nat)
    BY <2>1, <1>9
  <2>4. InsertedOf(k) = SubSeq(L, y, z)
    BY <1>3, <1>4, <1>8, <1>11, Zenon DEF InsertedOf
  <2> HIDE DEF x, y, z, t
  <2>5. SubSeq(L, y, z) = t
    BY <2>2, <2>3, <1>10, SubSeqFound
  <2> QED BY <2>5, <2>4, Zenon DEF t
<1>14. ListsReach(k)
  <2>1. BusyTo(block, k) <= Len(PositionBegins(block))
        /\ SizesTo(block, k) - BusyTo(block, k) <= Len(PositionDeltas(block))
    BY <1>2, Zenon DEF PartsFound
  <2>2. \A i \in DOMAIN LensOf(r) : LensOf(r)[i] >= 0
    BY <1>9
  <2>3. k <= Len(lists.sizes) /\ k <= Len(lists.begins)
    BY <1>1, <1>3, <1>5
  <2> QED BY <2>1, <2>2, <2>3, <1>3, <1>4, <1>7, <1>13, Zenon DEF ListsReach
<1> QED BY <1>4, <1>7, <1>11, <1>12, <1>13, <1>14, Zenon DEF PartsOf, S, m, r

(* The positions of a record are its first one and its steps added up.      *)
PositionUp(m, p, b, d, c, f) ==
  f = [j \in 1..m |-> IF j = 1 THEN p[b] ELSE f[j - 1] + d[c + j - 1]]

StepsTo(q, m, p, b, d, c) ==
  /\ m > 0 => p[b] = q[1]
  /\ \A j \in 1..(m - 1) : d[c + j] = q[j + 1] - q[j]

(* Adding up the steps gives the positions again.                            *)
LEMMA PositionsAdd ==
  ASSUME NEW q \in Seq(Nat), NEW m, m = Len(q), NEW p, NEW b, NEW d, NEW c \in Int, NEW f,
         PositionUp(m, p, b, d, c, f), StepsTo(q, m, p, b, d, c)
  PROVE  \A j \in 1..m : f[j] = q[j]
<1>1. m \in Nat
  OBVIOUS
<1>2. \A j \in 1..m : f[j] = IF j = 1 THEN p[b] ELSE f[j - 1] + d[c + j - 1]
  BY DEF PositionUp
<1> DEFINE H == {j \in 0..m : j = 0 \/ f[j] = q[j]}
<1>3. 0 \in H
  BY <1>1
<1>4. ASSUME NEW k \in 1..m, k - 1 \in H PROVE k \in H
  <2>1. CASE k = 1
    BY <2>1, <1>2, <1>1 DEF StepsTo
  <2>2. CASE k # 1
    <3>1. k - 1 \in 1..(m - 1) /\ k - 1 # 0 /\ k \in Nat /\ (k - 1) + 1 = k /\ k - 1 \in 1..m
      BY <2>2, <1>1
    <3>2. f[k - 1] = q[k - 1]
      BY <1>4, <3>1
    <3>3. f[k] = f[k - 1] + d[c + (k - 1)]
      BY <1>2, <2>2, <3>1
    <3>4. d[c + (k - 1)] = q[k] - q[k - 1]
      BY <3>1 DEF StepsTo
    <3>5. q[k] \in Nat /\ q[k - 1] \in Nat
      BY <3>1
    <3> HIDE DEF H
    <3>6. f[k] = q[k]
      BY <3>2, <3>3, <3>4, <3>5
    <3> QED BY <3>6 DEF H
  <2> QED BY <2>1, <2>2
<1> HIDE DEF H
<1>5. \A k \in 1..m : k - 1 \in H => k \in H
  BY <1>4, Zenon
<1>6. \A k \in 0..m : k \in H
  BY <1>1, <1>3, <1>5, CountUp, Zenon
<1>7. \A k \in 1..m : k \in 0..m /\ k # 0
  BY <1>1
<1> QED BY <1>6, <1>7 DEF H

(* The positions the decoder computes are those of the record.               *)
LEMMA PositionsAre ==
  ASSUME NEW block \in Seq(Records), lists = Known(block), NEW k \in 1..Len(Coded(block))
  PROVE  PositionsOf(k) = PosOf(Coded(block)[k])
<1> DEFINE r == Coded(block)[k]
           q == PosOf(r)
           m == lists.sizes[k]
           p == lists.pbegin
           d == lists.pdelta
           b == NonemptyUpTo(k)
           a == NonemptyUpTo(k - 1)
           S == OpsBefore(k)
           c == S - a
           n == Len(Coded(block))
<1>1. PartsOf(block, k) /\ PartsFound(block, k)
  BY PartsAre, PartsAreFound, Zenon
<1>2. /\ S = SizesTo(block, k - 1) /\ b = BusyTo(block, k) /\ a = BusyTo(block, k - 1)
      /\ m = Len(r.ops)
  BY <1>1, Zenon DEF PartsOf
<1>3. p = PositionBegins(block) /\ d = PositionDeltas(block)
  BY DEF Known
<1>4. n \in Nat /\ r \in CodedRecords /\ OperationSizes(block)[k] = Len(r.ops)
  BY ListsAre, Zenon DEF ListsOf, Made
<1>5. k \in 0..n /\ k - 1 \in 0..n
  BY <1>4
<1>6. /\ S \in Nat /\ a \in Nat
      /\ b = a + (IF m > 0 THEN 1 ELSE 0)
  <2>1. ReachOf(block) /\ BusyTo(block, k) = BusyTo(block, k - 1) + (IF OperationSizes(block)[k] > 0 THEN 1 ELSE 0)
    BY ReachIs, Zenon
  <2>2. S \in Nat /\ a \in Nat
    BY <2>1, <1>2, <1>5, Zenon DEF ReachOf
  <2> QED BY <2>1, <2>2, <1>2, <1>4, Zenon
<1>7. q \in Seq(Nat) /\ Len(q) = m /\ m \in Nat /\ (m > 0 => r.ops # <<>>)
  BY <1>2, <1>4, CodedRecordIs
<1>8. Finds(p, a, FirstOf(r)) /\ Finds(d, c, StepsOf(r))
  BY <1>1, <1>2, <1>3, Zenon DEF PartsFound
<1>9. /\ Len(FirstOf(r)) = IF r.ops = <<>> THEN 0 ELSE 1
      /\ r.ops # <<>> => FirstOf(r)[1] = q[1]
      /\ Len(StepsOf(r)) = IF r.ops = <<>> THEN 0 ELSE Len(r.ops) - 1
      /\ \A j \in 1..(Len(r.ops) - 1) : StepsOf(r)[j] = q[j + 1] - q[j]
  BY <1>4, FirstIs, StepsAre, Zenon
<1>10. PositionsOf(k) = LET pos[j \in 1..m] == IF j = 1 THEN p[b] ELSE pos[j - 1] + d[c + j - 1]
                        IN  [j \in 1..m |-> pos[j]]
  BY DEF PositionsOf
<1> HIDE DEF r, q, m, p, d, a, b, S, n
<1>11. ASSUME m > 0 PROVE p[b] = q[1]
  <2>1. b = a + 1 /\ r.ops # <<>>
    BY <1>11, <1>6, <1>7
  <2>2. Len(FirstOf(r)) = 1 /\ FirstOf(r)[1] = q[1]
    BY <2>1, <1>9
  <2>3. p[a + 1] = FirstOf(r)[1]
    BY <2>2, <1>8 DEF Finds
  <2> QED BY <2>1, <2>2, <2>3
<1>12. ASSUME NEW j \in 1..(m - 1) PROVE d[c + j] = q[j + 1] - q[j]
  <2>1. r.ops # <<>> /\ j \in 1..(Len(r.ops) - 1)
    BY <1>2, <1>7
  <2>2. Len(StepsOf(r)) = Len(r.ops) - 1 /\ StepsOf(r)[j] = q[j + 1] - q[j]
    BY <2>1, <1>9
  <2>3. j \in 1..Len(StepsOf(r))
    BY <2>1, <2>2
  <2>4. d[c + j] = StepsOf(r)[j]
    BY <2>3, <1>8, Zenon DEF Finds
  <2> QED BY <2>2, <2>4
<1>13. c \in Int
  BY <1>6
<1> HIDE DEF c
<1> DEFINE f == CHOOSE f : PositionUp(m, p, b, d, c, f)
<1>14. PositionsOf(k) = [j \in 1..m |-> f[j]]
  BY <1>10 DEF PositionUp
<1>15. PositionUp(m, p, b, d, c, q)
  <2>1. q = [j \in 1..m |-> q[j]]
    BY <1>7
  <2>2. ASSUME NEW j \in 1..m PROVE q[j] = IF j = 1 THEN p[b] ELSE q[j - 1] + d[c + j - 1]
    <3>1. CASE j = 1
      BY <3>1, <1>11, <1>7
    <3>2. CASE j # 1
      <4>1. j - 1 \in 1..(m - 1) /\ (j - 1) + 1 = j
        BY <3>2, <1>7
      <4>2. d[c + (j - 1)] = q[j] - q[j - 1]
        BY <4>1, <1>12
      <4>3. q[j] \in Nat /\ q[j - 1] \in Nat
        BY <4>1, <1>7
      <4>4. q[j] = q[j - 1] + d[c + (j - 1)]
        BY <4>2, <4>3
      <4> QED BY <4>4, <3>2
    <3> QED BY <3>1, <3>2
  <2> HIDE DEF q
  <2>3. q = [j \in 1..m |-> IF j = 1 THEN p[b] ELSE q[j - 1] + d[c + j - 1]]
    BY <2>1, <2>2
  <2> QED BY <2>3, Zenon DEF PositionUp
<1>16. PositionUp(m, p, b, d, c, f)
  BY <1>15, Zenon
<1> HIDE DEF f
<1>17. \A j \in 1..m : f[j] = q[j]
  <2>1. StepsTo(q, m, p, b, d, c)
    BY <1>11, <1>12 DEF StepsTo
  <2>2. q \in Seq(Nat) /\ m = Len(q)
    BY <1>7
  <2> QED BY <2>1, <2>2, <1>13, <1>16, PositionsAdd
<1>18. PositionsOf(k) = q
  BY <1>14, <1>17, <1>7
<1> QED BY <1>18, Zenon DEF q, r

(* The substrings of a record, one after the other, are cut apart again where *)
(* their lengths add up to.                                                  *)
CutOf(r, t, j) == SubSeq(t, SumTo(LensOf(r), j - 1) + 1, SumTo(LensOf(r), j))
CutsOf(r, t) == \A j \in 1..Len(r.ops) : CutOf(r, t, j) = TextsOf(r)[j]

(* The texts of a record, one after the other, are cut where they end.       *)
LEMMA TextsAreCut ==
  ASSUME NEW r \in CodedRecords
  PROVE  /\ FlattenSeq(TextsOf(r)) \in Seq(Byte) /\ Len(FlattenSeq(TextsOf(r))) = SumSeq(LensOf(r))
         /\ SumSeq(LensOf(r)) \in Nat /\ CutsOf(r, FlattenSeq(TextsOf(r)))
<1> DEFINE m == Len(r.ops)
           P == TextsOf(r)
           l == LensOf(r)
           t == FlattenSeq(P)
<1>1. /\ m \in Nat /\ l \in Seq(Nat) /\ Len(l) = m /\ P \in Seq(Seq(Byte)) /\ Len(P) = m
      /\ \A j \in 1..m : l[j] = Len(P[j])
  BY CodedRecordIs
<1> HIDE DEF m, P, l, t
<1>2. l \in Seq(Int)
  BY <1>1
<1>3. Sums(l)
  BY <1>2, SumsAre, Zenon
<1>4. FlatHas(P) /\ t \in Seq(Byte)
  BY <1>1, FlatHasAll, Zenon DEF t
<1> DEFINE g == [j \in 0..m |-> SumTo(l, j)]
<1>5. g[0] = 0
  BY <1>3, <1>1 DEF Sums
<1>6. \A k \in 1..Len(P) : g[k] = g[k - 1] + Len(P[k])
  <2>1. \A k \in 1..m : k \in 0..m /\ k - 1 \in 0..m
    BY <1>1
  <2>2. \A k \in 1..m : SumTo(l, k) = SumTo(l, k - 1) + l[k]
    BY <1>3, <1>1 DEF Sums
  <2> QED BY <2>1, <2>2, <1>1
<1> HIDE DEF g
<1>7. \A k \in 0..Len(P) : Len(FlatTo(P, k)) = g[k]
  BY <1>1, <1>5, <1>6, FlatLengths, Zenon
<1>8. \A k \in 0..m : Len(FlatTo(P, k)) = SumTo(l, k)
  BY <1>7, <1>1 DEF g
<1>9. Flats(P, Byte)
  BY <1>1, FlatsAre, Zenon
<1>10. Len(t) = SumSeq(l) /\ SumSeq(l) \in Nat
  <2>1. m \in 0..m /\ FlatTo(P, m) = t
    BY <1>9, <1>1 DEF Flats, t
  <2>2. Len(t) = SumTo(l, m)
    BY <2>1, <1>8, Zenon
  <2>3. SumTo(l, m) = SumSeq(l)
    BY <1>3, <1>1, Zenon DEF Sums
  <2>4. Len(t) \in Nat
    BY <1>4
  <2> QED BY <2>2, <2>3, <2>4
<1>11. FindsEach(t, 0, P)
  <2>1. Len(t) \in Nat
    BY <1>4
  <2>2. Finds(t, 0, t)
    BY <2>1 DEF Finds
  <2>3. Finds(t, 0, FlattenSeq(P))
    BY <2>2, Zenon DEF t
  <2> QED BY <2>3, <1>1, <1>4, FindsInFlat, Zenon
<1>12. ASSUME NEW j \in 1..m PROVE CutOf(r, t, j) = P[j]
  <2> DEFINE x == SumTo(l, j - 1)
             y == x + 1
             z == SumTo(l, j)
             u == P[j]
  <2>1. j \in 1..Len(P) /\ j \in 0..m /\ j - 1 \in 0..m /\ j \in 1..m
    BY <1>1
  <2>2. Finds(t, 0 + Len(FlatTo(P, j - 1)), u) /\ Len(FlatTo(P, j)) = Len(FlatTo(P, j - 1)) + Len(u)
    BY <1>11, <2>1, Zenon DEF FindsEach
  <2>3. u \in Seq(Byte)
    BY <1>1, <2>1
  <2>4. SumTo(l, j - 1) \in Int /\ SumTo(l, j) \in Int
    BY <1>3, <1>1, <2>1, Zenon DEF Sums
  <2>5. x \in Int /\ x = Len(FlatTo(P, j - 1)) /\ z = Len(FlatTo(P, j))
    BY <2>4, <2>1, <1>8
  <2>6. CutOf(r, t, j) = SubSeq(t, y, z)
    BY DEF CutOf, l
  <2> HIDE DEF x, z, u
  <2>7. Finds(t, x, u) /\ z = x + Len(u) /\ y = x + 1
    <3>1. 0 + Len(FlatTo(P, j - 1)) = x
      BY <2>5
    <3> QED BY <3>1, <2>2, <2>5
  <2> HIDE DEF y
  <2>8. SubSeq(t, y, z) = u
    BY <2>7, <2>3, <1>4, SubSeqFound
  <2> QED BY <2>8, <2>6, Zenon DEF u
<1> QED BY <1>4, <1>10, <1>12, Zenon DEF CutsOf, t, P, l, m

(* So the record put together from the lists and the substrings is the one   *)
(* that was archived.                                                       *)
LEMMA RecordIsRead ==
  ASSUME NEW block \in Seq(Records), lists = Known(block), NEW k \in 1..Len(Coded(block)),
         texts[k] = TextPieces(block)[k]
  PROVE  CodedRecord(k) = Coded(block)[k]
<1> DEFINE r == Coded(block)[k]
           m == Len(r.ops)
           t == texts[k]
<1>1. r \in CodedRecords
  BY ListsAre, Zenon DEF ListsOf
<1>2. PartsOf(block, k)
  BY PartsAre, Zenon
<1>3. PositionsOf(k) = PosOf(r)
  BY PositionsAre, Zenon
<1>4. t = FlattenSeq(TextsOf(r))
  BY DEF TextPieces
<1>5. CutsOf(r, t)
  BY <1>1, <1>4, TextsAreCut, Zenon
<1>6. /\ lists.sizes[k] = m /\ lists.begins[k] = r.begin
      /\ DeletedOf(k) = DelsOf(r) /\ InsertedOf(k) = LensOf(r)
  BY <1>2, Zenon DEF PartsOf
<1>7. /\ r.ops \in Seq(Edits) /\ m \in Nat
      /\ \A j \in 1..m : r.ops[j] = [pos |-> PosOf(r)[j], del |-> DelsOf(r)[j], text |-> TextsOf(r)[j]]
  BY <1>1, CodedRecordIs
<1>8. r = [method |-> 0, begin |-> r.begin, ops |-> r.ops]
  BY <1>1 DEF CodedRecords
<1>9. CodedRecord(k) =
        [method |-> 0, begin |-> r.begin,
         ops |-> [j \in 1..m |-> [pos |-> PosOf(r)[j], del |-> DelsOf(r)[j], text |-> CutOf(r, t, j)]]]
  BY <1>3, <1>6 DEF CodedRecord, CutOf, SumTo
<1> HIDE DEF r, m, t
<1>10. [j \in 1..m |-> [pos |-> PosOf(r)[j], del |-> DelsOf(r)[j], text |-> CutOf(r, t, j)]] = r.ops
  <2>1. \A j \in 1..m : CutOf(r, t, j) = TextsOf(r)[j]
    BY <1>5, Zenon DEF CutsOf, m
  <2>2. r.ops = [j \in 1..m |-> r.ops[j]]
    BY <1>7 DEF m
  <2> QED BY <2>1, <2>2, <1>7
<1> QED BY <1>8, <1>9, <1>10, Zenon DEF r

(***************************************************************************)
(* The substrings, record by record                                        *)
(***************************************************************************)
BytesOf(s, at, n) == [i \in 1..n |-> Num(Field(s, at + (i - 1) * ByteBits, ByteBits))]
PieceAt(at, P, k) == at + (Len(FlatTo(P, k)) * ByteBits)
PiecesRead(s, at, P) ==
  /\ PieceAt(at, P, 0) = at /\ PieceAt(at, P, Len(P)) = at + Len(TextBits(FlattenSeq(P)))
  /\ \A k \in 1..Len(P) :
       /\ PieceAt(at, P, k - 1) \in Nat /\ PieceAt(at, P, k) \in Nat /\ PieceAt(at, P, k) <= Len(s)
       /\ PieceAt(at, P, k) = PieceAt(at, P, k - 1) + (Len(P[k]) * ByteBits)
       /\ BytesOf(s, PieceAt(at, P, k - 1), Len(P[k])) = P[k]

(* Of texts read one after the other each is read as it was.                 *)
LEMMA PiecesAreRead ==
  ASSUME NEW s \in BitSeq, NEW at, NEW P \in Seq(Seq(Byte)), TextReadAt(s, at, FlattenSeq(P))
  PROVE  PiecesRead(s, at, P)
<1> DEFINE t == FlattenSeq(P)
           h(k) == Len(FlatTo(P, k))
<1>1. FlatHas(P) /\ t \in Seq(Byte)
  BY FlatHasAll, Zenon
<1>2. Flats(P, Byte)
  BY FlatsAre, Zenon
<1>3. h(0) = 0 /\ h(Len(P)) = Len(t) /\ Len(t) \in Nat /\ Len(P) \in Nat
  BY <1>1, <1>2 DEF Flats
<1>4. /\ at \in Nat /\ Len(TextBits(t)) = Len(t) * ByteBits /\ at + (Len(t) * ByteBits) <= Len(s)
      /\ \A i \in 1..Len(t) : Num(Field(s, at + ((i - 1) * ByteBits), ByteBits)) = t[i]
  BY DEF TextReadAt
<1>5. ByteBits \in Nat
  BY ByteIs, Zenon
<1>6. PieceAt(at, P, 0) = at /\ PieceAt(at, P, Len(P)) = at + Len(TextBits(t))
  <2>1. at + (0 * ByteBits) = at
    BY <1>4, <1>5
  <2>2. PieceAt(at, P, 0) = at + (h(0) * ByteBits) /\ PieceAt(at, P, Len(P)) = at + (h(Len(P)) * ByteBits)
    BY DEF PieceAt
  <2> HIDE DEF h, t
  <2> QED BY <2>1, <2>2, <1>3, <1>4
<1>7. ASSUME NEW k \in 1..Len(P)
      PROVE  /\ PieceAt(at, P, k - 1) \in Nat /\ PieceAt(at, P, k) \in Nat /\ PieceAt(at, P, k) <= Len(s)
             /\ PieceAt(at, P, k) = PieceAt(at, P, k - 1) + (Len(P[k]) * ByteBits)
             /\ BytesOf(s, PieceAt(at, P, k - 1), Len(P[k])) = P[k]
  <2> DEFINE c == h(k - 1)
             e == h(k)
             n == Len(P[k])
             x == PieceAt(at, P, k - 1)
  <2>1. /\ c \in Nat /\ e = c + n /\ e <= Len(t) /\ \A j \in 1..n : t[c + j] = P[k][j]
    BY <1>1, Zenon DEF FlatHas
  <2>2. P[k] \in Seq(Byte) /\ n \in Nat
    OBVIOUS
  <2>3. x = at + (c * ByteBits) /\ PieceAt(at, P, k) = at + (e * ByteBits)
    BY DEF PieceAt
  <2> HIDE DEF h, c, e, n, x, t
  <2>4. /\ c * ByteBits \in Nat /\ n * ByteBits \in Nat /\ e * ByteBits = (c * ByteBits) + (n * ByteBits)
        /\ e * ByteBits <= Len(t) * ByteBits /\ Len(t) * ByteBits \in Nat
    <3>1. e \in Nat /\ e <= Len(t) /\ c + n = e
      BY <2>1, <2>2
    <3>2. e * ByteBits <= Len(t) * ByteBits /\ Len(t) * ByteBits \in Nat
      BY <3>1, <1>3, <1>5, ProductGrows, Zenon
    <3>3. c * ByteBits \in Nat /\ n * ByteBits \in Nat /\ (c + n) * ByteBits = (c * ByteBits) + (n * ByteBits)
      BY <2>1, <2>2, <1>5
    <3> QED BY <3>1, <3>2, <3>3
  <2>5. /\ x \in Nat /\ PieceAt(at, P, k) \in Nat /\ PieceAt(at, P, k) <= Len(s)
        /\ PieceAt(at, P, k) = x + (n * ByteBits)
    <3>1. Len(s) \in Nat
      BY DEF BitSeq
    <3> QED BY <3>1, <2>3, <2>4, <1>4, SMTT(40)
  <2>6. ASSUME NEW i \in 1..n PROVE Num(Field(s, x + (i - 1) * ByteBits, ByteBits)) = P[k][i]
    <3>1. c + i \in 1..Len(t) /\ t[c + i] = P[k][i]
      BY <2>1, <2>2, <1>3
    <3>2. at + (((c + i) - 1) * ByteBits) = x + (i - 1) * ByteBits
      <4>1. ((c + i) - 1) * ByteBits = (c * ByteBits) + ((i - 1) * ByteBits)
        BY <2>1, <2>2, <1>5
      <4>2. (i - 1) * ByteBits \in Int
        BY <2>2, <1>5
      <4> QED BY <4>1, <4>2, <2>3, <2>4, <1>4
    <3>3. Num(Field(s, at + (((c + i) - 1) * ByteBits), ByteBits)) = t[c + i]
      BY <3>1, <1>4
    <3> QED BY <3>1, <3>2, <3>3
  <2>7. BytesOf(s, x, n) = P[k]
    <3>1. P[k] = [i \in 1..n |-> P[k][i]]
      BY <2>2 DEF n
    <3> QED BY <3>1, <2>6 DEF BytesOf
  <2> QED BY <2>5, <2>7, Zenon DEF x, n
<1> HIDE DEF t, h
<1>8. \A k \in 1..Len(P) :
         /\ PieceAt(at, P, k - 1) \in Nat /\ PieceAt(at, P, k) \in Nat /\ PieceAt(at, P, k) <= Len(s)
         /\ PieceAt(at, P, k) = PieceAt(at, P, k - 1) + (Len(P[k]) * ByteBits)
         /\ BytesOf(s, PieceAt(at, P, k - 1), Len(P[k])) = P[k]
  BY <1>7, Zenon
<1> QED BY <1>6, <1>8, Zenon DEF PiecesRead, t

(* What the decoder does in the field of the substrings.                    *)
TextAt(block, base, k) == PieceAt(FieldAt(block, base, 7), TextPieces(block), k)
TextsRead(block, base) ==
  /\ TextAt(block, base, 0) = FieldAt(block, base, 7)
  /\ TextAt(block, base, Len(Coded(block))) = FieldAt(block, base, 8)
  /\ \A k \in 1..Len(Coded(block)) :
       /\ TextAt(block, base, k - 1) \in Nat /\ TextAt(block, base, k) \in Nat
       /\ Has(stream, TextAt(block, base, k - 1), SumSeq(InsertedOf(k)) * ByteBits)
       /\ TextAt(block, base, k) = TextAt(block, base, k - 1) + SumSeq(InsertedOf(k)) * ByteBits
       /\ Bytes(TextAt(block, base, k - 1), SumSeq(InsertedOf(k))) = TextPieces(block)[k]
       /\ TextAt(block, base, k) <= Len(stream)

(* The texts of every record are read as they were.                          *)
LEMMA TextsAreRead ==
  ASSUME NEW block \in Seq(Records), NEW base, BlockFound(stream, base, block), stream \in BitSeq,
         lists = Known(block)
  PROVE  TextsRead(block, base)
<1> DEFINE P == TextPieces(block)
           n == Len(Coded(block))
           at == FieldAt(block, base, 7)
<1>1. /\ CodedText(block) = FlattenSeq(P) /\ P \in Seq(Seq(Byte)) /\ Len(P) = n /\ n \in Nat
      /\ \A i \in 1..n : Coded(block)[i] \in CodedRecords
  BY ListsAre, Zenon DEF ListsOf, Made
<1>2. Finds(stream, at, TextBits(FlattenSeq(P))) /\ FieldAt(block, base, 8) = at + Len(TextBits(FlattenSeq(P)))
  <2>1. 7 \in 1..8 /\ 7 + 1 = 8
    OBVIOUS
  <2>2. FieldBits(block)[7] = TextBits(CodedText(block))
    BY FieldsAre, Zenon
  <2>3. Finds(stream, at, FieldBits(block)[7]) /\ FieldAt(block, base, 7 + 1) = at + Len(FieldBits(block)[7])
    BY <2>1, Zenon DEF BlockFound
  <2>4. FieldAt(block, base, 8) = at + Len(FieldBits(block)[7])
    BY <2>1, <2>3
  <2> QED BY <2>2, <2>3, <2>4, <1>1, Zenon
<1>3. \A k \in 1..n : P[k] = FlattenSeq(TextsOf(Coded(block)[k]))
  BY DEF TextPieces
<1> HIDE DEF P, n, at
<1>4. FlattenSeq(P) \in Seq(Byte)
  BY <1>1, FlatHasAll, Zenon
<1>5. PiecesRead(stream, at, P)
  <2>1. TextReadAt(stream, at, FlattenSeq(P))
    BY <1>2, <1>4, TextIsRead, Zenon
  <2> QED BY <2>1, <1>1, PiecesAreRead, Zenon
<1>6. /\ TextAt(block, base, 0) = at /\ TextAt(block, base, n) = FieldAt(block, base, 8)
  BY <1>5, <1>2, <1>1, Zenon DEF PiecesRead, TextAt, at, P
<1>7. ASSUME NEW k \in 1..n
      PROVE  /\ TextAt(block, base, k - 1) \in Nat /\ TextAt(block, base, k) \in Nat
             /\ Has(stream, TextAt(block, base, k - 1), SumSeq(InsertedOf(k)) * ByteBits)
             /\ TextAt(block, base, k) = TextAt(block, base, k - 1) + SumSeq(InsertedOf(k)) * ByteBits
             /\ Bytes(TextAt(block, base, k - 1), SumSeq(InsertedOf(k))) = P[k]
             /\ TextAt(block, base, k) <= Len(stream)
  <2> DEFINE x == TextAt(block, base, k - 1)
             y == TextAt(block, base, k)
             l == SumSeq(InsertedOf(k))
  <2>1. PartsOf(block, k)
    BY PartsAre, Zenon DEF n
  <2>2. InsertedOf(k) = LensOf(Coded(block)[k])
    BY <2>1, Zenon DEF PartsOf
  <2>3. l = Len(P[k])
    BY <2>2, <1>1, <1>3, TextsAreCut, Zenon
  <2>4. k \in 1..Len(P)
    BY <1>1
  <2>5. /\ x \in Nat /\ y \in Nat /\ y <= Len(stream) /\ y = x + (Len(P[k]) * ByteBits)
        /\ BytesOf(stream, x, Len(P[k])) = P[k]
    BY <2>4, <1>5, Zenon DEF PiecesRead, TextAt, at, P
  <2>6. Bytes(x, l) = P[k]
    BY <2>5, <2>3, Zenon DEF Bytes, BytesOf
  <2> HIDE DEF x, y, l
  <2>7. y = x + l * ByteBits /\ Has(stream, x, l * ByteBits)
    BY <2>5, <2>3 DEF Has
  <2> QED BY <2>5, <2>6, <2>7, Zenon DEF x, y, l
<1> QED BY <1>6, <1>7, Zenon DEF TextsRead, at, P, n

(***************************************************************************)
(* The raw lines                                                           *)
(***************************************************************************)
NewlinesOf(rest) == {i \in DOMAIN rest : rest[i] = Newline}
BreaksOf(rest) == InOrder(NewlinesOf(rest), Len(rest))
EndsLine(p) == Len(p) >= 1 /\ p[Len(p)] = Newline /\ \A i \in 1..(Len(p) - 1) : p[i] # Newline
AllLines(P) == \A k \in 1..Len(P) : EndsLine(P[k])
Broken(rest, P) ==
  /\ Len(P) <= Len(BreaksOf(rest))
  /\ \A k \in 1..Len(P) : BreaksOf(rest)[k] = Len(FlatTo(P, k))

(* The newlines of lines one after the other are where the lines end.       *)
LEMMA LinesAreBroken ==
  ASSUME NEW rest \in Seq(Nat), NEW P \in Seq(Seq(Byte)), Finds(rest, 0, FlattenSeq(P)), AllLines(P)
  PROVE  Broken(rest, P)
<1> DEFINE t == FlattenSeq(P)
           n == Len(rest)
           w == Len(P)
           K == NewlinesOf(rest)
           h(k) == Len(FlatTo(P, k))
<1>1. FlatHas(P) /\ t \in Seq(Byte)
  BY FlatHasAll, Zenon
<1>2. Flats(P, Byte)
  BY FlatsAre, Zenon
<1>3. h(0) = 0 /\ h(w) = Len(t) /\ Len(t) \in Nat /\ w \in Nat /\ n \in Nat
  BY <1>1, <1>2 DEF Flats
<1>4. Len(t) <= n /\ \A i \in 1..Len(t) : rest[i] = t[i]
  BY <1>3, SMTT(40) DEF Finds
<1>5. \A i \in 1..n : i \in K <=> rest[i] = Newline
  BY <1>3 DEF NewlinesOf
<1>6. Ranks(K, n)
  BY <1>3, RanksAre, Zenon
<1>7. \A k \in 0..n : \A i \in 0..k : (\A j \in (i + 1)..k : j \notin K) => Rk(K, i) = Rk(K, k)
  BY <1>3, RanksGrow
<1> DEFINE H == {k \in 0..w : h(k) \in 0..n /\ Rk(K, h(k)) = k}
<1>8. 0 \in H
  BY <1>3, <1>6 DEF Ranks
<1> HIDE DEF K, h, t, n, w
<1>9. ASSUME NEW k \in 1..w, k - 1 \in H PROVE k \in H /\ h(k) \in 1..n /\ h(k) \in K
  <2> DEFINE a == h(k - 1)
             b == h(k)
             m == Len(P[k])
  <2>1. /\ a \in Nat /\ b = a + m /\ b <= Len(t) /\ \A j \in 1..m : t[a + j] = P[k][j]
    BY <1>1, Zenon DEF FlatHas, h, t, w
  <2>2. /\ m \in Nat /\ m >= 1 /\ P[k][m] = Newline /\ \A i \in 1..(m - 1) : P[k][i] # Newline
    <3>1. P[k] \in Seq(Byte)
      BY DEF w
    <3>2. EndsLine(P[k])
      BY Zenon DEF AllLines, w
    <3> QED BY <3>1, <3>2 DEF EndsLine
  <2>3. a \in 0..n /\ Rk(K, a) = k - 1
    BY <1>9
  <2> HIDE DEF a, b, m, H
  <2>4. b \in 1..n /\ b - 1 \in 0..n /\ a \in 0..(b - 1) /\ b \in 0..n
    BY <2>1, <2>2, <1>3, <1>4
  <2>5. ASSUME NEW j \in 1..m PROVE a + j \in 1..n /\ rest[a + j] = P[k][j]
    <3>1. a + j \in 1..Len(t) /\ t[a + j] = P[k][j]
      BY <2>1, <2>2, <1>3
    <3>2. rest[a + j] = t[a + j]
      BY <3>1, <1>4
    <3> QED BY <3>1, <3>2, <1>3, <1>4
  <2>6. b \in K
    <3>1. m \in 1..m
      BY <2>2
    <3>2. rest[b] = Newline
      BY <3>1, <2>1, <2>2, <2>5
    <3> QED BY <3>2, <2>4, <1>5
  <2>7. ASSUME NEW j \in (a + 1)..(b - 1) PROVE j \notin K
    <3>1. j - a \in 1..(m - 1) /\ a + (j - a) = j /\ j - a \in 1..m
      BY <2>1, <2>2
    <3>2. rest[j] = P[k][j - a] /\ P[k][j - a] # Newline
      BY <3>1, <2>2, <2>5
    <3>3. j \in 1..n
      BY <3>1, <2>5
    <3> QED BY <3>2, <3>3, <1>5
  <2>8. Rk(K, b - 1) = k - 1
    <3>1. Rk(K, a) = Rk(K, b - 1)
      BY <2>4, <2>7, <1>7
    <3> QED BY <3>1, <2>3
  <2>9. Rk(K, b) = k
    <3>1. Rk(K, b) = Rk(K, b - 1) + (IF b \in K THEN 1 ELSE 0)
      BY <2>4, <1>6, Zenon DEF Ranks
    <3>2. Rk(K, b) = Rk(K, b - 1) + 1
      BY <3>1, <2>6
    <3> QED BY <3>2, <2>8
  <2>10. k \in 0..w
    BY <1>3
  <2> QED BY <2>4, <2>6, <2>9, <2>10 DEF H, b
<1> HIDE DEF H
<1>10. \A k \in 1..w : k - 1 \in H => k \in H
  BY <1>9, Zenon
<1>11. \A k \in 0..w : k \in H
  BY <1>3, <1>8, <1>10, CountUp, Zenon
<1>12. ASSUME NEW k \in 1..w PROVE h(k) \in 1..n /\ h(k) \in K /\ Rk(K, h(k)) = k
  <2>1. k - 1 \in 0..w /\ k \in 0..w
    BY <1>3
  <2>2. k - 1 \in H /\ k \in H
    BY <2>1, <1>11, Zenon
  <2>3. h(k) \in 1..n /\ h(k) \in K
    BY <2>2, <1>9, Zenon
  <2>4. Rk(K, h(k)) = k
    BY <2>2 DEF H
  <2> QED BY <2>3, <2>4
<1>13. /\ Len(InOrder(K, n)) = Rk(K, n)
       /\ \A k \in 1..n : k \in K => Rk(K, k) \in 1..Rk(K, n) /\ InOrder(K, n)[Rk(K, k)] = k
  BY <1>3, InOrderAre
<1>14. ASSUME NEW k \in 1..w PROVE InOrder(K, n)[k] = h(k) /\ k <= Rk(K, n)
  <2>1. Rk(K, h(k)) \in 1..Rk(K, n) /\ InOrder(K, n)[Rk(K, h(k))] = h(k)
    BY <1>12, <1>13, Zenon
  <2>2. n \in 0..n
    BY <1>3
  <2>3. Rk(K, n) \in Nat
    BY <2>2, <1>6, Zenon DEF Ranks
  <2>4. Rk(K, h(k)) = k
    BY <1>12, Zenon
  <2>5. k \in 1..Rk(K, n) /\ InOrder(K, n)[k] = h(k)
    BY <2>1, <2>4, Zenon
  <2> QED BY <2>3, <2>5
<1>15. w <= Rk(K, n)
  <2>1. Rk(K, n) \in Nat
    <3>1. n \in 0..n
      BY <1>3
    <3> QED BY <3>1, <1>6, Zenon DEF Ranks
  <2>2. CASE w = 0
    BY <2>1, <2>2
  <2>3. CASE w # 0
    <3>1. w \in 1..w
      BY <1>3, <2>3
    <3> QED BY <3>1, <1>14
  <2> QED BY <2>2, <2>3
<1>16. BreaksOf(rest) = InOrder(K, n)
  BY Zenon DEF BreaksOf, K, n
<1>17. Len(P) <= Len(BreaksOf(rest))
  BY <1>13, <1>15, <1>16 DEF w
<1>18. \A k \in 1..Len(P) : BreaksOf(rest)[k] = Len(FlatTo(P, k))
  BY <1>14, <1>16, Zenon DEF w, h
<1> QED BY <1>17, <1>18, Zenon DEF Broken

(* The bytes that are left in the stream from a place on.                   *)
RestFrom(s, at) == BytesOf(s, at, (Len(s) - at) \div ByteBits)

(* A text found is what the bytes from there begin with.                     *)
LEMMA RestIs ==
  ASSUME NEW s \in BitSeq, NEW at, NEW t \in Seq(Byte), TextReadAt(s, at, t)
  PROVE  RestFrom(s, at) \in Seq(Nat) /\ Finds(RestFrom(s, at), 0, t)
<1> DEFINE q == (Len(s) - at) \div ByteBits
           r == (Len(s) - at) % ByteBits
           n == Len(t)
           u == RestFrom(s, at)
<1>1. /\ at \in Nat /\ at + (n * ByteBits) <= Len(s) /\ n \in Nat /\ Len(s) \in Nat
      /\ \A i \in 1..n : Num(Field(s, at + ((i - 1) * ByteBits), ByteBits)) = t[i]
  BY DEF TextReadAt, BitSeq
<1>2. ByteBits \in Nat /\ ByteBits \in Nat \ {0}
  BY ByteIs
<1>3. n * ByteBits \in Nat
  BY <1>1, <1>2
<1>4. Len(s) - at \in Nat /\ Len(s) - at \in Int
  BY <1>1, <1>3
<1>5. q \in Nat
  BY <1>2, <1>4, Halved, Zenon
<1>6. r \in 0..(ByteBits - 1) /\ Len(s) - at = (q * ByteBits) + r
  BY <1>2, <1>4, Division
<1> HIDE DEF q, r, n
<1>7. q * ByteBits \in Nat /\ at + (q * ByteBits) <= Len(s)
  <2>1. q * ByteBits \in Nat
    BY <1>2, <1>5
  <2> QED BY <2>1, <1>1, <1>2, <1>6
<1>8. n <= q
  <2>1. ASSUME ~(n <= q) PROVE FALSE
    <3>1. q + 1 \in Nat /\ q + 1 <= n
      BY <2>1, <1>1, <1>5
    <3>2. (q + 1) * ByteBits <= n * ByteBits
      BY <3>1, <1>1, <1>2, ProductGrows, Zenon
    <3>3. (q + 1) * ByteBits = (q * ByteBits) + ByteBits
      BY <1>2, <1>5
    <3> QED BY <3>2, <3>3, <1>1, <1>2, <1>3, <1>6, <1>7
  <2> QED BY <2>1
<1>9. ASSUME NEW i \in 1..q PROVE Num(Field(s, at + (i - 1) * ByteBits, ByteBits)) \in Nat
  <2> DEFINE x == at + (i - 1) * ByteBits
  <2>1. (i - 1) \in Nat /\ i \in Nat /\ i <= q /\ i * ByteBits = ((i - 1) * ByteBits) + ByteBits
    BY <1>2, <1>5
  <2>2. i * ByteBits <= q * ByteBits
    BY <2>1, <1>2, <1>5, ProductGrows, Zenon
  <2>3. (i - 1) * ByteBits \in Nat
    BY <2>1, <1>2
  <2>4. x \in Nat /\ x + ByteBits <= Len(s)
    <3> DEFINE c == (i - 1) * ByteBits
               e == i * ByteBits
               f == q * ByteBits
    <3>1. c \in Nat /\ e = c + ByteBits /\ e <= f /\ at + f <= Len(s) /\ f \in Nat /\ x = at + c
      BY <2>1, <2>2, <2>3, <1>7
    <3> HIDE DEF c, e, f, x
    <3> QED BY <3>1, <1>1, <1>2
  <2> HIDE DEF x
  <2>5. Field(s, x, ByteBits) \in BitSeq
    <3>1. SubSeq(s, x + 1, x + ByteBits) \in Seq({0, 1})
      BY <2>4, <1>2 DEF BitSeq
    <3> QED BY <3>1 DEF Field, BitSeq
  <2>6. Num(Field(s, x, ByteBits)) \in Nat
    BY <2>5, NumNat, Zenon
  <2> QED BY <2>6, Zenon DEF x
<1>10. u = [i \in 1..q |-> Num(Field(s, at + (i - 1) * ByteBits, ByteBits))]
  BY DEF RestFrom, BytesOf, q
<1> HIDE DEF u
<1>11. u \in Seq(Nat) /\ Len(u) = q
  <2>1. u = [i \in 1..q |-> u[i]] /\ \A i \in 1..q : u[i] \in Nat
    BY <1>9, <1>10
  <2> QED BY <2>1, <1>5, SeqMade, Zenon
<1>12. ASSUME NEW i \in 1..n PROVE u[0 + i] = t[i]
  <2>1. i \in 1..q /\ 0 + i = i
    BY <1>1, <1>5, <1>8
  <2>2. u[i] = Num(Field(s, at + (i - 1) * ByteBits, ByteBits))
    BY <2>1, <1>10
  <2>3. at + (i - 1) * ByteBits = at + ((i - 1) * ByteBits)
    OBVIOUS
  <2> QED BY <2>1, <2>2, <1>1
<1>13. Finds(u, 0, t)
  <2>1. \A i \in 1..Len(t) : u[0 + i] = t[i]
    BY <1>12 DEF n
  <2>2. 0 + Len(t) <= Len(u)
    BY <1>1, <1>8, <1>11 DEF n
  <2> QED BY <2>1, <2>2 DEF Finds
<1> QED BY <1>11, <1>13, Zenon DEF u

(* What the decoder does with the rest: lines up to the newlines.           *)
EndAt(rest, j) == IF j = 0 THEN 0 ELSE BreaksOf(rest)[j]
LineOf(rest, j) == SubSeq(rest, EndAt(rest, j - 1) + 1, EndAt(rest, j) - 1)
LinesRead(block, base, rest) ==
  /\ Len(RawLines(block)) <= Len(BreaksOf(rest))
  /\ FieldAt(block, base, 8) + (EndAt(rest, Len(RawLines(block))) * ByteBits) = FieldAt(block, base, 9)
  /\ \A j \in 1..Len(RawLines(block)) : LineOf(rest, j) = RawLines(block)[j].line

(* The lines of a block, each up to its newline, are read as they were.      *)
LEMMA LinesAreRead ==
  ASSUME NEW block \in Seq(Records), NEW base, BlockFound(stream, base, block), stream \in BitSeq
  PROVE  LinesRead(block, base, RestFrom(stream, FieldAt(block, base, 8)))
<1> DEFINE P == LinePieces(block)
           w == Len(RawLines(block))
           at == FieldAt(block, base, 8)
           u == RestFrom(stream, at)
           t == FlattenSeq(P)
           h(k) == Len(FlatTo(P, k))
<1>1. /\ RawText(block) = t /\ P \in Seq(Seq(Byte)) /\ Len(P) = w
  BY ListsAre, Zenon DEF ListsOf, Made
<1>2. RawLines(block) \in Seq(RawRecords) /\ w \in Nat
  BY RecordsPicked
<1>3. \A j \in 1..w : P[j] = Append(RawLines(block)[j].line, Newline)
  BY DEF LinePieces
<1>4. Finds(stream, at, TextBits(t)) /\ FieldAt(block, base, 9) = at + Len(TextBits(t))
  <2>1. 8 \in 1..8 /\ 8 + 1 = 9
    OBVIOUS
  <2>2. FieldBits(block)[8] = TextBits(RawText(block))
    BY FieldsAre, Zenon
  <2>3. Finds(stream, at, FieldBits(block)[8]) /\ FieldAt(block, base, 8 + 1) = at + Len(FieldBits(block)[8])
    BY <2>1, Zenon DEF BlockFound
  <2>4. FieldAt(block, base, 9) = at + Len(FieldBits(block)[8])
    BY <2>1, <2>3
  <2> QED BY <2>2, <2>3, <2>4, <1>1, Zenon
<1> HIDE DEF P, w, at, t
<1>5. FlatHas(P) /\ t \in Seq(Byte) /\ Flats(P, Byte)
  BY <1>1, FlatHasAll, FlatsAre, Zenon DEF t
<1>6. TextReadAt(stream, at, t)
  BY <1>4, <1>5, TextIsRead, Zenon
<1>7. u \in Seq(Nat) /\ Finds(u, 0, t)
  BY <1>5, <1>6, RestIs, Zenon
<1> HIDE DEF u
<1>8. \A j \in 1..w : /\ RawLines(block)[j].line \in Seq(Byte \ {Newline})
                      /\ P[j] = Append(RawLines(block)[j].line, Newline)
  <2>1. \A r \in RawRecords : r.line \in Seq(Byte \ {Newline})
    BY DEF RawRecords
  <2>2. \A j \in 1..w : RawLines(block)[j] \in RawRecords
    BY <1>2 DEF w
  <2> QED BY <2>1, <2>2, <1>3, Zenon
<1>9. AllLines(P)
  <2>1. ASSUME NEW j \in 1..w PROVE EndsLine(P[j])
    <3> DEFINE l == RawLines(block)[j].line
    <3>1. l \in Seq(Byte \ {Newline}) /\ P[j] = Append(l, Newline)
      BY <1>8
    <3> HIDE DEF l
    <3>2. Len(P[j]) = Len(l) + 1 /\ Len(l) \in Nat /\ P[j][Len(l) + 1] = Newline
          /\ \A i \in 1..Len(l) : P[j][i] = l[i] /\ l[i] # Newline
      BY <3>1
    <3> QED BY <3>2 DEF EndsLine
  <2> QED BY <2>1, <1>1 DEF AllLines
<1>10. Broken(u, P)
  BY <1>1, <1>7, <1>9, LinesAreBroken, Zenon DEF t
<1>11. h(0) = 0 /\ h(w) = Len(t) /\ Len(t) \in Nat
  BY <1>1, <1>5 DEF Flats, t
<1> HIDE DEF h
<1>12. ASSUME NEW k \in 0..w PROVE EndAt(u, k) = h(k)
  <2>1. CASE k = 0
    BY <2>1, <1>11 DEF EndAt
  <2>2. CASE k # 0
    <3>1. k \in 1..Len(P)
      BY <2>2, <1>1, <1>2
    <3>2. BreaksOf(u)[k] = h(k)
      BY <3>1, <1>10, Zenon DEF Broken, h
    <3> QED BY <3>2, <2>2 DEF EndAt
  <2> QED BY <2>1, <2>2
<1>13. w <= Len(BreaksOf(u))
  BY <1>1, <1>10, Zenon DEF Broken
<1>14. at + (EndAt(u, w) * ByteBits) = FieldAt(block, base, 9)
  <2>1. EndAt(u, w) = Len(t)
    BY <1>11, <1>12, <1>2
  <2>2. Len(TextBits(t)) = Len(t) * ByteBits
    BY <1>6, Zenon DEF TextReadAt
  <2> QED BY <2>1, <2>2, <1>4
<1>15. ASSUME NEW j \in 1..w PROVE LineOf(u, j) = RawLines(block)[j].line
  <2> DEFINE l == RawLines(block)[j].line
             a == h(j - 1)
             y == a + 1
             z == h(j) - 1
  <2>1. j \in 1..Len(P) /\ j - 1 \in 0..w /\ j \in 0..w
    BY <1>1, <1>2
  <2>2. /\ a \in Nat /\ h(j) = a + Len(P[j]) /\ h(j) <= Len(t) /\ \A i \in 1..Len(P[j]) : t[a + i] = P[j][i]
    BY <2>1, <1>5, Zenon DEF FlatHas, h, t
  <2>3. l \in Seq(Byte \ {Newline}) /\ P[j] = Append(l, Newline)
    BY <1>8
  <2>4. LineOf(u, j) = SubSeq(u, y, z)
    BY <2>1, <1>12 DEF LineOf
  <2> HIDE DEF l, a
  <2>5. l \in Seq(Nat) /\ Len(P[j]) = Len(l) + 1 /\ Len(l) \in Nat /\ \A i \in 1..Len(l) : P[j][i] = l[i]
    <3>1. \A b \in Byte \ {Newline} : b \in Nat
      BY DEF Byte
    <3> QED BY <3>1, <2>3
  <2>6. z = a + Len(l) /\ y = a + 1
    BY <2>2, <2>5
  <2>7. Finds(u, a, l)
    <3>1. Len(u) \in Nat /\ Len(t) <= Len(u) /\ \A i \in 1..Len(t) : u[i] = t[i]
      <4>1. Len(u) \in Nat
        BY <1>7
      <4>2. 0 + Len(t) <= Len(u) /\ \A i \in 1..Len(t) : u[0 + i] = t[i]
        BY <1>7 DEF Finds
      <4>3. \A i \in 1..Len(t) : 0 + i = i
        BY <1>11
      <4> QED BY <4>1, <4>2, <4>3, <1>11
    <3>2. ASSUME NEW i \in 1..Len(l) PROVE u[a + i] = l[i]
      <4>1. a + i \in 1..Len(t) /\ i \in 1..Len(P[j])
        BY <2>2, <2>5, <1>11
      <4>2. u[a + i] = t[a + i] /\ t[a + i] = P[j][i] /\ P[j][i] = l[i]
        BY <4>1, <3>1, <2>2, <2>5
      <4> QED BY <4>2
    <3>3. a + Len(l) <= Len(u)
      BY <3>1, <2>2, <2>5, <1>11
    <3> QED BY <3>2, <3>3, <2>2 DEF Finds
  <2> HIDE DEF y, z
  <2>8. SubSeq(u, y, z) = l
    BY <2>5, <2>6, <2>7, <1>7, SubSeqFound, SMTT(40)
  <2> QED BY <2>4, <2>8, Zenon DEF l
<1> QED BY <1>13, <1>14, <1>15, Zenon DEF LinesRead, w, at, u

(***************************************************************************)
(* The records in the order of the methods                                 *)
(***************************************************************************)
LEMMA BothKinds ==
  ASSUME NEW block \in Seq(Records)
  PROVE  Len(Coded(block)) + Len(RawLines(block)) = Len(block)
<1> DEFINE n == Len(block)
           Z == Zeros(block)
           O == Ones(block)
           H == {k \in 0..n : Rk(Z, k) + Rk(O, k) = k}
<1>1. n \in Nat /\ \A k \in 1..n : block[k] \in Records
  OBVIOUS
<1>2. \A k \in 1..n : (k \in Z /\ k \notin O) \/ (k \notin Z /\ k \in O)
  <2>1. \A k \in 1..n : block[k].method \in {0, 1}
    BY <1>1, RecordIs
  <2> QED BY <2>1 DEF Zeros, Ones
<1>3. Len(Coded(block)) = Rk(Z, n) /\ Len(RawLines(block)) = Rk(O, n)
  BY RecordsPicked, Zenon
<1> HIDE DEF n, Z, O
<1>4. Ranks(Z, n) /\ Ranks(O, n)
  BY <1>1, RanksAre, Zenon
<1>5. 0 \in H
  BY <1>1, <1>4 DEF Ranks
<1>6. ASSUME NEW k \in 1..n, k - 1 \in H PROVE k \in H
  <2>1. Rk(Z, k) = Rk(Z, k - 1) + (IF k \in Z THEN 1 ELSE 0) /\ Rk(O, k) = Rk(O, k - 1) + (IF k \in O THEN 1 ELSE 0)
    BY <1>4, Zenon DEF Ranks
  <2>2. k - 1 \in 0..n /\ k \in 0..n /\ k \in Nat
    BY <1>1
  <2>3. Rk(Z, k - 1) \in Nat /\ Rk(O, k - 1) \in Nat
    BY <2>2, <1>4, Zenon DEF Ranks
  <2>4. Rk(Z, k - 1) + Rk(O, k - 1) = k - 1
    BY <1>6
  <2>5. Rk(Z, k) + Rk(O, k) = k
    <3>1. CASE k \in Z /\ k \notin O
      BY <3>1, <2>1, <2>2, <2>3, <2>4
    <3>2. CASE k \notin Z /\ k \in O
      BY <3>2, <2>1, <2>2, <2>3, <2>4
    <3> QED BY <3>1, <3>2, <1>2
  <2> QED BY <2>5, <2>2
<1> HIDE DEF H
<1>7. \A k \in 1..n : k - 1 \in H => k \in H
  BY <1>6, Zenon
<1>8. \A k \in 0..n : k \in H
  BY <1>1, <1>5, <1>7, CountUp, Zenon
<1>9. n \in 0..n
  BY <1>1
<1>10. n \in H
  BY <1>8, <1>9, Zenon
<1>11. Rk(Z, n) + Rk(O, n) = n
  BY <1>10 DEF H
<1> QED BY <1>3, <1>11 DEF n

RecordOf(rest, i) ==
  IF lists.methods[i] = 0 THEN CodedRecord(Rank(i, 0))
  ELSE [method |-> 1, line |-> LineOf(rest, Rank(i, 1))]

(* The two kinds of records, counted in the methods the decoder has read.    *)
LEMMA MethodsCount ==
  ASSUME NEW block \in Seq(Records), lists.methods = Methods(block)
  PROVE  /\ MethodZeros = Len(Coded(block)) /\ Len(lists.methods) = Len(block)
         /\ Len(lists.methods) - MethodZeros = Len(RawLines(block))
         /\ \A i \in 1..Len(block) : Rank(i, 0) = Rk(Zeros(block), i) /\ Rank(i, 1) = Rk(Ones(block), i)
<1> DEFINE n == Len(block)
           m == lists.methods
<1>1. m \in BitSeq /\ Len(m) = n /\ \A i \in 1..n : m[i] = block[i].method
  BY ListsAre, Zenon DEF ListsOf
<1>2. n \in Nat /\ DOMAIN m = 1..n /\ DOMAIN block = 1..n
  BY <1>1 DEF BitSeq
<1>3. \A i \in 1..n : (i \in Zeros(block) <=> m[i] = 0) /\ (i \in Ones(block) <=> m[i] = 1)
  BY <1>1, <1>2 DEF Zeros, Ones
<1> HIDE DEF n, m
<1>4. ASSUME NEW i \in 1..n
      PROVE  Rank(i, 0) = Rk(Zeros(block), i) /\ Rank(i, 1) = Rk(Ones(block), i)
  <2>1. \A j \in 1..i : j \in 1..n
    BY <1>2
  <2>2. {j \in 1..i : m[j] = 0} = {j \in 1..i : j \in Zeros(block)}
    BY <2>1, <1>3
  <2>3. {j \in 1..i : m[j] = 1} = {j \in 1..i : j \in Ones(block)}
    BY <2>1, <1>3
  <2> QED BY <2>2, <2>3, Zenon DEF Rank, Rk, m
<1>5. MethodZeros = Rk(Zeros(block), n)
  <2>1. {j \in DOMAIN m : m[j] = 0} = {j \in 1..n : j \in Zeros(block)}
    BY <1>2, <1>3
  <2> QED BY <2>1, Zenon DEF MethodZeros, Rk, m
<1>6. Len(Coded(block)) = Rk(Zeros(block), n)
  BY RecordsPicked, Zenon DEF n
<1>7. Len(Coded(block)) + Len(RawLines(block)) = n
  BY BothKinds, Zenon DEF n
<1>8. Len(Coded(block)) \in Nat /\ Len(RawLines(block)) \in Nat
  <2>1. Coded(block) \in Seq(CodedRecords) /\ RawLines(block) \in Seq(RawRecords)
    BY RecordsPicked, Zenon
  <2> QED BY <2>1
<1>9. MethodZeros = Len(Coded(block)) /\ Len(m) = n
  BY <1>1, <1>5, <1>6, Zenon
<1>10. Len(m) - MethodZeros = Len(RawLines(block))
  BY <1>7, <1>8, <1>9
<1> QED BY <1>4, <1>9, <1>10, Zenon DEF n, m

(* With the lists, the texts and the lines of a block the decoder makes its  *)
(* records.                                                                  *)
LEMMA BlockIsMade ==
  ASSUME NEW block \in Seq(Records), lists = Known(block), NEW rest,
         \A k \in 1..Len(Coded(block)) : texts[k] = TextPieces(block)[k],
         \A j \in 1..Len(RawLines(block)) : LineOf(rest, j) = RawLines(block)[j].line
  PROVE  [i \in DOMAIN lists.methods |-> RecordOf(rest, i)] = block
<1> DEFINE n == Len(block)
<1>1. lists.methods = Methods(block)
  BY DEF Known
<1>2. Methods(block) \in BitSeq /\ Len(Methods(block)) = n /\ \A i \in 1..n : Methods(block)[i] = block[i].method
  BY ListsAre, Zenon DEF ListsOf
<1>3. DOMAIN lists.methods = 1..n
  BY <1>1, <1>2 DEF BitSeq
<1>4. ASSUME NEW i \in 1..n PROVE RecordOf(rest, i) = block[i]
  <2> DEFINE r == block[i]
  <2>1. r \in Records /\ lists.methods[i] = r.method /\ DOMAIN block = 1..n
    BY <1>1, <1>2
  <2>2. r.method = 0 \/ r.method = 1
    BY <2>1, RecordIs
  <2>3. Rank(i, 0) = Rk(Zeros(block), i) /\ Rank(i, 1) = Rk(Ones(block), i)
    BY <1>1, MethodsCount, Zenon
  <2>4. CASE r.method = 0
    <3>1. i \in Zeros(block)
      BY <2>1, <2>4 DEF Zeros
    <3>2. Rk(Zeros(block), i) \in 1..Len(Coded(block)) /\ Coded(block)[Rk(Zeros(block), i)] = r
      BY <3>1, RecordsPicked, Zenon
    <3> DEFINE k == Rk(Zeros(block), i)
    <3>3. k \in 1..Len(Coded(block)) /\ Coded(block)[k] = r
      BY <3>2, Zenon
    <3> HIDE DEF k
    <3>4. CodedRecord(k) = r
      BY <3>3, RecordIsRead, Zenon
    <3>5. RecordOf(rest, i) = CodedRecord(k)
      BY <2>1, <2>3, <2>4 DEF RecordOf, k
    <3> QED BY <3>4, <3>5, Zenon
  <2>5. CASE r.method = 1
    <3>1. i \in Ones(block)
      BY <2>1, <2>5 DEF Ones
    <3>2. Rk(Ones(block), i) \in 1..Len(RawLines(block)) /\ RawLines(block)[Rk(Ones(block), i)] = r
      BY <3>1, RecordsPicked, Zenon
    <3> DEFINE k == Rk(Ones(block), i)
    <3>3. k \in 1..Len(RawLines(block)) /\ RawLines(block)[k] = r
      BY <3>2, Zenon
    <3> HIDE DEF k
    <3>4. LineOf(rest, k) = r.line
      BY <3>3
    <3>5. RecordOf(rest, i) = [method |-> 1, line |-> LineOf(rest, k)]
      BY <2>1, <2>3, <2>5 DEF RecordOf, k
    <3>6. r = [method |-> 1, line |-> r.line]
      BY <2>1, <2>5, RecordIs
    <3> QED BY <3>4, <3>5, <3>6, Zenon
  <2> QED BY <2>2, <2>4, <2>5
<1>5. block = [i \in 1..n |-> block[i]]
  OBVIOUS
<1> HIDE DEF n
<1> QED BY <1>3, <1>4, <1>5

(***************************************************************************)
(* The state of the decoder, everywhere                                    *)
(***************************************************************************)
(* What has been read when the decoder comes to the k-th field.             *)
KnownTo(block, k) ==
  [methods |-> IF k > 2 THEN Methods(block) ELSE <<>>,
   begins |-> IF k > 3 THEN Begins(block) ELSE <<>>,
   sizes |-> IF k > 4 THEN OperationSizes(block) ELSE <<>>,
   lengths |-> IF k > 5 THEN LengthList(block) ELSE <<>>,
   pbegin |-> IF k > 6 THEN PositionBegins(block) ELSE <<>>,
   pdelta |-> IF k > 6 THEN PositionDeltas(block) ELSE <<>>]

(* The place of the decoder in the field of the substrings, and in the others. *)
TextPlace(block, base) ==
  \E l \in 0..Len(Coded(block)) :
    texts = SubSeq(TextPieces(block), 1, l) /\ cursor = TextAt(block, base, l)
Place(block, base, k) == cursor = FieldAt(block, base, k) /\ texts = IF k = 8 THEN TextPieces(block) ELSE <<>>

CountsOf(block) == [coded |-> Len(Coded(block)), raw |-> Len(RawLines(block))]
AtField(block, base, k) ==
  /\ stage = Fields[k] /\ counts = CountsOf(block) /\ lists = KnownTo(block, k)
  /\ k = 7 => TextPlace(block, base)
  /\ k # 7 => Place(block, base, k)

Within(block, base) ==
  /\ written = Len(blocks) /\ Len(decoded) < Len(blocks)
  /\ block = blocks[Len(decoded) + 1] /\ block # <<>> /\ base = StartOf(blocks, Len(decoded))

AtBlock ==
  /\ cursor = StartOf(blocks, Len(decoded)) /\ counts = [coded |-> 0, raw |-> 0]
  /\ lists = NoLists /\ texts = <<>>

AtStart == stage = "counts" /\ AtBlock /\ (written < Len(blocks) => decoded = <<>>)
AtEnd ==
  /\ stage \in {"eof", "end"} /\ AtBlock /\ written = Len(blocks)
  /\ \A b \in DOMAIN blocks : b > Len(decoded) => blocks[b] = <<>>
AtMiddle == \E block, base : Within(block, base) /\ \E k \in 2..8 : AtField(block, base, k)

Done ==
  /\ Len(decoded) \in 0..Len(blocks) /\ decoded = SubSeq(blocks, 1, Len(decoded))
  /\ \A b \in 1..Len(decoded) : blocks[b] # <<>>

CInv == WInv /\ stream = FlatTo(Streams(blocks), written) /\ Done /\ (AtStart \/ AtEnd \/ AtMiddle)

(* The stages of the decoder are eight fields and four ends.                 *)
LEMMA FieldsDiffer ==
  /\ \A j, k \in 1..8 : Fields[j] = Fields[k] => j = k
  /\ \A k \in 1..8 : Fields[k] \notin {"eof", "end", "error", "wild"}
  /\ Fields[1] = "counts" /\ Fields[2] = "methods" /\ Fields[3] = "begins" /\ Fields[4] = "sizes"
  /\ Fields[5] = "lengths" /\ Fields[6] = "positions" /\ Fields[7] = "texts" /\ Fields[8] = "raws"
BY DEF Fields

(* What the decoder knows of a block grows by one field at a time.           *)
LEMMA KnownGrows ==
  ASSUME NEW block
  PROVE  /\ KnownTo(block, 2) = NoLists
         /\ KnownTo(block, 3) = [KnownTo(block, 2) EXCEPT !.methods = Methods(block)]
         /\ KnownTo(block, 4) = [KnownTo(block, 3) EXCEPT !["begins"] = Begins(block)]
         /\ KnownTo(block, 5) = [KnownTo(block, 4) EXCEPT !["sizes"] = OperationSizes(block)]
         /\ KnownTo(block, 6) = [KnownTo(block, 5) EXCEPT !.lengths = LengthList(block)]
         /\ KnownTo(block, 7) = [[KnownTo(block, 6) EXCEPT !.pbegin = PositionBegins(block)]
                                     EXCEPT !.pdelta = PositionDeltas(block)]
         /\ KnownTo(block, 7) = Known(block) /\ KnownTo(block, 8) = Known(block)
<1>1. KnownTo(block, 2) = NoLists
  BY DEF KnownTo, NoLists
<1>2. KnownTo(block, 3) = [KnownTo(block, 2) EXCEPT !.methods = Methods(block)]
  BY DEF KnownTo
<1>3. KnownTo(block, 4) = [KnownTo(block, 3) EXCEPT !["begins"] = Begins(block)]
  BY DEF KnownTo
<1>4. KnownTo(block, 5) = [KnownTo(block, 4) EXCEPT !["sizes"] = OperationSizes(block)]
  BY DEF KnownTo
<1>5. KnownTo(block, 6) = [KnownTo(block, 5) EXCEPT !.lengths = LengthList(block)]
  BY DEF KnownTo
<1>6. KnownTo(block, 7) = [[KnownTo(block, 6) EXCEPT !.pbegin = PositionBegins(block)]
                               EXCEPT !.pdelta = PositionDeltas(block)]
  <2> DEFINE p == PositionBegins(block)
             d == PositionDeltas(block)
             one(x, y) == [methods |-> Methods(block), begins |-> Begins(block), sizes |-> OperationSizes(block),
                           lengths |-> LengthList(block), pbegin |-> x, pdelta |-> y]
  <2>1. KnownTo(block, 6) = one(<<>>, <<>>) /\ KnownTo(block, 7) = one(p, d)
    BY DEF KnownTo
  <2> HIDE DEF p, d
  <2>2. [one(<<>>, <<>>) EXCEPT !.pbegin = p] = one(p, <<>>)
    OBVIOUS
  <2>3. [one(p, <<>>) EXCEPT !.pdelta = d] = one(p, d)
    OBVIOUS
  <2> HIDE DEF one
  <2> QED BY <2>1, <2>2, <2>3, Zenon DEF p, d
<1>7. KnownTo(block, 7) = Known(block) /\ KnownTo(block, 8) = Known(block)
  BY DEF KnownTo, Known
<1> QED BY <1>1, <1>2, <1>3, <1>4, <1>5, <1>6, <1>7, Zenon

(* A decoder that reads the k-th field, not the first, is within a block.   *)
LEMMA StandsAt ==
  ASSUME CInv, NEW k \in 2..8, stage = Fields[k]
  PROVE  \E block, base : Within(block, base) /\ AtField(block, base, k)
<1>1. k \in 1..8 /\ k # 1 /\ 1 \in 1..8
  OBVIOUS
<1>2. stage # "counts" /\ stage \notin {"eof", "end"}
  BY <1>1, FieldsDiffer
<1>3. AtMiddle
  BY <1>2, Zenon DEF CInv, AtStart, AtEnd
<1>4. PICK block, base : Within(block, base) /\ \E j \in 2..8 : AtField(block, base, j)
  BY <1>3, Zenon DEF AtMiddle
<1>5. PICK j \in 2..8 : AtField(block, base, j)
  BY <1>4, Zenon
<1>6. j \in 1..8 /\ Fields[j] = Fields[k]
  BY <1>5 DEF AtField
<1>7. j = k
  BY <1>1, <1>6, FieldsDiffer, Zenon
<1> QED BY <1>4, <1>5, <1>7, Zenon

(* Before the counts, the decoder stands at the start of a block.            *)
LEMMA StandsAtStart ==
  ASSUME CInv, stage = "counts"
  PROVE  AtStart
<1>1. ~AtEnd
  BY DEF AtEnd
<1>2. ~AtMiddle
  <2>1. \A k \in 2..8 : k \in 1..8 /\ k # 1 /\ 1 \in 1..8
    OBVIOUS
  <2>2. \A k \in 2..8 : Fields[k] # "counts"
    BY <2>1, FieldsDiffer
  <2> QED BY <2>2, Zenon DEF AtMiddle, AtField
<1> QED BY <1>1, <1>2, Zenon DEF CInv

(* Where the block being decoded is found.                                  *)
BlockHere(block, base) ==
  /\ block \in Seq(Records) /\ Good(block) /\ base \in Nat /\ base % ByteBits = 0
  /\ stream \in BitSeq /\ BlockFound(stream, base, block)
  /\ FieldAt(block, base, 9) = StartOf(blocks, Len(decoded) + 1)

(* When all is written, the stream is that of the archive.                   *)
LEMMA StreamIs ==
  ASSUME CarriedArchives, CInv, written = Len(blocks)
  PROVE  /\ stream = FlattenSeq(Streams(blocks)) /\ stream \in BitSeq /\ ArchiveFound(blocks)
         /\ blocks \in Seq(Seq(Records)) /\ StartOf(blocks, Len(blocks)) = Len(stream)
<1>1. blocks \in Archives /\ stream = FlatTo(Streams(blocks), Len(blocks))
  BY DEF CInv, WInv
<1>2. ArchiveFound(blocks) /\ blocks \in Seq(Seq(Records))
  BY <1>1, ArchiveIsFound, GoodArchive, Zenon
<1>3. Streams(blocks) \in Seq(BitSeq) /\ Len(Streams(blocks)) = Len(blocks) /\ FlattenSeq(Streams(blocks)) \in BitSeq
      /\ StartOf(blocks, Len(blocks)) = Len(FlattenSeq(Streams(blocks)))
  BY <1>2, Zenon DEF ArchiveFound
<1>4. Flats(Streams(blocks), {0, 1})
  BY <1>3, FlatsAre, Zenon DEF BitSeq
<1>5. stream = FlattenSeq(Streams(blocks))
  BY <1>1, <1>3, <1>4, Zenon DEF Flats
<1> QED BY <1>2, <1>3, <1>5, Zenon

(* A block that is not yet decoded is found where the decoded ones end.      *)
LEMMA BlockIsHere ==
  ASSUME CarriedArchives, CInv, written = Len(blocks), Len(decoded) < Len(blocks)
  PROVE  BlockHere(blocks[Len(decoded) + 1], StartOf(blocks, Len(decoded)))
<1> DEFINE d == Len(decoded)
           b == d + 1
<1>1. /\ stream = FlattenSeq(Streams(blocks)) /\ stream \in BitSeq /\ ArchiveFound(blocks)
      /\ blocks \in Seq(Seq(Records)) /\ blocks \in Archives
  BY StreamIs, Zenon DEF CInv, WInv
<1>2. d \in 0..Len(blocks)
  BY Zenon DEF CInv, Done
<1>3. b \in 1..Len(blocks) /\ b - 1 = d /\ b \in 0..Len(blocks)
  <2>1. Len(blocks) \in Nat
    BY <1>1
  <2> QED BY <1>2, <2>1
<1> HIDE DEF b, d
<1>4. /\ StartOf(blocks, d) \in Nat /\ StartOf(blocks, d) % ByteBits = 0
      /\ BlockFound(stream, StartOf(blocks, b - 1), blocks[b])
      /\ StartOf(blocks, b) = StartOf(blocks, b - 1) + Len(StreamOf(blocks[b]))
  BY <1>1, <1>2, <1>3, Zenon DEF ArchiveFound
<1>5. Good(blocks[b])
  BY <1>1, <1>3, GoodArchive, Zenon
<1>6. blocks[b] \in Seq(Records)
  BY <1>5, Zenon DEF Good
<1>7. BlockFound(stream, StartOf(blocks, d), blocks[b])
  BY <1>3, <1>4
<1>8. FieldAt(blocks[b], StartOf(blocks, d), 9) = StartOf(blocks, b)
  BY <1>3, <1>4, <1>7 DEF BlockFound
<1> QED BY <1>1, <1>4, <1>5, <1>6, <1>7, <1>8, Zenon DEF BlockHere, b, d

(* Within a block, the block is found where it starts.                       *)
LEMMA WithinIsHere ==
  ASSUME CarriedArchives, CInv, NEW block, NEW base, Within(block, base)
  PROVE  BlockHere(block, base)
BY BlockIsHere, Zenon DEF Within

(* Initially.                                                                *)
LEMMA CInvInit ==
  ASSUME Init, CarriedArchives
  PROVE  CInv
<1>1. WInv
  BY WInvInit, Zenon
<1>2. /\ written = 0 /\ stream = <<>> /\ cursor = 0 /\ stage = "counts" /\ counts = [coded |-> 0, raw |-> 0]
      /\ lists = NoLists /\ texts = <<>> /\ decoded = <<>> /\ blocks \in Archives
  BY DEF Init
<1>3. ArchiveFound(blocks) /\ blocks \in Seq(Seq(Records))
  BY <1>2, ArchiveIsFound, GoodArchive, Zenon
<1>4. StartOf(blocks, 0) = 0 /\ Streams(blocks) \in Seq(BitSeq)
  BY <1>3, Zenon DEF ArchiveFound
<1>5. FlatTo(Streams(blocks), 0) = <<>>
  BY <1>4, FlatsAre, Zenon DEF BitSeq, Flats
<1>6. Len(decoded) = 0 /\ Len(blocks) \in Nat
  BY <1>2, <1>3
<1>7. Done
  <2>1. SubSeq(blocks, 1, 0) = <<>>
    BY <1>3
  <2> QED BY <2>1, <1>2, <1>6 DEF Done
<1>8. AtStart
  BY <1>2, <1>4, <1>6 DEF AtStart, AtBlock
<1> QED BY <1>1, <1>2, <1>5, <1>7, <1>8, Zenon DEF CInv

(***************************************************************************)
(* The steps of the decoder                                                *)
(***************************************************************************)
LEMMA Stays ==
  ASSUME CInv, UNCHANGED <<blocks, written, stream, decoded>>, AtStart' \/ AtEnd' \/ AtMiddle'
  PROVE  CInv'
<1>1. WInv'
  BY DEF CInv, WInv
<1>2. Done'
  <2>1. Done
    BY Zenon DEF CInv
  <2> QED BY <2>1 DEF Done
<1>3. stream' = FlatTo(Streams(blocks'), written')
  <2>1. stream = FlatTo(Streams(blocks), written)
    BY Zenon DEF CInv
  <2> QED BY <2>1, Zenon
<1> QED BY <1>1, <1>2, <1>3, Zenon DEF CInv

(* From a field to the next one of the same block.                           *)
LEMMA Moves ==
  ASSUME CInv, UNCHANGED <<blocks, written, stream, decoded>>, NEW block, NEW base,
         Within(block, base), NEW k \in 2..8, AtField(block, base, k)'
  PROVE  CInv'
<1>1. Within(block, base)'
  BY DEF Within
<1>2. AtMiddle'
  BY <1>1, Zenon DEF AtMiddle
<1> QED BY <1>2, Stays, Zenon

(* The fields of a block that is here, by their number.                     *)
FieldHere(block, base, k) ==
  /\ FieldAt(block, base, k) \in Nat /\ FieldAt(block, base, k) % ByteBits = 0
  /\ Finds(stream, FieldAt(block, base, k), FieldBits(block)[k])
  /\ FieldAt(block, base, k + 1) = FieldAt(block, base, k) + Len(FieldBits(block)[k])

(* The field to read next is read as it was.                                 *)
LEMMA FieldIsHere ==
  ASSUME NEW block, NEW base, BlockHere(block, base), NEW k \in 1..8
  PROVE  FieldHere(block, base, k)
<1>1. k \in 1..9
  OBVIOUS
<1> QED BY <1>1, Zenon DEF BlockHere, BlockFound, FieldHere

(* The counts: to the methods, or to the end after an empty block.           *)
LEMMA CountsStep ==
  ASSUME CarriedArchives, CInv, DecodeCounts
  PROVE  CInv'
<1> DEFINE d == Len(decoded)
<1>1. written = Len(blocks) /\ stage = "counts" /\ UNCHANGED <<blocks, written, stream>>
  BY DEF DecodeCounts, Reading
<1>2. AtStart
  BY <1>1, StandsAtStart, Zenon
<1>3. AtBlock /\ cursor = StartOf(blocks, d)
  BY <1>2 DEF AtStart, AtBlock
<1>4. d \in 0..Len(blocks) /\ blocks \in Archives
  BY Zenon DEF CInv, Done, WInv
<1>5. /\ blocks \in Seq(Seq(Records)) /\ StartOf(blocks, Len(blocks)) = Len(stream) /\ stream \in BitSeq
  BY <1>1, StreamIs, Zenon
<1>6. Len(blocks) \in Nat /\ Len(stream) \in Nat /\ DOMAIN blocks = 1..Len(blocks)
  BY <1>5 DEF BitSeq
<1>7. ASSUME NEW how \in {"eof", "end"}, Stop(how), \A b \in DOMAIN blocks : b > d => blocks[b] = <<>>
      PROVE  CInv'
  <2>1. stage' = how /\ UNCHANGED <<cursor, counts, lists, texts, decoded>>
    BY <1>7, Zenon DEF Stop
  <2>2. AtBlock'
    BY <1>1, <1>3, <2>1 DEF AtBlock
  <2>3. AtEnd'
    BY <1>1, <1>7, <2>1, <2>2 DEF AtEnd
  <2>4. UNCHANGED <<blocks, written, stream, decoded>>
    BY <1>1, <2>1
  <2> QED BY <2>3, <2>4, Stays, Zenon
<1>8. CASE d = Len(blocks)
  <2>1. ~Has(stream, cursor, 2 * WordBits)
    <3>1. WordBits \in Nat /\ WordBits > 0
      BY ByteIs
    <3> QED BY <3>1, <1>3, <1>5, <1>6, <1>8 DEF Has
  <2>2. Stop("eof")
    BY <2>1 DEF DecodeCounts
  <2>3. \A b \in DOMAIN blocks : b > d => blocks[b] = <<>>
    BY <1>6, <1>8
  <2> QED BY <2>2, <2>3, <1>7
<1>9. CASE d # Len(blocks)
  <2>1. d < Len(blocks) /\ d + 1 \in 1..Len(blocks)
    BY <1>4, <1>6, <1>9
  <2>2. PICK block, base : block = blocks[d + 1] /\ base = StartOf(blocks, d)
    OBVIOUS
  <2>3. BlockHere(block, base)
    BY <2>1, <2>2, <1>1, BlockIsHere
  <2>4. FieldHere(block, base, 1) /\ Good(block) /\ stream \in BitSeq
    <3>1. 1 \in 1..8
      OBVIOUS
    <3> QED BY <3>1, <2>3, FieldIsHere, Zenon DEF BlockHere
  <2>5. FieldAt(block, base, 1) = base
    BY <2>3, Zenon DEF BlockHere, BlockFound
  <2>6. Finds(stream, base, CountsBits(block)) /\ FieldAt(block, base, 1 + 1) = base + Len(CountsBits(block))
    BY <2>4, <2>5, FieldsAre, Zenon DEF FieldHere
  <2>7. CountsReadAt(stream, base, block)
    BY <2>4, <2>6, CountsAreRead, Zenon
  <2>8. /\ Has(stream, cursor, 2 * WordBits)
        /\ Word(cursor) = Len(Coded(block)) /\ Word(cursor + WordBits) = Len(RawLines(block))
    BY <2>2, <2>7, <1>3, Zenon DEF CountsReadAt, Word
  <2>9. /\ Len(Coded(block)) \in Nat
        /\ block = <<>> => Len(Coded(block)) = 0 /\ Len(RawLines(block)) = 0
        /\ block # <<>> => Len(Coded(block)) >= 1
    BY <2>4, CountsAreWords, Zenon
  <2>10. CASE block = <<>>
    <3>1. Stop("end")
      BY <2>8, <2>9, <2>10 DEF DecodeCounts
    <3>2. d + 1 = Len(blocks)
      BY <2>1, <2>2, <2>10, <1>4, GoodArchive
    <3>3. \A b \in DOMAIN blocks : b > d => b = d + 1
      BY <3>2, <1>4, <1>6
    <3>4. \A b \in DOMAIN blocks : b > d => blocks[b] = <<>>
      BY <3>3, <2>2, <2>10
    <3> QED BY <3>1, <3>4, <1>7
  <2>11. CASE block # <<>>
    <3>1. /\ stage' = "methods" /\ cursor' = cursor + 2 * WordBits
          /\ counts' = [coded |-> Len(Coded(block)), raw |-> Len(RawLines(block))]
          /\ UNCHANGED <<lists, texts, decoded>>
      BY <2>8, <2>9, <2>11 DEF DecodeCounts
    <3>2. Within(block, base)
      BY <2>1, <2>2, <2>11, <1>1 DEF Within
    <3>3. cursor' = FieldAt(block, base, 2)
      <4>1. Len(CountsBits(block)) = 2 * WordBits
        BY <2>7, Zenon DEF CountsReadAt
      <4>2. 1 + 1 = 2
        OBVIOUS
      <4> QED BY <4>1, <4>2, <3>1, <2>2, <2>6, <1>3
    <3>4. lists' = KnownTo(block, 2) /\ texts' = <<>>
      BY <3>1, <1>3, KnownGrows DEF AtBlock
    <3>5. AtField(block, base, 2)'
      <4>1. Place(block, base, 2)'
        BY <3>3, <3>4 DEF Place
      <4>2. stage' = Fields[2]
        BY <3>1, FieldsDiffer
      <4>3. counts' = CountsOf(block)
        BY <3>1, Zenon DEF CountsOf
      <4> QED BY <4>1, <4>2, <4>3, <3>4 DEF AtField
    <3>6. UNCHANGED <<blocks, written, stream, decoded>>
      BY <3>1, <1>1
    <3>7. 2 \in 2..8
      OBVIOUS
    <3> QED BY <3>2, <3>5, <3>6, <3>7, Moves, Zenon
  <2> QED BY <2>10, <2>11
<1> QED BY <1>8, <1>9

Here(block, base, k) ==
  /\ Within(block, base) /\ AtField(block, base, k) /\ BlockHere(block, base) /\ FieldHere(block, base, k)
  /\ Good(block) /\ block \in Seq(Records) /\ block # <<>> /\ FactsOf(block) /\ stream \in BitSeq
  /\ counts.coded = Len(Coded(block)) /\ Len(Coded(block)) \in Nat /\ Len(Coded(block)) >= 1
  /\ lists = KnownTo(block, k)

(* In a field, the decoder knows the fields before it.                       *)
LEMMA StandsHere ==
  ASSUME CarriedArchives, CInv, NEW k \in 2..8, Reading(Fields[k])
  PROVE  \E block, base : Here(block, base, k)
<1>1. stage = Fields[k]
  BY DEF Reading
<1>2. PICK block, base : Within(block, base) /\ AtField(block, base, k)
  BY <1>1, StandsAt, Zenon
<1>3. BlockHere(block, base)
  BY <1>2, WithinIsHere, Zenon
<1>4. Good(block) /\ block \in Seq(Records) /\ stream \in BitSeq
  BY <1>3, Zenon DEF BlockHere
<1>5. FieldHere(block, base, k)
  <2>1. k \in 1..8
    OBVIOUS
  <2> QED BY <2>1, <1>3, FieldIsHere, Zenon
<1>6. block # <<>>
  BY <1>2, Zenon DEF Within
<1>7. FactsOf(block) /\ Len(Coded(block)) \in Nat /\ Len(Coded(block)) >= 1
  BY <1>4, <1>6, CountsAreWords, Zenon
<1>8. counts = CountsOf(block) /\ lists = KnownTo(block, k)
  BY <1>2, Zenon DEF AtField
<1>9. counts.coded = Len(Coded(block))
  BY <1>8 DEF CountsOf
<1> QED BY <1>2, <1>3, <1>4, <1>5, <1>6, <1>7, <1>8, <1>9, Zenon DEF Here

(* A field has been read, and the next one comes.                           *)
LEMMA NextField ==
  ASSUME CInv, NEW block, NEW base, NEW k \in 2..6, Here(block, base, k),
         UNCHANGED <<blocks, written, stream, counts, texts, decoded>>,
         stage' = Fields[k + 1], cursor' = FieldAt(block, base, k) + Len(FieldBits(block)[k]),
         lists' = KnownTo(block, k + 1)
  PROVE  CInv'
<1>1. AtField(block, base, k) /\ Within(block, base) /\ block \in Seq(Records)
      /\ FieldAt(block, base, k + 1) = FieldAt(block, base, k) + Len(FieldBits(block)[k])
      /\ FieldAt(block, base, k + 1) \in Nat
  <2>1. k + 1 \in 1..8 /\ k + 1 \in 1..9
    OBVIOUS
  <2> QED BY <2>1, Zenon DEF Here, FieldHere, BlockHere, BlockFound
<1>2. k # 7 /\ k # 8 /\ k + 1 \in 2..8 /\ k + 1 # 8
  OBVIOUS
<1>3. texts = <<>> /\ counts = CountsOf(block)
  BY <1>1, <1>2 DEF AtField, Place
<1>4. texts' = <<>> /\ counts' = CountsOf(block) /\ cursor' = FieldAt(block, base, k + 1)
  BY <1>1, <1>3
<1>5. CASE k + 1 # 7
  <2>1. Place(block, base, k + 1)'
    BY <1>2, <1>4, <1>5 DEF Place
  <2>2. AtField(block, base, k + 1)'
    BY <2>1, <1>4, <1>5 DEF AtField
  <2> QED BY <2>2, <1>1, <1>2, Moves, Zenon
<1>6. CASE k + 1 = 7
  <2> DEFINE P == TextPieces(block)
             at == FieldAt(block, base, 7)
  <2>1. P \in Seq(Seq(Byte)) /\ Len(Coded(block)) \in Nat
    BY <1>1, ListsAre, Zenon DEF ListsOf, Made
  <2>2. TextAt(block, base, 0) = at
    <3>1. FlatTo(P, 0) = <<>>
      BY <2>1, FlatsAre, Zenon DEF Flats
    <3>2. TextAt(block, base, 0) = at + (Len(FlatTo(P, 0)) * ByteBits)
      BY DEF TextAt, PieceAt
    <3>3. at \in Nat
      BY <1>1, <1>6
    <3> HIDE DEF at, P
    <3>4. Len(<<>>) = 0
      OBVIOUS
    <3>5. at + (0 * ByteBits) = at
      BY <3>3, ByteIs
    <3> QED BY <3>1, <3>2, <3>4, <3>5, Zenon
  <2>3. 0 \in 0..Len(Coded(block)) /\ SubSeq(P, 1, 0) = <<>>
    BY <2>1
  <2>4. TextPlace(block, base)'
    <3>1. texts' = SubSeq(P, 1, 0) /\ cursor' = TextAt(block, base, 0)
      BY <2>2, <2>3, <1>4, <1>6
    <3> QED BY <3>1, <2>3, Zenon DEF TextPlace
  <2>5. AtField(block, base, k + 1)'
    BY <2>4, <1>4, <1>6 DEF AtField
  <2> QED BY <2>5, <1>1, <1>2, Moves, Zenon
<1> QED BY <1>5, <1>6

(* The methods.                                                              *)
LEMMA MethodsStep ==
  ASSUME CarriedArchives, CInv, DecodeMethods
  PROVE  CInv'
<1>1. Reading(Fields[2]) /\ 2 \in 2..8 /\ 2 \in 2..6 /\ 2 + 1 = 3
  BY FieldsDiffer DEF DecodeMethods
<1>2. PICK block, base : Here(block, base, 2)
  BY <1>1, StandsHere, Zenon
<1>3. UNCHANGED <<blocks, written, stream>>
  BY <1>1 DEF Reading
<1>4. cursor = FieldAt(block, base, 2)
  <2>1. AtField(block, base, 2)
    BY <1>2, Zenon DEF Here
  <2> QED BY <2>1 DEF AtField, Place
<1>5. MethodsReadAt(stream, cursor, block)
  <2>1. Finds(stream, cursor, MethodsBits(block))
    BY <1>2, <1>4, FieldsAre, Zenon DEF Here, FieldHere
  <2> QED BY <2>1, <1>2, MethodsAreRead, Zenon DEF Here
<1>6. ~(counts.coded + counts.raw < 0)
  <2>1. AtField(block, base, 2) /\ Good(block)
    BY <1>2, Zenon DEF Here
  <2>2. Len(Coded(block)) \in Nat /\ Len(RawLines(block)) \in Nat
    BY <2>1, CountsAreWords, Zenon
  <2> QED BY <2>1, <2>2 DEF AtField, CountsOf
<1> DEFINE bytes == Num(Field(stream, cursor, LengthBits)) * ByteBits
           at    == cursor + LengthBits
           rle   == RleDecode(Field(stream, at, bytes), Num(Field(stream, at + bytes, WordBits)))
<1>7. /\ Has(stream, cursor, LengthBits) /\ Has(stream, at, bytes + WordBits) /\ rle.status = "ok"
      /\ rle.list = Methods(block) /\ at + bytes + WordBits = cursor + Len(MethodsBits(block))
  BY <1>5, Zenon DEF MethodsReadAt
<1>8. IF ~Has(stream, cursor, LengthBits) THEN Stop("eof")
      ELSE IF ~Has(stream, at, bytes + WordBits) THEN Stop("eof")
      ELSE IF rle.status # "ok" \/ counts.coded + counts.raw < 0 THEN Stop("error")
      ELSE /\ stage' = "begins" /\ cursor' = at + bytes + WordBits
           /\ lists' = [lists EXCEPT !.methods = rle.list]
           /\ UNCHANGED <<counts, texts, decoded>>
  BY DEF DecodeMethods
<1> HIDE DEF rle, bytes, at
<1>9. /\ stage' = "begins" /\ cursor' = at + bytes + WordBits
      /\ lists' = [lists EXCEPT !.methods = rle.list]
      /\ UNCHANGED <<counts, texts, decoded>>
  BY <1>6, <1>7, <1>8, Zenon
<1>10. stage' = Fields[3] /\ cursor' = FieldAt(block, base, 2) + Len(FieldBits(block)[2])
  BY <1>4, <1>7, <1>9, FieldsDiffer, FieldsAre, Zenon
<1>11. lists' = KnownTo(block, 3)
  <2>1. lists = KnownTo(block, 2)
    BY <1>2, Zenon DEF Here
  <2>2. KnownTo(block, 3) = [KnownTo(block, 2) EXCEPT !.methods = Methods(block)]
    BY KnownGrows, Zenon
  <2>3. lists' = [lists EXCEPT !.methods = Methods(block)]
    BY <1>7, <1>9, Zenon
  <2> QED BY <2>1, <2>2, <2>3, Zenon
<1>12. UNCHANGED <<blocks, written, stream, counts, texts, decoded>>
  BY <1>3, <1>9
<1>13. stage' = Fields[2 + 1] /\ lists' = KnownTo(block, 2 + 1)
  BY <1>1, <1>10, <1>11
<1> QED BY <1>1, <1>2, <1>10, <1>12, <1>13, NextField, Zenon

(* A packed list is read.                                                   *)
LEMMA PackedStep ==
  ASSUME CInv, NEW k \in {3, 4}, NEW field, NEW next, field = Fields[k], next = Fields[k + 1],
         NEW block, NEW base, Here(block, base, k), NEW list \in Seq(Nat), Len(list) = Len(Coded(block)),
         FieldBits(block)[k] = PackBits(list), LengthFits(BitPackingEncode(list)),
         \A i \in 1..Len(list) : list[i] < Power[Most(WordBits - 1)],
         KnownTo(block, k + 1) = [KnownTo(block, k) EXCEPT ![field] = list],
         DecodePacked(field, next)
  PROVE  CInv'
<1>1. k \in 2..6
  OBVIOUS
<1>2. UNCHANGED <<blocks, written, stream>>
  BY DEF DecodePacked, Reading
<1>3. cursor = FieldAt(block, base, k)
  <2>1. AtField(block, base, k)
    BY Zenon DEF Here
  <2>2. k # 7
    OBVIOUS
  <2> QED BY <2>1, <2>2 DEF AtField, Place
<1>4. counts.coded = Len(list) /\ Len(list) >= 1 /\ Len(list) \in Nat /\ list # <<>>
  <2>1. counts.coded = Len(Coded(block)) /\ Len(Coded(block)) \in Nat /\ Len(Coded(block)) >= 1
    BY Zenon DEF Here
  <2> QED BY <2>1
<1>5. PackReadAt(stream, cursor, list, counts.coded)
  <2>1. Finds(stream, cursor, PackBits(list)) /\ stream \in BitSeq
    BY <1>3, Zenon DEF Here, FieldHere
  <2> QED BY <2>1, <1>4, PackIsRead
<1> DEFINE bytes  == Num(Field(stream, cursor, LengthBits)) * ByteBits
           at     == cursor + LengthBits
           packed == BitPackingDecode(Field(stream, at, bytes), counts.coded)
<1>6. /\ Has(stream, cursor, LengthBits) /\ Has(stream, at, bytes) /\ packed = [status |-> "ok", list |-> list]
      /\ at + bytes = cursor + Len(PackBits(list))
  BY <1>5, Zenon DEF PackReadAt
<1>7. IF counts.coded <= 0
      THEN stage' = next /\ UNCHANGED <<cursor, counts, lists, texts, decoded>>
      ELSE IF ~Has(stream, cursor, LengthBits) THEN Stop("eof")
      ELSE IF ~Has(stream, at, bytes) THEN Stop("eof")
      ELSE IF packed.status # "ok" THEN Stop(packed.status)
      ELSE /\ stage' = next /\ cursor' = at + bytes
           /\ lists' = [lists EXCEPT ![field] = packed.list]
           /\ UNCHANGED <<counts, texts, decoded>>
  BY DEF DecodePacked
<1> HIDE DEF bytes, at, packed
<1>8. packed.status = "ok" /\ packed.list = list /\ ~(counts.coded <= 0)
  BY <1>4, <1>6
<1>9. /\ stage' = next /\ cursor' = at + bytes
      /\ lists' = [lists EXCEPT ![field] = packed.list]
      /\ UNCHANGED <<counts, texts, decoded>>
  BY <1>6, <1>7, <1>8, Zenon
<1>10. cursor' = FieldAt(block, base, k) + Len(FieldBits(block)[k])
  BY <1>3, <1>6, <1>9, Zenon
<1>11. lists' = KnownTo(block, k + 1)
  BY <1>8, <1>9, Zenon DEF Here
<1>12. UNCHANGED <<blocks, written, stream, counts, texts, decoded>>
  BY <1>2, <1>9
<1> QED BY <1>1, <1>9, <1>10, <1>11, <1>12, NextField, Zenon

(* The first places.                                                         *)
LEMMA BeginsStep ==
  ASSUME CarriedArchives, CInv, DecodeBegins
  PROVE  CInv'
<1>1. "begins" = Fields[3] /\ "sizes" = Fields[3 + 1] /\ 3 \in {3, 4} /\ 3 \in 2..8
  BY FieldsDiffer
<1>2. DecodePacked("begins", "sizes") /\ Reading(Fields[3])
  BY <1>1 DEF DecodeBegins, DecodePacked
<1>3. PICK block, base : Here(block, base, 3)
  BY <1>1, <1>2, StandsHere, Zenon
<1> DEFINE list == Begins(block)
<1>4. block \in Seq(Records) /\ Good(block) /\ block # <<>> /\ FactsOf(block)
  BY <1>3, Zenon DEF Here
<1>5. list \in Seq(Nat) /\ Len(list) = Len(Coded(block))
  BY <1>4, ListsAre, Zenon DEF ListsOf
<1>6. FieldBits(block)[3] = PackBits(list)
  BY FieldsAre, Zenon
<1>7. LengthFits(BitPackingEncode(list))
  BY <1>4, Zenon DEF Good, Carried
<1>8. \A i \in 1..Len(list) : list[i] < Power[Most(WordBits - 1)]
  BY <1>4, <1>5, Zenon DEF FactsOf
<1>9. KnownTo(block, 3 + 1) = [KnownTo(block, 3) EXCEPT !["begins"] = list]
  <2>1. 3 + 1 = 4
    OBVIOUS
  <2> QED BY <2>1, KnownGrows
<1> HIDE DEF list
<1> QED BY <1>1, <1>2, <1>3, <1>5, <1>6, <1>7, <1>8, <1>9, PackedStep

(* The numbers of edits.                                                     *)
LEMMA SizesStep ==
  ASSUME CarriedArchives, CInv, DecodeSizes
  PROVE  CInv'
<1>1. "sizes" = Fields[4] /\ "lengths" = Fields[4 + 1] /\ 4 \in {3, 4} /\ 4 \in 2..8
  BY FieldsDiffer
<1>2. DecodePacked("sizes", "lengths") /\ Reading(Fields[4])
  BY <1>1 DEF DecodeSizes, DecodePacked
<1>3. PICK block, base : Here(block, base, 4)
  BY <1>1, <1>2, StandsHere, Zenon
<1> DEFINE list == OperationSizes(block)
<1>4. block \in Seq(Records) /\ Good(block) /\ block # <<>> /\ FactsOf(block)
  BY <1>3, Zenon DEF Here
<1>5. list \in Seq(Nat) /\ Len(list) = Len(Coded(block))
  BY <1>4, ListsAre, Zenon DEF ListsOf
<1>6. FieldBits(block)[4] = PackBits(list)
  BY FieldsAre, Zenon
<1>7. LengthFits(BitPackingEncode(list))
  BY <1>4, Zenon DEF Good, Carried
<1>8. \A i \in 1..Len(list) : list[i] < Power[Most(WordBits - 1)]
  BY <1>4, <1>5, Zenon DEF FactsOf
<1>9. KnownTo(block, 4 + 1) = [KnownTo(block, 4) EXCEPT !["sizes"] = list]
  <2>1. 4 + 1 = 5
    OBVIOUS
  <2> QED BY <2>1, KnownGrows
<1> HIDE DEF list
<1> QED BY <1>1, <1>2, <1>3, <1>5, <1>6, <1>7, <1>8, <1>9, PackedStep

(* The lengths, deleted and inserted.                                        *)
LEMMA LengthsStep ==
  ASSUME CarriedArchives, CInv, DecodeLengths
  PROVE  CInv'
<1>1. Reading(Fields[5]) /\ 5 \in 2..8 /\ 5 \in 2..6
  BY FieldsDiffer DEF DecodeLengths
<1>2. PICK block, base : Here(block, base, 5)
  BY <1>1, StandsHere, Zenon
<1>3. UNCHANGED <<blocks, written, stream>>
  BY <1>1 DEF Reading
<1>4. cursor = FieldAt(block, base, 5)
  <2>1. AtField(block, base, 5)
    BY <1>2, Zenon DEF Here
  <2> QED BY <2>1 DEF AtField, Place
<1> DEFINE list == LengthList(block)
           end == cursor + Len(DiffBits(list))
           n == Len(Coded(block))
<1>5. /\ block \in Seq(Records) /\ FactsOf(block) /\ counts.coded = n /\ n \in Nat /\ n >= 1
      /\ lists = KnownTo(block, 5) /\ stream \in BitSeq
  BY <1>2, Zenon DEF Here
<1>6. Ts2DiffDecode(stream, cursor) = [status |-> "ok", list |-> list, at |-> end]
  <2>1. FieldAt(block, base, 5) % ByteBits = 0 /\ Finds(stream, FieldAt(block, base, 5), DiffBits(list))
    BY <1>2, FieldsAre, Zenon DEF Here, FieldHere
  <2>2. ListRead(list)
    BY <1>5, Zenon DEF FactsOf
  <2>3. DiffReadAt(stream, cursor, list)
    BY <2>1, <2>2, <1>4, <1>5, DiffIsRead, Zenon
  <2> QED BY <2>3, Zenon DEF DiffReadAt
<1>7. lists.sizes = OperationSizes(block)
  BY <1>5 DEF KnownTo
<1>8. Len(lists.sizes) = n /\ 2 * SumSeq(lists.sizes) = Len(list)
  <2>1. OperationSizes(block) \in Seq(Nat) /\ Len(OperationSizes(block)) = n
    BY <1>5, ListsAre, Zenon DEF ListsOf
  <2>2. OperationSizes(block) \in Seq(Int)
    BY <2>1
  <2>3. SumTo(OperationSizes(block), n) = SumSeq(OperationSizes(block))
    BY <2>1, <2>2, SumsAre, Zenon DEF Sums
  <2>4. Len(list) = 2 * SizesTo(block, n)
    BY <1>5, Zenon DEF FactsOf
  <2> QED BY <2>1, <2>3, <2>4, <1>7, Zenon DEF SizesTo
<1>9. PICK ts \in {Ts2DiffDecode(stream, cursor)} :
        IF counts.coded <= 0
        THEN stage' = "positions" /\ UNCHANGED <<cursor, counts, lists, texts, decoded>>
        ELSE IF ts.status # "ok" THEN Stop(ts.status)
        ELSE IF Len(lists.sizes) < counts.coded THEN Stop("wild")
        ELSE IF Len(ts.list) # 2 * SumSeq(lists.sizes) THEN Stop("error")
        ELSE /\ stage' = "positions" /\ cursor' = ts.at
             /\ lists' = [lists EXCEPT !.lengths = ts.list]
             /\ UNCHANGED <<counts, texts, decoded>>
  BY DEF DecodeLengths
<1> HIDE DEF list, end, n
<1>10. ts.status = "ok" /\ ts.list = list /\ ts.at = end
  BY <1>6, <1>9
<1>11. ~(counts.coded <= 0) /\ ~(Len(lists.sizes) < counts.coded)
  BY <1>5, <1>8
<1>12. /\ stage' = "positions" /\ cursor' = ts.at
       /\ lists' = [lists EXCEPT !.lengths = ts.list]
       /\ UNCHANGED <<counts, texts, decoded>>
  <2>1. ts.status = "ok" /\ Len(ts.list) = 2 * SumSeq(lists.sizes)
    BY <1>8, <1>10, Zenon
  <2> QED BY <2>1, <1>9, <1>11, Zenon
<1>13. cursor' = FieldAt(block, base, 5) + Len(FieldBits(block)[5])
  BY <1>4, <1>10, <1>12, FieldsAre, Zenon DEF end, list
<1>14. 5 + 1 = 6
  OBVIOUS
<1>15. lists' = KnownTo(block, 5 + 1) /\ stage' = Fields[5 + 1]
  <2>1. KnownTo(block, 6) = [KnownTo(block, 5) EXCEPT !.lengths = list]
    BY KnownGrows, Zenon DEF list
  <2>2. lists' = [lists EXCEPT !.lengths = list]
    BY <1>10, <1>12, Zenon
  <2>3. lists' = KnownTo(block, 6) /\ stage' = Fields[6]
    BY <2>1, <2>2, <1>5, <1>12, FieldsDiffer, Zenon
  <2> QED BY <2>3, <1>14
<1>16. UNCHANGED <<blocks, written, stream, counts, texts, decoded>>
  BY <1>3, <1>12
<1> QED BY <1>1, <1>2, <1>13, <1>15, <1>16, NextField, Zenon

(* The positions.                                                            *)
LEMMA PositionsStep ==
  ASSUME CarriedArchives, CInv, DecodePositions
  PROVE  CInv'
<1>1. Reading(Fields[6]) /\ 6 \in 2..8 /\ 6 \in 2..6
  BY FieldsDiffer DEF DecodePositions
<1>2. PICK block, base : Here(block, base, 6)
  BY <1>1, StandsHere, Zenon
<1>3. UNCHANGED <<blocks, written, stream>>
  BY <1>1 DEF Reading
<1>4. cursor = FieldAt(block, base, 6)
  <2>1. AtField(block, base, 6)
    BY <1>2, Zenon DEF Here
  <2> QED BY <2>1 DEF AtField, Place
<1> DEFINE p == PositionBegins(block)
           d == PositionDeltas(block)
           mid == cursor + Len(DiffBits(p))
           end == mid + Len(DiffBits(d))
           n == Len(Coded(block))
<1>5. /\ block \in Seq(Records) /\ FactsOf(block) /\ counts.coded = n /\ n \in Nat /\ n >= 1
      /\ lists = KnownTo(block, 6) /\ stream \in BitSeq
  BY <1>2, Zenon DEF Here
<1>6. ListRead(p) /\ ListRead(d)
  BY <1>5, Zenon DEF FactsOf
<1>7. /\ DiffBits(p) \in BitSeq /\ Len(DiffBits(p)) \in Nat /\ Len(DiffBits(p)) % ByteBits = 0
      /\ DiffBits(d) \in BitSeq /\ Len(DiffBits(d)) \in Nat
  BY <1>6, PieceDiff, PieceTyped, Zenon
<1>8. /\ FieldAt(block, base, 6) % ByteBits = 0 /\ FieldAt(block, base, 6) \in Nat
      /\ Finds(stream, FieldAt(block, base, 6), DiffBits(p) \o DiffBits(d))
      /\ FieldBits(block)[6] = DiffBits(p) \o DiffBits(d)
  BY <1>2, FieldsAre, Zenon DEF Here, FieldHere
<1> HIDE DEF p, d, n
<1>9. Finds(stream, cursor, DiffBits(p)) /\ Finds(stream, mid, DiffBits(d))
  <2>1. FindsBoth(stream, cursor, DiffBits(p), DiffBits(d))
    BY <1>4, <1>5, <1>7, <1>8, FindsSplit, Zenon DEF BitSeq
  <2> QED BY <2>1, Zenon DEF FindsBoth
<1>10. mid % ByteBits = 0
  <2>1. cursor \in Int /\ Len(DiffBits(p)) \in Int /\ ByteBits \in Nat \ {0}
    BY <1>4, <1>7, <1>8, ByteIs
  <2>2. (cursor + Len(DiffBits(p))) % ByteBits = cursor % ByteBits
    BY <2>1, <1>7, Remains, Zenon
  <2> QED BY <2>2, <1>4, <1>8, Zenon
<1>11. Ts2DiffDecode(stream, cursor) = [status |-> "ok", list |-> p, at |-> mid]
  <2>1. DiffReadAt(stream, cursor, p)
    BY <1>4, <1>5, <1>6, <1>8, <1>9, DiffIsRead, Zenon
  <2> QED BY <2>1, Zenon DEF DiffReadAt
<1>12. Ts2DiffDecode(stream, mid) = [status |-> "ok", list |-> d, at |-> end]
  <2> HIDE DEF mid
  <2>1. DiffReadAt(stream, mid, d)
    BY <1>5, <1>6, <1>9, <1>10, DiffIsRead, Zenon
  <2> QED BY <2>1, Zenon DEF DiffReadAt
<1>13. Len(FieldBits(block)[6]) = Len(DiffBits(p)) + Len(DiffBits(d))
  <2>1. \A x, y \in BitSeq : Len(x \o y) = Len(x) + Len(y)
    BY DEF BitSeq
  <2> QED BY <2>1, <1>7, <1>8, Zenon
<1>14. end = FieldAt(block, base, 6) + Len(FieldBits(block)[6])
  BY <1>4, <1>7, <1>8, <1>13
<1>15. \E begin \in {Ts2DiffDecode(stream, cursor)} : \E delta \in {Ts2DiffDecode(stream, begin.at)} :
       IF counts.coded <= 0
       THEN stage' = "texts" /\ UNCHANGED <<cursor, counts, lists, texts, decoded>>
       ELSE IF begin.status # "ok" THEN Stop(begin.status)
       ELSE IF delta.status # "ok" THEN Stop(delta.status)
       ELSE /\ stage' = "texts" /\ cursor' = delta.at
            /\ lists' = [[lists EXCEPT !.pbegin = begin.list] EXCEPT !.pdelta = delta.list]
            /\ UNCHANGED <<counts, texts, decoded>>
  BY DEF DecodePositions
<1> HIDE DEF mid, end
<1> DEFINE begin == Ts2DiffDecode(stream, cursor)
           delta == Ts2DiffDecode(stream, begin.at)
<1>16. begin.status = "ok" /\ begin.list = p /\ begin.at = mid
  BY <1>11
<1>17. delta.status = "ok" /\ delta.list = d /\ delta.at = end
  BY <1>12, <1>16
<1>18. /\ stage' = "texts" /\ cursor' = end
       /\ lists' = [[lists EXCEPT !.pbegin = p] EXCEPT !.pdelta = d]
       /\ UNCHANGED <<counts, texts, decoded>>
  <2>1. ~(counts.coded <= 0)
    BY <1>5
  <2> QED BY <2>1, <1>15, <1>16, <1>17, Zenon
<1>19. 6 + 1 = 7
  OBVIOUS
<1>20. lists' = KnownTo(block, 6 + 1) /\ stage' = Fields[6 + 1]
  <2>1. KnownTo(block, 7) = [[KnownTo(block, 6) EXCEPT !.pbegin = p] EXCEPT !.pdelta = d]
    BY KnownGrows, Zenon DEF p, d
  <2>2. lists' = KnownTo(block, 7) /\ stage' = Fields[7]
    BY <2>1, <1>5, <1>18, FieldsDiffer, Zenon
  <2> QED BY <2>2, <1>19
<1>21. UNCHANGED <<blocks, written, stream, counts, texts, decoded>>
  BY <1>3, <1>18
<1>22. cursor' = FieldAt(block, base, 6) + Len(FieldBits(block)[6])
  BY <1>14, <1>18, Zenon
<1> QED BY <1>1, <1>2, <1>20, <1>21, <1>22, NextField, Zenon

(* The texts.                                                                *)
LEMMA TextsStep ==
  ASSUME CarriedArchives, CInv, DecodeTexts
  PROVE  CInv'
<1>1. Reading(Fields[7]) /\ 7 \in 2..8 /\ 8 \in 2..8
  BY FieldsDiffer DEF DecodeTexts
<1>2. PICK block, base : Here(block, base, 7)
  BY <1>1, StandsHere, Zenon
<1>3. UNCHANGED <<blocks, written, stream>>
  BY <1>1 DEF Reading
<1> DEFINE P == TextPieces(block)
           n == Len(Coded(block))
<1>4. /\ block \in Seq(Records) /\ BlockFound(stream, base, block) /\ stream \in BitSeq /\ n \in Nat
      /\ Within(block, base) /\ AtField(block, base, 7)
  BY <1>2, Zenon DEF Here, BlockHere
<1>5. stage = Fields[7] /\ counts = CountsOf(block) /\ lists = KnownTo(block, 7) /\ TextPlace(block, base)
  BY <1>4, Zenon DEF AtField
<1>6. lists = Known(block) /\ KnownTo(block, 8) = KnownTo(block, 7)
  BY <1>5, KnownGrows, Zenon
<1>7. PICK l \in 0..n : texts = SubSeq(P, 1, l) /\ cursor = TextAt(block, base, l)
  BY <1>5, Zenon DEF TextPlace
<1>8. P \in Seq(Seq(Byte)) /\ Len(P) = n
  BY <1>4, ListsAre, Zenon DEF ListsOf, Made
<1>9. TextsRead(block, base)
  BY <1>4, <1>6, TextsAreRead, Zenon
<1>10. MethodZeros = n
  <2>1. lists.methods = Methods(block)
    BY <1>6 DEF Known
  <2> QED BY <2>1, <1>4, MethodsCount, Zenon
<1>11. Len(texts) = l
  BY <1>7, <1>8
<1> DEFINE k == Len(texts) + 1
           total == SumSeq(InsertedOf(k))
<1>12. IF k > MethodZeros
       THEN stage' = "raws" /\ UNCHANGED <<cursor, counts, lists, texts, decoded>>
       ELSE IF ~ListsReach(k) THEN Stop("wild")
       ELSE IF ~Has(stream, cursor, total * ByteBits) THEN Stop("eof")
       ELSE /\ cursor' = cursor + total * ByteBits
            /\ texts' = Append(texts, Bytes(cursor, total))
            /\ UNCHANGED <<stage, counts, lists, decoded>>
  BY DEF DecodeTexts
<1>13. k = l + 1
  BY <1>11
<1> HIDE DEF P, n, k, total
<1>14. CASE l = n
  <2>1. k > MethodZeros
    BY <1>4, <1>10, <1>13, <1>14
  <2>2. stage' = "raws" /\ UNCHANGED <<cursor, counts, lists, texts, decoded>>
    BY <1>12, <2>1, Zenon
  <2>3. SubSeq(P, 1, n) = P
    BY <1>8, PrefixAll
  <2>4. TextAt(block, base, n) = FieldAt(block, base, 8)
    BY <1>9, Zenon DEF TextsRead, n
  <2>5. cursor' = FieldAt(block, base, 8) /\ texts' = P
    BY <2>2, <2>3, <2>4, <1>7, <1>14
  <2>6. Place(block, base, 8)'
    BY <2>5 DEF Place, P
  <2>7. stage' = Fields[8] /\ counts' = CountsOf(block) /\ lists' = KnownTo(block, 8)
    BY <2>2, <1>5, <1>6, FieldsDiffer
  <2>8. AtField(block, base, 8)'
    BY <2>6, <2>7 DEF AtField
  <2>9. UNCHANGED <<blocks, written, stream, decoded>>
    BY <2>2, <1>3
  <2> QED BY <2>8, <2>9, <1>1, <1>4, Moves, Zenon
<1>15. CASE l # n
  <2>1. k \in 1..n /\ k - 1 = l /\ k \in 0..n /\ ~(k > MethodZeros)
    BY <1>4, <1>10, <1>13, <1>15
  <2>2. /\ Has(stream, TextAt(block, base, k - 1), SumSeq(InsertedOf(k)) * ByteBits)
        /\ TextAt(block, base, k) = TextAt(block, base, k - 1) + SumSeq(InsertedOf(k)) * ByteBits
        /\ Bytes(TextAt(block, base, k - 1), SumSeq(InsertedOf(k))) = P[k]
    BY <2>1, <1>9, Zenon DEF TextsRead, n, P
  <2>3. /\ Has(stream, cursor, total * ByteBits)
        /\ TextAt(block, base, k) = cursor + total * ByteBits /\ Bytes(cursor, total) = P[k]
    BY <2>1, <2>2, <1>7 DEF total
  <2>4. ListsReach(k)
    <3>1. PartsOf(block, k)
      BY <2>1, <1>4, <1>6, PartsAre, Zenon DEF n
    <3> QED BY <3>1, Zenon DEF PartsOf
  <2>5. /\ cursor' = cursor + total * ByteBits
        /\ texts' = Append(texts, Bytes(cursor, total))
        /\ UNCHANGED <<stage, counts, lists, decoded>>
    BY <2>1, <2>3, <2>4, <1>12, Zenon
  <2>6. cursor' = TextAt(block, base, k)
    BY <2>3, <2>5, Zenon
  <2>7. texts' = SubSeq(P, 1, k)
    <3>1. texts' = Append(SubSeq(P, 1, l), P[k])
      BY <2>3, <2>5, <1>7, Zenon
    <3>2. k \in 1..Len(P)
      BY <2>1, <1>8
    <3>3. SubSeq(P, 1, k) = Append(SubSeq(P, 1, k - 1), P[k])
      BY <3>2, <1>8
    <3> QED BY <3>1, <3>3, <2>1
  <2>8. TextPlace(block, base)'
    BY <2>1, <2>6, <2>7, Zenon DEF TextPlace, P, n
  <2>9. AtField(block, base, 7)'
    BY <2>5, <2>8, <1>5 DEF AtField
  <2>10. UNCHANGED <<blocks, written, stream, decoded>>
    BY <2>5, <1>3
  <2> QED BY <2>9, <2>10, <1>1, <1>4, Moves, Zenon
<1> QED BY <1>14, <1>15

(* The lines as they are: the block is made, and it is the one that was      *)
(* encoded.                                                                  *)
LEMMA RawsStep ==
  ASSUME CarriedArchives, CInv, DecodeRaws
  PROVE  CInv' /\ decoded' = Append(decoded, blocks[Len(decoded) + 1]) /\ Len(decoded) < Len(blocks)
         /\ stage' = "counts" /\ blocks[Len(decoded) + 1] # <<>>
<1>1. Reading(Fields[8]) /\ 8 \in 2..8
  BY FieldsDiffer DEF DecodeRaws
<1>2. PICK block, base : Here(block, base, 8)
  BY <1>1, StandsHere, Zenon
<1>3. UNCHANGED <<blocks, written, stream>>
  BY <1>1 DEF Reading
<1> DEFINE P == TextPieces(block)
           d == Len(decoded)
           w == Len(RawLines(block))
           rest == RestFrom(stream, cursor)
<1>4. /\ block \in Seq(Records) /\ BlockFound(stream, base, block) /\ stream \in BitSeq
      /\ Within(block, base) /\ AtField(block, base, 8) /\ BlockHere(block, base)
  BY <1>2, Zenon DEF Here, BlockHere
<1>5. lists = KnownTo(block, 8) /\ cursor = FieldAt(block, base, 8) /\ texts = P
  BY <1>4 DEF AtField, Place
<1>6. lists = Known(block)
  BY <1>5, KnownGrows, Zenon
<1>7. LinesRead(block, base, rest)
  BY <1>4, <1>5, LinesAreRead, Zenon
<1>8. lists.methods = Methods(block)
  BY <1>6 DEF Known
<1>9. Len(lists.methods) - MethodZeros = w
  BY <1>4, <1>8, MethodsCount, Zenon
<1>10. [i \in DOMAIN lists.methods |-> RecordOf(rest, i)] = block
  <2>1. \A k \in 1..Len(Coded(block)) : texts[k] = TextPieces(block)[k]
    BY <1>5, Zenon
  <2>2. \A j \in 1..Len(RawLines(block)) : LineOf(rest, j) = RawLines(block)[j].line
    BY <1>7, Zenon DEF LinesRead
  <2> HIDE DEF rest
  <2> QED BY <2>1, <2>2, <1>4, <1>6, BlockIsMade
<1>11. IF Len(BreaksOf(rest)) < w THEN Stop("eof")
       ELSE /\ stage' = "counts" /\ cursor' = cursor + EndAt(rest, w) * ByteBits
            /\ decoded' = Append(decoded, [i \in DOMAIN lists.methods |-> RecordOf(rest, i)])
            /\ counts' = [coded |-> 0, raw |-> 0] /\ lists' = NoLists /\ texts' = <<>>
  BY <1>9 DEF DecodeRaws, RestFrom, Bytes, BytesOf, BreaksOf, NewlinesOf, EndAt, LineOf, RecordOf
<1> HIDE DEF w, rest
<1>12. ~(Len(BreaksOf(rest)) < w) /\ cursor + EndAt(rest, w) * ByteBits = FieldAt(block, base, 9)
  <2>1. w <= Len(BreaksOf(rest)) /\ cursor + (EndAt(rest, w) * ByteBits) = FieldAt(block, base, 9)
    BY <1>5, <1>7, Zenon DEF LinesRead, w
  <2>2. w \in Nat
    <3>1. RawLines(block) \in Seq(RawRecords)
      BY <1>4, RecordsPicked, Zenon
    <3> QED BY <3>1 DEF w
  <2>3. Len(BreaksOf(rest)) \in Nat
    <3>1. Len(BreaksOf(rest)) \in Int
      <4>1. DecodeRaws
        OBVIOUS
      <4>2. rest \in Seq(Nat)
        <5>1. FieldBits(block)[8] = TextBits(RawText(block)) /\ Finds(stream, cursor, FieldBits(block)[8])
          BY <1>2, <1>5, FieldsAre, Zenon DEF Here, FieldHere
        <5>2. RawText(block) \in Seq(Byte)
          BY <1>4, ListsAre, FlatHasAll, Zenon DEF ListsOf, Made
        <5>3. TextReadAt(stream, cursor, RawText(block))
          BY <5>1, <5>2, <1>4, TextIsRead, Zenon
        <5> QED BY <5>2, <5>3, <1>4, RestIs, Zenon DEF rest
      <4>3. Len(rest) \in Nat
        BY <4>2
      <4>4. InOrder(NewlinesOf(rest), Len(rest)) \in Seq(1..Len(rest))
        BY <4>3, InOrderAre
      <4> QED BY <4>4 DEF BreaksOf
    <3> QED BY <3>1, <2>1, <2>2
  <2> QED BY <2>1, <2>2, <2>3
<1>13. /\ stage' = "counts" /\ cursor' = FieldAt(block, base, 9) /\ decoded' = Append(decoded, block)
       /\ counts' = [coded |-> 0, raw |-> 0] /\ lists' = NoLists /\ texts' = <<>>
  BY <1>10, <1>11, <1>12, Zenon
<1>14. /\ written = Len(blocks) /\ d < Len(blocks) /\ block = blocks[d + 1] /\ block # <<>>
  BY <1>4 DEF Within
<1>15. Done /\ WInv /\ stream = FlatTo(Streams(blocks), written)
  BY Zenon DEF CInv
<1>16. d \in 0..Len(blocks) /\ decoded = SubSeq(blocks, 1, d) /\ \A b \in 1..d : blocks[b] # <<>>
  BY <1>15 DEF Done
<1>17. blocks \in Seq(Seq(Records)) /\ Len(blocks) \in Nat
  <2>1. blocks \in Seq(Seq(Records))
    BY <1>14, StreamIs, Zenon
  <2> QED BY <2>1
<1>18. FieldAt(block, base, 9) = StartOf(blocks, d + 1)
  BY <1>4, Zenon DEF BlockHere
<1> HIDE DEF d
<1>19. decoded' = SubSeq(blocks, 1, d + 1) /\ Len(decoded') = d + 1 /\ d + 1 \in 0..Len(blocks)
  <2>1. d + 1 \in 1..Len(blocks) /\ (d + 1) - 1 = d
    BY <1>14, <1>16, <1>17
  <2>2. SubSeq(blocks, 1, d + 1) = Append(SubSeq(blocks, 1, d), blocks[d + 1]) /\ Len(SubSeq(blocks, 1, d + 1)) = d + 1
    <3> DEFINE e == d + 1
    <3>1. e \in 1..Len(blocks) /\ e - 1 = d
      BY <2>1
    <3> HIDE DEF e
    <3>2. SubSeq(blocks, 1, e) = Append(SubSeq(blocks, 1, e - 1), blocks[e])
      BY <3>1, <1>17
    <3>3. Len(SubSeq(blocks, 1, e)) = e
      BY <3>1, <1>17
    <3> QED BY <3>1, <3>2, <3>3 DEF e
  <2> QED BY <2>1, <2>2, <1>13, <1>14, <1>16
<1>20. Done'
  <2>1. \A b \in 1..(d + 1) : b \in 1..d \/ b = d + 1
    BY <1>16, <1>17
  <2>2. \A b \in 1..(d + 1) : blocks[b] # <<>>
    BY <2>1, <1>14, <1>16
  <2> QED BY <2>2, <1>3, <1>19 DEF Done
<1>21. AtStart'
  <2>1. AtBlock'
    BY <1>3, <1>13, <1>18, <1>19 DEF AtBlock
  <2>2. ~(written' < Len(blocks'))
    BY <1>3, <1>14, <1>17
  <2> QED BY <2>1, <2>2, <1>13 DEF AtStart
<1>22. WInv' /\ stream' = FlatTo(Streams(blocks'), written')
  <2>1. WInv'
    BY <1>3, <1>15 DEF WInv
  <2> QED BY <2>1, <1>3, <1>15, Zenon
<1>23. CInv'
  BY <1>20, <1>21, <1>22, Zenon DEF CInv
<1> QED BY <1>13, <1>14, <1>23, Zenon DEF d

(***************************************************************************)
(* The encoder's step, and all steps together                              *)
(***************************************************************************)
LEMMA AppendStep ==
  ASSUME CarriedArchives, CInv, AppendBlock
  PROVE  CInv'
<1> DEFINE w == written
           P == Streams(blocks)
<1>1. /\ w < Len(blocks) /\ stream' = stream \o Encoded(blocks[w + 1]) /\ written' = w + 1
      /\ UNCHANGED <<blocks, cursor, stage, counts, lists, texts, decoded>>
  BY DEF AppendBlock
<1>2. /\ blocks \in Archives /\ w \in Nat /\ stream = FlatTo(P, w) /\ Done
  BY Zenon DEF CInv, WInv
<1>3. WInv'
  BY WInvNext DEF CInv, Next
<1>4. Done'
  BY <1>1, <1>2 DEF Done
<1>5. /\ blocks \in Seq(Seq(Records)) /\ \A b \in 1..Len(blocks) : Good(blocks[b])
  BY <1>2, GoodArchive, Zenon
<1>6. P \in Seq(BitSeq) /\ Len(P) = Len(blocks)
  BY <1>2, ArchiveIsFound, Zenon DEF ArchiveFound
<1>7. w + 1 \in 1..Len(blocks) /\ (w + 1) - 1 = w
  <2>1. Len(blocks) \in Nat
    BY <1>5
  <2> QED BY <2>1, <1>1, <1>2
<1> DEFINE b == w + 1
<1>8. Encoded(blocks[b]) = P[b]
  <2>1. Good(blocks[b])
    BY <1>5, <1>7, Zenon
  <2>2. Encoded(blocks[b]) = StreamOf(blocks[b])
    BY <2>1, BlockIsPiece, Zenon
  <2>3. P[b] = StreamOf(blocks[b])
    BY <1>7 DEF Streams
  <2> QED BY <2>2, <2>3, Zenon
<1> HIDE DEF w, P, b
<1>9. stream' = FlatTo(P, b)
  <2>1. Flats(P, {0, 1})
    BY <1>6, FlatsAre, Zenon DEF BitSeq
  <2>2. b \in 1..Len(P) /\ b - 1 = w
    BY <1>6, <1>7 DEF b
  <2>3. FlatTo(P, b) = FlatTo(P, b - 1) \o P[b]
    BY <2>1, <2>2, Zenon DEF Flats
  <2>4. stream' = FlatTo(P, w) \o P[b]
    BY <1>1, <1>2, <1>8, Zenon DEF b
  <2> QED BY <2>2, <2>3, <2>4
<1>10. stream' = FlatTo(Streams(blocks'), written')
  BY <1>1, <1>9, Zenon DEF P, b
<1>11. AtStart
  <2>1. ~(w = Len(blocks))
    <3>1. Len(blocks) \in Nat
      BY <1>5
    <3> QED BY <3>1, <1>1, <1>2
  <2>2. ~AtEnd /\ ~AtMiddle
    BY <2>1, Zenon DEF AtEnd, AtMiddle, Within, w
  <2> QED BY <2>2, Zenon DEF CInv
<1>12. AtStart'
  <2>1. decoded = <<>>
    BY <1>1, <1>11 DEF AtStart, w
  <2>2. AtBlock'
    BY <1>1, <1>11 DEF AtStart, AtBlock
  <2> QED BY <2>1, <2>2, <1>1, <1>11 DEF AtStart
<1> QED BY <1>3, <1>4, <1>10, <1>12, Zenon DEF CInv

(* Every step.                                                               *)
LEMMA CInvNext ==
  ASSUME CarriedArchives, CInv, [Next]_vars
  PROVE  CInv'
<1>1. CASE AppendBlock
  BY <1>1, AppendStep, Zenon
<1>2. CASE Decode
  BY <1>2, CountsStep, MethodsStep, BeginsStep, SizesStep, LengthsStep, PositionsStep, TextsStep, RawsStep, Zenon
     DEF Decode
<1>3. CASE UNCHANGED vars
  <2>1. UNCHANGED <<blocks, written, stream, cursor, stage, counts, lists, texts, decoded>>
    BY <1>3 DEF vars
  <2>2. AtStart' \/ AtEnd' \/ AtMiddle'
    <3>1. AtBlock => AtBlock'
      BY <2>1 DEF AtBlock
    <3>2. AtStart => AtStart'
      BY <2>1, <3>1 DEF AtStart
    <3>3. AtEnd => AtEnd'
      BY <2>1, <3>1 DEF AtEnd
    <3>4. AtMiddle => AtMiddle'
      <4>1. \A block, base : Within(block, base) => Within(block, base)'
        BY <2>1 DEF Within
      <4>2. \A block, base : \A k \in 2..8 : AtField(block, base, k) => AtField(block, base, k)'
        BY <2>1 DEF AtField, TextPlace, Place
      <4> QED BY <4>1, <4>2, Zenon DEF AtMiddle
    <3> QED BY <3>2, <3>3, <3>4, Zenon DEF CInv
  <2>3. UNCHANGED <<blocks, written, stream, decoded>>
    BY <2>1
  <2> QED BY <2>2, <2>3, Stays, Zenon
<1>4. CASE Ended
  BY <1>3, <1>4 DEF Ended
<1> QED BY <1>1, <1>2, <1>3, <1>4 DEF Next

(* The invariant always holds.                                               *)
LEMMA Invariance ==
  ASSUME CarriedArchives
  PROVE  Spec => []CInv
<1>1. Init => CInv
  BY CInvInit
<1>2. CInv /\ [Next]_vars => CInv'
  BY CInvNext
<1> QED BY <1>1, <1>2, PTL DEF Spec

(***************************************************************************)
(* What is decoded                                                         *)
(***************************************************************************)
(* Full blocks first, then empty ones: the full ones are a beginning.       *)
FilledTo(a, e) ==
  /\ e \in 0..Len(a) /\ \A b \in 1..e : a[b] # <<>>
  /\ \A b \in 1..Len(a) : b > e => a[b] = <<>>

(* The blocks up to the last one that has a record.                          *)
LEMMA FilledIs ==
  ASSUME NEW T, NEW a \in Seq(Seq(T)), NEW e, FilledTo(a, e)
  PROVE  Filled(a) = SubSeq(a, 1, e) /\ Len(Filled(a)) = e
<1> DEFINE n == Len(a)
           K == {i \in DOMAIN a : a[i] # <<>>}
           p == Filled(a)
<1>1. n \in Nat /\ DOMAIN a = 1..n /\ e \in 0..n /\ e \in Nat
  BY DEF FilledTo
<1>2. \A i \in 1..n : i \in K <=> i <= e
  BY <1>1 DEF FilledTo
<1>3. Filled(a) = Picked(a, K)
  BY Zenon DEF Filled
<1> HIDE DEF K, n
<1>4. PickedOf(a, Seq(T), K, p)
  BY <1>3, PickedAre, Zenon
<1> HIDE DEF p
<1>5. p \in Seq(Seq(T)) /\ Len(p) = Rk(K, n)
      /\ \A k \in 1..n : k \in K => p[Rk(K, k)] = a[k]
  BY <1>4, Zenon DEF PickedOf, n
<1>6. Ranks(K, n)
  BY <1>1, RanksAre, Zenon
<1> DEFINE H == {k \in 0..n : k <= e => Rk(K, k) = k}
<1>7. 0 \in H
  BY <1>1, <1>6 DEF Ranks
<1>8. ASSUME NEW k \in 1..n, k - 1 \in H PROVE k \in H
  <2>1. k \in 0..n /\ k - 1 \in 0..n
    BY <1>1
  <2>2. Rk(K, k) = Rk(K, k - 1) + (IF k \in K THEN 1 ELSE 0)
    BY <1>6, Zenon DEF Ranks
  <2>3. ASSUME k <= e PROVE Rk(K, k) = k
    <3>1. k \in K /\ Rk(K, k - 1) = k - 1
      BY <2>3, <1>1, <1>2, <1>8
    <3> QED BY <3>1, <2>1, <2>2, <1>1
  <2> QED BY <2>1, <2>3
<1> HIDE DEF H
<1>9. \A k \in 1..n : k - 1 \in H => k \in H
  BY <1>8, Zenon
<1>10. \A k \in 0..n : k \in H
  BY <1>1, <1>7, <1>9, CountUp, Zenon
<1>11. \A k \in 0..e : Rk(K, k) = k
  <2>1. \A k \in 0..e : k \in 0..n /\ k <= e
    BY <1>1
  <2> QED BY <2>1, <1>10 DEF H
<1>12. Rk(K, n) = e
  <2>1. \A i \in 0..n : (\A j \in (i + 1)..n : j \notin K) => Rk(K, i) = Rk(K, n)
    <3>1. \A k \in 0..n : \A i \in 0..k : (\A j \in (i + 1)..k : j \notin K) => Rk(K, i) = Rk(K, k)
      BY <1>1, RanksGrow
    <3>2. n \in 0..n
      BY <1>1
    <3> QED BY <3>1, <3>2
  <2>2. \A j \in (e + 1)..n : j \notin K
    BY <1>1, <1>2
  <2>3. Rk(K, e) = Rk(K, n)
    BY <2>1, <2>2, <1>1
  <2>4. e \in 0..e
    BY <1>1
  <2> QED BY <2>3, <2>4, <1>11, Zenon
<1>13. Len(p) = e /\ \A k \in 1..e : p[k] = a[k]
  <2>1. \A k \in 1..e : k \in 1..n /\ k \in K /\ k \in 0..e
    BY <1>1, <1>2
  <2>2. \A k \in 1..e : p[Rk(K, k)] = a[k] /\ Rk(K, k) = k
    BY <2>1, <1>5, <1>11, Zenon
  <2> QED BY <2>2, <1>5, <1>12
<1>14. Len(SubSeq(a, 1, e)) = e /\ SubSeq(a, 1, e) \in Seq(Seq(T)) /\ \A k \in 1..e : SubSeq(a, 1, e)[k] = a[k]
  BY <1>1 DEF n
<1> DEFINE u == SubSeq(a, 1, e)
<1> HIDE DEF u
<1>15. p = u
  BY <1>5, <1>13, <1>14 DEF u
<1> QED BY <1>13, <1>15, Zenon DEF p, u

(* Where the full blocks of an archive end.                                 *)
FullEnd(a) == IF a # <<>> /\ a[Len(a)] = <<>> THEN Len(a) - 1 ELSE Len(a)

(* Only the last block of an archive can be empty.                           *)
LEMMA ArchiveIsFilled ==
  ASSUME CarriedArchives, NEW a \in Archives
  PROVE  FilledTo(a, FullEnd(a)) /\ FullEnd(a) \in Nat
<1>1. a \in Seq(Seq(Records)) /\ \A b \in 1..Len(a) : a[b] = <<>> => b = Len(a)
  BY GoodArchive, Zenon
<1>2. Len(a) \in Nat /\ (a # <<>> <=> Len(a) > 0)
  BY <1>1
<1>3. CASE a # <<>> /\ a[Len(a)] = <<>>
  <2>1. FullEnd(a) = Len(a) - 1
    BY <1>3, Zenon DEF FullEnd
  <2>2. Len(a) - 1 \in 0..Len(a) /\ Len(a) - 1 \in Nat
    BY <1>2, <1>3
  <2>3. \A b \in 1..(Len(a) - 1) : b \in 1..Len(a) /\ b # Len(a)
    BY <1>2
  <2>4. \A b \in 1..(Len(a) - 1) : a[b] # <<>>
    BY <2>3, <1>1, Zenon
  <2>5. \A b \in 1..Len(a) : b > Len(a) - 1 => b = Len(a)
    BY <1>2
  <2>6. \A b \in 1..Len(a) : b > Len(a) - 1 => a[b] = <<>>
    BY <2>5, <1>3, Zenon
  <2> QED BY <2>1, <2>2, <2>4, <2>6, Zenon DEF FilledTo
<1>4. CASE ~(a # <<>> /\ a[Len(a)] = <<>>)
  <2>1. FullEnd(a) = Len(a)
    BY <1>4, Zenon DEF FullEnd
  <2>2. Len(a) \in 0..Len(a)
    BY <1>2
  <2>3. \A b \in 1..Len(a) : a # <<>>
    BY <1>2
  <2>4. \A b \in 1..Len(a) : a[b] # <<>>
    BY <2>3, <1>1, <1>4, Zenon
  <2>5. \A b \in 1..Len(a) : ~(b > Len(a))
    BY <1>2
  <2> QED BY <2>1, <2>2, <2>4, <2>5, <1>2, Zenon DEF FilledTo
<1> QED BY <1>3, <1>4

(* The blocks decoded are the first ones, and all of them have records.     *)
LEMMA DecodedIs ==
  ASSUME CarriedArchives, CInv
  PROVE  /\ blocks \in Archives /\ blocks \in Seq(Seq(Records)) /\ FilledTo(blocks, FullEnd(blocks))
         /\ FullEnd(blocks) \in Nat /\ FullEnd(blocks) <= Len(blocks)
         /\ Len(decoded) \in Nat /\ Len(decoded) <= FullEnd(blocks)
         /\ decoded = SubSeq(blocks, 1, Len(decoded))
         /\ Filled(blocks) = SubSeq(blocks, 1, FullEnd(blocks)) /\ Len(Filled(blocks)) = FullEnd(blocks)
<1> DEFINE e == FullEnd(blocks)
           d == Len(decoded)
<1>1. blocks \in Archives /\ d \in 0..Len(blocks) /\ decoded = SubSeq(blocks, 1, d)
      /\ \A b \in 1..d : blocks[b] # <<>>
  BY Zenon DEF CInv, WInv, Done
<1>2. blocks \in Seq(Seq(Records))
  BY <1>1, GoodArchive, Zenon
<1>3. FilledTo(blocks, e) /\ e \in Nat
  BY <1>1, ArchiveIsFilled, Zenon
<1>4. Filled(blocks) = SubSeq(blocks, 1, e) /\ Len(Filled(blocks)) = e
  BY <1>2, <1>3, FilledIs, Zenon
<1> HIDE DEF e, d
<1>5. d <= e
  <2>1. e \in 0..Len(blocks) /\ \A b \in 1..Len(blocks) : b > e => blocks[b] = <<>>
    BY <1>3, Zenon DEF FilledTo
  <2> SUFFICES ASSUME d > e PROVE FALSE
    BY <1>1, <2>1
  <2>2. d \in 1..Len(blocks) /\ d \in 1..d
    BY <1>1, <2>1
  <2> QED BY <2>1, <2>2, <1>1
<1>6. d \in Nat /\ e <= Len(blocks)
  <2>1. e \in 0..Len(blocks)
    BY <1>3, Zenon DEF FilledTo
  <2> QED BY <2>1, <1>1, <1>2
<1> QED BY <1>1, <1>2, <1>3, <1>4, <1>5, <1>6, Zenon DEF e, d

(* With only empty blocks left, all the others are decoded.                 *)
LEMMA AllDecoded ==
  ASSUME CarriedArchives, CInv, \A b \in DOMAIN blocks : b > Len(decoded) => blocks[b] = <<>>
  PROVE  Len(decoded) = FullEnd(blocks)
<1> DEFINE e == FullEnd(blocks)
           d == Len(decoded)
<1>1. blocks \in Seq(Seq(Records)) /\ FilledTo(blocks, e) /\ e \in Nat /\ d \in Nat /\ d <= e
  BY DecodedIs, Zenon
<1>2. DOMAIN blocks = 1..Len(blocks) /\ Len(blocks) \in Nat
  BY <1>1
<1>3. \A b \in DOMAIN blocks : b > d => blocks[b] = <<>>
  OBVIOUS
<1> HIDE DEF e, d
<1>4. e \in 0..Len(blocks) /\ \A b \in 1..e : blocks[b] # <<>>
  BY <1>1, Zenon DEF FilledTo
<1>5. d = e
  <2> SUFFICES ASSUME d < e PROVE FALSE
    BY <1>1
  <2>1. e \in 1..e /\ e \in DOMAIN blocks /\ e > d
    BY <1>1, <1>2, <1>4
  <2> QED BY <2>1, <1>3, <1>4, Zenon
<1> QED BY <1>5 DEF e, d

(* A decoder that has stopped has decoded them all, and says so.            *)
LEMMA StoppedIs ==
  ASSUME CarriedArchives, CInv, Stopped
  PROVE  /\ AtEnd /\ stage \in {"eof", "end"} /\ written = Len(blocks)
         /\ Len(decoded) = FullEnd(blocks) /\ decoded = Filled(blocks)
<1>1. ~AtStart
  BY Zenon DEF AtStart, Stopped
<1>2. ~AtMiddle
  <2>1. SUFFICES ASSUME AtMiddle PROVE FALSE
    OBVIOUS
  <2>2. PICK block, base : Within(block, base) /\ \E k \in 2..8 : AtField(block, base, k)
    BY <2>1, Zenon DEF AtMiddle
  <2>3. PICK k \in 2..8 : AtField(block, base, k)
    BY <2>2, Zenon
  <2>4. stage = Fields[k] /\ k \in 1..8
    BY <2>3 DEF AtField
  <2> QED BY <2>4, FieldsDiffer, Zenon DEF Stopped
<1>3. AtEnd
  BY <1>1, <1>2, Zenon DEF CInv
<1>4. stage \in {"eof", "end"} /\ written = Len(blocks)
      /\ \A b \in DOMAIN blocks : b > Len(decoded) => blocks[b] = <<>>
  BY <1>3, Zenon DEF AtEnd
<1>5. Len(decoded) = FullEnd(blocks)
  BY <1>4, AllDecoded, Zenon
<1>6. decoded = SubSeq(blocks, 1, Len(decoded)) /\ Filled(blocks) = SubSeq(blocks, 1, FullEnd(blocks))
  BY DecodedIs, Zenon
<1> QED BY <1>3, <1>4, <1>5, <1>6, Zenon

(* Any archive that the format can carry is decoded as it was encoded: what  *)
(* record_decompress has decoded are always the first blocks that            *)
(* record_compress was given, and when it stops it has decoded all of them   *)
(* and stands at the end of the stream, never in an error.                   *)
THEOREM RoundTrips == CarriedArchives => (Spec => []RoundTrip)
<1> SUFFICES ASSUME CarriedArchives PROVE Spec => []RoundTrip
  OBVIOUS
<1>1. Spec => []CInv
  BY Invariance, Zenon
<1>2. CInv => RoundTrip
  <2> SUFFICES ASSUME CInv PROVE RoundTrip
    OBVIOUS
  <2>1. /\ blocks \in Seq(Seq(Records)) /\ Len(decoded) \in Nat /\ Len(decoded) <= Len(Filled(blocks))
        /\ decoded = SubSeq(blocks, 1, Len(decoded)) /\ Len(decoded) <= Len(blocks)
    <3> DEFINE e == FullEnd(blocks)
               f == Filled(blocks)
    <3>1. /\ blocks \in Seq(Seq(Records)) /\ Len(decoded) \in Nat /\ Len(decoded) <= e /\ Len(f) = e
          /\ decoded = SubSeq(blocks, 1, Len(decoded)) /\ e <= Len(blocks) /\ e \in Nat
      BY DecodedIs, Zenon
    <3> HIDE DEF e, f
    <3>2. Len(blocks) \in Nat
      BY <3>1
    <3>3. Len(decoded) <= Len(blocks)
      BY <3>1, <3>2
    <3> QED BY <3>1, <3>3 DEF f
  <2>2. \A b \in DOMAIN decoded : decoded[b] = blocks[b]
    <3> DEFINE d == Len(decoded)
    <3>1. d \in Nat /\ d <= Len(blocks)
      BY <2>1
    <3> HIDE DEF d
    <3>2. DOMAIN SubSeq(blocks, 1, d) = 1..d /\ \A b \in 1..d : SubSeq(blocks, 1, d)[b] = blocks[b]
      BY <2>1, <3>1
    <3> QED BY <3>2, <2>1, Zenon DEF d
  <2>3. Stopped => stage \in {"eof", "end"} /\ decoded = Filled(blocks)
    BY StoppedIs, Zenon
  <2> QED BY <2>1, <2>2, <2>3, Zenon DEF RoundTrip
<1> QED BY <1>1, <1>2, PTL

(* The blocks before a block take the bits their calls make.                *)
LEMMA StartsAre ==
  ASSUME CarriedArchives, NEW a \in Archives, NEW d \in 0..Len(a)
  PROVE  SumSeq(MapSeq(LAMBDA x : Size(Calls(x)), SubSeq(a, 1, d))) = StartOf(a, d)
<1> DEFINE n == Len(a)
           S == [b \in 1..n |-> Len(StreamOf(a[b]))]
<1>1. /\ a \in Seq(Seq(Records)) /\ n \in Nat
      /\ \A b \in 1..n : /\ Size(Calls(a[b])) = Len(StreamOf(a[b])) /\ StreamOf(a[b]) \in BitSeq
  <2>1. a \in Seq(Seq(Records)) /\ \A b \in 1..n : Good(a[b])
    BY GoodArchive, Zenon
  <2>2. n \in Nat
    BY <2>1
  <2>3. \A b \in 1..n : Size(Calls(a[b])) = Len(StreamOf(a[b])) /\ StreamOf(a[b]) \in BitSeq
    BY <2>1, BlockIsPiece, Zenon
  <2> QED BY <2>1, <2>2, <2>3, Zenon
<1>2. S \in Seq(Nat) /\ Len(S) = n /\ \A b \in 1..n : S[b] = Len(StreamOf(a[b]))
  <2>1. \A b \in 1..n : Len(StreamOf(a[b])) \in Nat
    <3>1. \A x \in BitSeq : Len(x) \in Nat
      BY DEF BitSeq
    <3> QED BY <3>1, <1>1, Zenon
  <2>2. \A b \in 1..n : S[b] \in Nat
    BY <2>1
  <2>3. S = [b \in 1..n |-> S[b]] /\ \A b \in 1..n : S[b] = Len(StreamOf(a[b]))
    OBVIOUS
  <2> HIDE DEF S
  <2> QED BY <2>2, <2>3, <1>1, SeqMade, Zenon
<1>3. MapSeq(LAMBDA x : Size(Calls(x)), SubSeq(a, 1, d)) = SubSeq(S, 1, d)
  <2> DEFINE u == SubSeq(a, 1, d)
             v == SubSeq(S, 1, d)
  <2>1. DOMAIN u = 1..d /\ \A i \in 1..d : u[i] = a[i]
    BY <1>1
  <2>2. v = [i \in 1..d |-> S[i]]
    <3> HIDE DEF S
    <3>1. d \in 0..Len(S)
      BY <1>2
    <3> QED BY <1>2, <3>1
  <2>3. \A i \in 1..d : i \in 1..n
    BY <1>1
  <2>4. \A i \in 1..d : Size(Calls(u[i])) = S[i]
    <3> HIDE DEF S
    <3>1. \A i \in 1..d : Size(Calls(a[i])) = S[i]
      BY <1>1, <1>2, <2>3, Zenon
    <3> QED BY <3>1, <2>1, Zenon
  <2>5. MapSeq(LAMBDA x : Size(Calls(x)), u) = [i \in 1..d |-> Size(Calls(u[i]))]
    <3> HIDE DEF u
    <3> QED BY <2>1, Zenon DEF MapSeq
  <2> HIDE DEF u, v, S
  <2>6. [i \in 1..d |-> Size(Calls(u[i]))] = [i \in 1..d |-> S[i]]
    BY <2>4, Zenon
  <2> QED BY <2>2, <2>5, <2>6, Zenon DEF u, v
<1> HIDE DEF S
<1>4. Sums(S)
  <2>1. S \in Seq(Int)
    BY <1>2
  <2> QED BY <2>1, SumsAre, Zenon
<1>5. /\ StartOf(a, 0) = 0
      /\ \A b \in 1..n : StartOf(a, b) = StartOf(a, b - 1) + Len(StreamOf(a[b]))
  BY ArchiveIsFound, Zenon DEF ArchiveFound
<1> DEFINE H == {k \in 0..n : SumTo(S, k) = StartOf(a, k)}
<1>6. 0 \in H
  BY <1>1, <1>4, <1>5 DEF Sums
<1>7. ASSUME NEW k \in 1..n, k - 1 \in H PROVE k \in H
  <2>1. SumTo(S, k - 1) = StartOf(a, k - 1) /\ k \in 0..n
    BY <1>7, <1>1
  <2>2. SumTo(S, k) = SumTo(S, k - 1) + S[k]
    BY <1>2, <1>4 DEF Sums
  <2>3. StartOf(a, k) = StartOf(a, k - 1) + S[k]
    BY <1>2, <1>5
  <2> QED BY <2>1, <2>2, <2>3
<1> HIDE DEF H
<1>8. \A k \in 1..n : k - 1 \in H => k \in H
  BY <1>7, Zenon
<1>9. d \in H
  BY <1>1, <1>6, <1>8, CountUp, Zenon
<1>10. SumTo(S, d) = StartOf(a, d)
  BY <1>9 DEF H
<1> QED BY <1>3, <1>10, Zenon DEF SumTo

(* A decoder that reads the k-th field of a block, and is not in the middle *)
(* of the substrings, is where that field was found.                        *)
LEMMA StandsAtField ==
  ASSUME CarriedArchives, CInv, NEW k \in 1..8, stage = Fields[k], k # 7,
         Len(decoded) < Len(blocks), written = Len(blocks)
  PROVE  cursor = FieldAt(blocks[Len(decoded) + 1], StartOf(blocks, Len(decoded)), k)
<1> DEFINE block == blocks[Len(decoded) + 1]
           base == StartOf(blocks, Len(decoded))
<1>1. CASE k = 1
  <2>1. cursor = base
    <3>1. stage = "counts"
      BY <1>1, FieldsDiffer
    <3> QED BY <3>1, StandsAtStart, Zenon DEF AtStart, AtBlock
  <2>2. FieldAt(block, base, 1) = base
    BY BlockIsHere, Zenon DEF BlockHere, BlockFound
  <2> QED BY <2>1, <2>2, <1>1, Zenon
<1>2. CASE k # 1
  <2>1. k \in 2..8
    BY <1>2
  <2>2. PICK c, e : Within(c, e) /\ AtField(c, e, k)
    BY <2>1, StandsAt, Zenon
  <2>3. c = block /\ e = base
    BY <2>2, Zenon DEF Within
  <2>4. Place(c, e, k)
    BY <2>2, Zenon DEF AtField
  <2> QED BY <2>3, <2>4, Zenon DEF Place
<1> QED BY <1>1, <1>2

(* The decoder never loses its place: whenever it starts a field of a block, *)
(* the cursor is where the encoder started that field, although no field but *)
(* the texts says where it ends.                                             *)
THEOREM KeepsStep == CarriedArchives => (Spec => []InStep)
<1> SUFFICES ASSUME CarriedArchives PROVE Spec => []InStep
  OBVIOUS
<1>1. Spec => []CInv
  BY Invariance, Zenon
<1>2. CInv => InStep
  <2> SUFFICES ASSUME CInv, NEW k \in DOMAIN Fields, stage = Fields[k], stage # "texts",
                      Len(decoded) < Len(blocks), written = Len(blocks)
               PROVE  cursor = FieldStart(Len(decoded) + 1, k)
    BY Zenon DEF InStep
  <2> DEFINE d == Len(decoded)
             block == blocks[d + 1]
             base == StartOf(blocks, d)
  <2>1. k \in 1..8 /\ k # 7 /\ k - 1 \in 0..8
    BY DEF Fields
  <2>2. cursor = FieldAt(block, base, k)
    BY <2>1, StandsAtField, Zenon
  <2>3. blocks \in Archives /\ d \in 0..Len(blocks)
    BY Zenon DEF CInv, WInv, Done
  <2>4. SumSeq(MapSeq(LAMBDA x : Size(Calls(x)), SubSeq(blocks, 1, d))) = base
    BY <2>3, StartsAre, Zenon
  <2>5. Good(block)
    BY BlockIsHere, Zenon DEF BlockHere
  <2>6. Size(FirstFields(block, k - 1)) = Len(FlatTo(FieldBits(block), k - 1))
    <3>1. Piece(FirstFields(block, k - 1), FlatTo(FieldBits(block), k - 1))
      BY <2>1, <2>5, FirstFieldsAre, Zenon
    <3> QED BY <3>1, PieceTyped, Zenon
  <2>7. (d + 1) - 1 = d
    BY <2>3
  <2>8. FieldStart(d + 1, k) = SumSeq(MapSeq(LAMBDA x : Size(Calls(x)), SubSeq(blocks, 1, d)))
                               + Size(FirstFields(block, k - 1))
    BY <2>7, Zenon DEF FieldStart
  <2> QED BY <2>2, <2>4, <2>6, <2>8, Zenon DEF FieldAt
<1> QED BY <1>1, <1>2, PTL

(* Where the decoder may be, and how many texts it has.                     *)
InPlace == cursor \in Nat /\ cursor <= Len(stream) /\ Len(texts) <= MethodZeros
        /\ counts.coded \in Int /\ counts.raw \in Int /\ stage \in ToSet(Fields) \cup {"eof", "end", "error", "wild"}

(* The stream is made of bits.                                               *)
LEMMA StreamTyped ==
  ASSUME CarriedArchives, CInv
  PROVE  stream \in BitSeq /\ \A i \in DOMAIN stream : stream[i] \in {0, 1}
<1>1. blocks \in Archives /\ written \in Nat /\ written <= Len(blocks) /\ stream = FlatTo(Streams(blocks), written)
  BY Zenon DEF CInv, WInv
<1>2. Streams(blocks) \in Seq(BitSeq) /\ Len(Streams(blocks)) = Len(blocks)
  BY <1>1, ArchiveIsFound, Zenon DEF ArchiveFound
<1>3. Flats(Streams(blocks), {0, 1})
  BY <1>2, FlatsAre, Zenon DEF BitSeq
<1>4. written \in 0..Len(Streams(blocks))
  BY <1>1, <1>2
<1>5. stream \in BitSeq
  BY <1>1, <1>3, <1>4, Zenon DEF Flats, BitSeq
<1> QED BY <1>5 DEF BitSeq

(* Before the methods are read no record is counted.                         *)
LEMMA NoMethods ==
  ASSUME lists.methods = <<>>
  PROVE  MethodZeros = 0
<1>1. {i \in DOMAIN lists.methods : lists.methods[i] = 0} = {}
  <2>1. DOMAIN << >> = {}
    OBVIOUS
  <2> QED BY <2>1, Zenon
<1> QED BY <1>1, FS_EmptySet, Zenon DEF MethodZeros

(* The stages, one by one.                                                   *)
LEMMA FieldsAmong == \A k \in 1..8 : Fields[k] \in ToSet(Fields)
<1>1. Len(Fields) = 8 /\ DOMAIN Fields = 1..8
  BY DEF Fields
<1> QED BY <1>1, Zenon DEF ToSet

(* Between two blocks and at the end what the decoder holds is of its type,  *)
LEMMA InPlaceAtBlock ==
  ASSUME CarriedArchives, CInv, AtStart \/ AtEnd
  PROVE  InPlace
<1>1. AtBlock
  BY Zenon DEF AtStart, AtEnd
<1>2. counts = [coded |-> 0, raw |-> 0] /\ lists = NoLists /\ texts = <<>> /\ cursor = StartOf(blocks, Len(decoded))
  BY <1>1, Zenon DEF AtBlock
<1>3. counts.coded \in Int /\ counts.raw \in Int
  BY <1>2
<1>4. Len(texts) <= MethodZeros
  <2>1. lists.methods = <<>>
    BY <1>2 DEF NoLists
  <2>2. MethodZeros = 0
    BY <2>1, NoMethods, Zenon
  <2> QED BY <2>2, <1>2
<1>5. cursor \in Nat /\ cursor <= Len(stream)
  <2>1. blocks \in Archives /\ Len(decoded) \in 0..Len(blocks) /\ decoded = SubSeq(blocks, 1, Len(decoded))
    BY Zenon DEF CInv, WInv, Done
  <2>2. ArchiveFound(blocks)
    BY <2>1, ArchiveIsFound, Zenon
  <2>3. cursor \in Nat /\ cursor <= Len(FlattenSeq(Streams(blocks))) /\ StartOf(blocks, 0) = 0
    BY <2>1, <2>2, <1>2, Zenon DEF ArchiveFound
  <2>4. CASE written = Len(blocks)
    <3>1. stream = FlattenSeq(Streams(blocks))
      BY <2>4, StreamIs, Zenon
    <3> QED BY <3>1, <2>3, Zenon
  <2>5. CASE written # Len(blocks)
    <3>1. blocks \in Seq(Seq(Records)) /\ written \in Nat /\ written <= Len(blocks)
      BY <2>1, GoodArchive, Zenon DEF CInv, WInv
    <3>2. Len(blocks) \in Nat
      BY <3>1
    <3>3. written < Len(blocks)
      BY <3>1, <3>2, <2>5
    <3>4. decoded = <<>>
      BY <3>3, <2>5, Zenon DEF AtStart, AtEnd
    <3>5. Len(decoded) = 0
      BY <3>4
    <3>6. cursor = 0
      BY <3>5, <2>3, <1>2, Zenon
    <3>7. Len(stream) \in Nat
      BY StreamTyped DEF BitSeq
    <3> QED BY <3>6, <3>7
  <2> QED BY <2>4, <2>5
<1>6. stage \in ToSet(Fields) \cup {"eof", "end", "error", "wild"}
  <2>1. stage = Fields[1] \/ stage \in {"eof", "end"}
    BY FieldsDiffer, Zenon DEF AtStart, AtEnd
  <2>2. 1 \in 1..8
    OBVIOUS
  <2>3. Fields[1] \in ToSet(Fields)
    BY <2>2, FieldsAmong, Zenon
  <2> QED BY <2>1, <2>3, Zenon
<1> QED BY <1>3, <1>4, <1>5, <1>6, Zenon DEF InPlace

(* A member of a sequence is of the sequence's type.                         *)
LEMMA OneOf ==
  ASSUME NEW T, NEW s \in Seq(T), NEW n, Len(s) = n, NEW k \in 1..n
  PROVE  s[k] \in T
<1>1. k \in 1..Len(s)
  OBVIOUS
<1> QED BY <1>1

(* and so it is within a block.                                              *)
LEMMA InPlaceInBlock ==
  ASSUME CarriedArchives, CInv, AtMiddle
  PROVE  InPlace
<1>1. PICK block, base : Within(block, base) /\ \E k \in 2..8 : AtField(block, base, k)
  BY Zenon DEF AtMiddle
<1>2. PICK k \in 2..8 : AtField(block, base, k)
  BY <1>1, Zenon
<1>3. BlockHere(block, base)
  BY <1>1, WithinIsHere, Zenon
<1>4. block \in Seq(Records) /\ stream \in BitSeq /\ BlockFound(stream, base, block)
  BY <1>3, Zenon DEF BlockHere
<1> DEFINE n == Len(Coded(block))
           P == TextPieces(block)
<1>5. n \in Nat /\ Len(RawLines(block)) \in Nat /\ P \in Seq(Seq(Byte)) /\ Len(P) = n
  <2>1. RawLines(block) \in Seq(RawRecords)
    BY <1>4, RecordsPicked, Zenon
  <2>2. Len(RawLines(block)) \in Nat
    BY <2>1
  <2> QED BY <2>2, <1>4, ListsAre, Zenon DEF ListsOf, Made
<1>6. /\ stage = Fields[k] /\ counts = CountsOf(block) /\ lists = KnownTo(block, k)
      /\ (k = 7 => TextPlace(block, base)) /\ (k # 7 => Place(block, base, k))
  BY <1>2, Zenon DEF AtField
<1>7. counts.coded \in Int /\ counts.raw \in Int
  <2>1. counts.coded = n /\ counts.raw = Len(RawLines(block))
    BY <1>6 DEF CountsOf
  <2> QED BY <2>1, <1>5
<1>8. stage \in ToSet(Fields) \cup {"eof", "end", "error", "wild"}
  <2>1. k \in 1..8
    OBVIOUS
  <2> QED BY <2>1, <1>6, FieldsAmong, Zenon
<1>9. Len(stream) \in Nat
  BY <1>4 DEF BitSeq
<1>10. FieldAt(block, base, k) \in Nat /\ FieldAt(block, base, k) <= Len(stream)
  <2> DEFINE at == FieldAt(block, base, k)
             bits == FieldBits(block)[k]
  <2>1. k \in 1..8
    OBVIOUS
  <2>2. Finds(stream, at, bits)
    BY <2>1, <1>4, Zenon DEF BlockFound
  <2>3. bits \in BitSeq
    <3>1. Good(block)
      BY <1>3, Zenon DEF BlockHere
    <3>2. Len(FieldBits(block)) = 8 /\ FieldBits(block) \in Seq(BitSeq)
      BY <3>1, FieldLists
    <3> QED BY <2>1, <3>2, OneOf, Zenon
  <2> HIDE DEF at, bits
  <2>4. Len(bits) \in Nat
    BY <2>3 DEF BitSeq
  <2>5. at \in Nat /\ at + Len(bits) <= Len(stream)
    BY <2>2 DEF Finds
  <2>6. at <= Len(stream)
    BY <2>4, <2>5, <1>9
  <2> QED BY <2>5, <2>6 DEF at
<1>11. CASE k = 2
  <2>1. lists.methods = <<>>
    BY <1>6, <1>11 DEF KnownTo
  <2>2. MethodZeros = 0
    BY <2>1, NoMethods, Zenon
  <2>3. k # 7 /\ k # 8
    BY <1>11
  <2>4. cursor = FieldAt(block, base, k) /\ texts = <<>>
    BY <2>3, <1>6, Zenon DEF Place
  <2>5. Len(texts) <= MethodZeros
    BY <2>2, <2>4
  <2> QED BY <2>4, <2>5, <1>7, <1>8, <1>10, Zenon DEF InPlace
<1>12. CASE k # 2
  <2>1. lists.methods = Methods(block)
    BY <1>6, <1>12 DEF KnownTo
  <2>2. MethodZeros = n
    BY <2>1, <1>4, MethodsCount, Zenon
  <2>3. CASE k = 7
    <3>1. lists = Known(block)
      BY <2>3, <1>6, KnownGrows, Zenon
    <3>2. TextsRead(block, base)
      BY <3>1, <1>4, TextsAreRead, Zenon
    <3>3. PICK l \in 0..n : texts = SubSeq(P, 1, l) /\ cursor = TextAt(block, base, l)
      BY <2>3, <1>6, Zenon DEF TextPlace
    <3> HIDE DEF n, P
    <3>4. Len(texts) <= MethodZeros
      <4>1. Len(SubSeq(P, 1, l)) = l
        BY <1>5
      <4> QED BY <4>1, <3>3, <2>2, <1>5
    <3>5. cursor \in Nat /\ cursor <= Len(stream)
      <4>1. CASE l = 0
        <5>1. cursor = FieldAt(block, base, k)
          BY <4>1, <3>2, <3>3, <2>3, Zenon DEF TextsRead
        <5> QED BY <5>1, <1>10, Zenon
      <4>2. CASE l # 0
        <5>1. l \in 1..n
          BY <4>2, <1>5
        <5> QED BY <5>1, <3>2, <3>3, Zenon DEF TextsRead, n
      <4> QED BY <4>1, <4>2
    <3> QED BY <3>4, <3>5, <1>7, <1>8, Zenon DEF InPlace
  <2>4. CASE k # 7
    <3>1. cursor = FieldAt(block, base, k) /\ texts = IF k = 8 THEN P ELSE <<>>
      BY <2>4, <1>6, Zenon DEF Place
    <3> HIDE DEF P, n
    <3>2. Len(texts) <= MethodZeros
      BY <3>1, <2>2, <1>5
    <3> QED BY <3>1, <3>2, <1>7, <1>8, <1>10, Zenon DEF InPlace
  <2> QED BY <2>3, <2>4
<1> QED BY <1>11, <1>12

(* The variables of the encoder and the decoder keep their types: above all, *)
(* the cursor of the decoder never leaves the stream, and it keeps no more   *)
(* texts than there are edited lines.                                        *)
THEOREM Typed == CarriedArchives => (Spec => []TypeOK)
<1> SUFFICES ASSUME CarriedArchives PROVE Spec => []TypeOK
  OBVIOUS
<1>1. Spec => []CInv
  BY Invariance, Zenon
<1>2. CInv => TypeOK
  <2> SUFFICES ASSUME CInv PROVE TypeOK
    OBVIOUS
  <2>1. InPlace
    BY InPlaceAtBlock, InPlaceInBlock, Zenon DEF CInv
  <2>2. stream \in BitSeq /\ \A i \in DOMAIN stream : stream[i] \in {0, 1}
    BY StreamTyped, Zenon
  <2>3. written \in 0..Len(blocks)
    <3>1. blocks \in Archives /\ written \in Nat /\ written <= Len(blocks)
      BY Zenon DEF CInv, WInv
    <3>2. blocks \in Seq(Seq(Records))
      BY <3>1, GoodArchive, Zenon
    <3> QED BY <3>1, <3>2
  <2>4. cursor \in 0..Len(stream)
    <3>1. Len(stream) \in Nat
      BY <2>2 DEF BitSeq
    <3> QED BY <3>1, <2>1 DEF InPlace
  <2> QED BY <2>1, <2>2, <2>3, <2>4, Zenon DEF TypeOK, InPlace
<1> QED BY <1>1, <1>2, PTL

(***************************************************************************)
(* The codec keeps the promise of the archive                              *)
(***************************************************************************)
(* The full blocks among the first ones.                                    *)
LEMMA FilledPrefix ==
  ASSUME CarriedArchives, NEW a \in Archives, NEW w \in 0..Len(a)
  PROVE  Len(Filled(SubSeq(a, 1, w))) = IF w <= FullEnd(a) THEN w ELSE FullEnd(a)
<1> DEFINE e == FullEnd(a)
           s == SubSeq(a, 1, w)
           f == IF w <= e THEN w ELSE e
<1>1. a \in Seq(Seq(Records)) /\ FilledTo(a, e) /\ e \in Nat
  BY GoodArchive, ArchiveIsFilled, Zenon
<1> HIDE DEF e
<1>2. w \in Nat /\ s \in Seq(Seq(Records)) /\ Len(s) = w /\ \A b \in 1..w : s[b] = a[b]
  BY <1>1
<1> HIDE DEF s
<1>3. FilledTo(s, f)
  <2>1. /\ e \in 0..Len(a) /\ \A b \in 1..e : a[b] # <<>>
        /\ \A b \in 1..Len(a) : b > e => a[b] = <<>>
    BY <1>1, Zenon DEF FilledTo
  <2>2. f \in 0..w /\ (\A b \in 1..f : b \in 1..e /\ b \in 1..w)
        /\ \A b \in 1..w : b > f => b > e /\ b \in 1..Len(a)
    BY <1>1, <1>2, <2>1
  <2> HIDE DEF f
  <2>3. (\A b \in 1..f : s[b] # <<>>) /\ \A b \in 1..w : b > f => s[b] = <<>>
    BY <1>2, <2>1, <2>2, Zenon
  <2> QED BY <1>2, <2>2, <2>3, Zenon DEF FilledTo
<1> HIDE DEF f
<1>4. Len(Filled(s)) = f
  BY <1>2, <1>3, FilledIs, Zenon
<1> QED BY <1>4, Zenon DEF s, f, e

Durable == Len(Filled(SubSeq(blocks, 1, written)))
Closed == IF written = Len(blocks) THEN "complete" ELSE "no"
Verdict == IF ~Stopped THEN "none" ELSE IF stage \in {"eof", "end"} THEN "success" ELSE "refused"

(* The initial states are those of the promise.                              *)
LEMMA InitRefines ==
  ASSUME Init, CarriedArchives
  PROVE  Promise!ArchiveInit
<1>1. blocks \in Archives /\ written = 0 /\ stage = "counts" /\ decoded = <<>>
  BY DEF Init
<1>2. blocks \in Seq(Seq(Records)) /\ blocks # <<>>
  BY <1>1, ArchivesAssumption
<1>3. Filled(blocks) \in Contents
  BY <1>1, Zenon DEF Contents
<1>4. Len(blocks) \in Nat /\ Len(blocks) # 0 /\ 0 \in 0..Len(blocks)
  BY <1>2
<1>5. Durable = 0
  <2>1. Len(Filled(SubSeq(blocks, 1, 0))) = IF 0 <= FullEnd(blocks) THEN 0 ELSE FullEnd(blocks)
    BY <1>1, <1>4, FilledPrefix, Zenon
  <2>2. FullEnd(blocks) \in Nat
    BY <1>1, ArchiveIsFilled, Zenon
  <2>3. Len(Filled(SubSeq(blocks, 1, 0))) = 0
    BY <2>1, <2>2
  <2> QED BY <2>3, <1>1, Zenon DEF Durable
<1>6. Closed = "no"
  BY <1>1, <1>4 DEF Closed
<1>7. Verdict = "none"
  BY <1>1 DEF Verdict, Stopped
<1> QED BY <1>1, <1>3, <1>5, <1>6, <1>7 DEF Promise!ArchiveInit, Durable, Closed, Verdict

(* When all is appended, what is durable is all there is.                   *)
LEMMA DurableIs ==
  ASSUME CarriedArchives, CInv
  PROVE  /\ Durable = IF written <= FullEnd(blocks) THEN written ELSE FullEnd(blocks)
         /\ written = Len(blocks) => Durable = FullEnd(blocks)
<1>1. blocks \in Archives /\ written \in Nat /\ written <= Len(blocks)
  BY Zenon DEF CInv, WInv
<1>2. blocks \in Seq(Seq(Records)) /\ FullEnd(blocks) \in Nat /\ FullEnd(blocks) <= Len(blocks)
  BY DecodedIs, Zenon
<1>3. written \in 0..Len(blocks)
  BY <1>1, <1>2
<1>4. Durable = IF written <= FullEnd(blocks) THEN written ELSE FullEnd(blocks)
  BY <1>1, <1>3, FilledPrefix, Zenon DEF Durable
<1>5. written = Len(blocks) => Durable = FullEnd(blocks)
  BY <1>1, <1>2, <1>4
<1> QED BY <1>4, <1>5, Zenon

(* A step that leaves the blocks and the verdict is a stutter of the         *)
(* promise.                                                                  *)
LEMMA Stutters ==
  ASSUME UNCHANGED <<blocks, written, decoded>>, Verdict' = Verdict
  PROVE  UNCHANGED Promise!archiveVars
<1>1. Durable' = Durable /\ Closed' = Closed /\ Filled(blocks)' = Filled(blocks)
  BY DEF Durable, Closed
<1> QED BY <1>1, Zenon DEF Promise!archiveVars, Durable, Closed, Verdict

(* Appending a block is an append of the promise,                            *)
LEMMA AppendRefines ==
  ASSUME CarriedArchives, CInv, AppendBlock
  PROVE  Promise!ArchiveNext
<1> DEFINE e == FullEnd(blocks)
           w == written
           n == Len(blocks)
<1>1. /\ w < n /\ written' = w + 1
      /\ UNCHANGED <<blocks, stage, decoded>>
  BY DEF AppendBlock
<1>2. blocks \in Archives /\ w \in Nat
  BY Zenon DEF CInv, WInv
<1>3. blocks \in Seq(Seq(Records)) /\ e \in Nat /\ e <= n /\ Len(Filled(blocks)) = e
  BY DecodedIs, Zenon
<1>4. n \in Nat /\ w + 1 \in 0..n
  <2>1. n \in Nat
    BY <1>3
  <2> QED BY <2>1, <1>1, <1>2
<1>5. Durable = IF w <= e THEN w ELSE e
  BY DurableIs, Zenon
<1>6. Durable' = IF w + 1 <= e THEN w + 1 ELSE e
  <2>1. Len(Filled(SubSeq(blocks, 1, w + 1))) = IF w + 1 <= e THEN w + 1 ELSE e
    BY <1>2, <1>4, FilledPrefix, Zenon
  <2> QED BY <2>1, <1>1, Zenon DEF Durable
<1>7. UNCHANGED Verdict /\ Closed = "no" /\ Closed' = IF w + 1 = n THEN "complete" ELSE "no"
  <2>1. UNCHANGED Verdict
    BY <1>1 DEF Verdict, Stopped
  <2>2. w # n
    BY <1>1, <1>2, <1>4
  <2>3. Closed = "no"
    BY <2>2, Zenon DEF Closed
  <2>4. Closed' = IF w + 1 = n THEN "complete" ELSE "no"
    BY <1>1, Zenon DEF Closed
  <2> QED BY <2>1, <2>3, <2>4, Zenon
<1>8. UNCHANGED Filled(blocks) /\ UNCHANGED decoded
  BY <1>1, Zenon
<1> HIDE DEF e, w, n
<1>9. Durable' \in Durable..e
  BY <1>2, <1>3, <1>4, <1>5, <1>6
<1>10. CASE w + 1 = n
  <2>1. Durable' = e
    BY <1>10, <1>2, <1>3, <1>4, <1>6
  <2>2. Promise!Close
    BY <2>1, <1>3, <1>7, <1>8, <1>9, <1>10, Zenon DEF Promise!Close, Durable, Closed, Verdict
  <2> QED BY <2>2, Zenon DEF Promise!ArchiveNext
<1>11. CASE w + 1 # n
  <2>1. Promise!Store
    BY <1>3, <1>7, <1>8, <1>9, <1>11, Zenon DEF Promise!Store, Durable, Closed, Verdict
  <2> QED BY <2>1, Zenon DEF Promise!ArchiveNext
<1> QED BY <1>10, <1>11

(* reading its last field delivers it,                                       *)
LEMMA RawsRefines ==
  ASSUME CarriedArchives, CInv, DecodeRaws
  PROVE  Promise!ArchiveNext
<1> DEFINE e == FullEnd(blocks)
           d == Len(decoded)
           f == Filled(blocks)
<1>1. /\ decoded' = Append(decoded, blocks[d + 1]) /\ d < Len(blocks) /\ stage' = "counts"
      /\ blocks[d + 1] # <<>>
  BY RawsStep, Zenon
<1>2. written = Len(blocks) /\ stage = "raws" /\ UNCHANGED <<blocks, written>>
  BY DEF DecodeRaws, Reading
<1>3. /\ blocks \in Seq(Seq(Records)) /\ FilledTo(blocks, e) /\ e \in Nat /\ d \in Nat /\ d <= e
      /\ e <= Len(blocks) /\ f = SubSeq(blocks, 1, e)
  BY DecodedIs, Zenon
<1>4. Durable = e
  BY <1>2, DurableIs, Zenon
<1> HIDE DEF e, d, f
<1>5. d < e
  <2>1. Len(blocks) \in Nat /\ \A b \in 1..Len(blocks) : b > e => blocks[b] = <<>>
    BY <1>3 DEF FilledTo
  <2> SUFFICES ASSUME ~(d < e) PROVE FALSE
    OBVIOUS
  <2>2. d + 1 \in 1..Len(blocks) /\ d + 1 > e
    BY <2>1, <1>1, <1>3
  <2> QED BY <2>1, <2>2, <1>1, Zenon
<1>6. f[d + 1] = blocks[d + 1]
  BY <1>3, <1>5
<1>7. Verdict = "none" /\ Verdict' = "none" /\ Closed = "complete" /\ Closed' = Closed /\ Durable' = Durable
  <2>1. Verdict = "none" /\ Verdict' = "none"
    BY <1>1, <1>2 DEF Verdict, Stopped
  <2>2. Closed = "complete"
    BY <1>2, Zenon DEF Closed
  <2>3. Closed' = Closed /\ Durable' = Durable
    BY <1>2, Zenon DEF Closed, Durable
  <2> QED BY <2>1, <2>2, <2>3, Zenon
<1>8. UNCHANGED Filled(blocks)
  BY <1>2, Zenon
<1>9. Closed # "no" /\ Len(decoded) < Durable /\ decoded' = Append(decoded, Filled(blocks)[Len(decoded) + 1])
  <2>1. Closed # "no"
    BY <1>7
  <2>2. d < Durable
    BY <1>4, <1>5, Zenon
  <2>3. decoded' = Append(decoded, f[d + 1])
    BY <1>1, <1>6, Zenon
  <2> QED BY <2>1, <2>2, <2>3, Zenon DEF d, f
<1>10. Promise!Restore
  BY <1>7, <1>8, <1>9, Zenon DEF Promise!Restore, Durable, Closed, Verdict
<1> QED BY <1>10, Zenon DEF Promise!ArchiveNext

(* A step that stops has decoded every block.                               *)
LEMMA StopRefines ==
  ASSUME CarriedArchives, CInv, CInv', UNCHANGED <<blocks, written, decoded>>, written = Len(blocks), ~Stopped
  PROVE  Promise!ArchiveNext \/ UNCHANGED Promise!archiveVars
<1>1. CASE ~(Stopped')
  <2>1. Verdict = "none" /\ Verdict' = "none"
    BY <1>1, Zenon DEF Verdict
  <2>2. Verdict' = Verdict
    BY <2>1, Zenon
  <2> QED BY <2>2, Stutters, Zenon
<1>2. CASE Stopped'
  <2>1. ~(AtStart')
    BY <1>2, Zenon DEF AtStart, Stopped
  <2>2. ~(AtMiddle')
    <3>1. SUFFICES ASSUME AtMiddle' PROVE FALSE
      OBVIOUS
    <3>2. PICK block, base : \E k \in 2..8 : AtField(block, base, k)'
      BY <3>1, Zenon DEF AtMiddle
    <3>3. PICK k \in 2..8 : AtField(block, base, k)'
      BY <3>2, Zenon
    <3>4. stage' = Fields[k] /\ k \in 1..8
      BY <3>3 DEF AtField
    <3> QED BY <3>4, <1>2, FieldsDiffer, Zenon DEF Stopped
  <2>3. AtEnd'
    BY <2>1, <2>2, Zenon DEF CInv
  <2>4. stage' \in {"eof", "end"} /\ \A b \in DOMAIN blocks : b > Len(decoded) => blocks[b] = <<>>
    <3>1. stage' \in {"eof", "end"} /\ \A b \in DOMAIN blocks' : b > Len(decoded') => blocks'[b] = <<>>
      BY <2>3, Zenon DEF AtEnd
    <3>2. blocks' = blocks /\ decoded' = decoded
      OBVIOUS
    <3> QED BY <3>1, <3>2, Zenon
  <2>5. Len(decoded) = FullEnd(blocks)
    BY <2>4, AllDecoded, Zenon
  <2>6. Len(decoded) = Durable
    BY <2>5, DurableIs, Zenon
  <2>7. Verdict = "none" /\ Verdict' = "success"
    <3>1. Verdict = "none"
      BY Zenon DEF Verdict
    <3>2. Verdict' = "success"
      BY <1>2, <2>4, Zenon DEF Verdict
    <3> QED BY <3>1, <3>2
  <2>8. Closed # "no" /\ UNCHANGED <<Durable, Closed, Filled(blocks), decoded>>
    <3>1. Closed = "complete"
      BY Zenon DEF Closed
    <3>2. UNCHANGED <<Durable, Closed, Filled(blocks), decoded>>
      BY DEF Durable, Closed
    <3> QED BY <3>1, <3>2
  <2>9. Durable' = Durable /\ Closed' = Closed /\ Filled(blocks)' = Filled(blocks) /\ decoded' = decoded
    BY <2>8
  <2>10. Promise!Succeed
    BY <2>6, <2>7, <2>8, <2>9, Zenon DEF Promise!Succeed, Durable, Closed, Verdict
  <2> QED BY <2>10, Zenon DEF Promise!ArchiveNext
<1> QED BY <1>1, <1>2

(* so every step is one of the promise or a stutter.                         *)
LEMMA StepRefines ==
  ASSUME CarriedArchives, CInv, CInv', [Next]_vars
  PROVE  [Promise!ArchiveNext]_(Promise!archiveVars)
<1>1. CASE AppendBlock
  BY <1>1, AppendRefines, Zenon
<1>2. CASE DecodeRaws
  BY <1>2, RawsRefines, Zenon
<1>3. CASE \/ DecodeCounts \/ DecodeMethods \/ DecodeBegins \/ DecodeSizes \/ DecodeLengths
           \/ DecodePositions \/ DecodeTexts
  <2>1. \E field \in {"counts", "methods", "begins", "sizes", "lengths", "positions", "texts"} : Reading(field)
    BY <1>3 DEF DecodeCounts, DecodeMethods, DecodeBegins, DecodeSizes, DecodePacked, DecodeLengths,
        DecodePositions, DecodeTexts
  <2>2. UNCHANGED decoded
    BY <1>3, Zenon DEF DecodeCounts, DecodeMethods, DecodeBegins, DecodeSizes, DecodePacked, DecodeLengths,
          DecodePositions, DecodeTexts, Stop
  <2>3. written = Len(blocks) /\ UNCHANGED <<blocks, written, decoded>> /\ ~Stopped
    BY <2>1, <2>2 DEF Reading, Stopped
  <2> QED BY <2>3, StopRefines, Zenon
<1>4. CASE UNCHANGED vars
  <2>1. UNCHANGED <<blocks, written, decoded>> /\ UNCHANGED stage
    BY <1>4 DEF vars
  <2>2. Verdict' = Verdict
    BY <2>1 DEF Verdict, Stopped
  <2> QED BY <2>1, <2>2, Stutters, Zenon
<1>5. CASE Ended
  BY <1>4, <1>5 DEF Ended
<1> QED BY <1>1, <1>2, <1>3, <1>4, <1>5 DEF Next, Decode

(* The encoder and the decoder of blocks implement the archive that          *)
(* LineArchive promises, with blocks for lines: blocks become durable in     *)
(* their order, the archive is closed after the last one, and from a closed  *)
(* archive record_decompress hands them back one by one, in their order, and *)
(* reports success when it has handed back all of them.                      *)
THEOREM Implements == CarriedArchives => (Spec => ImplementsArchive)
<1> SUFFICES ASSUME CarriedArchives PROVE Spec => ImplementsArchive
  OBVIOUS
<1>1. Spec => []CInv
  BY Invariance, Zenon
<1>2. Init => Promise!ArchiveInit
  BY InitRefines, Zenon
<1>3. CInv /\ CInv' /\ [Next]_vars => [Promise!ArchiveNext]_(Promise!archiveVars)
  BY StepRefines, Zenon
<1> QED BY <1>1, <1>2, <1>3, PTL DEF Spec, ImplementsArchive, Promise!ArchiveSpec
====================================================================================
